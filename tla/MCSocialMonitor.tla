-------------------------- MODULE MCSocialMonitor --------------------------
(***************************************************************************)
(* Small instances of SocialMonitor for TLC.                               *)
(***************************************************************************)
EXTENDS SocialMonitor

CONSTANTS t1
=============================================================================
