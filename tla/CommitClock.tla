---------------------------- MODULE CommitClock ----------------------------
(***************************************************************************)
(* The clock of the v6 ledger (LedgerCore in v6/ledger/database.py).  The  *)
(* outermost write takes the next commit number and stamps everything it   *)
(* inserts with one commit time: the wall clock, or one unit after the     *)
(* previous commit when the wall clock has not moved past it.  The wall    *)
(* clock may be set back.                                                  *)
(***************************************************************************)
EXTENDS Naturals

CONSTANTS MaxTime,    \* bound on the wall clock
          MaxBack,    \* how often the wall clock may be set back
          MaxCommits  \* bound on the commits

ASSUME ClockAssumption ==
  /\ MaxTime \in Nat \ {0}
  /\ MaxBack \in Nat
  /\ MaxCommits \in Nat

VARIABLES clock,   \* the wall clock
          latest,  \* the latest time it has ever shown
          setBack, \* how often it has been set back
          last     \* number and time of the last commit, 0 before the first

clockVars == <<clock, latest, setBack, last>>

ClockInit ==
  /\ clock = 1
  /\ latest = 1
  /\ setBack = 0
  /\ last = [seq |-> 0, at |-> 0]

Tick ==
  /\ clock < MaxTime
  /\ clock' = clock + 1
  /\ latest' = IF latest < clock + 1 THEN clock + 1 ELSE latest
  /\ UNCHANGED <<setBack, last>>

SetBack ==
  /\ setBack < MaxBack
  /\ setBack' = setBack + 1
  /\ clock' \in 1..(clock - 1)
  /\ UNCHANGED <<latest, last>>

-----------------------------------------------------------------------------
(* The stamp of the next commit *)

\* Numbers the commit as the one before.
SlipNumber == [seq |-> last.seq,
               at  |-> IF clock > last.at THEN clock ELSE last.at + 1]

\* Takes the wall clock as it is.
SlipStamp == [seq |-> last.seq + 1, at |-> clock]

Stamp == [seq |-> last.seq + 1,
          at  |-> IF clock > last.at THEN clock ELSE last.at + 1]

MayCommit == last.seq < MaxCommits

CommitWith(stamp) ==
  /\ last' = stamp
  /\ UNCHANGED <<clock, latest, setBack>>

ClockTypeOK ==
  /\ clock \in 1..MaxTime
  /\ latest \in clock..MaxTime
  /\ setBack \in 0..MaxBack
  /\ last.seq \in 0..MaxCommits
  /\ last.at \in 0..(MaxTime + MaxCommits)
=============================================================================
