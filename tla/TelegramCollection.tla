-------------------------- MODULE TelegramCollection --------------------------
(***************************************************************************)
(* The two ways a Telegram message reaches the job queue: the public       *)
(* monitor reads the page of its channel (SocialMonitor with Source        *)
(* "telegram"), and the realtime monitor (telegram/realtime.py) receives   *)
(* it from the account's own session.  Both pass what they observe to      *)
(* NarrativeCollector.accept_telegram.                                     *)
(*                                                                         *)
(* The session hands the messages of the channels it watches to on_message *)
(* one after the other (sequential_updates).  What is sent while it is     *)
(* not connected never arrives (catch_up is off).                          *)
(***************************************************************************)
EXTENDS SocialMonitor, Sequences

CONSTANT Spaced \* posts whose text the page shows with its white space folded

ASSUME CollectionAssumption == Spaced \subseteq Nat /\ Source = "telegram"

VARIABLES watched, \* the channels resolved by this connection, {} without one
          inbox,   \* the messages received and not yet dealt with
          tries,   \* how often the delivery of the first has failed
          status,  \* TelegramRealtimeHealth.status
          dropped  \* the messages given up on since the connection was made

realtime == <<watched, inbox, tries, status, dropped>>
collectionVars == <<monitorVars, realtime>>

CollectionInit ==
  /\ MonitorInit
  /\ watched = {}
  /\ inbox = <<>>
  /\ tries = 0
  /\ status = "starting"
  /\ dropped = {}

\* event_post keeps the text as it was sent, _clean_text of the page's parser
\* folds its white space: the first never equals a content of the page.
RawContent(i) == IF i \in Spaced THEN MaxEdits + 1 ELSE 0

-----------------------------------------------------------------------------
(* The connection *)

\* _connected_run up to run_until_disconnected: some channels may be unknown to
\* the account or not joined.
Connect ==
  /\ watched = {}
  /\ watched' \in SUBSET Targets \ {{}}
  /\ status' = IF watched' = Targets THEN "live" ELSE "degraded"
  /\ dropped' = {}
  /\ UNCHANGED <<inbox, tries, monitorVars>>

ConnectFails ==
  /\ watched = {}
  /\ status' = "degraded"
  /\ UNCHANGED <<watched, inbox, tries, dropped, monitorVars>>

\* The loop of asyncio ends with the connection, and with it what it was doing.
Disconnect ==
  /\ watched # {}
  /\ watched' = {}
  /\ inbox' = <<>>
  /\ tries' = 0
  /\ status' = "degraded"
  /\ UNCHANGED <<dropped, monitorVars>>

\* A message is sent, and received when its channel is watched.
Send(t) ==
  /\ Publish(t)
  /\ inbox' = IF t \in watched
              THEN Append(inbox, [target |-> t, post |-> published'[t]])
              ELSE inbox
  /\ UNCHANGED <<watched, tries, status, dropped>>

-----------------------------------------------------------------------------
(* on_message and _deliver *)

MaxTries == 3

Dealt == inbox' = Tail(inbox) /\ tries' = 0

Deliver ==
  /\ inbox # <<>>
  /\ LET t == Head(inbox).target
         i == Head(inbox).post
     IN /\ queued[t][i] \in {None, RawContent(i)}
        /\ queued' = [queued EXCEPT ![t][i] = RawContent(i)]
  /\ Dealt
  /\ UNCHANGED <<world, files, cycle, history, watched, status, dropped>>

\* JobContentConflict, or the queue is busy: tried again a little later.
DeliveryFails ==
  /\ inbox # <<>>
  /\ tries + 1 < MaxTries
  /\ tries' = tries + 1
  /\ UNCHANGED <<monitorVars, watched, inbox, status, dropped>>

\* Forgets to report the message it gives up on.
SlipGiveUp ==
  /\ inbox # <<>>
  /\ tries + 1 = MaxTries
  /\ Dealt
  /\ dropped' = dropped \cup {Head(inbox)}
  /\ UNCHANGED <<monitorVars, watched, status>>

GiveUp ==
  /\ inbox # <<>>
  /\ tries + 1 = MaxTries
  /\ Dealt
  /\ status' = "degraded"
  /\ dropped' = dropped \cup {Head(inbox)}
  /\ UNCHANGED <<monitorVars, watched>>

RealtimeStep == Connect \/ ConnectFails \/ Disconnect \/ Deliver \/ DeliveryFails \/ GiveUp

-----------------------------------------------------------------------------

\* The process dies and is started again.
RestartAll ==
  /\ Restart
  /\ watched' = {}
  /\ inbox' = <<>>
  /\ tries' = 0
  /\ status' = "starting"
  /\ dropped' = {}

CollectionNext ==
  \/ \E t \in Targets :
       \/ Send(t)
       \/ /\ Delete(t) \/ Age(t) \/ Edit(t) \/ MonitorStep(t)
          /\ UNCHANGED realtime
  \/ RealtimeStep
  \/ RestartAll

CollectionSpec == CollectionInit /\ [][CollectionNext]_collectionVars

-----------------------------------------------------------------------------
(* Properties *)

\* The health the dashboard shows can be believed: while it says "live", every
\* channel is watched and every message of this connection is in the queue or
\* still on its way there.
LiveMissesNothing ==
  status = "live" =>
    /\ watched = Targets
    /\ \A m \in dropped : Queued(m.target, m.post)

\* "Persist realtime or public Telegram observations idempotently"
\* (collection.py:130): a message that nobody has edited is never refused
\* because it is in the queue already.
ObservedIdempotently ==
  \A t \in Targets : \A i \in Posts :
    Turn(t, i) /\ Queued(t, i) /\ edits[t][i] = 0 => queued[t][i] = Reading(t, i)
=============================================================================
