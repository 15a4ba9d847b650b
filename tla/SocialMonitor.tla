---------------------------- MODULE SocialMonitor ----------------------------
(***************************************************************************)
(* The polling monitors of public posts, NarrativeMonitor for X            *)
(* (narrative/monitor.py) and TelegramNarrativeMonitor for Telegram        *)
(* (narrative/telegram_monitor.py): read a page of the newest posts of an  *)
(* account, accept into the job queue those after the checkpoint, oldest   *)
(* first, then save the checkpoint to a JSON file.  The two differ in the  *)
(* checkpoint they save.  The posts of a target are numbered in the order  *)
(* of their ids; posts are edited and deleted by others at any time.       *)
(*                                                                         *)
(* A cycle of monitor_once treats its targets one after the other and      *)
(* shares nothing among them but the files; here each target has a cycle   *)
(* of its own, and a target is polled again at any time, not after its     *)
(* interval.  XTimelineClient.poll asks for what is newer than the         *)
(* checkpoint; the page here also holds older posts, and Fresh drops them. *)
(***************************************************************************)
EXTENDS Naturals, FiniteSets, FiniteSetsExt

CONSTANTS Source,      \* "x" or "telegram"
          Targets,     \* the accounts or channels monitored
          PageSize,    \* posts on a page: 20 of X, the length of t.me/s
          ReplayLimit, \* initial_replay_limit
          MaxPosts,    \* bound on the posts of a target
          MaxEdits,    \* bound on the edits of a post
          None

ASSUME MonitorAssumption ==
  /\ Source \in {"x", "telegram"}
  /\ PageSize \in Nat \ {0}
  /\ ReplayLimit \in 1..20
  /\ MaxPosts \in Nat
  /\ MaxEdits \in Nat
  /\ None \notin Nat

VARIABLES published, \* number of posts of each target so far
          gone,      \* posts deleted since
          aged,      \* posts 1..aged are older than the replay window
          edits,     \* how often each post has been edited
          saved,     \* the checkpoint file: a post number, 0 for "no post", None
          known,     \* the copy of the file the store keeps in memory
          queued,    \* the content under which each post is in the job queue
          cycle,     \* what the running cycle of each target has read and done
          skipped,   \* posts left out by the first-start rule
          stale,     \* posts too old for that rule before there was a checkpoint
          pushedOff  \* posts pushed off the page before they were queued

world == <<published, gone, aged, edits>>
files == <<saved, known>>
history == <<skipped, stale, pushedOff>>
monitorVars == <<world, files, queued, cycle, history>>

Posts == 1..MaxPosts

\* Between two cycles; otherwise `previous` is the checkpoint that was loaded,
\* `page` the posts fetched with their content, `todo` those still to accept.
Idle == [stage |-> "idle", previous |-> None, page |-> <<>>, todo |-> {}]

MonitorInit ==
  /\ published = [t \in Targets |-> 0]
  /\ gone = [t \in Targets |-> {}]
  /\ aged = [t \in Targets |-> 0]
  /\ edits = [t \in Targets |-> [i \in Posts |-> 0]]
  /\ saved = [t \in Targets |-> None]
  /\ known = [t \in Targets |-> None]
  /\ queued = [t \in Targets |-> [i \in Posts |-> None]]
  /\ cycle = [t \in Targets |-> Idle]
  /\ skipped = [t \in Targets |-> {}]
  /\ stale = [t \in Targets |-> {}]
  /\ pushedOff = [t \in Targets |-> {}]

-----------------------------------------------------------------------------
(* The outside world *)

Visible(t) == (1..published[t]) \ gone[t]

Newest(posts, n) == {i \in posts : Cardinality({k \in posts : k > i}) < n}

OnPage(t) == Newest(Visible(t), PageSize)

Queued(t, i) == queued[t][i] # None

Publish(t) ==
  /\ published[t] < MaxPosts
  /\ published' = [published EXCEPT ![t] = @ + 1]
  /\ pushedOff' = [pushedOff EXCEPT ![t] = @ \cup
       {i \in OnPage(t) :
         ~Queued(t, i) /\ i \notin Newest(Visible(t) \cup {published[t] + 1}, PageSize)}]
  /\ UNCHANGED <<gone, aged, edits, files, queued, cycle, skipped, stale>>

Delete(t) ==
  /\ \E i \in Visible(t) : gone' = [gone EXCEPT ![t] = @ \cup {i}]
  /\ UNCHANGED <<published, aged, edits, files, queued, cycle, history>>

Age(t) ==
  /\ aged[t] < published[t]
  /\ aged' = [aged EXCEPT ![t] = @ + 1]
  /\ UNCHANGED <<published, gone, edits, files, queued, cycle, history>>

Edit(t) ==
  /\ \E i \in Visible(t) :
       /\ edits[t][i] < MaxEdits
       /\ edits' = [edits EXCEPT ![t][i] = @ + 1]
  /\ UNCHANGED <<published, gone, aged, files, queued, cycle, history>>

World == \E t \in Targets : Publish(t) \/ Delete(t) \/ Age(t) \/ Edit(t)

-----------------------------------------------------------------------------
(* One cycle *)

Stage(t) == cycle[t].stage
Previous(t) == cycle[t].previous
Page(t) == cycle[t].page
OnItsPage(t) == DOMAIN Page(t)
Todo(t) == cycle[t].todo

\* The page is fetched: TimelinePoller.poll or TelegramPoller.poll.
Poll(t) ==
  /\ Stage(t) = "idle"
  /\ cycle' = [cycle EXCEPT ![t] =
       [stage |-> "polled", previous |-> known[t],
        page |-> [i \in OnPage(t) |-> edits[t][i]], todo |-> {}]]
  /\ UNCHANGED <<world, files, queued, history>>

\* inside_initial_window
Recent(t) == {i \in OnItsPage(t) : i > aged[t]}

\* Drops the first-start rule: whatever is on the first page is new.
SlipFresh(t) == {i \in OnItsPage(t) : Previous(t) = None \/ i > Previous(t)}

\* bounded_initial_replay when nothing has been saved yet, else what the
\* checkpoint has not passed.
Fresh(t) ==
  IF Previous(t) = None THEN Newest(Recent(t), ReplayLimit)
  ELSE {i \in OnItsPage(t) : i > Previous(t)}

Select(t) ==
  /\ Stage(t) = "polled"
  /\ cycle' = [cycle EXCEPT ![t].stage = "accepting", ![t].todo = Fresh(t)]
  /\ IF Previous(t) = None
     THEN /\ skipped' = [skipped EXCEPT ![t] = @ \cup (OnItsPage(t) \ Fresh(t))]
          /\ stale' = [stale EXCEPT ![t] =
               @ \cup {i \in OnItsPage(t) \ Recent(t) :
                      saved[t] = None /\ ~Queued(t, i)}]
     ELSE UNCHANGED <<skipped, stale>>
  /\ UNCHANGED <<world, files, queued, pushedOff>>

\* The content of a post as the page shows it.
Reading(t, i) == Page(t)[i]

\* The oldest post still to accept is passed to enqueue.
Turn(t, i) == Stage(t) = "accepting" /\ Todo(t) # {} /\ i = Min(Todo(t))

\* enqueue stores an unknown post and takes a known one with the same content.
Accept(t, i) ==
  /\ Turn(t, i)
  /\ queued[t][i] \in {None, Reading(t, i)}
  /\ queued' = [queued EXCEPT ![t][i] = Reading(t, i)]
  /\ cycle' = [cycle EXCEPT ![t].todo = @ \ {i}]
  /\ UNCHANGED <<world, files, history>>

\* The failure is recorded, and the checkpoint stays where it was.
Fails(t) ==
  /\ cycle' = [cycle EXCEPT ![t] = Idle]
  /\ UNCHANGED <<world, files, queued, history>>

\* A known post with another content raises JobContentConflict.
Conflict(t, i) ==
  /\ Turn(t, i)
  /\ queued[t][i] \notin {None, Reading(t, i)}
  /\ Fails(t)

\* The request fails, or the database of the queue is busy or closed.
Trouble(t) ==
  /\ Stage(t) = "polled" \/ Todo(t) # {}
  /\ Fails(t)

Latest(t) == IF Previous(t) = None THEN 0 ELSE Previous(t)

\* Takes the checkpoint for the first post to read next.
SlipNextCheckpoint(t) == Max({Latest(t)} \cup {i + 1 : i \in OnItsPage(t)})

\* XTimelineClient.poll never steps back; TelegramPublicClient.poll takes the
\* newest post of the page, and the checkpoint only when the page is empty.
NextCheckpoint(t) ==
  IF Source = "x" THEN Max({Latest(t)} \cup OnItsPage(t))
  ELSE IF OnItsPage(t) = {} THEN Latest(t) ELSE Max(OnItsPage(t))

\* Saves what is fetched before all of it is accepted.
SlipSave(t) ==
  /\ Stage(t) = "accepting"
  /\ saved' = [saved EXCEPT ![t] = NextCheckpoint(t)]
  /\ known' = [known EXCEPT ![t] = NextCheckpoint(t)]
  /\ cycle' = [cycle EXCEPT ![t] = Idle]
  /\ UNCHANGED <<world, queued, history>>

Save(t) ==
  /\ Stage(t) = "accepting"
  /\ Todo(t) = {}
  /\ saved' = [saved EXCEPT ![t] = NextCheckpoint(t)]
  /\ known' = [known EXCEPT ![t] = NextCheckpoint(t)]
  /\ cycle' = [cycle EXCEPT ![t] = Idle]
  /\ UNCHANGED <<world, queued, history>>

\* The write fails before os.replace, or after it: then the file is new and the
\* copy in memory old.
SaveFails(t) ==
  /\ Stage(t) = "accepting"
  /\ Todo(t) = {}
  /\ saved' \in {saved, [saved EXCEPT ![t] = NextCheckpoint(t)]}
  /\ cycle' = [cycle EXCEPT ![t] = Idle]
  /\ UNCHANGED <<world, known, queued, history>>

\* The process dies and is started again: the store reads its file.
Restart ==
  /\ known' = saved
  /\ cycle' = [t \in Targets |-> Idle]
  /\ UNCHANGED <<world, saved, queued, history>>

MonitorStep(t) ==
  \/ Poll(t) \/ Select(t) \/ Trouble(t) \/ Save(t) \/ SaveFails(t)
  \/ \E i \in Posts : Accept(t, i) \/ Conflict(t, i)

MonitorNext == World \/ Restart \/ \E t \in Targets : MonitorStep(t)

MonitorSpec == MonitorInit /\ [][MonitorNext]_monitorVars

\* The thread of the source goes on, and what fails does not fail for ever: a
\* request, the enqueueing of a post or a write that is tried again and again
\* succeeds again and again.
Fairness ==
  \A t \in Targets :
    /\ WF_monitorVars(Poll(t))
    /\ SF_monitorVars(Select(t))
    /\ \A i \in Posts : SF_monitorVars(Accept(t, i))
    /\ SF_monitorVars(Save(t))

FairSpec == MonitorSpec /\ Fairness

-----------------------------------------------------------------------------
(* Properties *)

\* Checkpoints are posts that exist, and a cycle holds what it fetched.
TypeOK ==
  \A t \in Targets :
    /\ saved[t] \in {None} \cup (0..published[t])
    /\ known[t] \in {None} \cup (0..published[t])
    /\ Previous(t) \in {None} \cup (0..published[t])
    /\ Stage(t) \in {"idle", "polled", "accepting"}
    /\ OnItsPage(t) \subseteq 1..published[t]
    /\ Todo(t) \subseteq OnItsPage(t)

\* "Persist source items before their source checkpoint is advanced"
\* (collection.py:66), and all that follows from it over failed cycles, failed
\* writes and restarts: a post the checkpoint has passed is in the queue, unless
\* the first-start rule left it out, its author deleted it, or more than a page
\* of newer posts had come before it was read.
PassedIsQueued ==
  \A t \in Targets : saved[t] # None =>
    \A i \in 1..saved[t] :
      Queued(t, i) \/ i \in skipped[t] \cup gone[t] \cup pushedOff[t]

\* A first start never digs up the past: a post that was too old for the
\* first-start rule is not queued by a later cycle either, whatever fails, is
\* deleted or is restarted in between and wherever the checkpoint moves.
PastStaysOut ==
  \A t \in Targets : \A i \in stale[t] : ~Queued(t, i)

\* Both, for the runs: what the checkpoint says has been dealt with has been, and
\* what it says is past stays past (monitor.py:206).
CheckpointIsHonest == PassedIsQueued /\ PastStaysOut

\* Every post is researched in the end, however often cycles fail and processes
\* restart, but for the losses that PassedIsQueued names.
EveryPostQueued ==
  \A t \in Targets : \A i \in Posts :
    i \in Visible(t) ~> \/ Queued(t, i)
                        \/ i \in skipped[t] \cup gone[t] \cup pushedOff[t]
=============================================================================
