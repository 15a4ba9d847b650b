-------------------------- MODULE PositionTracker --------------------------
(***************************************************************************)
(* The tracker thread (v6/tracker.py) over the ledger of LedgerOutcome: at *)
(* every tick it reads the head of the chain, marks the open BUYs at a new *)
(* head and settles those whose hour is over.  The quote of the market is  *)
(* external and taken to succeed.                                          *)
(***************************************************************************)
EXTENDS LedgerOutcome

VARIABLES lastBlock, \* last_block_hash
          tick       \* the tick that runs, or NoTick

trackerVars == <<outcomeVars, lastBlock, tick>>

NoTick == [head |-> None, now |-> 0, mark |-> {}, due |-> {}]

TrackerInit == Init /\ lastBlock = None /\ tick = NoTick

\* The keywords a call passes and those without a default in the signature; a
\* call that leaves one out raises TypeError before the method runs.
Binds(passed, required) == required \subseteq passed

MarkPasses == {"buy_id", "block_number", "block_hash", "observed_at", "available_at",
               "fdv_usd", "position_value_usd", "source", "evidence_uri", "metadata"}
MarkNeeds == {"buy_id", "block_number", "block_hash", "parent_hash", "observed_at",
              "available_at", "fdv_usd", "position_value_usd", "source", "evidence_uri"}
SettlePasses == {"buy_id", "as_of", "max_allowed_gap"}
SettleNeeds == {"buy_id", "as_of", "coverage_complete_through"}

\* open_buys and due_buys as of now.
Open(now) == {b \in Buys : Bought(b) /\ Visible(executed[b], now)
                           /\ ~(Sealed(b) /\ results[b].at <= now)}
Due(now) == {b \in Open(now) : WindowEnd(b) <= now}

\* The first half of _tick, up to the first mark.
Look(head) ==
  /\ tick = NoTick
  /\ Mined[head] <= clock
  /\ lastBlock' = head
  /\ tick' = [head |-> head, now |-> clock, due |-> Due(clock),
              mark |-> {b \in Open(clock) :
                          /\ head # lastBlock
                          /\ executed[b].known < Mined[head]
                          /\ Mined[head] <= WindowEnd(b)}]
  /\ UNCHANGED outcomeVars

\* _mark: whatever is raised is caught and the next BUY is marked.
Mark(b) ==
  /\ b \in tick.mark
  /\ tick' = [tick EXCEPT !.mark = @ \ {b}]
  /\ IF Binds(MarkPasses, MarkNeeds)
     THEN RecordBlockObservation(b, tick.head, clock)
     ELSE UNCHANGED outcomeVars
  /\ UNCHANGED lastBlock

\* finalize_one_hour of the next due BUY: what it raises ends the tick.
Settle(b) ==
  /\ tick # NoTick /\ tick.mark = {} /\ b \in tick.due
  /\ IF Binds(SettlePasses, SettleNeeds)
     THEN FinalizeOneHour(b, tick.now) /\ tick' = [tick EXCEPT !.due = @ \ {b}]
     ELSE UNCHANGED outcomeVars /\ tick' = NoTick
  /\ UNCHANGED lastBlock

Wait ==
  /\ tick # NoTick /\ tick.mark = {} /\ tick.due = {}
  /\ tick' = NoTick
  /\ UNCHANGED <<outcomeVars, lastBlock>>

Tracking == \/ \E h \in Blocks : Look(h)
            \/ \E b \in Buys : Mark(b) \/ Settle(b)
            \/ Wait

Passing == Tick /\ UNCHANGED <<tables, lastBlock, tick>>

Trading ==
  /\ \E b \in Buys, known \in Moments : ~Bought(b) /\ CommitSimulatedBuy(b, known)
  /\ UNCHANGED <<lastBlock, tick>>

TrackerNext == Tracking \/ Passing \/ Trading

\* The thread loops until it is stopped, and time passes.
TrackerSpec ==
  /\ TrackerInit /\ [][TrackerNext]_trackerVars
  /\ WF_trackerVars(Tracking) /\ WF_trackerVars(Passing)

-----------------------------------------------------------------------------

\* Every BUY is settled when its hour is over (tracker.py:1 "Per-block
\* executable position marking and immutable 1h settlement").
EveryBuyIsSettled ==
  \A b \in Buys :
    (Bought(b) /\ WindowEnd(b) < MaxTime /\ clock = MaxTime) ~> Sealed(b)
=============================================================================
