--------------------------- MODULE LedgerOutcome ---------------------------
(***************************************************************************)
(* The hour after a simulated BUY in the v6 ledger: block observations     *)
(* (v6/ledger/trades.py), sightings of the canonical head (heads.py) and   *)
(* the one-hour result (outcomes.py).  A bundle is one step here: Ledger   *)
(* shows that it is written as a whole or not at all.                      *)
(*                                                                         *)
(* The blocks are what the node reports of them, by hash: a number, a      *)
(* parent and a time.  Their prices, and the peak and multiples computed   *)
(* from the path of a complete result, are left out.  A sighting becomes   *)
(* available when it is made.                                              *)
(***************************************************************************)
EXTENDS CommitClock, Sequences, FiniteSets

CONSTANTS Buys,
          Blocks,    \* block hashes
          Number,    \* number of each block
          Parent,    \* parent of each block, None outside of Blocks
          Mined,     \* time of each block
          EntryOf,   \* entry block of each BUY
          Hour,      \* ONE_HOUR_US
          MaxGap,    \* max_allowed_gap
          Lateness,  \* allowed_lateness
          None

ASSUME OutcomeAssumption ==
  /\ Number \in [Blocks -> Nat]
  /\ Mined \in [Blocks -> Nat]
  /\ EntryOf \in [Buys -> Blocks]
  /\ Hour \in Nat \ {0}
  /\ MaxGap \in 1..Hour
  /\ Lateness \in Nat
  /\ None \notin Blocks
  /\ \A h \in Blocks : Parent[h] # h

VARIABLES executed,     \* executed_at of each BUY with the stamp of its commit
          observations, \* rows of v6_block_observations of each BUY
          sightings,    \* rows of v6_head_sightings of each BUY
          results       \* row of v6_one_hour_results of each BUY, or None

tables == <<executed, observations, sightings, results>>
outcomeVars == <<clockVars, tables>>

Moments == 1..MaxTime

Init ==
  /\ ClockInit
  /\ executed = [b \in Buys |-> None]
  /\ observations = [b \in Buys |-> {}]
  /\ sightings = [b \in Buys |-> {}]
  /\ results = [b \in Buys |-> None]

Sealed(b) == results[b] # None
Bought(b) == executed[b] # None
WindowEnd(b) == executed[b].known + Hour

\* The as_of condition of all three tables.
Visible(r, cutoff) == r.known <= cutoff /\ r.at <= cutoff

-----------------------------------------------------------------------------
(* Facts: the BUY, the observations, the sightings *)

\* UNIQUE(buy_id, block_hash); UNIQUE(buy_id, block_hash, sighted_at_us).
ObservationsOf(b, h) == {r \in observations[b] : r.block = h}
SightingsOf(b, h, sighted) ==
  {r \in sightings[b] : r.block = h /\ r.known = sighted}

\* record_block_observation, first time or again; a block that was observed
\* before is never observed with other moments.
ObservationAccepted(b, h, observed, known, now) ==
  /\ observed <= known /\ known <= now
  /\ \A r \in ObservationsOf(b, h) : r.observed = observed /\ r.known = known
  /\ ObservationsOf(b, h) = {} =>
       /\ ~Sealed(b)
       /\ Bought(b)
       /\ observed \in executed[b].known..WindowEnd(b)
       /\ Number[h] >= Number[EntryOf[b]]

WithObservation(b, h, observed, known) ==
  IF ObservationsOf(b, h) # {} THEN observations[b]
  ELSE observations[b] \cup {[block |-> h, observed |-> observed, known |-> known,
                              seq |-> Stamp.seq, at |-> Stamp.at]}

\* May be recorded after the result as well.
SlipSightingAccepted(b, h, sighted, now, seen) ==
  /\ sighted <= now
  /\ \E r \in seen : r.block = h

\* record_head_sighting, given the observations `seen`.
SightingAccepted(b, h, sighted, now, seen) ==
  /\ sighted <= now
  /\ SightingsOf(b, h, sighted) = {} => ~Sealed(b)
  /\ \E r \in seen : r.block = h

WithSighting(b, h, sighted) ==
  IF SightingsOf(b, h, sighted) # {} THEN sightings[b]
  ELSE sightings[b] \cup {[block |-> h, known |-> sighted,
                           seq |-> Stamp.seq, at |-> Stamp.at]}

\* commit_simulated_buy, first time or again: its entry block is its first
\* observation, observed and sighted at the moment of execution.
CommitSimulatedBuy(b, known) ==
  /\ MayCommit
  /\ known <= Stamp.at
  /\ Bought(b) => executed[b].known = known
  /\ IF Bought(b) THEN UNCHANGED executed
     ELSE executed' = [executed EXCEPT ![b] =
                        [known |-> known, seq |-> Stamp.seq, at |-> Stamp.at]]
  /\ observations' = [observations EXCEPT ![b] =
                       WithObservation(b, EntryOf[b], known, known)]
  /\ sightings' = [sightings EXCEPT ![b] = WithSighting(b, EntryOf[b], known)]
  /\ CommitWith(Stamp)
  /\ UNCHANGED results

RecordBlockObservation(b, h, known) ==
  /\ MayCommit
  /\ ObservationAccepted(b, h, Mined[h], known, latest)
  /\ observations' = [observations EXCEPT ![b] = WithObservation(b, h, Mined[h], known)]
  /\ CommitWith(Stamp)
  /\ UNCHANGED <<executed, sightings, results>>

RecordHeadSighting(b, h, sighted) ==
  /\ MayCommit
  /\ SightingAccepted(b, h, sighted, latest, observations[b])
  /\ sightings' = [sightings EXCEPT ![b] = WithSighting(b, h, sighted)]
  /\ CommitWith(Stamp)
  /\ UNCHANGED <<executed, observations, results>>

\* One transaction: its moments are compared with the time of its commit.
CommitCanonicalObservation(b, h, known, sighted) ==
  LET seen == WithObservation(b, h, Mined[h], known) IN
  /\ MayCommit
  /\ ObservationAccepted(b, h, Mined[h], known, Stamp.at)
  /\ SightingAccepted(b, h, sighted, Stamp.at, seen)
  /\ observations' = [observations EXCEPT ![b] = seen]
  /\ sightings' = [sightings EXCEPT ![b] = WithSighting(b, h, sighted)]
  /\ CommitWith(Stamp)
  /\ UNCHANGED <<executed, results>>

-----------------------------------------------------------------------------
(* The result, as a function of the tables *)

VisibleOf(table, cutoff) == {r \in table : Visible(r, cutoff)}

\* The last sighting committed; none or one.
CanonicalHead(sighted) == {r \in sighted : \A q \in sighted : q.seq <= r.seq}

ObservedAt(seen, h) == (CHOOSE r \in seen : r.block = h).observed

Outcome(status, path) == [status |-> status, path |-> path]

\* Steps to any block of the number before, not to the parent.
SlipPrevious(seen, h) ==
  {r.block : r \in {q \in seen : Number[q.block] = Number[h] - 1}}

\* The observed parent of a block; at most one.
Previous(seen, h) == {r.block : r \in {q \in seen : q.block = Parent[h]}}

\* The loop of _canonical_path with `path` walked so far, latest block last.
\* Numbers fall by one at every turn, so no block is met twice.
Walk(entry, seen) ==
  LET walk[path \in Seq(Blocks)] ==
        LET h == Head(path) IN
        IF Number[h] < Number[entry] THEN Outcome("canonical_chain_invalid", <<>>)
        ELSE IF Number[h] = Number[entry]
        THEN IF h # entry THEN Outcome("entry_block_reorged", <<>>)
             ELSE IF \E i \in 1..(Len(path) - 1) :
                       ObservedAt(seen, path[i + 1]) < ObservedAt(seen, path[i])
             THEN Outcome("canonical_chain_invalid", <<>>)
             ELSE Outcome("path", path)
        ELSE IF Previous(seen, h) = {} THEN Outcome("canonical_chain_incomplete", <<>>)
        ELSE LET p == CHOOSE g \in Previous(seen, h) : TRUE IN
             IF Number[p] # Number[h] - 1 THEN Outcome("canonical_chain_invalid", <<>>)
             ELSE walk[<<p>> \o path]
  IN  walk

CanonicalPath(entry, seen, sighted) ==
  LET head == CanonicalHead(sighted) IN
  IF head = {} THEN Outcome("no_canonical_head", <<>>)
  ELSE LET h == (CHOOSE r \in head : TRUE).block IN
       IF \A r \in seen : r.block # h THEN Outcome("canonical_chain_incomplete", <<>>)
       ELSE Walk(entry, seen)[<<h>>]

\* Leaves the end of the window out.
SlipPoints(start, seen, path) ==
  <<start>> \o [i \in 1..(Len(path) - 1) |-> ObservedAt(seen, path[i + 1])]

\* The execution, the observations after it, the end of the window.
Points(start, seen, path) ==
  <<start>> \o [i \in 1..(Len(path) - 1) |-> ObservedAt(seen, path[i + 1])]
    \o <<start + Hour>>

GapExceeded(points) == \E i \in 1..(Len(points) - 1) : points[i + 1] - points[i] > MaxGap

\* The judgement of the hour after `start` by what is visible at the cutoff.
Judgement(entry, start, observed, sighted, cutoff) ==
  LET seen == VisibleOf(observed, cutoff)
      outcome == CanonicalPath(entry, seen, VisibleOf(sighted, cutoff))
      path == outcome.path
      status == IF outcome.status # "path" THEN outcome.status
                ELSE IF Len(path) = 1 THEN "no_post_entry_observation"
                ELSE IF GapExceeded(Points(start, seen, path)) THEN "coverage_gap_exceeded"
                ELSE "complete"
  IN  [cutoff |-> cutoff, status |-> status,
       path |-> IF status = "complete" THEN path ELSE <<>>]

Judged(b, cutoff) ==
  Judgement(EntryOf[b], executed[b].known, observations[b], sightings[b], cutoff)

\* finalize_one_hour; a result that exists is returned as it is.  The coverage
\* watermark is the caller's claim: some moment from the end of the window to
\* the cutoff, and there is always one.
FinalizeOneHour(b, cutoff) ==
  /\ MayCommit
  /\ cutoff <= latest
  /\ ~Sealed(b) =>
       /\ Bought(b) /\ Visible(executed[b], cutoff)
       /\ cutoff >= WindowEnd(b) + Lateness
  /\ IF Sealed(b) THEN UNCHANGED results
     ELSE results' = [results EXCEPT ![b] = [says |-> Judged(b, cutoff), at |-> Stamp.at]]
  /\ CommitWith(Stamp)
  /\ UNCHANGED <<executed, observations, sightings>>

-----------------------------------------------------------------------------

Next ==
  \/ (Tick \/ SetBack) /\ UNCHANGED tables
  \/ \E b \in Buys, known \in Moments :
       \/ CommitSimulatedBuy(b, known)
       \/ \E h \in Blocks : RecordBlockObservation(b, h, known)
       \/ \E h \in Blocks : RecordHeadSighting(b, h, known)
       \/ \E h \in Blocks, sighted \in Moments :
            CommitCanonicalObservation(b, h, known, sighted)
       \/ FinalizeOneHour(b, known)

Spec == Init /\ [][Next]_outcomeVars

-----------------------------------------------------------------------------
(* Properties *)

\* A fact belongs to a BUY that exists and carries a past commit; a BUY is
\* never without its entry block.
TypeOK ==
  /\ ClockTypeOK
  /\ \A b \in Buys :
       /\ \A r \in observations[b] \cup sightings[b] :
            /\ Bought(b)
            /\ r.seq \in 1..last.seq /\ r.at \in 1..last.at
       /\ Bought(b) => \E r \in observations[b] : r.block = EntryOf[b]
       /\ Sealed(b) => Bought(b)

Complete(b) == Sealed(b) /\ results[b].says.status = "complete"

\* A result is what the ledger says today of its cutoff, also when the wall
\* clock was set back under finalize_one_hour (outcomes.py, trades.py and
\* heads.py together: as_of queries and the refusal of facts after a result).
ResultStands ==
  \A b \in Buys : Sealed(b) => results[b].says = Judged(b, results[b].says.cutoff)

\* The path of a complete result leads from the entry block to the head that
\* the ledger saw last, from parent to child, over blocks observed by the
\* cutoff: forks are never stitched together (outcomes.py _canonical_path).
NoForkStitching ==
  \A b \in Buys : Complete(b) =>
    LET path == results[b].says.path
        byCutoff(r) == Visible(r, results[b].says.cutoff)
    IN  /\ path[1] = EntryOf[b]
        /\ \A i \in 1..(Len(path) - 1) : Parent[path[i + 1]] = path[i]
        /\ \A i \in 1..Len(path) : \E r \in observations[b] :
             r.block = path[i] /\ byCutoff(r)
        /\ \E r \in sightings[b] :
             /\ r.block = path[Len(path)] /\ byCutoff(r)
             /\ \A q \in sightings[b] : byCutoff(q) => q.seq <= r.seq

\* No stretch of the hour longer than MaxGap is without a price in a complete
\* result (outcomes.py finalize_one_hour).
HourIsCovered ==
  \A b \in Buys :
    Complete(b) =>
      \A t \in executed[b].known..(WindowEnd(b) - MaxGap) :
        \/ t + MaxGap = WindowEnd(b)
        \/ \E r \in observations[b] :
             /\ \E i \in DOMAIN results[b].says.path : results[b].says.path[i] = r.block
             /\ r.observed \in (t + 1)..(t + MaxGap)

=============================================================================
