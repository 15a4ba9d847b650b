------------------------ MODULE LedgerOutcomeProofs ------------------------
(***************************************************************************)
(* Proofs about LedgerOutcome, for all values of its constants.            *)
(*                                                                         *)
(* First, a result is for ever what the ledger says of its cutoff.  A      *)
(* sealed BUY has been executed and has its entry block and the sighting   *)
(* of it, so everything that is still accepted for it is a replay, and its *)
(* tables stand still.                                                     *)
(*                                                                         *)
(* Then, what a complete result says: its path is one line of blocks from  *)
(* the entry block to the last head, and the hour is covered.  For that    *)
(* the loop of the walk is shown to end, which is what gives the recursive *)
(* function Walk its meaning: the numbers of the blocks fall, and of any   *)
(* paths that would contradict a claim, one is least.                      *)
(***************************************************************************)
EXTENDS LedgerOutcome, WellFoundedInduction, SequenceTheorems, TLAPS

\* The tables have an entry for every BUY.
Shaped ==
  /\ executed = [b \in Buys |-> executed[b]]
  /\ observations = [b \in Buys |-> observations[b]]
  /\ sightings = [b \in Buys |-> sightings[b]]
  /\ results = [b \in Buys |-> results[b]]

EntryObserved(b) == ObservationsOf(b, EntryOf[b]) # {}
EntrySighted(b) == SightingsOf(b, EntryOf[b], executed[b].known) # {}

Whole(b) ==
  /\ Sealed(b) => Bought(b)
  /\ Bought(b) => EntryObserved(b) /\ EntrySighted(b)

Inv ==
  /\ Shaped
  /\ \A b \in Buys : Whole(b)
  /\ ResultStands

\* What the step does to the tables of one BUY.
Stands(b) ==
  /\ executed'[b] = executed[b]
  /\ observations'[b] = observations[b]
  /\ sightings'[b] = sightings[b]
  /\ results'[b] = results[b]

Grows(b) ==
  /\ Bought(b) => executed'[b] = executed[b]
  /\ observations[b] \subseteq observations'[b]
  /\ sightings[b] \subseteq sightings'[b]
  /\ results'[b] = results[b]

\* The BUY is not sealed, and if executed now, whole.
Opens(b) ==
  /\ ~Sealed(b) /\ Grows(b)
  /\ Bought(b)' => Bought(b) \/ (EntryObserved(b)' /\ EntrySighted(b)')

\* The BUY, executed and not sealed, gets its result.
Seals(b) ==
  /\ ~Sealed(b) /\ Bought(b)
  /\ executed'[b] = executed[b]
  /\ observations'[b] = observations[b]
  /\ sightings'[b] = sightings[b]
  /\ \E cutoff \in Moments : results'[b].says = Judged(b, cutoff)

BuyStep(b) == Stands(b) \/ Opens(b) \/ Seals(b)

-----------------------------------------------------------------------------
(* The operations *)

\* A fact under its own key is added once.
LEMMA WithObservationGrows ==
  ASSUME NEW b, NEW h, NEW observed, NEW known
  PROVE  /\ observations[b] \subseteq WithObservation(b, h, observed, known)
         /\ \E r \in WithObservation(b, h, observed, known) : r.block = h
         /\ ObservationsOf(b, h) # {} =>
              WithObservation(b, h, observed, known) = observations[b]
  <1> DEFINE row == [block |-> h, observed |-> observed, known |-> known,
                     seq |-> Stamp.seq, at |-> Stamp.at]
  <1>1. row.block = h
    OBVIOUS
  <1>2. CASE ObservationsOf(b, h) # {}
    BY <1>2 DEF WithObservation, ObservationsOf
  <1>3. CASE ObservationsOf(b, h) = {}
    <2>1. WithObservation(b, h, observed, known) = observations[b] \cup {row}
      BY <1>3 DEF WithObservation
    <2> HIDE DEF row
    <2> QED
      BY <1>1, <1>3, <2>1
  <1> QED
    BY <1>2, <1>3

LEMMA WithSightingGrows ==
  ASSUME NEW b, NEW h, NEW sighted
  PROVE  /\ sightings[b] \subseteq WithSighting(b, h, sighted)
         /\ \E r \in WithSighting(b, h, sighted) : r.block = h /\ r.known = sighted
         /\ SightingsOf(b, h, sighted) # {} =>
              WithSighting(b, h, sighted) = sightings[b]
  <1> DEFINE row == [block |-> h, known |-> sighted, seq |-> Stamp.seq, at |-> Stamp.at]
  <1>1. row.block = h /\ row.known = sighted
    OBVIOUS
  <1>2. CASE SightingsOf(b, h, sighted) # {}
    BY <1>2 DEF WithSighting, SightingsOf
  <1>3. CASE SightingsOf(b, h, sighted) = {}
    <2>1. WithSighting(b, h, sighted) = sightings[b] \cup {row}
      BY <1>3 DEF WithSighting
    <2> HIDE DEF row
    <2> QED
      BY <1>1, <1>3, <2>1
  <1> QED
    BY <1>2, <1>3

\* The bundle of a BUY: the first time it leaves the BUY whole, later it
\* changes nothing.
LEMMA BuyStepOfBundle ==
  ASSUME Inv, NEW b \in Buys, NEW known, CommitSimulatedBuy(b, known)
  PROVE  Shaped' /\ \A a \in Buys : BuyStep(a)
  <1> DEFINE seen == WithObservation(b, EntryOf[b], known, known)
             heads == WithSighting(b, EntryOf[b], known)
             bought == IF Bought(b) THEN executed[b]
                       ELSE [known |-> known, seq |-> Stamp.seq, at |-> Stamp.at]
  <1>1. /\ observations' = [observations EXCEPT ![b] = seen]
        /\ sightings' = [sightings EXCEPT ![b] = heads]
        /\ results' = results
        /\ Bought(b) => executed[b].known = known
    BY DEF CommitSimulatedBuy
  <1>2. executed' = [executed EXCEPT ![b] = bought]
    BY DEF CommitSimulatedBuy, Inv, Shaped
  <1>3. bought.known = known /\ (Bought(b) => bought = executed[b])
    BY <1>1
  <1>4. /\ observations[b] \subseteq seen
        /\ \E r \in seen : r.block = EntryOf[b]
        /\ ObservationsOf(b, EntryOf[b]) # {} => seen = observations[b]
    BY WithObservationGrows
  <1>5. /\ sightings[b] \subseteq heads
        /\ \E r \in heads : r.block = EntryOf[b] /\ r.known = known
        /\ SightingsOf(b, EntryOf[b], known) # {} => heads = sightings[b]
    BY WithSightingGrows
  <1> HIDE DEF seen, heads, bought
  <1>6. Shaped'
    BY <1>1, <1>2 DEF Inv, Shaped
  <1>7. ASSUME NEW a \in Buys, a # b PROVE Stands(a)
    BY <1>1, <1>2, <1>7 DEF Inv, Shaped, Stands
  <1>8. /\ executed'[b] = bought /\ observations'[b] = seen
        /\ sightings'[b] = heads /\ results'[b] = results[b]
    BY <1>1, <1>2 DEF Inv, Shaped
  <1>9. CASE Sealed(b)
    <2>1. Bought(b) /\ EntryObserved(b) /\ EntrySighted(b)
      BY <1>9 DEF Inv, Whole
    <2>2. seen = observations[b] /\ heads = sightings[b]
      BY <2>1, <1>1, <1>4, <1>5 DEF EntryObserved, EntrySighted
    <2> QED
      BY <2>1, <2>2, <1>3, <1>7, <1>8, <1>6 DEF Stands, BuyStep
  <1>10. CASE ~Sealed(b)
    <2>1. Grows(b)
      BY <1>3, <1>4, <1>5, <1>8 DEF Grows
    <2>2. EntryObserved(b)'
      BY <1>4, <1>8 DEF EntryObserved, ObservationsOf
    <2>3. EntrySighted(b)'
      BY <1>3, <1>5, <1>8 DEF EntrySighted, SightingsOf
    <2> QED
      BY <1>10, <2>1, <2>2, <2>3, <1>6, <1>7 DEF Opens, BuyStep
  <1> QED
    BY <1>9, <1>10

\* A fact recorded for one BUY: a replay if it is sealed.
LEMMA BuyStepOfFacts ==
  ASSUME Inv, NEW b \in Buys, NEW seen, NEW heads,
         observations' = [observations EXCEPT ![b] = seen],
         sightings' = [sightings EXCEPT ![b] = heads],
         observations[b] \subseteq seen, sightings[b] \subseteq heads,
         Sealed(b) => seen = observations[b] /\ heads = sightings[b],
         executed' = executed, results' = results
  PROVE  Shaped' /\ \A a \in Buys : BuyStep(a)
  <1>1. Shaped'
    BY DEF Inv, Shaped
  <1>2. ASSUME NEW a \in Buys, a # b PROVE Stands(a)
    BY <1>2 DEF Inv, Shaped, Stands
  <1>3. observations'[b] = seen /\ sightings'[b] = heads
    BY DEF Inv, Shaped
  <1>4. CASE Sealed(b)
    BY <1>1, <1>2, <1>3, <1>4 DEF Stands, BuyStep
  <1>5. CASE ~Sealed(b)
    <2>1. Grows(b)
      BY <1>3 DEF Grows
    <2>2. Bought(b)' => Bought(b)
      BY DEF Bought
    <2> QED
      BY <1>5, <2>1, <2>2, <1>1, <1>2 DEF Opens, BuyStep
  <1> QED
    BY <1>4, <1>5

LEMMA BuyStepOfObservation ==
  ASSUME Inv, NEW b \in Buys, NEW h, NEW known, RecordBlockObservation(b, h, known)
  PROVE  Shaped' /\ \A a \in Buys : BuyStep(a)
  <1> DEFINE seen == WithObservation(b, h, Mined[h], known)
  <1>1. /\ observations' = [observations EXCEPT ![b] = seen]
        /\ sightings' = sightings /\ executed' = executed /\ results' = results
        /\ ObservationAccepted(b, h, Mined[h], known, latest)
    BY DEF RecordBlockObservation
  <1>2. /\ observations[b] \subseteq seen
        /\ ObservationsOf(b, h) # {} => seen = observations[b]
    BY WithObservationGrows
  <1>3. Sealed(b) => ObservationsOf(b, h) # {}
    BY <1>1 DEF ObservationAccepted
  <1> HIDE DEF seen
  <1>4. sightings' = [sightings EXCEPT ![b] = sightings[b]]
    BY <1>1 DEF Inv, Shaped
  <1> QED
    BY <1>1, <1>2, <1>3, <1>4, BuyStepOfFacts

LEMMA BuyStepOfSighting ==
  ASSUME Inv, NEW b \in Buys, NEW h, NEW sighted, RecordHeadSighting(b, h, sighted)
  PROVE  Shaped' /\ \A a \in Buys : BuyStep(a)
  <1> DEFINE heads == WithSighting(b, h, sighted)
  <1>1. /\ sightings' = [sightings EXCEPT ![b] = heads]
        /\ observations' = observations /\ executed' = executed /\ results' = results
        /\ SightingAccepted(b, h, sighted, latest, observations[b])
    BY DEF RecordHeadSighting
  <1>2. /\ sightings[b] \subseteq heads
        /\ SightingsOf(b, h, sighted) # {} => heads = sightings[b]
    BY WithSightingGrows
  <1>3. Sealed(b) => SightingsOf(b, h, sighted) # {}
    BY <1>1 DEF SightingAccepted
  <1> HIDE DEF heads
  <1>4. observations' = [observations EXCEPT ![b] = observations[b]]
    BY <1>1 DEF Inv, Shaped
  <1> QED
    BY <1>1, <1>2, <1>3, <1>4, BuyStepOfFacts

LEMMA BuyStepOfBoth ==
  ASSUME Inv, NEW b \in Buys, NEW h, NEW known, NEW sighted,
         CommitCanonicalObservation(b, h, known, sighted)
  PROVE  Shaped' /\ \A a \in Buys : BuyStep(a)
  <1> DEFINE seen == WithObservation(b, h, Mined[h], known)
             heads == WithSighting(b, h, sighted)
  <1>1. /\ observations' = [observations EXCEPT ![b] = seen]
        /\ sightings' = [sightings EXCEPT ![b] = heads]
        /\ executed' = executed /\ results' = results
        /\ ObservationAccepted(b, h, Mined[h], known, Stamp.at)
        /\ SightingAccepted(b, h, sighted, Stamp.at, seen)
    BY DEF CommitCanonicalObservation
  <1>2. /\ observations[b] \subseteq seen
        /\ ObservationsOf(b, h) # {} => seen = observations[b]
    BY WithObservationGrows
  <1>3. /\ sightings[b] \subseteq heads
        /\ SightingsOf(b, h, sighted) # {} => heads = sightings[b]
    BY WithSightingGrows
  <1>4. Sealed(b) => ObservationsOf(b, h) # {}
    BY <1>1 DEF ObservationAccepted
  <1>5. Sealed(b) => SightingsOf(b, h, sighted) # {}
    BY <1>1 DEF SightingAccepted
  <1> HIDE DEF seen, heads
  <1> QED
    BY <1>1, <1>2, <1>3, <1>4, <1>5, BuyStepOfFacts

LEMMA BuyStepOfResult ==
  ASSUME Inv, NEW b \in Buys, NEW cutoff \in Moments, FinalizeOneHour(b, cutoff)
  PROVE  Shaped' /\ \A a \in Buys : BuyStep(a)
  <1>1. UNCHANGED <<executed, observations, sightings>>
    BY DEF FinalizeOneHour
  <1>2. CASE Sealed(b)
    <2>1. results' = results
      BY <1>2 DEF FinalizeOneHour
    <2> QED
      BY <1>1, <2>1 DEF Inv, Shaped, Stands, BuyStep
  <1>3. CASE ~Sealed(b)
    <2> DEFINE row == [says |-> Judged(b, cutoff), at |-> Stamp.at]
    <2>1. Bought(b) /\ results' = [results EXCEPT ![b] = row]
      BY <1>3 DEF FinalizeOneHour
    <2>2. row.says = Judged(b, cutoff)
      OBVIOUS
    <2> HIDE DEF row
    <2>3. results'[b] = row /\ Shaped'
      BY <1>1, <2>1 DEF Inv, Shaped
    <2>4. Seals(b)
      BY <1>1, <1>3, <2>1, <2>2, <2>3 DEF Seals
    <2>5. ASSUME NEW a \in Buys, a # b PROVE Stands(a)
      BY <1>1, <2>1, <2>5 DEF Inv, Shaped, Stands
    <2> QED
      BY <2>3, <2>4, <2>5 DEF BuyStep
  <1> QED
    BY <1>2, <1>3

-----------------------------------------------------------------------------

LEMMA StepIsBuyStep ==
  ASSUME Inv, [Next]_outcomeVars
  PROVE  Shaped' /\ \A a \in Buys : BuyStep(a)
  <1>1. CASE UNCHANGED tables
    BY <1>1 DEF tables, Inv, Shaped, Stands, BuyStep
  <1>2. ASSUME NEW b \in Buys, NEW known \in Moments,
               \/ CommitSimulatedBuy(b, known)
               \/ \E h \in Blocks : RecordBlockObservation(b, h, known)
               \/ \E h \in Blocks : RecordHeadSighting(b, h, known)
               \/ \E h \in Blocks, sighted \in Moments :
                    CommitCanonicalObservation(b, h, known, sighted)
               \/ FinalizeOneHour(b, known)
        PROVE  Shaped' /\ \A a \in Buys : BuyStep(a)
    BY <1>2, BuyStepOfBundle, BuyStepOfObservation, BuyStepOfSighting,
       BuyStepOfBoth, BuyStepOfResult
  <1> QED
    BY <1>1, <1>2 DEF Next, outcomeVars, tables

\* A BUY stays whole, because its facts are never removed.
LEMMA WholeStep ==
  ASSUME NEW b \in Buys, Whole(b), BuyStep(b)
  PROVE  Whole(b)'
  <1>1. CASE Stands(b)
    BY <1>1 DEF Stands, Whole, Sealed, Bought, EntryObserved, EntrySighted,
               ObservationsOf, SightingsOf
  <1>2. CASE Opens(b)
    <2>1. ~Sealed(b)'
      BY <1>2 DEF Opens, Grows, Sealed
    <2>2. Bought(b) => EntryObserved(b)'
      BY <1>2 DEF Opens, Grows, Whole, EntryObserved, ObservationsOf
    <2>3. Bought(b) => EntrySighted(b)'
      BY <1>2 DEF Opens, Grows, Whole, EntrySighted, SightingsOf
    <2> QED
      BY <1>2, <2>1, <2>2, <2>3 DEF Opens, Whole
  <1>3. CASE Seals(b)
    BY <1>3 DEF Seals, Whole, Sealed, Bought, EntryObserved, EntrySighted,
               ObservationsOf, SightingsOf
  <1> QED
    BY <1>1, <1>2, <1>3 DEF BuyStep

\* The judgement of a cutoff depends on the tables of the BUY alone.
LEMMA SameJudged ==
  ASSUME NEW b, NEW cutoff, executed'[b] = executed[b],
         observations'[b] = observations[b], sightings'[b] = sightings[b]
  PROVE  Judgement(EntryOf[b], executed'[b].known, observations'[b], sightings'[b], cutoff)
           = Judged(b, cutoff)
  BY DEF Judged

LEMMA ResultStep ==
  ASSUME NEW b \in Buys, BuyStep(b),
         Sealed(b) => results[b].says = Judged(b, results[b].says.cutoff)
  PROVE  (Sealed(b) => results[b].says = Judged(b, results[b].says.cutoff))'
  <1>1. CASE Stands(b)
    BY <1>1, SameJudged DEF Stands, Sealed, Judged
  <1>2. CASE Opens(b)
    BY <1>2 DEF Opens, Grows, Sealed
  <1>3. CASE Seals(b)
    <2>1. PICK cutoff \in Moments : results'[b].says = Judged(b, cutoff)
      BY <1>3 DEF Seals
    <2>2. Judged(b, cutoff).cutoff = cutoff
      BY DEF Judged, Judgement
    <2> QED
      BY <1>3, <2>1, <2>2, SameJudged DEF Seals, Judged
  <1> QED
    BY <1>1, <1>2, <1>3 DEF BuyStep

LEMMA InvInit == Init => Inv
  BY DEF Init, Inv, Shaped, Whole, Sealed, Bought, ResultStands

LEMMA InvStep == Inv /\ [Next]_outcomeVars => Inv'
  <1> SUFFICES ASSUME Inv, [Next]_outcomeVars PROVE Inv'
    OBVIOUS
  <1>1. Shaped' /\ \A b \in Buys : BuyStep(b)
    BY StepIsBuyStep
  <1>2. \A b \in Buys : Whole(b)'
    BY <1>1, WholeStep DEF Inv
  <1>3. ResultStands'
    BY <1>1, ResultStep DEF Inv, ResultStands
  <1> QED
    BY <1>1, <1>2, <1>3 DEF Inv

\* In every behaviour a one-hour result is, from when it is sealed, what the
\* ledger says of its cutoff: no fact that comes later can contradict it.
THEOREM SpecResultStands == Spec => []ResultStands
  <1>1. Inv => ResultStands
    BY DEF Inv
  <1> QED
    BY <1>1, InvInit, InvStep, PTL DEF Spec

-----------------------------------------------------------------------------
(* The walk from the head to the entry block *)

LEMMA LeastNatural ==
  ASSUME NEW S, S \subseteq Nat, S # {}
  PROVE  \E m \in S : \A k \in S : m <= k
  <1> DEFINE R == {p \in Nat \X Nat : p[1] < p[2]}
  <1>1. IsWellFoundedOn(R, Nat)
    BY NatLessThanWellFounded DEF OpToRel
  <1> HIDE DEF R
  <1>2. PICK m \in S : \A k \in S : <<k, m>> \notin R
    BY <1>1, WFMin
  <1>3. ASSUME NEW k \in S PROVE m <= k
    <2>1. k \in Nat /\ m \in Nat
      OBVIOUS
    <2>2. ~(k < m)
      BY <1>2, <2>1 DEF R
    <2> QED
      BY <2>1, <2>2
  <1> QED
    BY <1>3

\* Of some paths, one is least whose first block has the lowest number.
LEMMA LowestPath ==
  ASSUME NEW S, S \subseteq Seq(Blocks) \ {<<>>}, S # {}
  PROVE  \E path \in S : \A p \in S : ~(Number[Head(p)] < Number[Head(path)])
  <1> DEFINE N == {Number[Head(path)] : path \in S}
  <1>1. \A path \in S : Head(path) \in Blocks /\ Number[Head(path)] \in Nat
    BY OutcomeAssumption, HeadTailProperties
  <1>2. N \subseteq Nat /\ N # {}
    BY <1>1
  <1>3. PICK m \in N : \A k \in N : m <= k
    BY <1>2, LeastNatural
  <1>4. PICK path \in S : m = Number[Head(path)]
    OBVIOUS
  <1>5. ASSUME NEW p \in S PROVE ~(Number[Head(p)] < Number[Head(path)])
    <2>1. Number[Head(p)] \in N /\ Number[Head(path)] \in Nat
      BY <1>1
    <2>2. m <= Number[Head(p)] /\ Number[Head(p)] \in Nat /\ m \in Nat
      BY <1>2, <1>3, <2>1
    <2> QED
      BY <1>4, <2>1, <2>2
  <1> QED
    BY <1>5

\* The turn of the loop goes on to an observed parent.
GoesOn(entry, seen, path) ==
  /\ Number[Head(path)] >= Number[entry] /\ Number[Head(path)] # Number[entry]
  /\ Previous(seen, Head(path)) # {}
  /\ Number[CHOOSE g \in Previous(seen, Head(path)) : TRUE] = Number[Head(path)] - 1

Longer(seen, path) == <<CHOOSE g \in Previous(seen, Head(path)) : TRUE>> \o path

\* One turn of the loop, f standing for the turns after it.
Turn(entry, seen, f, path) ==
  LET h == Head(path) IN
  IF Number[h] < Number[entry] THEN Outcome("canonical_chain_invalid", <<>>)
  ELSE IF Number[h] = Number[entry]
  THEN IF h # entry THEN Outcome("entry_block_reorged", <<>>)
       ELSE IF \E i \in 1..(Len(path) - 1) :
                 ObservedAt(seen, path[i + 1]) < ObservedAt(seen, path[i])
       THEN Outcome("canonical_chain_invalid", <<>>)
       ELSE Outcome("path", path)
  ELSE IF Previous(seen, h) = {} THEN Outcome("canonical_chain_incomplete", <<>>)
  ELSE LET p == CHOOSE g \in Previous(seen, h) : TRUE IN
       IF Number[p] # Number[h] - 1 THEN Outcome("canonical_chain_invalid", <<>>)
       ELSE f[<<p>> \o path]

OfBlocks(seen) == \A r \in seen : r.block \in Blocks

\* A turn is the end of the walk or goes on.
LEMMA TurnGoesOn ==
  ASSUME NEW entry \in Blocks, NEW seen, NEW f, NEW path \in Seq(Blocks) \ {<<>>},
         GoesOn(entry, seen, path)
  PROVE  Turn(entry, seen, f, path) = f[Longer(seen, path)]
  <1>1. Head(path) \in Blocks
    BY HeadTailProperties
  <1>2. Number[Head(path)] \in Nat /\ Number[entry] \in Nat
    BY <1>1, OutcomeAssumption
  <1> QED
    BY <1>2 DEF Turn, GoesOn, Longer

LEMMA TurnEnds ==
  ASSUME NEW entry \in Blocks, NEW seen, NEW f, NEW g, NEW path \in Seq(Blocks) \ {<<>>},
         ~GoesOn(entry, seen, path)
  PROVE  Turn(entry, seen, f, path) = Turn(entry, seen, g, path)
  <1>1. Head(path) \in Blocks
    BY HeadTailProperties
  <1>2. Number[Head(path)] \in Nat /\ Number[entry] \in Nat
    BY <1>1, OutcomeAssumption
  <1> QED
    BY <1>2 DEF Turn, GoesOn

\* The next path is one, and begins with a lower block.
LEMMA LongerPath ==
  ASSUME NEW entry \in Blocks, NEW seen, OfBlocks(seen),
         NEW path \in Seq(Blocks) \ {<<>>}, GoesOn(entry, seen, path)
  PROVE  /\ Longer(seen, path) \in Seq(Blocks) \ {<<>>}
         /\ Number[Head(Longer(seen, path))] < Number[Head(path)]
         /\ Head(Longer(seen, path)) \in Previous(seen, Head(path))
         /\ Len(Longer(seen, path)) = Len(path) + 1
         /\ Longer(seen, path)[1] = Head(Longer(seen, path))
         /\ \A i \in 1..Len(path) : Longer(seen, path)[i + 1] = path[i]
  <1> DEFINE p == CHOOSE g \in Previous(seen, Head(path)) : TRUE
  <1>1. p \in Previous(seen, Head(path)) /\ Number[p] = Number[Head(path)] - 1
    BY DEF GoesOn
  <1>2. p \in Blocks /\ Head(path) \in Blocks /\ Len(path) \in Nat
    BY <1>1, HeadTailProperties, LenProperties DEF Previous, OfBlocks
  <1>3. Number[p] < Number[Head(path)]
    BY <1>1, <1>2, OutcomeAssumption
  <1>4. Longer(seen, path) = <<p>> \o path
    BY DEF Longer
  <1> HIDE DEF p
  <1>5. /\ <<p>> \o path \in Seq(Blocks)
        /\ Len(<<p>> \o path) = Len(path) + 1
        /\ (<<p>> \o path)[1] = p
        /\ \A i \in 1..Len(path) : (<<p>> \o path)[i + 1] = path[i]
    <2>1. <<p>> \in Seq(Blocks) /\ Len(<<p>>) = 1 /\ <<p>>[1] = p
      BY <1>2
    <2> QED
      BY <1>2, <2>1, ConcatProperties
  <1>6. <<p>> \o path # <<>> /\ Head(<<p>> \o path) = p
    BY <1>2, <1>5, HeadTailProperties
  <1> QED
    BY <1>1, <1>3, <1>4, <1>5, <1>6

\* A stretch of the walk: a function on some paths that obeys the loop, and
\* with a path holds those it goes on to.
Stretch(entry, seen, f) ==
  /\ f = [path \in DOMAIN f |-> f[path]]
  /\ DOMAIN f \subseteq Seq(Blocks) \ {<<>>}
  /\ \A path \in DOMAIN f :
       /\ GoesOn(entry, seen, path) => Longer(seen, path) \in DOMAIN f
       /\ f[path] = Turn(entry, seen, f, path)

\* Stretches agree where they meet.
LEMMA StretchesAgree ==
  ASSUME NEW entry \in Blocks, NEW seen, OfBlocks(seen),
         NEW f, NEW g, Stretch(entry, seen, f), Stretch(entry, seen, g),
         NEW path \in DOMAIN f, path \in DOMAIN g
  PROVE  f[path] = g[path]
  <1> DEFINE Apart == {p \in DOMAIN f : p \in DOMAIN g /\ f[p] # g[p]}
  <1> SUFFICES ASSUME Apart # {} PROVE FALSE
    OBVIOUS
  <1>1. Apart \subseteq Seq(Blocks) \ {<<>>}
    BY DEF Stretch
  <1>2. PICK p \in Apart : \A q \in Apart : ~(Number[Head(q)] < Number[Head(p)])
    BY <1>1, LowestPath
  <1>3. p \in Seq(Blocks) \ {<<>>} /\ p \in DOMAIN f /\ p \in DOMAIN g /\ f[p] # g[p]
    BY <1>1
  <1>4. f[p] = Turn(entry, seen, f, p) /\ g[p] = Turn(entry, seen, g, p)
    BY <1>3 DEF Stretch
  <1>5. CASE GoesOn(entry, seen, p)
    <2>1. Longer(seen, p) \in DOMAIN f /\ Longer(seen, p) \in DOMAIN g
      BY <1>3, <1>5 DEF Stretch
    <2>2. Number[Head(Longer(seen, p))] < Number[Head(p)]
      BY <1>3, <1>5, LongerPath
    <2>3. f[Longer(seen, p)] = g[Longer(seen, p)]
      BY <1>2, <2>1, <2>2
    <2> QED
      BY <1>3, <1>4, <1>5, <2>3, TurnGoesOn
  <1>6. CASE ~GoesOn(entry, seen, p)
    BY <1>3, <1>4, <1>6, TurnEnds
  <1> QED
    BY <1>5, <1>6

\* Every path is on a stretch, because the numbers cannot fall for ever.
LEMMA StretchExists ==
  ASSUME NEW entry \in Blocks, NEW seen, OfBlocks(seen)
  PROVE  \A path \in Seq(Blocks) \ {<<>>} :
           \E f : Stretch(entry, seen, f) /\ path \in DOMAIN f
  <1> DEFINE Off == {path \in Seq(Blocks) \ {<<>>} :
                       ~\E f : Stretch(entry, seen, f) /\ path \in DOMAIN f}
  <1> SUFFICES ASSUME Off # {} PROVE FALSE
    OBVIOUS
  <1>1. Off \subseteq Seq(Blocks) \ {<<>>}
    OBVIOUS
  <1>2. PICK p \in Off : \A q \in Off : ~(Number[Head(q)] < Number[Head(p)])
    BY <1>1, LowestPath
  <1>3. p \in Seq(Blocks) \ {<<>>} /\ ~\E f : Stretch(entry, seen, f) /\ p \in DOMAIN f
    OBVIOUS
  <1>4. CASE GoesOn(entry, seen, p)
    <2>1. /\ Longer(seen, p) \in Seq(Blocks) \ {<<>>}
          /\ Number[Head(Longer(seen, p))] < Number[Head(p)]
      BY <1>3, <1>4, LongerPath
    <2>2. PICK f : Stretch(entry, seen, f) /\ Longer(seen, p) \in DOMAIN f
      BY <1>2, <2>1
    <2> DEFINE D == DOMAIN f \cup {p}
               g == [path \in D |-> IF path = p THEN f[Longer(seen, p)] ELSE f[path]]
    <2>3. p \notin DOMAIN f
      BY <1>3, <2>2
    <2>4. /\ DOMAIN g = D /\ g = [path \in D |-> g[path]]
          /\ g[p] = f[Longer(seen, p)]
          /\ \A path \in DOMAIN f : g[path] = f[path]
      BY <2>3
    <2>5. D \subseteq Seq(Blocks) \ {<<>>}
      BY <1>3, <2>2 DEF Stretch
    <2> HIDE DEF g
    <2>6. ASSUME NEW path \in D
          PROVE  /\ GoesOn(entry, seen, path) => Longer(seen, path) \in D
                 /\ g[path] = Turn(entry, seen, g, path)
      <3>0. path \in Seq(Blocks) \ {<<>>}
        BY <2>5
      <3>1. CASE path = p
        <4>1. g[p] = g[Longer(seen, p)]
          BY <2>2, <2>4
        <4>2. Turn(entry, seen, g, p) = g[Longer(seen, p)]
          BY <1>3, <1>4, TurnGoesOn
        <4> QED
          BY <2>2, <3>1, <4>1, <4>2
      <3>2. CASE path \in DOMAIN f
        <4>1. /\ GoesOn(entry, seen, path) => Longer(seen, path) \in DOMAIN f
              /\ g[path] = Turn(entry, seen, f, path)
          BY <2>2, <2>4, <3>2 DEF Stretch
        <4>2. CASE GoesOn(entry, seen, path)
          <5>1. Turn(entry, seen, f, path) = f[Longer(seen, path)]
            BY <3>0, <4>2, TurnGoesOn
          <5>2. Turn(entry, seen, g, path) = g[Longer(seen, path)]
            BY <3>0, <4>2, TurnGoesOn
          <5> QED
            BY <2>4, <4>1, <4>2, <5>1, <5>2
        <4>3. CASE ~GoesOn(entry, seen, path)
          BY <3>0, <4>1, <4>3, TurnEnds
        <4> QED
          BY <4>2, <4>3
      <3> QED
        BY <3>1, <3>2
    <2>7. Stretch(entry, seen, g)
      BY <2>4, <2>5, <2>6 DEF Stretch
    <2> QED
      BY <1>3, <2>4, <2>7
  <1>5. CASE ~GoesOn(entry, seen, p)
    <2> DEFINE g == [path \in {p} |-> Turn(entry, seen, <<>>, p)]
    <2>1. DOMAIN g = {p} /\ g = [path \in {p} |-> g[path]] /\ g[p] = Turn(entry, seen, <<>>, p)
      OBVIOUS
    <2> HIDE DEF g
    <2>2. g[p] = Turn(entry, seen, g, p)
      BY <1>3, <1>5, <2>1, TurnEnds
    <2>3. Stretch(entry, seen, g)
      BY <1>3, <1>5, <2>1, <2>2 DEF Stretch
    <2> QED
      BY <1>3, <2>1, <2>3
  <1> QED
    BY <1>4, <1>5

\* The walk is what its loop says, turn by turn.
LEMMA WalkUnfolds ==
  ASSUME NEW entry \in Blocks, NEW seen, OfBlocks(seen), NEW path \in Seq(Blocks)
  PROVE  Walk(entry, seen)[path] = Turn(entry, seen, Walk(entry, seen), path)
  <1> DEFINE On(p) == CHOOSE f : Stretch(entry, seen, f) /\ p \in DOMAIN f
             some == [p \in Seq(Blocks) \ {<<>>} |-> On(p)[p]]
             all == [p \in Seq(Blocks) |->
                      IF p = <<>> THEN Turn(entry, seen, some, <<>>) ELSE some[p]]
  <1>1. \A p \in Seq(Blocks) \ {<<>>} : Stretch(entry, seen, On(p)) /\ p \in DOMAIN On(p)
    BY StretchExists
  <1>2. /\ \A p \in Seq(Blocks) \ {<<>>} : all[p] = On(p)[p] /\ some[p] = all[p]
        /\ all[<<>>] = Turn(entry, seen, some, <<>>)
        /\ all = [p \in Seq(Blocks) |-> all[p]]
    OBVIOUS
  <1> HIDE DEF On, some, all
  <1>3. ASSUME NEW p \in Seq(Blocks) \ {<<>>} PROVE all[p] = Turn(entry, seen, all, p)
    <2>1. Stretch(entry, seen, On(p)) /\ p \in DOMAIN On(p)
      BY <1>1
    <2>2. all[p] = Turn(entry, seen, On(p), p)
      BY <1>2, <2>1 DEF Stretch
    <2>3. CASE GoesOn(entry, seen, p)
      <3>1. Longer(seen, p) \in DOMAIN On(p) /\ Longer(seen, p) \in Seq(Blocks) \ {<<>>}
        BY <2>1, <2>3 DEF Stretch
      <3>2. all[Longer(seen, p)] = On(p)[Longer(seen, p)]
        BY <1>1, <1>2, <2>1, <3>1, StretchesAgree
      <3> QED
        BY <2>2, <2>3, <3>2, TurnGoesOn
    <2>4. CASE ~GoesOn(entry, seen, p)
      BY <2>2, <2>4, TurnEnds
    <2> QED
      BY <2>3, <2>4
  <1>4. all[<<>>] = Turn(entry, seen, all, <<>>)
    <2> DEFINE h == Head(<<>>)
               p == CHOOSE g \in Previous(seen, h) : TRUE
    <2>1. Previous(seen, h) # {} => p \in Blocks
      BY DEF Previous, OfBlocks
    <2>2. Previous(seen, h) # {} => <<p>> \o <<>> \in Seq(Blocks) \ {<<>>}
      BY <2>1
    <2>3. Previous(seen, h) # {} => some[<<p>> \o <<>>] = all[<<p>> \o <<>>]
      BY <1>2, <2>2
    <2> HIDE DEF p, h
    <2> QED
      BY <1>2, <2>3 DEF Turn, p, h
  <1>5. all = [p \in Seq(Blocks) |-> Turn(entry, seen, all, p)]
    <2>1. \A p \in Seq(Blocks) : all[p] = Turn(entry, seen, all, p)
      BY <1>3, <1>4
    <2> QED
      BY <1>2, <2>1
  <1>6. Walk(entry, seen) = CHOOSE f : f = [p \in Seq(Blocks) |-> Turn(entry, seen, f, p)]
    BY DEF Walk, Turn
  <1>7. Walk(entry, seen) = [p \in Seq(Blocks) |-> Turn(entry, seen, Walk(entry, seen), p)]
    BY <1>5, <1>6
  <1> QED
    BY <1>7

\* A line of observed blocks, each the parent of the next, up to the head.
Line(seen, head, path) ==
  /\ path \in Seq(Blocks) \ {<<>>}
  /\ path[Len(path)] = head
  /\ \A i \in 1..(Len(path) - 1) : Parent[path[i + 1]] = path[i]
  /\ \A i \in 1..Len(path) : \E r \in seen : r.block = path[i]

LEMMA LongerLine ==
  ASSUME NEW entry \in Blocks, NEW seen, OfBlocks(seen), NEW head, NEW path,
         Line(seen, head, path), GoesOn(entry, seen, path)
  PROVE  Line(seen, head, Longer(seen, path))
  <1> DEFINE next == Longer(seen, path)
  <1>1. path \in Seq(Blocks) \ {<<>>}
    BY DEF Line
  <1>2. /\ next \in Seq(Blocks) \ {<<>>}
        /\ Head(next) \in Previous(seen, Head(path))
        /\ Len(next) = Len(path) + 1
        /\ next[1] = Head(next)
        /\ \A i \in 1..Len(path) : next[i + 1] = path[i]
    BY <1>1, LongerPath
  <1> HIDE DEF next
  <1>3. Len(path) \in Nat /\ Len(path) >= 1 /\ Head(path) = path[1]
    BY <1>1, HeadTailProperties, LenProperties, EmptySeq
  <1>4. next[Len(next)] = head
    BY <1>2, <1>3 DEF Line
  <1>5. next[1] = Parent[path[1]] /\ \E r \in seen : r.block = next[1]
    BY <1>2, <1>3 DEF Previous
  <1>6. ASSUME NEW i \in 1..(Len(next) - 1) PROVE Parent[next[i + 1]] = next[i]
    <2>1. CASE i = 1
      BY <1>2, <1>3, <1>5, <2>1
    <2>2. CASE i # 1
      <3>1. i - 1 \in 1..(Len(path) - 1) /\ (i - 1) + 1 = i /\ i \in 1..Len(path)
        BY <1>2, <1>3, <2>2
      <3>2. Parent[path[(i - 1) + 1]] = path[i - 1] /\ i - 1 \in 1..Len(path)
        BY <3>1, <1>3 DEF Line
      <3>3. next[i + 1] = path[i] /\ next[(i - 1) + 1] = path[i - 1]
        BY <1>2, <3>1, <3>2
      <3> QED
        BY <3>1, <3>2, <3>3
    <2> QED
      BY <2>1, <2>2
  <1>7. ASSUME NEW i \in 1..Len(next) PROVE \E r \in seen : r.block = next[i]
    <2>1. CASE i = 1
      BY <1>5, <2>1
    <2>2. CASE i # 1
      <3>1. i - 1 \in 1..Len(path) /\ (i - 1) + 1 = i
        BY <1>2, <1>3, <2>2
      <3>2. next[(i - 1) + 1] = path[i - 1]
        BY <1>2, <3>1
      <3> QED
        BY <3>1, <3>2 DEF Line
    <2> QED
      BY <2>1, <2>2
  <1> QED
    BY <1>2, <1>4, <1>6, <1>7 DEF Line, next

\* Where the walk of a line ends with a path, that path is a line to the same
\* head, and begins with the entry block.
LEMMA WalkOfLine ==
  ASSUME NEW entry \in Blocks, NEW seen, OfBlocks(seen), NEW head
  PROVE  \A path : Line(seen, head, path) /\ Walk(entry, seen)[path].status = "path" =>
           /\ Line(seen, head, Walk(entry, seen)[path].path)
           /\ Walk(entry, seen)[path].path[1] = entry
  <1> DEFINE walk == Walk(entry, seen)
             Good(path) == walk[path].status = "path" =>
                             Line(seen, head, walk[path].path) /\ walk[path].path[1] = entry
             Bad == {path \in Seq(Blocks) \ {<<>>} : Line(seen, head, path) /\ ~Good(path)}
  <1>1. ASSUME Bad # {} PROVE FALSE
    <2>1. PICK p \in Bad : \A q \in Bad : ~(Number[Head(q)] < Number[Head(p)])
      <3>1. Bad \subseteq Seq(Blocks) \ {<<>>}
        OBVIOUS
      <3> QED
        BY <1>1, <3>1, LowestPath
    <2>2. p \in Seq(Blocks) \ {<<>>} /\ Line(seen, head, p) /\ ~Good(p)
      OBVIOUS
    <2>3. walk[p] = Turn(entry, seen, walk, p)
      BY <2>2, WalkUnfolds
    <2>4. CASE GoesOn(entry, seen, p)
      <3>1. walk[p] = walk[Longer(seen, p)]
        BY <2>2, <2>3, <2>4, TurnGoesOn
      <3>2. /\ Longer(seen, p) \in Seq(Blocks) \ {<<>>}
            /\ Number[Head(Longer(seen, p))] < Number[Head(p)]
        BY <2>2, <2>4, LongerPath
      <3>3. Line(seen, head, Longer(seen, p))
        BY <2>2, <2>4, LongerLine
      <3> HIDE DEF walk
      <3>4. Longer(seen, p) \in Bad
        BY <2>2, <3>1, <3>2, <3>3
      <3> QED
        BY <2>1, <3>2, <3>4
    <2>5. CASE ~GoesOn(entry, seen, p)
      <3>1. Head(p) \in Blocks /\ Head(p) = p[1]
        BY <2>2, HeadTailProperties
      <3>2. Number[Head(p)] \in Nat /\ Number[entry] \in Nat
        BY <3>1, OutcomeAssumption
      <3>3. Turn(entry, seen, walk, p).status = "path" =>
              Turn(entry, seen, walk, p).path = p /\ Head(p) = entry
        BY <2>5, <3>2 DEF Turn, GoesOn, Outcome
      <3> HIDE DEF walk
      <3> QED
        BY <2>2, <2>3, <3>1, <3>3
    <2> QED
      BY <2>4, <2>5
  <1> HIDE DEF walk
  <1>2. \A path : Line(seen, head, path) => path \in Seq(Blocks) \ {<<>>}
    BY DEF Line
  <1> QED
    BY <1>1, <1>2 DEF walk

-----------------------------------------------------------------------------
(* The path of a complete result *)

Typed(b) ==
  /\ \A r \in observations[b] : r.block \in Blocks /\ r.observed \in Nat
  /\ \A r \in sightings[b] : r.block \in Blocks
  /\ Bought(b) => executed[b].known \in Nat

\* The kinds of step, with what they add typed.
TypedStepOf(b) ==
  /\ \A r \in observations'[b] : r \in observations[b] \/ (r.block \in Blocks /\ r.observed \in Nat)
  /\ \A r \in sightings'[b] : r \in sightings[b] \/ r.block \in Blocks
  /\ Bought(b)' => executed'[b].known \in Nat \/ (Bought(b) /\ executed'[b] = executed[b])

LEMMA ObservationAdds ==
  ASSUME NEW b, NEW h \in Blocks, NEW observed \in Nat, NEW known
  PROVE  \A r \in WithObservation(b, h, observed, known) :
           r \in observations[b] \/ (r.block \in Blocks /\ r.observed \in Nat)
  <1> DEFINE row == [block |-> h, observed |-> observed, known |-> known,
                     seq |-> Stamp.seq, at |-> Stamp.at]
  <1>1. row.block = h /\ row.observed = observed
    OBVIOUS
  <1>2. WithObservation(b, h, observed, known) \subseteq observations[b] \cup {row}
    BY DEF WithObservation
  <1> HIDE DEF row
  <1> QED
    BY <1>1, <1>2

LEMMA SightingAdds ==
  ASSUME NEW b, NEW h \in Blocks, NEW sighted
  PROVE  \A r \in WithSighting(b, h, sighted) : r \in sightings[b] \/ r.block \in Blocks
  <1> DEFINE row == [block |-> h, known |-> sighted, seq |-> Stamp.seq, at |-> Stamp.at]
  <1>1. row.block = h
    OBVIOUS
  <1>2. WithSighting(b, h, sighted) \subseteq sightings[b] \cup {row}
    BY DEF WithSighting
  <1> HIDE DEF row
  <1> QED
    BY <1>1, <1>2

\* The tables of the other BUYs stand.
LEMMA FactsTyped ==
  ASSUME Inv, NEW b \in Buys, NEW seen, NEW heads, executed' = executed,
         observations' = [observations EXCEPT ![b] = seen],
         sightings' = [sightings EXCEPT ![b] = heads],
         \A r \in seen : r \in observations[b] \/ (r.block \in Blocks /\ r.observed \in Nat),
         \A r \in heads : r \in sightings[b] \/ r.block \in Blocks
  PROVE  \A a \in Buys : TypedStepOf(a)
  <1> TAKE a \in Buys
  <1>1. CASE a = b
    <2>1. observations'[a] = seen /\ sightings'[a] = heads
      BY <1>1 DEF Inv, Shaped
    <2> QED
      BY <1>1, <2>1 DEF TypedStepOf, Bought
  <1>2. CASE a # b
    <2>1. observations'[a] = observations[a] /\ sightings'[a] = sightings[a]
      BY <1>2 DEF Inv, Shaped
    <2> QED
      BY <2>1 DEF TypedStepOf, Bought
  <1> QED
    BY <1>1, <1>2

LEMMA StepTyped ==
  ASSUME Inv, [Next]_outcomeVars
  PROVE  \A a \in Buys : TypedStepOf(a)
  <1>1. CASE UNCHANGED tables
    BY <1>1 DEF tables, TypedStepOf, Bought
  <1>2. ASSUME NEW b \in Buys, NEW known \in Moments, CommitSimulatedBuy(b, known)
        PROVE  \A a \in Buys : TypedStepOf(a)
    <2> DEFINE seen == WithObservation(b, EntryOf[b], known, known)
               heads == WithSighting(b, EntryOf[b], known)
               row == [known |-> known, seq |-> Stamp.seq, at |-> Stamp.at]
    <2>1. /\ observations' = [observations EXCEPT ![b] = seen]
          /\ sightings' = [sightings EXCEPT ![b] = heads]
          /\ IF Bought(b) THEN executed' = executed
             ELSE executed' = [executed EXCEPT ![b] = row]
      BY <1>2 DEF CommitSimulatedBuy
    <2>2. EntryOf[b] \in Blocks /\ known \in Nat
      BY OutcomeAssumption, ClockAssumption DEF Moments
    <2>3. /\ \A r \in seen : r \in observations[b] \/ (r.block \in Blocks /\ r.observed \in Nat)
          /\ \A r \in heads : r \in sightings[b] \/ r.block \in Blocks
      BY <2>2, ObservationAdds, SightingAdds
    <2>4. row.known \in Nat
      BY <2>2
    <2> HIDE DEF seen, heads, row
    <2>5. CASE Bought(b)
      BY <2>1, <2>3, <2>5, FactsTyped
    <2>6. CASE ~Bought(b)
      <3> TAKE a \in Buys
      <3>1. CASE a = b
        <4>1. observations'[a] = seen /\ sightings'[a] = heads /\ executed'[a] = row
          BY <2>1, <2>6, <3>1 DEF Inv, Shaped
        <4> QED
          BY <2>3, <2>4, <3>1, <4>1 DEF TypedStepOf
      <3>2. CASE a # b
        <4>1. /\ observations'[a] = observations[a] /\ sightings'[a] = sightings[a]
              /\ executed'[a] = executed[a]
          BY <2>1, <2>6, <3>2 DEF Inv, Shaped
        <4> QED
          BY <4>1 DEF TypedStepOf, Bought
      <3> QED
        BY <3>1, <3>2
    <2> QED
      BY <2>5, <2>6
  <1>3. ASSUME NEW b \in Buys, NEW h \in Blocks, NEW known \in Moments,
               RecordBlockObservation(b, h, known)
        PROVE  \A a \in Buys : TypedStepOf(a)
    <2> DEFINE seen == WithObservation(b, h, Mined[h], known)
    <2>1. /\ observations' = [observations EXCEPT ![b] = seen]
          /\ sightings' = sightings /\ executed' = executed
      BY <1>3 DEF RecordBlockObservation
    <2>2. \A r \in seen : r \in observations[b] \/ (r.block \in Blocks /\ r.observed \in Nat)
      BY ObservationAdds, OutcomeAssumption
    <2> HIDE DEF seen
    <2>3. sightings' = [sightings EXCEPT ![b] = sightings[b]]
      BY <2>1 DEF Inv, Shaped
    <2> QED
      BY <2>1, <2>2, <2>3, FactsTyped
  <1>4. ASSUME NEW b \in Buys, NEW h \in Blocks, NEW sighted \in Moments,
               RecordHeadSighting(b, h, sighted)
        PROVE  \A a \in Buys : TypedStepOf(a)
    <2> DEFINE heads == WithSighting(b, h, sighted)
    <2>1. /\ sightings' = [sightings EXCEPT ![b] = heads]
          /\ observations' = observations /\ executed' = executed
      BY <1>4 DEF RecordHeadSighting
    <2>2. \A r \in heads : r \in sightings[b] \/ r.block \in Blocks
      BY SightingAdds
    <2> HIDE DEF heads
    <2>3. observations' = [observations EXCEPT ![b] = observations[b]]
      BY <2>1 DEF Inv, Shaped
    <2> QED
      BY <2>1, <2>2, <2>3, FactsTyped
  <1>5. ASSUME NEW b \in Buys, NEW h \in Blocks, NEW known \in Moments, NEW sighted \in Moments,
               CommitCanonicalObservation(b, h, known, sighted)
        PROVE  \A a \in Buys : TypedStepOf(a)
    <2> DEFINE seen == WithObservation(b, h, Mined[h], known)
               heads == WithSighting(b, h, sighted)
    <2>1. /\ observations' = [observations EXCEPT ![b] = seen]
          /\ sightings' = [sightings EXCEPT ![b] = heads] /\ executed' = executed
      BY <1>5 DEF CommitCanonicalObservation
    <2>2. /\ \A r \in seen : r \in observations[b] \/ (r.block \in Blocks /\ r.observed \in Nat)
          /\ \A r \in heads : r \in sightings[b] \/ r.block \in Blocks
      BY ObservationAdds, SightingAdds, OutcomeAssumption
    <2> HIDE DEF seen, heads
    <2> QED
      BY <2>1, <2>2, FactsTyped
  <1>6. ASSUME NEW b \in Buys, NEW cutoff \in Moments, FinalizeOneHour(b, cutoff)
        PROVE  \A a \in Buys : TypedStepOf(a)
    BY <1>6 DEF FinalizeOneHour, TypedStepOf, Bought
  <1> QED
    BY <1>1, <1>2, <1>3, <1>4, <1>5, <1>6 DEF Next, outcomeVars, tables

LEMMA TypedStep ==
  ASSUME NEW b, Typed(b), TypedStepOf(b)
  PROVE  Typed(b)'
  BY DEF Typed, TypedStepOf

LEMMA SpecInv == Spec => [](Inv /\ \A b \in Buys : Typed(b))
  <1>1. Init => \A b \in Buys : Typed(b)
    BY DEF Init, Typed, Bought
  <1>2. Inv /\ (\A b \in Buys : Typed(b)) /\ [Next]_outcomeVars => (\A b \in Buys : Typed(b))'
    BY StepTyped, TypedStep
  <1> QED
    BY <1>1, <1>2, InvInit, InvStep, PTL DEF Spec

\* The walk ends with one of its own outcomes.
LEMMA NeverComplete ==
  ASSUME NEW entry \in Blocks, NEW seen, OfBlocks(seen), NEW sighted,
         \A r \in sighted : r.block \in Blocks
  PROVE  CanonicalPath(entry, seen, sighted).status # "complete"
  <1> DEFINE walk == Walk(entry, seen)
             Bad == {path \in Seq(Blocks) \ {<<>>} : walk[path].status = "complete"}
  <1>1. ASSUME Bad # {} PROVE FALSE
    <2>1. PICK p \in Bad : \A q \in Bad : ~(Number[Head(q)] < Number[Head(p)])
      <3>1. Bad \subseteq Seq(Blocks) \ {<<>>}
        OBVIOUS
      <3> QED
        BY <1>1, <3>1, LowestPath
    <2>2. p \in Seq(Blocks) \ {<<>>} /\ walk[p].status = "complete"
      OBVIOUS
    <2>3. walk[p] = Turn(entry, seen, walk, p)
      BY <2>2, WalkUnfolds
    <2>4. CASE GoesOn(entry, seen, p)
      <3>1. walk[p] = walk[Longer(seen, p)]
        BY <2>2, <2>3, <2>4, TurnGoesOn
      <3>2. /\ Longer(seen, p) \in Seq(Blocks) \ {<<>>}
            /\ Number[Head(Longer(seen, p))] < Number[Head(p)]
        BY <2>2, <2>4, LongerPath
      <3> HIDE DEF walk
      <3>3. Longer(seen, p) \in Bad
        BY <2>2, <3>1, <3>2
      <3> QED
        BY <2>1, <3>2, <3>3
    <2>5. CASE ~GoesOn(entry, seen, p)
      <3>1. Head(p) \in Blocks
        BY <2>2, HeadTailProperties
      <3>2. Number[Head(p)] \in Nat /\ Number[entry] \in Nat
        BY <3>1, OutcomeAssumption
      <3>3. Turn(entry, seen, walk, p).status # "complete"
        BY <2>5, <3>2 DEF Turn, GoesOn, Outcome
      <3> HIDE DEF walk
      <3> QED
        BY <2>2, <2>3, <3>3
    <2> QED
      BY <2>4, <2>5
  <1>2. CASE CanonicalHead(sighted) = {}
    BY <1>2 DEF CanonicalPath, Outcome
  <1>3. CASE CanonicalHead(sighted) # {}
    <2> DEFINE head == CHOOSE r \in CanonicalHead(sighted) : TRUE
    <2>1. head \in sighted
      BY <1>3 DEF CanonicalHead
    <2>2. <<head.block>> \in Seq(Blocks) \ {<<>>}
      BY <2>1
    <2>3. walk[<<head.block>>].status # "complete"
      BY <1>1, <2>2
    <2> HIDE DEF walk
    <2> QED
      BY <1>3, <2>3 DEF CanonicalPath, Outcome, walk
  <1> QED
    BY <1>2, <1>3

\* What a complete judgement has found.
Found(b, cutoff, path) ==
  LET seen == VisibleOf(observations[b], cutoff) IN
  /\ \E r \in CanonicalHead(VisibleOf(sightings[b], cutoff)) : Line(seen, r.block, path)
  /\ path[1] = EntryOf[b]
  /\ Len(path) # 1
  /\ ~GapExceeded(Points(executed[b].known, seen, path))

LEMMA CompleteFound ==
  ASSUME NEW b \in Buys, Typed(b), NEW cutoff, Judged(b, cutoff).status = "complete"
  PROVE  Found(b, cutoff, Judged(b, cutoff).path)
  <1> DEFINE seen == VisibleOf(observations[b], cutoff)
             sighted == VisibleOf(sightings[b], cutoff)
             outcome == CanonicalPath(EntryOf[b], seen, sighted)
             path == outcome.path
             exceeded == GapExceeded(Points(executed[b].known, seen, path))
             head == CHOOSE r \in CanonicalHead(sighted) : TRUE
             start == <<head.block>>
  <1>1. /\ outcome.status = "path" /\ Len(path) # 1 /\ ~exceeded
        /\ Judged(b, cutoff).path = path
    <2> DEFINE status == IF outcome.status # "path" THEN outcome.status
                         ELSE IF Len(path) = 1 THEN "no_post_entry_observation"
                         ELSE IF exceeded THEN "coverage_gap_exceeded"
                         ELSE "complete"
    <2>1. Judged(b, cutoff) = [cutoff |-> cutoff, status |-> status,
                               path |-> IF status = "complete" THEN path ELSE <<>>]
      BY DEF Judged, Judgement
    <2>2. status = "complete" /\ Judged(b, cutoff).path = path
      BY <2>1
    <2>3. outcome.status # "complete"
      <3>1. OfBlocks(seen) /\ EntryOf[b] \in Blocks /\ \A r \in sighted : r.block \in Blocks
        BY OutcomeAssumption DEF Typed, OfBlocks, VisibleOf
      <3> QED
        BY <3>1, NeverComplete
    <2> HIDE DEF outcome, exceeded
    <2> QED
      BY <2>2, <2>3
  <1>2. OfBlocks(seen) /\ EntryOf[b] \in Blocks
    BY OutcomeAssumption DEF Typed, OfBlocks, VisibleOf
  <1>3. /\ CanonicalHead(sighted) # {} /\ \E r \in seen : r.block = head.block
        /\ outcome = Walk(EntryOf[b], seen)[start]
    BY <1>1 DEF CanonicalPath, Outcome
  <1>4. head \in CanonicalHead(sighted) /\ head.block \in Blocks
    <2>1. head \in CanonicalHead(sighted)
      BY <1>3
    <2> QED
      BY <2>1 DEF CanonicalHead, VisibleOf, Typed
  <1>5. Line(seen, head.block, start)
    <2>1. start \in Seq(Blocks) \ {<<>>} /\ Len(start) = 1 /\ start[1] = head.block
      BY <1>4
    <2> HIDE DEF start, head, seen
    <2> QED
      BY <1>3, <2>1 DEF Line
  <1>6. Line(seen, head.block, path) /\ path[1] = EntryOf[b]
    <2> HIDE DEF seen, sighted, head, start
    <2> QED
      BY <1>1, <1>2, <1>3, <1>5, WalkOfLine
  <1> QED
    BY <1>1, <1>4, <1>6 DEF Found

\* In every behaviour the path of a complete result leads from the entry block
\* to the head sighted last, from parent to child over observed blocks.
THEOREM SpecNoForkStitching == Spec => []NoForkStitching
  <1>1. ASSUME Inv, \A b \in Buys : Typed(b), NEW b \in Buys, Complete(b)
        PROVE  LET path == results[b].says.path
                   byCutoff(r) == Visible(r, results[b].says.cutoff)
               IN  /\ path[1] = EntryOf[b]
                   /\ \A i \in 1..(Len(path) - 1) : Parent[path[i + 1]] = path[i]
                   /\ \A i \in 1..Len(path) : \E r \in observations[b] :
                        r.block = path[i] /\ byCutoff(r)
                   /\ \E r \in sightings[b] :
                        /\ r.block = path[Len(path)] /\ byCutoff(r)
                        /\ \A q \in sightings[b] : byCutoff(q) => q.seq <= r.seq
    <2> DEFINE path == results[b].says.path
               cutoff == results[b].says.cutoff
    <2>1. Found(b, cutoff, path)
      BY <1>1, CompleteFound DEF Inv, ResultStands, Complete
    <2>2. PICK r \in CanonicalHead(VisibleOf(sightings[b], cutoff)) :
            Line(VisibleOf(observations[b], cutoff), r.block, path)
      BY <2>1 DEF Found
    <2> HIDE DEF path, cutoff
    <2>3. path[1] = EntryOf[b]
      BY <2>1 DEF Found
    <2>4. /\ \A i \in 1..(Len(path) - 1) : Parent[path[i + 1]] = path[i]
          /\ \A i \in 1..Len(path) : \E o \in observations[b] :
               o.block = path[i] /\ Visible(o, cutoff)
      BY <2>2 DEF Line, VisibleOf
    <2>5. /\ r \in sightings[b] /\ r.block = path[Len(path)] /\ Visible(r, cutoff)
          /\ \A q \in sightings[b] : Visible(q, cutoff) => q.seq <= r.seq
      BY <2>2 DEF Line, CanonicalHead, VisibleOf
    <2> QED
      BY <2>3, <2>4, <2>5 DEF path, cutoff
  <1>2. Inv /\ (\A b \in Buys : Typed(b)) => NoForkStitching
    BY <1>1 DEF NoForkStitching
  <1> QED
    BY <1>2, SpecInv, PTL

\* The points of a path: the moment of execution, the observations, the end of
\* the window.
LEMMA PointsOfPath ==
  ASSUME NEW start \in Nat, NEW seen, NEW path \in Seq(Blocks), Len(path) >= 1,
         \A i \in 1..Len(path) : ObservedAt(seen, path[i]) \in Nat
  PROVE  LET points == Points(start, seen, path) IN
         /\ Len(points) = Len(path) + 1
         /\ points[1] = start /\ points[Len(path) + 1] = start + Hour
         /\ \A i \in 2..Len(path) : points[i] = ObservedAt(seen, path[i])
  <1> DEFINE n == Len(path) - 1
             middle == [i \in 1..n |-> ObservedAt(seen, path[i + 1])]
             front == <<start>> \o middle
  <1>1. Len(path) \in Nat /\ n \in Nat /\ Len(path) = n + 1
    BY LenProperties
  <1> HIDE DEF n
  <1>2. \A i \in 1..n : ObservedAt(seen, path[i + 1]) \in Nat
    BY <1>1
  <1>3. middle \in Seq(Nat) /\ Len(middle) = n
    BY <1>1, <1>2
  <1>4. <<start>> \in Seq(Nat) /\ Len(<<start>>) = 1 /\ <<start>>[1] = start
    OBVIOUS
  <1>5. \A i \in 1..n : middle[i] = ObservedAt(seen, path[i + 1])
    OBVIOUS
  <1> HIDE DEF middle
  <1>6. /\ front \in Seq(Nat) /\ Len(front) = n + 1
        /\ front[1] = start
        /\ \A i \in 1..n : front[i + 1] = middle[i]
    BY <1>1, <1>3, <1>4, ConcatProperties
  <1>7. Points(start, seen, path) = front \o <<start + Hour>>
    BY DEF Points, n, middle
  <1> HIDE DEF front
  <1>8. /\ <<start + Hour>> \in Seq(Nat) /\ Len(<<start + Hour>>) = 1
        /\ <<start + Hour>>[1] = start + Hour
    BY OutcomeAssumption
  <1>9. /\ Len(front \o <<start + Hour>>) = n + 2
        /\ (front \o <<start + Hour>>)[1] = start
        /\ (front \o <<start + Hour>>)[n + 2] = start + Hour
        /\ \A i \in 1..(n + 1) : (front \o <<start + Hour>>)[i] = front[i]
    BY <1>1, <1>6, <1>8, ConcatProperties
  <1>10. ASSUME NEW i \in 2..Len(path)
         PROVE  Points(start, seen, path)[i] = ObservedAt(seen, path[i])
    <2>1. i - 1 \in 1..n /\ (i - 1) + 1 = i /\ i \in 1..(n + 1)
      BY <1>1
    <2> QED
      BY <1>5, <1>6, <1>7, <1>9, <2>1
  <1> QED
    BY <1>1, <1>7, <1>9, <1>10

\* Points no further apart than MaxGap leave no such stretch of the hour free.
LEMMA PointInStretch ==
  ASSUME NEW n \in Nat, n >= 1, NEW points, Len(points) = n + 1,
         \A i \in 1..(n + 1) : points[i] \in Nat,
         NEW t \in Nat, points[1] <= t, t < points[n + 1],
         ~GapExceeded(points)
  PROVE  \E i \in 2..(n + 1) : points[i] \in (t + 1)..(t + MaxGap)
  <1> DEFINE Later == {i \in 1..(n + 1) : t < points[i]}
  <1>1. Later \subseteq Nat /\ n + 1 \in Later
    OBVIOUS
  <1>2. PICK i \in Later : \A k \in Later : i <= k
    <2> HIDE DEF Later
    <2> QED
      BY <1>1, LeastNatural
  <1>3. i \in 1..(n + 1) /\ t < points[i]
    OBVIOUS
  <1>4. i # 1
    BY <1>3
  <1>5. i - 1 \in 1..n /\ (i - 1) + 1 = i /\ i - 1 \notin Later
    BY <1>2, <1>3, <1>4
  <1>6. points[i - 1] <= t
    BY <1>5
  <1>7. ~(points[i] - points[i - 1] > MaxGap)
    BY <1>5 DEF GapExceeded
  <1>8. MaxGap \in Nat
    BY OutcomeAssumption
  <1> QED
    BY <1>3, <1>4, <1>5, <1>6, <1>7, <1>8

\* In every behaviour no stretch of the hour longer than MaxGap is without a
\* price in a complete result.
THEOREM SpecHourIsCovered == Spec => []HourIsCovered
  <1>1. ASSUME Inv, \A b \in Buys : Typed(b), NEW b \in Buys, Complete(b),
               NEW t \in executed[b].known..(WindowEnd(b) - MaxGap)
        PROVE  \/ t + MaxGap = WindowEnd(b)
               \/ \E r \in observations[b] :
                    /\ \E i \in DOMAIN results[b].says.path : results[b].says.path[i] = r.block
                    /\ r.observed \in (t + 1)..(t + MaxGap)
    <2> DEFINE path == results[b].says.path
               cutoff == results[b].says.cutoff
               seen == VisibleOf(observations[b], cutoff)
               start == executed[b].known
               points == Points(start, seen, path)
    <2>1. Found(b, cutoff, path)
      BY <1>1, CompleteFound DEF Inv, ResultStands, Complete
    <2>2. start \in Nat /\ MaxGap \in Nat /\ Hour \in Nat /\ MaxGap >= 1 /\ MaxGap <= Hour
      BY <1>1, OutcomeAssumption DEF Inv, Whole, Complete, Typed
    <2>3. /\ path \in Seq(Blocks) \ {<<>>} /\ Len(path) # 1
          /\ \A i \in 1..Len(path) : \E r \in seen : r.block = path[i]
          /\ ~GapExceeded(points)
      BY <2>1 DEF Found, Line
    <2> HIDE DEF path, cutoff
    <2>4. Len(path) \in Nat /\ Len(path) >= 1 /\ DOMAIN path = 1..Len(path)
      BY <2>3, LenProperties, EmptySeq
    <2>5. ASSUME NEW i \in 1..Len(path)
          PROVE  \E r \in observations[b] :
                   /\ r.block = path[i] /\ r.observed = ObservedAt(seen, path[i])
                   /\ r.observed \in Nat
      <3> DEFINE row == CHOOSE r \in seen : r.block = path[i]
      <3>1. row \in seen /\ row.block = path[i]
        BY <2>3
      <3>2. row \in observations[b] /\ row.observed = ObservedAt(seen, path[i])
        BY <3>1 DEF VisibleOf, ObservedAt
      <3> HIDE DEF row
      <3> QED
        BY <1>1, <3>1, <3>2 DEF Typed
    <2>6. \A i \in 1..Len(path) : ObservedAt(seen, path[i]) \in Nat
      BY <2>5
    <2> HIDE DEF seen, start
    <2>7. /\ Len(points) = Len(path) + 1
          /\ points[1] = start /\ points[Len(path) + 1] = start + Hour
          /\ \A i \in 2..Len(path) : points[i] = ObservedAt(seen, path[i])
      BY <2>2, <2>3, <2>4, <2>6, PointsOfPath
    <2> HIDE DEF points
    <2>8. WindowEnd(b) = start + Hour
      BY DEF WindowEnd, start
    <2>9. t \in Nat /\ start <= t /\ t <= start + Hour - MaxGap
      BY <2>2, <2>8 DEF start
    <2>10. \A i \in 1..(Len(path) + 1) : points[i] \in Nat
      <3> TAKE i \in 1..(Len(path) + 1)
      <3>1. i = 1 \/ i = Len(path) + 1 \/ (i \in 2..Len(path) /\ i \in 1..Len(path))
        BY <2>4
      <3> QED
        BY <2>2, <2>6, <2>7, <3>1
    <2>11. PICK i \in 2..(Len(path) + 1) : points[i] \in (t + 1)..(t + MaxGap)
      <3>1. points[1] <= t /\ t < points[Len(path) + 1]
        BY <2>2, <2>7, <2>9
      <3> QED
        BY <2>3, <2>4, <2>7, <2>9, <2>10, <3>1, PointInStretch
    <2>12. CASE i = Len(path) + 1
      <3>1. points[i] = start + Hour
        BY <2>7, <2>12
      <3>2. start + Hour <= t + MaxGap
        BY <2>2, <2>9, <2>11, <3>1
      <3>3. t + MaxGap = start + Hour
        BY <2>2, <2>9, <3>2
      <3> QED
        BY <2>8, <3>3
    <2>13. CASE i # Len(path) + 1
      <3>1. i \in 2..Len(path) /\ i \in 1..Len(path)
        BY <2>4, <2>13
      <3>2. PICK r \in observations[b] : r.block = path[i] /\ r.observed = ObservedAt(seen, path[i])
        BY <2>5, <3>1
      <3>3. r.observed \in (t + 1)..(t + MaxGap)
        BY <2>7, <2>11, <3>1, <3>2
      <3> QED
        BY <2>4, <3>1, <3>2, <3>3 DEF path
    <2> QED
      BY <2>12, <2>13
  <1>2. Inv /\ (\A b \in Buys : Typed(b)) => HourIsCovered
    BY <1>1 DEF HourIsCovered
  <1> QED
    BY <1>2, SpecInv, PTL
=============================================================================
