---------------------------- MODULE NarrativeGate ----------------------------
(***************************************************************************)
(* From a fetched status and DeBot's signal to the verdict of the gate:    *)
(* binding.py, history.py, builder.py, classification*.py, executable.py   *)
(* and dossier.py build a dossier with an exact cutoff, readiness.py,      *)
(* current_wave.py and gate.py judge it.  A text is what the rules make of *)
(* it; a moment stands for a time, and what is never known for 0.          *)
(***************************************************************************)
EXTENDS Naturals, FiniteSets

CONSTANTS AsOf,       \* the cutoff of the dossier, dossier.as_of
          LastMoment, \* bound on the moments
          MaxWaveAge, \* maximum_current_wave_age_seconds
          AllowProxy  \* allow_historical_kol_participation_proxy

ASSUME GateAssumption ==
  AsOf \in Nat \ {0} /\ LastMoment \in Nat /\ AsOf < LastMoment /\ MaxWaveAge \in Nat /\ AllowProxy \in BOOLEAN

VARIABLES material, \* what the dossier is built from
          built,    \* the dossier
          gated     \* the verdict, with the wave and the valuation it was asked with

gateVars == <<material, built, gated>>

Never == 0
When == 1..LastMoment

\* What the rules find in the status: no address, the exact address and nothing
\* against it, with or without a declaration, a denial, another address, or both.
Texts == {"silent", "bound", "bare", "denied", "other", "both"}

\* A status that was fetched, its lead, and whether DeBot's description shares its
\* theme or contradicts it; the social links and the profile either fit or do not.
Statuses == [text : Texts, theme : {"none", "shared", "conflict"}, linked : BOOLEAN,
             lead : When, fetched : When]
Missing == [text |-> "silent", theme |-> "none", linked |-> FALSE, lead |-> Never, fetched |-> Never]

-----------------------------------------------------------------------------

\* assess_primary_binding.
Fetched(status) == status.fetched # Never

BindingReason(status) ==
  IF ~Fetched(status) THEN "status_fetch_unavailable"
  ELSE IF status.lead > status.fetched THEN "research_time_invalid"
  ELSE IF status.fetched > AsOf THEN "status_unavailable_at_decision"
  ELSE CASE status.text = "silent" -> "target_ca_not_mentioned"
         [] status.text = "other" -> "target_ca_mismatch"
         [] status.text = "both" -> "conflicting_ca_mentions"
         [] status.text = "denied" -> "target_ca_negated"
         [] status.text = "bare" -> "binding_semantics_unverified"
         [] status.text = "bound" -> "bound"

Bound(status) == BindingReason(status) = "bound"

\* Facts of earlier KOL activity: all four times of a fact must be in order, and
\* before those of the current signal, which may not attest itself.
Prior(fact, signal) ==
  /\ fact.kind # "invalid"
  /\ fact.event <= fact.inserted /\ fact.inserted <= AsOf
  /\ fact.signal # signal.id
  /\ fact.event < signal.event /\ fact.inserted < signal.available

Accepted(m) == IF m.signal.id = "none" THEN {} ELSE {f \in m.facts : Prior(f, m.signal)}

\* build_live_dossier: may the research be used at all?
Research(m) ==
  LET reason == BindingReason(m.status)
  IN  CASE \/ m.signal.available > AsOf
           \/ reason \in {"research_time_invalid", "target_ca_mismatch",
                          "conflicting_ca_mentions", "target_ca_negated"} -> "REJECT"
        [] \/ reason \notin {"bound", "target_ca_not_mentioned"}
           \/ Accepted(m) = {} -> "WAIT"
        [] OTHER -> "READY"

-----------------------------------------------------------------------------

\* EvidenceItem.usable_at; of its three times, which are in order, the last counts.
SlipUsable(captured) == captured > Never

Usable(captured) == captured > Never /\ captured <= AsOf

\* assess_spread: usable narrative sources only; two independent groups validate.
Spread(m) == {s \in m.spread : Usable(s.captured)}
Validated(m) == Cardinality({s.group : s \in Spread(m)}) >= 2

\* A denial or another address, in the status or in the description.
Conflict(m) == m.status.text \in {"denied", "other", "both"} \/ m.status.theme = "conflict"

\* The KOL trades of the current signal, once it was available.
CurrentKol(m) == m.signal.id # "none" /\ m.signal.kol /\ m.signal.available <= AsOf

\* No address in an exact status that shares DeBot's theme and is linked to it.
Community(m) ==
  /\ BindingReason(m.status) = "target_ca_not_mentioned"
  /\ m.status.linked /\ m.status.theme = "shared"

Canonicality(m) ==
  CASE Conflict(m) -> "contradicted"
    [] Bound(m.status) -> "creator_claimed"
    [] Community(m) /\ Validated(m) -> "community_consensus"
    [] OTHER -> "provisional_leader"

Stage(m) ==
  IF Validated(m) /\ ~Conflict(m) THEN "validation"
  ELSE IF Fetched(m.status) THEN "discovery" ELSE "unresolved"

\* A finding with the times at which its supports were captured.
Unknown == [state |-> "unknown", support |-> {}]
Finding(state, support) == IF support = {} THEN Unknown ELSE [state |-> state, support |-> support]

Hard == {"origin", "legitimacy", "leader"}
Soft == {"propagation", "culture", "catalysts", "stage"}

\* The items made from the status, from DeBot's context, and from the spread.
OfStatus(m) == IF Fetched(m.status) THEN {m.status.fetched} ELSE {}
OfContext(m) == {IF m.signal.available > AsOf THEN m.signal.available ELSE AsOf}
OfSpread(m) == {s.captured : s \in Spread(m)}

\* assess_identity: the creator's declaration, or a community that found one origin.
Identity(m, dimension) ==
  CASE Bound(m.status) /\ (dimension # "leader" \/ m.status.linked) ->
         Finding("confirmed", OfStatus(m))
    [] ~Bound(m.status) /\ Community(m) ->
         LET items == OfStatus(m) \cup (IF dimension = "origin" THEN {} ELSE OfContext(m))
         IN  IF dimension = "origin" THEN Finding("confirmed", items)
             ELSE Finding(IF Validated(m) THEN "confirmed" ELSE "supported", items)
    [] OTHER -> Unknown

\* classify_context, merged over the findings of the builder.
Findings(m) ==
  [d \in Hard \cup Soft |->
     CASE Conflict(m) /\ d = "leader" -> [state |-> "contradicted", support |-> OfContext(m)]
       [] Conflict(m) /\ d \in Soft -> Unknown
       [] Conflict(m) -> IF Bound(m.status) THEN Finding("confirmed", OfStatus(m)) ELSE Unknown
       [] d \in Hard -> Identity(m, d)
       [] d = "propagation" -> Finding("supported", OfSpread(m))
       [] d = "stage" -> Finding("supported", IF Validated(m) THEN OfSpread(m) ELSE {})
       [] OTHER -> Finding("supported", IF m.status.theme = "shared" THEN OfStatus(m) ELSE {})]

\* What classify_context could not find and the gate must wait for.
FatalUnknown(m) ==
  ~Conflict(m) /\ (\/ \E d \in Soft \cup {"leader"} : Findings(m)[d] = Unknown
                   \/ ~CurrentKol(m) \/ Accepted(m) = {})

Dossier(m) ==
  [canonicality |-> Canonicality(m), stage |-> Stage(m), findings |-> Findings(m),
   fatal |-> FatalUnknown(m), research |-> Research(m),
   proxy |-> Accepted(m) # {} /\ \A f \in Accepted(m) : f.kind = "proxy",
   kol |-> Accepted(m) # {}, signal |-> m.signal]

-----------------------------------------------------------------------------

\* NarrativeDossier.effective_state.
Effective(dossier, d) ==
  IF dossier.findings[d].state # "unknown" /\ \E c \in dossier.findings[d].support : Usable(c)
  THEN dossier.findings[d].state ELSE "unknown"

\* evaluate_readiness, with capital confirmation left to the gate.
Ready(dossier, valuation) ==
  CASE \/ \E d \in Hard \cup Soft : Effective(dossier, d) = "contradicted"
       \/ dossier.canonicality = "contradicted" \/ valuation.status = "overextended" -> "REJECT"
    [] \E d \in Hard : Effective(dossier, d) = "unknown" -> "UNRESOLVED"
    [] \/ \E d \in Hard : Effective(dossier, d) # "confirmed"
       \/ \E d \in Soft : Effective(dossier, d) = "unknown"
       \/ dossier.canonicality = "provisional_leader"
       \/ dossier.stage # "validation"
       \/ valuation.status # "bounded" \/ valuation.at > AsOf
       \/ dossier.fatal -> "WAIT"
    [] OTHER -> "PASS_TO_EXECUTION"

\* assess_current_wave at the moment of the decision.
Wave(wave, now) ==
  CASE wave.assessed = Never -> "WAIT"
    [] ~wave.secure \/ wave.available > wave.assessed \/ wave.assessed > now -> "REJECT"
    [] ~wave.qualified \/ now - wave.provider > MaxWaveAge -> "WAIT"
    [] OTHER -> "PASS"

\* evaluate_narrative_gate; the wave must be the signal the research was made for.
Gate(dossier, valuation, wave, now) ==
  CASE \/ AsOf > now \/ valuation.at > now
       \/ dossier.signal.id = "none"
       \/ wave.assessed # Never /\ (\/ wave.signal # dossier.signal.id
                                    \/ wave.provider # dossier.signal.event
                                    \/ wave.available # dossier.signal.available)
       \/ dossier.research = "REJECT" \/ Ready(dossier, valuation) = "REJECT"
       \/ Wave(wave, now) = "REJECT" -> "REJECT"
    [] \/ dossier.research = "WAIT" \/ Ready(dossier, valuation) # "PASS_TO_EXECUTION"
       \/ ~dossier.kol \/ (dossier.proxy /\ ~AllowProxy)
       \/ Wave(wave, now) = "WAIT" -> "WAIT"
    [] OTHER -> "PASS"

-----------------------------------------------------------------------------

NoSignal == [id |-> "none", event |-> Never, available |-> Never, kol |-> FALSE]
NoGate == [verdict |-> "none"]
NoMaterial == [status |-> Missing, signal |-> NoSignal, facts |-> {}, spread |-> {}]

\* Signals are available one moment after their event, or later.
Signals == {[id |-> "s1", event |-> AsOf - 1, available |-> m, kol |-> k] :
              m \in {AsOf, LastMoment}, k \in BOOLEAN} \cup {NoSignal}

\* An earlier signal's fact of each kind, one of the current signal, one as late.
Facts ==
  {[event |-> 1, inserted |-> 1, signal |-> "s0", kind |-> k] : k \in {"wallet", "proxy", "invalid"}}
  \cup {[event |-> 1, inserted |-> LastMoment, signal |-> "s0", kind |-> "wallet"],
        [event |-> 1, inserted |-> 1, signal |-> "s1", kind |-> "wallet"],
        [event |-> AsOf - 1, inserted |-> AsOf - 1, signal |-> "s0", kind |-> "wallet"]}

\* Either group reports at any time, or not at all.
Spreads ==
  {{s \in [group : {"g1", "g2"}, captured : When] : s.captured = at[s.group]} :
     at \in [{"g1", "g2"} -> {Never, 1, LastMoment}]}

Valuations == {[status |-> "bounded", at |-> AsOf], [status |-> "bounded", at |-> LastMoment],
               [status |-> "overextended", at |-> AsOf], [status |-> "none", at |-> Never]}

\* The wave of the signal, in order, and what can be wrong with it.
GoodWave(signal, m) ==
  [signal |-> signal.id, provider |-> signal.event, available |-> signal.available,
   assessed |-> m, qualified |-> TRUE, secure |-> TRUE]

Waves(signal) ==
  {GoodWave(signal, AsOf), GoodWave(signal, LastMoment),
   [GoodWave(signal, AsOf) EXCEPT !.signal = "s2"],
   [GoodWave(signal, AsOf) EXCEPT !.qualified = FALSE],
   [GoodWave(signal, AsOf) EXCEPT !.secure = FALSE],
   [GoodWave(signal, AsOf) EXCEPT !.assessed = Never]}

GateInit == material = NoMaterial /\ built = Dossier(NoMaterial) /\ gated = NoGate

\* Statuses of any kind in time, and one that binds the token but is fetched late.
StatusesFound ==
  {s \in Statuses : s.lead = AsOf - 1 /\ (s.fetched = AsOf \/ (s.fetched = LastMoment /\ s.text = "bound"))}

\* build_executable_dossier.
BuildDossier ==
  /\ material = NoMaterial
  /\ \E status \in StatusesFound \cup {Missing}, signal \in Signals,
        facts \in {{}} \cup {{f} : f \in Facts}, spread \in Spreads :
       material' = [status |-> status, signal |-> signal, facts |-> facts, spread |-> spread]
  /\ built' = Dossier(material')
  /\ gated' = NoGate

\* evaluate_narrative_gate, now or later.
DecideGate ==
  /\ gated = NoGate /\ material # NoMaterial
  /\ \E valuation \in Valuations, wave \in Waves(built.signal), now \in AsOf..LastMoment :
       gated' = [verdict |-> Gate(built, valuation, wave, now),
                 valuation |-> valuation, wave |-> wave, now |-> now]
  /\ UNCHANGED <<material, built>>

GateNext == BuildDossier \/ DecideGate

-----------------------------------------------------------------------------

\* The material as it was known at the cutoff: what came later is taken away.
KnownAt(m) ==
  [status |-> IF m.status.fetched > AsOf THEN Missing ELSE m.status,
   signal |-> IF m.signal.available > AsOf THEN NoSignal ELSE m.signal,
   facts |-> {f \in m.facts : f.inserted <= AsOf},
   spread |-> {s \in m.spread : s.captured <= AsOf}]

\* A PASS owes nothing to what came to be known after the cutoff of the dossier, or
\* after the decision itself: judged on what was known then it passes too ("Pure
\* assembly of a point-in-time partial narrative dossier", builder.py:1, and
\* "fail-closed", gate.py:1).
NoLookahead ==
  gated.verdict = "PASS" =>
    /\ gated.wave.assessed <= gated.now /\ gated.valuation.at <= AsOf
    /\ Gate(Dossier(KnownAt(material)), gated.valuation, gated.wave, gated.now) = "PASS"
=============================================================================
