---------------------------- MODULE Investigation ----------------------------
(***************************************************************************)
(* From verified statuses to a verdict on a narrative: the trusted         *)
(* adapters and the receipts they seal (trusted_ingest.py,                 *)
(* trusted_telegram.py, source_receipts.py), the registry of actors        *)
(* (actor_registry.py), the events that a status amounts to                *)
(* (event_semantics.py) and the investigation itself (investigation*.py).  *)
(* A status that answers another has the events of that one for parents.   *)
(***************************************************************************)
EXTENDS Integers, FiniteSets, FiniteSetsExt

CONSTANTS Actors,      \* authors of statuses
          Tier, Can,   \* of each author: tier, and capabilities
          Scoped,      \* registered authors with narrative_keys
          Posted,      \* the statuses there are
          Cutoff,      \* as_of
          MaxCatalyst, \* maximum_catalyst_age_seconds
          MaxKolAge,   \* maximum_historical_kol_age_seconds
          MinGroups, ExpansionGroups

ASSUME InvestigationAssumption ==
  /\ Cutoff \in Nat /\ MaxCatalyst \in Nat /\ MaxKolAge \in Nat
  /\ MinGroups \in Nat \ {0} /\ ExpansionGroups \in Nat /\ MinGroups <= ExpansionGroups
  /\ \A p \in Posted : p.published \in Nat /\ p.fetched \in Nat /\ p.published <= p.fetched

VARIABLES asked,      \* the rest of the InvestigationRequest
          statuses,   \* the verified statuses in it
          conclusion  \* what investigate_narrative made of it last

investigationVars == <<asked, statuses, conclusion>>

Carriers == {"target", "imitation"}

NoSignalYet == [at |-> 0, known |-> 0, qualified |-> FALSE]

-----------------------------------------------------------------------------

\* ActorRegistry.permits for a narrative key.  Nobody is registered for a URL of
\* Telegram; an unregistered author is who X says it is.
Permits(post, key) ==
  /\ post.via = "x"
  /\ Tier[post.author] = "unknown" \/ (post.authentic /\ (post.author \in Scoped => key = "the_narrative"))

\* XStatusVerifier.verify and TelegramPostVerifier.verify: the first asks the
\* registry without a key, the second for the channel only.
Verified(post) ==
  IF post.via = "x" THEN post.identified /\ Permits(post, "") ELSE post.identified /\ post.authentic

\* derive_event_semantics: what a receipt amounts to, for its author.
EventsOf(post) ==
  LET Event(kind, token) == [kind |-> kind, token |-> token, post |-> post]
      targets == IF post.tokens = {} THEN {"none"} ELSE post.tokens
  IN  IF post.says = "unrelated" THEN {}
      ELSE IF post.says = "denial" THEN {Event("counter_evidence", t) : t \in targets}
      ELSE {Event(kind, "none") : kind \in Can[post.author] \cap {"source_event", "current_catalyst", "propagation"}}
           \cup (IF "bind" \in Can[post.author] THEN {Event("token_binding", t) : t \in post.tokens} ELSE {})

\* validate_event_sources: an event that was not derived from its receipt raises.
Trusted(events) ==
  \A e \in events : Permits(e.post, "the_narrative") /\ e \in EventsOf(e.post)

-----------------------------------------------------------------------------

\* NarrativeEvent.usable_at.
SlipUsableAt(event) == event.post.published <= Cutoff

UsableAt(event) == event.post.published <= Cutoff /\ event.post.fetched <= Cutoff

Before(e, f) ==
  \/ e.post.published < f.post.published
  \/ e.post.published = f.post.published /\ e.post.id < f.post.id

NoEvent == [kind |-> "none"]

\* select_source: the earliest of those who may establish an origin.
SourceOf(events) ==
  LET candidates == {e \in events : e.kind = "source_event" /\ "source_event" \in Can[e.post.author]}
  IN  IF candidates = {} THEN NoEvent
      ELSE CHOOSE e \in candidates : \A f \in candidates : f = e \/ Before(e, f)

\* descends_from, by the statuses that are answered: those reached in n steps.
Descendants(events, source) ==
  LET depth == Cardinality({e.post.id : e \in events})
      reached[n \in 0..depth] ==
        IF n = 0 THEN {source.post.id}
        ELSE LET sofar == reached[n - 1]
             IN  sofar \cup {e.post.id : e \in {f \in events : f.post.on \in sofar}}
  IN  {e \in events : e.post.on \in reached[depth]}

\* select_catalyst: the latest.
CatalystOf(events, source) ==
  LET candidates == IF source = NoEvent THEN {}
                    ELSE {e \in Descendants(events, source) : e.kind = "current_catalyst"
                                                              /\ "current_catalyst" \in Can[e.post.author]}
  IN  IF candidates = {} THEN NoEvent
      ELSE CHOOSE e \in candidates : \A f \in candidates : f = e \/ Before(f, e)

\* propagation_events: one for each author.
Groups(events, source) ==
  IF source = NoEvent THEN 0
  ELSE Cardinality({e.post.author : e \in {f \in Descendants(events, source) :
                      f.kind = "propagation" /\ "propagation" \in Can[f.post.author]}})

\* effective_binding of a carrier, from the events that name its token after it
\* was created, which for these tokens is at moment 1.
Binding(claimed, token, events, source) ==
  LET named == {e \in events : e.token = token /\ e.post.published >= 1}
      bound == {e \in named : e.kind = "token_binding" /\ e \in Descendants(events, source)}
      By(tiers) == \E e \in bound : Tier[e.post.author] \in tiers /\ "bind" \in Can[e.post.author]
      proved == CASE claimed = "contradicted" -> \E e \in named : e.kind = "counter_evidence"
                  [] claimed = "official" -> By({"global_agenda", "ecosystem_authority"})
                  [] claimed = "creator" -> By({"original_creator"})
                  [] claimed = "community" -> Cardinality({e.post.author : e \in bound}) >= 2
                  [] OTHER -> FALSE
  IN  IF source # NoEvent /\ proved THEN claimed ELSE "unverified"

Priority(binding) ==
  CASE binding \in {"official", "creator"} -> 3
    [] binding = "community" -> 2
    [] binding = "unverified" -> 1
    [] OTHER -> 0

\* narrative_leader: nobody unless one carrier alone is best, and better than none.
LeaderOf(bindings) ==
  LET best == Max({Priority(bindings[t]) : t \in Carriers})
      leaders == {t \in Carriers : Priority(bindings[t]) = best}
  IN  IF best > 1 /\ Cardinality(leaders) = 1 THEN CHOOSE t \in leaders : TRUE ELSE "none"

\* capital_confirmations; the earlier KOL signal is of another id than the current.
Historical(r) ==
  /\ r.current # NoSignalYet /\ r.kol.at # 0
  /\ r.kol.at < r.current.at /\ r.kol.known < r.current.known /\ r.kol.known <= Cutoff
  /\ r.current.at - r.kol.at <= MaxKolAge

Current(r) == r.current # NoSignalYet /\ r.current.qualified /\ r.current.known <= Cutoff

\* derive_stage.
StageOf(source, catalyst, groups) ==
  LET fresh == catalyst # NoEvent /\ Cutoff - catalyst.post.published <= MaxCatalyst
      old == Cutoff - source.post.published > MaxCatalyst
  IN  IF source = NoEvent THEN "unresolved"
      ELSE IF fresh /\ groups >= ExpansionGroups THEN "expansion"
      ELSE IF fresh /\ groups >= MinGroups THEN IF old THEN "revival" ELSE "validation"
      ELSE IF old THEN "latent" ELSE "discovery"

\* decision_reasons and authoritative_counters, on the usable events.
Judge(r, events) ==
  LET source == SourceOf(events)
      catalyst == CatalystOf(events, source)
      groups == Groups(events, source)
      bindings == [t \in Carriers |-> Binding(r.claimed[t], t, events, source)]
      leader == LeaderOf(bindings)
      counters == {e \in events : e.kind = "counter_evidence"}
      hard == {e \in counters : "counter" \in Can[e.post.author]
                                /\ e.token \in {"none", leader, r.trigger}}
      market == IF r.market.at <= Cutoff THEN r.market.token ELSE "none"
  IN  IF \/ hard # {}
         \/ r.trigger # "none" /\ bindings[r.trigger] = "contradicted"
         \/ r.trigger # "none" /\ leader # "none" /\ r.trigger # leader
         \/ r.phase = "post_pump"
      THEN "REJECT"
      ELSE IF \/ source = NoEvent \/ catalyst = NoEvent
              \/ Cutoff - catalyst.post.published > MaxCatalyst
              \/ groups < MinGroups
              \/ leader = "none" \/ (market # "none" /\ market # leader)
              \/ ~Historical(r) \/ ~Current(r)
              \/ StageOf(source, catalyst, groups) \notin {"validation", "expansion", "revival"}
              \/ r.phase \in {"unknown", "during_pump"}
              \/ ~r.invalidation
              \/ counters # {}
      THEN "WAIT"
      ELSE "BUY_CANDIDATE"

\* investigate_narrative; the parents of an event are there and not younger.
Investigate(r, posts) ==
  LET events == UNION {EventsOf(p) : p \in posts}
  IN  IF Trusted(events) /\ \A p \in posts : p.on = 0 \/ \E q \in posts : q.id = p.on /\ q.published <= p.published
      THEN Judge(r, {e \in events : UsableAt(e)})
      ELSE "error"

-----------------------------------------------------------------------------

\* What a request says besides its events; an empty time is 0.  A passive request
\* has a trigger and a current signal.
Requests ==
  {r \in [trigger : Carriers \cup {"none"},
          claimed : [Carriers -> {"official", "community", "contradicted"}],
          market : {[token |-> "target", at |-> Cutoff], [token |-> "imitation", at |-> Cutoff + 1]},
          kol : {[at |-> 1, known |-> 1]},
          current : {[at |-> 2, known |-> m, qualified |-> TRUE] : m \in {2, Cutoff + 1}} \cup {NoSignalYet},
          phase : {"pre_pump", "post_pump"},
          invalidation : BOOLEAN] :
     /\ r.trigger # "none" => r.current # NoSignalYet
     /\ r.claimed["imitation"] # "community" /\ r.claimed["target"] # "contradicted"}

InvestigationInit ==
  /\ asked \in Requests
  /\ statuses = {}
  /\ conclusion = Investigate(asked, {})

\* Another status is verified and its events are added, after which the request is
\* investigated again.
AddStatus ==
  /\ \E p \in Posted \ statuses : Verified(p) /\ statuses' = statuses \cup {p}
  /\ conclusion' = Investigate(asked, statuses')
  /\ UNCHANGED asked

InvestigationNext == AddStatus

-----------------------------------------------------------------------------

\* What is learnt after the cutoff changes nothing, whoever says it and whatever it
\* hangs on to; and a denial, of whatever token, never makes a candidate of what
\* was none ("Fail-closed verdict", investigation_decision.py:1, and
\* test_post_cutoff_active_trigger_is_not_backfilled_into_the_timeline).
LateOrDenyingNeverHelps ==
  [][\A p \in statuses' \ statuses :
       /\ p.fetched > Cutoff /\ conclusion # "error" /\ conclusion' # "error" => conclusion' = conclusion
       /\ p.says = "denial" /\ conclusion # "error" /\ conclusion # "BUY_CANDIDATE"
            => conclusion' # "BUY_CANDIDATE"]_investigationVars
=============================================================================
