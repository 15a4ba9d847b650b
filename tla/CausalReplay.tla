---------------------------- MODULE CausalReplay ----------------------------
(***************************************************************************)
(* The replay of a case at the moment of its trigger                       *)
(* (narrative/causal_replay.py): a case gains evidence, some of it with    *)
(* hindsight, and is evaluated again each time.  What the evaluation tells *)
(* apart is who speaks, what is claimed, for which token, and when it was  *)
(* published and known.                                                    *)
(***************************************************************************)
EXTENDS Naturals, FiniteSets

CONSTANTS TriggerAt, BuyAt, \* of the case; a moment is a number
          ReplayItems,      \* the evidence there is
          MaxItems          \* bound on the evidence of the case

Roles == {"origin", "ca_binding", "catalyst", "propagation", "denial"}
Speakers == {"primary", "authority", "public_source", "kol", "wallet"}

\* An item is known when it is published or later; 0 is an unknown time.
ReplayAssumption ==
  /\ TriggerAt \in Nat /\ BuyAt \in Nat /\ TriggerAt <= BuyAt /\ MaxItems \in Nat
  /\ \A item \in ReplayItems : /\ item.published \in Nat /\ item.known \in Nat
                               /\ item.known = 0 \/ item.published <= item.known

ASSUME ReplayAssumption

VARIABLES caseItems, \* evidence of the case
          replayed   \* verdict of the last evaluation

replayVars == <<caseItems, replayed>>

\* Known strictly before the trigger and the buy, and not found afterwards.
SlipPriorItem(item) ==
  item.live /\ item.known # 0 /\ item.published < (IF TriggerAt <= BuyAt THEN TriggerAt ELSE BuyAt)

PriorItem(item) ==
  LET cutoff == IF TriggerAt <= BuyAt THEN TriggerAt ELSE BuyAt
  IN  item.live /\ item.known # 0 /\ item.published < cutoff /\ item.known < cutoff

\* effective_claim: a KOL or a wallet propagates, whatever it claims.
EffectiveClaim(item) ==
  IF item.claim # "denial" /\ item.actor \in {"kol", "wallet"} THEN "propagation" ELSE item.claim

Authoritative(item) == item.actor \in {"primary", "authority"}

\* An item that makes the case doubtful by itself.
Doubtful(item) == ~PriorItem(item) \/ EffectiveClaim(item) # item.claim

\* evaluate_causal_replay.
Evaluate(items) ==
  LET prior == {i \in items : PriorItem(i)}
      Claimed(role) == {i \in prior : EffectiveClaim(i) = role}
      denied == \E i \in Claimed("denial") : Authoritative(i) /\ i.token \in {"none", "target"}
      origin == \E i \in Claimed("origin") : i.actor \notin {"kol", "wallet"}
      binding == \E i \in Claimed("ca_binding") : Authoritative(i) /\ i.exact /\ i.token = "target"
      catalyst == \E i \in Claimed("catalyst") : i.public /\ i.actor \notin {"kol", "wallet"}
  IN  IF denied THEN "REJECT"
      ELSE IF origin /\ binding /\ catalyst /\ \A i \in items : ~Doubtful(i) THEN "CAUSAL_READY"
      ELSE "WAIT"

ReplayInit == caseItems = {} /\ replayed = Evaluate({})

AddItem ==
  /\ Cardinality(caseItems) < MaxItems
  /\ \E item \in ReplayItems \ caseItems : caseItems' = caseItems \cup {item}
  /\ replayed' = Evaluate(caseItems')

ReplayNext == AddItem

-----------------------------------------------------------------------------

\* Hindsight helps nothing ("Minimal point-in-time policy", causal_replay.py:1):
\* an item that was not known before the trigger can make a ready case wait, but it
\* neither makes a case ready nor takes a rejection back, and it cannot reject one;
\* and nothing at all takes a rejection back.
HindsightHelpsNothing ==
  [][/\ (\A item \in caseItems' \ caseItems :
           \/ ~item.live \/ item.known = 0 \/ item.known >= TriggerAt)
          => replayed' = replayed \/ (replayed = "CAUSAL_READY" /\ replayed' = "WAIT")
     /\ replayed = "REJECT" => replayed' = "REJECT"]_replayVars
=============================================================================
