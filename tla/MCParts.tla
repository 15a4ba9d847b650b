------------------------------- MODULE MCParts -------------------------------
(***************************************************************************)
(* Small instances of the parts around the queue and the ledger: the       *)
(* sources, access to X, DeBot and BSC, research, the checks of a          *)
(* narrative and of an entry, paper trades and audits.  They share no      *)
(* variable, so that a behaviour of all of them together shows nothing     *)
(* that one of them alone does not: a behaviour here is one of the part    *)
(* `part`, and the others stand still.                                     *)
(***************************************************************************)
EXTENDS MCSources, EgressPool, MarketQuote, NarrativeGate, StatusRepository, PaperTrade, EntryWindow,
        CausalReplay, Investigation, TriggerResearch, DexAudit, DebotLogin, TLC

CONSTANTS p1, p2, m1, r1, r2

\* Threads are alike.
Threads == Permutations({r1, r2})

VARIABLE part

partVars == <<part, sourceVars, egressVars, quoteVars, gateVars, repositoryVars, tradeVars, windowVars, replayVars,
              investigationVars, researchVars, auditVars, loginVars>>

-----------------------------------------------------------------------------
\* MarketQuote: routes that are equally deep, one that is deeper, none at all, and a
\* feed that is stale.

SmallRows ==
  {[wbnb |-> 1, stable |-> 1, fresh |-> TRUE], [wbnb |-> 0, stable |-> 1, fresh |-> TRUE],
   [wbnb |-> 0, stable |-> 0, fresh |-> TRUE], [wbnb |-> 1, stable |-> 0, fresh |-> FALSE]}

-----------------------------------------------------------------------------
\* CausalReplay.

Item(actor, claim, token, exact, public, published, known, live) ==
  [actor |-> actor, claim |-> claim, token |-> token, exact |-> exact, public |-> public,
   published |-> published, known |-> known, live |-> live]

Told == {"primary", "public_source", "kol"}

\* In time, of each role; bindings of another token; one that is not public; denials;
\* and primary items that are published late, of unknown time, or not live.
SmallItems ==
  {Item(s, c, "target", TRUE, TRUE, 1, 1, TRUE) : s \in Told, c \in Roles \ {"denial"}}
  \cup {Item(s, "ca_binding", "other", FALSE, TRUE, 1, 1, TRUE) : s \in Told}
  \cup {Item(s, "catalyst", "target", TRUE, FALSE, 1, 1, TRUE) : s \in Told}
  \cup {Item(s, "denial", t, FALSE, TRUE, 1, 1, TRUE) : s \in Told, t \in {"none", "target", "other"}}
  \cup {Item("primary", c, "target", TRUE, TRUE, 1, k[1], k[2]) :
          c \in Roles \ {"propagation"}, k \in {<<2, TRUE>>, <<0, TRUE>>, <<1, FALSE>>}}

-----------------------------------------------------------------------------
\* Investigation.

SmallTier == [official |-> "ecosystem_authority", expert |-> "domain_expert", kol |-> "propagation_kol", other |-> "unknown"]
SmallCan == [official |-> {"source_event", "current_catalyst", "bind", "counter"},
             expert |-> {"current_catalyst", "propagation"},
             kol |-> {"propagation"}, other |-> {"propagation"}]
Post(id, author, on, says, tokens, published, fetched) ==
  [id |-> id, author |-> author, on |-> on, says |-> says, tokens |-> tokens, via |-> "x",
   authentic |-> TRUE, identified |-> TRUE, published |-> published, fetched |-> fetched]

\* An origin, its binding of the target, a catalyst on it, two that propagate, one
\* of them late or by a late one, denials, a second binding, one by Telegram, one
\* that only claims to be the authority.
SmallPosts ==
  {Post(1, "official", 0, "story", {}, 1, 2),
   Post(2, "official", 1, "story", {"target"}, 2, 2),
   Post(3, "expert", 1, "story", {}, 2, 3),
   Post(4, "kol", 3, "story", {"imitation"}, 3, 3),
   Post(5, "other", 4, "story", {}, 3, 4),
   Post(6, "official", 1, "denial", {}, 3, 4),
   Post(7, "kol", 3, "denial", {"target"}, 3, 3),
   Post(8, "official", 3, "story", {"imitation"}, 3, 3),
   Post(9, "official", 1, "denial", {"imitation"}, 2, 3),
   [Post(10, "official", 1, "story", {"imitation"}, 2, 2) EXCEPT !.via = "telegram"],
   [Post(11, "official", 1, "denial", {}, 2, 2) EXCEPT !.authentic = FALSE]}

\* Without invalidation conditions only requests that have no current signal.
SmallRequests == {r \in Requests : r.invalidation \/ r.current = NoSignalYet}

-----------------------------------------------------------------------------

\* What varies at the start of a part does so only in its own behaviours.
Init ==
  /\ part \in {"egress", "quotes", "gate", "repository", "trade", "window", "replay", "investigation", "research",
               "audit", "login", "sources"}
  /\ IF part = "sources" THEN source \in Sources ELSE source = "feed"
  /\ SourcesInit
  /\ IF part = "quotes" THEN TRUE
     ELSE chainRows = [k \in Blocks |-> CHOOSE row \in BlockRows : TRUE]
  /\ IF part = "trade" THEN TRUE ELSE pool = CHOOSE p \in Pools : TRUE
  /\ IF part = "login" THEN TRUE ELSE cookieFile = [version |-> 1, state |-> "good"]
  /\ IF part = "investigation" THEN asked \in SmallRequests ELSE asked = CHOOSE r \in Requests : TRUE
  /\ \E text \in {"story", "names"} : wall = [p \in Posts |-> text] /\ (part = "research" \/ text = "story")
  /\ EgressInit /\ QuoteInit /\ GateInit /\ RepositoryInit /\ TradeInit /\ WindowInit /\ ReplayInit
  /\ InvestigationInit /\ ResearchInit /\ AuditInit /\ LoginInit

NextOfPart ==
  \/ /\ part = "egress" /\ EgressNext
     /\ UNCHANGED <<sourceVars, quoteVars, gateVars, repositoryVars, tradeVars, windowVars, replayVars, investigationVars,
                    researchVars, auditVars, loginVars>>
  \/ /\ part = "quotes" /\ QuoteNext
     /\ UNCHANGED <<sourceVars, egressVars, gateVars, repositoryVars, tradeVars, windowVars, replayVars, investigationVars,
                    researchVars, auditVars, loginVars>>
  \/ /\ part = "gate" /\ GateNext
     /\ UNCHANGED <<sourceVars, egressVars, quoteVars, repositoryVars, tradeVars, windowVars, replayVars, investigationVars,
                    researchVars, auditVars, loginVars>>
  \/ /\ part = "repository" /\ RepositoryNext
     /\ UNCHANGED <<sourceVars, egressVars, quoteVars, gateVars, tradeVars, windowVars, replayVars, investigationVars,
                    researchVars, auditVars, loginVars>>
  \/ /\ part = "trade" /\ TradeNext
     /\ UNCHANGED <<sourceVars, egressVars, quoteVars, gateVars, repositoryVars, windowVars, replayVars, investigationVars,
                    researchVars, auditVars, loginVars>>
  \/ /\ part = "window" /\ WindowNext
     /\ UNCHANGED <<sourceVars, egressVars, quoteVars, gateVars, repositoryVars, tradeVars, replayVars, investigationVars,
                    researchVars, auditVars, loginVars>>
  \/ /\ part = "replay" /\ ReplayNext
     /\ UNCHANGED <<sourceVars, egressVars, quoteVars, gateVars, repositoryVars, tradeVars, windowVars, investigationVars,
                    researchVars, auditVars, loginVars>>
  \/ /\ part = "investigation" /\ InvestigationNext
     /\ UNCHANGED <<sourceVars, egressVars, quoteVars, gateVars, repositoryVars, tradeVars, windowVars, replayVars,
                    researchVars, auditVars, loginVars>>
  \/ /\ part = "research" /\ ResearchNext
     /\ UNCHANGED <<sourceVars, egressVars, quoteVars, gateVars, repositoryVars, tradeVars, windowVars, replayVars,
                    investigationVars, auditVars, loginVars>>
  \/ /\ part = "audit" /\ AuditNext
     /\ UNCHANGED <<sourceVars, egressVars, quoteVars, gateVars, repositoryVars, tradeVars, windowVars, replayVars,
                    investigationVars, researchVars, loginVars>>
  \/ /\ part = "login" /\ LoginNext
     /\ UNCHANGED <<sourceVars, egressVars, quoteVars, gateVars, repositoryVars, tradeVars, windowVars, replayVars,
                    investigationVars, researchVars, auditVars>>
  \/ /\ part = "sources" /\ SourcesNext
     /\ UNCHANGED <<egressVars, quoteVars, gateVars, repositoryVars, tradeVars, windowVars, replayVars,
                    investigationVars, researchVars, auditVars, loginVars>>

Next == UNCHANGED part /\ NextOfPart

Spec == Init /\ [][Next]_partVars
=============================================================================
