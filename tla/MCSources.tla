------------------------------ MODULE MCSources ------------------------------
(***************************************************************************)
(* The sources that poll and remember, one of them at a time: they share   *)
(* no variable, so that a behaviour of all of them together shows nothing  *)
(* that one of them alone does not.  A behaviour here is one of the source *)
(* `source`, and the others stand still.                                   *)
(***************************************************************************)
EXTENDS DebotFeed, MarketMonitor, DebotPoller, RankPoller, RepostCanary

CONSTANTS a, b, x1, x2, x3

VARIABLE source

sourceVars == <<source, feedVars, marketVars, pollerVars, rankVars, canaryVars>>

Sources == {"feed", "market", "poller", "ranks", "canary"}

SourcesInit == FeedInit /\ MarketInit /\ PollerInit /\ RankInit /\ CanaryInit

Feed == source = "feed" /\ FeedNext /\ UNCHANGED <<source, marketVars, pollerVars, rankVars, canaryVars>>
Market == source = "market" /\ MarketNext /\ UNCHANGED <<source, feedVars, pollerVars, rankVars, canaryVars>>
Poller == source = "poller" /\ PollerNext /\ UNCHANGED <<source, feedVars, marketVars, rankVars, canaryVars>>
Ranks == source = "ranks" /\ RankNext /\ UNCHANGED <<source, feedVars, marketVars, pollerVars, canaryVars>>
Canary == source = "canary" /\ CanaryNext /\ UNCHANGED <<source, feedVars, marketVars, pollerVars, rankVars>>

SourcesNext == Feed \/ Market \/ Poller \/ Ranks \/ Canary
=============================================================================
