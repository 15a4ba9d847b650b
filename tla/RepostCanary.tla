---------------------------- MODULE RepostCanary ----------------------------
(***************************************************************************)
(* The repost canary (x/reposts.py) for one target; targets share nothing  *)
(* but the list of recent events.  The first page read is a baseline, of   *)
(* every later one the reposts not seen yet are reported.  What was seen   *)
(* is remembered in the order it was first seen, up to seen_limit.  The    *)
(* account may repost, undo a repost and repost again.                     *)
(***************************************************************************)
EXTENDS Naturals, Sequences, FiniteSets

CONSTANTS Tweets, RepostPage, SeenLimit

ASSUME CanaryAssumption ==
  RepostPage \in Nat \ {0} /\ SeenLimit \in Nat \ {0} /\ <<>> \notin Tweets

VARIABLES reposts,   \* the account's reposts, the latest first
          baselined, \* _initialized
          order,     \* _seen_order
          remembered, \* _seen
          newer      \* of each tweet seen, those remembered after it; or NotSeen

canaryVars == <<reposts, baselined, order, remembered, newer>>

NotSeen == {<<>>}

CanaryInit ==
  /\ reposts = <<>>
  /\ baselined = FALSE
  /\ order = <<>> /\ remembered = {}
  /\ newer = [x \in Tweets |-> NotSeen]

Repost(x) ==
  /\ \A n \in DOMAIN reposts : reposts[n] # x
  /\ reposts' = <<x>> \o reposts
  /\ UNCHANGED <<baselined, order, remembered, newer>>

Undo(x) ==
  /\ \E n \in DOMAIN reposts :
       /\ reposts[n] = x
       /\ reposts' = SubSeq(reposts, 1, n - 1) \o SubSeq(reposts, n + 1, Len(reposts))
  /\ UNCHANGED <<baselined, order, remembered, newer>>

Shown == SubSeq(reposts, 1, IF Len(reposts) < RepostPage THEN Len(reposts) ELSE RepostPage)

-----------------------------------------------------------------------------
(* _accept and _remember *)

\* Queues an id again that it remembers already.
SlipAdded(page) == {order \o page}

\* The order with the ids of the page that are not remembered, as the page has them.
Added(page) ==
  LET unseen == {n \in DOMAIN page : page[n] \notin remembered}
      Rising == {at \in [1..Cardinality(unseen) -> unseen] : \A i, k \in DOMAIN at : i < k => at[i] < at[k]}
  IN  {order \o [k \in DOMAIN at |-> page[at[k]]] : at \in Rising}

OlderThan(s, x, y) == \E n, k \in DOMAIN s : n < k /\ s[n] = x /\ s[k] = y

Excess(all) == IF Len(all) > SeenLimit THEN Len(all) - SeenLimit ELSE 0

Reported == {x \in {Shown[n] : n \in DOMAIN Shown} : baselined /\ x \notin remembered}

\* A page is read and accepted; a failed fetch changes nothing.
PollReposts ==
  \E all \in Added(Shown) :
    LET out == Excess(all)
        ids == {all[n] : n \in DOMAIN all}
        new == {x \in ids : x \notin remembered}
    IN  /\ order' = SubSeq(all, out + 1, Len(all))
        /\ remembered' = (remembered \cup ids) \ {all[n] : n \in 1..out}
        /\ baselined' = TRUE
        /\ newer' = [x \in Tweets |->
                       IF x \in new THEN {y \in new : OlderThan(all, x, y)}
                       ELSE IF newer[x] = NotSeen THEN NotSeen
                       ELSE newer[x] \cup new]
        /\ UNCHANGED reposts

\* The memory is lost with the process: the next page is a baseline again.
RestartCanary ==
  /\ baselined' = FALSE
  /\ order' = <<>> /\ remembered' = {}
  /\ newer' = [x \in Tweets |-> NotSeen]
  /\ UNCHANGED reposts

CanaryNext ==
  \/ \E x \in Tweets : Repost(x) \/ Undo(x)
  \/ PollReposts
  \/ RestartCanary

-----------------------------------------------------------------------------

\* A repost that was seen, on the baseline page or later, is reported again only
\* if seen_limit others have been remembered after it (reposts.py _remember).
ReportedAgainLate ==
  \A x \in Reported : newer[x] # NotSeen => Cardinality(newer[x]) >= SeenLimit
=============================================================================
