---------------------------- MODULE JobLifecycle ----------------------------
(***************************************************************************)
(* What the narrative job queue promises its callers, without clocks,      *)
(* tokens, priorities or tables: every job is submitted once with a budget *)
(* of attempts; each grant to a worker spends one; a lease ends by being   *)
(* settled or by expiring, and several may expire in the step that serves  *)
(* one caller; done and failed are final; a job waits only while it still  *)
(* has a budget to be granted from.                                        *)
(***************************************************************************)
EXTENDS Naturals

CONSTANTS Jobs, Limits

VARIABLES phase,  \* where each job is in its life
          budget  \* attempts it has left

vars == <<phase, budget>>

Init ==
  /\ phase = [j \in Jobs |-> "absent"]
  /\ budget = [j \in Jobs |-> 0]

Leased == {j \in Jobs : phase[j] = "leased"}

\* The phases once the leases on the jobs of `lost` have expired.
AfterExpiry(lost) ==
  [j \in Jobs |-> IF j \notin lost THEN phase[j]
                  ELSE IF budget[j] > 0 THEN "pending" ELSE "failed"]

Submit(j, limit) ==
  /\ phase[j] = "absent"
  /\ phase' = [phase EXCEPT ![j] = "pending"]
  /\ budget' = [budget EXCEPT ![j] = limit]

Expire(lost) ==
  /\ phase' = AfterExpiry(lost)
  /\ UNCHANGED budget

Grant(lost, j) ==
  /\ AfterExpiry(lost)[j] = "pending"
  /\ budget[j] > 0
  /\ phase' = [AfterExpiry(lost) EXCEPT ![j] = "leased"]
  /\ budget' = [budget EXCEPT ![j] = budget[j] - 1]

Settle(lost, j, outcome) ==
  /\ j \in Leased \ lost
  /\ outcome = "pending" => budget[j] > 0
  /\ phase' = [AfterExpiry(lost) EXCEPT ![j] = outcome]
  /\ UNCHANGED budget

Next ==
  \/ \E j \in Jobs, limit \in Limits : Submit(j, limit)
  \/ \E lost \in SUBSET Leased :
       \/ Expire(lost)
       \/ \E j \in Jobs :
            \/ Grant(lost, j)
            \/ \E outcome \in {"pending", "done", "failed"} :
                 Settle(lost, j, outcome)

Spec == Init /\ [][Next]_vars

=============================================================================
