----------------------------- MODULE RankPoller -----------------------------
(***************************************************************************)
(* The poller of DeBot's ranks (debot/ranks_poller.py, ranks_state.py):    *)
(* it remembers the number of KOLs of each token and records a rise as     *)
(* evidence in the ledger.  A page is observed in memory, the memory is    *)
(* saved, then each rise is recorded; any of the three may fail, and the   *)
(* process may die between them.                                           *)
(***************************************************************************)
EXTENDS Naturals, FiniteSets

CONSTANTS Ranked,    \* tokens
          MaxKols,   \* bound on the KOLs of a token
          MaxTokens, \* max_tokens of RankState
          MaxPages   \* bound on the pages fetched

ASSUME RankAssumption ==
  /\ MaxKols \in Nat /\ MaxPages \in Nat /\ MaxTokens \in Nat \ {0}

VARIABLES pages,    \* pages fetched so far; a page's number is its time
          ranks,    \* _tokens: the last snapshot of each token in memory
          rankFile, \* the same in the file
          rises,    \* the changes of the page in hand, not yet recorded
          unsaved,  \* is this page still to be saved?
          evidence  \* the rises recorded in the ledger

rankVars == <<pages, ranks, rankFile, rises, unsaved, evidence>>

RankInit ==
  /\ pages = 0
  /\ ranks = {} /\ rankFile = {}
  /\ rises = {} /\ unsaved = FALSE
  /\ evidence = {}

\* What a page may show of some tokens.
RankSnapshots(tokens, at) ==
  {{[token |-> t, kols |-> kols[t], at |-> at] : t \in tokens} :
     kols \in [tokens -> 0..MaxKols]}

-----------------------------------------------------------------------------
(* RankState *)

\* observe, for each snapshot of the page: the rises over what is known.
Rises(known, page) ==
  UNION {{[token |-> new.token, since |-> old.at, at |-> new.at] :
            old \in {s \in known : s.token = new.token /\ s.kols < new.kols}} : new \in page}

RanksObserved(known, page) ==
  {old \in known : \A new \in page : new.token # old.token} \cup page

\* save keeps the MaxTokens snapshots seen last; among those of one page any.
Kept(known) ==
  LET room == IF Cardinality(known) < MaxTokens THEN Cardinality(known) ELSE MaxTokens
  IN  {kept \in SUBSET known :
         /\ Cardinality(kept) = room
         /\ \A k \in kept, d \in known \ kept : d.at <= k.at}

-----------------------------------------------------------------------------
(* _consume *)

RanksSettled == rises = {} /\ ~unsaved

FetchRanks(page) ==
  /\ RanksSettled
  /\ pages < MaxPages
  /\ pages' = pages + 1
  /\ rises' = Rises(ranks, page)
  /\ ranks' = RanksObserved(ranks, page)
  /\ unsaved' = TRUE
  /\ UNCHANGED <<rankFile, evidence>>

\* The write succeeds, or fails: then the page's rises are forgotten.
SaveRanks ==
  /\ unsaved
  /\ ranks' \in Kept(ranks)
  /\ \/ rankFile' = ranks' /\ UNCHANGED rises
     \/ UNCHANGED rankFile /\ rises' = {}
  /\ unsaved' = FALSE
  /\ UNCHANGED <<pages, evidence>>

\* May be recorded before the page is saved.
SlipMayRecord == rises # {}

MayRecord == rises # {} /\ ~unsaved

\* _record of the next rise; when the ledger raises, the rest is forgotten.
RecordRise ==
  /\ MayRecord
  /\ \/ \E r \in rises : evidence' = evidence \cup {r} /\ rises' = rises \ {r}
     \/ UNCHANGED evidence /\ rises' = {}
  /\ UNCHANGED <<pages, ranks, rankFile, unsaved>>

RestartRanks ==
  /\ ranks' = rankFile
  /\ rises' = {} /\ unsaved' = FALSE
  /\ UNCHANGED <<pages, rankFile, evidence>>

RankNext ==
  \/ \E tokens \in SUBSET Ranked \ {{}} :
       \E page \in RankSnapshots(tokens, pages + 1) : FetchRanks(page)
  \/ SaveRanks
  \/ RecordRise
  \/ RestartRanks

-----------------------------------------------------------------------------

\* No rise of a token is recorded twice, nor two rises of which one contains
\* part of the other: each begins where the file stood after the last one, also
\* when the poller dies between saving and recording (ranks_poller.py _consume).
RisesApart ==
  \A r, q \in evidence : r.token = q.token /\ r # q => r.at <= q.since \/ q.at <= r.since
=============================================================================
