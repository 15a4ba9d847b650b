-------------------------- MODULE StatusRepository --------------------------
(***************************************************************************)
(* The repository of X statuses (narrative/repository.py), over the client *)
(* of FxTwitter (narrative/fxtwitter.py) and the leads of DeBot's metadata *)
(* (narrative/leads.py).  Threads ask for the status of a token's lead;    *)
(* the cache is read and written under a lock that is not held during the  *)
(* fetch, and the author may edit or delete the status meanwhile.          *)
(***************************************************************************)
EXTENDS Naturals

CONSTANTS Readers,    \* threads
          Links,      \* tokens with a URL of the status: the keys of the cache
          MaxEdits,   \* bound on the edits of the status
          MaxLookups  \* bound on the calls of research

ASSUME RepositoryAssumption == MaxEdits \in Nat /\ MaxLookups \in Nat

VARIABLES version,  \* the version of the status at the provider, 0 when it is gone
          edits,    \* edits and deletions so far
          fetches,  \* the time, in fetches
          cached,   \* _cache
          lookup,   \* the call of each thread
          lookups,  \* calls so far
          answers   \* what the calls have returned

repositoryVars == <<version, edits, fetches, cached, lookup, lookups, answers>>

NoResearch == [outcome |-> "none", version |-> 0, lead |-> 0, at |-> 0]
NoLookup == [step |-> "idle", link |-> CHOOSE l \in Links : TRUE, lead |-> 0, found |-> NoResearch]

RepositoryInit ==
  /\ version = 1 /\ edits = 0 /\ fetches = 1
  /\ cached = [l \in Links |-> NoResearch]
  /\ lookup = [r \in Readers |-> NoLookup]
  /\ lookups = 0 /\ answers = {}

\* The author, between any two steps.
EditStatus ==
  /\ edits < MaxEdits
  /\ edits' = edits + 1
  /\ version' \in {0, IF version = 0 THEN 0 ELSE version + 1}
  /\ UNCHANGED <<fetches, cached, lookup, lookups, answers>>

\* A call ends with an answer.
Answer(r, research) ==
  /\ answers' = answers \cup {[link |-> lookup[r].link, research |-> research]}
  /\ lookup' = [lookup EXCEPT ![r] = NoLookup]

\* resolve_status_lead: metadata of another contract is REJECTed, without a URL of
\* a status it must WAIT; neither touches the cache.
NoLead ==
  /\ lookups < MaxLookups
  /\ lookups' = lookups + 1
  /\ \E l \in Links, outcome \in {"wait", "reject"} :
       answers' = answers \cup {[link |-> l, research |-> [NoResearch EXCEPT !.outcome = outcome]]}
  /\ UNCHANGED <<version, edits, fetches, cached, lookup>>

\* research, up to the look into the cache; the lead may claim any time.
StartLookup(r) ==
  /\ lookup[r].step = "idle" /\ lookups < MaxLookups
  /\ lookups' = lookups + 1
  /\ \E l \in Links, lead \in 0..(fetches + 1) :
       IF cached[l] # NoResearch
       THEN /\ answers' = answers \cup {[link |-> l, research |-> cached[l]]}
            /\ UNCHANGED lookup
       ELSE /\ lookup' = [lookup EXCEPT ![r] = [step |-> "fetch", link |-> l, lead |-> lead,
                                                found |-> NoResearch]]
            /\ UNCHANGED answers
  /\ UNCHANGED <<version, edits, fetches, cached>>

\* _fetch: the status was published at moment 1, and its lead must lie between
\* that and the fetch.
Observed(lead) ==
  [outcome |-> IF 1 > lead \/ lead > fetches THEN "reject" ELSE "fetched",
   version |-> version, lead |-> lead, at |-> fetches]

FetchStatus(r) ==
  /\ lookup[r].step = "fetch" /\ version # 0
  /\ fetches' = fetches + 1
  /\ LET found == Observed(lookup[r].lead)
     IN  IF found.outcome = "fetched"
         THEN /\ lookup' = [lookup EXCEPT ![r].step = "store", ![r].found = found]
              /\ UNCHANGED answers
         ELSE Answer(r, found)
  /\ UNCHANGED <<version, edits, cached, lookups>>

\* The provider does not answer or has no such status, or answers with another
\* identity or with fields that do not parse.
FetchFails(r) ==
  /\ lookup[r].step = "fetch"
  /\ \E outcome \in {"wait", "reject"} : Answer(r, [NoResearch EXCEPT !.outcome = outcome])
  /\ UNCHANGED <<version, edits, fetches, cached, lookups>>

\* setdefault: the first observation of a key stays.
SlipKeep(old, new) == new

Keep(old, new) == IF old = NoResearch THEN new ELSE old

StoreStatus(r) ==
  /\ lookup[r].step = "store"
  /\ LET link == lookup[r].link
         kept == Keep(cached[link], lookup[r].found)
     IN  cached' = [cached EXCEPT ![link] = kept] /\ Answer(r, kept)
  /\ UNCHANGED <<version, edits, fetches, lookups>>

RepositoryNext ==
  \/ EditStatus \/ NoLead
  \/ \E r \in Readers : StartLookup(r) \/ FetchStatus(r) \/ FetchFails(r) \/ StoreStatus(r)

-----------------------------------------------------------------------------

\* Whatever the threads and the author do at the same time, everyone who is given
\* the status of a key is given the same observation ("Fetch exact status leads
\* once per token and preserve first observation", repository.py:17), one that its
\* lead really preceded; and a failure is nobody else's answer.
SameReceipt ==
  /\ \A x, y \in answers :
       x.link = y.link /\ x.research.outcome = "fetched" /\ y.research.outcome = "fetched"
         => x.research = y.research
  /\ \A l \in Links : cached[l] # NoResearch =>
       /\ cached[l].outcome = "fetched"
       /\ 1 <= cached[l].lead /\ cached[l].lead <= cached[l].at
=============================================================================
