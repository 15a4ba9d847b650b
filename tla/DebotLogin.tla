----------------------------- MODULE DebotLogin -----------------------------
(***************************************************************************)
(* The session of DeBot's client (debot/http.py): one HTTP client for all  *)
(* threads, made from the cookies of a file (debot/credentials.py) that an *)
(* operator replaces when the login has expired.  A call looks at the      *)
(* file's identity, and makes a new client only if that has changed.       *)
(***************************************************************************)
EXTENDS Naturals

CONSTANTS Fetchers,   \* threads that share the client
          MaxSaves,   \* bound on changes of the file
          MaxFetches  \* bound on calls of get_json

ASSUME LoginAssumption == MaxSaves \in Nat \ {0} /\ MaxFetches \in Nat

VARIABLES cookieFile, \* the version of the file, and what it is
          client,     \* the cookies of _client, and _credential_revision
          locked,     \* whether a thread holds the lock
          fetching,   \* the call of each thread
          fetchCount  \* calls so far

loginVars == <<cookieFile, client, locked, fetching, fetchCount>>

\* Versions count from 1; 0 is no client, or None.
NoFetch == [step |-> "idle", since |-> 0, revision |-> 0, cookies |-> 0]

LoginInit ==
  /\ cookieFile \in [version : {1}, state : {"good", "absent"}]
  /\ client = [cookies |-> 0, revision |-> 0]
  /\ locked = FALSE
  /\ fetching = [t \in Fetchers |-> NoFetch]
  /\ fetchCount = 0

\* save_debot_cookies replaces the file; else it may be lost, or spoilt.
SaveCookies ==
  /\ cookieFile.version < MaxSaves
  /\ cookieFile' = [version |-> cookieFile.version + 1, state |-> "good"]
  /\ UNCHANGED <<client, locked, fetching, fetchCount>>

LoseFile ==
  /\ cookieFile.version < MaxSaves
  /\ \E state \in {"bad", "absent"} : cookieFile' = [version |-> cookieFile.version + 1, state |-> state]
  /\ UNCHANGED <<client, locked, fetching, fetchCount>>

Go(t, call) == fetching' = [fetching EXCEPT ![t] = call]

\* get_json, up to the lock; `since` is for the property only.
AskJson(t) ==
  /\ fetching[t].step \in {"idle", "done", "failed"} /\ fetchCount < MaxFetches
  /\ fetchCount' = fetchCount + 1
  /\ Go(t, [NoFetch EXCEPT !.step = "wait", !.since = cookieFile.version])
  /\ UNCHANGED <<cookieFile, client, locked>>

\* _revision, and the client that is there if it is of that revision.
LookAtFile(t) ==
  /\ fetching[t].step = "wait" /\ ~locked
  /\ IF cookieFile.state = "absent"
     THEN Go(t, [fetching[t] EXCEPT !.step = "failed"]) /\ UNCHANGED locked
     ELSE /\ locked' = TRUE
          /\ Go(t, IF client.cookies # 0 /\ client.revision = cookieFile.version
                   THEN [fetching[t] EXCEPT !.step = "get", !.cookies = client.cookies]
                   ELSE [fetching[t] EXCEPT !.step = "load", !.revision = cookieFile.version])
  /\ UNCHANGED <<cookieFile, client, fetchCount>>

\* load_debot_cookies, of the file as it is now.
LoadCookies(t) ==
  /\ fetching[t].step = "load"
  /\ IF cookieFile.state = "good"
     THEN Go(t, [fetching[t] EXCEPT !.step = "build", !.cookies = cookieFile.version]) /\ UNCHANGED locked
     ELSE Go(t, [fetching[t] EXCEPT !.step = "failed"]) /\ locked' = FALSE
  /\ UNCHANGED <<cookieFile, client, fetchCount>>

\* The revision that is kept is the one from before the cookies were read.
SlipRecorded(before) == cookieFile.version

Recorded(before) == before

BuildClient(t) ==
  /\ fetching[t].step = "build"
  /\ client' = [cookies |-> fetching[t].cookies, revision |-> Recorded(fetching[t].revision)]
  /\ Go(t, [fetching[t] EXCEPT !.step = "get"])
  /\ UNCHANGED <<cookieFile, locked, fetchCount>>

\* The request, after which the lock is given back; the answer is looked at without it.
GetJson(t) ==
  /\ fetching[t].step = "get"
  /\ locked' = FALSE
  /\ \E step \in {"done", "failed", "expired"} : Go(t, [fetching[t] EXCEPT !.step = step])
  /\ UNCHANGED <<cookieFile, client, fetchCount>>

\* 401 and 403: the client will not be used again, though by now it may be another
\* thread's.
Expire(t) ==
  /\ fetching[t].step = "expired"
  /\ client' = [client EXCEPT !.revision = 0]
  /\ Go(t, [fetching[t] EXCEPT !.step = "failed"])
  /\ UNCHANGED <<cookieFile, locked, fetchCount>>

CloseClient ==
  /\ ~locked
  /\ client' = [client EXCEPT !.cookies = 0]
  /\ UNCHANGED <<cookieFile, locked, fetching, fetchCount>>

LoginNext ==
  \/ SaveCookies \/ LoseFile \/ CloseClient
  \/ \E t \in Fetchers : \/ AskJson(t) \/ LookAtFile(t) \/ LoadCookies(t)
                         \/ BuildClient(t) \/ GetJson(t) \/ Expire(t)

-----------------------------------------------------------------------------

\* A login that was renewed before a call is the one the call uses, or a later one:
\* neither a change of the file between the look at it and its reading, nor a client
\* that another thread makes, closes or gives up, leaves old cookies in use
\* (_get_client, debot/http.py:79).
RenewedLoginIsUsed ==
  \A t \in Fetchers : fetching[t].step \in {"get", "done", "expired"} => fetching[t].cookies >= fetching[t].since
=============================================================================
