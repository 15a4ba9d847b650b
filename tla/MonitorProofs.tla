--------------------------- MODULE MonitorProofs ---------------------------
(***************************************************************************)
(* Proofs about SocialMonitor, for all values of its constants and either  *)
(* source: a post the checkpoint has passed is queued, or among the losses *)
(* that are named, and a post that was too old for the first start stays   *)
(* out of the queue.                                                       *)
(*                                                                         *)
(* A checkpoint is written at the end of a cycle, of a page that was read  *)
(* at its beginning, while posts come, go and are pushed off the page.  So *)
(* the invariant says of every stage of the cycle what has become of the   *)
(* posts up to those of its page (Safe), and where the posts of the past   *)
(* are (Past).  Both hold whatever others queue in between; what the       *)
(* monitor itself queues is never a post of the past (Out).                *)
(*                                                                         *)
(* And proofs about TelegramCollection, where the realtime monitor queues  *)
(* posts of its own accord while the public one reads its pages: the       *)
(* invariant of the public monitor bears it, because a post that is queued *)
(* is queued for good.  The health of the realtime monitor says "live"     *)
(* only while no message has been given up on.                             *)
(***************************************************************************)
EXTENDS TelegramCollection, FiniteSetTheorems, SequenceTheorems, WellFoundedInduction, TLAPS

\* Every variable has a value for every target.
Shaped ==
  /\ published = [t \in Targets |-> published[t]]
  /\ gone = [t \in Targets |-> gone[t]]
  /\ aged = [t \in Targets |-> aged[t]]
  /\ edits = [t \in Targets |-> edits[t]]
  /\ saved = [t \in Targets |-> saved[t]]
  /\ known = [t \in Targets |-> known[t]]
  /\ queued = [t \in Targets |-> queued[t]]
  /\ cycle = [t \in Targets |-> cycle[t]]
  /\ skipped = [t \in Targets |-> skipped[t]]
  /\ stale = [t \in Targets |-> stale[t]]
  /\ pushedOff = [t \in Targets |-> pushedOff[t]]

Checkpoint(t, c) == c = None \/ c \in 0..published[t]

WorldTypes(t) ==
  /\ published[t] \in 0..MaxPosts
  /\ gone[t] \subseteq 1..published[t]
  /\ aged[t] \in Nat
  /\ edits[t] \in [Posts -> Nat]

FileTypes(t) ==
  /\ Checkpoint(t, saved[t])
  /\ Checkpoint(t, known[t])
  /\ queued[t] \in [Posts -> Nat \cup {None}]

CycleTypes(t) ==
  /\ cycle[t] = [stage |-> Stage(t), previous |-> Previous(t),
                 page |-> Page(t), todo |-> Todo(t)]
  /\ Stage(t) \in {"idle", "polled", "accepting"}
  /\ Checkpoint(t, Previous(t))
  /\ OnItsPage(t) \subseteq 1..published[t]
  /\ \A i \in OnItsPage(t) : Reading(t, i) \in Nat
  /\ Todo(t) \subseteq OnItsPage(t)

\* Nothing is lost with this post that PassedIsQueued does not name.
Settled(t, i) == Queued(t, i) \/ i \in skipped[t] \cup gone[t] \cup pushedOff[t]

\* What is published is on the page as it is now, or settled.
PageShows(t) == \A i \in 1..published[t] : i \in OnPage(t) \/ Settled(t, i)

Passed(t, c) == c # None => \A i \in 1..c : Settled(t, i)

FilesSettled(t) == Passed(t, saved[t]) /\ Passed(t, known[t]) /\ Passed(t, Previous(t))

\* Up to the posts of its page, what the cycle has not settled it has still to
\* look at.
CycleSettled(t) ==
  /\ Stage(t) = "polled" =>
       \A j \in OnItsPage(t) : \A i \in 1..j : i \in OnItsPage(t) \/ Settled(t, i)
  /\ Stage(t) = "accepting" =>
       \A j \in OnItsPage(t) : \A i \in 1..j : i \in Todo(t) \/ Settled(t, i)

Safe(t) ==
  /\ WorldTypes(t) /\ FileTypes(t) /\ CycleTypes(t)
  /\ PageShows(t) /\ FilesSettled(t) /\ CycleSettled(t)

\* No checkpoint lies before a post of the past that can still be seen.
NotBefore(c, i) == c = None \/ i <= c

\* A post of the past is never among those to accept, because the cycle either
\* has no checkpoint, and the post is too old, or one that has passed it; and
\* the page keeps the next checkpoint from falling behind it.
PastPost(t, i) ==
  /\ i \in 1..published[t]
  /\ i <= aged[t]
  /\ i \in gone[t] \/ (NotBefore(saved[t], i) /\ NotBefore(known[t], i) /\ NotBefore(Previous(t), i))
  /\ Stage(t) # "idle" => i \in gone[t] \/ \E j \in OnItsPage(t) : i <= j
  /\ Stage(t) = "polled" /\ i \in OnItsPage(t) => NotBefore(Previous(t), i)
  /\ i \notin Todo(t)

Past(t) ==
  /\ saved[t] = None => known[t] = None /\ Previous(t) = None
  /\ \A i \in stale[t] : PastPost(t, i)

Kept(t) == Safe(t) /\ Past(t)

MonitorInv == Shaped /\ \A t \in Targets : Kept(t)

\* No post of the past is queued.
Out(t) == \A i \in stale[t] : ~Queued(t, i)

-----------------------------------------------------------------------------
(* Sets of posts *)

LEMMA LeastPost ==
  ASSUME NEW S, S \subseteq Nat, S # {}
  PROVE  \E m \in S : \A k \in S : m <= k
<1> DEFINE R == {p \in Nat \X Nat : p[1] < p[2]}
<1>1. IsWellFoundedOn(R, Nat)
  BY NatLessThanWellFounded DEF OpToRel
<1> HIDE DEF R
<1>2. PICK m \in S : \A k \in S : <<k, m>> \notin R
  BY <1>1, WFMin
<1>3. ASSUME NEW k \in S PROVE m <= k
  <2>1. k \in Nat /\ m \in Nat
    OBVIOUS
  <2>2. ~(k < m)
    BY <1>2, <2>1 DEF R
  <2> QED BY <2>1, <2>2
<1> QED BY <1>3

LEMMA GreatestPost ==
  ASSUME NEW n \in Nat, NEW S, S \subseteq 0..n, S # {}
  PROVE  \E m \in S : \A k \in S : m >= k
<1> DEFINE T == {j \in 0..n : n - j \in S}
<1>1. T \subseteq Nat
  OBVIOUS
<1>2. T # {}
  <2>1. PICK s \in S : TRUE
    OBVIOUS
  <2>2. s \in 0..n /\ n - s \in 0..n /\ n - (n - s) = s
    BY <2>1
  <2> QED BY <2>2
<1>3. PICK j \in T : \A i \in T : j <= i
  BY <1>1, <1>2, LeastPost
<1>4. ASSUME NEW k \in S PROVE n - j >= k
  <2>1. k \in 0..n /\ n - k \in 0..n /\ n - (n - k) = k
    OBVIOUS
  <2>2. n - k \in T
    BY <2>1
  <2>3. j <= n - k
    BY <2>2, <1>3
  <2> QED BY <2>1, <2>3
<1> QED BY <1>4

LEMMA MaxOfPosts ==
  ASSUME NEW n \in Nat, NEW S, S \subseteq 0..n, S # {}
  PROVE  Max(S) \in S /\ \A k \in S : k <= Max(S)
BY GreatestPost DEF Max

LEMMA MinOfPosts ==
  ASSUME NEW S, S \subseteq Nat, S # {}
  PROVE  Min(S) \in S
BY LeastPost DEF Min

\* The newest posts hold one that is no older than a given one.
LEMMA NewestReaches ==
  ASSUME NEW n \in Nat, NEW S, S \subseteq 0..n, NEW size \in Nat \ {0}, NEW i \in S
  PROVE  \E k \in Newest(S, size) : i <= k
<1>1. PICK k \in S : \A j \in S : k >= j
  BY GreatestPost
<1>2. {j \in S : j > k} = {}
  <2>1. \A j \in S : j \in Nat /\ k \in Nat /\ ~(j > k)
    BY <1>1
  <2> QED BY <2>1
<1>3. Cardinality({j \in S : j > k}) < size
  BY <1>2, FS_EmptySet
<1>4. i <= k
  BY <1>1
<1> QED BY <1>3, <1>4 DEF Newest

\* A post after all others is among the newest.
LEMMA NewestTakesNext ==
  ASSUME NEW n \in Nat, NEW S, S \subseteq 1..n, NEW size \in Nat \ {0}
  PROVE  n + 1 \in Newest(S \cup {n + 1}, size)
<1>1. {j \in S \cup {n + 1} : j > n + 1} = {}
  <2>1. \A j \in S \cup {n + 1} : j \in Nat /\ ~(j > n + 1)
    OBVIOUS
  <2> QED BY <2>1
<1>2. Cardinality({j \in S \cup {n + 1} : j > n + 1}) < size
  BY <1>1, FS_EmptySet
<1> QED BY <1>2 DEF Newest

\* When another post goes away, one of the newest is so still.
LEMMA NewestKeeps ==
  ASSUME NEW n \in Nat, NEW S, S \subseteq 0..n, NEW size \in Nat,
         NEW d, NEW i \in Newest(S, size), i # d
  PROVE  i \in Newest(S \ {d}, size)
<1> DEFINE after == {j \in S : j > i}
           less == {j \in S \ {d} : j > i}
<1>1. IsFiniteSet(after)
  <2>1. IsFiniteSet(0..n)
    BY FS_Interval
  <2> QED BY <2>1, FS_Subset
<1>2. less \in SUBSET after
  OBVIOUS
<1>3. Cardinality(less) <= Cardinality(after) /\ IsFiniteSet(less)
  BY <1>1, <1>2, FS_Subset
<1>4. Cardinality(less) \in Nat /\ Cardinality(after) \in Nat
  BY <1>1, <1>3, FS_CardinalityType
<1>5. Cardinality(after) < size /\ i \in S
  BY DEF Newest
<1>6. Cardinality(less) < size
  BY <1>3, <1>4, <1>5
<1> QED BY <1>5, <1>6 DEF Newest

-----------------------------------------------------------------------------
(* What stays as it is *)

SameWorld(t) ==
  /\ published'[t] = published[t] /\ gone'[t] = gone[t]
  /\ aged'[t] = aged[t] /\ edits'[t] = edits[t]

SameFiles(t) == saved'[t] = saved[t] /\ known'[t] = known[t]

SameHistory(t) ==
  skipped'[t] = skipped[t] /\ stale'[t] = stale[t] /\ pushedOff'[t] = pushedOff[t]

SameQueue(t) == queued'[t] = queued[t]

SameCycle(t) == cycle'[t] = cycle[t]

Same(t) == SameWorld(t) /\ SameFiles(t) /\ SameHistory(t) /\ SameQueue(t) /\ SameCycle(t)

LEMMA SameKept ==
  ASSUME NEW t, Kept(t), Same(t)
  PROVE  Kept(t)'
<1> USE DEF Same, SameWorld, SameFiles, SameHistory, SameQueue, SameCycle
<1>1. \A i : Settled(t, i)' <=> Settled(t, i)
  BY DEF Settled, Queued
<1>2. WorldTypes(t)' /\ FileTypes(t)' /\ CycleTypes(t)'
  BY DEF Kept, Safe, WorldTypes, FileTypes, CycleTypes, Checkpoint, Stage, Previous, Page,
         Todo, OnItsPage, Reading
<1>3. PageShows(t)'
  BY <1>1 DEF Kept, Safe, PageShows, OnPage, Visible
<1>4. FilesSettled(t)' /\ CycleSettled(t)'
  BY <1>1 DEF Kept, Safe, FilesSettled, Passed, CycleSettled, Stage, Previous, Page, Todo, OnItsPage
<1>5. Past(t)'
  BY DEF Kept, Past, PastPost, NotBefore, Queued, Stage, Previous, Page, Todo, OnItsPage
<1> QED BY <1>2, <1>3, <1>4, <1>5 DEF Kept, Safe

\* The step is of one target.
Elsewhere(t) == Shaped' /\ \A u \in Targets : u # t => Same(u)

\* What was settled stays so.
LEMMA SettledStays ==
  ASSUME NEW t, NEW i, Settled(t, i), Queued(t, i) => Queued(t, i)',
         gone[t] \subseteq gone'[t], skipped[t] \subseteq skipped'[t],
         pushedOff[t] \subseteq pushedOff'[t]
  PROVE  Settled(t, i)'
BY DEF Settled

-----------------------------------------------------------------------------
(* The outside world *)

LEMMA PublishKept ==
  ASSUME Shaped, NEW t \in Targets, Kept(t), Publish(t)
  PROVE  Elsewhere(t) /\ Kept(t)'
<1> DEFINE p == published[t]
           off == {i \in OnPage(t) :
                    ~Queued(t, i) /\ i \notin Newest(Visible(t) \cup {p + 1}, PageSize)}
<1>1. /\ p < MaxPosts
      /\ published' = [published EXCEPT ![t] = p + 1]
      /\ pushedOff' = [pushedOff EXCEPT ![t] = pushedOff[t] \cup off]
      /\ UNCHANGED <<gone, aged, edits, saved, known, queued, cycle, skipped, stale>>
  BY DEF Publish, files
<1>2. /\ published'[t] = p + 1 /\ gone'[t] = gone[t] /\ aged'[t] = aged[t] /\ edits'[t] = edits[t]
      /\ SameFiles(t) /\ SameQueue(t) /\ SameCycle(t)
      /\ skipped'[t] = skipped[t] /\ stale'[t] = stale[t] /\ pushedOff'[t] = pushedOff[t] \cup off
  <2> HIDE DEF p, off
  <2> QED BY <1>1 DEF Shaped, SameFiles, SameQueue, SameCycle
<1>3. Elsewhere(t)
  <2> HIDE DEF p, off
  <2> QED BY <1>1 DEF Elsewhere, Shaped, Same, SameWorld, SameFiles, SameHistory, SameQueue, SameCycle
<1>4. p \in 0..MaxPosts /\ MaxPosts \in Nat /\ gone[t] \subseteq 1..p /\ p + 1 \in 0..MaxPosts
  BY <1>1, MonitorAssumption DEF Kept, Safe, WorldTypes
<1>5. \A i : Settled(t, i) => Settled(t, i)'
  BY <1>2, SettledStays DEF Queued, SameQueue
<1>6. \A c : Checkpoint(t, c) => Checkpoint(t, c)'
  BY <1>2, <1>4 DEF Checkpoint
<1>7. WorldTypes(t)'
  BY <1>2, <1>4 DEF Kept, Safe, WorldTypes
<1>8. FileTypes(t)'
  BY <1>2, <1>6 DEF Kept, Safe, FileTypes, SameFiles, SameQueue
<1>9. CycleTypes(t)'
  <2>1. 1..p \subseteq 1..(p + 1)
    BY <1>4
  <2> QED BY <1>2, <1>6, <2>1 DEF Kept, Safe, CycleTypes, SameCycle, Stage, Previous, Page, Todo,
             OnItsPage, Reading
<1>10. PageShows(t)'
  <2>1. Visible(t)' = Visible(t) \cup {p + 1}
    BY <1>2, <1>4 DEF Visible
  <2>2. OnPage(t)' = Newest(Visible(t) \cup {p + 1}, PageSize)
    BY <2>1 DEF OnPage
  <2>3. p + 1 \in OnPage(t)'
    <3>1. Visible(t) \subseteq 1..p
      BY DEF Visible
    <3>2. p \in Nat /\ PageSize \in Nat \ {0}
      BY <1>4, MonitorAssumption
    <3>3. p + 1 \in Newest(Visible(t) \cup {p + 1}, PageSize)
      <4> HIDE DEF p
      <4> QED BY <3>1, <3>2, NewestTakesNext
    <3> QED BY <2>2, <3>3
  <2>4. ASSUME NEW i \in 1..p PROVE (i \in OnPage(t) \/ Settled(t, i))'
    <3>1. i \in OnPage(t) \/ Settled(t, i)
      BY DEF Kept, Safe, PageShows
    <3>2. CASE i \in off
      BY <1>2, <3>2 DEF Settled
    <3>3. CASE Settled(t, i)
      BY <1>5, <3>3
    <3>4. CASE i \in OnPage(t) /\ i \notin off /\ ~Settled(t, i)
      BY <2>2, <3>4 DEF Settled
    <3> QED BY <3>1, <3>2, <3>3, <3>4
  <2>5. \A i \in 1..(p + 1) : i = p + 1 \/ i \in 1..p
    BY <1>4
  <2> QED BY <1>2, <2>3, <2>4, <2>5 DEF PageShows
<1>11. FilesSettled(t)' /\ CycleSettled(t)'
  BY <1>2, <1>5 DEF Kept, Safe, FilesSettled, Passed, CycleSettled, SameFiles, SameCycle,
     Stage, Previous, Page, Todo, OnItsPage
<1>12. Past(t)'
  <2>1. 1..p \subseteq 1..(p + 1)
    BY <1>4
  <2> HIDE DEF p, off
  <2> QED BY <1>2, <2>1 DEF Kept, Past, PastPost, NotBefore, Queued, SameFiles, SameQueue,
             SameCycle, Stage, Previous, Page, Todo, OnItsPage, p
<1> QED BY <1>3, <1>7, <1>8, <1>9, <1>10, <1>11, <1>12 DEF Kept, Safe

LEMMA DeleteKept ==
  ASSUME Shaped, NEW t \in Targets, Kept(t), Delete(t)
  PROVE  Elsewhere(t) /\ Kept(t)'
<1>1. PICK d \in Visible(t) : gone' = [gone EXCEPT ![t] = gone[t] \cup {d}]
  BY DEF Delete
<1>2. UNCHANGED <<published, aged, edits, saved, known, queued, cycle, skipped, stale, pushedOff>>
  BY DEF Delete, files, history
<1>3. /\ published'[t] = published[t] /\ gone'[t] = gone[t] \cup {d}
      /\ aged'[t] = aged[t] /\ edits'[t] = edits[t]
      /\ SameFiles(t) /\ SameHistory(t) /\ SameQueue(t) /\ SameCycle(t)
  BY <1>1, <1>2 DEF Shaped, SameFiles, SameHistory, SameQueue, SameCycle
<1>4. Elsewhere(t)
  BY <1>1, <1>2 DEF Elsewhere, Shaped, Same, SameWorld, SameFiles, SameHistory, SameQueue, SameCycle
<1>5. \A i : Settled(t, i) => Settled(t, i)'
  BY <1>3, SettledStays DEF Queued, SameQueue, SameHistory
<1>6. d \in 1..published[t] /\ published[t] \in Nat
  BY MonitorAssumption DEF Visible, Kept, Safe, WorldTypes
<1>7. WorldTypes(t)' /\ FileTypes(t)' /\ CycleTypes(t)'
  BY <1>3, <1>6 DEF Kept, Safe, WorldTypes, FileTypes, CycleTypes, Checkpoint, SameFiles, SameQueue,
     SameCycle, Stage, Previous, Page, Todo, OnItsPage, Reading
<1>8. PageShows(t)'
  <2>1. OnPage(t)' = Newest(Visible(t) \ {d}, PageSize)
    <3>1. Visible(t)' = Visible(t) \ {d}
      BY <1>3 DEF Visible
    <3> QED BY <3>1 DEF OnPage
  <2>2. ASSUME NEW i \in 1..published[t] PROVE (i \in OnPage(t) \/ Settled(t, i))'
    <3>1. CASE i = d
      BY <1>3, <3>1 DEF Settled
    <3>2. CASE i # d /\ i \in OnPage(t)
      <4>1. Visible(t) \subseteq 0..published[t]
        BY <1>6 DEF Visible
      <4> QED BY <1>6, <2>1, <3>2, <4>1, NewestKeeps, MonitorAssumption DEF OnPage
    <3>3. CASE Settled(t, i)
      BY <1>5, <3>3
    <3> QED BY <3>1, <3>2, <3>3 DEF Kept, Safe, PageShows
  <2> QED BY <1>3, <2>2 DEF PageShows
<1>9. FilesSettled(t)' /\ CycleSettled(t)'
  BY <1>3, <1>5 DEF Kept, Safe, FilesSettled, Passed, CycleSettled, SameFiles, SameCycle,
     Stage, Previous, Page, Todo, OnItsPage
<1>10. Past(t)'
  BY <1>3 DEF Kept, Past, PastPost, NotBefore, Queued, SameFiles, SameQueue, SameHistory,
     SameCycle, Stage, Previous, Page, Todo, OnItsPage
<1> QED BY <1>4, <1>7, <1>8, <1>9, <1>10 DEF Kept, Safe

LEMMA AgeKept ==
  ASSUME Shaped, NEW t \in Targets, Kept(t), Age(t) \/ Edit(t)
  PROVE  Elsewhere(t) /\ Kept(t)'
<1>1. /\ UNCHANGED <<published, gone, saved, known, queued, cycle, skipped, stale, pushedOff>>
      /\ Shaped' /\ \A u \in Targets : u # t => aged'[u] = aged[u] /\ edits'[u] = edits[u]
      /\ aged'[t] \in Nat /\ aged[t] <= aged'[t] /\ aged[t] \in Nat
      /\ edits'[t] \in [Posts -> Nat]
  <2>1. aged[t] \in Nat /\ edits[t] \in [Posts -> Nat]
    BY DEF Kept, Safe, WorldTypes
  <2>2. CASE Age(t)
    <3>1. /\ UNCHANGED <<published, gone, saved, known, queued, cycle, skipped, stale, pushedOff>>
          /\ aged' = [aged EXCEPT ![t] = aged[t] + 1] /\ edits' = edits
      BY <2>2 DEF Age, files, history
    <3> QED BY <2>1, <3>1 DEF Shaped
  <2>3. CASE Edit(t)
    <3>1. /\ UNCHANGED <<published, gone, saved, known, queued, cycle, skipped, stale, pushedOff>>
          /\ aged' = aged
      BY <2>3 DEF Edit, files, history
    <3>2. PICK i \in Visible(t) : edits' = [edits EXCEPT ![t][i] = @ + 1]
      BY <2>3 DEF Edit
    <3>3. i \in Posts
      BY MonitorAssumption DEF Visible, Posts, Kept, Safe, WorldTypes
    <3> DEFINE new == [edits[t] EXCEPT ![i] = edits[t][i] + 1]
    <3>4. edits' = [edits EXCEPT ![t] = new]
      BY <2>1, <3>2, <3>3 DEF Shaped
    <3>5. new \in [Posts -> Nat]
      BY <2>1, <3>3
    <3> HIDE DEF new
    <3>6. /\ edits'[t] = new /\ edits' = [u \in Targets |-> edits'[u]]
          /\ \A u \in Targets : u # t => edits'[u] = edits[u]
      BY <3>4 DEF Shaped
    <3>7. Shaped'
      BY <3>1, <3>6 DEF Shaped
    <3> QED BY <2>1, <3>1, <3>5, <3>6, <3>7
  <2> QED BY <2>2, <2>3
<1>2. Elsewhere(t)
  BY <1>1 DEF Elsewhere, Same, SameWorld, SameFiles, SameHistory, SameQueue, SameCycle
<1>3. \A i : Settled(t, i)' <=> Settled(t, i)
  BY <1>1 DEF Settled, Queued
<1>4. WorldTypes(t)' /\ FileTypes(t)' /\ CycleTypes(t)'
  BY <1>1 DEF Kept, Safe, WorldTypes, FileTypes, CycleTypes, Checkpoint, Stage, Previous, Page,
     Todo, OnItsPage, Reading
<1>5. PageShows(t)' /\ FilesSettled(t)' /\ CycleSettled(t)'
  BY <1>1, <1>3 DEF Kept, Safe, PageShows, OnPage, Visible, FilesSettled, Passed, CycleSettled,
     Stage, Previous, Page, Todo, OnItsPage
<1>6. Past(t)'
  <2>1. published[t] \in Nat
    BY MonitorAssumption DEF Kept, Safe, WorldTypes
  <2>2. \A i \in 1..published[t] : i <= aged[t] => i <= aged'[t]
    BY <1>1, <2>1
  <2> QED BY <1>1, <2>2 DEF Kept, Past, PastPost, NotBefore, Queued, Stage, Previous, Page, Todo,
             OnItsPage
<1> QED BY <1>2, <1>4, <1>5, <1>6 DEF Kept, Safe

-----------------------------------------------------------------------------
(* The cycle *)

\* A step of the cycle alone.
LEMMA CycleMoves ==
  ASSUME Shaped, NEW t \in Targets, NEW new, cycle' = [cycle EXCEPT ![t] = new],
         UNCHANGED <<world, files, queued, history>>
  PROVE  /\ Elsewhere(t) /\ cycle'[t] = new
         /\ SameWorld(t) /\ SameFiles(t) /\ SameHistory(t) /\ SameQueue(t)
BY DEF Elsewhere, Shaped, Same, SameWorld, SameFiles, SameHistory, SameQueue, SameCycle,
   world, files, history

LEMMA RestKept ==
  ASSUME NEW t, Kept(t), SameWorld(t), SameFiles(t), SameHistory(t), SameQueue(t)
  PROVE  /\ WorldTypes(t)' /\ FileTypes(t)' /\ PageShows(t)'
         /\ Passed(t, saved[t])' /\ Passed(t, known[t])'
         /\ \A i : Settled(t, i)' <=> Settled(t, i)
<1> USE DEF SameWorld, SameFiles, SameHistory, SameQueue
<1>1. \A i : Settled(t, i)' <=> Settled(t, i)
  BY DEF Settled, Queued
<1>2. WorldTypes(t)' /\ FileTypes(t)'
  BY DEF Kept, Safe, WorldTypes, FileTypes, Checkpoint
<1>3. PageShows(t)' /\ Passed(t, saved[t])' /\ Passed(t, known[t])'
  BY <1>1 DEF Kept, Safe, PageShows, OnPage, Visible, FilesSettled, Passed
<1> QED BY <1>1, <1>2, <1>3

\* A cycle that has ended holds nothing.
LEMMA IdleKept ==
  ASSUME NEW t, Kept(t), cycle'[t] = Idle,
         SameWorld(t), SameFiles(t), SameHistory(t), SameQueue(t)
  PROVE  Kept(t)'
<1>1. /\ Stage(t)' = "idle" /\ Previous(t)' = None /\ Page(t)' = <<>> /\ Todo(t)' = {}
      /\ OnItsPage(t)' = {}
  BY DEF Idle, Stage, Previous, Page, Todo, OnItsPage
<1>2. CycleTypes(t)'
  BY <1>1 DEF CycleTypes, Checkpoint, Idle
<1>3. FilesSettled(t)' /\ CycleSettled(t)'
  BY <1>1, RestKept DEF FilesSettled, Passed, CycleSettled
<1>4. Past(t)'
  BY <1>1 DEF Kept, Past, PastPost, NotBefore, Queued, SameWorld, SameFiles, SameHistory, SameQueue
<1> QED BY <1>2, <1>3, <1>4, RestKept DEF Kept, Safe

LEMMA PollKept ==
  ASSUME Shaped, NEW t \in Targets, Kept(t), Poll(t)
  PROVE  Elsewhere(t) /\ Kept(t)'
<1> DEFINE page == [i \in OnPage(t) |-> edits[t][i]]
           new == [stage |-> "polled", previous |-> known[t], page |-> page, todo |-> {}]
<1>1. cycle' = [cycle EXCEPT ![t] = new] /\ UNCHANGED <<world, files, queued, history>>
  BY DEF Poll
<1>2. DOMAIN page = OnPage(t) /\ \A i \in OnPage(t) : page[i] = edits[t][i]
  OBVIOUS
<1> HIDE DEF page
<1>3. /\ new.stage = "polled" /\ new.previous = known[t] /\ new.page = page /\ new.todo = {}
      /\ new = [stage |-> new.stage, previous |-> new.previous, page |-> new.page, todo |-> new.todo]
  OBVIOUS
<1> HIDE DEF new
<1>4. /\ Elsewhere(t) /\ cycle'[t] = new
      /\ SameWorld(t) /\ SameFiles(t) /\ SameHistory(t) /\ SameQueue(t)
  BY <1>1, CycleMoves
<1>5. /\ Stage(t)' = "polled" /\ Previous(t)' = known[t] /\ Todo(t)' = {}
      /\ OnItsPage(t)' = OnPage(t) /\ \A i \in OnPage(t) : Reading(t, i)' = edits[t][i]
  BY <1>2, <1>3, <1>4 DEF Stage, Previous, Page, Todo, OnItsPage, Reading
<1>6. /\ published[t] \in Nat /\ published[t] <= MaxPosts /\ edits[t] \in [Posts -> Nat]
      /\ Visible(t) \subseteq 1..published[t] /\ OnPage(t) \subseteq Visible(t)
  BY MonitorAssumption DEF Kept, Safe, WorldTypes, Visible, OnPage, Newest
<1>7. CycleTypes(t)'
  <2>1. \A i \in OnPage(t) : edits[t][i] \in Nat
    BY <1>6, MonitorAssumption DEF Posts
  <2>2. cycle'[t] = [stage |-> Stage(t)', previous |-> Previous(t)', page |-> Page(t)',
                     todo |-> Todo(t)']
    BY <1>3, <1>4 DEF Stage, Previous, Page, Todo
  <2> QED BY <1>4, <1>5, <1>6, <2>1, <2>2 DEF CycleTypes, Checkpoint, SameWorld, Kept, Safe, FileTypes
<1>8. FilesSettled(t)'
  BY <1>4, <1>5, RestKept DEF FilesSettled, Passed, Kept, Safe
<1>9. CycleSettled(t)'
  <2>1. ASSUME NEW j \in OnPage(t), NEW i \in 1..j PROVE i \in OnPage(t) \/ Settled(t, i)
    <3>1. i \in 1..published[t]
      BY <1>6
    <3> QED BY <3>1 DEF Kept, Safe, PageShows
  <2> QED BY <1>4, <1>5, <2>1, RestKept DEF CycleSettled
<1>10. ASSUME NEW i \in stale[t] PROVE PastPost(t, i)'
  <2>1. PastPost(t, i)
    BY DEF Kept, Past
  <2>2. i \in gone[t] \/ NotBefore(known[t], i)
    BY <2>1 DEF PastPost
  <2>3. i \in OnPage(t) => NotBefore(known[t], i)
    BY <1>6, <2>2 DEF Visible
  <2>4. i \in gone[t] \/ \E j \in OnPage(t) : i <= j
    <3>1. ASSUME i \notin gone[t] PROVE \E j \in OnPage(t) : i <= j
      <4>1. i \in Visible(t) /\ Visible(t) \subseteq 0..published[t]
        BY <1>6, <2>1, <3>1 DEF PastPost, Visible
      <4> QED BY <1>6, <4>1, NewestReaches, MonitorAssumption DEF OnPage
    <3> QED BY <3>1
  <2> QED BY <1>4, <1>5, <2>1, <2>2, <2>3, <2>4 DEF PastPost, Queued, NotBefore, SameWorld, SameFiles,
             SameQueue
<1>11. Past(t)'
  BY <1>4, <1>5, <1>10 DEF Past, Kept, SameFiles, SameHistory
<1> QED BY <1>4, <1>7, <1>8, <1>9, <1>11, RestKept DEF Kept, Safe

LEMMA SelectKept ==
  ASSUME Shaped, NEW t \in Targets, Kept(t), Select(t)
  PROVE  Elsewhere(t) /\ Kept(t)'
<1> DEFINE page == OnItsPage(t)
           fresh == Fresh(t)
           old == {i \in page \ Recent(t) : saved[t] = None /\ ~Queued(t, i)}
           new == [stage |-> "accepting", previous |-> Previous(t), page |-> Page(t), todo |-> fresh]
           left == IF Previous(t) = None THEN page \ fresh ELSE {}
           past == IF Previous(t) = None THEN old ELSE {}
<1>1. /\ Stage(t) = "polled"
      /\ UNCHANGED <<world, files, queued, pushedOff>>
  BY DEF Select
<1>2. cycle' = [cycle EXCEPT ![t] = new]
  <2>1. cycle[t] = [stage |-> Stage(t), previous |-> Previous(t), page |-> Page(t), todo |-> Todo(t)]
    BY DEF Kept, Safe, CycleTypes
  <2>2. cycle' = [cycle EXCEPT ![t].stage = "accepting", ![t].todo = fresh]
    BY DEF Select
  <2> HIDE DEF fresh
  <2>3. [cycle[t] EXCEPT !.stage = "accepting", !.todo = fresh] = new
    <3> DEFINE mid == [stage |-> "accepting", previous |-> Previous(t), page |-> Page(t),
                       todo |-> Todo(t)]
    <3>1. [cycle[t] EXCEPT !.stage = "accepting"] = mid
      BY <2>1
    <3>2. [mid EXCEPT !.todo = fresh] = new
      OBVIOUS
    <3> QED BY <3>1, <3>2
  <2>4. cycle' = [cycle EXCEPT ![t] = [cycle[t] EXCEPT !.stage = "accepting", !.todo = fresh]]
    BY <2>2 DEF Shaped
  <2> QED BY <2>3, <2>4
<1>3. /\ skipped' = [skipped EXCEPT ![t] = skipped[t] \cup left]
      /\ stale' = [stale EXCEPT ![t] = stale[t] \cup past]
  BY DEF Select, Shaped
<1>4. /\ new.stage = "accepting" /\ new.previous = Previous(t) /\ new.page = Page(t)
      /\ new.todo = fresh
      /\ new = [stage |-> new.stage, previous |-> new.previous, page |-> new.page, todo |-> new.todo]
  OBVIOUS
<1>5. /\ fresh \subseteq page
      /\ Previous(t) = None => fresh \subseteq Recent(t)
      /\ Previous(t) # None => fresh = {i \in page : i > Previous(t)}
  BY DEF Fresh, Newest, Recent
<1> HIDE DEF new, left, past, old, fresh, page
<1>6. /\ Elsewhere(t) /\ cycle'[t] = new
      /\ SameWorld(t) /\ SameFiles(t) /\ SameQueue(t)
      /\ skipped'[t] = skipped[t] \cup left /\ stale'[t] = stale[t] \cup past
      /\ pushedOff'[t] = pushedOff[t]
  <2>1. /\ published' = published /\ gone' = gone /\ aged' = aged /\ edits' = edits
        /\ saved' = saved /\ known' = known /\ queued' = queued /\ pushedOff' = pushedOff
    BY <1>1 DEF world, files
  <2>2. /\ \A u \in Targets : u # t => /\ cycle'[u] = cycle[u] /\ skipped'[u] = skipped[u]
                                       /\ stale'[u] = stale[u]
        /\ Shaped'
    BY <1>2, <1>3, <2>1 DEF Shaped
  <2>3. /\ cycle'[t] = new
        /\ skipped'[t] = skipped[t] \cup left /\ stale'[t] = stale[t] \cup past
    BY <1>2, <1>3 DEF Shaped
  <2> QED BY <2>1, <2>2, <2>3 DEF Elsewhere, Same, SameWorld, SameFiles, SameHistory, SameQueue, SameCycle
<1>7. /\ Stage(t)' = "accepting" /\ Previous(t)' = Previous(t) /\ Todo(t)' = fresh
      /\ OnItsPage(t)' = page /\ Page(t)' = Page(t) /\ \A i : Reading(t, i)' = Reading(t, i)
  BY <1>4, <1>6 DEF Stage, Previous, Page, Todo, OnItsPage, Reading, page
<1>8. \A i : Settled(t, i) => Settled(t, i)'
  BY <1>6, SettledStays DEF Queued, SameQueue, SameWorld
<1>9. WorldTypes(t)' /\ FileTypes(t)' /\ PageShows(t)'
  BY <1>6, <1>8 DEF Kept, Safe, WorldTypes, FileTypes, Checkpoint, PageShows, OnPage, Visible,
     SameWorld, SameFiles, SameQueue
<1>10. CycleTypes(t)'
  <2>1. cycle'[t] = [stage |-> Stage(t)', previous |-> Previous(t)', page |-> Page(t)',
                     todo |-> Todo(t)']
    BY <1>4, <1>6 DEF Stage, Previous, Page, Todo
  <2> QED BY <1>5, <1>6, <1>7, <2>1 DEF CycleTypes, Checkpoint, SameWorld, Kept, Safe, page
<1>11. FilesSettled(t)'
  BY <1>6, <1>7, <1>8 DEF FilesSettled, Passed, Kept, Safe, SameFiles
<1>12. CycleSettled(t)'
  <2>1. ASSUME NEW j \in page, NEW i \in 1..j PROVE i \in fresh \/ Settled(t, i)'
    <3>1. i \in page \/ Settled(t, i)
      BY <1>1 DEF Kept, Safe, CycleSettled, page
    <3>2. CASE i \in page /\ Previous(t) = None
      BY <1>6, <3>2 DEF left, Settled
    <3>3. CASE i \in page /\ Previous(t) # None
      <4>1. i \in Nat /\ Previous(t) \in Nat /\ i >= 1
        BY <3>3, MonitorAssumption DEF Kept, Safe, CycleTypes, Checkpoint, WorldTypes, page
      <4>2. CASE i > Previous(t)
        BY <1>5, <3>3, <4>2
      <4>3. CASE ~(i > Previous(t))
        <5>1. i \in 1..Previous(t)
          BY <4>1, <4>3
        <5>2. Settled(t, i)
          BY <3>3, <5>1 DEF Kept, Safe, FilesSettled, Passed
        <5> QED BY <1>8, <5>2
      <4> QED BY <4>2, <4>3
    <3> QED BY <1>8, <3>1, <3>2, <3>3
  <2> QED BY <1>7, <2>1 DEF CycleSettled
<1>13. saved[t] = None => known[t] = None /\ Previous(t) = None
  BY DEF Kept, Past
<1>14. ASSUME NEW i \in stale[t] PROVE PastPost(t, i)'
  <2>1. PastPost(t, i)
    BY DEF Kept, Past
  <2>2. i \in Nat /\ aged[t] \in Nat /\ i <= aged[t]
    BY <2>1, MonitorAssumption DEF PastPost, Kept, Safe, WorldTypes
  <2>3. i \notin fresh
    <3>1. CASE Previous(t) = None
      <4>1. ~(i > aged[t])
        BY <2>2
      <4> QED BY <1>5, <3>1, <4>1 DEF Recent
    <3>2. CASE Previous(t) # None
      <4>1. ASSUME i \in page PROVE ~(i > Previous(t))
        <5>1. i <= Previous(t)
          BY <1>1, <2>1, <3>2, <4>1 DEF PastPost, NotBefore, page
        <5>2. Previous(t) \in Nat
          BY <3>2, MonitorAssumption DEF Kept, Safe, CycleTypes, Checkpoint, WorldTypes
        <5> QED BY <2>2, <5>1, <5>2
      <4> QED BY <1>5, <3>2, <4>1
    <3> QED BY <3>1, <3>2
  <2> QED BY <1>1, <1>6, <1>7, <2>1, <2>3 DEF PastPost, Queued, NotBefore, SameWorld, SameFiles, SameQueue, page
<1>15. ASSUME NEW i \in past PROVE PastPost(t, i)'
  <2>1. i \in page /\ i \notin Recent(t) /\ saved[t] = None /\ ~Queued(t, i) /\ Previous(t) = None
    BY DEF past, old
  <2>2. i \in 1..published[t] /\ published[t] \in Nat /\ aged[t] \in Nat
    BY <2>1, MonitorAssumption DEF Kept, Safe, CycleTypes, WorldTypes, page
  <2>3. i <= aged[t]
    BY <2>1, <2>2 DEF Recent, page
  <2>4. i \notin fresh
    BY <1>5, <2>1
  <2>5. i <= i
    BY <2>2
  <2> QED BY <1>6, <1>7, <1>13, <2>1, <2>2, <2>3, <2>4, <2>5 DEF PastPost, Queued, NotBefore, SameWorld,
             SameFiles, SameQueue
<1>16. Past(t)'
  BY <1>6, <1>7, <1>13, <1>14, <1>15 DEF Past, SameFiles
<1> QED BY <1>6, <1>9, <1>10, <1>11, <1>12, <1>16 DEF Kept, Safe

LEMMA AcceptKept ==
  ASSUME Shaped, NEW t \in Targets, NEW i \in Posts, Kept(t), Accept(t, i)
  PROVE  Elsewhere(t) /\ Kept(t)'
<1> DEFINE reading == Reading(t, i)
           q == [queued[t] EXCEPT ![i] = reading]
           new == [stage |-> Stage(t), previous |-> Previous(t), page |-> Page(t),
                   todo |-> Todo(t) \ {i}]
<1>1. Stage(t) = "accepting" /\ Todo(t) # {} /\ i = Min(Todo(t))
  BY DEF Accept, Turn
<1>2. i \in Todo(t) /\ i \in OnItsPage(t) /\ reading \in Nat
  <2>1. published[t] \in Nat /\ Todo(t) \subseteq OnItsPage(t) /\ OnItsPage(t) \subseteq 1..published[t]
    BY MonitorAssumption DEF Kept, Safe, WorldTypes, CycleTypes
  <2>2. Todo(t) \subseteq Nat
    BY <2>1
  <2>3. i \in Todo(t)
    BY <1>1, <2>2, MinOfPosts
  <2> QED BY <2>1, <2>3 DEF Kept, Safe, CycleTypes
<1>3. cycle' = [cycle EXCEPT ![t] = new]
  <2>1. cycle[t] = [stage |-> Stage(t), previous |-> Previous(t), page |-> Page(t), todo |-> Todo(t)]
    BY DEF Kept, Safe, CycleTypes
  <2>2. cycle' = [cycle EXCEPT ![t] = [cycle[t] EXCEPT !.todo = cycle[t].todo \ {i}]]
    BY DEF Accept, Shaped
  <2>3. cycle[t].todo = Todo(t)
    BY DEF Todo
  <2>4. [cycle[t] EXCEPT !.todo = Todo(t) \ {i}] = new
    BY <2>1
  <2> QED BY <2>2, <2>3, <2>4
<1>4. queued' = [queued EXCEPT ![t] = q]
  BY DEF Accept, Shaped
<1>5. UNCHANGED <<world, files, history>>
  BY DEF Accept
<1>6. /\ q \in [Posts -> Nat \cup {None}] /\ q[i] = reading
      /\ \A k \in Posts : k # i => q[k] = queued[t][k]
  <2>1. queued[t] \in [Posts -> Nat \cup {None}]
    BY DEF Kept, Safe, FileTypes
  <2> HIDE DEF reading
  <2> QED BY <1>2, <2>1
<1>7. /\ new.stage = "accepting" /\ new.previous = Previous(t) /\ new.page = Page(t)
      /\ new.todo = Todo(t) \ {i}
      /\ new = [stage |-> new.stage, previous |-> new.previous, page |-> new.page, todo |-> new.todo]
  BY <1>1
<1> HIDE DEF q, new, reading
<1>8. /\ Elsewhere(t) /\ cycle'[t] = new /\ queued'[t] = q
      /\ SameWorld(t) /\ SameFiles(t) /\ SameHistory(t)
  <2>1. cycle'[t] = new /\ queued'[t] = q
    BY <1>3, <1>4 DEF Shaped
  <2>2. /\ \A u \in Targets : u # t => cycle'[u] = cycle[u] /\ queued'[u] = queued[u]
        /\ Shaped'
    BY <1>3, <1>4, <1>5 DEF Shaped, world, files, history
  <2> QED BY <1>5, <2>1, <2>2 DEF Elsewhere, Same, SameWorld, SameFiles, SameHistory, SameQueue,
             SameCycle, world, files, history
<1>9. /\ Stage(t)' = "accepting" /\ Previous(t)' = Previous(t) /\ Todo(t)' = Todo(t) \ {i}
      /\ OnItsPage(t)' = OnItsPage(t) /\ Page(t)' = Page(t) /\ \A k : Reading(t, k)' = Reading(t, k)
  BY <1>7, <1>8 DEF Stage, Previous, Page, Todo, OnItsPage, Reading
<1>10. /\ Queued(t, i)'
       /\ \A k \in Posts : Queued(t, k) => Queued(t, k)'
       /\ \A k \in Posts : k # i => (Queued(t, k)' <=> Queued(t, k))
  BY <1>2, <1>6, <1>8, MonitorAssumption DEF Queued
<1>11. Settled(t, i)' /\ \A k \in Posts : Settled(t, k) => Settled(t, k)'
  BY <1>8, <1>10 DEF Settled, SameWorld, SameHistory
<1>12. /\ published[t] \in Nat /\ 1..published[t] \subseteq Posts
       /\ \A j \in OnItsPage(t) : 1..j \subseteq Posts
       /\ \A c : Checkpoint(t, c) /\ c # None => 1..c \subseteq Posts
  BY MonitorAssumption DEF Kept, Safe, WorldTypes, CycleTypes, Posts, Checkpoint
<1>13. WorldTypes(t)' /\ FileTypes(t)'
  BY <1>6, <1>8 DEF Kept, Safe, WorldTypes, FileTypes, Checkpoint, SameWorld, SameFiles
<1>14. PageShows(t)'
  BY <1>8, <1>11, <1>12 DEF Kept, Safe, PageShows, OnPage, Visible, SameWorld
<1>15. CycleTypes(t)'
  <2>1. cycle'[t] = [stage |-> Stage(t)', previous |-> Previous(t)', page |-> Page(t)',
                     todo |-> Todo(t)']
    BY <1>7, <1>8 DEF Stage, Previous, Page, Todo
  <2> QED BY <1>8, <1>9, <2>1 DEF CycleTypes, Checkpoint, SameWorld, Kept, Safe
<1>16. FilesSettled(t)'
  <2>1. ASSUME NEW c, Checkpoint(t, c), Passed(t, c) PROVE c # None => \A k \in 1..c : Settled(t, k)'
    BY <1>11, <1>12, <2>1 DEF Passed
  <2> QED BY <1>8, <1>9, <2>1 DEF FilesSettled, Passed, Kept, Safe, SameFiles, FileTypes, CycleTypes
<1>17. CycleSettled(t)'
  <2>1. ASSUME NEW j \in OnItsPage(t), NEW k \in 1..j PROVE k \in Todo(t) \ {i} \/ Settled(t, k)'
    <3>1. k \in Todo(t) \/ Settled(t, k)
      BY <1>1 DEF Kept, Safe, CycleSettled
    <3>2. k \in Posts
      BY <1>12
    <3> QED BY <1>11, <3>1, <3>2
  <2> QED BY <1>9, <2>1 DEF CycleSettled
<1>18. Past(t)'
  <2>1. ASSUME NEW k \in stale[t] PROVE PastPost(t, k)'
    <3>1. PastPost(t, k)
      BY DEF Kept, Past
    <3> QED BY <1>1, <1>8, <1>9, <3>1 DEF PastPost, NotBefore, SameWorld, SameFiles
  <2> QED BY <1>8, <1>9, <2>1 DEF Past, Kept, SameFiles, SameHistory
<1> QED BY <1>8, <1>13, <1>14, <1>15, <1>16, <1>17, <1>18 DEF Kept, Safe

\* A cycle that fails leaves everything else alone.
LEMMA FailsKept ==
  ASSUME Shaped, NEW t \in Targets, Kept(t), Fails(t)
  PROVE  Elsewhere(t) /\ Kept(t)'
<1>1. cycle' = [cycle EXCEPT ![t] = Idle] /\ UNCHANGED <<world, files, queued, history>>
  BY DEF Fails
<1>2. /\ Elsewhere(t) /\ cycle'[t] = Idle
      /\ SameWorld(t) /\ SameFiles(t) /\ SameHistory(t) /\ SameQueue(t)
  BY <1>1, CycleMoves
<1> QED BY <1>2, IdleKept

\* The next checkpoint is a post of the page or the previous checkpoint, and no
\* post of the page lies after it: all before it is settled, and it does not
\* fall behind what is past and can still be seen.
LEMMA NextCheckpointFacts ==
  ASSUME NEW t, Kept(t), Stage(t) = "accepting", Todo(t) = {}
  PROVE  /\ NextCheckpoint(t) \in 0..published[t] /\ NextCheckpoint(t) # None
         /\ Passed(t, NextCheckpoint(t))
         /\ \A i \in stale[t] : i \in gone[t] \/ i <= NextCheckpoint(t)
<1> DEFINE page == OnItsPage(t)
           n == NextCheckpoint(t)
<1>1. /\ published[t] \in Nat /\ page \subseteq 1..published[t] /\ None \notin Nat
      /\ Latest(t) \in 0..published[t]
  BY MonitorAssumption DEF Kept, Safe, WorldTypes, CycleTypes, Checkpoint, Latest
<1>2. n \in {Latest(t)} \cup page /\ \A j \in page : j <= n
  <2>1. {Latest(t)} \cup page \subseteq 0..published[t] /\ page \subseteq 0..published[t]
    BY <1>1
  <2>2. /\ Max({Latest(t)} \cup page) \in {Latest(t)} \cup page
        /\ \A j \in {Latest(t)} \cup page : j <= Max({Latest(t)} \cup page)
    <3> HIDE DEF page
    <3> QED BY <1>1, <2>1, MaxOfPosts
  <2>3. page # {} => Max(page) \in page /\ \A j \in page : j <= Max(page)
    <3> HIDE DEF page
    <3> QED BY <1>1, <2>1, MaxOfPosts
  <2> QED BY <2>2, <2>3 DEF NextCheckpoint
<1> HIDE DEF n
<1>3. n \in 0..published[t] /\ n # None
  BY <1>1, <1>2
<1>4. \A i \in 1..n : Settled(t, i)
  <2>1. CASE n \in page
    BY <2>1 DEF Kept, Safe, CycleSettled
  <2>2. CASE n = Latest(t)
    <3>1. CASE Previous(t) = None
      BY <2>2, <3>1 DEF Latest
    <3>2. CASE Previous(t) # None
      BY <2>2, <3>2 DEF Latest, Kept, Safe, FilesSettled, Passed
    <3> QED BY <3>1, <3>2
  <2> QED BY <1>2, <2>1, <2>2
<1>5. ASSUME NEW i \in stale[t], i \notin gone[t] PROVE i <= n
  <2>1. PastPost(t, i)
    BY DEF Kept, Past
  <2>2. PICK j \in page : i <= j
    BY <1>5, <2>1 DEF PastPost
  <2>3. i \in Nat /\ j \in Nat /\ n \in Nat /\ j <= n
    BY <1>1, <1>2, <1>3, <2>1 DEF PastPost
  <2> QED BY <2>2, <2>3
<1> QED BY <1>3, <1>4, <1>5 DEF Passed, n

\* A checkpoint is saved, in the file and in memory, or in the file alone.
LEMMA SaveKept ==
  ASSUME Shaped, NEW t \in Targets, Kept(t), Save(t) \/ SaveFails(t)
  PROVE  Elsewhere(t) /\ Kept(t)'
<1> DEFINE n == NextCheckpoint(t)
<1>1. Stage(t) = "accepting" /\ Todo(t) = {}
  BY DEF Save, SaveFails
<1>2. /\ n \in 0..published[t] /\ n # None /\ Passed(t, n)
      /\ \A i \in stale[t] : i \in gone[t] \/ i <= n
  BY <1>1, NextCheckpointFacts
<1> HIDE DEF n
<1>3. /\ cycle' = [cycle EXCEPT ![t] = Idle] /\ UNCHANGED <<world, queued, history>>
      /\ saved' \in {saved, [saved EXCEPT ![t] = n]}
      /\ known' \in {known, [known EXCEPT ![t] = n]}
      /\ known' = known \/ saved' = [saved EXCEPT ![t] = n]
  BY DEF Save, SaveFails, n, files
<1>4. /\ Elsewhere(t) /\ cycle'[t] = Idle
      /\ SameWorld(t) /\ SameHistory(t) /\ SameQueue(t)
      /\ saved'[t] \in {saved[t], n} /\ known'[t] \in {known[t], n}
      /\ saved'[t] = None => saved[t] = None /\ known'[t] = known[t]
  <2>1. /\ cycle'[t] = Idle
        /\ saved'[t] \in {saved[t], n} /\ known'[t] \in {known[t], n}
        /\ saved'[t] = None => saved[t] = None /\ known'[t] = known[t]
    BY <1>2, <1>3 DEF Shaped
  <2>2. /\ \A u \in Targets : u # t => /\ cycle'[u] = cycle[u] /\ saved'[u] = saved[u]
                                       /\ known'[u] = known[u]
        /\ Shaped'
    BY <1>3 DEF Shaped, world, history
  <2> QED BY <1>3, <2>1, <2>2 DEF Elsewhere, Same, SameWorld, SameFiles, SameHistory, SameQueue,
             SameCycle, world, history
<1>5. /\ Stage(t)' = "idle" /\ Previous(t)' = None /\ Page(t)' = <<>> /\ Todo(t)' = {}
      /\ OnItsPage(t)' = {}
  BY <1>4 DEF Idle, Stage, Previous, Page, Todo, OnItsPage
<1>6. \A i : Settled(t, i)' <=> Settled(t, i)
  BY <1>4 DEF Settled, Queued, SameWorld, SameHistory, SameQueue
<1>7. WorldTypes(t)' /\ FileTypes(t)' /\ PageShows(t)'
  BY <1>2, <1>4, <1>6 DEF Kept, Safe, WorldTypes, FileTypes, Checkpoint, PageShows, OnPage, Visible,
     SameWorld, SameQueue
<1>8. CycleTypes(t)'
  BY <1>4, <1>5 DEF CycleTypes, Checkpoint, Idle
<1>9. FilesSettled(t)' /\ CycleSettled(t)'
  BY <1>2, <1>4, <1>5, <1>6 DEF FilesSettled, Passed, CycleSettled, Kept, Safe
<1>10. Past(t)'
  <2>1. ASSUME NEW i \in stale[t] PROVE PastPost(t, i)'
    <3>1. PastPost(t, i)
      BY DEF Kept, Past
    <3>2. i \in gone[t] \/ (NotBefore(saved'[t], i) /\ NotBefore(known'[t], i))
      BY <1>2, <1>4, <3>1 DEF PastPost, NotBefore
    <3> QED BY <1>4, <1>5, <3>1, <3>2 DEF PastPost, NotBefore, Queued, SameWorld, SameQueue
  <2>2. saved'[t] = None => known'[t] = None
    BY <1>4 DEF Kept, Past
  <2> QED BY <1>4, <1>5, <2>1, <2>2 DEF Past, SameHistory
<1> QED BY <1>4, <1>7, <1>8, <1>9, <1>10 DEF Kept, Safe

\* After a restart the file is all there is.
LEMMA RestartKept ==
  ASSUME Shaped, \A t \in Targets : Kept(t), Restart
  PROVE  Shaped' /\ \A t \in Targets : Kept(t)'
<1>1. /\ known' = saved /\ cycle' = [t \in Targets |-> Idle]
      /\ UNCHANGED <<world, saved, queued, history>>
  BY DEF Restart
<1>2. Shaped'
  BY <1>1 DEF Shaped, world, history
<1>3. ASSUME NEW t \in Targets PROVE Kept(t)'
  <2>1. /\ known'[t] = saved[t] /\ saved'[t] = saved[t] /\ cycle'[t] = Idle
        /\ SameWorld(t) /\ SameHistory(t) /\ SameQueue(t)
    BY <1>1 DEF SameWorld, SameHistory, SameQueue, world, history
  <2>2. /\ Stage(t)' = "idle" /\ Previous(t)' = None /\ Page(t)' = <<>> /\ Todo(t)' = {}
        /\ OnItsPage(t)' = {}
    BY <2>1 DEF Idle, Stage, Previous, Page, Todo, OnItsPage
  <2>3. \A i : Settled(t, i)' <=> Settled(t, i)
    BY <2>1 DEF Settled, Queued, SameWorld, SameHistory, SameQueue
  <2>4. WorldTypes(t)' /\ FileTypes(t)' /\ PageShows(t)'
    BY <2>1, <2>3 DEF Kept, Safe, WorldTypes, FileTypes, Checkpoint, PageShows, OnPage, Visible,
       SameWorld, SameQueue
  <2>5. CycleTypes(t)'
    BY <2>1, <2>2 DEF CycleTypes, Checkpoint, Idle
  <2>6. FilesSettled(t)' /\ CycleSettled(t)'
    BY <2>1, <2>2, <2>3 DEF FilesSettled, Passed, CycleSettled, Kept, Safe
  <2>7. Past(t)'
    BY <2>1, <2>2 DEF Kept, Past, PastPost, NotBefore, Queued, SameWorld, SameHistory, SameQueue
  <2> QED BY <2>4, <2>5, <2>6, <2>7 DEF Kept, Safe
<1> QED BY <1>2, <1>3

-----------------------------------------------------------------------------

LEMMA MonitorInvInit == MonitorInit => MonitorInv
<1> SUFFICES ASSUME MonitorInit PROVE MonitorInv
  OBVIOUS
<1>1. Shaped
  BY DEF MonitorInit, Shaped
<1>2. ASSUME NEW t \in Targets PROVE Safe(t) /\ Past(t)
  <2>1. /\ published[t] = 0 /\ gone[t] = {} /\ aged[t] = 0 /\ edits[t] = [i \in Posts |-> 0]
        /\ saved[t] = None /\ known[t] = None /\ queued[t] = [i \in Posts |-> None]
        /\ cycle[t] = Idle /\ stale[t] = {}
    BY DEF MonitorInit
  <2>2. /\ Stage(t) = "idle" /\ Previous(t) = None /\ Page(t) = <<>> /\ Todo(t) = {}
        /\ OnItsPage(t) = {}
    BY <2>1 DEF Idle, Stage, Previous, Page, Todo, OnItsPage
  <2>3. WorldTypes(t) /\ FileTypes(t)
    BY <2>1, MonitorAssumption DEF WorldTypes, FileTypes, Checkpoint
  <2>4. CycleTypes(t)
    BY <2>1, <2>2 DEF CycleTypes, Checkpoint, Idle
  <2>5. PageShows(t) /\ FilesSettled(t) /\ CycleSettled(t)
    BY <2>1, <2>2 DEF PageShows, FilesSettled, Passed, CycleSettled
  <2>6. Past(t)
    BY <2>1, <2>2 DEF Past
  <2> QED BY <2>3, <2>4, <2>5, <2>6 DEF Safe
<1> QED BY <1>1, <1>2 DEF MonitorInv, Kept

\* A step of one target, its world's or its cycle's.
LEMMA TargetKept ==
  ASSUME Shaped, NEW t \in Targets, Kept(t),
         Publish(t) \/ Delete(t) \/ Age(t) \/ Edit(t) \/ MonitorStep(t)
  PROVE  Elsewhere(t) /\ Kept(t)'
<1>1. CASE Publish(t)
  BY <1>1, PublishKept
<1>2. CASE Delete(t)
  BY <1>2, DeleteKept
<1>3. CASE Age(t) \/ Edit(t)
  BY <1>3, AgeKept
<1>4. CASE Poll(t)
  BY <1>4, PollKept
<1>5. CASE Select(t)
  BY <1>5, SelectKept
<1>6. CASE Trouble(t)
  BY <1>6, FailsKept DEF Trouble
<1>7. CASE Save(t) \/ SaveFails(t)
  BY <1>7, SaveKept
<1>8. ASSUME NEW i \in Posts, Accept(t, i) PROVE Elsewhere(t) /\ Kept(t)'
  BY <1>8, AcceptKept
<1>9. ASSUME NEW i \in Posts, Conflict(t, i) PROVE Elsewhere(t) /\ Kept(t)'
  BY <1>9, FailsKept DEF Conflict
<1> QED BY <1>1, <1>2, <1>3, <1>4, <1>5, <1>6, <1>7, <1>8, <1>9 DEF MonitorStep

\* The posts accepted are none of the past, and a post that is found to be past
\* is not queued then.
LEMMA TargetOut ==
  ASSUME Shaped, NEW t \in Targets, Kept(t), Out(t),
         Publish(t) \/ Delete(t) \/ Age(t) \/ Edit(t) \/ MonitorStep(t)
  PROVE  Out(t)'
<1>1. CASE queued' = queued /\ stale' = stale
  BY <1>1 DEF Out, Queued
<1>2. CASE Select(t)
  <2> DEFINE old == {i \in OnItsPage(t) \ Recent(t) : saved[t] = None /\ ~Queued(t, i)}
  <2>1. /\ queued' = queued
        /\ stale' = stale \/ stale' = [stale EXCEPT ![t] = stale[t] \cup old]
    BY <1>2 DEF Select
  <2>2. \A i \in old : ~Queued(t, i)
    OBVIOUS
  <2> HIDE DEF old
  <2>3. stale'[t] \subseteq stale[t] \cup old
    BY <2>1 DEF Shaped
  <2> QED BY <2>1, <2>2, <2>3 DEF Out, Queued
<1>3. ASSUME NEW i \in Posts, Accept(t, i) PROVE Out(t)'
  <2>1. i = Min(Todo(t)) /\ Todo(t) # {} /\ stale' = stale
    BY <1>3 DEF Accept, Turn, history
  <2>2. i \in Todo(t)
    <3>1. Todo(t) \subseteq Nat
      BY MonitorAssumption DEF Kept, Safe, WorldTypes, CycleTypes
    <3> QED BY <2>1, <3>1, MinOfPosts
  <2>3. ASSUME NEW k \in stale[t] PROVE k # i /\ k \in Posts
    BY <2>2, MonitorAssumption DEF Kept, Past, PastPost, Safe, WorldTypes, Posts
  <2> DEFINE q == [queued[t] EXCEPT ![i] = Reading(t, i)]
  <2>4. queued' = [queued EXCEPT ![t] = q]
    BY <1>3 DEF Accept, Shaped
  <2>5. queued[t] \in [Posts -> Nat \cup {None}]
    BY DEF Kept, Safe, FileTypes
  <2>6. \A k \in Posts : k # i => q[k] = queued[t][k]
    BY <2>5
  <2> HIDE DEF q
  <2>7. queued'[t] = q
    BY <2>4 DEF Shaped
  <2> QED BY <2>1, <2>3, <2>6, <2>7 DEF Out, Queued
<1>4. Publish(t) \/ Delete(t) \/ Age(t) \/ Edit(t) => queued' = queued /\ stale' = stale
  BY DEF Publish, Delete, Age, Edit, history
<1>5. Poll(t) \/ Trouble(t) \/ Save(t) \/ SaveFails(t) \/ (\E i \in Posts : Conflict(t, i))
        => queued' = queued /\ stale' = stale
  BY DEF Poll, Trouble, Save, SaveFails, Conflict, Fails, history
<1> QED BY <1>1, <1>2, <1>3, <1>4, <1>5 DEF MonitorStep

LEMMA MonitorInvStep ==
  ASSUME MonitorInv, [MonitorNext]_monitorVars
  PROVE  /\ MonitorInv'
         /\ (\A t \in Targets : Out(t)) => (\A t \in Targets : Out(t))'
<1>0. Shaped /\ \A t \in Targets : Kept(t)
  BY DEF MonitorInv
<1>1. ASSUME NEW t \in Targets,
             Publish(t) \/ Delete(t) \/ Age(t) \/ Edit(t) \/ MonitorStep(t)
      PROVE  /\ MonitorInv'
             /\ (\A u \in Targets : Out(u)) => (\A u \in Targets : Out(u))'
  <2>1. Elsewhere(t) /\ Kept(t)'
    BY <1>0, <1>1, TargetKept
  <2>2. \A u \in Targets : Kept(u)'
    BY <1>0, <2>1, SameKept DEF Elsewhere
  <2>3. \A u \in Targets : u # t /\ Out(u) => Out(u)'
    BY <2>1 DEF Elsewhere, Same, SameQueue, SameHistory, Out, Queued
  <2>4. Out(t) => Out(t)'
    BY <1>0, <1>1, TargetOut
  <2> QED BY <2>1, <2>2, <2>3, <2>4 DEF MonitorInv, Elsewhere
<1>2. CASE Restart
  <2>1. queued' = queued /\ stale' = stale
    BY <1>2 DEF Restart, history
  <2>2. (\A t \in Targets : Out(t)) => (\A t \in Targets : Out(t))'
    BY <2>1 DEF Out, Queued
  <2> QED BY <1>0, <1>2, <2>2, RestartKept DEF MonitorInv
<1>3. CASE UNCHANGED monitorVars
  <2>1. Shaped' /\ \A t \in Targets : Same(t)
    BY <1>0, <1>3 DEF monitorVars, world, files, history, Shaped, Same, SameWorld, SameFiles,
       SameHistory, SameQueue, SameCycle
  <2>2. (\A t \in Targets : Out(t)) => (\A t \in Targets : Out(t))'
    BY <2>1 DEF Same, SameQueue, SameHistory, Out, Queued
  <2> QED BY <1>0, <2>1, <2>2, SameKept DEF MonitorInv
<1> QED BY <1>1, <1>2, <1>3 DEF MonitorNext, World

LEMMA MonitorInvAlways == MonitorSpec => [](MonitorInv /\ \A t \in Targets : Out(t))
<1>1. MonitorInit => \A t \in Targets : Out(t)
  BY DEF MonitorInit, Out
<1>2. /\ MonitorInv /\ (\A t \in Targets : Out(t))
      /\ [MonitorNext]_monitorVars
      => MonitorInv' /\ (\A t \in Targets : Out(t))'
  BY MonitorInvStep
<1> QED BY <1>1, <1>2, MonitorInvInit, PTL DEF MonitorSpec

LEMMA InvTypes == MonitorInv => TypeOK
<1> SUFFICES ASSUME MonitorInv, NEW t \in Targets
             PROVE  /\ saved[t] \in {None} \cup (0..published[t])
                    /\ known[t] \in {None} \cup (0..published[t])
                    /\ Previous(t) \in {None} \cup (0..published[t])
                    /\ Stage(t) \in {"idle", "polled", "accepting"}
                    /\ OnItsPage(t) \subseteq 1..published[t]
                    /\ Todo(t) \subseteq OnItsPage(t)
  BY DEF TypeOK
<1> QED BY DEF MonitorInv, Kept, Safe, FileTypes, CycleTypes, Checkpoint

LEMMA InvPassed == MonitorInv => PassedIsQueued
BY DEF MonitorInv, Kept, Safe, FilesSettled, Passed, Settled, PassedIsQueued

LEMMA AllOut == (\A t \in Targets : Out(t)) => PastStaysOut
BY DEF Out, PastStaysOut

\* Checkpoints are posts that exist, and a cycle holds what it has fetched.
THEOREM MonitorTypes == MonitorSpec => []TypeOK
  BY InvTypes, MonitorInvAlways, PTL

\* In every behaviour of either monitor, whatever fails, is edited, deleted or
\* restarted, a post the checkpoint has passed is queued or among the losses
\* that are named.
THEOREM MonitorPassedIsQueued == MonitorSpec => []PassedIsQueued
  BY InvPassed, MonitorInvAlways, PTL

\* In every behaviour of either monitor a post that was too old for the first
\* start is never queued.
THEOREM MonitorPastStaysOut == MonitorSpec => []PastStaysOut
  BY AllOut, MonitorInvAlways, PTL

\* Both: what the checkpoint says has been dealt with has been, and what it says
\* is past stays past.
THEOREM MonitorCheckpointIsHonest == MonitorSpec => []CheckpointIsHonest
<1>1. MonitorInv /\ (\A t \in Targets : Out(t)) => CheckpointIsHonest
  BY InvPassed, AllOut DEF CheckpointIsHonest
<1> QED BY <1>1, MonitorInvAlways, PTL

-----------------------------------------------------------------------------
(* TelegramCollection *)

Messages == [target : Targets, post : Posts]

Healthy == status = "live" => watched = Targets /\ dropped = {}

CollectionInv == MonitorInv /\ inbox \in Seq(Messages) /\ Healthy

-----------------------------------------------------------------------------

\* A post queued by another keeps the invariant of the monitor.
LEMMA QueuedByOther ==
  ASSUME MonitorInv, NEW t \in Targets, NEW i \in Posts, NEW content \in Nat,
         queued' = [queued EXCEPT ![t][i] = content],
         UNCHANGED <<world, files, cycle, history>>
  PROVE  MonitorInv'
<1> DEFINE q == [queued[t] EXCEPT ![i] = content]
<1>1. Shaped /\ \A u \in Targets : Kept(u)
  BY DEF MonitorInv
<1>2. queued' = [queued EXCEPT ![t] = q]
  BY <1>1 DEF Shaped
<1>3. /\ q \in [Posts -> Nat \cup {None}] /\ q[i] = content
      /\ \A k \in Posts : k # i => q[k] = queued[t][k]
  <2>1. queued[t] \in [Posts -> Nat \cup {None}]
    BY <1>1 DEF Kept, Safe, FileTypes
  <2> QED BY <2>1
<1> HIDE DEF q
<1>4. /\ queued'[t] = q /\ SameWorld(t) /\ SameFiles(t) /\ SameHistory(t) /\ SameCycle(t)
      /\ Elsewhere(t)
  <2>1. queued'[t] = q /\ \A u \in Targets : u # t => queued'[u] = queued[u]
    BY <1>1, <1>2 DEF Shaped
  <2>2. Shaped'
    BY <1>1, <1>2 DEF Shaped, world, files, history
  <2> QED BY <2>1, <2>2 DEF Elsewhere, Same, SameWorld, SameFiles, SameHistory, SameQueue,
             SameCycle, world, files, history
<1>5. \A k \in Posts : Settled(t, k) => Settled(t, k)'
  <2>1. \A k \in Posts : Queued(t, k) => Queued(t, k)'
    BY <1>3, <1>4, MonitorAssumption DEF Queued
  <2> QED BY <1>4, <2>1 DEF Settled, SameWorld, SameHistory
<1>6. Kept(t)
  BY <1>1
<1>7. /\ 1..published[t] \subseteq Posts
      /\ \A j \in OnItsPage(t) : 1..j \subseteq Posts
      /\ \A c \in 0..published[t] : 1..c \subseteq Posts
  BY <1>6, MonitorAssumption DEF Kept, Safe, WorldTypes, CycleTypes, Posts
<1>8. WorldTypes(t)' /\ FileTypes(t)' /\ CycleTypes(t)'
  BY <1>3, <1>4, <1>6 DEF Kept, Safe, WorldTypes, FileTypes, CycleTypes, Checkpoint, SameWorld,
     SameFiles, SameCycle, Stage, Previous, Page, Todo, OnItsPage, Reading
<1>9. PageShows(t)'
  BY <1>4, <1>5, <1>6, <1>7 DEF Kept, Safe, PageShows, OnPage, Visible, SameWorld
<1>10. FilesSettled(t)'
  <2>1. ASSUME NEW c, Checkpoint(t, c), Passed(t, c)
        PROVE  c # None => \A k \in 1..c : Settled(t, k)'
    <3>1. ASSUME c # None, NEW k \in 1..c PROVE Settled(t, k)'
      <4>1. k \in Posts
        <5>1. c \in 0..published[t]
          BY <2>1, <3>1 DEF Checkpoint
        <5> QED BY <1>7, <3>1, <5>1
      <4>2. Settled(t, k)
        BY <2>1, <3>1 DEF Passed
      <4> QED BY <1>5, <4>1, <4>2
    <3> QED BY <3>1
  <2> QED BY <1>4, <1>6, <2>1 DEF FilesSettled, Passed, Kept, Safe, SameFiles, SameCycle, FileTypes,
             CycleTypes, Previous
<1>11. CycleSettled(t)'
  BY <1>4, <1>5, <1>6, <1>7 DEF Kept, Safe, CycleSettled, SameCycle, Stage, Page, Todo, OnItsPage
<1>12. Past(t)'
  BY <1>4, <1>6 DEF Kept, Past, PastPost, NotBefore, SameWorld, SameFiles, SameHistory, SameCycle,
     Stage, Previous, Page, Todo, OnItsPage
<1>13. Kept(t)'
  BY <1>8, <1>9, <1>10, <1>11, <1>12 DEF Kept, Safe
<1> QED BY <1>1, <1>4, <1>13, SameKept DEF MonitorInv, Elsewhere

LEMMA DeliverKept ==
  ASSUME MonitorInv, inbox \in Seq(Messages), Deliver
  PROVE  MonitorInv'
<1>1. PICK m \in Messages : m = Head(inbox)
  BY HeadTailProperties DEF Deliver
<1>2. m.target \in Targets /\ m.post \in Posts
  BY DEF Messages
<1>3. RawContent(m.post) \in Nat
  BY MonitorAssumption DEF RawContent
<1>4. /\ queued' = [queued EXCEPT ![m.target][m.post] = RawContent(m.post)]
      /\ UNCHANGED <<world, files, cycle, history>>
  BY <1>1 DEF Deliver
<1> QED BY <1>2, <1>3, <1>4, QueuedByOther

\* What is sent is received, if at all, as a message of a post that exists.
LEMMA SendTyped ==
  ASSUME MonitorInv, inbox \in Seq(Messages), NEW t \in Targets, Send(t)
  PROVE  inbox' \in Seq(Messages)
<1> DEFINE m == [target |-> t, post |-> published'[t]]
<1>1. published[t] < MaxPosts /\ published' = [published EXCEPT ![t] = published[t] + 1]
  BY DEF Send, Publish
<1>2. published[t] \in Nat /\ MaxPosts \in Nat
  BY MonitorAssumption DEF MonitorInv, Kept, Safe, WorldTypes
<1>3. published'[t] = published[t] + 1
  BY <1>1 DEF MonitorInv, Shaped
<1>4. published'[t] \in Posts
  BY <1>1, <1>2, <1>3 DEF Posts
<1>5. m \in Messages
  BY <1>4 DEF Messages
<1>6. inbox' = IF t \in watched THEN Append(inbox, m) ELSE inbox
  BY DEF Send
<1> HIDE DEF m
<1> QED BY <1>5, <1>6, AppendProperties

LEMMA CollectionInvInit == CollectionInit => CollectionInv
<1>1. CollectionInit => MonitorInv
  BY MonitorInvInit DEF CollectionInit
<1> QED BY <1>1 DEF CollectionInit, CollectionInv, Healthy

LEMMA CollectionInvStep == CollectionInv /\ [CollectionNext]_collectionVars => CollectionInv'
<1> SUFFICES ASSUME CollectionInv, [CollectionNext]_collectionVars PROVE CollectionInv'
  OBVIOUS
<1>0. MonitorInv /\ inbox \in Seq(Messages) /\ Healthy
  BY DEF CollectionInv
<1>1. MonitorNext => MonitorInv'
  BY <1>0, MonitorInvStep
<1>2. UNCHANGED monitorVars => MonitorInv'
  BY <1>0, MonitorInvStep
<1>3. inbox # <<>> => Tail(inbox) \in Seq(Messages)
  BY <1>0, HeadTailProperties
<1>4. ASSUME NEW t \in Targets, Send(t) PROVE CollectionInv'
  <2>1. MonitorNext
    BY <1>4 DEF Send, MonitorNext, World
  <2>2. inbox' \in Seq(Messages)
    BY <1>0, <1>4, SendTyped
  <2>3. Healthy'
    BY <1>0, <1>4 DEF Send, Healthy
  <2> QED BY <1>1, <2>1, <2>2, <2>3 DEF CollectionInv
<1>5. ASSUME NEW t \in Targets, Delete(t) \/ Age(t) \/ Edit(t) \/ MonitorStep(t), UNCHANGED realtime
      PROVE  CollectionInv'
  <2>1. MonitorNext
    BY <1>5 DEF MonitorNext, World
  <2> QED BY <1>0, <1>1, <1>5, <2>1 DEF CollectionInv, realtime, Healthy
<1>6. CASE Connect
  BY <1>0, <1>2, <1>6 DEF Connect, CollectionInv, Healthy
<1>7. CASE ConnectFails
  BY <1>0, <1>2, <1>7 DEF ConnectFails, CollectionInv, Healthy
<1>8. CASE Disconnect
  BY <1>0, <1>2, <1>8 DEF Disconnect, CollectionInv, Healthy
<1>9. CASE Deliver
  <2>1. MonitorInv'
    BY <1>0, <1>9, DeliverKept
  <2> QED BY <1>0, <1>3, <1>9, <2>1 DEF Deliver, Dealt, CollectionInv, Healthy
<1>10. CASE DeliveryFails
  BY <1>0, <1>2, <1>10 DEF DeliveryFails, CollectionInv, Healthy
<1>11. CASE GiveUp
  BY <1>0, <1>2, <1>3, <1>11 DEF GiveUp, Dealt, CollectionInv, Healthy
<1>12. CASE RestartAll
  <2>1. MonitorNext
    BY <1>12 DEF RestartAll, MonitorNext
  <2> QED BY <1>1, <1>12, <2>1 DEF RestartAll, CollectionInv, Healthy
<1>13. CASE UNCHANGED collectionVars
  BY <1>0, <1>2, <1>13 DEF collectionVars, realtime, CollectionInv, Healthy
<1> QED
  BY <1>4, <1>5, <1>6, <1>7, <1>8, <1>9, <1>10, <1>11, <1>12, <1>13 DEF CollectionNext, RealtimeStep

LEMMA CollectionInvAlways == CollectionSpec => []CollectionInv
  BY CollectionInvInit, CollectionInvStep, PTL DEF CollectionSpec

\* In every behaviour of the two monitors together, too, a message the
\* checkpoint of a channel has passed is queued or among the named losses.
THEOREM CollectionPassedIsQueued == CollectionSpec => []PassedIsQueued
<1>1. CollectionInv => PassedIsQueued
  BY InvPassed DEF CollectionInv
<1> QED BY <1>1, CollectionInvAlways, PTL

\* In every behaviour the health "live" means that every channel is watched and
\* no message of the connection has been given up on.
THEOREM CollectionLiveMissesNothing == CollectionSpec => []LiveMissesNothing
<1>1. CollectionInv => LiveMissesNothing
  BY DEF CollectionInv, Healthy, LiveMissesNothing
<1> QED BY <1>1, CollectionInvAlways, PTL
=============================================================================
