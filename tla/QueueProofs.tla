------------------------------ MODULE QueueProofs ------------------------------
(***************************************************************************)
(* The slice and the map of Queue agree, and are the store App relies on,  *)
(* for any number of jobs, fields and values.                              *)
(***************************************************************************)
EXTENDS Queue, SequenceTheorems, FiniteSetTheorems, TLAPS

\* No two jobs of a slice have the same id.
Distinct(s) == \A i, k \in DOMAIN s : s[i].id = s[k].id => i = k

IInv == TypeOK /\ IndexSound

-----------------------------------------------------------------------------
(* Slices and maps                                                           *)

LEMMA Constants == MaxClock \in Nat /\ None \notin Entries /\ Filters \subseteq SUBSET Entries
BY QueueAssumption DEF QueueAssumption, Entries

LEMMA SliceFacts ==
  ASSUME NEW s \in Seq(Job)
  PROVE  /\ Len(s) \in Nat /\ DOMAIN s = 1 .. Len(s)
         /\ \A i \in DOMAIN s : s[i] \in Job /\ s[i].id \in Ids /\ s[i].entry \in Entries
<1>1. Len(s) \in Nat /\ DOMAIN s = 1 .. Len(s)
  BY LenProperties
<1>2. \A i \in DOMAIN s : s[i] \in Job
  BY <1>1, ElementOfSeq
<1>3. QED
  BY <1>1, <1>2 DEF Job

\* A sound index names each job once.
LEMMA SoundIsDistinct == IInv => Distinct(jobs)
<1> SUFFICES ASSUME IInv, NEW i \in DOMAIN jobs, NEW k \in DOMAIN jobs, jobs[i].id = jobs[k].id
             PROVE  i = k
  BY DEF Distinct
<1>1. i \in Positions /\ k \in Positions /\ i \in Int /\ k \in Int
  BY SliceFacts DEF IInv, TypeOK, Positions
<1>2. i - 1 = k - 1
  BY <1>1 DEF IInv, IndexSound
<1>3. QED
  BY <1>1, <1>2

\* The loop that rebuilds byID gives a sound index of distinct jobs.
LEMMA IndexIsSound ==
  ASSUME NEW s \in Seq(Job), Distinct(s)
  PROVE  /\ Index(s) \in [{s[i].id : i \in 1 .. Len(s)} -> Nat]
         /\ \A i \in 1 .. Len(s) : Index(s)[s[i].id] = i - 1
<1>1. DOMAIN s = 1 .. Len(s) /\ Len(s) \in Nat
  BY SliceFacts
<1>2. ASSUME NEW i \in 1 .. Len(s)
      PROVE  Index(s)[s[i].id] = i - 1 /\ i - 1 \in Nat
  <2>1. (CHOOSE k \in DOMAIN s : s[k].id = s[i].id) = i
    BY <1>1 DEF Distinct
  <2>2. s[i].id \in {s[k].id : k \in DOMAIN s}
    BY <1>1
  <2>3. Index(s)[s[i].id] = (CHOOSE k \in DOMAIN s : s[k].id = s[i].id) - 1
    BY <2>2, Zenon DEF Index
  <2>4. Index(s)[s[i].id] = i - 1
    BY <2>1, <2>3, Zenon
  <2>5. i - 1 \in Nat
    BY <1>1
  <2>6. QED
    BY <2>4, <2>5
<1>3. Index(s) \in [{s[i].id : i \in 1 .. Len(s)} -> Nat]
  BY <1>1, <1>2 DEF Index
<1>4. QED
  BY <1>2, <1>3

\* What ByID finds in distinct jobs.
LEMMA ByIDFinds ==
  ASSUME NEW s \in Seq(Job), Distinct(s)
  PROVE  /\ \A i \in DOMAIN s : ByID(s)[s[i].id] = s[i].entry
         /\ \A id \in Ids : (~\E i \in DOMAIN s : s[i].id = id) => ByID(s)[id] = None
<1>1. ASSUME NEW i \in DOMAIN s
      PROVE  ByID(s)[s[i].id] = s[i].entry
  <2>1. s[i].id \in Ids
    BY SliceFacts
  <2>2. (CHOOSE k \in DOMAIN s : s[k].id = s[i].id) = i
    BY DEF Distinct
  <2>3. QED
    BY <2>1, <2>2 DEF ByID
<1>2. QED
  BY <1>1 DEF ByID

\* Through a sound map Get and Patch see exactly the jobs of the slice.
LEMMA FoundIsByID ==
  ASSUME IInv
  PROVE  /\ Found = ByID(jobs)
         /\ \A id \in Ids : Has(id) <=> \E i \in DOMAIN jobs : jobs[i].id = id
         /\ \A i \in DOMAIN jobs : Has(jobs[i].id) /\ At(jobs[i].id) = i
<1>1. DOMAIN jobs = Positions /\ Len(jobs) \in Nat /\ Positions = 1 .. Len(jobs)
  BY SliceFacts DEF IInv, TypeOK, Positions
<1>2. ASSUME NEW i \in Positions
      PROVE  Has(jobs[i].id) /\ At(jobs[i].id) = i
  <2>1. byID[jobs[i].id] = i - 1 /\ jobs[i].id \in DOMAIN byID
    BY DEF IInv, IndexSound
  <2>2. QED
    BY <1>1, <2>1 DEF Has, At
<1>3. ASSUME NEW id \in Ids
      PROVE  Has(id) <=> \E i \in Positions : jobs[i].id = id
  BY <1>2 DEF Has, IInv, IndexSound
<1>4. ASSUME NEW id \in Ids
      PROVE  Found[id] = ByID(jobs)[id]
  <2>1. CASE \E i \in Positions : jobs[i].id = id
    <3>1. PICK i \in Positions : jobs[i].id = id
      BY <2>1
    <3>2. Found[id] = jobs[i].entry
      BY <1>2, <3>1 DEF Found
    <3>3. QED
      BY <1>1, <3>1, <3>2, ByIDFinds, SoundIsDistinct DEF IInv, TypeOK
  <2>2. CASE ~\E i \in Positions : jobs[i].id = id
    <3>1. Found[id] = None
      BY <1>3, <2>2 DEF Found
    <3>2. QED
      BY <1>1, <2>2, <3>1, ByIDFinds, SoundIsDistinct DEF IInv, TypeOK
  <2>3. QED
    BY <2>1, <2>2
<1>5. Found = ByID(jobs)
  BY <1>4 DEF Found, ByID
<1>6. QED
  BY <1>1, <1>2, <1>3, <1>5

LEMMA SoundMeansFound == IInv => Found = ByID(jobs)
BY FoundIsByID

\* Jobs picked from the slice, each at most once and in any order.
LEMMA Rearranged ==
  ASSUME IInv, NEW n \in Nat, NEW f \in [1 .. n -> Positions],
         \A i, k \in 1 .. n : f[i] = f[k] => i = k,
         NEW t \in [1 .. n -> Job], \A i \in 1 .. n : t[i] = jobs[f[i]]
  PROVE  t \in Seq(Job) /\ DOMAIN t = 1 .. n /\ Distinct(t)
<1>1. DOMAIN jobs = Positions /\ jobs \in Seq(Job)
  BY SliceFacts DEF IInv, TypeOK, Positions
<1>3. t \in Seq(Job) /\ Len(t) = n /\ DOMAIN t = 1 .. n
  OBVIOUS
<1>4. Distinct(t)
  <2>1. ASSUME NEW i \in 1 .. n, NEW k \in 1 .. n, t[i].id = t[k].id
        PROVE  i = k
    <3>1. f[i] \in DOMAIN jobs /\ f[k] \in DOMAIN jobs /\ jobs[f[i]].id = jobs[f[k]].id
      BY <1>1, <2>1
    <3>2. f[i] = f[k]
      BY <3>1, SoundIsDistinct DEF Distinct
    <3>3. QED
      BY <3>2
  <2>2. QED
    BY <1>3, <2>1 DEF Distinct
<1>5. QED
  BY <1>3, <1>4

\* A walk over some positions meets each of them once.
LEMMA PicksRearrange ==
  ASSUME IInv, NEW P \in SUBSET Positions, NEW f \in Picks(P)
  PROVE  /\ Cardinality(P) \in Nat /\ DOMAIN f = 1 .. Cardinality(P)
         /\ f \in [1 .. Cardinality(P) -> Positions]
         /\ \A i, k \in 1 .. Cardinality(P) : f[i] = f[k] => i = k
         /\ \A p \in Positions : p \in P <=> \E i \in 1 .. Cardinality(P) : f[i] = p
<1>1. Len(jobs) \in Nat /\ Positions = 1 .. Len(jobs)
  BY SliceFacts DEF IInv, TypeOK, Positions
<1>2. IsFiniteSet(P)
  <2>1. IsFiniteSet(1 .. Len(jobs))
    BY <1>1, FS_Interval
  <2>2. QED
    BY <1>1, <2>1, FS_Subset
<1>3. Cardinality(P) \in Nat
  BY <1>2, FS_CardinalityType
<1>4. f \in [1 .. Cardinality(P) -> P]
  BY DEF Picks
<1>5. \A i, k \in 1 .. Cardinality(P) : i < k => f[i] < f[k]
  BY <1>4 DEF Picks
<1>6. \A i, k \in 1 .. Cardinality(P) : f[i] = f[k] => i = k
  <2>1. ASSUME NEW i \in 1 .. Cardinality(P), NEW k \in 1 .. Cardinality(P), f[i] = f[k], i # k
        PROVE  FALSE
    <3>1. i < k \/ k < i
      BY <1>3, <2>1
    <3>2. f[i] \in Int /\ f[k] \in Int
      <4>1. f[i] \in Positions /\ f[k] \in Positions
        BY <1>4
      <4>2. QED
        BY <1>1, <4>1
    <3>3. f[i] < f[k] \/ f[k] < f[i]
      BY <1>5, <3>1
    <3>4. QED
      BY <2>1, <3>2, <3>3
  <2>2. QED
    BY <2>1
<1>7. \A p \in Positions : p \in P <=> \E i \in 1 .. Cardinality(P) : f[i] = p
  BY <1>4 DEF Picks
<1>8. QED
  BY <1>3, <1>4, <1>6, <1>7

-----------------------------------------------------------------------------
(* Each method keeps the invariant and is the abstract one                   *)

\* What is known once the new slice has distinct jobs and the map is rebuilt.
LEMMA RebuiltIsSound ==
  ASSUME jobs' \in Seq(Job), Distinct(jobs'), byID' = Index(jobs'), reply' \in Seq(Job),
         clock' \in 0 .. MaxClock
  PROVE  IInv'
<1>1. /\ byID' \in [{jobs'[i].id : i \in 1 .. Len(jobs')} -> Nat]
      /\ \A i \in 1 .. Len(jobs') : byID'[jobs'[i].id] = i - 1
  BY IndexIsSound
<1>2. \A i \in 1 .. Len(jobs') : jobs'[i].id \in Ids
  BY SliceFacts
<1>3. TypeOK'
  BY <1>1, <1>2 DEF TypeOK
<1>4. IndexSound'
  BY <1>1 DEF IndexSound, Positions
<1>5. QED
  BY <1>3, <1>4 DEF IInv

LEMMA NowKeepsClock == ASSUME IInv, Now PROVE clock' \in 0 .. MaxClock
BY Constants DEF IInv, TypeOK, Now

LEMMA AddIsSound ==
  ASSUME IInv, NEW id \in Ids, NEW e \in Entries, Add(id, e)
  PROVE  IInv' /\ Distinct(jobs')
         /\ ByID(jobs') = [ByID(jobs) EXCEPT ![id] = e] /\ ByID(jobs)[id] = None
<1> DEFINE j == [id |-> id, entry |-> e, UpdatedAt |-> clock']
<1>1. clock' \in 0 .. MaxClock /\ j \in Job
  BY NowKeepsClock DEF Add, Job
<1>2. jobs \in Seq(Job) /\ Len(jobs) \in Nat /\ DOMAIN jobs = 1 .. Len(jobs)
        /\ Positions = 1 .. Len(jobs)
  BY SliceFacts DEF IInv, TypeOK, Positions
<1>3. jobs' = Append(jobs, j)
  BY DEF Add
<1>4. /\ jobs' \in Seq(Job) /\ Len(jobs') = Len(jobs) + 1
      /\ \A i \in 1 .. Len(jobs) : jobs'[i] = jobs[i]
      /\ jobs'[Len(jobs) + 1] = j
  BY <1>1, <1>2, <1>3, AppendProperties
<1>5. DOMAIN jobs' = 1 .. Len(jobs) + 1
  BY <1>4, SliceFacts
<1>6. id \notin DOMAIN byID /\ byID' = [i \in DOMAIN byID \cup {id} |->
                                          IF i = id THEN Len(jobs) ELSE byID[i]]
  BY DEF Add
<1>7. \A i \in 1 .. Len(jobs) : jobs[i].id # id /\ jobs[i].id \in DOMAIN byID
                                  /\ byID[jobs[i].id] = i - 1
  BY <1>2, <1>6 DEF IInv, IndexSound
<1>8. TypeOK'
  <2>1. byID' \in [DOMAIN byID \cup {id} -> Nat] /\ DOMAIN byID' \subseteq Ids
    BY <1>2, <1>6 DEF IInv, TypeOK
  <2>2. reply' \in Seq(Job)
    BY DEF Add
  <2>3. QED
    BY <1>1, <1>4, <2>1, <2>2 DEF TypeOK
<1>9. IndexSound'
  <2>1. \A i \in 1 .. Len(jobs) + 1 : byID'[jobs'[i].id] = i - 1
    <3>1. ASSUME NEW i \in 1 .. Len(jobs)
          PROVE  byID'[jobs'[i].id] = i - 1
      BY <1>4, <1>6, <1>7
    <3>2. byID'[jobs'[Len(jobs) + 1].id] = Len(jobs)
      BY <1>4, <1>6
    <3>3. QED
      BY <1>2, <3>1, <3>2
  <2>2. DOMAIN byID = {jobs[i].id : i \in 1 .. Len(jobs)}
    BY <1>2 DEF IInv, IndexSound
  <2>3. {jobs'[i].id : i \in 1 .. Len(jobs) + 1} = DOMAIN byID \cup {id}
    <3>1. \A i \in 1 .. Len(jobs) + 1 : i \in 1 .. Len(jobs) \/ i = Len(jobs) + 1
      BY <1>2
    <3>2. \A i \in 1 .. Len(jobs) : i \in 1 .. Len(jobs) + 1
      BY <1>2
    <3>3. Len(jobs) + 1 \in 1 .. Len(jobs) + 1
      BY <1>2
    <3>4. QED
      BY <1>4, <2>2, <3>1, <3>2, <3>3
  <2>4. DOMAIN byID' = DOMAIN byID \cup {id}
    BY <1>6
  <2>5. QED
    BY <1>4, <2>1, <2>3, <2>4 DEF IndexSound, Positions
<1>10. IInv'
  BY <1>8, <1>9 DEF IInv
<1>11. Distinct(jobs')
  <2>1. Distinct(jobs)
    BY SoundIsDistinct
  <2>2. QED
    BY <1>2, <1>4, <1>5, <1>7, <2>1 DEF Distinct
<1>12. ASSUME NEW k \in Ids
       PROVE  ByID(jobs')[k] = [ByID(jobs) EXCEPT ![id] = e][k]
  <2>1. CASE k = id
    <3>1. ByID(jobs')[jobs'[Len(jobs) + 1].id] = jobs'[Len(jobs) + 1].entry
      BY <1>2, <1>4, <1>5, <1>11, ByIDFinds
    <3>2. QED
      BY <2>1, <3>1, <1>4 DEF ByID
  <2>2. CASE k # id /\ \E i \in 1 .. Len(jobs) : jobs[i].id = k
    <3>1. PICK i \in 1 .. Len(jobs) : jobs[i].id = k
      BY <2>2
    <3>2. ByID(jobs)[k] = jobs[i].entry
      BY <1>2, <3>1, ByIDFinds, SoundIsDistinct
    <3>3. ByID(jobs')[k] = jobs[i].entry
      BY <1>2, <1>4, <1>5, <1>11, <3>1, ByIDFinds
    <3>4. QED
      BY <2>2, <3>2, <3>3 DEF ByID
  <2>3. CASE k # id /\ ~\E i \in 1 .. Len(jobs) : jobs[i].id = k
    <3>1. ByID(jobs)[k] = None
      BY <1>2, <2>3, ByIDFinds, SoundIsDistinct
    <3>2. ~\E i \in DOMAIN jobs' : jobs'[i].id = k
      BY <1>2, <1>4, <1>5, <2>3
    <3>3. ByID(jobs')[k] = None
      BY <1>4, <1>11, <3>2, ByIDFinds
    <3>4. QED
      BY <2>3, <3>1, <3>3 DEF ByID
  <2>4. QED
    BY <2>1, <2>2, <2>3
<1>13. ByID(jobs)[id] = None
  BY <1>2, <1>7, ByIDFinds, SoundIsDistinct
<1>14. QED
  BY <1>10, <1>11, <1>12, <1>13 DEF ByID

\* Replies of no job and of one.
LEMMA Replies ==
  /\ ByID(<<>>) = [id \in Ids |-> None]
  /\ \A j \in Job : ByID(<<j>>) = [id \in Ids |-> IF id = j.id THEN j.entry ELSE None]
<1>1. ByID(<<>>) = [id \in Ids |-> None]
  <2>1. DOMAIN <<>> = {}
    OBVIOUS
  <2>2. QED
    BY <2>1 DEF ByID
<1>2. ASSUME NEW j \in Job
      PROVE  ByID(<<j>>) = [id \in Ids |-> IF id = j.id THEN j.entry ELSE None]
  <2>1. <<j>> \in Seq(Job) /\ DOMAIN <<j>> = {1} /\ <<j>>[1] = j
    OBVIOUS
  <2>2. Distinct(<<j>>)
    BY <2>1 DEF Distinct
  <2>3. ByID(<<j>>)[<<j>>[1].id] = <<j>>[1].entry
    BY <2>1, <2>2, ByIDFinds
  <2>4. ASSUME NEW id \in Ids, id # j.id
        PROVE  ByID(<<j>>)[id] = None
    <3>1. ~\E i \in DOMAIN <<j>> : <<j>>[i].id = id
      BY <2>1, <2>4
    <3>2. QED
      BY <2>1, <2>2, <3>1, ByIDFinds
  <2>5. QED
    BY <2>1, <2>3, <2>4 DEF ByID
<1>3. QED
  BY <1>1, <1>2

\* The store, job by job.
LEMMA FoundAt ==
  ASSUME IInv
  PROVE  /\ \A p \in Positions : /\ jobs[p] \in Job /\ jobs[p].id \in Ids
                                 /\ Found[jobs[p].id] = jobs[p].entry /\ Found[jobs[p].id] # None
         /\ \A id \in Ids : Found[id] # None => \E p \in Positions : jobs[p].id = id
<1>1. jobs \in Seq(Job) /\ DOMAIN jobs = Positions /\ Distinct(jobs) /\ Found = ByID(jobs)
  BY SliceFacts, SoundIsDistinct, FoundIsByID DEF IInv, TypeOK, Positions
<1>2. QED
  BY <1>1, SliceFacts, ByIDFinds, Constants

LEMMA GetIsSound ==
  ASSUME IInv, NEW id \in Ids, Get(id)
  PROVE  IInv' /\ Store!Get(id)
<1>1. call' = <<"Get", id>> /\ UNCHANGED <<jobs, byID, clock>>
  BY DEF Get
<1>2. Found' = Found
  BY <1>1 DEF Found, Has, At
<1>3. reply' \in Seq(Job) /\ ByID(reply') = [k \in Ids |-> IF k \in {id} THEN Found[k] ELSE None]
  <2>1. CASE Has(id)
    <3>1. PICK i \in DOMAIN jobs : jobs[i].id = id
      BY <2>1, FoundIsByID
    <3>2. reply' = <<jobs[i]>> /\ jobs[i] \in Job
      BY <2>1, <3>1, FoundIsByID, SliceFacts DEF Get, IInv, TypeOK
    <3>3. Found[id] = jobs[i].entry
      BY <3>1, SliceFacts, FoundAt DEF IInv, TypeOK, Positions
    <3>4. QED
      BY <3>1, <3>2, <3>3, Replies
  <2>2. CASE ~Has(id)
    <3>1. reply' = <<>> /\ Found[id] = None
      BY <2>2 DEF Get, Found
    <3>2. QED
      BY <3>1, Replies
  <2>3. QED
    BY <2>1, <2>2
<1>4. IInv'
  BY <1>1, <1>3 DEF IInv, TypeOK, IndexSound, Positions
<1>5. Store!Get(id)
  BY <1>1, <1>2, <1>3 DEF Store!Get, Store!Only
<1>6. QED
  BY <1>4, <1>5

LEMMA SnapshotIsSound ==
  ASSUME IInv, Snapshot
  PROVE  IInv' /\ Store!Snapshot
<1>1. UNCHANGED <<jobs, byID, clock>> /\ reply' = jobs /\ call' = <<"Snapshot">>
  BY DEF Snapshot
<1>2. Found' = Found /\ ByID(reply') = Found
  BY <1>1, FoundIsByID DEF Found, Has, At
<1>3. IInv'
  BY <1>1 DEF IInv, TypeOK, IndexSound, Positions
<1>4. QED
  BY <1>1, <1>2, <1>3 DEF Store!Snapshot

\* Jobs at some positions, walked in their order.
LEMMA Picked ==
  ASSUME IInv, NEW P \in SUBSET Positions, NEW f \in Picks(P),
         NEW t, t = [i \in DOMAIN f |-> jobs[f[i]]]
  PROVE  /\ t \in Seq(Job) /\ Distinct(t)
         /\ ByID(t) = [id \in Ids |-> IF \E p \in P : jobs[p].id = id THEN Found[id] ELSE None]
<1> DEFINE n == Cardinality(P)
<1>1. /\ n \in Nat /\ DOMAIN f = 1 .. n /\ f \in [1 .. n -> Positions]
      /\ \A i, k \in 1 .. n : f[i] = f[k] => i = k
      /\ \A p \in Positions : p \in P <=> \E i \in 1 .. n : f[i] = p
  BY PicksRearrange
<1> HIDE DEF n
<1>2. t \in [1 .. n -> Job] /\ \A i \in 1 .. n : t[i] = jobs[f[i]]
  BY <1>1, FoundAt
<1>3. t \in Seq(Job) /\ DOMAIN t = 1 .. n /\ Distinct(t)
  BY <1>1, <1>2, Rearranged
<1>4. ASSUME NEW id \in Ids
      PROVE  ByID(t)[id] = IF \E p \in P : jobs[p].id = id THEN Found[id] ELSE None
  <2>1. CASE \E p \in P : jobs[p].id = id
    <3>1. PICK p \in P : jobs[p].id = id
      BY <2>1
    <3>2. PICK i \in 1 .. n : f[i] = p
      BY <1>1
    <3>3. t[i] = jobs[p] /\ i \in DOMAIN t
      BY <1>2, <1>3, <3>2
    <3>4. ByID(t)[id] = jobs[p].entry
      BY <1>3, <3>1, <3>3, ByIDFinds
    <3>5. Found[id] = jobs[p].entry
      BY <3>1, FoundAt
    <3>6. QED
      BY <2>1, <3>4, <3>5
  <2>2. CASE ~\E p \in P : jobs[p].id = id
    <3>1. ~\E i \in DOMAIN t : t[i].id = id
      BY <1>1, <1>2, <1>3, <2>2
    <3>2. QED
      BY <1>3, <2>2, <3>1, ByIDFinds
  <2>3. QED
    BY <2>1, <2>2
<1>5. QED
  BY <1>3, <1>4 DEF ByID

\* The positions a condition matches hold the jobs it matches.
LEMMA MatchingIsWhere ==
  ASSUME IInv, NEW fn \in Filters, NEW id \in Ids
  PROVE  /\ id \in Store!Where(fn) <=> \E p \in Matching(fn) : jobs[p].id = id
         /\ (Found[id] # None /\ id \notin Store!Where(fn))
              <=> \E p \in Positions \ Matching(fn) : jobs[p].id = id
<1>1. id \in Store!Where(fn) <=> Found[id] # None /\ Found[id] \in fn
  BY DEF Store!Where, Store!Stored
<1>2. \A p \in Positions : p \in Matching(fn) <=> jobs[p].entry \in fn
  BY DEF Matching
<1>3. Matching(fn) \subseteq Positions
  BY DEF Matching
<1>4. QED
  BY <1>1, <1>2, <1>3, FoundAt

LEMMA IDsWhereIsSound ==
  ASSUME IInv, NEW fn \in Filters, IDsWhere(fn)
  PROVE  IInv' /\ Store!IDsWhere(fn)
<1>1. UNCHANGED <<jobs, byID, clock>> /\ call' = <<"IDsWhere", fn>>
  BY DEF IDsWhere
<1>2. PICK f \in Picks(Matching(fn)) : reply' = [i \in DOMAIN f |-> jobs[f[i]]]
  BY DEF IDsWhere
<1>3. Matching(fn) \in SUBSET Positions
  BY DEF Matching
<1>4. /\ reply' \in Seq(Job)
      /\ ByID(reply') = [id \in Ids |-> IF \E p \in Matching(fn) : jobs[p].id = id
                                        THEN Found[id] ELSE None]
  BY <1>2, <1>3, Picked
<1>5. ByID(reply') = [id \in Ids |-> IF id \in Store!Where(fn) THEN Found[id] ELSE None]
  BY <1>4, MatchingIsWhere
<1>6. Found' = Found
  BY <1>1 DEF Found, Has, At
<1>7. IInv'
  BY <1>1, <1>4 DEF IInv, TypeOK, IndexSound, Positions
<1>8. QED
  BY <1>1, <1>5, <1>6, <1>7 DEF Store!IDsWhere, Store!Only

LEMMA RemoveWhereIsSound ==
  ASSUME IInv, NEW fn \in Filters, RemoveWhere(fn)
  PROVE  IInv' /\ Store!RemoveWhere(fn)
<1>1. PICK keep \in Picks(Positions \ Matching(fn)), drop \in Picks(Matching(fn)) :
        /\ jobs' = [i \in DOMAIN keep |-> jobs[keep[i]]]
        /\ reply' = [i \in DOMAIN drop |-> jobs[drop[i]]]
  BY DEF RemoveWhere
<1>2. byID' = Index(jobs') /\ call' = <<"RemoveWhere", fn>> /\ clock' = clock
  BY DEF RemoveWhere
<1>3. Matching(fn) \in SUBSET Positions /\ Positions \ Matching(fn) \in SUBSET Positions
  BY DEF Matching
<1>4. /\ jobs' \in Seq(Job) /\ Distinct(jobs')
      /\ ByID(jobs') = [id \in Ids |-> IF \E p \in Positions \ Matching(fn) : jobs[p].id = id
                                       THEN Found[id] ELSE None]
  BY <1>1, <1>3, Picked
<1>5. /\ reply' \in Seq(Job)
      /\ ByID(reply') = [id \in Ids |-> IF \E p \in Matching(fn) : jobs[p].id = id
                                        THEN Found[id] ELSE None]
  BY <1>1, <1>3, Picked
<1>6. IInv'
  BY <1>2, <1>4, <1>5, RebuiltIsSound DEF IInv, TypeOK
<1>7. (Found = ByID(jobs))'
  BY <1>6, SoundMeansFound, PTL
<1>8. \A id \in Ids : ByID(jobs')[id] = IF id \in Ids \ Store!Where(fn) THEN Found[id] ELSE None
  BY <1>4, MatchingIsWhere
<1>9. Found' = [id \in Ids |-> IF id \in Ids \ Store!Where(fn) THEN Found[id] ELSE None]
  BY <1>7, <1>8 DEF ByID
<1>10. ByID(reply') = [id \in Ids |-> IF id \in Store!Where(fn) THEN Found[id] ELSE None]
  BY <1>5, MatchingIsWhere
<1>11. QED
  BY <1>2, <1>6, <1>9, <1>10 DEF Store!RemoveWhere, Store!Only

LEMMA PatchIsSound ==
  ASSUME IInv, NEW id \in Ids, NEW p \in Patches, Patch(id, p)
  PROVE  IInv' /\ Store!Patch(id, p)
<1>1. jobs \in Seq(Job) /\ Len(jobs) \in Nat /\ DOMAIN jobs = 1 .. Len(jobs)
        /\ Positions = 1 .. Len(jobs)
  BY SliceFacts DEF IInv, TypeOK, Positions
<1>2. CASE ~Has(id)
  <2>1. reply' = <<>> /\ UNCHANGED <<jobs, byID, clock>> /\ call' = <<"Patch", id, p>>
    BY <1>2 DEF Patch
  <2>2. Found' = Found /\ Found[id] = None
    BY <1>2, <2>1 DEF Found, Has, At
  <2>3. IInv'
    BY <2>1 DEF IInv, TypeOK, IndexSound, Positions
  <2>4. Store!Patch(id, p)
    BY <2>1, <2>2, Replies DEF Store!Patch, Store!Stored, Store!Only
  <2>5. QED
    BY <2>3, <2>4
<1>3. CASE Has(id)
  <2> DEFINE e == [f \in Fields |-> IF f \in DOMAIN p THEN p[f] ELSE Found[id][f]]
  <2>1. PICK i \in 1 .. Len(jobs) : jobs[i].id = id
    BY <1>1, <1>3, FoundIsByID
  <2>2. At(id) = i /\ Found[id] = jobs[i].entry /\ Found[id] # None
    BY <1>1, <2>1, FoundIsByID, FoundAt
  <2> DEFINE r == [jobs[i] EXCEPT !.entry = e, !.UpdatedAt = clock']
  <2>3. jobs' = [jobs EXCEPT ![i] = r] /\ reply' = <<jobs'[i]>> /\ byID' = byID
          /\ Now /\ call' = <<"Patch", id, p>>
    <3>1. e = [f \in Fields |-> IF f \in DOMAIN p THEN p[f] ELSE jobs[i].entry[f]]
      BY <2>2
    <3>2. QED
      BY <1>3, <2>2, <3>1, Zenon DEF Patch
  <2>4. e \in Entries
    <3>1. Found[id] \in Entries
      BY <1>1, <2>1, <2>2, SliceFacts
    <3>2. \A f \in DOMAIN p : p[f] \in Values
      BY DEF Patches
    <3>3. QED
      BY <3>1, <3>2 DEF Entries
  <2>5. r \in Job /\ r.id = id /\ r.entry = e
    <3>1. clock' \in 0 .. MaxClock /\ jobs[i] \in Job
      BY <1>1, <2>3, NowKeepsClock, SliceFacts
    <3>2. QED
      BY <2>1, <2>4, <3>1 DEF Job
  <2>6. /\ jobs' \in Seq(Job) /\ Len(jobs') = Len(jobs) /\ DOMAIN jobs' = 1 .. Len(jobs)
        /\ jobs'[i] = r /\ \A k \in 1 .. Len(jobs) : k # i => jobs'[k] = jobs[k]
    BY <1>1, <2>1, <2>3, <2>5, ExceptSeq
  <2>7. \A k \in 1 .. Len(jobs) : jobs'[k].id = jobs[k].id
    BY <2>1, <2>5, <2>6
  <2>8. TypeOK'
    BY <2>3, <2>5, <2>6, NowKeepsClock DEF IInv, TypeOK
  <2>9. IndexSound'
    BY <1>1, <2>3, <2>6, <2>7 DEF IInv, IndexSound, Positions
  <2>10. IInv'
    BY <2>8, <2>9 DEF IInv
  <2>11. Found' = [k \in Ids |-> IF k = id THEN e ELSE Found[k]]
    <3>1. \A k : Has(k)' <=> Has(k)
      BY <2>3, <2>6 DEF Has
    <3>2. \A k : At(k)' = At(k)
      BY <2>3 DEF At
    <3>3. ASSUME NEW k \in Ids, k # id, Has(k)
          PROVE  jobs'[At(k)] = jobs[At(k)]
      <4>1. PICK n \in 1 .. Len(jobs) : jobs[n].id = k /\ At(k) = n
        BY <1>1, <3>3, FoundIsByID
      <4>2. n # i
        BY <2>1, <3>3, <4>1
      <4>3. QED
        BY <2>6, <4>1, <4>2
    <3>4. ASSUME NEW k \in Ids
          PROVE  (IF Has(k)' THEN jobs'[At(k)'].entry ELSE None) = IF k = id THEN e ELSE Found[k]
      BY <1>3, <2>2, <2>5, <2>6, <3>1, <3>2, <3>3 DEF Found
    <3>5. QED
      BY <3>4 DEF Found
  <2>12. ByID(reply') = [k \in Ids |-> IF k = id THEN e ELSE None]
    <3>1. reply' = <<r>> /\ r \in Job /\ r.id = id /\ r.entry = e
      BY <2>3, <2>5, <2>6
    <3> HIDE DEF r, e
    <3>2. ByID(<<r>>) = [k \in Ids |-> IF k = r.id THEN r.entry ELSE None]
      BY <3>1, Replies
    <3>3. QED
      BY <3>1, <3>2
  <2>13. Store!Patch(id, p)
    <3>1. id \in Store!Stored /\ Store!Apply(p, Found[id]) = e
      BY <2>2 DEF Store!Stored, Store!Apply
    <3>2. Found' = [Found EXCEPT ![id] = Store!Apply(p, Found[id])]
      BY <2>11, <3>1 DEF Found
    <3>3. ByID(reply') = [k \in Ids |-> IF k \in {id} THEN Found'[k] ELSE None]
      BY <2>11, <2>12
    <3>4. QED
      BY <2>3, <3>1, <3>2, <3>3 DEF Store!Patch, Store!Only
  <2>14. QED
    BY <2>10, <2>13
<1>4. QED
  BY <1>2, <1>3

\* All the jobs of the slice in another order.
LEMMA Permuted ==
  ASSUME IInv, NEW f \in [Positions -> Positions],
         \A i, k \in Positions : f[i] = f[k] => i = k,
         \A p \in Positions : \E i \in Positions : f[i] = p,
         NEW t, t = [i \in Positions |-> jobs[f[i]]]
  PROVE  t \in Seq(Job) /\ Distinct(t) /\ ByID(t) = Found
<1>1. Len(jobs) \in Nat /\ Positions = 1 .. Len(jobs)
  BY SliceFacts DEF IInv, TypeOK, Positions
<1>2. PICK n \in Nat : n = Len(jobs) /\ Positions = 1 .. n
  BY <1>1
<1>3. /\ n \in Nat /\ DOMAIN f = 1 .. n /\ f \in [1 .. n -> Positions]
      /\ \A i, k \in 1 .. n : f[i] = f[k] => i = k
  BY <1>2
<1>4. t \in [1 .. n -> Job] /\ \A i \in 1 .. n : t[i] = jobs[f[i]]
  BY <1>2, FoundAt
<1>5. t \in Seq(Job) /\ DOMAIN t = 1 .. n /\ Distinct(t)
  BY <1>3, <1>4, Rearranged
<1>6. ASSUME NEW id \in Ids
      PROVE  ByID(t)[id] = Found[id]
  <2>1. CASE \E p \in Positions : jobs[p].id = id
    <3>1. PICK p \in Positions : jobs[p].id = id
      BY <2>1
    <3>2. PICK i \in Positions : f[i] = p
      OBVIOUS
    <3>3. t[i] = jobs[p] /\ i \in DOMAIN t
      BY <1>2, <1>4, <1>5, <3>2
    <3>4. ByID(t)[id] = jobs[p].entry
      <4>1. ByID(t)[t[i].id] = t[i].entry
        BY <1>5, <3>3, ByIDFinds
      <4>2. QED
        BY <3>1, <3>3, <4>1
    <3>5. QED
      BY <3>1, <3>4, FoundAt
  <2>2. CASE ~\E p \in Positions : jobs[p].id = id
    <3>1. Found[id] = None
      BY <2>2, FoundAt
    <3>2. ~\E i \in DOMAIN t : t[i].id = id
      BY <1>2, <1>3, <1>4, <1>5, <2>2
    <3>3. QED
      BY <1>5, <3>1, <3>2, ByIDFinds
  <2>3. QED
    BY <2>1, <2>2
<1>7. QED
  BY <1>5, <1>6 DEF Found, ByID

LEMMA SortIsSound ==
  ASSUME IInv, SortByUpdatedDesc
  PROVE  IInv' /\ Store!SortByUpdatedDesc
<1>1. PICK f \in Sortings : jobs' = [i \in Positions |-> jobs[f[i]]]
  BY DEF SortByUpdatedDesc
<1>2. byID' = Index(jobs') /\ call' = <<"SortByUpdatedDesc">> /\ clock' = clock /\ reply' = <<>>
  BY DEF SortByUpdatedDesc
<1>3. jobs' \in Seq(Job) /\ Distinct(jobs') /\ ByID(jobs') = Found
  BY <1>1, Permuted DEF Sortings
<1>4. IInv'
  BY <1>2, <1>3, RebuiltIsSound DEF IInv, TypeOK
<1>5. (Found = ByID(jobs))'
  BY <1>4, SoundMeansFound, PTL
<1>6. Found' = Found
  BY <1>3, <1>5
<1>7. QED
  BY <1>2, <1>4, <1>6, Replies DEF Store!SortByUpdatedDesc, Store!Only

LEMMA AddMaps ==
  ASSUME IInv, NEW id \in Ids, NEW e \in Entries, Add(id, e)
  PROVE  Store!Add(id, e)
<1>1. call' = <<"Add", id, e>> /\ reply' = <<>>
  BY DEF Add
<1>2. IInv' /\ ByID(jobs') = [ByID(jobs) EXCEPT ![id] = e] /\ ByID(jobs)[id] = None
  BY AddIsSound
<1>3. (Found = ByID(jobs))'
  BY <1>2, SoundMeansFound, PTL
<1>4. Found' = [Found EXCEPT ![id] = e] /\ Found[id] = None
  BY <1>2, <1>3, SoundMeansFound
<1>5. QED
  BY <1>1, <1>4, Replies DEF Store!Add, Store!Stored, Store!Only

LEMMA StepIsSound ==
  ASSUME IInv, [Next]_vars
  PROVE  IInv' /\ [Store!Next]_Store!vars
<1>1. CASE UNCHANGED vars
  BY <1>1 DEF vars, IInv, TypeOK, IndexSound, Positions, Found, Has, At, ByID, Store!vars
<1>2. CASE \E id \in Ids, e \in Entries : Add(id, e)
  <2>1. PICK id \in Ids, e \in Entries : Add(id, e)
    BY <1>2
  <2>2. IInv' /\ Store!Add(id, e)
    BY <2>1, AddIsSound, AddMaps
  <2>3. QED
    BY <2>2 DEF Store!Next, Store!Entries, Entries
<1>3. CASE \E id \in Ids : Get(id)
  BY <1>3, GetIsSound DEF Store!Next
<1>4. CASE \E id \in Ids, p \in Patches : Patch(id, p)
  <2>1. PICK id \in Ids, p \in Patches : Patch(id, p)
    BY <1>4
  <2>2. IInv' /\ Store!Patch(id, p)
    BY <2>1, PatchIsSound
  <2>3. QED
    BY <2>2 DEF Store!Next, Store!Patches, Patches
<1>5. CASE \E fn \in Filters : RemoveWhere(fn) \/ IDsWhere(fn)
  BY <1>5, RemoveWhereIsSound, IDsWhereIsSound DEF Store!Next
<1>6. CASE Snapshot \/ SortByUpdatedDesc
  BY <1>6, SnapshotIsSound, SortIsSound DEF Store!Next
<1>7. QED
  BY <1>1, <1>2, <1>3, <1>4, <1>5, <1>6 DEF Next

LEMMA InitIsSound == Init => IInv /\ Store!Init
<1> SUFFICES ASSUME Init PROVE IInv /\ Store!Init
  OBVIOUS
<1>1. jobs = <<>> /\ byID = <<>> /\ clock = 0 /\ reply = <<>> /\ call = <<"New">>
  BY DEF Init
<1>2. Len(jobs) = 0 /\ DOMAIN byID = {} /\ Positions = {}
  BY <1>1 DEF Positions
<1>3. TypeOK
  BY <1>1, <1>2, Constants DEF TypeOK
<1>4. IndexSound
  BY <1>2 DEF IndexSound
<1>5. Found = [id \in Ids |-> None]
  BY <1>2 DEF Found, Has
<1>6. QED
  BY <1>1, <1>3, <1>4, <1>5, Replies DEF IInv, Store!Init

-----------------------------------------------------------------------------

\* The inductive invariant of Queue.
THEOREM Inductive == Spec => []IInv
<1>1. IInv /\ [Next]_vars => IInv'
  BY StepIsSound
<1>2. QED
  BY <1>1, InitIsSound, PTL DEF Spec

\* Slice, map and replies keep their types.
THEOREM TypeCorrect == Spec => []TypeOK
BY Inductive, PTL DEF IInv

\* After any sequence of methods, compactions and sorts among them, byID names every
\* job of the slice at its position and nothing else.
THEOREM IndexCorrect == Spec => []IndexSound
BY Inductive, PTL DEF IInv

\* What the compaction keeps, it keeps in order.
LEMMA RemoveKeepsOrder ==
  ASSUME IInv, IInv', NEW fn \in Filters, RemoveWhere(fn),
         NEW a \in DOMAIN byID \cap DOMAIN byID', NEW b \in DOMAIN byID \cap DOMAIN byID',
         byID[a] < byID[b]
  PROVE  byID'[a] < byID'[b]
<1>1. PICK keep \in Picks(Positions \ Matching(fn)) :
        jobs' = [i \in DOMAIN keep |-> jobs[keep[i]]]
  BY DEF RemoveWhere
<1>2. DOMAIN jobs' = DOMAIN keep
  BY <1>1
<1>3. Positions' = DOMAIN jobs' /\ Len(jobs') \in Nat /\ Positions' = 1 .. Len(jobs')
  BY SliceFacts DEF IInv, TypeOK, Positions
<1>4. PICK i \in Positions' : jobs'[i].id = a
  BY DEF IInv, IndexSound
<1>5. PICK k \in Positions' : jobs'[k].id = b
  BY DEF IInv, IndexSound
<1>6. byID'[a] = i - 1 /\ byID'[b] = k - 1
  BY <1>4, <1>5 DEF IInv, IndexSound
<1>7. i \in DOMAIN keep /\ k \in DOMAIN keep
  BY <1>2, <1>3
<1>8. jobs[keep[i]].id = a /\ jobs[keep[k]].id = b
  BY <1>1, <1>4, <1>5, <1>7
<1>9. /\ \A m \in DOMAIN keep : keep[m] \in Positions
      /\ \A m, n \in DOMAIN keep : m < n => keep[m] < keep[n]
  BY DEF Picks
<1>10. byID[a] = keep[i] - 1 /\ byID[b] = keep[k] - 1
  BY <1>7, <1>8, <1>9 DEF IInv, IndexSound
<1>11. keep[i] \in Int /\ keep[k] \in Int
  BY <1>7, <1>9, SliceFacts DEF IInv, TypeOK, Positions
<1>12. keep[i] < keep[k]
  BY <1>10, <1>11
<1>13. ~(k < i) /\ k # i
  BY <1>7, <1>9, <1>11, <1>12
<1>14. QED
  BY <1>3, <1>6, <1>13

\* "order preserved" (queue.go:121), for slices of any length.
THEOREM OrderPreserved == Spec => OrderKept
<1> DEFINE Kept == \A a, b \in DOMAIN byID \cap DOMAIN byID' :
                     byID[a] < byID[b] => byID'[a] < byID'[b]
<1>1. ASSUME IInv, IInv', [Next]_vars, ~SortByUpdatedDesc
      PROVE  Kept
  <2>1. CASE \E id \in Ids, e \in Entries : Add(id, e)
    BY <2>1 DEF Add
  <2>2. CASE \E fn \in Filters : RemoveWhere(fn)
    BY <1>1, <2>2, RemoveKeepsOrder
  <2>3. CASE byID' = byID
    BY <2>3
  <2>4. ASSUME NEW id \in Ids, NEW p \in Patches, Patch(id, p)
        PROVE  byID' = byID
    BY <2>4 DEF Patch
  <2>5. (\E id \in Ids : Get(id)) \/ (\E fn \in Filters : IDsWhere(fn)) \/ Snapshot
          \/ UNCHANGED vars => byID' = byID
    BY DEF Get, IDsWhere, Snapshot, vars
  <2>6. QED
    BY <1>1, <2>1, <2>2, <2>3, <2>4, <2>5 DEF Next
<1>2. IInv /\ IInv' /\ [Next]_vars => [~SortByUpdatedDesc => Kept]_vars
  BY <1>1
<1>3. QED
  BY <1>2, Inductive, PTL DEF Spec, OrderKept

\* The slice and its map are the store that App is written against.
THEOREM QueueIsStore == Spec => Implements
<1>1. IInv /\ [Next]_vars => [Store!Next]_Store!vars
  BY StepIsSound
<1>2. QED
  BY <1>1, InitIsSound, Inductive, PTL DEF Spec, Implements, Store!Spec

=============================================================================
