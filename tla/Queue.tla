---------------------------------- MODULE Queue ----------------------------------
(***************************************************************************)
(* The job store of internal/queue/queue.go: a slice of jobs and a map     *)
(* from ids to positions in it, changed together under one RWMutex, so     *)
(* that each method is one step. RemoveWhere compacts the slice in place   *)
(* and SortByUpdatedDesc permutes it; both have to rebuild the map.        *)
(***************************************************************************)
EXTENDS Integers, Sequences, FiniteSets

CONSTANTS
  Ids, Fields, Values, Filters, None,  \* as in JobStore
  MaxClock  \* bound: readings of the clock that differ

ASSUME QueueAssumption ==
  /\ MaxClock \in Nat
  /\ None \notin [Fields -> Values]
  /\ Filters \subseteq SUBSET [Fields -> Values]

VARIABLES
  jobs,   \* q.jobs
  byID,   \* q.byID: positions count from 0
  clock,  \* time.Now(), which may return the same time twice
  call,   \* history: the last method and its arguments
  reply   \* the jobs it returned, or returned the ids of

vars == <<jobs, byID, clock, call, reply>>

Entries == [Fields -> Values]
Patches == UNION {[F -> Values] : F \in SUBSET Fields}
Job == [id : Ids, entry : Entries, UpdatedAt : 0 .. MaxClock]

Positions == 1 .. Len(jobs)

\* The ways to walk the positions P from the first to the last (there is one).
Picks(P) ==
  {f \in [1 .. Cardinality(P) -> P] :
     /\ \A i, k \in DOMAIN f : i < k => f[i] < f[k]
     /\ \A p \in P : \E i \in DOMAIN f : f[i] = p}

\* Mutant of Index: the position is the length before the append, less one.
IndexBeforeAppend(s) ==
  [id \in {s[i].id : i \in DOMAIN s} |->
     (CHOOSE i \in DOMAIN s : s[i].id = id) - 2]

\* The loop that rebuilds byID.
Index(s) ==
  [id \in {s[i].id : i \in DOMAIN s} |->
     (CHOOSE i \in DOMAIN s : s[i].id = id) - 1]

\* q.byID[id], checked against the length of the slice.
Has(id) == id \in DOMAIN byID /\ byID[id] >= 0 /\ byID[id] < Len(jobs)
At(id) == byID[id] + 1

Now == clock' \in {clock} \cup (IF clock < MaxClock THEN {clock + 1} ELSE {})

Init == jobs = <<>> /\ byID = <<>> /\ clock = 0 /\ call = <<"New">> /\ reply = <<>>

\* Mutant of Add: the position is taken after the append.
AddAfterAppend(id, e) ==
  /\ call' = <<"Add", id, e>>
  /\ id \notin DOMAIN byID
  /\ Now
  /\ jobs' = Append(jobs, [id |-> id, entry |-> e, UpdatedAt |-> clock'])
  /\ byID' = [i \in DOMAIN byID \cup {id} |-> IF i = id THEN Len(jobs') ELSE byID[i]]
  /\ reply' = <<>>

\* App makes up a random id of 8 bytes, taken to be new.
Add(id, e) ==
  /\ call' = <<"Add", id, e>>
  /\ id \notin DOMAIN byID
  /\ Now
  /\ jobs' = Append(jobs, [id |-> id, entry |-> e, UpdatedAt |-> clock'])
  /\ byID' = [i \in DOMAIN byID \cup {id} |-> IF i = id THEN Len(jobs) ELSE byID[i]]
  /\ reply' = <<>>

Get(id) ==
  /\ call' = <<"Get", id>>
  /\ reply' = IF Has(id) THEN <<jobs[At(id)]>> ELSE <<>>
  /\ UNCHANGED <<jobs, byID, clock>>

Snapshot ==
  /\ call' = <<"Snapshot">>
  /\ reply' = jobs
  /\ UNCHANGED <<jobs, byID, clock>>

\* Mutant of Patch: fields without a pointer are reset.
PatchReplaces(id, p) ==
  /\ call' = <<"Patch", id, p>>
  /\ Now
  /\ Has(id)
  /\ \E e \in Entries :
       /\ \A f \in DOMAIN p : e[f] = p[f]
       /\ jobs' = [jobs EXCEPT ![At(id)].entry = e, ![At(id)].UpdatedAt = clock']
  /\ reply' = <<jobs'[At(id)]>>
  /\ UNCHANGED byID

Patch(id, p) ==
  /\ call' = <<"Patch", id, p>>
  /\ IF Has(id)
     THEN /\ Now
          /\ LET j == jobs[At(id)]
                 patched == [f \in Fields |-> IF f \in DOMAIN p THEN p[f] ELSE j.entry[f]]
             IN jobs' = [jobs EXCEPT ![At(id)] =
                           [j EXCEPT !.entry = patched, !.UpdatedAt = clock']]
          /\ reply' = <<jobs'[At(id)]>>
          /\ UNCHANGED byID
     ELSE reply' = <<>> /\ UNCHANGED <<jobs, byID, clock>>

Matching(fn) == {i \in Positions : jobs[i].entry \in fn}

\* Mutant of RemoveWhere: only the entries of removed jobs leave the map.
RemoveKeepsIndex(fn) ==
  \E keep \in Picks(Positions \ Matching(fn)), drop \in Picks(Matching(fn)) :
    /\ jobs' = [i \in DOMAIN keep |-> jobs[keep[i]]]
    /\ byID' = [id \in {jobs'[i].id : i \in DOMAIN jobs'} |-> byID[id]]
    /\ reply' = [i \in DOMAIN drop |-> jobs[drop[i]]]
    /\ call' = <<"RemoveWhere", fn>>
    /\ UNCHANGED clock

\* Mutant of RemoveWhere: the slice is walked from its end.
RemoveBackwards(fn) ==
  \E keep \in Picks(Positions \ Matching(fn)), drop \in Picks(Matching(fn)) :
    /\ jobs' = [i \in DOMAIN keep |-> jobs[keep[Len(keep) + 1 - i]]]
    /\ byID' = Index(jobs')
    /\ reply' = [i \in DOMAIN drop |-> jobs[drop[i]]]
    /\ call' = <<"RemoveWhere", fn>>
    /\ UNCHANGED clock

\* The jobs that stay are moved to the front of the same array, in their order.
RemoveWhere(fn) ==
  \E keep \in Picks(Positions \ Matching(fn)), drop \in Picks(Matching(fn)) :
    /\ jobs' = [i \in DOMAIN keep |-> jobs[keep[i]]]
    /\ byID' = Index(jobs')
    /\ reply' = [i \in DOMAIN drop |-> jobs[drop[i]]]
    /\ call' = <<"RemoveWhere", fn>>
    /\ UNCHANGED clock

IDsWhere(fn) ==
  /\ call' = <<"IDsWhere", fn>>
  /\ \E f \in Picks(Matching(fn)) : reply' = [i \in DOMAIN f |-> jobs[f[i]]]
  /\ UNCHANGED <<jobs, byID, clock>>

\* slices.SortFunc is not stable: jobs updated at the same time come in any order.
Sortings ==
  {f \in [Positions -> Positions] :
     /\ \A i, k \in Positions : f[i] = f[k] => i = k
     /\ \A p \in Positions : \E i \in Positions : f[i] = p
     /\ \A i, k \in Positions : i < k => jobs[f[i]].UpdatedAt >= jobs[f[k]].UpdatedAt}

\* Mutant of SortByUpdatedDesc: the map is not rebuilt.
SortOnly ==
  /\ call' = <<"SortByUpdatedDesc">>
  /\ \E f \in Sortings : jobs' = [i \in Positions |-> jobs[f[i]]]
  /\ reply' = <<>>
  /\ UNCHANGED <<byID, clock>>

SortByUpdatedDesc ==
  /\ call' = <<"SortByUpdatedDesc">>
  /\ \E f \in Sortings : jobs' = [i \in Positions |-> jobs[f[i]]]
  /\ byID' = Index(jobs')
  /\ reply' = <<>>
  /\ UNCHANGED clock

Next ==
  \/ \E id \in Ids :
       \/ \E e \in Entries : Add(id, e)
       \/ Get(id)
       \/ \E p \in Patches : Patch(id, p)
  \/ \E fn \in Filters : RemoveWhere(fn) \/ IDsWhere(fn)
  \/ Snapshot
  \/ SortByUpdatedDesc

Spec == Init /\ [][Next]_vars

-----------------------------------------------------------------------------
(* Properties                                                                *)

TypeOK ==
  /\ jobs \in Seq(Job) /\ reply \in Seq(Job)
  /\ byID \in [DOMAIN byID -> Nat] /\ DOMAIN byID \subseteq Ids
  /\ clock \in 0 .. MaxClock

\* The map names every job of the slice, at its position, and nothing else: no
\* id is lost, found at another job's place, or stored twice.
IndexSound ==
  /\ DOMAIN byID = {jobs[i].id : i \in Positions}
  /\ \A i \in Positions : byID[jobs[i].id] = i - 1

\* "order preserved" (queue.go:121): whatever is added, patched or removed, two
\* jobs that stay keep their order. Only sorting changes it.
OrderKept ==
  [][~SortByUpdatedDesc =>
       \A a, b \in DOMAIN byID \cap DOMAIN byID' :
         byID[a] < byID[b] => byID'[a] < byID'[b]]_vars

\* The jobs of a slice by id.
ByID(s) ==
  [id \in Ids |-> IF \E i \in DOMAIN s : s[i].id = id
                  THEN s[CHOOSE i \in DOMAIN s : s[i].id = id].entry ELSE None]

\* The store as Get and Patch see it, through the map.
Found == [id \in Ids |-> IF Has(id) THEN jobs[At(id)].entry ELSE None]

Store == INSTANCE JobStore WITH store <- Found, reply <- ByID(reply)

\* The slice and its map implement the store the App is written against.
Implements == Store!Spec

=============================================================================
