-------------------------------- MODULE JobStore --------------------------------
(***************************************************************************)
(* What App relies on when it calls Queue (internal/queue/queue.go): a     *)
(* store of jobs by id, whose methods are atomic. This is the view that    *)
(* JobLifecycle and Dashboard take of it; Queue implements it.             *)
(***************************************************************************)

CONSTANTS
  Ids,     \* job ids
  Fields,  \* the fields of a job that Patch can set, State among them
  Values,  \* what a field may hold
  Filters, \* the conditions RemoveWhere and IDsWhere are called with, as sets of jobs
  None     \* no job; not an entry

Entries == [Fields -> Values]

\* A Patch sets the fields it has a pointer for.
Patches == UNION {[F -> Values] : F \in SUBSET Fields}
Apply(p, e) == [f \in Fields |-> IF f \in DOMAIN p THEN p[f] ELSE e[f]]

VARIABLES
  store,  \* the job with each id, or None
  call,   \* the last method and its arguments
  reply   \* what the last method returned, by id

vars == <<store, call, reply>>

Stored == {id \in Ids : store[id] # None}
Where(fn) == {id \in Stored : store[id] \in fn}

Init ==
  /\ store = [id \in Ids |-> None]
  /\ call = <<"New">>
  /\ reply = [id \in Ids |-> None]

\* The entries of s whose ids are in I.
Only(s, I) == [id \in Ids |-> IF id \in I THEN s[id] ELSE None]

\* Ids are random and taken to be new.
Add(id, e) ==
  /\ call' = <<"Add", id, e>>
  /\ id \notin Stored
  /\ store' = [store EXCEPT ![id] = e]
  /\ reply' = Only(store, {})

Get(id) ==
  /\ call' = <<"Get", id>>
  /\ reply' = Only(store, {id})
  /\ UNCHANGED store

Patch(id, p) ==
  /\ call' = <<"Patch", id, p>>
  /\ store' = IF id \in Stored THEN [store EXCEPT ![id] = Apply(p, @)] ELSE store
  /\ reply' = Only(store', {id})

RemoveWhere(fn) ==
  /\ call' = <<"RemoveWhere", fn>>
  /\ store' = Only(store, Ids \ Where(fn))
  /\ reply' = Only(store, Where(fn))

IDsWhere(fn) ==
  /\ call' = <<"IDsWhere", fn>>
  /\ reply' = Only(store, Where(fn))
  /\ UNCHANGED store

Snapshot ==
  /\ call' = <<"Snapshot">>
  /\ reply' = store
  /\ UNCHANGED store

SortByUpdatedDesc ==
  /\ call' = <<"SortByUpdatedDesc">>
  /\ reply' = Only(store, {})
  /\ UNCHANGED store

Next ==
  \/ \E id \in Ids :
       \/ \E e \in Entries : Add(id, e)
       \/ Get(id)
       \/ \E p \in Patches : Patch(id, p)
  \/ \E fn \in Filters : RemoveWhere(fn) \/ IDsWhere(fn)
  \/ Snapshot
  \/ SortByUpdatedDesc

Spec == Init /\ [][Next]_vars

=============================================================================
