------------------------------ MODULE JobLifecycle ------------------------------
(***************************************************************************)
(* The life of the jobs of engine.App (internal/engine/app.go): the queue  *)
(* entry of each job, the maps jobRunning and jobCancels guarded by App.mu,*)
(* the errgroups that StartQueued creates, and one goroutine per launched  *)
(* job running startOne.                                                   *)
(*                                                                         *)
(* A goroutine is named <<c, j>>: the c-th errgroup's goroutine for job j. *)
(* App's exported methods are called by one front-end thread; the record   *)
(* caller says which method it is in and which ids it still has to handle. *)
(* emit never blocks and touches none of this state, so the event stream   *)
(* is left to a module of its own.                                         *)
(***************************************************************************)
EXTENDS Integers, FiniteSets

CONSTANTS
  Jobs,         \* ids AddURL may draw
  MaxParallel,  \* errgroup limit, after StartQueued replaced values <= 0 by 3
  MaxCalls,     \* bound: errgroups created in a behaviour
  LaterOps      \* methods the front end uses once it has called StartQueued

ASSUME LifecycleAssumption ==
  /\ MaxParallel \in Nat \ {0}
  /\ MaxCalls \in Nat
  /\ LaterOps \subseteq {"AddURL", "StartQueued", "RetryFailed", "CancelActive",
                         "DeleteCompleted", "ClearErrors"}

VARIABLES
  job,       \* Queue.jobs: [state, retryable, attempts] of every id
  running,   \* App.jobRunning
  cancels,   \* App.jobCancels: the goroutines whose cancel function it holds
  canceled,  \* goroutines whose jobCtx has been cancelled by CancelActive
  ctxDone,   \* the front end's context is cancelled (an interrupt)
  caller,    \* the front-end thread: [op, todo]
  call,      \* errgroups created so far
  pc,        \* where each goroutine is in startOne
  seen       \* Attempts in the copy of the job that startOne read first

vars == <<job, running, cancels, canceled, ctxDone, caller, call, pc, seen>>

Goroutines == (1 .. MaxCalls) \X Jobs

\* NEW and REMOVED mark ids that are not in Queue.byID. RETRYING is left out:
\* it occurs in events only, the queue never stores it.
States == {"NEW", "QUEUED", "DOWNLOADING", "SUCCESS", "ERROR", "CANCELED", "REMOVED"}

Known(j) == job[j].state \notin {"NEW", "REMOVED"}

\* Goroutines between their entry into jobRunning and the deferred clean-up.
Held == {p \in Goroutines : pc[p] \in {"registered", "running", "patched"}}

\* Mutant of Active: a goroutine that ends does not give its slot back.
ActiveOnce(c) == {j \in Jobs : pc[<<c, j>>] # "none"}

\* errgroup goroutines of call c that occupy one of the MaxParallel slots.
Active(c) == {j \in Jobs : pc[<<c, j>>] \notin {"none", "done"}}

\* Mutant of Canceled: jobCtx is not derived from the interrupted context.
DetachedContext(p) == p \in canceled

Canceled(p) == ctxDone \/ p \in canceled

\* Queue.Patch: nothing happens when the id is unknown.
Patched(j, entry) == IF Known(j) THEN [job EXCEPT ![j] = entry] ELSE job

\* Mutant of Done: only queued jobs keep the front end waiting.
DoneWhenQueueEmpty == \A j \in Jobs : job[j].state # "QUEUED"

\* App.Done
Done == \A j \in Jobs : job[j].state \notin {"QUEUED", "DOWNLOADING"}

Init ==
  /\ job = [j \in Jobs |-> [state |-> "NEW", retryable |-> FALSE, attempts |-> 0]]
  /\ running = {}
  /\ cancels = {}
  /\ canceled = {}
  /\ ctxDone = FALSE
  /\ caller = [op |-> "idle", todo |-> {}]
  /\ call = 0
  /\ pc = [p \in Goroutines |-> "none"]
  /\ seen = [p \in Goroutines |-> 0]

-----------------------------------------------------------------------------
(* The front-end thread                                                      *)

MayCall(op) == caller.op = "idle" /\ (call = 0 \/ op \in LaterOps)

AddURL(j) ==
  /\ MayCall("AddURL")
  /\ job[j].state = "NEW"
  /\ job' = [job EXCEPT ![j].state = "QUEUED"]
  /\ UNCHANGED <<running, cancels, canceled, ctxDone, caller, call, pc, seen>>

\* The body of StartQueued up to its loop: with nothing queued it returns.
CreateGroup ==
  LET ids == {j \in Jobs : job[j].state = "QUEUED"}
  IN  /\ caller' = IF ids = {} THEN [op |-> "idle", todo |-> {}]
                               ELSE [op |-> "launch", todo |-> ids]
      /\ call' = IF ids = {} THEN call ELSE call + 1
      /\ UNCHANGED <<job, running, cancels, canceled, ctxDone, pc, seen>>

StartQueued ==
  /\ MayCall("StartQueued")
  /\ call < MaxCalls
  /\ CreateGroup

\* eg.Go blocks while the group has MaxParallel goroutines. (The slice order
\* in which the ids are launched is abstracted to any order.)
Launch(j) ==
  /\ caller.op = "launch"
  /\ j \in caller.todo
  /\ Cardinality(Active(call)) < MaxParallel
  /\ pc' = [pc EXCEPT ![<<call, j>>] = "spawned"]
  /\ caller' = IF caller.todo = {j} THEN [op |-> "idle", todo |-> {}]
                                    ELSE [caller EXCEPT !.todo = @ \ {j}]
  /\ UNCHANGED <<job, running, cancels, canceled, ctxDone, call, seen>>

\* RetryFailed first collects the ids, then patches them one lock at a time,
\* then calls StartQueued.
RetryFailed ==
  /\ MayCall("RetryFailed")
  /\ call < MaxCalls
  /\ caller' = [op |-> "retry",
                todo |-> {j \in Jobs : job[j].state = "ERROR" /\ job[j].retryable}]
  /\ UNCHANGED <<job, running, cancels, canceled, ctxDone, call, pc, seen>>

RetryReset(j) ==
  /\ caller.op = "retry"
  /\ j \in caller.todo
  /\ job' = Patched(j, [job[j] EXCEPT !.state = "QUEUED"])
  /\ caller' = [caller EXCEPT !.todo = @ \ {j}]
  /\ UNCHANGED <<running, cancels, canceled, ctxDone, call, pc, seen>>

RetryStart ==
  /\ caller = [op |-> "retry", todo |-> {}]
  /\ CreateGroup

\* One step under App.mu.
CancelActive ==
  /\ MayCall("CancelActive")
  /\ canceled' = canceled \cup cancels
  /\ UNCHANGED <<job, running, cancels, ctxDone, caller, call, pc, seen>>

\* Queue.RemoveWhere under the queue's lock.
DeleteCompleted ==
  /\ MayCall("DeleteCompleted")
  /\ job' = [j \in Jobs |-> IF job[j].state \in {"SUCCESS", "CANCELED"}
                            THEN [job[j] EXCEPT !.state = "REMOVED"] ELSE job[j]]
  /\ UNCHANGED <<running, cancels, canceled, ctxDone, caller, call, pc, seen>>

ClearErrors ==
  /\ MayCall("ClearErrors")
  /\ \E j \in Jobs : job[j].state = "ERROR"
  /\ caller' = [op |-> "clear", todo |-> {j \in Jobs : job[j].state = "ERROR"}]
  /\ UNCHANGED <<job, running, cancels, canceled, ctxDone, call, pc, seen>>

ClearOne(j) ==
  /\ caller.op = "clear"
  /\ j \in caller.todo
  /\ job' = Patched(j, [job[j] EXCEPT !.retryable = FALSE])
  /\ caller' = IF caller.todo = {j} THEN [op |-> "idle", todo |-> {}]
                                    ELSE [caller EXCEPT !.todo = @ \ {j}]
  /\ UNCHANGED <<running, cancels, canceled, ctxDone, call, pc, seen>>

\* SIGINT or SIGTERM reaches signal.NotifyContext.
Interrupt ==
  /\ ~ctxDone
  /\ ctxDone' = TRUE
  /\ UNCHANGED <<job, running, cancels, canceled, caller, call, pc, seen>>

-----------------------------------------------------------------------------
(* startOne, run by goroutine p = <<c, j>>                                   *)

Goto(p, label) == pc' = [pc EXCEPT ![p] = label]

\* q.Get: the copy of the job read here is used after the unlock.
ReadJob(p) ==
  /\ pc[p] = "spawned"
  /\ Known(p[2])
  /\ seen' = [seen EXCEPT ![p] = job[p[2]].attempts]
  /\ Goto(p, "read")
  /\ UNCHANGED <<job, running, cancels, canceled, ctxDone, caller, call>>

JobGone(p) ==
  /\ pc[p] = "spawned"
  /\ ~Known(p[2])
  /\ Goto(p, "done")
  /\ UNCHANGED <<job, running, cancels, canceled, ctxDone, caller, call, seen>>

\* Mutant of Register: jobRunning is not looked at.
RegisterUnchecked(p) ==
  /\ pc[p] = "read"
  /\ running' = running \cup {p[2]}
  /\ cancels' = {q \in cancels : q[2] # p[2]} \cup {p}
  /\ Goto(p, "registered")
  /\ UNCHANGED <<job, canceled, ctxDone, caller, call, seen>>

\* Check and insert in one critical section of App.mu. Assigning a map entry
\* replaces the cancel function another goroutine of the job left there.
Register(p) ==
  /\ pc[p] = "read"
  /\ p[2] \notin running
  /\ running' = running \cup {p[2]}
  /\ cancels' = {q \in cancels : q[2] # p[2]} \cup {p}
  /\ Goto(p, "registered")
  /\ UNCHANGED <<job, canceled, ctxDone, caller, call, seen>>

AlreadyRunning(p) ==
  /\ pc[p] = "read"
  /\ p[2] \in running
  /\ Goto(p, "done")
  /\ UNCHANGED <<job, running, cancels, canceled, ctxDone, caller, call, seen>>

\* Mutant of Begin: Attempts counted down from the copy.
BeginCountsDown(p) ==
  /\ pc[p] = "registered"
  /\ job' = Patched(p[2], [job[p[2]] EXCEPT !.state = "DOWNLOADING",
                                            !.attempts = seen[p] - 1])
  /\ Goto(p, "running")
  /\ UNCHANGED <<running, cancels, canceled, ctxDone, caller, call, seen>>

\* selectRunner found an engine (it always does for a URL AddURL accepted, see
\* Routing); the job is patched and runner.Run starts. The state is not checked.
Begin(p) ==
  /\ pc[p] = "registered"
  /\ job' = Patched(p[2], [job[p[2]] EXCEPT !.state = "DOWNLOADING",
                                            !.attempts = seen[p] + 1])
  /\ Goto(p, "running")
  /\ UNCHANGED <<running, cancels, canceled, ctxDone, caller, call, seen>>

Succeed(p) ==
  /\ pc[p] = "running"
  /\ job' = Patched(p[2], [job[p[2]] EXCEPT !.state = "SUCCESS"])
  /\ Goto(p, "patched")
  /\ UNCHANGED <<running, cancels, canceled, ctxDone, caller, call, seen>>

\* Mutant of Fail: a retryable failure puts the job back in the queue.
FailRequeues(p, retryable) ==
  /\ pc[p] = "running"
  /\ job' = Patched(p[2], [job[p[2]] EXCEPT !.state = IF retryable THEN "QUEUED" ELSE "ERROR",
                                            !.retryable = retryable])
  /\ Goto(p, "patched")
  /\ UNCHANGED <<running, cancels, canceled, ctxDone, caller, call, seen>>

Fail(p, retryable) ==
  /\ pc[p] = "running"
  /\ job' = Patched(p[2], [job[p[2]] EXCEPT !.state = "ERROR", !.retryable = retryable])
  /\ Goto(p, "patched")
  /\ UNCHANGED <<running, cancels, canceled, ctxDone, caller, call, seen>>

\* Mutant of EndCanceled: a cancelled run returns without patching its job.
EndCanceledSilently(p) ==
  /\ pc[p] = "running"
  /\ Canceled(p)
  /\ Goto(p, "patched")
  /\ UNCHANGED <<job, running, cancels, canceled, ctxDone, caller, call, seen>>

\* runner.Run returned context.Canceled or CodeCanceled.
EndCanceled(p) ==
  /\ pc[p] = "running"
  /\ Canceled(p)
  /\ job' = Patched(p[2], [job[p[2]] EXCEPT !.state = "CANCELED", !.retryable = FALSE])
  /\ Goto(p, "patched")
  /\ UNCHANGED <<running, cancels, canceled, ctxDone, caller, call, seen>>

Finish(p) == Succeed(p) \/ EndCanceled(p) \/ \E r \in BOOLEAN : Fail(p, r)

\* Mutant of Cleanup: the cancel function stays in jobCancels.
CleanupKeepsCancel(p) ==
  /\ pc[p] = "patched"
  /\ running' = running \ {p[2]}
  /\ Goto(p, "done")
  /\ UNCHANGED <<job, cancels, canceled, ctxDone, caller, call, seen>>

\* The deferred function; then the goroutine gives its slot back.
Cleanup(p) ==
  /\ pc[p] = "patched"
  /\ running' = running \ {p[2]}
  /\ cancels' = {q \in cancels : q[2] # p[2]}
  /\ Goto(p, "done")
  /\ UNCHANGED <<job, canceled, ctxDone, caller, call, seen>>

StartOne(p) ==
  \/ ReadJob(p) \/ JobGone(p) \/ Register(p) \/ AlreadyRunning(p)
  \/ Begin(p) \/ Cleanup(p)

-----------------------------------------------------------------------------

FrontEnd ==
  \/ StartQueued \/ RetryFailed \/ RetryStart \/ CancelActive
  \/ DeleteCompleted \/ ClearErrors
  \/ \E j \in Jobs : AddURL(j) \/ Launch(j) \/ RetryReset(j) \/ ClearOne(j)

Next ==
  \/ FrontEnd
  \/ Interrupt
  \/ \E p \in Goroutines : StartOne(p) \/ Finish(p)

Spec == Init /\ [][Next]_vars

\* A method, once entered, keeps going, and so does a goroutine.
Progress ==
  /\ WF_vars(RetryStart)
  /\ \A j \in Jobs : WF_vars(Launch(j)) /\ WF_vars(RetryReset(j)) /\ WF_vars(ClearOne(j))
  /\ \A p \in Goroutines : WF_vars(StartOne(p))

\* Engines return once their context is cancelled; nothing bounds how long
\* they wait on a silent server (their HTTP clients have Timeout 0).
DrainSpec ==
  Spec /\ Progress /\ \A p \in Goroutines : WF_vars(Canceled(p) /\ Finish(p))

\* main.go always calls StartQueued, and every transfer ends somehow.
FairSpec ==
  Spec /\ Progress /\ WF_vars(StartQueued) /\ \A p \in Goroutines : WF_vars(Finish(p))

-----------------------------------------------------------------------------
(* Properties                                                                *)

TypeOK ==
  /\ job \in [Jobs -> [state : States, retryable : BOOLEAN, attempts : Nat]]
  /\ running \subseteq Jobs
  /\ cancels \subseteq Goroutines
  /\ canceled \subseteq Goroutines
  /\ ctxDone \in BOOLEAN
  /\ caller \in [op : {"idle", "launch", "retry", "clear"}, todo : SUBSET Jobs]
  /\ call \in 0 .. MaxCalls
  /\ pc \in [Goroutines -> {"none", "spawned", "read", "registered", "running",
                            "patched", "done"}]
  /\ seen \in [Goroutines -> Nat]

\* However StartQueued and RetryFailed overlap, a job never has two goroutines
\* inside the part of startOne that jobRunning protects, and jobRunning is
\* exactly the set of jobs that have one.
OneRunnerPerJob ==
  /\ \A p, q \in Held : p[2] = q[2] => p = q
  /\ running = {p[2] : p \in Held}

\* jobCancels holds the cancel function of exactly the goroutines that own a
\* job, so CancelActive reaches each of them and never a finished one.
CancelReachesRunner == cancels = Held

\* A job shown as DOWNLOADING has a runner at work on it: none is left behind
\* in a state that keeps Done false for ever.
NoOrphanDownload ==
  \A j \in Jobs : job[j].state = "DOWNLOADING" => \E p \in Held : pc[p] = "running" /\ p[2] = j

\* When Done lets the front end exit, no engine is still writing for a job
\* that is in the queue. (It may be for one that was deleted meanwhile.)
QuietWhenDone ==
  Done => \A p \in Goroutines : pc[p] = "running" => job[p[2]].state = "REMOVED"

\* With a single StartQueued, as in main.go, each job is run at most once and
\* its outcome is final.
RunsOnce ==
  [][\A j \in Jobs : job'[j] # job[j] =>
        \/ job[j].state = "NEW" /\ job'[j].state = "QUEUED"
        \/ /\ job[j].state = "QUEUED" /\ job'[j].state = "DOWNLOADING"
           /\ job[j].attempts = 0 /\ job'[j].attempts = 1
        \/ /\ job[j].state = "DOWNLOADING" /\ job'[j].state \in {"SUCCESS", "ERROR", "CANCELED"}
           /\ job'[j].attempts = job[j].attempts]_job

\* "StartQueued begins downloading all QUEUED jobs" (app.go:191): a job that
\* StartQueued picked does not stay QUEUED.
QueuedJobsBegin ==
  \A j \in Jobs :
    (caller.op = "launch" /\ j \in caller.todo) ~> (job[j].state # "QUEUED")

\* Every job added before StartQueued reaches an outcome, so that runCLI's loop
\* on Done ends.
EveryJobEnds ==
  \A j \in Jobs : (job[j].state = "QUEUED") ~> (job[j].state \in {"SUCCESS", "ERROR", "CANCELED"})

\* After an interrupt the blocked StartQueued returns and every goroutine ends,
\* whatever the servers do.
InterruptDrains ==
  ctxDone ~> (caller.op = "idle" /\ \A p \in Goroutines : pc[p] \in {"none", "done"})

=============================================================================
