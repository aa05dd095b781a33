-------------------------- MODULE JobLifecycleProofs --------------------------
(***************************************************************************)
(* The safety of startOne's hand-over of a job, for any set of jobs, any   *)
(* limit and any number of overlapping errgroups.                          *)
(***************************************************************************)
EXTENDS JobLifecycle, TLAPS

\* startOne never runs for an id AddURL has not stored.
LaunchedIsStored ==
  /\ \A p \in Goroutines : pc[p] # "none" => job[p[2]].state # "NEW"
  /\ \A j \in caller.todo : job[j].state # "NEW"

\* StartQueued launches each id of its list once, in a group of its own.
FreshLaunch ==
  /\ \A p \in Goroutines : p[1] > call => pc[p] = "none"
  /\ caller.op = "launch" => call > 0 /\ \A j \in caller.todo : pc[<<call, j>>] = "none"
  /\ caller.op = "retry" => call < MaxCalls

\* While an engine runs, its job is DOWNLOADING unless RetryFailed has queued it
\* again (from a stale list) or it was deleted before the run began.
RunningState ==
  \A p \in Goroutines :
    pc[p] = "running" => job[p[2]].state \in {"DOWNLOADING", "QUEUED", "REMOVED"}

IInv ==
  /\ TypeOK
  /\ OneRunnerPerJob
  /\ CancelReachesRunner
  /\ NoOrphanDownload
  /\ LaunchedIsStored
  /\ FreshLaunch
  /\ RunningState


-----------------------------------------------------------------------------

\* The bound is a number.
LEMMA MaxCallsNat == MaxCalls \in Nat
BY LifecycleAssumption DEF LifecycleAssumption

\* The parts of the invariant, and the helpers they and the actions are written with.
LEMMA GoroutineParts ==
  /\ \A p \in Goroutines : p[1] \in 1 .. MaxCalls /\ p[2] \in Jobs /\ p = <<p[1], p[2]>>
  /\ \A c \in 1 .. MaxCalls, j \in Jobs : <<c, j>> \in Goroutines
BY DEF Goroutines

LEMMA InitIInv == Init => IInv
<1> SUFFICES ASSUME Init PROVE IInv
  OBVIOUS
<1>1. TypeOK
  <2>1. job \in [Jobs -> [state : States, retryable : BOOLEAN, attempts : Nat]]
    BY DEF Init, States
  <2>2. caller \in [op : {"idle", "launch", "retry", "clear"}, todo : SUBSET Jobs]
    BY DEF Init
  <2>3. pc \in [Goroutines -> {"none", "spawned", "read", "registered", "running",
                               "patched", "done"}] /\ seen \in [Goroutines -> Nat]
    BY DEF Init
  <2>4. /\ running \subseteq Jobs /\ cancels \subseteq Goroutines
        /\ canceled \subseteq Goroutines /\ ctxDone \in BOOLEAN /\ call \in 0 .. MaxCalls
    <3>1. call \in 0 .. MaxCalls
      BY MaxCallsNat DEF Init
    <3>2. QED
      BY <3>1, Zenon DEF Init
  <2>5. QED
    BY <2>1, <2>2, <2>3, <2>4 DEF TypeOK
<1>2. Held = {}
  BY DEF Init, Held
<1>3. OneRunnerPerJob /\ CancelReachesRunner
  BY <1>2 DEF Init, OneRunnerPerJob, CancelReachesRunner
<1>4. NoOrphanDownload /\ LaunchedIsStored /\ FreshLaunch /\ RunningState
  BY DEF Init, NoOrphanDownload, LaunchedIsStored, FreshLaunch, RunningState
<1>5. QED
  BY <1>1, <1>3, <1>4 DEF IInv

\* What the front end does leaves the hand-over of jobs to goroutines alone, and
\* the goroutines inside the protected part are the same as before.
LEMMA HandOverKept ==
  ASSUME OneRunnerPerJob, CancelReachesRunner, UNCHANGED <<running, cancels>>, Held' = Held
  PROVE  OneRunnerPerJob' /\ CancelReachesRunner'
BY DEF OneRunnerPerJob, CancelReachesRunner

LEMMA AddURLKeepsIInv ==
  ASSUME IInv, NEW j \in Jobs, AddURL(j)
  PROVE  IInv'
<1> USE DEF IInv
<1>1. TypeOK'
  BY GoroutineParts DEF TypeOK, States, AddURL, MayCall
<1>2. Held' = Held
  BY DEF TypeOK, Held, AddURL, MayCall
<1>3. OneRunnerPerJob' /\ CancelReachesRunner'
  BY <1>2, HandOverKept DEF AddURL, MayCall
<1>4. NoOrphanDownload'
  BY <1>2, GoroutineParts DEF TypeOK, NoOrphanDownload, Held, AddURL, MayCall
<1>5. LaunchedIsStored'
  BY <1>2, GoroutineParts DEF TypeOK, LaunchedIsStored, AddURL, MayCall
<1>6. FreshLaunch'
  BY <1>2, GoroutineParts DEF TypeOK, FreshLaunch, AddURL, MayCall
<1>7. RunningState'
  BY <1>2, GoroutineParts DEF TypeOK, RunningState, AddURL, MayCall
<1>8. QED
  BY <1>1, <1>3, <1>4, <1>5, <1>6, <1>7

LEMMA CreateGroupKeepsIInv ==
  ASSUME IInv, CreateGroup, call < MaxCalls, caller.op # "launch"
  PROVE  IInv'
<1> USE DEF IInv
<1>1. TypeOK'
  BY GoroutineParts, MaxCallsNat DEF TypeOK, States, CreateGroup
<1>2. Held' = Held
  BY DEF TypeOK, Held, CreateGroup
<1>3. OneRunnerPerJob' /\ CancelReachesRunner'
  BY <1>2, HandOverKept DEF CreateGroup
<1>4. NoOrphanDownload'
  BY <1>2, GoroutineParts DEF TypeOK, NoOrphanDownload, Held, CreateGroup
<1>5. LaunchedIsStored'
  BY <1>2, GoroutineParts DEF TypeOK, LaunchedIsStored, CreateGroup
<1>6. FreshLaunch'
  <2>1. ASSUME NEW j \in Jobs
        PROVE  pc[<<call + 1, j>>] = "none"
    <3>1. call \in Nat /\ call + 1 \in 1 .. MaxCalls
      BY MaxCallsNat DEF TypeOK
    <3>2. <<call + 1, j>> \in Goroutines /\ <<call + 1, j>>[1] > call
      BY <3>1, GoroutineParts
    <3>3. QED
      BY <3>2, Zenon DEF FreshLaunch
  <2>2. QED
    BY <2>1, GoroutineParts DEF TypeOK, FreshLaunch, CreateGroup
<1>7. RunningState'
  BY <1>2, GoroutineParts DEF TypeOK, RunningState, CreateGroup
<1>8. QED
  BY <1>1, <1>3, <1>4, <1>5, <1>6, <1>7

LEMMA LaunchKeepsIInv ==
  ASSUME IInv, NEW j \in Jobs, Launch(j)
  PROVE  IInv'
<1> USE DEF IInv
<1>1. TypeOK'
  BY GoroutineParts DEF TypeOK, States, Launch
<1>2. Held' = Held
  <2>1. <<call, j>> \in Goroutines /\ pc[<<call, j>>] = "none"
    BY GoroutineParts DEF TypeOK, FreshLaunch, Launch
  <2>2. QED
    BY <2>1 DEF TypeOK, Held, Launch
<1>3. OneRunnerPerJob' /\ CancelReachesRunner'
  BY <1>2, HandOverKept DEF Launch
<1>4. NoOrphanDownload'
  BY <1>2, GoroutineParts DEF TypeOK, NoOrphanDownload, Held, Launch
<1>5. LaunchedIsStored'
  BY <1>2, GoroutineParts DEF TypeOK, LaunchedIsStored, Launch
<1>6. FreshLaunch'
  BY <1>2, GoroutineParts DEF TypeOK, FreshLaunch, Launch
<1>7. RunningState'
  BY <1>2, GoroutineParts DEF TypeOK, RunningState, Launch
<1>8. QED
  BY <1>1, <1>3, <1>4, <1>5, <1>6, <1>7

LEMMA RetryFailedKeepsIInv ==
  ASSUME IInv, RetryFailed
  PROVE  IInv'
<1> USE DEF IInv
<1>1. TypeOK'
  BY GoroutineParts DEF TypeOK, States, RetryFailed, MayCall
<1>2. Held' = Held
  BY DEF TypeOK, Held, RetryFailed, MayCall
<1>3. OneRunnerPerJob' /\ CancelReachesRunner'
  BY <1>2, HandOverKept DEF RetryFailed, MayCall
<1>4. NoOrphanDownload'
  BY <1>2, GoroutineParts DEF TypeOK, NoOrphanDownload, Held, RetryFailed, MayCall
<1>5. LaunchedIsStored'
  BY <1>2, GoroutineParts DEF TypeOK, LaunchedIsStored, RetryFailed, MayCall
<1>6. FreshLaunch'
  BY <1>2, GoroutineParts DEF TypeOK, FreshLaunch, RetryFailed, MayCall
<1>7. RunningState'
  BY <1>2, GoroutineParts DEF TypeOK, RunningState, RetryFailed, MayCall
<1>8. QED
  BY <1>1, <1>3, <1>4, <1>5, <1>6, <1>7

LEMMA RetryResetKeepsIInv ==
  ASSUME IInv, NEW j \in Jobs, RetryReset(j)
  PROVE  IInv'
<1> USE DEF IInv
<1>1. TypeOK'
  BY GoroutineParts DEF TypeOK, States, RetryReset, Patched, Known
<1>2. Held' = Held
  BY DEF TypeOK, Held, RetryReset, Patched, Known
<1>3. OneRunnerPerJob' /\ CancelReachesRunner'
  BY <1>2, HandOverKept DEF RetryReset, Patched, Known
<1>4. NoOrphanDownload'
  BY <1>2, GoroutineParts DEF TypeOK, NoOrphanDownload, Held, RetryReset, Patched, Known
<1>5. LaunchedIsStored'
  BY <1>2, GoroutineParts DEF TypeOK, LaunchedIsStored, RetryReset, Patched, Known
<1>6. FreshLaunch'
  BY <1>2, GoroutineParts DEF TypeOK, FreshLaunch, RetryReset, Patched, Known
<1>7. RunningState'
  BY <1>2, GoroutineParts DEF TypeOK, RunningState, RetryReset, Patched, Known
<1>8. QED
  BY <1>1, <1>3, <1>4, <1>5, <1>6, <1>7

LEMMA CancelActiveKeepsIInv ==
  ASSUME IInv, CancelActive
  PROVE  IInv'
<1> USE DEF IInv
<1>1. TypeOK'
  BY GoroutineParts DEF TypeOK, States, CancelActive, MayCall
<1>2. Held' = Held
  BY DEF TypeOK, Held, CancelActive, MayCall
<1>3. OneRunnerPerJob' /\ CancelReachesRunner'
  BY <1>2, HandOverKept DEF CancelActive, MayCall
<1>4. NoOrphanDownload'
  BY <1>2, GoroutineParts DEF TypeOK, NoOrphanDownload, Held, CancelActive, MayCall
<1>5. LaunchedIsStored'
  BY <1>2, GoroutineParts DEF TypeOK, LaunchedIsStored, CancelActive, MayCall
<1>6. FreshLaunch'
  BY <1>2, GoroutineParts DEF TypeOK, FreshLaunch, CancelActive, MayCall
<1>7. RunningState'
  BY <1>2, GoroutineParts DEF TypeOK, RunningState, CancelActive, MayCall
<1>8. QED
  BY <1>1, <1>3, <1>4, <1>5, <1>6, <1>7

LEMMA DeleteCompletedKeepsIInv ==
  ASSUME IInv, DeleteCompleted
  PROVE  IInv'
<1> USE DEF IInv
<1>1. TypeOK'
  BY GoroutineParts DEF TypeOK, States, DeleteCompleted, MayCall
<1>2. Held' = Held
  BY DEF TypeOK, Held, DeleteCompleted, MayCall
<1>3. OneRunnerPerJob' /\ CancelReachesRunner'
  BY <1>2, HandOverKept DEF DeleteCompleted, MayCall
<1>4. NoOrphanDownload'
  BY <1>2, GoroutineParts DEF TypeOK, NoOrphanDownload, Held, DeleteCompleted, MayCall
<1>5. LaunchedIsStored'
  BY <1>2, GoroutineParts DEF TypeOK, LaunchedIsStored, DeleteCompleted, MayCall
<1>6. FreshLaunch'
  BY <1>2, GoroutineParts DEF TypeOK, FreshLaunch, DeleteCompleted, MayCall
<1>7. RunningState'
  BY <1>2, GoroutineParts DEF TypeOK, RunningState, DeleteCompleted, MayCall
<1>8. QED
  BY <1>1, <1>3, <1>4, <1>5, <1>6, <1>7

LEMMA ClearErrorsKeepsIInv ==
  ASSUME IInv, ClearErrors
  PROVE  IInv'
<1> USE DEF IInv
<1>1. TypeOK'
  BY GoroutineParts DEF TypeOK, States, ClearErrors, MayCall
<1>2. Held' = Held
  BY DEF TypeOK, Held, ClearErrors, MayCall
<1>3. OneRunnerPerJob' /\ CancelReachesRunner'
  BY <1>2, HandOverKept DEF ClearErrors, MayCall
<1>4. NoOrphanDownload'
  BY <1>2, GoroutineParts DEF TypeOK, NoOrphanDownload, Held, ClearErrors, MayCall
<1>5. LaunchedIsStored'
  BY <1>2, GoroutineParts DEF TypeOK, LaunchedIsStored, ClearErrors, MayCall
<1>6. FreshLaunch'
  BY <1>2, GoroutineParts DEF TypeOK, FreshLaunch, ClearErrors, MayCall
<1>7. RunningState'
  BY <1>2, GoroutineParts DEF TypeOK, RunningState, ClearErrors, MayCall
<1>8. QED
  BY <1>1, <1>3, <1>4, <1>5, <1>6, <1>7

LEMMA ClearOneKeepsIInv ==
  ASSUME IInv, NEW j \in Jobs, ClearOne(j)
  PROVE  IInv'
<1> USE DEF IInv
<1>1. TypeOK'
  BY GoroutineParts DEF TypeOK, States, ClearOne, Patched, Known
<1>2. Held' = Held
  BY DEF TypeOK, Held, ClearOne, Patched, Known
<1>3. OneRunnerPerJob' /\ CancelReachesRunner'
  BY <1>2, HandOverKept DEF ClearOne, Patched, Known
<1>4. NoOrphanDownload'
  BY <1>2, GoroutineParts DEF TypeOK, NoOrphanDownload, Held, ClearOne, Patched, Known
<1>5. LaunchedIsStored'
  BY <1>2, GoroutineParts DEF TypeOK, LaunchedIsStored, ClearOne, Patched, Known
<1>6. FreshLaunch'
  BY <1>2, GoroutineParts DEF TypeOK, FreshLaunch, ClearOne, Patched, Known
<1>7. RunningState'
  BY <1>2, GoroutineParts DEF TypeOK, RunningState, ClearOne, Patched, Known
<1>8. QED
  BY <1>1, <1>3, <1>4, <1>5, <1>6, <1>7

LEMMA InterruptKeepsIInv ==
  ASSUME IInv, Interrupt
  PROVE  IInv'
<1> USE DEF IInv
<1>1. TypeOK'
  BY GoroutineParts DEF TypeOK, States, Interrupt
<1>2. Held' = Held
  BY DEF TypeOK, Held, Interrupt
<1>3. OneRunnerPerJob' /\ CancelReachesRunner'
  BY <1>2, HandOverKept DEF Interrupt
<1>4. NoOrphanDownload'
  BY <1>2, GoroutineParts DEF TypeOK, NoOrphanDownload, Held, Interrupt
<1>5. LaunchedIsStored'
  BY <1>2, GoroutineParts DEF TypeOK, LaunchedIsStored, Interrupt
<1>6. FreshLaunch'
  BY <1>2, GoroutineParts DEF TypeOK, FreshLaunch, Interrupt
<1>7. RunningState'
  BY <1>2, GoroutineParts DEF TypeOK, RunningState, Interrupt
<1>8. QED
  BY <1>1, <1>3, <1>4, <1>5, <1>6, <1>7

LEMMA ReadJobKeepsIInv ==
  ASSUME IInv, NEW p \in Goroutines, ReadJob(p)
  PROVE  IInv'
<1> USE DEF IInv
<1>1. TypeOK'
  BY GoroutineParts DEF TypeOK, States, ReadJob, Goto, Known
<1>2. Held' = Held
  BY DEF TypeOK, Held, ReadJob, Goto, Known
<1>3. OneRunnerPerJob' /\ CancelReachesRunner'
  BY <1>2, HandOverKept DEF ReadJob, Goto, Known
<1>4. NoOrphanDownload'
  BY <1>2, GoroutineParts DEF TypeOK, NoOrphanDownload, Held, ReadJob, Goto, Known
<1>5. LaunchedIsStored'
  BY <1>2, GoroutineParts DEF TypeOK, LaunchedIsStored, ReadJob, Goto, Known
<1>6. FreshLaunch'
  BY <1>2, GoroutineParts DEF TypeOK, FreshLaunch, ReadJob, Goto, Known
<1>7. RunningState'
  BY <1>2, GoroutineParts DEF TypeOK, RunningState, ReadJob, Goto, Known
<1>8. QED
  BY <1>1, <1>3, <1>4, <1>5, <1>6, <1>7

LEMMA JobGoneKeepsIInv ==
  ASSUME IInv, NEW p \in Goroutines, JobGone(p)
  PROVE  IInv'
<1> USE DEF IInv
<1>1. TypeOK'
  BY GoroutineParts DEF TypeOK, States, JobGone, Goto, Known
<1>2. Held' = Held
  BY DEF TypeOK, Held, JobGone, Goto, Known
<1>3. OneRunnerPerJob' /\ CancelReachesRunner'
  BY <1>2, HandOverKept DEF JobGone, Goto, Known
<1>4. NoOrphanDownload'
  BY <1>2, GoroutineParts DEF TypeOK, NoOrphanDownload, Held, JobGone, Goto, Known
<1>5. LaunchedIsStored'
  BY <1>2, GoroutineParts DEF TypeOK, LaunchedIsStored, JobGone, Goto, Known
<1>6. FreshLaunch'
  BY <1>2, GoroutineParts DEF TypeOK, FreshLaunch, JobGone, Goto, Known
<1>7. RunningState'
  BY <1>2, GoroutineParts DEF TypeOK, RunningState, JobGone, Goto, Known
<1>8. QED
  BY <1>1, <1>3, <1>4, <1>5, <1>6, <1>7

LEMMA AlreadyRunningKeepsIInv ==
  ASSUME IInv, NEW p \in Goroutines, AlreadyRunning(p)
  PROVE  IInv'
<1> USE DEF IInv
<1>1. TypeOK'
  BY GoroutineParts DEF TypeOK, States, AlreadyRunning, Goto, Known
<1>2. Held' = Held
  BY DEF TypeOK, Held, AlreadyRunning, Goto, Known
<1>3. OneRunnerPerJob' /\ CancelReachesRunner'
  BY <1>2, HandOverKept DEF AlreadyRunning, Goto, Known
<1>4. NoOrphanDownload'
  BY <1>2, GoroutineParts DEF TypeOK, NoOrphanDownload, Held, AlreadyRunning, Goto, Known
<1>5. LaunchedIsStored'
  BY <1>2, GoroutineParts DEF TypeOK, LaunchedIsStored, AlreadyRunning, Goto, Known
<1>6. FreshLaunch'
  BY <1>2, GoroutineParts DEF TypeOK, FreshLaunch, AlreadyRunning, Goto, Known
<1>7. RunningState'
  BY <1>2, GoroutineParts DEF TypeOK, RunningState, AlreadyRunning, Goto, Known
<1>8. QED
  BY <1>1, <1>3, <1>4, <1>5, <1>6, <1>7

LEMMA BeginKeepsIInv ==
  ASSUME IInv, NEW p \in Goroutines, Begin(p)
  PROVE  IInv'
<1> USE DEF IInv
<1>1. TypeOK'
  <2>1. job' \in [Jobs -> [state : States, retryable : BOOLEAN, attempts : Nat]]
    <3>1. [job[p[2]] EXCEPT !.state = "DOWNLOADING", !.attempts = seen[p] + 1]
            \in [state : States, retryable : BOOLEAN, attempts : Nat]
      <4>1. /\ job[p[2]] \in [state : States, retryable : BOOLEAN, attempts : Nat]
            /\ seen[p] + 1 \in Nat
        BY GoroutineParts DEF TypeOK
      <4>2. QED
        BY <4>1 DEF States
    <3>2. QED
      BY <3>1, GoroutineParts DEF TypeOK, Begin, Patched
  <2>2. QED
    BY <2>1, GoroutineParts DEF TypeOK, Begin, Goto
<1>2. Held' = Held
  BY DEF TypeOK, Held, Begin, Goto, Known, Patched
<1>3. OneRunnerPerJob' /\ CancelReachesRunner'
  BY <1>2, HandOverKept DEF Begin, Goto, Known, Patched
<1>4. NoOrphanDownload'
  BY <1>2, GoroutineParts DEF TypeOK, NoOrphanDownload, Held, Begin, Goto, Known, Patched
<1>5. LaunchedIsStored'
  BY <1>2, GoroutineParts DEF TypeOK, LaunchedIsStored, Begin, Goto, Known, Patched
<1>6. FreshLaunch'
  BY <1>2, GoroutineParts DEF TypeOK, FreshLaunch, Begin, Goto, Known, Patched
<1>7. RunningState'
  <2> SUFFICES ASSUME NEW q \in Goroutines, pc'[q] = "running"
               PROVE  job'[q[2]].state \in {"DOWNLOADING", "QUEUED", "REMOVED"}
    BY DEF RunningState
  <2>1. p \in Held /\ (q # p => q \in Held /\ q[2] # p[2])
    BY DEF TypeOK, Held, OneRunnerPerJob, Begin, Goto
  <2>2. QED
    BY <2>1, GoroutineParts DEF TypeOK, LaunchedIsStored, RunningState, Begin, Goto, Patched, Known
<1>8. QED
  BY <1>1, <1>3, <1>4, <1>5, <1>6, <1>7

LEMMA SucceedKeepsIInv ==
  ASSUME IInv, NEW p \in Goroutines, Succeed(p)
  PROVE  IInv'
<1> USE DEF IInv
<1>1. TypeOK'
  BY GoroutineParts DEF TypeOK, States, Succeed, Goto, Patched, Known
<1>2. Held' = Held
  BY DEF TypeOK, Held, Succeed, Goto, Patched, Known
<1>3. OneRunnerPerJob' /\ CancelReachesRunner'
  BY <1>2, HandOverKept DEF Succeed, Goto, Patched, Known
<1>4. NoOrphanDownload'
  BY <1>2, GoroutineParts DEF TypeOK, NoOrphanDownload, Held, Succeed, Goto, Patched, Known
<1>5. LaunchedIsStored'
  BY <1>2, GoroutineParts DEF TypeOK, LaunchedIsStored, Succeed, Goto, Patched, Known
<1>6. FreshLaunch'
  BY <1>2, GoroutineParts DEF TypeOK, FreshLaunch, Succeed, Goto, Patched, Known
<1>7. RunningState'
  <2> SUFFICES ASSUME NEW q \in Goroutines, pc'[q] = "running"
               PROVE  job'[q[2]].state \in {"DOWNLOADING", "QUEUED", "REMOVED"}
    BY DEF RunningState
  <2>1. p \in Held /\ (q # p => q \in Held /\ q[2] # p[2])
    BY DEF TypeOK, Held, OneRunnerPerJob, Succeed, Goto
  <2>2. QED
    BY <2>1, GoroutineParts DEF TypeOK, LaunchedIsStored, RunningState, Succeed, Goto, Patched, Known
<1>8. QED
  BY <1>1, <1>3, <1>4, <1>5, <1>6, <1>7

LEMMA EndCanceledKeepsIInv ==
  ASSUME IInv, NEW p \in Goroutines, EndCanceled(p)
  PROVE  IInv'
<1> USE DEF IInv
<1>1. TypeOK'
  <2>1. job' \in [Jobs -> [state : States, retryable : BOOLEAN, attempts : Nat]]
    BY GoroutineParts DEF TypeOK, States, EndCanceled, Patched
  <2>2. QED
    BY <2>1, GoroutineParts DEF TypeOK, EndCanceled, Goto
<1>2. Held' = Held
  BY DEF TypeOK, Held, EndCanceled, Goto, Patched, Known
<1>3. OneRunnerPerJob' /\ CancelReachesRunner'
  BY <1>2, HandOverKept DEF EndCanceled, Goto, Patched, Known
<1>4. NoOrphanDownload'
  BY <1>2, GoroutineParts DEF TypeOK, NoOrphanDownload, Held, EndCanceled, Goto, Patched, Known
<1>5. LaunchedIsStored'
  BY <1>2, GoroutineParts DEF TypeOK, LaunchedIsStored, EndCanceled, Goto, Patched, Known
<1>6. FreshLaunch'
  BY <1>2, GoroutineParts DEF TypeOK, FreshLaunch, EndCanceled, Goto, Patched, Known
<1>7. RunningState'
  <2> SUFFICES ASSUME NEW q \in Goroutines, pc'[q] = "running"
               PROVE  job'[q[2]].state \in {"DOWNLOADING", "QUEUED", "REMOVED"}
    BY DEF RunningState
  <2>1. p \in Held /\ (q # p => q \in Held /\ q[2] # p[2])
    BY DEF TypeOK, Held, OneRunnerPerJob, EndCanceled, Goto
  <2>2. QED
    BY <2>1, GoroutineParts DEF TypeOK, LaunchedIsStored, RunningState, EndCanceled, Goto, Patched, Known
<1>8. QED
  BY <1>1, <1>3, <1>4, <1>5, <1>6, <1>7

LEMMA FailKeepsIInv ==
  ASSUME IInv, NEW p \in Goroutines, NEW r \in BOOLEAN, Fail(p, r)
  PROVE  IInv'
<1> USE DEF IInv
<1>1. TypeOK'
  <2>1. job' \in [Jobs -> [state : States, retryable : BOOLEAN, attempts : Nat]]
    BY GoroutineParts DEF TypeOK, States, Fail, Patched
  <2>2. QED
    BY <2>1, GoroutineParts DEF TypeOK, Fail, Goto
<1>2. Held' = Held
  BY DEF TypeOK, Held, Fail, Goto, Patched, Known
<1>3. OneRunnerPerJob' /\ CancelReachesRunner'
  BY <1>2, HandOverKept DEF Fail, Goto, Patched, Known
<1>4. NoOrphanDownload'
  BY <1>2, GoroutineParts DEF TypeOK, NoOrphanDownload, Held, Fail, Goto, Patched, Known
<1>5. LaunchedIsStored'
  BY <1>2, GoroutineParts DEF TypeOK, LaunchedIsStored, Fail, Goto, Patched, Known
<1>6. FreshLaunch'
  BY <1>2, GoroutineParts DEF TypeOK, FreshLaunch, Fail, Goto, Patched, Known
<1>7. RunningState'
  <2> SUFFICES ASSUME NEW q \in Goroutines, pc'[q] = "running"
               PROVE  job'[q[2]].state \in {"DOWNLOADING", "QUEUED", "REMOVED"}
    BY DEF RunningState
  <2>1. p \in Held /\ (q # p => q \in Held /\ q[2] # p[2])
    BY DEF TypeOK, Held, OneRunnerPerJob, Fail, Goto
  <2>2. QED
    BY <2>1, GoroutineParts DEF TypeOK, LaunchedIsStored, RunningState, Fail, Goto, Patched, Known
<1>8. QED
  BY <1>1, <1>3, <1>4, <1>5, <1>6, <1>7

\* The goroutines inside the protected part gain p, which had no rival there.
LEMMA RegisterKeepsIInv ==
  ASSUME IInv, NEW p \in Goroutines, Register(p)
  PROVE  IInv'
<1> USE DEF IInv
<1>1. TypeOK'
  BY GoroutineParts DEF TypeOK, Register, Goto
<1>2. Held' = Held \cup {p} /\ \A q \in Held : q[2] # p[2]
  BY DEF TypeOK, Held, OneRunnerPerJob, Register, Goto
<1>3. OneRunnerPerJob'
  BY <1>2 DEF OneRunnerPerJob, Register
<1>4. CancelReachesRunner'
  BY <1>2 DEF CancelReachesRunner, Register
<1>5. NoOrphanDownload'
  BY <1>2 DEF TypeOK, NoOrphanDownload, Held, Register, Goto
<1>6. LaunchedIsStored' /\ FreshLaunch' /\ RunningState'
  BY GoroutineParts DEF TypeOK, LaunchedIsStored, FreshLaunch, RunningState, Register, Goto
<1>7. QED
  BY <1>1, <1>3, <1>4, <1>5, <1>6

\* They lose p, the only one of its job.
LEMMA CleanupKeepsIInv ==
  ASSUME IInv, NEW p \in Goroutines, Cleanup(p)
  PROVE  IInv'
<1> USE DEF IInv
<1>1. TypeOK'
  BY GoroutineParts DEF TypeOK, Cleanup, Goto
<1>2. p \in Held /\ Held' = Held \ {p}
  BY DEF TypeOK, Held, Cleanup, Goto
<1>3. \A q \in Held : q[2] = p[2] => q = p
  BY <1>2 DEF OneRunnerPerJob
<1>4. OneRunnerPerJob'
  BY <1>2, <1>3 DEF OneRunnerPerJob, Cleanup
<1>5. CancelReachesRunner'
  BY <1>2, <1>3 DEF CancelReachesRunner, Cleanup
<1>6. NoOrphanDownload'
  BY <1>2 DEF TypeOK, NoOrphanDownload, Held, Cleanup, Goto
<1>7. LaunchedIsStored' /\ FreshLaunch' /\ RunningState'
  BY GoroutineParts DEF TypeOK, LaunchedIsStored, FreshLaunch, RunningState, Cleanup, Goto
<1>8. QED
  BY <1>1, <1>4, <1>5, <1>6, <1>7

-----------------------------------------------------------------------------

LEMMA FrontEndKeepsIInv ==
  ASSUME IInv, FrontEnd
  PROVE  IInv'
<1>1. CASE StartQueued
  BY <1>1, CreateGroupKeepsIInv DEF StartQueued, MayCall
<1>2. CASE RetryStart
  BY <1>2, CreateGroupKeepsIInv DEF RetryStart, IInv, FreshLaunch
<1>3. CASE RetryFailed \/ CancelActive \/ DeleteCompleted \/ ClearErrors
  BY <1>3, RetryFailedKeepsIInv, CancelActiveKeepsIInv, DeleteCompletedKeepsIInv,
     ClearErrorsKeepsIInv
<1>4. CASE \E j \in Jobs : AddURL(j) \/ Launch(j) \/ RetryReset(j) \/ ClearOne(j)
  BY <1>4, AddURLKeepsIInv, LaunchKeepsIInv, RetryResetKeepsIInv, ClearOneKeepsIInv
<1>5. QED
  BY <1>1, <1>2, <1>3, <1>4 DEF FrontEnd

LEMMA GoroutineKeepsIInv ==
  ASSUME IInv, NEW p \in Goroutines, StartOne(p) \/ Finish(p)
  PROVE  IInv'
BY ReadJobKeepsIInv, JobGoneKeepsIInv, RegisterKeepsIInv, AlreadyRunningKeepsIInv,
   BeginKeepsIInv, CleanupKeepsIInv, SucceedKeepsIInv, FailKeepsIInv, EndCanceledKeepsIInv
   DEF StartOne, Finish

LEMMA NextIInv == IInv /\ [Next]_vars => IInv'
<1> SUFFICES ASSUME IInv, [Next]_vars PROVE IInv'
  OBVIOUS
<1>1. CASE FrontEnd
  BY <1>1, FrontEndKeepsIInv
<1>2. CASE Interrupt
  BY <1>2, InterruptKeepsIInv
<1>3. CASE \E p \in Goroutines : StartOne(p) \/ Finish(p)
  BY <1>3, GoroutineKeepsIInv
<1>4. CASE UNCHANGED vars
  BY <1>4 DEF vars, IInv, TypeOK, OneRunnerPerJob, CancelReachesRunner, NoOrphanDownload,
              LaunchedIsStored, FreshLaunch, RunningState, Held
<1>5. QED
  BY <1>1, <1>2, <1>3, <1>4 DEF Next

\* The strengthened invariant holds in every behaviour.
THEOREM Inductive == Spec => []IInv
<1>1. QED
  BY InitIInv, NextIInv, PTL DEF Spec

\* Every variable keeps its type.
THEOREM TypeCorrect == Spec => []TypeOK
<1>1. IInv => TypeOK
  BY DEF IInv
<1>2. QED
  BY <1>1, Inductive, PTL

\* jobRunning admits at most one goroutine of startOne per job, whatever groups
\* StartQueued and RetryFailed create.
THEOREM MutualExclusion == Spec => []OneRunnerPerJob
<1>1. IInv => OneRunnerPerJob
  BY DEF IInv
<1>2. QED
  BY <1>1, Inductive, PTL

\* CancelActive finds a cancel function of each goroutine that owns a job.
THEOREM CancelComplete == Spec => []CancelReachesRunner
<1>1. IInv => CancelReachesRunner
  BY DEF IInv
<1>2. QED
  BY <1>1, Inductive, PTL

\* A DOWNLOADING job always has an engine running for it.
THEOREM DownloadsHaveRunners == Spec => []NoOrphanDownload
<1>1. IInv => NoOrphanDownload
  BY DEF IInv
<1>2. QED
  BY <1>1, Inductive, PTL

\* When Done is true no engine is running for a job of the queue.
THEOREM DoneIsQuiet == Spec => []QuietWhenDone
<1>1. IInv => QuietWhenDone
  BY GoroutineParts DEF IInv, RunningState, QuietWhenDone, Done
<1>2. QED
  BY <1>1, Inductive, PTL

-----------------------------------------------------------------------------
(* A front end that calls nothing but AddURL before its one StartQueued.     *)

\* Up to the first errgroup nothing has run, and there is no second one.
FirstCall ==
  /\ call <= 1
  /\ call = 0 => \A j \in Jobs : job[j].state \in {"NEW", "QUEUED"}
  /\ caller.op # "clear"
  /\ caller.op = "retry" => call = 0 /\ caller.todo = {}

\* A job that has not begun has no attempt yet, and who is to begin it knows so.
Untried ==
  /\ \A j \in Jobs : job[j].state \in {"NEW", "QUEUED"} => job[j].attempts = 0
  /\ caller.op = "launch" => \A j \in caller.todo : job[j].state = "QUEUED"
  /\ \A p \in Goroutines : pc[p] \in {"spawned", "read", "registered"} =>
       job[p[2]].state = "QUEUED" /\ (pc[p] # "spawned" => seen[p] = 0)

\* No one else touches the job of an engine at work.
Undisturbed == \A p \in Goroutines : pc[p] = "running" => job[p[2]].state = "DOWNLOADING"

Once == FirstCall /\ Untried /\ Undisturbed

\* What a step may do to a job: the action of RunsOnce.
Advances(j) ==
  \/ job[j].state = "NEW" /\ job'[j].state = "QUEUED"
  \/ /\ job[j].state = "QUEUED" /\ job'[j].state = "DOWNLOADING"
     /\ job[j].attempts = 0 /\ job'[j].attempts = 1
  \/ /\ job[j].state = "DOWNLOADING" /\ job'[j].state \in {"SUCCESS", "ERROR", "CANCELED"}
     /\ job'[j].attempts = job[j].attempts

LEMMA InitOnce == Init => Once
<1> SUFFICES ASSUME Init PROVE Once
  OBVIOUS
<1>1. FirstCall
  BY DEF Init, FirstCall
<1>2. Untried /\ Undisturbed
  BY GoroutineParts DEF Init, Untried, Undisturbed
<1>3. QED
  BY <1>1, <1>2 DEF Once

\* With one errgroup a job has one goroutine.
LEMMA OneGoroutine ==
  ASSUME IInv, Once, NEW p \in Goroutines, NEW q \in Goroutines,
         pc[p] # "none", pc[q] # "none", p[2] = q[2]
  PROVE  p = q
<1>1. call \in Nat /\ call <= 1
  BY MaxCallsNat DEF IInv, TypeOK, Once, FirstCall
<1>2. p[1] \in Nat \ {0} /\ q[1] \in Nat \ {0}
  BY GoroutineParts, MaxCallsNat
<1>3. ~(p[1] > call) /\ ~(q[1] > call)
  BY DEF IInv, FreshLaunch
<1>4. p[1] = 1 /\ q[1] = 1
  BY <1>1, <1>2, <1>3
<1>5. QED
  BY <1>4, GoroutineParts

LEMMA AddURLOnce ==
  ASSUME LaterOps = {}, IInv, Once, NEW j \in Jobs, AddURL(j)
  PROVE  Once' /\ \A k \in Jobs : job'[k] # job[k] => Advances(k)
<1> USE DEF Once
<1>1. job[j].state = "NEW" /\ job' = [job EXCEPT ![j].state = "QUEUED"]
  BY DEF AddURL
<1>2. \A k \in Jobs : k # j => job'[k] = job[k]
  BY <1>1 DEF IInv, TypeOK
<1>3. job'[j].state = "QUEUED" /\ job'[j].attempts = job[j].attempts
  BY <1>1 DEF IInv, TypeOK
<1>4. FirstCall'
  BY <1>2, <1>3 DEF FirstCall, AddURL
<1>5. \A p \in Goroutines : pc[p] # "none" => p[2] # j
  BY <1>1 DEF IInv, LaunchedIsStored
<1>6. Untried' /\ Undisturbed'
  BY <1>1, <1>2, <1>3, <1>5, GoroutineParts DEF Untried, Undisturbed, AddURL
<1>7. \A k \in Jobs : job'[k] # job[k] => Advances(k)
  BY <1>1, <1>2, <1>3 DEF Advances
<1>8. QED
  BY <1>4, <1>6, <1>7

LEMMA CreateGroupOnce ==
  ASSUME IInv, Once, CreateGroup, call = 0
  PROVE  Once' /\ job' = job
<1> USE DEF Once
<1>1. FirstCall'
  <2>1. call' \in {0, 1} /\ (call' = 0 => caller'.op = "idle") /\ caller'.op \in {"idle", "launch"}
    BY DEF CreateGroup
  <2>2. QED
    BY <2>1 DEF FirstCall, CreateGroup
<1>2. Untried' /\ Undisturbed'
  <2>1. caller'.op = "launch" => \A j \in caller'.todo : job[j].state = "QUEUED"
    BY DEF CreateGroup
  <2>2. QED
    BY <2>1 DEF Untried, Undisturbed, CreateGroup
<1>3. QED
  BY <1>1, <1>2 DEF CreateGroup

LEMMA LaunchOnce ==
  ASSUME IInv, Once, NEW j \in Jobs, Launch(j)
  PROVE  Once' /\ job' = job
<1> USE DEF Once
<1>1. caller' \in {[op |-> "idle", todo |-> {}], [caller EXCEPT !.todo = caller.todo \ {j}]}
  BY DEF Launch
<1>2. FirstCall'
  BY <1>1 DEF IInv, TypeOK, FirstCall, Launch
<1>3. <<call, j>> \in Goroutines /\ job[j].state = "QUEUED"
  BY GoroutineParts DEF IInv, FreshLaunch, TypeOK, Untried, Launch
<1>4. caller'.op = "launch" => caller.op = "launch" /\ caller'.todo \subseteq caller.todo
  BY <1>1 DEF IInv, TypeOK
<1>5. Untried'
  BY <1>3, <1>4, GoroutineParts DEF IInv, TypeOK, Untried, Launch
<1>6. Undisturbed'
  BY <1>3 DEF IInv, TypeOK, Undisturbed, Launch
<1>7. QED
  BY <1>2, <1>5, <1>6 DEF Launch

LEMMA FrontEndOnce ==
  ASSUME LaterOps = {}, IInv, Once, FrontEnd
  PROVE  Once' /\ \A k \in Jobs : job'[k] # job[k] => Advances(k)
<1>1. ASSUME NEW j \in Jobs, AddURL(j)
      PROVE  Once' /\ \A k \in Jobs : job'[k] # job[k] => Advances(k)
  BY <1>1, AddURLOnce
<1>2. CASE StartQueued \/ RetryStart
  <2>1. CreateGroup /\ call = 0
    BY <1>2 DEF StartQueued, MayCall, RetryStart, Once, FirstCall
  <2>2. QED
    BY <2>1, CreateGroupOnce
<1>3. ASSUME NEW j \in Jobs, Launch(j)
      PROVE  Once' /\ job' = job
  BY <1>3, LaunchOnce
<1>4. CASE RetryFailed
  <2>1. call = 0 /\ {j \in Jobs : job[j].state = "ERROR" /\ job[j].retryable} = {}
    BY <1>4 DEF RetryFailed, MayCall, Once, FirstCall
  <2>2. caller' = [op |-> "retry", todo |-> {}]
    BY <1>4, <2>1 DEF RetryFailed
  <2>3. FirstCall'
    BY <1>4, <2>1, <2>2 DEF Once, FirstCall, RetryFailed
  <2>4. Untried' /\ Undisturbed' /\ job' = job
    BY <1>4, <2>2 DEF Once, Untried, Undisturbed, RetryFailed
  <2>5. QED
    BY <2>3, <2>4 DEF Once
<1>5. CASE CancelActive
  BY <1>5 DEF CancelActive, Once, FirstCall, Untried, Undisturbed
<1>6. CASE DeleteCompleted
  <2>1. \A j \in Jobs : job[j].state \in {"NEW", "QUEUED"}
    BY <1>6 DEF DeleteCompleted, MayCall, Once, FirstCall
  <2>2. job' = [j \in Jobs |-> job[j]]
    BY <1>6, <2>1 DEF DeleteCompleted
  <2>3. job' = job
    BY <2>2 DEF IInv, TypeOK
  <2>4. QED
    BY <1>6, <2>3 DEF DeleteCompleted, Once, FirstCall, Untried, Undisturbed
<1>7. ~ClearErrors /\ \A j \in Jobs : ~RetryReset(j) /\ ~ClearOne(j)
  BY DEF ClearErrors, MayCall, RetryReset, ClearOne, Once, FirstCall
<1>8. QED
  BY <1>1, <1>2, <1>3, <1>4, <1>5, <1>6, <1>7 DEF FrontEnd

\* Between its launch and Begin a goroutine finds its job as it was launched.
LEMMA PrepareOnce ==
  ASSUME IInv, Once, NEW p \in Goroutines,
         ReadJob(p) \/ JobGone(p) \/ Register(p) \/ AlreadyRunning(p) \/ Cleanup(p)
  PROVE  Once' /\ job' = job
<1> USE DEF Once
<1>1. FirstCall' /\ job' = job
  BY DEF FirstCall, ReadJob, JobGone, Register, AlreadyRunning, Cleanup
<1>2. /\ \A q \in Goroutines : q # p => pc'[q] = pc[q] /\ seen'[q] = seen[q]
      /\ pc'[p] = "read" =>
           /\ pc[p] = "spawned" /\ seen'[p] = job[p[2]].attempts
      /\ pc'[p] \in {"registered"} => pc[p] = "read" /\ seen'[p] = seen[p]
      /\ pc'[p] \in {"read", "registered", "done"}
      /\ caller' = caller
  BY DEF IInv, TypeOK, ReadJob, JobGone, Register, AlreadyRunning, Cleanup, Goto
<1>3. Untried'
  BY <1>1, <1>2, GoroutineParts DEF Untried
<1>4. Undisturbed'
  BY <1>1, <1>2 DEF Undisturbed
<1>5. QED
  BY <1>1, <1>3, <1>4

\* The job of p goes from state s with n attempts to state t with m of them.
LEMMA PatchOnce ==
  ASSUME IInv, Once, NEW p \in Goroutines, NEW label,
         pc[p] # "none", pc' = [pc EXCEPT ![p] = label],
         UNCHANGED <<seen, caller, call>>,
         job[p[2]].state \in {"QUEUED", "DOWNLOADING"},
         NEW entry, job' = [job EXCEPT ![p[2]] = entry],
         entry.state \in {"DOWNLOADING", "SUCCESS", "ERROR", "CANCELED"},
         label \in {"running", "patched"},
         label = "running" => entry.state = "DOWNLOADING"
  PROVE  Once'
<1> USE DEF Once
<1>1. \A j \in Jobs : IF j = p[2] THEN job'[j] = entry ELSE job'[j] = job[j]
  BY DEF IInv, TypeOK
<1>2. \A q \in Goroutines : q # p /\ pc[q] # "none" => q[2] # p[2]
  BY OneGoroutine
<1>3. \A q \in Goroutines : pc'[q] = IF q = p THEN label ELSE pc[q]
  BY DEF IInv, TypeOK
<1>4. p[2] \in Jobs /\ p[1] \in Nat /\ p[1] >= 1 /\ p[1] <= call /\ call \in Nat
  BY GoroutineParts, MaxCallsNat DEF IInv, TypeOK, FreshLaunch
<1>5. call # 0
  BY <1>4
<1>6. FirstCall'
  BY <1>5 DEF FirstCall
<1>7. caller.op = "launch" => p[2] \notin caller.todo
  <2>1. CASE caller.op = "launch" /\ p[2] \in caller.todo
    <3>1. pc[<<call, p[2]>>] = "none"
      BY <2>1 DEF IInv, FreshLaunch
    <3>2. call = 1 /\ p[1] = 1
      BY <1>4 DEF FirstCall
    <3>3. p = <<call, p[2]>>
      BY <3>2, GoroutineParts
    <3>4. QED
      BY <3>1, <3>3
  <2>2. QED
    BY <2>1
<1>8. \A j \in caller.todo : j \in Jobs
  BY DEF IInv, TypeOK
<1>9. Untried'
  <2>1. \A j \in Jobs : job'[j].state \in {"NEW", "QUEUED"} => job'[j].attempts = 0
    BY <1>1 DEF Untried
  <2>2. caller'.op = "launch" => \A j \in caller'.todo : job'[j].state = "QUEUED"
    BY <1>1, <1>7, <1>8 DEF Untried
  <2>3. \A q \in Goroutines : pc'[q] \in {"spawned", "read", "registered"} =>
          job'[q[2]].state = "QUEUED" /\ (pc'[q] # "spawned" => seen'[q] = 0)
    BY <1>1, <1>2, <1>3, GoroutineParts DEF Untried
  <2>4. QED
    BY <2>1, <2>2, <2>3 DEF Untried
<1>10. Undisturbed'
  BY <1>1, <1>2, <1>3, <1>4, GoroutineParts DEF Undisturbed
<1>11. QED
  BY <1>6, <1>9, <1>10

LEMMA BeginOnce ==
  ASSUME IInv, Once, NEW p \in Goroutines, Begin(p)
  PROVE  Once' /\ \A k \in Jobs : job'[k] # job[k] => Advances(k)
<1> DEFINE entry == [job[p[2]] EXCEPT !.state = "DOWNLOADING", !.attempts = seen[p] + 1]
<1>1. p[2] \in Jobs /\ job[p[2]].state = "QUEUED" /\ seen[p] = 0 /\ job[p[2]].attempts = 0
  BY GoroutineParts DEF Once, Untried, Begin
<1>2. Known(p[2])
  BY <1>1 DEF Known
<1>3. job' = [job EXCEPT ![p[2]] = entry]
  BY <1>2 DEF Begin, Patched
<1>4. entry.state = "DOWNLOADING" /\ entry.attempts = 1
  BY <1>1 DEF IInv, TypeOK
<1>5. /\ pc[p] = "registered" /\ pc' = [pc EXCEPT ![p] = "running"]
      /\ UNCHANGED <<seen, caller, call>>
  BY DEF Begin, Goto
<1> HIDE DEF entry
<1>6. Once'
  BY <1>1, <1>3, <1>4, <1>5, PatchOnce
<1>7. \A k \in Jobs : job'[k] # job[k] => k = p[2] /\ job'[k] = entry
  BY <1>3 DEF IInv, TypeOK
<1>8. QED
  BY <1>1, <1>4, <1>6, <1>7 DEF Advances

LEMMA FinishOnce ==
  ASSUME IInv, Once, NEW p \in Goroutines, Finish(p)
  PROVE  Once' /\ \A k \in Jobs : job'[k] # job[k] => Advances(k)
<1>1. /\ p[2] \in Jobs /\ job[p[2]].state = "DOWNLOADING"
      /\ pc[p] = "running" /\ pc' = [pc EXCEPT ![p] = "patched"]
      /\ UNCHANGED <<seen, caller, call>>
  BY GoroutineParts DEF Once, Undisturbed, Finish, Succeed, Fail, EndCanceled, Goto
<1>2. Known(p[2])
  BY <1>1 DEF Known
<1>3. \E s \in {"SUCCESS", "ERROR", "CANCELED"}, r \in BOOLEAN :
        job' = [job EXCEPT ![p[2]] = [job[p[2]] EXCEPT !.state = s, !.retryable = r]]
  <2>1. CASE Succeed(p)
    <3>1. job[p[2]] \in [state : States, retryable : BOOLEAN, attempts : Nat]
      BY <1>1 DEF IInv, TypeOK
    <3>2. [job[p[2]] EXCEPT !.state = "SUCCESS"] =
            [job[p[2]] EXCEPT !.state = "SUCCESS", !.retryable = job[p[2]].retryable]
      BY <3>1
    <3>3. QED
      BY <1>2, <2>1, <3>1, <3>2 DEF Succeed, Patched
  <2>2. CASE EndCanceled(p)
    BY <1>2, <2>2 DEF EndCanceled, Patched
  <2>3. ASSUME NEW r \in BOOLEAN, Fail(p, r)
        PROVE  job' = [job EXCEPT ![p[2]] = [job[p[2]] EXCEPT !.state = "ERROR", !.retryable = r]]
    BY <1>2, <2>3 DEF Fail, Patched
  <2>4. QED
    BY <2>1, <2>2, <2>3 DEF Finish
<1>4. PICK s \in {"SUCCESS", "ERROR", "CANCELED"}, r \in BOOLEAN :
        job' = [job EXCEPT ![p[2]] = [job[p[2]] EXCEPT !.state = s, !.retryable = r]]
  BY <1>3
<1> DEFINE entry == [job[p[2]] EXCEPT !.state = s, !.retryable = r]
<1>5. job' = [job EXCEPT ![p[2]] = entry]
  BY <1>4
<1>6. entry.state = s /\ entry.attempts = job[p[2]].attempts
  BY <1>1 DEF IInv, TypeOK
<1> HIDE DEF entry
<1>7. Once'
  BY <1>1, <1>5, <1>6, PatchOnce
<1>8. \A k \in Jobs : job'[k] # job[k] => k = p[2] /\ job'[k] = entry
  BY <1>5 DEF IInv, TypeOK
<1>9. QED
  BY <1>1, <1>6, <1>7, <1>8 DEF Advances

LEMMA NextOnce ==
  ASSUME LaterOps = {}, IInv, Once, [Next]_vars
  PROVE  Once' /\ \A k \in Jobs : job'[k] # job[k] => Advances(k)
<1>1. CASE FrontEnd
  BY <1>1, FrontEndOnce
<1>2. CASE Interrupt
  BY <1>2 DEF Interrupt, Once, FirstCall, Untried, Undisturbed
<1>3. ASSUME NEW p \in Goroutines, StartOne(p) \/ Finish(p)
      PROVE  Once' /\ \A k \in Jobs : job'[k] # job[k] => Advances(k)
  BY <1>3, PrepareOnce, BeginOnce, FinishOnce DEF StartOne
<1>4. CASE UNCHANGED vars
  BY <1>4 DEF vars, Once, FirstCall, Untried, Undisturbed
<1>5. QED
  BY <1>1, <1>2, <1>3, <1>4 DEF Next

\* What main.go keeps to: the jobs that have not begun have never been tried, and
\* nothing but its own goroutine touches one that has.
THEOREM OnceInvariant ==
  ASSUME LaterOps = {}
  PROVE  Spec => []Once
<1>1. IInv /\ Once /\ [Next]_vars => Once'
  BY NextOnce
<1>2. QED
  BY <1>1, InitOnce, Inductive, PTL DEF Spec

\* With the one StartQueued of main.go each job is run at most once, and its outcome
\* is final.
THEOREM RunAtMostOnce ==
  ASSUME LaterOps = {}
  PROVE  Spec => RunsOnce
<1>1. IInv /\ Once /\ [Next]_vars =>
        [\A j \in Jobs : job'[j] # job[j] =>
          \/ job[j].state = "NEW" /\ job'[j].state = "QUEUED"
          \/ /\ job[j].state = "QUEUED" /\ job'[j].state = "DOWNLOADING"
             /\ job[j].attempts = 0 /\ job'[j].attempts = 1
          \/ /\ job[j].state = "DOWNLOADING" /\ job'[j].state \in {"SUCCESS", "ERROR", "CANCELED"}
             /\ job'[j].attempts = job[j].attempts]_job
  BY NextOnce DEF Advances
<1>2. QED
  BY <1>1, Inductive, OnceInvariant, PTL DEF Spec, RunsOnce

=============================================================================
