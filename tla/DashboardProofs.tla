----------------------------- MODULE DashboardProofs -----------------------------
(***************************************************************************)
(* What the command line shows and how it ends, for any number of jobs,    *)
(* any limit, any channel that has room for the rows, and any interleaving *)
(* of the threads that send into it.                                       *)
(***************************************************************************)
EXTENDS Dashboard, TLAPS

\* The one errgroup of main: before its Begin a job is QUEUED, while its engine runs
\* it is DOWNLOADING, and what is still to be launched has no goroutine.
Life ==
  /\ caller.op \in {"idle", "launch"}
  /\ caller.op = "launch" =>
       call = 1 /\ \A j \in caller.todo : job[j].state = "QUEUED" /\ pc[<<1, j>>] = "none"
  /\ \A j \in Jobs : /\ job[j].state # "REMOVED"
                     /\ pc[<<1, j>>] \in {"spawned", "read", "registered"} => job[j].state = "QUEUED"
                     /\ pc[<<1, j>>] = "running" => job[j].state = "DOWNLOADING"

\* Until StartQueued main is alone, nobody reads the channel, and each job that was
\* added has cost at most two places in it.
Adding ==
  /\ cli = "adding" =>
       /\ caller.op = "idle"
       /\ \A p \in L!Goroutines : pc[p] = "none" /\ pend[p] = <<>>
       /\ \A j \in Jobs : job[j].state \in {"NEW", "QUEUED"} /\ shown[j] = "none"
       /\ \A i \in 1 .. Len(chan) : chan[i].kind \in {"added", "other"}
       /\ Len(chan) + Len(pend[Main]) <= 2 * Len(order)
  /\ cli # "adding" => pend[Main] = <<>>
  /\ \A i \in 1 .. Len(order) : job[order[i]].state # "NEW"

\* A thread has at most one piece of news to send, and sends it first.
News(ev, j) == ev.job = j /\ Tells(ev)

Shapes ==
  /\ \A t \in Threads : /\ Len(pend[t]) <= 2
                        /\ \A i \in 1 .. Len(pend[t]) : i # 1 => pend[t][i].kind = "other"
  /\ \A p \in L!Goroutines : \A i \in 1 .. Len(pend[p]) : pend[p][i].job = p[2]
  /\ \A i \in 1 .. Len(pend[Main]) : pend[Main][i].kind \in {"added", "other"}

\* No event tells of an outcome that is not the job's.
Honest(ev) == ev.state \in Final => job[ev.job].state = ev.state

HonestEvents ==
  /\ \A t \in Threads : \A i \in 1 .. Len(pend[t]) : Honest(pend[t][i])
  /\ \A i \in 1 .. Len(chan) : Honest(chan[i])

\* Once Done was seen it stays true.
DoneStays == cli \in {"leaving", "0", "2"} => L!Done

\* A row without URL has no entry either, and its JobAdded comes before any other
\* news of it: in the channel, or as what main is about to send while there is room.
Announcing(j) == pend[Main] # <<>> /\ pend[Main][1].job = j /\ pend[Main][1].kind = "added"

Announced ==
  /\ \A j \in Rows : j \in named
       \/ /\ shown[j] = "none"
          /\ \/ Announcing(j)
             \/ \E i \in 1 .. Len(chan) :
                  /\ chan[i].job = j /\ chan[i].kind = "added"
                  /\ \A k \in 1 .. Len(chan) : k < i => ~(chan[k].job = j /\ chan[k].kind \in {"updated", "detail"})
  /\ \A j \in Rows : Announcing(j) => Len(order) <= MaxRows

\* The latest news of a job is true, wherever it is: with the thread that will send
\* it, last in the channel, or on the screen.
Right(state, j) ==
  \/ state = job[j].state
  \/ state = "RETRYING" /\ job[j].state = "DOWNLOADING"

Telling(t, j) == pend[t] # <<>> /\ News(pend[t][1], j)

LatestIsRight(j) ==
  \/ \E t \in Threads : Telling(t, j) /\ Right(pend[t][1].state, j)
  \/ /\ \A t \in Threads : ~Telling(t, j)
     /\ \/ \E i \in 1 .. Len(chan) :
             /\ News(chan[i], j) /\ Right(chan[i].state, j)
             /\ \A k \in 1 .. Len(chan) : i < k => ~News(chan[k], j)
        \/ /\ \A k \in 1 .. Len(chan) : ~News(chan[k], j)
           /\ Right(shown[j], j)

Latest == \A j \in Jobs : L!Known(j) /\ j \notin lost => LatestIsRight(j)

IInv ==
  /\ TypeOK
  /\ Life
  /\ Adding
  /\ Shapes
  /\ HonestEvents
  /\ OutcomeIsTrue
  /\ DoneStays
  /\ ExitCodeIsRight
  /\ Announced
  /\ Latest

-----------------------------------------------------------------------------
(* Threads, sequences                                                        *)

LEMMA ThreadFacts ==
  /\ \A p \in L!Goroutines : p \in Threads /\ p # Main /\ p[2] \in Jobs /\ p = <<1, p[2]>>
  /\ \A j \in Jobs : <<1, j>> \in L!Goroutines /\ <<1, j>>[2] = j
  /\ \A t \in Threads : t = Main \/ t \in L!Goroutines
  /\ Main \in Threads
<1>1. \A p \in L!Goroutines : p[1] = 1 /\ p[2] \in Jobs /\ p = <<p[1], p[2]>>
  BY DEF L!Goroutines
<1>2. Main[1] = 0
  BY DEF Main
<1>3. \A j \in Jobs : <<1, j>> \in L!Goroutines
  BY DEF L!Goroutines
<1>4. QED
  BY <1>1, <1>2, <1>3 DEF Threads

LEMMA AppendFacts ==
  ASSUME NEW S, NEW s \in Seq(S), NEW e \in S
  PROVE  /\ Len(s) \in Nat /\ Append(s, e) \in Seq(S)
         /\ Len(Append(s, e)) = Len(s) + 1
         /\ \A i \in 1 .. Len(s) : Append(s, e)[i] = s[i]
         /\ Append(s, e)[Len(s) + 1] = e
OBVIOUS

LEMMA ElementFacts == \A S : \A s \in Seq(S) : Len(s) \in Nat /\ \A i \in 1 .. Len(s) : s[i] \in S
OBVIOUS

LEMMA EventFacts ==
  \A ev \in Events : ev.job \in Jobs /\ ev.kind \in {"added", "updated", "detail", "other"}
BY DEF Events

LEMMA TailFacts ==
  ASSUME NEW S, NEW s \in Seq(S), s # <<>>
  PROVE  /\ Len(s) \in Nat /\ Len(s) >= 1
         /\ Head(s) = s[1] /\ s[1] \in S
         /\ Tail(s) \in Seq(S) /\ Len(Tail(s)) = Len(s) - 1
         /\ \A i \in 1 .. Len(s) - 1 : Tail(s)[i] = s[i + 1]
OBVIOUS

-----------------------------------------------------------------------------
(* Refinement                                                                *)

\* Whatever the threads of the command line do to the jobs is a step of JobLifecycle.
LEMMA StepRefines == [Next]_vars => [L!Next]_lifecycle
<1> SUFFICES ASSUME [Next]_vars PROVE L!Next \/ UNCHANGED lifecycle
  OBVIOUS
<1>1. CASE StartQueued
  BY <1>1 DEF StartQueued, L!Next, L!FrontEnd
<1>2. CASE RunCLI \/ Receive \/ SeeDone \/ Exit \/ OnInterrupt
  BY <1>2 DEF RunCLI, Receive, SeeDone, Exit, OnInterrupt
<1>3. CASE Interrupt
  BY <1>3 DEF Interrupt, L!Next
<1>4. ASSUME NEW j \in Jobs, AddURL(j) \/ Launch(j)
      PROVE  L!Next
  BY <1>4 DEF AddURL, Launch, L!Next, L!FrontEnd
<1>5. ASSUME NEW t \in Threads, Emit(t)
      PROVE  UNCHANGED lifecycle
  BY <1>5 DEF Emit
<1>6. ASSUME NEW p \in L!Goroutines, Runner(p) \/ Finish(p) \/ Report(p)
      PROVE  L!Next \/ UNCHANGED lifecycle
  <2>1. CASE Prepare(p) \/ Cleanup(p)
    BY <2>1 DEF Prepare, Cleanup, L!Next, L!StartOne
  <2>2. CASE Begin(p) \/ Finish(p)
    BY <2>2 DEF Begin, Finish, Patch, L!Next, L!StartOne
  <2>3. CASE Report(p)
    BY <2>3 DEF Report
  <2>4. QED
    BY <1>6, <2>1, <2>2, <2>3 DEF Runner
<1>7. CASE UNCHANGED vars
  BY <1>7 DEF vars
<1>8. QED
  BY <1>1, <1>2, <1>3, <1>4, <1>5, <1>6, <1>7 DEF Next

\* The jobs of the command line live as JobLifecycle says, with its one StartQueued.
THEOREM Refines == Spec => L!Spec
<1>1. Init => L!Init
  BY DEF Init
<1>2. [Next]_vars => [L!Next]_L!vars
  BY StepRefines DEF lifecycle, L!vars
<1>3. QED
  BY <1>1, <1>2, PTL DEF Spec, L!Spec

-----------------------------------------------------------------------------
(* What the steps of JobLifecycle do to the jobs                             *)

LEMMA AddLife ==
  ASSUME L!TypeOK, Life, NEW j \in Jobs, L!AddURL(j), \A p \in L!Goroutines : pc[p] = "none",
         caller.op = "idle"
  PROVE  /\ L!TypeOK' /\ Life'
         /\ job[j].state = "NEW" /\ job'[j].state = "QUEUED"
         /\ \A k \in Jobs : k # j => job'[k] = job[k]
         /\ UNCHANGED <<caller, pc>>
<1>1. L!TypeOK'
  BY DEF L!TypeOK, L!AddURL, L!States
<1>2. /\ job[j].state = "NEW" /\ job'[j].state = "QUEUED"
      /\ \A k \in Jobs : k # j => job'[k] = job[k]
      /\ UNCHANGED <<caller, pc>>
  BY DEF L!TypeOK, L!AddURL
<1>3. Life'
  BY <1>2, ThreadFacts DEF Life
<1>4. QED
  BY <1>1, <1>2, <1>3

LEMMA StartLife ==
  ASSUME L!TypeOK, Life, L!StartQueued, \A p \in L!Goroutines : pc[p] = "none"
  PROVE  L!TypeOK' /\ Life' /\ job' = job
<1>1. call = 0
  BY DEF L!TypeOK, L!StartQueued
<1>2. L!TypeOK'
  BY <1>1 DEF L!TypeOK, L!StartQueued, L!CreateGroup
<1>3. Life'
  BY <1>1, ThreadFacts DEF Life, L!StartQueued, L!CreateGroup
<1>4. QED
  BY <1>2, <1>3 DEF L!StartQueued, L!CreateGroup

LEMMA LaunchLife ==
  ASSUME L!TypeOK, Life, NEW j \in Jobs, L!Launch(j)
  PROVE  L!TypeOK' /\ Life' /\ job' = job
<1>1. call = 1 /\ job[j].state = "QUEUED" /\ pc' = [pc EXCEPT ![<<1, j>>] = "spawned"]
  BY DEF Life, L!Launch
<1>2. \A k \in Jobs : pc'[<<1, k>>] = IF k = j THEN "spawned" ELSE pc[<<1, k>>]
  BY <1>1, ThreadFacts DEF L!TypeOK
<1>3. /\ caller' \in [op : {"idle", "launch", "retry", "clear"}, todo : SUBSET Jobs]
      /\ caller'.op \in {"idle", "launch"}
      /\ caller'.op = "launch" => caller.op = "launch" /\ caller'.todo = caller.todo \ {j}
  BY DEF L!TypeOK, L!Launch
<1>4. L!TypeOK'
  BY <1>1, <1>3 DEF L!TypeOK, L!Launch
<1>5. Life'
  BY <1>1, <1>2, <1>3 DEF Life, L!TypeOK, L!Launch
<1>6. QED
  BY <1>4, <1>5 DEF L!Launch

LEMMA PrepareLife ==
  ASSUME L!TypeOK, Life, NEW p \in L!Goroutines,
         L!ReadJob(p) \/ L!JobGone(p) \/ L!Register(p) \/ L!AlreadyRunning(p) \/ L!Cleanup(p)
  PROVE  L!TypeOK' /\ Life' /\ job' = job /\ pc[p] # "none" /\ UNCHANGED <<caller, call>>
<1>1. /\ job' = job /\ UNCHANGED <<caller, call, canceled, ctxDone>> /\ pc[p] # "none"
  BY DEF L!ReadJob, L!JobGone, L!Register, L!AlreadyRunning, L!Cleanup
<1>2. \E label \in {"read", "registered", "done"} :
        /\ pc' = [pc EXCEPT ![p] = label]
        /\ label # "done" => pc[p] \in {"spawned", "read"}
  BY DEF L!ReadJob, L!JobGone, L!Register, L!AlreadyRunning, L!Cleanup, L!Goto
<1>3. seen' \in [L!Goroutines -> Nat]
  BY ThreadFacts DEF L!TypeOK, L!ReadJob, L!JobGone, L!Register, L!AlreadyRunning, L!Cleanup
<1>4. running' \subseteq Jobs /\ cancels' \subseteq L!Goroutines
  BY ThreadFacts DEF L!TypeOK, L!ReadJob, L!JobGone, L!Register, L!AlreadyRunning, L!Cleanup
<1>5. L!TypeOK'
  BY <1>1, <1>2, <1>3, <1>4 DEF L!TypeOK
<1>6. Life'
  <2>1. PICK label \in {"read", "registered", "done"} :
          /\ pc' = [pc EXCEPT ![p] = label]
          /\ label # "done" => pc[p] \in {"spawned", "read"}
    BY <1>2
  <2>2. \A k \in Jobs : pc'[<<1, k>>] = IF <<1, k>> = p THEN label ELSE pc[<<1, k>>]
    BY <2>1, ThreadFacts DEF L!TypeOK
  <2>3. p = <<1, p[2]>> /\ p[2] \in Jobs
    BY ThreadFacts
  <2>4. QED
    BY <1>1, <2>1, <2>2, <2>3 DEF Life, L!TypeOK
<1>7. QED
  BY <1>1, <1>5, <1>6

\* p patches the entry of its job.
LEMMA PatchLife ==
  ASSUME L!TypeOK, Life, NEW p \in L!Goroutines, pc[p] # "none",
         NEW entry \in [state : L!States, retryable : BOOLEAN, attempts : Nat],
         job' = [job EXCEPT ![p[2]] = entry], entry.state \in {"DOWNLOADING"} \cup Final,
         NEW label \in {"running", "patched"}, pc' = [pc EXCEPT ![p] = label],
         label = "running" => entry.state = "DOWNLOADING",
         UNCHANGED <<running, cancels, canceled, ctxDone, caller, call, seen>>
  PROVE  /\ L!TypeOK' /\ Life'
         /\ job'[p[2]] = entry
         /\ \A k \in Jobs : k # p[2] => job'[k] = job[k]
<1>1. p = <<1, p[2]>> /\ p[2] \in Jobs
  BY ThreadFacts
<1>2. \A k \in Jobs : pc'[<<1, k>>] = IF k = p[2] THEN label ELSE pc[<<1, k>>]
  BY <1>1, ThreadFacts DEF L!TypeOK
<1>3. \A k \in Jobs : job'[k] = IF k = p[2] THEN entry ELSE job[k]
  BY <1>1 DEF L!TypeOK
<1>4. L!TypeOK'
  BY <1>1 DEF L!TypeOK
<1>5. caller.op = "launch" => p[2] \notin caller.todo
  BY <1>1 DEF Life
<1>6. caller.todo \subseteq Jobs
  BY DEF L!TypeOK
<1>7. Life'
  BY <1>2, <1>3, <1>5, <1>6 DEF Life, Final
<1>8. QED
  BY <1>1, <1>3, <1>4, <1>7

LEMMA BeginLife ==
  ASSUME L!TypeOK, Life, NEW p \in L!Goroutines, L!Begin(p)
  PROVE  /\ L!TypeOK' /\ Life'
         /\ pc[p] # "none" /\ job[p[2]].state = "QUEUED" /\ job'[p[2]].state = "DOWNLOADING"
         /\ \A k \in Jobs : k # p[2] => job'[k] = job[k]
         /\ UNCHANGED <<caller, call>>
<1> DEFINE entry == [job[p[2]] EXCEPT !.state = "DOWNLOADING", !.attempts = seen[p] + 1]
<1>1. p[2] \in Jobs /\ pc[p] = "registered" /\ job[p[2]].state = "QUEUED"
  BY ThreadFacts DEF Life, L!Begin
<1>2. L!Known(p[2])
  BY <1>1 DEF L!Known
<1>3. /\ job' = [job EXCEPT ![p[2]] = entry] /\ pc' = [pc EXCEPT ![p] = "running"]
      /\ UNCHANGED <<running, cancels, canceled, ctxDone, caller, call, seen>>
  BY <1>2 DEF L!Begin, L!Patched, L!Goto
<1>4. entry \in [state : L!States, retryable : BOOLEAN, attempts : Nat]
  <2>1. job[p[2]] \in [state : L!States, retryable : BOOLEAN, attempts : Nat] /\ seen[p] + 1 \in Nat
    BY <1>1 DEF L!TypeOK
  <2>2. QED
    BY <2>1 DEF L!States
<1>5. entry.state = "DOWNLOADING"
  BY <1>1 DEF L!TypeOK
<1> HIDE DEF entry
<1>6. /\ L!TypeOK' /\ Life' /\ job'[p[2]] = entry
      /\ \A k \in Jobs : k # p[2] => job'[k] = job[k]
  BY <1>1, <1>3, <1>4, <1>5, PatchLife
<1>7. QED
  BY <1>1, <1>3, <1>5, <1>6

LEMMA FinishLife ==
  ASSUME L!TypeOK, Life, NEW p \in L!Goroutines, L!Finish(p)
  PROVE  /\ L!TypeOK' /\ Life'
         /\ pc[p] # "none" /\ job[p[2]].state = "DOWNLOADING" /\ job'[p[2]].state \in Final
         /\ \A k \in Jobs : k # p[2] => job'[k] = job[k]
         /\ UNCHANGED <<caller, call>>
<1>1. /\ p[2] \in Jobs /\ pc[p] = "running" /\ job[p[2]].state = "DOWNLOADING"
      /\ pc' = [pc EXCEPT ![p] = "patched"]
      /\ UNCHANGED <<running, cancels, canceled, ctxDone, caller, call, seen>>
  BY ThreadFacts DEF Life, L!Finish, L!Succeed, L!Fail, L!EndCanceled, L!Goto
<1>2. L!Known(p[2]) /\ job[p[2]] \in [state : L!States, retryable : BOOLEAN, attempts : Nat]
  BY <1>1 DEF L!Known, L!TypeOK
<1>3. \E entry \in [state : L!States, retryable : BOOLEAN, attempts : Nat] :
        entry.state \in Final /\ job' = [job EXCEPT ![p[2]] = entry]
  <2>1. CASE L!Succeed(p)
    <3>1. job' = [job EXCEPT ![p[2]] = [job[p[2]] EXCEPT !.state = "SUCCESS"]]
      BY <1>2, <2>1 DEF L!Succeed, L!Patched
    <3>2. QED
      BY <1>2, <3>1 DEF Final, L!States
  <2>2. CASE L!EndCanceled(p)
    <3>1. job' = [job EXCEPT ![p[2]] = [job[p[2]] EXCEPT !.state = "CANCELED", !.retryable = FALSE]]
      BY <1>2, <2>2 DEF L!EndCanceled, L!Patched
    <3>2. QED
      BY <1>2, <3>1 DEF Final, L!States
  <2>3. ASSUME NEW r \in BOOLEAN, L!Fail(p, r)
        PROVE  \E entry \in [state : L!States, retryable : BOOLEAN, attempts : Nat] :
                 entry.state \in Final /\ job' = [job EXCEPT ![p[2]] = entry]
    <3>1. job' = [job EXCEPT ![p[2]] = [job[p[2]] EXCEPT !.state = "ERROR", !.retryable = r]]
      BY <1>2, <2>3 DEF L!Fail, L!Patched
    <3>2. QED
      BY <1>2, <3>1 DEF Final, L!States
  <2>4. QED
    BY <2>1, <2>2, <2>3 DEF L!Finish
<1>4. PICK entry \in [state : L!States, retryable : BOOLEAN, attempts : Nat] :
        entry.state \in Final /\ job' = [job EXCEPT ![p[2]] = entry]
  BY <1>3
<1>5. /\ L!TypeOK' /\ Life' /\ job'[p[2]] = entry
      /\ \A k \in Jobs : k # p[2] => job'[k] = job[k]
  BY <1>1, <1>4, PatchLife
<1>6. QED
  BY <1>1, <1>4, <1>5

-----------------------------------------------------------------------------
(* Steps that send and receive nothing and leave the jobs as they are        *)

Told ==
  Shapes /\ HonestEvents /\ OutcomeIsTrue /\ Announced /\ Latest

LEMMA QuietKeeps ==
  ASSUME Told, UNCHANGED <<job, order, pend, chan, lost, shown, named>>
  PROVE  Told'
<1>1. Shapes' /\ HonestEvents'
  BY DEF Told, Shapes, HonestEvents, Honest
<1>2. OutcomeIsTrue'
  BY DEF Told, OutcomeIsTrue
<1>3. Announced'
  BY DEF Told, Announced, Announcing, Rows
<1>4. Latest'
  BY DEF Told, Latest, LatestIsRight, Telling, News, Tells, Right, L!Known
<1>5. QED
  BY <1>1, <1>2, <1>3, <1>4 DEF Told

\* While main adds jobs it has no exit code, and a goroutine has been launched only
\* after that.
LEMMA AddingFacts ==
  ASSUME IInv
  PROVE  /\ \A p \in L!Goroutines : pc[p] # "none" \/ pend[p] # <<>> => cli # "adding"
         /\ caller.op = "launch" => cli # "adding"
         /\ pend[Main] # <<>> => cli = "adding"
BY DEF IInv, Adding

LEMMA ControlKeepsIInv ==
  ASSUME IInv, UNCHANGED <<job, running, cancels, canceled, caller, call, pc, seen>>,
         ctxDone' \in BOOLEAN,
         UNCHANGED <<order, pend, chan, lost, shown, named>>,
         cli' \in {"adding", "starting", "looping", "leaving"} \cup ExitCodes,
         (cli = "adding") <=> (cli' = "adding"),
         cli' = "leaving" => cli = "leaving" \/ L!Done,
         cli' \in {"0", "2"} => cli' = cli \/ (cli = "leaving" /\ cli' = exitCode)
  PROVE  IInv'
<1>1. TypeOK'
  BY DEF IInv, TypeOK, L!TypeOK
<1>2. Life' /\ Adding'
  BY DEF IInv, Life, Adding
<1>3. Told'
  BY QuietKeeps DEF IInv, Told
<1>4. DoneStays'
  BY DEF IInv, DoneStays, L!Done
<1>5. ExitCodeIsRight'
  <2> SUFFICES ASSUME cli' \in {"0", "2"}
               PROVE  /\ \A j \in Jobs : L!Known(j) => job[j].state \in Final
                      /\ (cli' = "2") <=> \E j \in Jobs : job[j].state = "ERROR"
    BY DEF ExitCodeIsRight, L!Known
  <2>1. CASE cli' = cli
    BY <2>1 DEF IInv, ExitCodeIsRight
  <2>2. CASE cli = "leaving" /\ cli' = exitCode
    <3>1. L!Done
      BY <2>2 DEF IInv, DoneStays
    <3>2. \A j \in Jobs : L!Known(j) => job[j].state \in Final
      BY <3>1 DEF IInv, TypeOK, L!TypeOK, L!States, L!Done, L!Known, Life, Final
    <3>3. QED
      BY <2>2, <3>2 DEF exitCode
  <2>3. QED
    BY <2>1, <2>2
<1>6. QED
  BY <1>1, <1>2, <1>3, <1>4, <1>5 DEF IInv, Told

LEMMA StartQueuedKeepsIInv ==
  ASSUME IInv, StartQueued
  PROVE  IInv'
<1>1. cli = "adding" /\ cli' = "starting" /\ pend[Main] = <<>> /\ L!StartQueued
  BY DEF StartQueued, Ready
<1>2. \A p \in L!Goroutines : pc[p] = "none"
  BY <1>1 DEF IInv, Adding
<1>3. L!TypeOK' /\ Life' /\ job' = job
  BY <1>1, <1>2, StartLife DEF IInv, TypeOK
<1>4. UNCHANGED <<order, pend, chan, lost, shown, named>>
  BY DEF StartQueued, screen
<1>5. TypeOK'
  BY <1>1, <1>3, <1>4 DEF IInv, TypeOK
<1>6. Adding'
  BY <1>1, <1>3, <1>4 DEF IInv, Adding
<1>7. Told'
  BY <1>3, <1>4, QuietKeeps DEF IInv, Told
<1>8. DoneStays' /\ ExitCodeIsRight'
  BY <1>1 DEF DoneStays, ExitCodeIsRight
<1>9. QED
  BY <1>3, <1>5, <1>6, <1>7, <1>8 DEF IInv, Told

\* A launch, or what a goroutine does before its first patch.
LEMMA LifeOnlyKeepsIInv ==
  ASSUME IInv, Alive, cli # "adding", L!TypeOK', Life', job' = job,
         UNCHANGED <<order, pend, chan, lost, screen, cli>>
  PROVE  IInv'
<1>1. TypeOK'
  BY DEF IInv, TypeOK, screen
<1>2. Adding'
  BY DEF IInv, Adding
<1>3. Told'
  BY QuietKeeps DEF IInv, Told, screen
<1>4. DoneStays' /\ ExitCodeIsRight'
  BY DEF IInv, DoneStays, ExitCodeIsRight, L!Done, L!Known
<1>5. QED
  BY <1>1, <1>2, <1>3, <1>4 DEF IInv, Told

LEMMA LaunchKeepsIInv ==
  ASSUME IInv, NEW j \in Jobs, Launch(j)
  PROVE  IInv'
<1>1. L!TypeOK' /\ Life' /\ job' = job
  BY LaunchLife DEF IInv, TypeOK, Launch
<1>2. cli # "adding"
  BY AddingFacts DEF Launch, L!Launch
<1>3. QED
  BY <1>1, <1>2, LifeOnlyKeepsIInv DEF Launch

LEMMA PrepareKeepsIInv ==
  ASSUME IInv, NEW p \in L!Goroutines, Prepare(p)
  PROVE  IInv'
<1>1. L!TypeOK' /\ Life' /\ job' = job /\ pc[p] # "none"
  BY PrepareLife DEF IInv, TypeOK, Prepare
<1>2. cli # "adding"
  BY <1>1, AddingFacts
<1>3. QED
  BY <1>1, <1>2, LifeOnlyKeepsIInv DEF Prepare, Ready

-----------------------------------------------------------------------------
(* What a goroutine is going to send                                         *)

\* p, which has nothing left to send, has done something to its job or seen its engine
\* do something, and is now to send the events evs.
LEMMA PostKeepsIInv ==
  ASSUME IInv, NEW p \in L!Goroutines, Alive, cli # "adding", pend[p] = <<>>,
         L!TypeOK', Life', UNCHANGED <<order, chan, lost, screen, cli>>,
         NEW evs \in Seq(Events), Len(evs) \in {1, 2}, pend' = [pend EXCEPT ![p] = evs],
         \A i \in 1 .. Len(evs) : evs[i].job = p[2] /\ (i # 1 => evs[i].kind = "other"),
         \A i \in 1 .. Len(evs) : evs[i].state \in Final => evs[i].state = job'[p[2]].state,
         \A k \in Jobs : k # p[2] => job'[k] = job[k],
         IF evs[1].kind = "updated"
         THEN /\ \/ evs[1].state = job'[p[2]].state
                 \/ evs[1].state = "RETRYING" /\ job'[p[2]].state = "DOWNLOADING"
              /\ job[p[2]].state \in {"QUEUED", "DOWNLOADING"}
              /\ job'[p[2]].state \in {"DOWNLOADING"} \cup Final
         ELSE evs[1].kind \in {"detail", "other"} /\ job'[p[2]] = job[p[2]]
  PROVE  IInv'
<1>1. p \in Threads /\ p # Main /\ p[2] \in Jobs /\ Main \in Threads
  BY ThreadFacts
<1>2. pend \in [Threads -> Seq(Events)]
  BY DEF IInv, TypeOK
<1>3. \A t \in Threads : pend'[t] = IF t = p THEN evs ELSE pend[t]
  BY <1>2
<1>4. UNCHANGED <<shown, named>>
  BY DEF screen
<1>5. /\ job'[p[2]].state \notin {"NEW", "REMOVED"} <=> job[p[2]].state \notin {"NEW", "REMOVED"}
      /\ job[p[2]].state \in Final => job'[p[2]].state = job[p[2]].state
      /\ job[p[2]].state # "NEW" => job'[p[2]].state # "NEW"
  BY DEF Final
<1>6. \A k \in Jobs : /\ job'[k].state \notin {"NEW", "REMOVED"} <=> job[k].state \notin {"NEW", "REMOVED"}
                      /\ job[k].state \in Final => job'[k].state = job[k].state
                      /\ job[k].state # "NEW" => job'[k].state # "NEW"
  BY <1>5
<1>7. TypeOK'
  BY <1>1, <1>2, <1>4 DEF IInv, TypeOK
<1>8. Adding'
  <2>1. \A i \in 1 .. Len(order) : order[i] \in Jobs
    BY DEF IInv, TypeOK
  <2>2. \A i \in 1 .. Len(order) : job'[order[i]].state # "NEW"
    BY <1>6, <2>1 DEF IInv, Adding
  <2>3. pend'[Main] = <<>>
    BY <1>1, <1>3 DEF IInv, Adding
  <2>4. QED
    BY <2>2, <2>3 DEF Adding
<1>9. Shapes'
  <2>1. \A t \in Threads : /\ Len(pend'[t]) <= 2
                           /\ \A i \in 1 .. Len(pend'[t]) : i # 1 => pend'[t][i].kind = "other"
    BY <1>3 DEF IInv, Shapes
  <2>2. \A q \in L!Goroutines : \A i \in 1 .. Len(pend'[q]) : pend'[q][i].job = q[2]
    BY <1>3, ThreadFacts DEF IInv, Shapes
  <2>3. \A i \in 1 .. Len(pend'[Main]) : pend'[Main][i].kind \in {"added", "other"}
    BY <1>1, <1>3 DEF IInv, Shapes
  <2>4. QED
    BY <2>1, <2>2, <2>3 DEF Shapes
<1>10. HonestEvents'
  <2>1. \A t \in Threads : \A i \in 1 .. Len(pend[t]) : pend[t][i].job \in Jobs
    BY <1>2, ElementFacts, EventFacts
  <2>2. \A i \in 1 .. Len(chan) : chan[i].job \in Jobs
    BY ElementFacts, EventFacts DEF IInv, TypeOK
  <2>3. ASSUME NEW t \in Threads, NEW i \in 1 .. Len(pend'[t]), pend'[t][i].state \in Final
        PROVE  job'[pend'[t][i].job].state = pend'[t][i].state
    <3>1. CASE t = p
      <4>1. pend'[t] = evs
        BY <1>1, <1>3, <3>1
      <4>2. evs[i].job = p[2] /\ evs[i].state = job'[p[2]].state
        BY <2>3, <4>1
      <4>3. QED
        BY <4>1, <4>2
    <3>2. CASE t # p
      <4>1. pend'[t] = pend[t]
        BY <1>3, <3>2
      <4>2. job[pend[t][i].job].state = pend[t][i].state /\ pend[t][i].job \in Jobs
        BY <2>1, <2>3, <4>1 DEF IInv, HonestEvents, Honest
      <4>3. QED
        BY <1>6, <2>3, <4>1, <4>2
    <3>3. QED
      BY <3>1, <3>2
  <2>4. \A i \in 1 .. Len(chan) : chan[i].state \in Final => job'[chan[i].job].state = chan[i].state
    BY <1>6, <2>2 DEF IInv, HonestEvents, Honest
  <2>5. QED
    BY <2>3, <2>4 DEF HonestEvents, Honest
<1>11. OutcomeIsTrue'
  BY <1>4, <1>6 DEF IInv, OutcomeIsTrue
<1>12. DoneStays' /\ ExitCodeIsRight'
  <2>1. cli \notin {"0", "2"}
    BY DEF Alive, ExitCodes
  <2>2. L!Done => evs[1].kind # "updated"
    BY <1>1 DEF L!Done
  <2>3. L!Done => \A k \in Jobs : job'[k] = job[k]
    BY <2>2
  <2>4. L!Done => L!Done'
    BY <2>3 DEF L!Done
  <2>5. QED
    BY <2>1, <2>4 DEF IInv, DoneStays, ExitCodeIsRight
<1>13. Announced'
  <2>1. \A j \in Jobs : ~Announcing(j) /\ ~Announcing(j)'
    BY <1>1, <1>3 DEF IInv, Adding, Announcing
  <2>2. Rows' = Rows /\ Rows \subseteq Jobs
    BY DEF Rows, IInv, TypeOK
  <2>3. QED
    BY <1>4, <2>1, <2>2 DEF IInv, Announced
<1>14. Latest'
  <2> SUFFICES ASSUME NEW j \in Jobs, L!Known(j)', j \notin lost
               PROVE  LatestIsRight(j)'
    BY DEF Latest
  <2>1. LatestIsRight(j)
    BY <1>6 DEF IInv, Latest, L!Known
  <2>2. CASE j = p[2] /\ evs[1].kind = "updated"
    <3>1. pend'[p] = evs /\ evs # <<>>
      BY <1>1, <1>3
    <3>2. evs[1].job = j
      BY <2>2
    <3>3. Telling(p, j)'
      BY <2>2, <3>1, <3>2 DEF Telling, News, Tells
    <3>4. Right(pend[p][1].state, j)'
      BY <2>2, <3>1 DEF Right
    <3>5. QED
      BY <1>1, <3>3, <3>4 DEF LatestIsRight
  <2>3. CASE ~(j = p[2] /\ evs[1].kind = "updated")
    <3>1. ~Telling(p, j)
      BY DEF Telling
    <3>2. pend'[p] = evs /\ evs[1].job = p[2]
      BY <1>1, <1>3
    <3>3. ~Telling(p, j)'
      BY <2>3, <3>2 DEF Telling, News, Tells
    <3>4. \A t \in Threads : t # p => pend'[t] = pend[t]
      BY <1>3
    <3>5. \A t \in Threads : Telling(t, j)' <=> Telling(t, j)
      BY <3>1, <3>3, <3>4 DEF Telling, News, Tells
    <3>6. job'[j] = job[j]
      BY <2>3
    <3>7. QED
      BY <1>4, <2>1, <3>1, <3>4, <3>5, <3>6 DEF LatestIsRight, Right, News, Tells
  <2>4. QED
    BY <2>2, <2>3
<1>15. QED
  BY <1>7, <1>8, <1>9, <1>10, <1>11, <1>12, <1>13, <1>14 DEF IInv

LEMMA PatchKeepsIInv ==
  ASSUME IInv, NEW p \in L!Goroutines, Begin(p) \/ Finish(p)
  PROVE  IInv'
<1> DEFINE evs == <<Updated(p[2], job'[p[2]].state), Other(p[2])>>
<1>1. /\ pend[p] = <<>> /\ Alive /\ pend' = [pend EXCEPT ![p] = evs]
      /\ UNCHANGED <<order, chan, lost, screen, cli>>
      /\ L!Begin(p) \/ L!Finish(p)
  BY DEF Begin, Finish, Patch, Ready, Emits
<1>2. /\ L!TypeOK' /\ Life' /\ pc[p] # "none"
      /\ job[p[2]].state \in {"QUEUED", "DOWNLOADING"}
      /\ job'[p[2]].state \in {"DOWNLOADING"} \cup Final
      /\ \A k \in Jobs : k # p[2] => job'[k] = job[k]
  BY <1>1, BeginLife, FinishLife DEF IInv, TypeOK
<1>3. cli # "adding"
  BY <1>2, AddingFacts
<1>4. p[2] \in Jobs
  BY ThreadFacts
<1>5. /\ evs \in Seq(Events) /\ Len(evs) = 2
      /\ evs[1] = Updated(p[2], job'[p[2]].state) /\ evs[2] = Other(p[2])
  BY <1>2, <1>4 DEF Events, Updated, Other, Final, L!States
<1> HIDE DEF evs
<1>6. /\ evs[1].job = p[2] /\ evs[1].kind = "updated" /\ evs[1].state = job'[p[2]].state
      /\ evs[2].job = p[2] /\ evs[2].kind = "other" /\ evs[2].state = "NEW"
  BY <1>5 DEF Updated, Other
<1>7. /\ \A i \in 1 .. Len(evs) : evs[i].job = p[2] /\ (i # 1 => evs[i].kind = "other")
      /\ \A i \in 1 .. Len(evs) : evs[i].state \in Final => evs[i].state = job'[p[2]].state
  BY <1>5, <1>6 DEF Final
<1>8. QED
  BY <1>1, <1>2, <1>3, <1>5, <1>6, <1>7, PostKeepsIInv

LEMMA ReportKeepsIInv ==
  ASSUME IInv, NEW p \in L!Goroutines, Report(p)
  PROVE  IInv'
<1>1. PICK ev \in Reports(p[2]) : pend' = [pend EXCEPT ![p] = <<ev>>]
  BY DEF Report, Emits
<1> DEFINE evs == <<ev>>
<1>2. /\ pend[p] = <<>> /\ Alive /\ UNCHANGED <<lifecycle, order, chan, lost, screen, cli>>
      /\ pc[p] = "running"
  BY DEF Report, Ready
<1>3. L!TypeOK' /\ Life'
  BY <1>2 DEF IInv, TypeOK, L!TypeOK, Life, lifecycle
<1>4. cli # "adding"
  BY <1>2, AddingFacts
<1>5. p[2] \in Jobs /\ job[p[2]].state = "DOWNLOADING" /\ job' = job
  BY <1>2, ThreadFacts DEF IInv, Life, lifecycle
<1>6. evs \in Seq(Events) /\ Len(evs) \in {1, 2} /\ evs[1] = ev
  BY <1>5 DEF Reports, Events, Updated, Detail, Other, L!States
<1>7. pend' = [pend EXCEPT ![p] = evs] /\ Len(evs) = 1
  BY <1>1
<1> HIDE DEF evs
<1>8. /\ \A i \in 1 .. Len(evs) : evs[i].job = p[2] /\ (i # 1 => evs[i].kind = "other")
      /\ \A i \in 1 .. Len(evs) : evs[i].state \in Final => evs[i].state = job'[p[2]].state
      /\ \/ evs[1].kind = "updated" /\ evs[1].state \in {job'[p[2]].state, "RETRYING"}
         \/ evs[1].kind \in {"detail", "other"}
  BY <1>5, <1>6, <1>7 DEF Reports, Updated, Detail, Other, Final
<1>9. QED
  BY <1>2, <1>3, <1>4, <1>5, <1>6, <1>7, <1>8, PostKeepsIInv

LEMMA CleanupKeepsIInv ==
  ASSUME IInv, NEW p \in L!Goroutines, Cleanup(p)
  PROVE  IInv'
<1> DEFINE evs == <<Other(p[2])>>
<1>1. /\ pend[p] = <<>> /\ Alive /\ pend' = [pend EXCEPT ![p] = evs]
      /\ UNCHANGED <<order, chan, lost, screen, cli>>
      /\ L!Cleanup(p)
  BY DEF Cleanup, Ready, Emits
<1>2. L!TypeOK' /\ Life' /\ job' = job /\ pc[p] # "none"
  BY <1>1, PrepareLife DEF IInv, TypeOK
<1>3. cli # "adding"
  BY <1>2, AddingFacts
<1>4. p[2] \in Jobs
  BY ThreadFacts
<1>5. evs \in Seq(Events) /\ Len(evs) = 1 /\ evs[1] = Other(p[2])
  BY <1>4 DEF Events, Other, L!States
<1> HIDE DEF evs
<1>6. /\ \A i \in 1 .. Len(evs) : evs[i].job = p[2] /\ (i # 1 => evs[i].kind = "other")
      /\ \A i \in 1 .. Len(evs) : evs[i].state \in Final => evs[i].state = job'[p[2]].state
      /\ evs[1].kind = "other"
  BY <1>5 DEF Other, Final
<1>7. QED
  BY <1>1, <1>2, <1>3, <1>5, <1>6, PostKeepsIInv

\* main adds a job: two events to send, into an empty list.
LEMMA AddURLKeepsIInv ==
  ASSUME IInv, NEW j \in Jobs, AddURL(j)
  PROVE  IInv'
<1> DEFINE evs == <<Added(j), Other(j)>>
<1>1. /\ cli = "adding" /\ pend[Main] = <<>> /\ order' = Append(order, j)
      /\ pend' = [pend EXCEPT ![Main] = evs] /\ UNCHANGED <<chan, lost, shown, named, cli>>
  BY DEF AddURL, Ready, Emits, screen
<1>2. /\ caller.op = "idle"
      /\ \A p \in L!Goroutines : pc[p] = "none" /\ pend[p] = <<>>
      /\ \A k \in Jobs : job[k].state \in {"NEW", "QUEUED"} /\ shown[k] = "none"
      /\ \A i \in 1 .. Len(chan) : chan[i].kind \in {"added", "other"}
      /\ Len(chan) + Len(pend[Main]) <= 2 * Len(order)
  BY <1>1 DEF IInv, Adding
<1>3. /\ L!TypeOK' /\ Life'
      /\ job[j].state = "NEW" /\ job'[j].state = "QUEUED"
      /\ \A k \in Jobs : k # j => job'[k] = job[k]
      /\ UNCHANGED <<caller, pc>>
  BY <1>2, AddLife DEF IInv, TypeOK, AddURL
<1>4. /\ evs \in Seq(Events) /\ Len(evs) = 2 /\ evs # <<>>
      /\ evs[1] = Added(j) /\ evs[2] = Other(j)
  BY DEF Events, Added, Other, L!States
<1> HIDE DEF evs
<1>5. /\ evs[1].job = j /\ evs[1].kind = "added" /\ evs[1].state = "QUEUED"
      /\ evs[2].job = j /\ evs[2].kind = "other" /\ evs[2].state = "NEW"
  BY <1>4 DEF Added, Other
<1>6. pend \in [Threads -> Seq(Events)] /\ order \in Seq(Jobs) /\ chan \in Seq(Events)
  BY DEF IInv, TypeOK
<1>7. \A t \in Threads : pend'[t] = IF t = Main THEN evs ELSE <<>>
  BY <1>1, <1>2, <1>6, ThreadFacts
<1>8. /\ Len(order) \in Nat /\ order' \in Seq(Jobs) /\ Len(order') = Len(order) + 1
      /\ \A i \in 1 .. Len(order) : order'[i] = order[i]
      /\ order'[Len(order) + 1] = j
  BY <1>1, <1>6, AppendFacts
<1>9. TypeOK'
  <2>1. pend' \in [Threads -> Seq(Events)]
    BY <1>1, <1>4, <1>6
  <2>2. QED
    BY <1>1, <1>3, <1>8, <2>1 DEF IInv, TypeOK
<1>10. Adding'
  <2>1. \A i \in 1 .. Len(order') : job'[order'[i]].state # "NEW"
    <3>1. \A i \in 1 .. Len(order) : order[i] \in Jobs /\ job[order[i]].state # "NEW"
      BY <1>6, ElementFacts DEF IInv, Adding
    <3>2. \A i \in 1 .. Len(order') : i \in 1 .. Len(order) \/ i = Len(order) + 1
      BY <1>8
    <3>3. \A i \in 1 .. Len(order) : job'[order'[i]].state # "NEW"
      BY <1>3, <1>8, <3>1
    <3>4. QED
      BY <1>3, <1>8, <3>2, <3>3
  <2>2. \A p \in L!Goroutines : pc'[p] = "none" /\ pend'[p] = <<>>
    BY <1>2, <1>3, <1>7, ThreadFacts
  <2>3. Len(chan') + Len(pend'[Main]) <= 2 * Len(order')
    <3>1. Len(chan) \in Nat /\ Len(chan) <= 2 * Len(order)
      BY <1>1, <1>2, <1>6, ElementFacts
    <3>2. Len(pend'[Main]) = 2 /\ chan' = chan
      BY <1>1, <1>4, <1>7, ThreadFacts
    <3>3. QED
      BY <1>8, <3>1, <3>2
  <2>4. \A k \in Jobs : job'[k].state \in {"NEW", "QUEUED"} /\ shown'[k] = "none"
    BY <1>1, <1>2, <1>3
  <2>5. QED
    BY <1>1, <1>2, <1>3, <2>1, <2>2, <2>3, <2>4 DEF Adding
<1>11. Shapes'
  <2>1. \A i \in 1 .. Len(evs) : /\ i # 1 => evs[i].kind = "other"
                                 /\ evs[i].kind \in {"added", "other"}
    BY <1>4, <1>5
  <2>2. \A t \in Threads : /\ Len(pend'[t]) <= 2
                           /\ \A i \in 1 .. Len(pend'[t]) : i # 1 => pend'[t][i].kind = "other"
    <3> SUFFICES ASSUME NEW t \in Threads
                 PROVE  /\ Len(pend'[t]) <= 2
                        /\ \A i \in 1 .. Len(pend'[t]) : i # 1 => pend'[t][i].kind = "other"
      OBVIOUS
    <3>1. CASE pend'[t] = evs
      <4>1. Len(evs) <= 2
        BY <1>4
      <4>2. QED
        BY <2>1, <3>1, <4>1
    <3>2. CASE pend'[t] = <<>>
      BY <3>2
    <3>3. QED
      BY <1>7, <3>1, <3>2
  <2>3. \A p \in L!Goroutines : \A i \in 1 .. Len(pend'[p]) : pend'[p][i].job = p[2]
    BY <1>7, ThreadFacts
  <2>4. \A i \in 1 .. Len(pend'[Main]) : pend'[Main][i].kind \in {"added", "other"}
    BY <1>7, <2>1, ThreadFacts
  <2>5. QED
    BY <2>2, <2>3, <2>4 DEF Shapes
<1>12. HonestEvents'
  <2>1. \A t \in Threads : \A i \in 1 .. Len(pend'[t]) : pend'[t][i].state \notin Final
    <3>1. \A i \in 1 .. Len(evs) : evs[i].state \notin Final
      BY <1>4, <1>5 DEF Final
    <3>2. QED
      BY <1>7, <3>1
  <2>2. \A i \in 1 .. Len(chan) : chan[i].state \notin Final
    <3>1. \A i \in 1 .. Len(chan) : chan[i].job \in Jobs
      BY <1>6, ElementFacts, EventFacts
    <3>2. QED
      BY <1>2, <3>1 DEF IInv, HonestEvents, Honest, Final
  <2>3. QED
    BY <1>1, <2>1, <2>2 DEF HonestEvents, Honest
<1>13. OutcomeIsTrue' /\ DoneStays' /\ ExitCodeIsRight'
  BY <1>1, <1>2 DEF OutcomeIsTrue, DoneStays, ExitCodeIsRight, Final
<1>14. Announced'
  <2>1. \A k \in Rows' : (k \in Rows /\ k # j) \/ (k = j /\ Len(order') <= MaxRows)
    <3> SUFFICES ASSUME NEW i \in 1 .. Len(order'), i <= MaxRows
                 PROVE  \/ order'[i] \in Rows /\ order'[i] # j
                        \/ order'[i] = j /\ Len(order') <= MaxRows
      BY DEF Rows
    <3>1. CASE i = Len(order) + 1
      BY <1>8, <3>1
    <3>2. CASE i \in 1 .. Len(order)
      <4>1. order'[i] = order[i] /\ order[i] \in Rows
        BY <1>8, <3>2 DEF Rows
      <4>2. order[i] # j
        BY <1>3, <3>2 DEF IInv, Adding
      <4>3. QED
        BY <4>1, <4>2
    <3>3. QED
      BY <1>8, <3>1, <3>2
  <2>2. pend'[Main] = evs
    BY <1>7, ThreadFacts
  <2>3. \A k \in Jobs : Announcing(k)' <=> k = j
    BY <1>4, <1>5, <2>2 DEF Announcing
  <2>4. Rows' \subseteq Jobs
    BY <1>8, ElementFacts DEF Rows
  <2>5. \A k \in Rows : ~Announcing(k)
    BY <1>1 DEF Announcing
  <2>6. shown'[j] = "none"
    BY <1>1, <1>2
  <2>7. QED
    BY <1>1, <2>1, <2>3, <2>4, <2>5, <2>6 DEF IInv, Announced
<1>15. Latest'
  <2> SUFFICES ASSUME NEW k \in Jobs, L!Known(k)', k \notin lost
               PROVE  LatestIsRight(k)'
    BY <1>1 DEF Latest
  <2>1. pend'[Main] = evs /\ Main \in Threads
    BY <1>7, ThreadFacts
  <2>2. CASE k = j
    <3>1. Telling(Main, k)'
      BY <1>4, <1>5, <2>1, <2>2 DEF Telling, News, Tells
    <3>2. Right(pend[Main][1].state, k)'
      BY <1>3, <1>5, <2>1, <2>2 DEF Right
    <3>3. QED
      BY <2>1, <3>1, <3>2 DEF LatestIsRight
  <2>3. CASE k # j
    <3>1. job'[k] = job[k] /\ LatestIsRight(k)
      BY <1>3, <2>3 DEF IInv, Latest, L!Known
    <3>2. \A t \in Threads : ~Telling(t, k)
      BY <1>1, <1>2, ThreadFacts DEF Telling
    <3>3. \A t \in Threads : ~Telling(t, k)'
      BY <1>5, <1>7, <2>3 DEF Telling, News, Tells
    <3>4. QED
      BY <1>1, <3>1, <3>2, <3>3 DEF LatestIsRight, Right, News, Tells
  <2>4. QED
    BY <2>2, <2>3
<1>16. QED
  BY <1>3, <1>9, <1>10, <1>11, <1>12, <1>13, <1>14, <1>15 DEF IInv

-----------------------------------------------------------------------------
(* The channel                                                               *)

\* Of the threads only one has news of a job to send.
LEMMA OneTeller ==
  ASSUME IInv, NEW j \in Jobs, NEW t \in Threads, NEW u \in Threads, Telling(t, j), Telling(u, j)
  PROVE  t = u
<1>1. \A p \in L!Goroutines : Telling(p, j) => p[2] = j /\ cli # "adding"
  <2> SUFFICES ASSUME NEW p \in L!Goroutines, Telling(p, j)
               PROVE  p[2] = j /\ cli # "adding"
    OBVIOUS
  <2>1. pend[p] \in Seq(Events) /\ pend[p] # <<>> /\ pend[p][1].job = j
    BY ThreadFacts DEF IInv, TypeOK, Telling, News, Tells
  <2>2. 1 \in 1 .. Len(pend[p])
    BY <2>1, TailFacts
  <2>3. QED
    BY <2>1, <2>2, AddingFacts DEF IInv, Shapes
<1>2. Telling(Main, j) => cli = "adding"
  BY AddingFacts DEF Telling
<1>3. QED
  BY <1>1, <1>2, ThreadFacts

LEMMA EmitKeepsIInv ==
  ASSUME IInv, NEW t \in Threads, Emit(t)
  PROVE  IInv'
<1> DEFINE ev == pend[t][1]
<1>1. pend[t] \in Seq(Events) /\ pend[t] # <<>> /\ chan \in Seq(Events)
  BY DEF IInv, TypeOK, Emit
<1>2. /\ Len(pend[t]) \in Nat /\ Len(pend[t]) >= 1 /\ Head(pend[t]) = ev /\ ev \in Events
      /\ Tail(pend[t]) \in Seq(Events) /\ Len(Tail(pend[t])) = Len(pend[t]) - 1
      /\ \A i \in 1 .. Len(pend[t]) - 1 : Tail(pend[t])[i] = pend[t][i + 1]
  BY <1>1, TailFacts
<1>3. /\ IF Len(chan) < Cap
         THEN chan' = Append(chan, ev) /\ lost' = lost
         ELSE chan' = chan /\ lost' = IF Tells(ev) THEN lost \cup {ev.job} ELSE lost
      /\ pend' = [pend EXCEPT ![t] = Tail(pend[t])]
      /\ UNCHANGED <<job, running, cancels, canceled, ctxDone, caller, call, pc, seen>>
      /\ UNCHANGED <<order, shown, named, cli>> /\ Alive
  BY <1>2 DEF Emit, Emits, lifecycle, screen
<1> HIDE DEF ev
<1>4. \A u \in Threads : pend'[u] = IF u = t THEN Tail(pend[t]) ELSE pend[u]
  BY <1>3 DEF IInv, TypeOK
<1>5. Cap \in Nat /\ MaxRows \in Nat /\ Cap >= 2 * MaxRows
  BY DashboardAssumption DEF DashboardAssumption
<1>6. /\ Len(chan) \in Nat
      /\ Len(chan) < Cap =>
           /\ chan' \in Seq(Events) /\ Len(chan') = Len(chan) + 1
           /\ \A i \in 1 .. Len(chan) : chan'[i] = chan[i]
           /\ chan'[Len(chan) + 1] = ev
      /\ ~(Len(chan) < Cap) => chan' = chan
  <2>1. Len(chan) \in Nat
    BY <1>1, ElementFacts
  <2>2. CASE Len(chan) < Cap
    <3>1. chan' = Append(chan, ev)
      BY <1>3, <2>2
    <3>2. QED
      BY <1>1, <1>2, <2>1, <2>2, <3>1, AppendFacts
  <2>3. CASE ~(Len(chan) < Cap)
    BY <1>3, <2>1, <2>3
  <2>4. QED
    BY <2>1, <2>2, <2>3
<1>7. ev.job \in Jobs
  BY <1>2, EventFacts
<1>8. \A i \in 1 .. Len(Tail(pend[t])) :
        /\ i + 1 \in 1 .. Len(pend[t]) /\ i + 1 # 1
        /\ Tail(pend[t])[i] = pend[t][i + 1] /\ pend[t][i + 1].kind = "other"
  <2> SUFFICES ASSUME NEW i \in 1 .. Len(Tail(pend[t]))
               PROVE  /\ i + 1 \in 1 .. Len(pend[t]) /\ i + 1 # 1
                      /\ Tail(pend[t])[i] = pend[t][i + 1] /\ pend[t][i + 1].kind = "other"
    OBVIOUS
  <2>1. i + 1 \in 1 .. Len(pend[t]) /\ i + 1 # 1 /\ i \in 1 .. Len(pend[t]) - 1
    BY <1>2
  <2>2. QED
    BY <1>2, <2>1 DEF IInv, Shapes
<1>9. TypeOK'
  <2>1. pend' \in [Threads -> Seq(Events)]
    BY <1>2, <1>3 DEF IInv, TypeOK
  <2>2. chan' \in Seq(Events) /\ Len(chan') <= Cap
    BY <1>1, <1>5, <1>6 DEF IInv, TypeOK
  <2>3. lost' \subseteq Jobs
    BY <1>3, <1>7 DEF IInv, TypeOK
  <2>4. L!TypeOK'
    BY <1>3 DEF IInv, TypeOK, L!TypeOK
  <2>5. QED
    BY <1>3, <2>1, <2>2, <2>3, <2>4 DEF IInv, TypeOK
<1>10. Life'
  BY <1>3 DEF IInv, Life
<1>11. t # Main => cli # "adding"
  BY <1>1, AddingFacts, ThreadFacts
<1>12. t = Main => cli = "adding" /\ ev.kind \in {"added", "other"}
  <2>1. 1 \in 1 .. Len(pend[t])
    BY <1>2
  <2>2. QED
    BY <1>1, <2>1, AddingFacts DEF IInv, Shapes, ev
<1>13. Adding'
  <2>1. CASE t = Main
    <3>1. cli = "adding" /\ ev.kind \in {"added", "other"}
      BY <1>12, <2>1
    <3>2. /\ caller.op = "idle"
          /\ \A p \in L!Goroutines : pc[p] = "none" /\ pend[p] = <<>>
          /\ \A j \in Jobs : job[j].state \in {"NEW", "QUEUED"} /\ shown[j] = "none"
          /\ \A i \in 1 .. Len(chan) : chan[i].kind \in {"added", "other"}
          /\ Len(chan) + Len(pend[Main]) <= 2 * Len(order)
      BY <3>1 DEF IInv, Adding
    <3>3. \A i \in 1 .. Len(chan') : chan'[i].kind \in {"added", "other"}
      <4>1. CASE Len(chan) < Cap
        <5>1. \A i \in 1 .. Len(chan') : i \in 1 .. Len(chan) \/ i = Len(chan) + 1
          BY <1>6, <4>1
        <5>2. QED
          BY <1>6, <3>1, <3>2, <4>1, <5>1
      <4>2. CASE ~(Len(chan) < Cap)
        BY <1>6, <3>2, <4>2
      <4>3. QED
        BY <4>1, <4>2
    <3>4. Len(chan') + Len(pend'[Main]) <= 2 * Len(order')
      <4>1. Len(pend'[Main]) = Len(pend[Main]) - 1 /\ Len(pend[Main]) \in Nat
        BY <1>2, <1>4, <2>1
      <4>2. Len(chan') \in {Len(chan), Len(chan) + 1}
        BY <1>6
      <4>3. Len(order) \in Nat /\ order' = order
        BY <1>3, ElementFacts DEF IInv, TypeOK
      <4>4. QED
        BY <1>6, <3>2, <4>1, <4>2, <4>3
    <3>5. \A p \in L!Goroutines : pc'[p] = "none" /\ pend'[p] = <<>>
      BY <1>3, <1>4, <2>1, <3>2, ThreadFacts
    <3>6. \A i \in 1 .. Len(order) : job[order[i]].state # "NEW"
      BY DEF IInv, Adding
    <3>7. QED
      BY <1>3, <3>1, <3>2, <3>3, <3>4, <3>5, <3>6 DEF Adding
  <2>2. CASE t # Main
    BY <1>3, <1>4, <1>11, <2>2, ThreadFacts DEF IInv, Adding
  <2>3. QED
    BY <2>1, <2>2
<1>14. Shapes'
  <2>1. \A u \in Threads : /\ Len(pend'[u]) <= 2
                           /\ \A i \in 1 .. Len(pend'[u]) : i # 1 => pend'[u][i].kind = "other"
    <3>1. Len(Tail(pend[t])) <= 2
      BY <1>2 DEF IInv, Shapes
    <3>2. \A i \in 1 .. Len(Tail(pend[t])) : Tail(pend[t])[i].kind = "other"
      BY <1>8
    <3>3. \A u \in Threads : u # t => /\ Len(pend[u]) <= 2
                                      /\ \A i \in 1 .. Len(pend[u]) : i # 1 => pend[u][i].kind = "other"
      BY DEF IInv, Shapes
    <3>4. ASSUME NEW u \in Threads
          PROVE  /\ Len(pend'[u]) <= 2
                 /\ \A i \in 1 .. Len(pend'[u]) : i # 1 => pend'[u][i].kind = "other"
      <4>1. CASE u = t
        <5>1. pend'[u] = Tail(pend[t])
          BY <1>4, <4>1
        <5>2. QED
          BY <3>1, <3>2, <5>1
      <4>2. CASE u # t
        <5>1. pend'[u] = pend[u]
          BY <1>4, <4>2
        <5>2. QED
          BY <3>3, <4>2, <5>1
      <4>3. QED
        BY <4>1, <4>2
    <3>5. QED
      BY <3>4
  <2>2. \A p \in L!Goroutines : \A i \in 1 .. Len(pend'[p]) : pend'[p][i].job = p[2]
    <3> SUFFICES ASSUME NEW p \in L!Goroutines, NEW i \in 1 .. Len(pend'[p])
                 PROVE  pend'[p][i].job = p[2]
      OBVIOUS
    <3>1. CASE p = t
      <4>1. pend'[p] = Tail(pend[t])
        BY <1>4, <3>1, ThreadFacts
      <4>2. pend'[p][i] = pend[p][i + 1] /\ i + 1 \in 1 .. Len(pend[p])
        BY <1>8, <3>1, <4>1
      <4>3. QED
        BY <4>2 DEF IInv, Shapes
    <3>2. CASE p # t
      BY <1>4, <3>2, ThreadFacts DEF IInv, Shapes
    <3>3. QED
      BY <3>1, <3>2
  <2>3. \A i \in 1 .. Len(pend'[Main]) : pend'[Main][i].kind \in {"added", "other"}
    <3>1. CASE t = Main
      BY <1>4, <1>8, <3>1
    <3>2. CASE t # Main
      BY <1>4, <3>2, ThreadFacts DEF IInv, Shapes
    <3>3. QED
      BY <3>1, <3>2
  <2>4. QED
    BY <2>1, <2>2, <2>3 DEF Shapes
<1>15. HonestEvents'
  <2>1. ev.state \in Final => job[ev.job].state = ev.state
    <3>1. 1 \in 1 .. Len(pend[t])
      BY <1>2
    <3>2. QED
      BY <3>1 DEF IInv, HonestEvents, Honest, ev
  <2>2. ASSUME NEW u \in Threads, NEW i \in 1 .. Len(pend'[u]), pend'[u][i].state \in Final
        PROVE  job[pend'[u][i].job].state = pend'[u][i].state
    <3>1. CASE u = t
      <4>1. pend'[u] = Tail(pend[t])
        BY <1>4, <3>1
      <4>2. pend'[u][i] = pend[t][i + 1] /\ i + 1 \in 1 .. Len(pend[t])
        BY <1>8, <4>1
      <4>3. QED
        BY <2>2, <4>2 DEF IInv, HonestEvents, Honest
    <3>2. CASE u # t
      <4>1. pend'[u] = pend[u]
        BY <1>4, <3>2
      <4>2. QED
        BY <2>2, <4>1 DEF IInv, HonestEvents, Honest
    <3>3. QED
      BY <3>1, <3>2
  <2>3. ASSUME NEW i \in 1 .. Len(chan'), chan'[i].state \in Final
        PROVE  job[chan'[i].job].state = chan'[i].state
    <3>1. chan'[i] = ev \/ (i \in 1 .. Len(chan) /\ chan'[i] = chan[i])
      BY <1>6
    <3>2. QED
      BY <2>1, <2>3, <3>1 DEF IInv, HonestEvents, Honest
  <2>4. QED
    BY <1>3, <2>2, <2>3 DEF HonestEvents, Honest
<1>16. OutcomeIsTrue' /\ DoneStays' /\ ExitCodeIsRight'
  BY <1>3 DEF IInv, OutcomeIsTrue, DoneStays, ExitCodeIsRight, L!Done, L!Known
<1>17. Announced'
  <2>1. Rows' = Rows /\ Rows \subseteq Jobs
    BY <1>3, ElementFacts DEF Rows, IInv, TypeOK
  <2>2. \A j \in Jobs : ~Announcing(j)'
    <3>1. CASE t = Main
      <4>1. pend'[Main] = Tail(pend[t])
        BY <1>4, <3>1
      <4>2. pend'[Main] # <<>> => 1 \in 1 .. Len(Tail(pend[t]))
        BY <1>2, <4>1
      <4>3. pend'[Main] # <<>> => pend'[Main][1].kind = "other"
        BY <1>8, <4>1, <4>2
      <4>4. QED
        BY <4>3 DEF Announcing
    <3>2. CASE t # Main
      BY <1>4, <1>11, <3>2, ThreadFacts DEF IInv, Adding, Announcing
    <3>3. QED
      BY <3>1, <3>2
  <2>3. ASSUME NEW j \in Rows, j \notin named'
        PROVE  /\ shown'[j] = "none"
               /\ \E i \in 1 .. Len(chan') :
                    /\ chan'[i].job = j /\ chan'[i].kind = "added"
                    /\ \A k \in 1 .. Len(chan') :
                         k < i => ~(chan'[k].job = j /\ chan'[k].kind \in {"updated", "detail"})
    <3>1. /\ shown[j] = "none"
          /\ \/ Announcing(j)
             \/ \E i \in 1 .. Len(chan) :
                  /\ chan[i].job = j /\ chan[i].kind = "added"
                  /\ \A k \in 1 .. Len(chan) : k < i => ~(chan[k].job = j /\ chan[k].kind \in {"updated", "detail"})
      BY <1>3, <2>3 DEF IInv, Announced
    <3>2. CASE Announcing(j)
      <4>1. pend[Main] # <<>> /\ pend[Main][1].job = j /\ pend[Main][1].kind = "added"
        BY <3>2 DEF Announcing
      <4>2. cli = "adding" /\ t = Main
        BY <1>11, <4>1, AddingFacts
      <4>3. ev.job = j /\ ev.kind = "added"
        BY <4>1, <4>2 DEF ev
      <4>4. Len(chan) < Cap
        <5>1. Len(order) <= MaxRows /\ Len(order) \in Nat
          BY <3>2, ElementFacts DEF IInv, Announced, TypeOK
        <5>2. Len(chan) + Len(pend[t]) <= 2 * Len(order)
          BY <4>2 DEF IInv, Adding
        <5>3. QED
          BY <1>2, <1>5, <1>6, <5>1, <5>2
      <4>5. \A k \in 1 .. Len(chan) : chan[k].kind \in {"added", "other"}
        BY <4>2 DEF IInv, Adding
      <4>6. /\ Len(chan) + 1 \in 1 .. Len(chan')
            /\ \A k \in 1 .. Len(chan') : k < Len(chan) + 1 => k \in 1 .. Len(chan)
        BY <1>6, <4>4
      <4>7. \A k \in 1 .. Len(chan') : k < Len(chan) + 1 => chan'[k].kind \in {"added", "other"}
        BY <1>6, <4>4, <4>5, <4>6
      <4>8. chan'[Len(chan) + 1].job = j /\ chan'[Len(chan) + 1].kind = "added"
        BY <1>6, <4>3, <4>4
      <4>9. QED
        BY <1>3, <3>1, <4>6, <4>7, <4>8
    <3>3. CASE ~Announcing(j)
      <4>1. PICK i \in 1 .. Len(chan) :
              /\ chan[i].job = j /\ chan[i].kind = "added"
              /\ \A k \in 1 .. Len(chan) : k < i => ~(chan[k].job = j /\ chan[k].kind \in {"updated", "detail"})
        BY <3>1, <3>3
      <4>2. /\ i \in 1 .. Len(chan') /\ chan'[i] = chan[i]
            /\ \A k \in 1 .. Len(chan') : k < i => k \in 1 .. Len(chan) /\ chan'[k] = chan[k]
        BY <1>6
      <4>3. QED
        BY <1>3, <3>1, <4>1, <4>2
    <3>4. QED
      BY <3>2, <3>3
  <2>4. QED
    BY <2>1, <2>2, <2>3 DEF Announced
<1>18. Latest'
  <2> SUFFICES ASSUME NEW j \in Jobs, L!Known(j)', j \notin lost'
               PROVE  LatestIsRight(j)'
    BY DEF Latest
  <2>1. LatestIsRight(j)
    <3>1. j \notin lost /\ L!Known(j)
      BY <1>3 DEF L!Known
    <3>2. QED
      BY <3>1 DEF IInv, Latest
  <2>2. ~Telling(t, j)'
    <3>1. pend'[t] = Tail(pend[t])
      BY <1>4
    <3>2. pend'[t] # <<>> => 1 \in 1 .. Len(Tail(pend[t]))
      BY <1>2, <3>1
    <3>3. pend'[t] # <<>> => pend'[t][1].kind = "other"
      BY <1>8, <3>1, <3>2
    <3>4. QED
      BY <3>3 DEF Telling, News, Tells
  <2>3. \A u \in Threads : u # t => pend'[u] = pend[u] /\ (Telling(u, j)' <=> Telling(u, j))
    BY <1>4 DEF Telling, News, Tells
  <2>4. CASE News(ev, j)
    <3>1. Telling(t, j)
      BY <1>1, <2>4 DEF Telling, ev
    <3>2. \A u \in Threads : Telling(u, j) => u = t
      BY <3>1, OneTeller
    <3>3. Right(ev.state, j)
      BY <2>1, <3>1, <3>2 DEF LatestIsRight, ev
    <3>4. Len(chan) < Cap
      BY <1>3, <2>4 DEF News, Tells
    <3>5. \A u \in Threads : ~Telling(u, j)'
      BY <2>2, <2>3, <3>2
    <3>6. /\ Len(chan) + 1 \in 1 .. Len(chan') /\ chan'[Len(chan) + 1] = ev
          /\ \A k \in 1 .. Len(chan') : ~(Len(chan) + 1 < k)
      BY <1>6, <3>4
    <3>7. News(chan'[Len(chan) + 1], j)
      BY <2>4, <3>6
    <3>8. \E i \in 1 .. Len(chan') :
            /\ News(chan'[i], j)
            /\ chan'[i].state = job'[j].state \/ (chan'[i].state = "RETRYING" /\ job'[j].state = "DOWNLOADING")
            /\ \A k \in 1 .. Len(chan') : i < k => ~News(chan'[k], j)
      BY <1>3, <3>3, <3>6, <3>7 DEF Right
    <3>9. QED
      BY <3>5, <3>8 DEF LatestIsRight, Right, News, Tells
  <2>5. CASE ~News(ev, j)
    <3>1. ~Telling(t, j)
      BY <2>5 DEF Telling, ev
    <3>2. CASE \E u \in Threads : Telling(u, j) /\ Right(pend[u][1].state, j)
      <4>1. PICK u \in Threads : Telling(u, j) /\ Right(pend[u][1].state, j)
        BY <3>2
      <4>2. u # t
        BY <3>1, <4>1
      <4>3. Telling(u, j)' /\ pend'[u] = pend[u]
        BY <2>3, <4>1, <4>2
      <4>4. Right(pend[u][1].state, j)'
        BY <1>3, <4>1, <4>3 DEF Right
      <4>5. QED
        BY <4>3, <4>4 DEF LatestIsRight
    <3>3. CASE ~\E u \in Threads : Telling(u, j) /\ Right(pend[u][1].state, j)
      <4>1. \A u \in Threads : ~Telling(u, j)
        BY <2>1, <3>3 DEF LatestIsRight
      <4>2. \A u \in Threads : ~Telling(u, j)'
        BY <2>2, <2>3, <4>1
      <4>3. \A k \in 1 .. Len(chan') : (k \in 1 .. Len(chan) /\ chan'[k] = chan[k]) \/ chan'[k] = ev
        BY <1>6
      <4>4. CASE \E i \in 1 .. Len(chan) :
                   /\ News(chan[i], j) /\ Right(chan[i].state, j)
                   /\ \A k \in 1 .. Len(chan) : i < k => ~News(chan[k], j)
        <5>1. PICK i \in 1 .. Len(chan) :
                /\ News(chan[i], j) /\ Right(chan[i].state, j)
                /\ \A k \in 1 .. Len(chan) : i < k => ~News(chan[k], j)
          BY <4>4
        <5>2. i \in 1 .. Len(chan') /\ chan'[i] = chan[i]
          BY <1>6
        <5>3. \A k \in 1 .. Len(chan') : i < k => ~News(chan'[k], j)
          BY <2>5, <4>3, <5>1
        <5>4. /\ News(chan'[i], j)
              /\ chan'[i].state = job'[j].state \/ (chan'[i].state = "RETRYING" /\ job'[j].state = "DOWNLOADING")
          BY <1>3, <5>1, <5>2 DEF Right
        <5>5. QED
          BY <4>2, <5>2, <5>3, <5>4 DEF LatestIsRight, Right, News, Tells
      <4>5. CASE (\A k \in 1 .. Len(chan) : ~News(chan[k], j)) /\ Right(shown[j], j)
        <5>1. \A k \in 1 .. Len(chan') : ~News(chan'[k], j)
          BY <2>5, <4>3, <4>5
        <5>2. Right(shown[j], j)'
          BY <1>3, <4>5 DEF Right
        <5>3. QED
          BY <4>2, <5>1, <5>2 DEF LatestIsRight, News, Tells
      <4>6. QED
        BY <2>1, <3>3, <4>4, <4>5 DEF LatestIsRight
    <3>4. QED
      BY <3>2, <3>3
  <2>6. QED
    BY <2>4, <2>5
<1>19. QED
  BY <1>9, <1>10, <1>13, <1>14, <1>15, <1>16, <1>17, <1>18 DEF IInv

\* runCLI takes the first event.
LEMMA ReceiveKeepsIInv ==
  ASSUME IInv, Receive
  PROVE  IInv'
<1> DEFINE ev == chan[1]
<1>1. chan \in Seq(Events) /\ chan # <<>> /\ cli = "looping"
  BY DEF IInv, TypeOK, Receive
<1>2. /\ Len(chan) \in Nat /\ Len(chan) >= 1 /\ Head(chan) = ev /\ ev \in Events
      /\ Tail(chan) \in Seq(Events) /\ Len(Tail(chan)) = Len(chan) - 1
      /\ \A i \in 1 .. Len(chan) - 1 : Tail(chan)[i] = chan[i + 1]
  BY <1>1, TailFacts
<1>3. /\ shown' = IF Tells(ev) \/ (ev.kind = "detail" /\ shown[ev.job] = "none")
               THEN [shown EXCEPT ![ev.job] = ev.state] ELSE shown
      /\ named' = IF ev.kind = "added" THEN named \cup {ev.job} ELSE named
      /\ chan' = Tail(chan)
      /\ UNCHANGED <<job, running, cancels, canceled, ctxDone, caller, call, pc, seen>>
      /\ UNCHANGED <<order, pend, lost, cli>>
  BY <1>2 DEF Receive, lifecycle
<1>4. 1 \in 1 .. Len(chan) /\ ev.job \in Jobs
  BY <1>2, EventFacts
<1>5. ev.state \in Final => job[ev.job].state = ev.state
  BY <1>4 DEF IInv, HonestEvents, Honest
<1>6. ev.state \in L!States \cup {"RETRYING"}
  BY <1>2 DEF Events
<1> HIDE DEF ev
<1>7. \A j \in Jobs : shown'[j] = IF News(ev, j) \/ (ev.job = j /\ ev.kind = "detail" /\ shown[j] = "none")
                               THEN ev.state ELSE shown[j]
  BY <1>3 DEF IInv, TypeOK, News, Tells
<1>8. /\ Len(chan') = Len(chan) - 1
      /\ \A i \in 1 .. Len(chan') : i + 1 \in 1 .. Len(chan) /\ chan'[i] = chan[i + 1]
      /\ \A i \in 1 .. Len(chan) : i = 1 \/ (i - 1 \in 1 .. Len(chan') /\ chan'[i - 1] = chan[i])
  BY <1>2, <1>3
<1>9. chan[1] = ev
  BY DEF ev
<1>10. TypeOK'
  <2>1. shown' \in [Jobs -> L!States \cup {"none", "RETRYING"}] /\ named' \subseteq Jobs
    BY <1>3, <1>4, <1>6 DEF IInv, TypeOK
  <2>2. chan' \in Seq(Events) /\ Len(chan') <= Cap
    <3>1. Len(chan) <= Cap /\ Cap \in Nat
      BY DashboardAssumption DEF DashboardAssumption, IInv, TypeOK
    <3>2. QED
      BY <1>2, <1>3, <1>8, <3>1
  <2>3. L!TypeOK'
    BY <1>3 DEF IInv, TypeOK, L!TypeOK
  <2>4. QED
    BY <1>3, <2>1, <2>2, <2>3 DEF IInv, TypeOK
<1>11. Life' /\ Adding' /\ Shapes'
  BY <1>1, <1>3 DEF IInv, Life, Adding, Shapes
<1>12. HonestEvents'
  <2>1. ASSUME NEW i \in 1 .. Len(chan'), chan'[i].state \in Final
        PROVE  job[chan'[i].job].state = chan'[i].state
    BY <1>8, <2>1 DEF IInv, HonestEvents, Honest
  <2>2. QED
    BY <1>3, <2>1 DEF IInv, HonestEvents, Honest
<1>13. OutcomeIsTrue'
  BY <1>3, <1>5, <1>7 DEF IInv, OutcomeIsTrue, News, Tells
<1>14. DoneStays' /\ ExitCodeIsRight'
  BY <1>1, <1>3 DEF DoneStays, ExitCodeIsRight
<1>15. Announced'
  <2>1. Rows' = Rows /\ Rows \subseteq Jobs
    BY <1>3, ElementFacts DEF Rows, IInv, TypeOK
  <2>2. \A j \in Jobs : ~Announcing(j) /\ ~Announcing(j)'
    BY <1>1, <1>3 DEF IInv, Adding, Announcing
  <2>3. ASSUME NEW j \in Rows, j \notin named'
        PROVE  /\ shown'[j] = "none"
               /\ \E i \in 1 .. Len(chan') :
                    /\ chan'[i].job = j /\ chan'[i].kind = "added"
                    /\ \A k \in 1 .. Len(chan') :
                         k < i => ~(chan'[k].job = j /\ chan'[k].kind \in {"updated", "detail"})
    <3>1. j \notin named /\ ~(ev.job = j /\ ev.kind = "added")
      BY <1>3, <2>3
    <3>2. shown[j] = "none"
      BY <2>1, <3>1 DEF IInv, Announced
    <3>3. PICK i \in 1 .. Len(chan) :
            /\ chan[i].job = j /\ chan[i].kind = "added"
            /\ \A k \in 1 .. Len(chan) : k < i => ~(chan[k].job = j /\ chan[k].kind \in {"updated", "detail"})
      BY <2>1, <2>2, <3>1 DEF IInv, Announced
    <3>4. i # 1
      BY <1>9, <3>1, <3>3
    <3>5. i - 1 \in 1 .. Len(chan') /\ chan'[i - 1] = chan[i]
      BY <1>8, <3>4
    <3>6. ~(ev.job = j /\ ev.kind \in {"updated", "detail"})
      <4>1. 1 < i
        BY <1>2, <3>4
      <4>2. QED
        BY <1>4, <1>9, <3>3, <4>1
    <3>7. ~News(ev, j)
      BY <1>2, <3>1, <3>6, EventFacts DEF News, Tells
    <3>8. \A k \in 1 .. Len(chan') : k < i - 1 => ~(chan'[k].job = j /\ chan'[k].kind \in {"updated", "detail"})
      BY <1>2, <1>8, <3>3
    <3>9. shown'[j] = "none"
      BY <1>7, <2>1, <3>2, <3>6, <3>7
    <3>10. QED
      BY <3>3, <3>5, <3>8, <3>9
  <2>4. QED
    BY <2>1, <2>2, <2>3 DEF Announced
<1>16. Latest'
  <2> SUFFICES ASSUME NEW j \in Jobs, L!Known(j)', j \notin lost'
               PROVE  LatestIsRight(j)'
    BY DEF Latest
  <2>1. LatestIsRight(j)
    <3>1. j \notin lost /\ L!Known(j)
      BY <1>3 DEF L!Known
    <3>2. QED
      BY <3>1 DEF IInv, Latest
  <2>2. \A u \in Threads : Telling(u, j)' <=> Telling(u, j)
    BY <1>3 DEF Telling, News, Tells
  <2>3. CASE \E u \in Threads : Telling(u, j) /\ Right(pend[u][1].state, j)
    BY <1>3, <2>2, <2>3 DEF LatestIsRight, Right
  <2>4. CASE ~\E u \in Threads : Telling(u, j) /\ Right(pend[u][1].state, j)
    <3>1. \A u \in Threads : ~Telling(u, j)'
      BY <2>1, <2>2, <2>4 DEF LatestIsRight
    <3>2. CASE \E i \in 1 .. Len(chan) :
                 /\ News(chan[i], j) /\ Right(chan[i].state, j)
                 /\ \A k \in 1 .. Len(chan) : i < k => ~News(chan[k], j)
      <4>1. PICK i \in 1 .. Len(chan) :
              /\ News(chan[i], j) /\ Right(chan[i].state, j)
              /\ \A k \in 1 .. Len(chan) : i < k => ~News(chan[k], j)
        BY <3>2
      <4>2. CASE i = 1
        <5>1. \A k \in 1 .. Len(chan') : ~News(chan'[k], j)
          BY <1>2, <1>8, <4>1, <4>2
        <5>2. shown'[j] = chan[i].state
          BY <1>7, <1>9, <4>1, <4>2
        <5>3. Right(shown[j], j)'
          BY <1>3, <4>1, <5>2 DEF Right
        <5>4. QED
          BY <3>1, <5>1, <5>3 DEF LatestIsRight, News, Tells
      <4>3. CASE i # 1
        <5>1. i - 1 \in 1 .. Len(chan') /\ chan'[i - 1] = chan[i]
          BY <1>8, <4>3
        <5>2. \A k \in 1 .. Len(chan') : i - 1 < k => ~News(chan'[k], j)
          BY <1>2, <1>8, <4>1
        <5>3. /\ News(chan'[i - 1], j)
              /\ \/ chan'[i - 1].state = job'[j].state
                 \/ chan'[i - 1].state = "RETRYING" /\ job'[j].state = "DOWNLOADING"
          BY <1>3, <4>1, <5>1 DEF Right
        <5>4. QED
          BY <3>1, <5>1, <5>2, <5>3 DEF LatestIsRight, Right, News, Tells
      <4>4. QED
        BY <4>2, <4>3
    <3>3. CASE (\A k \in 1 .. Len(chan) : ~News(chan[k], j)) /\ Right(shown[j], j)
      <4>1. \A k \in 1 .. Len(chan') : ~News(chan'[k], j)
        BY <1>8, <3>3
      <4>2. shown'[j] = shown[j]
        <5>1. ~News(ev, j)
          BY <1>4, <1>9, <3>3
        <5>2. shown[j] # "none"
          BY <3>3 DEF Right, IInv, TypeOK, L!TypeOK, L!States
        <5>3. QED
          BY <1>7, <5>1, <5>2
      <4>3. Right(shown[j], j)'
        BY <1>3, <3>3, <4>2 DEF Right
      <4>4. QED
        BY <3>1, <4>1, <4>3 DEF LatestIsRight, News, Tells
    <3>4. QED
      BY <2>1, <2>4, <3>2, <3>3 DEF LatestIsRight
  <2>5. QED
    BY <2>3, <2>4
<1>17. QED
  BY <1>10, <1>11, <1>12, <1>13, <1>14, <1>15, <1>16 DEF IInv

-----------------------------------------------------------------------------

LEMMA InitIInv == Init => IInv
<1> SUFFICES ASSUME Init PROVE IInv
  OBVIOUS
<1>1. L!TypeOK
  <2>1. job \in [Jobs -> [state : L!States, retryable : BOOLEAN, attempts : Nat]]
    BY DEF Init, L!Init, L!States
  <2>2. caller \in [op : {"idle", "launch", "retry", "clear"}, todo : SUBSET Jobs]
    BY DEF Init, L!Init
  <2>3. /\ pc \in [L!Goroutines -> {"none", "spawned", "read", "registered", "running",
                                    "patched", "done"}]
        /\ seen \in [L!Goroutines -> Nat]
    BY DEF Init, L!Init
  <2>4. /\ running \subseteq Jobs /\ cancels \subseteq L!Goroutines
        /\ canceled \subseteq L!Goroutines /\ call \in 0 .. 1
    BY DEF Init, L!Init
  <2>5. ctxDone \in BOOLEAN
    BY Zenon DEF Init, L!Init
  <2>6. QED
    BY <2>1, <2>2, <2>3, <2>4, <2>5 DEF L!TypeOK
<1>2. TypeOK
  <2>1. /\ <<>> \in Seq(Events) /\ <<>> \in Seq(Jobs) /\ Len(<<>>) = 0 /\ Cap \in Nat
    BY DashboardAssumption DEF DashboardAssumption
  <2>2. QED
    BY <1>1, <2>1 DEF Init, TypeOK
<1>3. /\ caller.op = "idle"
      /\ \A p \in L!Goroutines : pc[p] = "none" /\ pend[p] = <<>>
      /\ \A j \in Jobs : job[j].state = "NEW" /\ shown[j] = "none"
      /\ pend[Main] = <<>> /\ chan = <<>> /\ order = <<>> /\ cli = "adding"
      /\ \A t \in Threads : pend[t] = <<>>
  BY ThreadFacts DEF Init, L!Init
<1>4. Life
  BY <1>3, ThreadFacts DEF Life
<1>5. Adding
  BY <1>3 DEF Adding
<1>6. Shapes /\ HonestEvents
  BY <1>3, ThreadFacts DEF Shapes, HonestEvents
<1>7. OutcomeIsTrue /\ DoneStays /\ ExitCodeIsRight
  BY <1>3 DEF OutcomeIsTrue, DoneStays, ExitCodeIsRight, Final
<1>8. Announced
  BY <1>3 DEF Announced, Rows
<1>9. Latest
  BY <1>3 DEF Latest, L!Known
<1>10. QED
  BY <1>2, <1>4, <1>5, <1>6, <1>7, <1>8, <1>9 DEF IInv

LEMMA StepKeepsIInv == IInv /\ [Next]_vars => IInv'
<1> SUFFICES ASSUME IInv, [Next]_vars PROVE IInv'
  OBVIOUS
<1> USE DEF ExitCodes
<1>1. CASE RunCLI \/ SeeDone \/ Exit \/ OnInterrupt
  <2>1. UNCHANGED <<job, running, cancels, canceled, ctxDone, caller, call, pc, seen>>
    BY <1>1 DEF RunCLI, SeeDone, Exit, OnInterrupt, lifecycle
  <2>2. UNCHANGED <<order, pend, chan, lost, shown, named>>
    BY <1>1 DEF RunCLI, SeeDone, Exit, OnInterrupt, screen
  <2>3. /\ cli # "adding" /\ cli' \in {"looping", "leaving"} \cup ExitCodes
        /\ cli' = "leaving" => L!Done
        /\ cli' \in {"0", "2"} => cli = "leaving" /\ cli' = exitCode
    BY <1>1 DEF RunCLI, SeeDone, Exit, OnInterrupt, exitCode
  <2>4. ctxDone' \in BOOLEAN
    BY <2>1 DEF IInv, TypeOK, L!TypeOK
  <2>5. QED
    BY <2>1, <2>2, <2>3, <2>4, ControlKeepsIInv
<1>2. CASE Interrupt
  <2>1. /\ UNCHANGED <<job, running, cancels, canceled, caller, call, pc, seen>>
        /\ ctxDone' \in BOOLEAN
        /\ UNCHANGED <<order, pend, chan, lost, shown, named, cli>>
    BY <1>2 DEF Interrupt, L!Interrupt, screen
  <2>2. cli \in {"adding", "starting", "looping", "leaving"} \cup ExitCodes
    BY DEF IInv, TypeOK
  <2>3. QED
    BY <2>1, <2>2, ControlKeepsIInv
<1>3. CASE UNCHANGED vars
  <2>1. /\ UNCHANGED <<job, running, cancels, canceled, ctxDone, caller, call, pc, seen>>
        /\ UNCHANGED <<order, pend, chan, lost, shown, named, cli>>
    BY <1>3 DEF vars, lifecycle, screen
  <2>2. ctxDone \in BOOLEAN /\ cli \in {"adding", "starting", "looping", "leaving"} \cup ExitCodes
    BY DEF IInv, TypeOK, L!TypeOK
  <2>3. QED
    BY <2>1, <2>2, ControlKeepsIInv
<1>4. CASE StartQueued \/ Receive
  BY <1>4, StartQueuedKeepsIInv, ReceiveKeepsIInv
<1>5. ASSUME NEW j \in Jobs, AddURL(j) \/ Launch(j)
      PROVE  IInv'
  BY <1>5, AddURLKeepsIInv, LaunchKeepsIInv
<1>6. ASSUME NEW t \in Threads, Emit(t)
      PROVE  IInv'
  BY <1>6, EmitKeepsIInv
<1>7. ASSUME NEW p \in L!Goroutines, Runner(p) \/ Finish(p) \/ Report(p)
      PROVE  IInv'
  BY <1>7, PrepareKeepsIInv, PatchKeepsIInv, CleanupKeepsIInv, ReportKeepsIInv DEF Runner
<1>8. QED
  BY <1>1, <1>2, <1>3, <1>4, <1>5, <1>6, <1>7 DEF Next

-----------------------------------------------------------------------------

\* The inductive invariant of Dashboard.
THEOREM Inductive == Spec => []IInv
BY InitIInv, StepKeepsIInv, PTL DEF Spec

\* Jobs, threads, channel and screen keep their types, and the channel its capacity.
THEOREM TypeCorrect == Spec => []TypeOK
BY Inductive, PTL DEF IInv

\* Whatever was dropped, the screen never shows an outcome that is not the job's.
THEOREM OutcomesTrue == Spec => []OutcomeIsTrue
BY Inductive, PTL DEF IInv

\* The exit code that main takes from a second snapshot is the one of a queue in which
\* every job has ended.
THEOREM ExitCodeRight == Spec => []ExitCodeIsRight
BY Inductive, PTL DEF IInv

\* printNow never meets a row whose entry has no URL, as long as the channel has room
\* for two events of each row.
THEOREM RowsNamed == Spec => []RowsHaveURL
<1>1. IInv => RowsHaveURL
  BY DEF IInv, Announced, RowsHaveURL
<1>2. QED
  BY <1>1, Inductive, PTL

\* Reports, patches and the loop of runCLI never get into each other's way: when no
\* event of a job is underway and none was dropped, the screen shows its state.
THEOREM ScreenRight == Spec => []ScreenCatchesUp
<1>1. ASSUME IInv, NEW j \in Jobs, L!Known(j), j \notin lost, ~Underway(j)
      PROVE  Agrees(j)
  <2>1. LatestIsRight(j)
    BY <1>1 DEF IInv, Latest
  <2>2. \A t \in Threads : ~Telling(t, j)
    <3> SUFFICES ASSUME NEW t \in Threads, Telling(t, j) PROVE FALSE
      OBVIOUS
    <3>1. pend[t] \in Seq(Events) /\ pend[t] # <<>> /\ pend[t][1].job = j
      BY <1>1 DEF IInv, TypeOK, Telling, News, Tells
    <3>2. 1 \in 1 .. Len(pend[t])
      BY <3>1, TailFacts
    <3>3. QED
      BY <1>1, <3>1, <3>2 DEF Underway
  <2>3. \A k \in 1 .. Len(chan) : ~News(chan[k], j)
    BY <1>1 DEF Underway, News, Tells
  <2>4. Right(shown[j], j)
    BY <2>1, <2>2, <2>3 DEF LatestIsRight
  <2>5. QED
    BY <2>4 DEF Right, Agrees
<1>2. IInv => ScreenCatchesUp
  BY <1>1 DEF ScreenCatchesUp
<1>3. QED
  BY <1>2, Inductive, PTL

=============================================================================
