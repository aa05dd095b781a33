------------------------------- MODULE Dashboard -------------------------------
(***************************************************************************)
(* The command line over App: main and runCLI (cmd/omnifetch/main.go), the *)
(* event channel that App.emit fills without ever blocking, and what       *)
(* patchJob, the engines' progress reports and startOne's deferred         *)
(* function send into it (internal/engine/app.go). The jobs themselves     *)
(* live as in JobLifecycle, with the one StartQueued that main calls.      *)
(*                                                                         *)
(* Of a JobUpdated only the State counts, which some have not; Metrics and *)
(* JobLog change no entry and are there for the room they take. main       *)
(* leaves by os.Exit, so App.Close is never called.                        *)
(***************************************************************************)
EXTENDS Integers, FiniteSets, Sequences

CONSTANTS
  Jobs,         \* as in JobLifecycle
  MaxParallel,
  Cap,          \* capacity of eventsCh (2048)
  MaxRows       \* jobs printNow shows (18)

ASSUME DashboardAssumption ==
  /\ MaxParallel \in Nat \ {0}
  /\ MaxRows \in Nat
  /\ Cap \in Nat /\ Cap >= 2 * MaxRows

VARIABLES
  job, running, cancels, canceled, ctxDone, caller, call, pc, seen, \* as in JobLifecycle
  order,  \* Queue.jobs: the ids in the order of AddURL
  pend,   \* what each thread is still to emit before it does anything else
  chan,   \* App.eventsCh
  lost,   \* history: jobs of which emit dropped an event that tells their state
  shown,  \* st.jobs: the state of each entry, "none" without one
  named,  \* entries of st.jobs that have a URL
  cli     \* "adding", "starting", "looping", "leaving", then an exit code

lifecycle == <<job, running, cancels, canceled, ctxDone, caller, call, pc, seen>>
screen == <<shown, named>>
vars == <<lifecycle, order, pend, chan, lost, screen, cli>>

L == INSTANCE JobLifecycle WITH MaxCalls <- 1, LaterOps <- {}

Main == <<0, "main">>
Threads == L!Goroutines \cup {Main}
ExitCodes == {"0", "2", "130"}
Final == {"SUCCESS", "ERROR", "CANCELED"}

Added(j) == [kind |-> "added", job |-> j, state |-> "QUEUED"]
Updated(j, state) == [kind |-> "updated", job |-> j, state |-> state]
\* A JobUpdated without State, and an event that changes no entry (Metrics, JobLog).
Detail(j) == [kind |-> "detail", job |-> j, state |-> "NEW"]
Other(j) == [kind |-> "other", job |-> j, state |-> "NEW"]
Events ==
  [kind : {"added", "updated", "detail", "other"}, job : Jobs, state : L!States \cup {"RETRYING"}]

\* The event tells the state of the job.
Tells(ev) == ev.kind \in {"added", "updated"}

\* os.Exit ends every goroutine.
Alive == cli \notin ExitCodes

Ready(t) == Alive /\ pend[t] = <<>>
Emits(t, events) == pend' = [pend EXCEPT ![t] = events]

Init ==
  /\ L!Init
  /\ order = <<>>
  /\ pend = [t \in Threads |-> <<>>]
  /\ chan = <<>>
  /\ lost = {}
  /\ shown = [j \in Jobs |-> "none"]
  /\ named = {}
  /\ cli = "adding"

-----------------------------------------------------------------------------
(* App.emit                                                                  *)

\* Mutant of Emit: the oldest event makes room.
EmitDropsOldest(t) ==
  /\ Alive
  /\ pend[t] # <<>>
  /\ LET ev == Head(pend[t])
     IN  IF Len(chan) < Cap
         THEN chan' = Append(chan, ev) /\ UNCHANGED lost
         ELSE chan' = Append(Tail(chan), ev) /\ lost' = lost \cup {Head(chan).job}
  /\ Emits(t, Tail(pend[t]))
  /\ UNCHANGED <<lifecycle, order, screen, cli>>

\* Mutant of Emit: one event more than the channel has room for.
EmitOneTooMany(t) ==
  /\ Alive
  /\ pend[t] # <<>>
  /\ LET ev == Head(pend[t])
     IN  IF Len(chan) <= Cap
         THEN chan' = Append(chan, ev) /\ UNCHANGED lost
         ELSE UNCHANGED chan /\ lost' = IF Tells(ev) THEN lost \cup {ev.job} ELSE lost
  /\ Emits(t, Tail(pend[t]))
  /\ UNCHANGED <<lifecycle, order, screen, cli>>

Emit(t) ==
  /\ Alive
  /\ pend[t] # <<>>
  /\ LET ev == Head(pend[t])
     IN  IF Len(chan) < Cap
         THEN chan' = Append(chan, ev) /\ UNCHANGED lost
         ELSE UNCHANGED chan /\ lost' = IF Tells(ev) THEN lost \cup {ev.job} ELSE lost
  /\ Emits(t, Tail(pend[t]))
  /\ UNCHANGED <<lifecycle, order, screen, cli>>

-----------------------------------------------------------------------------
(* main before runCLI                                                        *)

AddURL(j) ==
  /\ Ready(Main) /\ cli = "adding"
  /\ L!AddURL(j)
  /\ order' = Append(order, j)
  /\ Emits(Main, <<Added(j), Other(j)>>)
  /\ UNCHANGED <<chan, lost, screen, cli>>

StartQueued ==
  /\ Ready(Main) /\ cli = "adding"
  /\ L!StartQueued
  /\ cli' = "starting"
  /\ UNCHANGED <<order, pend, chan, lost, screen>>

\* A goroutine has its slot until its last event is sent.
Launch(j) ==
  /\ Alive
  /\ L!Launch(j)
  /\ Cardinality(L!Active(call) \cup {k \in Jobs : pend[<<call, k>>] # <<>>}) < MaxParallel
  /\ UNCHANGED <<order, pend, chan, lost, screen, cli>>

RunCLI ==
  /\ cli = "starting"
  /\ caller.op = "idle"
  /\ cli' = "looping"
  /\ UNCHANGED <<lifecycle, order, pend, chan, lost, screen>>

-----------------------------------------------------------------------------
(* startOne and the engines                                                  *)

\* Up to the first patch.
Prepare(p) ==
  /\ Ready(p)
  /\ L!ReadJob(p) \/ L!JobGone(p) \/ L!Register(p) \/ L!AlreadyRunning(p)
  /\ UNCHANGED <<order, pend, chan, lost, screen, cli>>

\* patchJob: first the queue, then the two events.
Patch(p, Step) ==
  /\ Ready(p)
  /\ Step
  /\ Emits(p, <<Updated(p[2], job'[p[2]].state), Other(p[2])>>)
  /\ UNCHANGED <<order, chan, lost, screen, cli>>

Begin(p) == Patch(p, L!Begin(p))
Finish(p) == Patch(p, L!Finish(p))

\* Progress, the last report with OutputPath, a line of the log.
Reports(j) == {Updated(j, "DOWNLOADING"), Updated(j, "RETRYING"), Detail(j), Other(j)}

\* Mutant of Report: a report may still come when the outcome is patched.
ReportLate(p) ==
  /\ Ready(p)
  /\ pc[p] \in {"running", "patched"}
  /\ \E ev \in Reports(p[2]) : Emits(p, <<ev>>)
  /\ UNCHANGED <<lifecycle, order, chan, lost, screen, cli>>

\* Mutant of Report: the last report calls the job a success.
ReportSaysSuccess(p) ==
  /\ Ready(p)
  /\ pc[p] = "running"
  /\ \E ev \in Reports(p[2]) \cup {Updated(p[2], "SUCCESS")} : Emits(p, <<ev>>)
  /\ UNCHANGED <<lifecycle, order, chan, lost, screen, cli>>

\* An engine reports; the queue is not told.
Report(p) ==
  /\ Ready(p)
  /\ pc[p] = "running"
  /\ \E ev \in Reports(p[2]) : Emits(p, <<ev>>)
  /\ UNCHANGED <<lifecycle, order, chan, lost, screen, cli>>

Cleanup(p) ==
  /\ Ready(p)
  /\ L!Cleanup(p)
  /\ Emits(p, <<Other(p[2])>>)
  /\ UNCHANGED <<order, chan, lost, screen, cli>>

Interrupt ==
  /\ Alive
  /\ L!Interrupt
  /\ UNCHANGED <<order, pend, chan, lost, screen, cli>>

-----------------------------------------------------------------------------
(* The select of runCLI                                                      *)

\* A JobUpdated of an id without entry makes one that has no URL, and no state either
\* if the event has none.
Receive ==
  /\ cli = "looping"
  /\ chan # <<>>
  /\ LET ev == Head(chan)
     IN  /\ shown' = IF Tells(ev) \/ (ev.kind = "detail" /\ shown[ev.job] = "none")
                     THEN [shown EXCEPT ![ev.job] = ev.state] ELSE shown
         /\ named' = IF ev.kind = "added" THEN named \cup {ev.job} ELSE named
  /\ chan' = Tail(chan)
  /\ UNCHANGED <<lifecycle, order, pend, lost, cli>>

\* doneTick, when Done is true; the events in the channel are left unread.
SeeDone ==
  /\ cli = "looping"
  /\ L!Done
  /\ cli' = "leaving"
  /\ UNCHANGED <<lifecycle, order, pend, chan, lost, screen>>

\* Mutant of exitCode: looks at what was shown.
ExitCodeOfScreen == IF \E j \in Jobs : shown[j] = "ERROR" THEN "2" ELSE "0"

exitCode == IF \E j \in Jobs : job[j].state = "ERROR" THEN "2" ELSE "0"

\* The exit code is taken from a second snapshot.
Exit ==
  /\ cli = "leaving"
  /\ cli' = exitCode
  /\ UNCHANGED <<lifecycle, order, pend, chan, lost, screen>>

OnInterrupt ==
  /\ cli = "looping"
  /\ ctxDone
  /\ cli' = "130"
  /\ UNCHANGED <<lifecycle, order, pend, chan, lost, screen>>

\* printNow: the first rows of a snapshot, each with its entry of st.jobs if any.
Rows == {order[i] : i \in {k \in 1 .. Len(order) : k <= MaxRows}}

-----------------------------------------------------------------------------

Runner(p) == Prepare(p) \/ Begin(p) \/ Cleanup(p)

Next ==
  \/ StartQueued \/ RunCLI \/ Interrupt \/ Receive \/ SeeDone \/ Exit \/ OnInterrupt
  \/ \E j \in Jobs : AddURL(j) \/ Launch(j)
  \/ \E t \in Threads : Emit(t)
  \/ \E p \in L!Goroutines : Runner(p) \/ Finish(p) \/ Report(p)

Spec == Init /\ [][Next]_vars

\* Threads run, select takes a case that stays ready; engines are only sure to
\* return once they are cancelled.
DrainSpec ==
  /\ Spec
  /\ WF_vars(StartQueued) /\ WF_vars(RunCLI)
  /\ WF_vars(SeeDone) /\ WF_vars(Exit) /\ WF_vars(OnInterrupt)
  /\ \A j \in Jobs : WF_vars(Launch(j))
  /\ \A t \in Threads : WF_vars(Emit(t))
  /\ \A p \in L!Goroutines : WF_vars(Runner(p)) /\ SF_vars(ctxDone /\ Finish(p))

-----------------------------------------------------------------------------
(* Properties                                                                *)

TypeOK ==
  /\ L!TypeOK
  /\ order \in Seq(Jobs)
  /\ pend \in [Threads -> Seq(Events)]
  /\ chan \in Seq(Events) /\ Len(chan) <= Cap
  /\ lost \subseteq Jobs /\ named \subseteq Jobs
  /\ shown \in [Jobs -> L!States \cup {"none", "RETRYING"}]
  /\ cli \in {"adding", "starting", "looping", "leaving"} \cup ExitCodes

Underway(j) ==
  \/ \E t \in Threads : \E i \in 1 .. Len(pend[t]) : pend[t][i].job = j
  \/ \E i \in 1 .. Len(chan) : chan[i].job = j

Agrees(j) ==
  \/ shown[j] = job[j].state
  \/ shown[j] = "RETRYING" /\ job[j].state = "DOWNLOADING"

\* A job of which no event was dropped or is still underway is shown in the state
\* the queue has: reports and patches reach the screen in the order they were made.
ScreenCatchesUp ==
  \A j \in Jobs : L!Known(j) /\ j \notin lost /\ ~Underway(j) => Agrees(j)

\* Even when events are dropped, an outcome on the screen is the job's outcome.
OutcomeIsTrue == \A j \in Jobs : shown[j] \in Final => shown[j] = job[j].state

\* A job that is drawn has a URL: printNow dereferences it. The rows are the jobs
\* added first, whose JobAdded events found room in the channel.
RowsHaveURL == \A j \in Rows : shown[j] # "none" => j \in named

\* The program ends with 0 or 2 only when every job has its outcome, and with 2
\* exactly when one of them is an error.
ExitCodeIsRight ==
  cli \in {"0", "2"} =>
    /\ \A j \in Jobs : L!Known(j) => job[j].state \in Final
    /\ (cli = "2") <=> \E j \in Jobs : job[j].state = "ERROR"

\* An interrupt ends the program, also when it comes while main is blocked in
\* StartQueued and whatever the servers do; so does the end of the last job.
ProgramEnds == (ctxDone \/ (cli = "looping" /\ L!Done)) ~> ~Alive

=============================================================================
