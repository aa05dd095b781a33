------------------------------- MODULE Segmented -------------------------------
(***************************************************************************)
(* Downloader.downloadSegmented (internal/downloader/segmented.go) on a    *)
(* server that answers HEAD and, when it answers a ranged GET, with that   *)
(* range (for others see Fallback): the .part file, the resume metadata    *)
(* beside it, and the errgroup of ticker, producer and workers, over a     *)
(* sequence of calls separated by returns, cancellations and crashes of    *)
(* the process. The remote file may change at any moment.                  *)
(*                                                                         *)
(* A chunk of a file on disk holds the version of the remote file that its *)
(* bytes come from: 0 for the zeros Truncate leaves, Junk for a mixture.   *)
(* ETag, Last-Modified and size are taken to tell versions apart.          *)
(***************************************************************************)
EXTENDS Integers, FiniteSets

CONSTANTS
  NChunks,      \* length of planChunks(size, 4 MiB)
  MinWorkers,   \* after the defaults were applied, as MaxWorkers
  MaxWorkers,
  MaxCalls,     \* bound: calls of Download
  MaxVersion    \* bound: versions of the remote file

ASSUME SegmentedAssumption ==
  /\ NChunks \in Nat \ {0}
  /\ MinWorkers \in Nat \ {0}
  /\ MaxWorkers \in Nat /\ MaxWorkers >= MinWorkers
  /\ MaxCalls \in Nat
  /\ MaxVersion \in Nat \ {0}

VARIABLES
  \* what outlives the process
  part,      \* the .part file: a version per chunk, or NoFile
  meta,      \* the .json beside it: [ver, complete], NoMeta when there is none
  out,       \* OutputPath, as part
  remote,    \* version the server has
  finishes,  \* history: renames to out since this metadata was first written
  \* the call
  main,      \* where downloadSegmented is
  calls,
  ctxDone,   \* its context is cancelled
  st,        \* the resumeState in memory
  result,    \* of the last call
  \* its errgroup
  spawned,   \* eg.Go calls that have returned
  pc,        \* of each goroutine, in the order of the eg.Go calls
  has,       \* chunk a worker is busy with
  next,      \* the producer's loop: chunks below it have been dealt with
  workCh,    \* chunks in the channel, which receives in increasing order
  firstErr   \* error the group keeps, "none" so far

disk == <<part, meta, out, remote, finishes>>
group == <<spawned, pc, has, next, workCh, firstErr>>
vars == <<disk, main, calls, ctxDone, st, result, group>>

Chunks == 1 .. NChunks
Versions == 1 .. MaxVersion
Junk == 0 - 1
Absent == 0 - 2
NoFile == [c \in Chunks |-> Absent]
NoMeta == [ver |-> 0, complete |-> {}]

Ticker == 1
Producer == 2
Workers == 3 .. MaxWorkers + 2
Group == {Ticker, Producer} \cup Workers

Content == [Chunks -> {Absent, Junk, 0} \cup Versions]
Meta == [ver : {0} \cup Versions, complete : SUBSET Chunks]

Active == {g \in Group : pc[g] \notin {"none", "done"}}

\* Mutant of EgDone: egCtx does not derive from the caller's context.
EgDetached == firstErr # "none"

\* egCtx is cancelled with its parent or by the first error of the group.
EgDone == ctxDone \/ firstErr # "none"

IdleGroup ==
  /\ spawned' = 0
  /\ pc' = [g \in Group |-> "none"]
  /\ has' = [g \in Group |-> 0]
  /\ next' = 1
  /\ workCh' = {}
  /\ firstErr' = "none"

Init ==
  /\ part = NoFile /\ meta = NoMeta /\ out = NoFile /\ remote = 1 /\ finishes = 0
  /\ main = "idle" /\ calls = 0 /\ ctxDone = FALSE /\ st = NoMeta /\ result = "none"
  /\ spawned = 0
  /\ pc = [g \in Group |-> "none"]
  /\ has = [g \in Group |-> 0]
  /\ next = 1
  /\ workCh = {}
  /\ firstErr = "none"

-----------------------------------------------------------------------------
(* downloadSegmented                                                         *)

Download ==
  /\ main = "idle"
  /\ calls < MaxCalls
  /\ main' = "head"
  /\ calls' = calls + 1
  /\ ctxDone' = FALSE
  /\ result' = "none"
  /\ UNCHANGED <<disk, st, group>>

\* Mutant of Head: metadata of another version is taken for this one.
HeadTrustsMeta ==
  /\ main = "head"
  /\ main' = "open"
  /\ IF meta # NoMeta
     THEN st' = [meta EXCEPT !.ver = remote] /\ UNCHANGED <<meta, finishes>>
     ELSE st' = [ver |-> remote, complete |-> {}] /\ meta' = NoMeta /\ finishes' = 0
  /\ UNCHANGED <<part, out, remote, calls, ctxDone, result, group>>

\* HEAD answered; metadata that does not match it is removed. What this path has
\* saved lists as many chunks as the plan has (for other metadata see CorruptPartial
\* in Fallback).
Head ==
  /\ main = "head"
  /\ main' = "open"
  /\ IF meta # NoMeta /\ meta.ver = remote
     THEN st' = meta /\ UNCHANGED <<meta, finishes>>
     ELSE st' = [ver |-> remote, complete |-> {}] /\ meta' = NoMeta /\ finishes' = 0
  /\ UNCHANGED <<part, out, remote, calls, ctxDone, result, group>>

\* Mutant of OpenPart: O_TRUNC.
OpenPartTruncates ==
  /\ main = "open"
  /\ main' = "plan"
  /\ part' = [c \in Chunks |-> 0]
  /\ UNCHANGED <<meta, out, remote, finishes, calls, ctxDone, st, result, group>>

\* OpenFile and Truncate: an old file keeps its bytes, what it lacks becomes zeros.
OpenPart ==
  /\ main = "open"
  /\ main' = "plan"
  /\ part' = [c \in Chunks |-> IF part[c] = Absent THEN 0 ELSE part[c]]
  /\ UNCHANGED <<meta, out, remote, finishes, calls, ctxDone, st, result, group>>

\* remaining = 0: the metadata stays where it is. finishChecksum may fail to read
\* the renamed file (no caller gives it an ExpectedSHA256).
AlreadyComplete ==
  /\ main = "plan"
  /\ st.complete = Chunks
  /\ out' = part
  /\ part' = NoFile
  /\ finishes' = finishes + 1
  /\ main' = "idle"
  /\ result' \in {"success", "error"}
  /\ UNCHANGED <<meta, remote, calls, ctxDone, st, group>>

StartGroup ==
  /\ main = "plan"
  /\ st.complete # Chunks
  /\ main' = "group"
  /\ UNCHANGED <<disk, calls, ctxDone, st, result, group>>

\* The request fails or is answered with a status >= 400, the file cannot be
\* opened, sized or renamed.
SetupFails ==
  /\ main \in {"head", "open", "plan"}
  /\ main' = "idle"
  /\ result' \in {"error"} \cup (IF main = "head" /\ ctxDone THEN {"canceled"} ELSE {})
  /\ UNCHANGED <<disk, calls, ctxDone, st, group>>

\* Mutant of Spawn: one slot fewer.
SpawnOneFewer ==
  /\ main = "group"
  /\ spawned < MaxWorkers + 2
  /\ Cardinality(Active) + 1 < MaxWorkers
  /\ spawned' = spawned + 1
  /\ pc' = [pc EXCEPT ![spawned + 1] = "run"]
  /\ UNCHANGED <<disk, main, calls, ctxDone, st, result, has, next, workCh, firstErr>>

\* eg.Go, which waits while MaxWorkers goroutines of the group are active: the
\* ticker and the producer count as well.
Spawn ==
  /\ main = "group"
  /\ spawned < MaxWorkers + 2
  /\ Cardinality(Active) < MaxWorkers
  /\ spawned' = spawned + 1
  /\ pc' = [pc EXCEPT ![spawned + 1] = "run"]
  /\ UNCHANGED <<disk, main, calls, ctxDone, st, result, has, next, workCh, firstErr>>

\* Mutant of Join: the rename comes before the look at the error.
JoinRenamesFirst ==
  /\ main = "group"
  /\ spawned = MaxWorkers + 2
  /\ Active = {}
  /\ main' = "idle"
  /\ out' = part /\ part' = NoFile /\ meta' = NoMeta /\ finishes' = 0
  /\ result' = IF firstErr # "none" THEN firstErr ELSE "success"
  /\ IdleGroup
  /\ UNCHANGED <<remote, calls, ctxDone, st>>

\* eg.Wait and what follows it. Without an error the metadata is removed, whether or
\* not the rename succeeds; finishChecksum may then fail to read the renamed file.
Join ==
  /\ main = "group"
  /\ spawned = MaxWorkers + 2
  /\ Active = {}
  /\ main' = "idle"
  /\ \/ firstErr # "none" /\ result' = firstErr /\ UNCHANGED <<meta, out, part, finishes>>
     \/ /\ firstErr = "none"
        /\ meta' = NoMeta /\ finishes' = 0
        /\ \/ result' = "error" /\ UNCHANGED <<out, part>>
           \/ result' \in {"success", "error"} /\ out' = part /\ part' = NoFile
  /\ IdleGroup
  /\ UNCHANGED <<remote, calls, ctxDone, st>>

-----------------------------------------------------------------------------
(* The goroutines                                                            *)

\* Mutant of Leave: the last error wins.
LeaveWithLast(g, err) ==
  /\ pc' = [pc EXCEPT ![g] = "done"]
  /\ firstErr' = err

\* Leaving a group with an error: sync.Once keeps the first, then cancels egCtx.
Leave(g, err) ==
  /\ pc' = [pc EXCEPT ![g] = "done"]
  /\ firstErr' = IF firstErr = "none" THEN err ELSE firstErr

\* saveResumeAtomic: all of it or, on an error nobody looks at, nothing.
Save(state) == meta' \in {meta, state}

TickerSave ==
  /\ pc[Ticker] = "run"
  /\ Save(st)
  /\ UNCHANGED <<part, out, remote, finishes, main, calls, ctxDone, st, result, group>>

TickerStop ==
  /\ pc[Ticker] = "run"
  /\ EgDone
  /\ Leave(Ticker, "canceled")
  /\ UNCHANGED <<disk, main, calls, ctxDone, st, result, spawned, has, next, workCh>>

\* Mutant of Produce: the loop steps over a chunk.
ProduceEveryOther(c) ==
  /\ pc[Producer] = "run"
  /\ c >= next /\ c \notin st.complete /\ next .. c - 1 \subseteq st.complete
  /\ Cardinality(workCh) < 2 * MinWorkers
  /\ workCh' = workCh \cup {c}
  /\ next' = c + 2
  /\ UNCHANGED <<disk, main, calls, ctxDone, st, result, spawned, pc, has, firstErr>>

\* The next incomplete chunk, if the channel has room.
Produce(c) ==
  /\ pc[Producer] = "run"
  /\ c >= next /\ c \notin st.complete /\ next .. c - 1 \subseteq st.complete
  /\ Cardinality(workCh) < 2 * MinWorkers
  /\ workCh' = workCh \cup {c}
  /\ next' = c + 1
  /\ UNCHANGED <<disk, main, calls, ctxDone, st, result, spawned, pc, has, firstErr>>

\* The loop is over; closing workCh is pc[Producer] = "done".
ProducerEnds ==
  /\ pc[Producer] = "run"
  /\ next .. NChunks \subseteq st.complete
  /\ pc' = [pc EXCEPT ![Producer] = "done"]
  /\ UNCHANGED <<disk, main, calls, ctxDone, st, result, spawned, has, next, workCh, firstErr>>

ProducerStops ==
  /\ pc[Producer] = "run"
  /\ EgDone
  /\ ~(next .. NChunks \subseteq st.complete)
  /\ Leave(Producer, "canceled")
  /\ UNCHANGED <<disk, main, calls, ctxDone, st, result, spawned, has, next, workCh>>

\* A worker receives the oldest chunk of the channel.
Receives(w, c) ==
  /\ pc[w] = "run"
  /\ c \in workCh
  /\ \A d \in workCh : c <= d
  /\ workCh' = workCh \ {c}

\* Mutant of Take: the chunk is marked before it is fetched.
TakeMarksFirst(w, c) ==
  /\ Receives(w, c)
  /\ ~EgDone
  /\ pc' = [pc EXCEPT ![w] = "fetch"]
  /\ has' = [has EXCEPT ![w] = c]
  /\ part' = [part EXCEPT ![c] = Junk]
  /\ st' = [st EXCEPT !.complete = @ \cup {c}]
  /\ UNCHANGED <<meta, out, remote, finishes, main, calls, ctxDone, result, spawned,
                 next, firstErr>>

\* From here on the chunk's bytes on disk are being overwritten. A chunk found
\* complete is skipped.
Take(w, c) ==
  /\ Receives(w, c)
  /\ ~EgDone
  /\ IF c \in st.complete
     THEN UNCHANGED <<pc, has, part>>
     ELSE /\ pc' = [pc EXCEPT ![w] = "fetch"]
          /\ has' = [has EXCEPT ![w] = c]
          /\ part' = [part EXCEPT ![c] = Junk]
  /\ UNCHANGED <<meta, out, remote, finishes, main, calls, ctxDone, st, result, spawned,
                 next, firstErr>>

TakeAfterEnd(w, c) ==
  /\ Receives(w, c)
  /\ EgDone
  /\ Leave(w, "canceled")
  /\ UNCHANGED <<disk, main, calls, ctxDone, st, result, spawned, has, next>>

ChannelClosed(w) ==
  /\ pc[w] = "run"
  /\ workCh = {} /\ pc[Producer] = "done"
  /\ pc' = [pc EXCEPT ![w] = "done"]
  /\ UNCHANGED <<disk, main, calls, ctxDone, st, result, spawned, has, next, workCh, firstErr>>

\* The chunk's bytes are on disk, the chunk is not marked yet. There is no If-Range:
\* the answer is of whatever version the server had when it was asked.
Fetch(w) ==
  /\ pc[w] = "fetch"
  /\ pc' = [pc EXCEPT ![w] = "mark"]
  /\ \E v \in st.ver .. remote : part' = [part EXCEPT ![has[w]] = v]
  /\ UNCHANGED <<meta, out, remote, finishes, main, calls, ctxDone, st, result, spawned,
                 has, next, workCh, firstErr>>

\* A network error, or the error of a cancelled context.
FetchFails(w) ==
  /\ pc[w] = "fetch"
  /\ \E err \in {"error"} \cup (IF EgDone THEN {"canceled"} ELSE {}) : Leave(w, err)
  /\ UNCHANGED <<disk, main, calls, ctxDone, st, result, spawned, has, next, workCh>>

Mark(w) ==
  /\ pc[w] = "mark"
  /\ st' = [st EXCEPT !.complete = @ \cup {has[w]}]
  /\ Save(st')
  /\ pc' = [pc EXCEPT ![w] = "run"]
  /\ UNCHANGED <<part, out, remote, finishes, main, calls, ctxDone, result, spawned, has,
                 next, workCh, firstErr>>

-----------------------------------------------------------------------------
(* The environment                                                           *)

Cancel ==
  /\ main # "idle"
  /\ ~ctxDone
  /\ ctxDone' = TRUE
  /\ UNCHANGED <<disk, main, calls, st, result, group>>

\* The process is killed; written bytes survive.
Crash ==
  /\ main # "idle"
  /\ main' = "idle"
  /\ result' = "none"
  /\ IdleGroup
  /\ UNCHANGED <<disk, calls, ctxDone, st>>

RemoteChanges ==
  /\ remote < MaxVersion
  /\ remote' = remote + 1
  /\ UNCHANGED <<part, meta, out, finishes, main, calls, ctxDone, st, result, group>>

Main == Head \/ OpenPart \/ AlreadyComplete \/ StartGroup \/ Spawn \/ Join

Goroutine(g) ==
  \/ g = Ticker /\ TickerStop
  \/ g = Producer /\ (ProducerEnds \/ ProducerStops \/ \E c \in Chunks : Produce(c))
  \/ /\ g \in Workers
     /\ \/ ChannelClosed(g) \/ Mark(g)
        \/ \E c \in Chunks : Take(g, c) \/ TakeAfterEnd(g, c)

Transfer(w) == Fetch(w) \/ FetchFails(w)

Next ==
  \/ Download \/ Main \/ SetupFails \/ Cancel \/ Crash \/ RemoteChanges \/ TickerSave
  \/ \E g \in Group : Goroutine(g)
  \/ \E w \in Workers : Transfer(w)

Spec == Init /\ [][Next]_vars

Progress == WF_vars(Main) /\ \A g \in Group : WF_vars(Goroutine(g))

\* A transfer is only sure to end once its context is cancelled: the HTTP
\* client has no timeout.
DrainSpec == Spec /\ Progress /\ \A w \in Workers : WF_vars(EgDone /\ Transfer(w))

\* Servers answer.
FairSpec == Spec /\ Progress /\ \A w \in Workers : WF_vars(Transfer(w))

-----------------------------------------------------------------------------
(* Properties                                                                *)

TypeOK ==
  /\ part \in Content /\ out \in Content
  /\ meta \in Meta /\ st \in Meta
  /\ remote \in Versions
  /\ finishes \in Nat
  /\ main \in {"idle", "head", "open", "plan", "group"}
  /\ calls \in 0 .. MaxCalls
  /\ ctxDone \in BOOLEAN
  /\ result \in {"none", "success", "canceled", "error"}
  /\ spawned \in 0 .. MaxWorkers + 2
  /\ pc \in [Group -> {"none", "run", "fetch", "mark", "done"}]
  /\ has \in [Group -> 0 .. NChunks]
  /\ next \in 1 .. NChunks + 1
  /\ workCh \subseteq Chunks
  /\ firstErr \in {"none", "canceled", "error"}

Busy(w) == pc[w] \in {"fetch", "mark"}

\* What the metadata on disk calls complete is in the .part file, in the version
\* the server has, at any moment a crash may come and for any metadata the next
\* HEAD will accept: a resumed download never skips a chunk it does not have, nor
\* one that is of another version because the file changed during an earlier call.
\* (After the already-complete path has renamed the file, see SuccessIsRight.)
ResumeSound ==
  finishes = 0 /\ meta.ver = remote =>
    \A c \in meta.complete : part[c] = meta.ver

\* No chunk is fetched twice in a call or by two workers at a time, so no
\* transfer overwrites bytes that are already marked complete.
NoDoubleFetch ==
  \A w \in Workers : Busy(w) =>
    /\ has[w] \notin st.complete \cup workCh
    /\ \A v \in Workers : Busy(v) /\ has[v] = has[w] => v = w

\* A call ends as canceled only if its own context was: a worker's network
\* error is not masked by its siblings, who see egCtx cancelled because of it.
CanceledOnlyByCaller ==
  result = "canceled" \/ firstErr = "canceled" => ctxDone

\* A cancelled call returns, with every goroutine of the group gone, whatever
\* point the spawning loop, the channel and the transfers have reached.
CancelReturns == (ctxDone /\ main # "idle") ~> (main = "idle")

\* With at least three slots the group always gets to every chunk, or ends.
FetchesEverything == (main = "group") ~> (st.complete = Chunks \/ main = "idle")

\* "segmented, concurrent, resumable range downloading" (README.md:14): a
\* download whose chunks have all arrived ends.
CompleteDownloadReturns == (main = "group" /\ st.complete = Chunks) ~> (main = "idle")

\* "already complete" (segmented.go:139): what is renamed to OutputPath is the
\* remote file, if that is still what it was at the call's HEAD.
SuccessIsRight ==
  result = "success" /\ st.ver = remote => out = [c \in Chunks |-> remote]

\* The same up to the second success on the same metadata.
FirstSuccessIsRight == finishes <= 1 => SuccessIsRight

\* From the answer to HEAD on.
InCall == main \in {"open", "plan", "group"}

\* OutputPath is replaced in one step by a whole file, the remote one unless that
\* changed since HEAD or the metadata has survived an earlier rename.
Atomic == INSTANCE AtomicDownload WITH
  Nothing <- NoFile,
  Contents <- [Chunks -> {0} \cup Versions],
  Failures <- {"error"},
  target <- [c \in Chunks |-> remote],
  sound <- (finishes = 0 /\ (InCall => st.ver = remote)),
  active <- (main # "idle"),
  canceled <- ctxDone

ImplementsDownload == Atomic!Spec

=============================================================================
