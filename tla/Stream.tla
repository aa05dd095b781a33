--------------------------------- MODULE Stream ---------------------------------
(***************************************************************************)
(* FileEngine.downloadStreaming (internal/engine/file_engine.go), the path *)
(* every direct file takes: a .part file that is resumed by its size, one  *)
(* ranged GET, and three goroutines - the select loop, the copier and the  *)
(* watcher of the first byte - over a sequence of calls for one output     *)
(* name, separated by returns and crashes. The remote file may change at   *)
(* any moment; one response is of one version.                             *)
(*                                                                         *)
(* Block i of version v of the remote file is the pair <<v, i>>. Bodies    *)
(* end where their length says: a shorter one is a read error.             *)
(***************************************************************************)
EXTENDS Integers, Sequences

CONSTANTS
  NBlocks,    \* length of the remote file
  MaxCalls,   \* bound: calls of downloadStreaming
  MaxVersion  \* bound: versions of the remote file

ASSUME StreamAssumption ==
  /\ NBlocks \in Nat
  /\ MaxCalls \in Nat
  /\ MaxVersion \in Nat \ {0}

VARIABLES
  part,     \* the .part file; no file and an empty one act alike
  out,      \* OutputPath, <<>> when it does not exist
  remote,   \* version the server has
  begun,    \* history: version that was current when .part was last empty
  main,     \* the select loop: "idle" between calls
  calls,
  ctxDone,  \* the job's context is cancelled
  off,      \* offset of the copier in .part
  ver,      \* version the response is of
  body,     \* next block of it
  copier,   \* "run", or what it put into doneCh
  seen,     \* firstByteSeen is closed
  watcher,  \* "sent": timeoutCh is full; "fired": downloadCtx is cancelled too
  result    \* of the last call

disk == <<part, out, remote, begun>>
vars == <<disk, main, calls, ctxDone, off, ver, body, copier, seen, watcher, result>>

Blocks == 1 .. NBlocks
Versions == 1 .. MaxVersion
File(v) == [i \in Blocks |-> <<v, i>>]

Init ==
  /\ part = <<>> /\ out = <<>> /\ remote = 1 /\ begun = 1
  /\ main = "idle" /\ calls = 0 /\ ctxDone = FALSE
  /\ off = 0 /\ ver = 1 /\ body = 1 /\ copier = "none" /\ seen = FALSE /\ watcher = "none"
  /\ result = "none"

\* The call ends; its deferred functions close the file and the body and cancel
\* downloadCtx. (Bytes the copier still writes before the close only lengthen .part.)
Return(r) ==
  /\ main' = "idle"
  /\ result' = r
  /\ copier' = "none"
  /\ watcher' = "none"
  /\ UNCHANGED <<remote, begun, calls, ctxDone, off, ver, body, seen>>

-----------------------------------------------------------------------------
(* From the call to the response                                             *)

Start ==
  /\ main = "idle"
  /\ calls < MaxCalls
  /\ main' = "request"
  /\ calls' = calls + 1
  /\ ctxDone' = FALSE
  /\ result' = "none"
  /\ begun' = IF part = <<>> THEN remote ELSE begun
  /\ UNCHANGED <<part, out, remote, off, ver, body, copier, seen, watcher>>

\* Do fails, or a status >= 400 other than 416; also .part cannot be opened.
RequestFails ==
  /\ main = "request"
  /\ \E r \in {"error"} \cup (IF ctxDone THEN {"canceled"} ELSE {}) : Return(r)
  /\ UNCHANGED <<part, out>>

\* Mutant of RangeRefused: the range asked for starts one block late.
RefusedEarly ==
  /\ main = "request"
  /\ Len(part) > 0 /\ Len(part) + 1 >= NBlocks
  /\ Return("refused")
  /\ UNCHANGED <<part, out>>

\* No block is left to ask for: 416 is one of the statuses >= 400.
RangeRefused ==
  /\ main = "request"
  /\ Len(part) > 0 /\ Len(part) >= NBlocks
  /\ Return("refused")
  /\ UNCHANGED <<part, out>>

Copying(start) ==
  /\ main' = "copy"
  /\ off' = start
  /\ ver' = remote
  /\ body' = start + 1
  /\ copier' = "run"
  /\ seen' = FALSE
  /\ watcher' = "wait"
  /\ UNCHANGED <<out, remote, calls, ctxDone, result>>

\* Mutant of Partial: asks for the bytes after the next one.
PartialSkips ==
  /\ main = "request"
  /\ Len(part) > 0 /\ Len(part) < NBlocks
  /\ Copying(Len(part) + 1)
  /\ UNCHANGED <<part, begun>>

\* 206 with the rest of the file.
Partial ==
  /\ main = "request"
  /\ Len(part) > 0 /\ Len(part) < NBlocks
  /\ Copying(Len(part))
  /\ UNCHANGED <<part, begun>>

\* Mutant of Whole: the restart does not truncate .part.
WholeOnTop ==
  /\ main = "request"
  /\ begun' = remote
  /\ Copying(0)
  /\ UNCHANGED part

\* 200: the whole file, whatever was asked for.
Whole ==
  /\ main = "request"
  /\ part' = <<>>
  /\ begun' = remote
  /\ Copying(0)

-----------------------------------------------------------------------------
(* The copier                                                                *)

DownloadDone == ctxDone \/ watcher = "fired"

\* Mutant of CopyBlock: the copier reads on after the end of the body.
CopyBeyond ==
  /\ copier = "run"
  /\ off <= NBlocks
  /\ part' = Append(part, <<ver, body>>)
  /\ off' = off + 1
  /\ body' = body + 1
  /\ seen' = TRUE
  /\ UNCHANGED <<out, remote, begun, main, calls, ctxDone, ver, copier, watcher,
                 result>>

CopyBlock ==
  /\ copier = "run"
  /\ body <= NBlocks
  /\ LET b == <<ver, body>>
     IN part' = IF off < Len(part) THEN [part EXCEPT ![off + 1] = b] ELSE Append(part, b)
  /\ off' = off + 1
  /\ body' = body + 1
  /\ seen' = TRUE
  /\ UNCHANGED <<out, remote, begun, main, calls, ctxDone, ver, copier, watcher,
                 result>>

CopyEnds ==
  /\ copier = "run"
  /\ body = NBlocks + 1
  /\ copier' = "ok"
  /\ UNCHANGED <<disk, main, calls, ctxDone, off, ver, body, seen, watcher, result>>

\* A broken connection or a full disk; or the cancellation of downloadCtx.
CopyFails ==
  /\ copier = "run"
  /\ copier' \in {"error"} \cup (IF DownloadDone THEN {"canceled"} ELSE {})
  /\ UNCHANGED <<disk, main, calls, ctxDone, off, ver, body, seen, watcher, result>>

-----------------------------------------------------------------------------
(* The watcher                                                               *)

WatcherSees ==
  /\ watcher = "wait"
  /\ seen
  /\ watcher' = "off"
  /\ UNCHANGED <<disk, main, calls, ctxDone, off, ver, body, copier, seen, result>>

\* Mutant of TimerFires: the timer is looked at only once a byte has come.
TimerWaitsForByte ==
  /\ watcher = "wait"
  /\ seen
  /\ watcher' = "sent"
  /\ UNCHANGED <<disk, main, calls, ctxDone, off, ver, body, copier, seen, result>>

\* Twelve seconds after the response. A first byte that comes meanwhile may
\* lose the race in the watcher's select.
TimerFires ==
  /\ watcher = "wait"
  /\ watcher' = "sent"
  /\ UNCHANGED <<disk, main, calls, ctxDone, off, ver, body, copier, seen, result>>

CancelDownload ==
  /\ watcher = "sent"
  /\ watcher' = "fired"
  /\ UNCHANGED <<disk, main, calls, ctxDone, off, ver, body, copier, seen, result>>

-----------------------------------------------------------------------------
(* The select loop                                                           *)

TimedOut == watcher \in {"sent", "fired"}

OnTimeout ==
  /\ main = "copy"
  /\ TimedOut
  /\ Return("timeout")
  /\ UNCHANGED <<part, out>>

OnCanceled ==
  /\ main = "copy"
  /\ ctxDone
  /\ Return(IF TimedOut THEN "timeout" ELSE "canceled")
  /\ UNCHANGED <<part, out>>

\* Mutant of OnCopyError: timeoutCh is not looked at.
OnCopyErrorPlain ==
  /\ main = "copy"
  /\ copier \in {"error", "canceled"}
  /\ Return(copier)
  /\ UNCHANGED <<part, out>>

OnCopyError ==
  /\ main = "copy"
  /\ copier \in {"error", "canceled"}
  /\ Return(IF TimedOut THEN "timeout" ELSE copier)
  /\ UNCHANGED <<part, out>>

OnCopied ==
  /\ main = "copy"
  /\ copier = "ok"
  /\ \/ Return("success") /\ out' = part /\ part' = <<>>
     \/ Return("error") /\ UNCHANGED <<part, out>>

-----------------------------------------------------------------------------
(* The environment                                                           *)

Cancel ==
  /\ main # "idle"
  /\ ~ctxDone
  /\ ctxDone' = TRUE
  /\ UNCHANGED <<disk, main, calls, off, ver, body, copier, seen, watcher, result>>

Crash ==
  /\ main # "idle"
  /\ Return("none")
  /\ UNCHANGED <<part, out>>

RemoteChanges ==
  /\ remote < MaxVersion
  /\ remote' = remote + 1
  /\ UNCHANGED <<part, out, begun, main, calls, ctxDone, off, ver, body, copier, seen, watcher,
                 result>>

Request == RequestFails \/ RangeRefused \/ Partial \/ Whole
Copier == CopyBlock \/ CopyEnds \/ CopyFails
Watcher == WatcherSees \/ TimerFires \/ CancelDownload
Loop == OnTimeout \/ OnCanceled \/ OnCopyError \/ OnCopied

Next == Start \/ Request \/ Copier \/ Watcher \/ Loop \/ Cancel \/ Crash \/ RemoteChanges

Spec == Init /\ [][Next]_vars

\* The goroutines run; a server may be silent for ever, except that Do and Read
\* return once their context is cancelled.
DrainSpec ==
  Spec /\ WF_vars(Watcher) /\ WF_vars(Loop) /\ WF_vars(ctxDone /\ Request)
       /\ WF_vars(DownloadDone /\ Copier)

-----------------------------------------------------------------------------
(* Properties                                                                *)

TypeOK ==
  /\ part \in Seq(Versions \X Blocks) /\ out \in Seq(Versions \X Blocks)
  /\ remote \in Versions /\ begun \in Versions
  /\ main \in {"idle", "request", "copy"}
  /\ calls \in 0 .. MaxCalls
  /\ ctxDone \in BOOLEAN /\ seen \in BOOLEAN
  /\ off \in 0 .. NBlocks /\ ver \in Versions /\ body \in 1 .. NBlocks + 1
  /\ copier \in {"none", "run", "ok", "error", "canceled"}
  /\ watcher \in {"none", "wait", "off", "sent", "fired"}
  /\ result \in {"none", "success", "timeout", "canceled", "refused", "error"}

\* Resuming by size is sound while the remote file stays the same: at any moment a
\* crash may come, .part is a prefix of it, whatever it was before .part was begun.
PartIsPrefix ==
  begun = remote => Len(part) <= NBlocks /\ part = SubSeq(File(remote), 1, Len(part))

\* A success leaves the whole file, of one version if the server's file did not
\* change since .part was begun.
SuccessIsWhole ==
  result = "success" =>
    /\ Len(out) = NBlocks
    /\ \A i \in Blocks : out[i][2] = i
    /\ begun = remote => out = File(remote)

\* A server that accepts the request and then stays silent does not hold the job.
SilenceEnds == (main = "copy" /\ ~seen) ~> (seen \/ main = "idle")

\* What the server refuses for ever to extend is the whole file: a call that ends
\* with 416 has lost nothing and could have been finished without it.
RefusedIsComplete ==
  result = "refused" /\ begun = remote => part = File(remote)

\* OutputPath is replaced in one step by a whole file, the remote one if .part was
\* begun with it. The first-byte timeout is reported as a failure, which RetryFailed
\* retries, and not as the cancellation it causes.
Download == INSTANCE AtomicDownload WITH
  Nothing <- <<>>,
  Contents <- {s \in [Blocks -> Versions \X Blocks] : \A i \in Blocks : s[i][2] = i},
  Failures <- {"error", "timeout", "refused"},
  target <- File(remote),
  sound <- (begun = remote),
  active <- (main # "idle"),
  canceled <- ctxDone

ImplementsDownload == Download!Spec

=============================================================================
