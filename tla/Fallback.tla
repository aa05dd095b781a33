-------------------------------- MODULE Fallback --------------------------------
(***************************************************************************)
(* The whole of Downloader.Download (internal/downloader/segmented.go):    *)
(* the segmented path of Segmented, and downloadSingle, which a call takes *)
(* when HEAD fails (after probeWithRangeGET) or announces no ranges. The   *)
(* two paths share the .part file and the metadata but not their meaning:  *)
(* downloadSegmented truncates .part to full length and trusts the         *)
(* metadata, downloadSingle resumes from the length of .part. Here the     *)
(* remote file changes between calls only, but the server may ignore       *)
(* ranges.                                                                 *)
(***************************************************************************)
EXTENDS Segmented

VARIABLES
  copier,   \* downloadSingle's copying goroutine, or what it put into doneCh
  at,       \* chunk its next bytes belong to
  begun,    \* history: version that was current when .part was last empty
  spoiled,  \* history: a 200 has overwritten or removed bytes under live metadata
  planless  \* the .json is one that downloadSingle saved: it lists no chunks

single == <<copier, at, begun, spoiled, planless>>
allVars == <<vars, single>>

\* Length of .part, which downloadSingle takes for what it has.
Size == Cardinality({c \in Chunks : part[c] # Absent})

FInit ==
  Init /\ copier = "none" /\ at = 1 /\ begun = 1 /\ spoiled = FALSE /\ planless = FALSE

-----------------------------------------------------------------------------
(* The segmented path                                                        *)

\* The server may also answer HEAD as a segmented download needs it.
FHead ==
  /\ Head
  /\ spoiled' = (spoiled /\ meta' # NoMeta)
  /\ planless' = FALSE
  /\ UNCHANGED <<copier, at, begun>>

\* The metadata downloadSingle saved may be found compatible: the server sends no
\* validators, and the size it notes (left open here) is the one HEAD announces. It
\* lists fewer chunks than the plan has, so .part is given up together with it.
CorruptPartial ==
  /\ main = "head"
  /\ planless
  /\ main' = "idle"
  /\ result' = "error"
  /\ part' = NoFile
  /\ meta' = NoMeta /\ finishes' = 0 /\ spoiled' = FALSE /\ planless' = FALSE
  /\ UNCHANGED <<out, remote, calls, ctxDone, st, group, copier, at, begun>>

FOpenPart ==
  /\ OpenPart
  /\ begun' = IF part = NoFile THEN remote ELSE begun
  /\ UNCHANGED <<copier, at, spoiled, planless>>

\* Status 200 without Content-Range: the whole file is written at the chunk's
\* offset, which is right for the first chunk only.
FetchFull(w) ==
  /\ pc[w] = "fetch"
  /\ pc' = [pc EXCEPT ![w] = "mark"]
  /\ part' = [c \in Chunks |-> IF has[w] = 1 THEN remote
                               ELSE IF c < has[w] THEN part[c] ELSE Junk]
  /\ spoiled' = (spoiled \/ has[w] # 1)
  /\ UNCHANGED <<meta, out, remote, finishes, main, calls, ctxDone, st, result, spawned,
                 has, next, workCh, firstErr, copier, at, begun, planless>>

\* Some of such a body is written; an error, a cancellation or the end of the process
\* may come before the rest.
FullBody(w) ==
  /\ pc[w] = "fetch"
  /\ \E last \in has[w] + 1 .. NChunks :
       part' = [c \in Chunks |-> IF c \notin has[w] .. last THEN part[c]
                                ELSE IF has[w] = 1 THEN remote ELSE Junk]
  /\ spoiled' = (spoiled \/ has[w] # 1)
  /\ UNCHANGED <<meta, out, remote, finishes, main, calls, ctxDone, st, result, group, copier,
                 at, begun, planless>>

FJoin ==
  /\ Join
  /\ spoiled' = (spoiled /\ meta' # NoMeta)
  /\ UNCHANGED <<copier, at, begun, planless>>

\* Everything else is as in Segmented.
Seg(A) == A /\ UNCHANGED single

FMain == FHead \/ CorruptPartial \/ FOpenPart \/ FJoin \/ Seg(AlreadyComplete \/ StartGroup \/ Spawn)

FTransfer(w) == FetchFull(w) \/ Seg(Transfer(w))

-----------------------------------------------------------------------------
(* How a call comes to downloadSingle                                        *)

\* HEAD fails or is refused with 405 or 403.
HeadRefused ==
  /\ main = "head"
  /\ main' = "probe"
  /\ UNCHANGED <<disk, calls, ctxDone, st, result, group, single>>

\* HEAD announces no ranges, or no size, which no list of chunks is compatible with.
NoRanges ==
  /\ main = "head"
  /\ main' = "request"
  /\ \E sized \in BOOLEAN :
       IF sized /\ meta # NoMeta /\ meta.ver = remote
       THEN st' = meta /\ UNCHANGED <<meta, finishes, spoiled, planless>>
       ELSE /\ st' = NoMeta /\ meta' = NoMeta /\ finishes' = 0 /\ spoiled' = FALSE
            /\ planless' \in {FALSE, planless}
  /\ UNCHANGED <<part, out, remote, calls, ctxDone, result, group, copier, at, begun>>

\* probeWithRangeGET: whatever the probe finds, downloadSingle is next.
Probe ==
  /\ main = "probe"
  /\ main' = "request"
  /\ UNCHANGED <<disk, calls, ctxDone, st, result, group, single>>

-----------------------------------------------------------------------------
(* downloadSingle                                                            *)

SingleReturns(r) ==
  /\ main' = "idle"
  /\ copier' = "none"
  /\ result' = r
  /\ at' = 1
  /\ UNCHANGED <<remote, calls, ctxDone, st, group, begun>>

\* Mutant of Errors: any error of a transfer may be classified as a cancellation.
ErrorsUnasked == {"error", "canceled"}

Errors == {"error"} \cup (IF ctxDone THEN {"canceled"} ELSE {})

\* Mutant of SingleFails: 416 is taken to say that .part is complete.
RefusedIsDone ==
  /\ main = "request"
  /\ Size = NChunks
  /\ SingleReturns("success")
  /\ out' = part
  /\ part' = NoFile
  /\ meta' = NoMeta /\ finishes' = 0 /\ spoiled' = FALSE /\ planless' = FALSE

\* The request fails, or is answered with a status >= 400; 416 is one of them,
\* and the only honest answer once .part has full length.
SingleFails ==
  /\ main \in {"probe", "request"}
  /\ \E r \in Errors : SingleReturns(r)
  /\ UNCHANGED <<part, meta, out, finishes, spoiled, planless>>

\* 206 with the bytes from Size on.
Resume ==
  /\ main = "request"
  /\ Size > 0 /\ Size < NChunks
  /\ main' = "copy"
  /\ copier' = "run"
  /\ at' = Size + 1
  /\ UNCHANGED <<disk, calls, ctxDone, st, result, group, begun, spoiled, planless>>

\* 200 with everything: Truncate(0). The metadata stays until the loop's first tick.
Restart ==
  /\ main = "request"
  /\ main' = "copy"
  /\ copier' = "run"
  /\ at' = 1
  /\ part' = NoFile
  /\ begun' = remote
  /\ spoiled' = (spoiled \/ meta # NoMeta)
  /\ UNCHANGED <<meta, out, remote, finishes, calls, ctxDone, st, result, group, planless>>

\* Mutant of CopyChunk: the copier writes on after the end of the body.
CopyBeyond ==
  /\ copier = "run"
  /\ at <= NChunks + 1
  /\ part' = [part EXCEPT ![at] = remote]
  /\ at' = at + 1
  /\ UNCHANGED <<meta, out, remote, finishes, main, calls, ctxDone, st, result, group, copier,
                 begun, spoiled, planless>>

CopyChunk ==
  /\ copier = "run"
  /\ at <= NChunks
  /\ part' = [part EXCEPT ![at] = remote]
  /\ at' = at + 1
  /\ UNCHANGED <<meta, out, remote, finishes, main, calls, ctxDone, st, result, group, copier,
                 begun, spoiled, planless>>

CopyEnds ==
  /\ copier = "run"
  /\ at = NChunks + 1
  /\ copier' = "ok"
  /\ UNCHANGED <<disk, main, calls, ctxDone, st, result, group, at, begun, spoiled,
                 planless>>

\* Mutant of CopyFails: the copier returns without a word.
CopyDropsError ==
  /\ copier = "run"
  /\ copier' = "none"
  /\ UNCHANGED <<disk, main, calls, ctxDone, st, result, group, at, begun, spoiled,
                 planless>>

CopyFails ==
  /\ copier = "run"
  /\ copier' \in Errors
  /\ UNCHANGED <<disk, main, calls, ctxDone, st, result, group, at, begun, spoiled,
                 planless>>

\* Mutant of SaveUseless: the metadata lists what .part holds, as the server's
\* present version.
SaveClaims ==
  /\ Save([ver |-> remote, complete |-> 1 .. at - 1])
  /\ UNCHANGED <<finishes, spoiled, planless>>

\* The metadata downloadSingle saves lists no chunks, which is NoMeta with planless.
SaveUseless ==
  \/ meta' = NoMeta /\ finishes' = 0 /\ spoiled' = FALSE /\ planless' = TRUE
  \/ UNCHANGED <<meta, finishes, spoiled, planless>>

SaveTick ==
  /\ main = "copy"
  /\ SaveUseless
  /\ UNCHANGED <<part, out, remote, main, calls, ctxDone, st, result, group, copier, at,
                 begun>>

\* doneCh: the metadata is saved and removed, .part renamed, the checksum computed.
SingleDone ==
  /\ main = "copy"
  /\ copier = "ok"
  /\ meta' = NoMeta /\ finishes' = 0 /\ spoiled' = FALSE /\ planless' = FALSE
  /\ \/ SingleReturns("error") /\ UNCHANGED <<part, out>>
     \/ /\ \E r \in {"success", "error"} : SingleReturns(r)
        /\ out' = part
        /\ part' = NoFile

SingleError ==
  /\ main = "copy"
  /\ copier \in {"error", "canceled"}
  /\ SaveUseless
  /\ SingleReturns(copier)
  /\ UNCHANGED <<part, out>>

\* ctx.Done: nothing is saved.
SingleCanceled ==
  /\ main = "copy"
  /\ ctxDone
  /\ SingleReturns("canceled")
  /\ UNCHANGED <<part, meta, out, finishes, spoiled, planless>>

Single ==
  \/ HeadRefused \/ NoRanges \/ Probe \/ SingleFails
  \/ Resume \/ Restart
  \/ SingleDone \/ SingleError \/ SingleCanceled

Copier == CopyChunk \/ CopyEnds \/ CopyFails

Die ==
  /\ Crash
  /\ copier' = "none" /\ at' = 1
  /\ UNCHANGED <<begun, spoiled, planless>>

FNext ==
  \/ FMain \/ Seg(Download \/ SetupFails \/ Cancel \/ TickerSave)
  \/ Seg(main = "idle" /\ RemoteChanges)
  \/ \E g \in Group : Seg(Goroutine(g))
  \/ \E w \in Workers : FTransfer(w) \/ FullBody(w)
  \/ Single \/ SaveTick \/ Copier \/ Die

FSpec == FInit /\ [][FNext]_allVars

\* Servers answer, and goroutines that can take a step do.
FFairSpec ==
  /\ FSpec
  /\ WF_allVars(FMain \/ Single) /\ WF_allVars(Copier)
  /\ \A g \in Group : WF_allVars(Seg(Goroutine(g)))
  /\ \A w \in Workers : WF_allVars(FTransfer(w))

-----------------------------------------------------------------------------
(* Properties                                                                *)

FTypeOK ==
  /\ part \in Content /\ out \in Content
  /\ meta \in Meta /\ st \in Meta
  /\ main \in {"idle", "head", "open", "plan", "group", "probe", "request", "copy"}
  /\ result \in {"none", "success", "canceled", "error"}
  /\ copier \in {"none", "run", "ok", "error", "canceled"}
  /\ at \in 1 .. NChunks + 1
  /\ begun \in Versions
  /\ spoiled \in BOOLEAN /\ planless \in BOOLEAN

\* Two paths that read one .part differently, one by its length and one by the
\* metadata, do not mislead each other: what ends as a success is whole, and is
\* the remote file if that did not change since .part was begun. In particular
\* downloadSingle never takes a .part that downloadSegmented has truncated to
\* full length for a file it may finish.
MixedSuccessIsRight ==
  result = "success" /\ ~spoiled /\ finishes <= 1 =>
    /\ \A c \in Chunks : out[c] \in Versions
    /\ begun = remote => out = [c \in Chunks |-> remote]

\* Metadata stays sound across the two paths as well, as long as no answer of 200
\* has overwritten or truncated what it lists (see the README for those).
MixedResumeSound == ~spoiled => ResumeSound

\* Whichever path a call takes, OutputPath is replaced in one step by a file of full
\* length, and by the remote one unless an answer of 200 has spoiled what was kept,
\* the metadata has survived an earlier rename, or the stream goes on with a .part of
\* another version; and only a call its caller cancelled ends as cancelled.
Mixed == INSTANCE AtomicDownload WITH
  Nothing <- NoFile,
  Contents <- [Chunks -> {Junk, 0} \cup Versions],
  Failures <- {"error"},
  target <- [c \in Chunks |-> remote],
  sound <- (~spoiled /\ finishes = 0 /\ (main = "copy" => begun = remote)),
  active <- (main # "idle"),
  canceled <- ctxDone

ImplementsMixed == Mixed!Spec

\* A single stream ends, its copier's error or not, if its server answers.
SingleEnds == (main = "copy") ~> (main = "idle")

=============================================================================
