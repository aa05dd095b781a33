------------------------------ MODULE StreamProofs ------------------------------
(***************************************************************************)
(* Resuming by size is sound for a file of any length, over any number of  *)
(* calls, crashes, timeouts and changes of the remote file, and            *)
(* downloadStreaming is an atomic download.                                *)
(***************************************************************************)
EXTENDS Stream, SequenceTheorems, TLAPS

\* No version is from the future.
PastVersions == begun <= remote /\ ver <= remote

\* Block i is at position i, of the version the server has if that is the one
\* .part was begun with.
InPlace ==
  /\ Len(part) <= NBlocks
  /\ \A i \in 1 .. Len(part) : part[i][2] = i /\ (begun = remote => part[i][1] = remote)

\* The copier appends the next block of the response to .part; it is cancelled only
\* by the caller or by the watcher.
CopierAtEnd ==
  /\ main # "copy" => copier = "none"
  /\ main # "idle" => result = "none"
  /\ copier # "none" =>
       /\ off = Len(part) /\ body = off + 1
       /\ begun = remote => ver = remote
  /\ copier = "ok" => body = NBlocks + 1
  /\ copier = "canceled" => DownloadDone

IInv ==
  /\ TypeOK
  /\ PastVersions
  /\ InPlace
  /\ CopierAtEnd
  /\ SuccessIsWhole
  /\ RefusedIsComplete

-----------------------------------------------------------------------------

LEMMA Constants == NBlocks \in Nat /\ MaxCalls \in Nat /\ MaxVersion \in Nat \ {0}
BY StreamAssumption DEF StreamAssumption

LEMMA Numbers ==
  ASSUME TypeOK
  PROVE  /\ remote \in Nat /\ begun \in Nat /\ ver \in Nat /\ remote >= 1
         /\ off \in Nat /\ body \in Nat /\ Len(part) \in Nat /\ Len(out) \in Nat
BY Constants, LenProperties DEF TypeOK, Versions

LEMMA FileIsSeq ==
  ASSUME NEW v \in Versions
  PROVE  /\ File(v) \in Seq(Versions \X Blocks)
         /\ Len(File(v)) = NBlocks
         /\ \A i \in Blocks : File(v)[i] = <<v, i>>
<1>1. File(v) \in [1 .. NBlocks -> Versions \X Blocks]
  BY DEF File, Blocks
<1>2. QED
  BY <1>1, Constants DEF File, Blocks

\* A pair is its components.
LEMMA Pairs ==
  ASSUME NEW p \in Versions \X Blocks
  PROVE  p = <<p[1], p[2]>>
OBVIOUS

\* What is in place, and as long as the file, is the file.
LEMMA WholeIsFile ==
  ASSUME NEW v \in Versions, NEW s \in Seq(Versions \X Blocks), Len(s) = NBlocks,
         \A i \in 1 .. Len(s) : s[i][2] = i /\ s[i][1] = v
  PROVE  s = File(v)
<1>1. \A i \in 1 .. Len(s) : s[i] \in Versions \X Blocks
  BY ElementOfSeq
<1>2. \A i \in 1 .. Len(s) : s[i] = <<v, i>>
  BY <1>1, Pairs
<1>3. \A i \in 1 .. Len(s) : s[i] = File(v)[i]
  BY <1>2, FileIsSeq DEF Blocks
<1>4. QED
  BY <1>3, FileIsSeq, SeqEqual

LEMMA InPlaceIsPrefix == TypeOK /\ InPlace => PartIsPrefix
<1> SUFFICES ASSUME TypeOK, InPlace, begun = remote
             PROVE  Len(part) <= NBlocks /\ part = SubSeq(File(remote), 1, Len(part))
  BY DEF PartIsPrefix
<1> DEFINE s == SubSeq(File(remote), 1, Len(part))
<1>1. remote \in Versions /\ part \in Seq(Versions \X Blocks) /\ Len(part) \in 0 .. NBlocks
  BY Constants, Numbers DEF TypeOK, InPlace
<1>2. \A i \in 1 .. Len(part) : i \in Blocks /\ File(remote)[i] = <<remote, i>>
  BY <1>1, FileIsSeq, Constants DEF Blocks
<1>3. \A i \in 1 .. Len(part) : File(remote)[i] \in Versions \X Blocks
  BY <1>1, <1>2
<1>4. s \in Seq(Versions \X Blocks) /\ Len(s) = Len(part)
        /\ \A i \in 1 .. Len(part) : s[i] = File(remote)[i]
  <2>1. /\ s \in Seq(Versions \X Blocks)
        /\ Len(s) = IF 1 <= Len(part) THEN Len(part) - 1 + 1 ELSE 0
        /\ \A i \in 1 .. Len(part) - 1 + 1 : s[i] = File(remote)[1 + i - 1]
    BY <1>1, <1>3, SubSeqProperties
  <2>2. QED
    BY <2>1, <1>1
<1>5. \A i \in 1 .. Len(part) : part[i] \in Versions \X Blocks
  BY <1>1, ElementOfSeq
<1>6. \A i \in 1 .. Len(part) : part[i] = <<remote, i>>
  BY <1>5, Pairs DEF InPlace
<1>7. part = s
  BY <1>1, <1>2, <1>4, <1>6, SeqEqual
<1>8. QED
  BY <1>1, <1>7

-----------------------------------------------------------------------------

Results == {"none", "timeout", "canceled", "refused", "error"}

\* A call that ends without a success.
LEMMA ReturnKeepsIInv ==
  ASSUME IInv, NEW r \in Results, Return(r), UNCHANGED <<part, out>>,
         r = "refused" /\ begun = remote => part = File(remote)
  PROVE  IInv'
<1> USE DEF IInv
<1>1. TypeOK'
  BY DEF TypeOK, Return, Results
<1>2. PastVersions' /\ InPlace'
  BY DEF PastVersions, InPlace, Return
<1>3. CopierAtEnd'
  BY DEF CopierAtEnd, Return
<1>4. SuccessIsWhole' /\ RefusedIsComplete'
  BY DEF SuccessIsWhole, RefusedIsComplete, Return, Results
<1>5. QED
  BY <1>1, <1>2, <1>3, <1>4

LEMMA StartKeepsIInv ==
  ASSUME IInv, Start
  PROVE  IInv'
<1> USE DEF IInv
<1>1. TypeOK'
  <2>1. ctxDone' = FALSE /\ UNCHANGED <<part, out, remote, off, ver, body, copier, seen, watcher>>
    BY DEF Start
  <2>2. calls' \in 0 .. MaxCalls /\ begun' \in Versions
    BY Constants DEF TypeOK, Start
  <2>3. main' = "request" /\ result' = "none"
    BY DEF Start
  <2>4. QED
    BY <2>1, <2>2, <2>3 DEF TypeOK
<1>2. PastVersions'
  BY Numbers DEF PastVersions, Start
<1>3. InPlace'
  <2>1. CASE part = <<>>
    <3>1. part' = <<>> /\ Len(<<>>) = 0
      BY <2>1 DEF Start
    <3>2. QED
      BY <3>1, Constants DEF InPlace
  <2>2. CASE part # <<>>
    BY <2>2 DEF InPlace, Start
  <2>3. QED
    BY <2>1, <2>2
<1>4. CopierAtEnd' /\ SuccessIsWhole' /\ RefusedIsComplete'
  BY DEF CopierAtEnd, SuccessIsWhole, RefusedIsComplete, Start
<1>5. QED
  BY <1>1, <1>2, <1>3, <1>4

LEMMA RequestKeepsIInv ==
  ASSUME IInv, Request
  PROVE  IInv'
<1>1. CASE RequestFails
  <2>1. PICK r \in {"error", "canceled"} : Return(r)
    BY <1>1 DEF RequestFails
  <2>2. QED
    BY <1>1, <2>1, ReturnKeepsIInv DEF RequestFails, Results
<1>2. CASE RangeRefused
  <2>1. Return("refused") /\ UNCHANGED <<part, out>> /\ Len(part) = NBlocks
    BY <1>2, Constants, Numbers DEF RangeRefused, IInv, InPlace
  <2>2. begun = remote => part = File(remote)
    BY <2>1, WholeIsFile DEF IInv, InPlace, TypeOK
  <2>3. QED
    BY <2>1, <2>2, ReturnKeepsIInv DEF Results
<1>3. CASE Partial
  <2> USE <1>3 DEF IInv
  <2>1. TypeOK'
    <3>1. seen' = FALSE /\ UNCHANGED <<part, out, remote, begun, calls, ctxDone, result>>
      BY DEF Partial, Copying
    <3>2. off' \in 0 .. NBlocks /\ body' \in 1 .. NBlocks + 1 /\ ver' \in Versions
      BY Constants, Numbers DEF TypeOK, Partial, Copying
    <3>3. main' = "copy" /\ copier' = "run" /\ watcher' = "wait"
      BY DEF Partial, Copying
    <3>4. QED
      BY <3>1, <3>2, <3>3 DEF TypeOK
  <2>2. PastVersions' /\ InPlace'
    BY Numbers DEF PastVersions, InPlace, Partial, Copying
  <2>3. CopierAtEnd'
    BY Numbers DEF CopierAtEnd, Partial, Copying
  <2>4. SuccessIsWhole' /\ RefusedIsComplete'
    BY DEF SuccessIsWhole, RefusedIsComplete, CopierAtEnd, Partial, Copying
  <2>5. QED
    BY <2>1, <2>2, <2>3, <2>4
<1>4. CASE Whole
  <2> USE <1>4 DEF IInv
  <2>1. part' = <<>> /\ Len(part') = 0 /\ part' \in Seq(Versions \X Blocks)
    BY DEF Whole
  <2>2. TypeOK'
    <3>1. seen' = FALSE /\ UNCHANGED <<out, remote, calls, ctxDone, result>> /\ begun' = remote
      BY DEF Whole, Copying
    <3>2. off' \in 0 .. NBlocks /\ body' \in 1 .. NBlocks + 1 /\ ver' \in Versions
      BY Constants DEF TypeOK, Whole, Copying
    <3>3. main' = "copy" /\ copier' = "run" /\ watcher' = "wait"
      BY DEF Whole, Copying
    <3>4. QED
      BY <2>1, <3>1, <3>2, <3>3 DEF TypeOK
  <2>3. PastVersions' /\ InPlace'
    BY <2>1, Constants, Numbers DEF PastVersions, InPlace, Whole, Copying
  <2>4. CopierAtEnd'
    BY <2>1 DEF CopierAtEnd, Whole, Copying
  <2>5. SuccessIsWhole' /\ RefusedIsComplete'
    BY DEF SuccessIsWhole, RefusedIsComplete, CopierAtEnd, Whole, Copying
  <2>6. QED
    BY <2>2, <2>3, <2>4, <2>5
<1>5. QED
  BY <1>1, <1>2, <1>3, <1>4 DEF Request

LEMMA CopyBlockKeepsIInv ==
  ASSUME IInv, CopyBlock
  PROVE  IInv'
<1> USE DEF IInv
<1> DEFINE b == <<ver, body>>
<1>1. main = "copy" /\ result = "none" /\ off = Len(part) /\ body = Len(part) + 1 /\ body <= NBlocks
  BY DEF CopyBlock, CopierAtEnd, TypeOK
<1>2. part \in Seq(Versions \X Blocks) /\ b \in Versions \X Blocks
  BY <1>1, Constants, Numbers DEF TypeOK, Blocks
<1>3. part' = Append(part, b)
  BY <1>1, Numbers DEF CopyBlock
<1>4. /\ part' \in Seq(Versions \X Blocks)
      /\ Len(part') = Len(part) + 1
      /\ \A i \in 1 .. Len(part) : part'[i] = part[i]
      /\ part'[Len(part) + 1] = b
  BY <1>2, <1>3, AppendProperties
<1>5. TypeOK'
  BY <1>1, <1>4, Constants, Numbers DEF TypeOK, CopyBlock
<1>6. PastVersions'
  BY DEF PastVersions, CopyBlock
<1>7. InPlace'
  <2>1. begun' = begun /\ remote' = remote /\ (begun = remote => ver = remote)
    BY DEF CopyBlock, CopierAtEnd
  <2>2. Len(part') <= NBlocks
    BY <1>1, <1>4, Numbers
  <2>3. ASSUME NEW i \in 1 .. Len(part')
        PROVE  part'[i][2] = i /\ (begun = remote => part'[i][1] = remote)
    <3>1. CASE i \in 1 .. Len(part)
      BY <3>1, <1>4 DEF InPlace
    <3>2. CASE i = Len(part) + 1
      BY <3>2, <1>1, <1>4, <2>1
    <3>3. QED
      BY <3>1, <3>2, <1>4, Numbers
  <2>4. QED
    BY <2>1, <2>2, <2>3 DEF InPlace
<1>8. CopierAtEnd'
  BY <1>1, <1>4, Numbers DEF CopierAtEnd, CopyBlock
<1>9. SuccessIsWhole' /\ RefusedIsComplete'
  BY <1>1 DEF SuccessIsWhole, RefusedIsComplete, CopyBlock
<1>10. QED
  BY <1>5, <1>6, <1>7, <1>8, <1>9

\* Steps that change neither files nor versions nor main.
LEMMA ControlKeepsIInv ==
  ASSUME IInv, CopyEnds \/ CopyFails \/ Watcher \/ Cancel
  PROVE  IInv'
<1> USE DEF IInv, CopyEnds, CopyFails, Watcher, WatcherSees, TimerFires, CancelDownload, Cancel, disk
<1>1. TypeOK'
  BY DEF TypeOK, DownloadDone
<1>2. PastVersions' /\ InPlace'
  BY DEF PastVersions, InPlace
<1>3. CopierAtEnd'
  BY DEF CopierAtEnd, DownloadDone, TypeOK
<1>4. SuccessIsWhole' /\ RefusedIsComplete'
  BY DEF SuccessIsWhole, RefusedIsComplete
<1>5. QED
  BY <1>1, <1>2, <1>3, <1>4

LEMMA LoopKeepsIInv ==
  ASSUME IInv, Loop
  PROVE  IInv'
<1>1. CASE OnTimeout \/ OnCanceled \/ OnCopyError
  <2>1. PICK r \in {"timeout", "canceled", "error"} : Return(r)
    BY <1>1 DEF OnTimeout, OnCanceled, OnCopyError
  <2>2. UNCHANGED <<part, out>>
    BY <1>1 DEF OnTimeout, OnCanceled, OnCopyError
  <2>3. QED
    BY <2>1, <2>2, ReturnKeepsIInv DEF Results
<1>2. CASE OnCopied /\ Return("error") /\ UNCHANGED <<part, out>>
  BY <1>2, ReturnKeepsIInv DEF Results
<1>3. CASE OnCopied /\ Return("success") /\ out' = part /\ part' = <<>>
  <2> USE <1>3 DEF IInv
  <2>1. copier = "ok" /\ Len(part) = NBlocks /\ part \in Seq(Versions \X Blocks)
    BY Numbers, Constants DEF OnCopied, CopierAtEnd, TypeOK
  <2>2. part' = <<>> /\ Len(part') = 0 /\ part' \in Seq(Versions \X Blocks)
    OBVIOUS
  <2>3. TypeOK'
    BY <2>1, <2>2 DEF TypeOK, Return
  <2>4. PastVersions' /\ InPlace' /\ CopierAtEnd'
    BY <2>2, Constants DEF PastVersions, InPlace, CopierAtEnd, Return
  <2>5. SuccessIsWhole'
    <3>1. begun = remote => part = File(remote)
      BY <2>1, WholeIsFile DEF InPlace, TypeOK
    <3>2. \A i \in Blocks : part[i][2] = i
      BY <2>1 DEF InPlace, Blocks
    <3>3. QED
      BY <2>1, <3>1, <3>2 DEF SuccessIsWhole, Return, File, Blocks
  <2>6. RefusedIsComplete'
    BY DEF RefusedIsComplete, Return
  <2>7. QED
    BY <2>3, <2>4, <2>5, <2>6
<1>4. QED
  BY <1>1, <1>2, <1>3 DEF Loop, OnCopied

LEMMA CrashKeepsIInv ==
  ASSUME IInv, Crash
  PROVE  IInv'
BY ReturnKeepsIInv DEF Crash, Results

LEMMA RemoteChangesKeepsIInv ==
  ASSUME IInv, RemoteChanges
  PROVE  IInv'
<1> USE DEF IInv
<1>1. begun < remote' /\ remote' \in Versions
  BY Constants, Numbers DEF RemoteChanges, PastVersions, Versions, TypeOK
<1>2. begun' = begun /\ begun' # remote'
  BY <1>1, Numbers DEF RemoteChanges
<1>3. TypeOK'
  BY <1>1 DEF TypeOK, RemoteChanges
<1>4. PastVersions'
  BY <1>1, Numbers DEF PastVersions, RemoteChanges
<1>5. InPlace' /\ CopierAtEnd'
  BY <1>2 DEF InPlace, CopierAtEnd, DownloadDone, RemoteChanges
<1>6. SuccessIsWhole' /\ RefusedIsComplete'
  BY <1>2 DEF SuccessIsWhole, RefusedIsComplete, RemoteChanges
<1>7. QED
  BY <1>3, <1>4, <1>5, <1>6

LEMMA InitIInv == Init => IInv
<1> SUFFICES ASSUME Init PROVE IInv
  OBVIOUS
<1>1. TypeOK
  <2>1. part \in Seq(Versions \X Blocks) /\ out \in Seq(Versions \X Blocks)
    BY EmptySeq DEF Init
  <2>2. ctxDone = FALSE /\ seen = FALSE
    BY DEF Init
  <2>3. 1 \in Versions /\ 0 \in 0 .. MaxCalls /\ 0 \in 0 .. NBlocks /\ 1 \in 1 .. NBlocks + 1
    BY Constants DEF Versions
  <2>4. QED
    BY <2>1, <2>2, <2>3 DEF Init, TypeOK
<1>2. QED
  BY <1>1, Constants DEF Init, IInv, PastVersions, InPlace, CopierAtEnd, SuccessIsWhole,
     RefusedIsComplete

LEMMA NextKeepsIInv == IInv /\ [Next]_vars => IInv'
<1> SUFFICES ASSUME IInv, [Next]_vars PROVE IInv'
  OBVIOUS
<1>1. CASE Next
  BY <1>1, StartKeepsIInv, RequestKeepsIInv, CopyBlockKeepsIInv, ControlKeepsIInv,
     LoopKeepsIInv, CrashKeepsIInv, RemoteChangesKeepsIInv DEF Next, Copier
<1>2. CASE UNCHANGED vars
  BY <1>2 DEF vars, disk, IInv, TypeOK, PastVersions, InPlace, CopierAtEnd, DownloadDone,
     SuccessIsWhole, RefusedIsComplete
<1>3. QED
  BY <1>1, <1>2

\* The inductive invariant holds in every reachable state of downloadStreaming.
THEOREM Inductive == Spec => []IInv
BY InitIInv, NextKeepsIInv, PTL DEF Spec

\* Every variable of downloadStreaming stays in its range.
THEOREM TypeCorrect == Spec => []TypeOK
BY Inductive, PTL DEF IInv

\* Whenever the process dies, .part is a prefix of the file the server has, or of
\* none because that changed: resuming from its size is sound.
THEOREM ResumptionSound == Spec => []PartIsPrefix
<1>1. IInv => PartIsPrefix
  BY InPlaceIsPrefix DEF IInv
<1>2. QED
  BY <1>1, Inductive, PTL

\* A success of downloadStreaming has every block, at its place.
THEOREM SuccessWhole == Spec => []SuccessIsWhole
BY Inductive, PTL DEF IInv

\* A .part that the server refuses to extend is complete.
THEOREM RefusedComplete == Spec => []RefusedIsComplete
BY Inductive, PTL DEF IInv

-----------------------------------------------------------------------------
(* Refinement                                                                *)

\* What AtomicDownload calls Contents and the tuple of its variables.
WholeFiles == {s \in [Blocks -> Versions \X Blocks] : \A i \in Blocks : s[i][2] = i}
mapped == <<out, File(remote), begun = remote, main # "idle", ctxDone, result>>

LEMMA FileIsWhole ==
  ASSUME NEW v \in Versions
  PROVE  File(v) \in WholeFiles
BY DEF File, WholeFiles

\* Calls end without a success by giving up.
LEMMA ReturnGivesUp ==
  ASSUME main # "idle", NEW r \in {"error", "timeout", "refused", "canceled"}, Return(r),
         out' = out, r = "canceled" => ctxDone
  PROVE  Download!GiveUp
<1>1. main' = "idle" /\ result' = r /\ remote' = remote /\ begun' = begun /\ ctxDone' = ctxDone
  BY DEF Return
<1>2. QED
  BY <1>1 DEF Download!GiveUp, File

LEMMA StartMaps ==
  ASSUME Start
  PROVE  Download!Start
<1>1. main = "idle" /\ main' = "request" /\ ctxDone' = FALSE /\ result' = "none"
        /\ out' = out /\ remote' = remote /\ (begun' = begun \/ begun' = remote)
  BY DEF Start
<1>2. QED
  BY <1>1 DEF Download!Start, File

LEMMA RequestMaps ==
  ASSUME Request
  PROVE  Download!GiveUp \/ Download!Discard \/ UNCHANGED mapped
<1>1. CASE RequestFails
  <2>1. PICK r \in {"error"} \cup (IF ctxDone THEN {"canceled"} ELSE {}) : Return(r)
    BY <1>1 DEF RequestFails
  <2>2. main # "idle" /\ out' = out
    BY <1>1 DEF RequestFails
  <2>3. QED
    BY <2>1, <2>2, ReturnGivesUp
<1>2. CASE RangeRefused
  BY <1>2, ReturnGivesUp DEF RangeRefused
<1>3. CASE Partial
  BY <1>3 DEF Partial, Copying, mapped, File
<1>4. CASE Whole
  <2>1. main # "idle" /\ main' # "idle" /\ begun' = remote /\ UNCHANGED <<out, remote, ctxDone, result>>
    BY <1>4 DEF Whole, Copying
  <2>2. QED
    BY <2>1 DEF Download!Discard, File
<1>5. QED
  BY <1>1, <1>2, <1>3, <1>4 DEF Request

LEMMA LoopMaps ==
  ASSUME IInv, Loop
  PROVE  Download!GiveUp \/ Download!Deliver
<1>1. CASE OnTimeout \/ OnCanceled \/ OnCopyError
  <2>1. main # "idle" /\ out' = out
    BY <1>1 DEF OnTimeout, OnCanceled, OnCopyError
  <2>2. PICK r \in {"error", "timeout", "canceled"} : Return(r) /\ (r = "canceled" => ctxDone)
    BY <1>1 DEF OnTimeout, OnCanceled, OnCopyError, IInv, CopierAtEnd, DownloadDone, TimedOut
  <2>3. QED
    BY <2>1, <2>2, ReturnGivesUp
<1>2. CASE OnCopied /\ Return("error") /\ UNCHANGED <<part, out>>
  BY <1>2, ReturnGivesUp DEF OnCopied
<1>3. CASE OnCopied /\ Return("success") /\ out' = part /\ part' = <<>>
  <2>1. copier = "ok" /\ Len(part) = NBlocks /\ part \in Seq(Versions \X Blocks)
    BY <1>3, Numbers, Constants DEF IInv, OnCopied, CopierAtEnd, TypeOK
  <2>2. part \in WholeFiles
    <3>1. part \in [Blocks -> Versions \X Blocks]
      BY <2>1, LenProperties DEF Blocks
    <3>2. QED
      BY <2>1, <3>1 DEF WholeFiles, IInv, InPlace, Blocks
  <2>3. begun = remote => part = File(remote)
    BY <2>1, WholeIsFile DEF IInv, InPlace, TypeOK
  <2>4. main # "idle" /\ main' = "idle" /\ result' = "success" /\ UNCHANGED <<remote, begun, ctxDone>>
    BY <1>3 DEF OnCopied, Return
  <2>5. QED
    BY <1>3, <2>2, <2>3, <2>4 DEF Download!Deliver, WholeFiles, File
<1>4. QED
  BY <1>1, <1>2, <1>3 DEF Loop, OnCopied

LEMMA CrashMaps ==
  ASSUME Crash
  PROVE  Download!Die
<1>1. main # "idle" /\ main' = "idle" /\ result' = "none" /\ UNCHANGED <<out, remote, begun, ctxDone>>
  BY DEF Crash, Return
<1>2. QED
  BY <1>1 DEF Download!Die, File

LEMMA RemoteChangesMaps ==
  ASSUME IInv, RemoteChanges
  PROVE  Download!TargetChanges
<1>1. remote' \in Versions /\ begun' # remote' /\ UNCHANGED <<out, main, ctxDone, result>>
  BY Constants, Numbers DEF RemoteChanges, IInv, PastVersions, Versions, TypeOK
<1>2. File(remote') \in WholeFiles
  BY <1>1, FileIsWhole
<1>3. QED
  BY <1>1, <1>2 DEF Download!TargetChanges, WholeFiles, File

LEMMA StepMaps ==
  ASSUME IInv, [Next]_vars
  PROVE  [Download!Next]_Download!vars
<1>1. CASE Copier \/ Watcher
  BY <1>1 DEF Copier, CopyBlock, CopyEnds, CopyFails, Watcher, WatcherSees, TimerFires,
              CancelDownload, disk, File, Download!vars
<1>2. CASE Cancel
  BY <1>2 DEF Cancel, disk, File, Download!Cancel, Download!Next
<1>3. CASE UNCHANGED vars
  BY <1>3 DEF vars, disk, File, Download!vars
<1>4. UNCHANGED mapped => UNCHANGED Download!vars
  BY DEF mapped, Download!vars
<1>5. QED
  BY <1>1, <1>2, <1>3, <1>4, StartMaps, RequestMaps, LoopMaps, CrashMaps, RemoteChangesMaps
  DEF Next, Download!Next

\* downloadStreaming is an atomic download: OutputPath is replaced in one step by a
\* whole file, and only a call its caller cancelled ends as cancelled.
THEOREM StreamIsAtomic == Spec => ImplementsDownload
<1>1. Init => Download!Init
  <2>1. 1 \in Versions
    BY Constants DEF Versions
  <2>2. File(1) \in WholeFiles
    BY <2>1, FileIsWhole
  <2>3. QED
    BY <2>2 DEF Init, Download!Init, WholeFiles
<1>2. QED
  BY <1>1, StepMaps, Inductive, PTL DEF Spec, ImplementsDownload, Download!Spec

=============================================================================
