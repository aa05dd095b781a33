------------------------------ MODULE AtomicDownload ------------------------------
(***************************************************************************)
(* What a resumable download promises the jobs that use it, whatever it    *)
(* keeps on disk between its calls: OutputPath changes only in one step,   *)
(* at the end of a call, from what it was to a whole file; a call that is  *)
(* cancelled, fails or dies before leaves it alone; and only a call whose  *)
(* caller cancelled it ends as cancelled. FileEngine.downloadStreaming     *)
(* (module Stream), Downloader.downloadSegmented (Segmented) and both      *)
(* paths of Downloader.Download together (Fallback) implement it.          *)
(***************************************************************************)

CONSTANTS
  Nothing,   \* no output file yet
  Contents,  \* what a whole file may hold
  Failures   \* results of calls that do not succeed, but for "canceled"

VARIABLES
  out,       \* the output file
  target,    \* what the server has
  sound,     \* what the call has, and keeps from earlier ones, is part of the target
  active,    \* a call is under way
  canceled,  \* and its context is done
  result     \* of the last call

vars == <<out, target, sound, active, canceled, result>>

Init ==
  /\ out = Nothing
  /\ target \in Contents
  /\ sound = TRUE
  /\ active = FALSE /\ canceled = FALSE /\ result = "none"

Start ==
  /\ ~active
  /\ active' = TRUE /\ canceled' = FALSE /\ result' = "none"
  /\ sound' \in {sound, TRUE}
  /\ UNCHANGED <<out, target>>

\* What earlier calls left is thrown away.
Discard ==
  /\ active
  /\ sound' = TRUE
  /\ UNCHANGED <<out, target, active, canceled, result>>

\* The one step that changes the output. A success may be refused afterwards, when
\* the file cannot be read again; what is kept after a success may be out of date.
Deliver ==
  /\ active
  /\ out' \in Contents
  /\ sound => out' = target
  /\ active' = FALSE
  /\ result' \in {"success"} \cup Failures
  /\ sound' \in BOOLEAN
  /\ UNCHANGED <<target, canceled>>

\* What is kept may have to be given up on the way.
GiveUp ==
  /\ active
  /\ active' = FALSE
  /\ result' \in Failures \/ (canceled /\ result' = "canceled")
  /\ sound' \in {sound, TRUE}
  /\ UNCHANGED <<out, target, canceled>>

Die ==
  /\ active
  /\ active' = FALSE
  /\ result' = "none"
  /\ sound' \in {sound, TRUE}
  /\ UNCHANGED <<out, target, canceled>>

Cancel ==
  /\ active
  /\ canceled' = TRUE
  /\ UNCHANGED <<out, target, sound, active, result>>

\* At any moment, also in a call.
TargetChanges ==
  /\ target' \in Contents
  /\ sound' \in {sound, FALSE}
  /\ UNCHANGED <<out, active, canceled, result>>

Next == Start \/ Discard \/ Deliver \/ GiveUp \/ Die \/ Cancel \/ TargetChanges

Spec == Init /\ [][Next]_vars

=============================================================================
