---------------------------- MODULE SegmentedProofs ----------------------------
(***************************************************************************)
(* Resumption is sound for any number of chunks, workers and calls, over   *)
(* cancellations, crashes and changes of the remote file, as long as       *)
(* servers answer a ranged request with the range.                         *)
(***************************************************************************)
EXTENDS Segmented, TLAPS

\* Outside eg.Wait there is no group.
NoGroupOutside ==
  main # "group" =>
    /\ spawned = 0 /\ next = 1 /\ workCh = {} /\ firstErr = "none"
    /\ \A g \in Group : pc[g] = "none"

\* The state in memory is of the version HEAD announced, which may be an old one by
\* now, and the metadata on disk lags behind it.
MemoryAhead ==
  /\ main # "idle" => result = "none"
  /\ st.ver <= remote /\ meta.ver <= remote
  /\ InCall =>
       /\ st.ver \in Versions
       /\ meta.complete \subseteq st.complete
       /\ meta = NoMeta \/ meta.ver = st.ver

\* A chunk is in one place: not sent, in the channel, with one worker, or complete.
OnePlace ==
  /\ \A c \in workCh : c < next /\ c \notin st.complete
  /\ \A w \in Workers : Busy(w) => has[w] \in Chunks /\ has[w] < next
  /\ NoDoubleFetch

\* The ticker is spawned first and never leaves a group without an error.
TickerEndsByError ==
  /\ spawned > 0 => pc[Ticker] # "none"
  /\ pc[Ticker] = "done" => firstErr # "none"

Arrived(c) == part[c] = st.ver

\* What is, or is about to be, marked complete has arrived, unless the remote file
\* has changed since HEAD.
DataSound ==
  /\ InCall /\ finishes = 0 /\ st.ver = remote => \A c \in st.complete : Arrived(c)
  /\ st.ver = remote => \A w \in Workers : pc[w] = "mark" => Arrived(has[w])
  /\ ResumeSound

IInv ==
  /\ TypeOK
  /\ NoGroupOutside
  /\ MemoryAhead
  /\ OnePlace
  /\ TickerEndsByError
  /\ DataSound
  /\ CanceledOnlyByCaller
  /\ FirstSuccessIsRight

-----------------------------------------------------------------------------

\* What the provers need to know of the constants and of the index sets.
LEMMA Constants ==
  /\ NChunks \in Nat \ {0} /\ MaxWorkers \in Nat /\ MaxCalls \in Nat
  /\ MaxVersion \in Nat \ {0}
BY SegmentedAssumption DEF SegmentedAssumption

LEMMA Indices ==
  /\ Group = 1 .. MaxWorkers + 2
  /\ Workers \subseteq Group /\ Ticker \in Group /\ Producer \in Group
  /\ Ticker \notin Workers /\ Producer \notin Workers /\ Ticker # Producer
  /\ \A c \in Chunks : c \in Nat /\ c >= 1 /\ c <= NChunks
  /\ \A v \in Versions : v # 0
BY Constants DEF Group, Workers, Ticker, Producer, Chunks, Versions

LEMMA VersionOrder == TypeOK => remote \in Nat /\ remote >= 1 /\ st.ver \in Nat /\ meta.ver \in Nat
BY Constants DEF TypeOK, Versions, Meta

LEMMA DownloadKeepsIInv ==
  ASSUME IInv, Download
  PROVE  IInv'
<1> USE DEF IInv
<1>1. TypeOK'
  <2>1. calls' \in 0 .. MaxCalls
    BY Constants DEF TypeOK, Download
  <2>2. main' = "head" /\ result' = "none" /\ ctxDone' \in BOOLEAN /\ UNCHANGED <<disk, st, group>>
    BY Zenon DEF Download
  <2>3. QED
    BY <2>1, <2>2 DEF TypeOK, disk, group
<1>2. NoGroupOutside'
  BY Constants, Indices DEF TypeOK, NoGroupOutside, Meta, Download, disk, group
<1>3. MemoryAhead'
  BY Constants, Indices DEF TypeOK, NoGroupOutside, MemoryAhead, InCall, NoMeta, Download, disk, group
<1>4. OnePlace'
  BY Constants, Indices DEF TypeOK, NoGroupOutside, OnePlace, NoDoubleFetch, Busy, Download, disk, group
<1>5. TickerEndsByError'
  BY Constants, Indices DEF TypeOK, NoGroupOutside, TickerEndsByError, Download, disk, group
<1>6. DataSound'
  BY Constants, Indices DEF TypeOK, NoGroupOutside, DataSound, InCall, Arrived, ResumeSound,
     MemoryAhead, OnePlace, NoDoubleFetch, Busy, NoMeta, Download, disk, group
<1>7. CanceledOnlyByCaller' /\ FirstSuccessIsRight'
  BY Constants, Indices DEF TypeOK, NoGroupOutside, CanceledOnlyByCaller, FirstSuccessIsRight,
     SuccessIsRight, Download, disk, group
<1>8. QED
  BY <1>1, <1>2, <1>3, <1>4, <1>5, <1>6, <1>7

LEMMA HeadKeepsIInv ==
  ASSUME IInv, Head
  PROVE  IInv'
<1> USE DEF IInv
<1>1. TypeOK'
  BY Constants, Indices DEF TypeOK, Content, Meta, NoMeta, NoFile, Head, disk, group
<1>2. NoGroupOutside'
  BY Constants, Indices DEF TypeOK, NoGroupOutside, Meta, Head, disk, group
<1>3. MemoryAhead'
  <2>1. remote' = remote /\ result' = result /\ result = "none" /\ remote \in Versions
    BY DEF TypeOK, MemoryAhead, Head
  <2>2. st'.ver = remote /\ (meta' = NoMeta \/ (meta' = meta /\ st' = meta))
    BY DEF Head
  <2>3. NoMeta.ver = 0 /\ NoMeta.complete = {}
    BY DEF NoMeta
  <2>4. QED
    BY <2>1, <2>2, <2>3, VersionOrder DEF MemoryAhead
<1>4. OnePlace'
  BY Constants, Indices DEF TypeOK, NoGroupOutside, OnePlace, NoDoubleFetch, Busy, Head, disk, group
<1>5. TickerEndsByError'
  BY Constants, Indices DEF TypeOK, NoGroupOutside, TickerEndsByError, Head, disk, group
<1>6. DataSound'
  BY Constants, Indices DEF TypeOK, NoGroupOutside, DataSound, InCall, Arrived, ResumeSound,
     MemoryAhead, OnePlace, NoDoubleFetch, Busy, NoMeta, Head, disk, group
<1>7. CanceledOnlyByCaller' /\ FirstSuccessIsRight'
  <2>1. result' = "none" /\ firstErr' = firstErr /\ ctxDone' = ctxDone
    BY DEF Head, MemoryAhead, group
  <2>2. QED
    BY <2>1 DEF CanceledOnlyByCaller, FirstSuccessIsRight, SuccessIsRight
<1>8. QED
  BY <1>1, <1>2, <1>3, <1>4, <1>5, <1>6, <1>7

LEMMA OpenPartKeepsIInv ==
  ASSUME IInv, OpenPart
  PROVE  IInv'
<1> USE DEF IInv
<1>1. TypeOK'
  BY Constants, Indices DEF TypeOK, Content, Meta, NoMeta, NoFile, OpenPart, disk, group
<1>2. NoGroupOutside'
  BY Constants, Indices DEF TypeOK, NoGroupOutside, Meta, OpenPart, disk, group
<1>3. MemoryAhead'
  BY Constants, Indices DEF TypeOK, NoGroupOutside, MemoryAhead, InCall, NoMeta, OpenPart, disk, group
<1>4. OnePlace'
  BY Constants, Indices DEF TypeOK, NoGroupOutside, OnePlace, NoDoubleFetch, Busy, OpenPart, disk, group
<1>5. TickerEndsByError'
  BY Constants, Indices DEF TypeOK, NoGroupOutside, TickerEndsByError, OpenPart, disk, group
<1>6. DataSound'
  <2>1. ASSUME finishes = 0, NEW c,
               \/ st.ver = remote /\ c \in st.complete
               \/ meta.ver = remote /\ c \in meta.complete
        PROVE  part'[c] = part[c]
    <3>1. c \in Chunks /\ part[c] = remote
      BY <2>1 DEF DataSound, ResumeSound, Arrived, InCall, OpenPart, TypeOK, Meta
    <3>2. part[c] # Absent
      BY <3>1, VersionOrder DEF Absent
    <3>3. QED
      BY <3>1, <3>2 DEF OpenPart
  <2>2. \A w \in Workers : pc[w] = "none"
    BY Indices DEF NoGroupOutside, OpenPart
  <2>3. QED
    BY <2>1, <2>2 DEF DataSound, ResumeSound, Arrived, InCall, OpenPart, group
<1>7. CanceledOnlyByCaller' /\ FirstSuccessIsRight'
  BY Constants, Indices DEF TypeOK, NoGroupOutside, CanceledOnlyByCaller, FirstSuccessIsRight,
     SuccessIsRight, OpenPart, disk, group
<1>8. QED
  BY <1>1, <1>2, <1>3, <1>4, <1>5, <1>6, <1>7

LEMMA AlreadyCompleteKeepsIInv ==
  ASSUME IInv, AlreadyComplete
  PROVE  IInv'
<1> USE DEF IInv
<1>1. TypeOK'
  BY Constants, Indices DEF TypeOK, Content, Meta, NoMeta, NoFile, AlreadyComplete, disk, group
<1>2. NoGroupOutside'
  BY Constants, Indices DEF TypeOK, NoGroupOutside, Meta, AlreadyComplete, disk, group
<1>3. MemoryAhead'
  BY Constants, Indices DEF TypeOK, NoGroupOutside, MemoryAhead, InCall, NoMeta,
     AlreadyComplete, disk, group
<1>4. OnePlace'
  BY Constants, Indices DEF TypeOK, NoGroupOutside, OnePlace, NoDoubleFetch, Busy,
     AlreadyComplete, disk, group
<1>5. TickerEndsByError'
  BY Constants, Indices DEF TypeOK, NoGroupOutside, TickerEndsByError, AlreadyComplete, disk, group
<1>6. DataSound'
  BY Constants, Indices DEF TypeOK, NoGroupOutside, DataSound, InCall, Arrived, ResumeSound,
     MemoryAhead, OnePlace, NoDoubleFetch, Busy, NoMeta, AlreadyComplete, disk, group
<1>7. CanceledOnlyByCaller' /\ FirstSuccessIsRight'
  <2>1. ASSUME finishes' <= 1, st.ver = remote
        PROVE  out' = [c \in Chunks |-> remote]
    <3>1. finishes = 0 /\ InCall
      BY <2>1 DEF TypeOK, AlreadyComplete, InCall
    <3>2. \A c \in Chunks : part[c] = st.ver
      BY <2>1, <3>1 DEF DataSound, Arrived, AlreadyComplete
    <3>3. part = [c \in Chunks |-> part[c]]
      BY DEF TypeOK, Content, NoFile
    <3>4. QED
      BY <2>1, <3>2, <3>3 DEF AlreadyComplete
  <2>2. /\ firstErr' = "none" /\ result' \in {"success", "error"}
        /\ st' = st /\ remote' = remote
    BY DEF AlreadyComplete, NoGroupOutside, group
  <2>3. QED
    BY <2>1, <2>2 DEF CanceledOnlyByCaller, FirstSuccessIsRight, SuccessIsRight
<1>8. QED
  BY <1>1, <1>2, <1>3, <1>4, <1>5, <1>6, <1>7

LEMMA StartGroupKeepsIInv ==
  ASSUME IInv, StartGroup
  PROVE  IInv'
<1> USE DEF IInv
<1>1. TypeOK'
  BY Constants, Indices DEF TypeOK, Content, Meta, NoMeta, NoFile, StartGroup, disk, group
<1>2. NoGroupOutside'
  BY Constants, Indices DEF TypeOK, NoGroupOutside, Meta, StartGroup, disk, group
<1>3. MemoryAhead'
  BY Constants, Indices DEF TypeOK, NoGroupOutside, MemoryAhead, InCall, NoMeta, StartGroup, disk, group
<1>4. OnePlace'
  BY Constants, Indices DEF TypeOK, NoGroupOutside, OnePlace, NoDoubleFetch, Busy, StartGroup,
     disk, group
<1>5. TickerEndsByError'
  BY Constants, Indices DEF TypeOK, NoGroupOutside, TickerEndsByError, StartGroup, disk, group
<1>6. DataSound'
  BY Constants, Indices DEF TypeOK, NoGroupOutside, DataSound, InCall, Arrived, ResumeSound,
     MemoryAhead, OnePlace, NoDoubleFetch, Busy, NoMeta, StartGroup, disk, group
<1>7. CanceledOnlyByCaller' /\ FirstSuccessIsRight'
  BY Constants, Indices DEF TypeOK, NoGroupOutside, CanceledOnlyByCaller, FirstSuccessIsRight,
     SuccessIsRight, StartGroup, disk, group
<1>8. QED
  BY <1>1, <1>2, <1>3, <1>4, <1>5, <1>6, <1>7

LEMMA SetupFailsKeepsIInv ==
  ASSUME IInv, SetupFails
  PROVE  IInv'
<1> USE DEF IInv
<1>1. TypeOK'
  BY Constants, Indices DEF TypeOK, Content, Meta, NoMeta, NoFile, SetupFails, disk, group
<1>2. NoGroupOutside'
  BY Constants, Indices DEF TypeOK, NoGroupOutside, Meta, SetupFails, disk, group
<1>3. MemoryAhead'
  BY Constants, Indices DEF TypeOK, NoGroupOutside, MemoryAhead, InCall, NoMeta, SetupFails, disk, group
<1>4. OnePlace'
  BY Constants, Indices DEF TypeOK, NoGroupOutside, OnePlace, NoDoubleFetch, Busy, SetupFails,
     disk, group
<1>5. TickerEndsByError'
  BY Constants, Indices DEF TypeOK, NoGroupOutside, TickerEndsByError, SetupFails, disk, group
<1>6. DataSound'
  BY Constants, Indices DEF TypeOK, NoGroupOutside, DataSound, InCall, Arrived, ResumeSound,
     MemoryAhead, OnePlace, NoDoubleFetch, Busy, NoMeta, SetupFails, disk, group
<1>7. CanceledOnlyByCaller' /\ FirstSuccessIsRight'
  BY Constants, Indices DEF TypeOK, NoGroupOutside, CanceledOnlyByCaller, FirstSuccessIsRight,
     SuccessIsRight, SetupFails, disk, group
<1>8. QED
  BY <1>1, <1>2, <1>3, <1>4, <1>5, <1>6, <1>7

LEMMA SpawnKeepsIInv ==
  ASSUME IInv, Spawn
  PROVE  IInv'
<1> USE DEF IInv
<1>1. TypeOK'
  BY Constants, Indices DEF TypeOK, Content, Meta, NoMeta, NoFile, Spawn, disk, group
<1>2. NoGroupOutside'
  BY Constants, Indices DEF TypeOK, NoGroupOutside, Meta, Spawn, disk, group
<1>3. MemoryAhead'
  BY Constants, Indices DEF TypeOK, NoGroupOutside, MemoryAhead, InCall, NoMeta, Spawn, disk, group
<1>4. OnePlace'
  BY Constants, Indices DEF TypeOK, NoGroupOutside, OnePlace, NoDoubleFetch, Busy, Spawn, disk, group
<1>5. TickerEndsByError'
  BY Constants, Indices DEF TypeOK, NoGroupOutside, TickerEndsByError, Ticker, Spawn, disk, group
<1>6. DataSound'
  BY Constants, Indices DEF TypeOK, NoGroupOutside, DataSound, InCall, Arrived, ResumeSound,
     MemoryAhead, OnePlace, NoDoubleFetch, Busy, NoMeta, Spawn, disk, group
<1>7. CanceledOnlyByCaller' /\ FirstSuccessIsRight'
  BY Constants, Indices DEF TypeOK, NoGroupOutside, CanceledOnlyByCaller, FirstSuccessIsRight,
     SuccessIsRight, Spawn, disk, group
<1>8. QED
  BY <1>1, <1>2, <1>3, <1>4, <1>5, <1>6, <1>7

\* The group is joined only after the ticker, so that there is always an error.
LEMMA JoinHasError ==
  ASSUME IInv, Join
  PROVE  firstErr # "none"
<1>1. pc[Ticker] = "done"
  BY Constants, Indices DEF IInv, TypeOK, TickerEndsByError, Active, Join
<1>2. QED
  BY <1>1 DEF IInv, TickerEndsByError

LEMMA JoinKeepsIInv ==
  ASSUME IInv, Join
  PROVE  IInv'
<1> USE DEF IInv
<1>1. TypeOK'
  BY Constants, Indices DEF TypeOK, Content, Meta, NoMeta, NoFile, Join, IdleGroup, disk, group
<1>2. NoGroupOutside'
  BY Constants, Indices DEF TypeOK, NoGroupOutside, Meta, Join, IdleGroup, disk, group
<1>3. MemoryAhead'
  <2>1. remote' = remote /\ st' = st /\ main' = "idle" /\ (meta' = meta \/ meta' = NoMeta)
    BY DEF Join
  <2>2. NoMeta.ver = 0
    BY DEF NoMeta
  <2>3. st'.ver <= remote' /\ meta'.ver <= remote'
    BY <2>1, <2>2, VersionOrder DEF MemoryAhead
  <2>4. QED
    BY <2>1, <2>3 DEF MemoryAhead, InCall
<1>4. OnePlace'
  BY Constants, Indices DEF TypeOK, NoGroupOutside, OnePlace, NoDoubleFetch, Busy, Join,
     IdleGroup, disk, group
<1>5. TickerEndsByError'
  BY Constants, Indices DEF TypeOK, NoGroupOutside, TickerEndsByError, Join, IdleGroup, disk, group
<1>6. DataSound'
  BY Constants, Indices DEF TypeOK, NoGroupOutside, DataSound, InCall, Arrived, ResumeSound,
     MemoryAhead, OnePlace, NoDoubleFetch, Busy, NoMeta, Join, IdleGroup, disk, group
<1>7. CanceledOnlyByCaller' /\ FirstSuccessIsRight'
  <2>1. firstErr # "none"
    BY JoinHasError
  <2>2. result' = firstErr /\ firstErr' = "none" /\ firstErr # "success" /\ ctxDone' = ctxDone
    BY <2>1 DEF TypeOK, Join, IdleGroup
  <2>3. QED
    BY <2>2 DEF CanceledOnlyByCaller, FirstSuccessIsRight, SuccessIsRight
<1>8. QED
  BY <1>1, <1>2, <1>3, <1>4, <1>5, <1>6, <1>7

LEMMA CancelKeepsIInv ==
  ASSUME IInv, Cancel
  PROVE  IInv'
<1> USE DEF IInv
<1>1. TypeOK'
  BY Constants, Indices DEF TypeOK, Content, Meta, NoMeta, NoFile, Cancel, disk, group
<1>2. NoGroupOutside'
  BY Constants, Indices DEF TypeOK, NoGroupOutside, Meta, Cancel, disk, group
<1>3. MemoryAhead'
  BY Constants, Indices DEF TypeOK, NoGroupOutside, MemoryAhead, InCall, NoMeta, Cancel, disk, group
<1>4. OnePlace'
  BY Constants, Indices DEF TypeOK, NoGroupOutside, OnePlace, NoDoubleFetch, Busy, Cancel, disk, group
<1>5. TickerEndsByError'
  BY Constants, Indices DEF TypeOK, NoGroupOutside, TickerEndsByError, Cancel, disk, group
<1>6. DataSound'
  BY Constants, Indices DEF TypeOK, NoGroupOutside, DataSound, InCall, Arrived, ResumeSound,
     MemoryAhead, OnePlace, NoDoubleFetch, Busy, NoMeta, Cancel, disk, group
<1>7. CanceledOnlyByCaller' /\ FirstSuccessIsRight'
  BY Constants, Indices DEF TypeOK, NoGroupOutside, CanceledOnlyByCaller, FirstSuccessIsRight,
     SuccessIsRight, Cancel, disk, group
<1>8. QED
  BY <1>1, <1>2, <1>3, <1>4, <1>5, <1>6, <1>7

LEMMA CrashKeepsIInv ==
  ASSUME IInv, Crash
  PROVE  IInv'
<1> USE DEF IInv
<1>1. TypeOK'
  BY Constants, Indices DEF TypeOK, Content, Meta, NoMeta, NoFile, Crash, IdleGroup, disk, group
<1>2. NoGroupOutside'
  BY Constants, Indices DEF TypeOK, NoGroupOutside, Meta, Crash, IdleGroup, disk, group
<1>3. MemoryAhead'
  BY Constants, Indices DEF TypeOK, NoGroupOutside, MemoryAhead, InCall, NoMeta, Crash,
     IdleGroup, disk, group
<1>4. OnePlace'
  BY Constants, Indices DEF TypeOK, NoGroupOutside, OnePlace, NoDoubleFetch, Busy, Crash,
     IdleGroup, disk, group
<1>5. TickerEndsByError'
  BY Constants, Indices DEF TypeOK, NoGroupOutside, TickerEndsByError, Crash, IdleGroup, disk, group
<1>6. DataSound'
  BY Constants, Indices DEF TypeOK, NoGroupOutside, DataSound, InCall, Arrived, ResumeSound,
     MemoryAhead, OnePlace, NoDoubleFetch, Busy, NoMeta, Crash, IdleGroup, disk, group
<1>7. CanceledOnlyByCaller' /\ FirstSuccessIsRight'
  BY Constants, Indices DEF TypeOK, NoGroupOutside, CanceledOnlyByCaller, FirstSuccessIsRight,
     SuccessIsRight, Crash, IdleGroup, disk, group
<1>8. QED
  BY <1>1, <1>2, <1>3, <1>4, <1>5, <1>6, <1>7

LEMMA RemoteChangesKeepsIInv ==
  ASSUME IInv, RemoteChanges
  PROVE  IInv'
<1> USE DEF IInv
<1>1. TypeOK'
  <2>1. remote' \in Versions
    BY Constants DEF TypeOK, Versions, RemoteChanges
  <2>2. QED
    BY <2>1 DEF TypeOK, RemoteChanges, group
<1>2. NoGroupOutside'
  BY Constants, Indices DEF TypeOK, NoGroupOutside, Meta, RemoteChanges, disk, group
<1>3. MemoryAhead'
  <2>1. remote < remote' /\ remote' \in Nat /\ UNCHANGED <<main, result, st, meta>>
    BY VersionOrder DEF RemoteChanges
  <2>2. QED
    BY <2>1, VersionOrder DEF MemoryAhead, InCall
<1>4. OnePlace'
  BY Constants, Indices DEF TypeOK, NoGroupOutside, OnePlace, NoDoubleFetch, Busy,
     RemoteChanges, disk, group
<1>5. TickerEndsByError'
  BY Constants, Indices DEF TypeOK, NoGroupOutside, TickerEndsByError, RemoteChanges, disk, group
<1>6. DataSound'
  <2>1. st'.ver # remote' /\ meta'.ver # remote'
    BY VersionOrder DEF MemoryAhead, RemoteChanges
  <2>2. QED
    BY <2>1 DEF DataSound, ResumeSound
<1>7. CanceledOnlyByCaller' /\ FirstSuccessIsRight'
  <2>1. st'.ver # remote'
    BY VersionOrder DEF MemoryAhead, RemoteChanges
  <2>2. UNCHANGED <<result, firstErr, ctxDone>>
    BY DEF RemoteChanges, group
  <2>3. QED
    BY <2>1, <2>2 DEF CanceledOnlyByCaller, FirstSuccessIsRight, SuccessIsRight
<1>8. QED
  BY <1>1, <1>2, <1>3, <1>4, <1>5, <1>6, <1>7

LEMMA TickerSaveKeepsIInv ==
  ASSUME IInv, TickerSave
  PROVE  IInv'
<1> USE DEF IInv
<1>1. TypeOK'
  BY Constants, Indices DEF TypeOK, Content, Meta, NoMeta, NoFile, TickerSave, Save, disk, group
<1>2. NoGroupOutside'
  BY Constants, Indices DEF TypeOK, NoGroupOutside, Meta, TickerSave, Save, disk, group
<1>3. MemoryAhead'
  BY Constants, Indices DEF TypeOK, NoGroupOutside, MemoryAhead, InCall, NoMeta, TickerSave,
     Save, disk, group
<1>4. OnePlace'
  BY Constants, Indices DEF TypeOK, NoGroupOutside, OnePlace, NoDoubleFetch, Busy, TickerSave,
     Save, disk, group
<1>5. TickerEndsByError'
  BY Constants, Indices DEF TypeOK, NoGroupOutside, TickerEndsByError, TickerSave, Save, disk, group
<1>6. DataSound'
  BY Constants, Indices DEF TypeOK, NoGroupOutside, DataSound, InCall, Arrived, ResumeSound,
     MemoryAhead, OnePlace, NoDoubleFetch, Busy, NoMeta, TickerSave, Save, disk, group
<1>7. CanceledOnlyByCaller' /\ FirstSuccessIsRight'
  BY Constants, Indices DEF TypeOK, NoGroupOutside, CanceledOnlyByCaller, FirstSuccessIsRight,
     SuccessIsRight, TickerSave, Save, disk, group
<1>8. QED
  BY <1>1, <1>2, <1>3, <1>4, <1>5, <1>6, <1>7

LEMMA TickerStopKeepsIInv ==
  ASSUME IInv, TickerStop
  PROVE  IInv'
<1> USE DEF IInv
<1>1. TypeOK'
  BY Constants, Indices DEF TypeOK, Content, Meta, NoMeta, NoFile, TickerStop, Leave, EgDone, disk, group
<1>2. NoGroupOutside'
  BY Constants, Indices DEF TypeOK, NoGroupOutside, Meta, TickerStop, Leave, EgDone, disk, group
<1>3. MemoryAhead'
  BY Constants, Indices DEF TypeOK, NoGroupOutside, MemoryAhead, InCall, NoMeta, TickerStop,
     Leave, EgDone, disk, group
<1>4. OnePlace'
  BY Constants, Indices DEF TypeOK, NoGroupOutside, OnePlace, NoDoubleFetch, Busy, TickerStop,
     Leave, EgDone, disk, group
<1>5. TickerEndsByError'
  BY Constants, Indices DEF TypeOK, NoGroupOutside, TickerEndsByError, TickerStop, Leave,
     EgDone, disk, group
<1>6. DataSound'
  BY Constants, Indices DEF TypeOK, NoGroupOutside, DataSound, InCall, Arrived, ResumeSound,
     MemoryAhead, OnePlace, NoDoubleFetch, Busy, NoMeta, TickerStop, Leave, EgDone, disk, group
<1>7. CanceledOnlyByCaller' /\ FirstSuccessIsRight'
  BY Constants, Indices DEF TypeOK, NoGroupOutside, CanceledOnlyByCaller, FirstSuccessIsRight,
     SuccessIsRight, TickerStop, Leave, EgDone, disk, group
<1>8. QED
  BY <1>1, <1>2, <1>3, <1>4, <1>5, <1>6, <1>7

LEMMA ProduceKeepsIInv ==
  ASSUME IInv, NEW c \in Chunks, Produce(c)
  PROVE  IInv'
<1> USE DEF IInv
<1>1. TypeOK'
  <2>1. next' \in 1 .. NChunks + 1 /\ workCh' \subseteq Chunks
    BY Constants, Indices DEF TypeOK, Produce
  <2>2. QED
    BY <2>1 DEF TypeOK, Produce, disk
<1>2. NoGroupOutside'
  BY Constants, Indices DEF TypeOK, NoGroupOutside, Meta, Produce, disk, group
<1>3. MemoryAhead'
  BY Constants, Indices DEF TypeOK, NoGroupOutside, MemoryAhead, InCall, NoMeta, Produce, disk, group
<1>4. OnePlace'
  <2>1. next \in Nat /\ next' = c + 1 /\ next <= c /\ workCh' = workCh \cup {c}
    BY Constants, Indices DEF TypeOK, Produce
  <2>2. UNCHANGED <<pc, has, st>> /\ c \notin st.complete
    BY DEF Produce
  <2>3. \A d \in workCh' : d < next' /\ d \notin st.complete
    <3>1. \A d \in workCh : d \in Nat /\ d < next /\ d \notin st.complete
      BY Indices DEF TypeOK, OnePlace
    <3>2. QED
      BY <2>1, <2>2, <3>1, Indices
  <2>4. ASSUME NEW w \in Workers, Busy(w)
        PROVE  /\ has[w] \in Chunks /\ has[w] < next' /\ has[w] # c
               /\ has[w] \notin st.complete \cup workCh
               /\ \A v \in Workers : Busy(v) /\ has[v] = has[w] => v = w
    <3>1. has[w] \in Chunks /\ has[w] < next
      BY <2>4 DEF OnePlace
    <3>2. has[w] < next' /\ has[w] # c
      BY <2>1, <3>1, Indices
    <3>3. QED
      BY <2>4, <3>1, <3>2 DEF OnePlace, NoDoubleFetch
  <2>5. QED
    BY <2>1, <2>2, <2>3, <2>4 DEF OnePlace, NoDoubleFetch, Busy
<1>5. TickerEndsByError'
  BY Constants, Indices DEF TypeOK, NoGroupOutside, TickerEndsByError, Produce, disk, group
<1>6. DataSound'
  BY Constants, Indices DEF TypeOK, NoGroupOutside, DataSound, InCall, Arrived, ResumeSound,
     MemoryAhead, OnePlace, NoDoubleFetch, Busy, NoMeta, Produce, disk, group
<1>7. CanceledOnlyByCaller' /\ FirstSuccessIsRight'
  BY Constants, Indices DEF TypeOK, NoGroupOutside, CanceledOnlyByCaller, FirstSuccessIsRight,
     SuccessIsRight, Produce, disk, group
<1>8. QED
  BY <1>1, <1>2, <1>3, <1>4, <1>5, <1>6, <1>7

LEMMA ProducerEndsKeepsIInv ==
  ASSUME IInv, ProducerEnds
  PROVE  IInv'
<1> USE DEF IInv
<1>1. TypeOK'
  BY Constants, Indices DEF TypeOK, Content, Meta, NoMeta, NoFile, ProducerEnds, disk, group
<1>2. NoGroupOutside'
  BY Constants, Indices DEF TypeOK, NoGroupOutside, Meta, ProducerEnds, disk, group
<1>3. MemoryAhead'
  BY Constants, Indices DEF TypeOK, NoGroupOutside, MemoryAhead, InCall, NoMeta, ProducerEnds,
     disk, group
<1>4. OnePlace'
  BY Constants, Indices DEF TypeOK, NoGroupOutside, OnePlace, NoDoubleFetch, Busy, ProducerEnds,
     disk, group
<1>5. TickerEndsByError'
  BY Constants, Indices DEF TypeOK, NoGroupOutside, TickerEndsByError, ProducerEnds, disk, group
<1>6. DataSound'
  BY Constants, Indices DEF TypeOK, NoGroupOutside, DataSound, InCall, Arrived, ResumeSound,
     MemoryAhead, OnePlace, NoDoubleFetch, Busy, NoMeta, ProducerEnds, disk, group
<1>7. CanceledOnlyByCaller' /\ FirstSuccessIsRight'
  BY Constants, Indices DEF TypeOK, NoGroupOutside, CanceledOnlyByCaller, FirstSuccessIsRight,
     SuccessIsRight, ProducerEnds, disk, group
<1>8. QED
  BY <1>1, <1>2, <1>3, <1>4, <1>5, <1>6, <1>7

LEMMA ProducerStopsKeepsIInv ==
  ASSUME IInv, ProducerStops
  PROVE  IInv'
<1> USE DEF IInv
<1>1. TypeOK'
  BY Constants, Indices DEF TypeOK, Content, Meta, NoMeta, NoFile, ProducerStops, Leave, EgDone,
     disk, group
<1>2. NoGroupOutside'
  BY Constants, Indices DEF TypeOK, NoGroupOutside, Meta, ProducerStops, Leave, EgDone, disk, group
<1>3. MemoryAhead'
  BY Constants, Indices DEF TypeOK, NoGroupOutside, MemoryAhead, InCall, NoMeta, ProducerStops,
     Leave, EgDone, disk, group
<1>4. OnePlace'
  BY Constants, Indices DEF TypeOK, NoGroupOutside, OnePlace, NoDoubleFetch, Busy,
     ProducerStops, Leave, EgDone, disk, group
<1>5. TickerEndsByError'
  BY Constants, Indices DEF TypeOK, NoGroupOutside, TickerEndsByError, ProducerStops, Leave,
     EgDone, disk, group
<1>6. DataSound'
  BY Constants, Indices DEF TypeOK, NoGroupOutside, DataSound, InCall, Arrived, ResumeSound,
     MemoryAhead, OnePlace, NoDoubleFetch, Busy, NoMeta, ProducerStops, Leave, EgDone, disk,
     group
<1>7. CanceledOnlyByCaller' /\ FirstSuccessIsRight'
  BY Constants, Indices DEF TypeOK, NoGroupOutside, CanceledOnlyByCaller, FirstSuccessIsRight,
     SuccessIsRight, ProducerStops, Leave, EgDone, disk, group
<1>8. QED
  BY <1>1, <1>2, <1>3, <1>4, <1>5, <1>6, <1>7

LEMMA TakeKeepsIInv ==
  ASSUME IInv, NEW w \in Workers, NEW c \in Chunks, Take(w, c)
  PROVE  IInv'
<1> USE DEF IInv
<1>a. /\ c < next /\ c \notin st.complete /\ c \in workCh /\ workCh' = workCh \ {c}
      /\ pc' = [pc EXCEPT ![w] = "fetch"]
      /\ has' = [has EXCEPT ![w] = c]
      /\ part' = [part EXCEPT ![c] = Junk]
      /\ UNCHANGED <<meta, out, remote, finishes, main, calls, ctxDone, st, result,
                     spawned, next, firstErr>>
  BY DEF Take, Receives, OnePlace
<1>b. w \in Group /\ main = "group" /\ ~Busy(w)
  BY Indices DEF NoGroupOutside, Busy, Take, Receives
<1>1. TypeOK'
  <2>1. part' \in Content
    BY <1>a DEF TypeOK, Content
  <2>2. /\ pc' \in [Group -> {"none", "run", "fetch", "mark", "done"}]
        /\ has' \in [Group -> 0 .. NChunks] /\ workCh' \subseteq Chunks
    BY <1>a, <1>b, Constants, Indices DEF TypeOK
  <2>3. QED
    BY <1>a, <2>1, <2>2 DEF TypeOK
<1>2. NoGroupOutside' /\ MemoryAhead'
  BY <1>a, <1>b DEF NoGroupOutside, MemoryAhead, InCall
<1>3. \A v \in Workers : pc[v] = "mark" => has[v] # c
  BY <1>a DEF OnePlace, NoDoubleFetch, Busy
<1>4. OnePlace'
  <2>1. \A v \in Workers \ {w} : Busy(v)' = Busy(v) /\ has'[v] = has[v] /\ (Busy(v) => has[v] # c)
    BY <1>a, Indices DEF TypeOK, OnePlace, NoDoubleFetch, Busy
  <2>2. has'[w] = c
    BY <1>a, <1>b DEF TypeOK
  <2>3. QED
    BY <1>a, <2>1, <2>2 DEF OnePlace, NoDoubleFetch
<1>5. TickerEndsByError'
  BY <1>a, <1>b, Indices DEF TypeOK, TickerEndsByError
<1>6. DataSound'
  <2>1. \A d \in Chunks : d # c => part'[d] = part[d]
    BY <1>a DEF TypeOK, Content
  <2>2. \A v \in Workers : pc'[v] = "mark" => pc[v] = "mark" /\ has'[v] = has[v]
    BY <1>a, Indices DEF TypeOK
  <2>3. st.complete \subseteq Chunks /\ meta.complete \subseteq st.complete /\ c \notin st.complete
    BY <1>a, <1>b DEF TypeOK, Meta, MemoryAhead, InCall
  <2>4. \A v \in Workers : pc[v] = "mark" => has[v] \in Chunks
    BY DEF OnePlace, Busy
  <2>5. QED
    BY <1>a, <1>3, <2>1, <2>2, <2>3, <2>4 DEF DataSound, ResumeSound, Arrived, InCall
<1>7. CanceledOnlyByCaller' /\ FirstSuccessIsRight'
  BY <1>a DEF CanceledOnlyByCaller, FirstSuccessIsRight, SuccessIsRight
<1>8. QED
  BY <1>1, <1>2, <1>4, <1>5, <1>6, <1>7

LEMMA TakeAfterEndKeepsIInv ==
  ASSUME IInv, NEW w \in Workers, NEW c \in Chunks, TakeAfterEnd(w, c)
  PROVE  IInv'
<1> USE DEF IInv
<1>1. TypeOK'
  BY Constants, Indices DEF TypeOK, Content, Meta, NoMeta, NoFile, TakeAfterEnd, Receives,
     Leave, EgDone, disk, group
<1>2. NoGroupOutside'
  BY Constants, Indices DEF TypeOK, NoGroupOutside, Meta, TakeAfterEnd, Receives, Leave, EgDone,
     disk, group
<1>3. MemoryAhead'
  BY Constants, Indices DEF TypeOK, NoGroupOutside, MemoryAhead, InCall, NoMeta, TakeAfterEnd,
     Receives, Leave, EgDone, disk, group
<1>4. OnePlace'
  BY Constants, Indices DEF TypeOK, NoGroupOutside, OnePlace, NoDoubleFetch, Busy, TakeAfterEnd,
     Receives, Leave, EgDone, disk, group
<1>5. TickerEndsByError'
  BY Constants, Indices DEF TypeOK, NoGroupOutside, TickerEndsByError, TakeAfterEnd, Receives,
     Leave, EgDone, disk, group
<1>6. DataSound'
  BY Constants, Indices DEF TypeOK, NoGroupOutside, DataSound, InCall, Arrived, ResumeSound,
     MemoryAhead, OnePlace, NoDoubleFetch, Busy, NoMeta, TakeAfterEnd, Receives, Leave, EgDone,
     disk, group
<1>7. CanceledOnlyByCaller' /\ FirstSuccessIsRight'
  BY Constants, Indices DEF TypeOK, NoGroupOutside, CanceledOnlyByCaller, FirstSuccessIsRight,
     SuccessIsRight, TakeAfterEnd, Receives, Leave, EgDone, disk, group
<1>8. QED
  BY <1>1, <1>2, <1>3, <1>4, <1>5, <1>6, <1>7

LEMMA ChannelClosedKeepsIInv ==
  ASSUME IInv, NEW w \in Workers, ChannelClosed(w)
  PROVE  IInv'
<1> USE DEF IInv
<1>1. TypeOK'
  BY Constants, Indices DEF TypeOK, Content, Meta, NoMeta, NoFile, ChannelClosed, disk, group
<1>2. NoGroupOutside'
  BY Constants, Indices DEF TypeOK, NoGroupOutside, Meta, ChannelClosed, disk, group
<1>3. MemoryAhead'
  BY Constants, Indices DEF TypeOK, NoGroupOutside, MemoryAhead, InCall, NoMeta, ChannelClosed,
     disk, group
<1>4. OnePlace'
  BY Constants, Indices DEF TypeOK, NoGroupOutside, OnePlace, NoDoubleFetch, Busy,
     ChannelClosed, disk, group
<1>5. TickerEndsByError'
  BY Constants, Indices DEF TypeOK, NoGroupOutside, TickerEndsByError, ChannelClosed, disk, group
<1>6. DataSound'
  BY Constants, Indices DEF TypeOK, NoGroupOutside, DataSound, InCall, Arrived, ResumeSound,
     MemoryAhead, OnePlace, NoDoubleFetch, Busy, NoMeta, ChannelClosed, disk, group
<1>7. CanceledOnlyByCaller' /\ FirstSuccessIsRight'
  BY Constants, Indices DEF TypeOK, NoGroupOutside, CanceledOnlyByCaller, FirstSuccessIsRight,
     SuccessIsRight, ChannelClosed, disk, group
<1>8. QED
  BY <1>1, <1>2, <1>3, <1>4, <1>5, <1>6, <1>7

LEMMA FetchKeepsIInv ==
  ASSUME IInv, NEW w \in Workers, Fetch(w)
  PROVE  IInv'
<1> USE DEF IInv
<1>1. TypeOK'
  <2>1. part' \in Content
    <3>1. main = "group"
      BY Indices DEF NoGroupOutside, Fetch
    <3>2. PICK v \in st.ver .. remote : part' = [part EXCEPT ![has[w]] = v]
      BY DEF Fetch
    <3>3. v \in Versions
      BY <3>1, <3>2, VersionOrder, Constants DEF MemoryAhead, InCall, Versions, TypeOK
    <3>4. QED
      BY <3>2, <3>3 DEF TypeOK, Content
  <2>2. QED
    BY <2>1 DEF TypeOK, Fetch
<1>2. NoGroupOutside'
  BY Constants, Indices DEF TypeOK, NoGroupOutside, Meta, Fetch, disk, group
<1>3. MemoryAhead'
  BY Constants, Indices DEF TypeOK, NoGroupOutside, MemoryAhead, InCall, NoMeta, Fetch, disk, group
<1>4. OnePlace'
  BY Constants, Indices DEF TypeOK, NoGroupOutside, OnePlace, NoDoubleFetch, Busy, Fetch, disk, group
<1>5. TickerEndsByError'
  BY Constants, Indices DEF TypeOK, NoGroupOutside, TickerEndsByError, Fetch, disk, group
<1>6. DataSound'
  <2>1. main = "group" /\ w \in Group /\ Busy(w) /\ has[w] \in Chunks
    BY Indices DEF NoGroupOutside, MemoryAhead, OnePlace, InCall, Busy, Fetch
  <2>2. \A d \in Chunks : IF d = has[w] THEN st.ver = remote => part'[d] = st.ver
                                        ELSE part'[d] = part[d]
    <3>1. PICK v \in st.ver .. remote : part' = [part EXCEPT ![has[w]] = v]
      BY DEF Fetch
    <3>2. st.ver = remote => v = st.ver
      BY <3>1, VersionOrder
    <3>3. QED
      BY <2>1, <3>1, <3>2 DEF TypeOK, Content
  <2>3. \A v \in Workers : pc'[v] = "mark" => v = w \/ (pc[v] = "mark" /\ has[v] # has[w])
    <3>1. \A v \in Workers : v # w => pc'[v] = pc[v]
      BY <2>1, Indices DEF TypeOK, Fetch
    <3>2. \A v \in Workers : pc[v] = "mark" /\ has[v] = has[w] => v = w
      BY <2>1 DEF OnePlace, NoDoubleFetch, Busy
    <3>3. QED
      BY <3>1, <3>2
  <2>4. st.complete \subseteq Chunks /\ meta.complete \subseteq st.complete /\ has[w] \notin st.complete
    BY <2>1 DEF TypeOK, Meta, MemoryAhead, InCall, OnePlace, NoDoubleFetch
  <2>5. \A v \in Workers : pc[v] = "mark" => has[v] \in Chunks
    BY DEF OnePlace, Busy
  <2>6. QED
    BY <2>1, <2>2, <2>3, <2>4, <2>5 DEF DataSound, ResumeSound, Arrived, InCall, Fetch
<1>7. CanceledOnlyByCaller' /\ FirstSuccessIsRight'
  BY Constants, Indices DEF TypeOK, NoGroupOutside, CanceledOnlyByCaller, FirstSuccessIsRight,
     SuccessIsRight, Fetch, disk, group
<1>8. QED
  BY <1>1, <1>2, <1>3, <1>4, <1>5, <1>6, <1>7

LEMMA FetchFailsKeepsIInv ==
  ASSUME IInv, NEW w \in Workers, FetchFails(w)
  PROVE  IInv'
<1> USE DEF IInv
<1>1. TypeOK'
  BY Constants, Indices DEF TypeOK, Content, Meta, NoMeta, NoFile, FetchFails, Leave, EgDone, disk, group
<1>2. NoGroupOutside'
  BY Constants, Indices DEF TypeOK, NoGroupOutside, Meta, FetchFails, Leave, EgDone, disk, group
<1>3. MemoryAhead'
  BY Constants, Indices DEF TypeOK, NoGroupOutside, MemoryAhead, InCall, NoMeta, FetchFails,
     Leave, EgDone, disk, group
<1>4. OnePlace'
  BY Constants, Indices DEF TypeOK, NoGroupOutside, OnePlace, NoDoubleFetch, Busy, FetchFails,
     Leave, EgDone, disk, group
<1>5. TickerEndsByError'
  BY Constants, Indices DEF TypeOK, NoGroupOutside, TickerEndsByError, FetchFails, Leave,
     EgDone, disk, group
<1>6. DataSound'
  BY Constants, Indices DEF TypeOK, NoGroupOutside, DataSound, InCall, Arrived, ResumeSound,
     MemoryAhead, OnePlace, NoDoubleFetch, Busy, NoMeta, FetchFails, Leave, EgDone, disk, group
<1>7. CanceledOnlyByCaller' /\ FirstSuccessIsRight'
  BY Constants, Indices DEF TypeOK, NoGroupOutside, CanceledOnlyByCaller, FirstSuccessIsRight,
     SuccessIsRight, FetchFails, Leave, EgDone, disk, group
<1>8. QED
  BY <1>1, <1>2, <1>3, <1>4, <1>5, <1>6, <1>7

LEMMA MarkKeepsIInv ==
  ASSUME IInv, NEW w \in Workers, Mark(w)
  PROVE  IInv'
<1> USE DEF IInv
<1>1. TypeOK'
  <2>1. st' \in Meta /\ meta' \in Meta
    BY Indices DEF TypeOK, Meta, OnePlace, Busy, Mark, Save
  <2>2. QED
    BY <2>1 DEF TypeOK, Mark
<1>2. NoGroupOutside'
  BY Constants, Indices DEF TypeOK, NoGroupOutside, Meta, Mark, Save, disk, group
<1>3. MemoryAhead'
  <2>1. st'.ver = st.ver /\ st.complete \subseteq st'.complete
    BY DEF TypeOK, Meta, Mark
  <2>2. QED
    BY <2>1 DEF MemoryAhead, InCall, Mark, Save
<1>4. OnePlace'
  BY Constants, Indices DEF TypeOK, NoGroupOutside, OnePlace, NoDoubleFetch, Busy, Mark, Save,
     disk, group
<1>5. TickerEndsByError'
  BY Constants, Indices DEF TypeOK, NoGroupOutside, TickerEndsByError, Mark, Save, disk, group
<1>6. DataSound'
  <2>1. /\ main = "group" /\ w \in Group /\ Busy(w)
        /\ st.ver = remote => Arrived(has[w])
    BY Indices DEF NoGroupOutside, MemoryAhead, DataSound, InCall, Busy, Mark
  <2>2. st'.ver = st.ver /\ st'.complete = st.complete \cup {has[w]} /\ part' = part
    BY DEF TypeOK, Meta, Mark
  <2>3. \A v \in Workers : pc'[v] = "mark" => pc[v] = "mark" /\ has'[v] = has[v]
    BY <2>1, Indices DEF TypeOK, Mark
  <2>4. InCall' /\ finishes' = 0 /\ st'.ver = remote' =>
          \A c \in st'.complete : Arrived(c)'
    BY <2>1, <2>2 DEF DataSound, Arrived, InCall, Mark
  <2>5. st'.ver = remote' =>
          \A v \in Workers : pc'[v] = "mark" => Arrived(has[v])' /\ has'[v] = has[v]
    BY <2>2, <2>3 DEF DataSound, Arrived, Mark
  <2>6. ResumeSound'
    BY <2>1, <2>2, <2>4 DEF DataSound, ResumeSound, Arrived, InCall, Mark, Save
  <2>7. QED
    BY <2>4, <2>5, <2>6 DEF DataSound
<1>7. CanceledOnlyByCaller' /\ FirstSuccessIsRight'
  BY Constants, Indices DEF TypeOK, NoGroupOutside, CanceledOnlyByCaller, FirstSuccessIsRight,
     SuccessIsRight, Mark, Save, disk, group
<1>8. QED
  BY <1>1, <1>2, <1>3, <1>4, <1>5, <1>6, <1>7

-----------------------------------------------------------------------------

LEMMA InitIInv == Init => IInv
<1> SUFFICES ASSUME Init PROVE IInv
  OBVIOUS
<1>1. TypeOK
  <2>1. part \in Content /\ out \in Content /\ meta \in Meta /\ st \in Meta
    BY DEF Init, Content, NoFile, Meta, NoMeta
  <2>2. /\ remote \in Versions /\ finishes \in Nat /\ calls \in 0 .. MaxCalls
        /\ spawned \in 0 .. MaxWorkers + 2 /\ next \in 1 .. NChunks + 1
        /\ workCh \subseteq Chunks
    BY Constants DEF Init, Versions
  <2>3. /\ pc \in [Group -> {"none", "run", "fetch", "mark", "done"}]
        /\ has \in [Group -> 0 .. NChunks]
    BY Constants DEF Init
  <2>4. main = "idle" /\ ctxDone = FALSE /\ result = "none" /\ firstErr = "none"
    BY Zenon DEF Init
  <2>5. QED
    BY <2>1, <2>2, <2>3, <2>4 DEF TypeOK
<1>2. NoGroupOutside /\ MemoryAhead /\ OnePlace /\ TickerEndsByError
  BY Indices DEF Init, NoGroupOutside, MemoryAhead, NoMeta, InCall, OnePlace, NoDoubleFetch,
                 Busy, TickerEndsByError
<1>3. DataSound
  BY Indices DEF Init, DataSound, ResumeSound, InCall, NoMeta
<1>4. CanceledOnlyByCaller /\ FirstSuccessIsRight
  BY DEF Init, CanceledOnlyByCaller, FirstSuccessIsRight, SuccessIsRight
<1>5. QED
  BY <1>1, <1>2, <1>3, <1>4 DEF IInv

LEMMA GroupKeepsIInv ==
  ASSUME IInv, NEW g \in Group, Goroutine(g)
  PROVE  IInv'
<1>1. CASE g = Ticker /\ TickerStop
  BY <1>1, TickerStopKeepsIInv
<1>2. CASE g = Producer /\ (ProducerEnds \/ ProducerStops \/ \E c \in Chunks : Produce(c))
  BY <1>2, ProducerEndsKeepsIInv, ProducerStopsKeepsIInv, ProduceKeepsIInv
<1>3. CASE /\ g \in Workers
           /\ \/ ChannelClosed(g) \/ Mark(g)
              \/ \E c \in Chunks : Take(g, c) \/ TakeAfterEnd(g, c)
  BY <1>3, ChannelClosedKeepsIInv, MarkKeepsIInv, TakeKeepsIInv, TakeAfterEndKeepsIInv
<1>4. QED
  BY <1>1, <1>2, <1>3 DEF Goroutine

LEMMA NextIInv ==
  ASSUME IInv, [Next]_vars
  PROVE  IInv'
<1>1. CASE Download \/ SetupFails \/ Cancel \/ Crash \/ RemoteChanges \/ TickerSave
  BY <1>1, DownloadKeepsIInv, SetupFailsKeepsIInv, CancelKeepsIInv, CrashKeepsIInv,
     RemoteChangesKeepsIInv, TickerSaveKeepsIInv
<1>2. CASE Main
  BY <1>2, HeadKeepsIInv, OpenPartKeepsIInv, AlreadyCompleteKeepsIInv, StartGroupKeepsIInv,
     SpawnKeepsIInv, JoinKeepsIInv DEF Main
<1>3. CASE \E g \in Group : Goroutine(g)
  BY <1>3, GroupKeepsIInv
<1>4. CASE \E w \in Workers : Transfer(w)
  <2>1. PICK w \in Workers : Fetch(w) \/ FetchFails(w)
    BY <1>4 DEF Transfer
  <2>2. QED
    BY <2>1, FetchKeepsIInv, FetchFailsKeepsIInv
<1>5. CASE UNCHANGED vars
  BY <1>5 DEF vars, disk, group, IInv, TypeOK, NoGroupOutside, MemoryAhead, InCall, OnePlace,
              NoDoubleFetch, Busy, TickerEndsByError, DataSound, ResumeSound, Arrived,
              CanceledOnlyByCaller, FirstSuccessIsRight, SuccessIsRight
<1>6. QED
  BY <1>1, <1>2, <1>3, <1>4, <1>5 DEF Next

\* The strengthened invariant holds; the server is one that honours ranges.
THEOREM Inductive == Spec => []IInv
<1>1. IInv /\ [Next]_vars => IInv'
  BY NextIInv
<1>2. QED
  BY <1>1, InitIInv, PTL DEF Spec

\* Every variable keeps its type.
THEOREM TypeCorrect == Spec => []TypeOK
<1>1. IInv => TypeOK
  BY DEF IInv
<1>2. QED
  BY <1>1, Inductive, PTL

\* Whenever the process may be killed, every chunk the metadata calls complete is
\* in the .part file.
THEOREM ResumptionSound == Spec => []ResumeSound
<1>1. IInv => ResumeSound
  BY DEF IInv, DataSound
<1>2. QED
  BY <1>1, Inductive, PTL

\* No two transfers write the same chunk, none writes a complete one.
THEOREM OneFetchPerChunk == Spec => []NoDoubleFetch
<1>1. IInv => NoDoubleFetch
  BY DEF IInv, OnePlace
<1>2. QED
  BY <1>1, Inductive, PTL

\* "Canceled" is never reported for a call nobody cancelled.
THEOREM CanceledMeansCanceled == Spec => []CanceledOnlyByCaller
<1>1. IInv => CanceledOnlyByCaller
  BY DEF IInv
<1>2. QED
  BY <1>1, Inductive, PTL

\* The first file renamed to OutputPath on given metadata is the remote file.
THEOREM FirstFileRight == Spec => []FirstSuccessIsRight
<1>1. IInv => FirstSuccessIsRight
  BY DEF IInv
<1>2. QED
  BY <1>1, Inductive, PTL

-----------------------------------------------------------------------------
(* Refinement                                                                *)

\* A chunk that is being overwritten is nowhere called complete, whatever version it
\* is of, and from OpenPart on .part has its full length.
NoJunk ==
  /\ \A c \in meta.complete : part[c] # Junk
  /\ InCall => \A c \in st.complete : part[c] # Junk
  /\ main \in {"plan", "group"} => \A c \in Chunks : part[c] # Absent
  /\ \A w \in Workers : pc[w] = "mark" => part[has[w]] # Junk

LEMMA NotVersions == Junk # Absent /\ Junk # 0 /\ Absent # 0 /\ \A v \in Nat : v # Junk /\ v # Absent
BY DEF Junk, Absent

LEMMA TakeKeepsNoJunk ==
  ASSUME IInv, NoJunk, NEW w \in Workers, NEW c \in Chunks, Take(w, c)
  PROVE  NoJunk'
<1> USE DEF IInv
<1>1. CASE c \in st.complete
  BY <1>1 DEF Take, Receives, OnePlace
<1>2. CASE c \notin st.complete
  <2>1. UNCHANGED <<meta, st, main>> /\ part' = [part EXCEPT ![c] = Junk]
          /\ pc' = [pc EXCEPT ![w] = "fetch"] /\ has' = [has EXCEPT ![w] = c]
    BY <1>2 DEF Take
  <2>2. main = "group" /\ InCall
    BY Indices DEF Take, Receives, NoGroupOutside, InCall
  <2>3. /\ part \in [Chunks -> {Absent, Junk, 0} \cup Versions]
        /\ pc \in [Group -> {"none", "run", "fetch", "mark", "done"}]
        /\ has \in [Group -> 0 .. NChunks]
    BY DEF TypeOK, Content
  <2>4. meta.complete \subseteq st.complete /\ c \notin meta.complete
    BY <1>2, <2>2 DEF MemoryAhead
  <2>5. ASSUME NEW v \in Workers, pc'[v] = "mark"
        PROVE  part'[has'[v]] # Junk
    <3>1. v # w /\ pc[v] = "mark" /\ has'[v] = has[v]
      BY <2>1, <2>3, <2>5, Indices
    <3>2. has[v] # c /\ has[v] \in Chunks
      BY <3>1 DEF OnePlace, NoDoubleFetch, Busy, Take, Receives
    <3>3. QED
      BY <2>1, <2>3, <3>1, <3>2 DEF NoJunk
  <2>6. \A d \in Chunks : part'[d] # Absent
    BY <2>1, <2>2, <2>3, NotVersions DEF NoJunk
  <2>7. \A d \in meta.complete \cup st.complete : part'[d] # Junk
    BY <1>2, <2>1, <2>2, <2>3, <2>4 DEF NoJunk, TypeOK, Meta
  <2>8. QED
    BY <2>1, <2>5, <2>6, <2>7 DEF NoJunk, InCall
<1>3. QED
  BY <1>1, <1>2

LEMMA FetchKeepsNoJunk ==
  ASSUME IInv, NoJunk, NEW w \in Workers, Fetch(w)
  PROVE  NoJunk'
<1> USE DEF IInv
<1>1. PICK v \in st.ver .. remote : part' = [part EXCEPT ![has[w]] = v]
  BY DEF Fetch
<1>2. v \in Nat
  BY VersionOrder
<1>3. /\ part \in [Chunks -> {Absent, Junk, 0} \cup Versions]
      /\ pc \in [Group -> {"none", "run", "fetch", "mark", "done"}]
  BY DEF TypeOK, Content
<1>4. UNCHANGED <<meta, st, main, has>> /\ pc' = [pc EXCEPT ![w] = "mark"]
  BY DEF Fetch
<1>5. has[w] \in Chunks
  BY DEF Fetch, OnePlace, Busy
<1>6. \A c \in Chunks : part'[c] = part[c] \/ (part'[c] # Junk /\ part'[c] # Absent)
  BY <1>1, <1>2, <1>3, NotVersions
<1>7. \A u \in Workers : pc'[u] = "mark" => part'[has[u]] # Junk
  <2>1. TAKE u \in Workers
  <2>2. HAVE pc'[u] = "mark"
  <2>3. CASE u = w
    BY <2>3, <1>1, <1>2, <1>3, <1>5, NotVersions
  <2>4. CASE u # w
    <3>1. pc[u] = "mark"
      BY <2>2, <2>4, <1>3, <1>4, Indices
    <3>2. has[u] \in Chunks
      BY <3>1 DEF OnePlace, Busy
    <3>3. QED
      BY <3>1, <3>2, <1>6 DEF NoJunk
  <2>5. QED
    BY <2>3, <2>4
<1>8. meta.complete \subseteq Chunks /\ st.complete \subseteq Chunks
  BY DEF TypeOK, Meta
<1>9. QED
  BY <1>4, <1>6, <1>7, <1>8 DEF NoJunk, InCall

LEMMA MarkKeepsNoJunk ==
  ASSUME IInv, NoJunk, NEW w \in Workers, Mark(w)
  PROVE  NoJunk'
<1> USE DEF IInv
<1>1. UNCHANGED <<part, main, has>> /\ pc' = [pc EXCEPT ![w] = "run"] /\ part[has[w]] # Junk
  BY DEF Mark, NoJunk
<1>2. main = "group" /\ InCall
  BY Indices DEF Mark, NoGroupOutside, InCall
<1>3. st'.complete = st.complete \cup {has[w]} /\ (meta' = meta \/ meta' = st')
  BY DEF Mark, Save, TypeOK, Meta
<1>4. \A u \in Workers : pc'[u] = "mark" => pc[u] = "mark"
  BY <1>1, Indices DEF TypeOK
<1>5. QED
  BY <1>1, <1>2, <1>3, <1>4 DEF NoJunk, InCall

LEMMA GroupKeepsNoJunk ==
  ASSUME IInv, NoJunk, NEW g \in Group, Goroutine(g)
  PROVE  NoJunk'
<1> USE DEF IInv
<1>1. CASE g \in Workers /\ (Mark(g) \/ \E c \in Chunks : Take(g, c))
  BY <1>1, MarkKeepsNoJunk, TakeKeepsNoJunk
<1>2. CASE ~(g \in Workers /\ (Mark(g) \/ \E c \in Chunks : Take(g, c)))
  <2>1. UNCHANGED <<part, meta, st, main, has>>
    BY <1>2 DEF Goroutine, TickerStop, ProducerEnds, ProducerStops, Produce, ChannelClosed,
                TakeAfterEnd, Receives, disk
  <2>2. pc' = pc \/ \E k \in Group : pc' = [pc EXCEPT ![k] = "done"]
    BY <1>2, Indices DEF Goroutine, TickerStop, ProducerEnds, ProducerStops, Produce, ChannelClosed,
                TakeAfterEnd, Leave
  <2>3. \A u \in Workers : pc'[u] = "mark" => pc[u] = "mark"
    BY <2>2, Indices DEF TypeOK
  <2>4. QED
    BY <2>1, <2>3 DEF NoJunk, InCall
<1>3. QED
  BY <1>1, <1>2

LEMMA MainKeepsNoJunk ==
  ASSUME IInv, NoJunk, Main
  PROVE  NoJunk'
<1> USE DEF IInv
<1>1. CASE Head
  <2>1. main' = "open" /\ UNCHANGED <<part, pc, has>>
    BY <1>1 DEF Head, group
  <2>2. (meta' = meta /\ st' = meta) \/ (meta'.complete = {} /\ st'.complete = {})
    BY <1>1 DEF Head, NoMeta
  <2>3. QED
    BY <2>1, <2>2 DEF NoJunk
<1>2. CASE OpenPart
  <2>1. main' = "plan" /\ UNCHANGED <<meta, st, pc, has>> /\ InCall
    BY <1>2 DEF OpenPart, group, InCall
  <2>2. \A c \in Chunks : part'[c] # Absent /\ (part[c] # Junk => part'[c] # Junk)
    BY <1>2, NotVersions DEF OpenPart
  <2>3. meta.complete \subseteq Chunks /\ st.complete \subseteq Chunks
    BY DEF TypeOK, Meta
  <2>4. \A w \in Workers : pc[w] # "mark"
    BY <1>2, Indices DEF OpenPart, NoGroupOutside
  <2>5. QED
    BY <2>1, <2>2, <2>3, <2>4 DEF NoJunk
<1>3. CASE AlreadyComplete
  <2>1. main' = "idle" /\ part' = NoFile /\ UNCHANGED <<meta, pc>>
    BY <1>3 DEF AlreadyComplete, group
  <2>2. \A w \in Workers : pc[w] # "mark"
    BY <1>3, Indices DEF AlreadyComplete, NoGroupOutside
  <2>3. \A c \in meta.complete : part'[c] # Junk
    BY <2>1, NotVersions DEF NoFile, TypeOK, Meta
  <2>4. QED
    BY <2>1, <2>2, <2>3 DEF NoJunk, InCall
<1>4. CASE StartGroup
  BY <1>4 DEF StartGroup, NoJunk, InCall, disk, group
<1>5. CASE Spawn
  <2>1. UNCHANGED <<part, meta, st, main, has>> /\ pc' = [pc EXCEPT ![spawned + 1] = "run"]
    BY <1>5 DEF Spawn, disk
  <2>2. \A u \in Workers : pc'[u] = "mark" => pc[u] = "mark"
    BY <2>1, Indices DEF TypeOK
  <2>3. QED
    BY <2>1, <2>2 DEF NoJunk, InCall
<1>6. CASE Join
  <2>1. firstErr # "none"
    BY <1>6, JoinHasError
  <2>2. main' = "idle" /\ UNCHANGED <<meta, part>> /\ pc' = [g \in Group |-> "none"]
    BY <1>6, <2>1 DEF Join, IdleGroup
  <2>3. QED
    BY <2>2, Indices DEF NoJunk, InCall
<1>7. QED
  BY <1>1, <1>2, <1>3, <1>4, <1>5, <1>6 DEF Main

LEMMA NextNoJunk ==
  ASSUME IInv, NoJunk, [Next]_vars
  PROVE  NoJunk'
<1> USE DEF IInv
<1>1. CASE Download \/ SetupFails \/ Cancel \/ RemoteChanges \/ UNCHANGED vars
  BY <1>1 DEF Download, SetupFails, Cancel, RemoteChanges, vars, disk, group, NoJunk, InCall
<1>2. CASE Crash
  BY <1>2, Indices DEF Crash, IdleGroup, disk, NoJunk, InCall
<1>3. CASE TickerSave
  <2>1. main = "group" /\ InCall
    BY <1>3, Indices DEF TickerSave, NoGroupOutside, InCall
  <2>2. UNCHANGED <<part, st, main, pc, has>> /\ (meta' = meta \/ meta' = st)
    BY <1>3 DEF TickerSave, Save, group
  <2>3. QED
    BY <2>1, <2>2 DEF NoJunk
<1>4. CASE \E w \in Workers : Transfer(w)
  <2>1. PICK w \in Workers : Fetch(w) \/ FetchFails(w)
    BY <1>4 DEF Transfer
  <2>2. CASE FetchFails(w)
    <3>1. UNCHANGED <<part, meta, st, main, has>> /\ pc' = [pc EXCEPT ![w] = "done"]
      BY <2>2 DEF FetchFails, Leave, disk
    <3>2. \A u \in Workers : pc'[u] = "mark" => pc[u] = "mark"
      BY <3>1, Indices DEF TypeOK
    <3>3. QED
      BY <3>1, <3>2 DEF NoJunk, InCall
  <2>3. QED
    BY <2>1, <2>2, FetchKeepsNoJunk
<1>5. QED
  BY <1>1, <1>2, <1>3, <1>4, MainKeepsNoJunk, GroupKeepsNoJunk DEF Next

\* The members of AtomicDownload's Contents, and the tuple of its variables.
Whole == [Chunks -> {0} \cup Versions]
sound == finishes = 0 /\ (InCall => st.ver = remote)
mapped == <<out, [c \in Chunks |-> remote], sound, main # "idle", ctxDone, result>>

LEMMA MainMaps ==
  ASSUME IInv, NoJunk, Main
  PROVE  Atomic!Deliver \/ Atomic!Discard \/ Atomic!GiveUp \/ UNCHANGED mapped
<1> USE DEF IInv
<1>1. CASE Head
  <2>1. UNCHANGED <<out, remote, ctxDone, result>> /\ main = "head" /\ main' = "open"
          /\ st'.ver = remote /\ (finishes' = finishes \/ finishes' = 0)
    BY <1>1 DEF Head
  <2>2. CASE finishes' = finishes
    BY <2>1, <2>2 DEF mapped, sound, InCall
  <2>3. CASE finishes' = 0
    BY <2>1, <2>3 DEF Atomic!Discard, InCall
  <2>4. QED
    BY <2>1, <2>2, <2>3
<1>2. CASE OpenPart \/ StartGroup \/ Spawn
  BY <1>2 DEF OpenPart, StartGroup, Spawn, disk, group, mapped, sound, InCall
<1>3. CASE AlreadyComplete
  <2>1. InCall /\ main = "plan" /\ st.complete = Chunks /\ out' = part /\ main' = "idle"
          /\ result' \in {"success", "error"} /\ UNCHANGED <<remote, ctxDone>>
    BY <1>3 DEF AlreadyComplete, InCall
  <2>2. part \in Whole
    <3>1. \A c \in Chunks : part[c] # Junk /\ part[c] # Absent
      BY <2>1 DEF NoJunk
    <3>2. part \in [Chunks -> {Absent, Junk, 0} \cup Versions]
      BY DEF TypeOK, Content
    <3>3. QED
      BY <3>1, <3>2 DEF Whole
  <2>3. sound => part = [c \in Chunks |-> remote]
    BY <2>1 DEF sound, DataSound, Arrived, TypeOK, Content
  <2>4. QED
    BY <2>1, <2>2, <2>3 DEF Atomic!Deliver, Whole, sound
<1>4. CASE Join
  <2>1. firstErr # "none"
    BY <1>4, JoinHasError
  <2>2. main = "group" /\ main' = "idle" /\ result' = firstErr
          /\ UNCHANGED <<out, remote, finishes, ctxDone>>
    BY <1>4, <2>1 DEF Join
  <2>3. result' = "error" \/ (ctxDone /\ result' = "canceled")
    BY <2>1, <2>2 DEF TypeOK, CanceledOnlyByCaller
  <2>4. QED
    BY <2>2, <2>3 DEF Atomic!GiveUp, InCall
<1>5. QED
  BY <1>1, <1>2, <1>3, <1>4 DEF Main

LEMMA OtherMaps ==
  ASSUME IInv, Download \/ SetupFails \/ Cancel \/ Crash \/ RemoteChanges \/ TickerSave
  PROVE  Atomic!Next \/ UNCHANGED mapped
<1> USE DEF IInv
<1>1. CASE Download
  <2>1. main = "idle" /\ main' = "head" /\ ctxDone' = FALSE /\ result' = "none"
          /\ UNCHANGED <<out, remote, finishes, st>>
    BY <1>1 DEF Download, disk
  <2>2. Atomic!Start
    BY <2>1 DEF Atomic!Start, InCall
  <2>3. QED
    BY <2>2 DEF Atomic!Next
<1>2. CASE SetupFails
  <2>1. main # "idle" /\ main' = "idle" /\ (result' = "error" \/ (ctxDone /\ result' = "canceled"))
          /\ UNCHANGED <<out, remote, finishes, ctxDone>>
    BY <1>2 DEF SetupFails, disk
  <2>2. Atomic!GiveUp
    BY <2>1 DEF Atomic!GiveUp, InCall
  <2>3. QED
    BY <2>2 DEF Atomic!Next
<1>3. CASE Cancel
  <2>1. Atomic!Cancel
    BY <1>3 DEF Cancel, disk, group, Atomic!Cancel, InCall
  <2>2. QED
    BY <2>1 DEF Atomic!Next
<1>4. CASE Crash
  <2>1. main # "idle" /\ main' = "idle" /\ result' = "none"
          /\ UNCHANGED <<out, remote, finishes, ctxDone>>
    BY <1>4 DEF Crash, disk
  <2>2. Atomic!Die
    BY <2>1 DEF Atomic!Die, InCall
  <2>3. QED
    BY <2>2 DEF Atomic!Next
<1>5. CASE RemoteChanges
  <2>1. remote' \in Versions /\ st.ver # remote' /\ UNCHANGED <<out, finishes, main, ctxDone, result, st>>
    BY <1>5, Constants, VersionOrder DEF RemoteChanges, MemoryAhead, Versions, TypeOK
  <2>2. sound' \in {sound, FALSE}
    BY <2>1 DEF sound, InCall
  <2>3. [c \in Chunks |-> remote'] \in Whole
    BY <2>1 DEF Whole
  <2>4. Atomic!TargetChanges
    BY <2>1, <2>2, <2>3 DEF Atomic!TargetChanges, Whole, sound
  <2>5. QED
    BY <2>4 DEF Atomic!Next
<1>6. CASE TickerSave
  BY <1>6 DEF TickerSave, mapped, sound, InCall
<1>7. QED
  BY <1>1, <1>2, <1>3, <1>4, <1>5, <1>6

LEMMA GroupMaps ==
  ASSUME IInv, (\E g \in Group : Goroutine(g)) \/ (\E w \in Workers : Transfer(w))
  PROVE  UNCHANGED mapped
<1>1. UNCHANGED <<out, remote, finishes, main, ctxDone, result>> /\ st'.ver = st.ver
  <2>1. CASE \E w \in Workers : Transfer(w)
    BY <2>1 DEF Transfer, Fetch, FetchFails, Leave, disk
  <2>2. CASE \E g \in Group : Goroutine(g)
    <3>1. PICK g \in Group : Goroutine(g)
      BY <2>2
    <3>2. CASE g \in Workers /\ Mark(g)
      BY <3>2 DEF Mark, IInv, TypeOK, Meta
    <3>3. CASE ~(g \in Workers /\ Mark(g))
      BY <3>1, <3>3 DEF Goroutine, TickerStop, ProducerEnds, ProducerStops, Produce, ChannelClosed,
                        Take, TakeAfterEnd, disk
    <3>4. QED
      BY <3>2, <3>3
  <2>3. QED
    BY <2>1, <2>2
<1>2. QED
  BY <1>1 DEF mapped, sound, InCall

LEMMA StepMaps ==
  ASSUME IInv, NoJunk, [Next]_vars
  PROVE  [Atomic!Next]_Atomic!vars
<1>1. UNCHANGED mapped => UNCHANGED Atomic!vars
  BY DEF mapped, sound, Atomic!vars
<1>2. CASE UNCHANGED vars
  BY <1>2, <1>1 DEF vars, disk, mapped, sound, InCall
<1>3. QED
  BY <1>1, <1>2, MainMaps, OtherMaps, GroupMaps DEF Next, Atomic!Next

\* downloadSegmented is an atomic download: whatever it leaves in .part and in the
\* metadata, OutputPath is replaced in one step by a whole file, and only a call its
\* caller cancelled ends as cancelled.
THEOREM SegmentedIsAtomic == Spec => ImplementsDownload
<1>1. Init => NoJunk
  BY Indices DEF Init, NoJunk, InCall, NoMeta
<1>2. Spec => []NoJunk
  BY <1>1, NextNoJunk, Inductive, PTL DEF Spec
<1>3. Init => Atomic!Init
  <2>1. ASSUME Init
        PROVE  [c \in Chunks |-> remote] \in Whole
    BY <2>1, Constants DEF Init, Whole, Versions
  <2>2. QED
    BY <2>1 DEF Init, Atomic!Init, Whole, InCall
<1>4. QED
  BY <1>2, <1>3, StepMaps, Inductive, PTL DEF Spec, ImplementsDownload, Atomic!Spec

=============================================================================
