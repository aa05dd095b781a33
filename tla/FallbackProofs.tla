----------------------------- MODULE FallbackProofs -----------------------------
(***************************************************************************)
(* Both paths of Download over one .part, for any number of chunks,        *)
(* workers, calls and versions: neither the length of .part nor the        *)
(* metadata ever says more than the other path has left behind, unless the *)
(* server ignores ranges.                                                  *)
(***************************************************************************)
EXTENDS Fallback, SegmentedProofs, FiniteSetTheorems

\* What FTypeOK leaves out.
GroupTyped ==
  /\ remote \in Versions /\ finishes \in Nat /\ spawned \in Nat /\ next \in Nat
  /\ pc \in [Group -> {"none", "run", "fetch", "mark", "done"}]
  /\ has \in [Group -> 0 .. NChunks]
  /\ workCh \subseteq Chunks
  /\ firstErr \in {"none", "canceled", "error"}

\* The remote file keeps its version during a call, the metadata lags behind memory.
InStep ==
  /\ main # "idle" => result = "none"
  /\ meta.ver <= remote /\ begun <= remote
  /\ InCall =>
       /\ st.ver = remote
       /\ meta.complete \subseteq st.complete
       /\ meta = NoMeta \/ meta.ver = st.ver

CopierInCall ==
  /\ copier # "none" => main = "copy"
  /\ copier = "ok" => at = NChunks + 1

\* .part has its full length, as a segmented call leaves it, or is a prefix of whole
\* chunks, as downloadSingle leaves it, none of them older than .part itself.
Full == \A c \in Chunks : part[c] # Absent
Prefix(k) ==
  \A c \in Chunks : IF c <= k THEN part[c] \in begun .. remote ELSE part[c] = Absent
Shape ==
  /\ Full \/ \E k \in 0 .. NChunks : Prefix(k)
  /\ main \in {"plan", "group"} => Full
  /\ main = "copy" => Prefix(at - 1)

\* What is, or is about to be, marked complete has arrived, unless an answer of 200
\* has overwritten it.
Sound ==
  ~spoiled =>
    /\ InCall /\ finishes = 0 => \A c \in st.complete : Arrived(c)
    /\ \A w \in Workers : pc[w] = "mark" => Arrived(has[w])
    /\ ResumeSound

MixedIInv ==
  /\ FTypeOK
  /\ GroupTyped
  /\ NoGroupOutside
  /\ InStep
  /\ OnePlace
  /\ TickerEndsByError
  /\ CopierInCall
  /\ Shape
  /\ Sound
  /\ MixedSuccessIsRight

-----------------------------------------------------------------------------

\* Versions and chunk numbers are numbers, and no version is a mark of a missing or
\* mixed chunk.
LEMMA Numbers ==
  ASSUME FTypeOK, GroupTyped
  PROVE  /\ remote \in Nat /\ remote >= 1 /\ begun \in Nat /\ begun >= 1
         /\ meta.ver \in Nat /\ st.ver \in Nat /\ at \in Nat /\ at >= 1
         /\ \A v \in begun .. remote : v \in Versions /\ v # Absent /\ v # Junk
         /\ remote # Absent /\ remote # Junk
         /\ NoMeta \in Meta /\ NoMeta.ver = 0 /\ NoMeta.complete = {}
BY Constants DEF FTypeOK, GroupTyped, Versions, Meta, NoMeta, Absent, Junk

\* The length of .part tells its shape.
LEMMA SizeIsPrefix ==
  ASSUME FTypeOK, GroupTyped, Shape, Size # NChunks
  PROVE  Size \in 0 .. NChunks - 1 /\ Prefix(Size)
<1>1. ~Full
  <2>1. ASSUME Full
        PROVE  Size = NChunks
    <3>1. {c \in Chunks : part[c] # Absent} = 1 .. NChunks
      BY <2>1 DEF Full, Chunks
    <3>2. Cardinality(1 .. NChunks) = NChunks
      BY Constants, FS_Interval
    <3>3. QED
      BY <3>1, <3>2 DEF Size
  <2>2. QED
    BY <2>1
<1>2. PICK k \in 0 .. NChunks : Prefix(k)
  BY <1>1 DEF Shape
<1>3. {c \in Chunks : part[c] # Absent} = 1 .. k
  <2>1. \A c \in Chunks : part[c] # Absent <=> c <= k
    BY <1>2, Numbers DEF Prefix
  <2>2. QED
    BY <2>1, Constants DEF Chunks
<1>4. Cardinality(1 .. k) = k
  BY <1>2, FS_Interval
<1>5. Size = k
  BY <1>3, <1>4 DEF Size
<1>6. QED
  BY <1>2, <1>5, Constants

\* An empty .part is a prefix of length 0, and not a full one.
LEMMA EmptyIsPrefix ==
  ASSUME part' = NoFile
  PROVE  Prefix(0)'
BY Indices DEF Prefix, NoFile

-----------------------------------------------------------------------------
(* What steps outside the group leave alone                                  *)

Quiet == NoGroupOutside /\ OnePlace /\ TickerEndsByError

LEMMA StillQuiet ==
  ASSUME MixedIInv, main # "group", UNCHANGED group
  PROVE  Quiet'
<1>1. /\ spawned = 0 /\ next = 1 /\ workCh = {} /\ firstErr = "none"
      /\ \A g \in Group : pc[g] = "none"
  BY DEF MixedIInv, NoGroupOutside
<1>2. UNCHANGED <<spawned, pc, has, next, workCh, firstErr>>
  BY DEF group
<1>3. NoGroupOutside'
  BY <1>1, <1>2 DEF NoGroupOutside
<1>4. OnePlace'
  BY <1>1, <1>2, Indices DEF OnePlace, NoDoubleFetch, Busy
<1>5. TickerEndsByError'
  BY <1>1, <1>2, Indices DEF TickerEndsByError
<1>6. QED
  BY <1>3, <1>4, <1>5 DEF Quiet

LEMMA IdleIsQuiet ==
  ASSUME IdleGroup
  PROVE  Quiet' /\ \A w \in Workers : pc'[w] # "mark"
<1>1. /\ spawned' = 0 /\ next' = 1 /\ workCh' = {} /\ firstErr' = "none"
      /\ \A g \in Group : pc'[g] = "none"
  BY DEF IdleGroup
<1>2. NoGroupOutside'
  BY <1>1 DEF NoGroupOutside
<1>3. OnePlace'
  BY <1>1, Indices DEF OnePlace, NoDoubleFetch, Busy
<1>4. TickerEndsByError'
  BY <1>1, Indices DEF TickerEndsByError
<1>5. QED
  BY <1>1, <1>2, <1>3, <1>4, Indices DEF Quiet

\* Unless a call succeeds in this step, nothing is to be shown of a success.
LEMMA NoSuccess ==
  ASSUME MixedIInv, \/ result' # "success"
                    \/ UNCHANGED <<result, out, remote, begun, spoiled, finishes>>
  PROVE  MixedSuccessIsRight'
BY DEF MixedIInv, MixedSuccessIsRight

\* As long as .part stays, so does its shape.
LEMMA SameShape ==
  ASSUME MixedIInv, UNCHANGED <<part, remote, begun>>,
         main' \in {"plan", "group"} => main \in {"plan", "group"},
         main' = "copy" => main = "copy" /\ at' = at
  PROVE  Shape'
BY DEF MixedIInv, Shape, Full, Prefix

-----------------------------------------------------------------------------
(* The segmented path, outside the group                                     *)

LEMMA DownloadKeeps ==
  ASSUME MixedIInv, Seg(Download)
  PROVE  MixedIInv'
<1> USE DEF MixedIInv
<1>1. FTypeOK'
  BY DEF FTypeOK, disk, group, single, Seg, Download
<1>2. GroupTyped'
  BY DEF GroupTyped, disk, group, single, Seg, Download
<1>3. Quiet'
  BY StillQuiet DEF disk, group, single, Seg, Download
<1>4. InStep'
  BY DEF InStep, InCall, disk, group, single, Seg, Download
<1>5. CopierInCall'
  BY DEF CopierInCall, disk, group, single, Seg, Download
<1>6. Shape'
  BY SameShape DEF disk, group, single, Seg, Download
<1>7. Sound'
  BY DEF Sound, InCall, Arrived, ResumeSound, disk, group, single, Seg, Download
<1>8. MixedSuccessIsRight'
  BY NoSuccess DEF InStep, disk, group, single, Seg, Download
<1>9. QED
  BY <1>1, <1>2, <1>3, <1>4, <1>5, <1>6, <1>7, <1>8 DEF Quiet

LEMMA FHeadKeeps ==
  ASSUME MixedIInv, FHead
  PROVE  MixedIInv'
<1> USE DEF MixedIInv
<1>1. FTypeOK'
  <2>1. NoMeta \in Meta /\ [ver |-> remote, complete |-> {}] \in Meta
    BY Numbers DEF GroupTyped, Meta
  <2>2. meta' \in Meta /\ st' \in Meta /\ main' = "open"
    BY <2>1 DEF FHead, Head, FTypeOK
  <2>3. spoiled' \in BOOLEAN /\ planless' \in BOOLEAN
    BY DEF FHead
  <2>4. UNCHANGED <<part, out, result, copier, at, begun>>
    BY DEF FHead, Head
  <2>5. QED
    BY <2>2, <2>3, <2>4 DEF FTypeOK, Content
<1>2. GroupTyped'
  BY DEF GroupTyped, group, FHead, Head
<1>3. Quiet'
  BY StillQuiet DEF group, FHead, Head
<1>4. InStep'
  BY Numbers DEF InStep, InCall, group, FHead, Head
<1>5. CopierInCall'
  BY DEF CopierInCall, group, FHead, Head
<1>6. Shape'
  BY SameShape DEF group, FHead, Head
<1>7. Sound'
  BY Indices, Numbers DEF FTypeOK, GroupTyped, InStep, NoGroupOutside, InCall, Sound, Arrived,
     ResumeSound, disk, group, single, FHead, Head
<1>8. MixedSuccessIsRight'
  BY NoSuccess DEF InStep, group, FHead, Head
<1>9. QED
  BY <1>1, <1>2, <1>3, <1>4, <1>5, <1>6, <1>7, <1>8 DEF Quiet

LEMMA CorruptPartialKeeps ==
  ASSUME MixedIInv, CorruptPartial
  PROVE  MixedIInv'
<1> USE DEF MixedIInv
<1>1. FTypeOK'
  BY Numbers DEF FTypeOK, GroupTyped, Content, NoFile, CorruptPartial
<1>2. GroupTyped'
  BY DEF GroupTyped, group, CorruptPartial
<1>3. Quiet'
  BY StillQuiet DEF CorruptPartial
<1>4. InStep'
  BY Numbers DEF InStep, InCall, CorruptPartial
<1>5. CopierInCall'
  BY DEF CopierInCall, CorruptPartial
<1>6. Shape'
  <2>1. Prefix(0)' /\ main' = "idle"
    BY EmptyIsPrefix DEF CorruptPartial
  <2>2. QED
    BY <2>1, Constants DEF Shape
<1>7. Sound'
  <2>1. \A w \in Workers : pc'[w] # "mark"
    BY Indices DEF NoGroupOutside, group, CorruptPartial
  <2>2. QED
    BY <2>1, Numbers DEF Sound, InCall, ResumeSound, CorruptPartial
<1>8. MixedSuccessIsRight'
  BY NoSuccess DEF CorruptPartial
<1>9. QED
  BY <1>1, <1>2, <1>3, <1>4, <1>5, <1>6, <1>7, <1>8 DEF Quiet

LEMMA FOpenPartKeeps ==
  ASSUME MixedIInv, FOpenPart
  PROVE  MixedIInv'
<1> USE DEF MixedIInv
<1>1. FTypeOK'
  BY Numbers DEF FTypeOK, GroupTyped, Content, NoFile, group, FOpenPart, OpenPart
<1>2. GroupTyped'
  BY DEF GroupTyped, group, FOpenPart, OpenPart
<1>3. Quiet'
  BY StillQuiet DEF group, FOpenPart, OpenPart
<1>4. InStep'
  BY Numbers DEF FTypeOK, GroupTyped, InStep, InCall, disk, group, single, FOpenPart, OpenPart
<1>5. CopierInCall'
  BY DEF CopierInCall, group, FOpenPart, OpenPart
<1>6. Shape'
  <2>1. Full'
    BY Numbers DEF FOpenPart, OpenPart, Full, Absent
  <2>2. QED
    BY <2>1 DEF Shape, FOpenPart, OpenPart
<1>7. Sound'
  <2>1. ASSUME NEW c \in Chunks, part[c] = remote
        PROVE  part'[c] = remote
    BY <2>1, Numbers DEF FOpenPart, OpenPart
  <2>2. \A w \in Workers : pc[w] = "none"
    BY Indices DEF NoGroupOutside, FOpenPart, OpenPart
  <2>3. meta.complete \subseteq Chunks /\ st.complete \subseteq Chunks
    BY DEF FTypeOK, Meta
  <2>4. InCall /\ st.ver = remote /\ UNCHANGED <<meta, st, remote, finishes, spoiled, pc>>
    BY DEF InStep, InCall, FOpenPart, OpenPart, group
  <2>5. QED
    BY <2>1, <2>2, <2>3, <2>4 DEF Sound, Arrived, ResumeSound
<1>8. MixedSuccessIsRight'
  BY NoSuccess DEF InStep, group, FOpenPart, OpenPart
<1>9. QED
  BY <1>1, <1>2, <1>3, <1>4, <1>5, <1>6, <1>7, <1>8 DEF Quiet

LEMMA AlreadyCompleteKeeps ==
  ASSUME MixedIInv, Seg(AlreadyComplete)
  PROVE  MixedIInv'
<1> USE DEF MixedIInv
<1>1. FTypeOK'
  BY Numbers DEF FTypeOK, GroupTyped, Content, NoFile, group, single, Seg, AlreadyComplete
<1>2. GroupTyped'
  BY DEF GroupTyped, group, single, Seg, AlreadyComplete
<1>3. Quiet'
  BY StillQuiet DEF group, single, Seg, AlreadyComplete
<1>4. InStep'
  BY DEF InStep, InCall, group, single, Seg, AlreadyComplete
<1>5. CopierInCall'
  BY DEF CopierInCall, group, single, Seg, AlreadyComplete
<1>6. Shape'
  <2>1. Prefix(0)' /\ main' = "idle"
    BY EmptyIsPrefix DEF Seg, AlreadyComplete
  <2>2. QED
    BY <2>1, Constants DEF Shape
<1>7. Sound'
  BY Indices, Numbers DEF FTypeOK, GroupTyped, InStep, NoGroupOutside, InCall, Sound, Arrived,
     ResumeSound, disk, group, single, Seg, AlreadyComplete
<1>8. MixedSuccessIsRight'
  <2>1. ASSUME ~spoiled, finishes' <= 1
        PROVE  \A c \in Chunks : part[c] = remote
    <3>1. finishes = 0 /\ st.complete = Chunks /\ InCall
      BY <2>1 DEF GroupTyped, InCall, Seg, AlreadyComplete
    <3>2. QED
      BY <2>1, <3>1 DEF Sound, Arrived, InStep
  <2>2. part = [c \in Chunks |-> part[c]] /\ remote \in Versions
    BY DEF FTypeOK, GroupTyped, Content
  <2>3. UNCHANGED <<remote, begun, spoiled>> /\ out' = part
    BY DEF Seg, AlreadyComplete, single
  <2>4. QED
    BY <2>1, <2>2, <2>3 DEF MixedSuccessIsRight
<1>9. QED
  BY <1>1, <1>2, <1>3, <1>4, <1>5, <1>6, <1>7, <1>8 DEF Quiet

LEMMA StartGroupKeeps ==
  ASSUME MixedIInv, Seg(StartGroup)
  PROVE  MixedIInv'
<1> USE DEF MixedIInv
<1>1. FTypeOK'
  BY DEF FTypeOK, disk, group, single, Seg, StartGroup
<1>2. GroupTyped'
  BY DEF GroupTyped, disk, group, single, Seg, StartGroup
<1>3. Quiet'
  BY StillQuiet DEF disk, group, single, Seg, StartGroup
<1>4. InStep'
  BY DEF InStep, InCall, disk, group, single, Seg, StartGroup
<1>5. CopierInCall'
  BY DEF CopierInCall, disk, group, single, Seg, StartGroup
<1>6. Shape'
  BY SameShape DEF disk, group, single, Seg, StartGroup
<1>7. Sound'
  BY DEF Sound, InCall, Arrived, ResumeSound, disk, group, single, Seg, StartGroup
<1>8. MixedSuccessIsRight'
  BY NoSuccess DEF InStep, disk, group, single, Seg, StartGroup
<1>9. QED
  BY <1>1, <1>2, <1>3, <1>4, <1>5, <1>6, <1>7, <1>8 DEF Quiet

LEMMA SetupFailsKeeps ==
  ASSUME MixedIInv, Seg(SetupFails)
  PROVE  MixedIInv'
<1> USE DEF MixedIInv
<1>1. FTypeOK'
  BY DEF FTypeOK, disk, group, single, Seg, SetupFails
<1>2. GroupTyped'
  BY DEF GroupTyped, disk, group, single, Seg, SetupFails
<1>3. Quiet'
  BY StillQuiet DEF disk, group, single, Seg, SetupFails
<1>4. InStep'
  BY DEF InStep, InCall, disk, group, single, Seg, SetupFails
<1>5. CopierInCall'
  BY DEF CopierInCall, disk, group, single, Seg, SetupFails
<1>6. Shape'
  BY SameShape DEF disk, group, single, Seg, SetupFails
<1>7. Sound'
  BY DEF Sound, InCall, Arrived, ResumeSound, disk, group, single, Seg, SetupFails
<1>8. MixedSuccessIsRight'
  BY NoSuccess DEF InStep, disk, group, single, Seg, SetupFails
<1>9. QED
  BY <1>1, <1>2, <1>3, <1>4, <1>5, <1>6, <1>7, <1>8 DEF Quiet

LEMMA RemoteChangesKeeps ==
  ASSUME MixedIInv, Seg(main = "idle" /\ RemoteChanges)
  PROVE  MixedIInv'
<1> USE DEF MixedIInv
<1>1. FTypeOK'
  BY DEF FTypeOK, group, single, Seg, RemoteChanges
<1>2. GroupTyped'
  <2>1. remote' \in Versions
    BY Constants DEF GroupTyped, Versions, Seg, RemoteChanges
  <2>2. QED
    BY <2>1 DEF GroupTyped, Seg, RemoteChanges, group
<1>3. Quiet'
  BY StillQuiet DEF group, single, Seg, RemoteChanges
<1>4. InStep'
  BY Numbers DEF FTypeOK, GroupTyped, InStep, InCall, disk, group, single, Seg, RemoteChanges
<1>5. CopierInCall'
  BY DEF CopierInCall, group, single, Seg, RemoteChanges
<1>6. Shape'
  <2>1. ASSUME NEW k \in 0 .. NChunks, Prefix(k)
        PROVE  Prefix(k)'
    BY <2>1, Numbers DEF Prefix, Seg, RemoteChanges, single
  <2>2. Full => Full'
    BY DEF Full, Seg, RemoteChanges
  <2>3. main' = "idle"
    BY DEF Seg, RemoteChanges
  <2>4. QED
    BY <2>1, <2>2, <2>3 DEF Shape
<1>7. Sound'
  BY Indices, Numbers DEF FTypeOK, GroupTyped, InStep, NoGroupOutside, InCall, Sound, Arrived,
     ResumeSound, disk, group, single, Seg, RemoteChanges
<1>8. MixedSuccessIsRight'
  <2>1. begun' # remote'
    BY Numbers DEF InStep, Seg, RemoteChanges, single
  <2>2. UNCHANGED <<result, out, spoiled, finishes>>
    BY DEF Seg, RemoteChanges, single
  <2>3. QED
    BY <2>1, <2>2 DEF MixedSuccessIsRight
<1>9. QED
  BY <1>1, <1>2, <1>3, <1>4, <1>5, <1>6, <1>7, <1>8 DEF Quiet

-----------------------------------------------------------------------------
(* downloadSingle                                                            *)

LEMMA HeadRefusedKeeps ==
  ASSUME MixedIInv, HeadRefused
  PROVE  MixedIInv'
<1> USE DEF MixedIInv
<1>1. FTypeOK'
  BY DEF FTypeOK, disk, group, single, HeadRefused
<1>2. GroupTyped'
  BY DEF GroupTyped, disk, group, single, HeadRefused
<1>3. Quiet'
  BY StillQuiet DEF disk, group, single, HeadRefused
<1>4. InStep'
  BY DEF InStep, InCall, disk, group, single, HeadRefused
<1>5. CopierInCall'
  BY DEF CopierInCall, disk, group, single, HeadRefused
<1>6. Shape'
  BY SameShape DEF disk, group, single, HeadRefused
<1>7. Sound'
  BY DEF Sound, InCall, Arrived, ResumeSound, disk, group, single, HeadRefused
<1>8. MixedSuccessIsRight'
  BY NoSuccess DEF InStep, disk, group, single, HeadRefused
<1>9. QED
  BY <1>1, <1>2, <1>3, <1>4, <1>5, <1>6, <1>7, <1>8 DEF Quiet

LEMMA NoRangesKeeps ==
  ASSUME MixedIInv, NoRanges
  PROVE  MixedIInv'
<1> USE DEF MixedIInv
<1>1. FTypeOK'
  <2>1. /\ meta' \in {meta, NoMeta} /\ st' \in {meta, NoMeta}
        /\ spoiled' \in {spoiled, FALSE} /\ planless' \in {planless, FALSE}
    BY DEF NoRanges
  <2>2. UNCHANGED <<part, out, result, copier, at, begun>> /\ main' = "request"
    BY DEF NoRanges
  <2>3. QED
    BY <2>1, <2>2, Numbers DEF FTypeOK
<1>2. GroupTyped'
  <2>1. finishes' \in {finishes, 0} /\ UNCHANGED <<remote, group>>
    BY DEF NoRanges
  <2>2. QED
    BY <2>1 DEF GroupTyped, group
<1>3. Quiet'
  BY StillQuiet DEF NoRanges
<1>4. InStep'
  <2>1. main # "idle" /\ main' = "request" /\ meta' \in {meta, NoMeta}
        /\ UNCHANGED <<result, remote, begun>>
    BY DEF NoRanges
  <2>2. QED
    BY <2>1, Numbers DEF GroupTyped, InStep, InCall
<1>5. CopierInCall'
  BY DEF CopierInCall, group, NoRanges
<1>6. Shape'
  BY SameShape DEF group, NoRanges
<1>7. Sound'
  BY Indices, Numbers DEF FTypeOK, GroupTyped, InStep, NoGroupOutside, InCall, Sound, Arrived,
     ResumeSound, disk, group, single, NoRanges
<1>8. MixedSuccessIsRight'
  BY NoSuccess DEF InStep, group, NoRanges
<1>9. QED
  BY <1>1, <1>2, <1>3, <1>4, <1>5, <1>6, <1>7, <1>8 DEF Quiet

LEMMA ProbeKeeps ==
  ASSUME MixedIInv, Probe
  PROVE  MixedIInv'
<1> USE DEF MixedIInv
<1>1. FTypeOK'
  BY DEF FTypeOK, disk, group, single, Probe
<1>2. GroupTyped'
  BY DEF GroupTyped, disk, group, single, Probe
<1>3. Quiet'
  BY StillQuiet DEF disk, group, single, Probe
<1>4. InStep'
  BY DEF InStep, InCall, disk, group, single, Probe
<1>5. CopierInCall'
  BY DEF CopierInCall, disk, group, single, Probe
<1>6. Shape'
  BY SameShape DEF disk, group, single, Probe
<1>7. Sound'
  BY DEF Sound, InCall, Arrived, ResumeSound, disk, group, single, Probe
<1>8. MixedSuccessIsRight'
  BY NoSuccess DEF InStep, disk, group, single, Probe
<1>9. QED
  BY <1>1, <1>2, <1>3, <1>4, <1>5, <1>6, <1>7, <1>8 DEF Quiet

LEMMA SingleFailsKeeps ==
  ASSUME MixedIInv, SingleFails
  PROVE  MixedIInv'
<1> USE DEF MixedIInv
<1>1. FTypeOK'
  BY Constants DEF FTypeOK, group, SingleFails, SingleReturns, Errors
<1>2. GroupTyped'
  BY DEF GroupTyped, group, SingleFails, SingleReturns, Errors
<1>3. Quiet'
  BY StillQuiet DEF group, SingleFails, SingleReturns, Errors
<1>4. InStep'
  BY DEF InStep, InCall, group, SingleFails, SingleReturns, Errors
<1>5. CopierInCall'
  BY DEF CopierInCall, group, SingleFails, SingleReturns, Errors
<1>6. Shape'
  BY SameShape DEF group, SingleFails, SingleReturns, Errors
<1>7. Sound'
  BY DEF Sound, InCall, Arrived, ResumeSound, group, SingleFails, SingleReturns, Errors
<1>8. MixedSuccessIsRight'
  BY NoSuccess DEF InStep, group, SingleFails, SingleReturns, Errors
<1>9. QED
  BY <1>1, <1>2, <1>3, <1>4, <1>5, <1>6, <1>7, <1>8 DEF Quiet

LEMMA ResumeKeeps ==
  ASSUME MixedIInv, Resume
  PROVE  MixedIInv'
<1> USE DEF MixedIInv
<1>1. FTypeOK'
  <2>1. at' \in 1 .. NChunks + 1
    BY SizeIsPrefix, Constants DEF Resume
  <2>2. /\ UNCHANGED <<part, out, meta, st, result, begun, spoiled, planless>>
       /\ main' = "copy" /\ copier' = "run"
    BY DEF Resume, disk
  <2>3. QED
    BY <2>1, <2>2 DEF FTypeOK, Content
<1>2. GroupTyped'
  BY DEF GroupTyped, disk, group, Resume
<1>3. Quiet'
  BY StillQuiet DEF disk, group, Resume
<1>4. InStep'
  BY DEF InStep, InCall, disk, group, Resume
<1>5. CopierInCall'
  BY DEF CopierInCall, disk, group, Resume
<1>6. Shape'
  <2>1. Size \in 0 .. NChunks - 1 /\ Prefix(Size) /\ at' = Size + 1
    BY SizeIsPrefix, Constants DEF Resume
  <2>2. UNCHANGED <<part, remote, begun>> /\ main' = "copy"
    BY DEF Resume, disk
  <2> DEFINE k == Size
  <2>3. k \in 0 .. NChunks /\ Prefix(k) /\ at' - 1 = k
    BY <2>1, Constants
  <2> HIDE DEF k
  <2>4. Prefix(at' - 1)
    BY <2>3
  <2>5. Prefix(at - 1)'
    BY <2>2, <2>4 DEF Prefix
  <2>6. Full' \/ \E i \in 0 .. NChunks : Prefix(i)'
    BY <2>2, <2>3 DEF Prefix
  <2>7. QED
    BY <2>2, <2>5, <2>6 DEF Shape
<1>7. Sound'
  BY DEF Sound, InCall, Arrived, ResumeSound, disk, group, Resume
<1>8. MixedSuccessIsRight'
  BY NoSuccess DEF InStep, disk, group, Resume
<1>9. QED
  BY <1>1, <1>2, <1>3, <1>4, <1>5, <1>6, <1>7, <1>8 DEF Quiet

LEMMA RestartKeeps ==
  ASSUME MixedIInv, Restart
  PROVE  MixedIInv'
<1> USE DEF MixedIInv
<1>1. FTypeOK'
  BY Constants, Indices, Numbers DEF FTypeOK, GroupTyped, Content, NoFile, disk, group, single,
     Restart
<1>2. GroupTyped'
  BY DEF GroupTyped, group, Restart
<1>3. Quiet'
  BY StillQuiet DEF group, Restart
<1>4. InStep'
  BY Numbers DEF FTypeOK, GroupTyped, InStep, InCall, disk, group, single, Restart
<1>5. CopierInCall'
  BY DEF CopierInCall, group, Restart
<1>6. Shape'
  <2>1. Prefix(0)' /\ main' = "copy" /\ at' - 1 = 0
    BY EmptyIsPrefix DEF Restart
  <2>2. QED
    BY <2>1, Constants DEF Shape
<1>7. Sound'
  BY Indices, Numbers DEF FTypeOK, GroupTyped, InStep, NoGroupOutside, InCall, Sound, Arrived,
     ResumeSound, disk, group, single, Restart
<1>8. MixedSuccessIsRight'
  BY NoSuccess DEF InStep, group, Restart
<1>9. QED
  BY <1>1, <1>2, <1>3, <1>4, <1>5, <1>6, <1>7, <1>8 DEF Quiet

LEMMA CopyChunkKeeps ==
  ASSUME MixedIInv, CopyChunk
  PROVE  MixedIInv'
<1> USE DEF MixedIInv
<1>1. FTypeOK'
  <2>1. part' \in Content
    BY Numbers DEF FTypeOK, GroupTyped, Content, CopyChunk
  <2>2. at' \in 1 .. NChunks + 1
    BY Numbers, Constants DEF CopyChunk
  <2>3. UNCHANGED <<out, meta, st, main, result, copier, begun, spoiled, planless>>
    BY DEF CopyChunk
  <2>4. QED
    BY <2>1, <2>2, <2>3 DEF FTypeOK
<1>2. GroupTyped'
  BY DEF GroupTyped, group, CopyChunk
<1>3. Quiet'
  <2>1. main = "copy"
    BY DEF CopierInCall, CopyChunk
  <2>2. QED
    BY <2>1, StillQuiet DEF CopyChunk, group
<1>4. InStep'
  BY DEF InStep, InCall, group, CopyChunk
<1>5. CopierInCall'
  BY DEF CopierInCall, group, CopyChunk
<1>6. Shape'
  <2>1. main' = "copy" /\ at' - 1 = at /\ at \in Chunks /\ at \in 0 .. NChunks
    BY Numbers DEF CopierInCall, CopyChunk, Chunks
  <2>2. Prefix(at - 1)
    BY DEF Shape, CopierInCall, CopyChunk
  <2>3. UNCHANGED <<begun, remote>> /\ remote \in begun .. remote
    BY Numbers DEF InStep, CopyChunk
  <2>4. part' = [part EXCEPT ![at] = remote] /\ part \in [Chunks -> {Absent, Junk, 0} \cup Versions]
    BY DEF CopyChunk, FTypeOK, Content
  <2>5. ASSUME NEW c \in Chunks
        PROVE  IF c <= at THEN part'[c] \in begun .. remote ELSE part'[c] = Absent
    <3>1. CASE c = at
      BY <2>3, <2>4, <3>1, Indices
    <3>2. CASE c # at
      <4>1. part'[c] = part[c]
        BY <2>4, <3>2
      <4>2. c <= at <=> c <= at - 1
        BY <3>2, Indices, Numbers
      <4>3. QED
        BY <2>2, <4>1, <4>2 DEF Prefix
    <3>3. QED
      BY <3>1, <3>2
  <2> DEFINE k == at
  <2>6. \A c \in Chunks : IF c <= k THEN part'[c] \in begun' .. remote' ELSE part'[c] = Absent
    BY <2>3, <2>5
  <2>7. k \in 0 .. NChunks /\ at' - 1 = k
    BY <2>1
  <2> HIDE DEF k
  <2>8. QED
    BY <2>1, <2>6, <2>7 DEF Shape, Prefix
<1>7. Sound'
  BY Indices, Numbers DEF FTypeOK, GroupTyped, InStep, NoGroupOutside, InCall, Sound, Arrived,
     ResumeSound, disk, group, single, CopyChunk
<1>8. MixedSuccessIsRight'
  BY NoSuccess DEF InStep, group, CopyChunk
<1>9. QED
  BY <1>1, <1>2, <1>3, <1>4, <1>5, <1>6, <1>7, <1>8 DEF Quiet

LEMMA CopyEndsKeeps ==
  ASSUME MixedIInv, CopyEnds
  PROVE  MixedIInv'
<1> USE DEF MixedIInv
<1>1. FTypeOK'
  BY DEF FTypeOK, disk, group, CopyEnds
<1>2. GroupTyped'
  BY DEF GroupTyped, disk, group, CopyEnds
<1>3. Quiet'
  <2>1. main = "copy"
    BY DEF CopierInCall, CopyEnds
  <2>2. QED
    BY <2>1, StillQuiet DEF CopyEnds, group
<1>4. InStep'
  BY DEF InStep, InCall, disk, group, CopyEnds
<1>5. CopierInCall'
  BY DEF CopierInCall, disk, group, CopyEnds
<1>6. Shape'
  BY SameShape DEF disk, group, CopyEnds
<1>7. Sound'
  BY DEF Sound, InCall, Arrived, ResumeSound, disk, group, CopyEnds
<1>8. MixedSuccessIsRight'
  BY NoSuccess DEF InStep, disk, group, CopyEnds
<1>9. QED
  BY <1>1, <1>2, <1>3, <1>4, <1>5, <1>6, <1>7, <1>8 DEF Quiet

LEMMA CopyFailsKeeps ==
  ASSUME MixedIInv, CopyFails
  PROVE  MixedIInv'
<1> USE DEF MixedIInv
<1>1. FTypeOK'
  BY DEF FTypeOK, disk, group, CopyFails, Errors
<1>2. GroupTyped'
  BY DEF GroupTyped, disk, group, CopyFails, Errors
<1>3. Quiet'
  <2>1. main = "copy"
    BY DEF CopierInCall, CopyFails
  <2>2. QED
    BY <2>1, StillQuiet DEF CopyFails, group
<1>4. InStep'
  BY DEF InStep, InCall, disk, group, CopyFails, Errors
<1>5. CopierInCall'
  BY DEF CopierInCall, disk, group, CopyFails, Errors
<1>6. Shape'
  BY SameShape DEF disk, group, CopyFails, Errors
<1>7. Sound'
  BY DEF Sound, InCall, Arrived, ResumeSound, disk, group, CopyFails, Errors
<1>8. MixedSuccessIsRight'
  BY NoSuccess DEF InStep, disk, group, CopyFails, Errors
<1>9. QED
  BY <1>1, <1>2, <1>3, <1>4, <1>5, <1>6, <1>7, <1>8 DEF Quiet

LEMMA SaveTickKeeps ==
  ASSUME MixedIInv, SaveTick
  PROVE  MixedIInv'
<1> USE DEF MixedIInv
<1>1. FTypeOK'
  BY Numbers DEF FTypeOK, group, SaveTick, SaveUseless, Save
<1>2. GroupTyped'
  BY DEF GroupTyped, group, SaveTick, SaveUseless, Save
<1>3. Quiet'
  BY StillQuiet DEF group, SaveTick, SaveUseless, Save
<1>4. InStep'
  BY Numbers DEF InStep, InCall, group, SaveTick, SaveUseless, Save
<1>5. CopierInCall'
  BY DEF CopierInCall, group, SaveTick, SaveUseless, Save
<1>6. Shape'
  BY SameShape DEF group, SaveTick, SaveUseless, Save
<1>7. Sound'
  BY Indices, Numbers DEF FTypeOK, GroupTyped, InStep, NoGroupOutside, InCall, Sound, Arrived,
     ResumeSound, disk, group, single, SaveTick, SaveUseless, Save
<1>8. MixedSuccessIsRight'
  BY NoSuccess DEF InStep, group, SaveTick, SaveUseless, Save
<1>9. QED
  BY <1>1, <1>2, <1>3, <1>4, <1>5, <1>6, <1>7, <1>8 DEF Quiet

LEMMA SingleDoneKeeps ==
  ASSUME MixedIInv, SingleDone
  PROVE  MixedIInv'
<1> USE DEF MixedIInv
<1>1. FTypeOK'
  <2>1. at' = 1 /\ 1 \in 1 .. NChunks + 1
    BY Constants DEF SingleDone, SingleReturns
  <2>2. part' \in Content /\ out' \in Content
    BY DEF FTypeOK, Content, NoFile, SingleDone
  <2>3. /\ main' = "idle" /\ copier' = "none" /\ result' \in {"success", "error"} /\ meta' = NoMeta
        /\ spoiled' = FALSE /\ planless' = FALSE /\ UNCHANGED <<st, begun>>
    BY DEF SingleDone, SingleReturns
  <2>4. QED
    BY <2>1, <2>2, <2>3, Numbers DEF FTypeOK
<1>2. GroupTyped'
  BY DEF GroupTyped, group, SingleDone, SingleReturns
<1>3. Quiet'
  BY StillQuiet DEF group, SingleDone, SingleReturns
<1>4. InStep'
  BY Numbers DEF InStep, InCall, group, SingleDone, SingleReturns
<1>5. CopierInCall'
  BY DEF CopierInCall, group, SingleDone, SingleReturns
<1>6. Shape'
  <2>1. main' = "idle" /\ UNCHANGED <<remote, begun>>
    BY DEF SingleDone, SingleReturns
  <2>2. CASE part' = NoFile
    <3>1. Prefix(0)'
      BY <2>2, EmptyIsPrefix
    <3>2. QED
      BY <2>1, <3>1, Constants DEF Shape
  <2>3. CASE part' = part
    BY <2>1, <2>3, SameShape
  <2>4. QED
    BY <2>2, <2>3 DEF SingleDone
<1>7. Sound'
  BY Indices, Numbers DEF FTypeOK, GroupTyped, InStep, NoGroupOutside, InCall, Sound, Arrived,
     ResumeSound, disk, group, single, SingleDone, SingleReturns
<1>8. MixedSuccessIsRight'
  <2>1. \A c \in Chunks : part[c] \in begun .. remote
    <3>1. Prefix(NChunks)
      BY Constants DEF Shape, CopierInCall, SingleDone
    <3>2. QED
      BY <3>1, Indices DEF Prefix
  <2>2. ASSUME out' = part
        PROVE  MixedSuccessIsRight'
    <3>1. UNCHANGED <<remote, begun>>
      BY DEF SingleDone, SingleReturns
    <3>2. \A c \in Chunks : part[c] \in Versions
      BY <2>1, Numbers
    <3>3. ASSUME begun = remote
          PROVE  part = [c \in Chunks |-> remote]
      <4>1. \A c \in Chunks : part[c] = remote
        BY <2>1, <3>3, Numbers
      <4>2. part = [c \in Chunks |-> part[c]]
        BY DEF FTypeOK, Content
      <4>3. QED
        BY <4>1, <4>2
    <3>4. QED
      BY <2>2, <3>1, <3>2, <3>3 DEF MixedSuccessIsRight
  <2>3. result' = "error" \/ out' = part
    BY DEF SingleDone, SingleReturns
  <2>4. QED
    BY <2>2, <2>3, NoSuccess
<1>9. QED
  BY <1>1, <1>2, <1>3, <1>4, <1>5, <1>6, <1>7, <1>8 DEF Quiet

LEMMA SingleErrorKeeps ==
  ASSUME MixedIInv, SingleError
  PROVE  MixedIInv'
<1> USE DEF MixedIInv
<1>1. FTypeOK'
  <2>1. at' = 1 /\ 1 \in 1 .. NChunks + 1
    BY Constants DEF SingleError, SingleReturns
  <2>2. /\ meta' \in {meta, NoMeta} /\ spoiled' \in {spoiled, FALSE} /\ planless' \in {planless, TRUE}
        /\ main' = "idle" /\ copier' = "none" /\ result' \in {"error", "canceled"}
        /\ UNCHANGED <<part, out, st, begun>>
    BY DEF SingleError, SaveUseless, SingleReturns
  <2>3. QED
    BY <2>1, <2>2, Numbers DEF FTypeOK
<1>2. GroupTyped'
  BY DEF GroupTyped, group, SingleError, SaveUseless, Save, SingleReturns
<1>3. Quiet'
  BY StillQuiet DEF group, SingleError, SaveUseless, Save, SingleReturns
<1>4. InStep'
  BY Numbers DEF InStep, InCall, group, SingleError, SaveUseless, Save, SingleReturns
<1>5. CopierInCall'
  BY DEF CopierInCall, group, SingleError, SaveUseless, Save, SingleReturns
<1>6. Shape'
  BY SameShape DEF group, SingleError, SaveUseless, Save, SingleReturns
<1>7. Sound'
  BY Indices, Numbers DEF FTypeOK, GroupTyped, InStep, NoGroupOutside, InCall, Sound, Arrived,
     ResumeSound, disk, group, single, SingleError, SaveUseless, Save, SingleReturns
<1>8. MixedSuccessIsRight'
  BY NoSuccess DEF InStep, group, SingleError, SaveUseless, Save, SingleReturns
<1>9. QED
  BY <1>1, <1>2, <1>3, <1>4, <1>5, <1>6, <1>7, <1>8 DEF Quiet

LEMMA SingleCanceledKeeps ==
  ASSUME MixedIInv, SingleCanceled
  PROVE  MixedIInv'
<1> USE DEF MixedIInv
<1>1. FTypeOK'
  BY Constants DEF FTypeOK, group, SingleCanceled, SingleReturns
<1>2. GroupTyped'
  BY DEF GroupTyped, group, SingleCanceled, SingleReturns
<1>3. Quiet'
  BY StillQuiet DEF group, SingleCanceled, SingleReturns
<1>4. InStep'
  BY DEF InStep, InCall, group, SingleCanceled, SingleReturns
<1>5. CopierInCall'
  BY DEF CopierInCall, group, SingleCanceled, SingleReturns
<1>6. Shape'
  BY SameShape DEF group, SingleCanceled, SingleReturns
<1>7. Sound'
  BY DEF Sound, InCall, Arrived, ResumeSound, group, SingleCanceled, SingleReturns
<1>8. MixedSuccessIsRight'
  BY NoSuccess DEF InStep, group, SingleCanceled, SingleReturns
<1>9. QED
  BY <1>1, <1>2, <1>3, <1>4, <1>5, <1>6, <1>7, <1>8 DEF Quiet

-----------------------------------------------------------------------------
(* Cancellations, crashes and the end of the group                           *)

LEMMA CancelKeeps ==
  ASSUME MixedIInv, Seg(Cancel)
  PROVE  MixedIInv'
<1> USE DEF MixedIInv
<1>1. FTypeOK'
  BY DEF FTypeOK, disk, group, single, Seg, Cancel
<1>2. GroupTyped'
  BY DEF GroupTyped, disk, group, single, Seg, Cancel
<1>3. Quiet'
  <2>1. UNCHANGED <<main, st, spawned, pc, has, next, workCh, firstErr>>
    BY DEF Seg, Cancel, group
  <2>2. QED
    BY <2>1 DEF Quiet, NoGroupOutside, OnePlace, NoDoubleFetch, Busy, TickerEndsByError
<1>4. InStep'
  BY DEF InStep, InCall, disk, group, single, Seg, Cancel
<1>5. CopierInCall'
  BY DEF CopierInCall, disk, group, single, Seg, Cancel
<1>6. Shape'
  BY SameShape DEF disk, group, single, Seg, Cancel
<1>7. Sound'
  BY DEF Sound, InCall, Arrived, ResumeSound, disk, group, single, Seg, Cancel
<1>8. MixedSuccessIsRight'
  BY NoSuccess DEF InStep, disk, group, single, Seg, Cancel
<1>9. QED
  BY <1>1, <1>2, <1>3, <1>4, <1>5, <1>6, <1>7, <1>8 DEF Quiet

LEMMA DieKeeps ==
  ASSUME MixedIInv, Die
  PROVE  MixedIInv'
<1> USE DEF MixedIInv
<1>1. FTypeOK'
  BY Constants DEF FTypeOK, disk, Die, Crash
<1>2. GroupTyped'
  <2>1. IdleGroup /\ UNCHANGED remote /\ finishes' \in Nat
    BY DEF GroupTyped, Die, Crash, disk
  <2>2. QED
    BY <2>1, Constants DEF GroupTyped, IdleGroup
<1>3. Quiet'
  BY IdleIsQuiet DEF disk, Die, Crash
<1>4. InStep'
  BY DEF InStep, InCall, disk, Die, Crash
<1>5. CopierInCall'
  BY DEF CopierInCall, disk, Die, Crash
<1>6. Shape'
  BY SameShape DEF disk, Die, Crash
<1>7. Sound'
  <2>1. main' = "idle" /\ UNCHANGED <<part, meta, remote, finishes, spoiled>>
    BY DEF Die, Crash, disk
  <2>2. \A w \in Workers : pc'[w] # "mark"
    BY IdleIsQuiet DEF Die, Crash
  <2>3. QED
    BY <2>1, <2>2 DEF Sound, InCall, ResumeSound
<1>8. MixedSuccessIsRight'
  BY NoSuccess DEF InStep, disk, Die, Crash
<1>9. QED
  BY <1>1, <1>2, <1>3, <1>4, <1>5, <1>6, <1>7, <1>8 DEF Quiet

\* The ticker is joined as well, so that there is always an error.
LEMMA FJoinHasError ==
  ASSUME MixedIInv, FJoin
  PROVE  /\ firstErr # "none" /\ result' = firstErr /\ main' = "idle" /\ IdleGroup
         /\ UNCHANGED <<meta, out, part, finishes, remote, begun, at, copier>>
<1>1. pc[Ticker] = "done"
  BY Constants, Indices DEF MixedIInv, GroupTyped, TickerEndsByError, Active, FJoin, Join
<1>2. firstErr # "none"
  BY <1>1 DEF MixedIInv, TickerEndsByError
<1>3. QED
  BY <1>2 DEF FJoin, Join

LEMMA FJoinKeeps ==
  ASSUME MixedIInv, FJoin
  PROVE  MixedIInv'
<1> USE DEF MixedIInv
<1>1. FTypeOK'
  BY Numbers DEF FTypeOK, GroupTyped, Content, NoFile, FJoin, Join
<1>2. GroupTyped'
  BY FJoinHasError, Constants DEF GroupTyped, IdleGroup
<1>3. Quiet'
  BY IdleIsQuiet DEF FJoin, Join
<1>4. InStep'
  BY Numbers DEF InStep, InCall, FJoin, Join
<1>5. CopierInCall'
  BY DEF CopierInCall, FJoin, Join
<1>6. Shape'
  BY FJoinHasError, SameShape
<1>7. Sound'
  <2>1. spoiled' = (spoiled /\ meta' # NoMeta)
    BY DEF FJoin
  <2>2. ResumeSound'
      \/ spoiled'
    <3>1. CASE meta = NoMeta
      BY <3>1, FJoinHasError, Numbers DEF ResumeSound
    <3>2. CASE meta # NoMeta
      BY <2>1, <3>2, FJoinHasError DEF Sound, ResumeSound
    <3>3. QED
      BY <3>1, <3>2
  <2>3. \A w \in Workers : pc'[w] # "mark"
    BY FJoinHasError, IdleIsQuiet
  <2>4. QED
    BY <2>2, <2>3, FJoinHasError DEF Sound, InCall
<1>8. MixedSuccessIsRight'
  BY FJoinHasError, NoSuccess DEF GroupTyped
<1>9. QED
  BY <1>1, <1>2, <1>3, <1>4, <1>5, <1>6, <1>7, <1>8 DEF Quiet

-----------------------------------------------------------------------------
(* The goroutines of the group                                               *)

\* Goroutines that have begun are those of a call that waits for them.
LEMMA InGroup ==
  ASSUME MixedIInv, NEW g \in Group, pc[g] # "none"
  PROVE  main = "group" /\ result = "none" /\ InCall /\ st.ver = remote /\ Full
BY DEF MixedIInv, NoGroupOutside, InStep, InCall, Shape

\* A worker at work has a chunk to itself, which is neither sent nor complete.
LEMMA BusyChunk ==
  ASSUME MixedIInv, NEW w \in Workers, Busy(w)
  PROVE  /\ has[w] \in Chunks /\ has[w] < next /\ has[w] \notin st.complete
         /\ has[w] \notin workCh
         /\ \A v \in Workers : Busy(v) /\ has[v] = has[w] => v = w
BY DEF MixedIInv, OnePlace, NoDoubleFetch

\* In a group no chunk gets lost as long as each that is written is there.
LEMMA FullStays ==
  ASSUME main' = "group", Full'
  PROVE  Shape'
BY DEF Shape

LEMMA SpawnKeeps ==
  ASSUME MixedIInv, Seg(Spawn)
  PROVE  MixedIInv'
<1> USE DEF MixedIInv
<1>1. FTypeOK'
  BY DEF FTypeOK, disk, group, single, Seg, Spawn
<1>2. GroupTyped'
  BY Constants, Indices, Numbers DEF FTypeOK, GroupTyped, disk, group, single, Seg, Spawn
<1>3. Quiet'
  <2>1. main = "group" /\ main' = main
    BY DEF disk, group, single, Seg, Spawn
  <2>2. OnePlace'
    BY Indices DEF GroupTyped, OnePlace, NoDoubleFetch, Busy, disk, group, single, Seg, Spawn
  <2>3. TickerEndsByError'
    <3>1. spawned \in 0 .. MaxWorkers + 1 /\ spawned + 1 \in Group
      BY Constants, Indices DEF GroupTyped, Seg, Spawn
    <3>2. /\ spawned' = spawned + 1 /\ pc' = [pc EXCEPT ![spawned + 1] = "run"]
          /\ firstErr' = firstErr /\ pc \in [Group -> {"none", "run", "fetch", "mark", "done"}]
      BY DEF GroupTyped, Seg, Spawn
    <3>3. CASE spawned = 0
      BY <3>1, <3>2, <3>3, Indices DEF TickerEndsByError, Ticker
    <3>4. CASE spawned > 0
      BY <3>1, <3>2, <3>4, Indices DEF TickerEndsByError, Ticker
    <3>5. QED
      BY <3>1, <3>3, <3>4
  <2>4. QED
    BY <2>1, <2>2, <2>3 DEF Quiet, NoGroupOutside
<1>4. InStep'
  BY DEF InStep, InCall, disk, group, single, Seg, Spawn
<1>5. CopierInCall'
  BY DEF CopierInCall, disk, group, single, Seg, Spawn
<1>6. Shape'
  BY SameShape DEF disk, group, single, Seg, Spawn
<1>7. Sound'
  BY Indices DEF GroupTyped, Sound, InCall, Arrived, ResumeSound, disk, group, single, Seg, Spawn
<1>8. MixedSuccessIsRight'
  BY NoSuccess DEF InStep, disk, group, single, Seg, Spawn
<1>9. QED
  BY <1>1, <1>2, <1>3, <1>4, <1>5, <1>6, <1>7, <1>8 DEF Quiet

LEMMA TickerSaveKeeps ==
  ASSUME MixedIInv, Seg(TickerSave)
  PROVE  MixedIInv'
<1> USE DEF MixedIInv
<1>1. FTypeOK'
  BY Numbers DEF FTypeOK, group, single, Seg, TickerSave, Save
<1>2. GroupTyped'
  BY DEF GroupTyped, group, single, Seg, TickerSave, Save
<1>3. Quiet'
  <2>1. main = "group" /\ main' = main
    BY InGroup, Indices DEF group, single, Seg, TickerSave, Save
  <2>2. OnePlace'
    BY DEF OnePlace, NoDoubleFetch, Busy, group, single, Seg, TickerSave, Save
  <2>3. TickerEndsByError'
    BY DEF TickerEndsByError, group, single, Seg, TickerSave, Save
  <2>4. QED
    BY <2>1, <2>2, <2>3 DEF Quiet, NoGroupOutside
<1>4. InStep'
  <2>1. InCall /\ st.ver = remote /\ result = "none"
    BY InGroup, Indices DEF Seg, TickerSave
  <2>2. meta' \in {meta, st} /\ UNCHANGED <<main, result, st, remote, begun>>
    BY DEF Seg, TickerSave, Save, single
  <2>3. QED
    BY <2>1, <2>2, Numbers DEF InStep, InCall
<1>5. CopierInCall'
  BY DEF CopierInCall, group, single, Seg, TickerSave, Save
<1>6. Shape'
  BY SameShape DEF group, single, Seg, TickerSave, Save
<1>7. Sound'
  BY Indices, Numbers DEF FTypeOK, GroupTyped, InStep, NoGroupOutside, InCall, Sound, Arrived,
     ResumeSound, disk, group, single, Seg, TickerSave, Save
<1>8. MixedSuccessIsRight'
  BY NoSuccess DEF InStep, group, single, Seg, TickerSave, Save
<1>9. QED
  BY <1>1, <1>2, <1>3, <1>4, <1>5, <1>6, <1>7, <1>8 DEF Quiet

LEMMA TickerStopKeeps ==
  ASSUME MixedIInv, Seg(TickerStop)
  PROVE  MixedIInv'
<1> USE DEF MixedIInv
<1>1. FTypeOK'
  BY DEF FTypeOK, disk, single, Seg, TickerStop, Leave
<1>2. GroupTyped'
  BY DEF GroupTyped, disk, single, Seg, TickerStop, Leave
<1>3. Quiet'
  <2>1. main = "group" /\ main' = main
    BY InGroup, Indices DEF disk, single, Seg, TickerStop, Leave
  <2>2. OnePlace'
    BY Indices DEF GroupTyped, OnePlace, NoDoubleFetch, Busy, disk, single, Seg, TickerStop, Leave
  <2>3. TickerEndsByError'
    BY Indices DEF GroupTyped, TickerEndsByError, disk, single, Seg, TickerStop, Leave
  <2>4. QED
    BY <2>1, <2>2, <2>3 DEF Quiet, NoGroupOutside
<1>4. InStep'
  BY DEF InStep, InCall, disk, single, Seg, TickerStop, Leave
<1>5. CopierInCall'
  BY DEF CopierInCall, disk, single, Seg, TickerStop, Leave
<1>6. Shape'
  BY SameShape DEF disk, single, Seg, TickerStop, Leave
<1>7. Sound'
  BY Indices DEF GroupTyped, Sound, InCall, Arrived, ResumeSound, disk, single, Seg, TickerStop,
     Leave
<1>8. MixedSuccessIsRight'
  BY NoSuccess DEF InStep, disk, single, Seg, TickerStop, Leave
<1>9. QED
  BY <1>1, <1>2, <1>3, <1>4, <1>5, <1>6, <1>7, <1>8 DEF Quiet

LEMMA ProducerEndsKeeps ==
  ASSUME MixedIInv, Seg(ProducerEnds)
  PROVE  MixedIInv'
<1> USE DEF MixedIInv
<1>1. FTypeOK'
  BY DEF FTypeOK, disk, single, Seg, ProducerEnds
<1>2. GroupTyped'
  BY DEF GroupTyped, disk, single, Seg, ProducerEnds
<1>3. Quiet'
  <2>1. main = "group" /\ main' = main
    BY InGroup, Indices DEF disk, single, Seg, ProducerEnds
  <2>2. OnePlace'
    BY Indices DEF GroupTyped, OnePlace, NoDoubleFetch, Busy, disk, single, Seg, ProducerEnds
  <2>3. TickerEndsByError'
    BY Indices DEF GroupTyped, TickerEndsByError, disk, single, Seg, ProducerEnds
  <2>4. QED
    BY <2>1, <2>2, <2>3 DEF Quiet, NoGroupOutside
<1>4. InStep'
  BY DEF InStep, InCall, disk, single, Seg, ProducerEnds
<1>5. CopierInCall'
  BY DEF CopierInCall, disk, single, Seg, ProducerEnds
<1>6. Shape'
  BY SameShape DEF disk, single, Seg, ProducerEnds
<1>7. Sound'
  BY Indices DEF GroupTyped, Sound, InCall, Arrived, ResumeSound, disk, single, Seg, ProducerEnds
<1>8. MixedSuccessIsRight'
  BY NoSuccess DEF InStep, disk, single, Seg, ProducerEnds
<1>9. QED
  BY <1>1, <1>2, <1>3, <1>4, <1>5, <1>6, <1>7, <1>8 DEF Quiet

LEMMA ProducerStopsKeeps ==
  ASSUME MixedIInv, Seg(ProducerStops)
  PROVE  MixedIInv'
<1> USE DEF MixedIInv
<1>1. FTypeOK'
  BY DEF FTypeOK, disk, single, Seg, ProducerStops, Leave
<1>2. GroupTyped'
  BY DEF GroupTyped, disk, single, Seg, ProducerStops, Leave
<1>3. Quiet'
  <2>1. main = "group" /\ main' = main
    BY InGroup, Indices DEF disk, single, Seg, ProducerStops, Leave
  <2>2. OnePlace'
    BY Indices DEF GroupTyped, OnePlace, NoDoubleFetch, Busy, disk, single, Seg, ProducerStops,
       Leave
  <2>3. TickerEndsByError'
    BY Indices DEF GroupTyped, TickerEndsByError, disk, single, Seg, ProducerStops, Leave
  <2>4. QED
    BY <2>1, <2>2, <2>3 DEF Quiet, NoGroupOutside
<1>4. InStep'
  BY DEF InStep, InCall, disk, single, Seg, ProducerStops, Leave
<1>5. CopierInCall'
  BY DEF CopierInCall, disk, single, Seg, ProducerStops, Leave
<1>6. Shape'
  BY SameShape DEF disk, single, Seg, ProducerStops, Leave
<1>7. Sound'
  BY Indices DEF GroupTyped, Sound, InCall, Arrived, ResumeSound, disk, single, Seg,
     ProducerStops, Leave
<1>8. MixedSuccessIsRight'
  BY NoSuccess DEF InStep, disk, single, Seg, ProducerStops, Leave
<1>9. QED
  BY <1>1, <1>2, <1>3, <1>4, <1>5, <1>6, <1>7, <1>8 DEF Quiet

LEMMA ProduceKeeps ==
  ASSUME MixedIInv, NEW c \in Chunks, Seg(Produce(c))
  PROVE  MixedIInv'
<1> USE DEF MixedIInv
<1>1. FTypeOK'
  BY DEF FTypeOK, disk, single, Seg, Produce
<1>2. GroupTyped'
  <2>1. next' = c + 1 /\ c + 1 \in Nat /\ workCh' \subseteq Chunks
    BY Indices DEF GroupTyped, Seg, Produce
  <2>2. QED
    BY <2>1 DEF GroupTyped, Seg, Produce, disk
<1>3. Quiet'
  <2>1. main = "group" /\ main' = main
    BY InGroup, Indices DEF disk, single, Seg, Produce
  <2>2. OnePlace'
    <3>1. /\ workCh' = workCh \cup {c} /\ next' = c + 1 /\ UNCHANGED <<st, pc, has>>
          /\ c >= next /\ c \notin st.complete /\ next \in Nat /\ c \in Nat
      BY Indices DEF GroupTyped, Seg, Produce
    <3>2. \A d \in workCh' : d < next' /\ d \notin st'.complete
      <4>1. \A d \in workCh : d \in Nat /\ d < next /\ d \notin st.complete
        BY Indices DEF OnePlace, GroupTyped
      <4>2. \A d \in Nat : d < next => d < c + 1
        BY <3>1
      <4>3. c < c + 1
        BY <3>1
      <4>4. QED
        BY <3>1, <4>1, <4>2, <4>3
    <3>3. ASSUME NEW v \in Workers, Busy(v)
          PROVE  has[v] \in Chunks /\ has[v] < next' /\ has[v] # c
      <4>1. has[v] \in Chunks /\ has[v] < next
        BY <3>3, BusyChunk
      <4>2. has[v] \in Nat
        BY <4>1, Indices
      <4>3. QED
        BY <3>1, <4>1, <4>2
    <3>4. NoDoubleFetch'
      BY <3>1, <3>3 DEF OnePlace, NoDoubleFetch, Busy
    <3>5. QED
      BY <3>1, <3>2, <3>3, <3>4 DEF OnePlace, Busy
  <2>3. TickerEndsByError'
    BY DEF TickerEndsByError, disk, single, Seg, Produce
  <2>4. QED
    BY <2>1, <2>2, <2>3 DEF Quiet, NoGroupOutside
<1>4. InStep'
  BY DEF InStep, InCall, disk, single, Seg, Produce
<1>5. CopierInCall'
  BY DEF CopierInCall, disk, single, Seg, Produce
<1>6. Shape'
  BY SameShape DEF disk, single, Seg, Produce
<1>7. Sound'
  BY DEF Sound, InCall, Arrived, ResumeSound, disk, single, Seg, Produce
<1>8. MixedSuccessIsRight'
  BY NoSuccess DEF InStep, disk, single, Seg, Produce
<1>9. QED
  BY <1>1, <1>2, <1>3, <1>4, <1>5, <1>6, <1>7, <1>8 DEF Quiet

LEMMA ChannelClosedKeeps ==
  ASSUME MixedIInv, NEW w \in Workers, Seg(ChannelClosed(w))
  PROVE  MixedIInv'
<1> USE DEF MixedIInv
<1>1. FTypeOK'
  BY DEF FTypeOK, disk, single, Seg, ChannelClosed
<1>2. GroupTyped'
  BY DEF GroupTyped, disk, single, Seg, ChannelClosed
<1>3. Quiet'
  <2>1. main = "group" /\ main' = main
    BY InGroup, Indices DEF disk, single, Seg, ChannelClosed
  <2>2. OnePlace'
    BY Indices DEF GroupTyped, OnePlace, NoDoubleFetch, Busy, disk, single, Seg, ChannelClosed
  <2>3. TickerEndsByError'
    BY Indices DEF GroupTyped, TickerEndsByError, disk, single, Seg, ChannelClosed
  <2>4. QED
    BY <2>1, <2>2, <2>3 DEF Quiet, NoGroupOutside
<1>4. InStep'
  BY DEF InStep, InCall, disk, single, Seg, ChannelClosed
<1>5. CopierInCall'
  BY DEF CopierInCall, disk, single, Seg, ChannelClosed
<1>6. Shape'
  BY SameShape DEF disk, single, Seg, ChannelClosed
<1>7. Sound'
  BY Indices DEF GroupTyped, Sound, InCall, Arrived, ResumeSound, disk, single, Seg, ChannelClosed
<1>8. MixedSuccessIsRight'
  BY NoSuccess DEF InStep, disk, single, Seg, ChannelClosed
<1>9. QED
  BY <1>1, <1>2, <1>3, <1>4, <1>5, <1>6, <1>7, <1>8 DEF Quiet

LEMMA MarkKeeps ==
  ASSUME MixedIInv, NEW w \in Workers, Seg(Mark(w))
  PROVE  MixedIInv'
<1> USE DEF MixedIInv
<1>1. FTypeOK'
  <2>1. has[w] \in Chunks
    BY BusyChunk DEF Busy, Seg, Mark
  <2>2. st' \in Meta /\ meta' \in {meta, st'}
    BY <2>1 DEF FTypeOK, Meta, Seg, Mark, Save
  <2>3. UNCHANGED <<part, out, main, result, copier, at, begun, spoiled, planless>>
    BY DEF Seg, Mark, single
  <2>4. QED
    BY <2>2, <2>3 DEF FTypeOK
<1>2. GroupTyped'
  BY DEF GroupTyped, single, Seg, Mark, Save
<1>3. Quiet'
  <2>1. main = "group" /\ main' = main
    BY InGroup, Indices DEF single, Seg, Mark, Save
  <2>2. OnePlace'
    <3>1. /\ st'.complete = st.complete \cup {has[w]} /\ pc' = [pc EXCEPT ![w] = "run"]
          /\ UNCHANGED <<has, next, workCh>>
      BY DEF FTypeOK, Meta, Seg, Mark
    <3>2. Busy(w)
      BY DEF Busy, Seg, Mark
    <3>3. \A d \in workCh' : d < next' /\ d \notin st'.complete
      BY <3>1, <3>2, BusyChunk DEF OnePlace
    <3>4. ASSUME NEW v \in Workers, Busy(v)'
          PROVE  Busy(v) /\ has[v] # has[w]
      <4>1. v # w /\ pc'[v] = pc[v]
        BY <3>1, <3>4, Indices DEF Busy, GroupTyped
      <4>2. Busy(v)
        BY <3>4, <4>1 DEF Busy
      <4>3. QED
        BY <3>2, <4>1, <4>2, BusyChunk
    <3>5. NoDoubleFetch'
      BY <3>1, <3>4, BusyChunk DEF NoDoubleFetch
    <3>6. QED
      BY <3>1, <3>3, <3>4, <3>5, BusyChunk DEF OnePlace
  <2>3. TickerEndsByError'
    BY Indices DEF GroupTyped, TickerEndsByError, single, Seg, Mark, Save
  <2>4. QED
    BY <2>1, <2>2, <2>3 DEF Quiet, NoGroupOutside
<1>4. InStep'
  <2>1. InCall /\ st.ver = remote /\ result = "none"
    BY InGroup, Indices DEF Seg, Mark
  <2>2. st'.ver = st.ver /\ st.complete \subseteq st'.complete
    BY DEF FTypeOK, Meta, Seg, Mark
  <2>3. meta' \in {meta, st'} /\ UNCHANGED <<main, result, remote, begun>>
    BY DEF Seg, Mark, Save, single
  <2>4. QED
    BY <2>1, <2>2, <2>3, Numbers DEF InStep, InCall
<1>5. CopierInCall'
  BY DEF CopierInCall, single, Seg, Mark, Save
<1>6. Shape'
  BY SameShape DEF single, Seg, Mark, Save
<1>7. Sound'
  <2>1. InCall /\ st.ver = remote
    BY InGroup, Indices DEF Seg, Mark
  <2>2. st'.ver = st.ver /\ st'.complete = st.complete \cup {has[w]}
    BY DEF FTypeOK, Meta, Seg, Mark
  <2>3. meta' \in {meta, st'} /\ UNCHANGED <<main, part, has, remote, finishes, spoiled>>
    BY DEF Seg, Mark, Save, single
  <2>4. \A v \in Workers : pc'[v] = "mark" => pc[v] = "mark"
    BY Indices DEF GroupTyped, Seg, Mark
  <2>5. pc[w] = "mark"
    BY DEF Seg, Mark
  <2>6. ASSUME ~spoiled
        PROVE  /\ finishes = 0 => \A c \in st'.complete : part[c] = remote
               /\ \A v \in Workers : pc'[v] = "mark" => part[has[v]] = remote
    BY <2>1, <2>2, <2>4, <2>5, <2>6 DEF Sound, Arrived
  <2>7. QED
    BY <2>1, <2>2, <2>3, <2>6 DEF Sound, Arrived, ResumeSound
<1>8. MixedSuccessIsRight'
  BY NoSuccess DEF InStep, single, Seg, Mark, Save
<1>9. QED
  BY <1>1, <1>2, <1>3, <1>4, <1>5, <1>6, <1>7, <1>8 DEF Quiet

LEMMA FetchFailsKeeps ==
  ASSUME MixedIInv, NEW w \in Workers, Seg(FetchFails(w))
  PROVE  MixedIInv'
<1> USE DEF MixedIInv
<1>1. FTypeOK'
  BY DEF FTypeOK, disk, single, Seg, FetchFails, Leave
<1>2. GroupTyped'
  BY DEF GroupTyped, disk, single, Seg, FetchFails, Leave
<1>3. Quiet'
  <2>1. main = "group" /\ main' = main
    BY InGroup, Indices DEF disk, single, Seg, FetchFails, Leave
  <2>2. OnePlace'
    BY Indices DEF GroupTyped, OnePlace, NoDoubleFetch, Busy, disk, single, Seg, FetchFails, Leave
  <2>3. TickerEndsByError'
    BY Indices DEF GroupTyped, TickerEndsByError, disk, single, Seg, FetchFails, Leave
  <2>4. QED
    BY <2>1, <2>2, <2>3 DEF Quiet, NoGroupOutside
<1>4. InStep'
  BY DEF InStep, InCall, disk, single, Seg, FetchFails, Leave
<1>5. CopierInCall'
  BY DEF CopierInCall, disk, single, Seg, FetchFails, Leave
<1>6. Shape'
  BY SameShape DEF disk, single, Seg, FetchFails, Leave
<1>7. Sound'
  BY Indices DEF GroupTyped, Sound, InCall, Arrived, ResumeSound, disk, single, Seg, FetchFails,
     Leave
<1>8. MixedSuccessIsRight'
  BY NoSuccess DEF InStep, disk, single, Seg, FetchFails, Leave
<1>9. QED
  BY <1>1, <1>2, <1>3, <1>4, <1>5, <1>6, <1>7, <1>8 DEF Quiet

LEMMA FetchKeeps ==
  ASSUME MixedIInv, NEW w \in Workers, Seg(Fetch(w))
  PROVE  MixedIInv'
<1> USE DEF MixedIInv
<1>1. FTypeOK'
  <2>1. has[w] \in Chunks /\ st.ver = remote
    BY BusyChunk, InGroup, Indices DEF Busy, Seg, Fetch
  <2>2. part' = [part EXCEPT ![has[w]] = remote]
    BY <2>1, Numbers DEF Seg, Fetch
  <2>3. part' \in Content
    BY <2>1, <2>2 DEF FTypeOK, GroupTyped, Content
  <2>4. UNCHANGED <<meta, st, out, main, result, copier, at, begun, spoiled, planless>>
    BY DEF Seg, Fetch, single
  <2>5. QED
    BY <2>3, <2>4 DEF FTypeOK
<1>2. GroupTyped'
  BY DEF GroupTyped, single, Seg, Fetch
<1>3. Quiet'
  <2>1. main = "group" /\ main' = main
    BY InGroup, Indices DEF single, Seg, Fetch
  <2>2. OnePlace'
    BY Indices DEF GroupTyped, OnePlace, NoDoubleFetch, Busy, single, Seg, Fetch
  <2>3. TickerEndsByError'
    BY Indices DEF GroupTyped, TickerEndsByError, single, Seg, Fetch
  <2>4. QED
    BY <2>1, <2>2, <2>3 DEF Quiet, NoGroupOutside
<1>4. InStep'
  BY DEF InStep, InCall, single, Seg, Fetch
<1>5. CopierInCall'
  BY DEF CopierInCall, single, Seg, Fetch
<1>6. Shape'
  <2>1. main = "group" /\ main' = main /\ Full /\ st.ver = remote
    BY InGroup, Indices DEF Seg, Fetch
  <2>2. part' = [part EXCEPT ![has[w]] = remote]
    BY <2>1, Numbers DEF Seg, Fetch
  <2>3. Full'
    BY <2>1, <2>2, Numbers DEF Full, FTypeOK, Content
  <2>4. QED
    BY <2>1, <2>3, FullStays
<1>7. Sound'
  <2>1. InCall /\ st.ver = remote /\ has[w] \in Chunks
    BY InGroup, BusyChunk, Indices DEF Busy, Seg, Fetch
  <2>2. part' = [part EXCEPT ![has[w]] = remote]
    BY <2>1, Numbers DEF Seg, Fetch
  <2>3. \A c : part[c] = remote => part'[c] = remote
    BY <2>2 DEF FTypeOK, Content
  <2>4. part'[has[w]] = remote
    BY <2>1, <2>2 DEF FTypeOK, Content
  <2>5. pc' = [pc EXCEPT ![w] = "mark"] /\ UNCHANGED <<main, meta, st, has, remote, finishes, spoiled>>
    BY DEF Seg, Fetch, single
  <2>6. \A v \in Workers : pc'[v] = "mark" => v = w \/ pc[v] = "mark"
    BY <2>5, Indices DEF GroupTyped
  <2>7. QED
    BY <2>1, <2>3, <2>4, <2>5, <2>6 DEF Sound, Arrived, ResumeSound, InCall
<1>8. MixedSuccessIsRight'
  BY NoSuccess DEF InStep, single, Seg, Fetch
<1>9. QED
  BY <1>1, <1>2, <1>3, <1>4, <1>5, <1>6, <1>7, <1>8 DEF Quiet

LEMMA TakeKeeps ==
  ASSUME MixedIInv, NEW w \in Workers, NEW c \in Chunks, Seg(Take(w, c))
  PROVE  MixedIInv'
<1> USE DEF MixedIInv
<1>1. FTypeOK'
  BY Numbers DEF FTypeOK, GroupTyped, Content, NoFile, single, Seg, Take, Receives
<1>2. GroupTyped'
  <2>1. workCh' \subseteq Chunks
    BY DEF GroupTyped, Seg, Take, Receives
  <2>2. pc' \in [Group -> {"none", "run", "fetch", "mark", "done"}] /\ has' \in [Group -> 0 .. NChunks]
    <3>1. c \in 0 .. NChunks
      BY Constants DEF Chunks
    <3>2. CASE c \in st.complete
      BY <3>2 DEF GroupTyped, Seg, Take
    <3>3. CASE c \notin st.complete
      BY <3>1, <3>3 DEF GroupTyped, Seg, Take
    <3>4. QED
      BY <3>2, <3>3
  <2>3. UNCHANGED <<remote, finishes, spawned, next, firstErr>>
    BY DEF Seg, Take
  <2>4. QED
    BY <2>1, <2>2, <2>3 DEF GroupTyped
<1>3. Quiet'
  <2>1. main = "group" /\ main' = main
    BY InGroup, Indices DEF single, Seg, Take, Receives
  <2>2. OnePlace'
    <3>1. c \in workCh /\ workCh' = workCh \ {c} /\ UNCHANGED <<st, next>>
      BY DEF Seg, Take, Receives
    <3>2. \A d \in workCh' : d < next' /\ d \notin st'.complete
      BY <3>1 DEF OnePlace
    <3>3. CASE c \in st.complete
      BY <3>1, <3>2, <3>3 DEF OnePlace, Busy, NoDoubleFetch, Seg, Take
    <3>4. CASE c \notin st.complete
      <4>1. pc' = [pc EXCEPT ![w] = "fetch"] /\ has' = [has EXCEPT ![w] = c]
        BY <3>4 DEF Seg, Take
      <4>2. has'[w] = c /\ \A v \in Workers : v # w => pc'[v] = pc[v] /\ has'[v] = has[v]
        BY <4>1, Indices DEF GroupTyped
      <4>3. c < next /\ c \notin workCh' /\ c \notin st'.complete
        BY <3>1, <3>4 DEF OnePlace
      <4>4. ASSUME NEW v \in Workers, v # w, Busy(v)'
            PROVE  /\ has'[v] \in Chunks /\ has'[v] < next /\ has'[v] # c
                   /\ has'[v] \notin st'.complete \cup workCh'
                   /\ \A u \in Workers : u # w /\ Busy(u)' /\ has'[u] = has'[v] => u = v
        <5>1. \A u \in Workers : u # w => (Busy(u)' <=> Busy(u)) /\ has'[u] = has[u]
          BY <4>2 DEF Busy
        <5>2. QED
          BY <3>1, <4>4, <5>1, BusyChunk
      <4>5. NoDoubleFetch'
        BY <4>2, <4>3, <4>4 DEF NoDoubleFetch
      <4>6. QED
        BY <3>1, <3>2, <4>2, <4>3, <4>4, <4>5 DEF OnePlace
    <3>5. QED
      BY <3>3, <3>4
  <2>3. TickerEndsByError'
    BY Indices DEF GroupTyped, TickerEndsByError, single, Seg, Take, Receives
  <2>4. QED
    BY <2>1, <2>2, <2>3 DEF Quiet, NoGroupOutside
<1>4. InStep'
  BY DEF InStep, InCall, single, Seg, Take, Receives
<1>5. CopierInCall'
  BY DEF CopierInCall, single, Seg, Take, Receives
<1>6. Shape'
  <2>1. main = "group" /\ main' = main /\ Full
    BY InGroup, Indices DEF Seg, Take, Receives
  <2>2. Full'
    BY <2>1, Numbers DEF Full, FTypeOK, Content, Absent, Junk, Seg, Take
  <2>3. QED
    BY <2>1, <2>2, FullStays
<1>7. Sound'
  <2>1. CASE c \in st.complete
    BY <2>1 DEF Sound, Arrived, ResumeSound, InCall, Seg, Take, single
  <2>2. CASE c \notin st.complete
    <3>1. /\ pc' = [pc EXCEPT ![w] = "fetch"] /\ has' = [has EXCEPT ![w] = c]
          /\ part' = [part EXCEPT ![c] = Junk] /\ c \in workCh
          /\ UNCHANGED <<main, meta, st, remote, finishes, spoiled>>
      BY <2>2 DEF Seg, Take, Receives, single
    <3>2. \A d \in Chunks : d # c => part'[d] = part[d]
      BY <3>1 DEF FTypeOK, Content
    <3>3. \A v \in Workers : pc'[v] = "mark" =>
            pc[v] = "mark" /\ has'[v] = has[v] /\ has[v] \in Chunks /\ has[v] # c
      <4>1. \A v \in Workers : pc'[v] = "mark" => pc[v] = "mark" /\ has'[v] = has[v]
        BY <3>1, Indices DEF GroupTyped
      <4>2. QED
        BY <3>1, <4>1, BusyChunk DEF Busy
    <3>4. InCall /\ st.ver = remote
      BY InGroup, Indices DEF Seg, Take, Receives
    <3>5. meta.complete \subseteq st.complete /\ st.complete \subseteq Chunks
      BY <3>4 DEF InStep, FTypeOK, Meta
    <3>6. QED
      BY <2>2, <3>1, <3>2, <3>3, <3>4, <3>5 DEF Sound, Arrived, ResumeSound, InCall
  <2>3. QED
    BY <2>1, <2>2
<1>8. MixedSuccessIsRight'
  BY NoSuccess DEF InStep, single, Seg, Take, Receives
<1>9. QED
  BY <1>1, <1>2, <1>3, <1>4, <1>5, <1>6, <1>7, <1>8 DEF Quiet

LEMMA TakeAfterEndKeeps ==
  ASSUME MixedIInv, NEW w \in Workers, NEW c \in Chunks, Seg(TakeAfterEnd(w, c))
  PROVE  MixedIInv'
<1> USE DEF MixedIInv
<1>1. FTypeOK'
  BY DEF FTypeOK, disk, single, Seg, TakeAfterEnd, Receives, Leave
<1>2. GroupTyped'
  BY DEF GroupTyped, disk, single, Seg, TakeAfterEnd, Receives, Leave
<1>3. Quiet'
  <2>1. main = "group" /\ main' = main
    BY InGroup, Indices DEF disk, single, Seg, TakeAfterEnd, Receives, Leave
  <2>2. OnePlace'
    BY Indices DEF GroupTyped, OnePlace, NoDoubleFetch, Busy, disk, single, Seg, TakeAfterEnd,
       Receives, Leave
  <2>3. TickerEndsByError'
    BY Indices DEF GroupTyped, TickerEndsByError, disk, single, Seg, TakeAfterEnd, Receives, Leave
  <2>4. QED
    BY <2>1, <2>2, <2>3 DEF Quiet, NoGroupOutside
<1>4. InStep'
  BY DEF InStep, InCall, disk, single, Seg, TakeAfterEnd, Receives, Leave
<1>5. CopierInCall'
  BY DEF CopierInCall, disk, single, Seg, TakeAfterEnd, Receives, Leave
<1>6. Shape'
  BY SameShape DEF disk, single, Seg, TakeAfterEnd, Receives, Leave
<1>7. Sound'
  BY Indices DEF GroupTyped, Sound, InCall, Arrived, ResumeSound, disk, single, Seg,
     TakeAfterEnd, Receives, Leave
<1>8. MixedSuccessIsRight'
  BY NoSuccess DEF InStep, disk, single, Seg, TakeAfterEnd, Receives, Leave
<1>9. QED
  BY <1>1, <1>2, <1>3, <1>4, <1>5, <1>6, <1>7, <1>8 DEF Quiet

LEMMA FetchFullKeeps ==
  ASSUME MixedIInv, NEW w \in Workers, FetchFull(w)
  PROVE  MixedIInv'
<1> USE DEF MixedIInv
<1>1. FTypeOK'
  BY Numbers DEF FTypeOK, GroupTyped, Content, NoFile, FetchFull
<1>2. GroupTyped'
  BY DEF GroupTyped, FetchFull
<1>3. Quiet'
  <2>1. main = "group" /\ main' = main
    BY InGroup, Indices DEF FetchFull
  <2>2. OnePlace'
    BY Indices DEF GroupTyped, OnePlace, NoDoubleFetch, Busy, FetchFull
  <2>3. TickerEndsByError'
    BY Indices DEF GroupTyped, TickerEndsByError, FetchFull
  <2>4. QED
    BY <2>1, <2>2, <2>3 DEF Quiet, NoGroupOutside
<1>4. InStep'
  BY DEF InStep, InCall, FetchFull
<1>5. CopierInCall'
  BY DEF CopierInCall, FetchFull
<1>6. Shape'
  <2>1. main = "group" /\ main' = main /\ Full
    BY InGroup, Indices DEF FetchFull
  <2>2. \A c \in Chunks : part'[c] \in {remote, part[c], Junk}
    BY DEF FetchFull
  <2>3. Full'
    BY <2>1, <2>2, Numbers DEF Full, Absent, Junk
  <2>4. QED
    BY <2>1, <2>3, FullStays
<1>7. Sound'
  <2>1. InCall /\ st.ver = remote
    BY InGroup, Indices DEF FetchFull
  <2>2. UNCHANGED <<main, meta, st, has, remote, finishes>>
    BY DEF FetchFull
  <2>3. ASSUME ~spoiled'
        PROVE  \A c \in Chunks : part'[c] = remote
    BY <2>3 DEF FetchFull
  <2>4. meta.complete \subseteq Chunks /\ st.complete \subseteq Chunks
    BY DEF FTypeOK, Meta
  <2>5. \A v \in Workers : pc'[v] = "mark" => has[v] \in Chunks
    <3>1. \A v \in Workers : pc'[v] = "mark" => Busy(v)
      BY Indices DEF GroupTyped, Busy, FetchFull
    <3>2. QED
      BY <3>1, BusyChunk
  <2>6. QED
    BY <2>1, <2>2, <2>3, <2>4, <2>5 DEF Sound, Arrived, ResumeSound
<1>8. MixedSuccessIsRight'
  <2>1. result' = "none"
    BY InGroup, Indices DEF FetchFull
  <2>2. QED
    BY <2>1, NoSuccess
<1>9. QED
  BY <1>1, <1>2, <1>3, <1>4, <1>5, <1>6, <1>7, <1>8 DEF Quiet

LEMMA FullBodyKeeps ==
  ASSUME MixedIInv, NEW w \in Workers, FullBody(w)
  PROVE  MixedIInv'
<1> USE DEF MixedIInv
<1>1. \A c \in Chunks : part'[c] \in {remote, part[c], Junk}
  BY DEF FullBody
<1>2. UNCHANGED <<main, meta, st, out, remote, finishes, result, group, copier, at, begun, planless>>
  BY DEF FullBody
<1>3. FTypeOK'
  <2>1. part' \in Content
    BY DEF FTypeOK, GroupTyped, Content, FullBody
  <2>2. spoiled' \in BOOLEAN
    BY DEF FullBody
  <2>3. QED
    BY <1>2, <2>1, <2>2 DEF FTypeOK
<1>4. GroupTyped'
  BY <1>2 DEF GroupTyped, group
<1>5. Quiet'
  BY <1>2 DEF Quiet, NoGroupOutside, OnePlace, NoDoubleFetch, Busy, TickerEndsByError, group
<1>6. InStep' /\ CopierInCall'
  BY <1>2 DEF InStep, InCall, CopierInCall
<1>7. main = "group" /\ Full /\ InCall /\ st.ver = remote /\ result = "none"
  BY InGroup, Indices DEF FullBody
<1>8. Shape'
  <2>1. Full'
    BY <1>1, <1>7, Numbers DEF Full, Absent, Junk
  <2>2. QED
    BY <1>2, <1>7, <2>1, FullStays
<1>9. Sound'
  <2>1. ASSUME ~spoiled', NEW c \in Chunks, part[c] = remote
        PROVE  part'[c] = remote
    BY <2>1 DEF FullBody
  <2>2. ~spoiled' => ~spoiled
    BY DEF FullBody
  <2>3. meta.complete \subseteq Chunks /\ st.complete \subseteq Chunks
    BY DEF FTypeOK, Meta
  <2>4. \A v \in Workers : pc[v] = "mark" => has[v] \in Chunks
    BY BusyChunk DEF Busy
  <2>5. UNCHANGED <<pc, has>>
    BY <1>2 DEF group
  <2>6. QED
    BY <1>2, <1>7, <2>1, <2>2, <2>3, <2>4, <2>5 DEF Sound, Arrived, ResumeSound, InCall
<1>10. MixedSuccessIsRight'
  BY <1>2, <1>7, NoSuccess
<1>11. QED
  BY <1>3, <1>4, <1>5, <1>6, <1>8, <1>9, <1>10 DEF Quiet

-----------------------------------------------------------------------------
(* The theorems                                                              *)

LEMMA InitMixedIInv == FInit => MixedIInv
<1> SUFFICES ASSUME FInit
             PROVE  MixedIInv
  OBVIOUS
<1>1. NoFile \in Content /\ NoMeta \in Meta /\ NoMeta.ver = 0 /\ NoMeta.complete = {}
  BY DEF NoFile, Content, NoMeta, Meta
<1>2. 1 \in Versions
  BY Constants DEF Versions
<1>3. FTypeOK
  <2>1. 1 \in 1 .. NChunks + 1
    BY Constants
  <2>2. FInit /\ part = NoFile /\ out = NoFile /\ meta = NoMeta /\ st = NoMeta /\ main = "idle" /\ result = "none"
    BY DEF FInit, Init
  <2>3. QED
    BY <1>1, <1>2, <2>1, <2>2 DEF FInit, FTypeOK
<1>4. GroupTyped
  BY <1>2, Constants DEF FInit, Init, GroupTyped
<1>5. NoGroupOutside /\ OnePlace /\ TickerEndsByError
  BY Indices DEF FInit, Init, NoGroupOutside, OnePlace, NoDoubleFetch, Busy, TickerEndsByError
<1>6. InStep /\ CopierInCall /\ MixedSuccessIsRight
  BY <1>1 DEF FInit, Init, InStep, InCall, CopierInCall, MixedSuccessIsRight
<1>7. Shape
  <2>1. Prefix(0)
    BY Indices DEF FInit, Init, Prefix, NoFile
  <2>2. QED
    BY <2>1, Constants DEF FInit, Init, Shape
<1>8. Sound
  BY <1>1, Indices DEF FInit, Init, Sound, InCall, ResumeSound
<1>9. QED
  BY <1>3, <1>4, <1>5, <1>6, <1>7, <1>8 DEF MixedIInv

LEMMA GoroutineKeeps ==
  ASSUME MixedIInv, NEW g \in Group, Seg(Goroutine(g))
  PROVE  MixedIInv'
<1>1. CASE g = Ticker /\ TickerStop
  BY <1>1, TickerStopKeeps DEF Seg
<1>2. CASE g = Producer /\ (ProducerEnds \/ ProducerStops \/ \E c \in Chunks : Produce(c))
  BY <1>2, ProducerEndsKeeps, ProducerStopsKeeps, ProduceKeeps DEF Seg
<1>3. CASE /\ g \in Workers
           /\ \/ ChannelClosed(g) \/ Mark(g)
              \/ \E c \in Chunks : Take(g, c) \/ TakeAfterEnd(g, c)
  BY <1>3, ChannelClosedKeeps, MarkKeeps, TakeKeeps, TakeAfterEndKeeps DEF Seg
<1>4. QED
  BY <1>1, <1>2, <1>3 DEF Seg, Goroutine

LEMMA StepKeepsMixedIInv == MixedIInv /\ [FNext]_allVars => MixedIInv'
<1> SUFFICES ASSUME MixedIInv, [FNext]_allVars
             PROVE  MixedIInv'
  OBVIOUS
<1>1. CASE FMain
  BY <1>1, FHeadKeeps, CorruptPartialKeeps, FOpenPartKeeps, FJoinKeeps, AlreadyCompleteKeeps,
     StartGroupKeeps, SpawnKeeps DEF FMain, Seg
<1>2. CASE Seg(Download \/ SetupFails \/ Cancel \/ TickerSave)
  BY <1>2, DownloadKeeps, SetupFailsKeeps, CancelKeeps, TickerSaveKeeps DEF Seg
<1>3. CASE Seg(main = "idle" /\ RemoteChanges)
  BY <1>3, RemoteChangesKeeps
<1>4. ASSUME NEW g \in Group, Seg(Goroutine(g))
      PROVE  MixedIInv'
  BY <1>4, GoroutineKeeps
<1>5. ASSUME NEW w \in Workers, FTransfer(w) \/ FullBody(w)
      PROVE  MixedIInv'
  BY <1>5, FetchFullKeeps, FullBodyKeeps, FetchKeeps, FetchFailsKeeps DEF FTransfer, Transfer, Seg
<1>6. CASE Single
  BY <1>6, HeadRefusedKeeps, NoRangesKeeps, ProbeKeeps, SingleFailsKeeps, ResumeKeeps, RestartKeeps,
     SingleDoneKeeps, SingleErrorKeeps, SingleCanceledKeeps DEF Single
<1>7. CASE SaveTick
  BY <1>7, SaveTickKeeps
<1>8. CASE Copier
  BY <1>8, CopyChunkKeeps, CopyEndsKeeps, CopyFailsKeeps DEF Copier
<1>9. CASE Die
  BY <1>9, DieKeeps
<1>10. CASE UNCHANGED allVars
  BY <1>10 DEF allVars, vars, disk, group, single, MixedIInv, FTypeOK, GroupTyped, NoGroupOutside,
     InStep, InCall, OnePlace, NoDoubleFetch, Busy, TickerEndsByError, CopierInCall, Shape, Full,
     Prefix, Sound, Arrived, ResumeSound, MixedSuccessIsRight
<1>11. QED
  BY <1>1, <1>2, <1>3, <1>4, <1>5, <1>6, <1>7, <1>8, <1>9, <1>10 DEF FNext

\* The two paths of Download leave each other a .part and metadata of which every
\* part of the invariant is true, whatever the order of calls, crashes and answers.
THEOREM MixedInductive == FSpec => []MixedIInv
BY InitMixedIInv, StepKeepsMixedIInv, PTL DEF FSpec

\* Files, metadata, copier and results keep their types.
THEOREM MixedTypeCorrect == FSpec => []FTypeOK
BY MixedInductive, PTL DEF MixedIInv

\* The metadata lists only what .part has, whichever path wrote last, unless an answer
\* of 200 has overwritten or truncated it.
THEOREM MixedResumption == FSpec => []MixedResumeSound
<1>1. MixedIInv => MixedResumeSound
  BY DEF MixedIInv, Sound, MixedResumeSound
<1>2. QED
  BY <1>1, MixedInductive, PTL

\* What ends as a success is a whole file, and the remote one if that stayed the same
\* since .part was begun: neither path finishes what only looks whole to it.
THEOREM MixedSuccessRight == FSpec => []MixedSuccessIsRight
BY MixedInductive, PTL DEF MixedIInv

-----------------------------------------------------------------------------
(* Both paths implement AtomicDownload                                       *)

\* The group's error, the copier's and the result are cancellations only if the
\* caller's context is done.
OnlyByCaller ==
  result = "canceled" \/ firstErr = "canceled" \/ copier = "canceled" => ctxDone

\* The first error of a group is a cancellation only if egCtx was cancelled by its parent.
LEMMA GroupOnlyByCaller ==
  ASSUME OnlyByCaller, UNCHANGED <<result, copier, ctxDone>>,
         firstErr' = firstErr \/ firstErr' = "error" \/ (EgDone /\ firstErr' = "canceled"),
         firstErr # "none" => firstErr' = firstErr
  PROVE  OnlyByCaller'
BY DEF OnlyByCaller, EgDone

LEMMA GoroutineOnlyByCaller ==
  ASSUME OnlyByCaller, NEW g \in Group, Seg(Goroutine(g))
  PROVE  OnlyByCaller'
<1>1. UNCHANGED <<result, copier, ctxDone>>
  BY DEF Seg, single, Goroutine, TickerStop, ProducerEnds, ProducerStops, Produce, ChannelClosed,
         Mark, Take, TakeAfterEnd
<1>2. \/ firstErr' = firstErr
      \/ EgDone /\ firstErr' = IF firstErr = "none" THEN "canceled" ELSE firstErr
  BY DEF Seg, Goroutine, TickerStop, ProducerEnds, ProducerStops, Produce, ChannelClosed, Mark, Take,
         TakeAfterEnd, Leave
<1>3. QED
  BY <1>1, <1>2, GroupOnlyByCaller

LEMMA TransferOnlyByCaller ==
  ASSUME OnlyByCaller, NEW w \in Workers, FTransfer(w) \/ FullBody(w)
  PROVE  OnlyByCaller'
<1>1. UNCHANGED <<result, copier, ctxDone>>
  BY DEF FTransfer, FetchFull, FullBody, Seg, single, Transfer, Fetch, FetchFails
<1>2. CASE FetchFull(w) \/ FullBody(w) \/ Fetch(w)
  BY <1>1, <1>2 DEF FetchFull, FullBody, Fetch, group, OnlyByCaller
<1>3. CASE FetchFails(w)
  <2>1. PICK err \in {"error"} \cup (IF EgDone THEN {"canceled"} ELSE {}) : Leave(w, err)
    BY <1>3 DEF FetchFails
  <2>2. err = "error" \/ (EgDone /\ err = "canceled")
    BY <2>1
  <2>3. firstErr' = IF firstErr = "none" THEN err ELSE firstErr
    BY <2>1 DEF Leave
  <2>4. QED
    BY <1>1, <2>2, <2>3, GroupOnlyByCaller
<1>4. QED
  BY <1>2, <1>3 DEF FTransfer, Seg, Transfer

LEMMA MainOnlyByCaller ==
  ASSUME MixedIInv, OnlyByCaller, FMain \/ Seg(Download \/ SetupFails \/ Cancel \/ TickerSave)
  PROVE  OnlyByCaller'
<1>1. CASE FHead \/ CorruptPartial \/ FOpenPart \/ Seg(StartGroup \/ Spawn \/ TickerSave \/ Cancel)
  BY <1>1 DEF FHead, Head, CorruptPartial, FOpenPart, OpenPart, Seg, StartGroup, Spawn,
     TickerSave, Cancel, group, single,
              OnlyByCaller
<1>2. CASE Seg(AlreadyComplete)
  BY <1>2 DEF Seg, AlreadyComplete, group, single, OnlyByCaller
<1>3. CASE FJoin
  <2>1. result' = firstErr /\ firstErr' = "none" /\ UNCHANGED <<copier, ctxDone>>
    BY <1>3, FJoinHasError DEF FJoin, Join, IdleGroup
  <2>2. QED
    BY <2>1 DEF OnlyByCaller
<1>4. CASE Seg(Download)
  <2>1. firstErr' = "none" /\ copier' = "none" /\ result' = "none"
    BY <1>4 DEF MixedIInv, NoGroupOutside, CopierInCall, FTypeOK, Seg, Download, group, single
  <2>2. QED
    BY <2>1 DEF OnlyByCaller
<1>5. CASE Seg(SetupFails)
  BY <1>5 DEF Seg, SetupFails, group, single, OnlyByCaller
<1>6. QED
  BY <1>1, <1>2, <1>3, <1>4, <1>5 DEF FMain, Seg

LEMMA SingleOnlyByCaller ==
  ASSUME OnlyByCaller, Single \/ SaveTick \/ Copier
  PROVE  OnlyByCaller'
<1>1. UNCHANGED <<firstErr, ctxDone>>
  BY DEF Single, HeadRefused, NoRanges, Probe, SingleFails, Resume, Restart, SingleDone, SingleError,
         SingleCanceled, SingleReturns, SaveTick, Copier, CopyChunk, CopyEnds, CopyFails, group
<1>2. result' = "canceled" => result = "canceled" \/ copier = "canceled" \/ ctxDone
  BY DEF Single, HeadRefused, NoRanges, Probe, SingleFails, Resume, Restart, SingleDone, SingleError,
         SingleCanceled, SingleReturns, SaveTick, Copier, CopyChunk, CopyEnds, CopyFails, Errors
<1>3. copier' = "canceled" => copier = "canceled" \/ ctxDone
  BY DEF Single, HeadRefused, NoRanges, Probe, SingleFails, Resume, Restart, SingleDone, SingleError,
         SingleCanceled, SingleReturns, SaveTick, Copier, CopyChunk, CopyEnds, CopyFails, Errors, single
<1>4. QED
  BY <1>1, <1>2, <1>3 DEF OnlyByCaller

LEMMA NextOnlyByCaller == MixedIInv /\ OnlyByCaller /\ [FNext]_allVars => OnlyByCaller'
<1> SUFFICES ASSUME MixedIInv, OnlyByCaller, [FNext]_allVars
             PROVE  OnlyByCaller'
  OBVIOUS
<1>1. CASE Seg(main = "idle" /\ RemoteChanges) \/ UNCHANGED allVars
  BY <1>1 DEF Seg, RemoteChanges, group, single, allVars, vars, OnlyByCaller
<1>2. CASE Die
  BY <1>2 DEF Die, Crash, IdleGroup, OnlyByCaller
<1>3. QED
  BY <1>1, <1>2, MainOnlyByCaller, GoroutineOnlyByCaller, TransferOnlyByCaller, SingleOnlyByCaller
     DEF FNext

\* The members of Contents, and the tuple of AtomicDownload's variables.
FullContent == [Chunks -> {Junk, 0} \cup Versions]
unspoiled == ~spoiled /\ finishes = 0 /\ (main = "copy" => begun = remote)
mixed == <<out, [c \in Chunks |-> remote], unspoiled, main # "idle", ctxDone, result>>

LEMMA FullIsContent ==
  ASSUME FTypeOK, Full
  PROVE  part \in FullContent
<1>1. part \in [Chunks -> {Absent, Junk, 0} \cup Versions]
  BY DEF FTypeOK, Content
<1>2. QED
  BY <1>1 DEF Full, FullContent

\* A step in a call that is seen from outside at most by what is kept: it discards
\* that, or gives it up as out of date.
LEMMA InsideMaps ==
  ASSUME MixedIInv, main # "idle", main' # "idle", UNCHANGED <<out, remote, ctxDone, result>>
  PROVE  Mixed!Next \/ UNCHANGED mixed
<1>1. [c \in Chunks |-> remote] \in FullContent
  BY DEF MixedIInv, GroupTyped, FullContent
<1>2. unspoiled' \in BOOLEAN
  BY DEF unspoiled
<1>3. CASE unspoiled' = TRUE
  BY <1>3 DEF Mixed!Next, Mixed!Discard, unspoiled
<1>4. CASE unspoiled' = FALSE
  BY <1>1, <1>4 DEF Mixed!Next, Mixed!TargetChanges, unspoiled, FullContent
<1>5. QED
  BY <1>2, <1>3, <1>4

\* A call that ends without a file.
LEMMA EndMaps ==
  ASSUME MixedIInv, main # "idle", main' = "idle", UNCHANGED <<out, remote, ctxDone>>,
         unspoiled => unspoiled',
         result' \in {"none", "error"} \/ (ctxDone /\ result' = "canceled")
  PROVE  Mixed!Next
<1>1. unspoiled' \in {unspoiled, TRUE}
  BY DEF unspoiled
<1>2. CASE result' = "none"
  BY <1>1, <1>2 DEF Mixed!Next, Mixed!Die, unspoiled
<1>3. CASE result' # "none"
  BY <1>1, <1>3 DEF Mixed!Next, Mixed!GiveUp, unspoiled
<1>4. QED
  BY <1>2, <1>3

\* The call's own steps: it discards what it does not trust, delivers, or gives up.
LEMMA FMainMaps ==
  ASSUME MixedIInv, OnlyByCaller, FMain
  PROVE  Mixed!Next \/ UNCHANGED mixed
<1>1. CASE FHead \/ FOpenPart \/ Seg(StartGroup \/ Spawn)
  <2>1. main # "idle" /\ main' # "idle" /\ UNCHANGED <<out, remote, ctxDone, result>>
    BY <1>1 DEF FHead, Head, FOpenPart, OpenPart, Seg, StartGroup, Spawn, disk
  <2>2. QED
    BY <2>1, InsideMaps
<1>2. CASE FJoin
  <2>1. /\ main = "group" /\ main' = "idle" /\ UNCHANGED <<out, remote, ctxDone, finishes>>
        /\ result' = firstErr /\ firstErr # "none"
    BY <1>2, FJoinHasError DEF FJoin, Join
  <2>2. unspoiled => unspoiled'
    BY <1>2, <2>1 DEF FJoin, unspoiled
  <2>3. result' = "error" \/ (ctxDone /\ result' = "canceled")
    BY <2>1 DEF MixedIInv, GroupTyped, OnlyByCaller
  <2>4. QED
    BY <2>1, <2>2, <2>3, EndMaps
<1>3. CASE Seg(AlreadyComplete)
  <2>1. /\ main = "plan" /\ main' = "idle" /\ InCall /\ st.complete = Chunks /\ out' = part
        /\ result' \in {"success", "error"} /\ UNCHANGED <<remote, ctxDone>>
    BY <1>3 DEF Seg, AlreadyComplete, InCall
  <2>2. part \in FullContent
    BY <2>1, FullIsContent DEF MixedIInv, Shape
  <2>3. unspoiled => part = [c \in Chunks |-> remote]
    <3>1. unspoiled => \A c \in Chunks : part[c] = remote
      BY <2>1 DEF MixedIInv, Sound, Arrived, InStep, unspoiled
    <3>2. part = [c \in Chunks |-> part[c]]
      BY DEF MixedIInv, FTypeOK, Content
    <3>3. QED
      BY <3>1, <3>2
  <2>4. QED
    BY <2>1, <2>2, <2>3 DEF Mixed!Next, Mixed!Deliver, unspoiled, FullContent
<1>4. CASE CorruptPartial
  <2>1. /\ main = "head" /\ main' = "idle" /\ UNCHANGED <<out, remote, ctxDone>>
        /\ finishes' = 0 /\ ~spoiled' /\ result' = "error"
    BY <1>4 DEF CorruptPartial
  <2>2. QED
    BY <2>1, EndMaps DEF unspoiled
<1>5. QED
  BY <1>1, <1>2, <1>3, <1>4 DEF FMain, Seg

\* Nothing the group does is seen from outside.
LEMMA FGroupMaps ==
  ASSUME MixedIInv, \/ Seg(TickerSave)
                    \/ \E g \in Group : Seg(Goroutine(g))
                    \/ \E w \in Workers : FTransfer(w) \/ FullBody(w)
  PROVE  Mixed!Next \/ UNCHANGED mixed
<1>1. main = "group"
  <2>1. \E g \in Group : pc[g] # "none"
    BY Indices DEF Seg, TickerSave, Goroutine, TickerStop, ProducerEnds, ProducerStops, Produce,
                   ChannelClosed, Mark, Take, TakeAfterEnd, Receives, FTransfer, FetchFull, FullBody,
                   Transfer, Fetch, FetchFails
  <2>2. QED
    BY <2>1, InGroup
<1>2. UNCHANGED <<main, out, remote, ctxDone, result>>
  BY DEF Seg, TickerSave, Goroutine, TickerStop, ProducerEnds, ProducerStops, Produce, ChannelClosed,
         Mark, Take, TakeAfterEnd, FTransfer, FetchFull, FullBody, Transfer, Fetch, FetchFails, disk
<1>3. QED
  BY <1>1, <1>2, InsideMaps

\* downloadSingle delivers only from its copier's end on.
LEMMA SingleMaps ==
  ASSUME MixedIInv, OnlyByCaller, Single
  PROVE  Mixed!Next \/ UNCHANGED mixed
<1>1. CASE HeadRefused \/ NoRanges \/ Probe \/ Resume \/ Restart
  <2>1. main # "idle" /\ main' # "idle" /\ UNCHANGED <<out, remote, ctxDone, result>>
    BY <1>1 DEF HeadRefused, NoRanges, Probe, Resume, Restart, disk
  <2>2. QED
    BY <2>1, InsideMaps
<1>2. CASE SingleFails \/ SingleError \/ SingleCanceled
  <2>1. main # "idle" /\ main' = "idle" /\ UNCHANGED <<out, remote, ctxDone, begun>>
    BY <1>2 DEF SingleFails, SingleError, SingleCanceled, SingleReturns
  <2>2. result' = "error" \/ (ctxDone /\ result' = "canceled")
    BY <1>2 DEF SingleFails, SingleError, SingleCanceled, SingleReturns, Errors, OnlyByCaller
  <2>3. unspoiled => unspoiled'
    <3>1. finishes = 0 /\ ~spoiled => finishes' = 0 /\ ~spoiled'
      BY <1>2 DEF SingleFails, SingleError, SingleCanceled, SaveUseless
    <3>2. QED
      BY <2>1, <3>1 DEF unspoiled
  <2>4. QED
    BY <2>1, <2>2, <2>3, EndMaps
<1>3. CASE SingleDone
  <2>1. /\ main = "copy" /\ main' = "idle" /\ UNCHANGED <<remote, ctxDone>>
        /\ finishes' = 0 /\ ~spoiled' /\ result' \in {"success", "error"}
    BY <1>3 DEF SingleDone, SingleReturns
  <2>2. CASE out' = out /\ result' = "error"
    <3>1. unspoiled'
      BY <2>1 DEF unspoiled
    <3>2. QED
      BY <2>1, <2>2, <3>1, EndMaps
  <2>3. CASE out' = part
    <3>1. \A c \in Chunks : part[c] \in begun .. remote
      <4>1. Prefix(NChunks)
        BY <1>3, Constants DEF MixedIInv, Shape, CopierInCall, SingleDone
      <4>2. QED
        BY <4>1, Indices DEF Prefix
    <3>2. part \in FullContent
      BY <3>1, Numbers, FullIsContent DEF MixedIInv, Full
    <3>3. unspoiled => part = [c \in Chunks |-> remote]
      <4>1. begun = remote => \A c \in Chunks : part[c] = remote
        BY <3>1, Numbers DEF MixedIInv
      <4>2. part = [c \in Chunks |-> part[c]]
        BY DEF MixedIInv, FTypeOK, Content
      <4>3. QED
        BY <2>1, <4>1, <4>2 DEF unspoiled
    <3>4. QED
      BY <2>1, <2>3, <3>2, <3>3 DEF Mixed!Next, Mixed!Deliver, unspoiled, FullContent
  <2>4. QED
    BY <1>3, <2>2, <2>3 DEF SingleDone, SingleReturns
<1>4. QED
  BY <1>1, <1>2, <1>3 DEF Single

\* Calls begin, fail early, are cancelled or die; the file changes on the server.
LEMMA CallMaps ==
  ASSUME MixedIInv, \/ Seg(Download \/ SetupFails \/ Cancel) \/ Seg(main = "idle" /\ RemoteChanges)
                    \/ SaveTick \/ Copier \/ Die
  PROVE  Mixed!Next \/ UNCHANGED mixed
<1>1. CASE Seg(Download)
  <2>1. /\ main = "idle" /\ main' = "head" /\ ctxDone' = FALSE /\ result' = "none"
        /\ UNCHANGED <<out, remote, finishes, spoiled>>
    BY <1>1 DEF Seg, Download, disk, single
  <2>2. unspoiled' \in {unspoiled, TRUE}
    BY <2>1 DEF unspoiled
  <2>3. QED
    BY <2>1, <2>2 DEF Mixed!Next, Mixed!Start, unspoiled
<1>2. CASE Seg(SetupFails)
  <2>1. /\ main # "idle" /\ main' = "idle" /\ main # "copy"
        /\ UNCHANGED <<out, remote, ctxDone, finishes, spoiled>>
        /\ result' = "error" \/ (ctxDone /\ result' = "canceled")
    BY <1>2 DEF Seg, SetupFails, disk, single
  <2>2. unspoiled => unspoiled'
    BY <2>1 DEF unspoiled
  <2>3. QED
    BY <2>1, <2>2, EndMaps
<1>3. CASE Seg(Cancel)
  <2>1. /\ main # "idle" /\ ctxDone' = TRUE
        /\ UNCHANGED <<out, remote, finishes, spoiled, begun, main, result>>
    BY <1>3 DEF Seg, Cancel, disk, single
  <2>2. QED
    BY <2>1 DEF Mixed!Next, Mixed!Cancel
<1>4. CASE Seg(main = "idle" /\ RemoteChanges)
  <2>1. /\ main = "idle" /\ UNCHANGED <<out, finishes, spoiled, main, ctxDone, result>>
    BY <1>4 DEF Seg, RemoteChanges, single
  <2>2. [c \in Chunks |-> remote'] \in FullContent
    BY <1>4, RemoteChangesKeeps DEF MixedIInv, GroupTyped, FullContent
  <2>3. unspoiled' \in {unspoiled, FALSE}
    BY <2>1 DEF unspoiled
  <2>4. QED
    BY <2>1, <2>2, <2>3 DEF Mixed!Next, Mixed!TargetChanges, unspoiled, FullContent
<1>5. CASE SaveTick \/ Copier
  <2>1. main = "copy" /\ UNCHANGED <<main, out, remote, ctxDone, result>>
    BY <1>5 DEF MixedIInv, CopierInCall, SaveTick, Copier, CopyChunk, CopyEnds, CopyFails, disk
  <2>2. QED
    BY <2>1, InsideMaps
<1>6. CASE Die
  <2>1. /\ main # "idle" /\ main' = "idle" /\ result' = "none"
        /\ UNCHANGED <<out, remote, ctxDone, finishes, spoiled>>
    BY <1>6 DEF Die, Crash, disk
  <2>2. unspoiled => unspoiled'
    BY <2>1 DEF unspoiled
  <2>3. QED
    BY <2>1, <2>2, EndMaps
<1>7. QED
  BY <1>1, <1>2, <1>3, <1>4, <1>5, <1>6 DEF Seg

\* Every step is one of AtomicDownload's or a stutter.
LEMMA FStepMaps == MixedIInv /\ OnlyByCaller /\ [FNext]_allVars => [Mixed!Next]_Mixed!vars
<1> SUFFICES ASSUME MixedIInv, OnlyByCaller, [FNext]_allVars
             PROVE  [Mixed!Next]_Mixed!vars
  OBVIOUS
<1>1. UNCHANGED mixed => UNCHANGED Mixed!vars
  BY DEF mixed, unspoiled, Mixed!vars
<1>2. CASE UNCHANGED allVars
  BY <1>1, <1>2 DEF allVars, vars, disk, single, mixed, unspoiled
<1>3. CASE FNext
  BY <1>1, <1>3, FMainMaps, FGroupMaps, SingleMaps, CallMaps DEF FNext, Seg
<1>4. QED
  BY <1>2, <1>3

\* Download as a whole is an atomic download: whichever path its calls take, OutputPath
\* is replaced in one step by a file of full length, and only a call its caller
\* cancelled ends as cancelled.
THEOREM DownloadIsAtomic == FSpec => ImplementsMixed
<1>1. FInit => OnlyByCaller
  BY DEF FInit, Init, OnlyByCaller
<1>2. FSpec => []OnlyByCaller
  BY <1>1, NextOnlyByCaller, MixedInductive, PTL DEF FSpec
<1>3. FInit => Mixed!Init
  <2>1. ASSUME FInit
        PROVE  [c \in Chunks |-> remote] \in FullContent
    BY <2>1, Constants DEF FInit, Init, FullContent, Versions
  <2>2. QED
    BY <2>1 DEF FInit, Init, Mixed!Init, FullContent
<1>4. QED
  BY <1>2, <1>3, FStepMaps, MixedInductive, PTL DEF FSpec, ImplementsMixed, Mixed!Spec
=============================================================================
