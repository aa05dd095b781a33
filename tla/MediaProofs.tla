------------------------------ MODULE MediaProofs ------------------------------
(***************************************************************************)
(* Which files a media job claims, for any number of jobs that share the   *)
(* directory, any items and any number of runs.                            *)
(***************************************************************************)
EXTENDS Media, TLAPS

\* yt-dlp has one of the two files of an item: the rename replaces the other.
OneOfBoth == \A i \in Items : dir[File(i)] # 0 => dir[Part(i)] = 0

\* Only a run that is over has a result, and a run has no file of its own before
\* yt-dlp is started.
OneRun ==
  \A j \in Jobs : /\ pc[j] # "idle" => result[j] = "none"
                  /\ pc[j] = "snapshot" => made[j] = {}
                  /\ pc[j] \in {"snapshot", "yt-dlp"} => claimed[j] = {} /\ reported[j] = {}

\* A finished file stays what it was when it appeared, so that a snapshot that has
\* it agrees with the directory.
FinishedStays ==
  \A i \in Items : /\ dir[File(i)] \in {0, 1}
                   /\ \A j \in Jobs : before[j][File(i)] # 0 => before[j][File(i)] = dir[File(i)]

\* What a run made is there, and was not when the run took its snapshot.
MadeIsNew ==
  \A j \in Jobs : pc[j] # "idle" => \A f \in made[j] :
    /\ dir[f] # 0 /\ before[j][f] = 0
    /\ \E i \in Wanted[j] : f = File(i)

\* A file that is there and differs from a run's snapshot was made or is being made
\* by that run, or others touched it while it ran.
Accounted ==
  \A j \in Jobs : \A f \in Present : dir[f] # before[j][f] =>
    /\ pc[j] = "snapshot" /\ f \notin todo[j] => f \in strangers[j]
    /\ pc[j] \in {"yt-dlp", "collect"} =>
         f \in made[j] \cup strangers[j] \cup {Part(i) : i \in found[j]}

\* The second walk: what was made is claimed or still to be visited, and what is
\* claimed is accounted for.
Collecting ==
  \A j \in Jobs : pc[j] = "collect" =>
    /\ made[j] \subseteq claimed[j] \cup todo[j]
    /\ claimed[j] \subseteq made[j] \cup reported[j] \cup strangers[j]

\* Items to fetch are among those behind the URL, and only while yt-dlp runs are
\* there any.
Fetching ==
  \A j \in Jobs : /\ found[j] \subseteq Wanted[j]
                  /\ found[j] # {} => pc[j] = "yt-dlp"

IInv ==
  /\ TypeOK
  /\ Fetching
  /\ OneOfBoth
  /\ OneRun
  /\ FinishedStays
  /\ MadeIsNew
  /\ Accounted
  /\ Collecting
  /\ OwnFilesClaimed
  /\ OthersOnlyIfConcurrent

-----------------------------------------------------------------------------

\* The names of files.
LEMMA FileFacts ==
  /\ \A i \in Items : Part(i) \in Files /\ File(i) \in Files
  /\ \A i, k \in Items : /\ Part(i) # File(k)
                         /\ Part(i) = Part(k) => i = k
                         /\ File(i) = File(k) => i = k
  /\ \A f \in Files : \E i \in Items : f = Part(i) \/ f = File(i)
  /\ \A j \in Jobs : Wanted[j] \subseteq Items
BY MediaAssumption DEF MediaAssumption, Files, Part, File

LEMMA Bounds == MaxRuns \in Nat /\ MaxSig \in Nat /\ 1 \in 0 .. MaxSig /\ 0 \in 0 .. MaxSig
BY MediaAssumption DEF MediaAssumption

LEMMA InitIInv == Init => IInv
<1> SUFFICES ASSUME Init PROVE IInv
  OBVIOUS
<1>1. TypeOK
  BY Bounds DEF Init, TypeOK, Empty
<1>2. OneOfBoth /\ FinishedStays
  BY FileFacts DEF Init, OneOfBoth, FinishedStays, Empty
<1>3. Fetching /\ OneRun /\ MadeIsNew /\ Accounted /\ Collecting
  BY DEF Init, Fetching, OneRun, MadeIsNew, Accounted, Collecting
<1>4. OwnFilesClaimed /\ OthersOnlyIfConcurrent
  BY DEF Init, OwnFilesClaimed, OthersOnlyIfConcurrent, Ended
<1>5. QED
  BY <1>1, <1>2, <1>3, <1>4 DEF IInv

LEMMA StartKeepsIInv ==
  ASSUME IInv, NEW k \in Jobs, Start(k)
  PROVE  IInv'
<1> USE DEF IInv
<1>1. TypeOK'
  <2>1. (dir \in [Files -> 0 .. MaxSig])'
        /\ (pc \in [Jobs -> {"idle", "snapshot", "yt-dlp", "collect"}])'
    BY FileFacts, Bounds DEF TypeOK, Present, Becomes, Start, progress
  <2>2. (todo \in [Jobs -> SUBSET Files])' /\ (reported \in [Jobs -> SUBSET Files])'
        /\ (claimed \in [Jobs -> SUBSET Files])' /\ (made \in [Jobs -> SUBSET Files])'
        /\ (strangers \in [Jobs -> SUBSET Files])'
    BY FileFacts, Bounds DEF TypeOK, Present, Becomes, Start, progress
  <2>3. (found \in [Jobs -> SUBSET Items])'
        /\ (result \in [Jobs -> {"none", "error", "canceled", "no files", "file", "directory"}])'
    BY FileFacts, Bounds DEF TypeOK, Present, Becomes, Start, progress
  <2>4. (runs \in [Jobs -> 0 .. MaxRuns])'
    <3>1. runs[k] \in 0 .. MaxRuns
      BY DEF TypeOK
    <3>2. runs[k] + 1 \in 0 .. MaxRuns
      <4>1. runs[k] < MaxRuns
        BY DEF Start
      <4>2. QED
        BY <3>1, <4>1, Bounds
    <3>3. QED
      BY <3>2 DEF TypeOK, Start
  <2>5. Empty \in [Files -> 0 .. MaxSig]
    BY Bounds DEF Empty
  <2>6. (before \in [Jobs -> [Files -> 0 .. MaxSig]])'
    BY <2>5 DEF TypeOK, Start
  <2>7. QED
    BY <2>1, <2>2, <2>3, <2>4, <2>6 DEF TypeOK
<1>2. OneOfBoth'
  BY FileFacts, Bounds DEF TypeOK, OneOfBoth, Present, Becomes, Start, progress
<1>3. OneRun'
  BY FileFacts, Bounds DEF TypeOK, OneRun, Present, Becomes, Start, progress
<1>4. FinishedStays'
  <2>1. dir' = dir
    BY DEF Start
  <2>2. \A j \in Jobs : before'[j] = before[j] \/ before'[j] = Empty
    BY DEF TypeOK, Start
  <2>3. \A i \in Items : Empty[File(i)] = 0
    BY FileFacts DEF Empty
  <2>4. QED
    BY <2>1, <2>2, <2>3 DEF FinishedStays
<1>5. MadeIsNew'
  BY FileFacts, Bounds DEF TypeOK, MadeIsNew, Present, Becomes, Start, progress
<1>6. Accounted'
  BY FileFacts, Bounds DEF TypeOK, Accounted, Present, Becomes, Start, progress
<1>7. Collecting'
  BY FileFacts, Bounds DEF TypeOK, Collecting, Present, Becomes, Start, progress
<1>8. OwnFilesClaimed'
  BY FileFacts, Bounds DEF TypeOK, OwnFilesClaimed, Ended, Present, Becomes, Start, progress
<1>9. OthersOnlyIfConcurrent'
  BY FileFacts, Bounds DEF TypeOK, OthersOnlyIfConcurrent, Ended, Present, Becomes, Start, progress
<1>10. Fetching'
  BY DEF TypeOK, Fetching, Becomes, Start, progress
<1>11. QED
  BY <1>1, <1>2, <1>3, <1>4, <1>5, <1>6, <1>7, <1>8, <1>9, <1>10

LEMMA NoteKeepsIInv ==
  ASSUME IInv, NEW k \in Jobs, NEW g \in Files, Note(k, g)
  PROVE  IInv'
<1> USE DEF IInv
<1>1. TypeOK'
  BY FileFacts, Bounds DEF TypeOK, Note, progress
<1>2. OneOfBoth'
  BY FileFacts, Bounds DEF TypeOK, OneOfBoth, Note, progress
<1>3. OneRun'
  BY FileFacts, Bounds DEF TypeOK, OneRun, Note, progress
<1>4. FinishedStays'
  BY FileFacts, Bounds DEF TypeOK, FinishedStays, Note, progress
<1>5. MadeIsNew'
  <2> SUFFICES ASSUME NEW j \in Jobs, pc[j] # "idle", NEW f \in made[j]
               PROVE  /\ dir[f] # 0 /\ before'[j][f] = 0
                      /\ \E i \in Wanted[j] : f = File(i)
    BY DEF MadeIsNew, Note, progress
  <2>1. j # k
    BY DEF OneRun, Note
  <2>2. before'[j] = before[j]
    BY <2>1 DEF TypeOK, Note
  <2>3. QED
    BY <2>2 DEF MadeIsNew
<1>6. Accounted'
  BY FileFacts, Bounds DEF TypeOK, Accounted, Present, Note, progress
<1>7. Collecting'
  BY FileFacts, Bounds DEF TypeOK, Collecting, Note, progress
<1>8. OwnFilesClaimed'
  BY FileFacts, Bounds DEF TypeOK, OwnFilesClaimed, Ended, Note, progress
<1>9. OthersOnlyIfConcurrent'
  BY FileFacts, Bounds DEF TypeOK, OthersOnlyIfConcurrent, Ended, Note, progress
<1>10. Fetching'
  BY DEF TypeOK, Fetching, Note, progress
<1>11. QED
  BY <1>1, <1>2, <1>3, <1>4, <1>5, <1>6, <1>7, <1>8, <1>9, <1>10

LEMMA RunYtDlpKeepsIInv ==
  ASSUME IInv, NEW k \in Jobs, RunYtDlp(k)
  PROVE  IInv'
<1> USE DEF IInv
<1> PICK items \in SUBSET Wanted[k] : found' = [found EXCEPT ![k] = items]
  BY DEF RunYtDlp
<1>1. TypeOK'
  <2>1. items \in SUBSET Items
    BY FileFacts
  <2>2. (found \in [Jobs -> SUBSET Items])'
    BY <2>1 DEF TypeOK
  <2>3. (pc \in [Jobs -> {"idle", "snapshot", "yt-dlp", "collect"}])'
    BY DEF TypeOK, Becomes, RunYtDlp
  <2>4. QED
    BY <2>2, <2>3 DEF TypeOK, RunYtDlp
<1>2. OneOfBoth'
  BY FileFacts, Bounds DEF TypeOK, OneOfBoth, Becomes, RunYtDlp, progress
<1>3. OneRun'
  BY FileFacts, Bounds DEF TypeOK, OneRun, Becomes, RunYtDlp, progress
<1>4. FinishedStays'
  BY FileFacts, Bounds DEF TypeOK, FinishedStays, Becomes, RunYtDlp, progress
<1>5. MadeIsNew'
  <2>1. \A j \in Jobs : pc'[j] # "idle" => pc[j] # "idle"
    BY DEF TypeOK, Becomes, RunYtDlp
  <2>2. QED
    BY <2>1 DEF MadeIsNew, RunYtDlp
<1>6. Accounted'
  BY FileFacts, Bounds DEF TypeOK, Accounted, Present, Becomes, RunYtDlp, progress
<1>7. Collecting'
  BY FileFacts, Bounds DEF TypeOK, Collecting, Becomes, RunYtDlp, progress
<1>8. OwnFilesClaimed'
  BY FileFacts, Bounds DEF TypeOK, OwnFilesClaimed, Ended, Becomes, RunYtDlp, progress
<1>9. OthersOnlyIfConcurrent'
  BY FileFacts, Bounds DEF TypeOK, OthersOnlyIfConcurrent, Ended, Becomes, RunYtDlp, progress
<1>10. Fetching'
  BY DEF TypeOK, Fetching, Becomes, RunYtDlp, progress
<1>11. QED
  BY <1>1, <1>2, <1>3, <1>4, <1>5, <1>6, <1>7, <1>8, <1>9, <1>10

LEMMA InstallFailsKeepsIInv ==
  ASSUME IInv, NEW k \in Jobs, InstallFails(k)
  PROVE  IInv'
<1> USE DEF IInv
<1>1. TypeOK'
  <2>1. (dir \in [Files -> 0 .. MaxSig])'
        /\ (pc \in [Jobs -> {"idle", "snapshot", "yt-dlp", "collect"}])'
        /\ (todo \in [Jobs -> SUBSET Files])' /\ (before \in [Jobs -> [Files -> 0 .. MaxSig]])'
        /\ (strangers \in [Jobs -> SUBSET Files])'
    BY FileFacts, Bounds DEF TypeOK, InstallFails, progress
  <2>2. (reported \in [Jobs -> SUBSET Files])' /\ (claimed \in [Jobs -> SUBSET Files])'
        /\ (made \in [Jobs -> SUBSET Files])'
    BY FileFacts, Bounds DEF TypeOK, InstallFails, progress
  <2>3. (found \in [Jobs -> SUBSET Items])'
        /\ (result \in [Jobs -> {"none", "error", "canceled", "no files", "file", "directory"}])'
    BY FileFacts, Bounds DEF TypeOK, InstallFails, progress
  <2>4. (runs \in [Jobs -> 0 .. MaxRuns])'
    <3>1. runs[k] \in 0 .. MaxRuns
      BY DEF TypeOK
    <3>2. runs[k] + 1 \in 0 .. MaxRuns
      <4>1. runs[k] < MaxRuns
        BY DEF InstallFails
      <4>2. QED
        BY <3>1, <4>1, Bounds
    <3>3. QED
      BY <3>2 DEF TypeOK, InstallFails
  <2>5. QED
    BY <2>1, <2>2, <2>3, <2>4 DEF TypeOK
<1>2. OneOfBoth'
  BY FileFacts, Bounds DEF TypeOK, OneOfBoth, InstallFails, progress
<1>3. OneRun'
  BY FileFacts, Bounds DEF TypeOK, OneRun, InstallFails, progress
<1>4. FinishedStays'
  BY FileFacts, Bounds DEF TypeOK, FinishedStays, InstallFails, progress
<1>5. MadeIsNew'
  BY FileFacts, Bounds DEF TypeOK, MadeIsNew, InstallFails, progress
<1>6. Accounted'
  BY FileFacts, Bounds DEF TypeOK, Accounted, Present, InstallFails, progress
<1>7. Collecting'
  BY FileFacts, Bounds DEF TypeOK, Collecting, InstallFails, progress
<1>8. OwnFilesClaimed'
  BY FileFacts, Bounds DEF TypeOK, OwnFilesClaimed, Ended, InstallFails, progress
<1>9. OthersOnlyIfConcurrent'
  BY FileFacts, Bounds DEF TypeOK, OthersOnlyIfConcurrent, Ended, InstallFails, progress
<1>10. Fetching'
  BY DEF TypeOK, Fetching, InstallFails, progress
<1>11. QED
  BY <1>1, <1>2, <1>3, <1>4, <1>5, <1>6, <1>7, <1>8, <1>9, <1>10

LEMMA FailsKeepsIInv ==
  ASSUME IInv, NEW k \in Jobs, Fails(k)
  PROVE  IInv'
<1> USE DEF IInv
<1>1. TypeOK'
  BY FileFacts, Bounds DEF TypeOK, Becomes, Fails, progress
<1>2. OneOfBoth'
  BY FileFacts, Bounds DEF TypeOK, OneOfBoth, Becomes, Fails, progress
<1>3. OneRun'
  BY FileFacts, Bounds DEF TypeOK, OneRun, Becomes, Fails, progress
<1>4. FinishedStays'
  BY FileFacts, Bounds DEF TypeOK, FinishedStays, Becomes, Fails, progress
<1>5. MadeIsNew'
  BY FileFacts, Bounds DEF TypeOK, MadeIsNew, Becomes, Fails, progress
<1>6. Accounted'
  BY FileFacts, Bounds DEF TypeOK, Accounted, Present, Becomes, Fails, progress
<1>7. Collecting'
  BY FileFacts, Bounds DEF TypeOK, Collecting, Becomes, Fails, progress
<1>8. OwnFilesClaimed'
  BY FileFacts, Bounds DEF TypeOK, OwnFilesClaimed, Ended, Becomes, Fails, progress
<1>9. OthersOnlyIfConcurrent'
  BY FileFacts, Bounds DEF TypeOK, OthersOnlyIfConcurrent, Ended, Becomes, Fails, progress
<1>10. Fetching'
  BY DEF TypeOK, Fetching, Becomes, Fails, progress
<1>11. QED
  BY <1>1, <1>2, <1>3, <1>4, <1>5, <1>6, <1>7, <1>8, <1>9, <1>10

LEMMA ExitsKeepsIInv ==
  ASSUME IInv, NEW k \in Jobs, Exits(k)
  PROVE  IInv'
<1> USE DEF IInv
<1>1. TypeOK'
  <2>1. (dir \in [Files -> 0 .. MaxSig])' /\ (before \in [Jobs -> [Files -> 0 .. MaxSig]])'
        /\ (found \in [Jobs -> SUBSET Items])'
        /\ (result \in [Jobs -> {"none", "error", "canceled", "no files", "file", "directory"}])'
        /\ (runs \in [Jobs -> 0 .. MaxRuns])' /\ (made \in [Jobs -> SUBSET Files])'
        /\ (strangers \in [Jobs -> SUBSET Files])'
    BY FileFacts, Bounds DEF TypeOK, Present, Becomes, Exits, progress
  <2>2. (pc \in [Jobs -> {"idle", "snapshot", "yt-dlp", "collect"}])'
    BY FileFacts, Bounds DEF TypeOK, Present, Becomes, Exits, progress
  <2>3. (todo \in [Jobs -> SUBSET Files])'
    BY FileFacts, Bounds DEF TypeOK, Present, Becomes, Exits, progress
  <2>4. PICK names \in SUBSET {File(i) : i \in found[k]} :
          reported' = [reported EXCEPT ![k] = names] /\ claimed' = [claimed EXCEPT ![k] = names]
    BY DEF Exits
  <2>5. names \in SUBSET Files
    <3>1. \A i \in found[k] : File(i) \in Files
      BY FileFacts DEF TypeOK
    <3>2. QED
      BY <3>1
  <2>6. (reported \in [Jobs -> SUBSET Files])' /\ (claimed \in [Jobs -> SUBSET Files])'
    BY <2>4, <2>5 DEF TypeOK
  <2>7. QED
    BY <2>1, <2>2, <2>3, <2>6 DEF TypeOK
<1>2. OneOfBoth'
  BY FileFacts, Bounds DEF TypeOK, OneOfBoth, Present, Becomes, Exits, progress
<1>3. OneRun'
  BY FileFacts, Bounds DEF TypeOK, OneRun, Present, Becomes, Exits, progress
<1>4. FinishedStays'
  BY FileFacts, Bounds DEF TypeOK, FinishedStays, Present, Becomes, Exits, progress
<1>5. MadeIsNew'
  <2>1. \A j \in Jobs : pc'[j] # "idle" => pc[j] # "idle"
    BY DEF TypeOK, Becomes, Exits
  <2>2. QED
    BY <2>1 DEF MadeIsNew, Exits
<1>6. Accounted'
  <2> SUFFICES ASSUME NEW j \in Jobs, NEW f \in Present, dir[f] # before[j][f]
               PROVE  /\ pc'[j] = "snapshot" /\ f \notin todo'[j] => f \in strangers[j]
                      /\ pc'[j] \in {"yt-dlp", "collect"} =>
                           f \in made[j] \cup strangers[j] \cup {Part(i) : i \in found'[j]}
    BY DEF Accounted, Present, Exits
  <2>1. CASE j # k
    <3>1. pc'[j] = pc[j] /\ todo'[j] = todo[j] /\ found'[j] = found[j]
      BY <2>1 DEF TypeOK, Becomes, Exits
    <3>2. QED
      BY <3>1 DEF Accounted
  <2>2. CASE j = k
    <3>1. f \in made[j] \cup strangers[j] \cup {Part(i) : i \in found[j]}
      BY <2>2 DEF Accounted, Exits
    <3>2. \A i \in found[k] : f # Part(i)
      <4>1. \A i \in found[k] : i \in Items /\ dir[File(i)] # 0
        BY DEF TypeOK, Present, Exits
      <4>2. \A i \in found[k] : dir[Part(i)] = 0
        BY <4>1 DEF OneOfBoth
      <4>3. QED
        BY <4>2 DEF Present
    <3>3. pc'[j] = "collect"
      BY <2>2 DEF TypeOK, Becomes, Exits
    <3>4. QED
      BY <2>2, <3>1, <3>2, <3>3
  <2>3. QED
    BY <2>1, <2>2
<1>7. Collecting'
  <2> SUFFICES ASSUME NEW j \in Jobs, pc'[j] = "collect"
               PROVE  /\ made[j] \subseteq claimed'[j] \cup todo'[j]
                      /\ claimed'[j] \subseteq made[j] \cup reported'[j] \cup strangers[j]
    BY DEF Collecting, Exits
  <2>1. CASE j # k
    <3>1. pc[j] = "collect" /\ claimed'[j] = claimed[j] /\ todo'[j] = todo[j] /\ reported'[j] = reported[j]
      BY <2>1 DEF TypeOK, Becomes, Exits
    <3>2. QED
      BY <3>1 DEF Collecting
  <2>2. CASE j = k
    <3>1. todo'[j] = Present
      BY <2>2 DEF TypeOK, Exits
    <3>2. claimed'[j] = reported'[j]
      BY <2>2 DEF TypeOK, Exits
    <3>3. made[j] \subseteq Present
      BY <2>2 DEF MadeIsNew, Present, TypeOK, Exits
    <3>4. QED
      BY <3>1, <3>2, <3>3
  <2>3. QED
    BY <2>1, <2>2
<1>8. OwnFilesClaimed'
  <2> SUFFICES ASSUME NEW j \in Jobs, Ended(j)' PROVE (made[j] \subseteq claimed[j])'
    BY DEF OwnFilesClaimed
  <2>1. j # k
    BY DEF TypeOK, OneRun, Ended, Exits
  <2>2. QED
    BY <2>1 DEF TypeOK, OwnFilesClaimed, Ended, Exits
<1>9. OthersOnlyIfConcurrent'
  BY FileFacts, Bounds DEF TypeOK, OthersOnlyIfConcurrent, Ended, Present, Becomes, Exits, progress
<1>10. Fetching'
  BY DEF TypeOK, Fetching, Becomes, Exits, progress
<1>11. QED
  BY <1>1, <1>2, <1>3, <1>4, <1>5, <1>6, <1>7, <1>8, <1>9, <1>10

LEMMA VisitKeepsIInv ==
  ASSUME IInv, NEW k \in Jobs, NEW g \in Files, Visit(k, g)
  PROVE  IInv'
<1> USE DEF IInv
<1>1. TypeOK'
  BY FileFacts, Bounds DEF TypeOK, Present, Visit, progress
<1>2. OneOfBoth'
  BY FileFacts, Bounds DEF TypeOK, OneOfBoth, Present, Visit, progress
<1>3. OneRun'
  BY FileFacts, Bounds DEF TypeOK, OneRun, Present, Visit, progress
<1>4. FinishedStays'
  BY FileFacts, Bounds DEF TypeOK, FinishedStays, Present, Visit, progress
<1>5. MadeIsNew'
  BY FileFacts, Bounds DEF TypeOK, MadeIsNew, Present, Visit, progress
<1>6. Accounted'
  BY FileFacts, Bounds DEF TypeOK, Accounted, Present, Visit, progress
<1>7. Collecting'
  <2> SUFFICES ASSUME NEW j \in Jobs, pc[j] = "collect"
               PROVE  /\ made[j] \subseteq claimed'[j] \cup todo'[j]
                      /\ claimed'[j] \subseteq made[j] \cup reported[j] \cup strangers[j]
    BY DEF Collecting, Visit
  <2>1. /\ made[j] \subseteq claimed[j] \cup todo[j]
        /\ claimed[j] \subseteq made[j] \cup reported[j] \cup strangers[j]
    BY DEF Collecting
  <2>2. CASE j # k
    BY <2>1, <2>2 DEF TypeOK, Visit
  <2>3. CASE j = k
    <3>1. todo'[j] = todo[j] \ {g}
      BY <2>3 DEF TypeOK, Visit
    <3>2. CASE g \in Present /\ dir[g] # before[j][g]
      <4>1. claimed'[j] = claimed[j] \cup {g}
        BY <2>3, <3>2 DEF TypeOK, Visit
      <4>2. g \in made[j] \cup strangers[j]
        BY <3>2 DEF Accounted, Fetching
      <4>3. QED
        BY <2>1, <3>1, <4>1, <4>2
    <3>3. CASE ~(g \in Present /\ dir[g] # before[j][g])
      <4>1. claimed'[j] = claimed[j]
        BY <2>3, <3>3 DEF TypeOK, Visit
      <4>2. g \notin made[j]
        BY <3>3 DEF MadeIsNew, Present
      <4>3. QED
        BY <2>1, <3>1, <4>1, <4>2
    <3>4. QED
      BY <3>2, <3>3
  <2>4. QED
    BY <2>2, <2>3
<1>8. OwnFilesClaimed'
  BY FileFacts, Bounds DEF TypeOK, OwnFilesClaimed, Ended, Present, Visit, progress
<1>9. OthersOnlyIfConcurrent'
  <2> SUFFICES ASSUME NEW j \in Jobs, Ended(j)'
               PROVE  (claimed[j] \subseteq made[j] \cup reported[j] \cup strangers[j])'
    BY DEF OthersOnlyIfConcurrent
  <2>1. j # k
    BY DEF TypeOK, OneRun, Ended, Visit
  <2>2. QED
    BY <2>1 DEF TypeOK, OthersOnlyIfConcurrent, Ended, Visit
<1>10. Fetching'
  BY DEF TypeOK, Fetching, Visit, progress
<1>11. QED
  BY <1>1, <1>2, <1>3, <1>4, <1>5, <1>6, <1>7, <1>8, <1>9, <1>10

LEMMA CollectedKeepsIInv ==
  ASSUME IInv, NEW k \in Jobs, Collected(k)
  PROVE  IInv'
<1> USE DEF IInv
<1>1. TypeOK'
  BY FileFacts, Bounds DEF TypeOK, Becomes, Collected, progress
<1>2. OneOfBoth'
  BY FileFacts, Bounds DEF TypeOK, OneOfBoth, Becomes, Collected, progress
<1>3. OneRun'
  BY FileFacts, Bounds DEF TypeOK, OneRun, Becomes, Collected, progress
<1>4. FinishedStays'
  BY FileFacts, Bounds DEF TypeOK, FinishedStays, Becomes, Collected, progress
<1>5. MadeIsNew'
  BY FileFacts, Bounds DEF TypeOK, MadeIsNew, Becomes, Collected, progress
<1>6. Accounted'
  BY FileFacts, Bounds DEF TypeOK, Accounted, Present, Becomes, Collected, progress
<1>7. Collecting'
  BY FileFacts, Bounds DEF TypeOK, Collecting, Becomes, Collected, progress
<1>8. OwnFilesClaimed'
  <2> SUFFICES ASSUME NEW j \in Jobs, Ended(j)' PROVE (made[j] \subseteq claimed[j])'
    BY DEF OwnFilesClaimed
  <2>1. CASE j = k
    BY <2>1 DEF TypeOK, Collecting, Collected
  <2>2. CASE j # k
    <3>1. Ended(j)
      BY <2>2 DEF TypeOK, Ended, Collected
    <3>2. QED
      BY <3>1 DEF OwnFilesClaimed, Collected
  <2>3. QED
    BY <2>1, <2>2
<1>9. OthersOnlyIfConcurrent'
  <2> SUFFICES ASSUME NEW j \in Jobs, Ended(j)' PROVE (claimed[j] \subseteq made[j] \cup reported[j] \cup strangers[j])'
    BY DEF OthersOnlyIfConcurrent
  <2>1. CASE j = k
    BY <2>1 DEF TypeOK, Collecting, Collected
  <2>2. CASE j # k
    <3>1. Ended(j)
      BY <2>2 DEF TypeOK, Ended, Collected
    <3>2. QED
      BY <3>1 DEF OthersOnlyIfConcurrent, Collected
  <2>3. QED
    BY <2>1, <2>2
<1>10. Fetching'
  BY DEF TypeOK, Fetching, Becomes, Collected, progress
<1>11. QED
  BY <1>1, <1>2, <1>3, <1>4, <1>5, <1>6, <1>7, <1>8, <1>9, <1>10

LEMMA WriteKeepsIInv ==
  ASSUME IInv, NEW k \in Jobs, NEW i \in Items, Write(k, i)
  PROVE  IInv'
<1> USE DEF IInv
<1>1. TypeOK'
  <2>1. (dir \in [Files -> 0 .. MaxSig])'
    <3>1. Part(i) \in Files /\ dir[Part(i)] \in 0 .. MaxSig
      BY FileFacts DEF TypeOK
    <3>2. dir[Part(i)] + 1 \in 0 .. MaxSig
      BY <3>1, Bounds DEF Write
    <3>3. QED
      BY <3>1, <3>2 DEF TypeOK, Write
  <2>2. (pc \in [Jobs -> {"idle", "snapshot", "yt-dlp", "collect"}])'
        /\ (todo \in [Jobs -> SUBSET Files])' /\ (before \in [Jobs -> [Files -> 0 .. MaxSig]])'
    BY FileFacts, Bounds DEF TypeOK, Present, Touched, Write, progress
  <2>3. (reported \in [Jobs -> SUBSET Files])' /\ (claimed \in [Jobs -> SUBSET Files])'
        /\ (found \in [Jobs -> SUBSET Items])'
        /\ (result \in [Jobs -> {"none", "error", "canceled", "no files", "file", "directory"}])'
        /\ (runs \in [Jobs -> 0 .. MaxRuns])' /\ (made \in [Jobs -> SUBSET Files])'
    BY FileFacts, Bounds DEF TypeOK, Present, Touched, Write, progress
  <2>4. (strangers \in [Jobs -> SUBSET Files])'
    <3>1. Part(i) \in Files
      BY FileFacts
    <3>2. \A j \in Jobs : strangers[j] \in SUBSET Files
      BY DEF TypeOK
    <3>3. strangers' = [j \in Jobs |-> IF j # k /\ pc[j] # "idle" THEN strangers[j] \cup {Part(i)}
                                                                  ELSE strangers[j]]
      BY DEF Touched, Write
    <3>4. QED
      BY <3>1, <3>2, <3>3
  <2>5. QED
    BY <2>1, <2>2, <2>3, <2>4 DEF TypeOK
<1>2. OneOfBoth'
  BY FileFacts, Bounds DEF TypeOK, OneOfBoth, Present, Touched, Write, progress
<1>3. OneRun'
  BY FileFacts, Bounds DEF TypeOK, OneRun, Present, Touched, Write, progress
<1>4. FinishedStays'
  BY FileFacts, Bounds DEF TypeOK, FinishedStays, Present, Touched, Write, progress
<1>5. MadeIsNew'
  <2> SUFFICES ASSUME NEW j \in Jobs, pc'[j] # "idle", NEW f \in made'[j]
               PROVE  /\ dir'[f] # 0 /\ before'[j][f] = 0
                      /\ \E n \in Wanted[j] : f = File(n)
    BY DEF MadeIsNew
  <2>1. dir[f] # 0 /\ before[j][f] = 0 /\ \E n \in Wanted[j] : f = File(n)
    BY DEF MadeIsNew, Write, progress
  <2>2. dir'[f] # 0
    BY <2>1, FileFacts DEF TypeOK, Write
  <2>3. QED
    BY <2>1, <2>2 DEF Write
<1>6. Accounted'
  BY FileFacts, Bounds DEF TypeOK, Accounted, Present, Touched, Write, progress
<1>7. Collecting'
  BY FileFacts, Bounds DEF TypeOK, Collecting, Present, Touched, Write, progress
<1>8. OwnFilesClaimed'
  BY FileFacts, Bounds DEF TypeOK, OwnFilesClaimed, Ended, Present, Touched, Write, progress
<1>9. OthersOnlyIfConcurrent'
  BY FileFacts, Bounds DEF TypeOK, OthersOnlyIfConcurrent, Ended, Present, Touched, Write, progress
<1>10. Fetching'
  BY DEF TypeOK, Fetching, Write, progress
<1>11. QED
  BY <1>1, <1>2, <1>3, <1>4, <1>5, <1>6, <1>7, <1>8, <1>9, <1>10

LEMMA RenameKeepsIInv ==
  ASSUME IInv, NEW k \in Jobs, NEW i \in Items, Rename(k, i)
  PROVE  IInv'
<1> USE DEF IInv
<1>1. TypeOK'
  <2>1. (dir \in [Files -> 0 .. MaxSig])'
    BY FileFacts, Bounds DEF TypeOK, Present, Touched, Rename, progress
  <2>2. (pc \in [Jobs -> {"idle", "snapshot", "yt-dlp", "collect"}])'
        /\ (todo \in [Jobs -> SUBSET Files])' /\ (before \in [Jobs -> [Files -> 0 .. MaxSig]])'
    BY FileFacts, Bounds DEF TypeOK, Present, Touched, Rename, progress
  <2>3. (reported \in [Jobs -> SUBSET Files])' /\ (claimed \in [Jobs -> SUBSET Files])'
        /\ (found \in [Jobs -> SUBSET Items])'
        /\ (result \in [Jobs -> {"none", "error", "canceled", "no files", "file", "directory"}])'
        /\ (runs \in [Jobs -> 0 .. MaxRuns])'
    BY FileFacts, Bounds DEF TypeOK, Present, Touched, Rename, progress
  <2>4. (made \in [Jobs -> SUBSET Files])'
    <3>1. made' = [made EXCEPT ![k] = made[k] \cup {File(i)}] /\ made \in [Jobs -> SUBSET Files]
      BY DEF TypeOK, Rename
    <3>2. made[k] \cup {File(i)} \in SUBSET Files
      BY <3>1, FileFacts
    <3>3. QED
      BY <3>1, <3>2
  <2>5. (strangers \in [Jobs -> SUBSET Files])'
    <3>1. File(i) \in Files
      BY FileFacts
    <3>2. \A j \in Jobs : strangers[j] \in SUBSET Files
      BY DEF TypeOK
    <3>3. strangers' = [j \in Jobs |-> IF j # k /\ pc[j] # "idle" THEN strangers[j] \cup {File(i)}
                                                                  ELSE strangers[j]]
      BY DEF Touched, Rename
    <3>4. QED
      BY <3>1, <3>2, <3>3
  <2>6. QED
    BY <2>1, <2>2, <2>3, <2>4, <2>5 DEF TypeOK
<1>2. OneOfBoth'
  BY FileFacts, Bounds DEF TypeOK, OneOfBoth, Present, Touched, Rename, progress
<1>3. OneRun'
  BY FileFacts, Bounds DEF TypeOK, OneRun, Present, Touched, Rename, progress
<1>4. FinishedStays'
  BY FileFacts, Bounds DEF TypeOK, FinishedStays, Present, Touched, Rename, progress
<1>5. MadeIsNew'
  <2> SUFFICES ASSUME NEW j \in Jobs, pc'[j] # "idle", NEW f \in made'[j]
               PROVE  /\ dir'[f] # 0 /\ before'[j][f] = 0
                      /\ \E n \in Wanted[j] : f = File(n)
    BY DEF MadeIsNew
  <2>1. CASE f \in made[j]
    <3>1. dir[f] # 0 /\ before[j][f] = 0 /\ \E n \in Wanted[j] : f = File(n)
      BY <2>1 DEF MadeIsNew, Rename
    <3>2. dir'[f] # 0
      <4>1. PICK n \in Items : f = File(n)
        BY <3>1, FileFacts
      <4>2. f # Part(i) /\ f \in Files
        BY <4>1, FileFacts
      <4>3. dir' = [[dir EXCEPT ![Part(i)] = 0] EXCEPT ![File(i)] = 1]
        BY DEF Rename
      <4>4. QED
        <5>1. File(i) \in Files /\ Part(i) \in Files /\ dir \in [Files -> 0 .. MaxSig]
          BY FileFacts DEF TypeOK
        <5>2. [dir EXCEPT ![Part(i)] = 0] \in [Files -> 0 .. MaxSig]
          BY <5>1, Bounds
        <5>3. dir'[f] = IF f = File(i) THEN 1 ELSE dir[f]
          BY <4>2, <4>3, <5>1, <5>2
        <5>4. QED
          BY <3>1, <5>3
    <3>3. QED
      BY <3>1, <3>2 DEF Rename
  <2>2. CASE f \notin made[j]
    <3>1. j = k /\ f = File(i)
      BY <2>2 DEF TypeOK, Rename
    <3>2. dir[f] = 0
      BY <3>1, FileFacts DEF Present, Rename
    <3>3. before[j][f] = 0
      BY <3>1, <3>2 DEF FinishedStays
    <3>4. dir'[f] # 0
      <4>1. dir' = [[dir EXCEPT ![Part(i)] = 0] EXCEPT ![File(i)] = 1]
        BY DEF Rename
      <4>2. QED
        <5>1. File(i) \in Files /\ Part(i) \in Files /\ dir \in [Files -> 0 .. MaxSig]
          BY FileFacts DEF TypeOK
        <5>2. [dir EXCEPT ![Part(i)] = 0] \in [Files -> 0 .. MaxSig]
          BY <5>1, Bounds
        <5>3. dir'[f] = 1
          BY <3>1, <4>1, <5>1, <5>2
        <5>4. QED
          BY <5>3
    <3>5. i \in Wanted[j]
      BY <3>1 DEF Fetching, Rename
    <3>6. QED
      BY <3>1, <3>3, <3>4, <3>5 DEF Rename
  <2>3. QED
    BY <2>1, <2>2
<1>6. Accounted'
  BY FileFacts, Bounds DEF TypeOK, Accounted, Present, Touched, Rename, progress
<1>7. Collecting'
  BY FileFacts, Bounds DEF TypeOK, Collecting, Present, Touched, Rename, progress
<1>8. OwnFilesClaimed'
  <2> SUFFICES ASSUME NEW j \in Jobs, Ended(j)' PROVE (made[j] \subseteq claimed[j])'
    BY DEF OwnFilesClaimed
  <2>1. j # k
    BY DEF TypeOK, OneRun, Ended, Rename, progress
  <2>2. QED
    BY <2>1 DEF TypeOK, OwnFilesClaimed, Ended, Rename, progress
<1>9. OthersOnlyIfConcurrent'
  BY FileFacts, Bounds DEF TypeOK, OthersOnlyIfConcurrent, Ended, Present, Touched, Rename, progress
<1>10. Fetching'
  BY DEF TypeOK, Fetching, Rename, progress
<1>11. QED
  BY <1>1, <1>2, <1>3, <1>4, <1>5, <1>6, <1>7, <1>8, <1>9, <1>10

LEMMA StepKeepsIInv == IInv /\ [Next]_vars => IInv'
<1> SUFFICES ASSUME IInv, [Next]_vars PROVE IInv'
  OBVIOUS
<1>1. CASE UNCHANGED vars
  <2>1. TypeOK' /\ Fetching' /\ OneOfBoth' /\ OneRun' /\ FinishedStays'
    BY <1>1 DEF vars, progress, IInv, TypeOK, Fetching, OneOfBoth, OneRun, FinishedStays
  <2>2. MadeIsNew'
    BY <1>1 DEF vars, progress, IInv, MadeIsNew
  <2>3. Accounted' /\ Collecting'
    BY <1>1 DEF vars, progress, IInv, Accounted, Present, Collecting
  <2>4. OwnFilesClaimed' /\ OthersOnlyIfConcurrent'
    BY <1>1 DEF vars, progress, IInv, OwnFilesClaimed, OthersOnlyIfConcurrent, Ended
  <2>5. QED
    BY <2>1, <2>2, <2>3, <2>4 DEF IInv
<1>2. ASSUME NEW k \in Jobs,
             Start(k) \/ InstallFails(k) \/ RunYtDlp(k) \/ Fails(k) \/ Exits(k) \/ Collected(k)
      PROVE  IInv'
  BY <1>2, StartKeepsIInv, InstallFailsKeepsIInv, RunYtDlpKeepsIInv, FailsKeepsIInv,
    ExitsKeepsIInv, CollectedKeepsIInv
<1>3. ASSUME NEW k \in Jobs, NEW g \in Files, Note(k, g) \/ Visit(k, g)
      PROVE  IInv'
  BY <1>3, NoteKeepsIInv, VisitKeepsIInv
<1>4. ASSUME NEW k \in Jobs, NEW i \in Items, Write(k, i) \/ Rename(k, i)
      PROVE  IInv'
  BY <1>4, WriteKeepsIInv, RenameKeepsIInv
<1>5. QED
  BY <1>1, <1>2, <1>3, <1>4 DEF Next

-----------------------------------------------------------------------------

\* The inductive invariant of Media.
THEOREM Inductive == Spec => []IInv
BY InitIInv, StepKeepsIInv, PTL DEF Spec

\* The directory, the snapshots and the runs keep their types.
THEOREM TypeCorrect == Spec => []TypeOK
BY Inductive, PTL DEF IInv

\* However runs overlap, one that yt-dlp ended well claims each file it has put in
\* place.
THEOREM OwnClaimed == Spec => []OwnFilesClaimed
BY Inductive, PTL DEF IInv

\* What it claims of others' files was reported by its own yt-dlp or was touched
\* while it ran.
THEOREM OthersConcurrent == Spec => []OthersOnlyIfConcurrent
BY Inductive, PTL DEF IInv

=============================================================================
