---------------------------------- MODULE Media ----------------------------------
(***************************************************************************)
(* MediaEngine.Run (internal/engine/media_engine.go): every media job lets *)
(* yt-dlp write into one shared directory and finds out afterwards what it *)
(* got, from the names yt-dlp reports and from what has changed since a    *)
(* snapshot it took before. Jobs run concurrently, neither walk of the     *)
(* directory is atomic, and a job that failed may be run again.            *)
(***************************************************************************)
EXTENDS Naturals, FiniteSets

CONSTANTS
  Jobs,    \* media jobs
  Items,   \* media items
  Wanted,  \* the items behind the URL of each job
  MaxRuns, \* bound: runs of a job
  MaxSig   \* bound: writes of a file

ASSUME MediaAssumption ==
  /\ IsFiniteSet(Items)
  /\ Wanted \in [Jobs -> SUBSET Items]
  /\ MaxRuns \in Nat /\ MaxSig \in Nat \ {0}

VARIABLES
  dir,       \* the directory: size and time of each file as a number, 0 without file
  pc,        \* of each job: "idle", "snapshot", "yt-dlp", "collect"
  todo,      \* entries its WalkDir has listed and not visited
  before,    \* its snapshot
  found,     \* items its yt-dlp finds and has to fetch
  reported,  \* names in yt-dlp's output that exist
  claimed,   \* collectDownloadedFiles' seen
  result,    \* of its last run
  runs,
  made,      \* history: files its run has put in place
  strangers  \* history: files that other runs wrote while it ran

progress == <<found, reported, claimed, result, runs, made>>
vars == <<dir, pc, todo, before, progress, strangers>>

\* yt-dlp writes an item to a .part file and renames it when it is complete.
Part(i) == <<i, "part">>
File(i) == <<i, "file">>
Files == Items \X {"part", "file"}

Present == {f \in Files : dir[f] # 0}
Empty == [f \in Files |-> 0]

Init ==
  /\ dir = Empty
  /\ pc = [j \in Jobs |-> "idle"]
  /\ todo = [j \in Jobs |-> {}]
  /\ before = [j \in Jobs |-> Empty]
  /\ found = [j \in Jobs |-> {}]
  /\ reported = [j \in Jobs |-> {}]
  /\ claimed = [j \in Jobs |-> {}]
  /\ result = [j \in Jobs |-> "none"]
  /\ runs = [j \in Jobs |-> 0]
  /\ made = [j \in Jobs |-> {}]
  /\ strangers = [j \in Jobs |-> {}]

Becomes(j, state) == pc' = [pc EXCEPT ![j] = state]

-----------------------------------------------------------------------------
(* Run                                                                       *)

\* yt-dlp is there, WalkDir lists the directory.
Start(j) ==
  /\ pc[j] = "idle"
  /\ runs[j] < MaxRuns
  /\ result[j] \in {"none", "error", "canceled", "no files"}
  /\ Becomes(j, "snapshot")
  /\ todo' = [todo EXCEPT ![j] = Present]
  /\ before' = [before EXCEPT ![j] = Empty]
  /\ reported' = [reported EXCEPT ![j] = {}]
  /\ claimed' = [claimed EXCEPT ![j] = {}]
  /\ result' = [result EXCEPT ![j] = "none"]
  /\ runs' = [runs EXCEPT ![j] = @ + 1]
  /\ made' = [made EXCEPT ![j] = {}]
  /\ strangers' = [strangers EXCEPT ![j] = {}]
  /\ UNCHANGED <<dir, found>>

\* snapshotMediaFiles: an entry that has gone meanwhile is left out.
Note(j, f) ==
  /\ pc[j] = "snapshot"
  /\ f \in todo[j]
  /\ before' = [before EXCEPT ![j][f] = dir[f]]
  /\ todo' = [todo EXCEPT ![j] = @ \ {f}]
  /\ UNCHANGED <<dir, pc, progress, strangers>>

\* What is behind the URL need not be there for yt-dlp to see, not even one item.
RunYtDlp(j) ==
  /\ pc[j] = "snapshot"
  /\ todo[j] = {}
  /\ Becomes(j, "yt-dlp")
  /\ \E items \in SUBSET Wanted[j] : found' = [found EXCEPT ![j] = items]
  /\ UNCHANGED <<dir, todo, before, reported, claimed, result, runs, made, strangers>>

\* yt-dlp cannot be installed, or the directory cannot be made.
InstallFails(j) ==
  /\ pc[j] = "idle"
  /\ runs[j] < MaxRuns
  /\ result[j] \in {"none", "error", "canceled", "no files"}
  /\ result' = [result EXCEPT ![j] = "error"]
  /\ runs' = [runs EXCEPT ![j] = @ + 1]
  /\ claimed' = [claimed EXCEPT ![j] = {}]
  /\ made' = [made EXCEPT ![j] = {}]
  /\ reported' = [reported EXCEPT ![j] = {}]
  /\ UNCHANGED <<dir, pc, todo, before, found, strangers>>

\* yt-dlp ends with an error, also because it is killed. What it wrote stays.
Fails(j) ==
  /\ pc[j] = "yt-dlp"
  /\ Becomes(j, "idle")
  /\ \E r \in {"error", "canceled"} : result' = [result EXCEPT ![j] = r]
  /\ found' = [found EXCEPT ![j] = {}]
  /\ UNCHANGED <<dir, todo, before, reported, claimed, runs, made, strangers>>

\* Mutant of Exits: the snapshot is taken when yt-dlp has ended.
ExitsThenSnapshot(j) ==
  /\ pc[j] = "yt-dlp"
  /\ \A i \in found[j] : File(i) \in Present
  /\ Becomes(j, "collect")
  /\ before' = [before EXCEPT ![j] = dir]
  /\ \E names \in SUBSET {File(i) : i \in found[j]} :
       /\ reported' = [reported EXCEPT ![j] = names]
       /\ claimed' = [claimed EXCEPT ![j] = names]
  /\ todo' = [todo EXCEPT ![j] = Present]
  /\ found' = [found EXCEPT ![j] = {}]
  /\ UNCHANGED <<dir, result, runs, made, strangers>>

\* yt-dlp ends without an error: every item it has found is there. The names it
\* printed, or none if they cannot be parsed, are the first to be claimed; then
\* WalkDir lists again.
Exits(j) ==
  /\ pc[j] = "yt-dlp"
  /\ \A i \in found[j] : File(i) \in Present
  /\ Becomes(j, "collect")
  /\ \E names \in SUBSET {File(i) : i \in found[j]} :
       /\ reported' = [reported EXCEPT ![j] = names]
       /\ claimed' = [claimed EXCEPT ![j] = names]
  /\ todo' = [todo EXCEPT ![j] = Present]
  /\ found' = [found EXCEPT ![j] = {}]
  /\ UNCHANGED <<dir, before, result, runs, made, strangers>>

\* Mutant of Visit: the snapshot is keyed by names that never match.
VisitClaimsAll(j, f) ==
  /\ pc[j] = "collect"
  /\ f \in todo[j]
  /\ claimed' = [claimed EXCEPT ![j] = IF f \in Present THEN @ \cup {f} ELSE @]
  /\ todo' = [todo EXCEPT ![j] = @ \ {f}]
  /\ UNCHANGED <<dir, pc, before, found, reported, result, runs, made, strangers>>

\* A file that is still there and differs from the snapshot is taken for its own.
Visit(j, f) ==
  /\ pc[j] = "collect"
  /\ f \in todo[j]
  /\ claimed' = [claimed EXCEPT
                   ![j] = IF f \in Present /\ dir[f] # before[j][f] THEN @ \cup {f} ELSE @]
  /\ todo' = [todo EXCEPT ![j] = @ \ {f}]
  /\ UNCHANGED <<dir, pc, before, found, reported, result, runs, made, strangers>>

\* The job's OutputPath is its file, or the directory if it has several; without
\* any it is a retryable error.
Collected(j) ==
  /\ pc[j] = "collect"
  /\ todo[j] = {}
  /\ Becomes(j, "idle")
  /\ result' = [result EXCEPT ![j] = CASE claimed[j] = {} -> "no files"
                                       [] Cardinality(claimed[j]) = 1 -> "file"
                                       [] OTHER -> "directory"]
  /\ UNCHANGED <<dir, todo, before, found, reported, claimed, runs, made, strangers>>

-----------------------------------------------------------------------------
(* yt-dlp                                                                    *)

\* The other runs of this moment see j touch f.
Touched(j, f) ==
  strangers' = [k \in Jobs |-> IF k # j /\ pc[k] # "idle" THEN strangers[k] \cup {f}
                                                         ELSE strangers[k]]

\* Mutant of Write: --force-overwrites, what is there is fetched again.
WriteUnbounded(j, i) ==
  /\ pc[j] = "yt-dlp"
  /\ i \in found[j]
  /\ dir' = [dir EXCEPT ![Part(i)] = @ + 1]
  /\ Touched(j, Part(i))
  /\ UNCHANGED <<pc, todo, before, progress>>

\* --continue, --no-overwrites: an item that is there is left alone.
Write(j, i) ==
  /\ pc[j] = "yt-dlp"
  /\ i \in found[j] /\ File(i) \notin Present
  /\ dir[Part(i)] < MaxSig
  /\ dir' = [dir EXCEPT ![Part(i)] = @ + 1]
  /\ Touched(j, Part(i))
  /\ UNCHANGED <<pc, todo, before, progress>>

Rename(j, i) ==
  /\ pc[j] = "yt-dlp"
  /\ i \in found[j] /\ File(i) \notin Present /\ Part(i) \in Present
  /\ dir' = [dir EXCEPT ![Part(i)] = 0, ![File(i)] = 1]
  /\ made' = [made EXCEPT ![j] = @ \cup {File(i)}]
  /\ Touched(j, File(i))
  /\ UNCHANGED <<pc, todo, before, found, reported, claimed, result, runs>>

Next ==
  \E j \in Jobs :
    \/ Start(j) \/ InstallFails(j) \/ RunYtDlp(j) \/ Fails(j) \/ Exits(j) \/ Collected(j)
    \/ \E f \in Files : Note(j, f) \/ Visit(j, f)
    \/ \E i \in Items : Write(j, i) \/ Rename(j, i)

Spec == Init /\ [][Next]_vars

-----------------------------------------------------------------------------
(* Properties                                                                *)

TypeOK ==
  /\ dir \in [Files -> 0 .. MaxSig]
  /\ pc \in [Jobs -> {"idle", "snapshot", "yt-dlp", "collect"}]
  /\ todo \in [Jobs -> SUBSET Files]
  /\ before \in [Jobs -> [Files -> 0 .. MaxSig]]
  /\ found \in [Jobs -> SUBSET Items]
  /\ reported \in [Jobs -> SUBSET Files] /\ claimed \in [Jobs -> SUBSET Files]
  /\ result \in [Jobs -> {"none", "error", "canceled", "no files", "file", "directory"}]
  /\ runs \in [Jobs -> 0 .. MaxRuns]
  /\ made \in [Jobs -> SUBSET Files] /\ strangers \in [Jobs -> SUBSET Files]

Ended(j) == result[j] \in {"no files", "file", "directory"}

\* A run that yt-dlp ended well claims every file it has put in place, whatever
\* other runs do to the directory during its two walks, and whether or not
\* yt-dlp's output could be parsed.
OwnFilesClaimed ==
  \A j \in Jobs : Ended(j) => made[j] \subseteq claimed[j]

\* What else it claims was there when yt-dlp reported it or was written by a run
\* that was at work at the same time: never a file of a run before or after, nor
\* what an earlier run of its own left behind. A job that runs alone therefore
\* has exactly its own files, and is a success if and only if there are any.
OthersOnlyIfConcurrent ==
  \A j \in Jobs : Ended(j) =>
    claimed[j] \subseteq made[j] \cup reported[j] \cup strangers[j]

=============================================================================
