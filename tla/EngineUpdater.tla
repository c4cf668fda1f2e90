---------------------------- MODULE EngineUpdater ----------------------------
(***************************************************************************)
(* The updates of the llama.cpp engine: win/electron/engineUpdater.cjs,    *)
(* which stages a newer build beside the engine, swaps folders at the next *)
(* launch, and confirms the build or goes back at its first load.          *)
(*                                                                         *)
(* The folders survive the program.  A swap runs without an await, so only *)
(* the program's end comes between two of its steps; a background check    *)
(* has awaits, at which models load, fail and are rolled back.             *)
(***************************************************************************)
EXTENDS Integers

CONSTANTS
  MaxBuild,   \* the newest build of a behaviour (a bound); builds are 1 .. MaxBuild
  Bad,        \* the builds on which no model loads on this machine
  MayCrash,   \* whether the program may end between any two steps
  MayLock     \* whether a rename may fail on a locked file

Build == 1 .. MaxBuild

ASSUME BuildAssumption == MaxBuild \in Nat /\ Bad \subseteq Build
ASSUME FailureAssumption == MayCrash \in BOOLEAN /\ MayLock \in BOOLEAN

VARIABLES
  llamaDir, pending, previous, failedDir,   \* what the four folders hold
  step,         \* where the program is in a swap; "rest" in none, "off" not running
  check,        \* the background check
  newest,       \* the newest release that has settled
  unfinished    \* history: the last swap was not finished, or found no engine to keep

folders == <<llamaDir, pending, previous, failedDir>>
updaterVars == <<folders, step, check, newest, unfinished>>

(* A folder: the build in it, what its engine.json says (tag, failedTags,  *)
(* unconfirmed), and, as history, whether a model ever loaded on it.       *)
Folder == [build : Build, tag : Build \cup {0}, failedTags : SUBSET Build,
           unconfirmed : BOOLEAN, how : {"installed", "staged", "proven"}]
NoFolder == [build |-> 0, tag |-> 0, failedTags |-> {}, unconfirmed |-> FALSE, how |-> "installed"]

Exists(f) == f.build # 0

NoCheck == [at |-> "idle", tag |-> 0, failedTags |-> {}, unconfirmed |-> FALSE, release |-> 0]

Swap == {"clear", "aside", "in", "restore", "note", "drop",
         "back-aside", "back-in", "back-restore", "back-note"}

(* Only the engine in use is ever marked unconfirmed.                      *)
UpdaterTypeOK ==
  /\ llamaDir \in Folder \cup {NoFolder}
  /\ previous \in Folder \cup {NoFolder}
  /\ failedDir \in Folder \cup {NoFolder}
  /\ pending \in {f \in Folder : f.how = "staged" /\ ~f.unconfirmed} \cup {NoFolder}
  /\ step \in Swap \cup {"off", "rest"}
  /\ check \in [at : {"idle", "fetching", "downloading"}, tag : Build \cup {0},
                failedTags : SUBSET Build, unconfirmed : BOOLEAN, release : Build \cup {0}]
  /\ check.at = "downloading" => check.release # 0
  /\ newest \in Build
  /\ unfinished \in BOOLEAN

(* The engine that was installed works; its build may be unknown to        *)
(* engine.json, as for an adopted one.                                     *)
UpdaterInit ==
  /\ newest \in Build /\ newest \notin Bad
  /\ \E tag \in {0, newest} :
        llamaDir = [NoFolder EXCEPT !.build = newest, !.tag = tag, !.how = "proven"]
  /\ pending = NoFolder /\ previous = NoFolder /\ failedDir = NoFolder
  /\ step = "off" /\ check = NoCheck /\ unfinished = FALSE

-----------------------------------------------------------------------------
(* applyPendingEngine, step by step.  A locked file ends it early.         *)
Elsewhere == UNCHANGED <<check, newest>>

(* Faulty variants of definitions below, see ParallelCalls.                *)
LaunchAlways ==
  /\ step = "off"
  /\ step' = "clear"
  /\ UNCHANGED <<folders, unfinished>> /\ Elsewhere

Launch ==
  /\ step = "off"
  /\ step' = IF Exists(pending) THEN "clear" ELSE "rest"
  /\ UNCHANGED <<folders, unfinished>> /\ Elsewhere

ApplyClear ==
  /\ step = "clear"
  /\ previous' = NoFolder
  /\ step' = IF Exists(llamaDir) THEN "aside" ELSE "in"
  /\ unfinished' = TRUE
  /\ UNCHANGED <<llamaDir, pending, failedDir>> /\ Elsewhere

ApplyAside ==
  /\ step = "aside"
  /\ \/ previous' = llamaDir /\ llamaDir' = NoFolder /\ step' = "in"
     \/ MayLock /\ step' = "rest" /\ UNCHANGED <<llamaDir, previous>>
  /\ UNCHANGED <<pending, failedDir, unfinished>> /\ Elsewhere

ApplyIn ==
  /\ step = "in"
  /\ \/ llamaDir' = pending /\ pending' = NoFolder /\ step' = "note"
     \/ /\ MayLock
        /\ step' = IF Exists(previous) THEN "restore" ELSE "rest"
        /\ UNCHANGED <<llamaDir, pending>>
  /\ UNCHANGED <<previous, failedDir, unfinished>> /\ Elsewhere

ApplyRestore ==
  /\ step = "restore"
  /\ \/ llamaDir' = previous /\ previous' = NoFolder
     \/ MayLock /\ UNCHANGED <<llamaDir, previous>>
  /\ step' = "rest"
  /\ UNCHANGED <<pending, failedDir, unfinished>> /\ Elsewhere

(* Faulty variant: the swapped-in build is not marked.                     *)
ApplyNoteUnmarked ==
  /\ step = "note"
  /\ step' = "rest" /\ unfinished' = ~Exists(previous)
  /\ UNCHANGED folders /\ Elsewhere

ApplyNote ==
  /\ step = "note"
  /\ llamaDir' = [llamaDir EXCEPT !.unconfirmed = TRUE]
  /\ step' = "rest" /\ unfinished' = ~Exists(previous)
  /\ UNCHANGED <<pending, previous, failedDir>> /\ Elsewhere

-----------------------------------------------------------------------------
(* Faulty variant: any engine with a predecessor counts as unconfirmed.    *)
isUnconfirmedByFolder == Exists(previous)

isUnconfirmed == llamaDir.unconfirmed /\ Exists(previous)

(* A model loaded: confirmEngine, which marks and then deletes.            *)
LoadWorks ==
  /\ step = "rest" /\ Exists(llamaDir) /\ llamaDir.build \notin Bad
  /\ llamaDir' = [llamaDir EXCEPT !.unconfirmed = FALSE, !.how = "proven"]
  /\ step' = IF llamaDir.unconfirmed THEN "drop" ELSE "rest"
  /\ UNCHANGED <<pending, previous, failedDir, unfinished>> /\ Elsewhere

ConfirmDrop ==
  /\ step = "drop"
  /\ previous' = NoFolder
  /\ step' = "rest"
  /\ UNCHANGED <<llamaDir, pending, failedDir, unfinished>> /\ Elsewhere

(* A load crashed, which a model file can cause on any build: the handler  *)
(* rolls an unconfirmed build back.                                        *)
LoadCrashes ==
  /\ step = "rest" /\ Exists(llamaDir) /\ isUnconfirmed
  /\ failedDir' = NoFolder
  /\ step' = "back-aside"
  /\ UNCHANGED <<llamaDir, pending, previous, unfinished>> /\ Elsewhere

RollbackAside ==
  /\ step = "back-aside"
  /\ \/ failedDir' = llamaDir /\ llamaDir' = NoFolder /\ step' = "back-in"
     \/ MayLock /\ step' = "rest" /\ UNCHANGED <<failedDir, llamaDir>>
  /\ UNCHANGED <<pending, previous, unfinished>> /\ Elsewhere

(* The old engine is again the one that is simply installed.               *)
RollbackIn ==
  /\ step = "back-in"
  /\ \/ /\ llamaDir' = [previous EXCEPT !.how = IF @ = "staged" THEN "installed" ELSE @]
        /\ previous' = NoFolder /\ step' = "back-note"
     \/ MayLock /\ step' = "back-restore" /\ UNCHANGED <<llamaDir, previous>>
  /\ UNCHANGED <<pending, failedDir, unfinished>> /\ Elsewhere

RollbackRestore ==
  /\ step = "back-restore"
  /\ \/ llamaDir' = failedDir /\ failedDir' = NoFolder /\ UNCHANGED unfinished
     \/ MayLock /\ unfinished' = TRUE /\ UNCHANGED <<llamaDir, failedDir>>
  /\ step' = "rest"
  /\ UNCHANGED <<pending, previous>> /\ Elsewhere

(* The failed build is deleted and its tag remembered by the old engine.   *)
RollbackNote ==
  /\ step = "back-note"
  /\ llamaDir' = [llamaDir EXCEPT
       !.failedTags = @ \cup ({failedDir.tag} \ {0}), !.unconfirmed = FALSE]
  /\ failedDir' = NoFolder
  /\ step' = "rest" /\ unfinished' = FALSE
  /\ UNCHANGED <<pending, previous>> /\ Elsewhere

-----------------------------------------------------------------------------
(* checkForUpdate: engine.json is read before the releases are fetched...  *)
CheckStarts ==
  /\ step = "rest" /\ check = NoCheck
  /\ Exists(llamaDir) /\ ~Exists(pending)
  /\ check' = [at |-> "fetching", tag |-> llamaDir.tag, failedTags |-> llamaDir.failedTags,
               unconfirmed |-> llamaDir.unconfirmed, release |-> 0]
  /\ UNCHANGED <<folders, step, newest, unfinished>>

(* ... and written back afterwards, on whatever engine is in place then.   *)
WriteBack ==
  llamaDir' = IF Exists(llamaDir)
                THEN [llamaDir EXCEPT !.tag = check.tag, !.failedTags = check.failedTags,
                                      !.unconfirmed = check.unconfirmed]
                ELSE llamaDir

(* The newest settled release that has not failed, if it is newer.         *)
Candidates == (1 .. newest) \ check.failedTags
haveBuild == IF check.tag # 0 THEN check.tag ELSE llamaDir.build
Wanted(b) == b \in Candidates /\ (\A c \in Candidates : c <= b) /\ b > haveBuild

CheckFetched ==
  /\ step = "rest" /\ check.at = "fetching"
  /\ WriteBack
  /\ \/ \E b \in Build : /\ Wanted(b)
                         /\ check' = [check EXCEPT !.at = "downloading", !.release = b]
     \/ check' = NoCheck /\ \A b \in Build : ~Wanted(b)
  /\ UNCHANGED <<pending, previous, failedDir, step, newest, unfinished>>

(* It was downloaded and starts: it is staged for the next launch.         *)
CheckStaged ==
  /\ step = "rest" /\ check.at = "downloading"
  /\ pending' = [build |-> check.release, tag |-> check.release, failedTags |-> check.failedTags,
                 unconfirmed |-> FALSE, how |-> "staged"]
  /\ check' = NoCheck
  /\ UNCHANGED <<llamaDir, previous, failedDir, step, newest, unfinished>>

(* It does not start: not worth downloading again.                         *)
CheckRefused ==
  /\ step = "rest" /\ check.at = "downloading"
  /\ llamaDir' = IF Exists(llamaDir)
                   THEN [llamaDir EXCEPT !.failedTags = check.failedTags \cup {check.release}]
                   ELSE llamaDir
  /\ check' = NoCheck
  /\ UNCHANGED <<pending, previous, failedDir, step, newest, unfinished>>

(* No connection, a bad checksum, a locked folder. *)
CheckFails ==
  /\ step = "rest" /\ check # NoCheck
  /\ check' = NoCheck
  /\ UNCHANGED <<folders, step, newest, unfinished>>

-----------------------------------------------------------------------------
(* gguf:setup-engine without an engine: one of another program is adopted, *)
(* or the newest release downloaded.                                       *)
Setup ==
  /\ step = "rest" /\ ~Exists(llamaDir)
  /\ \/ \E b \in 1 .. newest : llamaDir' = [NoFolder EXCEPT !.build = b]
     \/ llamaDir' = [NoFolder EXCEPT !.build = newest, !.tag = newest]
  /\ UNCHANGED <<pending, previous, failedDir, step, check, newest, unfinished>>

(* The program is quit or, between two steps of a swap, killed.            *)
Ends ==
  /\ step = "rest" \/ (MayCrash /\ step # "off")
  /\ step' = "off" /\ check' = NoCheck
  /\ unfinished' = (unfinished \/ ~Exists(llamaDir))
  /\ UNCHANGED <<folders, newest>>

(* Another release has been out long enough. (external) *)
Released ==
  /\ newest < MaxBuild
  /\ newest' = newest + 1
  /\ UNCHANGED <<folders, step, check, unfinished>>

UpdaterNext ==
  \/ Launch \/ ApplyClear \/ ApplyAside \/ ApplyIn \/ ApplyRestore \/ ApplyNote
  \/ LoadWorks \/ ConfirmDrop
  \/ LoadCrashes \/ RollbackAside \/ RollbackIn \/ RollbackRestore \/ RollbackNote
  \/ CheckStarts \/ CheckFetched \/ CheckStaged \/ CheckRefused \/ CheckFails
  \/ Setup \/ Ends \/ Released

UpdaterSpec == UpdaterInit /\ [][UpdaterNext]_updaterVars

-----------------------------------------------------------------------------
(* Whatever is cut short, fails on a lock or races a check, some folder    *)
(* that a launch or a rollback looks at holds a whole engine.              *)
SomethingToRun == \E f \in {llamaDir, pending, previous} : Exists(f)

(* "If the first load crashes instead, the old engine comes back": unless  *)
(* its swap was cut short, a build that was switched to can be left again  *)
(* until a model loaded on it, whatever a check writes meanwhile.          *)
CanGoBack ==
  step = "rest" /\ llamaDir.how = "staged" /\ ~unfinished => isUnconfirmed

(* "A model loaded on the new engine: it stays": no rollback takes away an *)
(* engine a model loaded on, though a check may write an older engine.json *)
(* over it and a confirmation may have been cut short.  A swap that failed *)
(* half-way, and whose undoing failed too, is left out here as well.       *)
ProvenStays ==
  [][step = "back-aside" /\ ~unfinished /\ llamaDir' # llamaDir =>
       llamaDir.how # "proven"]_updaterVars

(* "Swap folders, keeping the old one; ... the first model that loads      *)
(* confirms the new build": an engine that models load on stays on the     *)
(* disk until a model loaded on its successor.                             *)
WorkingEngineKept ==
  \E f \in {llamaDir, pending, previous, failedDir} : f.how = "proven"
=============================================================================
