---------------------------- MODULE FileChanges ----------------------------
(***************************************************************************)
(* What the tools do to the user's files, and undoing it:                  *)
(* win/electron/fileOps.cjs, the store of earlier versions                 *)
(* (checkpoints.cjs) and the list of changes in the database (storage.cjs).*)
(*                                                                         *)
(* An operation runs without an await but for the recycle bin, so an       *)
(* action is one call of the file system, of the store or of the database, *)
(* and only a failure or the program's end comes between two of them;      *)
(* while the bin works, other operations run.  A hash is the content it is *)
(* the hash of.                                                            *)
(***************************************************************************)
EXTENDS Integers

CONSTANTS
  Path,       \* paths of files
  Content,    \* what a file may hold
  NotText,    \* of these, what is no UTF-8
  Misses,     \* may a version fail to be read or kept?
  MaxChanges, \* changes of a behaviour (a bound)
  MaxOthers,  \* changes that other programs make (a bound)
  MaxFailures \* operations that fail or are cut short (a bound)

\* no file; what a write that was cut short leaves; what is no UTF-8, decoded and
\* encoded again
Absent == "absent"
Torn == "torn"
Mangled == "mangled"

ASSUME ConstantsAssumption ==
  /\ Content \cap {Absent, Torn, Mangled} = {} /\ NotText \subseteq Content
  /\ Misses \in BOOLEAN
  /\ MaxChanges \in Nat /\ MaxOthers \in Nat /\ MaxFailures \in Nat

Bytes == Content \cup {Torn, Mangled}
Files == [Path -> Bytes \cup {Absent}]

VARIABLES
  file,    \* the files
  store,   \* store[b]: what is under the hash of b
  bin,     \* what the recycle bin holds
  rows,    \* the table of checkpoints
  ids,     \* the last id it gave
  op,      \* the operation that runs
  binning, \* the operations that wait for the bin
  taken,   \* what changes of the tools took out of a file (an observer)
  missed,  \* of these, what was not kept as it was (an observer)
  orderly, \* one change after the other, undone newest first, none that happened and
           \* is not listed or not kept, nobody else at the same files (an observer)
  left     \* of the bounds

vars == <<file, store, bin, rows, ids, op, binning, taken, missed, orderly, left>>

\* `was' is an observer: the files before the change.
Change == [id : Nat, action : {"write", "move", "delete"}, path : Path, detail : Path,
           before : Bytes \cup {Absent}, was : Files]

Nothing == [at |-> "nothing"]
Op == {Nothing}
      \cup [at : {"snapshot", "keepText", "write", "keepNew", "rename", "record", "drop",
                  "asked", "binned"},
            undo : BOOLEAN, change : Change, new : Bytes \cup {Absent}]

TypeOK ==
  /\ file \in Files
  /\ store \in [Bytes -> {"none", "part", "whole"}]
  /\ bin \subseteq Bytes /\ taken \subseteq Bytes /\ missed \subseteq Bytes
  /\ rows \subseteq Change /\ ids \in Nat
  /\ op \in Op /\ binning \subseteq Op
  /\ orderly \in BOOLEAN
  /\ left \in [changes : 0..MaxChanges, others : 0..MaxOthers, failures : 0..MaxFailures]

Init ==
  /\ file \in [Path -> Content \cup {Absent}]
  /\ store = [b \in Bytes |-> "none"] /\ bin = {}
  /\ rows = {} /\ ids = 0 /\ op = Nothing /\ binning = {}
  /\ taken = {} /\ missed = {} /\ orderly = TRUE
  /\ left = [changes |-> MaxChanges, others |-> MaxOthers, failures |-> MaxFailures]

Idle == op = Nothing
Goes(at) == op' = [op EXCEPT !.at = at]
Involves(r, p) == p \in {r.path, r.detail}
Newest(r) == \A s \in rows : s.id <= r.id

\* The bytes of p that a change takes away
Takes(p) == IF op.undo THEN taken ELSE taken \cup ({file[p]} \ {Absent})

-----------------------------------------------------------------------------
(* The store.                                                              *)

\* keep: nothing to do if there is something under the hash
keep(b) == store' = [store EXCEPT ![b] = IF @ = "none" THEN "whole" ELSE @]

\* what a keep that is cut short leaves: the bytes are written beside the blob and
\* renamed in
CutShortInPlace(b) == store' = [store EXCEPT ![b] = IF @ = "none" THEN "part" ELSE @]
CutShort(b) == UNCHANGED store

\* read
Readable(b) == store[b] = "whole"

\* readText, and writing what it returned
Decoded(b) == IF b \in NotText THEN Mangled ELSE b

-----------------------------------------------------------------------------
(* The tools.                                                              *)

\* the head of an operation, which looks at the file
Begin(at, action, p, from, before, new) ==
  /\ Idle /\ left.changes > 0
  /\ left' = [left EXCEPT !.changes = @ - 1]
  /\ orderly' = (orderly /\ binning = {})
  /\ op' = [at |-> at, undo |-> FALSE, new |-> new,
            change |-> [id |-> 0, action |-> action, path |-> p, detail |-> from,
                        before |-> before, was |-> file]]
  /\ UNCHANGED <<file, store, bin, rows, ids, binning, taken, missed>>

\* write, and the same without keeping the old file
WriteUnkept(p, c) == Begin("write", "write", p, p, Absent, c)
write(p, c) == Begin("snapshot", "write", p, p, Absent, c)

\* edit, which works on the file's text
edit(p, c) ==
  file[p] # Absent /\ Begin("keepText", "write", p, p, Decoded(file[p]), c)

move(from, to) ==
  /\ file[from] # Absent /\ file[to] = Absent
  /\ Begin("rename", "move", to, from, Absent, Absent)

remove(p) ==
  file[p] # Absent /\ Begin("snapshot", "delete", p, p, Absent, Absent)

\* What follows the snapshot: a write, or the bin, which is awaited
Onward(change) ==
  IF change.action = "delete"
  THEN op' = Nothing /\ binning' = binning \cup {[op EXCEPT !.at = "asked", !.change = change]}
  ELSE op' = [op EXCEPT !.at = "write", !.change = change] /\ UNCHANGED binning

\* keep(current.text), of edit
KeepText ==
  /\ op.at = "keepText" /\ keep(op.change.before) /\ Onward(op.change)
  /\ LET old == file[op.change.path]
     IN IF old \in NotText THEN missed' = missed \cup {old} /\ orderly' = FALSE
        ELSE UNCHANGED <<missed, orderly>>
  /\ UNCHANGED <<file, bin, rows, ids, taken, left>>

\* snapshot, of write and remove
Snapshot ==
  /\ op.at = "snapshot"
  /\ LET old == file[op.change.path]
     IN /\ IF old = Absent THEN UNCHANGED store ELSE keep(old)
        /\ Onward([op.change EXCEPT !.before = old])
  /\ UNCHANGED <<file, bin, rows, ids, taken, missed, orderly, left>>

\* snapshot takes every error for a file that is not there
SnapshotMisses ==
  /\ op.at = "snapshot" /\ Misses /\ file[op.change.path] # Absent
  /\ Onward(op.change)
  /\ missed' = missed \cup {file[op.change.path]} /\ orderly' = FALSE
  /\ UNCHANGED <<file, store, bin, rows, ids, taken, left>>

\* writeFileSync
WriteFile ==
  /\ op.at = "write"
  /\ file' = [file EXCEPT ![op.change.path] = op.new]
  /\ taken' = Takes(op.change.path)
  /\ Goes(IF op.undo THEN "drop" ELSE "keepNew")
  /\ UNCHANGED <<store, bin, rows, ids, binning, missed, orderly, left>>

\* keep(next), the afterHash
KeepNew ==
  /\ op.at = "keepNew" /\ keep(op.new) /\ Goes("record")
  /\ UNCHANGED <<file, bin, rows, ids, binning, taken, missed, orderly, left>>

\* renameSync, there or back, which replaces a file; it throws if the file has gone
Rename ==
  /\ op.at = "rename"
  /\ LET from == IF op.undo THEN op.change.path ELSE op.change.detail
         to == IF op.undo THEN op.change.detail ELSE op.change.path
     IN \/ /\ file[from] # Absent
           /\ file' = [file EXCEPT ![to] = file[from], ![from] = Absent]
           /\ Goes(IF op.undo THEN "drop" ELSE "record")
        \/ file[from] = Absent /\ op' = Nothing /\ UNCHANGED file
  /\ UNCHANGED <<store, bin, rows, ids, binning, taken, missed, orderly, left>>

\* addCheckpoint
Record ==
  /\ op.at = "record"
  /\ ids' = ids + 1
  /\ rows' = rows \cup {[op.change EXCEPT !.id = ids + 1]}
  /\ op' = Nothing
  /\ UNCHANGED <<file, store, bin, binning, taken, missed, orderly, left>>

-----------------------------------------------------------------------------
(* Undoing a change.                                                       *)

\* revert's first step, and the same with what the change made left in place
BackButKeeps(r) ==
  IF r.action = "move" THEN "rename" ELSE IF r.before # Absent THEN "write" ELSE "drop"
Back(r) ==
  IF r.action = "move" THEN "rename"
  ELSE IF r.before # Absent THEN "write"
  ELSE IF file[r.path] # Absent THEN "asked" ELSE "drop"

\* revert, of any change that is listed; a file that is not there cannot be moved back,
\* nor a version written back that the store has lost.  A second revert of a change
\* while the first one waits for the bin finds the file gone.
revert(r) ==
  /\ Idle
  /\ Back(r) = "rename" => file[r.path] # Absent
  /\ Back(r) = "write" => Readable(r.before)
  /\ LET undoing == [at |-> Back(r), undo |-> TRUE, change |-> r, new |-> r.before]
     IN IF Back(r) = "asked"
        THEN binning' = binning \cup {undoing} /\ UNCHANGED op
        ELSE op' = undoing /\ UNCHANGED binning
  /\ orderly' = (orderly /\ binning = {} /\ Newest(r))
  /\ UNCHANGED <<file, store, bin, rows, ids, taken, missed, left>>

\* dropCheckpoint
Drop ==
  /\ op.at = "drop"
  /\ rows' = {r \in rows : r.id # op.change.id} /\ op' = Nothing
  /\ UNCHANGED <<file, store, bin, ids, binning, taken, missed, orderly, left>>

-----------------------------------------------------------------------------
(* The recycle bin (external), and the operation when the bin is done.     *)

Binned(o) ==
  /\ o.at = "asked" /\ file[o.change.path] # Absent
  /\ file' = [file EXCEPT ![o.change.path] = Absent]
  /\ bin' = bin \cup {file[o.change.path]}
  /\ taken' = taken \cup {file[o.change.path]}
  /\ binning' = (binning \ {o}) \cup {[o EXCEPT !.at = "binned"]}
  /\ UNCHANGED <<store, rows, ids, op, missed, orderly, left>>

\* trash rejects, and the operation with it
NotBinned(o) ==
  /\ o.at = "asked" /\ binning' = binning \ {o}
  /\ UNCHANGED <<file, store, bin, rows, ids, op, taken, missed, orderly, left>>

Resumes(o) ==
  /\ o.at = "binned" /\ Idle
  /\ binning' = binning \ {o}
  /\ op' = [o EXCEPT !.at = IF o.undo THEN "drop" ELSE "record"]
  /\ UNCHANGED <<file, store, bin, rows, ids, taken, missed, orderly, left>>

-----------------------------------------------------------------------------
\* Another program, or the user, changes a file between two operations.
Others(p, b) ==
  /\ Idle /\ left.others > 0
  /\ left' = [left EXCEPT !.others = @ - 1]
  /\ file' = [file EXCEPT ![p] = b]
  /\ IF (\E o \in binning : Involves(o.change, p)) \/ \E r \in rows : Involves(r, p)
     THEN orderly' = FALSE /\ UNCHANGED <<rows, binning>>
     ELSE /\ rows' = {[r EXCEPT !.was[p] = b] : r \in rows}
          /\ binning' = {[o EXCEPT !.change.was[p] = b] : o \in binning}
          /\ UNCHANGED orderly
  /\ UNCHANGED <<store, bin, ids, op, taken, missed>>

\* A change that has happened and is not in the list yet
Unlisted ==
  \/ op # Nothing /\ op.at \in {"keepNew", "record"}
  \/ \E o \in binning : o.at = "binned" /\ ~o.undo

\* What a failure or the end of the program in the middle of a write leaves
WriteCutShort ==
  \/ UNCHANGED <<file, taken>> /\ orderly' = (orderly /\ ~Unlisted)
  \/ /\ op.at = "write"
     /\ file' = [file EXCEPT ![op.change.path] = Torn]
     /\ taken' = Takes(op.change.path)
     /\ orderly' = (orderly /\ op.undo)

StoreCutShort ==
  CASE op.at = "snapshot" /\ file[op.change.path] # Absent -> CutShort(file[op.change.path])
    [] op.at = "keepText" -> CutShort(op.change.before)
    [] op.at = "keepNew" -> CutShort(op.new)
    [] OTHER -> UNCHANGED store

\* A call throws, and the operation with it, but for snapshot.
Throws ==
  /\ ~Idle /\ op.at # "snapshot"
  /\ left.failures > 0 /\ left' = [left EXCEPT !.failures = @ - 1]
  /\ op' = Nothing /\ WriteCutShort /\ StoreCutShort
  /\ UNCHANGED <<bin, rows, ids, binning, missed>>

\* The program ends, and starts again.
Ends ==
  /\ ~Idle \/ binning # {}
  /\ left.failures > 0 /\ left' = [left EXCEPT !.failures = @ - 1]
  /\ op' = Nothing /\ binning' = {} /\ WriteCutShort /\ StoreCutShort
  /\ UNCHANGED <<bin, rows, ids, missed>>

Next ==
  \/ \E p \in Path :
       \/ remove(p) \/ \E c \in Content : write(p, c)
       \/ \E c \in Content \ NotText : edit(p, c)
       \/ \E q \in Path : move(p, q)
       \/ \E b \in Content \cup {Absent} : Others(p, b)
  \/ KeepText \/ Snapshot \/ SnapshotMisses \/ WriteFile \/ KeepNew \/ Rename
  \/ Record \/ Drop \/ Throws \/ Ends
  \/ \E r \in rows : revert(r)
  \/ \E o \in binning : Binned(o) \/ NotBinned(o) \/ Resumes(o)

Spec == Init /\ [][Next]_vars

-----------------------------------------------------------------------------
(* Properties.                                                             *)

\* A version that a listed change names is whole in the store, wherever a write to the
\* store was cut short: revert never answers that "the earlier version is no longer
\* stored".
UndoPossible == \A r \in rows : r.before # Absent => Readable(r.before)

\* "Old file bytes, kept before every model write": what a tool took out of a file is
\* in the store or in the bin, whatever raced it and wherever it was cut short.
OldBytesKept == \A b \in taken : Readable(b) \/ b \in bin

\* The same but for what edit finds in a file that is no UTF-8, and what snapshot fails
\* to read or to keep.
NothingLost == \A b \in taken : Readable(b) \/ b \in bin \/ b \in missed

\* The files that undoing r makes of f
Undone(f, r) ==
  IF r.action # "move" THEN [f EXCEPT ![r.path] = r.before]
  ELSE IF f[r.path] = Absent THEN f
  ELSE [f EXCEPT ![r.detail] = f[r.path], ![r.path] = Absent]

\* The listed changes, undone from the newest to the oldest, give the files as they were
\* before each of them, also when an undo failed or was cut short on the way.
Follows(r, s) == r.id < s.id /\ ~ \E t \in rows : r.id < t.id /\ t.id < s.id
UndoLeadsBack ==
  orderly /\ Idle /\ binning = {} =>
    \A r \in rows :
      /\ Newest(r) => Undone(file, r) = r.was
      /\ \A s \in rows : Follows(r, s) => Undone(s.was, r) = r.was
=============================================================================
