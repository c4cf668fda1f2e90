------------------------- MODULE FileChangesProofs -------------------------
(***************************************************************************)
(* What FileChanges keeps, for every set of files and contents and every   *)
(* number of changes, failures and changes of others.                      *)
(***************************************************************************)
EXTENDS FileChanges, TLAPS

Kept(r) == r.before # Absent => Readable(r.before)
Safe(b) == b = Absent \/ Readable(b) \/ b \in bin \/ b \in missed

\* Nothing is half kept; what a change names was kept before the file is touched.
Versions ==
  /\ \A b \in Bytes : store[b] # "part"
  /\ \A r \in rows : Kept(r)
  /\ op.at \notin {"nothing", "snapshot", "keepText"} => Kept(op.change)
  /\ op.at = "snapshot" => op.change.before = Absent
  /\ op.at = "keepText" =>
       /\ op.change.before # Absent
       /\ file[op.change.path] = Absent \/ op.change.before = Decoded(file[op.change.path])
  /\ op.at = "write" /\ ~op.undo => Safe(file[op.change.path])
  /\ op.at \notin {"asked", "binned"}
  /\ \A o \in binning : o.at \in {"asked", "binned"} /\ Kept(o.change)

StoreInv == TypeOK /\ Versions /\ NothingLost

LEMMA ChangeIsRecord ==
  ASSUME NEW r \in Change
  PROVE  /\ r = [id |-> r.id, action |-> r.action, path |-> r.path, detail |-> r.detail,
                 before |-> r.before, was |-> r.was]
         /\ \A n \in Nat : [r EXCEPT !.id = n] \in Change
         /\ \A b \in Bytes \cup {Absent} : [r EXCEPT !.before = b] \in Change
         /\ \A p \in Path, b \in Bytes \cup {Absent} : [r EXCEPT !.was[p] = b] \in Change
BY DEF Change, Files

At == {"snapshot", "keepText", "write", "keepNew", "rename", "record", "drop", "asked", "binned"}

LEMMA OpMoves ==
  ASSUME NEW o \in Op, o.at # "nothing"
  PROVE  /\ o.change \in Change /\ o.undo \in BOOLEAN /\ o.new \in Bytes \cup {Absent}
         /\ \A at \in At :
              /\ [o EXCEPT !.at = at] \in Op
              /\ [o EXCEPT !.at = at].at = at /\ [o EXCEPT !.at = at].undo = o.undo
              /\ [o EXCEPT !.at = at].change = o.change /\ [o EXCEPT !.at = at].new = o.new
         /\ \A at \in At, c \in Change : [o EXCEPT !.at = at, !.change = c] \in Op
<1>1. o \in [at : At, undo : BOOLEAN, change : Change, new : Bytes \cup {Absent}]
  BY DEF Op, Nothing, At
<1>2. QED
  BY <1>1 DEF Op, At

LEMMA NothingAt == Nothing \in Op /\ Nothing.at = "nothing" /\ \A o \in Op : o.at = "nothing" => o = Nothing
BY DEF Op, Nothing

LEMMA StoreInit == ASSUME ConstantsAssumption, Init PROVE StoreInv
BY NothingAt DEF Init, StoreInv, TypeOK, Versions, NothingLost, Files, Bytes, ConstantsAssumption, Kept, Safe

-----------------------------------------------------------------------------
(* The store.                                                              *)

Grows ==
  /\ store' \in [Bytes -> {"none", "part", "whole"}]
  /\ \A b \in Bytes : store'[b] # "part" /\ (Readable(b) => Readable(b)')
  /\ bin \subseteq bin' /\ missed \subseteq missed'

LEMMA Keeps ==
  ASSUME StoreInv, NEW b \in Bytes, keep(b), UNCHANGED bin, missed \subseteq missed'
  PROVE  Grows /\ Readable(b)'
BY DEF StoreInv, TypeOK, Versions, keep, Grows, Readable

LEMMA Same ==
  ASSUME StoreInv, UNCHANGED store, bin \subseteq bin', missed \subseteq missed'
  PROVE  Grows
BY DEF StoreInv, TypeOK, Versions, Grows, Readable

LEMMA Stays ==
  ASSUME StoreInv, Grows
  PROVE  /\ \A r \in Change : Kept(r) => Kept(r)'
         /\ \A b \in Bytes \cup {Absent} : Safe(b) => Safe(b)'
         /\ taken' = taken => NothingLost'
BY DEF StoreInv, TypeOK, Grows, Kept, Safe, NothingLost, Change, Readable

LEMMA TakesSafe ==
  ASSUME ConstantsAssumption, StoreInv, Grows, NEW p \in Path, Safe(file[p]), taken' \subseteq taken \cup ({file[p]} \ {Absent})
  PROVE  taken' \subseteq Bytes /\ NothingLost'
BY DEF StoreInv, TypeOK, Grows, NothingLost, Readable, Safe, Files

LEMMA StoreBegins ==
  ASSUME ConstantsAssumption, StoreInv, NEW p \in Path,
         \/ remove(p) \/ \E q \in Path : move(p, q)
         \/ \E c \in Content : write(p, c) \/ edit(p, c)
  PROVE  StoreInv'
<1>1. Grows
  BY Same DEF write, edit, move, remove, Begin
<1>2. op' \in Op /\ TypeOK'
  <2>1. PICK at \in {"snapshot", "keepText", "rename"}, action \in {"write", "move", "delete"},
             to \in Path, from \in Path, before \in Bytes \cup {Absent}, new \in Bytes \cup {Absent} :
          Begin(at, action, to, from, before, new)
    BY DEF write, edit, move, remove, StoreInv, TypeOK, Files, Bytes, Decoded
  <2>2. op' \in Op
    BY <2>1 DEF Begin, Op, Change, StoreInv, TypeOK
  <2>3. QED
    BY <2>1, <2>2 DEF Begin, StoreInv, TypeOK
<1>3. Versions'
  <2>1. /\ \A r \in rows : Kept(r)'
        /\ \A o \in binning : o.at \in {"asked", "binned"} /\ Kept(o.change)'
        /\ rows' = rows /\ binning' = binning /\ file' = file
    <3>1. \A o \in binning : o.change \in Change
      BY OpMoves, NothingAt DEF StoreInv, TypeOK, Versions
    <3>2. QED
      BY <1>1, <3>1, Stays DEF StoreInv, TypeOK, Versions, Begin, write, edit, move, remove
  <2>2. \A f \in Bytes : Decoded(f) # Absent
    BY DEF Decoded, ConstantsAssumption, Bytes, Absent, Mangled, Torn
  <2>3. /\ op'.at \in {"snapshot", "keepText", "rename"}
        /\ op'.at \in {"snapshot", "rename"} => op'.change.before = Absent
        /\ op'.at = "keepText" => /\ op'.change.before # Absent
                                  /\ op'.change.before = Decoded(file[op'.change.path])
    BY <2>2 DEF write, edit, move, remove, Begin, StoreInv, TypeOK, Files
  <2>4. QED
    BY <1>1, <2>1, <2>3 DEF Versions, Grows, Kept, Decoded
<1>4. QED
  BY <1>1, <1>2, <1>3, Stays DEF StoreInv, Begin, write, edit, move, remove

LEMMA KeptStill ==
  ASSUME StoreInv, Grows
  PROVE  /\ \A r \in rows : Kept(r)'
         /\ \A o \in binning : /\ o.at \in {"asked", "binned"} /\ Kept(o.change)'
                               /\ o.change \in Change /\ o.undo \in BOOLEAN
         /\ op.at \notin {"nothing", "snapshot", "keepText"} =>
             \A r \in Change : r = op.change => Kept(r)'
<1>1. \A o \in binning : o.change \in Change /\ o.undo \in BOOLEAN
  BY OpMoves DEF StoreInv, TypeOK, Versions
<1>2. \A r \in rows : Kept(r)'
  BY Stays DEF StoreInv, TypeOK, Versions
<1>3. \A o \in binning : o.at \in {"asked", "binned"} /\ Kept(o.change)'
  BY <1>1, Stays DEF StoreInv, TypeOK, Versions
<1>4. op.at \notin {"nothing", "snapshot", "keepText"} =>
        \A r \in Change : r = op.change => Kept(r)'
  BY Stays DEF StoreInv, TypeOK, Versions
<1>5. QED
  BY <1>1, <1>2, <1>3, <1>4

LEMMA StoreOnward ==
  ASSUME ConstantsAssumption, StoreInv, Grows, op.at \in {"snapshot", "keepText"},
         NEW b \in Bytes \cup {Absent}, b # Absent => Readable(b)',
         NEW change, change = [op.change EXCEPT !.before = b], Onward(change),
         NEW p, p = op.change.path, Safe(file[p])',
         UNCHANGED <<file, bin, rows, ids, taken, left>>, missed' \subseteq Bytes, orderly' \in BOOLEAN
  PROVE  StoreInv'
<1>1. /\ op.change \in Change /\ change \in Change /\ op' \in Op /\ binning' \subseteq Op
      /\ change.path = p /\ change.before = b
  <2>1. op.change \in Change /\ change \in Change
    BY OpMoves, ChangeIsRecord DEF StoreInv, TypeOK
  <2>2. change.path = p /\ change.before = b
    BY <2>1 DEF Change
  <2>3. op \in Op /\ op.at # "nothing" /\ binning \subseteq Op
    BY DEF StoreInv, TypeOK
  <2>4. /\ [op EXCEPT !.at = "asked", !.change = change] \in Op
        /\ [op EXCEPT !.at = "write", !.change = change] \in Op
    BY <2>1, <2>3, OpMoves DEF At
  <2>5. QED
    BY <2>1, <2>2, <2>3, <2>4, NothingAt DEF Onward
<1>2. TypeOK'
  BY <1>1 DEF StoreInv, TypeOK, Grows
<1>3. Versions'
  <2>1. \/ op' = Nothing /\ binning' = binning \cup {[op EXCEPT !.at = "asked", !.change = change]}
        \/ op' = [op EXCEPT !.at = "write", !.change = change] /\ binning' = binning
    BY DEF Onward
  <2>2. /\ [op EXCEPT !.at = "asked", !.change = change].at = "asked"
        /\ [op EXCEPT !.at = "asked", !.change = change].change = change
        /\ [op EXCEPT !.at = "write", !.change = change].at = "write"
        /\ [op EXCEPT !.at = "write", !.change = change].change = change
    BY NothingAt DEF StoreInv, TypeOK, Op, Nothing
  <2>3. Kept(change)'
    BY <1>1 DEF Kept
  <2>4. CASE op' = Nothing /\ binning' = binning \cup {[op EXCEPT !.at = "asked", !.change = change]}
    BY <2>2, <2>3, <2>4, KeptStill, NothingAt DEF Versions, Grows
  <2>5. CASE op' = [op EXCEPT !.at = "write", !.change = change] /\ binning' = binning
    BY <1>1, <2>2, <2>3, <2>5, KeptStill DEF Versions, Grows
  <2>6. QED
    BY <2>1, <2>4, <2>5
<1>4. QED
  BY <1>2, <1>3, Stays DEF StoreInv

LEMMA StoreKept ==
  ASSUME ConstantsAssumption, StoreInv, KeepText \/ Snapshot \/ SnapshotMisses
  PROVE  StoreInv'
<1>1. op \in Op /\ op.at # "nothing" /\ op.change \in Change
  BY OpMoves, NothingAt DEF KeepText, Snapshot, SnapshotMisses, StoreInv, TypeOK
<1>2. PICK p \in Path, b \in Bytes \cup {Absent}, old \in Bytes \cup {Absent} :
        p = op.change.path /\ b = op.change.before /\ old = file[p]
  BY <1>1 DEF StoreInv, TypeOK, Files, Change
<1>3. op.change = [op.change EXCEPT !.before = b]
  BY <1>1, <1>2, ChangeIsRecord
<1>4. CASE KeepText
  <2>1. op.at = "keepText" /\ b # Absent /\ (old = Absent \/ b = Decoded(old))
    BY <1>2, <1>4 DEF KeepText, StoreInv, Versions
  <2>2. missed' = (IF old \in NotText THEN missed \cup {old} ELSE missed) /\ orderly' \in BOOLEAN
    BY <1>2, <1>4 DEF KeepText, StoreInv, TypeOK
  <2>3. Grows /\ Readable(b)'
    BY <1>2, <1>4, <2>1, <2>2, Keeps DEF KeepText
  <2>4. Safe(old)' /\ missed' \subseteq Bytes
    BY <2>1, <2>2, <2>3 DEF Safe, Decoded, Grows, StoreInv, TypeOK, ConstantsAssumption, Bytes
  <2>5. file' = file /\ file[p] = old
    BY <1>2, <1>4 DEF KeepText
  <2>6. Safe(file[p])'
    BY <2>4, <2>5
  <2>7. QED
    BY <1>2, <1>3, <1>4, <2>1, <2>2, <2>3, <2>4, <2>6, StoreOnward DEF KeepText
<1>5. CASE Snapshot
  <2>1. Grows /\ (old # Absent => Readable(old)')
    BY <1>2, <1>5, Keeps, Same DEF Snapshot
  <2>2. file' = file /\ file[p] = old
    BY <1>2, <1>5 DEF Snapshot
  <2>3. Safe(file[p])'
    BY <2>1, <2>2 DEF Safe
  <2>4. Onward([op.change EXCEPT !.before = old])
    BY <1>2, <1>5 DEF Snapshot
  <2>5. QED
    BY <1>2, <1>5, <2>1, <2>3, <2>4, StoreOnward DEF Snapshot, StoreInv, TypeOK
<1>6. CASE SnapshotMisses
  <2>1. Grows /\ missed' = missed \cup {old} /\ old # Absent /\ orderly' = FALSE
    BY <1>2, <1>6, Same DEF SnapshotMisses
  <2>2. b = Absent
    BY <1>2, <1>6 DEF SnapshotMisses, StoreInv, Versions
  <2>3. file' = file /\ file[p] = old
    BY <1>2, <1>6 DEF SnapshotMisses
  <2>4. Safe(file[p])' /\ missed' \subseteq Bytes
    BY <2>1, <2>3 DEF Safe, StoreInv, TypeOK
  <2>5. QED
    BY <1>2, <1>3, <1>6, <2>1, <2>2, <2>4, StoreOnward DEF SnapshotMisses
<1>7. QED
  BY <1>4, <1>5, <1>6

LEMMA StoreWrites ==
  ASSUME ConstantsAssumption, StoreInv, WriteFile \/ KeepNew \/ Rename
  PROVE  StoreInv'
<1>1. op \in Op /\ op.at # "nothing" /\ op.change \in Change /\ op.new \in Bytes \cup {Absent}
  BY OpMoves, NothingAt DEF WriteFile, KeepNew, Rename, StoreInv, TypeOK
<1>2. PICK c \in Change : c = op.change
  BY <1>1
<1>3. c.path \in Path /\ c.detail \in Path /\ file \in Files /\ \A p \in Path : file[p] \in Bytes \cup {Absent}
  BY DEF StoreInv, TypeOK, Change, Files
<1>4. \A at \in {"drop", "keepNew", "record"} :
        [op EXCEPT !.at = at] \in Op /\ [op EXCEPT !.at = at].at = at /\ [op EXCEPT !.at = at].change = c
  <2>1. SUFFICES ASSUME NEW at \in At
                 PROVE  /\ [op EXCEPT !.at = at] \in Op
                        /\ [op EXCEPT !.at = at].at = at /\ [op EXCEPT !.at = at].change = op.change
    BY <1>2 DEF At
  <2>2. QED
    BY <1>1, OpMoves
<1>5. Grows
  <2>1. CASE KeepNew /\ op.new \in Bytes
    BY <2>1, Keeps DEF KeepNew
  <2>2. CASE KeepNew /\ op.new \notin Bytes
    BY <2>2, Same DEF KeepNew, keep, StoreInv, TypeOK
  <2>3. QED
    BY <2>1, <2>2, Same DEF WriteFile, Rename
<1>6. Kept(c)'
  BY <1>2, <1>5, KeptStill DEF WriteFile, KeepNew, Rename
<1>7. /\ op' \in Op
      /\ op' = Nothing \/ (op'.at \in {"drop", "keepNew", "record"} /\ op'.change = c)
      /\ rows' = rows /\ binning' = binning
  BY <1>4, NothingAt DEF WriteFile, KeepNew, Rename, Goes
<1>8. Versions'
  BY <1>5, <1>6, <1>7, KeptStill, NothingAt DEF Versions, Grows
<1>9. file' \in Files
  BY <1>1, <1>2, <1>3 DEF WriteFile, KeepNew, Rename, Files
<1>10. taken' \subseteq Bytes /\ NothingLost'
  <2>1. CASE WriteFile /\ ~op.undo
    BY <1>2, <1>3, <1>5, <2>1, TakesSafe DEF WriteFile, Takes, StoreInv, Versions
  <2>2. CASE taken' = taken
    BY <1>5, <2>2, Stays DEF StoreInv, TypeOK
  <2>3. QED
    BY <2>1, <2>2 DEF WriteFile, KeepNew, Rename, Takes
<1>11. TypeOK'
  BY <1>5, <1>7, <1>9, <1>10 DEF WriteFile, KeepNew, Rename, StoreInv, TypeOK, Grows
<1>12. QED
  BY <1>8, <1>10, <1>11 DEF StoreInv

LEMMA StoreLists ==
  ASSUME ConstantsAssumption, StoreInv, Record \/ Drop
  PROVE  StoreInv'
<1>1. op.at \in {"record", "drop"} /\ op.change \in Change
  BY OpMoves DEF Record, Drop, StoreInv, TypeOK
<1>2. Grows
  BY Same DEF Record, Drop
<1>3. PICK c \in Change : c = [op.change EXCEPT !.id = ids + 1] /\ c.before = op.change.before
  <2>1. [op.change EXCEPT !.id = ids + 1] \in Change
    BY <1>1, ChangeIsRecord DEF StoreInv, TypeOK
  <2>2. QED
    BY <1>1, <2>1 DEF Change
<1>4. Kept(c)'
  BY <1>1, <1>2, <1>3, KeptStill DEF Kept
<1>5. rows' \subseteq rows \cup {c} /\ ids' \in Nat
  BY <1>3 DEF Record, Drop, StoreInv, TypeOK
<1>6. TypeOK'
  BY <1>2, <1>3, <1>5, NothingAt DEF Record, Drop, StoreInv, TypeOK, Grows
<1>7. Versions'
  BY <1>2, <1>4, <1>5, KeptStill, NothingAt DEF Record, Drop, Versions, Grows
<1>8. QED
  BY <1>2, <1>6, <1>7, Stays DEF Record, Drop, StoreInv

LEMMA StoreReverts ==
  ASSUME ConstantsAssumption, StoreInv, NEW r \in rows, revert(r)
  PROVE  StoreInv'
<1>1. Grows
  BY Same DEF revert
<1>2. r \in Change /\ Kept(r)' /\ r.before \in Bytes \cup {Absent}
  BY <1>1, KeptStill DEF StoreInv, TypeOK, Change
<1>3. PICK u : u = [at |-> Back(r), undo |-> TRUE, change |-> r, new |-> r.before]
  OBVIOUS
<1>4. u \in Op /\ u.at \in {"rename", "write", "asked", "drop"} /\ u.undo = TRUE /\ u.change = r
  BY <1>2, <1>3 DEF Op, Back
<1>5. \/ op' = op /\ binning' = binning \cup {u} /\ u.at = "asked"
      \/ op' = u /\ binning' = binning /\ u.at # "asked"
  BY <1>3 DEF revert
<1>6. TypeOK'
  BY <1>1, <1>4, <1>5 DEF revert, StoreInv, TypeOK, Grows
<1>7. Versions'
  <2>1. CASE op' = op /\ binning' = binning \cup {u} /\ u.at = "asked"
    BY <1>1, <1>2, <1>4, <2>1, KeptStill, NothingAt DEF revert, Idle, Versions, Grows
  <2>2. CASE op' = u /\ binning' = binning /\ u.at # "asked"
    BY <1>1, <1>2, <1>4, <2>2, KeptStill DEF revert, Versions, Grows
  <2>3. QED
    BY <1>5, <2>1, <2>2
<1>8. QED
  BY <1>1, <1>6, <1>7, Stays DEF revert, StoreInv

LEMMA StoreBins ==
  ASSUME ConstantsAssumption, StoreInv, NEW o \in binning, Binned(o) \/ NotBinned(o) \/ Resumes(o)
  PROVE  StoreInv'
<1>1. Grows
  BY Same DEF Binned, NotBinned, Resumes
<1>2. o \in Op /\ o.at \in {"asked", "binned"} /\ o.change \in Change /\ o.change.path \in Path /\ Kept(o.change)'
  BY <1>1, KeptStill DEF StoreInv, TypeOK, Change
<1>3. \A at \in {"binned", "drop", "record"} :
        [o EXCEPT !.at = at] \in Op /\ [o EXCEPT !.at = at].at = at /\ [o EXCEPT !.at = at].change = o.change
  <2>1. SUFFICES ASSUME NEW at \in At
                 PROVE  /\ [o EXCEPT !.at = at] \in Op
                        /\ [o EXCEPT !.at = at].at = at /\ [o EXCEPT !.at = at].change = o.change
    BY DEF At
  <2>2. QED
    BY <1>2, OpMoves
<1>4. CASE Binned(o)
  <2>1. file[o.change.path] \in Bytes /\ file' \in Files
    BY <1>2, <1>4 DEF Binned, StoreInv, TypeOK, Files
  <2>2. TypeOK'
    BY <1>1, <1>3, <1>4, <2>1 DEF Binned, StoreInv, TypeOK, Grows
  <2>3. \A p \in Path : file'[p] = Absent \/ file'[p] = file[p]
    BY <1>4 DEF Binned, StoreInv, TypeOK, Files
  <2>4. op.at = "nothing" => Versions'
    BY <1>1, <1>2, <1>3, <1>4, KeptStill DEF Binned, StoreInv, Versions, Grows
  <2>5. ASSUME op.at # "nothing" PROVE Versions'
    <3>1. PICK c \in Change, p \in Path : c = op.change /\ p = c.path
      BY <2>5, OpMoves DEF StoreInv, TypeOK, Change
    <3>2. PICK f \in Bytes \cup {Absent} : f = file[p]
      BY DEF StoreInv, TypeOK, Files
    <3>3. op' = op /\ (Safe(f) => Safe(f)') /\ Safe(Absent)'
      BY <1>1, <1>4, Stays DEF Binned, Safe
    <3>4. op.at = "write" /\ ~op.undo => Safe(file[p])'
      BY <2>3, <3>1, <3>2, <3>3 DEF StoreInv, Versions
    <3>5. op.at = "keepText" => file'[p] = Absent \/ c.before = Decoded(file'[p])
      BY <2>3, <3>1 DEF StoreInv, Versions
    <3>6. op.at \notin {"nothing", "snapshot", "keepText"} => Kept(c)'
      BY <1>1, <3>1, KeptStill
    <3>7. QED
      BY <1>1, <1>2, <1>3, <1>4, <3>1, <3>3, <3>4, <3>5, <3>6, KeptStill DEF Binned, StoreInv, Versions, Grows
  <2>6. NothingLost'
    BY <1>1, <1>4 DEF Binned, StoreInv, TypeOK, NothingLost, Grows, Readable
  <2>7. QED
    BY <2>2, <2>4, <2>5, <2>6 DEF StoreInv
<1>5. CASE NotBinned(o)
  <2>1. TypeOK'
    BY <1>1, <1>5 DEF NotBinned, StoreInv, TypeOK
  <2>2. Versions'
    BY <1>5 DEF NotBinned, StoreInv, Versions, Kept, Readable, Safe
  <2>3. QED
    BY <1>1, <1>5, <2>1, <2>2, Stays DEF NotBinned, StoreInv
<1>6. CASE Resumes(o)
  <2>1. TypeOK'
    BY <1>3, <1>6 DEF Resumes, StoreInv, TypeOK
  <2>2. op'.at \in {"drop", "record"} /\ op'.change = o.change /\ binning' \subseteq binning /\ rows' = rows
    BY <1>3, <1>6 DEF Resumes
  <2>3. Versions'
    BY <1>1, <1>2, <2>2, KeptStill DEF Versions, Grows
  <2>4. QED
    BY <1>1, <1>6, <2>1, <2>3, Stays DEF Resumes, StoreInv
<1>7. QED
  BY <1>4, <1>5, <1>6

LEMMA StoreOthers ==
  ASSUME ConstantsAssumption, StoreInv, NEW p \in Path, NEW b \in Content \cup {Absent}, Others(p, b)
  PROVE  StoreInv'
<1>1. Grows
  BY Same DEF Others
<1>2. file' \in Files /\ b \in Bytes \cup {Absent}
  BY DEF Others, StoreInv, TypeOK, Files, Bytes
<1>a. left' \in [changes : 0..MaxChanges, others : 0..MaxOthers, failures : 0..MaxFailures]
  BY DEF Others, StoreInv, TypeOK
<1>b. orderly' \in BOOLEAN
  BY DEF Others, StoreInv, TypeOK
<1>c. UNCHANGED <<store, bin, ids, op, taken, missed>>
  BY DEF Others
<1>3. CASE rows' = rows /\ binning' = binning
  <2>1. TypeOK'
    BY <1>a, <1>b, <1>c, <1>2, <1>3 DEF StoreInv, TypeOK
  <2>2. Versions'
    BY <1>1, <1>3, KeptStill, NothingAt DEF Others, Idle, Versions, Grows
  <2>3. QED
    BY <1>1, <2>1, <2>2, Stays DEF Others, StoreInv
<1>4. CASE /\ rows' = {[r EXCEPT !.was[p] = b] : r \in rows}
           /\ binning' = {[o EXCEPT !.change.was[p] = b] : o \in binning}
  <2>1. ASSUME NEW r \in Change
        PROVE  [r EXCEPT !.was[p] = b] \in Change /\ [r EXCEPT !.was[p] = b].before = r.before
    BY <1>2 DEF Change, Files
  <2>2. ASSUME NEW o \in binning
        PROVE  /\ [o EXCEPT !.change.was[p] = b] \in Op
               /\ [o EXCEPT !.change.was[p] = b].at = o.at
               /\ [o EXCEPT !.change.was[p] = b].change = [o.change EXCEPT !.was[p] = b]
    <3>1. o \in [at : At, undo : BOOLEAN, change : Change, new : Bytes \cup {Absent}]
      BY NothingAt DEF StoreInv, TypeOK, Versions, Op, At
    <3>2. o.change \in Change /\ [o.change EXCEPT !.was[p] = b] \in Change
      BY <2>1, <3>1
    <3>3. [o EXCEPT !.change.was[p] = b] = [o EXCEPT !.change = [o.change EXCEPT !.was[p] = b]]
      BY <3>1, <3>2 DEF Change
    <3>4. QED
      BY <3>1, <3>2, <3>3 DEF Op, At
  <2>3. rows' \subseteq Change /\ binning' \subseteq Op
    BY <1>4, <2>1, <2>2 DEF StoreInv, TypeOK
  <2>4. TypeOK'
    BY <1>a, <1>b, <1>c, <1>2, <2>3 DEF StoreInv, TypeOK
  <2>5. \A r \in rows' : Kept(r)'
    <3>1. SUFFICES ASSUME NEW r \in rows PROVE Kept([r EXCEPT !.was[p] = b])'
      BY <1>4
    <3>2. Kept(r)' /\ r \in Change
      BY <1>1, KeptStill DEF StoreInv, TypeOK
    <3>3. QED
      BY <2>1, <3>2 DEF Kept
  <2>6. \A o \in binning' : o.at \in {"asked", "binned"} /\ Kept(o.change)'
    <3>1. SUFFICES ASSUME NEW o \in binning, NEW q, q = [o EXCEPT !.change.was[p] = b]
                   PROVE  q.at \in {"asked", "binned"} /\ Kept(q.change)'
      BY <1>4
    <3>2. o.at \in {"asked", "binned"} /\ Kept(o.change)' /\ o.change \in Change
      BY <1>1, KeptStill
    <3>3. QED
      BY <2>1, <2>2, <3>1, <3>2 DEF Kept
  <2>7. op' = op /\ op.at = "nothing"
    BY NothingAt DEF Others, Idle
  <2>8. Versions'
    BY <1>1, <2>5, <2>6, <2>7 DEF Versions, Grows
  <2>9. QED
    BY <1>1, <2>4, <2>8, Stays DEF Others, StoreInv
<1>5. QED
  BY <1>3, <1>4 DEF Others

LEMMA StoreStops ==
  ASSUME ConstantsAssumption, StoreInv, Throws \/ Ends
  PROVE  StoreInv'
<1>1. Grows
  BY Same DEF Throws, Ends, StoreCutShort, CutShort
<1>2. op' = Nothing /\ rows' = rows /\ binning' \subseteq binning
  BY DEF Throws, Ends
<1>3. Versions'
  BY <1>1, <1>2, KeptStill, NothingAt DEF Versions, Grows
<1>4. file' \in Files /\ taken' \subseteq Bytes /\ NothingLost'
  <2>1. CASE UNCHANGED <<file, taken>>
    BY <1>1, <2>1, Stays DEF StoreInv, TypeOK
  <2>2. CASE op.at = "write" /\ file' = [file EXCEPT ![op.change.path] = Torn] /\ taken' = Takes(op.change.path)
    <3>1. PICK p \in Path : p = op.change.path
      BY <2>2, OpMoves DEF StoreInv, TypeOK, Change
    <3>2. file' \in Files
      BY <2>2 DEF StoreInv, TypeOK, Files, Bytes
    <3>3. CASE op.undo
      BY <1>1, <2>2, <3>2, <3>3, Stays DEF Takes, StoreInv, TypeOK
    <3>4. CASE ~op.undo
      BY <1>1, <2>2, <3>1, <3>2, <3>4, TakesSafe DEF Takes, StoreInv, Versions
    <3>5. QED
      BY <3>3, <3>4
  <2>3. QED
    BY <2>1, <2>2 DEF Throws, Ends, WriteCutShort
<1>5. TypeOK'
  <2>1. left' \in [changes : 0..MaxChanges, others : 0..MaxOthers, failures : 0..MaxFailures]
    BY DEF Throws, Ends, StoreInv, TypeOK
  <2>2. orderly' \in BOOLEAN
    <3>1. (orderly /\ ~Unlisted) \in BOOLEAN /\ (orderly /\ op.undo) \in BOOLEAN
      OBVIOUS
    <3>2. QED
      BY <3>1 DEF Throws, Ends, WriteCutShort
  <2>3. bin' = bin /\ ids' = ids /\ missed' = missed
    BY DEF Throws, Ends
  <2>4. QED
    BY <1>1, <1>2, <1>4, <2>1, <2>2, <2>3, NothingAt DEF StoreInv, TypeOK, Grows
<1>6. QED
  BY <1>3, <1>4, <1>5 DEF StoreInv

LEMMA StoreStep == ASSUME ConstantsAssumption, StoreInv, [Next]_vars PROVE StoreInv'
<1>1. CASE UNCHANGED vars
  BY <1>1 DEF vars, StoreInv, TypeOK, Versions, NothingLost, Kept, Safe, Readable
<1>2. CASE Next
  <2>1. ASSUME NEW p \in Path,
               \/ remove(p) \/ \E q \in Path : move(p, q)
               \/ \E c \in Content : write(p, c) \/ edit(p, c)
        PROVE  StoreInv'
    BY <2>1, StoreBegins
  <2>2. ASSUME NEW p \in Path, NEW b \in Content \cup {Absent}, Others(p, b) PROVE StoreInv'
    BY <2>2, StoreOthers
  <2>3. CASE \/ KeepText \/ Snapshot \/ SnapshotMisses \/ WriteFile \/ KeepNew \/ Rename
             \/ Record \/ Drop \/ Throws \/ Ends
    BY <2>3, StoreKept, StoreWrites, StoreLists, StoreStops
  <2>4. ASSUME NEW r \in rows, revert(r) PROVE StoreInv'
    BY <2>4, StoreReverts
  <2>5. ASSUME NEW o \in binning, Binned(o) \/ NotBinned(o) \/ Resumes(o) PROVE StoreInv'
    BY <2>5, StoreBins
  <2>6. QED
    BY <1>2, <2>1, <2>2, <2>3, <2>4, <2>5 DEF Next
<1>3. QED
  BY <1>1, <1>2

\* Every variable has its type, the store holds nothing but whole versions of what
\* the changes name, and what the tools are about to overwrite is kept.
THEOREM StoreInvariance == Spec => []StoreInv
<1>1. Init => StoreInv
  BY ConstantsAssumption, StoreInit
<1>2. StoreInv /\ [Next]_vars => StoreInv'
  BY ConstantsAssumption, StoreStep
<1>3. QED
  BY <1>1, <1>2, PTL DEF Spec

\* Every change that is listed can be undone, whatever cut the program short.
THEOREM ListedCanBeUndone == Spec => []UndoPossible
<1>1. StoreInv => UndoPossible
  BY DEF StoreInv, Versions, UndoPossible, Kept
<1>2. QED
  BY <1>1, StoreInvariance, PTL

\* What the tools took out of a file is kept somewhere.
THEOREM OldFilesAreKept == Spec => []NothingLost
<1>1. StoreInv => NothingLost
  BY DEF StoreInv
<1>2. QED
  BY <1>1, StoreInvariance, PTL

-----------------------------------------------------------------------------
(* The way back.  The files before each change are what undoing the next   *)
(* newer one makes of the files before that (LinkedIn), and the newest one *)
(* is undone from the files as they are, or as they will be (LastIn).      *)

NewestIn(R, r) == \A s \in R : s.id <= r.id
LastIn(R, f) == \A r \in R : NewestIn(R, r) => Undone(f, r) = r.was
NextIn(R, r, s) == r.id < s.id /\ ~ \E t \in R : r.id < t.id /\ t.id < s.id
LinkedIn(R) == \A r \in R, s \in R : NextIn(R, r, s) => Undone(s.was, r) = r.was

\* What was there before the change is what the change says.
Tells(r) ==
  IF r.action = "move" THEN r.was[r.path] = Absent /\ r.path # r.detail
  ELSE r.was[r.path] = r.before

\* Where a change stands
Changing(o, R, f) ==
  LET c == o.change
  IN /\ LastIn(R, c.was)
     /\ o.at # "drop"
     /\ o.at \in {"snapshot", "keepText", "write", "rename", "asked"} => f = c.was
     /\ o.at \in {"keepNew", "record", "binned"} => Undone(f, c) = c.was
     /\ o.at = "keepText" => c.action = "write" /\ c.before = Decoded(f[c.path]) /\ f[c.path] # Absent
     /\ o.at = "rename" <=> o.at \notin {"keepNew", "record", "binned"} /\ c.action = "move"
     /\ o.at = "rename" => f[c.detail] # Absent
     /\ o.at \in {"binned", "asked"} => c.action = "delete"
     /\ o.at \notin {"snapshot", "keepText"} => Tells(c)

\* Where undoing one stands
Undoing(o, R, f) ==
  LET c == o.change
  IN /\ c \in R /\ NewestIn(R, c)
     /\ o.at \in {"write", "rename", "asked", "binned", "drop"}
     /\ o.at \in {"write", "rename", "asked"} => LastIn(R, f)
     /\ o.at \in {"binned", "drop"} => f = c.was
     /\ o.at = "write" => c.action # "move" /\ o.new = c.before
     /\ o.at = "rename" => c.action = "move"
     /\ o.at = "asked" => c.action # "move" /\ c.before = Absent

Stands(o, R, f) == IF o.undo THEN Undoing(o, R, f) ELSE Changing(o, R, f)

Ordered ==
  /\ LinkedIn(rows)
  /\ \A r \in rows : Tells(r)
  /\ op # Nothing => binning = {} /\ Stands(op, rows, file)
  /\ \A o \in binning : binning = {o} /\ Stands(o, rows, file)
  /\ op = Nothing /\ binning = {} => LastIn(rows, file)

IdsOK ==
  /\ \A r \in rows : r.id <= ids
  /\ \A r \in rows, s \in rows : r.id = s.id => r = s

WayInv == StoreInv /\ IdsOK /\ (orderly => Ordered)

LEMMA UndoneTells == ASSUME NEW r \in Change, Tells(r) PROVE Undone(r.was, r) = r.was
BY DEF Undone, Tells, Change, Files

\* f and r, had another program made p hold b before
Put(f, p, b) == [f EXCEPT ![p] = b]
Shifted(r, p, b) == [r EXCEPT !.was[p] = b]

LEMMA ShiftedFields ==
  ASSUME NEW r \in Change, NEW p \in Path, NEW b \in Bytes \cup {Absent}
  PROVE  LET s == Shifted(r, p, b)
         IN /\ s.id = r.id /\ s.action = r.action /\ s.path = r.path /\ s.detail = r.detail
            /\ s.before = r.before /\ s.was = Put(r.was, p, b)
BY DEF Change, Shifted, Put

LEMMA UndoneAway ==
  ASSUME NEW r \in Change, NEW f \in Files, NEW p \in Path, NEW b \in Bytes \cup {Absent},
         ~Involves(r, p)
  PROVE  Undone(Put(f, p, b), Shifted(r, p, b)) = Put(Undone(f, r), p, b)
<1>1. r.path \in Path /\ r.detail \in Path /\ p # r.path /\ p # r.detail
  BY DEF Involves, Change
<1>2. PICK g \in Files : g = [f EXCEPT ![p] = b]
  BY DEF Files
<1>3. PICK q : q = Shifted(r, p, b)
  OBVIOUS
<1>4. q.path = r.path /\ q.detail = r.detail /\ q.action = r.action /\ q.before = r.before
  BY <1>3, ShiftedFields
<1>5. Undone(g, q) = [Undone(f, r) EXCEPT ![p] = b]
  BY <1>1, <1>2, <1>4 DEF Undone, Files
<1>6. QED
  BY <1>2, <1>3, <1>5 DEF Put

LEMMA WayInit == ASSUME ConstantsAssumption, Init PROVE WayInv
BY StoreInit DEF Init, WayInv, IdsOK, Ordered, LinkedIn, LastIn

LEMMA WayTypes ==
  ASSUME StoreInv
  PROVE  /\ file \in Files /\ rows \subseteq Change
         /\ op.at = "nothing" <=> op = Nothing
         /\ op # Nothing => op.change \in Change /\ op.undo \in BOOLEAN
         /\ \A o \in binning : o.change \in Change /\ o.undo \in BOOLEAN /\ o.at \in {"asked", "binned"}
BY OpMoves, NothingAt DEF StoreInv, TypeOK, Versions

LEMMA WayBegins ==
  ASSUME ConstantsAssumption, WayInv, NEW p \in Path, orderly',
         \/ remove(p) \/ \E q \in Path : move(p, q)
         \/ \E c \in Content : write(p, c) \/ edit(p, c)
  PROVE  Ordered'
<1>1. PICK at \in {"snapshot", "keepText", "rename"}, action \in {"write", "move", "delete"},
           to \in Path, from \in Path, before \in Bytes \cup {Absent}, new \in Bytes \cup {Absent} :
        /\ Begin(at, action, to, from, before, new)
        /\ at = "keepText" => action = "write" /\ before = Decoded(file[to]) /\ file[to] # Absent
        /\ at = "rename" <=> action = "move"
        /\ at = "rename" => file[from] # Absent /\ file[to] = Absent
  BY DEF write, edit, move, remove, WayInv, StoreInv, TypeOK, Files, Bytes, Decoded
<1>2. /\ op = Nothing /\ binning = {} /\ Ordered
      /\ binning' = {} /\ rows' = rows /\ file' = file /\ LastIn(rows, file)
  BY <1>1 DEF Begin, Idle, WayInv, Ordered
<1>3. PICK c : c = [id |-> 0, action |-> action, path |-> to, detail |-> from, before |-> before, was |-> file]
  OBVIOUS
<1>4. /\ op'.at = at /\ op'.undo = FALSE /\ op'.change = c
      /\ c.action = action /\ c.path = to /\ c.detail = from /\ c.before = before /\ c.was = file
  BY <1>1, <1>3 DEF Begin
<1>5. Changing(op', rows, file)
  <2>1. at = "rename" => Tells(c)
    BY <1>1, <1>4 DEF Tells
  <2>2. QED
    BY <1>1, <1>2, <1>4, <2>1 DEF Changing
<1>6. QED
  BY <1>2, <1>4, <1>5 DEF Ordered, Stands, Nothing

LEMMA WayKept ==
  ASSUME ConstantsAssumption, WayInv, KeepText \/ Snapshot, orderly'
  PROVE  Ordered'
<1>1. op # Nothing /\ orderly /\ op.at \in {"keepText", "snapshot"}
  BY NothingAt DEF KeepText, Snapshot, WayInv, StoreInv, TypeOK
<1>2. /\ Ordered /\ binning = {} /\ op.change \in Change /\ file \in Files
      /\ rows' = rows /\ file' = file
  BY <1>1, WayTypes DEF WayInv, Ordered, KeepText, Snapshot
<1>3. op.undo = FALSE /\ Changing(op, rows, file)
  BY <1>1, <1>2, WayTypes DEF WayInv, Ordered, Stands, Undoing
<1>4. PICK c \in Change : Onward(c) /\ Tells(c) /\ c.was = op.change.was /\ c.action = op.change.action
                          /\ c.action # "move"
  <2>1. CASE KeepText
    <3>1. op.at = "keepText" /\ op.change.before = file[op.change.path] /\ Onward(op.change)
      BY <1>1, <1>2, <1>3, <2>1 DEF KeepText, Changing, Decoded
    <3>2. Tells(op.change) /\ op.change.action = "write"
      BY <1>3, <3>1 DEF Changing, Tells
    <3>3. QED
      BY <1>2, <3>1, <3>2
  <2>2. CASE Snapshot
    <3>1. PICK b \in Bytes \cup {Absent} : b = file[op.change.path]
      BY <1>2 DEF Files, Change
    <3>2. PICK c \in Change : c = [op.change EXCEPT !.before = b]
      BY <1>2, ChangeIsRecord
    <3>3. /\ c.was = op.change.was /\ c.action = op.change.action /\ c.path = op.change.path
          /\ c.before = b
      BY <1>2, <3>2 DEF Change
    <3>4. c.action # "move" /\ op.change.was = file /\ Onward(c)
      BY <1>3, <2>2, <3>1, <3>2, <3>3 DEF Snapshot, Changing
    <3>5. QED
      BY <3>1, <3>3, <3>4 DEF Tells
  <2>3. QED
    BY <2>1, <2>2
<1>5. PICK at \in {"write", "asked"} : \E u :
        /\ u = [op EXCEPT !.at = at, !.change = c]
        /\ at = "asked" => c.action = "delete"
        /\ \/ at = "write" /\ op' = u /\ binning' = {}
           \/ at = "asked" /\ op' = Nothing /\ binning' = {u}
  BY <1>2, <1>4 DEF Onward
<1> PICK u :
        /\ u = [op EXCEPT !.at = at, !.change = c]
        /\ at = "asked" => c.action = "delete"
        /\ \/ at = "write" /\ op' = u /\ binning' = {}
           \/ at = "asked" /\ op' = Nothing /\ binning' = {u}
  BY <1>5
<1>6. u.at = at /\ u.undo = FALSE /\ u.change = c
  BY <1>1, <1>3, <1>5 DEF WayInv, StoreInv, TypeOK, Op, Nothing
<1>7. Changing(u, rows, file)
  BY <1>1, <1>3, <1>4, <1>5, <1>6 DEF Changing
<1>8. QED
  BY <1>2, <1>5, <1>6, <1>7, NothingAt DEF Ordered, Stands

LEMMA WayWrites ==
  ASSUME ConstantsAssumption, WayInv, WriteFile \/ KeepNew \/ Rename, orderly'
  PROVE  Ordered'
<1>1. op # Nothing /\ orderly /\ op.at \in {"write", "keepNew", "rename"}
  BY NothingAt DEF WriteFile, KeepNew, Rename, WayInv, StoreInv, TypeOK
<1>2. /\ Ordered /\ binning = {} /\ file \in Files
      /\ rows' = rows /\ binning' = binning /\ Stands(op, rows, file)
  BY <1>1, WayTypes DEF WayInv, Ordered, WriteFile, KeepNew, Rename
<1>3. PICK c \in Change : c = op.change /\ c.path \in Path /\ c.detail \in Path
  BY <1>1, WayTypes DEF WayInv, Change
<1>4. op.undo \in BOOLEAN
  BY <1>1, WayTypes DEF WayInv
<1>5. ASSUME NEW at \in At, op' = [op EXCEPT !.at = at]
      PROVE  op' # Nothing /\ op'.at = at /\ op'.undo = op.undo /\ op'.change = c
  <2>1. op \in Op /\ op.at # "nothing"
    BY <1>1 DEF WayInv, StoreInv, TypeOK
  <2>2. op'.at = at /\ op'.undo = op.undo /\ op'.change = op.change
    BY <1>5, <2>1, OpMoves
  <2>3. at # "nothing"
    BY DEF At
  <2>4. QED
    BY <1>3, <2>2, <2>3, NothingAt
<1>6. CASE KeepNew
  <2>1. op' # Nothing /\ op'.at = "record" /\ op'.undo = op.undo /\ op'.change = c /\ file' = file
    BY <1>5, <1>6 DEF KeepNew, Goes, At
  <2>2. op.at = "keepNew" /\ Changing(op, rows, file) /\ ~op.undo
    BY <1>2, <1>4, <1>6 DEF KeepNew, Stands, Undoing
  <2>3. Changing(op', rows', file')
    BY <1>2, <1>3, <2>1, <2>2 DEF Changing
  <2>4. QED
    BY <1>2, <2>1, <2>2, <2>3 DEF Ordered, Stands
<1>7. CASE op.undo /\ (WriteFile \/ Rename)
  <2>1. Undoing(op, rows, file)
    BY <1>2, <1>7 DEF Stands
  <2>2. Undone(file, c) = c.was /\ c \in rows /\ NewestIn(rows, c) /\ LastIn(rows, file)
    BY <1>1, <1>3, <1>7, <2>1 DEF Undoing, LastIn, WriteFile, Rename
  <2>3. CASE op' = Nothing /\ file' = file
    BY <1>2, <2>2, <2>3 DEF Ordered
  <2>4. CASE op' = [op EXCEPT !.at = "drop"] /\ file' = c.was
    <3>1. op' # Nothing /\ op'.at = "drop" /\ op'.undo /\ op'.change = c
      BY <1>5, <1>7, <2>4 DEF At
    <3>2. Undoing(op', rows', file')
      BY <1>2, <2>2, <2>4, <3>1 DEF Undoing
    <3>3. QED
      BY <1>2, <3>1, <3>2 DEF Ordered, Stands
  <2>5. CASE WriteFile
    <3>1. op.at = "write" /\ c.action # "move" /\ op.new = c.before
      BY <1>3, <2>1, <2>5 DEF WriteFile, Undoing
    <3>2. op' = [op EXCEPT !.at = "drop"] /\ file' = [file EXCEPT ![c.path] = c.before]
      BY <1>3, <1>7, <2>5, <3>1 DEF WriteFile, Goes
    <3>3. QED
      BY <2>2, <2>4, <3>1, <3>2 DEF Undone
  <2>6. CASE Rename
    <3>1. op.at = "rename" /\ c.action = "move"
      BY <1>3, <2>1, <2>6 DEF Rename, Undoing
    <3>2. CASE file[c.path] # Absent
      <4>1. /\ op' = [op EXCEPT !.at = "drop"]
            /\ file' = [file EXCEPT ![c.detail] = file[c.path], ![c.path] = Absent]
        BY <1>3, <1>7, <2>6, <3>2 DEF Rename, Goes
      <4>2. QED
        BY <2>2, <2>4, <3>1, <3>2, <4>1 DEF Undone
    <3>3. CASE file[c.path] = Absent
      BY <1>3, <1>7, <2>3, <2>6, <3>3 DEF Rename
    <3>4. QED
      BY <3>2, <3>3
  <2>7. QED
    BY <1>7, <2>5, <2>6
<1>8. CASE ~op.undo /\ WriteFile
  <2>1. Changing(op, rows, file) /\ op.at = "write"
    BY <1>2, <1>8 DEF Stands, WriteFile
  <2>2. file = c.was /\ Tells(c) /\ c.action # "move" /\ LastIn(rows, c.was)
    BY <1>3, <2>1 DEF Changing
  <2>3. op' # Nothing /\ op'.at = "keepNew" /\ op'.undo = op.undo /\ op'.change = c
    BY <1>5, <1>8 DEF WriteFile, Goes, At
  <2>4. file' = [file EXCEPT ![c.path] = op.new]
    BY <1>3, <1>8 DEF WriteFile
  <2>5. Undone(file', c) = c.was
    BY <1>2, <1>3, <2>2, <2>4 DEF Undone, Tells, Files
  <2>6. Changing(op', rows', file')
    BY <1>2, <2>2, <2>3, <2>5 DEF Changing
  <2>7. QED
    BY <1>2, <1>8, <2>3, <2>6 DEF Ordered, Stands
<1>9. CASE ~op.undo /\ Rename
  <2>1. Changing(op, rows, file) /\ op.at = "rename"
    BY <1>2, <1>9 DEF Stands, Rename
  <2>2. /\ file = c.was /\ Tells(c) /\ c.action = "move" /\ LastIn(rows, c.was)
        /\ file[c.detail] # Absent /\ file[c.path] = Absent /\ c.path # c.detail
    BY <1>3, <2>1 DEF Changing, Tells
  <2>3. /\ op' = [op EXCEPT !.at = "record"]
        /\ file' = [file EXCEPT ![c.path] = file[c.detail], ![c.detail] = Absent]
    BY <1>3, <1>9, <2>2 DEF Rename, Goes
  <2>4. op' # Nothing /\ op'.at = "record" /\ op'.undo = op.undo /\ op'.change = c
    BY <1>5, <2>3 DEF At
  <2>5. Undone(file', c) = c.was
    BY <1>2, <1>3, <2>2, <2>3 DEF Undone, Files
  <2>6. Changing(op', rows', file')
    BY <1>2, <2>2, <2>4, <2>5 DEF Changing
  <2>7. QED
    BY <1>2, <1>9, <2>4, <2>6 DEF Ordered, Stands
<1>10. QED
  BY <1>4, <1>6, <1>7, <1>8, <1>9

LEMMA WayLists ==
  ASSUME ConstantsAssumption, WayInv, Record \/ Drop
  PROVE  IdsOK' /\ (orderly' => Ordered')
<1>1. op # Nothing /\ op.at \in {"record", "drop"} /\ op.change \in Change /\ rows \subseteq Change /\ ids \in Nat
  BY NothingAt, WayTypes DEF Record, Drop, WayInv, StoreInv, TypeOK
<1>2. PICK c \in Change : c = op.change
  BY <1>1
<1>3. \A r \in rows : r.id \in Nat /\ r.id <= ids
  BY <1>1 DEF WayInv, IdsOK, Change
<1>4. CASE Record
  <2>1. PICK n \in Change : n = [op.change EXCEPT !.id = ids + 1]
    <3>1. ids + 1 \in Nat
      BY <1>1
    <3>2. [op.change EXCEPT !.id = ids + 1] \in Change
      BY <1>1, <3>1, ChangeIsRecord
    <3>3. QED
      BY <3>2
  <2>2. /\ n.id = ids + 1 /\ n.was = c.was /\ n.path = c.path /\ n.detail = c.detail
        /\ n.action = c.action /\ n.before = c.before
    BY <1>2, <2>1 DEF Change
  <2>3. rows' = rows \cup {n} /\ ids' = ids + 1 /\ op' = Nothing /\ binning' = binning /\ file' = file
    BY <1>4, <2>1 DEF Record
  <2>4. IdsOK'
    BY <1>1, <1>3, <2>2, <2>3 DEF WayInv, IdsOK
  <2>5. ASSUME orderly'
        PROVE  Ordered'
    <3>1. Ordered /\ binning = {} /\ Changing(op, rows, file)
      BY <1>1, <1>4, <2>5, WayTypes DEF Record, WayInv, Ordered, Stands, Undoing
    <3>2. Undone(file, c) = c.was /\ Tells(c) /\ LastIn(rows, c.was)
      BY <1>2, <1>4, <3>1 DEF Changing, Record
    <3>3. Undone(file, n) = n.was /\ Tells(n)
      BY <2>2, <3>2 DEF Undone, Tells
    <3>4. LastIn(rows', file)
      BY <1>1, <1>3, <2>2, <2>3, <3>3 DEF LastIn, NewestIn
    <3>5. LinkedIn(rows')
      <4>1. SUFFICES ASSUME NEW r \in rows', NEW s \in rows', NextIn(rows', r, s)
                     PROVE  Undone(s.was, r) = r.was
        BY DEF LinkedIn
      <4>2. CASE s = n
        <5>1. r \in rows /\ NewestIn(rows, r)
          BY <1>1, <1>3, <2>2, <2>3, <4>1, <4>2 DEF NextIn, NewestIn
        <5>2. QED
          BY <2>2, <3>2, <4>2, <5>1 DEF LastIn
      <4>3. CASE s # n
        <5>1. r \in rows /\ s \in rows /\ NextIn(rows, r, s)
          BY <1>1, <1>3, <2>2, <2>3, <4>1, <4>3 DEF NextIn
        <5>2. QED
          BY <3>1, <5>1 DEF Ordered, LinkedIn
      <4>4. QED
        BY <4>2, <4>3
    <3>6. QED
      BY <2>3, <3>1, <3>3, <3>4, <3>5 DEF Ordered
  <2>6. QED
    BY <2>4, <2>5
<1>5. CASE Drop
  <2>1. /\ rows' = {r \in rows : r.id # c.id} /\ ids' = ids /\ op' = Nothing
        /\ binning' = binning /\ file' = file
    BY <1>2, <1>5 DEF Drop
  <2>2. IdsOK'
    BY <2>1 DEF WayInv, IdsOK
  <2>3. ASSUME orderly'
        PROVE  Ordered'
    <3>1. Ordered /\ binning = {} /\ Undoing(op, rows, file)
      BY <1>1, <1>5, <2>3, WayTypes DEF Drop, WayInv, Ordered, Stands, Changing
    <3>2. c \in rows /\ NewestIn(rows, c) /\ file = c.was
      BY <1>2, <1>5, <3>1 DEF Undoing, Drop
    <3>3. \A r \in rows' : r \in rows /\ r.id \in Nat /\ r.id < c.id
      BY <1>3, <2>1, <3>2 DEF NewestIn
    <3>4. LastIn(rows', file)
      <4>1. SUFFICES ASSUME NEW r \in rows', NewestIn(rows', r) PROVE Undone(file, r) = r.was
        BY DEF LastIn
      <4>2. NextIn(rows, r, c)
        BY <1>3, <2>1, <3>2, <3>3, <4>1 DEF NextIn, NewestIn
      <4>3. QED
        BY <3>1, <3>2, <3>3, <4>2 DEF Ordered, LinkedIn
    <3>5. LinkedIn(rows')
      <4>1. SUFFICES ASSUME NEW r \in rows', NEW s \in rows', NextIn(rows', r, s)
                     PROVE  Undone(s.was, r) = r.was
        BY DEF LinkedIn
      <4>2. NextIn(rows, r, s)
        BY <1>3, <2>1, <3>2, <3>3, <4>1 DEF NextIn
      <4>3. QED
        BY <3>1, <3>3, <4>2 DEF Ordered, LinkedIn
    <3>6. QED
      BY <2>1, <3>1, <3>3, <3>4, <3>5 DEF Ordered
  <2>4. QED
    BY <2>2, <2>3
<1>6. QED
  BY <1>4, <1>5

LEMMA WayReverts ==
  ASSUME ConstantsAssumption, WayInv, NEW r \in rows, revert(r), orderly'
  PROVE  Ordered'
<1>1. /\ Ordered /\ op = Nothing /\ binning = {} /\ LastIn(rows, file) /\ NewestIn(rows, r)
      /\ rows' = rows /\ file' = file
  BY DEF revert, Idle, Newest, NewestIn, WayInv, Ordered
<1>2. r \in Change /\ file \in Files /\ r.path \in Path
  BY WayTypes DEF WayInv, Change
<1>3. PICK u : u = [at |-> Back(r), undo |-> TRUE, change |-> r, new |-> r.before]
  OBVIOUS
<1>4. \/ op' = Nothing /\ binning' = {u} /\ u.at = "asked"
      \/ op' = u /\ binning' = {} /\ u.at # "asked"
  BY <1>1, <1>3 DEF revert
<1>5. u.at = Back(r) /\ u.undo = TRUE /\ u.change = r /\ u.new = r.before /\ u # Nothing
  BY <1>3 DEF Nothing
<1>6. Back(r) = "drop" => file = r.was
  <2>1. Undone(file, r) = r.was
    BY <1>1 DEF LastIn
  <2>2. QED
    BY <1>2, <2>1 DEF Back, Undone, Files
<1>7. Undoing(u, rows, file)
  BY <1>1, <1>5, <1>6 DEF Undoing, Back
<1>8. QED
  BY <1>1, <1>4, <1>5, <1>7 DEF Ordered, Stands

LEMMA WayBins ==
  ASSUME ConstantsAssumption, WayInv, NEW o \in binning, Binned(o) \/ NotBinned(o) \/ Resumes(o), orderly'
  PROVE  Ordered'
<1>1. /\ orderly /\ Ordered /\ op = Nothing /\ binning = {o} /\ rows' = rows
      /\ Stands(o, rows, file) /\ o.at \in {"asked", "binned"}
  BY WayTypes DEF Binned, NotBinned, Resumes, WayInv, Ordered
<1>2. PICK c \in Change : c = o.change /\ c.path \in Path
  BY WayTypes DEF WayInv, Change
<1>3. o \in Op /\ o.at # "nothing" /\ o.undo \in BOOLEAN /\ file \in Files
  BY <1>1, WayTypes DEF WayInv, StoreInv, TypeOK
<1>4. CASE Binned(o)
  <2>1. PICK u : u = [o EXCEPT !.at = "binned"]
    OBVIOUS
  <2>2. u.at = "binned" /\ u.undo = o.undo /\ u.change = c
    BY <1>2, <1>3, <2>1, OpMoves DEF At
  <2>3. /\ op' = Nothing /\ binning' = {u} /\ o.at = "asked"
        /\ file' = [file EXCEPT ![c.path] = Absent]
    BY <1>1, <1>2, <1>4, <2>1 DEF Binned
  <2>4. CASE o.undo
    <3>1. Undoing(o, rows, file)
      BY <1>1, <2>4 DEF Stands
    <3>2. Undone(file, c) = c.was /\ c.action # "move" /\ c.before = Absent
      BY <1>2, <2>3, <3>1 DEF Undoing, LastIn
    <3>3. file' = c.was
      BY <2>3, <3>2 DEF Undone
    <3>4. Undoing(u, rows, file')
      BY <1>2, <2>2, <3>1, <3>3 DEF Undoing
    <3>5. QED
      BY <1>1, <2>2, <2>3, <2>4, <3>4 DEF Ordered, Stands
  <2>5. CASE ~o.undo
    <3>1. Changing(o, rows, file)
      BY <1>1, <2>5 DEF Stands
    <3>2. file = c.was /\ c.action = "delete" /\ Tells(c) /\ LastIn(rows, c.was)
      BY <1>2, <2>3, <3>1 DEF Changing
    <3>3. Undone(file', c) = c.was
      BY <1>2, <1>3, <2>3, <3>2 DEF Undone, Tells, Files
    <3>4. Changing(u, rows, file')
      BY <2>2, <3>2, <3>3 DEF Changing
    <3>5. QED
      BY <1>1, <2>2, <2>3, <2>5, <3>4 DEF Ordered, Stands
  <2>6. QED
    BY <1>3, <2>4, <2>5
<1>5. CASE NotBinned(o)
  <2>1. op' = Nothing /\ binning' = {} /\ file' = file /\ o.at = "asked"
    BY <1>1, <1>5 DEF NotBinned
  <2>2. LastIn(rows, file)
    BY <1>1, <2>1 DEF Stands, Undoing, Changing
  <2>3. QED
    BY <1>1, <2>1, <2>2 DEF Ordered
<1>6. CASE Resumes(o)
  <2> PICK at \in {"drop", "record"} : at = (IF o.undo THEN "drop" ELSE "record")
    OBVIOUS
  <2>1. PICK u : u = [o EXCEPT !.at = at]
    OBVIOUS
  <2>2. u.at = at /\ u.undo = o.undo /\ u.change = c
    <3>1. at \in At
      BY DEF At
    <3>2. QED
      BY <1>2, <1>3, <2>1, <3>1, OpMoves, ZenonT(60)
  <2>3. op' = u /\ binning' = {} /\ file' = file /\ o.at = "binned"
    BY <1>1, <1>6, <2>1 DEF Resumes
  <2>4. Stands(u, rows, file)
    <3>1. CASE o.undo
      <4>1. Undoing(o, rows, file)
        BY <1>1, <3>1 DEF Stands
      <4>2. Undoing(u, rows, file)
        BY <1>2, <2>1, <2>2, <2>3, <3>1, <4>1 DEF Undoing
      <4>3. QED
        BY <2>2, <3>1, <4>2 DEF Stands
    <3>2. CASE ~o.undo
      <4>1. Changing(o, rows, file)
        BY <1>1, <3>2 DEF Stands
      <4>2. Changing(u, rows, file)
        BY <1>2, <2>1, <2>2, <2>3, <3>2, <4>1 DEF Changing
      <4>3. QED
        BY <2>2, <3>2, <4>2 DEF Stands
    <3>3. QED
      BY <1>3, <3>1, <3>2
  <2>5. u # Nothing
    BY <2>1, <2>2, NothingAt
  <2>6. QED
    BY <1>1, <2>3, <2>4, <2>5 DEF Ordered
<1>7. QED
  BY <1>4, <1>5, <1>6

\* A file that no change involves may become anything.
LEMMA ElsewhereKeeps ==
  ASSUME NEW R \in SUBSET Change, NEW p \in Path, NEW b \in Bytes \cup {Absent},
         \A r \in R : ~Involves(r, p),
         NEW S, \A s \in S : \E r \in R : s = Shifted(r, p, b),
         \A r \in R : Shifted(r, p, b) \in S
  PROVE  /\ LinkedIn(R) => LinkedIn(S)
         /\ \A f \in Files : LastIn(R, f) => LastIn(S, Put(f, p, b))
         /\ (\A r \in R : Tells(r)) => \A s \in S : Tells(s)
<1> DEFINE M(r) == Shifted(r, p, b)
<1>1. ASSUME NEW r \in R
      PROVE  /\ M(r).id = r.id /\ M(r).action = r.action /\ M(r).path = r.path
             /\ M(r).detail = r.detail /\ M(r).before = r.before
             /\ M(r).was = Put(r.was, p, b) /\ r.was \in Files
  BY ShiftedFields DEF Change
<1>2. \A s \in S : \E r \in R : s = M(r)
  OBVIOUS
<1>3. \A r \in R : M(r) \in S
  OBVIOUS
<1>4. ASSUME NEW r \in R, NEW f \in Files, Undone(f, r) = r.was
      PROVE  Undone(Put(f, p, b), M(r)) = M(r).was
  BY <1>1, <1>4, UndoneAway
<1>5. ASSUME LinkedIn(R) PROVE LinkedIn(S)
  <2> SUFFICES ASSUME NEW s \in S, NEW t \in S, NextIn(S, s, t)
               PROVE  Undone(t.was, s) = s.was
    BY DEF LinkedIn
  <2> PICK r \in R, q \in R : s = M(r) /\ t = M(q)
    BY <1>2
  <2>1. NextIn(S, M(r), M(q))
    OBVIOUS
  <2>2. NextIn(R, r, q)
    <3>1. M(r).id = r.id /\ M(q).id = q.id /\ \A v \in R : M(v).id = v.id /\ M(v) \in S
      BY <1>1, <1>3
    <3>2. QED
      BY <2>1, <3>1 DEF NextIn
  <2>3. Undone(q.was, r) = r.was
    BY <1>5, <2>2 DEF LinkedIn
  <2>4. QED
    BY <1>1, <1>4, <2>3
<1>6. ASSUME NEW f \in Files, LastIn(R, f) PROVE LastIn(S, Put(f, p, b))
  <2> SUFFICES ASSUME NEW s \in S, NewestIn(S, s)
               PROVE  Undone(Put(f, p, b), s) = s.was
    BY DEF LastIn
  <2> PICK r \in R : s = M(r)
    BY <1>2
  <2>1. NewestIn(S, M(r))
    OBVIOUS
  <2>2. NewestIn(R, r)
    <3>1. M(r).id = r.id /\ \A t \in R : M(t).id = t.id /\ M(t) \in S
      BY <1>1, <1>3
    <3>2. QED
      BY <2>1, <3>1 DEF NewestIn
  <2>3. Undone(f, r) = r.was
    BY <1>6, <2>2 DEF LastIn
  <2>4. QED
    BY <1>4, <2>3
<1>7. ASSUME NEW r \in R, Tells(r) PROVE Tells(M(r))
  <2>1. p # r.path /\ r.path \in Path
    BY DEF Involves, Change
  <2>2. M(r).was[r.path] = r.was[r.path]
    BY <1>1, <2>1 DEF Files, Put
  <2>3. QED
    BY <1>1, <1>7, <2>2 DEF Tells
<1>8. QED
  BY <1>2, <1>5, <1>6, <1>7

LEMMA WayOthers ==
  ASSUME ConstantsAssumption, WayInv, NEW p \in Path, NEW b \in Content \cup {Absent}, Others(p, b)
  PROVE  IdsOK' /\ (orderly' => Ordered')
<1>1. op = Nothing /\ op' = Nothing /\ ids' = ids /\ file' = Put(file, p, b) /\ b \in Bytes \cup {Absent}
  BY DEF Others, Idle, Bytes, Put
<1>2. rows \subseteq Change /\ file \in Files
  BY WayTypes DEF WayInv
<1>3. IdsOK'
  <2>1. CASE rows' = rows
    BY <1>1, <2>1 DEF WayInv, IdsOK
  <2>2. CASE rows' = {Shifted(r, p, b) : r \in rows}
    <3>1. \A s \in rows' : \E r \in rows : s = Shifted(r, p, b) /\ s.id = r.id
      BY <1>1, <1>2, <2>2, ShiftedFields
    <3>2. QED
      BY <1>1, <3>1 DEF WayInv, IdsOK
  <2>3. QED
    BY <2>1, <2>2 DEF Others, Shifted
<1>4. ASSUME orderly' PROVE Ordered'
  <2>1. /\ Ordered
        /\ \A o \in binning : ~Involves(o.change, p)
        /\ \A r \in rows : ~Involves(r, p)
        /\ rows' = {Shifted(r, p, b) : r \in rows}
        /\ binning' = {[o EXCEPT !.change.was[p] = b] : o \in binning}
    BY <1>4 DEF Others, WayInv, Shifted
  <2>2. /\ LinkedIn(rows')
        /\ \A f \in Files : LastIn(rows, f) => LastIn(rows', Put(f, p, b))
        /\ \A r \in rows' : Tells(r)
    <3>1. PICK R \in SUBSET Change : R = rows
      BY <1>2
    <3>2. PICK S : S = {Shifted(r, p, b) : r \in R}
      OBVIOUS
    <3>3. /\ LinkedIn(R) => LinkedIn(S)
          /\ \A f \in Files : LastIn(R, f) => LastIn(S, Put(f, p, b))
          /\ (\A r \in R : Tells(r)) => \A s \in S : Tells(s)
      <4>1. \A r \in R : ~Involves(r, p)
        BY <2>1, <3>1
      <4>2. b \in Bytes \cup {Absent}
        BY <1>1
      <4>3. QED
        <5>1. /\ \A s \in S : \E r \in R : s = Shifted(r, p, b)
              /\ \A r \in R : Shifted(r, p, b) \in S
          BY <3>2
        <5>2. QED
          BY <4>1, <4>2, <5>1, ElsewhereKeeps
    <3>4. S = rows'
      BY <2>1, <3>1, <3>2
    <3>5. QED
      BY <2>1, <3>1, <3>3, <3>4 DEF Ordered
  <2>3. ASSUME NEW o \in binning, NEW u, u = [o EXCEPT !.change.was[p] = b]
        PROVE  binning' = {u} /\ Stands(u, rows', file')
    <3>1. /\ binning = {o} /\ Stands(o, rows, file) /\ o.at \in {"asked", "binned"}
          /\ o.change \in Change /\ o.undo \in BOOLEAN
      BY <2>1, WayTypes DEF Ordered, WayInv
    <3>2. PICK c \in Change : c = o.change /\ c.path \in Path /\ c.detail \in Path /\ c.was \in Files
      BY <3>1 DEF Change
    <3>3. PICK d : d = Shifted(c, p, b)
      OBVIOUS
    <3>4. /\ d.path = c.path /\ d.detail = c.detail /\ d.action = c.action /\ d.before = c.before
          /\ d.id = c.id /\ d.was = Put(c.was, p, b)
      BY <1>1, <3>2, <3>3, ShiftedFields
    <3>5. u.at = o.at /\ u.undo = o.undo /\ u.change = d
      <4>1. o \in [at : At, undo : BOOLEAN, change : Change, new : Bytes \cup {Absent}]
        BY <3>1, NothingAt DEF WayInv, StoreInv, TypeOK, Op, At, Nothing
      <4>2. QED
        BY <2>3, <3>2, <3>3, <4>1 DEF Shifted
    <3>6. ~Involves(c, p) /\ (Undone(file, c) = c.was => Undone(file', d) = d.was)
      <4>1. ~Involves(c, p)
        BY <2>1, <3>2
      <4>2. Undone(Put(file, p, b), Shifted(c, p, b)) = Put(Undone(file, c), p, b)
        BY <1>1, <1>2, <4>1, UndoneAway
      <4>3. QED
        BY <1>1, <3>3, <3>4, <4>1, <4>2
    <3>7. Tells(c) => Tells(d)
      BY <3>2, <3>4, <3>6 DEF Tells, Involves, Files, Put
    <3>8. CASE o.undo
      <4>1. Undoing(o, rows, file)
        BY <3>1, <3>8 DEF Stands
      <4>2. c \in rows /\ d \in rows' /\ NewestIn(rows, c)
        BY <2>1, <3>2, <3>3, <4>1 DEF Undoing
      <4>3. NewestIn(rows', d)
        <5>1. \A r \in rows : Shifted(r, p, b).id = r.id
          BY <1>1, <1>2, ShiftedFields
        <5>2. QED
          BY <2>1, <3>4, <4>2, <5>1 DEF NewestIn
      <4>4. o.at = "asked" => LastIn(rows', file')
        BY <1>1, <1>2, <2>2, <4>1 DEF Undoing
      <4>5. o.at = "binned" => file' = d.was
        BY <1>1, <3>2, <3>4, <4>1 DEF Undoing
      <4>6. Undoing(u, rows', file')
        BY <3>1, <3>2, <3>4, <3>5, <4>1, <4>2, <4>3, <4>4, <4>5 DEF Undoing
      <4>7. QED
        BY <2>1, <2>3, <3>1, <3>5, <3>8, <4>6 DEF Stands
    <3>9. CASE ~o.undo
      <4>1. Changing(o, rows, file)
        BY <3>1, <3>9 DEF Stands
      <4>2. LastIn(rows', d.was)
        BY <2>2, <3>2, <3>4, <4>1 DEF Changing
      <4>3. Changing(u, rows', file')
        BY <1>1, <3>1, <3>2, <3>4, <3>5, <3>6, <3>7, <4>1, <4>2 DEF Changing
      <4>4. QED
        BY <2>1, <2>3, <3>1, <3>5, <3>9, <4>3 DEF Stands
    <3>10. QED
      BY <3>1, <3>8, <3>9
  <2>4. binning' = {} => LastIn(rows', file')
    <3>1. ASSUME binning' = {} PROVE binning = {}
      <4>1. \A o \in binning : [o EXCEPT !.change.was[p] = b] \in binning'
        BY <2>1
      <4>2. QED
        BY <3>1, <4>1
    <3>2. binning = {} => LastIn(rows, file)
      BY <1>1, <2>1 DEF Ordered
    <3>3. QED
      BY <1>1, <1>2, <2>2, <3>1, <3>2
  <2>5. \A u \in binning' : binning' = {u} /\ Stands(u, rows', file')
    BY <2>1, <2>3
  <2>6. QED
    BY <1>1, <2>2, <2>4, <2>5 DEF Ordered
<1>5. QED
  BY <1>3, <1>4

LEMMA WayStops ==
  ASSUME ConstantsAssumption, WayInv, Throws \/ Ends, orderly'
  PROVE  Ordered'
<1>1. /\ orderly /\ Ordered /\ rows' = rows /\ op' = Nothing /\ rows \subseteq Change /\ file \in Files
      /\ op # Nothing \/ binning # {}
  BY WayTypes DEF Throws, Ends, WriteCutShort, Idle, WayInv
<1>2. binning' = {}
  BY <1>1 DEF Throws, Ends, Idle, Ordered
<1>3. LastIn(rows, file')
  <2>1. CASE op # Nothing /\ file' = file
    <3>1. Stands(op, rows, file) /\ op.undo \in BOOLEAN /\ op.change \in Change
      BY <1>1, <2>1, WayTypes DEF WayInv, Ordered
    <3>2. op.undo \/ op.at \notin {"keepNew", "record"}
      <4>1. (orderly /\ ~Unlisted) \/ op.undo
        BY DEF Throws, Ends, WriteCutShort
      <4>2. QED
        BY <2>1, <4>1 DEF Unlisted
    <3>3. CASE op.undo
      <4>1. Undoing(op, rows, file)
        BY <3>1, <3>3 DEF Stands
      <4>2. Tells(op.change)
        BY <1>1, <4>1 DEF Undoing, Ordered
      <4>3. ASSUME file = op.change.was
            PROVE  LastIn(rows, file)
        <5>1. SUFFICES ASSUME NEW r \in rows, NewestIn(rows, r) PROVE Undone(file, r) = r.was
          BY DEF LastIn
        <5>2. r = op.change
          BY <1>1, <4>1, <5>1 DEF Undoing, NewestIn, WayInv, IdsOK, Change
        <5>3. QED
          BY <3>1, <4>2, <4>3, <5>2, UndoneTells
      <4>4. QED
        BY <2>1, <4>1, <4>3 DEF Undoing
    <3>4. CASE ~op.undo
      <4>1. Changing(op, rows, file)
        BY <3>1, <3>4 DEF Stands
      <4>2. op.at \in {"snapshot", "keepText", "write", "rename"}
        BY <1>1, <2>1, <3>2, <3>4, <4>1, NothingAt DEF Changing, WayInv, StoreInv, TypeOK, Versions, Op
      <4>3. QED
        BY <2>1, <4>1, <4>2 DEF Changing
    <3>5. QED
      BY <3>1, <3>3, <3>4
  <2>2. CASE op # Nothing /\ op.at = "write" /\ op.undo /\ file' = [file EXCEPT ![op.change.path] = Torn]
    <3>1. Undoing(op, rows, file)
      BY <1>1, <2>2 DEF Ordered, Stands
    <3>2. PICK c \in Change : c = op.change /\ c \in rows /\ NewestIn(rows, c) /\ c.action # "move"
                              /\ c.path \in Path /\ LastIn(rows, file)
      BY <1>1, <2>2, <3>1 DEF Undoing, Change
    <3>3. Undone(file', c) = c.was
      <4>1. Undone(file, c) = c.was
        BY <3>2 DEF LastIn
      <4>2. QED
        BY <1>1, <2>2, <3>2, <4>1 DEF Undone, Files
    <3>4. SUFFICES ASSUME NEW r \in rows, NewestIn(rows, r) PROVE Undone(file', r) = r.was
      BY DEF LastIn
    <3>5. r = c
      BY <1>1, <3>2, <3>4 DEF NewestIn, WayInv, IdsOK, Change
    <3>6. QED
      BY <3>3, <3>5
  <2>3. CASE op = Nothing
    <3>1. PICK o \in binning : Stands(o, rows, file) /\ o.change \in Change /\ o.undo \in BOOLEAN
                               /\ o.at \in {"asked", "binned"}
      BY <1>1, <2>3, WayTypes DEF WayInv, Ordered
    <3>2. file' = file /\ ~Unlisted
      <4>1. op.at = "nothing" /\ ~Throws
        BY <2>3, NothingAt DEF Throws, Idle
      <4>2. QED
        BY <1>1, <4>1 DEF Ends, WriteCutShort
    <3>3. CASE o.undo
      <4>1. Undoing(o, rows, file)
        BY <3>1, <3>3 DEF Stands
      <4>2. Tells(o.change)
        BY <1>1, <4>1 DEF Undoing, Ordered
      <4>3. ASSUME file = o.change.was
            PROVE  LastIn(rows, file)
        <5>1. SUFFICES ASSUME NEW r \in rows, NewestIn(rows, r) PROVE Undone(file, r) = r.was
          BY DEF LastIn
        <5>2. r = o.change
          BY <1>1, <4>1, <5>1 DEF Undoing, NewestIn, WayInv, IdsOK, Change
        <5>3. QED
          BY <3>1, <4>2, <4>3, <5>2, UndoneTells
      <4>4. QED
        BY <3>1, <3>2, <4>1, <4>3 DEF Undoing
    <3>4. CASE ~o.undo
      <4>1. Changing(o, rows, file) /\ o.at = "asked"
        BY <3>1, <3>2, <3>4 DEF Stands, Unlisted
      <4>2. QED
        BY <3>2, <4>1 DEF Changing
    <3>5. QED
      BY <3>1, <3>3, <3>4
  <2>4. QED
    BY <1>1, <2>1, <2>2, <2>3, NothingAt DEF Throws, Ends, WriteCutShort
<1>4. QED
  BY <1>1, <1>2, <1>3 DEF Ordered

LEMMA WayStep == ASSUME ConstantsAssumption, WayInv, [Next]_vars PROVE WayInv'
<1>1. StoreInv'
  BY StoreStep DEF WayInv
<1>2. ASSUME rows' = rows, ids' = ids PROVE IdsOK'
  BY <1>2 DEF WayInv, IdsOK
<1>3. CASE UNCHANGED vars
  BY <1>1, <1>3 DEF vars, WayInv, IdsOK, Ordered
<1>4. ASSUME NEW p \in Path,
             \/ remove(p) \/ \E q \in Path : move(p, q)
             \/ \E c \in Content : write(p, c) \/ edit(p, c)
      PROVE  WayInv'
  <2>1. rows' = rows /\ ids' = ids
    BY <1>4 DEF remove, move, write, edit, Begin
  <2>2. QED
    BY <1>1, <1>2, <1>4, <2>1, WayBegins DEF WayInv
<1>5. ASSUME NEW p \in Path, NEW b \in Content \cup {Absent}, Others(p, b) PROVE WayInv'
  BY <1>1, <1>5, WayOthers DEF WayInv
<1>6. CASE \/ KeepText \/ Snapshot \/ SnapshotMisses \/ WriteFile \/ KeepNew \/ Rename
           \/ Throws \/ Ends
  <2>1. rows' = rows /\ ids' = ids
    BY <1>6 DEF KeepText, Snapshot, SnapshotMisses, WriteFile, KeepNew, Rename, Throws, Ends
  <2>2. ~orderly' \/ ~SnapshotMisses
    BY DEF SnapshotMisses
  <2>3. QED
    BY <1>1, <1>2, <1>6, <2>1, <2>2, WayKept, WayWrites, WayStops DEF WayInv
<1>7. CASE Record \/ Drop
  BY <1>1, <1>7, WayLists DEF WayInv
<1>8. ASSUME NEW r \in rows, revert(r) PROVE WayInv'
  <2>1. rows' = rows /\ ids' = ids
    BY <1>8 DEF revert
  <2>2. QED
    BY <1>1, <1>2, <1>8, <2>1, WayReverts DEF WayInv
<1>9. ASSUME NEW o \in binning, Binned(o) \/ NotBinned(o) \/ Resumes(o) PROVE WayInv'
  <2>1. rows' = rows /\ ids' = ids
    BY <1>9 DEF Binned, NotBinned, Resumes
  <2>2. QED
    BY <1>1, <1>2, <1>9, <2>1, WayBins DEF WayInv
<1>10. CASE Next
  BY <1>4, <1>5, <1>6, <1>7, <1>8, <1>9, <1>10 DEF Next
<1>11. QED
  BY <1>3, <1>10

\* Undone from the newest to the oldest, the listed changes give the files as they were,
\* as long as they were made one after the other.
THEOREM UndoingLeadsBack == Spec => []UndoLeadsBack
<1>1. Init => WayInv
  BY ConstantsAssumption, WayInit
<1>2. WayInv /\ [Next]_vars => WayInv'
  BY ConstantsAssumption, WayStep
<1>3. WayInv => UndoLeadsBack
  <2>1. SUFFICES ASSUME WayInv, orderly, Idle, binning = {}, NEW r \in rows
                 PROVE  /\ Newest(r) => Undone(file, r) = r.was
                        /\ \A s \in rows : Follows(r, s) => Undone(s.was, r) = r.was
    BY DEF UndoLeadsBack
  <2>2. LastIn(rows, file) /\ LinkedIn(rows)
    BY <2>1 DEF WayInv, Ordered, Idle
  <2>3. QED
    BY <2>1, <2>2 DEF LastIn, NewestIn, Newest, LinkedIn, NextIn, Follows
<1>4. QED
  BY <1>1, <1>2, <1>3, PTL DEF Spec
=============================================================================
