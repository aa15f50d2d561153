------------------------- MODULE VaultStorageProofs -------------------------
(***************************************************************************)
(* What the storage adapters promise for any number of notes, contents and *)
(* retries.  StorageInv is the inductive invariant: the notice comes       *)
(* before any direct write, every index (in memory, on its way, on disk)   *)
(* names contents the server has, and an operation nobody raced still      *)
(* finds in its file what it saw.                                          *)
(***************************************************************************)
EXTENDS VaultStorage, TLAPS

\* The shape of an operation: which kinds reach which steps, and with what.
ShapeOK(o) ==
  /\ o.kind # "delete" => o.text \in Text
  /\ o.step = "planned" => o.target = o.path
  /\ o.step \in {"checked", "temp", "direct", "verify"} => o.kind = "write"
  /\ o.step \in {"copy", "remove"} => o.kind = "delete" /\ o.target = o.path

OpShape == op # None => ShapeOK(op)

-----------------------------------------------------------------------------
(* Types *)

\* The parts of an operation.
LEMMA OpParts ==
  ASSUME NEW o \in Operation
  PROVE  /\ o.kind \in {"write", "delete", "rename"}
         /\ o.path \in Path /\ o.from \in Path /\ o.target \in Path
         /\ o.text \in Text \cup {Gone}
         /\ o.bytes \in Text \cup {Torn, None}
         /\ o.step \in Step /\ o.tries \in Nat
         /\ o.raced \in BOOLEAN /\ o.late \in BOOLEAN
  BY DEF Operation

\* Advancing an operation yields an operation that differs in its step only.
LEMMA OpAdvance ==
  ASSUME NEW o \in Operation, NEW s \in Step
  PROVE  LET n == [o EXCEPT !.step = s]
         IN  /\ n \in Operation /\ n.step = s
             /\ n.kind = o.kind /\ n.path = o.path /\ n.from = o.from /\ n.target = o.target
             /\ n.text = o.text /\ n.bytes = o.bytes /\ n.raced = o.raced /\ n.late = o.late
  BY DEF Operation

\* A race is noted and changes nothing else.
LEMMA OpRace ==
  ASSUME NEW o \in Operation
  PROVE  LET n == [o EXCEPT !.raced = TRUE]
         IN  /\ n \in Operation /\ n.raced
             /\ n.kind = o.kind /\ n.path = o.path /\ n.from = o.from /\ n.target = o.target
             /\ n.text = o.text /\ n.bytes = o.bytes /\ n.step = o.step /\ n.late = o.late
  BY DEF Operation

\* Late typing is noted and changes nothing else.
LEMMA OpLate ==
  ASSUME NEW o \in Operation
  PROVE  LET n == [o EXCEPT !.late = TRUE]
         IN  /\ n \in Operation /\ n.late
             /\ n.kind = o.kind /\ n.path = o.path /\ n.from = o.from /\ n.target = o.target
             /\ n.text = o.text /\ n.bytes = o.bytes /\ n.step = o.step /\ n.raced = o.raced
  BY DEF Operation

\* Another attempt at the rename changes the count only.
LEMMA OpRetry ==
  ASSUME NEW o \in Operation
  PROVE  LET n == [o EXCEPT !.tries = @ + 1]
         IN  /\ n \in Operation
             /\ n.kind = o.kind /\ n.path = o.path /\ n.from = o.from /\ n.target = o.target
             /\ n.text = o.text /\ n.bytes = o.bytes /\ n.step = o.step /\ n.raced = o.raced
             /\ n.late = o.late
  BY DEF Operation

\* A rename whose source has gone becomes a write.
LEMMA OpBecomesWrite ==
  ASSUME NEW o \in Operation
  PROVE  LET n == [o EXCEPT !.kind = "write"]
         IN  /\ n \in Operation /\ n.kind = "write"
             /\ n.path = o.path /\ n.from = o.from /\ n.target = o.target
             /\ n.text = o.text /\ n.bytes = o.bytes /\ n.step = o.step /\ n.raced = o.raced
             /\ n.late = o.late
  BY DEF Operation

\* A new operation.
LEMMA OpNew ==
  ASSUME NEW k \in {"write", "delete", "rename"}, NEW f \in Path, NEW p \in Path,
         NEW t \in Text \cup {Gone}
  PROVE  LET n == [kind |-> k, path |-> p, from |-> f, target |-> p, text |-> t,
                   bytes |-> None, step |-> "planned", tries |-> 0, raced |-> FALSE,
                   late |-> FALSE]
         IN  /\ n \in Operation /\ n.step = "planned"
             /\ n.kind = k /\ n.path = p /\ n.from = f /\ n.target = p
             /\ n.text = t /\ ~n.raced /\ ~n.late
  BY DEF Operation, Step

\* What Obsidian shows has the type of the editors.
LEMMA ShownType ==
  ASSUME editor \in [Path -> Editor \cup {None}],
         NEW p \in Path, NEW t \in Text \cup {Torn, None}
  PROVE  Shown(p, t) \in [Path -> Editor \cup {None}]
  BY DEF Shown, Editor

TypeInv == StorageTypeOK /\ OpShape

\* An operation in flight has its type and its shape.
LEMMA InFlight ==
  ASSUME TypeInv, op # None
  PROVE  op \in Operation /\ ShapeOK(op)
  BY DEF TypeInv, StorageTypeOK, OpShape

\* Every initial state has its types.
LEMMA TypeInit == Init => TypeInv
  <1> SUFFICES ASSUME Init PROVE TypeInv
    OBVIOUS
  <1>1. disk \in [Path -> Text \cup {Torn, None}] /\ index \in Index /\ saved \in Index
    BY DEF Init, Index, Text
  <1>2. kept \subseteq Text \cup {Torn}
    BY DEF Init, Text
  <1>3. editor \in [Path -> Editor \cup {None}]
        /\ trash \in [1..TrashSlots -> Text \cup {Torn, None}]
    BY DEF Init
  <1>4. pulls \in 0..MaxPulls /\ edits \in 0..MaxEdits /\ faults \in 0..MaxFaults
    BY StorageAssumption DEF Init
  <1> QED BY <1>1, <1>2, <1>3, <1>4 DEF Init, TypeInv, StorageTypeOK, OpShape

\* A file of the vault gets content of the right type.
LEMMA PutType ==
  ASSUME StorageTypeOK, NEW p \in Path, NEW t \in Text \cup {Torn, None}, Put(p, t)
  PROVE  /\ disk' \in [Path -> Text \cup {Torn, None}]
         /\ editor' \in [Path -> Editor \cup {None}]
  BY ShownType DEF StorageTypeOK, Put

\* A planned operation has its type and shape.
LEMMA BeginType ==
  ASSUME TypeInv, NEW k \in {"write", "delete", "rename"}, NEW f \in Path, NEW p \in Path,
         NEW t \in Text \cup {Gone}, k # "delete" => t \in Text, Begin(k, f, p, t)
  PROVE  TypeInv'
  <1>1. op' \in Operation /\ ShapeOK(op')
    BY OpNew DEF Begin, ShapeOK
  <1> QED BY <1>1, StorageAssumption DEF Begin, TypeInv, StorageTypeOK, OpShape

\* The steps of the client keep the types.
LEMMA ClientType == ASSUME TypeInv, Client PROVE TypeInv'
  <1> USE StorageAssumption
  <1>1. ASSUME NEW p \in Path, NEW t \in Text, PlanWrite(p, t) PROVE TypeInv'
    BY <1>1, BeginType DEF PlanWrite
  <1>2. ASSUME NEW p \in Path, PlanDelete(p) PROVE TypeInv'
    BY <1>2, BeginType DEF PlanDelete
  <1>3. ASSUME NEW p \in Path, NEW q \in Path, PlanRename(p, q) PROVE TypeInv'
    BY <1>3, BeginType DEF PlanRename
  <1>4. ASSUME NEW p \in Path, Push(p) PROVE TypeInv'
    <2>1. index' \in Index
      BY <1>4 DEF Push, TypeInv, StorageTypeOK, Index
    <2>2. kept' \subseteq Text \cup {Torn}
      BY <1>4 DEF Push, TypeInv, StorageTypeOK
    <2> QED BY <1>4, <2>1, <2>2 DEF Push, TypeInv, StorageTypeOK, OpShape, ShapeOK
  <1>5. CASE Record
    <2>1. op \in Operation
      BY <1>5, InFlight DEF Record, At, Busy
    <2>2. index' \in Index
      BY <1>5, <2>1, OpParts DEF Record, TypeInv, StorageTypeOK, Index
    <2> QED BY <1>5, <2>2 DEF Record, TypeInv, StorageTypeOK, OpShape
  <1>6. CASE SaveLands
    BY <1>6 DEF SaveLands, TypeInv, StorageTypeOK, OpShape, ShapeOK
  <1>7. CASE SaveFails
    BY <1>7 DEF SaveFails, TypeInv, StorageTypeOK, OpShape, ShapeOK
  <1>8. CASE PushLitter
    BY <1>8 DEF PushLitter, TypeInv, StorageTypeOK, OpShape, ShapeOK
  <1> QED BY <1>1, <1>2, <1>3, <1>4, <1>5, <1>6, <1>7, <1>8 DEF Client

\* The steps of the adapters keep the types.
LEMMA AdapterType == ASSUME TypeInv, Adapter PROVE TypeInv'
  <1> USE StorageAssumption
  <1>0. op # None => op \in Operation /\ ShapeOK(op)
    BY InFlight
  <1>1. CASE CheckOpenNote
    <2>1. PICK c \in ConflictRedirectFor(op.path) :
            op' = [op EXCEPT !.target = c, !.late = FALSE,
                             !.step = IF broken THEN "direct" ELSE "checked"]
      BY <1>1 DEF CheckOpenNote
    <2>2. op \in Operation /\ ShapeOK(op) /\ op.kind = "write"
      BY <1>0, <1>1 DEF CheckOpenNote, At, Busy
    <2>3. c \in Path
      BY <2>2, OpParts DEF ConflictRedirectFor, Path
    <2> DEFINE s == IF broken THEN "direct" ELSE "checked"
    <2>a. s \in Step /\ s \notin {"planned", "copy", "remove"}
      BY DEF Step
    <2>b. op' = [op EXCEPT !.target = c, !.late = FALSE, !.step = s]
      BY <2>1
    <2> HIDE DEF s
    <2>4. op' \in Operation /\ ShapeOK(op')
      <3>1. /\ op' \in Operation /\ op'.step = s /\ op'.kind = op.kind /\ op'.text = op.text
        BY <2>2, <2>3, <2>a, <2>b DEF Operation
      <3> QED BY <3>1, <2>2, <2>a DEF ShapeOK
    <2> QED BY <1>1, <2>4 DEF CheckOpenNote, TypeInv, StorageTypeOK, OpShape
  <1>2. CASE WriteTemp
    <2>1. op \in Operation /\ ShapeOK(op) /\ op.kind = "write"
      BY <1>0, <1>2 DEF WriteTemp, WritingTemp, At, Busy, ShapeOK
    <2>2. op' \in Operation /\ ShapeOK(op')
      BY <1>2, <2>1, OpAdvance DEF WriteTemp, Advance, ShapeOK, Step
    <2> QED BY <1>2, <2>2 DEF WriteTemp, TypeInv, StorageTypeOK, OpShape
  <1>3. CASE TempFails
    BY <1>3 DEF TempFails, Abort, TypeInv, StorageTypeOK, OpShape
  <1>4. CASE RenameTemp
    <2>1. op \in Operation /\ ShapeOK(op) /\ op.step = "temp"
      BY <1>0, <1>4 DEF RenameTemp, At, Busy
    <2>2. op' \in Operation /\ ShapeOK(op')
      BY <1>4, <2>1, OpAdvance DEF RenameTemp, Advance, ShapeOK, Step
    <2>3. op.target \in Path /\ op.text \in Text
      BY <2>1, OpParts DEF ShapeOK
    <2>4. Put(op.target, op.text) /\ StorageTypeOK
      BY <1>4 DEF RenameTemp, TypeInv
    <2>5. disk' \in [Path -> Text \cup {Torn, None}] /\ editor' \in [Path -> Editor \cup {None}]
      BY <2>3, <2>4, PutType
    <2> QED BY <1>4, <2>2, <2>5 DEF RenameTemp, TypeInv, StorageTypeOK, OpShape
  <1>5. CASE RenameBusy
    <2>1. op \in Operation /\ ShapeOK(op) /\ op.step = "temp"
      BY <1>0, <1>5 DEF RenameBusy, At, Busy
    <2>2. op' = None \/ (op' \in Operation /\ ShapeOK(op'))
      BY <1>5, <2>1, OpRetry DEF RenameBusy, Abort, ShapeOK
    <2>3. op.text \in Text /\ op.tries \in Nat
      BY <2>1, OpParts DEF ShapeOK
    <2>4. litter' \subseteq Text \cup {Torn} /\ faults' \in 0..MaxFaults
      BY <1>5, <2>3 DEF RenameBusy, Abort, TypeInv, StorageTypeOK
    <2> QED BY <1>5, <2>2, <2>4 DEF RenameBusy, TypeInv, StorageTypeOK, OpShape
  <1>6. CASE RenameUnsupported
    <2>1. op \in Operation /\ ShapeOK(op) /\ op.step = "temp"
      BY <1>0, <1>6 DEF RenameUnsupported, At, Busy
    <2>2. op' \in Operation /\ ShapeOK(op')
      BY <1>6, <2>1, OpAdvance DEF RenameUnsupported, Advance, ShapeOK, Step
    <2>3. op.text \in Text
      BY <2>1, OpParts DEF ShapeOK
    <2> QED BY <1>6, <2>2, <2>3 DEF RenameUnsupported, TypeInv, StorageTypeOK, OpShape
  <1>7. CASE DirectWrite
    <2>1. op \in Operation /\ ShapeOK(op) /\ op.step = "direct"
      BY <1>0, <1>7 DEF DirectWrite, At, Busy
    <2>2. op' \in Operation /\ ShapeOK(op')
      BY <1>7, <2>1, OpAdvance DEF DirectWrite, Advance, ShapeOK, Step
    <2>3. op.target \in Path /\ op.text \in Text
      BY <2>1, OpParts DEF ShapeOK
    <2>4. (Put(op.target, op.text) \/ Put(op.target, Torn)) /\ StorageTypeOK
      BY <1>7 DEF DirectWrite, TypeInv
    <2>5. disk' \in [Path -> Text \cup {Torn, None}] /\ editor' \in [Path -> Editor \cup {None}]
      BY <2>3, <2>4, PutType
    <2>6. faults' \in 0..MaxFaults
      BY <1>7 DEF DirectWrite, TypeInv, StorageTypeOK
    <2> QED BY <1>7, <2>2, <2>5, <2>6 DEF DirectWrite, TypeInv, StorageTypeOK, OpShape
  <1>8. CASE DirectFails
    <2>1. op \in Operation
      BY <1>0, <1>8 DEF DirectFails, At, Busy
    <2>2. op.target \in Path /\ StorageTypeOK
      BY <2>1, OpParts DEF TypeInv
    <2>3. (UNCHANGED <<disk, editor>>) \/ Put(op.target, Torn)
      BY <1>8 DEF DirectFails
    <2>4. disk' \in [Path -> Text \cup {Torn, None}] /\ editor' \in [Path -> Editor \cup {None}]
      BY <2>2, <2>3, PutType DEF StorageTypeOK
    <2> QED BY <1>8, <2>4 DEF DirectFails, Abort, TypeInv, StorageTypeOK, OpShape
  <1>9. CASE Verify
    <2>1. op \in Operation /\ ShapeOK(op) /\ op.step = "verify"
      BY <1>0, <1>9 DEF Verify, At, Busy
    <2>a. [op EXCEPT !.step = "landed"] \in Operation /\ ShapeOK([op EXCEPT !.step = "landed"])
      BY <2>1, OpAdvance DEF ShapeOK, Step
    <2>2. op' = None \/ (op' \in Operation /\ ShapeOK(op'))
      BY <1>9, <2>a DEF Verify, Advance
    <2> QED BY <1>9, <2>2 DEF Verify, TypeInv, StorageTypeOK, OpShape
  <1>10. CASE ReadForTrash
    <2>1. op \in Operation /\ ShapeOK(op) /\ op.kind = "delete" /\ op.step = "planned"
      BY <1>0, <1>10 DEF ReadForTrash, At, Busy
    <2> DEFINE b == disk[op.path]
               s == IF b = None THEN "landed"
                    ELSE IF ContentDiverged(op.path, b) THEN "copy" ELSE "remove"
    <2>2. op' = [op EXCEPT !.bytes = b, !.raced = FALSE, !.step = s]
      BY <1>10 DEF ReadForTrash
    <2>3. b \in Text \cup {Torn, None}
      BY <2>1, OpParts DEF TypeInv, StorageTypeOK
    <2>4. s \in Step /\ s \notin {"planned", "checked", "temp", "direct", "verify"}
      BY DEF Step
    <2> HIDE DEF b, s
    <2>5. op' \in Operation /\ ShapeOK(op')
      <3>1. /\ op' \in Operation /\ op'.step = s /\ op'.bytes = b /\ op'.kind = op.kind
            /\ op'.path = op.path /\ op'.target = op.target
        BY <2>1, <2>2, <2>3, <2>4 DEF Operation
      <3> QED BY <3>1, <2>1, <2>4 DEF ShapeOK
    <2> QED BY <1>10, <2>5 DEF ReadForTrash, TypeInv, StorageTypeOK, OpShape
  <1>11. CASE CopyToTrash
    <2>1. op \in Operation /\ ShapeOK(op) /\ op.step = "copy"
      BY <1>0, <1>11 DEF CopyToTrash, At, Busy
    <2>2. op' \in Operation /\ ShapeOK(op')
      BY <1>11, <2>1, OpAdvance DEF CopyToTrash, Advance, ShapeOK, Step
    <2>3. op.bytes \in Text \cup {Torn, None}
      BY <2>1, OpParts
    <2>4. trash' \in [1..TrashSlots -> Text \cup {Torn, None}]
      BY <1>11, <2>3 DEF CopyToTrash, TypeInv, StorageTypeOK
    <2> QED BY <1>11, <2>2, <2>4 DEF CopyToTrash, TypeInv, StorageTypeOK, OpShape
  <1>12. CASE CallFails
    BY <1>12 DEF CallFails, Abort, TypeInv, StorageTypeOK, OpShape
  <1>13. CASE RemoveFile
    <2>1. op \in Operation /\ ShapeOK(op)
      BY <1>0, <1>13 DEF RemoveFile, At, Busy
    <2>2. op' \in Operation /\ ShapeOK(op')
      BY <1>13, <2>1, OpAdvance DEF RemoveFile, Advance, ShapeOK, Step
    <2>3. op.path \in Path /\ Put(op.path, None) /\ StorageTypeOK
      BY <1>13, <2>1, OpParts DEF RemoveFile, TypeInv
    <2>4. disk' \in [Path -> Text \cup {Torn, None}] /\ editor' \in [Path -> Editor \cup {None}]
      BY <2>3, PutType
    <2> QED BY <1>13, <2>2, <2>4 DEF RemoveFile, TypeInv, StorageTypeOK, OpShape
  <1>14. CASE RenameFile
    <2>1. op \in Operation /\ ShapeOK(op) /\ op.kind = "rename" /\ op.step = "planned"
      BY <1>0, <1>14 DEF RenameFile, At, Busy
    <2>a. [op EXCEPT !.step = "landed"] \in Operation /\ ShapeOK([op EXCEPT !.step = "landed"])
      BY <2>1, OpAdvance DEF ShapeOK, Step
    <2>b. [op EXCEPT !.kind = "write"] \in Operation /\ ShapeOK([op EXCEPT !.kind = "write"])
      BY <2>1, OpBecomesWrite DEF ShapeOK
    <2>2. op' \in Operation /\ ShapeOK(op')
      BY <1>14, <2>a, <2>b DEF RenameFile, Advance
    <2>3. op.path \in Path /\ op.from \in Path
      BY <2>1, OpParts
    <2>4. Shown(op.path, disk[op.from]) \in [Path -> Editor \cup {None}]
      BY <2>3, ShownType DEF TypeInv, StorageTypeOK
    <2>5. disk' \in [Path -> Text \cup {Torn, None}] /\ editor' \in [Path -> Editor \cup {None}]
      BY <1>14, <2>3, <2>4 DEF RenameFile, TypeInv, StorageTypeOK
    <2> QED BY <1>14, <2>2, <2>5 DEF RenameFile, TypeInv, StorageTypeOK, OpShape
  <1> QED BY <1>1, <1>2, <1>3, <1>4, <1>5, <1>6, <1>7, <1>8, <1>9, <1>10, <1>11, <1>12, <1>13,
             <1>14 DEF Adapter

\* The steps of agents, of the user and of Obsidian keep the types.
LEMMA OutsideType == ASSUME TypeInv, Outside PROVE TypeInv'
  <1> USE StorageAssumption
  <1>0. PICK p \in Note :
          \/ \E t \in Mine \cup {None} : AgentWrites(p, t)
          \/ \E t \in Mine : Type(p, t)
          \/ OpenNote(p)
          \/ WindowPasses(p)
          \/ Autosave(p)
    BY DEF Outside
  <1>a. p \in Path
    BY DEF Path
  <1>b. Raced(p) = op \/ (Raced(p) \in Operation /\ ShapeOK(Raced(p)))
    BY InFlight, OpRace DEF Raced, Touches, ShapeOK
  <1>1. ASSUME NEW t \in Mine \cup {None}, AgentWrites(p, t) PROVE TypeInv'
    <2>1. t \in Text \cup {Torn, None} /\ Put(p, t) /\ StorageTypeOK
      BY <1>1 DEF AgentWrites, Text, TypeInv
    <2>2. disk' \in [Path -> Text \cup {Torn, None}] /\ editor' \in [Path -> Editor \cup {None}]
      BY <1>a, <2>1, PutType
    <2> QED BY <1>1, <1>b, <2>2 DEF AgentWrites, TypeInv, StorageTypeOK, OpShape
  <1>2. ASSUME NEW t \in Mine, Type(p, t) PROVE TypeInv'
    <2>1. op' = op \/ (op' \in Operation /\ ShapeOK(op'))
      BY <1>2, InFlight, OpLate DEF Type, Touches, ShapeOK
    <2>2. editor' \in [Path -> Editor \cup {None}]
      BY <1>2, <1>a DEF Type, TypeInv, StorageTypeOK, Editor, Text
    <2>3. op' \in Operation \cup {None} /\ (op' # None => ShapeOK(op'))
      BY <2>1 DEF TypeInv, StorageTypeOK, OpShape
    <2>4. edits' \in 0..MaxEdits
      BY <1>2 DEF Type, TypeInv, StorageTypeOK
    <2>5. UNCHANGED <<host, disk, trash, litter, index, saved, saves, up, broken, told, kept,
                      faults, pulls>>
      BY <1>2 DEF Type
    <2> QED BY <2>2, <2>3, <2>4, <2>5 DEF TypeInv, StorageTypeOK, OpShape
  <1>3. CASE OpenNote(p)
    <2>1. editor' \in [Path -> Editor \cup {None}]
      BY <1>3, <1>a DEF OpenNote, TypeInv, StorageTypeOK, Editor
    <2> QED BY <1>3, <2>1 DEF OpenNote, TypeInv, StorageTypeOK, OpShape
  <1>c. editor \in [Path -> Editor \cup {None}]
    BY DEF TypeInv, StorageTypeOK
  <1>4. CASE WindowPasses(p)
    <2>0. editor[p] \in Editor
      BY <1>4, <1>a, <1>c DEF WindowPasses
    <2>a. [editor[p] EXCEPT !.recent = FALSE] \in Editor
      BY <2>0 DEF Editor
    <2>b. editor' = [editor EXCEPT ![p] = [editor[p] EXCEPT !.recent = FALSE]]
      BY <1>4 DEF WindowPasses
    <2>1. editor' \in [Path -> Editor \cup {None}]
      BY <1>a, <1>c, <2>a, <2>b
    <2> QED BY <1>4, <2>1 DEF WindowPasses, TypeInv, StorageTypeOK, OpShape
  <1>5. CASE Autosave(p)
    <2>0. editor[p] \in Editor
      BY <1>5, <1>a, <1>c DEF Autosave
    <2>a. [editor[p] EXCEPT !.dirty = FALSE] \in Editor /\ editor[p].buffer \in Text \cup {Torn}
      BY <2>0 DEF Editor
    <2>b. editor' = [editor EXCEPT ![p] = [editor[p] EXCEPT !.dirty = FALSE]]
      BY <1>5 DEF Autosave
    <2>1. editor' \in [Path -> Editor \cup {None}]
      BY <1>a, <1>c, <2>a, <2>b
    <2>2. disk' \in [Path -> Text \cup {Torn, None}]
      BY <1>5, <1>a, <2>a DEF Autosave, TypeInv, StorageTypeOK
    <2> QED BY <1>5, <1>b, <2>1, <2>2 DEF Autosave, TypeInv, StorageTypeOK, OpShape
  <1> QED BY <1>0, <1>1, <1>2, <1>3, <1>4, <1>5

\* Every step keeps the types.
LEMMA TypeStep == TypeInv /\ [Next]_vars => TypeInv'
  <1> SUFFICES ASSUME TypeInv, [Next]_vars PROVE TypeInv'
    OBVIOUS
  <1> USE StorageAssumption
  <1>1. CASE Client
    BY <1>1, ClientType
  <1>2. CASE Adapter
    BY <1>2, AdapterType
  <1>3. CASE Outside
    BY <1>3, OutsideType
  <1>4. CASE Crash
    <2>1. op # None => op \in Operation /\ ShapeOK(op)
      BY InFlight
    <2>2. TempLeft \subseteq Text \cup {Torn}
      BY <2>1, OpParts DEF TempLeft, WritingTemp, At, Busy, ShapeOK
    <2>3. disk' \in [Path -> Text \cup {Torn, None}]
      BY <1>4, <2>1, OpParts DEF Crash, At, Busy, TypeInv, StorageTypeOK
    <2>4. litter' \subseteq Text \cup {Torn} /\ faults' \in 0..MaxFaults
      BY <1>4, <2>2 DEF Crash, TypeInv, StorageTypeOK
    <2>5. saved' \in Index \cup {Torn, None} /\ saves' \subseteq Index
          /\ editor' \in [Path -> Editor \cup {None}]
      BY <1>4 DEF Crash, TypeInv, StorageTypeOK
    <2>6. op' = None /\ up' = FALSE /\ broken' = FALSE
          /\ UNCHANGED <<host, trash, index, told, kept, edits, pulls>>
      BY <1>4 DEF Crash
    <2> QED BY <2>3, <2>4, <2>5, <2>6 DEF TypeInv, StorageTypeOK, OpShape
  <1>5. CASE Start
    <2>1. index' \in Index
      BY <1>5 DEF Start, Parses, Index
    <2> QED BY <1>5, <2>1 DEF Start, Parses, TypeInv, StorageTypeOK, OpShape
  <1>6. CASE UNCHANGED vars
    BY <1>6 DEF vars, TypeInv, StorageTypeOK, OpShape
  <1> QED BY <1>1, <1>2, <1>3, <1>4, <1>5, <1>6 DEF Next

\* Every reachable state has its types: StorageTypeOK holds throughout.
THEOREM StorageTypeCorrect == Spec => []StorageTypeOK
  <1>1. Spec => []TypeInv
    BY TypeInit, TypeStep, PTL DEF Spec
  <1>2. TypeInv => StorageTypeOK
    BY DEF TypeInv
  <1> QED BY <1>1, <1>2, PTL

-----------------------------------------------------------------------------
(* The invariant *)

\* A partial file, an editor that shows one, a latched adapter and a direct
\* write on its way all come after the notice.
FilesTold ==
  \A p \in Path : /\ disk[p] = Torn => told
                  /\ editor[p] # None /\ editor[p].buffer = Torn => told

ToldInv ==
  /\ FilesTold
  /\ op # None /\ op.step = "direct" => told
  /\ broken => told

\* The server has every content an index names, whichever index it is.
EntriesKept(i) == \A p \in Path : i[p] \in kept \cup {None, Gone}

IndexKept ==
  /\ EntriesKept(index)
  /\ saved \in Index => EntriesKept(saved)
  /\ \A s \in saves : EntriesKept(s)
  /\ op # None => op.text \in kept \cup {Gone}

Rescued == {trash[n] : n \in 1..TrashSlots}

\* What an operation that nobody raced finds in its file.
Finds(o) ==
  /\ o.step \in {"planned", "checked", "temp", "direct"} =>
       disk[o.target] \in kept \cup {None, Torn}
  /\ o.step = "copy" => disk[o.target] = o.bytes
  /\ o.step = "remove" => disk[o.target] \in kept \cup Rescued \cup {None, Torn}
  /\ o.step = "verify" => disk[o.target] \in {o.text, Torn}
  /\ o.step = "landed" /\ o.kind = "write" => disk[o.target] = o.text

\* The editor of the file an unraced write is about to replace holds no other text.
Spares(o) ==
  o.step \in {"checked", "temp", "direct"} /\ ~o.late =>
    \/ disk[o.target] = None
    \/ editor[o.target] = None
    \/ editor[o.target].buffer = disk[o.target]

OpSafe == op # None /\ ~op.raced => Finds(op) /\ Spares(op)

NoEditor == host = "daemon" => \A p \in Path : editor[p] = None

StorageInv == TypeInv /\ ToldInv /\ IndexKept /\ OpSafe /\ NoEditor

-----------------------------------------------------------------------------
(* The notice *)

\* Writing a file keeps FilesTold when what is written is whole or was announced.
LEMMA PutTold ==
  ASSUME TypeInv, FilesTold, NEW p \in Path, NEW t, Put(p, t), t = Torn => told, told => told'
  PROVE  FilesTold'
  <1> SUFFICES ASSUME NEW q \in Path
               PROVE  /\ disk'[q] = Torn => told'
                      /\ editor'[q] # None /\ editor'[q].buffer = Torn => told'
    BY DEF FilesTold
  <1>1. disk'[q] = Torn => told
    BY DEF Put, FilesTold, TypeInv, StorageTypeOK
  <1>2. editor'[q] # None /\ editor'[q].buffer = Torn => told
    BY DEF Put, Shown, FilesTold, TypeInv, StorageTypeOK, Editor
  <1> QED BY <1>1, <1>2

\* The notice comes first: every step keeps ToldInv.
LEMMA ToldStep == ASSUME TypeInv, ToldInv, [Next]_vars PROVE ToldInv'
  <1> USE StorageAssumption
  <1>0. op # None => op \in Operation /\ ShapeOK(op)
    BY InFlight
  <1>1. CASE Client
    <2>1. UNCHANGED <<disk, editor, told, broken>>
      BY <1>1 DEF Client, PlanWrite, PlanDelete, PlanRename, Begin, Push, Record, SaveLands,
                  SaveFails, PushLitter
    <2>2. op' = None \/ op' = op \/ op'.step = "planned"
      BY <1>1 DEF Client, PlanWrite, PlanDelete, PlanRename, Begin, Push, Record, SaveLands,
                  SaveFails, PushLitter
    <2> QED BY <2>1, <2>2 DEF ToldInv, FilesTold
  <1>2. CASE Adapter
    <2>1. CASE CheckOpenNote
      <3>1. op'.step = "direct" => broken
        BY <1>0, <2>1 DEF CheckOpenNote, At, Busy, Operation
      <3> QED BY <2>1, <3>1 DEF CheckOpenNote, ToldInv, FilesTold
    <2>2. CASE WriteTemp \/ Verify \/ CopyToTrash
      <3>1. op' = None \/ op'.step # "direct"
        BY <1>0, <2>2, OpAdvance DEF WriteTemp, WritingTemp, Verify, CopyToTrash, Advance, At,
                                     Busy, Step
      <3>2. UNCHANGED <<disk, editor, told, broken>>
        BY <2>2 DEF WriteTemp, Verify, CopyToTrash
      <3> QED BY <3>1, <3>2 DEF ToldInv, FilesTold
    <2>3. CASE TempFails \/ CallFails
      BY <2>3 DEF TempFails, CallFails, Abort, ToldInv, FilesTold
    <2>4. CASE RenameTemp
      <3>1. op.target \in Path /\ op.text # Torn
        BY <1>0, <2>4, OpParts DEF RenameTemp, At, Busy, ShapeOK
      <3>2. FilesTold'
        BY <2>4, <3>1, PutTold DEF RenameTemp, ToldInv
      <3>3. op'.step = "landed"
        BY <1>0, <2>4, OpAdvance DEF RenameTemp, Advance, At, Busy, Step
      <3> QED BY <2>4, <3>2, <3>3 DEF RenameTemp, ToldInv
    <2>5. CASE RenameBusy
      <3>1. op' = None \/ op'.step = "temp"
        BY <1>0, <2>5, OpRetry DEF RenameBusy, Abort, At, Busy
      <3> QED BY <2>5, <3>1 DEF RenameBusy, ToldInv, FilesTold
    <2>6. CASE RenameUnsupported
      BY <2>6 DEF RenameUnsupported, ToldInv, FilesTold
    <2>7. CASE DirectWrite
      <3>1. op.target \in Path /\ told
        BY <1>0, <2>7, OpParts DEF DirectWrite, At, Busy, ToldInv
      <3> QED BY <2>7, <3>1 DEF DirectWrite, ToldInv, FilesTold
    <2>8. CASE DirectFails
      <3>1. told
        BY <2>8 DEF DirectFails, At, Busy, ToldInv
      <3> QED BY <2>8, <3>1 DEF DirectFails, ToldInv, FilesTold
    <2>9. CASE ReadForTrash
      <3>1. op'.step # "direct"
        BY <1>0, <2>9 DEF ReadForTrash, At, Busy, Operation
      <3> QED BY <2>9, <3>1 DEF ReadForTrash, ToldInv, FilesTold
    <2>10. CASE RemoveFile
      <3>1. op.path \in Path
        BY <1>0, <2>10, OpParts DEF RemoveFile, At, Busy
      <3>2. FilesTold'
        BY <2>10, <3>1, PutTold DEF RemoveFile, ToldInv
      <3>3. op'.step = "landed"
        BY <1>0, <2>10, OpAdvance DEF RemoveFile, Advance, At, Busy, Step
      <3> QED BY <2>10, <3>2, <3>3 DEF RemoveFile, ToldInv
    <2>11. CASE RenameFile
      <3>1. op.path \in Path /\ op.from \in Path /\ op \in Operation /\ op.step = "planned"
        BY <1>0, <2>11, OpParts DEF RenameFile, At, Busy
      <3>2. op'.step \in {"planned", "landed"}
        <4>1. /\ [op EXCEPT !.step = "landed"].step = "landed"
              /\ [op EXCEPT !.kind = "write"].step = "planned"
          BY <3>1, OpAdvance, OpBecomesWrite DEF Step
        <4> QED BY <2>11, <4>1 DEF RenameFile, Advance
      <3>3. FilesTold'
        <4> SUFFICES ASSUME NEW q \in Path
                     PROVE  /\ disk'[q] = Torn => told'
                            /\ editor'[q] # None /\ editor'[q].buffer = Torn => told'
          BY DEF FilesTold
        <4>1. disk'[q] = Torn => told
          BY <2>11, <3>1 DEF RenameFile, ToldInv, FilesTold, TypeInv, StorageTypeOK
        <4>2. editor'[q] # None /\ editor'[q].buffer = Torn => told
          BY <2>11, <3>1 DEF RenameFile, Shown, ToldInv, FilesTold, TypeInv, StorageTypeOK, Editor
        <4> QED BY <2>11, <4>1, <4>2 DEF RenameFile
      <3> QED BY <2>11, <3>2, <3>3 DEF RenameFile, ToldInv
    <2> QED BY <1>2, <2>1, <2>2, <2>3, <2>4, <2>5, <2>6, <2>7, <2>8, <2>9, <2>10, <2>11
            DEF Adapter
  <1>3. CASE Outside
    <2>0. PICK p \in Note :
            \/ \E t \in Mine \cup {None} : AgentWrites(p, t)
            \/ \E t \in Mine : Type(p, t)
            \/ OpenNote(p)
            \/ WindowPasses(p)
            \/ Autosave(p)
      BY <1>3 DEF Outside
    <2>a. p \in Path
      BY DEF Path
    <2>b. Raced(p) # None => op # None /\ Raced(p).step = op.step
      BY <1>0, OpRace DEF Raced, Touches
    <2>1. ASSUME NEW t \in Mine \cup {None}, AgentWrites(p, t) PROVE ToldInv'
      <3>1. t # Torn
        BY DEF Text
      <3>2. FilesTold'
        BY <2>1, <2>a, <3>1, PutTold DEF AgentWrites, ToldInv
      <3> QED BY <2>1, <2>b, <3>2 DEF AgentWrites, ToldInv
    <2>2. ASSUME NEW t \in Mine, Type(p, t) PROVE ToldInv'
      <3>1. op' # None => op # None /\ op'.step = op.step
        BY <1>0, <2>2, OpLate DEF Type, Touches
      <3>2. t # Torn
        BY DEF Text
      <3>3. FilesTold'
        BY <2>2, <2>a, <3>2 DEF Type, ToldInv, FilesTold, TypeInv, StorageTypeOK
      <3> QED BY <2>2, <3>1, <3>3 DEF Type, ToldInv
    <2>3. CASE OpenNote(p)
      <3>1. FilesTold'
        BY <2>3, <2>a DEF OpenNote, ToldInv, FilesTold, TypeInv, StorageTypeOK
      <3> QED BY <2>3, <3>1 DEF OpenNote, ToldInv
    <2>4. CASE WindowPasses(p)
      <3>1. FilesTold'
        BY <2>4, <2>a DEF WindowPasses, ToldInv, FilesTold, TypeInv, StorageTypeOK, Editor
      <3> QED BY <2>4, <3>1 DEF WindowPasses, ToldInv
    <2>5. CASE Autosave(p)
      <3>1. FilesTold'
        BY <2>5, <2>a DEF Autosave, ToldInv, FilesTold, TypeInv, StorageTypeOK, Editor
      <3> QED BY <2>5, <2>b, <3>1 DEF Autosave, ToldInv
    <2> QED BY <2>0, <2>1, <2>2, <2>3, <2>4, <2>5
  <1>4. CASE Crash
    <2>1. At("direct") => told
      BY DEF At, Busy, ToldInv
    <2>2. FilesTold'
      BY <1>4, <2>1 DEF Crash, ToldInv, FilesTold
    <2> QED BY <1>4, <2>2 DEF Crash, ToldInv
  <1>5. CASE Start
    BY <1>5 DEF Start, ToldInv, FilesTold
  <1>6. CASE UNCHANGED vars
    BY <1>6 DEF vars, ToldInv, FilesTold
  <1> QED BY <1>1, <1>2, <1>3, <1>4, <1>5, <1>6 DEF Next

-----------------------------------------------------------------------------
(* What the indexes name *)

\* The server has every content an index names: every step keeps IndexKept.
LEMMA IndexStep == ASSUME TypeInv, IndexKept, [Next]_vars PROVE IndexKept'
  <1> USE StorageAssumption, StateAssumption
  <1>0. op # None => op \in Operation /\ ShapeOK(op)
    BY InFlight
  <1>1. CASE Client
    <2>1. ASSUME NEW p \in Path, NEW t \in Text, PlanWrite(p, t) PROVE IndexKept'
      <3>1. op'.text = t
        BY <2>1 DEF PlanWrite, Begin
      <3> QED BY <2>1, <3>1 DEF PlanWrite, Begin, IndexKept, EntriesKept
    <2>2. ASSUME NEW p \in Path, PlanDelete(p) PROVE IndexKept'
      <3>1. op'.text = Gone
        BY <2>2 DEF PlanDelete, Begin
      <3> QED BY <2>2, <3>1 DEF PlanDelete, Begin, IndexKept, EntriesKept
    <2>3. ASSUME NEW p \in Path, NEW q \in Path, PlanRename(p, q) PROVE IndexKept'
      <3>1. op'.text = index[p]
        BY <2>3 DEF PlanRename, Begin
      <3> QED BY <2>3, <3>1 DEF PlanRename, Begin, IndexKept, EntriesKept
    <2>4. ASSUME NEW p \in Path, Push(p) PROVE IndexKept'
      <3>1. EntriesKept(index)'
        BY <2>4 DEF Push, IndexKept, EntriesKept, TypeInv, StorageTypeOK, Index
      <3>2. /\ saved \in Index => EntriesKept(saved)'
            /\ \A s \in saves : EntriesKept(s)'
        BY <2>4 DEF Push, IndexKept, EntriesKept
      <3>3. op' = None /\ saves' = saves \cup {index'} /\ saved' = saved
        BY <2>4 DEF Push
      <3> QED BY <2>4, <3>1, <3>2, <3>3 DEF Push, IndexKept, EntriesKept
    <2>5. CASE Record
      <3>1. op \in Operation /\ op.text \in kept \cup {Gone} /\ op.path \in Path /\ op.from \in Path
        BY <1>0, <2>5, OpParts DEF Record, At, Busy, IndexKept
      <3>2. EntriesKept(index)'
        BY <2>5, <3>1 DEF Record, IndexKept, EntriesKept, TypeInv, StorageTypeOK, Index
      <3>3. op' = None /\ saves' = saves \cup {index'} /\ saved' = saved /\ kept' = kept
        BY <2>5 DEF Record
      <3> QED BY <3>2, <3>3 DEF IndexKept, EntriesKept
    <2>6. CASE SaveLands
      BY <2>6 DEF SaveLands, IndexKept, EntriesKept
    <2>7. CASE SaveFails
      BY <2>7 DEF SaveFails, IndexKept, EntriesKept
    <2>8. CASE PushLitter
      BY <2>8 DEF PushLitter, IndexKept, EntriesKept
    <2> QED BY <1>1, <2>1, <2>2, <2>3, <2>4, <2>5, <2>6, <2>7, <2>8 DEF Client
  <1>2. CASE Adapter
    <2>1. UNCHANGED <<index, saved, saves, kept>>
      BY <1>2 DEF Adapter, CheckOpenNote, WriteTemp, TempFails, RenameTemp, RenameBusy,
                  RenameUnsupported, DirectWrite, DirectFails, Verify, ReadForTrash, CopyToTrash,
                  CallFails, RemoveFile, RenameFile
    <2>2. op' = None \/ (op # None /\ op'.text = op.text)
      <3>1. CASE op = None
        BY <1>2, <3>1 DEF Adapter, CheckOpenNote, WriteTemp, WritingTemp, TempFails, RenameTemp,
                          RenameBusy, RenameUnsupported, DirectWrite, DirectFails, Verify,
                          ReadForTrash, CopyToTrash, CallFails, RemoveFile, RenameFile, At, Busy
      <3>2. CASE op # None
        <4>1. op \in Operation
          BY <1>0, <3>2
        <4>2. \A s \in Step : [op EXCEPT !.step = s].text = op.text
          BY <4>1, OpAdvance
        <4>3. CASE CheckOpenNote \/ ReadForTrash
          BY <3>2, <4>1, <4>3 DEF CheckOpenNote, ReadForTrash, Operation
        <4>4. CASE WriteTemp \/ RenameTemp \/ RenameUnsupported \/ DirectWrite \/ CopyToTrash
                   \/ RemoveFile
          <5>1. PICK s \in Step : Advance(s)
            BY <4>4 DEF WriteTemp, RenameTemp, RenameUnsupported, DirectWrite, CopyToTrash,
                        RemoveFile, Step
          <5> QED BY <3>2, <4>2, <5>1 DEF Advance
        <4>5. CASE Verify
          BY <3>2, <4>2, <4>5 DEF Verify, Advance, Step
        <4>6. CASE TempFails \/ DirectFails \/ CallFails
          BY <4>6 DEF TempFails, DirectFails, CallFails, Abort
        <4>7. CASE RenameBusy
          BY <3>2, <4>1, <4>7, OpRetry DEF RenameBusy, Abort
        <4>8. CASE RenameFile
          <5>1. [op EXCEPT !.kind = "write"].text = op.text
            BY <4>1, OpBecomesWrite
          <5> QED BY <3>2, <4>2, <4>8, <5>1 DEF RenameFile, Advance, Step
        <4> QED BY <1>2, <4>3, <4>4, <4>5, <4>6, <4>7, <4>8 DEF Adapter
      <3> QED BY <3>1, <3>2
    <2> QED BY <2>1, <2>2 DEF IndexKept, EntriesKept
  <1>3. CASE Outside
    <2>1. UNCHANGED <<index, saved, saves, kept>>
      BY <1>3 DEF Outside, AgentWrites, Type, OpenNote, WindowPasses, Autosave
    <2>2. \A p : Raced(p) # None => op # None /\ Raced(p).text = op.text
      BY <1>0, OpRace DEF Raced, Touches
    <2>3. \A p : (IF Touches(p) THEN [op EXCEPT !.late = TRUE] ELSE op) # None =>
                 op # None /\ (IF Touches(p) THEN [op EXCEPT !.late = TRUE] ELSE op).text = op.text
      BY <1>0, OpLate DEF Touches
    <2>4. op' # None => op # None /\ op'.text = op.text
      BY <1>3, <2>2, <2>3 DEF Outside, AgentWrites, Type, OpenNote, WindowPasses, Autosave
    <2> QED BY <2>1, <2>4 DEF IndexKept, EntriesKept
  <1>4. CASE Crash
    BY <1>4 DEF Crash, IndexKept, EntriesKept
  <1>5. CASE Start
    <2>1. CASE saved \in Index
      BY <1>5, <2>1 DEF Start, Parses, IndexKept, EntriesKept
    <2>2. CASE saved \notin Index
      BY <1>5, <2>2 DEF Start, Parses, IndexKept, EntriesKept
    <2> QED BY <2>1, <2>2
  <1>6. CASE UNCHANGED vars
    BY <1>6 DEF vars, IndexKept, EntriesKept
  <1> QED BY <1>1, <1>2, <1>3, <1>4, <1>5, <1>6 DEF Next

-----------------------------------------------------------------------------
(* What the operation finds *)

\* OpSafe is about the operation's file, its editor and the kept copies only.
LEMMA SafeFrame ==
  ASSUME TypeInv, OpSafe, op' = op, kept \subseteq kept', trash' = trash,
         op # None => disk'[op.target] = disk[op.target] /\ editor'[op.target] = editor[op.target]
  PROVE  OpSafe'
  BY DEF OpSafe, Finds, Spares, Rescued

\* A planned operation finds what the index describes, which the server has.
LEMMA BeginSafe ==
  ASSUME TypeInv, IndexKept, NEW k \in {"write", "delete", "rename"}, NEW f \in Path,
         NEW p \in Path, NEW t \in Text \cup {Gone}, ~LocalDivergence(p), Begin(k, f, p, t)
  PROVE  OpSafe'
  <1>1. disk[p] \in kept \cup {None, Torn}
    BY StorageAssumption DEF LocalDivergence, IndexKept, EntriesKept, TypeInv, StorageTypeOK
  <1>2. op'.step = "planned" /\ op'.target = p
    BY OpNew DEF Begin
  <1>3. disk' = disk /\ kept' = kept
    BY DEF Begin
  <1> QED BY <1>1, <1>2, <1>3 DEF OpSafe, Finds, Spares

\* Nothing but the operation itself, or a race it notes, disturbs OpSafe.
LEMMA SafeStep == ASSUME TypeInv, IndexKept, OpSafe, NoEditor, [Next]_vars PROVE OpSafe'
  <1> USE StorageAssumption
  <1>0. op # None => op \in Operation /\ ShapeOK(op)
    BY InFlight
  <1>1. CASE Client
    <2>1. ASSUME NEW p \in Path, NEW t \in Text, PlanWrite(p, t) PROVE OpSafe'
      BY <2>1, BeginSafe DEF PlanWrite
    <2>2. ASSUME NEW p \in Path, PlanDelete(p) PROVE OpSafe'
      BY <2>2, BeginSafe DEF PlanDelete
    <2>3. ASSUME NEW p \in Path, NEW q \in Path, PlanRename(p, q) PROVE OpSafe'
      BY <2>3, BeginSafe DEF PlanRename
    <2>4. ASSUME NEW p \in Path, Push(p) PROVE OpSafe'
      BY <2>4 DEF Push, OpSafe
    <2>5. CASE Record
      BY <2>5 DEF Record, OpSafe
    <2>6. CASE SaveLands
      BY <2>6, SafeFrame DEF SaveLands
    <2>7. CASE SaveFails
      BY <2>7, SafeFrame DEF SaveFails
    <2>8. CASE PushLitter
      BY <2>8, SafeFrame DEF PushLitter
    <2> QED BY <1>1, <2>1, <2>2, <2>3, <2>4, <2>5, <2>6, <2>7, <2>8 DEF Client
  <1>2. CASE Adapter
    <2>1. CASE CheckOpenNote
      <3>1. op \in Operation /\ op.step = "planned" /\ op.target = op.path
        BY <1>0, <2>1 DEF CheckOpenNote, At, Busy, ShapeOK
      <3>2. PICK c \in ConflictRedirectFor(op.path) :
              op' = [op EXCEPT !.target = c, !.late = FALSE,
                               !.step = IF broken THEN "direct" ELSE "checked"]
        BY <2>1 DEF CheckOpenNote
      <3>3. c \in Path
        BY <3>1, <3>2, OpParts DEF ConflictRedirectFor, Path
      <3>4. op'.target = c /\ op'.step \in {"direct", "checked"} /\ op'.raced = op.raced
        BY <3>1, <3>2, <3>3 DEF Operation
      <3>5. UNCHANGED <<disk, editor, kept, trash>>
        BY <2>1 DEF CheckOpenNote
      <3>6. CASE CannotProveClean(op.path)
        <4>1. disk[c] = None
          BY <3>2, <3>6 DEF ConflictRedirectFor
        <4> QED BY <3>4, <3>5, <4>1 DEF OpSafe, Finds, Spares
      <3>7. CASE ~CannotProveClean(op.path)
        <4>1. c = op.target
          BY <3>1, <3>2, <3>7 DEF ConflictRedirectFor
        <4>2. ~op.raced => disk[c] \in kept \cup {None, Torn}
          BY <3>1, <4>1, <2>1 DEF OpSafe, Finds, CheckOpenNote, At, Busy
        <4>3. disk[c] = None \/ editor[c] = None \/ editor[c].buffer = disk[c]
          BY <3>1, <3>7, <4>1 DEF CannotProveClean
        <4> QED BY <3>4, <3>5, <4>2, <4>3 DEF OpSafe, Finds, Spares
      <3> QED BY <3>6, <3>7
    <2>2. CASE WriteTemp
      <3>1. op # None /\ op \in Operation /\ ShapeOK(op)
        BY <1>0, <2>2 DEF WriteTemp, WritingTemp, At, Busy
      <3>2. /\ op'.step = "temp" /\ op'.target = op.target /\ op'.raced = op.raced
            /\ op'.late = op.late
        BY <2>2, <3>1, OpAdvance DEF WriteTemp, Advance, Step
      <3>3. UNCHANGED <<disk, editor, kept, trash>>
        BY <2>2 DEF WriteTemp
      <3>4. ~op.raced => disk[op.target] \in kept \cup {None, Torn}
        BY <2>2, <3>1 DEF WriteTemp, WritingTemp, At, Busy, OpSafe, Finds
      <3>5. ~op.raced /\ ~op.late => \/ disk[op.target] = None
                                     \/ editor[op.target] = None
                                     \/ editor[op.target].buffer = disk[op.target]
        BY <2>2, <3>1, OpParts DEF WriteTemp, WritingTemp, At, Busy, OpSafe, Spares, NoEditor
      <3> QED BY <3>2, <3>3, <3>4, <3>5 DEF OpSafe, Finds, Spares
    <2>3. CASE TempFails \/ CallFails \/ DirectFails
      BY <2>3 DEF TempFails, CallFails, DirectFails, Abort, OpSafe
    <2>4. CASE RenameTemp
      <3>1. op \in Operation /\ op.step = "temp"
        BY <1>0, <2>4 DEF RenameTemp, At, Busy
      <3>2. op'.step = "landed" /\ op'.target = op.target /\ op'.text = op.text
        BY <2>4, <3>1, OpAdvance DEF RenameTemp, Advance, Step
      <3>3. disk'[op.target] = op.text
        BY <2>4, <3>1, OpParts DEF RenameTemp, Put, TypeInv, StorageTypeOK
      <3> QED BY <3>2, <3>3 DEF OpSafe, Finds, Spares
    <2>5. CASE RenameBusy
      <3>1. op # None /\ op \in Operation
        BY <1>0, <2>5 DEF RenameBusy, At, Busy
      <3>2. \/ op' = None
            \/ /\ op'.step = op.step /\ op'.target = op.target /\ op'.raced = op.raced
               /\ op'.late = op.late /\ op'.kind = op.kind /\ op'.text = op.text
               /\ op'.bytes = op.bytes
        BY <2>5, <3>1, OpRetry DEF RenameBusy, Abort
      <3>3. UNCHANGED <<disk, editor, kept, trash>>
        BY <2>5 DEF RenameBusy
      <3> QED BY <3>1, <3>2, <3>3 DEF OpSafe, Finds, Spares, Rescued
    <2>6. CASE RenameUnsupported
      <3>1. op # None /\ op \in Operation /\ op.step = "temp"
        BY <1>0, <2>6 DEF RenameUnsupported, At, Busy
      <3>2. /\ op'.step = "direct" /\ op'.target = op.target /\ op'.raced = op.raced
            /\ op'.late = op.late
        BY <2>6, <3>1, OpAdvance DEF RenameUnsupported, Advance, Step
      <3>3. UNCHANGED <<disk, editor, kept, trash>>
        BY <2>6 DEF RenameUnsupported
      <3> QED BY <3>1, <3>2, <3>3 DEF OpSafe, Finds, Spares
    <2>7. CASE DirectWrite
      <3>1. op \in Operation /\ op.step = "direct"
        BY <1>0, <2>7 DEF DirectWrite, At, Busy
      <3>2. op'.step = "verify" /\ op'.target = op.target /\ op'.text = op.text
        BY <2>7, <3>1, OpAdvance DEF DirectWrite, Advance, Step
      <3>3. disk'[op.target] \in {op.text, Torn}
        BY <2>7, <3>1, OpParts DEF DirectWrite, Put, TypeInv, StorageTypeOK
      <3> QED BY <3>2, <3>3 DEF OpSafe, Finds, Spares
    <2>8. CASE Verify
      <3>1. op # None /\ op \in Operation /\ op.step = "verify"
        BY <1>0, <2>8 DEF Verify, At, Busy
      <3>2. disk' = disk
        BY <2>8 DEF Verify
      <3>3. CASE op' = None
        BY <3>3 DEF OpSafe
      <3>4. CASE disk[op.target] \in Text /\ Advance("landed")
        <4>1. op'.step = "landed" /\ op'.target = op.target /\ op'.text = op.text
              /\ op'.raced = op.raced
          BY <3>1, <3>4, OpAdvance DEF Advance, Step
        <4>2. ~op.raced => disk[op.target] = op.text
          BY <3>1, <3>4 DEF OpSafe, Finds
        <4> QED BY <3>2, <4>1, <4>2 DEF OpSafe, Finds, Spares
      <3> QED BY <2>8, <3>3, <3>4 DEF Verify
    <2>9. CASE ReadForTrash
      <3>1. /\ op \in Operation /\ op.step = "planned" /\ op.kind = "delete"
            /\ op.target = op.path /\ op.path \in Path
        BY <1>0, <2>9, OpParts DEF ReadForTrash, At, Busy, ShapeOK
      <3>2. /\ op'.bytes = disk[op.path] /\ op'.target = op.target /\ op'.kind = op.kind
            /\ op'.step \in {"landed", "copy", "remove"}
            /\ op'.step = "remove" => ~ContentDiverged(op.path, disk[op.path])
        BY <2>9, <3>1 DEF ReadForTrash, Operation
      <3>3. UNCHANGED <<disk, editor, kept, trash>>
        BY <2>9 DEF ReadForTrash
      <3>4. ~ContentDiverged(op.path, disk[op.path]) => disk[op.path] \in kept \cup {None, Gone}
        BY <3>1 DEF ContentDiverged, Parses, IndexKept, EntriesKept
      <3>5. disk[op.path] # Gone
        BY <3>1 DEF TypeInv, StorageTypeOK
      <3> QED BY <3>1, <3>2, <3>3, <3>4, <3>5 DEF OpSafe, Finds, Spares
    <2>10. CASE CopyToTrash
      <3>1. op # None /\ op \in Operation /\ op.step = "copy"
        BY <1>0, <2>10 DEF CopyToTrash, At, Busy
      <3>2. op'.step = "remove" /\ op'.target = op.target /\ op'.raced = op.raced
        BY <2>10, <3>1, OpAdvance DEF CopyToTrash, Advance, Step
      <3>3. disk' = disk /\ op.bytes \in Rescued'
        BY <2>10 DEF CopyToTrash, UniqueTrashPath, Rescued, TypeInv, StorageTypeOK
      <3> QED BY <3>1, <3>2, <3>3 DEF OpSafe, Finds, Spares
    <2>11. CASE RemoveFile
      <3>1. op \in Operation /\ (op.step = "remove" \/ op.kind = "delete") /\ op.target = op.path
        BY <1>0, <2>11 DEF RemoveFile, At, Busy, ShapeOK
      <3>2. op'.step = "landed" /\ op'.kind = op.kind
        BY <2>11, <3>1, OpAdvance DEF RemoveFile, Advance, Step
      <3>3. op.kind # "write"
        BY <1>0, <2>11, <3>1 DEF RemoveFile, At, Busy, ShapeOK
      <3> QED BY <3>2, <3>3 DEF OpSafe, Finds, Spares
    <2>12. CASE RenameFile
      <3>1. op # None /\ op \in Operation /\ op.step = "planned" /\ op.kind = "rename"
        BY <1>0, <2>12 DEF RenameFile, At, Busy
      <3>2. CASE Advance("landed")
        <4>1. op'.step = "landed" /\ op'.kind = "rename"
          BY <3>1, <3>2, OpAdvance DEF Advance, Step
        <4> QED BY <4>1 DEF OpSafe, Finds, Spares
      <3>3. CASE op' = [op EXCEPT !.kind = "write"] /\ UNCHANGED <<disk, editor>>
        <4>1. op'.step = "planned" /\ op'.target = op.target /\ op'.raced = op.raced
          BY <3>1, <3>3, OpBecomesWrite
        <4>2. kept' = kept
          BY <2>12 DEF RenameFile
        <4> QED BY <3>1, <3>3, <4>1, <4>2 DEF OpSafe, Finds, Spares
      <3> QED BY <2>12, <3>2, <3>3 DEF RenameFile
    <2> QED BY <1>2, <2>1, <2>2, <2>3, <2>4, <2>5, <2>6, <2>7, <2>8, <2>9, <2>10, <2>11, <2>12
            DEF Adapter
  <1>3. CASE Outside
    <2>0. PICK p \in Note :
            \/ \E t \in Mine \cup {None} : AgentWrites(p, t)
            \/ \E t \in Mine : Type(p, t)
            \/ OpenNote(p)
            \/ WindowPasses(p)
            \/ Autosave(p)
      BY <1>3 DEF Outside
    <2>a. p \in Path
      BY DEF Path
    <2>b. op # None => op.target \in Path
      BY <1>0, OpParts
    <2>c. kept' = kept /\ trash' = trash
      BY <2>0 DEF AgentWrites, Type, OpenNote, WindowPasses, Autosave
    <2>1. CASE op = None
      BY <2>0, <2>1 DEF AgentWrites, Type, OpenNote, WindowPasses, Autosave, Raced, Touches, OpSafe
    <2>2. CASE op # None /\ Touches(p)
      <3>1. op \in Operation
        BY <1>0, <2>2
      <3>2. CASE Autosave(p) \/ \E t \in Mine \cup {None} : AgentWrites(p, t)
        <4>1. op' = [op EXCEPT !.raced = TRUE]
          BY <2>2, <3>2 DEF Autosave, AgentWrites, Raced
        <4> QED BY <3>1, <4>1, OpRace DEF OpSafe
      <3>3. CASE \E t \in Mine : Type(p, t)
        <4>1. op' = [op EXCEPT !.late = TRUE] /\ disk' = disk
          BY <2>2, <3>3 DEF Type
        <4>2. /\ op'.late /\ op'.step = op.step /\ op'.target = op.target /\ op'.raced = op.raced
              /\ op'.kind = op.kind /\ op'.text = op.text /\ op'.bytes = op.bytes
          BY <3>1, <4>1, OpLate
        <4> QED BY <2>2, <2>c, <4>1, <4>2 DEF OpSafe, Finds, Spares, Rescued
      <3>4. CASE OpenNote(p)
        <4>1. op' = op /\ disk' = disk
          BY <3>4 DEF OpenNote
        <4>2. editor'[op.target] = editor[op.target] \/ editor'[op.target].buffer = disk[op.target]
          BY <2>2, <2>a, <2>b, <3>4 DEF OpenNote, TypeInv, StorageTypeOK
        <4> QED BY <2>2, <2>c, <4>1, <4>2 DEF OpSafe, Finds, Spares, Rescued
      <3>5. CASE WindowPasses(p)
        <4>1. op' = op /\ disk' = disk
          BY <3>5 DEF WindowPasses
        <4>2. \/ editor'[op.target] = editor[op.target]
              \/ editor'[op.target].buffer = editor[op.target].buffer /\ editor[op.target] # None
          BY <2>2, <2>a, <2>b, <3>5 DEF WindowPasses, TypeInv, StorageTypeOK, Editor
        <4> QED BY <2>2, <2>c, <4>1, <4>2 DEF OpSafe, Finds, Spares, Rescued
      <3> QED BY <2>0, <3>2, <3>3, <3>4, <3>5
    <2>3. CASE op # None /\ ~Touches(p)
      <3>1. op' = op /\ p # op.target
        BY <2>0, <2>3 DEF AgentWrites, Type, OpenNote, WindowPasses, Autosave, Raced, Touches
      <3>2. disk'[op.target] = disk[op.target]
        BY <2>0, <2>b, <2>3, <3>1 DEF AgentWrites, Put, Type, OpenNote, WindowPasses, Autosave,
                                      TypeInv, StorageTypeOK
      <3>3. editor'[op.target] = editor[op.target]
        BY <2>0, <2>b, <2>3, <3>1 DEF AgentWrites, Put, Shown, Type, OpenNote, WindowPasses,
                                      Autosave, TypeInv, StorageTypeOK
      <3> QED BY <2>c, <3>1, <3>2, <3>3, SafeFrame
    <2> QED BY <2>1, <2>2, <2>3
  <1>4. CASE Crash
    BY <1>4 DEF Crash, OpSafe
  <1>5. CASE Start
    BY <1>5, SafeFrame DEF Start
  <1>6. CASE UNCHANGED vars
    BY <1>6, SafeFrame DEF vars
  <1> QED BY <1>1, <1>2, <1>3, <1>4, <1>5, <1>6 DEF Next

\* The daemon's vault has no editors.
LEMMA EditorStep == ASSUME TypeInv, NoEditor, [Next]_vars PROVE NoEditor'
  <1>1. host' = host
    BY DEF Next, Client, Adapter, Outside, PlanWrite, PlanDelete, PlanRename, Begin, Push, Record,
           SaveLands, SaveFails, PushLitter, CheckOpenNote, WriteTemp, TempFails, RenameTemp,
           RenameBusy, RenameUnsupported, DirectWrite, DirectFails, Verify, ReadForTrash,
           CopyToTrash, CallFails, RemoveFile, RenameFile, Crash, Start, AgentWrites, Type,
           OpenNote, WindowPasses, Autosave, vars
  <1>2. CASE host # "daemon"
    BY <1>1, <1>2 DEF NoEditor
  <1>3. CASE host = "daemon"
    <2>1. \A p \in Path : editor[p] = None
      BY <1>3 DEF NoEditor
    <2>2. op # None => op.path \in Path /\ op.target \in Path
      BY InFlight, OpParts
    <2>3. \A p \in Path : \A t : Shown(p, t) = editor
      BY <2>1 DEF Shown
    <2>4. editor' = editor \/ editor' = [p \in Path |-> None]
      <3>1. CASE Client
        BY <3>1 DEF Client, PlanWrite, PlanDelete, PlanRename, Begin, Push, Record, SaveLands,
                    SaveFails, PushLitter
      <3>2. CASE Adapter
        BY <2>2, <2>3, <3>2 DEF Adapter, CheckOpenNote, WriteTemp, TempFails, RenameTemp,
           RenameBusy, RenameUnsupported, DirectWrite, DirectFails, Verify, ReadForTrash,
           CopyToTrash, CallFails, RemoveFile, RenameFile, Put, At, Busy
      <3>3. CASE Outside
        <4>1. PICK p \in Note :
                \/ \E t \in Mine \cup {None} : AgentWrites(p, t)
                \/ \E t \in Mine : Type(p, t)
                \/ OpenNote(p)
                \/ WindowPasses(p)
                \/ Autosave(p)
          BY <3>3 DEF Outside
        <4>2. p \in Path
          BY DEF Path
        <4> QED BY <1>3, <2>1, <2>3, <4>1, <4>2 DEF AgentWrites, Put, Type, OpenNote, WindowPasses,
                                                   Autosave
      <3>4. CASE Crash \/ Start \/ UNCHANGED vars
        BY <3>4 DEF Crash, Start, vars
      <3> QED BY <3>1, <3>2, <3>3, <3>4 DEF Next
    <2> QED BY <2>1, <2>4 DEF NoEditor
  <1> QED BY <1>2, <1>3

-----------------------------------------------------------------------------
(* The promises *)

\* The invariant holds initially.
LEMMA StorageInit == Init => StorageInv
  <1> SUFFICES ASSUME Init PROVE StorageInv
    OBVIOUS
  <1>1. TypeInv
    BY TypeInit
  <1>2. ToldInv
    BY StorageAssumption DEF Init, ToldInv, FilesTold, Text
  <1>3. IndexKept
    BY DEF Init, IndexKept, EntriesKept
  <1>4. OpSafe /\ NoEditor
    BY DEF Init, OpSafe, NoEditor
  <1> QED BY <1>1, <1>2, <1>3, <1>4 DEF StorageInv

\* StorageInv is inductive: it holds in every reachable state.
THEOREM StorageInductive == Spec => []StorageInv
  <1>1. StorageInv /\ [Next]_vars => StorageInv'
    BY TypeStep, ToldStep, IndexStep, SafeStep, EditorStep DEF StorageInv
  <1> QED BY <1>1, StorageInit, PTL DEF Spec

\* Whatever fails and whenever the process dies, a partial file exists only
\* after the user was told that the adapter cannot rename.
THEOREM PartialFilesAnnounced == Spec => []TornIsAnnounced
  <1>1. StorageInv => TornIsAnnounced
    BY DEF StorageInv, ToldInv, FilesTold, TornIsAnnounced
  <1> QED BY <1>1, StorageInductive, PTL

\* Overwriting or removing a file whose content is kept elsewhere loses nothing.
LEMMA PutHolds ==
  ASSUME TypeInv, NEW p \in Path, kept' = kept, trash' = trash,
         disk[p] \in kept \cup Rescued \cup {None, Torn},
         \A q \in Path : q # p => disk'[q] = disk[q]
  PROVE  Held \ {Torn, None} \subseteq Held'
  BY DEF Held, Rescued

\* No step of the adapters and no crash takes the last copy of a content from
\* the vault, from .trash and from the server's history, unless somebody wrote
\* the operation's file after it was last looked at.
THEOREM NothingDestroyed == Spec => StorageKeeps
  <1>1. StorageInv /\ [Next]_vars =>
          [Adapter \/ Crash => \/ op # None /\ op.raced
                               \/ Held \ {Torn, None} \subseteq Held']_vars
    <2> SUFFICES ASSUME StorageInv, Adapter \/ Crash, ~(op # None /\ op.raced)
                 PROVE  Held \ {Torn, None} \subseteq Held'
      OBVIOUS
    <2> USE StorageAssumption
    <2>0. TypeInv /\ (op # None => op \in Operation /\ ShapeOK(op) /\ Finds(op))
      BY InFlight DEF StorageInv, OpSafe
    <2>a. op # None => op.path \in Path /\ op.from \in Path /\ op.target \in Path
      BY <2>0, OpParts
    <2>1. CASE \/ CheckOpenNote \/ WriteTemp \/ TempFails \/ RenameBusy \/ RenameUnsupported
               \/ Verify \/ ReadForTrash \/ CallFails
      <3>1. UNCHANGED <<disk, kept, trash>>
        BY <2>1 DEF CheckOpenNote, WriteTemp, TempFails, RenameBusy, RenameUnsupported, Verify,
                    ReadForTrash, CallFails
      <3> QED BY <3>1 DEF Held
    <2>2. CASE CopyToTrash
      <3>1. PICK n \in 1..TrashSlots : trash[n] = None /\ trash' = [trash EXCEPT ![n] = op.bytes]
        BY <2>2 DEF CopyToTrash, UniqueTrashPath
      <3>2. disk' = disk /\ kept' = kept
        BY <2>2 DEF CopyToTrash
      <3>3. \A k \in 1..TrashSlots : trash[k] # None => trash'[k] = trash[k]
        BY <2>0, <3>1 DEF TypeInv, StorageTypeOK
      <3> QED BY <3>2, <3>3 DEF Held
    <2>3. CASE RenameTemp \/ DirectWrite \/ DirectFails
      <3>1. op # None /\ disk[op.target] \in kept \cup {None, Torn}
        BY <2>0, <2>3 DEF RenameTemp, DirectWrite, DirectFails, At, Busy, Finds
      <3>2. kept' = kept /\ trash' = trash
        BY <2>3 DEF RenameTemp, DirectWrite, DirectFails
      <3>3. \A q \in Path : q # op.target => disk'[q] = disk[q]
        BY <2>0, <2>3 DEF RenameTemp, DirectWrite, DirectFails, Put, TypeInv, StorageTypeOK
      <3> QED BY <2>0, <2>a, <3>1, <3>2, <3>3, PutHolds
    <2>4. CASE RemoveFile
      <3>1. op # None /\ op.target = op.path /\ disk[op.path] \in kept \cup Rescued \cup {None, Torn}
        BY <2>0, <2>4 DEF RemoveFile, At, Busy, Finds, ShapeOK
      <3>2. kept' = kept /\ trash' = trash
        BY <2>4 DEF RemoveFile
      <3>3. \A q \in Path : q # op.path => disk'[q] = disk[q]
        BY <2>0, <2>4 DEF RemoveFile, Put, TypeInv, StorageTypeOK
      <3> QED BY <2>0, <2>a, <3>1, <3>2, <3>3, PutHolds
    <2>5. CASE RenameFile
      <3>1. op # None /\ op.target = op.path /\ disk[op.path] \in kept \cup {None, Torn}
        BY <2>0, <2>5 DEF RenameFile, At, Busy, Finds, ShapeOK
      <3>2. kept' = kept /\ trash' = trash
        BY <2>5 DEF RenameFile
      <3>3. \/ disk' = disk
            \/ disk' = [disk EXCEPT ![op.from] = None, ![op.path] = disk[op.from]]
        BY <2>5 DEF RenameFile
      <3>4. \A q \in Path : \/ disk[q] \in kept \cup {None, Torn}
                            \/ \E r \in Path : disk'[r] = disk[q]
        BY <2>0, <2>a, <3>1, <3>3 DEF TypeInv, StorageTypeOK
      <3> QED BY <3>2, <3>4 DEF Held
    <2>6. CASE Crash
      <3>1. kept' = kept /\ trash' = trash
        BY <2>6 DEF Crash
      <3>2. CASE disk' = disk
        BY <3>1, <3>2 DEF Held
      <3>3. CASE At("direct") /\ disk' = [disk EXCEPT ![op.target] = Torn]
        <4>1. op # None /\ disk[op.target] \in kept \cup {None, Torn}
          BY <2>0, <3>3 DEF At, Busy, Finds
        <4>2. \A q \in Path : q # op.target => disk'[q] = disk[q]
          BY <2>0, <3>3 DEF TypeInv, StorageTypeOK
        <4> QED BY <2>0, <2>a, <3>1, <4>1, <4>2, PutHolds
      <3> QED BY <2>6, <3>2, <3>3 DEF Crash
    <2> QED BY <2>1, <2>2, <2>3, <2>4, <2>5, <2>6 DEF Adapter
  <1> QED BY <1>1, StorageInductive, PTL DEF Spec, StorageKeeps

\* The index records a pull only when the whole content is in the file that was
\* written for it.
THEOREM OnlyWhatLanded == Spec => RecordedContentLanded
  <1>1. StorageInv /\ [Next]_vars =>
          [Record /\ op.kind = "write" => op.raced \/ disk[op.target] = op.text]_vars
    BY DEF StorageInv, OpSafe, Finds, Record, At, Busy
  <1> QED BY <1>1, StorageInductive, PTL DEF Spec, RecordedContentLanded

\* A pull never overwrites a note whose open editor holds another text.
THEOREM DirtyNotesSpared == Spec => PullsSpareDirtyNotes
  <1>1. StorageInv /\ [Next]_vars =>
          [RenameTemp \/ DirectWrite =>
             \/ op.late \/ op.raced
             \/ disk[op.target] = None
             \/ editor[op.target] = None
             \/ editor[op.target].buffer = disk[op.target]]_vars
    BY DEF StorageInv, OpSafe, Spares, RenameTemp, DirectWrite, At, Busy
  <1> QED BY <1>1, StorageInductive, PTL DEF Spec, PullsSpareDirtyNotes

=============================================================================
