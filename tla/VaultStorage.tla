---------------------------- MODULE VaultStorage ----------------------------
(***************************************************************************)
(* The storage adapters below the sync client: what lies between the       *)
(* client's "pull this" and the bytes of the vault directory.              *)
(*                                                                         *)
(* A vault directory has one host.  The daemon writes through a temp file, *)
(* fsync and rename (node-runtime/util.ts) and keeps a .trash copy of      *)
(* diverged content it is told to delete (daemon/trash.ts).  The plugin    *)
(* writes through Obsidian's DataAdapter (plugin/obsidian-storage.ts),     *)
(* which may lack rename, and must not write under a dirty editor          *)
(* (plugin/open-note-guard.ts).                                            *)
(*                                                                         *)
(* Every await of an operation is a step.  Around the operation agents     *)
(* write files, the user types, Obsidian autosaves, snapshots of the index *)
(* land in any order, calls of the file system fail and the process dies.  *)
(***************************************************************************)
EXTENDS Naturals, FiniteSets

CONSTANTS
    Note,        \* the notes of the vault
    CopyName,    \* the names conflict copies can get
    Mine,        \* contents that agents and users of this vault write
    Theirs,      \* contents of other devices, all known to the server
    TrashSlots,  \* bound on the copies in .trash
    Retries,     \* RENAME_RETRIES
    Torn,        \* a file that holds only a part of what was written to it
    None,        \* no file, no entry, no editor, no operation
    Gone,        \* a tombstone of the index
    MaxPulls,    \* bound on the operations
    MaxSaves,    \* bound on the snapshots in flight
    MaxEdits,    \* bound on the edits of agents and users
    MaxFaults    \* bound on failing calls and crashes

Text == Mine \cup Theirs
Path == Note \cup CopyName

ASSUME StorageAssumption ==
    /\ Note \cap CopyName = {}
    /\ Text \cap {Torn, None, Gone} = {}
    /\ Torn # None /\ Torn # Gone /\ None # Gone
    /\ TrashSlots \in Nat
    /\ Retries \in Nat \ {0}
    /\ MaxPulls \in Nat
    /\ MaxSaves \in Nat
    /\ MaxEdits \in Nat
    /\ MaxFaults \in Nat

VARIABLES
    host,    \* which program keeps the vault
    disk,    \* the files of the vault
    editor,  \* the open notes (Obsidian only)
    trash,   \* the copies under /.trash, by name
    litter,  \* contents of temp files nobody removed
    index,   \* the client's index, in memory
    saved,   \* the state file: an index, Torn or None
    saves,   \* snapshots of the index on their way to the state file
    op,      \* the storage operation in flight
    up,      \* whether the process runs
    broken,  \* tempRenameBroken
    told,    \* whether onDegraded has reached the user
    kept,    \* contents in the server's version history
    pulls,   \* operations so far
    edits,   \* edits so far
    faults   \* failed calls and crashes so far

vars == <<host, disk, editor, trash, litter, index, saved, saves, op, up,
          broken, told, kept, pulls, edits, faults>>

Index  == [Path -> Text \cup {Torn, None, Gone}]
Editor == [buffer : Text \cup {Torn}, dirty : BOOLEAN, recent : BOOLEAN]
Step   == {"planned", "checked", "temp", "direct", "verify", "copy", "remove", "landed"}

(* A part of a state file, or none at all, is no index. *)
ASSUME StateAssumption == Torn \notin Index /\ None \notin Index

(***************************************************************************)
(* An operation: what the client asked for, the file it will replace and   *)
(* how far it is.  raced: somebody else wrote one of its files since they  *)
(* were last looked at; late: the user typed since the guard looked.       *)
(***************************************************************************)
Operation ==
    [kind : {"write", "delete", "rename"}, path : Path, from : Path, target : Path,
     text : Text \cup {Gone}, bytes : Text \cup {Torn, None}, step : Step,
     tries : Nat, raced : BOOLEAN, late : BOOLEAN]

\* Files, editors, trash, the index and its state file hold what the adapters
\* and the client store in them: in memory the index is never a part of a file.
StorageTypeOK ==
    /\ host \in {"daemon", "plugin"}
    /\ disk \in [Path -> Text \cup {Torn, None}]
    /\ editor \in [Path -> Editor \cup {None}]
    /\ trash \in [1..TrashSlots -> Text \cup {Torn, None}]
    /\ litter \subseteq Text \cup {Torn}
    /\ index \in Index
    /\ saved \in Index \cup {Torn, None}
    /\ saves \subseteq Index
    /\ op \in Operation \cup {None}
    /\ up \in BOOLEAN
    /\ broken \in BOOLEAN
    /\ told \in BOOLEAN
    /\ kept \subseteq Text \cup {Torn}
    /\ pulls \in 0..MaxPulls
    /\ edits \in 0..MaxEdits
    /\ faults \in 0..MaxFaults

Init ==
    /\ host \in {"daemon", "plugin"}
    /\ disk \in [Path -> Theirs \cup {None}]
    /\ \A p \in CopyName : disk[p] = None
    /\ editor = [p \in Path |-> None]
    /\ trash = [n \in 1..TrashSlots |-> None]
    /\ litter = {}
    /\ index = disk
    /\ saved = disk
    /\ saves = {}
    /\ op = None
    /\ up = TRUE
    /\ broken = FALSE
    /\ told = FALSE
    /\ kept = Theirs
    /\ pulls = 0
    /\ edits = 0
    /\ faults = 0

-----------------------------------------------------------------------------
(***************************************************************************)
(* The client's side: what it plans, records and saves.                    *)
(***************************************************************************)
Busy == up /\ op # None
At(step) == Busy /\ op.step = step
Advance(step) == op' = [op EXCEPT !.step = step]

(* A call of the file system throws: the operation ends, nothing is recorded. *)
Abort ==
    /\ faults < MaxFaults
    /\ faults' = faults + 1
    /\ op' = None

(* deserializeLocalState: whether a state file is complete and well formed. *)
Parses(s) == s \in Index

(* pathHasLocalDivergence: there is a file, and not the one the index describes. *)
LocalDivergence(p) == disk[p] # None /\ disk[p] # index[p]

(* The scan finds a local edit or a local deletion at p. *)
Edited(p) == disk[p] # IF index[p] = Gone THEN None ELSE index[p]

Begin(kind, from, p, t) ==
    /\ up /\ op = None
    /\ pulls < MaxPulls
    /\ pulls' = pulls + 1
    /\ Cardinality(saves) < MaxSaves
    /\ op' = [kind |-> kind, path |-> p, from |-> from, target |-> p, text |-> t,
              bytes |-> None, step |-> "planned", tries |-> 0, raced |-> FALSE,
              late |-> FALSE]
    /\ UNCHANGED <<host, disk, editor, trash, litter, index, saved, saves, up,
                   broken, told, kept, edits, faults>>

PlanWrite(p, t) ==
    /\ ~LocalDivergence(p)
    /\ t \in kept \cap Text
    /\ index[p] # t
    /\ Begin("write", p, p, t)

PlanDelete(p) ==
    /\ ~LocalDivergence(p)
    /\ index[p] \in Text
    /\ Begin("delete", p, p, Gone)

PlanRename(p, q) ==
    /\ p # q
    /\ ~LocalDivergence(p) /\ ~LocalDivergence(q)
    /\ index[p] \in Text
    /\ Begin("rename", p, q, index[p])

(***************************************************************************)
(* The call returned: the pull is folded into the index, the source of a   *)
(* rename leaves it.  The op queue then calls persistIndex, which does not *)
(* wait for the write: snapshots overtake one another.                     *)
(***************************************************************************)
Record ==
    /\ At("landed")
    /\ index' = [index EXCEPT ![op.from] = None, ![op.path] = op.text]
    /\ saves' = saves \cup {index'}
    /\ op' = None
    /\ UNCHANGED <<host, disk, editor, trash, litter, saved, up, broken, told,
                   kept, edits, faults, pulls>>

SaveLands ==
    /\ up
    /\ \E s \in saves :
        /\ saves' = saves \ {s}
        /\ saved' = s
    /\ UNCHANGED <<host, disk, editor, trash, litter, index, op, up, broken, told,
                   kept, edits, faults, pulls>>

(* persistIndex only logs a failure; a direct write may have cut the old state. *)
SaveFails ==
    /\ up
    /\ faults < MaxFaults
    /\ faults' = faults + 1
    /\ \E s \in saves : saves' = saves \ {s}
    /\ \/ UNCHANGED saved
       \/ broken /\ saved' = Torn
    /\ UNCHANGED <<host, disk, editor, trash, litter, index, op, up, broken, told,
                   kept, edits, pulls>>

(* A cycle without pulls: the edit of one path is committed and acknowledged. *)
Push(p) ==
    /\ up /\ op = None
    /\ Edited(p)
    /\ Cardinality(saves) < MaxSaves
    /\ index' = [index EXCEPT ![p] = IF disk[p] = None THEN Gone ELSE disk[p]]
    /\ kept' = kept \cup ({disk[p]} \ {None})
    /\ saves' = saves \cup {index'}
    /\ UNCHANGED <<host, disk, editor, trash, litter, saved, op, up, broken, told,
                   edits, faults, pulls>>

(* The daemon's temp files lie beside their notes under names no rule ignores. *)
PushLitter ==
    /\ up /\ op = None
    /\ host = "daemon"
    /\ ~(litter \subseteq kept)
    /\ kept' = kept \cup litter
    /\ UNCHANGED <<host, disk, editor, trash, litter, index, saved, saves, op, up,
                   broken, told, edits, faults, pulls>>

-----------------------------------------------------------------------------
(***************************************************************************)
(* Obsidian follows a file that changes under an editor, and closes the    *)
(* editor of one that goes, unless the editor is dirty.                    *)
(***************************************************************************)
Shown(p, t) ==
    IF editor[p] = None \/ editor[p].dirty THEN editor
    ELSE IF t = None THEN [editor EXCEPT ![p] = None]
    ELSE [editor EXCEPT ![p].buffer = t]

(* A file of the vault gets new content (or goes), and its editor follows. *)
Put(p, t) ==
    /\ disk' = [disk EXCEPT ![p] = t]
    /\ editor' = Shown(p, t)

(***************************************************************************)
(* conflictRedirectFor: a note that is open and cannot be proved clean is  *)
(* not overwritten, the pull goes to a conflict copy whose name is free.   *)
(***************************************************************************)
\* Mutant: a buffer that leads the disk goes unnoticed once the window is over.
CannotProveCleanRecent(p) == editor[p] # None /\ editor[p].recent

CannotProveClean(p) ==
    /\ editor[p] # None
    /\ \/ editor[p].recent
       \/ disk[p] # None /\ editor[p].buffer # disk[p]

ConflictRedirectFor(p) ==
    IF CannotProveClean(p) THEN {c \in CopyName : disk[c] = None} ELSE {p}

CheckOpenNote ==
    /\ At("planned")
    /\ host = "plugin"
    /\ op.kind = "write"
    /\ \E c \in ConflictRedirectFor(op.path) :
        op' = [op EXCEPT !.target = c, !.late = FALSE,
                         !.step = IF broken THEN "direct" ELSE "checked"]
    /\ UNCHANGED <<host, disk, editor, trash, litter, index, saved, saves, up,
                   broken, told, kept, edits, faults, pulls>>

-----------------------------------------------------------------------------
(***************************************************************************)
(* Writing: through a temp file and a rename.  A temp file that cannot be  *)
(* written ends the operation, on either host.  The daemon retries a       *)
(* rename that fails for a while; the plugin takes a failed rename for an  *)
(* adapter that has none, tells the user and writes the file directly.     *)
(***************************************************************************)
WritingTemp ==
    \/ At("checked")
    \/ At("planned") /\ host = "daemon" /\ op.kind = "write"

WriteTemp ==
    /\ WritingTemp
    /\ Advance("temp")
    /\ UNCHANGED <<host, disk, editor, trash, litter, index, saved, saves, up,
                   broken, told, kept, edits, faults, pulls>>

\* Mutant: the plugin writes the file directly when the temp file failed.
TempFailsToDirect ==
    /\ WritingTemp
    /\ faults < MaxFaults
    /\ faults' = faults + 1
    /\ op' = IF host = "plugin" THEN [op EXCEPT !.step = "direct"] ELSE None
    /\ UNCHANGED <<host, disk, editor, trash, litter, index, saved, saves, up,
                   broken, told, kept, edits, pulls>>

(* The removal of the temp file is best effort. *)
TempFails ==
    /\ WritingTemp
    /\ Abort
    /\ litter' \in {litter, litter \cup {Torn}}
    /\ UNCHANGED <<host, disk, editor, trash, index, saved, saves, up, broken, told,
                   kept, edits, pulls>>

RenameTemp ==
    /\ At("temp")
    /\ Put(op.target, op.text)
    /\ Advance("landed")
    /\ UNCHANGED <<host, trash, litter, index, saved, saves, up, broken, told, kept,
                   edits, faults, pulls>>

(* renameWithRetry: the destination is held open; the last attempt throws. *)
RenameBusy ==
    /\ At("temp")
    /\ host = "daemon"
    /\ IF op.tries + 1 < Retries
         THEN /\ op' = [op EXCEPT !.tries = @ + 1]
              /\ UNCHANGED <<litter, faults>>
         ELSE /\ Abort
              /\ litter' \in {litter, litter \cup {op.text}}
    /\ UNCHANGED <<host, disk, editor, trash, index, saved, saves, up, broken, told,
                   kept, edits, pulls>>

(* markDegraded: later writes of this process go direct as well. *)
RenameUnsupported ==
    /\ At("temp")
    /\ host = "plugin"
    /\ faults < MaxFaults
    /\ faults' = faults + 1
    /\ broken' = TRUE
    /\ told' = TRUE
    /\ litter' \in {litter, litter \cup {op.text}}
    /\ Advance("direct")
    /\ UNCHANGED <<host, disk, editor, trash, index, saved, saves, up, kept, edits, pulls>>

(* A direct write that returns may have landed short: its size is looked at. *)
DirectWrite ==
    /\ At("direct")
    /\ \/ Put(op.target, op.text) /\ UNCHANGED faults
       \/ /\ faults < MaxFaults
          /\ faults' = faults + 1
          /\ Put(op.target, Torn)
    /\ Advance("verify")
    /\ UNCHANGED <<host, trash, litter, index, saved, saves, up, broken, told, kept,
                   edits, pulls>>

DirectFails ==
    /\ At("direct")
    /\ Abort
    /\ \/ UNCHANGED <<disk, editor>>
       \/ Put(op.target, Torn)
    /\ UNCHANGED <<host, trash, litter, index, saved, saves, up, broken, told, kept,
                   edits, pulls>>

\* Mutant: the write is believed.
VerifyNothing ==
    /\ At("verify")
    /\ Advance("landed")
    /\ UNCHANGED <<host, disk, editor, trash, litter, index, saved, saves, up,
                   broken, told, kept, edits, faults, pulls>>

(* Another content may have the same size; a part of the content has not. *)
Verify ==
    /\ At("verify")
    /\ \/ disk[op.target] \in Text /\ Advance("landed")
       \/ disk[op.target] # op.text /\ op' = None
    /\ UNCHANGED <<host, disk, editor, trash, litter, index, saved, saves, up,
                   broken, told, kept, edits, faults, pulls>>

-----------------------------------------------------------------------------
(***************************************************************************)
(* Deleting.  The daemon reads the file, compares it with the index of the *)
(* STATE FILE (the seam does not hand it the client's), copies what the    *)
(* server does not provably hold and only then removes the file.  The      *)
(* plugin removes the file at once.                                        *)
(***************************************************************************)
\* Mutant: content the state file knows nothing of is taken for synced.
ContentDivergedIfKnown(p, t) == Parses(saved) /\ saved[p] \in Text /\ saved[p] # t

ContentDiverged(p, t) == ~(Parses(saved) /\ saved[p] = t)

ReadForTrash ==
    /\ At("planned")
    /\ host = "daemon"
    /\ op.kind = "delete"
    /\ op' = [op EXCEPT !.bytes = disk[op.path], !.raced = FALSE,
                        !.step = IF disk[op.path] = None THEN "landed"
                                 ELSE IF ContentDiverged(op.path, disk[op.path])
                                   THEN "copy" ELSE "remove"]
    /\ UNCHANGED <<host, disk, editor, trash, litter, index, saved, saves, up,
                   broken, told, kept, edits, faults, pulls>>

(* The first name that is free, for deletions within one tick of the clock. *)
UniqueTrashPath ==
    {n \in 1..TrashSlots : trash[n] = None /\ \A k \in 1..(n - 1) : trash[k] # None}

CopyToTrash ==
    /\ At("copy")
    /\ \E n \in UniqueTrashPath : trash' = [trash EXCEPT ![n] = op.bytes]
    /\ Advance("remove")
    /\ UNCHANGED <<host, disk, editor, litter, index, saved, saves, up, broken, told,
                   kept, edits, faults, pulls>>

CallFails ==
    /\ At("copy") \/ At("remove") \/ (At("planned") /\ op.kind # "write")
    /\ Abort
    /\ UNCHANGED <<host, disk, editor, trash, litter, index, saved, saves, up,
                   broken, told, kept, edits, pulls>>

RemoveFile ==
    /\ \/ At("remove")
       \/ At("planned") /\ host = "plugin" /\ op.kind = "delete"
    /\ Put(op.path, None)
    /\ Advance("landed")
    /\ UNCHANGED <<host, trash, litter, index, saved, saves, up, broken, told, kept,
                   edits, faults, pulls>>

(***************************************************************************)
(* Renaming moves the file; a source that has gone is fetched and written  *)
(* at the destination instead.                                             *)
(***************************************************************************)
RenameFile ==
    /\ At("planned")
    /\ op.kind = "rename"
    /\ IF disk[op.from] = None
         THEN /\ op' = [op EXCEPT !.kind = "write"]
              /\ UNCHANGED <<disk, editor>>
         ELSE /\ disk' = [disk EXCEPT ![op.from] = None, ![op.path] = disk[op.from]]
              /\ editor' = Shown(op.path, disk[op.from])
              /\ Advance("landed")
    /\ UNCHANGED <<host, trash, litter, index, saved, saves, up, broken, told, kept,
                   edits, faults, pulls>>

-----------------------------------------------------------------------------
(***************************************************************************)
(* Crash and start.  Temp files, complete or not, stay where they are; a   *)
(* direct write leaves what has been written of it.                        *)
(***************************************************************************)
TempLeft ==
    IF At("temp") THEN {op.text}
    ELSE IF WritingTemp \/ At("copy") THEN {Torn} ELSE {}

Crash ==
    /\ up
    /\ faults < MaxFaults
    /\ faults' = faults + 1
    /\ up' = FALSE
    /\ op' = None
    /\ litter' \in {litter, litter \cup TempLeft}
    /\ \/ UNCHANGED disk
       \/ At("direct") /\ disk' = [disk EXCEPT ![op.target] = Torn]
    /\ \/ UNCHANGED saved
       \/ broken /\ saves # {} /\ saved' = Torn
    /\ editor' = [p \in Path |-> None]
    /\ saves' = {}
    /\ broken' = FALSE
    /\ UNCHANGED <<host, trash, index, told, kept, edits, pulls>>

\* Mutant: the state file is not validated.
StartUnchecked ==
    /\ ~up
    /\ up' = TRUE
    /\ index' = saved
    /\ UNCHANGED <<host, disk, editor, trash, litter, saved, saves, op, broken, told,
                   kept, edits, faults, pulls>>

(* A state file that does not parse is moved aside and the index starts empty. *)
Start ==
    /\ ~up
    /\ up' = TRUE
    /\ IF Parses(saved)
         THEN index' = saved /\ UNCHANGED saved
         ELSE index' = [p \in Path |-> None] /\ saved' = None
    /\ UNCHANGED <<host, disk, editor, trash, litter, saves, op, broken, told, kept,
                   edits, faults, pulls>>

-----------------------------------------------------------------------------
(***************************************************************************)
(* Agents, and the user in Obsidian.                                       *)
(***************************************************************************)
Touches(p) == op # None /\ p \in {op.path, op.from, op.target}

Raced(p) == IF Touches(p) THEN [op EXCEPT !.raced = TRUE] ELSE op

AgentWrites(p, t) ==
    /\ edits < MaxEdits
    /\ edits' = edits + 1
    /\ disk[p] # t
    /\ Put(p, t)
    /\ op' = Raced(p)
    /\ UNCHANGED <<host, trash, litter, index, saved, saves, up, broken, told, kept,
                   faults, pulls>>

OpenNote(p) ==
    /\ host = "plugin" /\ up
    /\ editor[p] = None
    /\ disk[p] \in Text
    /\ editor' = [editor EXCEPT ![p] =
                    [buffer |-> disk[p], dirty |-> FALSE, recent |-> FALSE]]
    /\ UNCHANGED <<host, disk, trash, litter, index, saved, saves, op, up, broken,
                   told, kept, edits, faults, pulls>>

(* Typing raises editor-change. *)
Type(p, t) ==
    /\ edits < MaxEdits
    /\ edits' = edits + 1
    /\ editor[p] # None
    /\ editor[p].buffer # t
    /\ editor' = [editor EXCEPT ![p] = [buffer |-> t, dirty |-> TRUE, recent |-> TRUE]]
    /\ op' = IF Touches(p) THEN [op EXCEPT !.late = TRUE] ELSE op
    /\ UNCHANGED <<host, disk, trash, litter, index, saved, saves, up, broken, told,
                   kept, faults, pulls>>

(* The dirty window passes, whether or not the autosave came in time. *)
WindowPasses(p) ==
    /\ editor[p] # None
    /\ editor[p].recent
    /\ editor' = [editor EXCEPT ![p].recent = FALSE]
    /\ UNCHANGED <<host, disk, trash, litter, index, saved, saves, op, up, broken,
                   told, kept, edits, faults, pulls>>

Autosave(p) ==
    /\ editor[p] # None
    /\ editor[p].dirty
    /\ disk' = [disk EXCEPT ![p] = editor[p].buffer]
    /\ editor' = [editor EXCEPT ![p].dirty = FALSE]
    /\ op' = Raced(p)
    /\ UNCHANGED <<host, trash, litter, index, saved, saves, up, broken, told, kept,
                   edits, faults, pulls>>

Outside ==
    \E p \in Note :
        \/ \E t \in Mine \cup {None} : AgentWrites(p, t)
        \/ \E t \in Mine : Type(p, t)
        \/ OpenNote(p)
        \/ WindowPasses(p)
        \/ Autosave(p)

Client ==
    \/ \E p \in Path :
        \/ \E t \in Text : PlanWrite(p, t)
        \/ PlanDelete(p)
        \/ \E q \in Path : PlanRename(p, q)
        \/ Push(p)
    \/ Record
    \/ SaveLands
    \/ SaveFails
    \/ PushLitter

Adapter ==
    \/ CheckOpenNote
    \/ WriteTemp
    \/ TempFails
    \/ RenameTemp
    \/ RenameBusy
    \/ RenameUnsupported
    \/ DirectWrite
    \/ DirectFails
    \/ Verify
    \/ ReadForTrash
    \/ CopyToTrash
    \/ CallFails
    \/ RemoveFile
    \/ RenameFile

Next == Client \/ Adapter \/ Crash \/ Start \/ Outside

Spec == Init /\ [][Next]_vars

-----------------------------------------------------------------------------
(***************************************************************************)
(* What the adapters owe the client and the user.                          *)
(***************************************************************************)

\* A file that holds a part of a content exists only after the user was told
\* that atomic writes are unavailable: no failing call and no crash of the
\* daemon, or of a plugin whose renames work, cuts a note in two.
TornIsAnnounced == (\E p \in Path : disk[p] = Torn) => told

\* Contents that somebody still has: in a file, in .trash or in the history.
Held == {disk[p] : p \in Path} \cup {trash[n] : n \in 1..TrashSlots} \cup kept

\* No step of the adapters, and no crash, takes the last copy of a content,
\* unless somebody wrote the operation's file after it was last looked at.
StorageKeeps ==
    [][Adapter \/ Crash =>
         \/ op # None /\ op.raced
         \/ Held \ {Torn, None} \subseteq Held']_vars

\* The index says that a content was pulled only when the whole of it is in
\* the file the adapter wrote: the note, or the conflict copy it chose.
RecordedContentLanded ==
    [][Record /\ op.kind = "write" => op.raced \/ disk[op.target] = op.text]_vars

\* A pull does not overwrite a note under an editor with unsaved text, which
\* would then be saved over it unseen, unless the typing or the file came
\* after the guard looked.
PullsSpareDirtyNotes ==
    [][RenameTemp \/ DirectWrite =>
         \/ op.late \/ op.raced
         \/ disk[op.target] = None
         \/ editor[op.target] = None
         \/ editor[op.target].buffer = disk[op.target]]_vars

=============================================================================
