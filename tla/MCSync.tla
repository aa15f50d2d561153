------------------------------- MODULE MCSync -------------------------------
(* Instances of SyncSystem for TLC: two notes, a note in a directory, the   *)
(* names of their conflict copies, and a text that merges two edits.        *)
EXTENDS SyncSystem, TLC

MCFold == [p \in Path |-> IF p = "Note" THEN "note" ELSE p]

\* A copy is named for the device whose content it keeps.
CopyNames ==
  [pd \in {"note", "memo"} \X {1, 2} |->
     CASE pd = <<"note", 1>> -> <<"note-1", "note-1b">>
       [] pd = <<"note", 2>> -> <<"note-2", "note-2b">>
       [] pd = <<"memo", 1>> -> <<"memo-1", "memo-1b">>
       [] pd = <<"memo", 2>> -> <<"memo-2", "memo-2b">>]

MCCopyCandidates ==
  [pd \in Path \X Device |->
     IF pd \in DOMAIN CopyNames
     THEN SelectSeq(CopyNames[pd], LAMBDA p : p \in Path) ELSE <<>>]

AllPaths == <<"Note", "dir", "dir/note", "memo", "memo-1", "memo-1b", "memo-2", "memo-2b",
              "note", "note-1", "note-1b", "note-2", "note-2b">>

MCPathOrder ==
  [p \in Path |-> CHOOSE i \in DOMAIN AllPaths : AllPaths[i] = p]

MCParent == [p \in Path |-> IF p = "dir/note" THEN "dir" ELSE NoPath]
MCAbove  == [p \in Path |-> IF p = "dir/note" THEN {"dir"} ELSE {}]
MCBase   == [p \in Path |-> IF p = "dir/note" THEN "note" ELSE p]

NoneIgnored == [d \in Device |-> {}]
NoMerges    == EmptyMap
EmptyVersion == MaxVersions + 1

MCMerge     == [t \in {<<"x", "y", "z">>, <<"x", "z", "y">>} |-> "xyz"]
=============================================================================
