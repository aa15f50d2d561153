----------------------------- MODULE MCVaultRoom -----------------------------
(* Instances of VaultRoom for TLC: two base names that fold together, one    *)
(* that does not, and the names of their conflict copies.                    *)
EXTENDS VaultRoom, TLC

MCFold ==
  [p \in Path |-> IF p \in {"note", "Note"} THEN "note" ELSE p]

\* Copies of copies are not named in these instances.
MCCopyCandidates ==
  [pd \in Path \X Device |->
     LET names == CASE pd[1] = "note" -> <<"note-copy", "note-copy-2">>
                    [] pd[1] = "memo" -> <<"memo-copy", "memo-copy-2">>
                    [] OTHER -> <<>>
         Named(p) == p \in Path
     IN  SelectSeq(names, Named)]

MCPathOrder ==
  [p \in Path |-> CASE p = "Note" -> 1 [] p = "memo" -> 2
                    [] p = "memo-copy" -> 3 [] p = "memo-copy-2" -> 4
                    [] p = "note" -> 5 [] p = "note-copy" -> 6
                    [] p = "note-copy-2" -> 7]

HashSymmetry == Permutations(Hash)
=============================================================================
