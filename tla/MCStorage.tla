----------------------------- MODULE MCStorage -----------------------------
EXTENDS VaultStorage, TLC

\* Notes are alike, and so are the contents written here and elsewhere.
StorageSymmetry == Permutations(Note) \cup Permutations(Mine) \cup Permutations(Theirs)
=============================================================================
