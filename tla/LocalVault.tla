----------------------------- MODULE LocalVault -----------------------------
(***************************************************************************)
(* What one device keeps of a vault: the files and directories on its disk *)
(* and the local index (core/src/localindex.ts), how a scan tells them     *)
(* apart (core/src/scan.ts) and how pulls are written through              *)
(* (core/src/engine.ts).  A scan compares contents: the size and mtime     *)
(* pre-filter, symbolic links and Windows-unsafe names are left out, and   *)
(* file names are case-sensitive.                                          *)
(***************************************************************************)
EXTENDS Arbitration

CONSTANTS
  Parent,     \* Parent[p]: the directory p is in, NoPath at the root
  Above,      \* Above[p]: every directory p is beneath
  Base,       \* Base[p]: the last segment of p
  Ignored     \* Ignored[d]: the paths device d leaves out of the sync

ASSUME TreeAssumption ==
  /\ Parent \in [Path -> Path \cup {NoPath}]
  /\ Above \in [Path -> SUBSET Path]
  /\ \A p \in Path : Parent[p] \in Above[p] \cup {NoPath}
  /\ \A p \in Path : \A q \in Above[p] : PathOrder[q] < PathOrder[p]
  /\ DOMAIN Base = Path
  /\ Ignored \in [Device -> SUBSET Path]

\* An entry of the index, and of a manifest.
Entry == [version : Nat, hash : Hash \cup {NoHash}, clock : Clock,
          deleted : BOOLEAN, isFolder : BOOLEAN]

\* path -> content; a directory has no content.
IsDisk(disk) == /\ DOMAIN disk \subseteq Path
                /\ \A p \in DOMAIN disk : disk[p] \in Hash \cup {NoHash}

\* path -> entry
IsHeads(heads) == /\ DOMAIN heads \subseteq Path
                  /\ \A p \in DOMAIN heads : heads[p] \in Entry

FilesOn(disk) == {p \in DOMAIN disk : disk[p] # NoHash}
DirsOn(disk)  == {p \in DOMAIN disk : disk[p] = NoHash}

WithoutKeys(f, keys) == [x \in DOMAIN f \ keys |-> f[x]]

\* storage.writeFile and ensureDir (NoHash) create the directories above.
WriteTo(disk, p, h) ==
  [q \in DOMAIN disk \cup Above[p] \cup {p} |->
     IF q = p THEN h ELSE IF q \in DOMAIN disk THEN disk[q] ELSE NoHash]

\* Writes to several paths; which comes first tells only for one path's.
WriteAll(disk, writes) ==
  LET paths == {w.path : w \in writes}
  IN  [q \in DOMAIN disk \cup paths \cup UNION {Above[p] : p \in paths} |->
         IF q \in paths THEN (CHOOSE w \in writes : w.path = q).hash
         ELSE IF q \in DOMAIN disk THEN disk[q] ELSE NoHash]

\* storage.renameFile
MoveFile(disk, p, q) == WriteTo(WithoutKeys(disk, {p}), q, disk[p])

-----------------------------------------------------------------------------
(* Orders and choices *)

\* The numbers of S from the smallest on: the i-th has i - 1 below it.
Sorted(S) ==
  [i \in 1..Cardinality(S) |->
     CHOOSE n \in S : Cardinality({m \in S : m < n}) = i - 1]

\* The elements of s at the positions in "at", in their order.
Picked(s, at) == [i \in 1..Cardinality(at) |-> s[Sorted(at)[i]]]

\* Every order of the elements of S.
Listings(S) ==
  {s \in [1..Cardinality(S) -> S] : \A x \in S : \E i \in DOMAIN s : s[i] = x}

ByPath(S) ==
  LET places == {PathOrder[p] : p \in S}
  IN  [i \in 1..Cardinality(places) |->
         CHOOSE p \in S : PathOrder[p] = Sorted(places)[i]]

First(S) == CHOOSE p \in S : \A q \in S : PathOrder[p] <= PathOrder[q]

\* The same directory is preferred, then the smallest path.
Nearest(S, p) ==
  LET near == {q \in S : Parent[q] = Parent[p]}
  IN  First(IF near # {} THEN near ELSE S)

Pair(p, q) == [from |-> p, to |-> q]

\* What source p takes: the nearest target with its content that no source
\* before it took.
Taken(sources, targets, pairs, p) ==
  LET earlier == {x \in pairs : PathOrder[x.from] < PathOrder[p]}
      free    == {q \in DOMAIN targets \ {x.to : x \in earlier} :
                    targets[q] = sources[p]}
  IN  IF free = {} THEN {} ELSE {Pair(p, Nearest(free, p))}

\* One-to-one matching of paths with their contents: the pairs that the sources
\* take, one after another.  (There is one such set.)
Matching(sources, targets) ==
  LET alike == {x \in [from : DOMAIN sources, to : DOMAIN targets] :
                  sources[x.from] = targets[x.to]}
  IN  UNION {pairs \in SUBSET alike :
               pairs = UNION {Taken(sources, targets, pairs, p) : p \in DOMAIN sources}}

-----------------------------------------------------------------------------
(* scan.ts *)

LiveFiles(heads) == {p \in DOMAIN heads : ~heads[p].deleted /\ ~heads[p].isFolder}

Kept(d, disk) == FilesOn(disk) \ Ignored[d]

Added(d, disk, index) == Kept(d, disk) \ DOMAIN index

Modified(d, disk, index) ==
  {p \in Kept(d, disk) \cap DOMAIN index :
     index[p].isFolder \/ index[p].deleted \/ index[p].hash # disk[p]}

Gone(d, disk, index) == LiveFiles(index) \ (Kept(d, disk) \cup Ignored[d])

\* detectRenames: by content, then by a base name that is unambiguous.
RenamedByHash(d, disk, index) ==
  Matching([p \in Gone(d, disk, index) |-> index[p].hash],
           [q \in Added(d, disk, index) |-> disk[q]])

RenamedByName(gone, added) ==
  {x \in [from : gone, to : added] :
     /\ {r \in gone  : Base[r] = Base[x.from]} = {x.from}
     /\ {r \in added : Base[r] = Base[x.from]} = {x.to}}

DetectRenames(d, disk, index) ==
  LET byHash == RenamedByHash(d, disk, index)
  IN  byHash \cup RenamedByName(
        Gone(d, disk, index) \ {x.from : x \in byHash},
        Added(d, disk, index) \ {x.to : x \in byHash})

\* splitFoldCollisions: an unchanged file under another spelling stands for it.
HasTwin(d, disk, index, p) ==
  \E q \in Kept(d, disk) :
    /\ Fold[q] = Fold[p]
    /\ q \notin Added(d, disk, index) \cup Modified(d, disk, index)

Represented(disk) == UNION {Above[p] : p \in FilesOn(disk)}

\* The empty directory over a placeholder that another device tombstoned.
StaleDirs(d, disk, index) ==
  {p \in (DirsOn(disk) \cap DOMAIN index) \ (Ignored[d] \cup Represented(disk)) :
     index[p].isFolder /\ index[p].deleted /\ index[p].clock.dev # d}

\* detectEmptyFolders
EmptyFolders(d, disk, index) ==
  {p \in DirsOn(disk) \ (Ignored[d] \cup StaleDirs(d, disk, index)) :
     IF p \in DOMAIN index /\ index[p].isFolder
     THEN index[p].deleted
     ELSE p \notin Represented(disk)}

\* detectFolderDeletions
FolderDeletions(d, disk, index) ==
  {p \in DOMAIN index \ (DirsOn(disk) \cup Ignored[d]) :
     index[p].isFolder /\ ~index[p].deleted}

\* scanVault
ScanVault(d, disk, index) ==
  LET renamed == DetectRenames(d, disk, index)
  IN  [added    |-> Added(d, disk, index) \ {x.to : x \in renamed},
       modified |-> Modified(d, disk, index),
       deleted  |-> {p \in Gone(d, disk, index) \ {x.from : x \in renamed} :
                       ~HasTwin(d, disk, index, p)},
       renamed  |-> renamed,
       folderDeletions |-> FolderDeletions(d, disk, index),
       emptyFolders    |-> EmptyFolders(d, disk, index),
       staleDirs       |-> StaleDirs(d, disk, index)]

-----------------------------------------------------------------------------
(* engine.ts.  A pull is [path, from, head]; "from" is set for a rename.     *)

Pull(p, from, head) == [path |-> p, from |-> from, head |-> head]

Local(disk, index) == [disk |-> disk, index |-> index]

\* dirIsVacant
IsVacant(disk, index, dir) ==
  /\ dir \in DirsOn(disk)
  /\ \A p \in DOMAIN disk \cup LiveFiles(index) : dir \notin Above[p]

\* removeDirIfVacant
RemoveDirIfVacant(disk, index, dir) ==
  IF dir # NoPath /\ IsVacant(disk, index, dir)
  THEN WithoutKeys(disk, {dir}) ELSE disk

\* pruneParentOnDelete
Prune(local, p) ==
  Local(RemoveDirIfVacant(local.disk, local.index, Parent[p]), local.index)

PullRename(local, pull) ==
  LET disk  == IF pull.from \in DOMAIN local.disk
               THEN MoveFile(local.disk, pull.from, pull.path)
               ELSE WriteTo(local.disk, pull.path, pull.head.hash)
      index == MapSet(WithoutKeys(local.index, {pull.from}), pull.path, pull.head)
  IN  Prune(Local(disk, index), pull.from)

\* A folder's rename moves its metadata only.
PullFolderRename(local, pull) ==
  LET index == MapSet(WithoutKeys(local.index, {pull.from}), pull.path, pull.head)
      disk  == WriteTo(local.disk, pull.path, NoHash)
  IN  Local(RemoveDirIfVacant(disk, index, pull.from), index)

PullFolder(local, pull) ==
  Local(IF pull.head.deleted
        THEN RemoveDirIfVacant(local.disk, local.index, pull.path)
        ELSE WriteTo(local.disk, pull.path, NoHash),
        MapSet(local.index, pull.path, pull.head))

PullDelete(local, pull) ==
  Prune(Local(WithoutKeys(local.disk, {pull.path} \ DirsOn(local.disk)),
              MapSet(local.index, pull.path, pull.head)), pull.path)

\* Content that is already there is not written again.
IsCatchUp(local, pull) ==
  /\ pull.path \in LiveFiles(local.index)
  /\ local.index[pull.path].hash = pull.head.hash
  /\ pull.path \in DOMAIN local.disk

PullContent(local, pull) ==
  Local(IF IsCatchUp(local, pull) THEN local.disk
        ELSE WriteTo(local.disk, pull.path, pull.head.hash),
        MapSet(local.index, pull.path, pull.head))

\* applyOnePull
ApplyOnePull(local, pull) ==
  CASE pull.from # NoPath /\ pull.head.isFolder -> PullFolderRename(local, pull)
    [] pull.from # NoPath /\ ~pull.head.isFolder -> PullRename(local, pull)
    [] pull.from = NoPath /\ pull.head.isFolder -> PullFolder(local, pull)
    [] pull.from = NoPath /\ ~pull.head.isFolder /\ pull.head.deleted ->
         PullDelete(local, pull)
    [] OTHER -> PullContent(local, pull)

\* applyPull, up to the n-th pull.
AfterPulls(local, pulls, n) ==
  LET after[i \in 0..n] ==
        IF i = 0 THEN local ELSE ApplyOnePull(after[i - 1], pulls[i])
  IN  after[n]
=============================================================================
