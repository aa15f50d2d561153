------------------------------ MODULE SyncPlan ------------------------------
(***************************************************************************)
(* Three-way reconciliation (core/src/resolve.ts): what a sync cycle of    *)
(* device d pushes and pulls, from its index, its disk, what a scan of it  *)
(* found and the manifest it fetched.  The plan is a set of outcomes, one  *)
(* for each path the phases visit.  EmptyId stands for the version id ''   *)
(* of a head the authority no longer knows.                                *)
(***************************************************************************)
EXTENDS LocalVault

CONSTANT EmptyId   \* '', the id of no version

ASSUME EmptyIdAssumption == EmptyId \in VersionId

\* The pushes and pulls of one path, and the paths where two edits met.
Outcome(pushes, pulls, contested) ==
  [pushes |-> pushes, pulls |-> pulls, contested |-> contested]

\* A push: the commit to send and the path its content is read from.
Push(c, source) == [commit |-> c, source |-> source]

VersionIn(index, p) == IF p \in DOMAIN index THEN index[p].version ELSE NoVersion

CommitOf(kind, p, parent, hash, from, isFolder) ==
  [path |-> p, parent |-> parent, hash |-> hash, kind |-> kind, from |-> from,
   isFolder |-> isFolder]

\* toStaged sends an "add" as an edit.
ContentKind(index, p) ==
  IF p \in DOMAIN index /\ index[p].deleted THEN "restore" ELSE "edit"

PushContent(index, p, hash) ==
  Push(CommitOf(ContentKind(index, p), p, VersionIn(index, p), hash, NoPath,
                FALSE), p)

PushDelete(index, p, isFolder) ==
  Push(CommitOf("delete", p, VersionIn(index, p),
                IF isFolder THEN NoHash ELSE index[p].hash, NoPath, isFolder), NoPath)

\* Mutant: a rename is built on what its destination had.
PushRenameOnTarget(index, x, hash) ==
  Push(CommitOf("rename", x.to, VersionIn(index, x.to), hash, x.from, FALSE),
       NoPath)

PushRename(index, x, hash) ==
  Push(CommitOf("rename", x.to, VersionIn(index, x.from), hash, x.from, FALSE),
       NoPath)

PullHead(remote, p) == Pull(p, NoPath, remote[p])

\* remoteEntryChanged
RemoteChanged(index, remote, p) ==
  /\ p \in DOMAIN remote
  /\ IF p \in DOMAIN index THEN remote[p].version # index[p].version
                           ELSE ~remote[p].deleted

\* The clock the room would give a commit built on the index.
LocalClock(d, index, p) ==
  NextClock(IF p \in DOMAIN index THEN index[p].clock.counter ELSE 0, d)

RemoteWins(d, index, remote, p) ==
  Later(remote[p].clock, LocalClock(d, index, p))

\* pushConflictCopy: names that neither side has are free.  NoPath when there is
\* none: conflictCopyPath throws, and there is no plan.
CopyName(d, index, remote, p) ==
  LET known == [q \in DOMAIN index \cup DOMAIN remote |-> q]
  IN  IF FreeCandidates(known, p, d) = {} THEN NoPath
      ELSE ConflictCopyPath(known, p, d)

\* Mutant: two files that were created apart are taken for one.
CopyOfLoserKnown(d, index, remote, p, hash) ==
  IF hash = remote[p].hash \/ p \notin DOMAIN index THEN {}
  ELSE {Push(CommitOf("conflictCopy", CopyName(d, index, remote, p),
                      remote[p].version, hash, NoPath, FALSE), p)}

CopyOfLoser(d, index, remote, p, hash) ==
  IF hash = remote[p].hash THEN {}
  ELSE {Push(CommitOf("conflictCopy", CopyName(d, index, remote, p),
                      remote[p].version, hash, NoPath, FALSE), p)}

\* resolveContestedPath, for a local deletion ...
ContestedDelete(d, index, remote, p, isFolder) ==
  IF remote[p].deleted \/ RemoteWins(d, index, remote, p)
  THEN Outcome({}, {PullHead(remote, p)}, {})
  ELSE Outcome({PushDelete(index, p, isFolder)}, {}, {})

\* ... and for local content.
ContestedContent(d, index, remote, p, hash) ==
  LET both == IF p \in DOMAIN index /\ ~remote[p].deleted THEN {p} ELSE {}
  IN  IF hash = remote[p].hash /\ ~remote[p].deleted
      THEN Outcome({}, {PullHead(remote, p)}, {})
      ELSE IF RemoteWins(d, index, remote, p)
      THEN Outcome(CopyOfLoser(d, index, remote, p, hash),
                   {PullHead(remote, p)}, both)
      ELSE Outcome({PushContent(index, p, hash)}, {}, both)

\* Phases A and D place local content alike.
PlaceContent(d, index, remote, p, hash) ==
  IF RemoteChanged(index, remote, p)
  THEN ContestedContent(d, index, remote, p, hash)
  ELSE Outcome({PushContent(index, p, hash)}, {}, {})

PlaceDelete(d, index, remote, p, isFolder) ==
  IF RemoteChanged(index, remote, p)
  THEN ContestedDelete(d, index, remote, p, isFolder)
  ELSE Outcome({PushDelete(index, p, isFolder)}, {}, {})

\* A head the manifest does not have: deleted, under an id nobody knows.
PullVanished(index, p) ==
  Pull(p, NoPath, [index[p] EXCEPT !.version = EmptyId, !.deleted = TRUE])

-----------------------------------------------------------------------------
(* Phase A: local renames *)

SourceChanged(index, remote, x) ==
  x.from \notin DOMAIN remote \/ RemoteChanged(index, remote, x.from)

\* Nothing raced the move, or it wins against an edit of its source.
MovesAsOne(d, index, remote, x) ==
  \/ ~SourceChanged(index, remote, x) /\ ~RemoteChanged(index, remote, x.to)
  \/ /\ SourceChanged(index, remote, x)
     /\ x.from \in DOMAIN remote /\ ~remote[x.from].deleted
     /\ ~RemoteWins(d, index, remote, x.from)

\* The source of a move that is taken apart.
SourceOutcome(d, index, remote, x) ==
  IF ~SourceChanged(index, remote, x)
  THEN Outcome({PushDelete(index, x.from, FALSE)}, {}, {})
  ELSE IF x.from \in DOMAIN remote
  THEN Outcome({}, {PullHead(remote, x.from)}, {})
  ELSE Outcome({}, {PullVanished(index, x.from)}, {})

RenameOutcomes(d, disk, index, remote, x) ==
  IF MovesAsOne(d, index, remote, x)
  THEN {Outcome({PushRename(index, x, disk[x.to])}, {}, {})}
  ELSE {SourceOutcome(d, index, remote, x),
        PlaceContent(d, index, remote, x.to, disk[x.to])}

-----------------------------------------------------------------------------
(* Phases B and C: what only the remote side changed *)

LocalPaths(scan) ==
  scan.added \cup scan.modified \cup scan.deleted \cup scan.folderDeletions
    \cup {x.from : x \in scan.renamed} \cup {x.to : x \in scan.renamed}

\* Live in the index, absent from the manifest: migrated by the authority.
Migrated(scan, index, remote) ==
  LiveFiles(index) \ (DOMAIN remote \cup LocalPaths(scan))

Arrivals(scan, index, remote) ==
  {p \in DOMAIN remote \ LocalPaths(scan) :
     ~remote[p].deleted /\ (p \in DOMAIN index => index[p].deleted)}

RemoteRenames(scan, index, remote) ==
  Matching([p \in Migrated(scan, index, remote) |-> index[p].hash],
           [q \in Arrivals(scan, index, remote) |-> remote[q].hash])

MigrationOutcomes(scan, index, remote) ==
  LET moves == RemoteRenames(scan, index, remote)
  IN  {Outcome({}, {Pull(x.to, x.from, remote[x.to])}, {}) : x \in moves}
        \cup {Outcome({}, {PullVanished(index, p)}, {}) :
                p \in Migrated(scan, index, remote) \ {x.from : x \in moves}}

RemoteOutcomes(scan, index, remote) ==
  {Outcome({}, {PullHead(remote, p)}, {}) :
     p \in {q \in DOMAIN remote \ LocalPaths(scan) :
              /\ RemoteChanged(index, remote, q)
              /\ \A x \in RemoteRenames(scan, index, remote) : q # x.to}}

-----------------------------------------------------------------------------
(* Phase D: local candidates *)

LocalOutcomes(d, scan, disk, index, remote) ==
  {PlaceContent(d, index, remote, p, disk[p]) : p \in scan.added \cup scan.modified}
    \cup {PlaceDelete(d, index, remote, p, FALSE) : p \in scan.deleted}
    \cup {PlaceDelete(d, index, remote, p, TRUE) : p \in scan.folderDeletions}

-----------------------------------------------------------------------------
(* The plan *)

\* comparePullOps: by path, but between two spellings of a name the deletion
\* comes first.
PullBefore(a, b) ==
  IF Fold[a.path] = Fold[b.path] /\ a.head.deleted # b.head.deleted
  THEN a.head.deleted ELSE PathOrder[a.path] < PathOrder[b.path]

\* What sort may return: the comparison is no order once a third path lies
\* between the two spellings, and then only neighbours are known to be sorted.
PullOrders(pulls) ==
  {s \in Listings(pulls) :
     \A i \in 1..(Len(s) - 1) : PullBefore(s[i], s[i + 1])}

\* hoistFoldPairedDeletes: a deletion moves up to the push that waits for its
\* fold key.
PushRank(pushes, a) ==
  LET waiting == {b \in pushes : /\ a.commit.kind = "delete"
                                 /\ b.commit.kind # "delete"
                                 /\ Fold[b.commit.path] = Fold[a.commit.path]}
  IN  PathOrder[First({b.commit.path : b \in waiting \cup {a}})]

PushBefore(pushes, a, b) ==
  \/ PushRank(pushes, a) < PushRank(pushes, b)
  \/ /\ PushRank(pushes, a) = PushRank(pushes, b)
     /\ a.commit.kind = "delete" /\ b.commit.kind # "delete"

PushOrders(pushes) ==
  {s \in Listings(pushes) :
     \A i, j \in DOMAIN s : i < j => ~PushBefore(pushes, s[j], s[i])}

\* computeSyncPlan
ComputeSyncPlan(d, scan, disk, index, remote) ==
  LET outcomes == (UNION {RenameOutcomes(d, disk, index, remote, x) : x \in scan.renamed})
                    \cup MigrationOutcomes(scan, index, remote)
                    \cup RemoteOutcomes(scan, index, remote)
                    \cup LocalOutcomes(d, scan, disk, index, remote)
      pushes == UNION {o.pushes : o \in outcomes}
      named  == {x \in pushes : x.commit.path # NoPath}
  IN  [thrown    |-> named # pushes,
       pushes    |-> named,
       pulls     |-> UNION {o.pulls : o \in outcomes},
       contested |-> UNION {o.contested : o \in outcomes},
       folders   |-> ByPath(scan.emptyFolders)]
=============================================================================
