------------------------------ MODULE VaultRoom ------------------------------
(***************************************************************************)
(* The authority of one vault: the Durable Object VaultRoom                *)
(* (worker/src/room.ts), its SQLite tables, the R2 bucket beside them and  *)
(* the weekly cron (worker/src/index.ts).  runExclusive serialises the     *)
(* handlers of the room, so each handler is one action; what the worker    *)
(* does to R2 outside that queue is an action of its own.                  *)
(***************************************************************************)
EXTENDS Arbitration

CONSTANTS
  LargeHash,           \* contents above the inline cap, uploaded before commit
  ClientKinds,         \* the kinds of commit the devices of this instance send
  RenameSources,       \* the paths they move files away from
  FolderCommits,       \* whether they also send folder placeholders
  RetentionVersions,   \* settings_retention_versions, 0 when off
  RetentionDays,       \* whether settings_retention_days is set
  PutFailures,         \* whether a put into R2 may fail
  LogPruning,          \* whether the event log is ever pruned
  MaxVersions,         \* bound on the versions table
  MaxSeq,              \* bound on the change log
  MaxSnapshots         \* bound on the snapshots table

ASSUME RoomAssumption ==
  /\ PathOrder \in [Path -> Nat]
  /\ \A p, q \in Path : PathOrder[p] = PathOrder[q] => p = q
  /\ LargeHash \subseteq Hash
  /\ ClientKinds \subseteq Kind
  /\ RenameSources \subseteq Path
  /\ FolderCommits \in BOOLEAN
  /\ RetentionDays \in BOOLEAN
  /\ LogPruning \in BOOLEAN
  /\ PutFailures \in BOOLEAN
  /\ {RetentionVersions, MaxVersions, MaxSeq, MaxSnapshots} \subseteq Nat

VARIABLES
  files,       \* files table: path -> row
  headSeq,     \* its head_seq column: path -> seq, 0 before the first change
  versions,    \* versions table: id -> version
  seq,         \* global_seq
  events,      \* change rows of the events table: seq -> change
  snapshots,   \* snapshots table: sequence of path -> head record
  blobs,       \* blobs table: hash -> refcount
  bucket,      \* R2: the hashes whose content is stored
  purged,      \* hashes the cron has unlisted and not yet deleted from R2
  uploading    \* PUT /blob requests that stored content, room not yet told

tables == <<files, headSeq, versions, seq, events>>
store  == <<blobs, bucket, purged, uploading>>
vars   == <<tables, snapshots, store>>

HeadRecord == [version : VersionId, hash : Hash \cup {NoHash},
               deleted : BOOLEAN, isFolder : BOOLEAN]

\* The heads column of a snapshot: path -> head record.
Snapshot == UNION {[paths -> HeadRecord] : paths \in SUBSET Path}

Init ==
  /\ files = EmptyMap /\ headSeq = EmptyMap /\ versions = EmptyMap
  /\ seq = 0 /\ events = EmptyMap
  /\ snapshots = <<>>
  /\ blobs = EmptyMap /\ bucket = {} /\ purged = {} /\ uploading = {}

-----------------------------------------------------------------------------
(* Persisting a verdict *)

\* persistVerdict writes only the version ids it has not seen, and leaves
\* alone a files row whose current_version did not change.
PersistedVersions(after) ==
  [id \in DOMAIN versions \cup DOMAIN after |->
     IF id \in DOMAIN versions THEN versions[id] ELSE after[id]]

PersistedRow(p, row) ==
  IF p \in DOMAIN files /\ files[p].version = row.version
  THEN files[p] ELSE row

\* recordChange drops the source row of a rename it announces.
RenamedAway(changes) ==
  {changes[i].from : i \in {j \in DOMAIN changes : changes[j].kind = "rename"}}

PersistedFiles(after, changes) ==
  [p \in DOMAIN after \ RenamedAway(changes) |-> PersistedRow(p, after[p])]

\* recordChange, for each change in order: the next seq, an event row, head_seq.
ChangesOf(p, changes) == {i \in DOMAIN changes : changes[i].path = p}

\* Mutant: every change of one handler is stamped with the first one's seq.
PersistedHeadSeqShared(paths, changes) ==
  [p \in paths |->
     IF ChangesOf(p, changes) # {} THEN seq + 1
     ELSE IF p \in DOMAIN headSeq THEN headSeq[p] ELSE 0]

PersistedHeadSeq(paths, changes) ==
  [p \in paths |->
     IF ChangesOf(p, changes) # {}
     THEN seq + (CHOOSE i \in ChangesOf(p, changes) :
                   \A j \in ChangesOf(p, changes) : j <= i)
     ELSE IF p \in DOMAIN headSeq THEN headSeq[p] ELSE 0]

LoggedEvents(changes) ==
  [s \in DOMAIN events \cup (seq + 1)..(seq + Len(changes)) |->
     IF s > seq THEN changes[s - seq] ELSE events[s]]

\* bumpBlobRefcount, once for each version row inserted.
\* Mutant: a conflict copy's version is not counted.
NewReferencesNoCopy(after, h) ==
  {id \in DOMAIN after \ DOMAIN versions :
     after[id].hash = h /\ after[id].kind # "conflictCopy"}

NewReferences(after, h) ==
  {id \in DOMAIN after \ DOMAIN versions : after[id].hash = h}

BumpedBlobs(rows, after) ==
  [h \in DOMAIN rows \cup {h \in Hash : NewReferences(after, h) # {}} |->
     (IF h \in DOMAIN rows THEN rows[h] ELSE 0)
       + Cardinality(NewReferences(after, h))]

\* upsertBlob: a row at refcount 0 unless there is one.
UpsertedBlobs(hashes) ==
  [h \in DOMAIN blobs \cup hashes |-> IF h \in DOMAIN blobs THEN blobs[h] ELSE 0]

Persist(st, known) ==
  /\ Cardinality(DOMAIN st.versions) <= MaxVersions
  /\ seq + Len(st.changes) <= MaxSeq
  /\ files' = PersistedFiles(st.files, st.changes)
  /\ headSeq' = PersistedHeadSeq(DOMAIN files', st.changes)
  /\ versions' = PersistedVersions(st.versions)
  /\ seq' = seq + Len(st.changes)
  /\ events' = LoggedEvents(st.changes)
  /\ blobs' = BumpedBlobs(UpsertedBlobs(known), st.versions)
  /\ UNCHANGED <<snapshots, purged, uploading>>

-----------------------------------------------------------------------------
(* handleCommit *)

CarriesContent(c) == c.kind # "delete" /\ ~c.isFolder

\* Content up to the inline cap rides the commit, except in a rename.
IsInline(c) == CarriesContent(c) /\ c.kind # "rename" /\ c.hash \notin LargeHash

\* verifyCommitContent
ContentKnown(c) ==
  (CarriesContent(c) /\ ~IsInline(c)) => c.hash \in DOMAIN blobs \cup bucket

\* The rows verifyCommitContent inserts after finding the object in R2.
FoundInBucket(c) ==
  IF CarriesContent(c) /\ ~IsInline(c) THEN {c.hash} ELSE {}

Admitted(c) ==
  /\ ~PathCollides(files, c)
  /\ ContentKnown(c)
  /\ ~UnknownParent(versions, c)

StoreInline(c) == bucket' = bucket \cup (IF IsInline(c) THEN {c.hash} ELSE {})

CommitFastPath(d, c) ==
  /\ Admitted(c)
  /\ IsFastPath(files, c)
  /\ Persist(ApplyFastPath(files, versions, c, d, seq + 1), FoundInBucket(c))
  /\ StoreInline(c)

CommitMove(d, c) ==
  /\ Admitted(c)
  /\ MoveIsFree(files, c)
  /\ Persist(ApplyMigration(files, versions, c, d, seq + 1), FoundInBucket(c))
  /\ StoreInline(c)

\* A contested commit: the winner stands, the loser is preserved.
CommitContest(c, contest) ==
  LET ancestors == AncestorHashes(versions, c)
  IN  /\ ~CopyBlocked(contest, c, ancestors)
      /\ Persist(PreserveLoser(contest, c, ancestors, seq + 1), FoundInBucket(c))
      /\ StoreInline(c)

\* Mutant: a move that wins its destination preserves nothing.
CommitMoveOverNoCopy(d, c) ==
  /\ Admitted(c)
  /\ MoveWins(files, c, d)
  /\ Persist(ApplyMigration(files, versions, c, d, seq + 1), FoundInBucket(c))
  /\ StoreInline(c)

CommitMoveOver(d, c) ==
  /\ Admitted(c)
  /\ MoveWins(files, c, d)
  /\ CommitContest(c, MoveContest(files, versions, c, d, seq + 1))

CommitDisplace(d, c) ==
  /\ Admitted(c)
  /\ IncomingWins(files, versions, c, d)
  /\ CommitContest(c, DisplaceContest(files, versions, c, d, seq + 1))

\* Mutant: only a winner's content is stored.
CommitLosesUnstored(d, c) ==
  LET ancestors == AncestorHashes(versions, c)
      contest   == LoseContest(files, versions, c, d)
  IN  /\ Admitted(c)
      /\ HeadWins(files, versions, c, d)
      /\ ~CopyBlocked(contest, c, ancestors)
      /\ Persist(PreserveLoser(contest, c, ancestors, seq + 1), FoundInBucket(c))
      /\ UNCHANGED bucket

CommitLoses(d, c) ==
  /\ Admitted(c)
  /\ HeadWins(files, versions, c, d)
  /\ CommitContest(c, LoseContest(files, versions, c, d))

\* A rename that lost leaves its content at its source: no copy.
CommitMoveLoses(d, c) ==
  /\ Admitted(c)
  /\ MoveLoses(files, c, d)
  /\ Persist(StandingHead(files, versions, c, d), FoundInBucket(c))
  /\ StoreInline(c)

\* persistVerdict has run and the put of the inline content throws: the handler
\* ends there, with no reference counted and no change recorded.
PersistOnly(st) ==
  /\ Cardinality(DOMAIN st.versions) <= MaxVersions
  /\ files' = PersistedFiles(st.files, <<>>)
  /\ headSeq' = PersistedHeadSeq(DOMAIN files', <<>>)
  /\ versions' = PersistedVersions(st.versions)
  /\ UNCHANGED <<seq, events, snapshots, store>>

TornContest(c, contest) ==
  LET ancestors == AncestorHashes(versions, c)
  IN  /\ ~CopyBlocked(contest, c, ancestors)
      /\ PersistOnly(PreserveLoser(contest, c, ancestors, seq + 1))

CommitTorn(d, c) ==
  /\ PutFailures
  /\ IsInline(c)
  /\ Admitted(c)
  /\ \/ /\ IsFastPath(files, c)
        /\ PersistOnly(ApplyFastPath(files, versions, c, d, seq + 1))
     \/ /\ IncomingWins(files, versions, c, d)
        /\ TornContest(c, DisplaceContest(files, versions, c, d, seq + 1))
     \/ /\ HeadWins(files, versions, c, d)
        /\ TornContest(c, LoseContest(files, versions, c, d))

\* conflictCopyPath throws: every candidate name for the loser is taken.
NoCopyName(d, c) ==
  LET ancestors == AncestorHashes(versions, c)
  IN  /\ ~UnknownParent(versions, c)
      /\ \/ /\ MoveWins(files, c, d)
            /\ CopyBlocked(MoveContest(files, versions, c, d, seq + 1), c,
                           ancestors)
         \/ /\ IncomingWins(files, versions, c, d)
            /\ CopyBlocked(DisplaceContest(files, versions, c, d, seq + 1), c,
                           ancestors)
         \/ /\ HeadWins(files, versions, c, d)
            /\ CopyBlocked(LoseContest(files, versions, c, d), c, ancestors)

\* A commit the room refuses after the content check leaves the row that the
\* check inserted.  (A commit refused earlier changes nothing.)
CommitRefused(d, c) ==
  /\ ~PathCollides(files, c)
  /\ ContentKnown(c)
  /\ UnknownParent(versions, c) \/ NoCopyName(d, c)
  /\ blobs' = UpsertedBlobs(FoundInBucket(c))
  /\ UNCHANGED <<tables, snapshots, bucket, purged, uploading>>

\* What a client can name as the parent: nothing, a version it saw at the
\* path (at the source, for a rename), the winner its conflict copy lost to.
KnownParents(kind, at) ==
  IF kind = "conflictCopy" THEN DOMAIN versions
  ELSE {id \in DOMAIN versions : versions[id].path = at}
         \cup (IF kind \in {"edit", "restore"} THEN {NoVersion} ELSE {})

\* Ids a client may still hold although retention has removed the version.
RetiredIds == {id \in 1..MaxVersions :
                 id \notin DOMAIN versions /\ \E j \in DOMAIN versions : id < j}

\* A delete carries the hash of what it deletes, a placeholder the empty one.
SentHashes(kind, parent) ==
  IF kind = "delete"
  THEN IF parent \in DOMAIN versions THEN {versions[parent].hash} ELSE Hash
  ELSE Hash \cup (IF FolderCommits /\ kind = "edit" THEN {NoHash} ELSE {})

\* The branches that answer with the path's head.
AcceptCommit(d, c) ==
  \/ CommitFastPath(d, c)
  \/ CommitMove(d, c)
  \/ CommitMoveOver(d, c)
  \/ CommitDisplace(d, c)
  \/ CommitLoses(d, c)
  \/ CommitMoveLoses(d, c)

HandleCommit(d, c) ==
  \/ AcceptCommit(d, c)
  \/ CommitTorn(d, c)
  \/ CommitRefused(d, c)

Commit(d) ==
  /\ seq < MaxSeq
  /\ \E kind \in ClientKinds, path \in Path :
       \E from \in IF kind = "rename" THEN RenameSources \ {path} ELSE {NoPath} :
         \E parent \in RetiredIds \cup
                 KnownParents(kind, IF kind = "rename" THEN from ELSE path) :
           \E hash \in SentHashes(kind, parent) :
             HandleCommit(d, [path |-> path, parent |-> parent, hash |-> hash,
                              kind |-> kind, from |-> from,
                              isFolder |-> hash = NoHash])

-----------------------------------------------------------------------------
(* Snapshots *)

\* handleSnapshotCreate
SnapshotCreate ==
  /\ Len(snapshots) < MaxSnapshots
  /\ snapshots' = Append(snapshots,
       [p \in DOMAIN files |->
          [version |-> files[p].version, hash |-> files[p].hash,
           deleted |-> files[p].deleted, isFolder |-> files[p].isFolder]])
  /\ UNCHANGED <<tables, store>>

\* Mutant: a tombstone of the same content counts as a match.
MatchesSnapshotByHash(row, head) ==
  row.hash = head.hash /\ row.isFolder = head.isFolder

MatchesSnapshot(row, head) ==
  /\ row.deleted = head.deleted
  /\ row.deleted \/ row.hash = head.hash
  /\ row.isFolder = head.isFolder

\* planSnapshotRestore: the paths whose effective state differs.
Diverged(heads) ==
  {p \in DOMAIN heads \cup DOMAIN files :
     \/ p \notin DOMAIN heads /\ ~files[p].deleted
     \/ p \notin DOMAIN files /\ ~heads[p].deleted
     \/ /\ p \in DOMAIN heads /\ p \in DOMAIN files
        /\ ~MatchesSnapshot(files[p], heads[p])}

RestoreCommit(heads, p) ==
  LET gone == p \notin DOMAIN heads
  IN  [path     |-> p,
       parent   |-> IF p \in DOMAIN files THEN files[p].version ELSE NoVersion,
       hash     |-> IF gone THEN files[p].hash ELSE heads[p].hash,
       kind     |-> IF gone THEN "delete"
                    ELSE IF heads[p].deleted THEN "delete" ELSE "restore",
       from     |-> NoPath,
       isFolder |-> IF gone THEN FALSE ELSE heads[p].isFolder]

\* The diverged paths in string order: plan[i] is restored i-th.
Plans(paths) ==
  {plan \in [1..Cardinality(paths) -> paths] :
     /\ \A p \in paths : \E i \in DOMAIN plan : plan[i] = p
     /\ \A i, j \in DOMAIN plan :
          i < j => PathOrder[plan[i]] < PathOrder[plan[j]]}

RestoredRow(heads, plan, n, i, d) ==
  LET c == RestoreCommit(heads, plan[i])
  IN  HeadRow(n + i, c, NextClock(FastPathCounter(files, versions, c), d))

\* Every item of the plan takes the fast path on the path's current head.
RestoredTables(heads, plan, n, d) ==
  LET row(i)   == RestoredRow(heads, plan, n, i, d)
      place(p) == CHOOSE i \in DOMAIN plan : plan[i] = p
  IN  Tables([p \in DOMAIN files \cup {plan[i] : i \in DOMAIN plan} |->
                IF \E i \in DOMAIN plan : plan[i] = p
                THEN row(place(p)) ELSE files[p]],
             [id \in DOMAIN versions \cup {n + i : i \in DOMAIN plan} |->
                IF id \in DOMAIN versions THEN versions[id]
                ELSE VersionOf(plan[id - n], row(id - n),
                               RestoreCommit(heads, plan[id - n]).parent,
                               seq + 1)],
             [i \in DOMAIN plan |-> PayloadOf(plan[i], row(i), NoPath)])

\* handleSnapshotRestore
SnapshotRestore(d, k) ==
  \E plan \in Plans(Diverged(snapshots[k])) :
    LET n == Cardinality(DOMAIN versions)
    IN  /\ \A i \in DOMAIN plan : n + i \notin DOMAIN versions
        /\ Persist(RestoredTables(snapshots[k], plan, n, d), {})
        /\ UNCHANGED bucket

\* The INSERT of the j-th version finds its id taken and throws: what came
\* before it is written, with no reference counted and no change recorded.
SnapshotRestoreTorn(d, k) ==
  \E plan \in Plans(Diverged(snapshots[k])) :
    \E j \in DOMAIN plan :
      LET n    == Cardinality(DOMAIN versions)
          done == [i \in 1..(j - 1) |-> plan[i]]
      IN  /\ n + j \in DOMAIN versions
          /\ \A i \in DOMAIN done : n + i \notin DOMAIN versions
          /\ PersistOnly(RestoredTables(snapshots[k], done, n, d))

-----------------------------------------------------------------------------
(* Maintenance *)

\* pruneEventsNow, from the cron or, once an hour, within an event write (that
\* write followed by this step): both arms drop the oldest rows.
EventsPrune ==
  /\ LogPruning
  /\ \E oldest \in DOMAIN events :
       events' = [s \in {t \in DOMAIN events : t > oldest} |-> events[s]]
  /\ UNCHANGED <<files, headSeq, versions, seq, snapshots, store>>

SnapshotPins(heads) == {heads[p].version : p \in DOMAIN heads}

\* What retention never removes: every head, everything a snapshot points at.
Pinned == {files[p].version : p \in DOMAIN files}
            \cup UNION {SnapshotPins(snapshots[k]) : k \in DOMAIN snapshots}

Expired(id, cutoff) == RetentionDays /\ versions[id].at < cutoff

\* The newer versions of id's path that the count arm lets survive before it.
NewerSurvivors(id, cutoff) ==
  {j \in DOMAIN versions \ Pinned :
     /\ versions[j].path = versions[id].path
     /\ versions[j].at > versions[id].at
     /\ ~Expired(j, cutoff)}

\* Mutant: only heads are protected.
DoomedDespiteSnapshots(cutoff) ==
  {id \in DOMAIN versions \ {files[p].version : p \in DOMAIN files} :
     \/ Expired(id, cutoff)
     \/ /\ RetentionVersions # 0
        /\ Cardinality(NewerSurvivors(id, cutoff)) >= RetentionVersions}

Doomed(cutoff) ==
  {id \in DOMAIN versions \ Pinned :
     \/ Expired(id, cutoff)
     \/ /\ RetentionVersions # 0
        /\ Cardinality(NewerSurvivors(id, cutoff)) >= RetentionVersions}

\* Mutant: one run drops a refcount at most once.
DroppedOnce(doomed, h) ==
  IF \E id \in doomed : versions[id].hash = h THEN 1 ELSE 0

Dropped(doomed, h) == Cardinality({id \in doomed : versions[id].hash = h})

\* httpRetentionRun; the cutoff is wherever the clock puts it.
RetentionRun ==
  /\ RetentionDays \/ RetentionVersions # 0
  /\ \E cutoff \in IF RetentionDays THEN 1..(seq + 1) ELSE {0} :
       LET doomed == Doomed(cutoff)
       IN  /\ doomed # {}
           /\ versions' = [id \in DOMAIN versions \ doomed |-> versions[id]]
           /\ blobs' = [h \in DOMAIN blobs |->
                          IF blobs[h] >= Dropped(doomed, h)
                          THEN blobs[h] - Dropped(doomed, h) ELSE 0]
  /\ UNCHANGED <<files, headSeq, seq, events, snapshots, bucket, purged,
                 uploading>>

\* httpGcList and httpGcPurge: rows at refcount 0, whichever are past the
\* grace window, lose their row; the purge re-checks the count.
GcPurge ==
  /\ \E hashes \in SUBSET {h \in DOMAIN blobs : blobs[h] = 0} :
       /\ hashes # {}
       /\ blobs' = [h \in DOMAIN blobs \ hashes |-> blobs[h]]
       /\ purged' = purged \cup hashes
  /\ UNCHANGED <<tables, snapshots, bucket, uploading>>

\* scheduled: the cron then deletes the objects, outside the room's queue.
BucketDelete(h) ==
  /\ h \in purged
  /\ bucket' = bucket \ {h}
  /\ purged' = purged \ {h}
  /\ UNCHANGED <<tables, snapshots, blobs, uploading>>

\* handlePutBlob: the same over the socket, inside the room's queue.
PutBlob(h) ==
  /\ bucket' = bucket \cup {h}
  /\ blobs' = UpsertedBlobs({h})
  /\ UNCHANGED <<tables, snapshots, purged, uploading>>

\* handleBlobPut: the object is in R2 (put now, or found there) ...  An upload
\* whose content does not match its hash is evicted before the answer and leaves
\* nothing behind; two uploads of one hash at a time are not told apart.
BlobPut(h) ==
  /\ h \notin uploading
  /\ bucket' = bucket \cup {h}
  /\ uploading' = uploading \cup {h}
  /\ UNCHANGED <<tables, snapshots, blobs, purged>>

\* ... and then httpBlobUploaded records it.
BlobUploaded(h) ==
  /\ h \in uploading
  /\ blobs' = UpsertedBlobs({h})
  /\ uploading' = uploading \ {h}
  /\ UNCHANGED <<tables, snapshots, bucket, purged>>

Next ==
  \/ \E d \in Device : Commit(d)
  \/ \E d \in Device, k \in DOMAIN snapshots :
       SnapshotRestore(d, k) \/ SnapshotRestoreTorn(d, k)
  \/ SnapshotCreate
  \/ EventsPrune
  \/ RetentionRun
  \/ GcPurge
  \/ \E h \in LargeHash : PutBlob(h) \/ BlobPut(h) \/ BlobUploaded(h)
  \/ \E h \in Hash : BucketDelete(h)

Spec == Init /\ [][Next]_vars

-----------------------------------------------------------------------------
(* Properties *)

\* Every table holds rows of its own shape.
TypeOK ==
  /\ DOMAIN files \subseteq Path /\ \A p \in DOMAIN files : files[p] \in Row
  /\ DOMAIN headSeq = DOMAIN files /\ \A p \in DOMAIN files : headSeq[p] \in 0..seq
  /\ IsFiniteSet(DOMAIN versions) /\ DOMAIN versions \subseteq VersionId
  /\ \A id \in DOMAIN versions : versions[id] \in Version
  /\ seq \in Nat
  /\ DOMAIN events \subseteq 1..seq /\ \A s \in DOMAIN events : events[s] \in Change
  /\ snapshots \in Seq(Snapshot)
  /\ DOMAIN blobs \subseteq Hash /\ \A h \in DOMAIN blobs : blobs[h] \in Nat
  /\ bucket \cup purged \cup uploading \subseteq Hash

\* A files row and the version it names tell the same story: same path,
\* content, clock and kind (loadArbitrationFiles rebuilds a head from the row
\* alone, history and restore read the version).
HeadsAreRecorded ==
  \A p \in DOMAIN files :
    /\ files[p].version \in DOMAIN versions
    /\ LET v == versions[files[p].version]
       IN  /\ v.path = p
           /\ v.hash = files[p].hash
           /\ v.clock = files[p].clock
           /\ v.kind = files[p].kind

\* Retention never takes the version a head or a snapshot points at.
PinnedVersionsKept == Pinned \subseteq DOMAIN versions

\* A version's counter is one above its parent's, on whichever branch it was
\* made: the clock a client predicts from the parent it names is the clock the
\* room gives (rule 2 of arbitrate.ts).
ClocksFollowParents ==
  \A id \in DOMAIN versions :
    LET v == versions[id]
    IN  /\ v.parent \in DOMAIN versions \cup {NoVersion}
        /\ v.clock = NextClock(ParentCounter(versions, v), v.clock.dev)

\* While a path keeps its row, its head is only ever replaced by one with a
\* later clock, whatever commits, moves and restores hit it.
HeadClocksAdvance ==
  [][\A p \in DOMAIN files \cap DOMAIN files' :
       files'[p] # files[p] => Later(files'[p].clock, files[p].clock)]_vars

\* The commit that made the head of p, sent again.
RetryOf(p) ==
  LET v == versions[files[p].version]
  IN  [path |-> p, parent |-> v.parent, hash |-> v.hash, kind |-> v.kind,
       from |-> IF v.kind = "rename" THEN versions[v.parent].path ELSE NoPath,
       isFolder |-> files[p].isFolder]

\* A commit whose answer was lost and that its author sends again while it is
\* still the head leaves both tables as they are.
RetryIsIdempotent ==
  [][\A p \in DOMAIN files :
       HandleCommit(files[p].clock.dev, RetryOf(p))
         => UNCHANGED <<files, versions>>]_vars

\* The change that made the head of p is in the log, under its head_seq.
Announced(p) ==
  /\ headSeq[p] \in DOMAIN events
  /\ events[headSeq[p]].version = files[p].version

\* A head left unannounced by a commit that broke off is announced when its
\* author sends the commit again and the room completes it.
RetryAnnounces ==
  [][\A p \in DOMAIN files :
       LET d == files[p].clock.dev
           c == RetryOf(p)
       IN  CommitFastPath(d, c) \/ CommitDisplace(d, c) \/ CommitLoses(d, c)
             => Announced(p)']_vars

LiveHashes(rows) == {rows[p].hash : p \in Live(rows)}

\* A step that takes a head's content out of every live file was made by a
\* device that had seen it: a version it added builds on that head, or on a
\* version with that very content.
ReleasedKnowingly(row) ==
  \E id \in DOMAIN versions' \ DOMAIN versions :
    \/ versions'[id].parent = row.version
    \/ /\ versions'[id].parent \in DOMAIN versions
       /\ versions[versions'[id].parent].hash = row.hash

Survives(p) ==
  \/ files[p].isFolder
  \/ files[p].hash \in LiveHashes(files')
  \/ ReleasedKnowingly(files[p])

\* The content of a head that another takes the place of is never lost to a
\* device that had not seen it (needsCopy, preserveLoser).
ReplacedHeadsSurvive ==
  [][\A p \in Live(files) \cap DOMAIN files' : Survives(p)]_vars

\* No two live paths share a fold key.
FoldKeysUnique ==
  \A p, q \in Live(files) : Fold[p] = Fold[q] => p = q

\* head_seq points at the change that made the current head, and nothing
\* logged after it touches the path: a delta manifest since s returns the
\* heads that changed after s and no other.
Touches(change, p) == change.path = p \/ (change.kind = "rename" /\ change.from = p)

HeadSeqMatchesLog ==
  \A p \in DOMAIN files :
    /\ headSeq[p] \in DOMAIN events =>
         /\ events[headSeq[p]].path = p
         /\ events[headSeq[p]].version = files[p].version
    /\ \A s \in DOMAIN events : s > headSeq[p] => ~Touches(events[s], p)

\* The refcount of a blob is the number of versions that reference it.
RefcountsExact ==
  \A h \in Hash :
    Cardinality({id \in DOMAIN versions : versions[id].hash = h})
      = IF h \in DOMAIN blobs THEN blobs[h] ELSE 0

\* The content of every live file is in R2, a conflict copy's included.
LiveContentStored ==
  \A p \in Live(files) : files[p].hash \in bucket \cup {NoHash}

\* What a vault shows of a table of heads.
LiveView(heads) ==
  {<<p, heads[p].hash, heads[p].isFolder>> : p \in Live(heads)}

\* A restore brings back exactly the live files of its snapshot.
RestoreReproducesSnapshot ==
  [][\A d \in Device, k \in DOMAIN snapshots :
       SnapshotRestore(d, k) => LiveView(files') = LiveView(snapshots[k])]_vars

=============================================================================
