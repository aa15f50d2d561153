--------------------------- MODULE VaultRoomProofs ---------------------------
(***************************************************************************)
(* What holds of the room for every vault, device set and history: its      *)
(* types, and what the versions table means.  Heads only advance, heads and *)
(* snapshots keep their versions and, while retention is off, every head is *)
(* a recorded version whose clock follows its parent's.                      *)
(***************************************************************************)
EXTENDS VaultRoom, TLAPS, FiniteSetTheorems, WellFoundedInduction

FilesOK(f) == DOMAIN f \subseteq Path /\ \A p \in DOMAIN f : f[p] \in Row

VersionsOK(v) ==
  /\ IsFiniteSet(DOMAIN v)
  /\ DOMAIN v \subseteq VersionId
  /\ \A id \in DOMAIN v : v[id] \in Version

TablesOK(st) ==
  /\ FilesOK(st.files)
  /\ VersionsOK(st.versions)
  /\ st.changes \in Seq(Change)

-----------------------------------------------------------------------------
(* The pieces of a verdict *)

\* Setting one key of a map adds that key and changes no other.
LEMMA MapSetFacts ==
  ASSUME NEW f, NEW k, NEW v
  PROVE  /\ DOMAIN MapSet(f, k, v) = DOMAIN f \cup {k}
         /\ MapSet(f, k, v)[k] = v
         /\ \A x \in DOMAIN f : x # k => MapSet(f, k, v)[x] = f[x]
  BY DEF MapSet

\* An id minted from a finite versions table is a version id.
LEMMA MintIdType ==
  ASSUME NEW v, IsFiniteSet(DOMAIN v)
  PROVE  MintId(v) \in VersionId
  BY FS_CardinalityType DEF MintId, VersionId

\* The next clock after a natural counter is a clock.
LEMMA NextClockType ==
  ASSUME NEW n \in Nat, NEW d \in Device
  PROVE  NextClock(n, d) \in Clock
  BY DEF NextClock, Clock

\* A new row keeps a files table well formed.
LEMMA FilesOKSet ==
  ASSUME NEW f, FilesOK(f), NEW p \in Path, NEW row \in Row
  PROVE  FilesOK(MapSet(f, p, row))
  <1>1. DOMAIN MapSet(f, p, row) = DOMAIN f \cup {p}
    BY MapSetFacts
  <1>2. ASSUME NEW q \in DOMAIN f \cup {p}
        PROVE  MapSet(f, p, row)[q] \in Row
    BY DEF MapSet, FilesOK
  <1> QED
    BY <1>1, <1>2 DEF FilesOK

\* A new version keeps a versions table well formed.
LEMMA VersionsOKSet ==
  ASSUME NEW v, VersionsOK(v), NEW id \in VersionId, NEW r \in Version
  PROVE  VersionsOK(MapSet(v, id, r))
  <1>1. IsFiniteSet(DOMAIN v \cup {id})
    BY FS_AddElement DEF VersionsOK
  <1>2. DOMAIN MapSet(v, id, r) = DOMAIN v \cup {id}
    BY MapSetFacts
  <1>3. ASSUME NEW j \in DOMAIN v \cup {id}
        PROVE  MapSet(v, id, r)[j] \in Version
    BY DEF MapSet, VersionsOK
  <1> QED
    BY <1>1, <1>2, <1>3 DEF VersionsOK

\* The payload of a row is a change.
LEMMA PayloadOfType ==
  ASSUME NEW p \in Path, NEW row \in Row, NEW from \in Path \cup {NoPath}
  PROVE  PayloadOf(p, row, from) \in Change
  BY DEF PayloadOf, Row, Change

\* The record of a row's version is a version.
LEMMA VersionOfType ==
  ASSUME NEW p \in Path, NEW row \in Row, NEW parent \in Nat, NEW now \in Nat
  PROVE  VersionOf(p, row, parent, now) \in Version
  BY DEF VersionOf, Row, Version

\* The row a commit would make is a row.
LEMMA HeadRowType ==
  ASSUME NEW id \in VersionId, NEW c \in CommitMsg, NEW clock \in Clock
  PROVE  HeadRow(id, c, clock) \in Row
  BY DEF HeadRow, CommitMsg, Row

\* Advancing the head of a path yields well-formed tables.
LEMMA AdvanceOK ==
  ASSUME NEW f, FilesOK(f), NEW v, VersionsOK(v), NEW c \in CommitMsg,
         NEW clock \in Clock, NEW gone, NEW from \in Path \cup {NoPath},
         NEW now \in Nat
  PROVE  TablesOK(Advance(f, v, c, clock, gone, from, now))
  <1> DEFINE row  == WinningRow(v, c, clock)
             kept == [p \in DOMAIN f \ gone |-> f[p]]
  <1>1. MintId(v) \in VersionId
    BY MintIdType DEF VersionsOK
  <1>2. row \in Row /\ row.version = MintId(v)
    BY <1>1, HeadRowType DEF WinningRow, HeadRow
  <1>3. c.path \in Path /\ c.parent \in Nat
    BY DEF CommitMsg
  <1>4. FilesOK(kept)
    BY DEF FilesOK
  <1>5. FilesOK(MapSet(kept, c.path, row))
    BY <1>2, <1>3, <1>4, FilesOKSet
  <1>6. VersionsOK(MapSet(v, row.version, VersionOf(c.path, row, c.parent, now)))
    BY <1>1, <1>2, <1>3, VersionOfType, VersionsOKSet
  <1>7. <<PayloadOf(c.path, row, from)>> \in Seq(Change)
    BY <1>2, <1>3, PayloadOfType
  <1> QED
    BY <1>5, <1>6, <1>7 DEF Advance, Tables, TablesOK

\* A nonempty set of naturals has a least element.
LEMMA LeastNatural ==
  ASSUME NEW T, T \subseteq Nat, T # {}
  PROVE  \E i \in T : \A j \in T : i <= j
  <1>1. PICK i \in T : \A j \in T : ~(<<j, i>> \in OpToRel(<, Nat))
    BY NatLessThanWellFounded, WFMin
  <1>2. \A j \in T : ~(j < i)
    BY <1>1 DEF OpToRel
  <1> QED
    BY <1>2

\* A conflict copy's name is one of the candidates that no row holds.
LEMMA ConflictCopyPathFacts ==
  ASSUME NEW f, NEW p \in Path, NEW d \in Device, FreeCandidates(f, p, d) # {}
  PROVE  /\ ConflictCopyPath(f, p, d) \in Path
         /\ ConflictCopyPath(f, p, d) \notin DOMAIN f
  <1> DEFINE names == CopyCandidates[<<p, d>>]
             free  == FreeCandidates(f, p, d)
             i     == CHOOSE i \in free : \A j \in free : i <= j
  <1>1. names \in Seq(Path)
    BY PathAssumption
  <1>2. Len(names) \in Nat /\ \A k \in 1..Len(names) : names[k] \in Path
    BY <1>1
  <1>3. free \subseteq Nat /\ free # {}
    BY <1>2 DEF FreeCandidates
  <1>4. \E k \in free : \A j \in free : k <= j
    BY <1>3, LeastNatural
  <1>5. i \in free
    BY <1>4
  <1>6. i \in 1..Len(names) /\ names[i] \notin DOMAIN f
    BY <1>5 DEF FreeCandidates
  <1>7. names[i] \in Path
    BY <1>2, <1>6
  <1> QED
    BY <1>6, <1>7 DEF ConflictCopyPath

\* Preserving the loser keeps the tables well formed.
LEMMA PreserveLoserOK ==
  ASSUME NEW con, TablesOK(con.st), con.winner \in Row,
         con.loser.hash \in Hash \cup {NoHash}, con.loser.clock \in Clock,
         NEW c \in CommitMsg, NEW anc, NEW now \in Nat,
         ~CopyBlocked(con, c, anc)
  PROVE  TablesOK(PreserveLoser(con, c, anc, now))
  <1>1. CASE ~NeedsCopy(con.loser, con.winner.hash, anc)
    BY <1>1 DEF PreserveLoser
  <1>2. CASE NeedsCopy(con.loser, con.winner.hash, anc)
    <2> DEFINE st   == con.st
               path == ConflictCopyPath(st.files, c.path, con.loser.clock.dev)
               id   == MintId(st.versions)
               row  == CopyRow(id, con.loser, con.winner)
               ver  == VersionOf(path, row, con.winner.version, now)
    <2>1. c.path \in Path /\ con.loser.clock.dev \in Device
      BY DEF CommitMsg, Clock
    <2>2. FreeCandidates(st.files, c.path, con.loser.clock.dev) # {}
      BY <1>2 DEF CopyBlocked
    <2>3. path \in Path
      BY <2>1, <2>2, ConflictCopyPathFacts
    <2>4. id \in VersionId
      BY MintIdType DEF TablesOK, VersionsOK
    <2>5. con.winner.clock.counter \in Nat /\ con.winner.version \in Nat
      BY DEF Row, Clock, VersionId
    <2>6. row \in Row
      BY <2>1, <2>4, <2>5, NextClockType DEF CopyRow, Row, Kind
    <2>7. ver \in Version
      BY <2>3, <2>5, <2>6, VersionOfType
    <2>8. PayloadOf(path, row, NoPath) \in Change
      BY <2>3, <2>6, PayloadOfType
    <2> HIDE DEF path, id, row, ver
    <2>9. FilesOK(MapSet(st.files, path, row))
      BY <2>3, <2>6, FilesOKSet DEF TablesOK
    <2>10. VersionsOK(MapSet(st.versions, id, ver))
      BY <2>4, <2>7, VersionsOKSet DEF TablesOK
    <2>11. Append(st.changes, PayloadOf(path, row, NoPath)) \in Seq(Change)
      BY <2>8 DEF TablesOK
    <2> QED
      BY <1>2, <2>9, <2>10, <2>11
         DEF PreserveLoser, Tables, TablesOK, path, id, row, ver
  <1> QED
    BY <1>1, <1>2

-----------------------------------------------------------------------------
(* Persisting a verdict *)

\* A nonempty set of indices has a greatest element.
LEMMA GreatestIndex ==
  ASSUME NEW n \in Nat, NEW T, T \subseteq 1..n, T # {}
  PROVE  \E i \in T : \A j \in T : j <= i
  <1> DEFINE U == {n - j : j \in T}
  <1>1. U \subseteq Nat /\ U # {}
    <2>1. ASSUME NEW j \in T PROVE n - j \in Nat
      OBVIOUS
    <2> QED
      BY <2>1
  <1>2. PICK u \in U : \A w \in U : u <= w
    BY <1>1, LeastNatural
  <1>3. PICK i \in T : u = n - i
    BY <1>2
  <1>4. ASSUME NEW j \in T PROVE j <= i
    <2>1. n - i <= n - j
      BY <1>2, <1>3
    <2> QED
      BY <2>1
  <1> QED
    BY <1>4

\* The versions table after a verdict.
LEMMA PersistedVersionsOK ==
  ASSUME VersionsOK(versions), NEW after, VersionsOK(after)
  PROVE  VersionsOK(PersistedVersions(after))
  <1>1. IsFiniteSet(DOMAIN versions \cup DOMAIN after)
    BY FS_Union DEF VersionsOK
  <1> QED
    BY <1>1 DEF VersionsOK, PersistedVersions

\* The files table after a verdict.
LEMMA PersistedFilesOK ==
  ASSUME FilesOK(files), NEW after, FilesOK(after), NEW changes
  PROVE  FilesOK(PersistedFiles(after, changes))
  BY DEF FilesOK, PersistedFiles, PersistedRow

\* The head_seq column after a verdict never runs ahead of the log.
LEMMA PersistedHeadSeqOK ==
  ASSUME seq \in Nat, \A p \in DOMAIN headSeq : headSeq[p] \in 0..seq,
         NEW paths, NEW changes \in Seq(Change)
  PROVE  /\ DOMAIN PersistedHeadSeq(paths, changes) = paths
         /\ \A p \in paths :
              PersistedHeadSeq(paths, changes)[p] \in 0..(seq + Len(changes))
  <1>1. Len(changes) \in Nat /\ DOMAIN changes = 1..Len(changes)
    OBVIOUS
  <1>2. ASSUME NEW p \in paths
        PROVE  PersistedHeadSeq(paths, changes)[p] \in 0..(seq + Len(changes))
    <2>1. CASE ChangesOf(p, changes) # {}
      <3> DEFINE T == ChangesOf(p, changes)
      <3>1. T \subseteq 1..Len(changes)
        BY <1>1 DEF ChangesOf
      <3>2. \E i \in T : \A j \in T : j <= i
        BY <1>1, <2>1, <3>1, GreatestIndex
      <3>3. (CHOOSE i \in T : \A j \in T : j <= i) \in 1..Len(changes)
        BY <3>1, <3>2
      <3> QED
        BY <1>1, <2>1, <3>3 DEF PersistedHeadSeq
    <2>2. CASE ChangesOf(p, changes) = {}
      BY <1>1, <2>2 DEF PersistedHeadSeq
    <2> QED
      BY <2>1, <2>2
  <1> QED
    BY <1>2 DEF PersistedHeadSeq

\* The event log after a verdict.
LEMMA LoggedEventsOK ==
  ASSUME seq \in Nat, DOMAIN events \subseteq 1..seq,
         \A s \in DOMAIN events : events[s] \in Change,
         NEW changes \in Seq(Change)
  PROVE  /\ DOMAIN LoggedEvents(changes) \subseteq 1..(seq + Len(changes))
         /\ \A s \in DOMAIN LoggedEvents(changes) :
              LoggedEvents(changes)[s] \in Change
  <1>1. Len(changes) \in Nat
        /\ \A i \in 1..Len(changes) : changes[i] \in Change
    OBVIOUS
  <1>2. ASSUME NEW s \in DOMAIN events \cup (seq + 1)..(seq + Len(changes))
        PROVE  /\ s \in 1..(seq + Len(changes))
               /\ s > seq => s - seq \in 1..Len(changes)
               /\ ~(s > seq) => s \in DOMAIN events
    BY <1>1
  <1> QED
    BY <1>1, <1>2 DEF LoggedEvents

BlobsOK(b) == DOMAIN b \subseteq Hash /\ \A h \in DOMAIN b : b[h] \in Nat

\* The blobs table after new rows at refcount 0.
LEMMA UpsertedBlobsOK ==
  ASSUME BlobsOK(blobs), NEW known, known \subseteq Hash
  PROVE  BlobsOK(UpsertedBlobs(known))
  BY DEF BlobsOK, UpsertedBlobs

\* A reference counted for each new version.
LEMMA BumpedBlobsOK ==
  ASSUME NEW rows, BlobsOK(rows), NEW after, VersionsOK(after)
  PROVE  BlobsOK(BumpedBlobs(rows, after))
  <1>1. ASSUME NEW h PROVE Cardinality(NewReferences(after, h)) \in Nat
    <2>1. NewReferences(after, h) \in SUBSET DOMAIN after
      BY DEF NewReferences
    <2>2. IsFiniteSet(NewReferences(after, h))
      BY <2>1, FS_Subset DEF VersionsOK
    <2> QED
      BY <2>2, FS_CardinalityType
  <1> QED
    BY <1>1 DEF BlobsOK, BumpedBlobs

\* A handler that persists well-formed tables keeps the room well formed.
LEMMA PersistOK ==
  ASSUME TypeOK, NEW st, TablesOK(st), NEW known, known \subseteq Hash,
         Persist(st, known), bucket' \subseteq Hash
  PROVE  TypeOK'
  <1>1. FilesOK(files')
    BY PersistedFilesOK DEF Persist, TypeOK, FilesOK, TablesOK
  <1>2. VersionsOK(versions')
    BY PersistedVersionsOK DEF Persist, TypeOK, VersionsOK, TablesOK
  <1>3. /\ st.changes \in Seq(Change)
        /\ seq \in Nat
        /\ \A p \in DOMAIN headSeq : headSeq[p] \in 0..seq
    BY DEF TypeOK, TablesOK
  <1>4. seq' = seq + Len(st.changes) /\ seq' \in Nat
    BY <1>3 DEF Persist
  <1>5. DOMAIN headSeq' = DOMAIN files'
        /\ \A p \in DOMAIN files' : headSeq'[p] \in 0..seq'
    BY <1>3, <1>4, PersistedHeadSeqOK DEF Persist
  <1>6. DOMAIN events' \subseteq 1..seq'
        /\ \A s \in DOMAIN events' : events'[s] \in Change
    BY <1>3, <1>4, LoggedEventsOK DEF Persist, TypeOK
  <1>7. BlobsOK(blobs')
    <2>1. BlobsOK(UpsertedBlobs(known))
      BY UpsertedBlobsOK DEF TypeOK, BlobsOK
    <2> QED
      BY <2>1, BumpedBlobsOK DEF Persist, TablesOK
  <1>8. snapshots' = snapshots /\ purged' = purged /\ uploading' = uploading
    BY DEF Persist
  <1> QED
    BY <1>1, <1>2, <1>4, <1>5, <1>6, <1>7, <1>8
       DEF TypeOK, FilesOK, VersionsOK, BlobsOK

\* So does a handler that breaks off after persistVerdict.
LEMMA PersistOnlyOK ==
  ASSUME TypeOK, NEW st, TablesOK(st), PersistOnly(st)
  PROVE  TypeOK'
  <1>1. FilesOK(files')
    BY PersistedFilesOK DEF PersistOnly, TypeOK, FilesOK, TablesOK
  <1>2. VersionsOK(versions')
    BY PersistedVersionsOK DEF PersistOnly, TypeOK, VersionsOK, TablesOK
  <1>3. /\ <<>> \in Seq(Change) /\ Len(<<>>) = 0
        /\ seq \in Nat
        /\ \A p \in DOMAIN headSeq : headSeq[p] \in 0..seq
    BY DEF TypeOK
  <1>4. seq + Len(<<>>) = seq
    BY <1>3
  <1>5. DOMAIN headSeq' = DOMAIN files'
        /\ \A p \in DOMAIN files' : headSeq'[p] \in 0..seq
    BY <1>3, <1>4, PersistedHeadSeqOK DEF PersistOnly
  <1> QED
    BY <1>1, <1>2, <1>5 DEF PersistOnly, store, TypeOK, FilesOK, VersionsOK

-----------------------------------------------------------------------------
(* The verdicts of arbitration are well formed *)

\* Counters and clocks the branches of a commit compute with.
LEMMA CounterTypes ==
  ASSUME TypeOK, NEW c \in CommitMsg, NEW d \in Device,
         ~UnknownParent(versions, c)
  PROVE  /\ IncomingClock(versions, c, d) \in Clock
         /\ NextClock(FastPathCounter(files, versions, c), d) \in Clock
         /\ c.from \in DOMAIN files => MoveClock(files, c, d) \in Clock
  <1>1. ParentCounter(versions, c) \in Nat
    BY DEF TypeOK, UnknownParent, ParentCounter, Version, Clock
  <1>2. \A p \in DOMAIN files : files[p].clock.counter \in Nat
    BY DEF TypeOK, Row, Clock
  <1>3. FastPathCounter(files, versions, c) \in Nat
    BY <1>1, <1>2 DEF FastPathCounter
  <1> QED
    BY <1>1, <1>2, <1>3, NextClockType DEF IncomingClock, MoveClock

\* The winner a contested commit puts at its path is a row.
LEMMA WinningRowType ==
  ASSUME TypeOK, NEW c \in CommitMsg, NEW clock \in Clock
  PROVE  WinningRow(versions, c, clock) \in Row
  <1>1. MintId(versions) \in VersionId
    BY MintIdType DEF TypeOK
  <1> QED
    BY <1>1, HeadRowType DEF WinningRow

\* Well-formed tables and a row that won.
ContestOK(con) ==
  /\ TablesOK(con.st)
  /\ con.winner \in Row
  /\ con.loser.hash \in Hash \cup {NoHash}
  /\ con.loser.clock \in Clock

\* Every branch of arbitrateCommit yields well-formed tables.
LEMMA VerdictsOK ==
  ASSUME TypeOK, NEW c \in CommitMsg, NEW d \in Device,
         ~UnknownParent(versions, c)
  PROVE  LET now == seq + 1
         IN  /\ TablesOK(ApplyFastPath(files, versions, c, d, now))
             /\ c.from \in DOMAIN files =>
                  TablesOK(ApplyMigration(files, versions, c, d, now))
             /\ c.from \in DOMAIN files /\ c.path \in DOMAIN files =>
                  ContestOK(MoveContest(files, versions, c, d, now))
             /\ c.path \in DOMAIN files =>
                  /\ ContestOK(DisplaceContest(files, versions, c, d, now))
                  /\ TablesOK(StandingHead(files, versions, c, d))
                  /\ ContestOK(LoseContest(files, versions, c, d))
  <1> DEFINE now == seq + 1
  <1>1. /\ FilesOK(files) /\ VersionsOK(versions) /\ now \in Nat
        /\ c.path \in Path /\ c.from \in Path \cup {NoPath}
        /\ c.hash \in Hash \cup {NoHash}
        /\ NoPath \in Path \cup {NoPath}
    BY DEF TypeOK, FilesOK, VersionsOK, CommitMsg
  <1> HIDE DEF now
  <1>2. TablesOK(ApplyFastPath(files, versions, c, d, now))
    BY <1>1, CounterTypes, AdvanceOK DEF ApplyFastPath
  <1>3. ASSUME c.from \in DOMAIN files
        PROVE  TablesOK(ApplyMigration(files, versions, c, d, now))
    BY <1>1, <1>3, CounterTypes, AdvanceOK DEF ApplyMigration
  <1>4. \A p \in DOMAIN files : /\ files[p].hash \in Hash \cup {NoHash}
                                /\ files[p].clock \in Clock
                                /\ files[p] \in Row
    BY DEF TypeOK, Row
  <1>5. ASSUME c.from \in DOMAIN files, c.path \in DOMAIN files
        PROVE  ContestOK(MoveContest(files, versions, c, d, now))
    BY <1>3, <1>4, <1>5, CounterTypes, WinningRowType
       DEF MoveContest, Contest, ContestOK
  <1>6. ASSUME c.path \in DOMAIN files
        PROVE  ContestOK(DisplaceContest(files, versions, c, d, now))
    <2> DEFINE clock == IncomingClock(versions, c, d)
               gone  == IF c.kind = "rename" THEN {c.from} ELSE {}
    <2>1. clock \in Clock
      BY CounterTypes
    <2> HIDE DEF clock, gone
    <2>2. TablesOK(Advance(files, versions, c, clock, gone, c.from, now))
      BY <1>1, <2>1, AdvanceOK
    <2>3. WinningRow(versions, c, clock) \in Row
      BY <2>1, WinningRowType
    <2> QED
      BY <1>4, <1>6, <2>2, <2>3
         DEF DisplaceContest, Contest, ContestOK, clock, gone
  <1>7. ASSUME c.path \in DOMAIN files
        PROVE  TablesOK(StandingHead(files, versions, c, d))
    <2>1. PayloadOf(c.path, files[c.path], NoPath) \in Change
      BY <1>1, <1>4, <1>7, PayloadOfType
    <2> QED
      BY <1>1, <2>1 DEF StandingHead, Tables, TablesOK
  <1>8. ASSUME c.path \in DOMAIN files
        PROVE  ContestOK(LoseContest(files, versions, c, d))
    <2>1. NextClock(0, d) \in Clock
      BY NextClockType
    <2> QED
      BY <1>1, <1>4, <1>7, <1>8, <2>1
         DEF LoseContest, LosingRow, HeadRow, Contest, ContestOK
  <1> QED
    BY <1>2, <1>3, <1>5, <1>6, <1>7, <1>8 DEF now

-----------------------------------------------------------------------------
(* Type correctness, one lemma per group of actions *)

\* A commit, on whichever branch, keeps the room well formed.
LEMMA HandleCommitOK ==
  ASSUME TypeOK, NEW c \in CommitMsg, c.hash = NoHash => c.isFolder \/ c.kind = "delete",
         NEW d \in Device, HandleCommit(d, c)
  PROVE  TypeOK'
  <1> DEFINE now == seq + 1
             anc == AncestorHashes(versions, c)
  <1>1. now \in Nat /\ FoundInBucket(c) \subseteq Hash
    BY DEF TypeOK, CommitMsg, FoundInBucket, CarriesContent
  <1>2. ASSUME StoreInline(c) PROVE bucket' \subseteq Hash
    BY <1>2 DEF StoreInline, TypeOK, CommitMsg, IsInline, CarriesContent
  <1> HIDE DEF now, anc
  <1>3. ASSUME NEW con, ContestOK(con), CommitContest(c, con)
        PROVE  TypeOK'
    <2>1. TablesOK(PreserveLoser(con, c, anc, now))
      BY <1>1, <1>3, PreserveLoserOK DEF ContestOK, CommitContest, anc
    <2> QED
      BY <1>1, <1>2, <1>3, <2>1, PersistOK DEF CommitContest, anc, now
  <1>4. ASSUME NEW con, ContestOK(con), TornContest(c, con)
        PROVE  TypeOK'
    <2>1. TablesOK(PreserveLoser(con, c, anc, now))
      BY <1>1, <1>4, PreserveLoserOK DEF ContestOK, TornContest, anc
    <2> QED
      BY <1>4, <2>1, PersistOnlyOK DEF TornContest, anc, now
  <1>5. CASE CommitFastPath(d, c)
    BY <1>1, <1>2, <1>5, VerdictsOK, PersistOK DEF CommitFastPath, Admitted
  <1>6. CASE CommitMove(d, c)
    BY <1>1, <1>2, <1>6, VerdictsOK, PersistOK
       DEF CommitMove, Admitted, MoveIsFree, MovesHead
  <1>7. CASE CommitMoveOver(d, c)
    BY <1>3, <1>7, VerdictsOK DEF CommitMoveOver, Admitted, MoveWins, MovesHead
  <1>8. CASE CommitDisplace(d, c)
    BY <1>3, <1>8, VerdictsOK
       DEF CommitDisplace, Admitted, IncomingWins, IsConflict
  <1>9. CASE CommitLoses(d, c)
    BY <1>3, <1>9, VerdictsOK DEF CommitLoses, Admitted, HeadWins, IsConflict
  <1>10. CASE CommitMoveLoses(d, c)
    BY <1>1, <1>2, <1>10, VerdictsOK, PersistOK
       DEF CommitMoveLoses, Admitted, MoveLoses, MovesHead
  <1>11. CASE CommitTorn(d, c)
    <2>1. CASE IsFastPath(files, c)
               /\ PersistOnly(ApplyFastPath(files, versions, c, d, seq + 1))
      BY <1>11, <2>1, VerdictsOK, PersistOnlyOK DEF CommitTorn, Admitted
    <2>2. CASE IncomingWins(files, versions, c, d)
               /\ TornContest(c, DisplaceContest(files, versions, c, d, seq + 1))
      BY <1>4, <1>11, <2>2, VerdictsOK
         DEF CommitTorn, Admitted, IncomingWins, IsConflict
    <2>3. CASE HeadWins(files, versions, c, d)
               /\ TornContest(c, LoseContest(files, versions, c, d))
      BY <1>4, <1>11, <2>3, VerdictsOK
         DEF CommitTorn, Admitted, HeadWins, IsConflict
    <2> QED
      BY <1>11, <2>1, <2>2, <2>3 DEF CommitTorn
  <1>12. CASE CommitRefused(d, c)
    <2>1. BlobsOK(UpsertedBlobs(FoundInBucket(c)))
      BY <1>1, UpsertedBlobsOK DEF TypeOK, BlobsOK
    <2> QED
      BY <1>12, <2>1 DEF CommitRefused, tables, TypeOK, BlobsOK
  <1> QED
    BY <1>5, <1>6, <1>7, <1>8, <1>9, <1>10, <1>11, <1>12 DEF HandleCommit, AcceptCommit

\* The commits a device sends are commit messages, without content for folders.
LEMMA CommitIsMessage ==
  ASSUME TypeOK, NEW d \in Device, Commit(d)
  PROVE  \E c \in CommitMsg : /\ c.hash = NoHash => c.isFolder
                              /\ HandleCommit(d, c)
  <1>1. PICK kind \in ClientKinds, path \in Path :
          \E from \in IF kind = "rename" THEN RenameSources \ {path} ELSE {NoPath} :
            \E parent \in RetiredIds \cup
                 KnownParents(kind, IF kind = "rename" THEN from ELSE path) :
              \E hash \in SentHashes(kind, parent) :
                HandleCommit(d, [path |-> path, parent |-> parent, hash |-> hash,
                                 kind |-> kind, from |-> from,
                                 isFolder |-> hash = NoHash])
    BY DEF Commit
  <1>8. PICK from \in Path \cup {NoPath} :
          \E parent \in RetiredIds \cup
                 KnownParents(kind, IF kind = "rename" THEN from ELSE path) :
            \E hash \in SentHashes(kind, parent) :
              HandleCommit(d, [path |-> path, parent |-> parent, hash |-> hash,
                               kind |-> kind, from |-> from,
                               isFolder |-> hash = NoHash])
    BY <1>1, RoomAssumption, Zenon
  <1>2. PICK parent \in RetiredIds \cup
                 KnownParents(kind, IF kind = "rename" THEN from ELSE path) :
          \E hash \in SentHashes(kind, parent) :
            HandleCommit(d, [path |-> path, parent |-> parent, hash |-> hash,
                             kind |-> kind, from |-> from,
                             isFolder |-> hash = NoHash])
    BY <1>8
  <1>3. parent \in Nat
    <2>1. DOMAIN versions \subseteq Nat /\ RetiredIds \subseteq Nat
      BY RoomAssumption DEF TypeOK, VersionId, RetiredIds
    <2> QED
      BY <2>1 DEF KnownParents, NoVersion
  <1>4. SentHashes(kind, parent) \subseteq Hash \cup {NoHash}
    BY DEF SentHashes, TypeOK, Version
  <1>5. PICK hash \in Hash \cup {NoHash} :
          HandleCommit(d, [path |-> path, parent |-> parent, hash |-> hash,
                           kind |-> kind, from |-> from,
                           isFolder |-> hash = NoHash])
    BY <1>2, <1>4
  <1> DEFINE c == [path |-> path, parent |-> parent, hash |-> hash,
                   kind |-> kind, from |-> from, isFolder |-> hash = NoHash]
  <1>6. kind \in Kind
    BY RoomAssumption
  <1>7. c \in CommitMsg /\ (c.hash = NoHash => c.isFolder)
    BY <1>3, <1>6 DEF CommitMsg
  <1> HIDE DEF c
  <1> QED
    BY <1>5, <1>7 DEF c

\* A device's commit keeps the room well formed.
LEMMA CommitOK ==
  ASSUME TypeOK, NEW d \in Device, Commit(d)
  PROVE  TypeOK'
  BY CommitIsMessage, HandleCommitOK

\* What a restore has made of the tables after the first m items of its plan.
LEMMA RestoredTablesOK ==
  ASSUME TypeOK, NEW d \in Device, NEW k \in DOMAIN snapshots,
         NEW m \in Nat, NEW plan, DOMAIN plan = 1..m,
         \A i \in 1..m : plan[i] \in Diverged(snapshots[k])
  PROVE  TablesOK(RestoredTables(snapshots[k], plan,
                                 Cardinality(DOMAIN versions), d))
  <1> DEFINE heads == snapshots[k]
             paths == Diverged(heads)
             n     == Cardinality(DOMAIN versions)
  <1>1. DOMAIN heads \subseteq Path /\ \A p \in DOMAIN heads : heads[p] \in HeadRecord
    <2>1. heads \in Snapshot
      BY DEF TypeOK
    <2> QED
      BY <2>1 DEF Snapshot
  <1>2. DOMAIN files \subseteq Path /\ \A p \in DOMAIN files : files[p] \in Row
    BY DEF TypeOK
  <1>3. paths \subseteq Path
    BY <1>1, <1>2 DEF Diverged
  <1>4. m \in Nat
    OBVIOUS
  <1>5. n \in Nat
    BY FS_CardinalityType DEF TypeOK
  <1>6. ASSUME NEW p \in paths
        PROVE  RestoreCommit(heads, p) \in CommitMsg
    <2>1. p \in DOMAIN heads \/ p \in DOMAIN files
      BY <1>6 DEF Diverged
    <2>2. p \in DOMAIN files =>
             files[p].hash \in Hash \cup {NoHash} /\ files[p].version \in Nat
      BY <1>2 DEF Row, VersionId
    <2>3. p \in DOMAIN heads =>
             heads[p].hash \in Hash \cup {NoHash} /\ heads[p].isFolder \in BOOLEAN
      BY <1>1 DEF HeadRecord
    <2> HIDE DEF heads
    <2> QED
      BY <1>3, <1>6, <2>1, <2>2, <2>3
         DEF RestoreCommit, CommitMsg, Kind, NoVersion
  <1>7. ASSUME NEW p \in paths
        PROVE  FastPathCounter(files, versions, RestoreCommit(heads, p)) \in Nat
    <2> DEFINE c == RestoreCommit(heads, p)
    <2>1. c.path = p
          /\ c.parent = IF p \in DOMAIN files THEN files[p].version ELSE NoVersion
      BY DEF RestoreCommit
    <2>2. p \in DOMAIN files => files[p].clock.counter \in Nat
      BY <1>2 DEF Row, Clock
    <2> HIDE DEF c
    <2> QED
      BY <2>1, <2>2 DEF FastPathCounter, ParentCounter, c
  <1>9. DOMAIN plan = 1..m /\ \A i \in 1..m : plan[i] \in paths
    OBVIOUS
  <1> DEFINE row(i) == RestoredRow(heads, plan, n, i, d)
             c(i)   == RestoreCommit(heads, plan[i])
  <1> HIDE DEF heads, paths, n
  <1>10. ASSUME NEW i \in 1..m
         PROVE  row(i) \in Row /\ n + i \in VersionId /\ c(i).parent \in Nat
    <2>1. n + i \in VersionId
      BY <1>4, <1>5 DEF VersionId
    <2>2. c(i) \in CommitMsg
          /\ NextClock(FastPathCounter(files, versions, c(i)), d) \in Clock
      BY <1>6, <1>7, <1>9, NextClockType
    <2> QED
      BY <2>1, <2>2, HeadRowType DEF RestoredRow, CommitMsg
  <1> DEFINE st == RestoredTables(heads, plan, n, d)
  <1>11. TablesOK(st)
    <2>1. FilesOK(st.files)
      <3>1. ASSUME NEW p, \E i \in DOMAIN plan : plan[i] = p
            PROVE  row(CHOOSE i \in DOMAIN plan : plan[i] = p) \in Row
        BY <1>9, <1>10, <3>1
      <3>2. \A i \in DOMAIN plan : plan[i] \in Path
        BY <1>3, <1>9
      <3>3. st.files = [p \in DOMAIN files \cup {plan[i] : i \in DOMAIN plan} |->
                          IF \E i \in DOMAIN plan : plan[i] = p
                          THEN row(CHOOSE i \in DOMAIN plan : plan[i] = p)
                          ELSE files[p]]
        BY DEF RestoredTables, Tables
      <3> DEFINE dom    == DOMAIN files \cup {plan[i] : i \in DOMAIN plan}
                 new(p) == row(CHOOSE i \in DOMAIN plan : plan[i] = p)
      <3>4. dom \subseteq Path
        BY <1>2, <3>2
      <3>5. ASSUME NEW p \in dom
            PROVE  (IF \E i \in DOMAIN plan : plan[i] = p THEN new(p) ELSE files[p])
                     \in Row
        BY <1>2, <3>1, Zenon
      <3> HIDE DEF st, new
      <3> QED
        BY <3>3, <3>4, <3>5 DEF FilesOK, new
    <2>2. VersionsOK(st.versions)
      <3> DEFINE ids == {n + i : i \in DOMAIN plan}
      <3>1. IsFiniteSet(DOMAIN versions \cup ids)
        <4>1. ids \in SUBSET ((n + 1)..(n + m))
          BY <1>4, <1>5, <1>9
        <4>2. IsFiniteSet((n + 1)..(n + m))
          BY <1>4, <1>5, FS_Interval
        <4>3. IsFiniteSet(ids)
          BY <4>1, <4>2, FS_Subset
        <4> QED
          BY <4>3, FS_Union DEF TypeOK
      <3>2. DOMAIN versions \cup ids \subseteq VersionId
        BY <1>9, <1>10 DEF TypeOK
      <3>3. ASSUME NEW id \in ids
            PROVE  id - n \in 1..m
        BY <1>4, <1>5, <1>9
      <3>4. ASSUME NEW i \in 1..m
            PROVE  VersionOf(plan[i], row(i), c(i).parent, seq + 1) \in Version
        <4>1. plan[i] \in Path /\ seq + 1 \in Nat
          BY <1>3, <1>9 DEF TypeOK
        <4> HIDE DEF row, c
        <4> QED
          BY <1>10, <4>1, VersionOfType
      <3>5. st.versions =
              [id \in DOMAIN versions \cup ids |->
                 IF id \in DOMAIN versions THEN versions[id]
                 ELSE VersionOf(plan[id - n], row(id - n), c(id - n).parent,
                                seq + 1)]
        BY DEF RestoredTables, Tables
      <3>6. \A id \in DOMAIN versions : versions[id] \in Version
        BY DEF TypeOK
      <3> HIDE DEF st, ids, row, c
      <3>7. ASSUME NEW id \in DOMAIN versions \cup ids
            PROVE  st.versions[id] \in Version
        BY <3>3, <3>4, <3>5, <3>6
      <3> QED
        BY <3>1, <3>2, <3>5, <3>7 DEF VersionsOK
    <2>3. st.changes \in Seq(Change)
      <3>1. ASSUME NEW i \in 1..m
            PROVE  PayloadOf(plan[i], row(i), NoPath) \in Change
        <4>1. plan[i] \in Path
          BY <1>3, <1>9
        <4> HIDE DEF row
        <4> QED
          BY <1>10, <4>1, PayloadOfType
      <3>2. st.changes = [i \in 1..m |-> PayloadOf(plan[i], row(i), NoPath)]
        BY <1>9 DEF RestoredTables, Tables
      <3> HIDE DEF st, row
      <3> QED
        BY <1>4, <3>1, <3>2
    <2> QED
      BY <2>1, <2>2, <2>3 DEF TablesOK
  <1> QED
    BY <1>11 DEF heads, n

\* The plan of a restore lists diverged paths.
LEMMA PlanFacts ==
  ASSUME TypeOK, NEW k \in DOMAIN snapshots,
         NEW plan \in Plans(Diverged(snapshots[k]))
  PROVE  /\ Cardinality(Diverged(snapshots[k])) \in Nat
         /\ DOMAIN plan = 1..Cardinality(Diverged(snapshots[k]))
         /\ \A i \in DOMAIN plan : plan[i] \in Diverged(snapshots[k])
  <1> DEFINE paths == Diverged(snapshots[k])
  <1>1. paths \subseteq Path
    <2>1. snapshots[k] \in Snapshot
      BY DEF TypeOK
    <2> QED
      BY <2>1 DEF Snapshot, Diverged, TypeOK
  <1>2. IsFiniteSet(paths)
    BY <1>1, PathAssumption, FS_Subset
  <1> HIDE DEF paths
  <1>3. Cardinality(paths) \in Nat
    BY <1>2, FS_CardinalityType
  <1>4. plan \in [1..Cardinality(paths) -> paths]
    BY DEF Plans, paths
  <1> QED
    BY <1>3, <1>4 DEF paths

\* A restore of a snapshot, whole or broken off, persists well-formed tables.
LEMMA SnapshotRestoreOK ==
  ASSUME TypeOK, NEW d \in Device, NEW k \in DOMAIN snapshots,
         SnapshotRestore(d, k) \/ SnapshotRestoreTorn(d, k)
  PROVE  TypeOK'
  <1> DEFINE n == Cardinality(DOMAIN versions)
  <1>1. CASE SnapshotRestore(d, k)
    <2>1. PICK plan \in Plans(Diverged(snapshots[k])) :
            /\ Persist(RestoredTables(snapshots[k], plan, n, d), {})
            /\ bucket' = bucket
      BY <1>1 DEF SnapshotRestore
    <2>2. TablesOK(RestoredTables(snapshots[k], plan, n, d))
      BY PlanFacts, RestoredTablesOK
    <2> QED
      BY <2>1, <2>2, PersistOK DEF TypeOK
  <1>2. CASE SnapshotRestoreTorn(d, k)
    <2>1. PICK plan \in Plans(Diverged(snapshots[k])) :
            \E j \in DOMAIN plan :
              PersistOnly(RestoredTables(snapshots[k],
                            [i \in 1..(j - 1) |-> plan[i]], n, d))
      BY <1>2 DEF SnapshotRestoreTorn
    <2>2. PICK j \in DOMAIN plan :
            PersistOnly(RestoredTables(snapshots[k],
                          [i \in 1..(j - 1) |-> plan[i]], n, d))
      BY <2>1
    <2> DEFINE done == [i \in 1..(j - 1) |-> plan[i]]
    <2>3. j - 1 \in Nat /\ 1..(j - 1) \subseteq DOMAIN plan
      BY PlanFacts
    <2>4. DOMAIN done = 1..(j - 1)
          /\ \A i \in 1..(j - 1) : done[i] \in Diverged(snapshots[k])
      BY <2>3, PlanFacts
    <2> HIDE DEF done
    <2>5. TablesOK(RestoredTables(snapshots[k], done, n, d))
      BY <2>3, <2>4, RestoredTablesOK
    <2> QED
      BY <2>2, <2>5, PersistOnlyOK DEF done
  <1> QED
    BY <1>1, <1>2

\* Snapshot capture and the maintenance jobs keep the room well formed.
LEMMA MaintenanceOK ==
  ASSUME TypeOK,
         \/ SnapshotCreate \/ EventsPrune \/ RetentionRun \/ GcPurge
         \/ \E h \in LargeHash : PutBlob(h) \/ BlobPut(h) \/ BlobUploaded(h)
         \/ \E h \in Hash : BucketDelete(h)
  PROVE  TypeOK'
  <1>1. CASE SnapshotCreate
    <2> DEFINE new == [p \in DOMAIN files |->
                         [version |-> files[p].version, hash |-> files[p].hash,
                          deleted |-> files[p].deleted,
                          isFolder |-> files[p].isFolder]]
    <2>1. new \in [DOMAIN files -> HeadRecord] /\ DOMAIN files \in SUBSET Path
      BY DEF TypeOK, Row, HeadRecord
    <2>2. new \in Snapshot
      BY <2>1 DEF Snapshot
    <2> HIDE DEF new
    <2>3. Append(snapshots, new) \in Seq(Snapshot)
      BY <2>2 DEF TypeOK
    <2>4. snapshots' = Append(snapshots, new)
      BY <1>1 DEF SnapshotCreate, new
    <2> QED
      BY <1>1, <2>3, <2>4 DEF SnapshotCreate, tables, store, TypeOK
  <1>2. CASE EventsPrune
    BY <1>2 DEF EventsPrune, store, TypeOK
  <1>3. CASE RetentionRun
    <2>1. PICK cutoff \in IF RetentionDays THEN 1..(seq + 1) ELSE {0} :
            /\ versions' = [id \in DOMAIN versions \ Doomed(cutoff) |-> versions[id]]
            /\ blobs' = [h \in DOMAIN blobs |->
                           IF blobs[h] >= Dropped(Doomed(cutoff), h)
                           THEN blobs[h] - Dropped(Doomed(cutoff), h) ELSE 0]
      BY <1>3 DEF RetentionRun
    <2> DEFINE doomed == Doomed(cutoff)
    <2>2. doomed \subseteq DOMAIN versions
      BY DEF Doomed
    <2> HIDE DEF doomed
    <2>3. IsFiniteSet(DOMAIN versions \ doomed)
      BY FS_Difference DEF TypeOK
    <2>4. ASSUME NEW h PROVE Dropped(doomed, h) \in Nat
      <3>1. {id \in doomed : versions[id].hash = h} \in SUBSET DOMAIN versions
        BY <2>2
      <3>2. IsFiniteSet({id \in doomed : versions[id].hash = h})
        BY <3>1, FS_Subset DEF TypeOK
      <3> QED
        BY <3>2, FS_CardinalityType DEF Dropped
    <2>5. VersionsOK(versions')
      BY <2>1, <2>3 DEF TypeOK, VersionsOK, doomed
    <2>6. BlobsOK(blobs')
      BY <2>1, <2>4 DEF TypeOK, BlobsOK, doomed
    <2> QED
      BY <1>3, <2>5, <2>6 DEF RetentionRun, TypeOK, VersionsOK, BlobsOK
  <1>4. CASE GcPurge
    BY <1>4 DEF GcPurge, tables, TypeOK
  <1>5. ASSUME NEW h \in LargeHash, PutBlob(h) \/ BlobPut(h) \/ BlobUploaded(h)
        PROVE  TypeOK'
    <2>1. h \in Hash
      BY RoomAssumption
    <2>2. BlobsOK(UpsertedBlobs({h}))
      BY <2>1, UpsertedBlobsOK DEF TypeOK, BlobsOK
    <2>3. CASE PutBlob(h)
      BY <2>1, <2>2, <2>3 DEF PutBlob, tables, TypeOK, BlobsOK
    <2>4. CASE BlobPut(h)
      BY <2>1, <2>4 DEF BlobPut, tables, TypeOK
    <2>5. CASE BlobUploaded(h)
      BY <2>2, <2>5 DEF BlobUploaded, tables, TypeOK, BlobsOK
    <2> QED
      BY <1>5, <2>3, <2>4, <2>5
  <1>6. ASSUME NEW h \in Hash, BucketDelete(h)
        PROVE  TypeOK'
    BY <1>6 DEF BucketDelete, tables, TypeOK
  <1> QED
    BY <1>1, <1>2, <1>3, <1>4, <1>5, <1>6

\* Every table of the room holds rows of its own shape in every reachable
\* state, whatever the vault, the devices, the history and the settings.
THEOREM TypeCorrect == Spec => []TypeOK
  <1>1. Init => TypeOK
    <2>1. SUFFICES ASSUME Init PROVE TypeOK
      OBVIOUS
    <2>2. DOMAIN EmptyMap = {}
      BY DEF EmptyMap
    <2>3. IsFiniteSet({})
      BY FS_EmptySet
    <2> QED
      BY <2>1, <2>2, <2>3 DEF Init, TypeOK
  <1>2. TypeOK /\ [Next]_vars => TypeOK'
    <2>1. SUFFICES ASSUME TypeOK, [Next]_vars PROVE TypeOK'
      OBVIOUS
    <2>2. CASE Next
      BY <2>1, <2>2, CommitOK, SnapshotRestoreOK, MaintenanceOK DEF Next
    <2>3. CASE UNCHANGED vars
      BY <2>1, <2>3 DEF vars, tables, store, TypeOK
    <2> QED
      BY <2>1, <2>2, <2>3
  <1> QED
    BY <1>1, <1>2, PTL DEF Spec

-----------------------------------------------------------------------------
(* What the versions table means *)


RetentionOff == RetentionVersions = 0 /\ ~RetentionDays

\* The table w has every version of v, unchanged.
Extends(v, w) == DOMAIN v \subseteq DOMAIN w /\ \A id \in DOMAIN v : w[id] = v[id]

\* No version was ever removed: the ids run from 1 without a gap.
Dense(v) == DOMAIN v = 1..Cardinality(DOMAIN v)

RowRecorded(p, row, v) ==
  /\ row.version \in DOMAIN v
  /\ v[row.version].path = p
  /\ v[row.version].hash = row.hash
  /\ v[row.version].clock = row.clock
  /\ v[row.version].kind = row.kind

Recorded(f, v) == \A p \in DOMAIN f : RowRecorded(p, f[p], v)

Follows(r, v) ==
  /\ r.parent \in DOMAIN v \cup {NoVersion}
  /\ r.clock = NextClock(ParentCounter(v, r), r.clock.dev)

Chained(v) == \A id \in DOMAIN v : Follows(v[id], v)

Sound(f, v) ==
  FilesOK(f) /\ VersionsOK(v) /\ Dense(v) /\ Recorded(f, v) /\ Chained(v)

-----------------------------------------------------------------------------
(* Growing the versions table *)

\* What follows its parent goes on doing so in a larger table.
LEMMA FollowsExtends ==
  ASSUME NEW v, NEW w, Extends(v, w), NEW r, Follows(r, v)
  PROVE  Follows(r, w)
  BY DEF Follows, Extends, ParentCounter

\* What is recorded stays recorded in a larger table.
LEMMA RecordedExtends ==
  ASSUME NEW v, NEW w, Extends(v, w), NEW p, NEW row, RowRecorded(p, row, v)
  PROVE  RowRecorded(p, row, w)
  BY DEF RowRecorded, Extends

\* In a dense table the minted id is new, and the table stays dense.
LEMMA MintIdFresh ==
  ASSUME NEW v, VersionsOK(v), Dense(v), NEW r
  PROVE  /\ MintId(v) \notin DOMAIN v
         /\ Extends(v, MapSet(v, MintId(v), r))
         /\ Dense(MapSet(v, MintId(v), r))
         /\ DOMAIN MapSet(v, MintId(v), r) = DOMAIN v \cup {MintId(v)}
         /\ MapSet(v, MintId(v), r)[MintId(v)] = r
  <1> DEFINE n == Cardinality(DOMAIN v)
             w == MapSet(v, MintId(v), r)
  <1>1. n \in Nat /\ DOMAIN v = 1..n /\ MintId(v) = n + 1
    BY FS_CardinalityType DEF VersionsOK, Dense, MintId
  <1>2. n + 1 \notin DOMAIN v
    BY <1>1
  <1>3. /\ DOMAIN w = DOMAIN v \cup {n + 1}
        /\ w[n + 1] = r
        /\ \A x \in DOMAIN v : w[x] = v[x]
    BY <1>1, <1>2 DEF MapSet
  <1>4. Cardinality(DOMAIN w) = n + 1
    BY <1>2, <1>3, FS_AddElement DEF VersionsOK
  <1>5. DOMAIN w = 1..(n + 1)
    <2> HIDE DEF n, w
    <2> QED
      BY <1>1, <1>3
  <1> QED
    BY <1>1, <1>2, <1>3, <1>4, <1>5 DEF Extends, Dense

\* A version that follows its parent, under a fresh id, keeps the chains.
LEMMA ChainedMint ==
  ASSUME NEW v, VersionsOK(v), Dense(v), Chained(v), NEW r, Follows(r, v)
  PROVE  Chained(MapSet(v, MintId(v), r))
  <1> DEFINE w == MapSet(v, MintId(v), r)
  <1>1. Extends(v, w) /\ DOMAIN w = DOMAIN v \cup {MintId(v)} /\ w[MintId(v)] = r
    BY MintIdFresh
  <1> HIDE DEF w
  <1>2. ASSUME NEW id \in DOMAIN w PROVE Follows(w[id], w)
    <2>1. CASE id \in DOMAIN v
      BY <1>1, <2>1, FollowsExtends DEF Chained, Extends
    <2>2. CASE id = MintId(v)
      BY <1>1, <2>2, FollowsExtends
    <2> QED
      BY <1>1, <2>1, <2>2
  <1> QED
    BY <1>2 DEF Chained, w

\* A row and the version it names, added together, keep the tables sound.
LEMMA SoundMint ==
  ASSUME NEW f, NEW v, Sound(f, v), NEW p \in Path, NEW row \in Row,
         row.version = MintId(v), NEW parent \in Nat, NEW now \in Nat,
         Follows(VersionOf(p, row, parent, now), v)
  PROVE  LET w == MapSet(v, MintId(v), VersionOf(p, row, parent, now))
         IN  /\ Sound(MapSet(f, p, row), w)
             /\ Extends(v, w)
             /\ RowRecorded(p, row, w)
  <1> DEFINE r == VersionOf(p, row, parent, now)
             w == MapSet(v, MintId(v), r)
             g == MapSet(f, p, row)
  <1>1. /\ FilesOK(f) /\ VersionsOK(v) /\ Dense(v) /\ Recorded(f, v) /\ Chained(v)
    BY DEF Sound
  <1>2. FilesOK(g)
    BY <1>1, FilesOKSet
  <1>3. VersionsOK(w)
    BY <1>1, MintIdType, VersionOfType, VersionsOKSet DEF VersionsOK
  <1>4. /\ Extends(v, w) /\ Dense(w) /\ w[MintId(v)] = r
        /\ MintId(v) \in DOMAIN w
    BY <1>1, MintIdFresh
  <1>5. Chained(w)
    BY <1>1, ChainedMint
  <1>6. RowRecorded(p, row, w)
    BY <1>4 DEF RowRecorded, VersionOf
  <1>7. Recorded(g, w)
    <2>1. /\ DOMAIN g = DOMAIN f \cup {p} /\ g[p] = row
          /\ \A q \in DOMAIN f : q # p => g[q] = f[q]
      BY DEF MapSet
    <2> HIDE DEF g, w
    <2>2. ASSUME NEW q \in DOMAIN f, q # p PROVE RowRecorded(q, g[q], w)
      BY <1>1, <1>4, <2>1, <2>2, RecordedExtends DEF Recorded
    <2> QED
      BY <1>6, <2>1, <2>2 DEF Recorded
  <1> QED
    BY <1>2, <1>3, <1>4, <1>5, <1>6, <1>7 DEF Sound

-----------------------------------------------------------------------------
(* Sound verdicts *)

\* Advancing a head to a clock that follows the commit's parent.
LEMMA AdvanceSound ==
  ASSUME NEW f, NEW v, Sound(f, v), NEW c \in CommitMsg,
         c.parent \in DOMAIN v \cup {NoVersion}, NEW clock \in Clock,
         clock = NextClock(ParentCounter(v, c), clock.dev),
         NEW gone, NEW from, NEW now \in Nat
  PROVE  LET st == Advance(f, v, c, clock, gone, from, now)
         IN  /\ Sound(st.files, st.versions)
             /\ Extends(v, st.versions)
             /\ RowRecorded(c.path, WinningRow(v, c, clock), st.versions)
  <1> DEFINE row  == WinningRow(v, c, clock)
             kept == [p \in DOMAIN f \ gone |-> f[p]]
             r    == VersionOf(c.path, row, c.parent, now)
  <1>1. VersionsOK(v) /\ c.path \in Path /\ c.parent \in Nat
    BY DEF Sound, CommitMsg
  <1>2. row \in Row /\ row.version = MintId(v) /\ row.clock = clock
    BY <1>1, MintIdType, HeadRowType DEF WinningRow, HeadRow, VersionsOK
  <1>3. Sound(kept, v)
    BY DEF Sound, FilesOK, Recorded
  <1>4. Follows(r, v)
    <2>1. r.parent = c.parent /\ r.clock = clock
      BY <1>2 DEF VersionOf
    <2> HIDE DEF r
    <2> QED
      BY <2>1 DEF Follows, ParentCounter
  <1>5. LET w == MapSet(v, MintId(v), r)
        IN  Sound(MapSet(kept, c.path, row), w) /\ Extends(v, w)
              /\ RowRecorded(c.path, row, w)
    <2> HIDE DEF row, kept
    <2> QED
      BY <1>1, <1>2, <1>3, <1>4, SoundMint
  <1> QED
    BY <1>2, <1>5 DEF Advance, Tables

\* A contest on sound tables whose winner is recorded.
ContestSound(con) ==
  /\ ContestOK(con)
  /\ Sound(con.st.files, con.st.versions)
  /\ Extends(versions, con.st.versions)
  /\ \E p : RowRecorded(p, con.winner, con.st.versions)

\* Preserving the loser, as a version built on the winner.
LEMMA PreserveLoserSound ==
  ASSUME NEW con, ContestSound(con), NEW c \in CommitMsg, NEW anc,
         NEW now \in Nat, ~CopyBlocked(con, c, anc)
  PROVE  LET st == PreserveLoser(con, c, anc, now)
         IN  Sound(st.files, st.versions) /\ Extends(versions, st.versions)
  <1>1. CASE ~NeedsCopy(con.loser, con.winner.hash, anc)
    BY <1>1 DEF PreserveLoser, ContestSound
  <1>2. CASE NeedsCopy(con.loser, con.winner.hash, anc)
    <2> DEFINE f    == con.st.files
               v    == con.st.versions
               path == ConflictCopyPath(f, c.path, con.loser.clock.dev)
               row  == CopyRow(MintId(v), con.loser, con.winner)
               r    == VersionOf(path, row, con.winner.version, now)
    <2>1. /\ c.path \in Path /\ con.loser.clock.dev \in Device
          /\ con.loser.hash \in Hash \cup {NoHash}
          /\ con.winner.clock.counter \in Nat /\ con.winner.version \in Nat
      BY DEF CommitMsg, ContestSound, ContestOK, Clock, Row, VersionId
    <2>2. path \in Path
      BY <1>2, <2>1, ConflictCopyPathFacts DEF CopyBlocked
    <2>3. MintId(v) \in VersionId
      BY MintIdType DEF ContestSound, Sound, VersionsOK
    <2>4. row \in Row /\ row.version = MintId(v)
          /\ row.clock = NextClock(con.winner.clock.counter, con.loser.clock.dev)
      BY <2>1, <2>3, NextClockType DEF CopyRow, Row, Kind
    <2>5. PICK p : RowRecorded(p, con.winner, v)
      BY DEF ContestSound
    <2>6. con.winner.version \in DOMAIN v
          /\ v[con.winner.version].clock = con.winner.clock
      BY <2>5 DEF RowRecorded
    <2>7. con.winner.version # NoVersion
      BY <2>6 DEF ContestSound, Sound, VersionsOK, VersionId, NoVersion
    <2>8. r.parent = con.winner.version
          /\ r.clock = NextClock(con.winner.clock.counter, con.loser.clock.dev)
      BY <2>4 DEF VersionOf
    <2> HIDE DEF f, v, path, row, r
    <2>9. Follows(r, v)
      BY <2>6, <2>7, <2>8 DEF Follows, ParentCounter, NextClock
    <2>10. Sound(f, v)
      BY DEF ContestSound, f, v
    <2>11. LET w == MapSet(v, MintId(v), r)
           IN  Sound(MapSet(f, path, row), w) /\ Extends(v, w)
      BY <2>1, <2>2, <2>4, <2>9, <2>10, SoundMint DEF r
    <2>12. Extends(versions, MapSet(v, MintId(v), r))
      BY <2>11 DEF ContestSound, Extends, v
    <2>13. PreserveLoser(con, c, anc, now) =
             Tables(MapSet(f, path, row), MapSet(v, MintId(v), r),
                    Append(con.st.changes, PayloadOf(path, row, NoPath)))
      BY <1>2 DEF PreserveLoser, f, v, path, row, r
    <2> QED
      BY <2>11, <2>12, <2>13 DEF Tables
  <1> QED
    BY <1>1, <1>2

-----------------------------------------------------------------------------
(* The tables after a step *)

\* Persisting a sound verdict, whole or broken off, leaves sound tables.
LEMMA PersistSound ==
  ASSUME Sound(files, versions), NEW st, Sound(st.files, st.versions),
         Extends(versions, st.versions), NEW changes,
         files' = PersistedFiles(st.files, changes),
         versions' = PersistedVersions(st.versions)
  PROVE  Sound(files', versions')
  <1> DEFINE v == st.versions
  <1>1. DOMAIN versions' = DOMAIN v /\ \A id \in DOMAIN v : versions'[id] = v[id]
    BY DEF PersistedVersions, Extends
  <1>2. Extends(v, versions') /\ Extends(versions, versions')
    BY <1>1 DEF Extends
  <1>3. VersionsOK(v) /\ Dense(v) /\ Chained(v) /\ Recorded(st.files, v)
    BY DEF Sound
  <1> HIDE DEF v
  <1>4. VersionsOK(versions')
    BY <1>1, <1>3 DEF VersionsOK
  <1>5. Dense(versions')
    BY <1>1, <1>3 DEF Dense
  <1>6. Chained(versions')
    BY <1>1, <1>2, <1>3, FollowsExtends DEF Chained
  <1>7. FilesOK(files')
    BY PersistedFilesOK DEF Sound
  <1>8. Recorded(files', versions')
    <2>1. ASSUME NEW p \in DOMAIN files'
          PROVE  RowRecorded(p, files'[p], versions')
      <3>1. p \in DOMAIN st.files /\ files'[p] = PersistedRow(p, st.files[p])
        BY DEF PersistedFiles
      <3>2. RowRecorded(p, st.files[p], versions')
        BY <1>2, <1>3, <3>1, RecordedExtends DEF Recorded
      <3>3. p \in DOMAIN files => RowRecorded(p, files[p], versions')
        BY <1>2, RecordedExtends DEF Sound, Recorded
      <3> QED
        BY <3>1, <3>2, <3>3 DEF PersistedRow
    <2> QED
      BY <2>1 DEF Recorded
  <1> QED
    BY <1>4, <1>5, <1>6, <1>7, <1>8 DEF Sound

\* Both tables as they were.
LEMMA SoundUnchanged ==
  ASSUME Sound(files, versions), UNCHANGED <<files, versions>>
  PROVE  Sound(files', versions')
  OBVIOUS

\* Every branch of arbitrateCommit gives the clock that follows the parent.
LEMMA VerdictsSound ==
  ASSUME TypeOK, Sound(files, versions), NEW c \in CommitMsg,
         NEW d \in Device, ~UnknownParent(versions, c)
  PROVE  LET now  == seq + 1
             Good(st) == Sound(st.files, st.versions) /\ Extends(versions, st.versions)
         IN  /\ IsFastPath(files, c) =>
                  Good(ApplyFastPath(files, versions, c, d, now))
             /\ MovesHead(files, c) =>
                  Good(ApplyMigration(files, versions, c, d, now))
             /\ MovesHead(files, c) /\ c.path \in DOMAIN files =>
                  ContestSound(MoveContest(files, versions, c, d, now))
             /\ c.path \in DOMAIN files =>
                  /\ ContestSound(DisplaceContest(files, versions, c, d, now))
                  /\ Good(StandingHead(files, versions, c, d))
                  /\ ContestSound(LoseContest(files, versions, c, d))
  <1> DEFINE now  == seq + 1
             Good(st) == Sound(st.files, st.versions) /\ Extends(versions, st.versions)
  <1>1. now \in Nat /\ c.parent \in DOMAIN versions \cup {NoVersion}
        /\ Extends(versions, versions)
    BY DEF TypeOK, UnknownParent, Extends
  <1>2. \A p \in DOMAIN files :
          /\ files[p].version \in DOMAIN versions
          /\ files[p].version # NoVersion
          /\ versions[files[p].version].clock = files[p].clock
    BY DEF Sound, Recorded, RowRecorded, VersionsOK, VersionId, NoVersion
  <1>3. \A p \in DOMAIN files :
          files[p].version = c.parent =>
            ParentCounter(versions, c) = files[p].clock.counter
    BY <1>2 DEF ParentCounter
  <1> HIDE DEF now
  <1>4. ASSUME NEW n, n = ParentCounter(versions, c), NextClock(n, d) \in Clock,
               NEW gone, NEW from
        PROVE  LET st == Advance(files, versions, c, NextClock(n, d), gone, from, now)
               IN  Good(st) /\ RowRecorded(c.path,
                     WinningRow(versions, c, NextClock(n, d)), st.versions)
    <2>1. NextClock(n, d) = NextClock(ParentCounter(versions, c), NextClock(n, d).dev)
      BY <1>4 DEF NextClock
    <2> QED
      BY <1>1, <1>4, <2>1, AdvanceSound
  <1>5. ASSUME IsFastPath(files, c)
        PROVE  Good(ApplyFastPath(files, versions, c, d, now))
    <2>1. FastPathCounter(files, versions, c) = ParentCounter(versions, c)
      BY <1>3, <1>5 DEF IsFastPath, FastPathCounter
    <2> QED
      BY <1>4, <2>1, CounterTypes DEF ApplyFastPath
  <1>6. ASSUME MovesHead(files, c)
        PROVE  /\ Good(ApplyMigration(files, versions, c, d, now))
               /\ RowRecorded(c.path,
                    WinningRow(versions, c, MoveClock(files, c, d)),
                    ApplyMigration(files, versions, c, d, now).versions)
    <2>1. c.from \in DOMAIN files
          /\ files[c.from].clock.counter = ParentCounter(versions, c)
      BY <1>3, <1>6 DEF MovesHead
    <2> QED
      BY <1>4, <2>1, CounterTypes DEF ApplyMigration, MoveClock
  <1>7. ASSUME MovesHead(files, c), c.path \in DOMAIN files
        PROVE  ContestSound(MoveContest(files, versions, c, d, now))
    <2>1. ContestOK(MoveContest(files, versions, c, d, now))
      BY <1>7, VerdictsOK DEF MovesHead, now
    <2> QED
      BY <1>6, <1>7, <2>1 DEF MoveContest, Contest, ContestSound
  <1>8. ASSUME c.path \in DOMAIN files
        PROVE  ContestSound(DisplaceContest(files, versions, c, d, now))
    <2> DEFINE gone == IF c.kind = "rename" THEN {c.from} ELSE {}
    <2>1. ContestOK(DisplaceContest(files, versions, c, d, now))
      BY <1>8, VerdictsOK DEF now
    <2> HIDE DEF gone
    <2>2. LET clock == IncomingClock(versions, c, d)
              st    == Advance(files, versions, c, clock, gone, c.from, now)
          IN  Good(st) /\ RowRecorded(c.path, WinningRow(versions, c, clock),
                                      st.versions)
      BY <1>4, CounterTypes DEF IncomingClock
    <2> QED
      BY <2>1, <2>2 DEF DisplaceContest, Contest, ContestSound, gone
  <1>9. Good(StandingHead(files, versions, c, d))
    BY <1>1 DEF StandingHead, Tables
  <1>10. ASSUME c.path \in DOMAIN files
         PROVE  ContestSound(LoseContest(files, versions, c, d))
    <2>1. ContestOK(LoseContest(files, versions, c, d))
      BY <1>10, VerdictsOK
    <2>2. RowRecorded(c.path, files[c.path],
                      StandingHead(files, versions, c, d).versions)
      BY <1>10 DEF Sound, Recorded, StandingHead, Tables
    <2> QED
      BY <1>9, <2>1, <2>2 DEF LoseContest, Contest, ContestSound
  <1> QED
    BY <1>5, <1>6, <1>7, <1>8, <1>9, <1>10 DEF now

\* The tables a restore makes of the first m items of its plan.
LEMMA RestoredTablesSound ==
  ASSUME TypeOK, Sound(files, versions), NEW d \in Device,
         NEW k \in DOMAIN snapshots, NEW m \in Nat, NEW plan,
         DOMAIN plan = 1..m,
         \A i \in 1..m : plan[i] \in Diverged(snapshots[k])
  PROVE  LET st == RestoredTables(snapshots[k], plan,
                                  Cardinality(DOMAIN versions), d)
         IN  Sound(st.files, st.versions) /\ Extends(versions, st.versions)
  <1> DEFINE heads  == snapshots[k]
             n      == Cardinality(DOMAIN versions)
             st     == RestoredTables(heads, plan, n, d)
             c(i)   == RestoreCommit(heads, plan[i])
             row(i) == RestoredRow(heads, plan, n, i, d)
             r(i)   == VersionOf(plan[i], row(i), c(i).parent, seq + 1)
             at(p)  == CHOOSE i \in 1..m : plan[i] = p
  <1>1. TablesOK(st)
    BY RestoredTablesOK
  <1>2. n \in Nat /\ DOMAIN versions = 1..n
    BY FS_CardinalityType DEF TypeOK, Sound, Dense
  <1>3. /\ DOMAIN st.versions = DOMAIN versions \cup {n + i : i \in 1..m}
        /\ \A id \in DOMAIN st.versions :
             st.versions[id] = IF id \in DOMAIN versions THEN versions[id]
                               ELSE r(id - n)
    BY DEF RestoredTables, Tables
  <1>4. /\ DOMAIN st.files = DOMAIN files \cup {plan[i] : i \in 1..m}
        /\ \A p \in DOMAIN st.files :
             st.files[p] = IF \E i \in 1..m : plan[i] = p
                           THEN row(at(p)) ELSE files[p]
    BY DEF RestoredTables, Tables
  <1>5. ASSUME NEW i \in 1..m
        PROVE  row(i).version = n + i /\ Follows(r(i), versions)
    <2> DEFINE p == plan[i]
    <2>1. /\ c(i).path = p
          /\ c(i).parent = IF p \in DOMAIN files THEN files[p].version ELSE NoVersion
      BY DEF RestoreCommit
    <2>2. p \in DOMAIN files =>
            /\ files[p].version \in DOMAIN versions
            /\ files[p].version # NoVersion
            /\ versions[files[p].version].clock = files[p].clock
      BY DEF Sound, Recorded, RowRecorded, VersionsOK, VersionId, NoVersion
    <2>3. /\ row(i).version = n + i
          /\ row(i).clock = NextClock(FastPathCounter(files, versions, c(i)), d)
      BY DEF RestoredRow, HeadRow
    <2> HIDE DEF c, row, p
    <2>4. FastPathCounter(files, versions, c(i)) = ParentCounter(versions, c(i))
      BY <2>1, <2>2 DEF FastPathCounter, ParentCounter
    <2>5. r(i).parent = c(i).parent /\ r(i).clock = row(i).clock
      BY DEF VersionOf
    <2> HIDE DEF r
    <2> QED
      BY <2>1, <2>2, <2>3, <2>4, <2>5 DEF Follows, ParentCounter, NextClock
  <1>6. ASSUME NEW i \in 1..m
        PROVE  /\ n + i \in DOMAIN st.versions /\ n + i \notin DOMAIN versions
               /\ st.versions[n + i] = r(i)
    <2>1. n + i \in DOMAIN st.versions /\ n + i \notin DOMAIN versions
          /\ (n + i) - n = i
      BY <1>2, <1>3
    <2> HIDE DEF r, st, n
    <2> QED
      BY <1>3, <2>1
  <1>7. Extends(versions, st.versions)
    <2> HIDE DEF st, r
    <2> QED
      BY <1>3 DEF Extends
  <1>8. Dense(st.versions)
    <2> HIDE DEF st, r, n
    <2>1. DOMAIN st.versions = 1..(n + m)
      <3>1. ASSUME NEW x \in 1..(n + m)
            PROVE  x \in 1..n \cup {n + i : i \in 1..m}
        <4>1. CASE x \in 1..n
          BY <4>1
        <4>2. CASE x \notin 1..n
          <5>1. x - n \in 1..m /\ x = n + (x - n)
            BY <1>2, <4>2
          <5> QED
            BY <5>1
        <4> QED
          BY <4>1, <4>2
      <3>2. ASSUME NEW x \in 1..n \cup {n + i : i \in 1..m}
            PROVE  x \in 1..(n + m)
        BY <1>2
      <3> QED
        BY <1>2, <1>3, <3>1, <3>2
    <2>2. Cardinality(1..(n + m)) = n + m
      BY <1>2, FS_Interval
    <2> QED
      BY <2>1, <2>2 DEF Dense
  <1>9. Chained(st.versions)
    <2>1. ASSUME NEW id \in DOMAIN st.versions
          PROVE  Follows(st.versions[id], st.versions)
      <3>1. CASE id \in DOMAIN versions
        <4>1. Follows(versions[id], versions)
          BY <3>1 DEF Sound, Chained
        <4>2. st.versions[id] = versions[id]
          BY <1>7, <3>1 DEF Extends
        <4> HIDE DEF st
        <4> QED
          BY <1>7, <4>1, <4>2, FollowsExtends
      <3>2. CASE id \notin DOMAIN versions
        <4>1. PICK i \in 1..m : id = n + i
          BY <1>3, <3>2
        <4> HIDE DEF st, r, n
        <4> QED
          BY <1>5, <1>6, <1>7, <4>1, FollowsExtends
      <3> QED
        BY <3>1, <3>2
    <2> QED
      BY <2>1 DEF Chained
  <1>10. Recorded(st.files, st.versions)
    <2>1. ASSUME NEW p \in DOMAIN st.files
          PROVE  RowRecorded(p, st.files[p], st.versions)
      <3>1. CASE \E i \in 1..m : plan[i] = p
        <4>1. at(p) \in 1..m /\ plan[at(p)] = p
          BY <3>1
        <4>2. st.files[p] = row(at(p))
          BY <1>4, <3>1
        <4>3. ASSUME NEW i \in 1..m, plan[i] = p
              PROVE  RowRecorded(p, row(i), st.versions)
          <5>1. /\ r(i).path = p /\ r(i).hash = row(i).hash
                /\ r(i).clock = row(i).clock /\ r(i).kind = row(i).kind
            BY <4>3 DEF VersionOf
          <5>2. row(i).version = n + i
            BY <1>5
          <5>3. n + i \in DOMAIN st.versions /\ st.versions[n + i] = r(i)
            BY <1>6
          <5> HIDE DEF st, row, r, n
          <5> QED
            BY <5>1, <5>2, <5>3 DEF RowRecorded
        <4> HIDE DEF st, row, at
        <4> QED
          BY <4>1, <4>2, <4>3
      <3>2. CASE ~\E i \in 1..m : plan[i] = p
        <4>1. p \in DOMAIN files /\ st.files[p] = files[p]
          BY <1>4, <3>2
        <4>2. RowRecorded(p, files[p], versions)
          BY <4>1 DEF Sound, Recorded
        <4> HIDE DEF st
        <4> QED
          BY <1>7, <4>1, <4>2, RecordedExtends
      <3> QED
        BY <3>1, <3>2
    <2> QED
      BY <2>1 DEF Recorded
  <1> HIDE DEF st
  <1>11. Sound(st.files, st.versions) /\ Extends(versions, st.versions)
    BY <1>1, <1>7, <1>8, <1>9, <1>10 DEF Sound, TablesOK
  <1> QED
    BY <1>11 DEF st

-----------------------------------------------------------------------------
(* Every step keeps the tables sound *)

\* A commit, on whichever branch, whole or broken off.
LEMMA HandleCommitSound ==
  ASSUME TypeOK, Sound(files, versions), NEW c \in CommitMsg,
         NEW d \in Device, HandleCommit(d, c)
  PROVE  Sound(files', versions')
  <1> DEFINE now == seq + 1
             anc == AncestorHashes(versions, c)
  <1>1. now \in Nat
    BY DEF TypeOK
  <1> HIDE DEF now, anc
  <1>2. ASSUME NEW st, Sound(st.files, st.versions), Extends(versions, st.versions),
               Persist(st, FoundInBucket(c)) \/ PersistOnly(st)
        PROVE  Sound(files', versions')
    BY <1>2, PersistSound DEF Persist, PersistOnly
  <1>3. ASSUME NEW con, ContestSound(con),
               CommitContest(c, con) \/ TornContest(c, con)
        PROVE  Sound(files', versions')
    <2> DEFINE st == PreserveLoser(con, c, anc, now)
    <2>1. Sound(st.files, st.versions) /\ Extends(versions, st.versions)
      BY <1>1, <1>3, PreserveLoserSound DEF CommitContest, TornContest, anc
    <2>2. Persist(st, FoundInBucket(c)) \/ PersistOnly(st)
      BY <1>3 DEF CommitContest, TornContest, anc, now
    <2> HIDE DEF st
    <2> QED
      BY <1>2, <2>1, <2>2
  <1>4. CASE CommitFastPath(d, c)
    BY <1>2, <1>4, VerdictsSound DEF CommitFastPath, Admitted
  <1>5. CASE CommitMove(d, c)
    BY <1>2, <1>5, VerdictsSound DEF CommitMove, Admitted, MoveIsFree
  <1>6. CASE CommitMoveOver(d, c)
    BY <1>3, <1>6, VerdictsSound DEF CommitMoveOver, Admitted, MoveWins
  <1>7. CASE CommitDisplace(d, c)
    BY <1>3, <1>7, VerdictsSound
       DEF CommitDisplace, Admitted, IncomingWins, IsConflict
  <1>8. CASE CommitLoses(d, c)
    BY <1>3, <1>8, VerdictsSound DEF CommitLoses, Admitted, HeadWins, IsConflict
  <1>9. CASE CommitMoveLoses(d, c)
    BY <1>2, <1>9, VerdictsSound DEF CommitMoveLoses, Admitted, MoveLoses
  <1>10. CASE CommitTorn(d, c)
    <2>1. CASE IsFastPath(files, c)
               /\ PersistOnly(ApplyFastPath(files, versions, c, d, seq + 1))
      BY <1>2, <1>10, <2>1, VerdictsSound DEF CommitTorn, Admitted
    <2>2. CASE IncomingWins(files, versions, c, d)
               /\ TornContest(c, DisplaceContest(files, versions, c, d, seq + 1))
      BY <1>3, <1>10, <2>2, VerdictsSound
         DEF CommitTorn, Admitted, IncomingWins, IsConflict
    <2>3. CASE HeadWins(files, versions, c, d)
               /\ TornContest(c, LoseContest(files, versions, c, d))
      BY <1>3, <1>10, <2>3, VerdictsSound
         DEF CommitTorn, Admitted, HeadWins, IsConflict
    <2> QED
      BY <1>10, <2>1, <2>2, <2>3 DEF CommitTorn
  <1>11. CASE CommitRefused(d, c)
    BY <1>11, SoundUnchanged DEF CommitRefused, tables
  <1> QED
    BY <1>4, <1>5, <1>6, <1>7, <1>8, <1>9, <1>10, <1>11 DEF HandleCommit, AcceptCommit

\* A restore, whole or broken off.
LEMMA SnapshotRestoreSound ==
  ASSUME TypeOK, Sound(files, versions), NEW d \in Device,
         NEW k \in DOMAIN snapshots,
         SnapshotRestore(d, k) \/ SnapshotRestoreTorn(d, k)
  PROVE  Sound(files', versions')
  <1> DEFINE n        == Cardinality(DOMAIN versions)
             st(plan) == RestoredTables(snapshots[k], plan, n, d)
  <1>1. CASE SnapshotRestore(d, k)
    <2>1. PICK plan \in Plans(Diverged(snapshots[k])) : Persist(st(plan), {})
      BY <1>1 DEF SnapshotRestore
    <2>2. Sound(st(plan).files, st(plan).versions)
          /\ Extends(versions, st(plan).versions)
      BY PlanFacts, RestoredTablesSound
    <2> HIDE DEF st
    <2> QED
      BY <2>1, <2>2, PersistSound DEF Persist
  <1>2. CASE SnapshotRestoreTorn(d, k)
    <2>1. PICK plan \in Plans(Diverged(snapshots[k])) :
            \E j \in DOMAIN plan : PersistOnly(st([i \in 1..(j - 1) |-> plan[i]]))
      BY <1>2 DEF SnapshotRestoreTorn
    <2>2. PICK j \in DOMAIN plan : PersistOnly(st([i \in 1..(j - 1) |-> plan[i]]))
      BY <2>1
    <2> DEFINE done == [i \in 1..(j - 1) |-> plan[i]]
    <2>3. j - 1 \in Nat /\ 1..(j - 1) \subseteq DOMAIN plan
      BY PlanFacts
    <2>4. DOMAIN done = 1..(j - 1)
          /\ \A i \in 1..(j - 1) : done[i] \in Diverged(snapshots[k])
      BY <2>3, PlanFacts
    <2>5. PersistOnly(st(done))
      BY <2>2
    <2> HIDE DEF done
    <2>6. Sound(st(done).files, st(done).versions)
          /\ Extends(versions, st(done).versions)
      BY <2>3, <2>4, RestoredTablesSound
    <2> HIDE DEF st
    <2> QED
      BY <2>5, <2>6, PersistSound DEF PersistOnly
  <1> QED
    BY <1>1, <1>2

\* No other step touches the two tables while retention is off.
LEMMA MaintenanceSound ==
  ASSUME RetentionOff, Sound(files, versions),
         \/ SnapshotCreate \/ EventsPrune \/ RetentionRun \/ GcPurge
         \/ \E h \in LargeHash : PutBlob(h) \/ BlobPut(h) \/ BlobUploaded(h)
         \/ \E h \in Hash : BucketDelete(h)
  PROVE  Sound(files', versions')
  <1>1. UNCHANGED <<files, versions>>
    BY DEF RetentionOff, SnapshotCreate, EventsPrune, RetentionRun, GcPurge,
           PutBlob, BlobPut, BlobUploaded, BucketDelete, tables
  <1> QED
    BY <1>1, SoundUnchanged

\* While retention is off, the tables are sound in every reachable state.
LEMMA SoundAlways ==
  ASSUME RetentionOff
  PROVE  Spec => []Sound(files, versions)
  <1>1. Init => Sound(files, versions)
    <2>1. DOMAIN EmptyMap = {} /\ IsFiniteSet({}) /\ Cardinality({}) = 0
      BY FS_EmptySet DEF EmptyMap
    <2> QED
      BY <2>1 DEF Init, Sound, FilesOK, VersionsOK, Dense, Recorded, Chained
  <1>2. TypeOK /\ Sound(files, versions) /\ [Next]_vars => Sound(files, versions)'
    <2>1. SUFFICES ASSUME TypeOK, Sound(files, versions), [Next]_vars
                   PROVE  Sound(files', versions')
      OBVIOUS
    <2>2. ASSUME NEW d \in Device, Commit(d) PROVE Sound(files', versions')
      BY <2>1, <2>2, CommitIsMessage, HandleCommitSound
    <2>3. CASE Next
      BY <2>1, <2>2, <2>3, SnapshotRestoreSound, MaintenanceSound DEF Next
    <2>4. CASE UNCHANGED vars
      BY <2>1, <2>4, SoundUnchanged DEF vars, tables
    <2> QED
      BY <2>1, <2>3, <2>4
  <1> QED
    BY <1>1, <1>2, TypeCorrect, PTL DEF Spec

\* While retention is off, every head is a recorded version of its path with the
\* same content, clock and kind, and every version's clock follows the clock of
\* the parent it names: on each branch of arbitrateCommit, through moves,
\* conflict copies, restores and handlers that break off half way.
THEOREM HistorySound ==
  ASSUME RetentionOff
  PROVE  Spec => [](HeadsAreRecorded /\ ClocksFollowParents)
  <1>1. Sound(files, versions) => HeadsAreRecorded
    BY DEF Sound, Recorded, RowRecorded, HeadsAreRecorded
  <1>2. Sound(files, versions) => ClocksFollowParents
    BY DEF Sound, Chained, Follows, ClocksFollowParents
  <1> QED
    BY <1>1, <1>2, SoundAlways, PTL

\* With retention off, the clock the room gives a version is always the one its
\* author predicts from the parent it names: one above the parent's counter.
THEOREM ClocksPredictable ==
  ASSUME RetentionOff
  PROVE  Spec => []ClocksFollowParents
  <1>1. Spec => [](HeadsAreRecorded /\ ClocksFollowParents)
    BY HistorySound
  <1> QED
    BY <1>1, PTL

-----------------------------------------------------------------------------
(* Heads and snapshots keep their versions, under every retention setting *)

\* Tables that lose no version and whose heads all have theirs.
KeepsVersions(st) ==
  /\ DOMAIN versions \subseteq DOMAIN st.versions
  /\ \A p \in DOMAIN st.files : st.files[p].version \in DOMAIN st.versions

\* Advancing a head records the version it names.
LEMMA AdvanceKept ==
  ASSUME PinnedVersionsKept, NEW c, NEW clock, NEW gone, NEW from, NEW now
  PROVE  KeepsVersions(Advance(files, versions, c, clock, gone, from, now))
  <1> DEFINE row  == WinningRow(versions, c, clock)
             kept == [p \in DOMAIN files \ gone |-> files[p]]
             f    == MapSet(kept, c.path, row)
             v    == MapSet(versions, row.version,
                            VersionOf(c.path, row, c.parent, now))
  <1>1. \A p \in DOMAIN files : files[p].version \in DOMAIN versions
    BY DEF PinnedVersionsKept, Pinned
  <1>2. DOMAIN v = DOMAIN versions \cup {row.version}
    BY DEF MapSet
  <1>3. /\ DOMAIN f = DOMAIN kept \cup {c.path} /\ f[c.path] = row
        /\ \A x \in DOMAIN kept : x # c.path => f[x] = kept[x]
    <2> HIDE DEF row, kept
    <2> QED
      BY DEF MapSet
  <1>4. DOMAIN kept \subseteq DOMAIN files /\ \A x \in DOMAIN kept : kept[x] = files[x]
    OBVIOUS
  <1>5. ASSUME NEW p \in DOMAIN f PROVE f[p].version \in DOMAIN v
    <2> HIDE DEF f, v, row, kept
    <2> QED
      BY <1>1, <1>2, <1>3, <1>4
  <1> QED
    BY <1>2, <1>5 DEF Advance, Tables, KeepsVersions

\* So does preserving a loser.
LEMMA PreserveLoserKept ==
  ASSUME NEW con, KeepsVersions(con.st), NEW c, NEW anc, NEW now
  PROVE  KeepsVersions(PreserveLoser(con, c, anc, now))
  <1> DEFINE path == ConflictCopyPath(con.st.files, c.path, con.loser.clock.dev)
             id   == MintId(con.st.versions)
             row  == CopyRow(id, con.loser, con.winner)
             ver  == VersionOf(path, row, con.winner.version, now)
  <1>1. CASE ~NeedsCopy(con.loser, con.winner.hash, anc)
    BY <1>1 DEF PreserveLoser
  <1>2. CASE NeedsCopy(con.loser, con.winner.hash, anc)
    <2>1. row.version = id
      BY DEF CopyRow
    <2> DEFINE f == MapSet(con.st.files, path, row)
               v == MapSet(con.st.versions, id, ver)
    <2>2. PreserveLoser(con, c, anc, now).files = f
          /\ PreserveLoser(con, c, anc, now).versions = v
      BY <1>2 DEF PreserveLoser, Tables
    <2> HIDE DEF path, id, row, ver
    <2>3. DOMAIN v = DOMAIN con.st.versions \cup {id}
      BY MapSetFacts
    <2>4. ASSUME NEW p \in DOMAIN f PROVE f[p].version \in DOMAIN v
      BY <2>1, <2>3 DEF MapSet, KeepsVersions
    <2> HIDE DEF f, v
    <2> QED
      BY <2>2, <2>3, <2>4 DEF KeepsVersions
  <1> QED
    BY <1>1, <1>2

\* Persisting such tables, whole or in part, keeps every pinned version.
LEMMA PersistKept ==
  ASSUME PinnedVersionsKept, NEW st, KeepsVersions(st), NEW changes,
         files' = PersistedFiles(st.files, changes),
         versions' = PersistedVersions(st.versions),
         snapshots' = snapshots
  PROVE  PinnedVersionsKept'
  <1>1. DOMAIN versions' = DOMAIN st.versions /\ DOMAIN versions \subseteq DOMAIN versions'
    BY DEF PersistedVersions, KeepsVersions
  <1>2. ASSUME NEW p \in DOMAIN files' PROVE files'[p].version \in DOMAIN versions'
    <2>1. p \in DOMAIN st.files /\ files'[p] = PersistedRow(p, st.files[p])
      BY DEF PersistedFiles
    <2>2. st.files[p].version \in DOMAIN versions'
      BY <1>1, <2>1 DEF KeepsVersions
    <2> QED
      BY <2>1, <2>2 DEF PersistedRow
  <1>3. \A k \in DOMAIN snapshots :
          SnapshotPins(snapshots[k]) \subseteq DOMAIN versions'
    BY <1>1 DEF PinnedVersionsKept, Pinned
  <1>4. ASSUME NEW x \in Pinned' PROVE x \in DOMAIN versions'
    BY <1>2, <1>3 DEF Pinned, SnapshotPins
  <1> QED
    BY <1>4 DEF PinnedVersionsKept

\* A commit keeps them.
LEMMA HandleCommitKept ==
  ASSUME PinnedVersionsKept, NEW c, NEW d, HandleCommit(d, c)
  PROVE  PinnedVersionsKept'
  <1> DEFINE now == seq + 1
             anc == AncestorHashes(versions, c)
  <1>1. ASSUME NEW st, KeepsVersions(st), Persist(st, FoundInBucket(c)) \/ PersistOnly(st)
        PROVE  PinnedVersionsKept'
    BY <1>1, PersistKept DEF Persist, PersistOnly
  <1>2. /\ KeepsVersions(ApplyFastPath(files, versions, c, d, now))
        /\ KeepsVersions(ApplyMigration(files, versions, c, d, now))
        /\ KeepsVersions(MoveContest(files, versions, c, d, now).st)
        /\ KeepsVersions(DisplaceContest(files, versions, c, d, now).st)
    BY AdvanceKept
       DEF ApplyFastPath, ApplyMigration, MoveContest, DisplaceContest, Contest
  <1>3. /\ KeepsVersions(StandingHead(files, versions, c, d))
        /\ KeepsVersions(LoseContest(files, versions, c, d).st)
    BY DEF StandingHead, LoseContest, Contest, Tables, KeepsVersions,
           PinnedVersionsKept, Pinned
  <1>4. ASSUME NEW con, KeepsVersions(con.st), CommitContest(c, con) \/ TornContest(c, con)
        PROVE  PinnedVersionsKept'
    <2>1. KeepsVersions(PreserveLoser(con, c, anc, now))
      BY <1>4, PreserveLoserKept
    <2> QED
      BY <1>1, <1>4, <2>1 DEF CommitContest, TornContest
  <1>5. CASE CommitFastPath(d, c) \/ CommitMove(d, c) \/ CommitMoveLoses(d, c)
    BY <1>1, <1>2, <1>3, <1>5 DEF CommitFastPath, CommitMove, CommitMoveLoses
  <1>6. CASE CommitMoveOver(d, c) \/ CommitDisplace(d, c) \/ CommitLoses(d, c)
    BY <1>2, <1>3, <1>4, <1>6 DEF CommitMoveOver, CommitDisplace, CommitLoses
  <1>7. CASE CommitTorn(d, c)
    BY <1>1, <1>2, <1>3, <1>4, <1>7 DEF CommitTorn
  <1>8. CASE CommitRefused(d, c)
    BY <1>8 DEF CommitRefused, tables, PinnedVersionsKept, Pinned
  <1> QED
    BY <1>5, <1>6, <1>7, <1>8 DEF HandleCommit, AcceptCommit

\* A restore keeps them, whole or broken off.
LEMMA RestoreKept ==
  ASSUME PinnedVersionsKept, NEW d, NEW k \in DOMAIN snapshots,
         SnapshotRestore(d, k) \/ SnapshotRestoreTorn(d, k)
  PROVE  PinnedVersionsKept'
  <1> DEFINE n        == Cardinality(DOMAIN versions)
             st(plan) == RestoredTables(snapshots[k], plan, n, d)
  <1>1. ASSUME NEW plan PROVE KeepsVersions(st(plan))
    <2> DEFINE row(i) == RestoredRow(snapshots[k], plan, n, i, d)
               at(p)  == CHOOSE i \in DOMAIN plan : plan[i] = p
    <2>1. DOMAIN st(plan).versions = DOMAIN versions \cup {n + i : i \in DOMAIN plan}
      BY DEF RestoredTables, Tables
    <2>2. ASSUME NEW p \in DOMAIN st(plan).files
          PROVE  st(plan).files[p] =
                   IF \E i \in DOMAIN plan : plan[i] = p
                   THEN row(at(p)) ELSE files[p]
      BY DEF RestoredTables, Tables
    <2>3. DOMAIN st(plan).files = DOMAIN files \cup {plan[i] : i \in DOMAIN plan}
      BY DEF RestoredTables, Tables
    <2>4. \A i \in DOMAIN plan : row(i).version = n + i
      BY DEF RestoredRow, HeadRow
    <2>5. \A p \in DOMAIN files : files[p].version \in DOMAIN versions
      BY DEF PinnedVersionsKept, Pinned
    <2> HIDE DEF st, row, n
    <2>6. ASSUME NEW p \in DOMAIN st(plan).files
          PROVE  st(plan).files[p].version \in DOMAIN st(plan).versions
      <3>1. CASE \E i \in DOMAIN plan : plan[i] = p
        <4>1. at(p) \in DOMAIN plan
          BY <3>1
        <4> HIDE DEF at
        <4> QED
          BY <2>1, <2>2, <2>4, <3>1, <4>1
      <3>2. CASE ~\E i \in DOMAIN plan : plan[i] = p
        BY <2>1, <2>2, <2>3, <2>5, <3>2
      <3> QED
        BY <3>1, <3>2
    <2> QED
      BY <2>1, <2>6 DEF KeepsVersions
  <1>2. PICK plan : Persist(st(plan), {}) \/ PersistOnly(st(plan))
    BY DEF SnapshotRestore, SnapshotRestoreTorn
  <1> HIDE DEF st
  <1> QED
    BY <1>1, <1>2, PersistKept DEF Persist, PersistOnly

\* The head records a snapshot takes of the files table.
Captured == [p \in DOMAIN files |->
               [version |-> files[p].version, hash |-> files[p].hash,
                deleted |-> files[p].deleted, isFolder |-> files[p].isFolder]]

\* A snapshot is added after the ones there are, which stay as they are.
LEMMA SnapshotAdded ==
  ASSUME TypeOK, SnapshotCreate, NEW k \in DOMAIN snapshots'
  PROVE  \/ snapshots'[k] = Captured
         \/ k \in DOMAIN snapshots /\ snapshots'[k] = snapshots[k]
  <1> DEFINE longer == Append(snapshots, Captured)
             n      == Len(snapshots)
  <1>1. snapshots' = longer
    BY DEF SnapshotCreate, Captured
  <1>2. /\ snapshots \in Seq(Snapshot \cup {Captured})
        /\ n \in Nat /\ DOMAIN snapshots = 1..n
    BY DEF TypeOK
  <1>3. /\ longer \in Seq(Snapshot \cup {Captured}) /\ Len(longer) = n + 1
    BY <1>2
  <1>4. /\ DOMAIN longer = 1..(n + 1) /\ longer[n + 1] = Captured
        /\ \A i \in 1..n : longer[i] = snapshots[i]
    BY <1>2, <1>3
  <1> HIDE DEF longer, n
  <1> QED
    BY <1>1, <1>2, <1>4

\* No run of retention, whatever its settings and its cutoff, no commit and no
\* restore takes away a version that a head or a snapshot points at.
THEOREM PinnedKept == Spec => []PinnedVersionsKept
  <1>1. Init => PinnedVersionsKept
    BY DEF Init, PinnedVersionsKept, Pinned, EmptyMap
  <1>2. TypeOK /\ PinnedVersionsKept /\ [Next]_vars => PinnedVersionsKept'
    <2>1. SUFFICES ASSUME TypeOK, PinnedVersionsKept, [Next]_vars
                   PROVE  PinnedVersionsKept'
      OBVIOUS
    <2>2. ASSUME NEW d \in Device, Commit(d) PROVE PinnedVersionsKept'
      BY <2>1, <2>2, CommitIsMessage, HandleCommitKept
    <2>3. CASE SnapshotCreate
      <3>1. files' = files /\ versions' = versions
        BY <2>3 DEF SnapshotCreate, tables
      <3>2. SnapshotPins(Captured) = {files[p].version : p \in DOMAIN files}
        BY DEF SnapshotPins, Captured
      <3>3. ASSUME NEW x \in Pinned' PROVE x \in Pinned
        BY <2>1, <2>3, <3>1, <3>2, SnapshotAdded DEF Pinned
      <3> QED
        BY <2>1, <3>1, <3>3 DEF PinnedVersionsKept
    <2>4. CASE RetentionRun
      <3>1. PICK cutoff :
              versions' = [id \in DOMAIN versions \ Doomed(cutoff) |-> versions[id]]
        BY <2>4 DEF RetentionRun
      <3>2. Doomed(cutoff) \cap Pinned = {}
        BY DEF Doomed
      <3>3. Pinned' = Pinned
        BY <2>4 DEF RetentionRun, Pinned
      <3> QED
        BY <2>1, <3>1, <3>2, <3>3 DEF PinnedVersionsKept
    <2>5. CASE \/ EventsPrune \/ GcPurge
               \/ \E h \in LargeHash : PutBlob(h) \/ BlobPut(h) \/ BlobUploaded(h)
               \/ \E h \in Hash : BucketDelete(h)
               \/ UNCHANGED vars
      <3>1. UNCHANGED <<files, versions, snapshots>>
        BY <2>5 DEF EventsPrune, GcPurge, PutBlob, BlobPut, BlobUploaded,
                    BucketDelete, vars, tables
      <3> QED
        BY <2>1, <3>1 DEF PinnedVersionsKept, Pinned
    <2> QED
      BY <2>1, <2>2, <2>3, <2>4, <2>5, RestoreKept DEF Next
  <1> QED
    BY <1>1, <1>2, TypeCorrect, PTL DEF Spec


-----------------------------------------------------------------------------
(* Heads only advance, under every setting *)

Advances(new, old) == new = old \/ Later(new.clock, old.clock)

\* Tables in which every head that stays has advanced, where "away" are the
\* paths a rename moved from.
Advanced(st, away) ==
  /\ DOMAIN files \subseteq DOMAIN st.files \cup away
  /\ \A p \in (DOMAIN files \cap DOMAIN st.files) \ away :
       Advances(st.files[p], files[p])

\* The next counter is later than the one it follows, whoever writes it.
LEMMA NextClockLater ==
  ASSUME NEW clock \in Clock, NEW d \in Device
  PROVE  Later(NextClock(clock.counter, d), clock)
  BY DEF Later, NextClock, Clock

\* A verdict's head has advanced when its clock is later than the one it
\* replaces.
LEMMA AdvanceAdvanced ==
  ASSUME NEW c, NEW clock, NEW gone, NEW from, NEW now,
         c.path \in DOMAIN files \ gone => Later(clock, files[c.path].clock)
  PROVE  Advanced(Advance(files, versions, c, clock, gone, from, now), gone)
  <1> DEFINE row  == WinningRow(versions, c, clock)
             kept == [p \in DOMAIN files \ gone |-> files[p]]
             f    == MapSet(kept, c.path, row)
  <1>1. row.clock = clock
    BY DEF WinningRow, HeadRow
  <1>2. /\ DOMAIN f = (DOMAIN files \ gone) \cup {c.path}
        /\ f[c.path] = row
        /\ \A p \in DOMAIN files \ gone : p # c.path => f[p] = files[p]
    <2> HIDE DEF row
    <2> QED
      BY DEF MapSet
  <1>3. Advance(files, versions, c, clock, gone, from, now).files = f
    BY DEF Advance, Tables
  <1> HIDE DEF f, row, kept
  <1> QED
    BY <1>1, <1>2, <1>3 DEF Advanced, Advances

\* A conflict copy takes a name no row holds, or the name a rename left.
LEMMA PreserveLoserAdvanced ==
  ASSUME NEW con, NEW away, Advanced(con.st, away), con.loser.clock \in Clock,
         NEW c \in CommitMsg, NEW anc, NEW now, ~CopyBlocked(con, c, anc)
  PROVE  Advanced(PreserveLoser(con, c, anc, now), away)
  <1> DEFINE path == ConflictCopyPath(con.st.files, c.path, con.loser.clock.dev)
             row  == CopyRow(MintId(con.st.versions), con.loser, con.winner)
             f    == MapSet(con.st.files, path, row)
  <1>1. CASE ~NeedsCopy(con.loser, con.winner.hash, anc)
    BY <1>1 DEF PreserveLoser
  <1>2. CASE NeedsCopy(con.loser, con.winner.hash, anc)
    <2>1. path \notin DOMAIN con.st.files
      BY <1>2, ConflictCopyPathFacts DEF CopyBlocked, CommitMsg, Clock
    <2>2. PreserveLoser(con, c, anc, now).files = f
      BY <1>2 DEF PreserveLoser, Tables
    <2> HIDE DEF path, row
    <2>3. /\ DOMAIN f = DOMAIN con.st.files \cup {path}
          /\ \A p \in DOMAIN con.st.files : f[p] = con.st.files[p]
      BY <2>1 DEF MapSet
    <2> HIDE DEF f
    <2> QED
      BY <2>1, <2>2, <2>3 DEF Advanced
  <1> QED
    BY <1>1, <1>2

\* What a contest announces first, it still announces with the loser's copy.
LEMMA PreserveLoserAnnounces ==
  ASSUME NEW con, con.st.changes \in Seq(Change), NEW c, NEW anc, NEW now,
         PreserveLoser(con, c, anc, now).changes \in Seq(Change)
  PROVE  RenamedAway(con.st.changes)
           \subseteq RenamedAway(PreserveLoser(con, c, anc, now).changes)
  <1> DEFINE old == con.st.changes
             new == PreserveLoser(con, c, anc, now).changes
  <1>1. \A i \in DOMAIN old : i \in DOMAIN new /\ new[i] = old[i]
    <2>1. CASE NeedsCopy(con.loser, con.winner.hash, anc)
      <3>1. PICK e : new = Append(old, e)
        BY <2>1 DEF PreserveLoser, Tables
      <3>2. old \in Seq(Change \cup {e})
        OBVIOUS
      <3>3. /\ Append(old, e) \in Seq(Change \cup {e})
            /\ Len(Append(old, e)) = Len(old) + 1
        BY <3>2
      <3> HIDE DEF old, new
      <3> QED
        BY <3>1, <3>2, <3>3
    <2>2. CASE ~NeedsCopy(con.loser, con.winner.hash, anc)
      BY <2>2 DEF PreserveLoser
    <2> QED
      BY <2>1, <2>2
  <1> HIDE DEF old, new
  <1>2. RenamedAway(old) \subseteq RenamedAway(new)
    BY <1>1 DEF RenamedAway
  <1> QED
    BY <1>2 DEF old, new


\* The step of HeadClocksAdvance.
HeadsAdvance ==
  \A p \in DOMAIN files \cap DOMAIN files' :
    files'[p] # files[p] => Later(files'[p].clock, files[p].clock)

\* Persisting such tables, when what was moved away is announced.
LEMMA PersistAdvanced ==
  ASSUME NEW st, NEW away, Advanced(st, away), NEW changes,
         away \subseteq RenamedAway(changes),
         files' = PersistedFiles(st.files, changes)
  PROVE  HeadsAdvance
  <1>1. ASSUME NEW p \in DOMAIN files \cap DOMAIN files'
        PROVE  Advances(files'[p], files[p])
    <2>1. /\ p \in DOMAIN st.files /\ p \notin away
          /\ files'[p] = PersistedRow(p, st.files[p])
      BY DEF PersistedFiles
    <2>2. Advances(st.files[p], files[p])
      BY <2>1 DEF Advanced
    <2> QED
      BY <2>1, <2>2 DEF PersistedRow, Advances
  <1> QED
    BY <1>1 DEF HeadsAdvance, Advances

\* The rename an advance announces takes its source out of the table.
LEMMA AdvanceAnnounces ==
  ASSUME NEW f, NEW v, NEW c, c.kind = "rename", NEW clock, NEW gone, NEW now
  PROVE  {c.from} \subseteq
           RenamedAway(Advance(f, v, c, clock, gone, c.from, now).changes)
  <1> DEFINE e  == PayloadOf(c.path, WinningRow(v, c, clock), c.from)
             ch == Advance(f, v, c, clock, gone, c.from, now).changes
  <1>1. e.kind = "rename" /\ e.from = c.from
    BY DEF PayloadOf, WinningRow, HeadRow
  <1>2. ch = <<e>>
    BY DEF Advance, Tables
  <1> HIDE DEF e, ch
  <1>3. 1 \in DOMAIN ch /\ ch[1] = e
    BY <1>2
  <1>4. c.from \in RenamedAway(ch)
    BY <1>1, <1>3 DEF RenamedAway
  <1> QED
    BY <1>4 DEF ch

\* A commit, on whichever branch, only advances the heads that stay.
LEMMA HandleCommitAdvances ==
  ASSUME TypeOK, NEW c \in CommitMsg, NEW d \in Device, HandleCommit(d, c)
  PROVE  HeadsAdvance
  <1> DEFINE now   == seq + 1
             anc   == AncestorHashes(versions, c)
             fast  == ApplyFastPath(files, versions, c, d, now)
             move  == ApplyMigration(files, versions, c, d, now)
             over  == MoveContest(files, versions, c, d, now)
             disp  == DisplaceContest(files, versions, c, d, now)
             lose  == LoseContest(files, versions, c, d)
             stand == StandingHead(files, versions, c, d)
             gone  == IF c.kind = "rename" THEN {c.from} ELSE {}
  <1>1. \A p \in DOMAIN files :
          files[p].clock \in Clock /\ Later(NextClock(files[p].clock.counter, d),
                                            files[p].clock)
    BY NextClockLater DEF TypeOK, Row
  <1>2. ASSUME NEW st, NEW away, Advanced(st, away),
               \/ Persist(st, FoundInBucket(c)) /\ away \subseteq RenamedAway(st.changes)
               \/ PersistOnly(st) /\ away = {}
        PROVE  HeadsAdvance
    BY <1>2, PersistAdvanced DEF Persist, PersistOnly
  <1>3. ASSUME NEW con, ContestOK(con), NEW away, Advanced(con.st, away),
               \/ CommitContest(c, con) /\ away \subseteq RenamedAway(con.st.changes)
               \/ TornContest(c, con) /\ away = {}
        PROVE  HeadsAdvance
    <2> DEFINE st == PreserveLoser(con, c, anc, now)
    <2>1. ~CopyBlocked(con, c, anc) /\ now \in Nat
      BY <1>3 DEF CommitContest, TornContest, TypeOK
    <2>2. Advanced(st, away)
      BY <1>3, <2>1, PreserveLoserAdvanced DEF ContestOK
    <2>3. st.changes \in Seq(Change)
      BY <1>3, <2>1, PreserveLoserOK DEF ContestOK, TablesOK
    <2>4. RenamedAway(con.st.changes) \subseteq RenamedAway(st.changes)
      BY <1>3, <2>3, PreserveLoserAnnounces DEF ContestOK, TablesOK
    <2>5. \/ Persist(st, FoundInBucket(c)) /\ away \subseteq RenamedAway(st.changes)
          \/ PersistOnly(st) /\ away = {}
      BY <1>3, <2>4 DEF CommitContest, TornContest
    <2> HIDE DEF st
    <2> QED
      BY <1>2, <2>2, <2>5
  <1>4. IsFastPath(files, c) => Advanced(fast, {})
    BY <1>1, AdvanceAdvanced DEF ApplyFastPath, IsFastPath, FastPathCounter
  <1>5. MoveIsFree(files, c) \/ MoveWins(files, c, d) =>
          /\ Advanced(move, {c.from}) /\ {c.from} \subseteq RenamedAway(move.changes)
          /\ over.st = move
    BY AdvanceAdvanced, AdvanceAnnounces
       DEF ApplyMigration, MoveIsFree, MoveWins, MovesHead, MoveContest, Contest
  <1>6. IncomingWins(files, versions, c, d) =>
          Advanced(disp.st, gone) /\ gone \subseteq RenamedAway(disp.st.changes)
    BY AdvanceAdvanced, AdvanceAnnounces
       DEF IncomingWins, DisplaceContest, Contest
  <1>7. Advanced(stand, {}) /\ Advanced(lose.st, {})
    BY DEF StandingHead, LoseContest, Contest, Tables, Advanced, Advances
  <1> HIDE DEF now, anc, fast, move, over, disp, lose, stand
  <1>8. ~UnknownParent(versions, c) =>
          /\ MoveWins(files, c, d) => ContestOK(over)
          /\ IncomingWins(files, versions, c, d) => ContestOK(disp)
          /\ HeadWins(files, versions, c, d) => ContestOK(lose)
    BY VerdictsOK DEF MoveWins, MovesHead, IncomingWins, HeadWins, IsConflict,
                      over, disp, lose, now
  <1>9. CASE CommitFastPath(d, c)
    BY <1>2, <1>4, <1>9 DEF CommitFastPath, fast, now
  <1>10. CASE CommitMove(d, c)
    BY <1>2, <1>5, <1>10 DEF CommitMove, move, now
  <1>11. CASE CommitMoveOver(d, c)
    BY <1>3, <1>5, <1>8, <1>11 DEF CommitMoveOver, Admitted, over, now
  <1>12. CASE CommitDisplace(d, c)
    BY <1>3, <1>6, <1>8, <1>12 DEF CommitDisplace, Admitted, disp, now
  <1>13. CASE CommitLoses(d, c)
    BY <1>3, <1>7, <1>8, <1>13 DEF CommitLoses, Admitted, lose
  <1>14. CASE CommitMoveLoses(d, c)
    BY <1>2, <1>7, <1>14 DEF CommitMoveLoses, stand
  <1>15. CASE CommitTorn(d, c)
    <2>1. gone = {} /\ ~UnknownParent(versions, c)
      BY <1>15 DEF CommitTorn, IsInline, Admitted
    <2>2. \/ IsFastPath(files, c) /\ PersistOnly(fast)
          \/ IncomingWins(files, versions, c, d) /\ TornContest(c, disp)
          \/ HeadWins(files, versions, c, d) /\ TornContest(c, lose)
      BY <1>15 DEF CommitTorn, fast, disp, lose, now
    <2> HIDE DEF gone
    <2> QED
      BY <1>2, <1>3, <1>4, <1>6, <1>7, <1>8, <2>1, <2>2
  <1>16. CASE CommitRefused(d, c)
    BY <1>16 DEF CommitRefused, tables, HeadsAdvance
  <1> QED
    BY <1>9, <1>10, <1>11, <1>12, <1>13, <1>14, <1>15, <1>16 DEF HandleCommit, AcceptCommit

\* A restore advances every head it replaces, whole or broken off.
LEMMA RestoreAdvances ==
  ASSUME TypeOK, NEW d \in Device, NEW k \in DOMAIN snapshots,
         SnapshotRestore(d, k) \/ SnapshotRestoreTorn(d, k)
  PROVE  HeadsAdvance
  <1> DEFINE heads    == snapshots[k]
             n        == Cardinality(DOMAIN versions)
             st(plan) == RestoredTables(heads, plan, n, d)
  <1>1. ASSUME NEW plan PROVE Advanced(st(plan), {})
    <2> DEFINE row(i) == RestoredRow(heads, plan, n, i, d)
               at(p)  == CHOOSE i \in DOMAIN plan : plan[i] = p
    <2>1. /\ DOMAIN files \subseteq DOMAIN st(plan).files
          /\ \A p \in DOMAIN st(plan).files :
               st(plan).files[p] = IF \E i \in DOMAIN plan : plan[i] = p
                                   THEN row(at(p)) ELSE files[p]
      BY DEF RestoredTables, Tables
    <2>2. ASSUME NEW i, plan[i] \in DOMAIN files
          PROVE  Later(row(i).clock, files[plan[i]].clock)
      <3>1. row(i).clock = NextClock(files[plan[i]].clock.counter, d)
        BY <2>2 DEF RestoredRow, HeadRow, FastPathCounter, RestoreCommit
      <3>2. files[plan[i]].clock \in Clock
        BY <2>2 DEF TypeOK, Row
      <3> HIDE DEF row
      <3> QED
        BY <3>1, <3>2, NextClockLater
    <2> HIDE DEF st, row
    <2>3. ASSUME NEW p \in DOMAIN files
          PROVE  Advances(st(plan).files[p], files[p])
      <3>1. CASE \E i \in DOMAIN plan : plan[i] = p
        <4>1. plan[at(p)] = p
          BY <3>1
        <4> HIDE DEF at
        <4> QED
          BY <2>1, <2>2, <3>1, <4>1 DEF Advances
      <3>2. CASE ~\E i \in DOMAIN plan : plan[i] = p
        BY <2>1, <3>2 DEF Advances
      <3> QED
        BY <3>1, <3>2
    <2> QED
      BY <2>1, <2>3 DEF Advanced
  <1>2. PICK plan : Persist(st(plan), {}) \/ PersistOnly(st(plan))
    BY DEF SnapshotRestore, SnapshotRestoreTorn
  <1> HIDE DEF st
  <1> QED
    BY <1>1, <1>2, PersistAdvanced DEF Persist, PersistOnly

\* While a path keeps its row, its head is only ever replaced by one with a
\* later clock: by commits on every branch, moves, conflict copies and restores,
\* whole or broken off, under every setting.
THEOREM HeadsOnlyAdvance == Spec => HeadClocksAdvance
  <1>1. TypeOK /\ [Next]_vars => [HeadsAdvance]_vars
    <2>1. SUFFICES ASSUME TypeOK, Next PROVE HeadsAdvance
      OBVIOUS
    <2>2. ASSUME NEW d \in Device, Commit(d) PROVE HeadsAdvance
      BY <2>1, <2>2, CommitIsMessage, HandleCommitAdvances
    <2>3. CASE \/ SnapshotCreate \/ EventsPrune \/ RetentionRun \/ GcPurge
               \/ \E h \in LargeHash : PutBlob(h) \/ BlobPut(h) \/ BlobUploaded(h)
               \/ \E h \in Hash : BucketDelete(h)
      <3>1. files' = files
        BY <2>3 DEF SnapshotCreate, EventsPrune, RetentionRun, GcPurge, PutBlob,
                    BlobPut, BlobUploaded, BucketDelete, tables
      <3> QED
        BY <3>1 DEF HeadsAdvance
    <2> QED
      BY <2>1, <2>2, <2>3, RestoreAdvances DEF Next
  <1>2. HeadClocksAdvance <=> [][HeadsAdvance]_vars
    BY PTL DEF HeadClocksAdvance, HeadsAdvance
  <1> QED
    BY <1>1, <1>2, TypeCorrect, PTL DEF Spec


=============================================================================
