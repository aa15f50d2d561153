------------------------- MODULE VaultRoomGuarantees -------------------------
(***************************************************************************)
(* What the room's tables promise one another, for every vault, device set  *)
(* and history: reference counts, the change log, stored content, restores, *)
(* commits sent again and the heads that commits replace.                   *)
(***************************************************************************)
EXTENDS VaultRoomProofs

\* Handlers run to their end: no put into R2 fails and no restore finds an id
\* taken (that takes a gap, which only retention leaves).
HandlersComplete == ~PutFailures /\ (RetentionOff \/ MaxSnapshots = 0)

-----------------------------------------------------------------------------
(* Verdicts: what a handler persists *)

\* Every change announces the row that is now at its path, and every row that
\* no change announces is one that was there.
Announcing(st) ==
  /\ \A i \in DOMAIN st.changes :
       /\ st.changes[i].path \in DOMAIN st.files
       /\ st.files[st.changes[i].path].version = st.changes[i].version
  /\ \A p \in DOMAIN st.files :
       \/ \E i \in DOMAIN st.changes : st.changes[i].path = p
       \/ p \in DOMAIN files /\ st.files[p] = files[p]

KnownHashes == {versions[id].hash : id \in DOMAIN versions}
                 \cup {files[p].hash : p \in DOMAIN files}

\* No row and no version names a content that is neither known nor in S.
DrawnFrom(st, S) ==
  /\ \A id \in DOMAIN st.versions : st.versions[id].hash \in KnownHashes \cup S
  /\ \A p \in DOMAIN st.files : st.files[p].hash \in KnownHashes \cup S

Verdict(st, S) == TablesOK(st) /\ Announcing(st) /\ DrawnFrom(st, S)

\* A new head is announced; its content is the commit's.
LEMMA AdvanceVerdict ==
  ASSUME NEW c, NEW clock, NEW gone, NEW from, NEW now
  PROVE  LET st == Advance(files, versions, c, clock, gone, from, now)
         IN  Announcing(st) /\ DrawnFrom(st, {c.hash})
  <1> DEFINE row  == WinningRow(versions, c, clock)
             kept == [p \in DOMAIN files \ gone |-> files[p]]
             ver  == VersionOf(c.path, row, c.parent, now)
             e    == PayloadOf(c.path, row, from)
             f    == MapSet(kept, c.path, row)
             v    == MapSet(versions, row.version, ver)
             st   == Advance(files, versions, c, clock, gone, from, now)
  <1>1. st.files = f /\ st.versions = v /\ st.changes = <<e>>
    BY DEF Advance, Tables
  <1>2. /\ row.hash = c.hash /\ ver.hash = c.hash
        /\ e.path = c.path /\ e.version = row.version
    BY DEF WinningRow, HeadRow, VersionOf, PayloadOf
  <1>3. /\ DOMAIN f = (DOMAIN files \ gone) \cup {c.path} /\ f[c.path] = row
        /\ \A p \in DOMAIN files \ gone : p # c.path => f[p] = files[p]
    <2> HIDE DEF row
    <2> QED
      BY DEF MapSet
  <1>4. /\ DOMAIN v = DOMAIN versions \cup {row.version} /\ v[row.version] = ver
        /\ \A id \in DOMAIN versions : id # row.version => v[id] = versions[id]
    <2> HIDE DEF row, ver
    <2> QED
      BY DEF MapSet
  <1> HIDE DEF row, ver, e, f, v, st
  <1>5. DOMAIN st.changes = {1} /\ st.changes[1] = e
    BY <1>1
  <1>6. Announcing(st)
    BY <1>1, <1>2, <1>3, <1>5 DEF Announcing
  <1>7. DrawnFrom(st, {c.hash})
    BY <1>1, <1>2, <1>3, <1>4 DEF DrawnFrom, KnownHashes
  <1> QED
    BY <1>6, <1>7 DEF st

\* So is the copy of a loser, under a name no announced row has.
LEMMA PreserveLoserVerdict ==
  ASSUME NEW con, ContestOK(con), NEW S, Announcing(con.st), DrawnFrom(con.st, S),
         con.loser.hash \in KnownHashes \cup S, NEW c \in CommitMsg, NEW anc,
         NEW now \in Nat, ~CopyBlocked(con, c, anc)
  PROVE  Verdict(PreserveLoser(con, c, anc, now), S)
  <1> DEFINE st   == PreserveLoser(con, c, anc, now)
             path == ConflictCopyPath(con.st.files, c.path, con.loser.clock.dev)
             id   == MintId(con.st.versions)
             row  == CopyRow(id, con.loser, con.winner)
             ver  == VersionOf(path, row, con.winner.version, now)
             e    == PayloadOf(path, row, NoPath)
             f    == MapSet(con.st.files, path, row)
             v    == MapSet(con.st.versions, id, ver)
  <1>1. TablesOK(st)
    BY PreserveLoserOK DEF ContestOK
  <1>2. CASE ~NeedsCopy(con.loser, con.winner.hash, anc)
    BY <1>1, <1>2 DEF PreserveLoser, Verdict
  <1>3. CASE NeedsCopy(con.loser, con.winner.hash, anc)
    <2>1. st.files = f /\ st.versions = v /\ st.changes = Append(con.st.changes, e)
      BY <1>3 DEF PreserveLoser, Tables
    <2>2. path \notin DOMAIN con.st.files
      BY <1>3, ConflictCopyPathFacts DEF CopyBlocked, ContestOK, CommitMsg, Clock
    <2>3. /\ row.hash = con.loser.hash /\ ver.hash = con.loser.hash
          /\ e.path = path /\ e.version = row.version
      BY DEF CopyRow, VersionOf, PayloadOf
    <2> HIDE DEF path, id, row, ver, e
    <2>4. /\ DOMAIN f = DOMAIN con.st.files \cup {path} /\ f[path] = row
          /\ \A p \in DOMAIN con.st.files : f[p] = con.st.files[p]
      BY <2>2 DEF MapSet
    <2>5. /\ DOMAIN v = DOMAIN con.st.versions \cup {id} /\ v[id] = ver
          /\ \A j \in DOMAIN con.st.versions : j # id => v[j] = con.st.versions[j]
      BY DEF MapSet
    <2> HIDE DEF f, v, st
    <2>6. /\ con.st.changes \in Seq(Change \cup {e}) /\ e \in Change \cup {e}
      BY DEF ContestOK, TablesOK
    <2> DEFINE old == con.st.changes
               n   == Len(old)
    <2>7. /\ n \in Nat /\ DOMAIN old = 1..n /\ DOMAIN st.changes = 1..(n + 1)
          /\ st.changes[n + 1] = e /\ \A i \in 1..n : st.changes[i] = old[i]
      <3>1. Len(Append(old, e)) = n + 1 /\ Append(old, e) \in Seq(Change \cup {e})
        BY <2>6
      <3> QED
        BY <2>1, <2>6, <3>1
    <2>8. Announcing(st)
      <3>1. ASSUME NEW i \in DOMAIN st.changes
            PROVE  /\ st.changes[i].path \in DOMAIN f
                   /\ f[st.changes[i].path].version = st.changes[i].version
        <4>1. CASE i = n + 1
          BY <2>3, <2>4, <2>7, <4>1
        <4>2. CASE i \in 1..n
          <5>1. /\ old[i].path \in DOMAIN con.st.files
                /\ con.st.files[old[i].path].version = old[i].version
            BY <2>7, <4>2 DEF Announcing
          <5> QED
            BY <2>4, <2>7, <4>2, <5>1
        <4> QED
          BY <2>7, <4>1, <4>2
      <3>2. ASSUME NEW p \in DOMAIN f
            PROVE  \/ \E i \in DOMAIN st.changes : st.changes[i].path = p
                   \/ p \in DOMAIN files /\ f[p] = files[p]
        <4>1. CASE p = path
          BY <2>3, <2>7, <4>1
        <4>2. CASE p \in DOMAIN con.st.files
          <5>1. \/ \E i \in DOMAIN old : old[i].path = p
                \/ p \in DOMAIN files /\ con.st.files[p] = files[p]
            BY <4>2 DEF Announcing
          <5>2. \A i \in DOMAIN old : i \in DOMAIN st.changes /\ st.changes[i] = old[i]
            BY <2>7
          <5> HIDE DEF old
          <5> QED
            BY <2>4, <4>2, <5>1, <5>2
        <4> QED
          BY <2>4, <4>1, <4>2
      <3> QED
        BY <2>1, <3>1, <3>2 DEF Announcing
    <2>9. DrawnFrom(st, S)
      BY <2>1, <2>3, <2>4, <2>5 DEF DrawnFrom
    <2> QED
      BY <1>1, <2>8, <2>9 DEF Verdict, st
  <1> QED
    BY <1>2, <1>3

\* A commit that does not break off persists a verdict drawn from its content,
\* or is refused.
LEMMA CommitPersists ==
  ASSUME TypeOK, ~PutFailures, NEW c \in CommitMsg, NEW d \in Device,
         HandleCommit(d, c)
  PROVE  \/ \E st : /\ Verdict(st, {c.hash})
                    /\ Admitted(c)
                    /\ Persist(st, FoundInBucket(c))
                    /\ StoreInline(c)
         \/ CommitRefused(d, c)
  <1> DEFINE now   == seq + 1
             anc   == AncestorHashes(versions, c)
             fast  == ApplyFastPath(files, versions, c, d, now)
             move  == ApplyMigration(files, versions, c, d, now)
             over  == MoveContest(files, versions, c, d, now)
             disp  == DisplaceContest(files, versions, c, d, now)
             lose  == LoseContest(files, versions, c, d)
             stand == StandingHead(files, versions, c, d)
             Done(st) == Persist(st, FoundInBucket(c)) /\ StoreInline(c)
             Goal  == \E st : Verdict(st, {c.hash}) /\ Admitted(c) /\ Done(st)
             Drawn(st) == Announcing(st) /\ DrawnFrom(st, {c.hash})
             Fair(con) == Drawn(con.st) /\ con.loser.hash \in KnownHashes \cup {c.hash}
  <1> SUFFICES Goal \/ CommitRefused(d, c)
    OBVIOUS
  <1>1. now \in Nat
    BY DEF TypeOK
  <1>2. Drawn(fast) /\ Drawn(move)
    BY AdvanceVerdict DEF ApplyFastPath, ApplyMigration
  <1>3. c.path \in DOMAIN files => files[c.path].hash \in KnownHashes
    BY DEF KnownHashes
  <1>4. c.path \in DOMAIN files => Fair(over) /\ Fair(disp)
    BY <1>3, AdvanceVerdict
       DEF MoveContest, DisplaceContest, ApplyMigration, Contest
  <1>5. c.path \in DOMAIN files => Drawn(stand)
    <2> DEFINE e == PayloadOf(c.path, files[c.path], NoPath)
    <2>1. e.path = c.path /\ e.version = files[c.path].version
      BY DEF PayloadOf
    <2>2. /\ stand.files = files /\ stand.versions = versions
          /\ stand.changes = <<e>> \/ stand.changes = <<>>
      BY DEF StandingHead, Tables
    <2> HIDE DEF e, stand
    <2>3. \A i \in DOMAIN stand.changes : stand.changes[i] = e
      BY <2>2
    <2> QED
      BY <2>1, <2>2, <2>3 DEF Announcing, DrawnFrom, KnownHashes
  <1>6. c.path \in DOMAIN files => Fair(lose)
    BY <1>5 DEF LoseContest, Contest, LosingRow, HeadRow
  <1> HIDE DEF now, anc, fast, move, over, disp, lose, stand, Drawn, Fair, Done,
              Goal
  <1>7. ~UnknownParent(versions, c) =>
          /\ TablesOK(fast)
          /\ MovesHead(files, c) => TablesOK(move)
          /\ MoveLoses(files, c, d) => TablesOK(stand)
          /\ MoveWins(files, c, d) => ContestOK(over)
          /\ IncomingWins(files, versions, c, d) => ContestOK(disp)
          /\ HeadWins(files, versions, c, d) => ContestOK(lose)
    BY VerdictsOK DEF MoveWins, MoveLoses, MovesHead, IncomingWins, HeadWins,
                      IsConflict, fast, move, stand, over, disp, lose, now
  <1>8. ASSUME NEW st, TablesOK(st), Drawn(st), Admitted(c), Done(st)
        PROVE  Goal
    BY <1>8 DEF Verdict, Drawn, Goal
  <1>9. ASSUME NEW con, ContestOK(con), Fair(con), Admitted(c), CommitContest(c, con)
        PROVE  Goal
    <2> DEFINE st == PreserveLoser(con, c, anc, now)
    <2>1. Verdict(st, {c.hash})
      BY <1>1, <1>9, PreserveLoserVerdict DEF Fair, Drawn, CommitContest, anc
    <2>2. Done(st)
      BY <1>9 DEF CommitContest, Done, anc, now
    <2> HIDE DEF st
    <2> QED
      BY <1>9, <2>1, <2>2 DEF Goal
  <1>10. CASE CommitFastPath(d, c)
    BY <1>2, <1>7, <1>8, <1>10 DEF CommitFastPath, Admitted, Done, fast, now
  <1>11. CASE CommitMove(d, c)
    BY <1>2, <1>7, <1>8, <1>11
       DEF CommitMove, MoveIsFree, Admitted, Done, move, now
  <1>12. CASE CommitMoveOver(d, c)
    <2>1. Admitted(c) /\ MoveWins(files, c, d) /\ CommitContest(c, over)
      BY <1>12 DEF CommitMoveOver, over, now
    <2>2. ContestOK(over) /\ Fair(over)
      BY <1>4, <1>7, <2>1 DEF MoveWins, Admitted
    <2> QED
      BY <1>9, <2>1, <2>2
  <1>13. CASE CommitDisplace(d, c)
    <2>1. /\ Admitted(c) /\ IncomingWins(files, versions, c, d)
          /\ CommitContest(c, disp)
      BY <1>13 DEF CommitDisplace, disp, now
    <2>2. ContestOK(disp) /\ Fair(disp)
      BY <1>4, <1>7, <2>1 DEF IncomingWins, IsConflict, Admitted
    <2> QED
      BY <1>9, <2>1, <2>2
  <1>14. CASE CommitLoses(d, c)
    <2>1. Admitted(c) /\ HeadWins(files, versions, c, d) /\ CommitContest(c, lose)
      BY <1>14 DEF CommitLoses, lose
    <2>2. ContestOK(lose) /\ Fair(lose)
      BY <1>6, <1>7, <2>1 DEF HeadWins, IsConflict, Admitted
    <2> QED
      BY <1>9, <2>1, <2>2
  <1>15. CASE CommitMoveLoses(d, c)
    BY <1>5, <1>7, <1>8, <1>15 DEF CommitMoveLoses, MoveLoses, Admitted, Done, stand
  <1>16. CASE CommitTorn(d, c)
    BY <1>16 DEF CommitTorn
  <1> QED
    BY <1>10, <1>11, <1>12, <1>13, <1>14, <1>15, <1>16 DEF HandleCommit, AcceptCommit

SnapshotHashes(heads) == {heads[p].hash : p \in DOMAIN heads}

\* The plan of a restore names each path once.
LEMMA PlanOnce ==
  ASSUME NEW paths, paths \subseteq Path, IsFiniteSet(paths), NEW plan \in Plans(paths)
  PROVE  \A i, j \in DOMAIN plan : plan[i] = plan[j] => i = j
  <1>1. /\ DOMAIN plan = 1..Cardinality(paths) /\ Cardinality(paths) \in Nat
        /\ \A i \in DOMAIN plan : plan[i] \in Path
        /\ \A i, j \in DOMAIN plan :
             i < j => PathOrder[plan[i]] < PathOrder[plan[j]]
    BY FS_CardinalityType DEF Plans
  <1>2. \A p \in Path : PathOrder[p] \in Nat
    BY RoomAssumption
  <1> QED
    BY <1>1, <1>2

\* A restore takes its contents from the snapshot and, for what it deletes,
\* from the heads.
LEMMA RestoreDrawn ==
  ASSUME TypeOK, NEW d \in Device, NEW k \in DOMAIN snapshots, NEW m \in Nat,
         NEW plan, DOMAIN plan = 1..m,
         \A i \in 1..m : plan[i] \in Diverged(snapshots[k])
  PROVE  DrawnFrom(RestoredTables(snapshots[k], plan,
                                  Cardinality(DOMAIN versions), d),
                   SnapshotHashes(snapshots[k]))
  <1> DEFINE heads  == snapshots[k]
             n      == Cardinality(DOMAIN versions)
             st     == RestoredTables(heads, plan, n, d)
             c(i)   == RestoreCommit(heads, plan[i])
             row(i) == RestoredRow(heads, plan, n, i, d)
             r(i)   == VersionOf(plan[i], row(i), c(i).parent, seq + 1)
             at(p)  == CHOOSE i \in 1..m : plan[i] = p
             S      == SnapshotHashes(heads)
  <1>1. n \in Nat
    BY FS_CardinalityType DEF TypeOK
  <1>2. /\ DOMAIN st.versions = DOMAIN versions \cup {n + i : i \in 1..m}
        /\ \A id \in DOMAIN st.versions :
             st.versions[id] = IF id \in DOMAIN versions THEN versions[id]
                               ELSE r(id - n)
    BY DEF RestoredTables, Tables
  <1>3. /\ DOMAIN st.files = DOMAIN files \cup {plan[i] : i \in 1..m}
        /\ \A p \in DOMAIN st.files :
             st.files[p] = IF \E i \in 1..m : plan[i] = p
                           THEN row(at(p)) ELSE files[p]
    BY DEF RestoredTables, Tables
  <1>4. ASSUME NEW i \in 1..m
        PROVE  row(i).hash \in KnownHashes \cup S /\ r(i).hash = row(i).hash
    <2>1. plan[i] \in DOMAIN heads \/ plan[i] \in DOMAIN files
      BY DEF Diverged
    <2>2. row(i).hash = IF plan[i] \notin DOMAIN heads THEN files[plan[i]].hash
                        ELSE heads[plan[i]].hash
      BY DEF RestoredRow, HeadRow, RestoreCommit
    <2>3. r(i).hash = row(i).hash
      BY DEF VersionOf
    <2> HIDE DEF heads, row, r
    <2> QED
      BY <2>1, <2>2, <2>3 DEF KnownHashes, SnapshotHashes
  <1> HIDE DEF st, row, r, n, S, c
  <1>5. ASSUME NEW id \in DOMAIN st.versions
        PROVE  st.versions[id].hash \in KnownHashes \cup S
    <2>1. CASE id \in DOMAIN versions
      BY <1>2, <2>1 DEF KnownHashes
    <2>2. CASE id \notin DOMAIN versions
      <3>1. PICK i \in 1..m : id = n + i
        BY <1>2, <2>2
      <3>2. id - n = i
        BY <1>1, <3>1
      <3> QED
        BY <1>2, <1>4, <2>2, <3>2
    <2> QED
      BY <2>1, <2>2
  <1>6. ASSUME NEW p \in DOMAIN st.files
        PROVE  st.files[p].hash \in KnownHashes \cup S
    <2>1. CASE \E i \in 1..m : plan[i] = p
      <3>1. at(p) \in 1..m
        BY <2>1
      <3> HIDE DEF at
      <3> QED
        BY <1>3, <1>4, <2>1, <3>1
    <2>2. CASE ~\E i \in 1..m : plan[i] = p
      BY <1>3, <2>2 DEF KnownHashes
    <2> QED
      BY <2>1, <2>2
  <1> QED
    BY <1>5, <1>6 DEF DrawnFrom, st, n, S

\* The row a whole plan puts at each path, and what it announces.
LEMMA RestoredFacts ==
  ASSUME TypeOK, NEW d \in Device, NEW k \in DOMAIN snapshots,
         NEW plan \in Plans(Diverged(snapshots[k]))
  PROVE  LET n  == Cardinality(DOMAIN versions)
             st == RestoredTables(snapshots[k], plan, n, d)
         IN  /\ Verdict(st, SnapshotHashes(snapshots[k]))
             /\ DOMAIN st.files = DOMAIN files \cup Diverged(snapshots[k])
             /\ \A p \in DOMAIN files \ Diverged(snapshots[k]) :
                  st.files[p] = files[p]
             /\ \A i \in DOMAIN plan :
                  st.files[plan[i]] = RestoredRow(snapshots[k], plan, n, i, d)
             /\ DOMAIN st.changes = DOMAIN plan
             /\ \A i \in DOMAIN plan :
                  st.changes[i] =
                    PayloadOf(plan[i], RestoredRow(snapshots[k], plan, n, i, d),
                              NoPath)
             /\ \A p \in Diverged(snapshots[k]) : \E i \in DOMAIN plan : plan[i] = p
  <1> DEFINE heads  == snapshots[k]
             paths  == Diverged(heads)
             n      == Cardinality(DOMAIN versions)
             st     == RestoredTables(heads, plan, n, d)
             row(i) == RestoredRow(heads, plan, n, i, d)
             at(p)  == CHOOSE i \in DOMAIN plan : plan[i] = p
  <1>1. /\ Cardinality(paths) \in Nat /\ DOMAIN plan = 1..Cardinality(paths)
        /\ \A i \in DOMAIN plan : plan[i] \in paths
    BY PlanFacts
  <1>2. \A p \in paths : \E i \in DOMAIN plan : plan[i] = p
    BY DEF Plans
  <1>3. \A i, j \in DOMAIN plan : plan[i] = plan[j] => i = j
    <2>1. paths \subseteq Path
      <3>1. snapshots[k] \in Snapshot
        BY DEF TypeOK
      <3> QED
        BY <3>1 DEF Snapshot, Diverged, TypeOK
    <2>2. IsFiniteSet(paths)
      BY <2>1, PathAssumption, FS_Subset
    <2> HIDE DEF paths
    <2> QED
      BY <2>1, <2>2, PlanOnce DEF paths
  <1>4. TablesOK(st) /\ DrawnFrom(st, SnapshotHashes(heads))
    BY <1>1, RestoredTablesOK, RestoreDrawn
  <1>5. /\ DOMAIN st.files = DOMAIN files \cup {plan[i] : i \in DOMAIN plan}
        /\ \A p \in DOMAIN st.files :
             st.files[p] = IF \E i \in DOMAIN plan : plan[i] = p
                           THEN row(at(p)) ELSE files[p]
    BY DEF RestoredTables, Tables
  <1>6. /\ DOMAIN st.changes = DOMAIN plan
        /\ \A i \in DOMAIN plan : st.changes[i] = PayloadOf(plan[i], row(i), NoPath)
    BY DEF RestoredTables, Tables
  <1>7. \A i \in DOMAIN plan : /\ st.changes[i].path = plan[i]
                               /\ st.changes[i].version = row(i).version
    <2>1. ASSUME NEW p, NEW x PROVE /\ PayloadOf(p, x, NoPath).path = p
                                    /\ PayloadOf(p, x, NoPath).version = x.version
      BY DEF PayloadOf
    <2> HIDE DEF st, row
    <2> QED
      BY <1>6, <2>1
  <1> HIDE DEF st, row, paths
  <1>8. \A i \in DOMAIN plan : at(plan[i]) = i
    BY <1>3
  <1> HIDE DEF at
  <1>9. \A i \in DOMAIN plan : st.files[plan[i]] = row(i)
    BY <1>5, <1>8
  <1>10. DOMAIN st.files = DOMAIN files \cup paths
    BY <1>1, <1>2, <1>5
  <1>11. \A p \in DOMAIN files \ paths : st.files[p] = files[p]
    BY <1>1, <1>5
  <1>12. Announcing(st)
    <2>1. \A i \in DOMAIN plan : plan[i] \in DOMAIN st.files
      BY <1>1, <1>10
    <2>2. ASSUME NEW i \in DOMAIN st.changes
          PROVE  /\ st.changes[i].path \in DOMAIN st.files
                 /\ st.files[st.changes[i].path].version = st.changes[i].version
      BY <1>6, <1>7, <1>9, <2>1
    <2>3. ASSUME NEW p \in DOMAIN st.files
          PROVE  \/ \E i \in DOMAIN st.changes : st.changes[i].path = p
                 \/ p \in DOMAIN files /\ st.files[p] = files[p]
      <3>1. p \in paths => \E i \in DOMAIN st.changes : st.changes[i].path = p
        BY <1>2, <1>6, <1>7
      <3> QED
        BY <1>10, <1>11, <3>1
    <2> QED
      BY <2>2, <2>3 DEF Announcing
  <1>13. Verdict(st, SnapshotHashes(heads))
    BY <1>4, <1>12 DEF Verdict
  <1> QED
    BY <1>2, <1>6, <1>9, <1>10, <1>11, <1>13 DEF st, row, paths

-----------------------------------------------------------------------------
(* Reference counts *)

References(h) == {id \in DOMAIN versions : versions[id].hash = h}

Count(h) == IF h \in DOMAIN blobs THEN blobs[h] ELSE 0

\* RefcountsExact in these terms.
LEMMA RefcountsInTerms ==
  RefcountsExact <=> \A h \in Hash : Cardinality(References(h)) = Count(h)
  BY DEF RefcountsExact, References, Count

\* The references to a content are finitely many.
LEMMA ReferencesFinite ==
  ASSUME TypeOK, NEW h
  PROVE  IsFiniteSet(References(h)) /\ Cardinality(References(h)) \in Nat
  <1>1. References(h) \in SUBSET DOMAIN versions
    BY DEF References
  <1> QED
    BY <1>1, FS_Subset, FS_CardinalityType DEF TypeOK

\* Persisting a verdict counts each version it inserts once.
LEMMA PersistCounts ==
  ASSUME TypeOK, RefcountsExact, NEW st, TablesOK(st), NEW known, Persist(st, known)
  PROVE  RefcountsExact'
  <1> DEFINE after == st.versions
             rows  == UpsertedBlobs(known)
  <1>1. /\ versions' = PersistedVersions(after)
        /\ blobs' = BumpedBlobs(rows, after)
    BY DEF Persist
  <1> HIDE DEF after
  <1>2. ASSUME NEW h \in Hash
        PROVE  Cardinality(References(h)') = Count(h)'
    <2> DEFINE new == NewReferences(after, h)
    <2>1. References(h)' = References(h) \cup new
      BY <1>1 DEF References, PersistedVersions, NewReferences
    <2>2. References(h) \cap new = {}
      BY DEF References, NewReferences
    <2>3. IsFiniteSet(new)
      <3>1. new \in SUBSET DOMAIN after
        BY DEF NewReferences
      <3> QED
        BY <3>1, FS_Subset DEF TablesOK, VersionsOK, after
    <2>4. Cardinality(References(h)') = Count(h) + Cardinality(new)
      <3>1. Cardinality(new) \in Nat
        BY <2>3, FS_CardinalityType
      <3>2. /\ IsFiniteSet(References(h))
            /\ Cardinality(References(h)) = Count(h) /\ Count(h) \in Nat
        BY ReferencesFinite, RefcountsInTerms
      <3>3. Cardinality(References(h) \cup new) =
              Cardinality(References(h)) + Cardinality(new) - Cardinality({})
        BY <2>2, <2>3, <3>2, FS_Union
      <3> HIDE DEF new
      <3> QED
        BY <2>1, <3>1, <3>2, <3>3, FS_EmptySet
    <2>5. Count(h)' = Count(h) + Cardinality(new)
      <3>1. /\ DOMAIN rows = DOMAIN blobs \cup known
            /\ \A g \in DOMAIN rows : rows[g] = Count(g)
            /\ h \notin DOMAIN rows => Count(h) = 0
        BY DEF UpsertedBlobs, Count
      <3>2. Count(h) \in Nat
        BY DEF Count, TypeOK
      <3>3. h \in DOMAIN blobs' <=> h \in DOMAIN rows \/ new # {}
        BY <1>1 DEF BumpedBlobs
      <3>4. h \in DOMAIN blobs' =>
              blobs'[h] = (IF h \in DOMAIN rows THEN rows[h] ELSE 0) + Cardinality(new)
        BY <1>1 DEF BumpedBlobs
      <3>5. Count(h)' = IF h \in DOMAIN blobs' THEN blobs'[h] ELSE 0
        BY DEF Count
      <3> HIDE DEF rows, new
      <3> QED
        BY <3>1, <3>2, <3>3, <3>4, <3>5, FS_EmptySet
    <2> QED
      BY <2>4, <2>5
  <1> QED
    BY <1>2 DEF RefcountsExact, References, Count

\* New rows at refcount 0 change no count.
LEMMA UpsertCounts ==
  ASSUME RefcountsExact, versions' = versions, NEW known,
         blobs' = UpsertedBlobs(known)
  PROVE  RefcountsExact'
  <1>1. \A h : Count(h)' = Count(h)
    BY DEF Count, UpsertedBlobs
  <1>2. \A h : References(h)' = References(h)
    BY DEF References
  <1> QED
    BY <1>1, <1>2 DEF RefcountsExact, References, Count

\* Retention takes as many references off a count as it removes versions.
LEMMA RetentionCounts ==
  ASSUME TypeOK, RefcountsExact, RetentionRun
  PROVE  RefcountsExact'
  <1>1. PICK cutoff :
          /\ versions' = [id \in DOMAIN versions \ Doomed(cutoff) |-> versions[id]]
          /\ blobs' = [h \in DOMAIN blobs |->
                         IF blobs[h] >= Dropped(Doomed(cutoff), h)
                         THEN blobs[h] - Dropped(Doomed(cutoff), h) ELSE 0]
    BY DEF RetentionRun
  <1> DEFINE doomed == Doomed(cutoff)
  <1>2. doomed \subseteq DOMAIN versions
    BY DEF Doomed
  <1> HIDE DEF doomed
  <1>3. ASSUME NEW h \in Hash
        PROVE  Cardinality(References(h)') = Count(h)'
    <2> DEFINE gone == {id \in doomed : versions[id].hash = h}
    <2>1. References(h)' = References(h) \ gone
      BY <1>1 DEF References, doomed
    <2>2. References(h) \cap gone = gone /\ gone \in SUBSET References(h)
      BY <1>2 DEF References
    <2>3. IsFiniteSet(References(h)) /\ Cardinality(References(h)) \in Nat
      BY ReferencesFinite
    <2>4. Cardinality(References(h)') =
            Cardinality(References(h)) - Cardinality(gone)
      BY <2>1, <2>2, <2>3, FS_Difference
    <2>5. /\ Cardinality(gone) <= Cardinality(References(h))
          /\ IsFiniteSet(gone) /\ Cardinality(gone) \in Nat
      BY <2>2, <2>3, FS_Subset, FS_CardinalityType
    <2>6. Dropped(doomed, h) = Cardinality(gone)
      BY DEF Dropped
    <2>7. Cardinality(References(h)) = Count(h)
      BY RefcountsInTerms
    <2>8. /\ DOMAIN blobs' = DOMAIN blobs
          /\ h \in DOMAIN blobs =>
               blobs'[h] = IF blobs[h] >= Cardinality(gone)
                           THEN blobs[h] - Cardinality(gone) ELSE 0
      BY <1>1, <2>6 DEF doomed
    <2>9. Count(h)' = IF h \in DOMAIN blobs' THEN blobs'[h] ELSE 0
      BY DEF Count
    <2> HIDE DEF gone
    <2> QED
      BY <2>3, <2>4, <2>5, <2>7, <2>8, <2>9 DEF Count
  <1> QED
    BY <1>3 DEF RefcountsExact, References, Count

\* Without gaps in the ids, no restore breaks off.
LEMMA RestoresComplete ==
  ASSUME TypeOK, Dense(versions) \/ snapshots = <<>>,
         NEW d, NEW k \in DOMAIN snapshots
  PROVE  ~SnapshotRestoreTorn(d, k)
  <1> DEFINE n == Cardinality(DOMAIN versions)
  <1>1. CASE snapshots = <<>>
    BY <1>1
  <1>2. CASE Dense(versions)
    <2>1. n \in Nat /\ DOMAIN versions = 1..n
      BY <1>2, FS_CardinalityType DEF TypeOK, Dense
    <2>2. SUFFICES ASSUME SnapshotRestoreTorn(d, k) PROVE FALSE
      OBVIOUS
    <2>3. PICK plan \in Plans(Diverged(snapshots[k])) :
            \E j \in DOMAIN plan : n + j \in DOMAIN versions
      BY <2>2 DEF SnapshotRestoreTorn
    <2>4. PICK j \in DOMAIN plan : n + j \in DOMAIN versions
      BY <2>3
    <2>5. j \in Nat \ {0}
      BY PlanFacts
    <2> HIDE DEF n
    <2> QED
      BY <2>1, <2>4, <2>5
  <1> QED
    BY <1>1, <1>2

\* ... and none ever does: ids run without a gap, or there is no snapshot.
LEMMA RestoresAlwaysComplete ==
  ASSUME HandlersComplete
  PROVE  Spec => [](Dense(versions) \/ snapshots = <<>>)
  <1>1. CASE RetentionOff
    <2>1. Spec => []Sound(files, versions)
      BY <1>1, SoundAlways
    <2>2. Sound(files, versions) => Dense(versions)
      BY DEF Sound
    <2> QED
      BY <2>1, <2>2, PTL
  <1>2. CASE MaxSnapshots = 0
    <2>1. Init => snapshots = <<>>
      BY DEF Init
    <2>2. snapshots = <<>> /\ [Next]_vars => (snapshots = <<>>)'
      <3>1. SUFFICES ASSUME snapshots = <<>>, [Next]_vars PROVE snapshots' = snapshots
        OBVIOUS
      <3>2. ~SnapshotCreate
        BY <1>2, <3>1 DEF SnapshotCreate
      <3>3. ASSUME NEW d, Commit(d) PROVE snapshots' = snapshots
        <4>1. PICK c : HandleCommit(d, c)
          BY <3>3 DEF Commit
        <4> QED
          BY <4>1 DEF HandleCommit, AcceptCommit, CommitFastPath, CommitMove, CommitMoveOver,
               CommitDisplace, CommitLoses, CommitMoveLoses, CommitContest,
               CommitTorn, TornContest, CommitRefused, Persist, PersistOnly
      <3>4. DOMAIN snapshots = {}
        BY <3>1
      <3> QED
        BY <3>1, <3>2, <3>3, <3>4
           DEF Next, EventsPrune, RetentionRun, GcPurge, PutBlob, BlobPut,
               BlobUploaded, BucketDelete, vars
    <2> QED
      BY <2>1, <2>2, PTL DEF Spec
  <1> QED
    BY <1>1, <1>2 DEF HandlersComplete

\* The reference count of a blob is the number of versions that name it, however
\* commits, conflict copies, restores, retention, uploads and the cron interleave,
\* as long as handlers run to their end: the garbage collector, which trusts the
\* count, takes nothing that a version still names.
THEOREM RefcountsAreExact ==
  ASSUME HandlersComplete
  PROVE  Spec => []RefcountsExact
  <1> DEFINE Whole == Dense(versions) \/ snapshots = <<>>
  <1>1. Init => RefcountsExact
    <2>1. DOMAIN EmptyMap = {} /\ Cardinality({}) = 0
      BY FS_EmptySet DEF EmptyMap
    <2>2. \A h : {id \in {} : EmptyMap[id].hash = h} = {}
      OBVIOUS
    <2> QED
      BY <2>1, <2>2 DEF Init, RefcountsExact
  <1>2. TypeOK /\ Whole /\ RefcountsExact /\ [Next]_vars => RefcountsExact'
    <2>1. SUFFICES ASSUME TypeOK, Whole, RefcountsExact, [Next]_vars
                   PROVE  RefcountsExact'
      OBVIOUS
    <2>2. ASSUME NEW d \in Device, Commit(d) PROVE RefcountsExact'
      <3>1. PICK c \in CommitMsg : HandleCommit(d, c)
        BY <2>1, <2>2, CommitIsMessage
      <3>2. \/ \E st : Verdict(st, {c.hash}) /\ Persist(st, FoundInBucket(c))
            \/ CommitRefused(d, c)
        BY <2>1, <3>1, CommitPersists DEF HandlersComplete
      <3>3. CASE CommitRefused(d, c)
        BY <2>1, <3>3, UpsertCounts DEF CommitRefused, tables
      <3> QED
        BY <2>1, <3>2, <3>3, PersistCounts DEF Verdict
    <2>3. ASSUME NEW d \in Device, NEW k \in DOMAIN snapshots, SnapshotRestore(d, k)
          PROVE  RefcountsExact'
      <3> DEFINE st(plan) == RestoredTables(snapshots[k], plan,
                                            Cardinality(DOMAIN versions), d)
      <3>1. PICK plan \in Plans(Diverged(snapshots[k])) : Persist(st(plan), {})
        BY <2>3 DEF SnapshotRestore
      <3>2. TablesOK(st(plan))
        BY <2>1, RestoredFacts DEF Verdict
      <3> HIDE DEF st
      <3> QED
        BY <2>1, <3>1, <3>2, PersistCounts
    <2>4. \A d \in Device, k \in DOMAIN snapshots : ~SnapshotRestoreTorn(d, k)
      BY <2>1, RestoresComplete
    <2>5. CASE GcPurge
      <3>1. PICK hashes \in SUBSET {h \in DOMAIN blobs : blobs[h] = 0} :
              blobs' = [h \in DOMAIN blobs \ hashes |-> blobs[h]]
        BY <2>5 DEF GcPurge
      <3>2. \A h : Count(h)' = Count(h)
        BY <3>1 DEF Count
      <3>3. versions' = versions
        BY <2>5 DEF GcPurge, tables
      <3> QED
        BY <2>1, <3>2, <3>3 DEF RefcountsExact, Count
    <2>6. ASSUME NEW h, PutBlob(h) \/ BlobUploaded(h) PROVE RefcountsExact'
      BY <2>1, <2>6, UpsertCounts DEF PutBlob, BlobUploaded, tables
    <2>7. CASE \/ SnapshotCreate \/ EventsPrune
               \/ \E h \in LargeHash : BlobPut(h)
               \/ \E h \in Hash : BucketDelete(h)
               \/ UNCHANGED vars
      <3>1. UNCHANGED <<versions, blobs>>
        BY <2>7 DEF SnapshotCreate, EventsPrune, BlobPut, BucketDelete, tables,
                    store, vars
      <3> QED
        BY <2>1, <3>1 DEF RefcountsExact
    <2> QED
      BY <2>1, <2>2, <2>3, <2>4, <2>5, <2>6, <2>7, RetentionCounts DEF Next
  <1> QED
    BY <1>1, <1>2, TypeCorrect, RestoresAlwaysComplete, PTL DEF Spec

-----------------------------------------------------------------------------
(* head_seq and the change log *)

\* What the log holds of the path p with row and head_seq s.
LoggedAt(p, version, s, log) ==
  /\ s \in DOMAIN log => log[s].path = p /\ log[s].version = version
  /\ \A t \in DOMAIN log : t > s => ~Touches(log[t], p)

\* Persisting a verdict logs the heads it makes, each under its own head_seq.
LEMMA PersistLogs ==
  ASSUME TypeOK, HeadSeqMatchesLog, NEW st, TablesOK(st), Announcing(st),
         NEW known, Persist(st, known)
  PROVE  HeadSeqMatchesLog'
  <1> DEFINE ch == st.changes
             n  == Len(ch)
  <1>1. /\ n \in Nat /\ DOMAIN ch = 1..n /\ seq \in Nat
        /\ DOMAIN events \subseteq 1..seq
        /\ DOMAIN headSeq = DOMAIN files
        /\ \A p \in DOMAIN files : headSeq[p] \in 0..seq
    BY DEF TypeOK, TablesOK
  <1>2. /\ files' = PersistedFiles(st.files, ch)
        /\ headSeq' = PersistedHeadSeq(DOMAIN files', ch)
        /\ events' = LoggedEvents(ch)
    BY DEF Persist
  <1> HIDE DEF ch
  <1>3. /\ \A s \in DOMAIN events' :
             \/ s > seq /\ s - seq \in 1..n /\ events'[s] = ch[s - seq]
             \/ s <= seq /\ s \in DOMAIN events /\ events'[s] = events[s]
        /\ \A i \in 1..n : seq + i \in DOMAIN events' /\ events'[seq + i] = ch[i]
        /\ DOMAIN events' \subseteq Nat
    <2>1. DOMAIN events' = DOMAIN events \cup (seq + 1)..(seq + n)
          /\ \A s \in DOMAIN events' :
               events'[s] = IF s > seq THEN ch[s - seq] ELSE events[s]
      BY <1>2 DEF LoggedEvents
    <2> HIDE DEF n
    <2>2. ASSUME NEW s \in DOMAIN events'
          PROVE  \/ s > seq /\ s - seq \in 1..n /\ events'[s] = ch[s - seq]
                 \/ s <= seq /\ s \in DOMAIN events /\ events'[s] = events[s]
      BY <1>1, <2>1
    <2>3. ASSUME NEW i \in 1..n
          PROVE  seq + i \in DOMAIN events' /\ events'[seq + i] = ch[i]
      <3>1. seq + i \in (seq + 1)..(seq + n) /\ seq + i > seq
        BY <1>1
      <3>2. (seq + i) - seq = i
        BY <1>1
      <3> QED
        BY <2>1, <3>1, <3>2
    <2>4. DOMAIN events' \subseteq Nat
      BY <1>1, <2>1
    <2> QED
      BY <2>2, <2>3, <2>4
  <1>4. ASSUME NEW p \in DOMAIN files'
        PROVE  LoggedAt(p, files'[p].version, headSeq'[p], events')
    <2>1. /\ p \in DOMAIN st.files /\ p \notin RenamedAway(ch)
          /\ files'[p].version = st.files[p].version
      BY <1>2 DEF PersistedFiles, PersistedRow
    <2>2. \A i \in 1..n : ~(ch[i].kind = "rename" /\ ch[i].from = p)
      BY <1>1, <2>1 DEF RenamedAway
    <2>3. headSeq'[p] = IF ChangesOf(p, ch) # {}
                        THEN seq + (CHOOSE i \in ChangesOf(p, ch) :
                                      \A j \in ChangesOf(p, ch) : j <= i)
                        ELSE IF p \in DOMAIN headSeq THEN headSeq[p] ELSE 0
      BY <1>2 DEF PersistedHeadSeq
    <2> HIDE DEF n
    <2>4. CASE ChangesOf(p, ch) # {}
      <3> DEFINE T == ChangesOf(p, ch)
                 i == CHOOSE i \in T : \A j \in T : j <= i
      <3>1. T \subseteq 1..n /\ \A j \in 1..n : ch[j].path = p => j \in T
        BY <1>1 DEF ChangesOf
      <3>2. \E x \in T : \A j \in T : j <= x
        BY <1>1, <2>4, <3>1, GreatestIndex
      <3>3. i \in T /\ \A j \in T : j <= i
        BY <3>2
      <3>4. headSeq'[p] = seq + i
        BY <2>3, <2>4
      <3> HIDE DEF i
      <3>5. ch[i].path = p /\ i \in 1..n
        BY <3>1, <3>3 DEF ChangesOf
      <3> HIDE DEF T
      <3>6. ch[i].version = st.files[p].version
        BY <1>1, <3>5 DEF Announcing, ch
      <3>7. ASSUME NEW t \in DOMAIN events', t > seq + i
            PROVE  ~Touches(events'[t], p)
        <4>1. t - seq \in 1..n /\ events'[t] = ch[t - seq]
          BY <1>1, <1>3, <3>5, <3>7
        <4>2. t \in Nat /\ t - seq > i
          BY <1>1, <1>3, <3>5, <3>7
        <4>3. ch[t - seq].path # p
          BY <3>1, <3>3, <3>5, <4>1, <4>2
        <4> QED
          BY <2>2, <4>1, <4>3 DEF Touches
      <3> QED
        BY <1>3, <2>1, <3>4, <3>5, <3>6, <3>7 DEF LoggedAt
    <2>5. CASE ChangesOf(p, ch) = {}
      <3>1. \A i \in 1..n : ch[i].path # p
        BY <1>1, <2>5 DEF ChangesOf
      <3>2. p \in DOMAIN files /\ st.files[p] = files[p]
        BY <1>1, <2>1, <3>1 DEF Announcing, ch
      <3>3. headSeq'[p] = headSeq[p] /\ headSeq[p] \in 0..seq
        BY <1>1, <2>3, <2>5, <3>2
      <3>4. LoggedAt(p, files[p].version, headSeq[p], events)
        BY <3>2 DEF HeadSeqMatchesLog, LoggedAt
      <3>5. headSeq[p] \in DOMAIN events' =>
              events'[headSeq[p]].path = p
              /\ events'[headSeq[p]].version = files[p].version
        BY <1>1, <1>3, <3>3, <3>4 DEF LoggedAt
      <3>6. ASSUME NEW t \in DOMAIN events', t > headSeq[p]
            PROVE  ~Touches(events'[t], p)
        BY <1>3, <2>2, <3>1, <3>4, <3>6 DEF LoggedAt, Touches
      <3> QED
        BY <2>1, <3>2, <3>3, <3>5, <3>6 DEF LoggedAt
    <2> QED
      BY <2>4, <2>5
  <1> QED
    BY <1>4 DEF HeadSeqMatchesLog, LoggedAt

\* A head's head_seq is the log entry that announced it, and no later entry is
\* about its path, whatever commits, moves, conflict copies, restores and prunes
\* ran, as long as handlers run to their end: a delta manifest since s returns
\* exactly the heads that changed after s.
THEOREM LogTellsHeads ==
  ASSUME HandlersComplete
  PROVE  Spec => []HeadSeqMatchesLog
  <1> DEFINE Whole == Dense(versions) \/ snapshots = <<>>
  <1>1. Init => HeadSeqMatchesLog
    BY DEF Init, HeadSeqMatchesLog, EmptyMap
  <1>2. TypeOK /\ Whole /\ HeadSeqMatchesLog /\ [Next]_vars => HeadSeqMatchesLog'
    <2>1. SUFFICES ASSUME TypeOK, Whole, HeadSeqMatchesLog, [Next]_vars
                   PROVE  HeadSeqMatchesLog'
      OBVIOUS
    <2>2. ASSUME UNCHANGED <<files, headSeq, events>> PROVE HeadSeqMatchesLog'
      BY <2>1, <2>2 DEF HeadSeqMatchesLog
    <2>3. ASSUME NEW d \in Device, Commit(d) PROVE HeadSeqMatchesLog'
      <3>1. PICK c \in CommitMsg : HandleCommit(d, c)
        BY <2>1, <2>3, CommitIsMessage
      <3>2. \/ \E st : Verdict(st, {c.hash}) /\ Persist(st, FoundInBucket(c))
            \/ CommitRefused(d, c)
        BY <2>1, <3>1, CommitPersists DEF HandlersComplete
      <3>3. CASE CommitRefused(d, c)
        BY <2>2, <3>3 DEF CommitRefused, tables
      <3> QED
        BY <2>1, <3>2, <3>3, PersistLogs DEF Verdict
    <2>4. ASSUME NEW d \in Device, NEW k \in DOMAIN snapshots, SnapshotRestore(d, k)
          PROVE  HeadSeqMatchesLog'
      <3> DEFINE st(plan) == RestoredTables(snapshots[k], plan,
                                            Cardinality(DOMAIN versions), d)
      <3>1. PICK plan \in Plans(Diverged(snapshots[k])) : Persist(st(plan), {})
        BY <2>4 DEF SnapshotRestore
      <3>2. TablesOK(st(plan)) /\ Announcing(st(plan))
        BY <2>1, RestoredFacts DEF Verdict
      <3> HIDE DEF st
      <3> QED
        BY <2>1, <3>1, <3>2, PersistLogs
    <2>5. \A d \in Device, k \in DOMAIN snapshots : ~SnapshotRestoreTorn(d, k)
      BY <2>1, RestoresComplete
    <2>6. CASE EventsPrune
      <3>1. PICK oldest :
              events' = [s \in {t \in DOMAIN events : t > oldest} |-> events[s]]
        BY <2>6 DEF EventsPrune
      <3>2. \A s \in DOMAIN events' : s \in DOMAIN events /\ events'[s] = events[s]
        BY <3>1
      <3>3. UNCHANGED <<files, headSeq>>
        BY <2>6 DEF EventsPrune
      <3> QED
        BY <2>1, <3>2, <3>3 DEF HeadSeqMatchesLog
    <2>7. CASE \/ SnapshotCreate \/ RetentionRun \/ GcPurge
               \/ \E h \in LargeHash : PutBlob(h) \/ BlobPut(h) \/ BlobUploaded(h)
               \/ \E h \in Hash : BucketDelete(h)
               \/ UNCHANGED vars
      BY <2>2, <2>7 DEF SnapshotCreate, RetentionRun, GcPurge, PutBlob, BlobPut,
                        BlobUploaded, BucketDelete, tables, vars
    <2> QED
      BY <2>1, <2>3, <2>4, <2>5, <2>6, <2>7 DEF Next
  <1> QED
    BY <1>1, <1>2, TypeCorrect, RestoresAlwaysComplete, PTL DEF Spec

-----------------------------------------------------------------------------
(* Stored content *)

\* What is true of every commit a device sends: a placeholder has no content, a
\* deletion names what it deletes and a move a version of its source, which is
\* another path.
Sent(c) ==
  /\ c.hash = NoHash <=> c.isFolder
  /\ c.from \in (RenameSources \cup {NoPath}) \ {c.path}
  /\ c.kind = "delete" =>
       /\ c.parent # NoVersion
       /\ c.parent \in DOMAIN versions => c.hash = versions[c.parent].hash
  /\ c.kind = "rename" =>
       /\ c.parent # NoVersion
       /\ c.parent \in DOMAIN versions => versions[c.parent].path = c.from

\* A device's commit is such a message.
LEMMA CommitSent ==
  ASSUME TypeOK, NEW d \in Device, Commit(d)
  PROVE  \E c \in CommitMsg : Sent(c) /\ HandleCommit(d, c)
  <1> DEFINE Msg(path, parent, hash, kind, from) ==
               [path |-> path, parent |-> parent, hash |-> hash, kind |-> kind,
                from |-> from, isFolder |-> hash = NoHash]
             Parents(kind, path, from) ==
               RetiredIds \cup
                 KnownParents(kind, IF kind = "rename" THEN from ELSE path)
             From(kind, path) ==
               IF kind = "rename" THEN RenameSources \ {path} ELSE {NoPath}
  <1>1. PICK kind \in ClientKinds, path \in Path :
          \E from \in From(kind, path) :
            \E parent \in Parents(kind, path, from) :
              \E hash \in SentHashes(kind, parent) :
                HandleCommit(d, Msg(path, parent, hash, kind, from))
    BY DEF Commit
  <1>2. PICK from \in From(kind, path) :
          \E parent \in Parents(kind, path, from) :
            \E hash \in SentHashes(kind, parent) :
              HandleCommit(d, Msg(path, parent, hash, kind, from))
    BY <1>1
  <1>3. PICK parent \in Parents(kind, path, from) :
          \E hash \in SentHashes(kind, parent) :
            HandleCommit(d, Msg(path, parent, hash, kind, from))
    BY <1>2
  <1>4. PICK hash \in SentHashes(kind, parent) :
          HandleCommit(d, Msg(path, parent, hash, kind, from))
    BY <1>3
  <1>5. kind \in Kind /\ from \in Path \cup {NoPath}
    BY RoomAssumption, Zenon
  <1>a. from \in (RenameSources \cup {NoPath}) \ {path}
    BY PathAssumption
  <1>6. /\ parent \in Nat
        /\ kind \in {"delete", "rename"} => parent # NoVersion
        /\ kind = "rename" /\ parent \in DOMAIN versions =>
             versions[parent].path = from
    <2>1. /\ DOMAIN versions \subseteq Nat \ {0}
          /\ RetiredIds \subseteq (Nat \ {0}) \ DOMAIN versions
      BY RoomAssumption DEF TypeOK, VersionId, RetiredIds
    <2>2. CASE parent \in RetiredIds
      BY <2>1, <2>2 DEF NoVersion
    <2>3. CASE parent \in KnownParents(kind, IF kind = "rename" THEN from ELSE path)
      <3>1. CASE kind = "rename"
        BY <2>1, <2>3, <3>1 DEF KnownParents, NoVersion
      <3>2. CASE kind = "delete"
        BY <2>1, <2>3, <3>2 DEF KnownParents, NoVersion
      <3>3. CASE kind \notin {"rename", "delete"}
        BY <2>1, <2>3, <3>3 DEF KnownParents, NoVersion
      <3> QED
        BY <3>1, <3>2, <3>3
    <2> QED
      BY <2>2, <2>3
  <1>7. /\ hash \in Hash \cup {NoHash}
        /\ kind = "delete" /\ parent \in DOMAIN versions =>
             hash = versions[parent].hash
    BY DEF SentHashes, TypeOK, Version
  <1> DEFINE c == Msg(path, parent, hash, kind, from)
  <1>8. /\ c.path = path /\ c.parent = parent /\ c.hash = hash /\ c.kind = kind
        /\ c.from = from /\ c.isFolder = (hash = NoHash)
        /\ c \in CommitMsg
    BY <1>5, <1>6, <1>7 DEF CommitMsg
  <1> HIDE DEF c
  <1>9. Sent(c)
    BY <1>a, <1>6, <1>7, <1>8 DEF Sent
  <1> QED
    BY <1>4, <1>8, <1>9 DEF c

\* Every content the tables name is in R2, and nothing is about to leave it.
AllStored ==
  /\ purged = {}
  /\ DOMAIN blobs \cup uploading \subseteq bucket
  /\ KnownHashes \subseteq bucket \cup {NoHash}
  /\ \A k \in DOMAIN snapshots :
       SnapshotHashes(snapshots[k]) \subseteq bucket \cup {NoHash}

\* The tables after a verdict, whole or broken off, name no other content.
LEMMA PersistDraws ==
  ASSUME NEW st, NEW S, DrawnFrom(st, S), NEW changes,
         files' = PersistedFiles(st.files, changes),
         versions' = PersistedVersions(st.versions)
  PROVE  KnownHashes' \subseteq KnownHashes \cup S
  <1>1. ASSUME NEW id \in DOMAIN versions'
        PROVE  versions'[id].hash \in KnownHashes \cup S
    BY DEF PersistedVersions, DrawnFrom, KnownHashes
  <1>2. ASSUME NEW p \in DOMAIN files'
        PROVE  files'[p].hash \in KnownHashes \cup S
    BY DEF PersistedFiles, PersistedRow, DrawnFrom, KnownHashes
  <1> QED
    BY <1>1, <1>2 DEF KnownHashes

\* Persisting a verdict drawn from stored content.
LEMMA PersistStores ==
  ASSUME AllStored, NEW st, NEW S, DrawnFrom(st, S), NEW known,
         Persist(st, known), known \subseteq bucket', bucket \subseteq bucket',
         S \subseteq bucket' \cup {NoHash}
  PROVE  AllStored'
  <1>1. KnownHashes' \subseteq bucket' \cup {NoHash}
    BY PersistDraws DEF Persist, AllStored
  <1>2. DOMAIN blobs' \subseteq bucket'
    <2>1. DOMAIN blobs' = DOMAIN blobs \cup known
                            \cup {h \in Hash : NewReferences(st.versions, h) # {}}
      BY DEF Persist, BumpedBlobs, UpsertedBlobs
    <2>2. ASSUME NEW h \in Hash, NewReferences(st.versions, h) # {}
          PROVE  h \in bucket'
      <3>1. h \in KnownHashes \cup S
        BY <2>2 DEF NewReferences, DrawnFrom
      <3> QED
        BY <3>1, HashAssumption DEF AllStored
    <2> QED
      BY <2>1, <2>2 DEF AllStored
  <1>3. UNCHANGED <<purged, snapshots, uploading>>
    BY DEF Persist
  <1> QED
    BY <1>1, <1>2, <1>3 DEF AllStored

\* A commit that does not break off leaves all content stored.
LEMMA CommitStores ==
  ASSUME TypeOK, AllStored, ~PutFailures, NEW d \in Device, Commit(d)
  PROVE  AllStored'
  <1>1. PICK c \in CommitMsg : Sent(c) /\ HandleCommit(d, c)
    BY CommitSent
  <1>2. ASSUME ContentKnown(c) PROVE FoundInBucket(c) \subseteq bucket
    BY <1>2 DEF ContentKnown, FoundInBucket, AllStored
  <1>3. ASSUME NEW st, Verdict(st, {c.hash}), Admitted(c),
               Persist(st, FoundInBucket(c)), StoreInline(c)
        PROVE  AllStored'
    <2>1. bucket \subseteq bucket' /\ FoundInBucket(c) \subseteq bucket'
      BY <1>2, <1>3 DEF StoreInline, Admitted
    <2>2. c.hash \in bucket' \cup {NoHash}
      <3>1. CASE c.kind = "delete"
        <4>1. c.hash \in KnownHashes
          BY <1>1, <1>3, <3>1 DEF Sent, Admitted, UnknownParent, KnownHashes
        <4> QED
          BY <2>1, <4>1 DEF AllStored
      <3>2. CASE c.isFolder
        BY <1>1, <3>2 DEF Sent
      <3>3. CASE IsInline(c)
        BY <1>3, <3>3 DEF StoreInline
      <3>4. CASE CarriesContent(c) /\ ~IsInline(c)
        BY <2>1, <3>4 DEF FoundInBucket
      <3> QED
        BY <3>1, <3>2, <3>3, <3>4 DEF CarriesContent
    <2> QED
      BY <1>3, <2>1, <2>2, PersistStores DEF Verdict
  <1>4. CASE CommitRefused(d, c)
    <2>1. DOMAIN blobs' = DOMAIN blobs \cup FoundInBucket(c)
      BY <1>4 DEF CommitRefused, UpsertedBlobs
    <2>2. FoundInBucket(c) \subseteq bucket
      BY <1>2, <1>4 DEF CommitRefused
    <2>3. UNCHANGED <<files, versions, snapshots, bucket, purged, uploading>>
      BY <1>4 DEF CommitRefused, tables
    <2> QED
      BY <2>1, <2>2, <2>3 DEF AllStored, KnownHashes
  <1> QED
    BY <1>1, <1>3, <1>4, CommitPersists

\* So does a restore, whole or broken off.
LEMMA RestoreStores ==
  ASSUME TypeOK, AllStored, NEW d \in Device, NEW k \in DOMAIN snapshots,
         SnapshotRestore(d, k) \/ SnapshotRestoreTorn(d, k)
  PROVE  AllStored'
  <1> DEFINE n        == Cardinality(DOMAIN versions)
             st(plan) == RestoredTables(snapshots[k], plan, n, d)
             S        == SnapshotHashes(snapshots[k])
  <1>1. S \subseteq bucket \cup {NoHash}
    BY DEF AllStored
  <1>2. CASE SnapshotRestore(d, k)
    <2>1. PICK plan \in Plans(Diverged(snapshots[k])) :
            Persist(st(plan), {}) /\ bucket' = bucket
      BY <1>2 DEF SnapshotRestore
    <2>2. DrawnFrom(st(plan), S)
      BY RestoredFacts DEF Verdict
    <2> HIDE DEF st, S
    <2> QED
      BY <1>1, <2>1, <2>2, PersistStores
  <1>3. CASE SnapshotRestoreTorn(d, k)
    <2>1. PICK plan \in Plans(Diverged(snapshots[k])) :
            \E j \in DOMAIN plan : PersistOnly(st([i \in 1..(j - 1) |-> plan[i]]))
      BY <1>3 DEF SnapshotRestoreTorn
    <2>2. PICK j \in DOMAIN plan : PersistOnly(st([i \in 1..(j - 1) |-> plan[i]]))
      BY <2>1
    <2> DEFINE done == [i \in 1..(j - 1) |-> plan[i]]
    <2>3. j - 1 \in Nat /\ 1..(j - 1) \subseteq DOMAIN plan
      BY PlanFacts
    <2>4. DOMAIN done = 1..(j - 1)
          /\ \A i \in 1..(j - 1) : done[i] \in Diverged(snapshots[k])
      BY <2>3, PlanFacts
    <2>5. PersistOnly(st(done))
      BY <2>2
    <2> HIDE DEF done
    <2>6. DrawnFrom(st(done), S)
      BY <2>3, <2>4, RestoreDrawn
    <2> HIDE DEF st, S
    <2>7. KnownHashes' \subseteq KnownHashes \cup S
      BY <2>5, <2>6, PersistDraws DEF PersistOnly
    <2>8. UNCHANGED <<snapshots, store>>
      BY <2>5 DEF PersistOnly
    <2> QED
      BY <1>1, <2>7, <2>8 DEF AllStored, store
  <1> QED
    BY <1>2, <1>3

\* As long as the garbage collector has purged nothing, the content of every
\* live file is in R2, a conflict copy's included, for inline and for uploaded
\* content, under every retention setting and through restores that break off.
\* What can separate a live file from its content is the collector alone.
THEOREM StoredUntilCollected ==
  ASSUME ~PutFailures
  PROVE  Spec /\ [][~GcPurge]_vars => []LiveContentStored
  <1>1. Init => AllStored
    BY DEF Init, AllStored, KnownHashes, EmptyMap
  <1>2. TypeOK /\ AllStored /\ [Next]_vars /\ [~GcPurge]_vars => AllStored'
    <2>1. SUFFICES ASSUME TypeOK, AllStored, [Next]_vars, [~GcPurge]_vars
                   PROVE  AllStored'
      OBVIOUS
    <2>2. CASE SnapshotCreate
      <3>1. UNCHANGED <<files, versions, store>>
        BY <2>2 DEF SnapshotCreate, tables
      <3>2. SnapshotHashes(Captured) \subseteq KnownHashes
        BY DEF SnapshotHashes, Captured, KnownHashes
      <3>3. ASSUME NEW k \in DOMAIN snapshots'
            PROVE  SnapshotHashes(snapshots'[k]) \subseteq bucket \cup {NoHash}
        BY <2>1, <2>2, <3>2, SnapshotAdded DEF AllStored
      <3> QED
        BY <2>1, <3>1, <3>3 DEF AllStored, KnownHashes, store
    <2>3. CASE RetentionRun
      <3>1. DOMAIN blobs' = DOMAIN blobs
        BY <2>3 DEF RetentionRun
      <3>2. \A id \in DOMAIN versions' :
              id \in DOMAIN versions /\ versions'[id] = versions[id]
        BY <2>3 DEF RetentionRun
      <3>3. UNCHANGED <<files, snapshots, bucket, purged, uploading>>
        BY <2>3 DEF RetentionRun
      <3>4. KnownHashes' \subseteq KnownHashes
        BY <3>2, <3>3 DEF KnownHashes
      <3> QED
        BY <2>1, <3>1, <3>3, <3>4 DEF AllStored
    <2>4. ASSUME NEW h \in LargeHash, PutBlob(h) \/ BlobPut(h) \/ BlobUploaded(h)
          PROVE  AllStored'
      <3>1. UNCHANGED <<files, versions, snapshots, purged>>
        BY <2>4 DEF PutBlob, BlobPut, BlobUploaded, tables
      <3>2. bucket \subseteq bucket' /\ DOMAIN blobs' \cup uploading' \subseteq bucket'
        BY <2>1, <2>4 DEF PutBlob, BlobPut, BlobUploaded, UpsertedBlobs, AllStored
      <3> QED
        BY <2>1, <3>1, <3>2 DEF AllStored, KnownHashes
    <2>5. ASSUME NEW h, BucketDelete(h) PROVE AllStored'
      BY <2>1, <2>5 DEF BucketDelete, AllStored
    <2>6. CASE EventsPrune \/ UNCHANGED vars
      BY <2>1, <2>6 DEF EventsPrune, vars, tables, store, AllStored, KnownHashes
    <2> QED
      BY <2>1, <2>2, <2>3, <2>4, <2>5, <2>6, CommitStores, RestoreStores
         DEF Next
  <1>3. AllStored => LiveContentStored
    BY DEF AllStored, KnownHashes, LiveContentStored, Live
  <1> QED
    BY <1>1, <1>2, <1>3, TypeCorrect, PTL DEF Spec

Holds(v, h) == \E id \in DOMAIN v : v[id].hash = h

\* Every content in R2, and every row of the blobs table, is some version's.
Referenced == \A h \in bucket \cup DOMAIN blobs : Holds(versions, h)

\* The loser's copy is a version of its own beside those of the contest.
LEMMA PreserveLoserHolds ==
  ASSUME NEW con, ContestSound(con), NEW c, NEW anc, NEW now
  PROVE  LET st == PreserveLoser(con, c, anc, now)
         IN  /\ Extends(con.st.versions, st.versions)
             /\ NeedsCopy(con.loser, con.winner.hash, anc) =>
                  Holds(st.versions, con.loser.hash)
  <1> DEFINE st   == PreserveLoser(con, c, anc, now)
             old  == con.st.versions
             path == ConflictCopyPath(con.st.files, c.path, con.loser.clock.dev)
             row  == CopyRow(MintId(old), con.loser, con.winner)
             ver  == VersionOf(path, row, con.winner.version, now)
  <1>1. CASE ~NeedsCopy(con.loser, con.winner.hash, anc)
    BY <1>1 DEF PreserveLoser, Extends
  <1>2. CASE NeedsCopy(con.loser, con.winner.hash, anc)
    <2>1. st.versions = MapSet(old, MintId(old), ver)
      BY <1>2 DEF PreserveLoser, Tables
    <2>2. ver.hash = con.loser.hash
      BY DEF CopyRow, VersionOf
    <2>3. VersionsOK(old) /\ Dense(old)
      BY DEF ContestSound, Sound
    <2> HIDE DEF st, old, ver
    <2>4. /\ Extends(old, MapSet(old, MintId(old), ver))
          /\ DOMAIN MapSet(old, MintId(old), ver) = DOMAIN old \cup {MintId(old)}
          /\ MapSet(old, MintId(old), ver)[MintId(old)] = ver
      BY <2>3, MintIdFresh
    <2>5. Extends(old, st.versions) /\ Holds(st.versions, con.loser.hash)
      BY <2>1, <2>2, <2>4 DEF Holds
    <2> QED
      BY <2>5 DEF st, old
  <1> QED
    BY <1>1, <1>2

\* A commit whose content is put into R2 leaves a version with that content: it
\* is the new head's, its copy's, or what the head or the common ancestor has.
LEMMA InlineHeld ==
  ASSUME TypeOK, Sound(files, versions), ~PutFailures, NEW c \in CommitMsg,
         Sent(c), NEW d \in Device, HandleCommit(d, c), ~CommitRefused(d, c),
         IsInline(c)
  PROVE  Holds(versions', c.hash)
  <1> DEFINE now  == seq + 1
             anc  == AncestorHashes(versions, c)
             fast == ApplyFastPath(files, versions, c, d, now)
             disp == DisplaceContest(files, versions, c, d, now)
             lose == LoseContest(files, versions, c, d)
  <1>1. c.kind # "rename" /\ c.kind # "delete" /\ ~c.isFolder /\ c.hash # NoHash
    BY DEF IsInline, CarriesContent, Sent
  <1>2. ~MovesHead(files, c)
    BY <1>1 DEF MovesHead
  <1>3. ASSUME NEW st, NEW known, Persist(st, known), Extends(versions, st.versions),
               Holds(st.versions, c.hash)
        PROVE  Holds(versions', c.hash)
    <2>1. /\ DOMAIN versions' = DOMAIN st.versions
          /\ \A id \in DOMAIN st.versions : versions'[id] = st.versions[id]
      BY <1>3 DEF Persist, PersistedVersions, Extends
    <2> QED
      BY <1>3, <2>1 DEF Holds
  <1>4. ASSUME NEW con, ContestSound(con), CommitContest(c, con),
               \/ Holds(con.st.versions, c.hash)
               \/ con.loser.hash = c.hash /\ NeedsCopy(con.loser, con.winner.hash, anc)
        PROVE  Holds(versions', c.hash)
    <2> DEFINE st == PreserveLoser(con, c, anc, now)
    <2>1. Persist(st, FoundInBucket(c))
      BY <1>4 DEF CommitContest
    <2>2. /\ Extends(con.st.versions, st.versions)
          /\ NeedsCopy(con.loser, con.winner.hash, anc) =>
               Holds(st.versions, con.loser.hash)
      BY <1>4, PreserveLoserHolds
    <2>3. Extends(versions, con.st.versions)
      BY <1>4 DEF ContestSound
    <2> HIDE DEF st, anc
    <2>4. Extends(versions, st.versions)
      BY <2>2, <2>3 DEF Extends
    <2>5. Holds(st.versions, c.hash)
      BY <1>4, <2>2 DEF Holds, Extends
    <2> QED
      BY <1>3, <2>1, <2>4, <2>5
  <1>5. ASSUME NEW clock, NEW gone, NEW from
        PROVE  Holds(Advance(files, versions, c, clock, gone, from, now).versions,
                     c.hash)
    <2> DEFINE row == WinningRow(versions, c, clock)
               ver == VersionOf(c.path, row, c.parent, now)
    <2>1. ver.hash = c.hash
      BY DEF WinningRow, HeadRow, VersionOf
    <2>2. Advance(files, versions, c, clock, gone, from, now).versions =
            MapSet(versions, row.version, ver)
      BY DEF Advance, Tables
    <2> HIDE DEF row, ver
    <2>3. /\ row.version \in DOMAIN MapSet(versions, row.version, ver)
          /\ MapSet(versions, row.version, ver)[row.version] = ver
      BY DEF MapSet
    <2> QED
      BY <2>1, <2>2, <2>3 DEF Holds
  <1>6. CASE CommitFastPath(d, c)
    <2>1. Persist(fast, FoundInBucket(c))
      BY <1>6 DEF CommitFastPath
    <2>2. Extends(versions, fast.versions)
      BY <1>6, VerdictsSound DEF CommitFastPath, Admitted
    <2>3. Holds(fast.versions, c.hash)
      BY <1>5 DEF ApplyFastPath
    <2> HIDE DEF fast
    <2> QED
      BY <1>3, <2>1, <2>2, <2>3
  <1>7. CASE CommitDisplace(d, c)
    <2>1. CommitContest(c, disp)
      BY <1>7 DEF CommitDisplace
    <2>2. ContestSound(disp)
      BY <1>7, VerdictsSound DEF CommitDisplace, Admitted, IncomingWins, IsConflict
    <2>3. Holds(disp.st.versions, c.hash)
      BY <1>5 DEF DisplaceContest, Contest
    <2> HIDE DEF disp
    <2> QED
      BY <1>4, <2>1, <2>2, <2>3
  <1>8. CASE CommitLoses(d, c)
    <2>1. CommitContest(c, lose)
      BY <1>8 DEF CommitLoses
    <2>2. c.path \in DOMAIN files /\ ~UnknownParent(versions, c)
      BY <1>8 DEF CommitLoses, Admitted, HeadWins, IsConflict
    <2>3. ContestSound(lose)
      BY <2>2, VerdictsSound
    <2>4. /\ lose.loser.hash = c.hash /\ ~lose.loser.deleted /\ ~lose.loser.isFolder
          /\ lose.winner.hash = files[c.path].hash
          /\ lose.st.versions = versions
      BY <1>1 DEF LoseContest, Contest, LosingRow, HeadRow, StandingHead, Tables
    <2>5. Holds(versions, files[c.path].hash)
      BY <2>2 DEF Sound, Recorded, RowRecorded, Holds
    <2>6. \A h \in anc : Holds(versions, h)
      BY <2>2 DEF AncestorHashes, UnknownParent, Holds
    <2> HIDE DEF lose, anc
    <2>7. \/ Holds(lose.st.versions, c.hash)
          \/ NeedsCopy(lose.loser, lose.winner.hash, anc)
      BY <1>1, <2>4, <2>5, <2>6 DEF NeedsCopy
    <2> QED
      BY <1>4, <2>1, <2>3, <2>4, <2>7
  <1> QED
    BY <1>2, <1>6, <1>7, <1>8
       DEF HandleCommit, AcceptCommit, CommitMove, CommitMoveOver, CommitMoveLoses, CommitTorn,
           MoveIsFree, MoveWins, MoveLoses

\* While retention is off and every content is inline, what R2 holds and what the
\* blobs table lists stay referenced.
LEMMA ReferencedStep ==
  ASSUME ~PutFailures, RetentionOff, LargeHash = {}, TypeOK,
         Sound(files, versions), Referenced, [Next]_vars
  PROVE  Referenced'
  <1>1. ASSUME NEW st, NEW S, DrawnFrom(st, S), NEW known, Persist(st, known),
               \A h \in known : Holds(versions, h),
               \A h \in bucket' \ bucket : Holds(versions', h)
        PROVE  Referenced'
    <2>1. /\ DOMAIN versions \subseteq DOMAIN versions'
          /\ \A id \in DOMAIN versions : versions'[id] = versions[id]
          /\ \A id \in DOMAIN st.versions \ DOMAIN versions :
               id \in DOMAIN versions' /\ versions'[id] = st.versions[id]
      BY <1>1 DEF Persist, PersistedVersions
    <2>2. \A h : Holds(versions, h) => Holds(versions', h)
      BY <2>1 DEF Holds
    <2>3. DOMAIN blobs' = DOMAIN blobs \cup known
                            \cup {h \in Hash : NewReferences(st.versions, h) # {}}
      BY <1>1 DEF Persist, BumpedBlobs, UpsertedBlobs
    <2>4. ASSUME NEW h, NewReferences(st.versions, h) # {} PROVE Holds(versions', h)
      BY <2>1, <2>4 DEF NewReferences, Holds
    <2> QED
      BY <1>1, <2>2, <2>3, <2>4 DEF Referenced
  <1>2. ASSUME NEW d \in Device, Commit(d) PROVE Referenced'
    <2>1. PICK c \in CommitMsg : Sent(c) /\ HandleCommit(d, c)
      BY <1>2, CommitSent
    <2>2. ASSUME ContentKnown(c) PROVE \A h \in FoundInBucket(c) : Holds(versions, h)
      BY <2>2 DEF ContentKnown, FoundInBucket, Referenced
    <2>3. CASE CommitRefused(d, c)
      <3>1. DOMAIN blobs' = DOMAIN blobs \cup FoundInBucket(c)
        BY <2>3 DEF CommitRefused, UpsertedBlobs
      <3>2. versions' = versions /\ bucket' = bucket /\ ContentKnown(c)
        BY <2>3 DEF CommitRefused, tables
      <3> QED
        BY <2>2, <3>1, <3>2 DEF Referenced
    <2>4. CASE ~CommitRefused(d, c)
      <3>1. PICK st : /\ Verdict(st, {c.hash}) /\ Admitted(c)
                      /\ Persist(st, FoundInBucket(c)) /\ StoreInline(c)
        BY <2>1, <2>4, CommitPersists
      <3>2. \A h \in bucket' \ bucket : Holds(versions', h)
        <4>1. IsInline(c) => Holds(versions', c.hash)
          BY <2>1, <2>4, InlineHeld
        <4> QED
          BY <3>1, <4>1 DEF StoreInline
      <3> QED
        BY <1>1, <2>2, <3>1, <3>2 DEF Verdict, Admitted
    <2> QED
      BY <2>3, <2>4
  <1>3. ASSUME NEW d \in Device, NEW k \in DOMAIN snapshots, SnapshotRestore(d, k)
        PROVE  Referenced'
    <2> DEFINE st(plan) == RestoredTables(snapshots[k], plan,
                                          Cardinality(DOMAIN versions), d)
    <2>1. PICK plan \in Plans(Diverged(snapshots[k])) :
            Persist(st(plan), {}) /\ bucket' = bucket
      BY <1>3 DEF SnapshotRestore
    <2>2. DrawnFrom(st(plan), SnapshotHashes(snapshots[k]))
      BY RestoredFacts DEF Verdict
    <2> HIDE DEF st
    <2> QED
      BY <1>1, <2>1, <2>2
  <1>4. \A d \in Device, k \in DOMAIN snapshots : ~SnapshotRestoreTorn(d, k)
    BY RestoresComplete DEF HandlersComplete, Sound
  <1>5. CASE \/ SnapshotCreate \/ EventsPrune \/ GcPurge \/ UNCHANGED vars
             \/ \E h \in Hash : BucketDelete(h)
    <2>1. versions' = versions /\ bucket' \subseteq bucket
          /\ DOMAIN blobs' \subseteq DOMAIN blobs
      BY <1>5 DEF SnapshotCreate, EventsPrune, GcPurge, BucketDelete, vars, tables,
                  store
    <2> QED
      BY <2>1 DEF Referenced
  <1>6. ~RetentionRun
    BY DEF RetentionRun, RetentionOff
  <1> QED
    BY <1>2, <1>3, <1>4, <1>5, <1>6 DEF Next

\* In a vault whose contents all fit a commit, while retention is off, the
\* content of every live file is in R2 in every reachable state, with the
\* garbage collector running as it likes: exact counts of versions that are
\* never removed leave it nothing to take.
THEOREM InlineContentStored ==
  ASSUME ~PutFailures, RetentionOff, LargeHash = {}
  PROVE  Spec => []LiveContentStored
  <1>1. Init => Referenced
    BY DEF Init, Referenced, EmptyMap
  <1>2. /\ TypeOK /\ Sound(files, versions) /\ Referenced /\ [Next]_vars
        => Referenced'
    BY ReferencedStep
  <1>3. TypeOK /\ Referenced /\ RefcountsExact => ~GcPurge
    <2>1. SUFFICES ASSUME TypeOK, Referenced, RefcountsExact, NEW h \in DOMAIN blobs
                   PROVE  blobs[h] # 0
      BY DEF GcPurge
    <2>2. h \in Hash /\ blobs[h] = Cardinality(References(h))
      BY <2>1, RefcountsInTerms DEF TypeOK, Count
    <2>3. References(h) # {}
      BY <2>1 DEF Referenced, Holds, References
    <2> QED
      BY <2>1, <2>2, <2>3, ReferencesFinite, FS_EmptySet
  <1>4. Spec => []RefcountsExact
    BY RefcountsAreExact DEF HandlersComplete
  <1>5. Spec => [][~GcPurge]_vars
    BY <1>1, <1>2, <1>3, <1>4, TypeCorrect, SoundAlways, PTL DEF Spec
  <1> QED
    BY <1>5, StoredUntilCollected, PTL

-----------------------------------------------------------------------------
(* Restores *)

\* The state p shows in a table of heads: live with its content, or nothing.
Shows(heads, p, hash, isFolder) ==
  /\ p \in DOMAIN heads /\ ~heads[p].deleted
  /\ heads[p].hash = hash /\ heads[p].isFolder = isFolder

\* Two tables that show the same at every path have the same view.
LEMMA SameView ==
  ASSUME NEW f, NEW g,
         \A p \in Live(f) : Shows(g, p, f[p].hash, f[p].isFolder),
         \A p \in Live(g) : Shows(f, p, g[p].hash, g[p].isFolder)
  PROVE  LiveView(f) = LiveView(g)
  <1>1. Live(f) = Live(g)
    BY DEF Live, Shows
  <1>2. \A p \in Live(f) : f[p].hash = g[p].hash /\ f[p].isFolder = g[p].isFolder
    BY <1>1 DEF Shows
  <1> QED
    BY <1>1, <1>2 DEF LiveView

\* The head a restore gives a diverged path shows what the snapshot shows there.
LEMMA RestoredRowShows ==
  ASSUME TypeOK, NEW k \in DOMAIN snapshots, NEW p \in Diverged(snapshots[k]),
         NEW n, NEW clock
  PROVE  LET row == HeadRow(n, RestoreCommit(snapshots[k], p), clock)
         IN  /\ row.version = n /\ row.kind # "rename"
             /\ ~row.deleted <=> p \in DOMAIN snapshots[k] /\ ~snapshots[k][p].deleted
             /\ p \in DOMAIN snapshots[k] =>
                  /\ row.hash = snapshots[k][p].hash
                  /\ row.isFolder = snapshots[k][p].isFolder
  <1> DEFINE heads == snapshots[k]
             c     == RestoreCommit(heads, p)
             row   == HeadRow(n, c, clock)
  <1>1. /\ row.version = n /\ row.hash = c.hash /\ row.isFolder = c.isFolder
        /\ row.kind = c.kind
    BY DEF HeadRow
  <1>2. row.deleted <=> c.kind = "delete"
    BY DEF HeadRow
  <1>3. /\ c.kind = IF p \notin DOMAIN heads THEN "delete"
                    ELSE IF heads[p].deleted THEN "delete" ELSE "restore"
        /\ p \in DOMAIN heads => c.hash = heads[p].hash /\ c.isFolder = heads[p].isFolder
    BY DEF RestoreCommit
  <1> HIDE DEF heads, c, row
  <1>4. /\ row.version = n /\ row.kind # "rename"
        /\ ~row.deleted <=> p \in DOMAIN heads /\ ~heads[p].deleted
        /\ p \in DOMAIN heads => row.hash = heads[p].hash
                                 /\ row.isFolder = heads[p].isFolder
    BY <1>1, <1>2, <1>3
  <1> QED
    BY <1>4 DEF heads, c, row

\* A whole restore brings back the live files of its snapshot.
LEMMA RestoreShows ==
  ASSUME TypeOK, PinnedVersionsKept, NEW d \in Device, NEW k \in DOMAIN snapshots,
         SnapshotRestore(d, k)
  PROVE  LiveView(files') = LiveView(snapshots[k])
  <1> DEFINE heads == snapshots[k]
             paths == Diverged(heads)
             n     == Cardinality(DOMAIN versions)
             st(plan) == RestoredTables(heads, plan, n, d)
  <1>1. PICK plan \in Plans(paths) :
          /\ \A i \in DOMAIN plan : n + i \notin DOMAIN versions
          /\ Persist(st(plan), {})
    BY DEF SnapshotRestore
  <1> DEFINE row(i) == RestoredRow(heads, plan, n, i, d)
             after  == st(plan)
  <1>2. /\ DOMAIN after.files = DOMAIN files \cup paths
        /\ \A p \in DOMAIN files \ paths : after.files[p] = files[p]
        /\ \A i \in DOMAIN plan : after.files[plan[i]] = row(i)
        /\ DOMAIN after.changes = DOMAIN plan
        /\ \A i \in DOMAIN plan : after.changes[i] = PayloadOf(plan[i], row(i), NoPath)
        /\ \A p \in paths : \E i \in DOMAIN plan : plan[i] = p
    BY RestoredFacts
  <1>3. /\ \A i \in DOMAIN plan : plan[i] \in paths
        /\ DOMAIN plan \subseteq Nat
    BY PlanFacts
  <1>4. ASSUME NEW i \in DOMAIN plan
        PROVE  /\ row(i).version = n + i /\ row(i).kind # "rename"
               /\ ~row(i).deleted <=> plan[i] \in DOMAIN heads /\ ~heads[plan[i]].deleted
               /\ plan[i] \in DOMAIN heads =>
                    /\ row(i).hash = heads[plan[i]].hash
                    /\ row(i).isFolder = heads[plan[i]].isFolder
    <2>1. plan[i] \in Diverged(snapshots[k])
      BY <1>3
    <2> QED
      BY <2>1, RestoredRowShows DEF RestoredRow
  <1>5. files' = PersistedFiles(after.files, after.changes)
    BY <1>1 DEF Persist
  <1> HIDE DEF after, st, row
  <1>6. RenamedAway(after.changes) = {}
    <2>1. \A i \in DOMAIN plan : after.changes[i].kind = row(i).kind
      <3>1. \A p, x : PayloadOf(p, x, NoPath).kind = x.kind
        BY DEF PayloadOf
      <3> QED
        BY <1>2, <3>1
    <2> QED
      BY <1>2, <1>4, <2>1 DEF RenamedAway
  <1>7. /\ DOMAIN files' = DOMAIN files \cup paths
        /\ \A p \in DOMAIN files' : files'[p] = PersistedRow(p, after.files[p])
    BY <1>2, <1>5, <1>6 DEF PersistedFiles
  <1>8. ASSUME NEW i \in DOMAIN plan PROVE files'[plan[i]] = row(i)
    <2>1. plan[i] \in DOMAIN files => files[plan[i]].version # n + i
      BY <1>1 DEF PinnedVersionsKept, Pinned
    <2>2. plan[i] \in DOMAIN files'
      BY <1>3, <1>7
    <2> QED
      BY <1>2, <1>4, <1>7, <2>1, <2>2 DEF PersistedRow
  <1>9. ASSUME NEW p \in DOMAIN files \ paths PROVE files'[p] = files[p]
    BY <1>2, <1>7 DEF PersistedRow
  <1>10. ASSUME NEW p, p \notin paths
         PROVE  /\ p \in Live(heads) => Shows(files, p, heads[p].hash, heads[p].isFolder)
                /\ p \in Live(files) => Shows(heads, p, files[p].hash, files[p].isFolder)
    <2>1. p \in DOMAIN files => files[p].deleted \in BOOLEAN
      BY DEF TypeOK, Row
    <2>2. p \in DOMAIN heads => heads[p].deleted \in BOOLEAN
      <3>1. heads \in Snapshot
        BY DEF TypeOK
      <3> QED
        BY <3>1 DEF Snapshot, HeadRecord
    <2> HIDE DEF heads
    <2> QED
      BY <1>10, <2>1, <2>2 DEF Diverged, MatchesSnapshot, Live, Shows, paths
  <1> HIDE DEF heads, paths
  <1>11. ASSUME NEW p \in Live(files')
         PROVE  Shows(heads, p, files'[p].hash, files'[p].isFolder)
    <2>1. CASE p \in paths
      <3>1. PICK i \in DOMAIN plan : plan[i] = p
        BY <1>2, <2>1
      <3> QED
        BY <1>4, <1>8, <3>1 DEF Live, Shows
    <2>2. CASE p \notin paths
      BY <1>7, <1>9, <1>10, <2>2 DEF Live
    <2> QED
      BY <2>1, <2>2
  <1>12. ASSUME NEW p \in Live(heads)
         PROVE  Shows(files', p, heads[p].hash, heads[p].isFolder)
    <2>1. CASE p \in paths
      <3>1. PICK i \in DOMAIN plan : plan[i] = p
        BY <1>2, <2>1
      <3>2. p \in DOMAIN files'
        BY <1>7, <2>1
      <3> QED
        BY <1>4, <1>8, <3>1, <3>2 DEF Live, Shows
    <2>2. CASE p \notin paths
      BY <1>7, <1>9, <1>10, <2>2 DEF Live, Shows
    <2> QED
      BY <2>1, <2>2
  <1> QED
    BY <1>11, <1>12, SameView DEF heads

\* A restore that completes makes the vault show exactly what its snapshot
\* showed, whatever happened in between and whatever retention has removed:
\* every path live in one is live in the other, with the same content.
THEOREM RestoreIsExact == Spec => RestoreReproducesSnapshot
  <1> DEFINE Exact == \A d \in Device, k \in DOMAIN snapshots :
                        SnapshotRestore(d, k) =>
                          LiveView(files') = LiveView(snapshots[k])
  <1>1. TypeOK /\ PinnedVersionsKept => Exact
    BY RestoreShows
  <1>2. RestoreReproducesSnapshot <=> [][Exact]_vars
    BY PTL DEF RestoreReproducesSnapshot
  <1> HIDE DEF Exact
  <1>3. TypeOK /\ PinnedVersionsKept /\ [Next]_vars => [Exact]_vars
    BY <1>1
  <1> QED
    BY <1>2, <1>3, TypeCorrect, PinnedKept, PTL DEF Spec

-----------------------------------------------------------------------------
(* Commits sent again *)

\* No head is the version that a rename was built on: a move takes it away.
RenamesSpent ==
  \A id \in DOMAIN versions : versions[id].kind = "rename" =>
    \A q \in DOMAIN files : files[q].version # versions[id].parent

\* A row of a verdict is one that was there or has a fresh id, and no row is the
\* version that a new rename was built on.
Spends(st) ==
  /\ \A p \in DOMAIN st.files :
       \/ p \in DOMAIN files /\ st.files[p] = files[p]
       \/ st.files[p].version \notin DOMAIN versions
  /\ \A id \in DOMAIN st.versions \ DOMAIN versions :
       st.versions[id].kind = "rename" =>
         /\ st.versions[id].parent \in DOMAIN versions
         /\ \A q \in DOMAIN st.files : st.files[q].version # st.versions[id].parent

\* Persisting such a verdict, whole or broken off.
LEMMA PersistSpends ==
  ASSUME Sound(files, versions), RenamesSpent, NEW st, FilesOK(st.files), Spends(st),
         Extends(versions, st.versions), NEW changes,
         files' = PersistedFiles(st.files, changes),
         versions' = PersistedVersions(st.versions)
  PROVE  RenamesSpent'
  <1>1. /\ DOMAIN versions' = DOMAIN st.versions
        /\ \A id \in DOMAIN versions : versions'[id] = versions[id]
        /\ \A id \in DOMAIN st.versions : versions'[id] = st.versions[id]
    BY DEF PersistedVersions, Extends
  <1>2. ASSUME NEW q \in DOMAIN files'
        PROVE  q \in DOMAIN st.files /\ files'[q].version = st.files[q].version
    BY DEF PersistedFiles, PersistedRow
  <1>3. ASSUME NEW id \in DOMAIN versions', versions'[id].kind = "rename",
               NEW q \in DOMAIN files'
        PROVE  files'[q].version # versions'[id].parent
    <2>1. CASE id \in DOMAIN versions
      <3>1. versions'[id] = versions[id]
            /\ versions[id].parent \in DOMAIN versions \cup {NoVersion}
        BY <1>1, <2>1 DEF Sound, Chained, Follows
      <3>2. st.files[q].version # NoVersion
        BY <1>2 DEF FilesOK, Row, VersionId, NoVersion
      <3>3. q \in DOMAIN files => files[q].version # versions[id].parent
        BY <1>3, <2>1, <3>1 DEF RenamesSpent
      <3> QED
        BY <1>2, <3>1, <3>2, <3>3 DEF Spends
    <2>2. CASE id \notin DOMAIN versions
      BY <1>1, <1>2, <1>3, <2>2 DEF Spends
    <2> QED
      BY <2>1, <2>2
  <1> QED
    BY <1>3 DEF RenamesSpent

\* A new head, with the source's row gone when the commit moved its head.
LEMMA AdvanceSpends ==
  ASSUME TypeOK, Sound(files, versions), NEW c \in CommitMsg, Sent(c),
         ~UnknownParent(versions, c), NEW clock, NEW gone,
         c.kind = "rename" /\ c.from \in DOMAIN files \ gone =>
           files[c.from].version # c.parent,
         NEW from, NEW now
  PROVE  Spends(Advance(files, versions, c, clock, gone, from, now))
  <1> DEFINE row  == WinningRow(versions, c, clock)
             kept == [p \in DOMAIN files \ gone |-> files[p]]
             ver  == VersionOf(c.path, row, c.parent, now)
             f    == MapSet(kept, c.path, row)
             v    == MapSet(versions, row.version, ver)
             st   == Advance(files, versions, c, clock, gone, from, now)
  <1>1. st.files = f /\ st.versions = v
    BY DEF Advance, Tables
  <1>2. /\ row.version = MintId(versions) /\ ver.kind = c.kind
        /\ ver.parent = c.parent
    BY DEF WinningRow, HeadRow, VersionOf
  <1>3. MintId(versions) \notin DOMAIN versions
    BY MintIdFresh DEF Sound
  <1>4. /\ DOMAIN f = (DOMAIN files \ gone) \cup {c.path} /\ f[c.path] = row
        /\ \A p \in DOMAIN files \ gone : p # c.path => f[p] = files[p]
    <2> HIDE DEF row
    <2> QED
      BY DEF MapSet
  <1>5. DOMAIN v = DOMAIN versions \cup {row.version} /\ v[row.version] = ver
    <2> HIDE DEF row, ver
    <2> QED
      BY DEF MapSet
  <1> HIDE DEF row, ver, f, v, st
  <1>6. ASSUME c.kind = "rename"
        PROVE  /\ c.parent \in DOMAIN versions
               /\ \A q \in DOMAIN files \ gone : files[q].version # c.parent
    <2>1. c.parent \in DOMAIN versions /\ versions[c.parent].path = c.from
      BY <1>6 DEF Sent, UnknownParent
    <2>2. \A q \in DOMAIN files : versions[files[q].version].path = q
      BY DEF Sound, Recorded, RowRecorded
    <2> QED
      BY <1>6, <2>1, <2>2
  <1>7. ASSUME NEW id \in DOMAIN v \ DOMAIN versions, v[id].kind = "rename"
        PROVE  /\ v[id].parent \in DOMAIN versions
               /\ \A q \in DOMAIN f : f[q].version # v[id].parent
    <2>1. id = row.version /\ v[id] = ver /\ c.kind = "rename"
      BY <1>2, <1>5, <1>7
    <2> QED
      BY <1>2, <1>3, <1>4, <1>6, <2>1
  <1>8. Spends(st)
    BY <1>1, <1>2, <1>3, <1>4, <1>7 DEF Spends
  <1> QED
    BY <1>8 DEF st

\* The copy of a loser has a fresh id and is no rename.
LEMMA PreserveLoserSpends ==
  ASSUME NEW con, ContestSound(con), Spends(con.st), NEW c \in CommitMsg, NEW anc,
         NEW now, ~CopyBlocked(con, c, anc)
  PROVE  Spends(PreserveLoser(con, c, anc, now))
  <1> DEFINE st   == PreserveLoser(con, c, anc, now)
             path == ConflictCopyPath(con.st.files, c.path, con.loser.clock.dev)
             id   == MintId(con.st.versions)
             row  == CopyRow(id, con.loser, con.winner)
             ver  == VersionOf(path, row, con.winner.version, now)
             f    == MapSet(con.st.files, path, row)
             v    == MapSet(con.st.versions, id, ver)
  <1>1. CASE ~NeedsCopy(con.loser, con.winner.hash, anc)
    BY <1>1 DEF PreserveLoser
  <1>2. CASE NeedsCopy(con.loser, con.winner.hash, anc)
    <2>1. st.files = f /\ st.versions = v
      BY <1>2 DEF PreserveLoser, Tables
    <2>2. row.version = id /\ ver.kind = "conflictCopy"
      BY DEF CopyRow, VersionOf
    <2>3. id \notin DOMAIN con.st.versions
      BY MintIdFresh DEF ContestSound, Sound
    <2>4. DOMAIN versions \subseteq DOMAIN con.st.versions
      BY DEF ContestSound, Extends
    <2> HIDE DEF path, id, row, ver
    <2>5. /\ DOMAIN f = DOMAIN con.st.files \cup {path} /\ f[path] = row
          /\ \A p \in DOMAIN con.st.files : p # path => f[p] = con.st.files[p]
      BY DEF MapSet
    <2>6. /\ DOMAIN v = DOMAIN con.st.versions \cup {id} /\ v[id] = ver
          /\ \A j \in DOMAIN con.st.versions : j # id => v[j] = con.st.versions[j]
      BY DEF MapSet
    <2> HIDE DEF f, v, st
    <2>7. ASSUME NEW j \in DOMAIN v \ DOMAIN versions, v[j].kind = "rename"
          PROVE  /\ v[j].parent \in DOMAIN versions
                 /\ \A q \in DOMAIN f : f[q].version # v[j].parent
      <3>1. j \in DOMAIN con.st.versions /\ v[j] = con.st.versions[j]
        BY <2>2, <2>3, <2>6, <2>7
      <3>2. /\ v[j].parent \in DOMAIN versions
            /\ \A q \in DOMAIN con.st.files : con.st.files[q].version # v[j].parent
        BY <2>7, <3>1 DEF Spends
      <3> QED
        BY <2>2, <2>3, <2>4, <2>5, <3>2
    <2>8. ASSUME NEW p \in DOMAIN f
          PROVE  \/ p \in DOMAIN files /\ f[p] = files[p]
                 \/ f[p].version \notin DOMAIN versions
      BY <2>2, <2>3, <2>4, <2>5 DEF Spends
    <2>9. Spends(st)
      BY <2>1, <2>7, <2>8 DEF Spends
    <2> QED
      BY <2>9 DEF st
  <1> QED
    BY <1>1, <1>2

\* A commit on whichever branch, whole or broken off.
LEMMA HandleCommitSpends ==
  ASSUME TypeOK, Sound(files, versions), RenamesSpent, NEW c \in CommitMsg, Sent(c),
         NEW d \in Device, HandleCommit(d, c)
  PROVE  RenamesSpent'
  <1> DEFINE now   == seq + 1
             anc   == AncestorHashes(versions, c)
             fast  == ApplyFastPath(files, versions, c, d, now)
             move  == ApplyMigration(files, versions, c, d, now)
             over  == MoveContest(files, versions, c, d, now)
             disp  == DisplaceContest(files, versions, c, d, now)
             lose  == LoseContest(files, versions, c, d)
             stand == StandingHead(files, versions, c, d)
             Good(st) == Sound(st.files, st.versions) /\ Extends(versions, st.versions)
  <1>1. CASE CommitRefused(d, c)
    BY <1>1 DEF CommitRefused, tables, RenamesSpent
  <1>2. CASE ~CommitRefused(d, c)
    <2>1. ~UnknownParent(versions, c) /\ now \in Nat
      BY <1>2 DEF HandleCommit, AcceptCommit, CommitFastPath, CommitMove, CommitMoveOver,
           CommitDisplace, CommitLoses, CommitMoveLoses, CommitTorn, Admitted, TypeOK
    <2>2. IsFastPath(files, c) => Spends(fast)
      BY <2>1, AdvanceSpends DEF ApplyFastPath, IsFastPath, MovesHead
    <2>3. MovesHead(files, c) => Spends(move) /\ Spends(over.st)
      BY <2>1, AdvanceSpends DEF ApplyMigration, MoveContest, Contest
    <2>4. Spends(disp.st)
      BY <2>1, AdvanceSpends DEF DisplaceContest, Contest
    <2>5. Spends(stand) /\ Spends(lose.st)
      BY DEF StandingHead, LoseContest, Contest, Tables, Spends
    <2>6. /\ IsFastPath(files, c) => Good(fast)
          /\ MovesHead(files, c) => Good(move)
          /\ MovesHead(files, c) /\ c.path \in DOMAIN files => ContestSound(over)
          /\ c.path \in DOMAIN files =>
               ContestSound(disp) /\ Good(stand) /\ ContestSound(lose)
      BY <2>1, VerdictsSound
    <2> HIDE DEF now, anc, fast, move, over, disp, lose, stand
    <2>7. ASSUME NEW st, Good(st), Spends(st),
                 Persist(st, FoundInBucket(c)) \/ PersistOnly(st)
          PROVE  RenamesSpent'
      BY <2>7, PersistSpends DEF Persist, PersistOnly, Sound
    <2>8. ASSUME NEW con, ContestSound(con), Spends(con.st),
                 CommitContest(c, con) \/ TornContest(c, con)
          PROVE  RenamesSpent'
      <3> DEFINE st == PreserveLoser(con, c, anc, now)
      <3>1. /\ ~CopyBlocked(con, c, anc)
            /\ Persist(st, FoundInBucket(c)) \/ PersistOnly(st)
        BY <2>8 DEF CommitContest, TornContest, anc, now
      <3>2. Spends(st) /\ Good(st)
        BY <2>1, <2>8, <3>1, PreserveLoserSpends, PreserveLoserSound
      <3> HIDE DEF st, Good
      <3> QED
        BY <2>7, <3>1, <3>2
    <2> HIDE DEF Good
    <2>9. CASE CommitFastPath(d, c)
      <3>1. IsFastPath(files, c) /\ Persist(fast, FoundInBucket(c))
        BY <2>9 DEF CommitFastPath, fast, now
      <3> QED
        BY <2>2, <2>6, <2>7, <3>1
    <2>10. CASE CommitMove(d, c)
      <3>1. MovesHead(files, c) /\ Persist(move, FoundInBucket(c))
        BY <2>10 DEF CommitMove, MoveIsFree, move, now
      <3> QED
        BY <2>3, <2>6, <2>7, <3>1
    <2>11. CASE CommitMoveOver(d, c)
      <3>1. MovesHead(files, c) /\ c.path \in DOMAIN files /\ CommitContest(c, over)
        BY <2>11 DEF CommitMoveOver, MoveWins, over, now
      <3> QED
        BY <2>3, <2>6, <2>8, <3>1
    <2>12. CASE CommitDisplace(d, c)
      <3>1. c.path \in DOMAIN files /\ CommitContest(c, disp)
        BY <2>12 DEF CommitDisplace, IncomingWins, IsConflict, disp, now
      <3> QED
        BY <2>4, <2>6, <2>8, <3>1
    <2>13. CASE CommitLoses(d, c)
      <3>1. c.path \in DOMAIN files /\ CommitContest(c, lose)
        BY <2>13 DEF CommitLoses, HeadWins, IsConflict, lose
      <3> QED
        BY <2>5, <2>6, <2>8, <3>1
    <2>14. CASE CommitMoveLoses(d, c)
      <3>1. c.path \in DOMAIN files /\ Persist(stand, FoundInBucket(c))
        BY <2>14 DEF CommitMoveLoses, MoveLoses, stand
      <3> QED
        BY <2>5, <2>6, <2>7, <3>1
    <2>15. CASE CommitTorn(d, c)
      <3>1. \/ IsFastPath(files, c) /\ PersistOnly(fast)
            \/ c.path \in DOMAIN files /\ TornContest(c, disp)
            \/ c.path \in DOMAIN files /\ TornContest(c, lose)
        BY <2>15 DEF CommitTorn, IncomingWins, HeadWins, IsConflict, fast, disp,
                     lose, now
      <3> QED
        BY <2>2, <2>4, <2>5, <2>6, <2>7, <2>8, <3>1
    <2> QED
      BY <1>2, <2>9, <2>10, <2>11, <2>12, <2>13, <2>14, <2>15 DEF HandleCommit, AcceptCommit
  <1> QED
    BY <1>1, <1>2

\* A restore makes no rename, and only fresh ids.
LEMMA RestoreSpends ==
  ASSUME TypeOK, Sound(files, versions), RenamesSpent, NEW d \in Device,
         NEW k \in DOMAIN snapshots, SnapshotRestore(d, k)
  PROVE  RenamesSpent'
  <1> DEFINE heads    == snapshots[k]
             n        == Cardinality(DOMAIN versions)
             st(plan) == RestoredTables(heads, plan, n, d)
  <1>1. PICK plan \in Plans(Diverged(heads)) :
          /\ \A i \in DOMAIN plan : n + i \notin DOMAIN versions
          /\ Persist(st(plan), {})
    BY DEF SnapshotRestore
  <1> DEFINE row(i) == RestoredRow(heads, plan, n, i, d)
             r(i)   == VersionOf(plan[i], row(i),
                                 RestoreCommit(heads, plan[i]).parent, seq + 1)
             after  == st(plan)
  <1>2. /\ Sound(after.files, after.versions) /\ Extends(versions, after.versions)
    BY PlanFacts, RestoredTablesSound
  <1>3. /\ DOMAIN after.files = DOMAIN files \cup Diverged(heads)
        /\ \A p \in DOMAIN files \ Diverged(heads) : after.files[p] = files[p]
        /\ \A i \in DOMAIN plan : after.files[plan[i]] = row(i)
        /\ \A p \in Diverged(heads) : \E i \in DOMAIN plan : plan[i] = p
    BY RestoredFacts
  <1>4. /\ n \in Nat /\ DOMAIN plan \subseteq Nat
        /\ \A i \in DOMAIN plan : plan[i] \in Diverged(heads)
    BY PlanFacts, FS_CardinalityType DEF TypeOK
  <1>5. \A i \in DOMAIN plan : row(i).version = n + i /\ row(i).kind # "rename"
    BY <1>4, RestoredRowShows DEF RestoredRow
  <1>6. /\ DOMAIN after.versions = DOMAIN versions \cup {n + i : i \in DOMAIN plan}
        /\ \A id \in DOMAIN after.versions \ DOMAIN versions :
             after.versions[id] = r(id - n)
    BY DEF RestoredTables, Tables
  <1>7. \A i \in DOMAIN plan : r(i).kind = row(i).kind
    BY DEF VersionOf
  <1>8. /\ files' = PersistedFiles(after.files, after.changes)
        /\ versions' = PersistedVersions(after.versions)
    BY <1>1 DEF Persist
  <1> HIDE DEF after, st, row, r, n, heads
  <1>9. ASSUME NEW id \in DOMAIN after.versions \ DOMAIN versions
        PROVE  after.versions[id].kind # "rename"
    <2>1. PICK i \in DOMAIN plan : id = n + i
      BY <1>6
    <2>2. id - n = i
      BY <1>4, <2>1
    <2> QED
      BY <1>5, <1>6, <1>7, <2>2
  <1>10. ASSUME NEW p \in DOMAIN after.files
         PROVE  \/ p \in DOMAIN files /\ after.files[p] = files[p]
                \/ after.files[p].version \notin DOMAIN versions
    <2>1. CASE p \in Diverged(heads)
      <3>1. PICK i \in DOMAIN plan : plan[i] = p
        BY <1>3, <2>1
      <3> QED
        BY <1>1, <1>3, <1>5, <3>1
    <2>2. CASE p \notin Diverged(heads)
      BY <1>3, <2>2
    <2> QED
      BY <2>1, <2>2
  <1>11. Spends(after)
    BY <1>9, <1>10 DEF Spends
  <1> QED
    BY <1>2, <1>8, <1>11, PersistSpends DEF Sound

\* While retention is off, no head is ever what a rename was built on.
LEMMA RenamesAlwaysSpent ==
  ASSUME RetentionOff
  PROVE  Spec => []RenamesSpent
  <1>1. Init => RenamesSpent
    BY DEF Init, RenamesSpent, EmptyMap
  <1>2. TypeOK /\ Sound(files, versions) /\ RenamesSpent /\ [Next]_vars
        => RenamesSpent'
    <2>1. SUFFICES ASSUME TypeOK, Sound(files, versions), RenamesSpent, [Next]_vars
                   PROVE  RenamesSpent'
      OBVIOUS
    <2>2. ASSUME NEW d \in Device, Commit(d) PROVE RenamesSpent'
      BY <2>1, <2>2, CommitSent, HandleCommitSpends
    <2>3. \A d \in Device, k \in DOMAIN snapshots : ~SnapshotRestoreTorn(d, k)
      BY <2>1, RestoresComplete DEF Sound
    <2>4. CASE \/ SnapshotCreate \/ EventsPrune \/ RetentionRun \/ GcPurge
               \/ \E h \in LargeHash : PutBlob(h) \/ BlobPut(h) \/ BlobUploaded(h)
               \/ \E h \in Hash : BucketDelete(h)
               \/ UNCHANGED vars
      <3>1. UNCHANGED <<files, versions>>
        BY <2>4 DEF RetentionOff, SnapshotCreate, EventsPrune, RetentionRun, GcPurge,
             PutBlob, BlobPut, BlobUploaded, BucketDelete, tables, vars
      <3> QED
        BY <2>1, <3>1 DEF RenamesSpent
    <2> QED
      BY <2>1, <2>2, <2>3, <2>4, RestoreSpends DEF Next
  <1> QED
    BY <1>1, <1>2, TypeCorrect, SoundAlways, PTL DEF Spec

\* Both tables are maps.
AreMaps ==
  /\ files = [p \in DOMAIN files |-> files[p]]
  /\ versions = [id \in DOMAIN versions |-> versions[id]]

\* They always are.
LEMMA AlwaysMaps == Spec => []AreMaps
  <1>1. Init => AreMaps
    BY DEF Init, AreMaps, EmptyMap
  <1>2. TypeOK /\ AreMaps /\ [Next]_vars => AreMaps'
    <2>1. SUFFICES ASSUME TypeOK, AreMaps, [Next]_vars PROVE AreMaps'
      OBVIOUS
    <2>2. ASSUME NEW f, NEW v, NEW changes, files' = PersistedFiles(f, changes),
                 versions' = PersistedVersions(v)
          PROVE  AreMaps'
      BY <2>2 DEF PersistedFiles, PersistedVersions, AreMaps
    <2>3. ASSUME NEW st, \E known : Persist(st, known) \/ PersistOnly(st)
          PROVE  AreMaps'
      BY <2>2, <2>3 DEF Persist, PersistOnly
    <2>4. ASSUME UNCHANGED <<files, versions>> PROVE AreMaps'
      BY <2>1, <2>4 DEF AreMaps
    <2>5. ASSUME NEW d \in Device, Commit(d) PROVE AreMaps'
      <3>1. PICK c : HandleCommit(d, c)
        BY <2>5 DEF Commit
      <3>2. \/ \E st, known : Persist(st, known) \/ PersistOnly(st)
            \/ CommitRefused(d, c)
        BY <3>1, Zenon
           DEF HandleCommit, AcceptCommit, CommitFastPath, CommitMove, CommitMoveOver,
               CommitDisplace, CommitLoses, CommitMoveLoses, CommitContest,
               CommitTorn, TornContest
      <3>3. CommitRefused(d, c) => UNCHANGED <<files, versions>>
        BY DEF CommitRefused, tables
      <3> QED
        BY <2>3, <2>4, <3>2, <3>3
    <2>6. ASSUME NEW d, NEW k, SnapshotRestore(d, k) \/ SnapshotRestoreTorn(d, k)
          PROVE  AreMaps'
      <3>1. \E st, known : Persist(st, known) \/ PersistOnly(st)
        BY <2>6, Zenon DEF SnapshotRestore, SnapshotRestoreTorn
      <3> QED
        BY <2>3, <3>1
    <2>7. CASE RetentionRun
      <3>1. files' = files
        BY <2>7 DEF RetentionRun
      <3>2. PICK S : versions' = [id \in S |-> versions[id]]
        BY <2>7 DEF RetentionRun
      <3> QED
        BY <2>1, <3>1, <3>2 DEF AreMaps
    <2>8. CASE \/ SnapshotCreate \/ EventsPrune \/ GcPurge
               \/ \E h \in LargeHash : PutBlob(h) \/ BlobPut(h) \/ BlobUploaded(h)
               \/ \E h \in Hash : BucketDelete(h)
               \/ UNCHANGED vars
      BY <2>4, <2>8 DEF SnapshotCreate, EventsPrune, GcPurge, PutBlob, BlobPut,
                        BlobUploaded, BucketDelete, tables, vars
    <2> QED
      BY <2>1, <2>5, <2>6, <2>7, <2>8 DEF Next
  <1> QED
    BY <1>1, <1>2, TypeCorrect, PTL DEF Spec

\* The commit that made a head, sent again, finds its own head in its place: it
\* moves nothing, is not built on the head, and its clock is the head's.
LEMMA RetryFindsItself ==
  ASSUME TypeOK, Sound(files, versions), RenamesSpent, NEW p \in DOMAIN files
  PROVE  LET c == RetryOf(p)
             d == files[p].clock.dev
         IN  /\ c.path = p /\ c.hash = files[p].hash
             /\ ~MovesHead(files, c)
             /\ ~IsFastPath(files, c)
             /\ ~IncomingWins(files, versions, c, d)
  <1> DEFINE v == versions[files[p].version]
             c == RetryOf(p)
             d == files[p].clock.dev
  <1>1. /\ files[p].version \in DOMAIN versions /\ files[p].version # NoVersion
        /\ v.hash = files[p].hash /\ v.clock = files[p].clock
        /\ v.clock = NextClock(ParentCounter(versions, v), v.clock.dev)
    BY DEF Sound, Recorded, RowRecorded, Chained, Follows, VersionsOK, VersionId,
           NoVersion
  <1>2. files[p].clock.counter \in Nat /\ d \in Nat /\ v.clock.counter \in Nat
    BY <1>1, DeviceAssumption DEF TypeOK, Row, Clock
  <1>3. c.path = p /\ c.parent = v.parent /\ c.hash = v.hash /\ c.kind = v.kind
    BY DEF RetryOf
  <1> HIDE DEF c
  <1>4. v.parent # files[p].version
    <2>1. v.clock.counter = ParentCounter(versions, v) + 1
      BY <1>1 DEF NextClock
    <2>2. v.parent = files[p].version => ParentCounter(versions, v) = v.clock.counter
      BY <1>1 DEF ParentCounter
    <2> HIDE DEF v
    <2> QED
      BY <1>2, <2>1, <2>2
  <1>5. ~MovesHead(files, c)
    BY <1>1, <1>3 DEF MovesHead, RenamesSpent
  <1>6. ~IsFastPath(files, c)
    BY <1>3, <1>4 DEF IsFastPath
  <1>7. ~IncomingWins(files, versions, c, d)
    <2>1. ParentCounter(versions, c) = ParentCounter(versions, v)
      BY <1>3 DEF ParentCounter
    <2>2. IncomingClock(versions, c, d) = files[p].clock
      BY <1>1, <2>1 DEF IncomingClock
    <2>3. ~Later(files[p].clock, files[p].clock)
      BY <1>2 DEF Later
    <2> QED
      BY <1>3, <2>2, <2>3 DEF IncomingWins
  <1> QED
    BY <1>1, <1>3, <1>5, <1>6, <1>7 DEF c

\* Nothing is lost by it, and the standing head is announced to its author.
LEMMA RetryKeepsHead ==
  ASSUME TypeOK, Sound(files, versions), RenamesSpent, NEW p \in DOMAIN files
  PROVE  LET c   == RetryOf(p)
             d   == files[p].clock.dev
             con == LoseContest(files, versions, c, d)
         IN  \A anc, now :
               PreserveLoser(con, c, anc, now) =
                 Tables(files, versions, <<PayloadOf(p, files[p], NoPath)>>)
  <1> DEFINE c   == RetryOf(p)
             d   == files[p].clock.dev
             con == LoseContest(files, versions, c, d)
  <1>1. c.path = p /\ c.hash = files[p].hash
    BY RetryFindsItself
  <1> HIDE DEF c
  <1>2. con.loser.hash = files[p].hash /\ con.winner.hash = files[p].hash
    BY <1>1 DEF LoseContest, Contest, LosingRow, HeadRow
  <1>3. con.st = Tables(files, versions, <<PayloadOf(p, files[p], NoPath)>>)
    BY <1>1 DEF LoseContest, Contest, StandingHead
  <1> HIDE DEF con
  <1>4. ASSUME NEW anc, NEW now
        PROVE  PreserveLoser(con, c, anc, now) = con.st
    BY <1>2 DEF PreserveLoser, NeedsCopy
  <1> QED
    BY <1>3, <1>4 DEF con, c

\* Persisting the tables as they are, with the standing head announced.
LEMMA PersistStanding ==
  ASSUME TypeOK, AreMaps, NEW p \in DOMAIN files, NEW changes,
         changes \in {<<>>, <<PayloadOf(p, files[p], NoPath)>>}
  PROVE  /\ PersistedFiles(files, changes) = files
         /\ PersistedVersions(versions) = versions
  <1> DEFINE e == PayloadOf(p, files[p], NoPath)
  <1>1. e.from = NoPath
    BY DEF PayloadOf
  <1>2. \A i \in DOMAIN changes : changes[i] = e
    <2> HIDE DEF e
    <2> QED
      BY DEF e
  <1> HIDE DEF e
  <1>3. RenamedAway(changes) \subseteq {NoPath}
    BY <1>1, <1>2 DEF RenamedAway
  <1>4. DOMAIN files \ RenamedAway(changes) = DOMAIN files
    BY <1>3, PathAssumption DEF TypeOK
  <1>5. PersistedFiles(files, changes) = [q \in DOMAIN files |-> files[q]]
    BY <1>4 DEF PersistedFiles, PersistedRow
  <1>6. PersistedVersions(versions) = [id \in DOMAIN versions |-> versions[id]]
    BY DEF PersistedVersions
  <1> QED
    BY <1>5, <1>6 DEF AreMaps

\* What the room does with it: the tables as they are are persisted, whole or
\* broken off, or the commit is refused.
LEMMA RetryPersists ==
  ASSUME TypeOK, Sound(files, versions), RenamesSpent, NEW p \in DOMAIN files,
         HandleCommit(files[p].clock.dev, RetryOf(p))
  PROVE  LET c  == RetryOf(p)
             st == Tables(files, versions, <<PayloadOf(p, files[p], NoPath)>>)
         IN  \/ \E known : Persist(st, known)
             \/ PersistOnly(st)
             \/ CommitRefused(files[p].clock.dev, c)
  <1> DEFINE c  == RetryOf(p)
             d  == files[p].clock.dev
             st == Tables(files, versions, <<PayloadOf(p, files[p], NoPath)>>)
             con == LoseContest(files, versions, c, d)
  <1>1. /\ ~MovesHead(files, c)
        /\ ~IsFastPath(files, c)
        /\ ~IncomingWins(files, versions, c, d)
    BY RetryFindsItself
  <1>2. \A anc, now : PreserveLoser(con, c, anc, now) = st
    BY RetryKeepsHead
  <1>3. HandleCommit(d, c)
    OBVIOUS
  <1> HIDE DEF c, d, st, con
  <1>4. /\ ~CommitFastPath(d, c) /\ ~CommitMove(d, c) /\ ~CommitMoveOver(d, c)
        /\ ~CommitDisplace(d, c) /\ ~CommitMoveLoses(d, c)
    BY <1>1 DEF CommitFastPath, CommitMove, CommitMoveOver, CommitDisplace,
                CommitMoveLoses, MoveIsFree, MoveWins, MoveLoses
  <1>5. CommitLoses(d, c) => Persist(st, FoundInBucket(c))
    BY <1>2 DEF CommitLoses, CommitContest, con
  <1>6. CommitTorn(d, c) => PersistOnly(st)
    BY <1>1, <1>2 DEF CommitTorn, TornContest, con
  <1>7. CommitLoses(d, c) \/ CommitTorn(d, c) \/ CommitRefused(d, c)
    BY <1>3, <1>4 DEF HandleCommit, AcceptCommit
  <1> QED
    BY <1>5, <1>6, <1>7 DEF c, d, st

\* A commit whose answer was lost may be sent again while it is still the head:
\* whatever kind of commit it was, and whether the room completes it this time or
\* not, neither the heads nor the versions change.  Retention is off: an id that
\* it frees is minted again, for a version that need not be the retried one's parent.
THEOREM RetriesAreIdempotent ==
  ASSUME RetentionOff
  PROVE  Spec => RetryIsIdempotent
  <1> DEFINE Idle == \A p \in DOMAIN files :
                       HandleCommit(files[p].clock.dev, RetryOf(p))
                         => UNCHANGED <<files, versions>>
  <1>1. TypeOK /\ Sound(files, versions) /\ RenamesSpent /\ AreMaps => Idle
    <2>1. SUFFICES ASSUME TypeOK, Sound(files, versions), RenamesSpent, AreMaps,
                          NEW p \in DOMAIN files,
                          HandleCommit(files[p].clock.dev, RetryOf(p))
                   PROVE  files' = files /\ versions' = versions
      OBVIOUS
    <2> DEFINE changes == <<PayloadOf(p, files[p], NoPath)>>
               st      == Tables(files, versions, changes)
    <2>2. /\ PersistedFiles(files, changes) = files
          /\ PersistedFiles(files, <<>>) = files
          /\ PersistedVersions(versions) = versions
      BY <2>1, PersistStanding
    <2>3. st.files = files /\ st.versions = versions /\ st.changes = changes
      BY DEF Tables
    <2>4. \/ \E known : Persist(st, known)
          \/ PersistOnly(st)
          \/ CommitRefused(files[p].clock.dev, RetryOf(p))
      BY <2>1, RetryPersists
    <2> HIDE DEF changes, st
    <2>5. ASSUME NEW known, Persist(st, known)
          PROVE  files' = files /\ versions' = versions
      BY <2>2, <2>3, <2>5 DEF Persist
    <2>6. CASE PersistOnly(st)
      BY <2>2, <2>3, <2>6 DEF PersistOnly
    <2>7. CASE CommitRefused(files[p].clock.dev, RetryOf(p))
      BY <2>7 DEF CommitRefused, tables
    <2> QED
      BY <2>4, <2>5, <2>6, <2>7
  <1>2. RetryIsIdempotent <=> [][Idle]_vars
    BY PTL DEF RetryIsIdempotent
  <1> HIDE DEF Idle
  <1>3. TypeOK /\ Sound(files, versions) /\ RenamesSpent /\ AreMaps /\ [Next]_vars
        => [Idle]_vars
    BY <1>1
  <1> QED
    BY <1>2, <1>3, TypeCorrect, SoundAlways, RenamesAlwaysSpent, AlwaysMaps, PTL
       DEF Spec

\* And it heals the log: a commit that broke off after its head was written and
\* before its change was logged is announced when its author sends it again.
THEOREM RetriesAnnounce ==
  ASSUME RetentionOff
  PROVE  Spec => RetryAnnounces
  <1> DEFINE Heals == \A p \in DOMAIN files :
                        LET d == files[p].clock.dev
                            c == RetryOf(p)
                        IN  CommitFastPath(d, c) \/ CommitDisplace(d, c)
                              \/ CommitLoses(d, c) => Announced(p)'
  <1>1. TypeOK /\ Sound(files, versions) /\ RenamesSpent /\ AreMaps => Heals
    <2>1. SUFFICES ASSUME TypeOK, Sound(files, versions), RenamesSpent, AreMaps,
                          NEW p \in DOMAIN files, NEW d, d = files[p].clock.dev,
                          NEW c, c = RetryOf(p),
                          CommitFastPath(d, c) \/ CommitDisplace(d, c)
                            \/ CommitLoses(d, c)
                   PROVE  Announced(p)'
      OBVIOUS
    <2> DEFINE e       == PayloadOf(p, files[p], NoPath)
               changes == <<e>>
               st      == Tables(files, versions, changes)
               con     == LoseContest(files, versions, c, d)
    <2>2. ~IsFastPath(files, c) /\ ~IncomingWins(files, versions, c, d)
      BY <2>1, RetryFindsItself
    <2>3. CommitLoses(d, c)
      BY <2>1, <2>2 DEF CommitFastPath, CommitDisplace
    <2>4. \A anc, now : PreserveLoser(con, c, anc, now) = st
      BY <2>1, RetryKeepsHead
    <2>5. st.files = files /\ st.versions = versions /\ st.changes = changes
      BY DEF Tables
    <2>6. /\ PersistedFiles(files, changes) = files
          /\ PersistedVersions(versions) = versions
      BY <2>1, PersistStanding
    <2>7. e.path = p /\ e.version = files[p].version
      BY DEF PayloadOf
    <2>8. Len(changes) = 1 /\ DOMAIN changes = {1} /\ changes[1] = e
      OBVIOUS
    <2> HIDE DEF e, changes, st, con
    <2>9. Persist(st, FoundInBucket(c))
      BY <2>3, <2>4 DEF CommitLoses, CommitContest, con
    <2>10. /\ files' = files
           /\ headSeq' = PersistedHeadSeq(DOMAIN files, changes)
           /\ events' = LoggedEvents(changes)
      BY <2>5, <2>6, <2>9 DEF Persist
    <2>11. ChangesOf(p, changes) = {1}
      BY <2>7, <2>8 DEF ChangesOf
    <2>12. headSeq'[p] = seq + 1
      <3>1. (CHOOSE i \in {1} : \A j \in {1} : j <= i) = 1
        OBVIOUS
      <3> QED
        BY <2>10, <2>11, <3>1 DEF PersistedHeadSeq
    <2>13. seq \in Nat
      BY <2>1 DEF TypeOK
    <2>14. seq + 1 \in DOMAIN events' /\ events'[seq + 1] = e
      BY <2>8, <2>10, <2>13 DEF LoggedEvents
    <2> QED
      BY <2>7, <2>10, <2>12, <2>14 DEF Announced
  <1>2. RetryAnnounces <=> [][Heals]_vars
    BY PTL DEF RetryAnnounces
  <1> HIDE DEF Heals
  <1>3. TypeOK /\ Sound(files, versions) /\ RenamesSpent /\ AreMaps /\ [Next]_vars
        => [Heals]_vars
    BY <1>1
  <1> QED
    BY <1>2, <1>3, TypeCorrect, SoundAlways, RenamesAlwaysSpent, AlwaysMaps, PTL
       DEF Spec

-----------------------------------------------------------------------------
(* Heads that are replaced *)

CopyNames == {q \in Path : \E x \in Path \X Device :
                             \E i \in DOMAIN CopyCandidates[x] : CopyCandidates[x][i] = q}

\* No device moves a conflict copy away.  (When one does, and the copy of what its
\* move displaces takes the name that has become free, recordChange drops both.)
CopiesStay == CopyNames \cap RenameSources = {}

\* Only a folder or a tombstone has no content.
Plain(rows) ==
  \A p \in DOMAIN rows : rows[p].hash = NoHash => rows[p].isFolder \/ rows[p].deleted

\* With the tables of st, less the rows of "away", the content of p's head is in a
\* live row, or a new version was built on that head or on its content.
Saved(p, st, away) ==
  \/ files[p].isFolder
  \/ \E q \in DOMAIN st.files \ away :
       ~st.files[q].deleted /\ st.files[q].hash = files[p].hash
  \/ \E id \in DOMAIN st.versions \ DOMAIN versions :
       \/ st.versions[id].parent = files[p].version
       \/ /\ st.versions[id].parent \in DOMAIN versions
          /\ versions[st.versions[id].parent].hash = files[p].hash

Saves(st, away) ==
  \A p \in Live(files) \cap (DOMAIN st.files \ away) : Saved(p, st, away)

\* The name of a conflict copy is one of the names tried for it.
LEMMA CopyIsNamed ==
  ASSUME NEW f, NEW p \in Path, NEW d \in Device, FreeCandidates(f, p, d) # {}
  PROVE  ConflictCopyPath(f, p, d) \in CopyNames
  <1> DEFINE names == CopyCandidates[<<p, d>>]
             free  == FreeCandidates(f, p, d)
             first == CHOOSE i \in free : \A j \in free : i <= j
  <1>1. names \in Seq(Path) /\ <<p, d>> \in Path \X Device
    BY PathAssumption
  <1>2. Len(names) \in Nat /\ DOMAIN names = 1..Len(names)
    BY <1>1
  <1>3. free \subseteq DOMAIN names /\ free \subseteq Nat
    BY <1>2 DEF FreeCandidates
  <1>4. \E i \in free : \A j \in free : i <= j
    BY <1>3, LeastNatural
  <1>5. first \in free
    BY <1>4
  <1>6. ConflictCopyPath(f, p, d) = names[first]
    BY DEF ConflictCopyPath
  <1> HIDE DEF first, free
  <1>7. first \in DOMAIN names /\ names[first] \in Path
    BY <1>1, <1>3, <1>5
  <1> QED
    BY <1>1, <1>6, <1>7 DEF CopyNames

\* Persisting such tables, whole or broken off, keeps the content of every head.
LEMMA PersistSaves ==
  ASSUME Sound(files, versions), Plain(files), NEW st, Plain(st.files), Spends(st),
         Extends(versions, st.versions), NEW changes,
         Saves(st, RenamedAway(changes)),
         files' = PersistedFiles(st.files, changes),
         versions' = PersistedVersions(st.versions)
  PROVE  /\ Plain(files')
         /\ \A p \in Live(files) \cap DOMAIN files' : Survives(p)
  <1> DEFINE away == RenamedAway(changes)
  <1>1. /\ DOMAIN versions' = DOMAIN st.versions
        /\ \A id \in DOMAIN st.versions : versions'[id] = st.versions[id]
    BY DEF PersistedVersions, Extends
  <1>2. \A p \in DOMAIN files : files[p].version \in DOMAIN versions
    BY DEF Sound, Recorded, RowRecorded
  <1>3. /\ DOMAIN files' = DOMAIN st.files \ away
        /\ \A q \in DOMAIN files' : files'[q] = PersistedRow(q, st.files[q])
    BY DEF PersistedFiles
  <1>4. \A q \in DOMAIN files' : files'[q] = st.files[q]
    BY <1>2, <1>3 DEF PersistedRow, Spends
  <1>5. Plain(files')
    BY <1>3, <1>4 DEF Plain
  <1> HIDE DEF away
  <1>6. ASSUME NEW p \in Live(files) \cap DOMAIN files' PROVE Survives(p)
    <2>1. Saved(p, st, away)
      BY <1>3 DEF Saves, away
    <2>2. CASE files[p].isFolder
      BY <2>2 DEF Survives
    <2>3. ASSUME NEW q \in DOMAIN st.files \ away,
                 ~st.files[q].deleted, st.files[q].hash = files[p].hash
          PROVE  Survives(p)
      <3>1. q \in Live(files') /\ files'[q].hash = files[p].hash
        BY <1>3, <1>4, <2>3 DEF Live
      <3> QED
        BY <3>1 DEF Survives, LiveHashes
    <2>4. ASSUME NEW id \in DOMAIN st.versions \ DOMAIN versions,
                 \/ st.versions[id].parent = files[p].version
                 \/ /\ st.versions[id].parent \in DOMAIN versions
                    /\ versions[st.versions[id].parent].hash = files[p].hash
          PROVE  Survives(p)
      BY <1>1, <2>4 DEF Survives, ReleasedKnowingly
    <2> QED
      BY <2>1, <2>2, <2>3, <2>4 DEF Saved
  <1> QED
    BY <1>5, <1>6

\* A new head leaves the other rows alone.  What it replaces at its own path was
\* known to its author when the commit builds on that head or on that content, and
\* is still there when the new head is live and has it.
LEMMA AdvanceSaves ==
  ASSUME Sound(files, versions), NEW c \in CommitMsg, Sent(c), NEW clock, NEW gone,
         NEW from, NEW now, NEW away
  PROVE  LET st == Advance(files, versions, c, clock, gone, from, now)
         IN  /\ DOMAIN files \subseteq DOMAIN st.files \cup gone
             /\ \A p \in Live(files) \cap (DOMAIN st.files \ away) :
                  p # c.path => Saved(p, st, away)
             /\ c.parent = files[c.path].version => Saved(c.path, st, away)
             /\ /\ c.parent \in DOMAIN versions
                /\ versions[c.parent].hash = files[c.path].hash
                => Saved(c.path, st, away)
             /\ /\ c.path \notin away /\ c.kind # "delete"
                /\ c.hash = files[c.path].hash
                => Saved(c.path, st, away)
             /\ Plain(files) => Plain(st.files)
  <1> DEFINE row  == WinningRow(versions, c, clock)
             kept == [p \in DOMAIN files \ gone |-> files[p]]
             ver  == VersionOf(c.path, row, c.parent, now)
             f    == MapSet(kept, c.path, row)
             v    == MapSet(versions, row.version, ver)
             st   == Advance(files, versions, c, clock, gone, from, now)
  <1>1. st.files = f /\ st.versions = v
    BY DEF Advance, Tables
  <1>2. /\ row.version = MintId(versions) /\ ver.parent = c.parent
        /\ row.hash = c.hash /\ row.isFolder = c.isFolder
    BY DEF WinningRow, HeadRow, VersionOf
  <1>3. row.deleted <=> c.kind = "delete"
    BY DEF WinningRow, HeadRow
  <1>4. MintId(versions) \notin DOMAIN versions
    BY MintIdFresh DEF Sound
  <1>5. /\ DOMAIN f = (DOMAIN files \ gone) \cup {c.path} /\ f[c.path] = row
        /\ \A p \in DOMAIN files \ gone : p # c.path => f[p] = files[p]
    <2> HIDE DEF row
    <2> QED
      BY DEF MapSet
  <1>6. row.version \in DOMAIN v /\ v[row.version] = ver
    <2> HIDE DEF row, ver
    <2> QED
      BY DEF MapSet
  <1> HIDE DEF row, ver, f, v, st
  <1>7. DOMAIN files \subseteq DOMAIN st.files \cup gone
    BY <1>1, <1>5
  <1>8. ASSUME NEW p \in Live(files) \cap (DOMAIN st.files \ away), p # c.path
        PROVE  Saved(p, st, away)
    BY <1>1, <1>5, <1>8 DEF Saved, Live
  <1>9. ASSUME \/ c.parent = files[c.path].version
               \/ /\ c.parent \in DOMAIN versions
                  /\ versions[c.parent].hash = files[c.path].hash
        PROVE  Saved(c.path, st, away)
    BY <1>1, <1>2, <1>4, <1>6, <1>9 DEF Saved
  <1>10. ASSUME c.path \notin away, c.kind # "delete", c.hash = files[c.path].hash
         PROVE  Saved(c.path, st, away)
    BY <1>1, <1>2, <1>3, <1>5, <1>10 DEF Saved
  <1>11. Plain(files) => Plain(st.files)
    BY <1>1, <1>2, <1>5 DEF Plain, Sent
  <1> QED
    BY <1>7, <1>8, <1>9, <1>10, <1>11 DEF st

\* Preserving the loser adds a live row with its content, under a name that no row
\* has and no rename takes away.
LEMMA PreserveLoserSaves ==
  ASSUME NEW con, ContestSound(con), Plain(con.st.files), NEW c \in CommitMsg,
         NEW anc, NEW now, ~CopyBlocked(con, c, anc), NEW away,
         away \cap CopyNames = {},
         (DOMAIN files \ DOMAIN con.st.files) \cap CopyNames = {},
         \A p \in Live(files) \cap (DOMAIN con.st.files \ away) :
           \/ Saved(p, con.st, away)
           \/ /\ NeedsCopy(con.loser, con.winner.hash, anc)
              /\ con.loser.hash = files[p].hash
  PROVE  LET st == PreserveLoser(con, c, anc, now)
         IN  Saves(st, away) /\ Plain(st.files)
  <1> DEFINE st   == PreserveLoser(con, c, anc, now)
             path == ConflictCopyPath(con.st.files, c.path, con.loser.clock.dev)
             id   == MintId(con.st.versions)
             row  == CopyRow(id, con.loser, con.winner)
             ver  == VersionOf(path, row, con.winner.version, now)
             f    == MapSet(con.st.files, path, row)
  <1>1. CASE ~NeedsCopy(con.loser, con.winner.hash, anc)
    BY <1>1 DEF PreserveLoser, Saves
  <1>2. CASE NeedsCopy(con.loser, con.winner.hash, anc)
    <2>1. st.files = f
      BY <1>2 DEF PreserveLoser, Tables
    <2>2. Extends(con.st.versions, st.versions)
      BY PreserveLoserHolds
    <2>3. path \notin DOMAIN con.st.files /\ path \in CopyNames
      BY <1>2, ConflictCopyPathFacts, CopyIsNamed
         DEF CopyBlocked, ContestSound, ContestOK, CommitMsg, Clock
    <2>4. row.hash = con.loser.hash /\ row.hash # NoHash
      BY <1>2 DEF CopyRow, NeedsCopy
    <2>5. ~row.deleted
      BY DEF CopyRow
    <2> HIDE DEF path, id, row, ver
    <2>6. /\ DOMAIN f = DOMAIN con.st.files \cup {path} /\ f[path] = row
          /\ \A p \in DOMAIN con.st.files : f[p] = con.st.files[p]
      BY <2>3 DEF MapSet
    <2> HIDE DEF f, st
    <2>7. ASSUME NEW p, Saved(p, con.st, away) PROVE Saved(p, st, away)
      BY <2>1, <2>2, <2>6, <2>7 DEF Saved, Extends
    <2>8. ASSUME NEW p \in Live(files) \cap (DOMAIN st.files \ away)
          PROVE  Saved(p, st, away)
      <3>1. p \in DOMAIN con.st.files
        BY <2>1, <2>3, <2>6 DEF Live
      <3>2. CASE con.loser.hash = files[p].hash
        BY <2>1, <2>3, <2>4, <2>5, <2>6, <3>2 DEF Saved
      <3> QED
        BY <2>7, <3>1, <3>2
    <2>9. Plain(st.files)
      BY <2>1, <2>4, <2>6 DEF Plain
    <2> QED
      BY <2>8, <2>9 DEF Saves, st
  <1> QED
    BY <1>1, <1>2

\* The copy's announcement takes no row away.
LEMMA PreserveLoserTakes ==
  ASSUME NEW con, con.st.changes \in Seq(Change), NEW c, NEW anc, NEW now
  PROVE  RenamedAway(PreserveLoser(con, c, anc, now).changes)
           \subseteq RenamedAway(con.st.changes)
  <1> DEFINE old == con.st.changes
             new == PreserveLoser(con, c, anc, now).changes
  <1>1. CASE NeedsCopy(con.loser, con.winner.hash, anc)
    <2> DEFINE path == ConflictCopyPath(con.st.files, c.path, con.loser.clock.dev)
               row  == CopyRow(MintId(con.st.versions), con.loser, con.winner)
               e    == PayloadOf(path, row, NoPath)
    <2>1. new = Append(old, e)
      BY <1>1 DEF PreserveLoser, Tables
    <2>2. e.kind = "conflictCopy"
      BY DEF PayloadOf, CopyRow
    <2> HIDE DEF e
    <2>3. old \in Seq(Change \cup {e})
      OBVIOUS
    <2>4. Append(old, e) \in Seq(Change \cup {e}) /\ Len(Append(old, e)) = Len(old) + 1
      BY <2>3
    <2> HIDE DEF old, new
    <2>5. ASSUME NEW i \in DOMAIN new, new[i].kind = "rename"
          PROVE  i \in DOMAIN old /\ new[i] = old[i]
      BY <2>1, <2>2, <2>3, <2>4, <2>5
    <2>6. RenamedAway(new) \subseteq RenamedAway(old)
      BY <2>5 DEF RenamedAway
    <2> QED
      BY <2>6 DEF old, new
  <1>2. CASE ~NeedsCopy(con.loser, con.winner.hash, anc)
    BY <1>2 DEF PreserveLoser
  <1> QED
    BY <1>1, <1>2

\* What a head that is moved over or displaced loses to the commit is preserved,
\* or its author knew it.
LEMMA ContestSaves ==
  ASSUME CopiesStay, TypeOK, Sound(files, versions), Plain(files),
         NEW c \in CommitMsg, Sent(c), ~UnknownParent(versions, c),
         c.path \in DOMAIN files, NEW clock, NEW gone, gone \subseteq {c.from},
         NEW now, NEW con, ContestSound(con),
         con.st = Advance(files, versions, c, clock, gone, c.from, now),
         con.loser = files[c.path], con.winner.hash = c.hash,
         ~CopyBlocked(con, c, AncestorHashes(versions, c)),
         NEW away, away \subseteq {c.from, NoPath}
  PROVE  LET st == PreserveLoser(con, c, AncestorHashes(versions, c), now)
         IN  Saves(st, away) /\ Plain(st.files)
  <1> DEFINE anc == AncestorHashes(versions, c)
  <1>1. /\ c.path \in Path /\ c.from # c.path /\ c.from \notin CopyNames
        /\ NoPath \notin CopyNames /\ c.path \notin away
    BY PathAssumption DEF CommitMsg, Sent, CopiesStay, CopyNames
  <1> DEFINE st == Advance(files, versions, c, clock, gone, c.from, now)
  <1>a. /\ DOMAIN files \subseteq DOMAIN st.files \cup gone
        /\ \A p \in Live(files) \cap (DOMAIN st.files \ away) :
             p # c.path => Saved(p, st, away)
        /\ Plain(st.files)
    BY AdvanceSaves
  <1>b. c.parent \in DOMAIN versions /\ versions[c.parent].hash = files[c.path].hash
        => Saved(c.path, st, away)
    BY AdvanceSaves
  <1>c. c.path \notin away /\ c.kind # "delete" /\ c.hash = files[c.path].hash
        => Saved(c.path, st, away)
    BY AdvanceSaves
  <1>d. con.st = st
    OBVIOUS
  <1> HIDE DEF st
  <1>2. /\ DOMAIN files \subseteq DOMAIN con.st.files \cup gone
        /\ \A p \in Live(files) \cap (DOMAIN con.st.files \ away) :
             p # c.path => Saved(p, con.st, away)
        /\ Plain(con.st.files)
    BY <1>a, <1>d
  <1>3. c.parent \in DOMAIN versions /\ versions[c.parent].hash = files[c.path].hash
        => Saved(c.path, con.st, away)
    BY <1>b, <1>d
  <1>4. c.kind # "delete" /\ c.hash = files[c.path].hash => Saved(c.path, con.st, away)
    BY <1>1, <1>c, <1>d
  <1>5. ASSUME c.path \in Live(files), ~NeedsCopy(files[c.path], c.hash, anc)
        PROVE  Saved(c.path, con.st, away)
    <2>1. \/ files[c.path].isFolder \/ files[c.path].hash = NoHash
          \/ files[c.path].hash = c.hash \/ files[c.path].hash \in anc
      BY <1>5 DEF NeedsCopy, Live
    <2>2. CASE files[c.path].isFolder \/ files[c.path].hash = NoHash
      BY <1>5, <2>2 DEF Saved, Plain, Live
    <2>3. CASE files[c.path].hash = c.hash
      BY <1>3, <1>4, <2>3 DEF Sent, UnknownParent
    <2>4. CASE files[c.path].hash \in anc
      BY <1>3, <2>4 DEF AncestorHashes, UnknownParent
    <2> QED
      BY <2>1, <2>2, <2>3, <2>4
  <1> HIDE DEF anc
  <1>6. \A p \in Live(files) \cap (DOMAIN con.st.files \ away) :
          \/ Saved(p, con.st, away)
          \/ /\ NeedsCopy(con.loser, con.winner.hash, anc)
             /\ con.loser.hash = files[p].hash
    BY <1>2, <1>5
  <1>7. /\ away \cap CopyNames = {}
        /\ (DOMAIN files \ DOMAIN con.st.files) \cap CopyNames = {}
    BY <1>1, <1>2
  <1> QED
    BY <1>2, <1>6, <1>7, PreserveLoserSaves DEF anc

\* A commit on whichever branch, whole or broken off.
LEMMA HandleCommitSaves ==
  ASSUME CopiesStay, TypeOK, Sound(files, versions), Plain(files),
         NEW c \in CommitMsg, Sent(c), NEW d \in Device, HandleCommit(d, c)
  PROVE  Plain(files') /\ \A p \in Live(files) \cap DOMAIN files' : Survives(p)
  <1> DEFINE now   == seq + 1
             anc   == AncestorHashes(versions, c)
             fast  == ApplyFastPath(files, versions, c, d, now)
             move  == ApplyMigration(files, versions, c, d, now)
             over  == MoveContest(files, versions, c, d, now)
             disp  == DisplaceContest(files, versions, c, d, now)
             lose  == LoseContest(files, versions, c, d)
             stand == StandingHead(files, versions, c, d)
             Good(st) == Sound(st.files, st.versions) /\ Extends(versions, st.versions)
             Goal == /\ Plain(files')
                     /\ \A p \in Live(files) \cap DOMAIN files' : Survives(p)
  <1> SUFFICES Goal
    OBVIOUS
  <1>1. CASE CommitRefused(d, c)
    <2>1. files' = files
      BY <1>1 DEF CommitRefused, tables
    <2> QED
      BY <2>1 DEF Survives, LiveHashes
  <1>2. CASE ~CommitRefused(d, c)
    <2>1. ~UnknownParent(versions, c) /\ now \in Nat
      BY <1>2 DEF HandleCommit, AcceptCommit, CommitFastPath, CommitMove, CommitMoveOver,
           CommitDisplace, CommitLoses, CommitMoveLoses, CommitTorn, Admitted, TypeOK
    <2>2. /\ IsFastPath(files, c) => Good(fast)
          /\ MovesHead(files, c) => Good(move)
          /\ MovesHead(files, c) /\ c.path \in DOMAIN files => ContestSound(over)
          /\ c.path \in DOMAIN files =>
               ContestSound(disp) /\ Good(stand) /\ ContestSound(lose)
      BY <2>1, VerdictsSound
    <2>3. /\ IsFastPath(files, c) => Spends(fast)
          /\ MovesHead(files, c) => Spends(move) /\ Spends(over.st)
      BY <2>1, AdvanceSpends
         DEF ApplyFastPath, ApplyMigration, MoveContest, Contest, IsFastPath, MovesHead
    <2>4. Spends(disp.st) /\ Spends(stand) /\ Spends(lose.st)
      <3>1. Spends(disp.st)
        BY <2>1, AdvanceSpends DEF DisplaceContest, Contest
      <3> QED
        BY <3>1 DEF StandingHead, LoseContest, Contest, Tables, Spends
    <2>5. ASSUME NEW away, IsFastPath(files, c)
          PROVE  Saves(fast, away) /\ Plain(fast.files)
      <3>1. /\ \A p \in Live(files) \cap (DOMAIN fast.files \ away) :
                 p # c.path => Saved(p, fast, away)
            /\ c.parent = files[c.path].version => Saved(c.path, fast, away)
            /\ Plain(fast.files)
        BY AdvanceSaves DEF ApplyFastPath
      <3> HIDE DEF fast
      <3> QED
        BY <2>5, <3>1 DEF Saves, IsFastPath, Live
    <2>6. ASSUME NEW away, c.path \notin DOMAIN files
          PROVE  Saves(move, away) /\ Plain(move.files)
      <3>1. /\ \A p \in Live(files) \cap (DOMAIN move.files \ away) :
                 p # c.path => Saved(p, move, away)
            /\ Plain(move.files)
        BY AdvanceSaves DEF ApplyMigration
      <3> HIDE DEF move
      <3> QED
        BY <2>6, <3>1 DEF Saves, Live
    <2>7. ASSUME NEW away
          PROVE  /\ Saves(stand, away) /\ Plain(stand.files) /\ Plain(lose.st.files)
                 /\ \A p \in Live(files) \cap (DOMAIN lose.st.files \ away) :
                      Saved(p, lose.st, away)
      <3>1. stand.files = files /\ lose.st.files = files
        BY DEF StandingHead, LoseContest, Contest, Tables
      <3> HIDE DEF stand, lose
      <3> QED
        BY <3>1 DEF Saves, Saved, Live
    <2>8. \E clock : /\ over.st = Advance(files, versions, c, clock, {c.from}, c.from, now)
                     /\ over.loser = files[c.path] /\ over.winner.hash = c.hash
      BY DEF MoveContest, ApplyMigration, Contest, WinningRow, HeadRow
    <2>9. \E clock, gone :
            /\ disp.st = Advance(files, versions, c, clock, gone, c.from, now)
            /\ gone \subseteq {c.from}
            /\ disp.loser = files[c.path] /\ disp.winner.hash = c.hash
      BY DEF DisplaceContest, Contest, WinningRow, HeadRow
    <2>10. /\ RenamedAway(over.st.changes) \subseteq {c.from}
           /\ RenamedAway(disp.st.changes) \subseteq {c.from}
           /\ RenamedAway(lose.st.changes) \subseteq {NoPath}
           /\ RenamedAway(<<>>) = {}
      <3>1. \A p, x, from : PayloadOf(p, x, from).from = from
        BY DEF PayloadOf
      <3>2. ASSUME NEW e, NEW from, e.from = from PROVE RenamedAway(<<e>>) \subseteq {from}
        BY <3>2 DEF RenamedAway
      <3>3. \A p, x, from : RenamedAway(<<PayloadOf(p, x, from)>>) \subseteq {from}
        BY <3>1, <3>2
      <3>4. RenamedAway(<<>>) = {}
        BY DEF RenamedAway
      <3>5. \E x, y : /\ over.st.changes = <<PayloadOf(c.path, x, c.from)>>
                      /\ disp.st.changes = <<PayloadOf(c.path, y, c.from)>>
        BY DEF MoveContest, ApplyMigration, DisplaceContest, Contest, Advance, Tables
      <3>6. lose.st.changes \in {<<>>, <<PayloadOf(c.path, files[c.path], NoPath)>>}
        BY DEF LoseContest, Contest, StandingHead, Tables
      <3> HIDE DEF over, disp, lose
      <3> QED
        BY <3>3, <3>4, <3>5, <3>6
    <2> HIDE DEF fast, move, over, disp, lose, stand
    <2>11. ASSUME NEW st, Good(st), Spends(st), Plain(st.files), \A away : Saves(st, away),
                  Persist(st, FoundInBucket(c)) \/ PersistOnly(st)
           PROVE  Goal
      BY <2>11, PersistSaves DEF Persist, PersistOnly
    <2>12. ASSUME NEW con, ContestSound(con), Spends(con.st),
                  CommitContest(c, con) \/ TornContest(c, con),
                  \A less \in SUBSET RenamedAway(con.st.changes) :
                    ~CopyBlocked(con, c, anc) =>
                      /\ Saves(PreserveLoser(con, c, anc, now), less)
                      /\ Plain(PreserveLoser(con, c, anc, now).files)
           PROVE  Goal
      <3> DEFINE st == PreserveLoser(con, c, anc, now)
      <3>1. /\ ~CopyBlocked(con, c, anc)
            /\ Persist(st, FoundInBucket(c)) \/ PersistOnly(st)
        BY <2>12 DEF CommitContest, TornContest
      <3>2. Spends(st) /\ Good(st)
        BY <2>1, <2>12, <3>1, PreserveLoserSpends, PreserveLoserSound
      <3>3. RenamedAway(st.changes) \subseteq RenamedAway(con.st.changes)
        BY <2>12, PreserveLoserTakes DEF ContestSound, ContestOK, TablesOK
      <3>4. /\ Saves(st, RenamedAway(st.changes)) /\ Saves(st, RenamedAway(<<>>))
            /\ Plain(st.files)
        BY <2>10, <2>12, <3>1, <3>3
      <3> HIDE DEF st
      <3> QED
        BY <3>1, <3>2, <3>4, PersistSaves DEF Persist, PersistOnly
    <2>13. ASSUME c.path \in DOMAIN files, MovesHead(files, c), CommitContest(c, over)
           PROVE  Goal
      <3>1. ContestSound(over) /\ Spends(over.st)
        BY <2>2, <2>3, <2>13
      <3>2. ASSUME NEW less \in SUBSET RenamedAway(over.st.changes), ~CopyBlocked(over, c, anc)
            PROVE  /\ Saves(PreserveLoser(over, c, anc, now), less)
                   /\ Plain(PreserveLoser(over, c, anc, now).files)
        <4>1. less \subseteq {c.from, NoPath}
          BY <2>10
        <4> QED
          BY <2>1, <2>8, <2>13, <3>1, <3>2, <4>1, ContestSaves
      <3> QED
        BY <2>12, <2>13, <3>1, <3>2
    <2>14. ASSUME c.path \in DOMAIN files, CommitContest(c, disp) \/ TornContest(c, disp)
           PROVE  Goal
      <3>1. ContestSound(disp) /\ Spends(disp.st)
        BY <2>2, <2>4, <2>14
      <3>2. ASSUME NEW less \in SUBSET RenamedAway(disp.st.changes), ~CopyBlocked(disp, c, anc)
            PROVE  /\ Saves(PreserveLoser(disp, c, anc, now), less)
                   /\ Plain(PreserveLoser(disp, c, anc, now).files)
        <4>1. less \subseteq {c.from, NoPath}
          BY <2>10
        <4> QED
          BY <2>1, <2>9, <2>14, <3>1, <3>2, <4>1, ContestSaves
      <3> QED
        BY <2>12, <2>14, <3>1, <3>2
    <2>15. ASSUME c.path \in DOMAIN files, CommitContest(c, lose) \/ TornContest(c, lose)
           PROVE  Goal
      <3>1. ContestSound(lose) /\ Spends(lose.st)
        BY <2>2, <2>4, <2>15
      <3>2. ASSUME NEW less \in SUBSET RenamedAway(lose.st.changes), ~CopyBlocked(lose, c, anc)
            PROVE  /\ Saves(PreserveLoser(lose, c, anc, now), less)
                   /\ Plain(PreserveLoser(lose, c, anc, now).files)
        <4>1. less \cap CopyNames = {}
          BY <2>10, PathAssumption DEF CopyNames
        <4>2. DOMAIN files \ DOMAIN lose.st.files = {}
          BY DEF lose, LoseContest, Contest, StandingHead, Tables
        <4> QED
          BY <2>7, <3>1, <3>2, <4>1, <4>2, PreserveLoserSaves
      <3> QED
        BY <2>12, <2>15, <3>1, <3>2
    <2> HIDE DEF Good, Goal
    <2>16. CASE CommitFastPath(d, c)
      <3>1. IsFastPath(files, c) /\ Persist(fast, FoundInBucket(c))
        BY <2>16 DEF CommitFastPath, fast, now
      <3> QED
        BY <2>2, <2>3, <2>5, <2>11, <3>1
    <2>17. CASE CommitMove(d, c)
      <3>1. MovesHead(files, c) /\ c.path \notin DOMAIN files /\ Persist(move, FoundInBucket(c))
        BY <2>17 DEF CommitMove, MoveIsFree, move, now
      <3> QED
        BY <2>2, <2>3, <2>6, <2>11, <3>1
    <2>18. CASE CommitMoveOver(d, c)
      BY <2>13, <2>18 DEF CommitMoveOver, MoveWins, over, now
    <2>19. CASE CommitDisplace(d, c)
      BY <2>14, <2>19 DEF CommitDisplace, IncomingWins, IsConflict, disp, now
    <2>20. CASE CommitLoses(d, c)
      BY <2>15, <2>20 DEF CommitLoses, HeadWins, IsConflict, lose
    <2>21. CASE CommitMoveLoses(d, c)
      <3>1. c.path \in DOMAIN files /\ Persist(stand, FoundInBucket(c))
        BY <2>21 DEF CommitMoveLoses, MoveLoses, stand
      <3> QED
        BY <2>2, <2>4, <2>7, <2>11, <3>1
    <2>22. CASE CommitTorn(d, c)
      <3>1. \/ IsFastPath(files, c) /\ PersistOnly(fast)
            \/ c.path \in DOMAIN files /\ TornContest(c, disp)
            \/ c.path \in DOMAIN files /\ TornContest(c, lose)
        BY <2>22 DEF CommitTorn, IncomingWins, HeadWins, IsConflict, fast, disp,
                     lose, now
      <3> QED
        BY <2>2, <2>3, <2>5, <2>11, <2>14, <2>15, <3>1
    <2> QED
      BY <1>2, <2>16, <2>17, <2>18, <2>19, <2>20, <2>21, <2>22 DEF HandleCommit, AcceptCommit, Goal
  <1> QED
    BY <1>1, <1>2

\* A restore builds on every head it replaces.
LEMMA RestoreSaves ==
  ASSUME TypeOK, Sound(files, versions), RenamesSpent, Plain(files), NEW d \in Device,
         NEW k \in DOMAIN snapshots, Plain(snapshots[k]), SnapshotRestore(d, k)
  PROVE  Plain(files') /\ \A p \in Live(files) \cap DOMAIN files' : Survives(p)
  <1> DEFINE heads    == snapshots[k]
             n        == Cardinality(DOMAIN versions)
             st(plan) == RestoredTables(heads, plan, n, d)
  <1>1. PICK plan \in Plans(Diverged(heads)) :
          /\ \A i \in DOMAIN plan : n + i \notin DOMAIN versions
          /\ Persist(st(plan), {})
    BY DEF SnapshotRestore
  <1> DEFINE row(i) == RestoredRow(heads, plan, n, i, d)
             parent(i) == RestoreCommit(heads, plan[i]).parent
             r(i)   == VersionOf(plan[i], row(i), parent(i), seq + 1)
             after  == st(plan)
             away   == RenamedAway(after.changes)
  <1>2. Extends(versions, after.versions)
    BY PlanFacts, RestoredTablesSound
  <1>3. /\ DOMAIN after.files = DOMAIN files \cup Diverged(heads)
        /\ \A p \in DOMAIN files \ Diverged(heads) : after.files[p] = files[p]
        /\ \A i \in DOMAIN plan : after.files[plan[i]] = row(i)
        /\ \A p \in Diverged(heads) : \E i \in DOMAIN plan : plan[i] = p
    BY RestoredFacts
  <1>4. /\ n \in Nat /\ DOMAIN plan \subseteq Nat
        /\ \A i \in DOMAIN plan : plan[i] \in Diverged(heads)
    BY PlanFacts, FS_CardinalityType DEF TypeOK
  <1>5. ASSUME NEW i \in DOMAIN plan
        PROVE  /\ row(i).version = n + i /\ row(i).kind # "rename"
               /\ ~row(i).deleted <=> plan[i] \in DOMAIN heads /\ ~heads[plan[i]].deleted
               /\ plan[i] \in DOMAIN heads =>
                    /\ row(i).hash = heads[plan[i]].hash
                    /\ row(i).isFolder = heads[plan[i]].isFolder
    <2>1. plan[i] \in Diverged(snapshots[k])
      BY <1>4
    <2> QED
      BY <2>1, RestoredRowShows DEF RestoredRow
  <1>6. /\ DOMAIN after.versions = DOMAIN versions \cup {n + i : i \in DOMAIN plan}
        /\ \A id \in DOMAIN after.versions \ DOMAIN versions :
             after.versions[id] = r(id - n)
    BY DEF RestoredTables, Tables
  <1>7. \A i \in DOMAIN plan : r(i).kind = row(i).kind /\ r(i).parent = parent(i)
    BY DEF VersionOf
  <1>8. \A i \in DOMAIN plan :
          plan[i] \in DOMAIN files => parent(i) = files[plan[i]].version
    BY DEF RestoreCommit
  <1>9. /\ files' = PersistedFiles(after.files, after.changes)
        /\ versions' = PersistedVersions(after.versions)
    BY <1>1 DEF Persist
  <1>10. Plain(heads)
    OBVIOUS
  <1> HIDE DEF after, st, row, r, n, heads, parent
  <1>11. ASSUME NEW i \in DOMAIN plan
         PROVE  n + i \in DOMAIN after.versions \ DOMAIN versions
                /\ after.versions[n + i] = r(i)
    <2>1. (n + i) - n = i
      BY <1>4
    <2> QED
      BY <1>1, <1>6, <2>1
  <1>12. ASSUME NEW id \in DOMAIN after.versions \ DOMAIN versions
         PROVE  after.versions[id].kind # "rename"
    <2>1. PICK i \in DOMAIN plan : id = n + i
      BY <1>6
    <2> QED
      BY <1>5, <1>7, <1>11, <2>1
  <1>13. ASSUME NEW p \in DOMAIN after.files
         PROVE  \/ p \in DOMAIN files /\ after.files[p] = files[p]
                \/ \E i \in DOMAIN plan : plan[i] = p /\ after.files[p] = row(i)
    BY <1>3
  <1>14. Spends(after)
    BY <1>1, <1>5, <1>12, <1>13 DEF Spends
  <1>15. Plain(after.files)
    <2>1. ASSUME NEW i \in DOMAIN plan
          PROVE  row(i).hash = NoHash => row(i).isFolder \/ row(i).deleted
      BY <1>5, <1>10 DEF Plain
    <2> QED
      BY <1>13, <2>1 DEF Plain
  <1> HIDE DEF away
  <1>16. ASSUME NEW p \in Live(files) \cap (DOMAIN after.files \ away)
         PROVE  Saved(p, after, away)
    <2>1. CASE after.files[p] = files[p]
      BY <2>1 DEF Saved, Live
    <2>2. ASSUME NEW i \in DOMAIN plan, plan[i] = p PROVE Saved(p, after, away)
      BY <1>7, <1>8, <1>11, <2>2 DEF Saved, Live
    <2> QED
      BY <1>13, <2>1, <2>2
  <1>17. Saves(after, RenamedAway(after.changes))
    BY <1>16 DEF Saves, away
  <1> QED
    BY <1>2, <1>9, <1>14, <1>15, <1>17, PersistSaves

\* Rows and snapshots without content are folders or tombstones.
PlainInv == Plain(files) /\ \A k \in DOMAIN snapshots : Plain(snapshots[k])

\* A step keeps that, and the content of every head it replaces.
LEMMA SavesStep ==
  ASSUME RetentionOff, CopiesStay, TypeOK, Sound(files, versions), RenamesSpent,
         PlainInv, [Next]_vars
  PROVE  PlainInv' /\ \A p \in Live(files) \cap DOMAIN files' : Survives(p)
  <1> DEFINE Held == \A p \in Live(files) \cap DOMAIN files' : Survives(p)
  <1> SUFFICES PlainInv' /\ Held
    OBVIOUS
  <1>1. ASSUME NEW d \in Device, Commit(d) PROVE PlainInv' /\ Held
    <2>1. PICK c \in CommitMsg : Sent(c) /\ HandleCommit(d, c)
      BY <1>1, CommitSent
    <2>2. snapshots' = snapshots
      BY <2>1 DEF HandleCommit, AcceptCommit, CommitFastPath, CommitMove, CommitMoveOver,
           CommitDisplace, CommitLoses, CommitMoveLoses, CommitContest,
           CommitTorn, TornContest, CommitRefused, Persist, PersistOnly
    <2>3. Plain(files') /\ Held
      BY <2>1, HandleCommitSaves DEF PlainInv
    <2> QED
      BY <2>2, <2>3 DEF PlainInv
  <1>2. ASSUME NEW d \in Device, NEW k \in DOMAIN snapshots, SnapshotRestore(d, k)
        PROVE  PlainInv' /\ Held
    <2>1. snapshots' = snapshots
      BY <1>2 DEF SnapshotRestore, Persist
    <2>2. Plain(files') /\ Held
      BY <1>2, RestoreSaves DEF PlainInv
    <2> QED
      BY <2>1, <2>2 DEF PlainInv
  <1>3. \A d \in Device, k \in DOMAIN snapshots : ~SnapshotRestoreTorn(d, k)
    BY RestoresComplete DEF Sound
  <1>4. files' = files => Held
    BY DEF Survives, LiveHashes
  <1>5. CASE SnapshotCreate
    <2>1. files' = files
      BY <1>5 DEF SnapshotCreate, tables
    <2>2. Plain(Captured)
      BY DEF PlainInv, Plain, Captured
    <2>3. \A k \in DOMAIN snapshots' : Plain(snapshots'[k])
      BY <1>5, <2>2, SnapshotAdded DEF PlainInv
    <2> QED
      BY <1>4, <2>1, <2>3 DEF PlainInv
  <1>6. CASE \/ EventsPrune \/ RetentionRun \/ GcPurge
             \/ \E h \in LargeHash : PutBlob(h) \/ BlobPut(h) \/ BlobUploaded(h)
             \/ \E h \in Hash : BucketDelete(h)
             \/ UNCHANGED vars
    <2>1. UNCHANGED <<files, snapshots>>
      BY <1>6 DEF EventsPrune, RetentionRun, GcPurge, PutBlob, BlobPut, BlobUploaded,
           BucketDelete, tables, vars
    <2> QED
      BY <1>4, <2>1 DEF PlainInv
  <1> HIDE DEF Held
  <1> QED
    BY <1>1, <1>2, <1>3, <1>5, <1>6 DEF Next

\* The promise of conflict copies, for every vault and device set: when a commit,
\* a move or a restore takes the place of a live head, whichever way arbitration
\* went and even when the handler broke off, the content that was there is still
\* in some live file, or the step built on a version that had it.  Retention is
\* off, so ids are never minted twice, and no device renames a conflict copy.
THEOREM NoHeadLostUnseen ==
  ASSUME RetentionOff, CopiesStay
  PROVE  Spec => ReplacedHeadsSurvive
  <1> DEFINE Held == \A p \in Live(files) \cap DOMAIN files' : Survives(p)
  <1>1. Init => PlainInv
    BY DEF Init, PlainInv, Plain, EmptyMap
  <1>2. TypeOK /\ Sound(files, versions) /\ RenamesSpent /\ PlainInv /\ [Next]_vars
        => PlainInv' /\ Held
    BY SavesStep
  <1>3. ReplacedHeadsSurvive <=> [][Held]_vars
    BY PTL DEF ReplacedHeadsSurvive
  <1> HIDE DEF Held
  <1>4. TypeOK /\ Sound(files, versions) /\ RenamesSpent /\ PlainInv /\ [Next]_vars
        => PlainInv' /\ [Held]_vars
    BY <1>2
  <1> QED
    BY <1>1, <1>3, <1>4, TypeCorrect, SoundAlways, RenamesAlwaysSpent, PTL DEF Spec

-----------------------------------------------------------------------------
(* Fold keys *)

\* A commit makes its path live and its source, which path safety leaves out of
\* the comparison (paths.ts), stays: the source had moved on, or was gone, when
\* the commit was built.
CaseRenameStays ==
  \E d \in Device, c \in CommitMsg :
    /\ HandleCommit(d, c)
    /\ c.path \in Live(files') \ Live(files)
    /\ c.from \in Live(files) \cap Live(files') /\ Fold[c.from] = Fold[c.path]

\* The name of a conflict copy is compared with the other names as it is spelled
\* (arbitrate.ts), not by its fold key.
CopyNameFolds ==
  \E d \in Device, c \in CommitMsg :
    /\ HandleCommit(d, c)
    /\ \E e \in Device : \E i \in DOMAIN CopyCandidates[<<c.path, e>>] :
         LET name == CopyCandidates[<<c.path, e>>][i]
         IN  /\ name \in Live(files') \ Live(files)
             /\ \E q \in Live(files') \ {name} : Fold[q] = Fold[name]

\* The three steps after which two live paths may share a fold key; the third is
\* a restore that ends before it has deleted what it has restored over.
FoldClash ==
  \/ CaseRenameStays
  \/ CopyNameFolds
  \/ \E d \in Device, k \in DOMAIN snapshots : SnapshotRestoreTorn(d, k)

FoldsApart(heads) ==
  \A p, q \in Live(heads) : Fold[p] = Fold[q] => p = q

FoldInv == FoldsApart(files) /\ \A k \in DOMAIN snapshots : FoldsApart(snapshots[k])

\* The live paths that a verdict adds are the commit's, and the copy's.
AddsLive(f, c) ==
  \A p \in Live(f) :
    \/ p \in Live(files) \cup {c.path}
    \/ \E e \in Device : \E i \in DOMAIN CopyCandidates[<<c.path, e>>] :
         p = CopyCandidates[<<c.path, e>>][i]

\* A new head makes no path live but the committed one.
LEMMA AdvanceAddsLive ==
  ASSUME NEW c, NEW clock, NEW gone, NEW from, NEW now
  PROVE  AddsLive(Advance(files, versions, c, clock, gone, from, now).files, c)
  BY DEF AddsLive, Advance, Tables, MapSet, Live

\* Nor does a conflict copy make live more than its own name, if one is left for it.
LEMMA PreserveLoserAddsLive ==
  ASSUME NEW con, NEW c \in CommitMsg, AddsLive(con.st.files, c),
         con.loser.clock \in Clock, NEW anc, NEW now, ~CopyBlocked(con, c, anc)
  PROVE  AddsLive(PreserveLoser(con, c, anc, now).files, c)
  <1> DEFINE e    == con.loser.clock.dev
             name == ConflictCopyPath(con.st.files, c.path, e)
             st   == PreserveLoser(con, c, anc, now)
  <1>1. CASE ~NeedsCopy(con.loser, con.winner.hash, anc)
    BY <1>1 DEF PreserveLoser
  <1>2. CASE NeedsCopy(con.loser, con.winner.hash, anc)
    <2>1. FreeCandidates(con.st.files, c.path, e) # {}
      BY <1>2 DEF CopyBlocked
    <2>2. e \in Device /\ c.path \in Path
      BY DEF Clock, CommitMsg
    <2> DEFINE free == FreeCandidates(con.st.files, c.path, e)
               row  == CopyRow(MintId(con.st.versions), con.loser, con.winner)
    <2>3. CopyCandidates[<<c.path, e>>] \in Seq(Path)
      BY <2>2, PathAssumption
    <2>4. /\ free \subseteq 1..Len(CopyCandidates[<<c.path, e>>])
          /\ Len(CopyCandidates[<<c.path, e>>]) \in Nat
          /\ DOMAIN CopyCandidates[<<c.path, e>>] = 1..Len(CopyCandidates[<<c.path, e>>])
      BY <2>3 DEF FreeCandidates
    <2>5. PICK i \in free : \A j \in free : i <= j
      <3>1. free \subseteq Nat
        BY <2>4
      <3> QED
        BY <2>1, <3>1, LeastNatural
    <2>6. \E i0 \in free : name = CopyCandidates[<<c.path, e>>][i0]
      <3>1. (CHOOSE i0 \in free : \A j \in free : i0 <= j) \in free
        BY <2>5
      <3> HIDE DEF free
      <3> QED
        BY <3>1 DEF ConflictCopyPath, free
    <2>7. st.files = MapSet(con.st.files, name, row)
      BY <1>2 DEF PreserveLoser, Tables
    <2> HIDE DEF st, name, row, free
    <2>8. \A p \in Live(st.files) : p \in Live(con.st.files) \/ p = name
      BY <2>7 DEF MapSet, Live
    <2>9. \E i0 \in DOMAIN CopyCandidates[<<c.path, e>>] :
             name = CopyCandidates[<<c.path, e>>][i0]
      BY <2>4, <2>6
    <2>10. AddsLive(st.files, c)
      BY <2>2, <2>8, <2>9 DEF AddsLive
    <2> QED
      BY <2>10 DEF st
  <1> QED
    BY <1>1, <1>2

\* What is persisted of it may be an older row of the same path.
LEMMA PersistedAddsLive ==
  ASSUME NEW c, NEW after, AddsLive(after, c), NEW changes
  PROVE  AddsLive(PersistedFiles(after, changes), c)
  <1>1. ASSUME NEW p \in Live(PersistedFiles(after, changes))
        PROVE  p \in Live(after) \/ p \in Live(files)
    BY DEF PersistedFiles, PersistedRow, Live
  <1> QED
    BY <1>1 DEF AddsLive

\* A commit adds no other live path, and its own only if that collides with none
\* but its source.
LEMMA CommitAddsLive ==
  ASSUME TypeOK, NEW c \in CommitMsg, NEW d \in Device, HandleCommit(d, c)
  PROVE  \/ files' = files
         \/ AddsLive(files', c) /\ ~PathCollides(files, c)
  <1> DEFINE anc == AncestorHashes(versions, c)
             now == seq + 1
  <1>1. CASE CommitRefused(d, c)
    BY <1>1 DEF CommitRefused, tables
  <1>2. CASE ~CommitRefused(d, c)
    <2>1. Admitted(c)
      BY <1>2 DEF HandleCommit, AcceptCommit, CommitFastPath, CommitMove, CommitMoveOver,
         CommitDisplace, CommitLoses, CommitMoveLoses, CommitTorn
    <2>2. ~PathCollides(files, c) /\ ~UnknownParent(versions, c)
      BY <2>1 DEF Admitted
    <2>3. /\ AddsLive(ApplyFastPath(files, versions, c, d, now).files, c)
          /\ AddsLive(ApplyMigration(files, versions, c, d, now).files, c)
          /\ AddsLive(MoveContest(files, versions, c, d, now).st.files, c)
          /\ AddsLive(DisplaceContest(files, versions, c, d, now).st.files, c)
      BY AdvanceAddsLive DEF ApplyFastPath, ApplyMigration, MoveContest, DisplaceContest, Contest
    <2>4. /\ AddsLive(StandingHead(files, versions, c, d).files, c)
          /\ AddsLive(LoseContest(files, versions, c, d).st.files, c)
      BY DEF StandingHead, LoseContest, Contest, Tables, AddsLive
    <2>5. /\ c.from \in DOMAIN files /\ c.path \in DOMAIN files =>
               MoveContest(files, versions, c, d, now).loser.clock \in Clock
          /\ c.path \in DOMAIN files =>
               /\ DisplaceContest(files, versions, c, d, now).loser.clock \in Clock
               /\ LoseContest(files, versions, c, d).loser.clock \in Clock
      BY <2>2, VerdictsOK DEF ContestOK
    <2>6. ASSUME NEW con, AddsLive(con.st.files, c), con.loser.clock \in Clock,
                 ~CopyBlocked(con, c, anc)
          PROVE  AddsLive(PreserveLoser(con, c, anc, now).files, c)
      BY <2>6, PreserveLoserAddsLive
    <2> DEFINE Reached == \E st : AddsLive(st.files, c)
                                   /\ (Persist(st, FoundInBucket(c)) \/ PersistOnly(st))
    <2>7. ASSUME NEW con, AddsLive(con.st.files, c), con.loser.clock \in Clock,
                 CommitContest(c, con) \/ TornContest(c, con)
          PROVE  Reached
      <3> DEFINE after == PreserveLoser(con, c, anc, now)
      <3>1. ~CopyBlocked(con, c, anc)
        BY <2>7 DEF CommitContest, TornContest
      <3>2. AddsLive(after.files, c)
        BY <2>6, <2>7, <3>1
      <3>3. Persist(after, FoundInBucket(c)) \/ PersistOnly(after)
        BY <2>7 DEF CommitContest, TornContest
      <3> HIDE DEF after
      <3> QED
        BY <3>2, <3>3
    <2>8. ASSUME CommitFastPath(d, c) PROVE Reached
      <3> DEFINE st == ApplyFastPath(files, versions, c, d, now)
      <3>1. AddsLive(st.files, c) /\ Persist(st, FoundInBucket(c))
        BY <2>3, <2>8 DEF CommitFastPath
      <3> HIDE DEF st
      <3> QED
        BY <3>1
    <2>9. ASSUME CommitMove(d, c) PROVE Reached
      <3> DEFINE st == ApplyMigration(files, versions, c, d, now)
      <3>1. AddsLive(st.files, c) /\ Persist(st, FoundInBucket(c))
        BY <2>3, <2>9 DEF CommitMove
      <3> HIDE DEF st
      <3> QED
        BY <3>1
    <2>10. ASSUME CommitMoveOver(d, c) PROVE Reached
      <3>1. /\ CommitContest(c, MoveContest(files, versions, c, d, now))
            /\ c.from \in DOMAIN files /\ c.path \in DOMAIN files
        BY <2>10 DEF CommitMoveOver, MoveWins, MovesHead
      <3> DEFINE con == MoveContest(files, versions, c, d, now)
      <3>2. AddsLive(con.st.files, c) /\ con.loser.clock \in Clock /\ CommitContest(c, con)
        BY <2>3, <2>5, <3>1
      <3> HIDE DEF con
      <3> QED
        BY <2>7, <3>2
    <2>11. ASSUME IncomingWins(files, versions, c, d),
                  \/ CommitContest(c, DisplaceContest(files, versions, c, d, now))
                  \/ TornContest(c, DisplaceContest(files, versions, c, d, now))
           PROVE  Reached
      <3>1. c.path \in DOMAIN files
        BY <2>11 DEF IncomingWins, IsConflict
      <3> QED
        BY <2>3, <2>5, <2>7, <2>11, <3>1
    <2>12. ASSUME HeadWins(files, versions, c, d),
                  \/ CommitContest(c, LoseContest(files, versions, c, d))
                  \/ TornContest(c, LoseContest(files, versions, c, d))
           PROVE  Reached
      <3>1. c.path \in DOMAIN files
        BY <2>12 DEF HeadWins, IsConflict
      <3> QED
        BY <2>4, <2>5, <2>7, <2>12, <3>1
    <2>13. ASSUME CommitMoveLoses(d, c) PROVE Reached
      <3> DEFINE st == StandingHead(files, versions, c, d)
      <3>1. AddsLive(st.files, c) /\ Persist(st, FoundInBucket(c))
        BY <2>4, <2>13 DEF CommitMoveLoses
      <3> HIDE DEF st
      <3> QED
        BY <3>1
    <2>14. ASSUME CommitTorn(d, c) PROVE Reached
      <3>1. CASE PersistOnly(ApplyFastPath(files, versions, c, d, now))
        <4> DEFINE st == ApplyFastPath(files, versions, c, d, now)
        <4>1. AddsLive(st.files, c) /\ PersistOnly(st)
          BY <2>3, <3>1
        <4> HIDE DEF st
        <4> QED
          BY <4>1
      <3>2. \/ PersistOnly(ApplyFastPath(files, versions, c, d, now))
            \/ /\ IncomingWins(files, versions, c, d)
               /\ TornContest(c, DisplaceContest(files, versions, c, d, now))
            \/ /\ HeadWins(files, versions, c, d)
               /\ TornContest(c, LoseContest(files, versions, c, d))
        BY <2>14 DEF CommitTorn
      <3> HIDE DEF Reached
      <3> QED
        BY <2>11, <2>12, <3>1, <3>2
    <2>15. Reached
      <3>1. CASE CommitDisplace(d, c)
        BY <2>11, <3>1 DEF CommitDisplace
      <3>2. CASE CommitLoses(d, c)
        BY <2>12, <3>2 DEF CommitLoses
      <3> HIDE DEF Reached
      <3> QED
        BY <1>2, <2>8, <2>9, <2>10, <2>13, <2>14, <3>1, <3>2 DEF HandleCommit, AcceptCommit
    <2>16. PICK st : /\ AddsLive(st.files, c)
                     /\ Persist(st, FoundInBucket(c)) \/ PersistOnly(st)
      BY <2>15
    <2>17. AddsLive(files', c)
      BY <2>16, PersistedAddsLive DEF Persist, PersistOnly
    <2> QED
      BY <2>2, <2>17
  <1> QED
    BY <1>1, <1>2

\* The fold keys of the live paths stay apart in every other commit.
LEMMA CommitKeepsFolds ==
  ASSUME TypeOK, FoldsApart(files), NEW c \in CommitMsg, NEW d \in Device,
         HandleCommit(d, c), ~FoldClash
  PROVE  FoldsApart(files')
  <1>1. CASE files' = files
    BY <1>1
  <1>2. CASE AddsLive(files', c) /\ ~PathCollides(files, c)
    <2>1. ASSUME NEW p \in Live(files'), NEW q \in Live(files'), p # q, Fold[p] = Fold[q],
                 p \notin Live(files)
          PROVE  FALSE
      <3>1. CASE p = c.path
        <4>1. CASE q \in Live(files)
          <5>1. q = c.from
            BY <1>2, <2>1, <3>1, <4>1 DEF PathCollides
          <5> QED
            BY <2>1, <3>1, <4>1, <5>1 DEF FoldClash, CaseRenameStays
        <4>2. CASE q \notin Live(files)
          <5>1. \E e \in Device : \E i \in DOMAIN CopyCandidates[<<c.path, e>>] :
                  q = CopyCandidates[<<c.path, e>>][i]
            BY <1>2, <2>1, <3>1, <4>2 DEF AddsLive
          <5> QED
            BY <2>1, <4>2, <5>1 DEF FoldClash, CopyNameFolds
        <4> QED
          BY <4>1, <4>2
      <3>2. CASE p # c.path
        <4>1. \E e \in Device : \E i \in DOMAIN CopyCandidates[<<c.path, e>>] :
                p = CopyCandidates[<<c.path, e>>][i]
          BY <1>2, <2>1, <3>2 DEF AddsLive
        <4> QED
          BY <2>1, <4>1 DEF FoldClash, CopyNameFolds
      <3> QED
        BY <3>1, <3>2
    <2> SUFFICES ASSUME NEW p \in Live(files'), NEW q \in Live(files'), p # q,
                        Fold[p] = Fold[q]
                 PROVE  FALSE
      BY DEF FoldsApart
    <2>2. p \in Live(files) /\ q \in Live(files)
      BY <2>1
    <2> QED
      BY <2>2 DEF FoldsApart
  <1> QED
    BY <1>1, <1>2, CommitAddsLive

\* A restore brings back the live paths of its snapshot.
LEMMA FoldInvStep ==
  ASSUME TypeOK, PinnedVersionsKept, FoldInv, [Next]_vars, [~FoldClash]_vars
  PROVE  FoldInv'
  <1>1. ASSUME NEW d \in Device, Commit(d), ~FoldClash PROVE FoldInv'
    <2>1. PICK c \in CommitMsg : Sent(c) /\ HandleCommit(d, c)
      BY <1>1, CommitSent
    <2>2. snapshots' = snapshots
      BY <2>1 DEF HandleCommit, AcceptCommit, CommitFastPath, CommitMove, CommitMoveOver,
           CommitDisplace, CommitLoses, CommitMoveLoses, CommitContest,
           CommitTorn, TornContest, CommitRefused, Persist, PersistOnly
    <2>3. FoldsApart(files')
      BY <1>1, <2>1, CommitKeepsFolds DEF FoldInv
    <2> QED
      BY <2>2, <2>3 DEF FoldInv
  <1>2. ASSUME NEW d \in Device, NEW k \in DOMAIN snapshots, SnapshotRestore(d, k)
        PROVE  FoldInv'
    <2>1. snapshots' = snapshots
      BY <1>2 DEF SnapshotRestore, Persist
    <2>2. LiveView(files') = LiveView(snapshots[k])
      BY <1>2, RestoreShows
    <2>3. Live(files') = Live(snapshots[k])
      <3>1. ASSUME NEW f, NEW g, LiveView(f) = LiveView(g), NEW p \in Live(f)
            PROVE  p \in Live(g)
        <4>1. <<p, f[p].hash, f[p].isFolder>> \in LiveView(g)
          BY <3>1 DEF LiveView
        <4> QED
          BY <4>1 DEF LiveView
      <3> QED
        BY <2>2, <3>1
    <2>4. FoldsApart(files')
      BY <2>3 DEF FoldInv, FoldsApart
    <2> QED
      BY <2>1, <2>4 DEF FoldInv
  <1>3. CASE SnapshotCreate
    <2>1. files' = files
      BY <1>3 DEF SnapshotCreate, tables
    <2>2. FoldsApart(Captured)
      BY DEF FoldInv, FoldsApart, Captured, Live
    <2>3. \A k \in DOMAIN snapshots' : FoldsApart(snapshots'[k])
      BY <1>3, <2>2, SnapshotAdded DEF FoldInv
    <2> QED
      BY <2>1, <2>3 DEF FoldInv
  <1>4. CASE \/ EventsPrune \/ RetentionRun \/ GcPurge
             \/ \E h \in LargeHash : PutBlob(h) \/ BlobPut(h) \/ BlobUploaded(h)
             \/ \E h \in Hash : BucketDelete(h)
             \/ UNCHANGED vars
    <2>1. UNCHANGED <<files, snapshots>>
      BY <1>4 DEF EventsPrune, RetentionRun, GcPurge, PutBlob, BlobPut, BlobUploaded,
           BucketDelete, tables, vars
    <2> QED
      BY <2>1 DEF FoldInv
  <1>5. CASE ~FoldClash
    <2>1. \A d \in Device, k \in DOMAIN snapshots : ~SnapshotRestoreTorn(d, k)
      BY <1>5 DEF FoldClash
    <2> QED
      BY <1>1, <1>2, <1>3, <1>4, <1>5, <2>1 DEF Next
  <1> QED
    BY <1>4, <1>5

\* "Two live entries MUST NEVER share a key" (paths.ts), and the three ways in
\* which they may: a case-only rename that lost its source to another commit, a
\* conflict copy's name, a restore that breaks off.  Through every other commit,
\* restore and maintenance run, whatever the vault, the fold keys stay apart.
THEOREM FoldKeysApartUnless ==
  Spec /\ [][~FoldClash]_vars => []FoldKeysUnique
  <1>1. Init => FoldInv
    BY DEF Init, FoldInv, FoldsApart, Live, EmptyMap
  <1>2. TypeOK /\ PinnedVersionsKept /\ FoldInv /\ [Next]_vars /\ [~FoldClash]_vars => FoldInv'
    BY FoldInvStep
  <1>3. FoldInv => FoldKeysUnique
    BY DEF FoldInv, FoldsApart, FoldKeysUnique
  <1> QED
    BY <1>1, <1>2, <1>3, TypeCorrect, PinnedKept, PTL DEF Spec
=============================================================================
