------------------------------ MODULE SyncProofs ------------------------------
(***************************************************************************)
(* What holds of devices that sync one vault, for every vault, device set,  *)
(* merge function and history: proofs about SyncSystem.  The room's part of *)
(* the invariant comes from the proofs about VaultRoom; the clients' part   *)
(* says that every head a client stores, is sent or sends is one the room's *)
(* history has, or the tombstone of one it no longer knew.                  *)
(***************************************************************************)
EXTENDS SyncSystem, VaultRoomGuarantees

\* The head e of path p is a version of the history v.
KnownHead(v, p, e) ==
  /\ e.version \in DOMAIN v
  /\ v[e.version].path = p
  /\ v[e.version].hash = e.hash

\* A head that is known stays known while the history grows.
LEMMA KnownHeadExtends ==
  ASSUME NEW v, NEW w, Extends(v, w), NEW p, NEW e, KnownHead(v, p, e)
  PROVE  KnownHead(w, p, e)
  BY DEF KnownHead, Extends

\* Extending a history is transitive, and changes nothing if nothing is added.
LEMMA ExtendsTransitive ==
  ASSUME NEW u, NEW v, NEW w, Extends(u, v), Extends(v, w)
  PROVE  Extends(u, w)
  BY DEF Extends

-----------------------------------------------------------------------------
(* The room's answer to a commit *)

\* Every change of a verdict announces a version of its history.
AllKnown(st) ==
  \A i \in DOMAIN st.changes :
    KnownHead(st.versions, st.changes[i].path, st.changes[i])

\* The committed path has a row that no announced rename takes away.
Answers(st, c) ==
  c.path \in DOMAIN st.files /\ c.path \notin RenamedAway(st.changes)

CarriesOwn(c) == CarriesContent(c) /\ c.kind # "rename" /\ c.hash # NoHash

Settled(st, c) ==
  /\ TablesOK(st)
  /\ Sound(st.files, st.versions)
  /\ Extends(versions, st.versions)
  /\ AllKnown(st)
  /\ Answers(st, c)
  /\ CarriesOwn(c) => Holds(st.versions, c.hash)

\* A new head is announced, answers its commit and holds its content.
LEMMA AdvanceSettles ==
  ASSUME Sound(files, versions), NEW c \in CommitMsg, c.from # c.path, NEW clock,
         NEW gone, NEW from, from \in {c.from, NoPath}, NEW now
  PROVE  LET st == Advance(files, versions, c, clock, gone, from, now)
         IN  AllKnown(st) /\ Answers(st, c) /\ Holds(st.versions, c.hash)
  <1> DEFINE st  == Advance(files, versions, c, clock, gone, from, now)
             row == WinningRow(versions, c, clock)
             ver == VersionOf(c.path, row, c.parent, now)
             pay == PayloadOf(c.path, row, from)
             kept == [p \in DOMAIN files \ gone |-> files[p]]
  <1>1. /\ st.files = MapSet(kept, c.path, row)
        /\ st.versions = MapSet(versions, row.version, ver)
        /\ st.changes = <<pay>>
    BY DEF Advance, Tables
  <1>2. /\ ver.path = c.path /\ ver.hash = c.hash
        /\ pay.path = c.path /\ pay.hash = c.hash /\ pay.version = row.version
        /\ pay.from = from
    BY DEF VersionOf, PayloadOf, WinningRow, HeadRow
  <1> HIDE DEF row, ver, pay, st, kept
  <1>3. /\ row.version \in DOMAIN st.versions
        /\ st.versions[row.version] = ver
    BY <1>1 DEF MapSet
  <1>4. AllKnown(st)
    BY <1>1, <1>2, <1>3 DEF AllKnown, KnownHead
  <1>5. c.path # NoPath
    BY PathAssumption DEF CommitMsg
  <1>6. Answers(st, c)
    <2>1. c.path \in DOMAIN st.files
      BY <1>1 DEF MapSet
    <2>2. RenamedAway(st.changes) \subseteq {from}
      BY <1>1, <1>2 DEF RenamedAway
    <2> QED
      BY <1>5, <2>1, <2>2 DEF Answers
  <1>7. Holds(st.versions, c.hash)
    BY <1>2, <1>3 DEF Holds
  <1> QED
    BY <1>4, <1>6, <1>7 DEF st

\* The standing head is a known version; its row stays.
LEMMA StandingSettles ==
  ASSUME Sound(files, versions), NEW c \in CommitMsg, c.path \in DOMAIN files,
         NEW d
  PROVE  LET st == StandingHead(files, versions, c, d)
         IN  AllKnown(st) /\ Answers(st, c)
  <1> DEFINE pay == PayloadOf(c.path, files[c.path], NoPath)
             st  == StandingHead(files, versions, c, d)
  <1>1. st.files = files /\ st.versions = versions /\ st.changes \in {<<pay>>, <<>>}
    BY DEF StandingHead, Tables
  <1>2. /\ pay.path = c.path /\ pay.hash = files[c.path].hash
        /\ pay.version = files[c.path].version /\ pay.from = NoPath
    BY DEF PayloadOf
  <1>3. RowRecorded(c.path, files[c.path], versions)
    BY DEF Sound, Recorded
  <1>4. c.path # NoPath
    BY PathAssumption DEF CommitMsg
  <1> HIDE DEF pay, st
  <1>5. AllKnown(st)
    BY <1>1, <1>2, <1>3 DEF AllKnown, KnownHead, RowRecorded
  <1>6. Answers(st, c)
    BY <1>1, <1>2, <1>4 DEF Answers, RenamedAway
  <1> QED
    BY <1>5, <1>6 DEF st

\* Preserving the loser announces one more known version, at a path of its own.
LEMMA PreserveLoserSettles ==
  ASSUME NEW con, ContestSound(con), AllKnown(con.st), NEW c \in CommitMsg,
         Answers(con.st, c), NEW anc, NEW now
  PROVE  LET st == PreserveLoser(con, c, anc, now)
         IN  AllKnown(st) /\ Answers(st, c)
  <1> DEFINE st   == PreserveLoser(con, c, anc, now)
             old  == con.st
             path == ConflictCopyPath(old.files, c.path, con.loser.clock.dev)
             row  == CopyRow(MintId(old.versions), con.loser, con.winner)
             ver  == VersionOf(path, row, con.winner.version, now)
             pay  == PayloadOf(path, row, NoPath)
  <1>1. CASE ~NeedsCopy(con.loser, con.winner.hash, anc)
    BY <1>1 DEF PreserveLoser
  <1>2. CASE NeedsCopy(con.loser, con.winner.hash, anc)
    <2>1. /\ st.files = MapSet(old.files, path, row)
          /\ st.versions = MapSet(old.versions, MintId(old.versions), ver)
          /\ st.changes = Append(old.changes, pay)
      BY <1>2 DEF PreserveLoser, Tables
    <2>2. /\ ver.path = path /\ ver.hash = row.hash
          /\ pay.path = path /\ pay.hash = row.hash /\ pay.kind = "conflictCopy"
          /\ pay.version = MintId(old.versions)
      BY DEF VersionOf, PayloadOf, CopyRow
    <2>3. VersionsOK(old.versions) /\ Dense(old.versions) /\ old.changes \in Seq(Change)
      BY DEF ContestSound, ContestOK, TablesOK, Sound
    <2> HIDE DEF st, ver, pay, row, path, old
    <2>4. /\ Extends(old.versions, st.versions)
          /\ DOMAIN st.versions = DOMAIN old.versions \cup {MintId(old.versions)}
          /\ st.versions[MintId(old.versions)] = ver
      <3>1. ASSUME NEW v, VersionsOK(v), Dense(v), NEW w, w = MapSet(v, MintId(v), ver)
            PROVE  /\ Extends(v, w) /\ DOMAIN w = DOMAIN v \cup {MintId(v)}
                   /\ w[MintId(v)] = ver
        BY <3>1, MintIdFresh
      <3> QED
        BY <2>1, <2>3, <3>1
    <2>5. /\ DOMAIN st.changes = 1..(Len(old.changes) + 1)
          /\ \A i \in DOMAIN old.changes : st.changes[i] = old.changes[i]
          /\ st.changes[Len(old.changes) + 1] = pay
      BY <2>1, <2>3
    <2>6. DOMAIN old.changes = 1..Len(old.changes) /\ Len(old.changes) \in Nat
      BY <2>3
    <2>7. AllKnown(st)
      <3>1. ASSUME NEW i \in DOMAIN st.changes
            PROVE  KnownHead(st.versions, st.changes[i].path, st.changes[i])
        <4>1. CASE i = Len(old.changes) + 1
          BY <2>2, <2>4, <2>5, <4>1 DEF KnownHead
        <4>2. CASE i # Len(old.changes) + 1
          <5>1. i \in DOMAIN old.changes
            BY <2>5, <2>6, <4>2
          <5>2. KnownHead(old.versions, old.changes[i].path, old.changes[i])
            BY <5>1 DEF AllKnown, old
          <5> QED
            BY <2>4, <2>5, <5>1, <5>2, KnownHeadExtends
        <4> QED
          BY <4>1, <4>2
      <3> QED
        BY <3>1 DEF AllKnown
    <2>8. RenamedAway(st.changes) \subseteq RenamedAway(old.changes)
      <3>1. ASSUME NEW i \in DOMAIN st.changes, st.changes[i].kind = "rename"
            PROVE  i \in DOMAIN old.changes /\ st.changes[i] = old.changes[i]
        BY <2>2, <2>5, <2>6, <3>1
      <3> QED
        BY <3>1 DEF RenamedAway
    <2>9. c.path \in DOMAIN st.files
      BY <2>1 DEF MapSet, Answers, old
    <2> QED
      BY <2>7, <2>8, <2>9 DEF Answers, st, old
  <1> QED
    BY <1>1, <1>2

\* On every branch, what a handler persists settles its commit.
LEMMA CommitSettles ==
  ASSUME TypeOK, Sound(files, versions), NEW c \in CommitMsg, c.from # c.path,
         NEW d \in Device, HandleCommit(d, c), ~CommitRefused(d, c)
  PROVE  \E st : Settled(st, c) /\ (Persist(st, FoundInBucket(c)) \/ PersistOnly(st))
  <1> DEFINE now  == seq + 1
             anc  == AncestorHashes(versions, c)
             fast == ApplyFastPath(files, versions, c, d, now)
             move == ApplyMigration(files, versions, c, d, now)
             over == MoveContest(files, versions, c, d, now)
             disp == DisplaceContest(files, versions, c, d, now)
             lose == LoseContest(files, versions, c, d)
             Done(st) == Persist(st, FoundInBucket(c)) \/ PersistOnly(st)
             Goal == \E st : Settled(st, c) /\ Done(st)
  <1>1. now \in Nat /\ ~UnknownParent(versions, c)
    BY DEF TypeOK, HandleCommit, AcceptCommit, CommitFastPath, CommitMove, CommitMoveOver,
           CommitDisplace, CommitLoses, CommitMoveLoses, CommitTorn, Admitted
  <1>2. /\ AllKnown(fast) /\ Answers(fast, c) /\ Holds(fast.versions, c.hash)
        /\ AllKnown(move) /\ Answers(move, c) /\ Holds(move.versions, c.hash)
        /\ AllKnown(over.st) /\ Answers(over.st, c) /\ Holds(over.st.versions, c.hash)
        /\ AllKnown(disp.st) /\ Answers(disp.st, c) /\ Holds(disp.st.versions, c.hash)
    BY AdvanceSettles
       DEF ApplyFastPath, ApplyMigration, MoveContest, DisplaceContest, Contest
  <1>3. c.path \in DOMAIN files =>
          /\ AllKnown(StandingHead(files, versions, c, d))
          /\ Answers(StandingHead(files, versions, c, d), c)
    BY StandingSettles
  <1>4. c.path \in DOMAIN files =>
          /\ Holds(versions, files[c.path].hash)
          /\ \A h \in anc : Holds(versions, h)
    BY <1>1 DEF Sound, Recorded, RowRecorded, Holds, AncestorHashes, UnknownParent
  <1>5. SUFFICES Goal
    OBVIOUS
  <1>6. ASSUME NEW con, ContestSound(con), AllKnown(con.st), Answers(con.st, c),
               CommitContest(c, con) \/ TornContest(c, con),
               \/ ~CarriesOwn(c)
               \/ Holds(con.st.versions, c.hash)
               \/ con.loser.hash = c.hash /\ NeedsCopy(con.loser, con.winner.hash, anc)
        PROVE  Goal
    <2> DEFINE st == PreserveLoser(con, c, anc, now)
    <2>1. ~CopyBlocked(con, c, anc) /\ Done(st)
      BY <1>6 DEF CommitContest, TornContest
    <2>2. TablesOK(st)
      BY <1>1, <1>6, <2>1, PreserveLoserOK DEF ContestSound, ContestOK
    <2>3. Sound(st.files, st.versions) /\ Extends(versions, st.versions)
      BY <1>1, <1>6, <2>1, PreserveLoserSound
    <2>4. AllKnown(st) /\ Answers(st, c)
      BY <1>6, PreserveLoserSettles
    <2>5. /\ Extends(con.st.versions, st.versions)
          /\ NeedsCopy(con.loser, con.winner.hash, anc) =>
               Holds(st.versions, con.loser.hash)
      BY <1>6, PreserveLoserHolds
    <2> HIDE DEF st, anc, Done
    <2>6. CarriesOwn(c) => Holds(st.versions, c.hash)
      BY <1>6, <2>5 DEF Holds, Extends
    <2>7. Settled(st, c)
      BY <2>2, <2>3, <2>4, <2>6 DEF Settled
    <2> QED
      BY <2>1, <2>7
  <1> HIDE DEF Goal
  <1>7. CASE CommitFastPath(d, c)
    <2>1. TablesOK(fast) /\ Sound(fast.files, fast.versions)
          /\ Extends(versions, fast.versions) /\ Done(fast)
      BY <1>1, <1>7, VerdictsOK, VerdictsSound DEF CommitFastPath
    <2> HIDE DEF fast, Done
    <2> QED
      BY <1>2, <2>1 DEF Settled, Goal
  <1>8. CASE CommitMove(d, c)
    <2>1. TablesOK(move) /\ Sound(move.files, move.versions)
          /\ Extends(versions, move.versions) /\ Done(move)
      BY <1>1, <1>8, VerdictsOK, VerdictsSound DEF CommitMove, MoveIsFree, MovesHead
    <2> HIDE DEF move, Done
    <2> QED
      BY <1>2, <2>1 DEF Settled, Goal
  <1>9. CASE CommitMoveOver(d, c)
    <2>1. ContestSound(over) /\ CommitContest(c, over)
      BY <1>1, <1>9, VerdictsSound DEF CommitMoveOver, MoveWins
    <2> HIDE DEF over, anc
    <2> QED
      BY <1>2, <1>6, <2>1
  <1>10. CASE CommitDisplace(d, c)
    <2>1. ContestSound(disp) /\ CommitContest(c, disp)
      BY <1>1, <1>10, VerdictsSound DEF CommitDisplace, IncomingWins, IsConflict
    <2> HIDE DEF disp, anc
    <2> QED
      BY <1>2, <1>6, <2>1
  <1>11. ASSUME c.path \in DOMAIN files,
                CommitContest(c, lose) \/ TornContest(c, lose)
         PROVE  Goal
    <2>1. ContestSound(lose)
      BY <1>1, <1>11, VerdictsSound
    <2>2. /\ lose.st = StandingHead(files, versions, c, d)
          /\ lose.st.versions = versions
          /\ lose.loser.hash = c.hash /\ lose.loser.isFolder = c.isFolder
          /\ lose.loser.deleted = (c.kind = "delete")
          /\ lose.winner.hash = files[c.path].hash
      BY DEF LoseContest, Contest, LosingRow, HeadRow, StandingHead, Tables
    <2>3. \/ ~CarriesOwn(c) \/ Holds(lose.st.versions, c.hash)
          \/ lose.loser.hash = c.hash /\ NeedsCopy(lose.loser, lose.winner.hash, anc)
      <3> HIDE DEF lose, anc
      <3> QED
        BY <1>4, <1>11, <2>2 DEF CarriesOwn, CarriesContent, NeedsCopy
    <2>4. AllKnown(lose.st) /\ Answers(lose.st, c)
      BY <1>3, <1>11, <2>2
    <2> HIDE DEF lose, anc
    <2> QED
      BY <1>6, <1>11, <2>1, <2>3, <2>4
  <1>12. CASE CommitLoses(d, c)
    BY <1>11, <1>12 DEF CommitLoses, HeadWins, IsConflict
  <1>13. CASE CommitMoveLoses(d, c)
    <2> DEFINE st == StandingHead(files, versions, c, d)
    <2>1. c.path \in DOMAIN files /\ ~CarriesOwn(c) /\ Done(st)
      BY <1>13 DEF CommitMoveLoses, MoveLoses, MovesHead, CarriesOwn
    <2>2. TablesOK(st) /\ Sound(st.files, st.versions) /\ Extends(versions, st.versions)
      BY <1>1, <2>1, VerdictsOK, VerdictsSound
    <2> HIDE DEF Done
    <2> QED
      BY <1>3, <2>1, <2>2 DEF Settled, Goal
  <1>14. CASE CommitTorn(d, c)
    <2>1. CASE IsFastPath(files, c)
               /\ PersistOnly(ApplyFastPath(files, versions, c, d, seq + 1))
      <3>1. TablesOK(fast) /\ Sound(fast.files, fast.versions)
            /\ Extends(versions, fast.versions) /\ Done(fast)
        BY <1>1, <2>1, VerdictsOK, VerdictsSound
      <3> HIDE DEF fast, Done
      <3> QED
        BY <1>2, <3>1 DEF Settled, Goal
    <2>2. CASE IncomingWins(files, versions, c, d)
               /\ TornContest(c, DisplaceContest(files, versions, c, d, seq + 1))
      <3>1. ContestSound(disp) /\ TornContest(c, disp)
        BY <1>1, <2>2, VerdictsSound DEF IncomingWins, IsConflict
      <3> HIDE DEF disp, anc
      <3> QED
        BY <1>2, <1>6, <3>1
    <2>3. CASE HeadWins(files, versions, c, d)
               /\ TornContest(c, LoseContest(files, versions, c, d))
      BY <1>11, <2>3 DEF HeadWins, IsConflict
    <2> QED
      BY <1>14, <2>1, <2>2, <2>3 DEF CommitTorn
  <1> QED
    BY <1>7, <1>8, <1>9, <1>10, <1>12, <1>13, <1>14 DEF HandleCommit, AcceptCommit

-----------------------------------------------------------------------------
(* The room's part of the invariant *)

LogKnown ==
  \A s \in DOMAIN events : KnownHead(versions, events[s].path, events[s])

RoomOK == TypeOK /\ Sound(files, versions) /\ LogKnown

\* The room's history and log only grow.
Grows == Extends(versions, versions') /\ seq <= seq'

\* A handled commit leaves the room sound, its history and its log longer.
LEMMA CommitGrows ==
  ASSUME RoomOK, NEW c \in CommitMsg, c.hash = NoHash => c.isFolder \/ c.kind = "delete",
         c.from # c.path, NEW d \in Device, HandleCommit(d, c)
  PROVE  /\ RoomOK' /\ Grows
         /\ (seq + 1)..seq' \subseteq DOMAIN events'
  <1>1. TypeOK' /\ Sound(files', versions')
    BY HandleCommitOK, HandleCommitSound DEF RoomOK
  <1>2. seq \in Nat /\ DOMAIN events \subseteq 1..seq
    BY DEF RoomOK, TypeOK
  <1>3. CASE CommitRefused(d, c)
    <2>1. versions' = versions /\ seq' = seq /\ events' = events
      BY <1>3 DEF CommitRefused, tables
    <2> QED
      BY <1>1, <1>2, <2>1 DEF RoomOK, Grows, LogKnown, Extends
  <1>4. CASE ~CommitRefused(d, c)
    <2>1. PICK st : Settled(st, c) /\ (Persist(st, FoundInBucket(c)) \/ PersistOnly(st))
      BY <1>4, CommitSettles DEF RoomOK
    <2>2. /\ DOMAIN versions' = DOMAIN st.versions
          /\ \A id \in DOMAIN st.versions : versions'[id] = st.versions[id]
      BY <2>1 DEF Persist, PersistOnly, PersistedVersions, Settled, Extends
    <2>3. Extends(versions, versions') /\ Extends(st.versions, versions')
      BY <2>1, <2>2 DEF Settled, Extends
    <2>4. CASE PersistOnly(st)
      <3>1. seq' = seq /\ events' = events
        BY <2>4 DEF PersistOnly
      <3>2. LogKnown'
        BY <2>3, <3>1, KnownHeadExtends DEF RoomOK, LogKnown
      <3> QED
        BY <1>1, <1>2, <2>3, <3>1, <3>2 DEF RoomOK, Grows
    <2>5. CASE Persist(st, FoundInBucket(c))
      <3>1. /\ seq' = seq + Len(st.changes)
            /\ events' = LoggedEvents(st.changes)
        BY <2>5 DEF Persist
      <3>2. /\ Len(st.changes) \in Nat
            /\ DOMAIN st.changes = 1..Len(st.changes)
        BY <2>1 DEF Settled, TablesOK
      <3>3. ASSUME NEW s \in DOMAIN events'
            PROVE  KnownHead(versions', events'[s].path, events'[s])
        <4>1. s \in DOMAIN events \cup (seq + 1)..(seq + Len(st.changes))
          BY <3>1 DEF LoggedEvents
        <4>2. CASE s > seq
          <5>1. s - seq \in DOMAIN st.changes /\ events'[s] = st.changes[s - seq]
            BY <1>2, <3>1, <3>2, <4>1, <4>2 DEF LoggedEvents
          <5> QED
            BY <2>1, <2>3, <5>1, KnownHeadExtends DEF Settled, AllKnown
        <4>3. CASE ~(s > seq)
          <5>1. s \in DOMAIN events /\ events'[s] = events[s]
            BY <1>2, <3>1, <3>2, <4>1, <4>3 DEF LoggedEvents
          <5> QED
            BY <2>3, <5>1, KnownHeadExtends DEF RoomOK, LogKnown
        <4> QED
          BY <4>2, <4>3
      <3>4. (seq + 1)..seq' \subseteq DOMAIN events' /\ seq <= seq'
        BY <1>2, <3>1, <3>2 DEF LoggedEvents
      <3> QED
        BY <1>1, <2>3, <3>3, <3>4 DEF RoomOK, Grows, LogKnown
    <2> QED
      BY <2>1, <2>4, <2>5
  <1> QED
    BY <1>3, <1>4

\* An answered commit leaves a row at its path and, unless it is a deletion, a
\* folder's or a move, its content in the history.
LEMMA CommitAnswers ==
  ASSUME RoomOK, NEW c \in CommitMsg, c.from # c.path, NEW d \in Device,
         AcceptCommit(d, c)
  PROVE  /\ c.path \in DOMAIN files'
         /\ CarriesOwn(c) => Holds(versions', c.hash)
  <1>1. ~CommitRefused(d, c)
    <2>1. ~UnknownParent(versions, c) /\ ~NoCopyName(d, c)
      BY DEF AcceptCommit, CommitFastPath, CommitMove, CommitMoveOver, CommitDisplace,
             CommitLoses, CommitMoveLoses, CommitContest, NoCopyName, Admitted,
             IsFastPath, MoveIsFree, MoveWins, MoveLoses, IncomingWins, HeadWins,
             IsConflict
    <2> QED
      BY <2>1 DEF CommitRefused
  <1>2. PICK st : Settled(st, c) /\ (Persist(st, FoundInBucket(c)) \/ PersistOnly(st))
    BY <1>1, CommitSettles DEF RoomOK, HandleCommit
  <1>3. /\ DOMAIN versions' = DOMAIN st.versions
        /\ \A id \in DOMAIN st.versions : versions'[id] = st.versions[id]
    BY <1>2 DEF Persist, PersistOnly, PersistedVersions, Settled, Extends
  <1>4. c.path \in DOMAIN files'
    BY <1>2 DEF Persist, PersistOnly, PersistedFiles, Settled, Answers, RenamedAway
  <1> QED
    BY <1>2, <1>3, <1>4 DEF Settled, Holds

-----------------------------------------------------------------------------
(* The operators of LocalVault that list, pick and fold *)

\* A sequence is a function on 1..n into its elements.
LEMMA SeqIntro ==
  ASSUME NEW X, NEW n \in Nat, NEW s \in [1..n -> X]
  PROVE  /\ s \in Seq(X) /\ Len(s) = n /\ DOMAIN s = 1..n
  OBVIOUS

\* What membership in Seq(X) means, for the solvers.
LEMMA SeqElim ==
  ASSUME NEW X, NEW s \in Seq(X)
  PROVE  /\ Len(s) \in Nat /\ DOMAIN s = 1..Len(s) /\ s \in [1..Len(s) -> X]
         /\ \A i \in DOMAIN s : s[i] \in X
  OBVIOUS

\* A sequence over X that uses only elements of Y is one over Y.
LEMMA SeqNarrow ==
  ASSUME NEW X, NEW Y, NEW s \in Seq(X), \A i \in DOMAIN s : s[i] \in Y
  PROVE  s \in Seq(Y)
  <1>1. Len(s) \in Nat /\ s \in [1..Len(s) -> Y]
    BY SeqElim
  <1> QED
    BY <1>1, SeqIntro

\* The image of a finite set is finite.
LEMMA FiniteImage ==
  ASSUME NEW f, NEW S, IsFiniteSet(S), S \subseteq DOMAIN f
  PROVE  IsFiniteSet({f[x] : x \in S})
  <1> DEFINE g == [x \in S |-> f[x]]
             T == {f[x] : x \in S}
  <1>1. g \in Surjection(S, T)
    BY DEF Surjection
  <1> QED
    BY <1>1, FS_Surjection

\* Numbers below n in a larger n's set are more: the rank tells numbers apart.
LEMMA RanksDiffer ==
  ASSUME NEW S, S \subseteq Nat, IsFiniteSet(S), NEW m \in S, NEW n \in S, m < n
  PROVE  /\ Cardinality({k \in S : k < m}) \in Nat
         /\ Cardinality({k \in S : k < n}) \in Nat
         /\ Cardinality({k \in S : k < m}) < Cardinality({k \in S : k < n})
  <1> DEFINE A == {k \in S : k < m}
             B == {k \in S : k < n}
  <1>1. A \subseteq B /\ m \in B /\ m \notin A /\ B \subseteq S
    <2>1. m \in Nat /\ n \in Nat /\ \A k \in S : k \in Nat
      OBVIOUS
    <2>2. ASSUME NEW k \in S, k < m
          PROVE  k < n
      BY <2>1, <2>2
    <2>3. ~(m < m)
      BY <2>1
    <2> QED
      BY <2>2, <2>3
  <1>2. IsFiniteSet(B) /\ IsFiniteSet(A)
    BY <1>1, FS_Subset
  <1>3. Cardinality(A) \in Nat /\ Cardinality(B) \in Nat
    BY <1>2, FS_CardinalityType
  <1>4. Cardinality(A) <= Cardinality(B) /\ (Cardinality(B) = Cardinality(A) => B = A)
    BY <1>1, <1>2, FS_Subset
  <1> HIDE DEF A, B
  <1>5. Cardinality(A) < Cardinality(B)
    BY <1>1, <1>3, <1>4
  <1> QED
    BY <1>3, <1>5 DEF A, B

\* Sorted lists a finite set of numbers: each place has a number of the set.
LEMMA SortedFacts ==
  ASSUME NEW S, S \subseteq Nat, IsFiniteSet(S)
  PROVE  /\ Cardinality(S) \in Nat
         /\ Sorted(S) \in [1..Cardinality(S) -> S]
  <1> DEFINE N       == Cardinality(S)
             Rank(n) == Cardinality({k \in S : k < n})
             T       == 0..(N - 1)
             rank    == [n \in S |-> Rank(n)]
  <1>1. N \in Nat
    BY FS_CardinalityType
  <1>2. ASSUME NEW n \in S
        PROVE  Rank(n) \in T
    <2> DEFINE B == {k \in S : k < n}
    <2>1. B \subseteq S /\ n \in S /\ n \notin B /\ B # S
      OBVIOUS
    <2>2. IsFiniteSet(B) /\ Cardinality(B) <= N /\ (N = Cardinality(B) => S = B)
      BY <2>1, FS_Subset
    <2>3. Cardinality(B) \in Nat
      BY <2>2, FS_CardinalityType
    <2> HIDE DEF B, N
    <2>4. Cardinality(B) \in 0..(N - 1)
      BY <1>1, <2>1, <2>2, <2>3
    <2> QED
      BY <2>4 DEF B
  <1>3. rank \in [S -> T]
    BY <1>2
  <1>4. ASSUME NEW m \in S, NEW n \in S, rank[m] = rank[n]
        PROVE  m = n
    <2>1. Rank(m) = Rank(n)
      BY <1>4
    <2>2. m < n => Rank(m) \in Nat /\ Rank(n) \in Nat /\ Rank(m) < Rank(n)
      BY RanksDiffer
    <2>3. n < m => Rank(m) \in Nat /\ Rank(n) \in Nat /\ Rank(n) < Rank(m)
      BY RanksDiffer
    <2> HIDE DEF Rank
    <2>4. m \in Nat /\ n \in Nat
      OBVIOUS
    <2>5. ~(m < n)
      BY <2>1, <2>2
    <2>6. ~(n < m)
      BY <2>1, <2>3
    <2> QED
      BY <2>4, <2>5, <2>6
  <1>5. rank \in Injection(S, T)
    <2> HIDE DEF rank, T
    <2> QED
      BY <1>3, <1>4 DEF Injection, IsInjective
  <1>6. IsFiniteSet(T) /\ Cardinality(T) = N
    <2> HIDE DEF N
    <2>1. 0 \in Int /\ N - 1 \in Int
      BY <1>1
    <2>2. IsFiniteSet(0..(N - 1))
          /\ Cardinality(0..(N - 1)) = IF 0 > N - 1 THEN 0 ELSE (N - 1) - 0 + 1
      BY <2>1, FS_Interval
    <2> QED
      BY <1>1, <2>2
  <1>7. rank \in Surjection(S, T)
    <2> HIDE DEF rank, T
    <2> QED
      BY <1>5, <1>6, FS_Injection
  <1>8. ASSUME NEW i \in 1..N
        PROVE  (CHOOSE n \in S : Cardinality({m \in S : m < n}) = i - 1) \in S
    <2>1. i - 1 \in T
      BY <1>1
    <2>2. PICK n \in S : rank[n] = i - 1
      <3> HIDE DEF T, rank
      <3> QED
        BY <1>7, <2>1 DEF Surjection
    <2>3. Cardinality({m \in S : m < n}) = i - 1
      BY <2>2
    <2> QED
      BY <2>3
  <1> QED
    BY <1>1, <1>8 DEF Sorted

\* Picked takes elements of the sequence, and only those at its positions.
LEMMA PickedFacts ==
  ASSUME NEW X, NEW s \in Seq(X), NEW at, at \subseteq DOMAIN s
  PROVE  /\ Picked(s, at) \in Seq(X)
         /\ \A i \in DOMAIN Picked(s, at) :
              \E j \in at : Picked(s, at)[i] = s[j]
  <1> DEFINE n == Cardinality(at)
  <1>1. at \subseteq 1..Len(s) /\ Len(s) \in Nat
    OBVIOUS
  <1>2. IsFiniteSet(at) /\ at \subseteq Nat
    <2>1. IsFiniteSet(1..Len(s))
      BY <1>1, FS_Interval
    <2> QED
      BY <1>1, <2>1, FS_Subset
  <1>3. n \in Nat /\ Sorted(at) \in [1..n -> at]
    BY <1>2, SortedFacts
  <1> HIDE DEF n
  <1>4. Picked(s, at) = [i \in 1..n |-> s[Sorted(at)[i]]]
    BY DEF Picked, n
  <1>5. \A i \in 1..n : Sorted(at)[i] \in at
    BY <1>3
  <1>6. Picked(s, at) \in [1..n -> X]
    BY <1>1, <1>4, <1>5
  <1> QED
    BY <1>3, <1>4, <1>5, <1>6, SeqIntro

\* ByPath lists paths of the set.
LEMMA ByPathFacts ==
  ASSUME NEW S, S \subseteq Path
  PROVE  ByPath(S) \in Seq(S)
  <1> DEFINE places == {PathOrder[p] : p \in S}
             n      == Cardinality(places)
  <1>1. PathOrder \in [Path -> Nat] /\ IsFiniteSet(S)
    BY RoomAssumption, PathAssumption, FS_Subset
  <1>2. IsFiniteSet(places) /\ places \subseteq Nat
    BY <1>1, FiniteImage
  <1>3. n \in Nat /\ Sorted(places) \in [1..n -> places]
    BY <1>2, SortedFacts
  <1>4. ASSUME NEW i \in 1..n
        PROVE  (CHOOSE p \in S : PathOrder[p] = Sorted(places)[i]) \in S
    <2>1. Sorted(places)[i] \in places
      BY <1>3
    <2> QED
      BY <2>1
  <1>5. ByPath(S) = [i \in 1..n |-> CHOOSE p \in S : PathOrder[p] = Sorted(places)[i]]
    BY DEF ByPath
  <1> HIDE DEF n, places
  <1>6. ByPath(S) \in [1..n -> S]
    BY <1>4, <1>5
  <1> QED
    BY <1>3, <1>6, SeqIntro

\* A listing of a finite set is a sequence of its elements.
LEMMA ListingsFacts ==
  ASSUME NEW S, IsFiniteSet(S), NEW s \in Listings(S)
  PROVE  /\ s \in Seq(S)
         /\ Len(s) = Cardinality(S) /\ Cardinality(S) \in Nat
  <1>1. Cardinality(S) \in Nat /\ s \in [1..Cardinality(S) -> S]
    BY FS_CardinalityType DEF Listings
  <1> QED
    BY <1>1, SeqIntro

\* g solves the recursion over 0..N that starts with s0 and goes on by step.
Solves(g, S, s0, N, step) ==
  /\ g \in [0..N -> S]
  /\ g[0] = s0
  /\ \A i \in 1..N : g[i] = step[<<i, g[i - 1]>>]

\* A recursion over 0..N has a solution.
LEMMA RecursionExists ==
  ASSUME NEW S, NEW s0 \in S, NEW N \in Nat, NEW step \in [(1..N) \X S -> S]
  PROVE  \E g : Solves(g, S, s0, N, step)
  <1> DEFINE Good(k, g) == g[0] = s0 /\ \A n \in 1..k : g[n] = step[<<n, g[n - 1]>>]
             Bad == {k \in 0..N : ~ \E g \in [0..k -> S] : Good(k, g)}
  <1>1. SUFFICES ASSUME N \in Bad PROVE FALSE
    BY DEF Solves
  <1>2. PICK m \in Bad : \A k \in Bad : m <= k
    <2>1. Bad \subseteq Nat
      OBVIOUS
    <2> HIDE DEF Bad
    <2> QED
      BY <1>1, <2>1, LeastNatural
  <1>3. m # 0
    <2> DEFINE g == [i \in 0..0 |-> s0]
    <2>1. g \in [0..0 -> S] /\ Good(0, g)
      OBVIOUS
    <2> QED
      BY <1>2, <2>1
  <1>4. m - 1 \in 0..N /\ m - 1 \notin Bad
    BY <1>2, <1>3
  <1>5. PICK g \in [0..(m - 1) -> S] : Good(m - 1, g)
    BY <1>4
  <1> DEFINE h == [i \in 0..m |-> IF i = m THEN step[<<m, g[m - 1]>>] ELSE g[i]]
  <1>6. m \in 1..N
    BY <1>2, <1>3
  <1>7. h \in [0..m -> S] /\ h[0] = s0
    BY <1>5, <1>6
  <1>8. ASSUME NEW n \in 1..m
        PROVE  h[n] = step[<<n, h[n - 1]>>]
    <2>1. n - 1 \in 0..(m - 1) /\ n - 1 # m
      BY <1>6
    <2>2. h[n - 1] = g[n - 1]
      BY <1>6, <2>1
    <2>3. CASE n = m
      BY <1>6, <2>2, <2>3
    <2>4. CASE n # m
      <3>1. n \in 1..(m - 1)
        BY <1>6, <2>4
      <3>2. h[n] = g[n]
        BY <1>6, <2>4, <3>1
      <3>3. g[n] = step[<<n, g[n - 1]>>]
        BY <1>5, <3>1
      <3> QED
        BY <2>2, <3>2, <3>3
    <2> QED
      BY <2>3, <2>4
  <1>9. Good(m, h)
    BY <1>7, <1>8
  <1> QED
    BY <1>2, <1>7, <1>9

\* A set that holds the disk and the index before the first pull and that no
\* pull leaves holds them after the n-th.
LEMMA AfterPullsStay ==
  ASSUME NEW S, NEW start \in S, NEW pulls, NEW n \in Nat,
         \A x \in S : \A i \in 1..n : ApplyOnePull(x, pulls[i]) \in S
  PROVE  AfterPulls(start, pulls, n) \in S
  <1> DEFINE step  == [x \in (1..n) \X S |-> ApplyOnePull(x[2], pulls[x[1]])]
             Eq(F) == F = [i \in 0..n |->
                             IF i = 0 THEN start ELSE ApplyOnePull(F[i - 1], pulls[i])]
             after == CHOOSE F : Eq(F)
  <1>1. step \in [(1..n) \X S -> S]
    OBVIOUS
  <1>2. \A i \in 1..n : \A x \in S : step[<<i, x>>] = ApplyOnePull(x, pulls[i])
    OBVIOUS
  <1> HIDE DEF step
  <1>3. PICK g : Solves(g, S, start, n, step)
    BY <1>1, RecursionExists
  <1>4. Eq(g)
    <2>1. ASSUME NEW i \in 0..n
          PROVE  g[i] = IF i = 0 THEN start ELSE ApplyOnePull(g[i - 1], pulls[i])
      <3>1. CASE i = 0
        BY <1>3, <3>1 DEF Solves
      <3>2. CASE i # 0
        <4>1. i \in 1..n /\ i - 1 \in 0..n
          BY <3>2
        <4>2. g[i - 1] \in S /\ g[i] = step[<<i, g[i - 1]>>]
          BY <1>3, <4>1 DEF Solves
        <4> QED
          BY <1>2, <3>2, <4>1, <4>2
      <3> QED
        BY <3>1, <3>2
    <2> QED
      BY <1>3, <2>1 DEF Solves
  <1>5. Eq(after)
    <2> HIDE DEF Eq
    <2> QED
      BY <1>4
  <1>6. AfterPulls(start, pulls, n) = after[n]
    BY DEF AfterPulls
  <1> HIDE DEF after
  <1>7. after[0] = start
    BY <1>5
  <1>8. ASSUME NEW i \in 1..n
        PROVE  after[i] = ApplyOnePull(after[i - 1], pulls[i])
    <2>1. i \in 0..n /\ i # 0
      OBVIOUS
    <2> QED
      BY <1>5, <2>1
  <1> HIDE DEF Eq
  <1> DEFINE Bad == {i \in 0..n : after[i] \notin S}
  <1>9. Bad = {}
    <2>1. SUFFICES ASSUME Bad # {} PROVE FALSE
      OBVIOUS
    <2>2. PICK m \in Bad : \A k \in Bad : m <= k
      <3>1. Bad \subseteq Nat
        OBVIOUS
      <3> QED
        BY <2>1, <3>1, LeastNatural
    <2>3. m # 0
      BY <1>7, <2>2
    <2>4. m \in 1..n /\ m - 1 \in 0..n /\ m - 1 \notin Bad
      BY <2>2, <2>3
    <2>5. after[m - 1] \in S
      BY <2>4
    <2> QED
      BY <1>8, <2>2, <2>4, <2>5
  <1> QED
    BY <1>6, <1>9

-----------------------------------------------------------------------------
(* What clients keep: disks, indexes, cursors, messages and jobs, above a    *)
(* history v and a log up to n                                               *)

Disks == UNION {[X -> Hash \cup {NoHash}] : X \in SUBSET Path}

\* A head of the history, or the tombstone of one the room no longer had.
HeadOK(v, p, e) ==
  \/ KnownHead(v, p, e)
  \/ e.version = EmptyId /\ e.deleted

Indexes(v) ==
  {x \in UNION {[X -> Entry] : X \in SUBSET Path} :
     \A p \in DOMAIN x : HeadOK(v, p, x[p])}

Locals(v) == [disk : Disks, index : Indexes(v)]

Marks(n) == [cursor : 0..n, synced : 0..n, needsFull : BOOLEAN]

StateFiles(v, n) == [index : Indexes(v), mark : Marks(n)]

PullSet(v) ==
  {x \in [path : Path, from : Path \cup {NoPath}, head : Entry] :
     HeadOK(v, x.path, x.head)}

\* To show that something is a disk, and what a disk gives.
LEMMA DiskIntro ==
  ASSUME NEW X, X \subseteq Path, NEW f \in [X -> Hash \cup {NoHash}]
  PROVE  f \in Disks
  BY DEF Disks

\* What a disk gives.
LEMMA DiskElim ==
  ASSUME NEW f \in Disks
  PROVE  /\ DOMAIN f \subseteq Path
         /\ \A p \in DOMAIN f : f[p] \in Hash \cup {NoHash}
         /\ IsDisk(f)
         /\ f = [p \in DOMAIN f |-> f[p]]
  <1>1. PICK X \in SUBSET Path : f \in [X -> Hash \cup {NoHash}]
    BY DEF Disks
  <1> QED
    BY <1>1 DEF IsDisk

\* To show that something is an index over the history v.
LEMMA IndexIntro ==
  ASSUME NEW v, NEW X, X \subseteq Path, NEW f \in [X -> Entry],
         \A p \in X : HeadOK(v, p, f[p])
  PROVE  f \in Indexes(v)
  BY DEF Indexes

\* What an index over the history v gives.
LEMMA IndexElim ==
  ASSUME NEW v, NEW f \in Indexes(v)
  PROVE  /\ DOMAIN f \subseteq Path
         /\ \A p \in DOMAIN f : f[p] \in Entry /\ HeadOK(v, p, f[p])
         /\ IsHeads(f)
         /\ f = [p \in DOMAIN f |-> f[p]]
  <1>1. PICK X \in SUBSET Path : f \in [X -> Entry]
    BY DEF Indexes
  <1>2. \A p \in DOMAIN f : HeadOK(v, p, f[p])
    BY DEF Indexes
  <1> QED
    BY <1>1, <1>2 DEF IsHeads

\* What is known stays known while the history and the log grow.
LEMMA HeadOKGrows ==
  ASSUME NEW v, NEW w, Extends(v, w), NEW p, NEW e, HeadOK(v, p, e)
  PROVE  HeadOK(w, p, e)
  BY KnownHeadExtends DEF HeadOK

\* An index stays one while the history grows.
LEMMA IndexesGrow ==
  ASSUME NEW v, NEW w, Extends(v, w)
  PROVE  Indexes(v) \subseteq Indexes(w)
  BY HeadOKGrows DEF Indexes

\* Cursors stay within the log while it grows.
LEMMA MarksGrow ==
  ASSUME NEW m \in Nat, NEW n \in Nat, m <= n
  PROVE  Marks(m) \subseteq Marks(n)
  BY DEF Marks

\* A state file stays one while history and log grow.
LEMMA StateFilesGrow ==
  ASSUME NEW v, NEW w, Extends(v, w), NEW m \in Nat, NEW n \in Nat, m <= n
  PROVE  StateFiles(v, m) \subseteq StateFiles(w, n)
  BY IndexesGrow, MarksGrow DEF StateFiles

\* A pull stays one while the history grows.
LEMMA PullSetGrows ==
  ASSUME NEW v, NEW w, Extends(v, w)
  PROVE  PullSet(v) \subseteq PullSet(w)
  BY HeadOKGrows DEF PullSet

-----------------------------------------------------------------------------
(* Writes, removals and pulls keep a disk and an index what they are *)

\* Writing a file or making a directory leaves a disk.
LEMMA WriteToOK ==
  ASSUME NEW disk1 \in Disks, NEW p \in Path, NEW h \in Hash \cup {NoHash}
  PROVE  WriteTo(disk1, p, h) \in Disks
  <1> DEFINE X == DOMAIN disk1 \cup Above[p] \cup {p}
  <1>1. X \subseteq Path
    BY DiskElim, TreeAssumption
  <1>2. WriteTo(disk1, p, h) \in [X -> Hash \cup {NoHash}]
    BY DiskElim DEF WriteTo
  <1> QED
    BY <1>1, <1>2, DiskIntro

\* Writing several files leaves a disk.
LEMMA WriteAllOK ==
  ASSUME NEW disk1 \in Disks, NEW writes,
         \A w \in writes : w.path \in Path /\ w.hash \in Hash \cup {NoHash}
  PROVE  WriteAll(disk1, writes) \in Disks
  <1> DEFINE paths == {w.path : w \in writes}
             X     == DOMAIN disk1 \cup paths \cup UNION {Above[p] : p \in paths}
             val(q) == IF q \in paths THEN (CHOOSE w \in writes : w.path = q).hash
                       ELSE IF q \in DOMAIN disk1 THEN disk1[q] ELSE NoHash
  <1>1. X \subseteq Path
    <2>1. paths \subseteq Path /\ DOMAIN disk1 \subseteq Path
      BY DiskElim
    <2>2. \A p \in paths : Above[p] \subseteq Path
      BY <2>1, TreeAssumption
    <2> QED
      BY <2>1, <2>2
  <1>2. ASSUME NEW q \in X
        PROVE  val(q) \in Hash \cup {NoHash}
    <2>1. CASE q \in paths
      <3>1. PICK w \in writes : w.path = q
        BY <2>1
      <3>2. (CHOOSE x \in writes : x.path = q) \in writes
        BY <3>1
      <3> QED
        BY <2>1, <3>2
    <2>2. CASE q \notin paths
      BY <2>2, DiskElim
    <2> QED
      BY <2>1, <2>2
  <1>3. WriteAll(disk1, writes) = [q \in X |-> val(q)]
    BY DEF WriteAll
  <1> HIDE DEF X, val
  <1>4. WriteAll(disk1, writes) \in [X -> Hash \cup {NoHash}]
    BY <1>2, <1>3
  <1> QED
    BY <1>1, <1>4, DiskIntro

\* Removing paths leaves a disk.
LEMMA WithoutKeysOK ==
  ASSUME NEW disk1 \in Disks, NEW keys
  PROVE  WithoutKeys(disk1, keys) \in Disks
  <1>1. WithoutKeys(disk1, keys) \in [DOMAIN disk1 \ keys -> Hash \cup {NoHash}]
    BY DiskElim DEF WithoutKeys
  <1> QED
    BY <1>1, DiskElim, DiskIntro

\* Moving a file leaves a disk.
LEMMA MoveFileOK ==
  ASSUME NEW disk1 \in Disks, NEW p \in DOMAIN disk1, NEW q \in Path
  PROVE  MoveFile(disk1, p, q) \in Disks
  BY WithoutKeysOK, WriteToOK, DiskElim DEF MoveFile

\* Removing entries leaves an index.
LEMMA IndexWithoutOK ==
  ASSUME NEW v, NEW index1 \in Indexes(v), NEW keys
  PROVE  WithoutKeys(index1, keys) \in Indexes(v)
  <1> DEFINE X == DOMAIN index1 \ keys
             f == WithoutKeys(index1, keys)
  <1>1. f = [p \in X |-> index1[p]] /\ X \subseteq Path
    BY IndexElim DEF WithoutKeys
  <1>2. \A p \in X : index1[p] \in Entry /\ HeadOK(v, p, index1[p])
    BY IndexElim
  <1> HIDE DEF X, f
  <1>3. f \in [X -> Entry] /\ \A p \in X : HeadOK(v, p, f[p])
    BY <1>1, <1>2
  <1> QED
    BY <1>1, <1>3, IndexIntro DEF f

\* Storing a known head leaves an index.
LEMMA IndexSetOK ==
  ASSUME NEW v, NEW index1 \in Indexes(v), NEW p \in Path, NEW e \in Entry,
         HeadOK(v, p, e)
  PROVE  MapSet(index1, p, e) \in Indexes(v)
  <1> DEFINE X == DOMAIN index1 \cup {p}
             f == MapSet(index1, p, e)
  <1>1. f = [x \in X |-> IF x = p THEN e ELSE index1[x]] /\ X \subseteq Path
    BY IndexElim DEF MapSet
  <1>2. \A x \in X : x # p => index1[x] \in Entry /\ HeadOK(v, x, index1[x])
    BY IndexElim
  <1> HIDE DEF X, f
  <1>3. f \in [X -> Entry] /\ \A x \in X : HeadOK(v, x, f[x])
    BY <1>1, <1>2
  <1> QED
    BY <1>1, <1>3, IndexIntro DEF f

\* Removing an empty directory leaves a disk.
LEMMA RemoveDirOK ==
  ASSUME NEW disk1 \in Disks, NEW index1, NEW dir
  PROVE  RemoveDirIfVacant(disk1, index1, dir) \in Disks
  BY WithoutKeysOK DEF RemoveDirIfVacant

\* A disk and an index make a local state.
LEMMA LocalOK ==
  ASSUME NEW v, NEW disk1 \in Disks, NEW index1 \in Indexes(v)
  PROVE  Local(disk1, index1) \in Locals(v)
  BY DEF Local, Locals

\* One pull takes a disk and an index to a disk and an index.
LEMMA ApplyOnePullOK ==
  ASSUME NEW v, NEW x \in Locals(v), NEW pull \in PullSet(v)
  PROVE  ApplyOnePull(x, pull) \in Locals(v)
  <1> DEFINE index2 == MapSet(WithoutKeys(x.index, {pull.from}), pull.path, pull.head)
             index3 == MapSet(x.index, pull.path, pull.head)
  <1>1. x.disk \in Disks /\ x.index \in Indexes(v)
    BY DEF Locals
  <1>2. /\ pull.path \in Path /\ pull.head \in Entry
        /\ HeadOK(v, pull.path, pull.head)
        /\ pull.head.hash \in Hash \cup {NoHash}
    BY DEF PullSet, Entry
  <1>3. index2 \in Indexes(v) /\ index3 \in Indexes(v)
    BY <1>1, <1>2, IndexWithoutOK, IndexSetOK
  <1>4. /\ WriteTo(x.disk, pull.path, pull.head.hash) \in Disks
        /\ WriteTo(x.disk, pull.path, NoHash) \in Disks
    BY <1>1, <1>2, WriteToOK
  <1>5. pull.from \in DOMAIN x.disk => MoveFile(x.disk, pull.from, pull.path) \in Disks
    BY <1>1, <1>2, MoveFileOK
  <1> HIDE DEF index2, index3
  <1>6. PullFolderRename(x, pull) \in Locals(v)
    BY <1>3, <1>4, RemoveDirOK, LocalOK DEF PullFolderRename, index2
  <1>7. PullRename(x, pull) \in Locals(v)
    <2> DEFINE disk2 == IF pull.from \in DOMAIN x.disk
                        THEN MoveFile(x.disk, pull.from, pull.path)
                        ELSE WriteTo(x.disk, pull.path, pull.head.hash)
    <2>1. disk2 \in Disks
      BY <1>4, <1>5
    <2>2. PullRename(x, pull) = Local(RemoveDirIfVacant(disk2, index2, Parent[pull.from]),
                                      index2)
      BY DEF PullRename, Prune, Local, index2
    <2> HIDE DEF disk2
    <2> QED
      BY <1>3, <2>1, <2>2, RemoveDirOK, LocalOK
  <1>8. PullFolder(x, pull) \in Locals(v)
    BY <1>1, <1>3, <1>4, RemoveDirOK, LocalOK DEF PullFolder, index3
  <1>9. PullDelete(x, pull) \in Locals(v)
    <2> DEFINE disk2 == WithoutKeys(x.disk, {pull.path} \ DirsOn(x.disk))
    <2>1. disk2 \in Disks
      BY <1>1, WithoutKeysOK
    <2>2. PullDelete(x, pull) = Local(RemoveDirIfVacant(disk2, index3, Parent[pull.path]),
                                      index3)
      BY DEF PullDelete, Prune, Local, index3
    <2> HIDE DEF disk2
    <2> QED
      BY <1>3, <2>1, <2>2, RemoveDirOK, LocalOK
  <1>10. PullContent(x, pull) \in Locals(v)
    BY <1>1, <1>3, <1>4, LocalOK DEF PullContent, index3
  <1> QED
    BY <1>6, <1>7, <1>8, <1>9, <1>10 DEF ApplyOnePull

\* So do n pulls.
LEMMA AfterPullsOK ==
  ASSUME NEW v, NEW x \in Locals(v), NEW pulls \in Seq(PullSet(v)),
         NEW n \in 0..Len(pulls)
  PROVE  AfterPulls(x, pulls, n) \in Locals(v)
  <1>1. n \in Nat /\ \A i \in 1..n : pulls[i] \in PullSet(v)
    OBVIOUS
  <1> QED
    BY <1>1, ApplyOnePullOK, AfterPullsStay

-----------------------------------------------------------------------------
(* The manifest, the scan and the plan *)

\* What a device may send: the parent is a version of the path (of the source,
\* for a rename), or of a path a user wrote that has no version yet or that the
\* room no longer had; a deletion carries the hash of what it deletes.
SentOK(v, c) ==
  /\ c.from # c.path
  /\ c.kind = "rename" <=> c.from # NoPath
  /\ c.hash = NoHash => c.isFolder \/ c.kind = "delete"
  /\ \/ c.parent \in {EmptyId, NoVersion} /\ c.kind \in {"edit", "restore"}
     \/ /\ c.parent \in DOMAIN v
        /\ c.kind # "conflictCopy" =>
             v[c.parent].path = IF c.kind = "rename" THEN c.from ELSE c.path
        /\ c.kind = "delete" /\ ~c.isFolder => c.hash = v[c.parent].hash

Commits(v) == {c \in CommitMsg : SentOK(v, c)}

PushSet(v) == [commit : Commits(v), source : Path \cup {NoPath}]

MergeSet(v) ==
  {m \in [path : Path, hash : Hash, parent : Nat] :
     m.parent \in DOMAIN v /\ v[m.parent].path = m.path}

\* Commits, pushes and merges stay well made while the history grows.
LEMMA CommitsGrow ==
  ASSUME NEW v, NEW w, Extends(v, w)
  PROVE  /\ Commits(v) \subseteq Commits(w)
         /\ PushSet(v) \subseteq PushSet(w)
         /\ MergeSet(v) \subseteq MergeSet(w)
  <1>1. ASSUME NEW c, SentOK(v, c)
        PROVE  SentOK(w, c)
    BY <1>1 DEF SentOK, Extends
  <1>2. Commits(v) \subseteq Commits(w)
    BY <1>1 DEF Commits
  <1> QED
    BY <1>2 DEF PushSet, MergeSet, Extends

\* A manifest: heads of the history, over what the index had.
RemoteOK(v, index1, remote) ==
  /\ DOMAIN remote \subseteq Path
  /\ \A p \in DOMAIN remote :
       /\ remote[p] \in Entry
       /\ HeadOK(v, p, remote[p])
       /\ ~KnownHead(v, p, remote[p]) => p \in DOMAIN index1 /\ remote[p] = index1[p]

\* A row of the files table is, as a manifest's entry, a known head.
LEMMA FileEntry ==
  ASSUME NEW f, NEW v, Sound(f, v), NEW p \in DOMAIN f
  PROVE  /\ p \in Path
         /\ EntryOf(f[p]) \in Entry
         /\ KnownHead(v, p, EntryOf(f[p]))
  <1>1. f[p] \in Row /\ RowRecorded(p, f[p], v) /\ p \in Path
    BY DEF Sound, Recorded, FilesOK
  <1> QED
    BY <1>1 DEF EntryOf, Entry, Row, VersionId, RowRecorded, KnownHead

\* A manifest, full or delta, holds known heads and those of the index.
LEMMA FetchOK ==
  ASSUME RoomOK, NEW d \in Device, index[d] \in Indexes(versions)
  PROVE  RemoteOK(versions, index[d], FetchManifest(d))
  <1> DEFINE X == {q \in DOMAIN files : headSeq[q] > mark[d].synced}
             delta == ManifestSince(mark[d].synced)
             whole == [p \in DOMAIN files |-> EntryOf(files[p])]
             laid  == [p \in DOMAIN index[d] \cup DOMAIN delta |->
                         IF p \in DOMAIN delta THEN delta[p] ELSE index[d][p]]
  <1>1. /\ DOMAIN delta \subseteq DOMAIN files
        /\ \A p \in DOMAIN delta : delta[p] = EntryOf(files[p])
    BY DEF ManifestSince
  <1>2. RemoteOK(versions, index[d], whole)
    BY FileEntry DEF RoomOK, RemoteOK, HeadOK
  <1>3. RemoteOK(versions, index[d], laid)
    <2> HIDE DEF delta
    <2>1. ASSUME NEW p \in DOMAIN delta
          PROVE  /\ p \in Path /\ laid[p] \in Entry /\ KnownHead(versions, p, laid[p])
      BY <1>1, FileEntry DEF RoomOK
    <2>2. ASSUME NEW p \in DOMAIN index[d], p \notin DOMAIN delta
          PROVE  /\ p \in Path /\ laid[p] \in Entry /\ HeadOK(versions, p, laid[p])
                 /\ laid[p] = index[d][p]
      BY <2>2, IndexElim
    <2>3. DOMAIN laid = DOMAIN index[d] \cup DOMAIN delta
      OBVIOUS
    <2> HIDE DEF laid
    <2> QED
      BY <2>1, <2>2, <2>3 DEF RemoteOK, HeadOK
  <1>4. FetchManifest(d) \in {laid, whole}
    BY DEF FetchManifest
  <1> QED
    BY <1>2, <1>3, <1>4

\* A changed head of a manifest is one of the history.
LEMMA ChangedKnown ==
  ASSUME NEW v, NEW index1, NEW remote, RemoteOK(v, index1, remote), NEW p,
         RemoteChanged(index1, remote, p)
  PROVE  p \in DOMAIN remote /\ KnownHead(v, p, remote[p])
  BY DEF RemoteOK, RemoteChanged

\* The outcome of one path.
OutcomeOK(v, remote, o) ==
  /\ o.pulls \subseteq PullSet(v) /\ IsFiniteSet(o.pulls)
  /\ \A x \in o.pushes : x.commit.path # NoPath => x \in PushSet(v)
  /\ IsFiniteSet(o.pushes)
  /\ \A p \in o.contested : p \in DOMAIN remote /\ KnownHead(v, p, remote[p])

\* None or one is finite.
LEMMA FewAreFinite ==
  ASSUME NEW x
  PROVE  IsFiniteSet({}) /\ IsFiniteSet({x})
  BY FS_EmptySet, FS_Singleton

\* An outcome with one pull, and nothing else.
LEMMA PullOutcomeOK ==
  ASSUME NEW v, NEW remote, NEW x \in PullSet(v)
  PROVE  OutcomeOK(v, remote, Outcome({}, {x}, {}))
  BY FewAreFinite DEF OutcomeOK, Outcome

\* A push by itself is a sound outcome.
LEMMA PushOutcomeOK ==
  ASSUME NEW v, NEW remote, NEW x \in PushSet(v)
  PROVE  OutcomeOK(v, remote, Outcome({x}, {}, {}))
  BY FewAreFinite DEF OutcomeOK, Outcome

\* Pulling a head of the manifest is a sound pull.
LEMMA PullHeadOK ==
  ASSUME NEW v, NEW index1, NEW remote, RemoteOK(v, index1, remote),
         NEW p \in DOMAIN remote, NEW from \in Path \cup {NoPath}
  PROVE  Pull(p, from, remote[p]) \in PullSet(v) /\ PullHead(remote, p) \in PullSet(v)
  BY DEF RemoteOK, PullSet, Pull, PullHead

\* So is pulling the tombstone of a path the manifest lacks.
LEMMA PullVanishedOK ==
  ASSUME NEW v, NEW index1 \in Indexes(v), NEW p \in DOMAIN index1
  PROVE  PullVanished(index1, p) \in PullSet(v)
  <1>1. index1[p] \in Entry /\ p \in Path
    BY IndexElim
  <1>2. EmptyId \in Nat
    BY EmptyIdAssumption DEF VersionId
  <1> QED
    BY <1>1, <1>2 DEF PullVanished, Pull, PullSet, HeadOK, Entry

\* A push of content is built on the index's version or on none.
LEMMA PushContentOK ==
  ASSUME NEW v, NEW index1 \in Indexes(v), NEW p \in Path, NEW hash \in Hash
  PROVE  PushContent(index1, p, hash) \in PushSet(v)
  <1> DEFINE c == CommitOf(ContentKind(index1, p), p, VersionIn(index1, p), hash, NoPath,
                           FALSE)
  <1>1. c.kind \in {"edit", "restore"} /\ c.path = p /\ c.hash = hash /\ c.from = NoPath
        /\ c.isFolder = FALSE /\ c.parent = VersionIn(index1, p)
    BY DEF CommitOf, ContentKind
  <1>2. /\ VersionIn(index1, p) \in Nat
        /\ \/ VersionIn(index1, p) \in {EmptyId, NoVersion}
           \/ VersionIn(index1, p) \in DOMAIN v /\ v[VersionIn(index1, p)].path = p
    BY IndexElim DEF VersionIn, HeadOK, KnownHead, Entry, NoVersion
  <1>3. c \in CommitMsg
    BY <1>2 DEF CommitOf, ContentKind, CommitMsg, Kind
  <1>4. SentOK(v, c)
    <2> HIDE DEF c
    <2> QED
      BY <1>1, <1>2, PathAssumption, HashAssumption DEF SentOK
  <1> QED
    BY <1>3, <1>4 DEF PushContent, Push, PushSet, Commits

\* What is deleted is live, so the room's history has it.
LEMMA PushDeleteOK ==
  ASSUME NEW v, NEW index1 \in Indexes(v), NEW p \in DOMAIN index1, ~index1[p].deleted,
         NEW isFolder \in BOOLEAN
  PROVE  PushDelete(index1, p, isFolder) \in PushSet(v)
  <1> DEFINE c == CommitOf("delete", p, VersionIn(index1, p),
                           IF isFolder THEN NoHash ELSE index1[p].hash, NoPath, isFolder)
  <1>1. p \in Path /\ index1[p] \in Entry /\ KnownHead(v, p, index1[p])
    BY IndexElim DEF HeadOK
  <1>2. c \in CommitMsg
    BY <1>1 DEF CommitOf, CommitMsg, Kind, VersionIn, Entry
  <1>3. SentOK(v, c)
    BY <1>1, PathAssumption DEF SentOK, KnownHead, CommitOf, VersionIn
  <1> QED
    BY <1>2, <1>3 DEF PushDelete, Push, PushSet, Commits

\* A rename is built on the version of the source's live entry.
LEMMA PushRenameOK ==
  ASSUME NEW v, NEW index1 \in Indexes(v), NEW x, x.from \in DOMAIN index1,
         ~index1[x.from].deleted, x.to \in Path, x.to # x.from, NEW hash \in Hash
  PROVE  PushRename(index1, x, hash) \in PushSet(v)
  <1> DEFINE c == CommitOf("rename", x.to, VersionIn(index1, x.from), hash, x.from, FALSE)
  <1>1. /\ x.from \in Path /\ index1[x.from] \in Entry
        /\ KnownHead(v, x.from, index1[x.from])
    BY IndexElim DEF HeadOK
  <1>2. c \in CommitMsg
    BY <1>1 DEF CommitOf, CommitMsg, Kind, VersionIn, Entry
  <1>3. SentOK(v, c)
    BY <1>1, PathAssumption, HashAssumption DEF SentOK, KnownHead, CommitOf, VersionIn
  <1> QED
    BY <1>2, <1>3 DEF PushRename, Push, PushSet, Commits

\* A conflict copy is built on the winner.
LEMMA CopyOfLoserOK ==
  ASSUME NEW v, NEW index1, NEW remote, NEW d \in Device, NEW p \in Path,
         p \in DOMAIN remote, remote[p] \in Entry, KnownHead(v, p, remote[p]),
         NEW hash \in Hash
  PROVE  /\ IsFiniteSet(CopyOfLoser(d, index1, remote, p, hash))
         /\ \A x \in CopyOfLoser(d, index1, remote, p, hash) :
              x.commit.path # NoPath => x \in PushSet(v)
  <1> DEFINE name == CopyName(d, index1, remote, p)
             c    == CommitOf("conflictCopy", name, remote[p].version, hash, NoPath, FALSE)
             known == [q \in DOMAIN index1 \cup DOMAIN remote |-> q]
  <1>1. name \in Path \cup {NoPath}
    <2>1. FreeCandidates(known, p, d) # {} => ConflictCopyPath(known, p, d) \in Path
      BY ConflictCopyPathFacts
    <2> QED
      BY <2>1 DEF CopyName
  <1> HIDE DEF name
  <1>2. name # NoPath => Push(c, p) \in PushSet(v)
    <2> SUFFICES ASSUME name # NoPath
                 PROVE  Push(c, p) \in PushSet(v)
      OBVIOUS
    <2>1. c \in CommitMsg
      BY <1>1 DEF CommitOf, CommitMsg, Kind, Entry
    <2>2. SentOK(v, c)
      BY <1>1, PathAssumption, HashAssumption DEF SentOK, KnownHead, CommitOf
    <2> QED
      BY <2>1, <2>2 DEF Push, PushSet, Commits
  <1>3. Push(c, p).commit.path = name
    BY DEF Push, CommitOf
  <1>4. CopyOfLoser(d, index1, remote, p, hash) \in {{}, {Push(c, p)}}
    BY DEF CopyOfLoser, name
  <1> HIDE DEF c
  <1> QED
    BY <1>2, <1>3, <1>4, FewAreFinite

\* Local content is pushed, or the head is pulled and the content copied.
LEMMA PlaceContentOK ==
  ASSUME NEW v, NEW index1 \in Indexes(v), NEW remote, RemoteOK(v, index1, remote),
         NEW d \in Device, NEW p \in Path, NEW hash \in Hash
  PROVE  OutcomeOK(v, remote, PlaceContent(d, index1, remote, p, hash))
  <1> DEFINE push   == PushContent(index1, p, hash)
             pull   == PullHead(remote, p)
             copies == CopyOfLoser(d, index1, remote, p, hash)
             both   == IF p \in DOMAIN index1 /\ ~remote[p].deleted THEN {p} ELSE {}
             Changed == RemoteChanged(index1, remote, p)
  <1>1. push \in PushSet(v)
    BY PushContentOK
  <1>2. Changed => /\ p \in DOMAIN remote /\ remote[p] \in Entry
                   /\ KnownHead(v, p, remote[p])
                   /\ pull \in PullSet(v)
    BY ChangedKnown, PullHeadOK DEF RemoteOK
  <1>3. Changed => /\ IsFiniteSet(copies)
                   /\ \A x \in copies : x.commit.path # NoPath => x \in PushSet(v)
    BY <1>2, CopyOfLoserOK
  <1>4. PlaceContent(d, index1, remote, p, hash) \in
          {Outcome({push}, {}, {})}
          \cup (IF Changed THEN {Outcome({}, {pull}, {}), Outcome(copies, {pull}, both),
                                 Outcome({push}, {}, both)} ELSE {})
    BY DEF PlaceContent, ContestedContent
  <1>5. both \subseteq {p}
    OBVIOUS
  <1> HIDE DEF push, pull, copies, both, Changed
  <1>6. OutcomeOK(v, remote, Outcome({push}, {}, {}))
    BY <1>1, PushOutcomeOK
  <1>7. Changed => /\ OutcomeOK(v, remote, Outcome({}, {pull}, {}))
                   /\ OutcomeOK(v, remote, Outcome(copies, {pull}, both))
                   /\ OutcomeOK(v, remote, Outcome({push}, {}, both))
    BY <1>1, <1>2, <1>3, <1>5, FewAreFinite DEF OutcomeOK, Outcome
  <1> QED
    BY <1>4, <1>6, <1>7

\* A local deletion is pushed, or the head is pulled.
LEMMA PlaceDeleteOK ==
  ASSUME NEW v, NEW index1 \in Indexes(v), NEW remote, RemoteOK(v, index1, remote),
         NEW d \in Device, NEW p \in DOMAIN index1, ~index1[p].deleted,
         NEW isFolder \in BOOLEAN
  PROVE  OutcomeOK(v, remote, PlaceDelete(d, index1, remote, p, isFolder))
  <1>1. PushDelete(index1, p, isFolder) \in PushSet(v)
    BY PushDeleteOK
  <1>2. RemoteChanged(index1, remote, p) => PullHead(remote, p) \in PullSet(v)
    BY ChangedKnown, PullHeadOK
  <1>3. PlaceDelete(d, index1, remote, p, isFolder) \in
          {Outcome({PushDelete(index1, p, isFolder)}, {}, {})}
          \cup (IF RemoteChanged(index1, remote, p)
                THEN {Outcome({}, {PullHead(remote, p)}, {})} ELSE {})
    BY DEF PlaceDelete, ContestedDelete
  <1> QED
    BY <1>1, <1>2, <1>3, PullOutcomeOK, PushOutcomeOK

\* Matched paths have the same content.
LEMMA MatchingFacts ==
  ASSUME NEW sources, NEW targets, NEW x \in Matching(sources, targets)
  PROVE  /\ x \in [from : DOMAIN sources, to : DOMAIN targets]
         /\ sources[x.from] = targets[x.to]
  BY DEF Matching

\* What a scan reports of a disk and an index.
LEMMA ScanFacts ==
  ASSUME NEW d \in Device, NEW disk1 \in Disks, NEW v, NEW index1 \in Indexes(v)
  PROVE  LET scan == ScanVault(d, disk1, index1)
         IN  /\ scan.added \subseteq Kept(d, disk1) \ DOMAIN index1
             /\ scan.modified \subseteq Kept(d, disk1)
             /\ scan.deleted \subseteq Gone(d, disk1, index1)
             /\ scan.renamed \subseteq [from : Gone(d, disk1, index1),
                                        to : Added(d, disk1, index1)]
             /\ \A p \in scan.folderDeletions :
                  p \in DOMAIN index1 /\ index1[p].isFolder /\ ~index1[p].deleted
             /\ scan.emptyFolders \subseteq Path /\ scan.staleDirs \subseteq Path
  <1> DEFINE gone  == Gone(d, disk1, index1)
             added == Added(d, disk1, index1)
  <1>1. \A x \in RenamedByHash(d, disk1, index1) : x \in [from : gone, to : added]
    <2>1. \A x \in RenamedByHash(d, disk1, index1) :
            x \in [from : DOMAIN [p \in gone |-> index1[p].hash],
                   to : DOMAIN [q \in added |-> disk1[q]]]
      BY MatchingFacts DEF RenamedByHash
    <2> QED
      BY <2>1
  <1>2. \A g, a : RenamedByName(g, a) \subseteq [from : g, to : a]
    BY DEF RenamedByName
  <1>3. DetectRenames(d, disk1, index1) \subseteq [from : gone, to : added]
    BY <1>1, <1>2 DEF DetectRenames
  <1>4. DirsOn(disk1) \subseteq Path
    BY DiskElim DEF DirsOn
  <1> HIDE DEF gone, added
  <1> QED
    BY <1>3, <1>4 DEF ScanVault, Added, Modified, FolderDeletions, EmptyFolders, StaleDirs,
                      gone, added

\* Files that are kept are on the disk; what is gone is live in the index.
LEMMA KeptFacts ==
  ASSUME NEW d, NEW disk1 \in Disks, NEW v, NEW index1 \in Indexes(v)
  PROVE  /\ \A p \in Kept(d, disk1) : p \in Path /\ disk1[p] \in Hash
         /\ \A p \in Gone(d, disk1, index1) :
              p \in DOMAIN index1 /\ ~index1[p].deleted /\ ~index1[p].isFolder
         /\ \A p \in Added(d, disk1, index1) : p \in Kept(d, disk1) /\ p \notin DOMAIN index1
  BY DiskElim DEF Kept, FilesOn, Gone, LiveFiles, Added

\* Phase A (resolve.ts) plans sound pulls and pushes for a local rename.
LEMMA RenameOutcomesOK ==
  ASSUME NEW v, NEW index1 \in Indexes(v), NEW remote, RemoteOK(v, index1, remote),
         NEW d \in Device, NEW disk1 \in Disks,
         NEW x \in [from : Gone(d, disk1, index1), to : Added(d, disk1, index1)]
  PROVE  /\ IsFiniteSet(RenameOutcomes(d, disk1, index1, remote, x))
         /\ \A o \in RenameOutcomes(d, disk1, index1, remote, x) : OutcomeOK(v, remote, o)
  <1> DEFINE moved  == Outcome({PushRename(index1, x, disk1[x.to])}, {}, {})
             source == SourceOutcome(d, index1, remote, x)
             placed == PlaceContent(d, index1, remote, x.to, disk1[x.to])
  <1>1. /\ x.from \in DOMAIN index1 /\ ~index1[x.from].deleted
        /\ x.to \in Path /\ x.to \notin DOMAIN index1 /\ disk1[x.to] \in Hash
    BY KeptFacts
  <1>2. OutcomeOK(v, remote, moved)
    BY <1>1, PushRenameOK, PushOutcomeOK
  <1>3. OutcomeOK(v, remote, placed)
    BY <1>1, PlaceContentOK
  <1>4. OutcomeOK(v, remote, source)
    <2>1. PushDelete(index1, x.from, FALSE) \in PushSet(v)
      BY <1>1, PushDeleteOK
    <2>2. x.from \in DOMAIN remote => PullHead(remote, x.from) \in PullSet(v)
      BY PullHeadOK
    <2>3. PullVanished(index1, x.from) \in PullSet(v)
      BY <1>1, PullVanishedOK
    <2> QED
      BY <2>1, <2>2, <2>3, PullOutcomeOK, PushOutcomeOK DEF SourceOutcome
  <1>5. RenameOutcomes(d, disk1, index1, remote, x) \in {{moved}, {source, placed}}
    BY DEF RenameOutcomes
  <1> HIDE DEF moved, source, placed
  <1>6. {source, placed} = {source} \cup {placed}
    OBVIOUS
  <1>7. IsFiniteSet({source, placed})
    <2>1. IsFiniteSet({source}) /\ IsFiniteSet({placed})
      BY FewAreFinite
    <2>2. IsFiniteSet({source} \cup {placed})
      BY <2>1, FS_Union
    <2> QED
      BY <1>6, <2>2
  <1> QED
    BY <1>2, <1>3, <1>4, <1>5, <1>7, FewAreFinite

\* Sets of paths are finite.
LEMMA FinitePaths ==
  ASSUME NEW S, S \subseteq Path
  PROVE  IsFiniteSet(S)
  BY PathAssumption, FS_Subset

\* Sets of pairs of paths are finite.
LEMMA FinitePairs ==
  ASSUME NEW S, S \subseteq [from : Path, to : Path]
  PROVE  IsFiniteSet(S)
  <1> DEFINE f == [x \in Path \X Path |-> Pair(x[1], x[2])]
             T == {f[x] : x \in Path \X Path}
  <1>1. IsFiniteSet(Path \X Path)
    BY PathAssumption, FS_Product
  <1>2. IsFiniteSet(T)
    BY <1>1, FiniteImage
  <1>3. ASSUME NEW y \in S
        PROVE  y \in T
    <2>1. y.from \in Path /\ y.to \in Path /\ y = Pair(y.from, y.to)
      BY DEF Pair
    <2>2. <<y.from, y.to>> \in Path \X Path /\ f[<<y.from, y.to>>] = y
      BY <2>1
    <2> QED
      BY <2>2
  <1> QED
    BY <1>2, <1>3, FS_Subset

\* Phase B plans sound pulls for what moved or vanished in the room.
LEMMA MigrationOutcomesOK ==
  ASSUME NEW v, NEW index1 \in Indexes(v), NEW remote, RemoteOK(v, index1, remote),
         NEW scan
  PROVE  /\ IsFiniteSet(MigrationOutcomes(scan, index1, remote))
         /\ \A o \in MigrationOutcomes(scan, index1, remote) : OutcomeOK(v, remote, o)
         /\ RemoteRenames(scan, index1, remote) \subseteq
              [from : Migrated(scan, index1, remote), to : Arrivals(scan, index1, remote)]
  <1> DEFINE moves == RemoteRenames(scan, index1, remote)
             left  == Migrated(scan, index1, remote) \ {x.from : x \in moves}
             f == [x \in moves |-> Outcome({}, {Pull(x.to, x.from, remote[x.to])}, {})]
             g == [p \in left |-> Outcome({}, {PullVanished(index1, p)}, {})]
  <1>1. moves \subseteq [from : Migrated(scan, index1, remote),
                         to : Arrivals(scan, index1, remote)]
    <2>1. \A x \in moves :
            x \in [from : DOMAIN [p \in Migrated(scan, index1, remote) |-> index1[p].hash],
                   to : DOMAIN [q \in Arrivals(scan, index1, remote) |-> remote[q].hash]]
      BY MatchingFacts DEF RemoteRenames
    <2> QED
      BY <2>1
  <1>2. /\ Migrated(scan, index1, remote) \subseteq DOMAIN index1
        /\ Arrivals(scan, index1, remote) \subseteq DOMAIN remote
        /\ DOMAIN index1 \subseteq Path /\ DOMAIN remote \subseteq Path
    BY IndexElim DEF Migrated, LiveFiles, Arrivals, RemoteOK
  <1>3. IsFiniteSet(moves) /\ IsFiniteSet(left)
    <2>1. moves \subseteq [from : Path, to : Path]
      BY <1>1, <1>2
    <2> QED
      BY <1>2, <2>1, FinitePairs, FinitePaths
  <1>4. IsFiniteSet({f[x] : x \in moves}) /\ IsFiniteSet({g[p] : p \in left})
    BY <1>3, FiniteImage
  <1>5. MigrationOutcomes(scan, index1, remote)
          = {f[x] : x \in moves} \cup {g[p] : p \in left}
    BY DEF MigrationOutcomes
  <1>6. ASSUME NEW x \in moves
        PROVE  OutcomeOK(v, remote, f[x])
    <2>1. x.to \in DOMAIN remote /\ x.from \in Path
      BY <1>1, <1>2
    <2>2. Pull(x.to, x.from, remote[x.to]) \in PullSet(v)
      BY <2>1, PullHeadOK
    <2> QED
      BY <2>2, PullOutcomeOK
  <1>7. ASSUME NEW p \in left
        PROVE  OutcomeOK(v, remote, g[p])
    <2>1. PullVanished(index1, p) \in PullSet(v)
      BY <1>2, PullVanishedOK
    <2> QED
      BY <2>1, PullOutcomeOK
  <1> HIDE DEF f, g, left
  <1>8. IsFiniteSet(MigrationOutcomes(scan, index1, remote))
    BY <1>4, <1>5, FS_Union
  <1> QED
    BY <1>1, <1>5, <1>6, <1>7, <1>8

\* Phase C plans sound pulls for what only the room changed.
LEMMA RemoteOutcomesOK ==
  ASSUME NEW v, NEW index1 \in Indexes(v), NEW remote, RemoteOK(v, index1, remote),
         NEW scan
  PROVE  /\ IsFiniteSet(RemoteOutcomes(scan, index1, remote))
         /\ \A o \in RemoteOutcomes(scan, index1, remote) : OutcomeOK(v, remote, o)
  <1> DEFINE S == {q \in DOMAIN remote \ LocalPaths(scan) :
                     /\ RemoteChanged(index1, remote, q)
                     /\ \A x \in RemoteRenames(scan, index1, remote) : q # x.to}
             f == [p \in S |-> Outcome({}, {PullHead(remote, p)}, {})]
  <1>1. S \subseteq DOMAIN remote /\ DOMAIN remote \subseteq Path
    BY DEF RemoteOK
  <1>2. RemoteOutcomes(scan, index1, remote) = {f[p] : p \in S}
    BY DEF RemoteOutcomes
  <1>3. ASSUME NEW p \in S
        PROVE  OutcomeOK(v, remote, f[p])
    BY <1>1, PullHeadOK, PullOutcomeOK
  <1>4. DOMAIN f = S
    OBVIOUS
  <1> HIDE DEF f, S
  <1>5. IsFiniteSet(S)
    BY <1>1, FinitePaths
  <1>6. IsFiniteSet({f[p] : p \in S})
    BY <1>4, <1>5, FiniteImage
  <1> QED
    BY <1>2, <1>3, <1>6

\* Phase D plans sound pulls and pushes for what changed on the disk.
LEMMA LocalOutcomesOK ==
  ASSUME NEW v, NEW index1 \in Indexes(v), NEW remote, RemoteOK(v, index1, remote),
         NEW d \in Device, NEW disk1 \in Disks
  PROVE  LET out == LocalOutcomes(d, ScanVault(d, disk1, index1), disk1, index1, remote)
         IN  IsFiniteSet(out) /\ \A o \in out : OutcomeOK(v, remote, o)
  <1> DEFINE scan == ScanVault(d, disk1, index1)
             A == scan.added \cup scan.modified
             B == scan.deleted
             C == scan.folderDeletions
             f == [p \in A |-> PlaceContent(d, index1, remote, p, disk1[p])]
             g == [p \in B |-> PlaceDelete(d, index1, remote, p, FALSE)]
             h == [p \in C |-> PlaceDelete(d, index1, remote, p, TRUE)]
  <1>1. /\ A \subseteq Kept(d, disk1) /\ B \subseteq Gone(d, disk1, index1)
        /\ \A p \in C : p \in DOMAIN index1 /\ ~index1[p].deleted
    BY ScanFacts
  <1>2. LocalOutcomes(d, scan, disk1, index1, remote)
          = {f[p] : p \in A} \cup {g[p] : p \in B} \cup {h[p] : p \in C}
    BY DEF LocalOutcomes
  <1> HIDE DEF scan
  <1>3. /\ \A p \in A : p \in Path /\ disk1[p] \in Hash
        /\ \A p \in B \cup C : p \in DOMAIN index1 /\ p \in Path /\ ~index1[p].deleted
    BY <1>1, KeptFacts, IndexElim
  <1> HIDE DEF A, B, C
  <1>4. \A p \in A : OutcomeOK(v, remote, f[p])
    BY <1>3, PlaceContentOK
  <1>5. \A p \in B : OutcomeOK(v, remote, g[p])
    BY <1>3, PlaceDeleteOK
  <1>6. \A p \in C : OutcomeOK(v, remote, h[p])
    BY <1>3, PlaceDeleteOK
  <1>7. DOMAIN f = A /\ DOMAIN g = B /\ DOMAIN h = C
    OBVIOUS
  <1> HIDE DEF f, g, h
  <1>8. IsFiniteSet(A) /\ IsFiniteSet(B) /\ IsFiniteSet(C)
    BY <1>3, FinitePaths
  <1>9. /\ IsFiniteSet({f[p] : p \in A}) /\ IsFiniteSet({g[p] : p \in B})
        /\ IsFiniteSet({h[p] : p \in C})
    BY <1>7, <1>8, FiniteImage
  <1>10. IsFiniteSet({f[p] : p \in A} \cup {g[p] : p \in B} \cup {h[p] : p \in C})
    BY <1>9, FS_Union
  <1> QED
    BY <1>2, <1>4, <1>5, <1>6, <1>10 DEF scan

\* What the phases of a plan find.
PlanOutcomes(d, scan, disk1, index1, remote) ==
  (UNION {RenameOutcomes(d, disk1, index1, remote, x) : x \in scan.renamed})
    \cup MigrationOutcomes(scan, index1, remote)
    \cup RemoteOutcomes(scan, index1, remote)
    \cup LocalOutcomes(d, scan, disk1, index1, remote)

\* All phases together.
LEMMA PlanOutcomesOK ==
  ASSUME NEW v, NEW index1 \in Indexes(v), NEW remote, RemoteOK(v, index1, remote),
         NEW d \in Device, NEW disk1 \in Disks
  PROVE  LET out == PlanOutcomes(d, ScanVault(d, disk1, index1), disk1, index1, remote)
         IN  IsFiniteSet(out) /\ \A o \in out : OutcomeOK(v, remote, o)
  <1> DEFINE scan == ScanVault(d, disk1, index1)
             R == scan.renamed
             f == [x \in R |-> RenameOutcomes(d, disk1, index1, remote, x)]
             M == MigrationOutcomes(scan, index1, remote)
             N == RemoteOutcomes(scan, index1, remote)
             L == LocalOutcomes(d, scan, disk1, index1, remote)
  <1>1. R \subseteq [from : Gone(d, disk1, index1), to : Added(d, disk1, index1)]
    BY ScanFacts
  <1>2. Gone(d, disk1, index1) \subseteq Path /\ Added(d, disk1, index1) \subseteq Path
    BY KeptFacts, IndexElim
  <1>3. IsFiniteSet(L) /\ \A o \in L : OutcomeOK(v, remote, o)
    BY LocalOutcomesOK
  <1>4. /\ IsFiniteSet(M) /\ \A o \in M : OutcomeOK(v, remote, o)
        /\ IsFiniteSet(N) /\ \A o \in N : OutcomeOK(v, remote, o)
    BY MigrationOutcomesOK, RemoteOutcomesOK
  <1>5. PlanOutcomes(d, scan, disk1, index1, remote)
          = (UNION {f[x] : x \in R}) \cup M \cup N \cup L
    BY DEF PlanOutcomes
  <1> HIDE DEF scan, R, M, N, L
  <1>6. IsFiniteSet(R)
    BY <1>1, <1>2, FinitePairs
  <1>7. \A x \in R : IsFiniteSet(f[x]) /\ \A o \in f[x] : OutcomeOK(v, remote, o)
    BY <1>1, RenameOutcomesOK
  <1>8. DOMAIN f = R
    OBVIOUS
  <1> HIDE DEF f
  <1>9. IsFiniteSet({f[x] : x \in R})
    BY <1>6, <1>8, FiniteImage
  <1>10. IsFiniteSet(UNION {f[x] : x \in R})
    BY <1>7, <1>9, FS_UNION
  <1> DEFINE U == UNION {f[x] : x \in R}
  <1>11. \A o \in U : OutcomeOK(v, remote, o)
    BY <1>7
  <1> HIDE DEF U
  <1>12. IsFiniteSet(U \cup M)
    BY <1>4, <1>10, FS_Union DEF U
  <1>13. IsFiniteSet((U \cup M) \cup N)
    BY <1>4, <1>12, FS_Union
  <1>14. IsFiniteSet(((U \cup M) \cup N) \cup L)
    BY <1>3, <1>13, FS_Union
  <1>15. PlanOutcomes(d, scan, disk1, index1, remote) = U \cup M \cup N \cup L
    BY <1>5 DEF U
  <1> QED
    BY <1>3, <1>4, <1>11, <1>14, <1>15 DEF scan

\* computeSyncPlan returns sound pulls and pushes, finitely many.
LEMMA PlanOK ==
  ASSUME NEW v, NEW index1 \in Indexes(v), NEW remote, RemoteOK(v, index1, remote),
         NEW d \in Device, NEW disk1 \in Disks
  PROVE  LET scan == ScanVault(d, disk1, index1)
             plan == ComputeSyncPlan(d, scan, disk1, index1, remote)
         IN  /\ plan.pulls \subseteq PullSet(v) /\ IsFiniteSet(plan.pulls)
             /\ plan.pushes \subseteq PushSet(v) /\ IsFiniteSet(plan.pushes)
             /\ \A p \in plan.contested : p \in DOMAIN remote /\ KnownHead(v, p, remote[p])
             /\ plan.folders \in Seq(Path)
             /\ scan.staleDirs \subseteq Path
  <1> DEFINE scan   == ScanVault(d, disk1, index1)
             plan   == ComputeSyncPlan(d, scan, disk1, index1, remote)
             out    == PlanOutcomes(d, scan, disk1, index1, remote)
             pulls  == UNION {o.pulls : o \in out}
             pushes == UNION {o.pushes : o \in out}
             f == [o \in out |-> o.pulls]
             g == [o \in out |-> o.pushes]
  <1>1. IsFiniteSet(out) /\ \A o \in out : OutcomeOK(v, remote, o)
    BY PlanOutcomesOK
  <1>2. /\ plan.pulls = pulls
        /\ plan.pushes = {x \in pushes : x.commit.path # NoPath}
        /\ plan.contested = UNION {o.contested : o \in out}
        /\ plan.folders = ByPath(scan.emptyFolders)
    BY DEF ComputeSyncPlan, PlanOutcomes
  <1>3. plan.folders \in Seq(Path) /\ scan.staleDirs \subseteq Path
    <2>1. scan.emptyFolders \subseteq Path /\ scan.staleDirs \subseteq Path
      BY ScanFacts
    <2> HIDE DEF scan, plan
    <2>2. ByPath(scan.emptyFolders) \in Seq(scan.emptyFolders)
      BY <2>1, ByPathFacts
    <2>3. ByPath(scan.emptyFolders) \in Seq(Path)
      BY <2>1, <2>2, SeqElim, SeqNarrow
    <2> QED
      BY <1>2, <2>1, <2>3
  <1> HIDE DEF out, plan, scan
  <1>4. IsFiniteSet({f[o] : o \in out}) /\ IsFiniteSet({g[o] : o \in out})
    BY <1>1, FiniteImage
  <1>5. pulls = UNION {f[o] : o \in out} /\ pushes = UNION {g[o] : o \in out}
    OBVIOUS
  <1>6. \A o \in out : IsFiniteSet(f[o]) /\ IsFiniteSet(g[o])
    BY <1>1 DEF OutcomeOK
  <1> HIDE DEF f, g
  <1>7. IsFiniteSet(pulls) /\ IsFiniteSet(pushes)
    <2>1. IsFiniteSet(UNION {f[o] : o \in out})
      BY <1>4, <1>6, FS_UNION
    <2>2. IsFiniteSet(UNION {g[o] : o \in out})
      BY <1>4, <1>6, FS_UNION
    <2> HIDE DEF pulls, pushes
    <2> QED
      BY <1>5, <2>1, <2>2
  <1>8. IsFiniteSet(plan.pushes)
    BY <1>2, <1>7, FS_Subset
  <1>9. /\ plan.pulls \subseteq PullSet(v) /\ plan.pushes \subseteq PushSet(v)
        /\ \A p \in plan.contested : p \in DOMAIN remote /\ KnownHead(v, p, remote[p])
    BY <1>1, <1>2 DEF OutcomeOK
  <1> QED
    BY <1>2, <1>3, <1>7, <1>8, <1>9 DEF plan, scan

-----------------------------------------------------------------------------
(* The invariant *)

Phases == {"off", "greeted", "replaying", "fetching", "planned", "pushing", "live"}

\* A plan's pushes until it is executed, then the commits to send.
PushesIn(v, ph) ==
  IF ph = "planned" THEN Seq(PushSet(v))
  ELSE IF ph = "pushing" THEN Seq(Commits(v)) ELSE {<<>>}

JobSet(v, n) ==
  {j \in [pulls : SUBSET PullSet(v), merges : SUBSET MergeSet(v),
          pushes : Seq(PushSet(v)) \cup Seq(Commits(v)), folders : Seq(Path),
          stale : SUBSET Path, sent : SUBSET CommitMsg, cursor : 0..n,
          starting : BOOLEAN, tidied : BOOLEAN, failed : BOOLEAN] :
     IsFiniteSet(j.pulls) /\ IsFiniteSet(j.merges)}

\* The changes a device is sent.
Mail(v, n) ==
  {m \in [seq : 0..n, change : Change] : KnownHead(v, m.change.path, m.change)}

ClientsOK(v, n) ==
  /\ disk \in [Device -> Disks]
  /\ index \in [Device -> Indexes(v)]
  /\ mark \in [Device -> Marks(n)]
  /\ saved \in [Device -> StateFiles(v, n)]
  /\ oldest \in [Device -> Nat]
  /\ inbox \in [Device -> Seq(Mail(v, n))]
  /\ wire \in [Device -> Seq(Commits(v))]
  /\ phase \in [Device -> Phases]
  /\ job \in [Device -> JobSet(v, n)]
  /\ \A d \in Device : job[d].pushes \in PushesIn(v, phase[d])
  /\ edits \in 0..MaxEdits /\ faults \in 0..MaxFaults

SyncInv == RoomOK /\ ClientsOK(versions, seq)

\* A function into a set is one into a larger set; so is a sequence.
LEMMA MapWidens ==
  ASSUME NEW S, NEW X, NEW Y, X \subseteq Y
  PROVE  [S -> X] \subseteq [S -> Y] /\ Seq(X) \subseteq Seq(Y)
  <1>1. ASSUME NEW s \in Seq(X)
        PROVE  s \in Seq(Y)
    BY SeqElim, SeqNarrow
  <1> QED
    BY <1>1

\* A queue of pushes stays well made while the history grows.
LEMMA PushesGrow ==
  ASSUME NEW v, NEW w, Extends(v, w), NEW ph
  PROVE  PushesIn(v, ph) \subseteq PushesIn(w, ph)
  BY CommitsGrow, MapWidens DEF PushesIn

\* So does the state of an operation.
LEMMA JobSetGrows ==
  ASSUME NEW v, NEW w, Extends(v, w), NEW m \in Nat, NEW n \in Nat, m <= n
  PROVE  JobSet(v, m) \subseteq JobSet(w, n)
  <1>1. PullSet(v) \subseteq PullSet(w) /\ MergeSet(v) \subseteq MergeSet(w)
    BY PullSetGrows, CommitsGrow
  <1>2. Seq(PushSet(v)) \subseteq Seq(PushSet(w)) /\ Seq(Commits(v)) \subseteq Seq(Commits(w))
    BY CommitsGrow, MapWidens
  <1>3. 0..m \subseteq 0..n
    OBVIOUS
  <1> QED
    BY <1>1, <1>2, <1>3 DEF JobSet

\* A change stays one of the log while history and log grow.
LEMMA MailGrows ==
  ASSUME NEW v, NEW w, Extends(v, w), NEW m \in Nat, NEW n \in Nat, m <= n
  PROVE  Mail(v, m) \subseteq Mail(w, n)
  BY KnownHeadExtends DEF Mail

\* The clients stay what they are while the room's history and log grow.
LEMMA ClientsGrow ==
  ASSUME NEW v, NEW w, Extends(v, w), NEW m \in Nat, NEW n \in Nat, m <= n,
         ClientsOK(v, m)
  PROVE  ClientsOK(w, n)
  <1>1. index \in [Device -> Indexes(w)] /\ saved \in [Device -> StateFiles(w, n)]
    BY IndexesGrow, StateFilesGrow, MapWidens DEF ClientsOK
  <1>2. mark \in [Device -> Marks(n)]
    BY MarksGrow, MapWidens DEF ClientsOK
  <1>3. inbox \in [Device -> Seq(Mail(w, n))]
    <2>1. Seq(Mail(v, m)) \subseteq Seq(Mail(w, n))
      BY MailGrows, MapWidens
    <2> QED
      BY <2>1, MapWidens DEF ClientsOK
  <1>4. wire \in [Device -> Seq(Commits(w))]
    <2>1. Seq(Commits(v)) \subseteq Seq(Commits(w))
      BY CommitsGrow, MapWidens
    <2> QED
      BY <2>1, MapWidens DEF ClientsOK
  <1>5. job \in [Device -> JobSet(w, n)]
    BY JobSetGrows, MapWidens DEF ClientsOK
  <1>6. \A d \in Device : job[d].pushes \in PushesIn(w, phase[d])
    BY PushesGrow DEF ClientsOK
  <1> QED
    BY <1>1, <1>2, <1>3, <1>4, <1>5, <1>6 DEF ClientsOK

\* What is known of one device.
LEMMA ClientOK ==
  ASSUME NEW v, NEW n \in Nat, ClientsOK(v, n), NEW d \in Device
  PROVE  /\ disk[d] \in Disks /\ index[d] \in Indexes(v) /\ mark[d] \in Marks(n)
         /\ saved[d].index \in Indexes(v) /\ saved[d].mark \in Marks(n)
         /\ inbox[d] \in Seq(Mail(v, n)) /\ wire[d] \in Seq(Commits(v))
         /\ job[d] \in JobSet(v, n) /\ job[d].pushes \in PushesIn(v, phase[d])
  BY DEF ClientsOK, StateFiles

\* Idle jobs.
LEMMA IdleOK ==
  ASSUME NEW v, NEW n \in Nat
  PROVE  /\ Idle \in JobSet(v, n) /\ Idle.pushes = <<>>
         /\ Starting \in JobSet(v, n) /\ Starting.pushes = <<>>
         /\ Idle.merges = {} /\ Starting.merges = {}
  <1>1. <<>> \in Seq(Path) /\ <<>> \in Seq(Commits(v)) /\ 0 \in 0..n
    OBVIOUS
  <1>2. Idle \in JobSet(v, n) /\ Idle.pushes = <<>> /\ Idle.merges = {}
    BY <1>1, FS_EmptySet DEF Idle, Job, JobSet
  <1> HIDE DEF Idle
  <1>3. Starting \in JobSet(v, n)
    BY <1>2 DEF Starting, JobSet
  <1> QED
    BY <1>2, <1>3 DEF Starting, JobSet

-----------------------------------------------------------------------------
(* Steps that leave the room alone *)

\* The room's part of the invariant does not change with the clients.
LEMMA RoomUnchanged ==
  ASSUME SyncInv, UNCHANGED room
  PROVE  RoomOK' /\ versions' = versions /\ seq' = seq /\ seq \in Nat
  <1>1. /\ files' = files /\ headSeq' = headSeq /\ versions' = versions /\ seq' = seq
        /\ events' = events /\ snapshots' = snapshots /\ blobs' = blobs
        /\ bucket' = bucket /\ purged' = purged /\ uploading' = uploading
    BY DEF room, vars, tables, store
  <1>2. TypeOK'
    BY <1>1 DEF SyncInv, RoomOK, TypeOK
  <1>3. Sound(files', versions') /\ LogKnown'
    BY <1>1 DEF SyncInv, RoomOK, LogKnown
  <1> QED
    BY <1>1, <1>2, <1>3 DEF SyncInv, RoomOK, TypeOK

\* Become moves one device to a phase and a job that fit together.
LEMMA BecomeOK ==
  ASSUME NEW v, NEW n, ClientsOK(v, n), NEW d \in Device, NEW where \in Phases,
         NEW what \in JobSet(v, n), what.pushes \in PushesIn(v, where),
         Become(d, where, what)
  PROVE  /\ phase' \in [Device -> Phases]
         /\ job' \in [Device -> JobSet(v, n)]
         /\ \A e \in Device : job'[e].pushes \in PushesIn(v, phase'[e])
  BY DEF Become, ClientsOK

\* A device that rests has no job but to start.
LEMMA RestOK ==
  ASSUME NEW v, NEW n \in Nat, ClientsOK(v, n), NEW d \in Device, Rest(d)
  PROVE  /\ phase' \in [Device -> Phases]
         /\ job' \in [Device -> JobSet(v, n)]
         /\ \A e \in Device : job'[e].pushes \in PushesIn(v, phase'[e])
  <1>1. "replaying" \in Phases /\ "live" \in Phases
    BY DEF Phases
  <1>2. Idle.pushes \in PushesIn(v, "live") /\ Starting.pushes \in PushesIn(v, "replaying")
    BY IdleOK DEF PushesIn
  <1> QED
    BY <1>1, <1>2, BecomeOK, IdleOK DEF Rest

\* A device that has nothing left to do fits.
LEMMA LiveOK ==
  ASSUME NEW v, NEW n \in Nat, ClientsOK(v, n), NEW d \in Device, Become(d, "live", Idle)
  PROVE  /\ phase' \in [Device -> Phases]
         /\ job' \in [Device -> JobSet(v, n)]
         /\ \A e \in Device : job'[e].pushes \in PushesIn(v, phase'[e])
  <1>1. "live" \in Phases /\ Idle.pushes \in PushesIn(v, "live")
    BY IdleOK DEF Phases, PushesIn
  <1> QED
    BY <1>1, BecomeOK, IdleOK

\* onTransportClose leaves a device off, with its commits on the wire.
LEMMA HangUpOK ==
  ASSUME NEW v, NEW n \in Nat, ClientsOK(v, n), NEW d \in Device, HangUp(d)
  PROVE  /\ phase' \in [Device -> Phases]
         /\ job' \in [Device -> JobSet(v, n)]
         /\ \A e \in Device : job'[e].pushes \in PushesIn(v, phase'[e])
         /\ inbox' \in [Device -> Seq(Mail(v, n))]
         /\ oldest' \in [Device -> Nat]
  <1>1. "off" \in Phases /\ Idle.pushes \in PushesIn(v, "off") /\ Become(d, "off", Idle)
    BY IdleOK DEF Phases, PushesIn, HangUp
  <1>2. inbox' = [inbox EXCEPT ![d] = <<>>] /\ oldest' = [oldest EXCEPT ![d] = 0]
    BY DEF HangUp
  <1>3. <<>> \in Seq(Mail(v, n))
    OBVIOUS
  <1>4. inbox' \in [Device -> Seq(Mail(v, n))] /\ oldest' \in [Device -> Nat]
    BY <1>2, <1>3 DEF ClientsOK
  <1> QED
    BY <1>1, <1>4, BecomeOK, IdleOK

\* The state file is what an operation ends with.
LEMMA SaveAsOK ==
  ASSUME NEW v, NEW n, ClientsOK(v, n), NEW d \in Device, NEW ix \in Indexes(v),
         NEW mk \in Marks(n), SaveAs(d, ix, mk)
  PROVE  saved' \in [Device -> StateFiles(v, n)]
  <1>1. [index |-> ix, mark |-> mk] \in StateFiles(v, n)
    BY DEF StateFiles
  <1> QED
    BY <1>1 DEF SaveAs, ClientsOK

\* The log's changes are mail.
LEMMA MessagesOK ==
  ASSUME NEW v, NEW n \in Nat, NEW log, DOMAIN log \subseteq 1..n,
         \A s \in DOMAIN log : log[s] \in Change /\ KnownHead(v, log[s].path, log[s]),
         NEW S, S \subseteq DOMAIN log
  PROVE  Messages(log, S) \in Seq(Mail(v, n))
  <1> DEFINE N == Cardinality(S)
  <1>1. S \subseteq Nat /\ S \subseteq 1..n
    OBVIOUS
  <1>2. IsFiniteSet(S)
    <2>1. IsFiniteSet(1..n)
      BY FS_Interval
    <2> QED
      BY <1>1, <2>1, FS_Subset
  <1>3. N \in Nat /\ Sorted(S) \in [1..N -> S]
    BY <1>1, <1>2, SortedFacts
  <1> HIDE DEF N
  <1>4. \A i \in 1..N : [seq |-> Sorted(S)[i], change |-> log[Sorted(S)[i]]] \in Mail(v, n)
    BY <1>1, <1>3 DEF Mail
  <1>5. Messages(log, S) = [i \in 1..N |-> [seq |-> Sorted(S)[i], change |-> log[Sorted(S)[i]]]]
    BY DEF Messages, N
  <1>6. Messages(log, S) \in [1..N -> Mail(v, n)]
    BY <1>4, <1>5
  <1> QED
    BY <1>3, <1>6, SeqIntro

\* Commits still under way go to the wire.
LEMMA InFlightOK ==
  ASSUME NEW v, NEW n \in Nat, ClientsOK(v, n), NEW d \in Device,
         \E lost \in InFlight(d) : wire' = [wire EXCEPT ![d] = @ \o lost]
  PROVE  wire' \in [Device -> Seq(Commits(v))]
  <1>1. PICK lost \in InFlight(d) : wire' = [wire EXCEPT ![d] = @ \o lost]
    OBVIOUS
  <1>2. lost \in Seq(Commits(v))
    <2>1. CASE phase[d] # "pushing"
      BY <1>1, <2>1 DEF InFlight
    <2>2. CASE phase[d] = "pushing"
      <3>1. job[d].pushes \in Seq(Commits(v))
        BY <2>2, ClientOK DEF PushesIn
      <3>2. PICK m \in 0..(IF Len(job[d].pushes) < PushConcurrency
                           THEN Len(job[d].pushes) ELSE PushConcurrency) :
              lost = SubSeq(job[d].pushes, 1, m)
        BY <1>1, <2>2 DEF InFlight
      <3>3. Len(job[d].pushes) \in Nat /\ PushConcurrency \in Nat
        BY <3>1, SyncAssumption
      <3>4. m \in 0..Len(job[d].pushes)
        BY <3>2, <3>3
      <3> QED
        BY <3>1, <3>2, <3>4
    <2> QED
      BY <2>1, <2>2
  <1>3. wire[d] \o lost \in Seq(Commits(v))
    BY <1>2, ClientOK
  <1> QED
    BY <1>1, <1>3 DEF ClientsOK

\* A user's write leaves a disk a disk.
LEMMA UserStepOK ==
  ASSUME SyncInv, UserStep
  PROVE  SyncInv'
  <1>1. PICK d \in Device :
          \/ \E p \in UserPaths, h \in Hash : UserEdit(d, p, h)
          \/ \E p \in UserPaths : UserDelete(d, p)
          \/ \E p, q \in UserPaths : UserMove(d, p, q)
          \/ \E p \in UserDirs : UserMakeDir(d, p) \/ UserRemoveDir(d, p)
    BY DEF UserStep
  <1>2. disk[d] \in Disks /\ UserPaths \cup UserDirs \subseteq Path
    BY ClientOK, SyncAssumption DEF SyncInv, RoomOK, TypeOK
  <1>3. ASSUME NEW after \in Disks, UserWrites(d, after)
        PROVE  SyncInv'
    <2>1. RoomOK' /\ versions' = versions /\ seq' = seq
      BY <1>3, RoomUnchanged DEF UserWrites
    <2>2. disk' \in [Device -> Disks] /\ edits' \in 0..MaxEdits
      <3>1. MaxEdits \in Nat
        BY SyncAssumption
      <3> QED
        BY <1>3, <3>1 DEF UserWrites, SyncInv, ClientsOK
    <2> QED
      BY <1>3, <2>1, <2>2 DEF UserWrites, SyncInv, ClientsOK, net
  <1>4. ASSUME NEW p \in UserPaths, NEW h \in Hash, UserEdit(d, p, h)
        PROVE  SyncInv'
    BY <1>2, <1>3, <1>4, WriteToOK DEF UserEdit
  <1>5. ASSUME NEW p \in UserPaths, UserDelete(d, p)
        PROVE  SyncInv'
    BY <1>2, <1>3, <1>5, WithoutKeysOK DEF UserDelete
  <1>6. ASSUME NEW p \in UserPaths, NEW q \in UserPaths, UserMove(d, p, q)
        PROVE  SyncInv'
    BY <1>2, <1>3, <1>6, MoveFileOK DEF UserMove, FilesOn
  <1>7. ASSUME NEW p \in UserDirs, UserMakeDir(d, p)
        PROVE  SyncInv'
    BY <1>2, <1>3, <1>7, WriteToOK DEF UserMakeDir
  <1>8. ASSUME NEW p \in UserDirs, UserRemoveDir(d, p)
        PROVE  SyncInv'
    BY <1>2, <1>3, <1>8, WithoutKeysOK DEF UserRemoveDir
  <1> QED
    BY <1>1, <1>4, <1>5, <1>6, <1>7, <1>8

\* Dial and hello.
LEMMA ConnectOK ==
  ASSUME SyncInv, NEW d \in Device, Connect(d)
  PROVE  SyncInv'
  <1>1. RoomOK' /\ versions' = versions /\ seq' = seq /\ seq \in Nat
    BY RoomUnchanged DEF Connect
  <1>2. ClientsOK(versions, seq)
    BY DEF SyncInv
  <1>3. saved[d].index \in Indexes(versions) /\ saved[d].mark \in Marks(seq)
    BY <1>1, <1>2, ClientOK
  <1>4. OldestRetained \in Nat
    <2>1. DOMAIN events \subseteq Nat
      BY DEF SyncInv, RoomOK, TypeOK
    <2>2. DOMAIN events # {} => \E s \in DOMAIN events : \A t \in DOMAIN events : s <= t
      BY <2>1, LeastNatural
    <2> QED
      BY <1>1, <2>1, <2>2 DEF OldestRetained
  <1>5. Replay(saved[d].mark.cursor) \in Seq(Mail(versions, seq))
    <2> DEFINE S == {s \in DOMAIN events : s > saved[d].mark.cursor}
    <2>1. /\ DOMAIN events \subseteq 1..seq
          /\ \A s \in DOMAIN events :
               events[s] \in Change /\ KnownHead(versions, events[s].path, events[s])
      BY DEF SyncInv, RoomOK, TypeOK, LogKnown
    <2>2. S \subseteq DOMAIN events
      OBVIOUS
    <2> HIDE DEF S
    <2>3. Messages(events, S) \in Seq(Mail(versions, seq))
      BY <1>1, <2>1, <2>2, MessagesOK
    <2>4. <<>> \in Seq(Mail(versions, seq))
      OBVIOUS
    <2> QED
      BY <2>3, <2>4 DEF Replay, S
  <1>6. /\ phase' \in [Device -> Phases] /\ job' \in [Device -> JobSet(versions, seq)]
        /\ \A e \in Device : job'[e].pushes \in PushesIn(versions, phase'[e])
    <2> DEFINE where == IF UseDelta(saved[d].mark, OldestRetained)
                        THEN "replaying" ELSE "greeted"
    <2>1. where \in Phases /\ Starting.pushes \in PushesIn(versions, where)
      BY IdleOK DEF Phases, PushesIn
    <2>2. Become(d, where, Starting)
      BY DEF Connect
    <2> HIDE DEF where
    <2> QED
      BY <1>1, <1>2, <2>1, <2>2, BecomeOK, IdleOK
  <1>7. /\ index' \in [Device -> Indexes(versions)] /\ mark' \in [Device -> Marks(seq)]
        /\ oldest' \in [Device -> Nat] /\ inbox' \in [Device -> Seq(Mail(versions, seq))]
    BY <1>2, <1>3, <1>4, <1>5 DEF Connect, ClientsOK
  <1> QED
    BY <1>1, <1>2, <1>6, <1>7 DEF Connect, SyncInv, ClientsOK, counts

\* A connection that closes leaves what it had sent on the wire.
LEMMA DisconnectOK ==
  ASSUME SyncInv, NEW d \in Device, Disconnect(d)
  PROVE  SyncInv'
  <1>1. RoomOK' /\ versions' = versions /\ seq' = seq /\ seq \in Nat
    BY RoomUnchanged DEF Disconnect
  <1>2. ClientsOK(versions, seq)
    BY DEF SyncInv
  <1>3. /\ phase' \in [Device -> Phases] /\ job' \in [Device -> JobSet(versions, seq)]
        /\ \A e \in Device : job'[e].pushes \in PushesIn(versions, phase'[e])
        /\ inbox' \in [Device -> Seq(Mail(versions, seq))]
        /\ oldest' \in [Device -> Nat]
    BY <1>1, <1>2, HangUpOK DEF Disconnect
  <1>4. saved' \in [Device -> StateFiles(versions, seq)]
    BY <1>1, <1>2, ClientOK, SaveAsOK DEF Disconnect
  <1>5. wire' \in [Device -> Seq(Commits(versions))]
    BY <1>1, <1>2, InFlightOK DEF Disconnect
  <1>6. faults' \in 0..MaxFaults
    BY <1>2, SyncAssumption DEF Disconnect, Fault, ClientsOK
  <1> QED
    BY <1>1, <1>2, <1>3, <1>4, <1>5, <1>6 DEF Disconnect, SyncInv, ClientsOK

\* A process that ends comes back with what the state file says.
LEMMA CrashOK ==
  ASSUME SyncInv, NEW d \in Device, Crash(d)
  PROVE  SyncInv'
  <1>1. RoomOK' /\ versions' = versions /\ seq' = seq /\ seq \in Nat
    BY RoomUnchanged DEF Crash
  <1>2. ClientsOK(versions, seq)
    BY DEF SyncInv
  <1>3. /\ phase' \in [Device -> Phases] /\ job' \in [Device -> JobSet(versions, seq)]
        /\ \A e \in Device : job'[e].pushes \in PushesIn(versions, phase'[e])
        /\ inbox' \in [Device -> Seq(Mail(versions, seq))]
        /\ oldest' \in [Device -> Nat]
    BY <1>1, <1>2, HangUpOK DEF Crash
  <1>4. index' \in [Device -> Indexes(versions)] /\ mark' \in [Device -> Marks(seq)]
    <2>1. saved[d].index \in Indexes(versions) /\ saved[d].mark \in Marks(seq)
      BY <1>1, <1>2, ClientOK
    <2> QED
      BY <1>2, <2>1 DEF Crash, ClientsOK
  <1>5. wire' \in [Device -> Seq(Commits(versions))]
    BY <1>1, <1>2, InFlightOK DEF Crash
  <1>6. faults' \in 0..MaxFaults
    BY <1>2, SyncAssumption DEF Crash, Fault, ClientsOK
  <1> QED
    BY <1>1, <1>2, <1>3, <1>4, <1>5, <1>6 DEF Crash, SyncInv, ClientsOK

\* A device that has lost its state file starts like a new one.
LEMMA FreshOK ==
  ASSUME NEW v, NEW n \in Nat
  PROVE  Fresh.index \in Indexes(v) /\ Fresh.mark \in Marks(n) /\ Fresh \in StateFiles(v, n)
  <1>1. EmptyMap \in Indexes(v)
    <2>1. EmptyMap \in [{} -> Entry] /\ DOMAIN EmptyMap = {}
      BY DEF EmptyMap
    <2> QED
      BY <2>1, IndexIntro
  <1>2. Mark(0, 0, FALSE) \in Marks(n)
    BY DEF Mark, Marks
  <1> QED
    BY <1>1, <1>2 DEF Fresh, StateFiles

\* A state file that cannot be read.
LEMMA LoseStateOK ==
  ASSUME SyncInv, NEW d \in Device, LoseState(d)
  PROVE  SyncInv'
  <1>1. RoomOK' /\ versions' = versions /\ seq' = seq /\ seq \in Nat
    BY RoomUnchanged DEF LoseState
  <1>2. ClientsOK(versions, seq)
    BY DEF SyncInv
  <1>3. /\ index' \in [Device -> Indexes(versions)] /\ mark' \in [Device -> Marks(seq)]
        /\ saved' \in [Device -> StateFiles(versions, seq)]
    BY <1>1, <1>2, FreshOK DEF LoseState, ClientsOK
  <1>4. faults' \in 0..MaxFaults
    BY <1>2, SyncAssumption DEF LoseState, Fault, ClientsOK
  <1> QED
    BY <1>1, <1>2, <1>3, <1>4 DEF LoseState, SyncInv, ClientsOK, state, net

\* A mark whose cursor and syncedThrough follow numbers of the log stays one.
LEMMA MarkMoves ==
  ASSUME NEW n \in Nat, NEW mk \in Marks(n), NEW k \in 0..n
  PROVE  /\ [mk EXCEPT !.cursor = Larger(@, k)] \in Marks(n)
         /\ [mk EXCEPT !.synced = Larger(@, k)] \in Marks(n)
         /\ \A b \in BOOLEAN : [mk EXCEPT !.needsFull = b] \in Marks(n)
         /\ [mk EXCEPT !.synced = Larger(@, k), !.needsFull = FALSE] \in Marks(n)
         /\ \A q \in Nat : q \in 0..n => [mk EXCEPT !.cursor = q] \in Marks(n)
         /\ mk.cursor \in 0..n /\ mk.synced \in 0..n /\ mk.needsFull \in BOOLEAN
  BY DEF Marks, Larger

\* A job with the pulls of a change is one while a client fetches its content.
LEMMA FetchJobOK ==
  ASSUME NEW v, NEW n \in Nat, NEW j \in JobSet(v, n), NEW x \in PullSet(v), NEW k \in 0..n
  PROVE  /\ [j EXCEPT !.pulls = {x}, !.cursor = k] \in JobSet(v, n)
         /\ [j EXCEPT !.pulls = {x}, !.cursor = k].pushes = j.pushes
  BY FewAreFinite DEF JobSet

\* A pushed change is ignored, deferred, or planned as one pull.
LEMMA ReceiveChangeOK ==
  ASSUME SyncInv, NEW d \in Device, ReceiveChange(d)
  PROVE  SyncInv'
  <1> DEFINE m  == Head(inbox[d])
             mk == [mark[d] EXCEPT !.cursor = Larger(@, m.seq)]
             x  == Pull(m.change.path, m.change.from, EntryOf(m.change))
  <1>1. RoomOK' /\ versions' = versions /\ seq' = seq /\ seq \in Nat
    BY RoomUnchanged DEF ReceiveChange
  <1>2. ClientsOK(versions, seq)
    BY DEF SyncInv
  <1>3. inbox[d] \in Seq(Mail(versions, seq)) /\ inbox[d] # <<>>
    BY <1>1, <1>2, ClientOK DEF ReceiveChange
  <1>4. m \in Mail(versions, seq) /\ Tail(inbox[d]) \in Seq(Mail(versions, seq))
    BY <1>3
  <1>5. inbox' \in [Device -> Seq(Mail(versions, seq))]
    BY <1>2, <1>4 DEF ReceiveChange, ClientsOK
  <1>6. mk \in Marks(seq)
    <2>1. mark[d] \in Marks(seq) /\ m.seq \in 0..seq
      BY <1>1, <1>2, <1>4, ClientOK DEF Mail
    <2> QED
      BY <1>1, <2>1, MarkMoves
  <1>7. x \in PullSet(versions)
    <2>1. m.change \in Change /\ KnownHead(versions, m.change.path, m.change)
      BY <1>4 DEF Mail
    <2>2. EntryOf(m.change) \in Entry
      BY <2>1 DEF EntryOf, Entry, Change, VersionId
    <2>3. KnownHead(versions, m.change.path, EntryOf(m.change))
      BY <2>1 DEF KnownHead, EntryOf
    <2> QED
      BY <2>1, <2>2, <2>3 DEF PullSet, Pull, HeadOK, Change
  <1>8. job[d] \in JobSet(versions, seq) /\ job[d].pushes \in PushesIn(versions, phase[d])
    BY <1>1, <1>2, ClientOK
  <1> HIDE DEF mk, x
  <1>9. CASE ChangeIsIgnored(d, m.change) \/ ChangeIsOld(d, m.change)
               \/ ~ChangeIsSafe(d, m.change)
    <2> DEFINE defer == ~ChangeIsIgnored(d, m.change) /\ ~ChangeIsOld(d, m.change)
               mk2   == [mk EXCEPT !.needsFull = @ \/ defer]
    <2>1. mk2 \in Marks(seq)
      <3>1. mk.needsFull \/ defer \in BOOLEAN
        OBVIOUS
      <3> QED
        BY <1>6, <3>1 DEF Marks
    <2>2. /\ mark' = [mark EXCEPT ![d] = mk2] /\ SaveAs(d, index[d], mk2)
          /\ UNCHANGED <<phase, job>>
      BY <1>9 DEF ReceiveChange, mk
    <2> HIDE DEF mk2
    <2>3. saved' \in [Device -> StateFiles(versions, seq)]
      BY <1>1, <1>2, <2>1, <2>2, ClientOK, SaveAsOK
    <2>4. mark' \in [Device -> Marks(seq)]
      BY <1>2, <2>1, <2>2 DEF ClientsOK
    <2> QED
      BY <1>1, <1>2, <1>5, <2>2, <2>3, <2>4 DEF ReceiveChange, SyncInv, ClientsOK, counts
  <1>10. CASE ~(ChangeIsIgnored(d, m.change) \/ ChangeIsOld(d, m.change)
                  \/ ~ChangeIsSafe(d, m.change))
    <2> DEFINE what == [job[d] EXCEPT !.pulls = {x}, !.cursor = m.seq]
    <2>1. /\ mark' = [mark EXCEPT ![d] = mk] /\ Become(d, "fetching", what)
          /\ UNCHANGED <<saved, due>>
      BY <1>10 DEF ReceiveChange, mk, x
    <2>2. what \in JobSet(versions, seq) /\ what.pushes \in PushesIn(versions, "fetching")
      <3>1. m.seq \in 0..seq
        BY <1>4 DEF Mail
      <3>2. job[d].pushes = <<>> /\ what.pushes = job[d].pushes
        BY <1>8 DEF ReceiveChange, PushesIn, JobSet
      <3>3. what \in JobSet(versions, seq)
        BY <1>1, <1>7, <1>8, <3>1, FetchJobOK
      <3> HIDE DEF what
      <3> QED
        BY <3>2, <3>3 DEF PushesIn
    <2> HIDE DEF what
    <2>3. /\ phase' \in [Device -> Phases] /\ job' \in [Device -> JobSet(versions, seq)]
          /\ \A e \in Device : job'[e].pushes \in PushesIn(versions, phase'[e])
      BY <1>2, <2>1, <2>2, BecomeOK DEF Phases
    <2>4. mark' \in [Device -> Marks(seq)]
      BY <1>2, <1>6, <2>1 DEF ClientsOK
    <2> QED
      BY <1>1, <1>2, <1>5, <2>1, <2>3, <2>4 DEF ReceiveChange, SyncInv, ClientsOK, counts
  <1> QED
    BY <1>9, <1>10

\* A change handler's write.
LEMMA ApplyChangeOK ==
  ASSUME SyncInv, NEW d \in Device, ApplyChange(d)
  PROVE  SyncInv'
  <1>1. RoomOK' /\ versions' = versions /\ seq' = seq /\ seq \in Nat
    BY RoomUnchanged DEF ApplyChange
  <1>2. ClientsOK(versions, seq)
    BY DEF SyncInv
  <1> DEFINE mk == [mark[d] EXCEPT !.synced = Larger(@, job[d].cursor)]
  <1>3. PICK pull \in job[d].pulls :
          LET after == ApplyOnePull(Local(disk[d], index[d]), pull)
          IN  /\ disk' = [disk EXCEPT ![d] = after.disk]
              /\ index' = [index EXCEPT ![d] = after.index]
              /\ mark' = [mark EXCEPT ![d] = mk]
              /\ SaveAs(d, after.index, mk)
    BY DEF ApplyChange
  <1>4. job[d] \in JobSet(versions, seq) /\ disk[d] \in Disks
        /\ index[d] \in Indexes(versions) /\ mark[d] \in Marks(seq)
    BY <1>1, <1>2, ClientOK
  <1> DEFINE after == ApplyOnePull(Local(disk[d], index[d]), pull)
  <1>5. after.disk \in Disks /\ after.index \in Indexes(versions)
    <2>1. pull \in PullSet(versions)
      BY <1>4 DEF JobSet
    <2>2. after \in Locals(versions)
      BY <1>4, <2>1, LocalOK, ApplyOnePullOK
    <2> QED
      BY <2>2 DEF Locals
  <1>6. mk \in Marks(seq)
    <2>1. job[d].cursor \in 0..seq
      BY <1>4 DEF JobSet
    <2> QED
      BY <1>1, <1>3, <1>4, <2>1, MarkMoves
  <1>7. /\ disk' = [disk EXCEPT ![d] = after.disk]
        /\ index' = [index EXCEPT ![d] = after.index]
        /\ mark' = [mark EXCEPT ![d] = mk]
        /\ SaveAs(d, after.index, mk)
    BY <1>3
  <1> HIDE DEF after, mk
  <1>8. saved' \in [Device -> StateFiles(versions, seq)]
    BY <1>2, <1>5, <1>6, <1>7, SaveAsOK
  <1>9. /\ phase' \in [Device -> Phases] /\ job' \in [Device -> JobSet(versions, seq)]
        /\ \A e \in Device : job'[e].pushes \in PushesIn(versions, phase'[e])
    BY <1>1, <1>2, RestOK DEF ApplyChange
  <1>10. /\ disk' \in [Device -> Disks] /\ index' \in [Device -> Indexes(versions)]
         /\ mark' \in [Device -> Marks(seq)]
    BY <1>2, <1>5, <1>6, <1>7 DEF ClientsOK
  <1> QED
    BY <1>1, <1>2, <1>8, <1>9, <1>10 DEF ApplyChange, SyncInv, ClientsOK, counts, net

\* A connection that closes within startup, or a client that goes on: either
\* way what a client holds stays what it was.
LEMMA StartupFailsOK ==
  ASSUME NEW v, NEW n \in Nat, ClientsOK(v, n), NEW d \in Device,
         \/ HangUp(d)
         \/ (Rest(d) \/ Become(d, "live", Idle)) /\ UNCHANGED <<inbox, due, oldest>>
  PROVE  /\ phase' \in [Device -> Phases] /\ job' \in [Device -> JobSet(v, n)]
         /\ \A e \in Device : job'[e].pushes \in PushesIn(v, phase'[e])
         /\ inbox' \in [Device -> Seq(Mail(v, n))]
         /\ oldest' \in [Device -> Nat]
  <1>1. CASE HangUp(d)
    BY <1>1, HangUpOK
  <1>2. CASE Rest(d) /\ UNCHANGED <<inbox, due, oldest>>
    BY <1>2, RestOK DEF ClientsOK
  <1>3. CASE Become(d, "live", Idle) /\ UNCHANGED <<inbox, due, oldest>>
    BY <1>3, LiveOK DEF ClientsOK
  <1> QED
    BY <1>1, <1>2, <1>3

\* A change handler's write that fails.
LEMMA ChangeFailsOK ==
  ASSUME SyncInv, NEW d \in Device, ChangeFails(d)
  PROVE  SyncInv'
  <1>1. RoomOK' /\ versions' = versions /\ seq' = seq /\ seq \in Nat
    BY RoomUnchanged DEF ChangeFails
  <1>2. ClientsOK(versions, seq)
    BY DEF SyncInv
  <1>3. /\ phase' \in [Device -> Phases] /\ job' \in [Device -> JobSet(versions, seq)]
        /\ \A e \in Device : job'[e].pushes \in PushesIn(versions, phase'[e])
        /\ inbox' \in [Device -> Seq(Mail(versions, seq))]
        /\ oldest' \in [Device -> Nat]
    BY <1>1, <1>2, StartupFailsOK DEF ChangeFails
  <1>4. saved' \in [Device -> StateFiles(versions, seq)]
    BY <1>1, <1>2, ClientOK, SaveAsOK DEF ChangeFails
  <1>5. faults' \in 0..MaxFaults
    BY <1>2, SyncAssumption DEF ChangeFails, Fault, ClientsOK
  <1> QED
    BY <1>1, <1>2, <1>3, <1>4, <1>5 DEF ChangeFails, SyncInv, ClientsOK

\* What a cycle merges is built on a head of the path; it can be pulled.
LEMMA MergesOK ==
  ASSUME NEW v, NEW d \in Device, index[d] \in Indexes(v), NEW remote,
         RemoteOK(v, index[d], remote), NEW plan,
         \A p \in plan.contested : p \in DOMAIN remote /\ KnownHead(v, p, remote[p])
  PROVE  LET merges == Merges(d, plan, remote)
         IN  /\ merges \subseteq MergeSet(v) /\ IsFiniteSet(merges)
             /\ \A p \in MergedPaths(merges) : PullHead(remote, p) \in PullSet(v)
             /\ MergedPaths(merges) \subseteq Path
  <1> DEFINE texts(p) == <<index[d][p].hash, disk[d][p], remote[p].hash>>
             S == {q \in plan.contested \cap Mergeable \cap LiveFiles(index[d]) :
                     texts(q) \in DOMAIN MergeText3}
             f == [p \in S |-> [path |-> p, hash |-> MergeText3[texts(p)],
                                parent |-> remote[p].version]]
             merges == Merges(d, plan, remote)
  <1>1. merges = {f[p] : p \in S}
    BY DEF Merges
  <1>2. S \subseteq Path /\ \A p \in S : /\ MergeText3[texts(p)] \in Hash
                                         /\ p \in DOMAIN remote
                                         /\ KnownHead(v, p, remote[p])
    BY SyncAssumption
  <1>3. IsFiniteSet(merges)
    <2>1. IsFiniteSet(S) /\ DOMAIN f = S
      BY <1>2, FinitePaths
    <2> HIDE DEF S, f
    <2>2. IsFiniteSet({f[p] : p \in S})
      BY <2>1, FiniteImage
    <2> QED
      BY <1>1, <2>2
  <1>4. \A p \in S : remote[p] \in Entry
    BY <1>2 DEF RemoteOK
  <1>5. \A p \in S : f[p] = [path |-> p, hash |-> MergeText3[texts(p)],
                             parent |-> remote[p].version]
    OBVIOUS
  <1>6. merges \subseteq MergeSet(v)
    <2> SUFFICES ASSUME NEW p \in S PROVE f[p] \in MergeSet(v)
      BY <1>1
    <2>1. remote[p].version \in Nat
      BY <1>4 DEF Entry
    <2> QED
      BY <1>2, <1>5, <2>1 DEF MergeSet, KnownHead
  <1>7. MergedPaths(merges) \subseteq S
    <2> HIDE DEF merges
    <2>1. \A p \in S : f[p].path = p
      BY <1>5
    <2> HIDE DEF f, S
    <2>2. \A m \in merges : m.path \in S
      BY <1>1, <2>1
    <2> QED
      BY <2>2 DEF MergedPaths
  <1>8. \A p \in MergedPaths(merges) : PullHead(remote, p) \in PullSet(v)
    BY <1>2, <1>7, PullHeadOK
  <1> QED
    BY <1>2, <1>3, <1>6, <1>7, <1>8

\* A cycle fetches its manifest, scans and plans.
LEMMA BeginCycleOK ==
  ASSUME SyncInv, NEW d \in Device, BeginCycle(d)
  PROVE  SyncInv'
  <1>1. RoomOK' /\ versions' = versions /\ seq' = seq /\ seq \in Nat
    BY RoomUnchanged DEF BeginCycle
  <1>2. ClientsOK(versions, seq)
    BY DEF SyncInv
  <1> DEFINE remote == FetchManifest(d)
             scan   == ScanVault(d, disk[d], index[d])
             plan   == ComputeSyncPlan(d, scan, disk[d], index[d], remote)
             merges == Merges(d, plan, remote)
             failed == [job[d] EXCEPT !.tidied = TRUE, !.failed = TRUE]
  <1>3. PICK order \in PushOrders(plan.pushes) :
          IF plan.thrown
          THEN Become(d, "pushing", failed)
          ELSE Become(d, "planned",
                 Job(MergedPulls(merges, plan.pulls, remote), merges,
                     MergedPushes(merges, order), plan.folders,
                     scan.staleDirs, seq, job[d].starting))
    BY DEF BeginCycle
  <1>4. /\ disk[d] \in Disks /\ index[d] \in Indexes(versions) /\ mark[d] \in Marks(seq)
        /\ job[d] \in JobSet(versions, seq)
        /\ job[d].pushes \in PushesIn(versions, phase[d])
    BY <1>1, <1>2, ClientOK
  <1>5. RemoteOK(versions, index[d], remote)
    BY <1>4, FetchOK DEF SyncInv
  <1>6. /\ plan.pulls \subseteq PullSet(versions) /\ IsFiniteSet(plan.pulls)
        /\ plan.pushes \subseteq PushSet(versions) /\ IsFiniteSet(plan.pushes)
        /\ \A p \in plan.contested : p \in DOMAIN remote /\ KnownHead(versions, p, remote[p])
        /\ plan.folders \in Seq(Path)
        /\ scan.staleDirs \subseteq Path
    BY <1>4, <1>5, PlanOK
  <1> HIDE DEF plan, scan, remote
  <1>7. /\ merges \subseteq MergeSet(versions) /\ IsFiniteSet(merges)
        /\ \A p \in MergedPaths(merges) : PullHead(remote, p) \in PullSet(versions)
        /\ MergedPaths(merges) \subseteq Path
    BY <1>4, <1>5, <1>6, MergesOK
  <1> HIDE DEF merges
  <1>8. /\ phase' \in [Device -> Phases] /\ job' \in [Device -> JobSet(versions, seq)]
        /\ \A e \in Device : job'[e].pushes \in PushesIn(versions, phase'[e])
    <2>1. CASE plan.thrown
      <3>1. failed \in JobSet(versions, seq) /\ failed.pushes = job[d].pushes
        BY <1>4 DEF JobSet
      <3>2. job[d].pushes = <<>>
        BY <1>4 DEF BeginCycle, PushesIn
      <3>3. Become(d, "pushing", failed)
        BY <1>3, <2>1
      <3> HIDE DEF failed
      <3>4. failed.pushes \in PushesIn(versions, "pushing")
        BY <3>1, <3>2 DEF PushesIn
      <3> QED
        BY <1>1, <1>2, <3>1, <3>3, <3>4, BecomeOK DEF Phases
    <2>2. CASE ~plan.thrown
      <3> DEFINE pulls  == MergedPulls(merges, plan.pulls, remote)
                 pushes == MergedPushes(merges, order)
      <3>1. pulls \in SUBSET PullSet(versions) /\ IsFiniteSet(pulls)
        <4> DEFINE g == [p \in MergedPaths(merges) |-> PullHead(remote, p)]
        <4>1. IsFiniteSet(MergedPaths(merges)) /\ MergedPaths(merges) \subseteq DOMAIN g
          BY <1>7, FinitePaths
        <4>2. IsFiniteSet({g[p] : p \in MergedPaths(merges)})
          BY <4>1, FiniteImage
        <4>3. {g[p] : p \in MergedPaths(merges)}
                = {PullHead(remote, p) : p \in MergedPaths(merges)}
          OBVIOUS
        <4>4. IsFiniteSet(pulls)
          BY <1>6, <4>2, <4>3, FS_Union DEF MergedPulls
        <4> QED
          BY <1>6, <1>7, <4>4 DEF MergedPulls
      <3>2. pushes \in Seq(PushSet(versions))
        <4>1. order \in Seq(plan.pushes)
          BY <1>6, ListingsFacts DEF PushOrders
        <4>2. order \in Seq(PushSet(versions))
          BY <1>6, <4>1, MapWidens
        <4> QED
          BY <4>2, PickedFacts DEF MergedPushes
      <3>3. /\ job[d].starting \in BOOLEAN /\ seq \in 0..seq
            /\ merges \in SUBSET MergeSet(versions) /\ scan.staleDirs \in SUBSET Path
        BY <1>1, <1>4, <1>6, <1>7 DEF JobSet
      <3> DEFINE what == Job(pulls, merges, pushes, plan.folders, scan.staleDirs, seq,
                             job[d].starting)
      <3>4. Become(d, "planned", what)
        BY <1>3, <2>2
      <3> HIDE DEF pulls, pushes
      <3>5. what \in JobSet(versions, seq) /\ what.pushes = pushes
        <4>1. ASSUME NEW stale \in SUBSET Path, NEW folders \in Seq(Path),
                     NEW starting \in BOOLEAN
              PROVE  LET j == Job(pulls, merges, pushes, folders, stale, seq, starting)
                     IN  j \in JobSet(versions, seq) /\ j.pushes = pushes
          <5>1. IsFiniteSet(pulls) /\ IsFiniteSet(merges)
            BY <1>7, <3>1
          <5> QED
            BY <3>1, <3>2, <3>3, <5>1 DEF Job, JobSet
        <4> QED
          BY <1>6, <3>3, <4>1
      <3> HIDE DEF what
      <3>6. what.pushes \in PushesIn(versions, "planned")
        BY <3>2, <3>5 DEF PushesIn
      <3> QED
        BY <1>1, <1>2, <3>4, <3>5, <3>6, BecomeOK DEF Phases
    <2> QED
      BY <2>1, <2>2
  <1>9. mark' \in [Device -> Marks(seq)]
    <2>1. seq \in 0..seq
      BY <1>1
    <2>3. [mark[d] EXCEPT !.cursor = Larger(@, seq)] \in Marks(seq)
      BY <1>1, <1>4, <2>1, MarkMoves
    <2>2. mark' = [mark EXCEPT ![d] = [mark[d] EXCEPT !.cursor = Larger(@, seq)]]
      BY <1>2 DEF BeginCycle, ClientsOK
    <2> QED
      BY <1>2, <2>2, <2>3 DEF ClientsOK
  <1> QED
    BY <1>1, <1>2, <1>8, <1>9 DEF BeginCycle, SyncInv, ClientsOK, counts, net

\* What is staged, and what a cycle's pulls leave.
LEMMA StagedOK ==
  ASSUME NEW v, NEW d \in Device, job[d].pushes \in Seq(PushSet(v))
  PROVE  /\ Staged(d) \in Seq(PushSet(v))
         /\ [i \in DOMAIN Staged(d) |-> Staged(d)[i].commit] \in Seq(Commits(v))
  <1>1. Staged(d) \in Seq(PushSet(v))
    BY PickedFacts DEF Staged
  <1> DEFINE s == Staged(d)
  <1>2. s \in Seq(PushSet(v))
    BY <1>1
  <1> HIDE DEF s
  <1>3. Len(s) \in Nat /\ DOMAIN s = 1..Len(s) /\ \A i \in DOMAIN s : s[i] \in PushSet(v)
    BY <1>2, SeqElim
  <1>4. [i \in 1..Len(s) |-> s[i].commit] \in [1..Len(s) -> Commits(v)]
    BY <1>3 DEF PushSet
  <1>5. [i \in DOMAIN s |-> s[i].commit] \in Seq(Commits(v))
    BY <1>3, <1>4, SeqIntro
  <1> QED
    BY <1>1, <1>5 DEF s

\* The disk with the conflict copies on it.
LEMMA WithCopiesOK ==
  ASSUME NEW v, NEW d \in Device, disk[d] \in Disks, job[d].pushes \in Seq(PushSet(v))
  PROVE  WithCopies(d, Staged(d)) \in Disks
  <1> DEFINE s == Staged(d)
             writes == {s[i].commit : i \in
                          {j \in DOMAIN s : s[j].commit.kind = "conflictCopy"}}
  <1>1. s \in Seq(PushSet(v))
    BY StagedOK
  <1>2. WithCopies(d, s) = WriteAll(disk[d], writes)
    BY DEF WithCopies
  <1> HIDE DEF s
  <1>3. \A i \in DOMAIN s : s[i] \in PushSet(v)
    BY <1>1, SeqElim
  <1>4. \A i \in DOMAIN s : s[i].commit.path \in Path /\ s[i].commit.hash \in Hash \cup {NoHash}
    BY <1>3 DEF PushSet, Commits, CommitMsg
  <1>5. \A w \in writes : w.path \in Path /\ w.hash \in Hash \cup {NoHash}
    BY <1>4
  <1> HIDE DEF writes
  <1>6. WithCopies(d, s) \in Disks
    BY <1>2, <1>5, WriteAllOK
  <1> QED
    BY <1>6 DEF s

\* After any number of pulls of a plan, disk and index are sound.
LEMMA PulledOK ==
  ASSUME NEW v, NEW n \in Nat, ClientsOK(v, n), NEW d \in Device,
         phase[d] \in {"fetching", "planned"},
         NEW order \in PullOrders(job[d].pulls), NEW k \in 0..Len(order)
  PROVE  LET after == AfterPulls(Local(WithCopies(d, Staged(d)), index[d]), order, k)
         IN  after.disk \in Disks /\ after.index \in Indexes(v)
  <1>1. /\ disk[d] \in Disks /\ index[d] \in Indexes(v) /\ job[d] \in JobSet(v, n)
        /\ job[d].pushes \in PushesIn(v, phase[d])
    BY ClientOK
  <1>2. job[d].pushes \in Seq(PushSet(v))
    <2>1. <<>> \in Seq(PushSet(v))
      OBVIOUS
    <2> QED
      BY <1>1, <2>1 DEF PushesIn
  <1>3. WithCopies(d, Staged(d)) \in Disks
    BY <1>1, <1>2, WithCopiesOK
  <1>4. order \in Seq(PullSet(v))
    <2>1. job[d].pulls \subseteq PullSet(v) /\ IsFiniteSet(job[d].pulls)
      BY <1>1 DEF JobSet
    <2>2. order \in Seq(job[d].pulls)
      BY <2>1, ListingsFacts DEF PullOrders
    <2> QED
      BY <2>1, <2>2, MapWidens
  <1>5. AfterPulls(Local(WithCopies(d, Staged(d)), index[d]), order, k) \in Locals(v)
    BY <1>1, <1>3, <1>4, LocalOK, AfterPullsOK
  <1> QED
    BY <1>5 DEF Locals

\* The commits of the merges are commits of a client.
LEMMA MergeCommitsOK ==
  ASSUME NEW v, NEW merges \in SUBSET MergeSet(v)
  PROVE  MergeCommits(merges) \in Seq(Commits(v))
  <1> DEFINE order == ByPath(MergedPaths(merges))
             chosen(i) == CHOOSE m \in merges : m.path = order[i]
  <1>1. MergedPaths(merges) \subseteq Path
    BY DEF MergedPaths, MergeSet
  <1>2. order \in Seq(MergedPaths(merges))
    BY <1>1, ByPathFacts
  <1> HIDE DEF order
  <1>3. Len(order) \in Nat /\ DOMAIN order = 1..Len(order)
        /\ \A i \in DOMAIN order : order[i] \in MergedPaths(merges)
    BY <1>2, SeqElim
  <1>4. \A i \in DOMAIN order : chosen(i) \in merges
    BY <1>3 DEF MergedPaths
  <1>5. ASSUME NEW m \in MergeSet(v) PROVE MergeCommit(m) \in Commits(v)
    <2>1. m.path \in Path /\ m.hash \in Hash /\ m.parent \in Nat /\ m.parent \in DOMAIN v
          /\ v[m.parent].path = m.path /\ m.path # NoPath /\ m.hash # NoHash
      BY PathAssumption, HashAssumption DEF MergeSet
    <2> DEFINE c == MergeCommit(m)
    <2>2. c = [path |-> m.path, parent |-> m.parent, hash |-> m.hash, kind |-> "edit",
               from |-> NoPath, isFolder |-> FALSE]
      BY DEF MergeCommit, CommitOf
    <2> HIDE DEF c
    <2>3. c \in CommitMsg
      BY <2>1, <2>2 DEF CommitMsg, Kind
    <2>4. SentOK(v, c)
      BY <2>1, <2>2 DEF SentOK
    <2>5. c \in Commits(v)
      BY <2>3, <2>4 DEF Commits
    <2> QED
      BY <2>5 DEF c
  <1> DEFINE g == [i \in 1..Len(order) |-> MergeCommit(chosen(i))]
  <1>6. \A i \in 1..Len(order) : MergeCommit(chosen(i)) \in Commits(v)
    BY <1>3, <1>4, <1>5
  <1>7. g \in [1..Len(order) -> Commits(v)]
    BY <1>6
  <1>8. MergeCommits(merges) = g
    BY <1>3 DEF MergeCommits, order
  <1> QED
    BY <1>3, <1>7, <1>8, SeqIntro

\* Staging, pulling and writing the merges.
LEMMA ExecutePlanOK ==
  ASSUME SyncInv, NEW d \in Device, ExecutePlan(d)
  PROVE  SyncInv'
  <1>1. RoomOK' /\ versions' = versions /\ seq' = seq /\ seq \in Nat
    BY RoomUnchanged DEF ExecutePlan
  <1>2. ClientsOK(versions, seq)
    BY DEF SyncInv
  <1> DEFINE staged == Staged(d)
             merges == job[d].merges
  <1>3. PICK order \in PullOrders(job[d].pulls) :
          LET pulled == AfterPulls(Local(WithCopies(d, staged), index[d]), order, Len(order))
          IN  /\ disk' = [disk EXCEPT ![d] = WriteAll(pulled.disk, merges)]
              /\ index' = [index EXCEPT ![d] = pulled.index]
              /\ SaveAs(d, pulled.index, mark[d])
              /\ Become(d, "pushing",
                   [job[d] EXCEPT !.pulls = {}, !.merges = {},
                      !.pushes = [i \in DOMAIN staged |-> staged[i].commit]
                         \o MergeCommits(merges)])
    BY DEF ExecutePlan
  <1> DEFINE pulled == AfterPulls(Local(WithCopies(d, staged), index[d]), order, Len(order))
             pushes == [i \in DOMAIN staged |-> staged[i].commit] \o MergeCommits(merges)
             what   == [job[d] EXCEPT !.pulls = {}, !.merges = {}, !.pushes = pushes]
  <1>4. /\ job[d] \in JobSet(versions, seq) /\ mark[d] \in Marks(seq)
        /\ job[d].pushes \in PushesIn(versions, phase[d]) /\ phase[d] = "planned"
    BY <1>1, <1>2, ClientOK DEF ExecutePlan
  <1>5. pulled.disk \in Disks /\ pulled.index \in Indexes(versions)
    <2>1. Len(order) \in 0..Len(order)
      <3>1. IsFiniteSet(job[d].pulls)
        BY <1>4 DEF JobSet
      <3>2. Len(order) \in Nat
        BY <3>1, ListingsFacts DEF PullOrders
      <3> QED
        BY <3>2
    <2> QED
      BY <1>1, <1>2, <1>4, <2>1, PulledOK
  <1>6. pushes \in Seq(Commits(versions))
    <2>1. [i \in DOMAIN staged |-> staged[i].commit] \in Seq(Commits(versions))
      BY <1>4, StagedOK DEF PushesIn
    <2>2. MergeCommits(merges) \in Seq(Commits(versions))
      BY <1>4, MergeCommitsOK DEF JobSet
    <2> QED
      BY <2>1, <2>2
  <1>7. \A m \in merges : m.path \in Path /\ m.hash \in Hash \cup {NoHash}
    BY <1>4 DEF JobSet, MergeSet
  <1>8. /\ disk' = [disk EXCEPT ![d] = WriteAll(pulled.disk, merges)]
        /\ index' = [index EXCEPT ![d] = pulled.index]
        /\ SaveAs(d, pulled.index, mark[d])
        /\ Become(d, "pushing", what)
    BY <1>3
  <1> HIDE DEF pulled, pushes
  <1>9. what \in JobSet(versions, seq) /\ what.pushes = pushes
    <2>1. IsFiniteSet({})
      BY FewAreFinite
    <2> QED
      BY <1>4, <1>6, <2>1 DEF JobSet
  <1>10. what.pushes \in PushesIn(versions, "pushing")
    BY <1>6, <1>9 DEF PushesIn
  <1> HIDE DEF what, merges
  <1>11. /\ phase' \in [Device -> Phases] /\ job' \in [Device -> JobSet(versions, seq)]
         /\ \A e \in Device : job'[e].pushes \in PushesIn(versions, phase'[e])
    BY <1>2, <1>8, <1>9, <1>10, BecomeOK DEF Phases
  <1>12. saved' \in [Device -> StateFiles(versions, seq)]
    BY <1>2, <1>4, <1>5, <1>8, SaveAsOK
  <1>13. disk' \in [Device -> Disks] /\ index' \in [Device -> Indexes(versions)]
    <2>1. WriteAll(pulled.disk, merges) \in Disks
      BY <1>5, <1>7, WriteAllOK
    <2> QED
      BY <1>2, <1>5, <1>8, <2>1 DEF ClientsOK
  <1> QED
    BY <1>1, <1>2, <1>11, <1>12, <1>13 DEF ExecutePlan, SyncInv, ClientsOK, counts, net

\* The process ends among the pulls.
LEMMA CrashInPullsOK ==
  ASSUME SyncInv, NEW d \in Device, CrashInPulls(d)
  PROVE  SyncInv'
  <1>1. RoomOK' /\ versions' = versions /\ seq' = seq /\ seq \in Nat
    BY RoomUnchanged DEF CrashInPulls
  <1>2. ClientsOK(versions, seq)
    BY DEF SyncInv
  <1>3. /\ phase' \in [Device -> Phases] /\ job' \in [Device -> JobSet(versions, seq)]
        /\ \A e \in Device : job'[e].pushes \in PushesIn(versions, phase'[e])
        /\ inbox' \in [Device -> Seq(Mail(versions, seq))]
        /\ oldest' \in [Device -> Nat]
    BY <1>1, <1>2, HangUpOK DEF CrashInPulls
  <1>4. index' \in [Device -> Indexes(versions)] /\ mark' \in [Device -> Marks(seq)]
    <2>1. saved[d].index \in Indexes(versions) /\ saved[d].mark \in Marks(seq)
      BY <1>1, <1>2, ClientOK
    <2> QED
      BY <1>2, <2>1 DEF CrashInPulls, ClientsOK
  <1>5. disk' \in [Device -> Disks]
    <2>3. PICK order \in PullOrders(job[d].pulls) : \E k \in 0..Len(order) :
            disk' = [disk EXCEPT ![d] =
                       AfterPulls(Local(WithCopies(d, Staged(d)), index[d]), order, k).disk]
      BY DEF CrashInPulls
    <2>1. PICK k \in 0..Len(order) :
            disk' = [disk EXCEPT ![d] =
                       AfterPulls(Local(WithCopies(d, Staged(d)), index[d]), order, k).disk]
      BY <2>3
    <2>2. AfterPulls(Local(WithCopies(d, Staged(d)), index[d]), order, k).disk \in Disks
      BY <1>1, <1>2, PulledOK DEF CrashInPulls
    <2> QED
      BY <1>2, <2>1, <2>2 DEF ClientsOK
  <1>6. faults' \in 0..MaxFaults
    BY <1>2, SyncAssumption DEF CrashInPulls, Fault, ClientsOK
  <1> QED
    BY <1>1, <1>2, <1>3, <1>4, <1>5, <1>6 DEF CrashInPulls, SyncInv, ClientsOK

\* A pull of a plan fails.
LEMMA PullFailsOK ==
  ASSUME SyncInv, NEW d \in Device, PullFails(d)
  PROVE  SyncInv'
  <1>1. RoomOK' /\ versions' = versions /\ seq' = seq /\ seq \in Nat
    BY RoomUnchanged DEF PullFails
  <1>2. ClientsOK(versions, seq)
    BY DEF SyncInv
  <1>3. /\ phase' \in [Device -> Phases] /\ job' \in [Device -> JobSet(versions, seq)]
        /\ \A e \in Device : job'[e].pushes \in PushesIn(versions, phase'[e])
        /\ inbox' \in [Device -> Seq(Mail(versions, seq))]
        /\ oldest' \in [Device -> Nat]
    BY <1>1, <1>2, StartupFailsOK DEF PullFails
  <1>4. job[d] \in JobSet(versions, seq) /\ mark[d] \in Marks(seq) /\ phase[d] = "planned"
    BY <1>1, <1>2, ClientOK DEF PullFails
  <1>5a. PICK order \in PullOrders(job[d].pulls) : \E k \in 0..(Len(order) - 1) :
          LET after == AfterPulls(Local(WithCopies(d, Staged(d)), index[d]), order, k)
          IN  /\ disk' = [disk EXCEPT ![d] = after.disk]
              /\ index' = [index EXCEPT ![d] = after.index]
              /\ SaveAs(d, after.index, mark[d])
    BY DEF PullFails
  <1>5. PICK k \in 0..(Len(order) - 1) :
          LET after == AfterPulls(Local(WithCopies(d, Staged(d)), index[d]), order, k)
          IN  /\ disk' = [disk EXCEPT ![d] = after.disk]
              /\ index' = [index EXCEPT ![d] = after.index]
              /\ SaveAs(d, after.index, mark[d])
    BY <1>5a
  <1> DEFINE after == AfterPulls(Local(WithCopies(d, Staged(d)), index[d]), order, k)
  <1>6. after.disk \in Disks /\ after.index \in Indexes(versions)
    <2>1. k \in 0..Len(order)
      <3>1. IsFiniteSet(job[d].pulls)
        BY <1>4 DEF JobSet
      <3>2. Len(order) \in Nat
        BY <3>1, ListingsFacts DEF PullOrders
      <3> QED
        BY <1>5, <3>2
    <2> QED
      BY <1>1, <1>2, <1>4, <2>1, PulledOK
  <1>7. /\ disk' = [disk EXCEPT ![d] = after.disk]
        /\ index' = [index EXCEPT ![d] = after.index]
        /\ SaveAs(d, after.index, mark[d])
    BY <1>5
  <1> HIDE DEF after
  <1>8. /\ saved' \in [Device -> StateFiles(versions, seq)]
        /\ disk' \in [Device -> Disks] /\ index' \in [Device -> Indexes(versions)]
    BY <1>2, <1>4, <1>6, <1>7, SaveAsOK DEF ClientsOK
  <1>9. faults' \in 0..MaxFaults
    BY <1>2, SyncAssumption DEF PullFails, Fault, ClientsOK
  <1> QED
    BY <1>1, <1>2, <1>3, <1>8, <1>9 DEF PullFails, SyncInv, ClientsOK

\* What the answer to a commit leaves: the commit itself, or the winner.
LEMMA ReplyOK ==
  ASSUME NEW v, NEW n \in Nat, ClientsOK(v, n), NEW d \in Device, NEW c \in CommitMsg,
         NEW head, EntryOf(head) \in Entry, KnownHead(v, c.path, EntryOf(head))
  PROVE  /\ WeWon(d, c, head) => Acked(index[d], c, head) \in Indexes(v)
         /\ LostTo(d, c, head).disk \in Disks /\ LostTo(d, c, head).index \in Indexes(v)
  <1>1. /\ disk[d] \in Disks /\ index[d] \in Indexes(v)
        /\ c.path \in Path /\ c.hash \in Hash \cup {NoHash} /\ c.isFolder \in BOOLEAN
    BY ClientOK DEF CommitMsg
  <1>2. ASSUME WeWon(d, c, head) PROVE Acked(index[d], c, head) \in Indexes(v)
    <2> DEFINE e == [version |-> head.version, hash |-> c.hash, clock |-> head.clock,
                     deleted |-> c.kind = "delete", isFolder |-> c.isFolder]
    <2>1. e \in Entry /\ KnownHead(v, c.path, e)
      BY <1>1, <1>2 DEF Entry, EntryOf, KnownHead, WeWon
    <2>2. WithoutKeys(index[d], {c.from}) \in Indexes(v)
      BY <1>1, IndexWithoutOK
    <2> HIDE DEF e
    <2>3. MapSet(WithoutKeys(index[d], {c.from}), c.path, e) \in Indexes(v)
      BY <1>1, <2>1, <2>2, IndexSetOK DEF HeadOK
    <2> QED
      BY <2>3 DEF Acked, e
  <1>3. LostTo(d, c, head) \in Locals(v)
    <2>1. CASE MovedOn(d, c)
      BY <1>1, <2>1, LocalOK DEF LostTo
    <2>2. CASE ~MovedOn(d, c) /\ c.kind = "rename"
      <3> DEFINE e == [EntryOf(head) EXCEPT !.deleted = FALSE]
      <3>1. e \in Entry /\ KnownHead(v, c.path, e)
        BY DEF Entry, EntryOf, KnownHead
      <3> HIDE DEF e
      <3>2. MapSet(index[d], c.path, e) \in Indexes(v)
        BY <1>1, <3>1, IndexSetOK DEF HeadOK
      <3> QED
        BY <1>1, <2>2, <3>2, LocalOK DEF LostTo, e
    <2>3. CASE ~MovedOn(d, c) /\ c.kind # "rename"
      <3>1. Pull(c.path, NoPath, EntryOf(head)) \in PullSet(v)
        BY <1>1 DEF Pull, PullSet, HeadOK
      <3> QED
        BY <1>1, <2>3, <3>1, LocalOK, ApplyOnePullOK DEF LostTo
    <2> QED
      BY <2>1, <2>2, <2>3
  <1> QED
    BY <1>2, <1>3 DEF Locals

\* What is sent to the others is in the log.
LEMMA FanOutOK ==
  ASSUME SyncInv, RoomOK', Grows, (seq + 1)..seq' \subseteq DOMAIN events',
         NEW c, NEW author, FanOut(c, author)
  PROVE  inbox' \in [Device -> Seq(Mail(versions', seq'))]
  <1>1. /\ seq \in Nat /\ seq' \in Nat /\ seq <= seq' /\ Extends(versions, versions')
        /\ DOMAIN events' \subseteq 1..seq'
        /\ \A s \in DOMAIN events' :
             events'[s] \in Change /\ KnownHead(versions', events'[s].path, events'[s])
    BY DEF SyncInv, RoomOK, TypeOK, LogKnown, Grows
  <1>2. inbox \in [Device -> Seq(Mail(versions, seq))]
    BY DEF SyncInv, ClientsOK
  <1>3. Mail(versions, seq) \subseteq Mail(versions', seq')
    BY <1>1, MailGrows
  <1>4. \A e \in Device : inbox[e] \in Seq(Mail(versions', seq'))
    BY <1>2, <1>3, MapWidens
  <1>5. ASSUME NEW e \in Device PROVE News(e, c, author) \in Seq(Mail(versions', seq'))
    <2> DEFINE S == {s \in (seq + 1)..seq' :
                       e \notin author \/ events'[s].path # c.path}
    <2>1. S \subseteq DOMAIN events'
      OBVIOUS
    <2> HIDE DEF S
    <2>2. Messages(events', S) \in Seq(Mail(versions', seq'))
      BY <1>1, <2>1, MessagesOK
    <2> QED
      BY <2>2 DEF News, S
  <1>6. \A e \in Device : inbox[e] \o News(e, c, author) \in Seq(Mail(versions', seq'))
    BY <1>4, <1>5
  <1> QED
    BY <1>4, <1>6 DEF FanOut

\* What the clients hold stays good when the room's tables grow.
LEMMA RoomGrew ==
  ASSUME SyncInv, RoomOK', Grows
  PROVE  ClientsOK(versions', seq') /\ seq' \in Nat
  BY ClientsGrow DEF SyncInv, RoomOK, TypeOK, Grows

\* A commit of a client, as the room takes it.
LEMMA SentCommit ==
  ASSUME SyncInv, NEW d \in Device, NEW c \in Commits(versions), HandleCommit(d, c)
  PROVE  RoomOK' /\ Grows /\ (seq + 1)..seq' \subseteq DOMAIN events'
  <1>1. /\ c \in CommitMsg /\ c.from # c.path
        /\ c.hash = NoHash => c.isFolder \/ c.kind = "delete"
    BY DEF Commits, SentOK
  <1> QED
    BY <1>1, CommitGrows DEF SyncInv

\* The first commit of a client's queue, and what is left without it.
LEMMA QueueOK ==
  ASSUME NEW v, NEW n \in Nat, ClientsOK(v, n), NEW d \in Device,
         phase[d] = "pushing", job[d].pushes # <<>>
  PROVE  /\ job[d] \in JobSet(v, n) /\ job[d].pushes \in Seq(Commits(v))
         /\ Head(job[d].pushes) \in Commits(v)
         /\ Tail(job[d].pushes) \in Seq(Commits(v))
  <1>1. job[d] \in JobSet(v, n) /\ job[d].pushes \in Seq(Commits(v))
    BY ClientOK DEF PushesIn
  <1> QED
    BY <1>1

\* What is left of the queue after an answer fits.
LEMMA SettleOK ==
  ASSUME NEW v, NEW n \in Nat, ClientsOK(v, n), NEW d \in Device,
         phase[d] = "pushing", job[d].pushes # <<>>, Settle(d, Tail(job[d].pushes))
  PROVE  /\ job' \in [Device -> JobSet(v, n)]
         /\ \A e \in Device : job'[e].pushes \in PushesIn(v, phase[e])
  <1> DEFINE what == [job[d] EXCEPT !.pushes = Tail(job[d].pushes),
                                    !.sent = @ \cup {Head(job[d].pushes)}]
  <1>1. /\ job[d] \in JobSet(v, n) /\ Head(job[d].pushes) \in CommitMsg
        /\ Tail(job[d].pushes) \in Seq(Commits(v))
    BY QueueOK DEF Commits
  <1>2. what \in JobSet(v, n) /\ what.pushes \in Seq(Commits(v))
    BY <1>1 DEF JobSet
  <1>3. job' = [job EXCEPT ![d] = what]
    BY DEF Settle, ClientsOK
  <1> HIDE DEF what
  <1>4. job' \in [Device -> JobSet(v, n)]
    BY <1>2, <1>3 DEF ClientsOK
  <1>5. \A e \in Device : job'[e].pushes \in PushesIn(v, phase[e])
    BY <1>2, <1>3 DEF ClientsOK, PushesIn
  <1> QED
    BY <1>4, <1>5

\* The room takes the first commit of a queue and grows.
LEMMA PushCommitGrows ==
  ASSUME SyncInv, NEW d \in Device, PushCommit(d)
  PROVE  LET c == Head(job[d].pushes)
         IN  /\ c \in Commits(versions) /\ c \in CommitMsg /\ c.from # c.path
             /\ RoomOK' /\ Grows /\ (seq + 1)..seq' \subseteq DOMAIN events'
  <1> DEFINE c == Head(job[d].pushes)
  <1>1. phase[d] = "pushing" /\ job[d].pushes # <<>> /\ AcceptCommit(d, c)
    BY DEF PushCommit
  <1>2. c \in Commits(versions) /\ c \in CommitMsg /\ c.from # c.path
    BY <1>1, QueueOK DEF SyncInv, RoomOK, TypeOK, Commits, SentOK
  <1> HIDE DEF c
  <1>3. RoomOK' /\ Grows /\ (seq + 1)..seq' \subseteq DOMAIN events'
    BY <1>1, <1>2, SentCommit DEF HandleCommit
  <1> QED
    BY <1>2, <1>3 DEF c

\* An answer to a commit: acknowledged, or a conflict folded in.
LEMMA PushCommitOK ==
  ASSUME SyncInv, NEW d \in Device, PushCommit(d)
  PROVE  SyncInv'
  <1> DEFINE c    == Head(job[d].pushes)
             head == files'[c.path]
  <1>1. /\ phase[d] = "pushing" /\ job[d].pushes # <<>>
        /\ AcceptCommit(d, c) /\ FanOut(c, {d}) /\ FoldReply(d, c, head)
        /\ Settle(d, Tail(job[d].pushes))
    BY DEF PushCommit
  <1>2. c \in Commits(versions) /\ c \in CommitMsg /\ c.from # c.path
    BY PushCommitGrows
  <1>3. RoomOK' /\ Grows /\ (seq + 1)..seq' \subseteq DOMAIN events'
    BY PushCommitGrows
  <1> HIDE DEF c
  <1>4. ClientsOK(versions', seq') /\ seq' \in Nat
    BY <1>3, RoomGrew
  <1>5. /\ job' \in [Device -> JobSet(versions', seq')]
        /\ \A e \in Device : job'[e].pushes \in PushesIn(versions', phase[e])
    BY <1>1, <1>4, SettleOK
  <1>6. inbox' \in [Device -> Seq(Mail(versions', seq'))]
    BY <1>1, <1>3, FanOutOK
  <1>7. c.path \in DOMAIN files'
    BY <1>1, <1>2, CommitAnswers DEF SyncInv
  <1>8. EntryOf(head) \in Entry /\ KnownHead(versions', c.path, EntryOf(head))
    <2>1. Sound(files', versions')
      BY <1>3 DEF RoomOK
    <2> QED
      BY <1>7, <2>1, FileEntry
  <1> HIDE DEF head
  <1>9. /\ WeWon(d, c, head) => Acked(index[d], c, head) \in Indexes(versions')
        /\ LostTo(d, c, head).disk \in Disks
        /\ LostTo(d, c, head).index \in Indexes(versions')
    BY <1>2, <1>4, <1>8, ReplyOK
  <1> DEFINE after == IF WeWon(d, c, head) THEN Local(disk[d], Acked(index[d], c, head))
                      ELSE LostTo(d, c, head)
  <1>10. after.disk \in Disks /\ after.index \in Indexes(versions')
    BY <1>4, <1>9, ClientOK DEF Local
  <1>11. /\ disk' = [disk EXCEPT ![d] = after.disk]
         /\ index' = [index EXCEPT ![d] = after.index]
         /\ mark' = [mark EXCEPT ![d].cursor = CursorAfter(d, c)]
    BY <1>1 DEF FoldReply
  <1> HIDE DEF after
  <1>12. disk' \in [Device -> Disks] /\ index' \in [Device -> Indexes(versions')]
    BY <1>4, <1>10, <1>11 DEF ClientsOK
  <1>13. mark' \in [Device -> Marks(seq')]
    <2>1. mark[d] \in Marks(seq')
      BY <1>4, ClientOK
    <2>2. headSeq'[c.path] \in 0..seq'
      BY <1>3, <1>7 DEF RoomOK, TypeOK
    <2> DEFINE mk == [mark[d] EXCEPT !.cursor = Larger(@, headSeq'[c.path])]
    <2>3. mk \in Marks(seq')
      BY <1>4, <2>1, <2>2, MarkMoves
    <2>4. mark' = [mark EXCEPT ![d] = mk]
      BY <1>4, <1>11 DEF CursorAfter, ClientsOK
    <2> HIDE DEF mk
    <2> QED
      BY <1>4, <2>3, <2>4 DEF ClientsOK
  <1> QED
    BY <1>3, <1>4, <1>5, <1>6, <1>12, <1>13 DEF PushCommit, SyncInv, ClientsOK, counts

\* A commit refused for its name.
LEMMA PushCollidesOK ==
  ASSUME SyncInv, NEW d \in Device, PushCollides(d)
  PROVE  SyncInv'
  <1>1. RoomOK' /\ versions' = versions /\ seq' = seq /\ seq \in Nat
    BY RoomUnchanged DEF PushCollides
  <1>2. ClientsOK(versions, seq)
    BY DEF SyncInv
  <1>3. /\ job' \in [Device -> JobSet(versions, seq)]
        /\ \A e \in Device : job'[e].pushes \in PushesIn(versions, phase[e])
    BY <1>1, <1>2, SettleOK DEF PushCollides
  <1> QED
    BY <1>1, <1>2, <1>3 DEF PushCollides, SyncInv, ClientsOK, counts, net, local

\* A refused commit leaves at most a row of the blobs table, or a torn one.
LEMMA PushRefusedGrows ==
  ASSUME SyncInv, NEW d \in Device, PushRefused(d)
  PROVE  RoomOK' /\ Grows
  <1> DEFINE c == Head(job[d].pushes)
  <1>1. phase[d] = "pushing" /\ job[d].pushes # <<>> /\ seq \in Nat
    BY DEF PushRefused, SyncInv, RoomOK, TypeOK
  <1>2. c \in Commits(versions)
    BY <1>1, QueueOK DEF SyncInv
  <1>3. HandleCommit(d, c) \/ UNCHANGED room
    <2>1. CASE CommitTorn(d, c)
      BY <2>1 DEF HandleCommit
    <2>2. CASE ~CommitTorn(d, c)
      <3>1. /\ ~PathCollides(files, c)
            /\ ~ContentKnown(c) \/ UnknownParent(versions, c) \/ NoCopyName(d, c)
            /\ blobs' = IF ContentKnown(c) THEN UpsertedBlobs(FoundInBucket(c)) ELSE blobs
            /\ UNCHANGED <<tables, snapshots, bucket, purged, uploading>>
        BY <2>2 DEF PushRefused
      <3>2. CASE ContentKnown(c)
        BY <3>1, <3>2 DEF HandleCommit, CommitRefused
      <3>3. CASE ~ContentKnown(c)
        BY <3>1, <3>3 DEF room, vars, store
      <3> QED
        BY <3>2, <3>3
    <2> QED
      BY <2>1, <2>2
  <1> HIDE DEF c
  <1>4. CASE HandleCommit(d, c)
    BY <1>2, <1>4, SentCommit
  <1>5. CASE UNCHANGED room
    BY <1>1, <1>5, RoomUnchanged DEF Grows, Extends
  <1> QED
    BY <1>3, <1>4, <1>5

\* A commit the room refuses, or whose content it cannot store.
LEMMA PushRefusedOK ==
  ASSUME SyncInv, NEW d \in Device, PushRefused(d)
  PROVE  SyncInv'
  <1>1. phase[d] = "pushing" /\ job[d].pushes # <<>>
    BY DEF PushRefused
  <1>4. RoomOK' /\ Grows
    BY PushRefusedGrows
  <1>5. ClientsOK(versions', seq') /\ seq' \in Nat
    BY <1>4, RoomGrew
  <1>6. PICK n \in 0..(PushConcurrency - 1) :
          /\ n < Len(job[d].pushes)
          /\ job' = [job EXCEPT ![d].pushes = SubSeq(Tail(@), 1, n),
                                ![d].failed = TRUE, ![d].tidied = TRUE]
    BY DEF PushRefused
  <1>7. /\ job[d] \in JobSet(versions', seq') /\ job[d].pushes \in Seq(Commits(versions'))
        /\ Tail(job[d].pushes) \in Seq(Commits(versions'))
    BY <1>1, <1>5, QueueOK
  <1> DEFINE rest == SubSeq(Tail(job[d].pushes), 1, n)
             what == [job[d] EXCEPT !.pushes = rest, !.failed = TRUE, !.tidied = TRUE]
  <1>8. rest \in Seq(Commits(versions'))
    <2>1. Len(Tail(job[d].pushes)) = Len(job[d].pushes) - 1 /\ Len(job[d].pushes) \in Nat
      BY <1>1, <1>7
    <2>2. n \in 0..Len(Tail(job[d].pushes))
      BY <1>6, <2>1, SyncAssumption
    <2>3. \A i \in 1..n : Tail(job[d].pushes)[i] \in Commits(versions')
      BY <1>7, <2>2, SeqElim
    <2> QED
      BY <1>7, <2>2, <2>3
  <1>9. job' = [job EXCEPT ![d] = what]
    BY <1>5, <1>6 DEF ClientsOK
  <1> HIDE DEF rest
  <1>10. what \in JobSet(versions', seq') /\ what.pushes = rest
    BY <1>7, <1>8 DEF JobSet
  <1> HIDE DEF what
  <1>11. job' \in [Device -> JobSet(versions', seq')]
    BY <1>5, <1>9, <1>10 DEF ClientsOK
  <1>12. \A e \in Device : job'[e].pushes \in PushesIn(versions', phase[e])
    BY <1>1, <1>5, <1>8, <1>9, <1>10 DEF ClientsOK, PushesIn
  <1> QED
    BY <1>4, <1>5, <1>11, <1>12 DEF PushRefused, SyncInv, ClientsOK, counts, net, local

\* The room takes a commit from the wire, or refuses it.
LEMMA LateCommitGrows ==
  ASSUME SyncInv, NEW d \in Device, LateCommit(d)
  PROVE  LET c == Head(wire[d])
         IN  /\ c \in Commits(versions) /\ RoomOK' /\ Grows
             /\ (HandleCommit(d, c) /\ FanOut(c, {})) \/ UNCHANGED <<room, inbox>>
  <1> DEFINE c == Head(wire[d])
  <1>1. wire[d] # <<>> /\ wire[d] \in Seq(Commits(versions)) /\ seq \in Nat
    BY ClientOK DEF LateCommit, SyncInv, RoomOK, TypeOK
  <1>2. c \in Commits(versions)
    BY <1>1
  <1>3. (HandleCommit(d, c) /\ FanOut(c, {})) \/ UNCHANGED <<room, inbox>>
    BY DEF LateCommit
  <1> HIDE DEF c
  <1>4. RoomOK' /\ Grows
    <2>1. CASE HandleCommit(d, c)
      BY <1>2, <2>1, SentCommit
    <2>2. CASE UNCHANGED room
      BY <1>1, <2>2, RoomUnchanged DEF Grows, Extends
    <2> QED
      BY <1>3, <2>1, <2>2
  <1> QED
    BY <1>2, <1>3, <1>4 DEF c

\* A commit of a connection that is gone.
LEMMA LateCommitOK ==
  ASSUME SyncInv, NEW d \in Device, LateCommit(d)
  PROVE  SyncInv'
  <1> DEFINE c == Head(wire[d])
  <1>1. wire[d] # <<>> /\ wire[d] \in Seq(Commits(versions))
    BY ClientOK DEF LateCommit, SyncInv, RoomOK, TypeOK
  <1>2. c \in Commits(versions)
    BY LateCommitGrows
  <1>3. (HandleCommit(d, c) /\ FanOut(c, {})) \/ UNCHANGED <<room, inbox>>
    BY LateCommitGrows
  <1>4. wire' = [wire EXCEPT ![d] = Tail(@)] /\ UNCHANGED <<local, state, counts>>
    BY DEF LateCommit
  <1>5. RoomOK' /\ Grows
    BY LateCommitGrows
  <1> HIDE DEF c
  <1>6. ClientsOK(versions', seq') /\ seq' \in Nat
    BY <1>5, RoomGrew
  <1>7. inbox' \in [Device -> Seq(Mail(versions', seq'))]
    <2>1. CASE HandleCommit(d, c) /\ FanOut(c, {})
      <3>1. (seq + 1)..seq' \subseteq DOMAIN events'
        BY <1>2, <2>1, SentCommit
      <3> QED
        BY <1>5, <2>1, <3>1, FanOutOK
    <2>2. CASE UNCHANGED <<room, inbox>>
      BY <1>6, <2>2 DEF ClientsOK
    <2> QED
      BY <1>3, <2>1, <2>2
  <1>8. wire' \in [Device -> Seq(Commits(versions'))]
    <2>1. wire[d] \in Seq(Commits(versions'))
      BY <1>6, ClientOK
    <2>2. Tail(wire[d]) \in Seq(Commits(versions'))
      BY <1>1, <2>1
    <2> QED
      BY <1>4, <1>6, <2>2 DEF ClientsOK
  <1> QED
    BY <1>4, <1>5, <1>6, <1>7, <1>8 DEF SyncInv, ClientsOK, counts, local, state

\* Emptied directories go, the other empty ones are queued as folder commits.
LEMMA TidyFoldersOK ==
  ASSUME SyncInv, NEW d \in Device, TidyFolders(d)
  PROVE  SyncInv'
  <1>1. RoomOK' /\ versions' = versions /\ seq' = seq /\ seq \in Nat
    BY RoomUnchanged DEF TidyFolders
  <1>2. ClientsOK(versions, seq)
    BY DEF SyncInv
  <1> DEFINE without == WithoutKeys(disk[d], EmptiedDirs(d))
             after   == WithoutKeys(without,
                          {p \in job[d].stale : IsVacant(without, index[d], p)})
             folders == Picked(job[d].folders,
                          {i \in DOMAIN job[d].folders : job[d].folders[i] \in DOMAIN after})
             pushes  == [i \in DOMAIN folders |->
                           CommitOf("edit", folders[i], VersionIn(index[d], folders[i]),
                                    NoHash, NoPath, TRUE)]
             what    == [job[d] EXCEPT !.tidied = TRUE, !.sent = {}, !.pushes = pushes]
  <1>3. disk' = [disk EXCEPT ![d] = after]
        /\ job' = [job EXCEPT ![d].tidied = TRUE, ![d].sent = {}, ![d].pushes = pushes]
    BY DEF TidyFolders
  <1>4. job' = [job EXCEPT ![d] = what]
    BY <1>2, <1>3 DEF ClientsOK
  <1>5. /\ disk[d] \in Disks /\ index[d] \in Indexes(versions)
        /\ job[d] \in JobSet(versions, seq) /\ phase[d] = "pushing"
    BY <1>1, <1>2, ClientOK DEF TidyFolders
  <1>6. after \in Disks
    BY <1>5, WithoutKeysOK
  <1> HIDE DEF after
  <1>7. folders \in Seq(Path)
    <2>1. job[d].folders \in Seq(Path)
      BY <1>5 DEF JobSet
    <2> QED
      BY <2>1, PickedFacts
  <1> HIDE DEF folders
  <1>8. pushes \in Seq(Commits(versions))
    <2>1. Len(folders) \in Nat /\ DOMAIN folders = 1..Len(folders)
          /\ \A i \in DOMAIN folders : folders[i] \in Path
      BY <1>7, SeqElim
    <2>2. ASSUME NEW p \in Path
          PROVE  CommitOf("edit", p, VersionIn(index[d], p), NoHash, NoPath, TRUE)
                   \in Commits(versions)
      <3> DEFINE k == VersionIn(index[d], p)
                 c == CommitOf("edit", p, k, NoHash, NoPath, TRUE)
      <3>1. /\ k \in Nat
            /\ \/ k \in {EmptyId, NoVersion}
               \/ k \in DOMAIN versions /\ versions[k].path = p
        BY <1>5, IndexElim DEF VersionIn, NoVersion, HeadOK, KnownHead, Entry
      <3> HIDE DEF k
      <3>2. c = [path |-> p, parent |-> k, hash |-> NoHash, kind |-> "edit",
                 from |-> NoPath, isFolder |-> TRUE]
        BY DEF CommitOf
      <3> HIDE DEF c
      <3>3. p # NoPath
        BY PathAssumption
      <3>4. c \in CommitMsg
        BY <3>1, <3>2 DEF CommitMsg, Kind
      <3>5. SentOK(versions, c)
        BY <3>1, <3>2, <3>3 DEF SentOK
      <3>6. c \in Commits(versions)
        BY <3>4, <3>5 DEF Commits
      <3> QED
        BY <3>6 DEF c, k
    <2>3. pushes \in [1..Len(folders) -> Commits(versions)]
      BY <2>1, <2>2
    <2> QED
      BY <2>1, <2>3, SeqIntro
  <1> HIDE DEF pushes
  <1>9. what \in JobSet(versions, seq) /\ what.pushes = pushes
    BY <1>5, <1>8 DEF JobSet
  <1> HIDE DEF what
  <1>10. job' \in [Device -> JobSet(versions, seq)]
    BY <1>2, <1>4, <1>9 DEF ClientsOK
  <1>11. \A e \in Device : job'[e].pushes \in PushesIn(versions, phase[e])
    BY <1>2, <1>4, <1>5, <1>8, <1>9 DEF ClientsOK, PushesIn
  <1>12. disk' \in [Device -> Disks]
    BY <1>2, <1>3, <1>6 DEF ClientsOK
  <1> QED
    BY <1>1, <1>2, <1>10, <1>11, <1>12 DEF TidyFolders, SyncInv, ClientsOK, counts, net

\* A cycle ends and syncedThrough advances.
LEMMA EndCycleOK ==
  ASSUME SyncInv, NEW d \in Device, EndCycle(d)
  PROVE  SyncInv'
  <1>1. RoomOK' /\ versions' = versions /\ seq' = seq /\ seq \in Nat
    BY RoomUnchanged DEF EndCycle
  <1>2. ClientsOK(versions, seq)
    BY DEF SyncInv
  <1> DEFINE mk == [mark[d] EXCEPT !.synced = Larger(@, job[d].cursor), !.needsFull = FALSE]
  <1>3. mk \in Marks(seq) /\ index[d] \in Indexes(versions)
    <2>1. /\ mark[d] \in Marks(seq) /\ job[d] \in JobSet(versions, seq)
          /\ index[d] \in Indexes(versions)
      BY <1>1, <1>2, ClientOK
    <2>2. job[d].cursor \in 0..seq
      BY <2>1 DEF JobSet
    <2> QED
      BY <1>1, <2>1, <2>2, MarkMoves
  <1>4. mark' = [mark EXCEPT ![d] = mk] /\ SaveAs(d, index[d], mk)
    BY DEF EndCycle
  <1> HIDE DEF mk
  <1>5. saved' \in [Device -> StateFiles(versions, seq)] /\ mark' \in [Device -> Marks(seq)]
    BY <1>2, <1>3, <1>4, SaveAsOK DEF ClientsOK
  <1>6. /\ phase' \in [Device -> Phases] /\ job' \in [Device -> JobSet(versions, seq)]
        /\ \A e \in Device : job'[e].pushes \in PushesIn(versions, phase'[e])
    BY <1>1, <1>2, LiveOK DEF EndCycle
  <1> QED
    BY <1>1, <1>2, <1>5, <1>6 DEF EndCycle, SyncInv, ClientsOK, counts, net

\* A cycle fails.
LEMMA FailCycleOK ==
  ASSUME SyncInv, NEW d \in Device, FailCycle(d)
  PROVE  SyncInv'
  <1>1. RoomOK' /\ versions' = versions /\ seq' = seq /\ seq \in Nat
    BY RoomUnchanged DEF FailCycle
  <1>2. ClientsOK(versions, seq)
    BY DEF SyncInv
  <1>3. /\ phase' \in [Device -> Phases] /\ job' \in [Device -> JobSet(versions, seq)]
        /\ \A e \in Device : job'[e].pushes \in PushesIn(versions, phase'[e])
        /\ inbox' \in [Device -> Seq(Mail(versions, seq))]
        /\ oldest' \in [Device -> Nat]
    BY <1>1, <1>2, StartupFailsOK DEF FailCycle
  <1>4. saved' \in [Device -> StateFiles(versions, seq)]
    BY <1>1, <1>2, ClientOK, SaveAsOK DEF FailCycle
  <1> QED
    BY <1>1, <1>2, <1>3, <1>4 DEF FailCycle, SyncInv, ClientsOK, counts

\* A pruned log holds nothing new.
LEMMA PruneOK ==
  ASSUME SyncInv, EventsPrune, UNCHANGED <<local, state, net, counts>>
  PROVE  SyncInv'
  <1>1. versions' = versions /\ seq' = seq
    BY DEF EventsPrune
  <1>2. RoomOK'
    BY DEF EventsPrune, SyncInv, RoomOK, TypeOK, LogKnown, store
  <1> QED
    BY <1>1, <1>2 DEF SyncInv, ClientsOK, local, state, net, counts

-----------------------------------------------------------------------------
(* The system *)

\* A room without commits, and devices without a state file.
LEMMA SyncInitOK ==
  ASSUME SyncInit
  PROVE  SyncInv
  <1>1. DOMAIN EmptyMap = {} /\ EmptyMap = [x \in {} |-> x]
    BY DEF EmptyMap
  <1>2. RoomOK
    <2>1. TypeOK
      <3>1. IsFiniteSet({})
        BY FS_EmptySet
      <3>2. Init
        BY DEF SyncInit
      <3> QED
        BY <1>1, <3>1, <3>2 DEF Init, TypeOK
    <2>2. Sound(files, versions)
      <3>1. Cardinality({}) = 0 /\ IsFiniteSet({}) /\ 1..0 = {}
        BY FS_EmptySet
      <3> QED
        BY <1>1, <3>1 DEF SyncInit, Init, Sound, FilesOK, VersionsOK, Dense, Recorded, Chained
    <2>3. LogKnown
      BY <1>1 DEF SyncInit, Init, LogKnown
    <2> QED
      BY <2>1, <2>2, <2>3 DEF RoomOK
  <1>3. seq = 0
    BY DEF SyncInit, Init
  <1>4. EmptyMap \in Disks
    <2>1. EmptyMap \in [{} -> Hash \cup {NoHash}]
      BY <1>1
    <2> QED
      BY <2>1, DiskIntro
  <1>5. /\ Fresh.index \in Indexes(versions) /\ Fresh.mark \in Marks(seq)
        /\ Fresh \in StateFiles(versions, seq)
        /\ Idle \in JobSet(versions, seq) /\ Idle.pushes = <<>>
    BY <1>3, FreshOK, IdleOK
  <1>6. /\ <<>> \in Seq(Mail(versions, seq)) /\ <<>> \in Seq(Commits(versions))
        /\ "off" \in Phases /\ <<>> \in PushesIn(versions, "off")
    BY DEF Phases, PushesIn
  <1>7. MaxEdits \in Nat /\ MaxFaults \in Nat
    BY SyncAssumption
  <1>8. ClientsOK(versions, seq)
    BY <1>4, <1>5, <1>6, <1>7 DEF SyncInit, ClientsOK
  <1> QED
    BY <1>2, <1>8 DEF SyncInv

\* The room's tables never lose a version, whatever step is taken.
LEMMA StepGrows ==
  ASSUME SyncInv, SyncNext
  PROVE  Grows
  <1>1. ASSUME UNCHANGED room PROVE Grows
    BY <1>1, RoomUnchanged DEF Grows, Extends
  <1>2. CASE UserStep
    BY <1>1, <1>2 DEF UserStep, UserEdit, UserDelete, UserMove, UserMakeDir, UserRemoveDir,
       UserWrites
  <1>3. CASE FaultStep
    BY <1>1, <1>3 DEF FaultStep, Disconnect, Crash, CrashInPulls, LoseState, ChangeFails,
       PullFails
  <1>4. ASSUME NEW d \in Device, ClientStep(d)
        PROVE  Grows
    <2>1. CASE PushCommit(d)
      BY <2>1, PushCommitGrows
    <2>2. CASE PushRefused(d)
      BY <2>2, PushRefusedGrows
    <2>3. CASE \/ Connect(d) \/ ReceiveChange(d) \/ ApplyChange(d) \/ BeginCycle(d)
               \/ ExecutePlan(d) \/ PushCollides(d) \/ TidyFolders(d) \/ EndCycle(d)
               \/ FailCycle(d)
      BY <1>1, <2>3 DEF Connect, ReceiveChange, ApplyChange, BeginCycle, ExecutePlan,
         PushCollides, TidyFolders, EndCycle, FailCycle
    <2> QED
      BY <1>4, <2>1, <2>2, <2>3 DEF ClientStep
  <1>5. CASE \E d \in Device : LateCommit(d)
    BY <1>5, LateCommitGrows
  <1>6. CASE EventsPrune
    BY <1>6 DEF EventsPrune, Grows, Extends, SyncInv, RoomOK, TypeOK
  <1> QED
    BY <1>2, <1>3, <1>4, <1>5, <1>6 DEF SyncNext

\* Every step of the system keeps the invariant.
LEMMA SyncNextOK ==
  ASSUME SyncInv, [SyncNext]_all
  PROVE  SyncInv'
  <1>1. CASE UserStep
    BY <1>1, UserStepOK
  <1>2. CASE FaultStep
    BY <1>2, DisconnectOK, CrashOK, CrashInPullsOK, LoseStateOK, ChangeFailsOK,
       PullFailsOK DEF FaultStep
  <1>3. ASSUME NEW d \in Device, ClientStep(d)
        PROVE  SyncInv'
    BY <1>3, ConnectOK, ReceiveChangeOK, ApplyChangeOK, BeginCycleOK, ExecutePlanOK,
       PushCommitOK, PushCollidesOK, PushRefusedOK, TidyFoldersOK, EndCycleOK,
       FailCycleOK DEF ClientStep
  <1>4. CASE \E d \in Device : LateCommit(d)
    BY <1>4, LateCommitOK
  <1>5. CASE EventsPrune /\ UNCHANGED <<local, state, net, counts>>
    BY <1>5, PruneOK
  <1>6. CASE UNCHANGED all
    <2>1. RoomOK' /\ versions' = versions /\ seq' = seq
      BY <1>6, RoomUnchanged DEF all
    <2> QED
      BY <1>6, <2>1 DEF SyncInv, ClientsOK, all, local, state, net, counts
  <1> QED
    BY <1>1, <1>2, <1>3, <1>4, <1>5, <1>6 DEF SyncNext

\* What the clients and the room hold always fits together: see SyncInv.
THEOREM SyncInvariant == SyncSpec => []SyncInv
  <1>1. SyncInit => SyncInv
    BY SyncInitOK
  <1>2. SyncInv /\ [SyncNext]_all => SyncInv'
    BY SyncNextOK
  <1> QED
    BY <1>1, <1>2, PTL DEF SyncSpec

\* Disks, indexes, cursors, queues and messages hold what the clients of
\* core/src/client.ts store in them, and no cursor is ahead of the room's log.
THEOREM SyncTypeCorrect == SyncSpec => []SyncTypeOK
  <1>1. SyncInv => SyncTypeOK
    <2> SUFFICES ASSUME SyncInv PROVE SyncTypeOK
      OBVIOUS
    <2>1. ClientsOK(versions, seq) /\ seq \in Nat
      BY DEF SyncInv, RoomOK, TypeOK
    <2>2. ASSUME NEW d \in Device
          PROVE  /\ IsDisk(disk[d]) /\ IsHeads(index[d]) /\ IsHeads(saved[d].index)
                 /\ mark[d].cursor \in 0..seq /\ mark[d].synced \in 0..seq
                 /\ oldest[d] \in Nat
                 /\ \A i \in DOMAIN inbox[d] : inbox[d][i].change \in Change
                 /\ \A i \in DOMAIN wire[d] : wire[d][i] \in CommitMsg
      <3>1. /\ disk[d] \in Disks /\ index[d] \in Indexes(versions) /\ mark[d] \in Marks(seq)
            /\ saved[d].index \in Indexes(versions)
            /\ inbox[d] \in Seq(Mail(versions, seq)) /\ wire[d] \in Seq(Commits(versions))
        BY <2>1, ClientOK
      <3>2. IsDisk(disk[d]) /\ IsHeads(index[d]) /\ IsHeads(saved[d].index)
        BY <3>1, DiskElim, IndexElim
      <3>3. \A i \in DOMAIN inbox[d] : inbox[d][i] \in Mail(versions, seq)
        BY <3>1, SeqElim
      <3>4. \A i \in DOMAIN wire[d] : wire[d][i] \in Commits(versions)
        BY <3>1, SeqElim
      <3>5. oldest[d] \in Nat
        BY <2>1 DEF ClientsOK
      <3>6. mark[d].cursor \in 0..seq /\ mark[d].synced \in 0..seq
        BY <3>1 DEF Marks
      <3> QED
        BY <3>2, <3>3, <3>4, <3>5, <3>6 DEF Mail, Commits
    <2> QED
      BY <2>1, <2>2 DEF SyncTypeOK, ClientsOK, Phases
  <1> QED
    BY <1>1, SyncInvariant, PTL

\* The parents and the hashes a client's commits name are those the room's
\* module assumes: a version of the path (or of the source it is moved from),
\* the winner for a conflict copy, and for a delete the content it deletes.
THEOREM ParentsKnown == SyncSpec => []SendsKnownParents
  <1>1. SyncInv => SendsKnownParents
    <2> SUFFICES ASSUME SyncInv, NEW d \in Device, phase[d] = "pushing",
                        NEW i \in DOMAIN job[d].pushes
                 PROVE  LET c == job[d].pushes[i]
                        IN  /\ \/ c.parent \in KnownParents(c.kind, IF c.kind = "rename"
                                                                    THEN c.from ELSE c.path)
                               \/ c.parent = EmptyId /\ c.kind \in {"edit", "restore"}
                            /\ c.isFolder \/ c.hash \in SentHashes(c.kind, c.parent)
      BY DEF SendsKnownParents
    <2> DEFINE c == job[d].pushes[i]
    <2>1. c \in Commits(versions)
      <3>1. job[d].pushes \in Seq(Commits(versions))
        BY ClientOK DEF SyncInv, RoomOK, TypeOK, PushesIn
      <3> QED
        BY <3>1, SeqElim
    <2> HIDE DEF c
    <2>2. \/ c.parent \in KnownParents(c.kind, IF c.kind = "rename" THEN c.from ELSE c.path)
          \/ c.parent = EmptyId /\ c.kind \in {"edit", "restore"}
      BY <2>1 DEF Commits, SentOK, KnownParents
    <2>3. c.isFolder \/ c.hash \in SentHashes(c.kind, c.parent)
      BY <2>1 DEF Commits, SentOK, SentHashes, CommitMsg
    <2> QED
      BY <2>2, <2>3 DEF c
  <1> QED
    BY <1>1, SyncInvariant, PTL

\* With real clients for the commits, the room's tables keep what VaultRoom
\* promises of them: a row and the version it names agree, and a version's
\* clock is one above its parent's.
THEOREM RoomStaysSound ==
  SyncSpec => [](TypeOK /\ HeadsAreRecorded /\ ClocksFollowParents)
  <1>1. SyncInv => TypeOK /\ HeadsAreRecorded /\ ClocksFollowParents
    <2> SUFFICES ASSUME SyncInv PROVE TypeOK /\ HeadsAreRecorded /\ ClocksFollowParents
      OBVIOUS
    <2>1. TypeOK /\ Sound(files, versions)
      BY DEF SyncInv, RoomOK
    <2> QED
      BY <2>1 DEF Sound, Recorded, RowRecorded, HeadsAreRecorded, ClocksFollowParents,
         Chained, Follows
  <1> QED
    BY <1>1, SyncInvariant, PTL

-----------------------------------------------------------------------------
(* What the sync may lose.  ContentIsKept holds unless one of five things     *)
(* happens; each is a step of the code that replaces a file without having    *)
(* made sure of what is in it.                                                *)

\* The conflict copies of a plan, and the paths its pulls replace.
Copies(d) ==
  {job[d].pushes[i] : i \in {j \in DOMAIN job[d].pushes :
                               job[d].pushes[j].commit.kind = "conflictCopy"}}

Replaced(d) == {x.path : x \in job[d].pulls} \cup {x.from : x \in job[d].pulls}

DiskChanges(d) == disk'[d] # disk[d]

\* A folder placeholder and a file have the same path: changeIsSafe
\* (client.ts) passes every folder, and a folder deletion is resolved without
\* a look at the file.
KindsClash(d) ==
  /\ phase[d] \in {"fetching", "planned"} /\ DiskChanges(d)
  /\ \E f \in Replaced(d) \cap FilesOn(disk[d]) :
       \/ phase[d] = "fetching" /\ \E x \in job[d].pulls : x.head.isFolder
       \/ f \in DOMAIN index[d] /\ index[d][f].isFolder

\* A manifest is not filtered by the device's ignore rules (client.ts): its
\* pull may replace a file that the scan left out.
IgnoredPulled(d) ==
  /\ phase[d] = "planned" /\ DiskChanges(d)
  /\ Replaced(d) \cap FilesOn(disk[d]) \cap Ignored[d] # {}

\* A conflict copy's name is checked against the index and the manifest
\* (resolve.ts), and not against the disk: it may be that of another file.
CopyOverFile(d) ==
  /\ phase[d] = "planned" /\ DiskChanges(d)
  /\ \E x \in Copies(d) :
       \/ x.commit.path \in FilesOn(disk[d]) /\ disk[d][x.commit.path] # x.commit.hash
       \/ \E y \in Copies(d) : y.commit.path = x.commit.path /\ y.commit.hash # x.commit.hash

\* A cycle with a merge ends after a pull and before the merges are written
\* (client.ts): a merged path has no conflict copy.
MergeCutShort(d) ==
  /\ phase[d] = "planned" /\ job[d].merges # {} /\ DiskChanges(d)
  /\ phase'[d] # "pushing"

\* A delete, or a folder's commit, lost, and a file was written at its path
\* meanwhile: handleConflictReply (client.ts) looks at the disk only for
\* commits with content.
Recreated(d) ==
  /\ phase[d] = "pushing" /\ job[d].pushes # <<>> /\ DiskChanges(d) /\ edits' = edits
  /\ LET c == Head(job[d].pushes)
     IN  (c.kind = "delete" \/ c.isFolder) /\ c.path \in FilesOn(disk[d])

Mishap ==
  \E d \in Device : KindsClash(d) \/ IgnoredPulled(d) \/ CopyOverFile(d)
                      \/ MergeCutShort(d) \/ Recreated(d)

\* Why a pull may replace the file f: its content is in the history, or goes to
\* a conflict copy or a merge of the same plan, or one of the five is about to
\* happen.
SafeAt(d, f) ==
  \/ Holds(versions, disk[d][f])
  \/ f \in DOMAIN index[d] /\ index[d][f].isFolder
  \/ phase[d] = "fetching" /\ \E x \in job[d].pulls : x.head.isFolder
  \/ /\ phase[d] = "planned"
     /\ \/ f \in Ignored[d]
        \/ \E x \in Copies(d) : x.source = f /\ x.commit.hash = disk[d][f]
        \/ \E m \in job[d].merges : m.path = f /\ disk[d][f] \in Included(m.hash)

\* What a client is about to pull replaces no content that it must keep, no
\* conflict copy has the path of a pull, and a merged path is pulled.
PlanSafe(d) ==
  phase[d] \in {"fetching", "planned"} =>
    /\ \A f \in Replaced(d) \cap FilesOn(disk[d]) : SafeAt(d, f)
    /\ phase[d] = "planned" =>
         /\ \A x \in Copies(d) : x.commit.path \notin Replaced(d)
         /\ \A m \in job[d].merges : m.path \in Replaced(d)
         /\ \A m, n \in job[d].merges : m.path = n.path => m = n

SafePlans == \A d \in Device : PlanSafe(d)

-----------------------------------------------------------------------------
(* What pulls, copies and merges leave on a disk *)

\* Sorted leaves out no number of the set, and Picked none of the places.
LEMMA SortedOnto ==
  ASSUME NEW S, S \subseteq Nat, IsFiniteSet(S), NEW n \in S
  PROVE  \E i \in 1..Cardinality(S) : Sorted(S)[i] = n
  <1> DEFINE B    == {k \in S : k < n}
             rank == Cardinality(B)
             at(m) == Cardinality({k \in S : k < m})
  <1>1. Cardinality(S) \in Nat
    BY FS_CardinalityType
  <1>2. rank \in 0..(Cardinality(S) - 1)
    <2>1. B \subseteq S /\ n \notin B /\ B # S
      OBVIOUS
    <2>2. IsFiniteSet(B) /\ rank <= Cardinality(S) /\ (Cardinality(S) = rank => S = B)
      BY <2>1, FS_Subset
    <2>3. rank \in Nat
      BY <2>2, FS_CardinalityType
    <2> HIDE DEF B
    <2> QED
      BY <1>1, <2>1, <2>2, <2>3
  <1>3. \A m \in S : at(m) = rank => m = n
    <2> SUFFICES ASSUME NEW m \in S, at(m) = rank, m # n PROVE FALSE
      OBVIOUS
    <2>1. m \in Nat /\ n \in Nat
      OBVIOUS
    <2>2. CASE m < n
      <3>1. at(m) \in Nat /\ rank \in Nat /\ at(m) < rank
        BY <2>2, RanksDiffer
      <3> QED
        BY <3>1
    <2>3. CASE n < m
      <3>1. at(m) \in Nat /\ rank \in Nat /\ rank < at(m)
        BY <2>3, RanksDiffer
      <3> QED
        BY <3>1
    <2> QED
      BY <2>1, <2>2, <2>3
  <1> DEFINE i == rank + 1
  <1>4. i \in 1..Cardinality(S) /\ i - 1 = rank
    <2> HIDE DEF B
    <2> QED
      BY <1>1, <1>2
  <1>5. Sorted(S)[i] = CHOOSE m \in S : at(m) = i - 1
    <2> HIDE DEF i
    <2> QED
      BY <1>4 DEF Sorted
  <1>6. at(n) = rank
    OBVIOUS
  <1> HIDE DEF i, at, rank
  <1>7. (CHOOSE m \in S : at(m) = i - 1) = n
    BY <1>3, <1>4, <1>6
  <1> QED
    BY <1>4, <1>5, <1>7

\* Picked leaves out no element at the chosen places.
LEMMA PickedOnto ==
  ASSUME NEW X, NEW s \in Seq(X), NEW at, at \subseteq DOMAIN s, NEW j \in at
  PROVE  \E i \in DOMAIN Picked(s, at) : Picked(s, at)[i] = s[j]
  <1>1. Len(s) \in Nat /\ DOMAIN s = 1..Len(s)
    BY SeqElim
  <1>2. at \subseteq Nat /\ IsFiniteSet(at)
    <2>1. IsFiniteSet(1..Len(s)) /\ at \subseteq 1..Len(s)
      BY <1>1, FS_Interval
    <2> QED
      BY <2>1, FS_Subset
  <1>3. PICK i \in 1..Cardinality(at) : Sorted(at)[i] = j
    BY <1>2, SortedOnto
  <1> QED
    BY <1>3 DEF Picked

\* b has every file of a outside F, with its content.
Keeps(a, F, b) == \A f \in FilesOn(a) \ F : f \in DOMAIN b /\ b[f] = a[f]

\* What two steps keep one after the other, both together keep.
LEMMA KeepsTwice ==
  ASSUME NEW a, NEW F, NEW b, NEW c, Keeps(a, F, b), Keeps(b, F, c)
  PROVE  Keeps(a, F, c)
  BY DEF Keeps, FilesOn

\* WriteAll changes the paths it writes only, and writes one of their contents.
LEMMA WriteAllFacts ==
  ASSUME NEW a, NEW writes
  PROVE  LET b == WriteAll(a, writes)
         IN  /\ \A q \in DOMAIN a :
                  (\A w \in writes : w.path # q) => q \in DOMAIN b /\ b[q] = a[q]
             /\ \A w \in writes :
                  /\ w.path \in DOMAIN b
                  /\ \E u \in writes : u.path = w.path /\ b[w.path] = u.hash
  <1> DEFINE paths == {w.path : w \in writes}
             b == WriteAll(a, writes)
             X == DOMAIN a \cup paths \cup UNION {Above[p] : p \in paths}
             chosen(q) == CHOOSE w \in writes : w.path = q
  <1>1. b = [q \in X |-> IF q \in paths THEN chosen(q).hash
                         ELSE IF q \in DOMAIN a THEN a[q] ELSE NoHash]
    BY DEF WriteAll
  <1>2. \A q \in paths : chosen(q) \in writes /\ chosen(q).path = q
    OBVIOUS
  <1>3. DOMAIN b = X
    BY <1>1
  <1>4. ASSUME NEW q \in DOMAIN a, \A w \in writes : w.path # q
        PROVE  q \in DOMAIN b /\ b[q] = a[q]
    BY <1>1, <1>3, <1>4
  <1>5. ASSUME NEW w \in writes
        PROVE  w.path \in DOMAIN b /\ \E u \in writes : u.path = w.path /\ b[w.path] = u.hash
    <2>1. w.path \in paths
      OBVIOUS
    <2>2. b[w.path] = chosen(w.path).hash
      BY <1>1, <2>1
    <2> QED
      BY <1>2, <1>3, <2>1, <2>2
  <1> QED
    BY <1>4, <1>5

\* A pull replaces the file at its path, and at the path it was moved from.
LEMMA PullKeeps ==
  ASSUME NEW v, NEW x \in Locals(v), NEW pull \in PullSet(v)
  PROVE  Keeps(x.disk, {pull.path, pull.from}, ApplyOnePull(x, pull).disk)
  <1> DEFINE F == {pull.path, pull.from}
             a == x.disk
  <1>1. ASSUME NEW b, NEW p, NEW h, Keeps(a, F, b), p \in F
        PROVE  Keeps(a, F, WriteTo(b, p, h))
    BY <1>1 DEF Keeps, WriteTo
  <1>2. ASSUME NEW b, NEW keys, Keeps(a, F, b), keys \subseteq F \cup DirsOn(b)
        PROVE  Keeps(a, F, WithoutKeys(b, keys))
    BY <1>2 DEF Keeps, WithoutKeys, DirsOn, FilesOn
  <1>3. ASSUME NEW b, NEW ix, NEW dir, Keeps(a, F, b)
        PROVE  Keeps(a, F, RemoveDirIfVacant(b, ix, dir))
    <2>1. CASE dir # NoPath /\ IsVacant(b, ix, dir)
      <3>1. {dir} \subseteq F \cup DirsOn(b)
        BY <2>1 DEF IsVacant
      <3> QED
        BY <1>2, <1>3, <2>1, <3>1 DEF RemoveDirIfVacant
    <2>2. CASE ~(dir # NoPath /\ IsVacant(b, ix, dir))
      BY <1>3, <2>2 DEF RemoveDirIfVacant
    <2> QED
      BY <2>1, <2>2
  <1>4. Keeps(a, F, a) /\ pull.path \in F /\ pull.from \in F
    BY DEF Keeps, FilesOn
  <1> HIDE DEF a
  <1>5. Keeps(a, F, PullFolderRename(x, pull).disk)
    BY <1>1, <1>3, <1>4 DEF PullFolderRename, Local, a
  <1>6. Keeps(a, F, PullRename(x, pull).disk)
    <2>1. Keeps(a, F, WithoutKeys(a, {pull.from}))
      BY <1>2, <1>4
    <2>2. Keeps(a, F, MoveFile(a, pull.from, pull.path))
      BY <1>1, <1>4, <2>1 DEF MoveFile
    <2>3. Keeps(a, F, WriteTo(a, pull.path, pull.head.hash))
      BY <1>1, <1>4
    <2> QED
      BY <1>3, <2>2, <2>3 DEF PullRename, Prune, Local, a
  <1>7. Keeps(a, F, PullFolder(x, pull).disk)
    BY <1>1, <1>3, <1>4 DEF PullFolder, Local, a
  <1>8. Keeps(a, F, PullDelete(x, pull).disk)
    <2>1. Keeps(a, F, WithoutKeys(a, {pull.path} \ DirsOn(a)))
      BY <1>2, <1>4
    <2> QED
      BY <1>3, <2>1 DEF PullDelete, Prune, Local, a
  <1>9. Keeps(a, F, PullContent(x, pull).disk)
    BY <1>1, <1>4 DEF PullContent, Local, a
  <1>10. \/ ApplyOnePull(x, pull) = PullFolderRename(x, pull)
         \/ ApplyOnePull(x, pull) = PullRename(x, pull)
         \/ ApplyOnePull(x, pull) = PullFolder(x, pull)
         \/ ApplyOnePull(x, pull) = PullDelete(x, pull)
         \/ ApplyOnePull(x, pull) = PullContent(x, pull)
    <2>1. pull.head.isFolder \in BOOLEAN /\ pull.head.deleted \in BOOLEAN
      BY DEF PullSet, Entry
    <2> QED
      BY <2>1 DEF ApplyOnePull
  <1> QED
    BY <1>5, <1>6, <1>7, <1>8, <1>9, <1>10 DEF a

\* So do any number of them.
LEMMA PullsKeep ==
  ASSUME NEW v, NEW x \in Locals(v), NEW pulls \in Seq(PullSet(v)), NEW n \in 0..Len(pulls),
         NEW F, \A i \in DOMAIN pulls : {pulls[i].path, pulls[i].from} \subseteq F
  PROVE  Keeps(x.disk, F, AfterPulls(x, pulls, n).disk)
  <1> DEFINE S == {y \in Locals(v) : Keeps(x.disk, F, y.disk)}
  <1>1. x \in S
    BY DEF Keeps, FilesOn
  <1>2. n \in Nat /\ Len(pulls) \in Nat /\ DOMAIN pulls = 1..Len(pulls)
    BY SeqElim
  <1>3. ASSUME NEW y \in S, NEW i \in 1..n
        PROVE  ApplyOnePull(y, pulls[i]) \in S
    <2>1. i \in DOMAIN pulls /\ pulls[i] \in PullSet(v)
      BY <1>2, SeqElim
    <2>2. ApplyOnePull(y, pulls[i]) \in Locals(v)
      BY <2>1, ApplyOnePullOK
    <2>3. Keeps(y.disk, {pulls[i].path, pulls[i].from}, ApplyOnePull(y, pulls[i]).disk)
      BY <2>1, PullKeeps
    <2>4. Keeps(y.disk, F, ApplyOnePull(y, pulls[i]).disk)
      BY <2>1, <2>3 DEF Keeps
    <2>5. Keeps(x.disk, F, ApplyOnePull(y, pulls[i]).disk)
      BY <2>4, KeepsTwice
    <2> QED
      BY <2>2, <2>5
  <1> HIDE DEF S
  <1>4. AfterPulls(x, pulls, n) \in S
    BY <1>1, <1>2, <1>3, AfterPullsStay
  <1> QED
    BY <1>4 DEF S
-----------------------------------------------------------------------------
(* What a plan may replace *)

\* Why a plan with these pushes may replace what is at f.
MayReplace(v, d, disk1, index1, pushes, f) ==
  \/ f \notin FilesOn(disk1)
  \/ Holds(v, disk1[f])
  \/ f \in DOMAIN index1 /\ index1[f].isFolder
  \/ f \in Ignored[d]
  \/ \E x \in pushes : /\ x.commit.kind = "conflictCopy"
                       /\ x.source = f /\ x.commit.hash = disk1[f]

\* A pull of the outcome may replace what it does, and is of a path that the
\* device or the room knows; a copy has a name that neither does.
OutcomeSafe(v, d, disk1, index1, remote, o) ==
  /\ \A x \in o.pulls :
       /\ x.path \in DOMAIN index1 \cup DOMAIN remote
       /\ x.from \in DOMAIN index1 \cup {NoPath}
       /\ MayReplace(v, d, disk1, index1, o.pushes, x.path)
       /\ MayReplace(v, d, disk1, index1, o.pushes, x.from)
  /\ \A x \in o.pushes :
       x.commit.kind = "conflictCopy" =>
         x.commit.path \notin DOMAIN index1 \cup DOMAIN remote

\* A push replaces nothing on the disk.
LEMMA PushSafe ==
  ASSUME NEW v, NEW d, NEW disk1, NEW index1, NEW remote, NEW x,
         x.commit.kind # "conflictCopy", NEW contested
  PROVE  OutcomeSafe(v, d, disk1, index1, remote, Outcome({x}, {}, contested))
  BY DEF OutcomeSafe, Outcome

\* A pull of a known path that is not a rename.
LEMMA PullSafe ==
  ASSUME NEW v, NEW d, NEW disk1 \in Disks, NEW index1, NEW remote, NEW x,
         x.path \in DOMAIN index1 \cup DOMAIN remote, x.from = NoPath,
         MayReplace(v, d, disk1, index1, {}, x.path)
  PROVE  OutcomeSafe(v, d, disk1, index1, remote, Outcome({}, {x}, {}))
  <1>1. x.from \notin FilesOn(disk1)
    BY DiskElim, PathAssumption DEF FilesOn
  <1> QED
    BY <1>1 DEF OutcomeSafe, Outcome, MayReplace

\* A copy's name is new to the device and to the room, or there is none.
LEMMA CopyNameNew ==
  ASSUME NEW d \in Device, NEW index1, NEW remote, NEW p \in Path,
         DOMAIN index1 \cup DOMAIN remote \subseteq Path
  PROVE  CopyName(d, index1, remote, p) \notin DOMAIN index1 \cup DOMAIN remote
  <1> DEFINE known == [q \in DOMAIN index1 \cup DOMAIN remote |-> q]
  <1>1. DOMAIN known = DOMAIN index1 \cup DOMAIN remote
    OBVIOUS
  <1>2. CopyName(d, index1, remote, p) =
          IF FreeCandidates(known, p, d) = {} THEN NoPath ELSE ConflictCopyPath(known, p, d)
    BY DEF CopyName
  <1> HIDE DEF known
  <1>3. CASE FreeCandidates(known, p, d) = {}
    BY <1>2, <1>3, PathAssumption
  <1>4. CASE FreeCandidates(known, p, d) # {}
    BY <1>1, <1>2, <1>4, ConflictCopyPathFacts
  <1> QED
    BY <1>3, <1>4

\* Local content that is placed stays, is known to the room, or is copied.
LEMMA PlaceContentSafe ==
  ASSUME NEW v, NEW index1 \in Indexes(v), NEW remote, RemoteOK(v, index1, remote),
         NEW d \in Device, NEW disk1 \in Disks, NEW p \in FilesOn(disk1)
  PROVE  OutcomeSafe(v, d, disk1, index1, remote,
                     PlaceContent(d, index1, remote, p, disk1[p]))
  <1> DEFINE hash == disk1[p]
             both == IF p \in DOMAIN index1 /\ ~remote[p].deleted THEN {p} ELSE {}
             o    == PlaceContent(d, index1, remote, p, hash)
             pull == PullHead(remote, p)
             push == PushContent(index1, p, hash)
  <1>1. push.commit.kind # "conflictCopy"
    BY DEF PushContent, Push, CommitOf, ContentKind
  <1>2. pull.path = p /\ pull.from = NoPath
    BY DEF PullHead, Pull
  <1>3. p \in Path /\ DOMAIN index1 \cup DOMAIN remote \subseteq Path
    BY DiskElim, IndexElim DEF FilesOn, RemoteOK
  <1> HIDE DEF push, pull
  <1>4. CASE ~RemoteChanged(index1, remote, p)
    <2>1. o = Outcome({push}, {}, {})
      BY <1>4 DEF PlaceContent, push
    <2> QED
      BY <1>1, <2>1, PushSafe
  <1>5. CASE RemoteChanged(index1, remote, p)
    <2>1. p \in DOMAIN remote /\ KnownHead(v, p, remote[p])
      BY <1>5, ChangedKnown
    <2>2. Holds(v, remote[p].hash)
      BY <2>1 DEF KnownHead, Holds
    <2>3. CASE hash = remote[p].hash /\ ~remote[p].deleted
      <3>1. o = Outcome({}, {pull}, {})
        BY <1>5, <2>3 DEF PlaceContent, ContestedContent, pull
      <3>2. MayReplace(v, d, disk1, index1, {}, pull.path)
        BY <1>2, <2>2, <2>3 DEF MayReplace
      <3> QED
        BY <1>2, <2>1, <3>1, <3>2, PullSafe
    <2>4. CASE ~(hash = remote[p].hash /\ ~remote[p].deleted)
               /\ RemoteWins(d, index1, remote, p)
      <3> DEFINE copies == CopyOfLoser(d, index1, remote, p, hash)
      <3>1. o = Outcome(copies, {pull}, both)
        BY <1>5, <2>4 DEF PlaceContent, ContestedContent, pull
      <3>2. \A x \in copies : x.commit.path \notin DOMAIN index1 \cup DOMAIN remote
        BY <1>3, CopyNameNew DEF CopyOfLoser, Push, CommitOf
      <3>3. hash # remote[p].hash =>
              \E x \in copies : /\ x.commit.kind = "conflictCopy"
                                /\ x.source = p /\ x.commit.hash = hash
        BY DEF CopyOfLoser, Push, CommitOf
      <3> HIDE DEF copies
      <3>4. MayReplace(v, d, disk1, index1, copies, p)
        BY <2>2, <3>3 DEF MayReplace
      <3>5. MayReplace(v, d, disk1, index1, copies, NoPath)
        BY DiskElim, PathAssumption DEF MayReplace, FilesOn
      <3> HIDE DEF o, both
      <3>6. OutcomeSafe(v, d, disk1, index1, remote, o)
        BY <1>2, <2>1, <3>1, <3>2, <3>4, <3>5 DEF OutcomeSafe, Outcome
      <3> QED
        BY <3>6 DEF o
    <2>5. CASE ~(hash = remote[p].hash /\ ~remote[p].deleted)
               /\ ~RemoteWins(d, index1, remote, p)
      <3>1. o = Outcome({push}, {}, both)
        BY <1>5, <2>5 DEF PlaceContent, ContestedContent, push
      <3> HIDE DEF both
      <3> QED
        BY <1>1, <3>1, PushSafe
    <2> QED
      BY <2>3, <2>4, <2>5
  <1> QED
    BY <1>4, <1>5

\* So does a local deletion of what is gone, or of a folder.
LEMMA PlaceDeleteSafe ==
  ASSUME NEW v, NEW index1 \in Indexes(v), NEW remote, RemoteOK(v, index1, remote),
         NEW d \in Device, NEW disk1 \in Disks, NEW p \in DOMAIN index1,
         p \notin FilesOn(disk1) \/ index1[p].isFolder, NEW isFolder
  PROVE  OutcomeSafe(v, d, disk1, index1, remote,
                     PlaceDelete(d, index1, remote, p, isFolder))
  <1> DEFINE o    == PlaceDelete(d, index1, remote, p, isFolder)
             pull == PullHead(remote, p)
             push == PushDelete(index1, p, isFolder)
  <1>1. push.commit.kind # "conflictCopy"
    BY DEF PushDelete, Push, CommitOf
  <1>2. pull.path = p /\ pull.from = NoPath
    BY DEF PullHead, Pull
  <1>3. MayReplace(v, d, disk1, index1, {}, pull.path)
    BY <1>2 DEF MayReplace
  <1>4. o = Outcome({push}, {}, {}) \/ o = Outcome({}, {pull}, {})
    BY DEF PlaceDelete, ContestedDelete
  <1> HIDE DEF push, pull
  <1>5. OutcomeSafe(v, d, disk1, index1, remote, Outcome({push}, {}, {}))
    BY <1>1, PushSafe
  <1>6. OutcomeSafe(v, d, disk1, index1, remote, Outcome({}, {pull}, {}))
    BY <1>2, <1>3, PullSafe
  <1> QED
    BY <1>4, <1>5, <1>6

\* A path that the scan reports nothing of is ignored, no file, or as the index
\* has it.
LEMMA UntouchedSafe ==
  ASSUME NEW v, NEW index1 \in Indexes(v), NEW d \in Device, NEW disk1 \in Disks,
         NEW p, p \notin LocalPaths(ScanVault(d, disk1, index1)), NEW pushes
  PROVE  MayReplace(v, d, disk1, index1, pushes, p)
  <1> SUFFICES ASSUME p \in FilesOn(disk1), p \notin Ignored[d]
               PROVE  Holds(v, disk1[p])
    BY DEF MayReplace
  <1> DEFINE scan == ScanVault(d, disk1, index1)
  <1>1. p \in Kept(d, disk1)
    BY DEF Kept
  <1>2. /\ scan.added = Added(d, disk1, index1) \ {x.to : x \in scan.renamed}
        /\ scan.modified = Modified(d, disk1, index1)
    BY DEF ScanVault
  <1> HIDE DEF scan
  <1>3. p \notin scan.added /\ p \notin scan.modified /\ p \notin {x.to : x \in scan.renamed}
    BY DEF LocalPaths, scan
  <1>4. p \in DOMAIN index1
    BY <1>1, <1>2, <1>3 DEF Added
  <1>5. ~index1[p].deleted /\ index1[p].hash = disk1[p]
    BY <1>1, <1>2, <1>3, <1>4 DEF Modified
  <1>6. HeadOK(v, p, index1[p])
    BY <1>4, IndexElim
  <1>7. KnownHead(v, p, index1[p])
    BY <1>5, <1>6 DEF HeadOK
  <1> QED
    BY <1>5, <1>7 DEF KnownHead, Holds

\* Phase A replaces nothing unsaved.
LEMMA RenameSafe ==
  ASSUME NEW v, NEW index1 \in Indexes(v), NEW remote, RemoteOK(v, index1, remote),
         NEW d \in Device, NEW disk1 \in Disks,
         NEW x \in [from : Gone(d, disk1, index1), to : Added(d, disk1, index1)],
         NEW o \in RenameOutcomes(d, disk1, index1, remote, x)
  PROVE  OutcomeSafe(v, d, disk1, index1, remote, o)
  <1>1. x.from \in DOMAIN index1 /\ x.from \notin FilesOn(disk1)
    BY DEF Gone, Kept, LiveFiles
  <1>2. x.to \in FilesOn(disk1)
    BY DEF Added, Kept
  <1> DEFINE rename == PushRename(index1, x, disk1[x.to])
             source == SourceOutcome(d, index1, remote, x)
             target == PlaceContent(d, index1, remote, x.to, disk1[x.to])
  <1>3. o \in {Outcome({rename}, {}, {}), source, target}
    BY DEF RenameOutcomes
  <1>4. OutcomeSafe(v, d, disk1, index1, remote, Outcome({rename}, {}, {}))
    <2>1. rename.commit.kind # "conflictCopy"
      BY DEF PushRename, Push, CommitOf
    <2> HIDE DEF rename
    <2> QED
      BY <2>1, PushSafe
  <1>5. OutcomeSafe(v, d, disk1, index1, remote, target)
    BY <1>2, PlaceContentSafe
  <1>6. OutcomeSafe(v, d, disk1, index1, remote, source)
    <2> DEFINE delete   == PushDelete(index1, x.from, FALSE)
               head     == PullHead(remote, x.from)
               vanished == PullVanished(index1, x.from)
    <2>1. \/ source = Outcome({delete}, {}, {})
          \/ source = Outcome({}, {head}, {})
          \/ source = Outcome({}, {vanished}, {})
      BY DEF SourceOutcome
    <2>2. /\ delete.commit.kind # "conflictCopy"
          /\ head.path = x.from /\ head.from = NoPath
          /\ vanished.path = x.from /\ vanished.from = NoPath
      BY DEF PushDelete, Push, CommitOf, PullHead, PullVanished, Pull
    <2>3. MayReplace(v, d, disk1, index1, {}, x.from)
      BY <1>1 DEF MayReplace
    <2> HIDE DEF delete, head, vanished
    <2>4. OutcomeSafe(v, d, disk1, index1, remote, Outcome({delete}, {}, {}))
      BY <2>2, PushSafe
    <2>5. OutcomeSafe(v, d, disk1, index1, remote, Outcome({}, {head}, {}))
      BY <1>1, <2>2, <2>3, PullSafe
    <2>6. OutcomeSafe(v, d, disk1, index1, remote, Outcome({}, {vanished}, {}))
      BY <1>1, <2>2, <2>3, PullSafe
    <2> QED
      BY <2>1, <2>4, <2>5, <2>6
  <1> HIDE DEF rename, source, target
  <1> QED
    BY <1>3, <1>4, <1>5, <1>6

\* Phase B replaces nothing unsaved: it pulls over unchanged files only.
LEMMA MigrationSafe ==
  ASSUME NEW v, NEW index1 \in Indexes(v), NEW remote, RemoteOK(v, index1, remote),
         NEW d \in Device, NEW disk1 \in Disks,
         NEW o \in MigrationOutcomes(ScanVault(d, disk1, index1), index1, remote)
  PROVE  OutcomeSafe(v, d, disk1, index1, remote, o)
  <1> DEFINE scan  == ScanVault(d, disk1, index1)
             moves == RemoteRenames(scan, index1, remote)
             gone  == Migrated(scan, index1, remote)
             new   == Arrivals(scan, index1, remote)
  <1>1. moves \subseteq [from : gone, to : new]
    BY MigrationOutcomesOK
  <1>2. /\ gone \subseteq DOMAIN index1 /\ gone \cap LocalPaths(scan) = {}
        /\ new \subseteq DOMAIN remote /\ new \cap LocalPaths(scan) = {}
    BY DEF Migrated, Arrivals, LiveFiles
  <1>3. \/ \E x \in moves : o = Outcome({}, {Pull(x.to, x.from, remote[x.to])}, {})
        \/ \E p \in gone : o = Outcome({}, {PullVanished(index1, p)}, {})
    BY DEF MigrationOutcomes
  <1>4. \A p : p \notin LocalPaths(scan) => MayReplace(v, d, disk1, index1, {}, p)
    BY UntouchedSafe
  <1> HIDE DEF scan, moves, gone, new
  <1>5. CASE \E x \in moves : o = Outcome({}, {Pull(x.to, x.from, remote[x.to])}, {})
    <2>1. PICK x \in moves : o = Outcome({}, {Pull(x.to, x.from, remote[x.to])}, {})
      BY <1>5
    <2>2. x.from \in gone /\ x.to \in new
      BY <1>1
    <2>3. /\ MayReplace(v, d, disk1, index1, {}, x.to)
          /\ MayReplace(v, d, disk1, index1, {}, x.from)
      BY <1>2, <1>4, <2>2
    <2> QED
      BY <1>2, <2>1, <2>2, <2>3 DEF OutcomeSafe, Outcome, Pull
  <1>6. CASE \E p \in gone : o = Outcome({}, {PullVanished(index1, p)}, {})
    <2>1. PICK p \in gone : o = Outcome({}, {PullVanished(index1, p)}, {})
      BY <1>6
    <2> DEFINE x == PullVanished(index1, p)
    <2>2. x.path = p /\ x.from = NoPath
      BY DEF PullVanished, Pull
    <2>3. MayReplace(v, d, disk1, index1, {}, p)
      BY <1>2, <1>4
    <2>4. o = Outcome({}, {x}, {})
      BY <2>1
    <2> HIDE DEF x
    <2> QED
      BY <1>2, <2>2, <2>3, <2>4, PullSafe
  <1> QED
    BY <1>3, <1>5, <1>6

\* Phase C replaces nothing unsaved: it pulls over unchanged files only.
LEMMA RemoteSafe ==
  ASSUME NEW v, NEW index1 \in Indexes(v), NEW remote, RemoteOK(v, index1, remote),
         NEW d \in Device, NEW disk1 \in Disks,
         NEW o \in RemoteOutcomes(ScanVault(d, disk1, index1), index1, remote)
  PROVE  OutcomeSafe(v, d, disk1, index1, remote, o)
  <1> DEFINE scan == ScanVault(d, disk1, index1)
  <1>1. PICK p \in DOMAIN remote \ LocalPaths(scan) :
          o = Outcome({}, {PullHead(remote, p)}, {})
    BY DEF RemoteOutcomes
  <1>2. MayReplace(v, d, disk1, index1, {}, p)
    BY UntouchedSafe
  <1> DEFINE x == PullHead(remote, p)
  <1>3. x.path = p /\ x.from = NoPath /\ o = Outcome({}, {x}, {})
    BY <1>1 DEF PullHead, Pull
  <1> HIDE DEF x, scan
  <1> QED
    BY <1>1, <1>2, <1>3, PullSafe

\* Phase D replaces nothing unsaved: where two edits met, the loser is copied.
LEMMA LocalSafe ==
  ASSUME NEW v, NEW index1 \in Indexes(v), NEW remote, RemoteOK(v, index1, remote),
         NEW d \in Device, NEW disk1 \in Disks,
         NEW o \in LocalOutcomes(d, ScanVault(d, disk1, index1), disk1, index1, remote)
  PROVE  OutcomeSafe(v, d, disk1, index1, remote, o)
  <1> DEFINE scan == ScanVault(d, disk1, index1)
  <1>1. /\ scan.added \subseteq Kept(d, disk1) /\ scan.modified \subseteq Kept(d, disk1)
        /\ scan.deleted \subseteq Gone(d, disk1, index1)
        /\ \A p \in scan.folderDeletions : p \in DOMAIN index1 /\ index1[p].isFolder
    BY ScanFacts
  <1>2. \/ \E p \in scan.added \cup scan.modified :
             o = PlaceContent(d, index1, remote, p, disk1[p])
        \/ \E p \in scan.deleted : o = PlaceDelete(d, index1, remote, p, FALSE)
        \/ \E p \in scan.folderDeletions : o = PlaceDelete(d, index1, remote, p, TRUE)
    BY DEF LocalOutcomes
  <1> HIDE DEF scan
  <1>3. Kept(d, disk1) \subseteq FilesOn(disk1)
    BY DEF Kept
  <1>4. \A p \in Gone(d, disk1, index1) : p \in DOMAIN index1 /\ p \notin FilesOn(disk1)
    BY DEF Gone, Kept, LiveFiles
  <1>5. ASSUME NEW p \in scan.added \cup scan.modified
        PROVE  OutcomeSafe(v, d, disk1, index1, remote,
                           PlaceContent(d, index1, remote, p, disk1[p]))
    BY <1>1, <1>3, PlaceContentSafe
  <1>6. ASSUME NEW p \in scan.deleted
        PROVE  OutcomeSafe(v, d, disk1, index1, remote,
                           PlaceDelete(d, index1, remote, p, FALSE))
    BY <1>1, <1>4, PlaceDeleteSafe
  <1>7. ASSUME NEW p \in scan.folderDeletions
        PROVE  OutcomeSafe(v, d, disk1, index1, remote,
                           PlaceDelete(d, index1, remote, p, TRUE))
    BY <1>1, PlaceDeleteSafe
  <1> QED
    BY <1>2, <1>5, <1>6, <1>7

\* The same of a whole plan.
LEMMA PlanMayReplace ==
  ASSUME NEW v, NEW index1 \in Indexes(v), NEW remote, RemoteOK(v, index1, remote),
         NEW d \in Device, NEW disk1 \in Disks
  PROVE  LET plan == ComputeSyncPlan(d, ScanVault(d, disk1, index1), disk1, index1, remote)
         IN  /\ ~plan.thrown =>
                  \A x \in plan.pulls :
                    /\ x.path \in DOMAIN index1 \cup DOMAIN remote
                    /\ x.from \in DOMAIN index1 \cup {NoPath}
                    /\ MayReplace(v, d, disk1, index1, plan.pushes, x.path)
                    /\ MayReplace(v, d, disk1, index1, plan.pushes, x.from)
             /\ \A x \in plan.pushes :
                  x.commit.kind = "conflictCopy" =>
                    x.commit.path \notin DOMAIN index1 \cup DOMAIN remote \cup {NoPath}
  <1> DEFINE scan == ScanVault(d, disk1, index1)
             out  == PlanOutcomes(d, scan, disk1, index1, remote)
             plan == ComputeSyncPlan(d, scan, disk1, index1, remote)
             pushes == UNION {o.pushes : o \in out}
             named  == {x \in pushes : x.commit.path # NoPath}
  <1>1. \A o \in out : OutcomeSafe(v, d, disk1, index1, remote, o)
    <2> SUFFICES ASSUME NEW o \in out PROVE OutcomeSafe(v, d, disk1, index1, remote, o)
      OBVIOUS
    <2>1. CASE \E x \in scan.renamed : o \in RenameOutcomes(d, disk1, index1, remote, x)
      <3>1. PICK x \in scan.renamed : o \in RenameOutcomes(d, disk1, index1, remote, x)
        BY <2>1
      <3>2. x \in [from : Gone(d, disk1, index1), to : Added(d, disk1, index1)]
        BY <3>1, ScanFacts
      <3> QED
        BY <3>1, <3>2, RenameSafe
    <2>2. CASE o \in MigrationOutcomes(scan, index1, remote)
      BY <2>2, MigrationSafe
    <2>3. CASE o \in RemoteOutcomes(scan, index1, remote)
      BY <2>3, RemoteSafe
    <2>4. CASE o \in LocalOutcomes(d, scan, disk1, index1, remote)
      BY <2>4, LocalSafe
    <2> QED
      BY <2>1, <2>2, <2>3, <2>4 DEF PlanOutcomes
  <1>2. /\ plan.pushes = named /\ plan.thrown = (named # pushes)
        /\ plan.pulls = UNION {o.pulls : o \in out}
    BY DEF ComputeSyncPlan, PlanOutcomes
  <1> HIDE DEF out, plan, scan
  <1>3. ASSUME ~plan.thrown, NEW x \in plan.pulls
        PROVE  /\ x.path \in DOMAIN index1 \cup DOMAIN remote
               /\ x.from \in DOMAIN index1 \cup {NoPath}
               /\ MayReplace(v, d, disk1, index1, plan.pushes, x.path)
               /\ MayReplace(v, d, disk1, index1, plan.pushes, x.from)
    <2>1. PICK o \in out : x \in o.pulls
      BY <1>2
    <2>2. OutcomeSafe(v, d, disk1, index1, remote, o)
      BY <1>1
    <2>3. o.pushes \subseteq plan.pushes
      BY <1>2, <1>3
    <2> QED
      BY <2>1, <2>2, <2>3 DEF OutcomeSafe, MayReplace
  <1>4. ASSUME NEW x \in plan.pushes, x.commit.kind = "conflictCopy"
        PROVE  x.commit.path \notin DOMAIN index1 \cup DOMAIN remote \cup {NoPath}
    <2>1. PICK o \in out : x \in o.pushes
      BY <1>2
    <2>2. x.commit.path # NoPath
      BY <1>2
    <2> QED
      BY <1>1, <1>4, <2>1, <2>2 DEF OutcomeSafe
  <1> QED
    BY <1>3, <1>4 DEF plan, scan
-----------------------------------------------------------------------------
(* Every plan a client holds is safe *)

\* What a cycle merges has the local text in it, one text for each path.
LEMMA MergesHold ==
  ASSUME NEW d, NEW plan, NEW remote
  PROVE  LET merges == Merges(d, plan, remote)
         IN  /\ \A f \in MergedPaths(merges) :
                  /\ f \in DOMAIN index[d]
                  /\ \E m \in merges : m.path = f /\ disk[d][f] \in Included(m.hash)
             /\ \A m, n \in merges : m.path = n.path => m = n
  <1> DEFINE texts(p) == <<index[d][p].hash, disk[d][p], remote[p].hash>>
             S == {q \in plan.contested \cap Mergeable \cap LiveFiles(index[d]) :
                     texts(q) \in DOMAIN MergeText3}
             of(p) == [path |-> p, hash |-> MergeText3[texts(p)], parent |-> remote[p].version]
             merges == Merges(d, plan, remote)
  <1>1. merges = {of(p) : p \in S}
    BY DEF Merges
  <1>2. \A p \in S : of(p).path = p /\ of(p).hash = MergeText3[texts(p)]
    OBVIOUS
  <1>3. ASSUME NEW p \in S
        PROVE  p \in DOMAIN index[d] /\ disk[d][p] \in Included(MergeText3[texts(p)])
    <2> DEFINE t == texts(p)
               U == {u \in DOMAIN MergeText3 : MergeText3[u] = MergeText3[t]}
    <2>1. t \in U /\ t[2] = disk[d][p] /\ p \in DOMAIN index[d]
      BY DEF LiveFiles
    <2>2. t[2] \in {t[2], t[3]} /\ {t[2], t[3]} \in {{u[2], u[3]} : u \in U}
      BY <2>1
    <2>3. t[2] \in UNION {{u[2], u[3]} : u \in U}
      BY <2>2
    <2> QED
      BY <2>1, <2>3 DEF Included
  <1>4. \A m \in merges : \E p \in S : m = of(p) /\ m.path = p
    BY <1>1, <1>2
  <1> HIDE DEF S
  <1> HIDE DEF merges
  <1>5. ASSUME NEW f \in MergedPaths(merges)
        PROVE  f \in S
    <2>1. PICK m \in merges : m.path = f
      BY DEF MergedPaths
    <2> QED
      BY <1>4, <2>1
  <1>6. ASSUME NEW f \in S
        PROVE  \E m \in merges : m.path = f /\ disk[d][f] \in Included(m.hash)
    <2>1. of(f) \in merges
      BY <1>1
    <2> QED
      BY <1>2, <1>3, <2>1
  <1>7. \A f \in MergedPaths(merges) :
          /\ f \in DOMAIN index[d]
          /\ \E m \in merges : m.path = f /\ disk[d][f] \in Included(m.hash)
    BY <1>3, <1>5, <1>6
  <1>8. ASSUME NEW m \in merges, NEW n \in merges, m.path = n.path PROVE m = n
    <2>1. PICK p \in S : m = of(p) /\ m.path = p
      BY <1>4
    <2>2. PICK q \in S : n = of(q) /\ n.path = q
      BY <1>4
    <2>3. p = q
      BY <1>8, <2>1, <2>2
    <2> QED
      BY <2>1, <2>2, <2>3
  <1> QED
    BY <1>7, <1>8 DEF merges

\* The pushes of a plan, but for those of merged paths, are the client's.
LEMMA MergedPushesFacts ==
  ASSUME NEW X, NEW pushes \in SUBSET X, IsFiniteSet(pushes), NEW order \in PushOrders(pushes),
         NEW merges
  PROVE  LET s == MergedPushes(merges, order)
         IN  /\ \A i \in DOMAIN s : s[i] \in pushes
             /\ \A y \in pushes :
                  {y.commit.path, y.source} \cap MergedPaths(merges) = {} =>
                    \E i \in DOMAIN s : s[i] = y
  <1> DEFINE at == {i \in DOMAIN order :
                      {order[i].commit.path, order[i].source} \cap MergedPaths(merges) = {}}
             s == MergedPushes(merges, order)
  <1>1. order \in Seq(pushes) /\ \A y \in pushes : \E j \in DOMAIN order : order[j] = y
    <2>1. order \in Listings(pushes)
      BY DEF PushOrders
    <2> QED
      BY <2>1, ListingsFacts DEF Listings
  <1>2. at \subseteq DOMAIN order /\ s = Picked(order, at)
    BY DEF MergedPushes
  <1>3. ASSUME NEW y \in pushes,
               {y.commit.path, y.source} \cap MergedPaths(merges) = {}
        PROVE  \E i \in DOMAIN s : s[i] = y
    <2>1. PICK j \in DOMAIN order : order[j] = y
      BY <1>1
    <2>2. j \in at
      BY <1>3, <2>1
    <2> HIDE DEF at, s
    <2> QED
      BY <1>1, <1>2, <2>1, <2>2, PickedOnto
  <1> HIDE DEF at, s
  <1>4. \A i \in DOMAIN s : s[i] \in pushes
    <2>1. s \in Seq(pushes)
      BY <1>1, <1>2, PickedFacts
    <2> QED
      BY <2>1, SeqElim
  <1> QED
    BY <1>3, <1>4 DEF s

\* A cycle comes out of its scan, its manifest and its merges with a safe plan.
LEMMA BeginCycleSafe ==
  ASSUME SyncInv, NEW d \in Device, BeginCycle(d)
  PROVE  PlanSafe(d)'
  <1> DEFINE remote == FetchManifest(d)
             scan   == ScanVault(d, disk[d], index[d])
             plan   == ComputeSyncPlan(d, scan, disk[d], index[d], remote)
             merges == Merges(d, plan, remote)
             K      == MergedPaths(merges)
  <1>1. PICK order \in PushOrders(plan.pushes) :
          IF plan.thrown
          THEN Become(d, "pushing", [job[d] EXCEPT !.tidied = TRUE, !.failed = TRUE])
          ELSE Become(d, "planned",
                 Job(MergedPulls(merges, plan.pulls, remote), merges,
                     MergedPushes(merges, order), plan.folders,
                     scan.staleDirs, seq, job[d].starting))
    BY DEF BeginCycle
  <1>2. /\ ClientsOK(versions, seq) /\ seq \in Nat
        /\ disk' = disk /\ index' = index /\ versions' = versions
    BY DEF BeginCycle, SyncInv, RoomOK, TypeOK, room, vars, tables, local
  <1>3. disk[d] \in Disks /\ index[d] \in Indexes(versions)
    BY <1>2, ClientOK
  <1>4. RemoteOK(versions, index[d], remote)
    BY <1>3, FetchOK DEF SyncInv
  <1>5. plan.pushes \subseteq PushSet(versions) /\ IsFiniteSet(plan.pushes)
    BY <1>3, <1>4, PlanOK
  <1>6. /\ ~plan.thrown =>
             \A x \in plan.pulls :
               /\ x.path \in DOMAIN index[d] \cup DOMAIN remote
               /\ x.from \in DOMAIN index[d] \cup {NoPath}
               /\ MayReplace(versions, d, disk[d], index[d], plan.pushes, x.path)
               /\ MayReplace(versions, d, disk[d], index[d], plan.pushes, x.from)
        /\ \A x \in plan.pushes :
             x.commit.kind = "conflictCopy" =>
               x.commit.path \notin DOMAIN index[d] \cup DOMAIN remote \cup {NoPath}
    BY <1>3, <1>4, PlanMayReplace
  <1> HIDE DEF plan, scan, remote
  <1>7. /\ \A f \in K : f \in DOMAIN index[d] /\
             \E m \in merges : m.path = f /\ disk[d][f] \in Included(m.hash)
        /\ \A m, n \in merges : m.path = n.path => m = n
    BY MergesHold
  <1> HIDE DEF merges
  <1>8. CASE plan.thrown
    <2>1. phase' = [phase EXCEPT ![d] = "pushing"]
      BY <1>1, <1>8 DEF Become
    <2>2. phase'[d] = "pushing"
      BY <1>2, <2>1 DEF ClientsOK
    <2> QED
      BY <2>2 DEF PlanSafe
  <1>9. CASE ~plan.thrown
    <2> DEFINE pushes == MergedPushes(merges, order)
               pulls  == MergedPulls(merges, plan.pulls, remote)
    <2>1. /\ phase'[d] = "planned" /\ job'[d].pulls = pulls /\ job'[d].merges = merges
          /\ job'[d].pushes = pushes
      <3>1. /\ phase' = [phase EXCEPT ![d] = "planned"]
            /\ job' = [job EXCEPT ![d] = Job(pulls, merges, pushes, plan.folders,
                                             scan.staleDirs, seq, job[d].starting)]
        BY <1>1, <1>9 DEF Become
      <3> HIDE DEF pushes, pulls
      <3> QED
        BY <1>2, <3>1 DEF Job, ClientsOK
    <2>2. /\ \A i \in DOMAIN pushes : pushes[i] \in plan.pushes
          /\ \A y \in plan.pushes :
               {y.commit.path, y.source} \cap K = {} => \E i \in DOMAIN pushes : pushes[i] = y
      <3>1. plan.pushes \in SUBSET PushSet(versions)
        BY <1>5
      <3> QED
        BY <1>5, <3>1, MergedPushesFacts
    <2> HIDE DEF pushes
    <2>3. \A x \in Copies(d)' : x \in plan.pushes /\ x.commit.kind = "conflictCopy"
      BY <2>1, <2>2 DEF Copies
    <2>4. \A y \in plan.pushes :
            y.commit.kind = "conflictCopy" /\ {y.commit.path, y.source} \cap K = {}
              => y \in Copies(d)'
      BY <2>1, <2>2 DEF Copies
    <2>5. /\ \A f \in Replaced(d)' :
               \/ f \in K \cup {NoPath}
               \/ \E x \in plan.pulls : f = x.path \/ f = x.from
          /\ K \subseteq Replaced(d)'
      <3>1. pulls = plan.pulls \cup {PullHead(remote, p) : p \in K}
        BY DEF MergedPulls
      <3>2. \A p \in K : PullHead(remote, p).path = p /\ PullHead(remote, p).from = NoPath
        BY DEF PullHead, Pull
      <3>3. Replaced(d)' = {x.path : x \in pulls} \cup {x.from : x \in pulls}
        BY <2>1 DEF Replaced
      <3> HIDE DEF pulls, K
      <3>4. \A x \in pulls : x \in plan.pulls \/ \E p \in K : x.path = p /\ x.from = NoPath
        BY <3>1, <3>2
      <3>5. \A p \in K : \E x \in pulls : x.path = p
        BY <3>1, <3>2
      <3> QED
        BY <3>3, <3>4, <3>5
    <2>6. ASSUME NEW f \in Replaced(d)' \cap FilesOn(disk[d])
          PROVE  SafeAt(d, f)'
      <3>1. f # NoPath
        BY <1>3, DiskElim, PathAssumption DEF FilesOn
      <3>2. CASE f \in K
        BY <1>2, <1>7, <2>1, <3>2 DEF SafeAt
      <3>3. CASE f \notin K
        <4>1. MayReplace(versions, d, disk[d], index[d], plan.pushes, f)
          BY <1>6, <1>9, <2>5, <3>1, <3>3
        <4>2. CASE \E y \in plan.pushes :
                     /\ y.commit.kind = "conflictCopy"
                     /\ y.source = f /\ y.commit.hash = disk[d][f]
          <5>1. PICK y \in plan.pushes : /\ y.commit.kind = "conflictCopy"
                                         /\ y.source = f /\ y.commit.hash = disk[d][f]
            BY <4>2
          <5>2. y.commit.path \notin K
            BY <1>6, <1>7, <5>1
          <5>3. y \in Copies(d)'
            BY <2>4, <3>3, <5>1, <5>2
          <5> QED
            BY <1>2, <2>1, <5>1, <5>3 DEF SafeAt
        <4> QED
          BY <1>2, <2>1, <4>1, <4>2 DEF MayReplace, SafeAt
      <3> QED
        BY <3>2, <3>3
    <2>7. \A x \in Copies(d)' : x.commit.path \notin Replaced(d)'
      <3> SUFFICES ASSUME NEW x \in Copies(d)', x.commit.path \in Replaced(d)' PROVE FALSE
        OBVIOUS
      <3>1. x.commit.path \notin DOMAIN index[d] \cup DOMAIN remote \cup {NoPath}
        BY <1>6, <2>3
      <3> QED
        BY <1>6, <1>7, <1>9, <2>5, <3>1
    <2>8. \A m \in merges : m.path \in Replaced(d)'
      BY <2>5 DEF MergedPaths
    <2> QED
      BY <1>2, <1>7, <2>1, <2>6, <2>7, <2>8 DEF PlanSafe
  <1> QED
    BY <1>8, <1>9

\* A change that is safe to apply replaces nothing that the room does not have.
LEMMA ReceiveChangeSafe ==
  ASSUME SyncInv, NEW d \in Device, ReceiveChange(d)
  PROVE  PlanSafe(d)'
  <1> DEFINE m == Head(inbox[d])
             x == Pull(m.change.path, m.change.from, EntryOf(m.change))
             what == [job[d] EXCEPT !.pulls = {x}, !.cursor = m.seq]
  <1>1. /\ ClientsOK(versions, seq) /\ seq \in Nat
        /\ disk' = disk /\ index' = index /\ versions' = versions
    BY DEF ReceiveChange, SyncInv, RoomOK, TypeOK, room, vars, tables, local
  <1>2. disk[d] \in Disks /\ index[d] \in Indexes(versions) /\ job[d] \in JobSet(versions, seq)
    BY <1>1, ClientOK
  <1>3. CASE UNCHANGED <<phase, job>>
    BY <1>3 DEF ReceiveChange, PlanSafe
  <1>4. CASE ChangeIsSafe(d, m.change) /\ Become(d, "fetching", what)
    <2>1. phase'[d] = "fetching" /\ job'[d] = what
      BY <1>1, <1>4 DEF Become, ClientsOK
    <2>2. what.pulls = {x}
      BY <1>2 DEF JobSet
    <2>3. /\ x.path = m.change.path /\ x.from = m.change.from
          /\ x.head.isFolder = m.change.isFolder
      BY DEF Pull, EntryOf
    <2>4. Replaced(d)' = {m.change.path, m.change.from}
      <3>1. job'[d].pulls = {x}
        BY <2>1, <2>2
      <3>2. Replaced(d)' = {y.path : y \in {x}} \cup {y.from : y \in {x}}
        BY <3>1 DEF Replaced
      <3> HIDE DEF x
      <3> QED
        BY <2>3, <3>2
    <2> HIDE DEF what
    <2>5. ASSUME NEW f \in DOMAIN index[d], ~index[d][f].deleted, index[d][f].hash = disk[d][f]
          PROVE  Holds(versions, disk[d][f])
      <3>1. HeadOK(versions, f, index[d][f])
        BY <1>2, IndexElim
      <3> QED
        BY <2>5, <3>1 DEF HeadOK, KnownHead, Holds
    <2>6. ASSUME NEW f \in Replaced(d)' \cap FilesOn(disk[d])
          PROVE  SafeAt(d, f)'
      <3>1. f \in DOMAIN disk[d] /\ f # NoPath
        BY <1>2, DiskElim, PathAssumption DEF FilesOn
      <3>2. CASE m.change.isFolder
        BY <1>1, <2>1, <2>2, <2>3, <3>2 DEF SafeAt
      <3>3. CASE ~m.change.isFolder
        <4>1. f = m.change.path \/ f = m.change.from
          BY <2>4
        <4>2. \/ f \in DOMAIN index[d] /\ index[d][f].isFolder
              \/ f \in DOMAIN index[d] /\ ~index[d][f].deleted
                   /\ index[d][f].hash = disk[d][f]
          BY <1>4, <3>1, <3>3, <4>1 DEF ChangeIsSafe, Diverges
        <4> QED
          BY <1>1, <2>5, <4>2 DEF SafeAt
      <3> QED
        BY <3>2, <3>3
    <2> QED
      BY <1>1, <2>1, <2>6 DEF PlanSafe
  <1> QED
    BY <1>3, <1>4 DEF ReceiveChange

\* What a client holds and what its plan is about stay as they are.
Stands(d) ==
  /\ phase'[d] = phase[d] /\ job'[d] = job[d]
  /\ disk'[d] = disk[d] /\ index'[d] = index[d]

\* A plan stays safe while the history grows and its device stands still.
LEMMA StandingPlanSafe ==
  ASSUME NEW d \in Device, PlanSafe(d), Stands(d), Extends(versions, versions')
  PROVE  PlanSafe(d)'
  <1>1. Copies(d)' = Copies(d) /\ Replaced(d)' = Replaced(d)
    BY DEF Stands, Copies, Replaced
  <1>2. \A h : Holds(versions, h) => Holds(versions', h)
    BY DEF Extends, Holds
  <1>3. \A f : SafeAt(d, f) => SafeAt(d, f)'
    BY <1>1, <1>2 DEF Stands, SafeAt
  <1> QED
    BY <1>1, <1>3 DEF Stands, PlanSafe

\* While no user writes within a plan, a client that holds one at the end of a
\* step has just made it or has stood still.
LEMMA PlansStand ==
  ASSUME ~EditsInWindow, ClientsOK(versions, seq), SyncNext,
         NEW d \in Device, phase'[d] \in {"fetching", "planned"}
  PROVE  BeginCycle(d) \/ ReceiveChange(d) \/ Stands(d)
  <1>1. CASE UserStep
    <2>1. PICK e \in Device : \E after : UserWrites(e, after)
      BY <1>1 DEF UserStep, UserEdit, UserDelete, UserMove, UserMakeDir, UserRemoveDir
    <2>2. PICK after : UserWrites(e, after)
      BY <2>1
    <2> QED
      BY <2>2 DEF UserWrites, Stands, ClientsOK
  <1>2. CASE FaultStep
    <2>1. PICK e \in Device : \/ Disconnect(e) \/ Crash(e) \/ CrashInPulls(e) \/ LoseState(e)
                              \/ ChangeFails(e) \/ PullFails(e)
      BY <1>2 DEF FaultStep
    <2>2. CASE Disconnect(e)
      BY <2>2 DEF Disconnect, HangUp, Become, Stands, ClientsOK
    <2>3. CASE Crash(e)
      BY <2>3 DEF Crash, HangUp, Become, Stands, ClientsOK
    <2>4. CASE CrashInPulls(e)
      <3>1. e # d => disk'[d] = disk[d]
        BY <2>4 DEF CrashInPulls, ClientsOK
      <3> QED
        BY <2>4, <3>1 DEF CrashInPulls, HangUp, Become, Stands, ClientsOK
    <2>5. CASE LoseState(e)
      BY <2>5 DEF LoseState, state, Stands, ClientsOK
    <2>6. CASE ChangeFails(e)
      BY <2>6 DEF ChangeFails, HangUp, Rest, Become, Stands, ClientsOK
    <2>7. CASE PullFails(e)
      <3>1. e # d => disk'[d] = disk[d] /\ index'[d] = index[d]
        BY <2>7 DEF PullFails, ClientsOK
      <3> QED
        BY <2>7, <3>1 DEF PullFails, HangUp, Become, Stands, ClientsOK
    <2> QED
      BY <2>1, <2>2, <2>3, <2>4, <2>5, <2>6, <2>7
  <1>3. ASSUME NEW e \in Device, ClientStep(e)
        PROVE  BeginCycle(d) \/ ReceiveChange(d) \/ Stands(d)
    <2>1. CASE Connect(e)
      BY <2>1 DEF Connect, Become, Stands, ClientsOK
    <2>2. CASE ReceiveChange(e)
      BY <2>2 DEF ReceiveChange, Become, Stands, ClientsOK
    <2>3. CASE ApplyChange(e)
      <3>1. e # d => disk'[d] = disk[d] /\ index'[d] = index[d]
        BY <2>3 DEF ApplyChange, ClientsOK
      <3> QED
        BY <2>3, <3>1 DEF ApplyChange, Rest, Become, Stands, ClientsOK
    <2>4. CASE BeginCycle(e)
      <3>1. e # d => phase'[d] = phase[d] /\ job'[d] = job[d]
        BY <2>4 DEF BeginCycle, Become, ClientsOK
      <3> QED
        BY <2>4, <3>1 DEF BeginCycle, Stands
    <2>5. CASE ExecutePlan(e)
      <3>1. e # d => disk'[d] = disk[d] /\ index'[d] = index[d] /\ job'[d] = job[d]
        BY <2>5 DEF ExecutePlan, Become, ClientsOK
      <3>2. phase' = [phase EXCEPT ![e] = "pushing"]
        BY <2>5 DEF ExecutePlan, Become
      <3> QED
        BY <3>1, <3>2 DEF Stands, ClientsOK
    <2>6. CASE PushCommit(e)
      <3>1. e # d => disk'[d] = disk[d] /\ index'[d] = index[d] /\ job'[d] = job[d]
        BY <2>6 DEF PushCommit, FoldReply, Settle, ClientsOK
      <3>2. phase' = phase /\ phase[e] = "pushing"
        BY <2>6 DEF PushCommit
      <3> QED
        BY <3>1, <3>2 DEF Stands
    <2>7. CASE PushCollides(e)
      BY <2>7 DEF PushCollides, Settle, local, Stands, ClientsOK
    <2>8. CASE PushRefused(e)
      <3>1. e # d => job'[d] = job[d]
        BY <2>8 DEF PushRefused, ClientsOK
      <3> QED
        BY <2>8, <3>1 DEF PushRefused, local, Stands
    <2>9. CASE TidyFolders(e)
      <3>1. e # d => disk'[d] = disk[d] /\ job'[d] = job[d]
        BY <2>9 DEF TidyFolders, ClientsOK
      <3> QED
        BY <2>9, <3>1 DEF TidyFolders, Stands
    <2>10. CASE EndCycle(e)
      BY <2>10 DEF EndCycle, Become, Stands, ClientsOK
    <2>11. CASE FailCycle(e)
      BY <2>11 DEF FailCycle, HangUp, Become, Stands, ClientsOK
    <2> QED
      BY <1>3, <2>1, <2>2, <2>3, <2>4, <2>5, <2>6, <2>7, <2>8, <2>9, <2>10, <2>11
         DEF ClientStep
  <1>4. CASE \/ \E e \in Device : LateCommit(e)
             \/ EventsPrune /\ UNCHANGED <<local, state, net, counts>>
    BY <1>4 DEF LateCommit, local, state, Stands
  <1> QED
    BY <1>1, <1>2, <1>3, <1>4 DEF SyncNext

\* No step of the system makes a plan unsafe.
LEMMA SafePlansStep ==
  ASSUME ~EditsInWindow, SyncInv, SafePlans, [SyncNext]_all
  PROVE  SafePlans'
  <1> SUFFICES ASSUME NEW d \in Device PROVE PlanSafe(d)'
    BY DEF SafePlans
  <1>1. CASE UNCHANGED all
    BY <1>1, StandingPlanSafe DEF SafePlans, Stands, Extends, all, room, vars, tables, local, state
  <1>2. CASE SyncNext
    <2>1. Extends(versions, versions') /\ ClientsOK(versions, seq)
      BY <1>2, StepGrows DEF Grows, SyncInv
    <2>2. CASE phase'[d] \in {"fetching", "planned"}
      BY <1>2, <2>1, <2>2, PlansStand, BeginCycleSafe, ReceiveChangeSafe, StandingPlanSafe
         DEF SafePlans
    <2>3. CASE phase'[d] \notin {"fetching", "planned"}
      BY <2>3 DEF PlanSafe
    <2> QED
      BY <2>2, <2>3
  <1> QED
    BY <1>1, <1>2

\* Whatever a client is about to pull, it has made sure of what that replaces,
\* or one of the five mishaps is due.
THEOREM PlansAreSafe ==
  ASSUME ~EditsInWindow
  PROVE  SyncSpec => []SafePlans
  <1>1. SyncInit => SafePlans
    BY DEF SyncInit, SafePlans, PlanSafe
  <1>2. SyncInv /\ SafePlans /\ [SyncNext]_all => SafePlans'
    BY SafePlansStep
  <1> QED
    BY <1>1, <1>2, SyncInvariant, PTL DEF SyncSpec
-----------------------------------------------------------------------------
(* What a step leaves on the disks *)

\* A content of d's disk stays on it, goes into a merge there, or is in the
\* room's history.
Lossless(d) ==
  \A f \in FilesOn(disk[d]) :
    \/ Holds(versions', disk[d][f])
    \/ \E g \in FilesOn(disk'[d]) : disk[d][f] \in Included(disk'[d][g])

\* A step that keeps all files loses nothing.
LEMMA KeepsIsLossless ==
  ASSUME NEW d, Keeps(disk[d], {}, disk'[d])
  PROVE  Lossless(d)
  <1> SUFFICES ASSUME NEW f \in FilesOn(disk[d])
               PROVE  \E g \in FilesOn(disk'[d]) : disk[d][f] \in Included(disk'[d][g])
    BY DEF Lossless
  <1>1. f \in DOMAIN disk'[d] /\ disk'[d][f] = disk[d][f]
    BY DEF Keeps
  <1>2. f \in FilesOn(disk'[d])
    BY <1>1 DEF FilesOn
  <1>3. disk[d][f] \in Included(disk'[d][f])
    BY <1>1 DEF Included
  <1> QED
    BY <1>2, <1>3

\* No conflict copy is written over another content.
CopiesFree(d) ==
  \A x \in Copies(d) :
    /\ x.commit.path \in FilesOn(disk[d]) => disk[d][x.commit.path] = x.commit.hash
    /\ \A y \in Copies(d) : y.commit.path = x.commit.path => y.commit.hash = x.commit.hash

\* Before the first pull every file is where it was, and every conflict copy
\* that can still be made is written.
LEMMA CopiesStand ==
  ASSUME NEW v, NEW d, job[d].pushes \in Seq(PushSet(v)), CopiesFree(d)
  PROVE  LET a == WithCopies(d, Staged(d))
         IN  /\ Keeps(disk[d], {}, a)
             /\ \A x \in Copies(d) : IsStageable(d, x) =>
                  x.commit.path \in DOMAIN a /\ a[x.commit.path] = x.commit.hash
  <1> DEFINE s  == Staged(d)
             at == {i \in DOMAIN job[d].pushes : IsStageable(d, job[d].pushes[i])}
             writes == {s[i].commit : i \in
                          {j \in DOMAIN s : s[j].commit.kind = "conflictCopy"}}
             a == WithCopies(d, s)
  <1>1. s = Picked(job[d].pushes, at) /\ at \subseteq DOMAIN job[d].pushes
    BY DEF Staged
  <1>2. a = WriteAll(disk[d], writes)
    BY DEF WithCopies
  <1>3. ASSUME NEW w \in writes
        PROVE  \E x \in Copies(d) : w = x.commit
    <2>1. PICK i \in DOMAIN s : s[i].commit.kind = "conflictCopy" /\ w = s[i].commit
      OBVIOUS
    <2> HIDE DEF s, at
    <2>2. PICK j \in at : s[i] = job[d].pushes[j]
      BY <1>1, <2>1, PickedFacts
    <2>3. job[d].pushes[j] \in Copies(d)
      BY <1>1, <2>1, <2>2 DEF Copies
    <2> QED
      BY <2>1, <2>2, <2>3
  <1>4. ASSUME NEW x \in Copies(d), IsStageable(d, x)
        PROVE  x.commit \in writes
    <2>1. PICK j \in DOMAIN job[d].pushes : /\ job[d].pushes[j].commit.kind = "conflictCopy"
                                            /\ x = job[d].pushes[j]
      BY DEF Copies
    <2>2. j \in at
      BY <1>4, <2>1
    <2>3. PICK i \in DOMAIN s : s[i] = x
      <3> HIDE DEF s, at
      <3> QED
        BY <1>1, <2>1, <2>2, PickedOnto
    <2> QED
      BY <2>1, <2>3
  <1> HIDE DEF writes, a, s, at
  <1>5. /\ \A q \in DOMAIN disk[d] :
             (\A w \in writes : w.path # q) => q \in DOMAIN a /\ a[q] = disk[d][q]
        /\ \A w \in writes :
             /\ w.path \in DOMAIN a
             /\ \E u \in writes : u.path = w.path /\ a[w.path] = u.hash
    BY <1>2, WriteAllFacts
  <1>6. ASSUME NEW f \in FilesOn(disk[d])
        PROVE  f \in DOMAIN a /\ a[f] = disk[d][f]
    <2>1. CASE \E w \in writes : w.path = f
      <3>1. PICK w \in writes : w.path = f
        BY <2>1
      <3>2. PICK u \in writes : u.path = f /\ a[f] = u.hash
        BY <1>5, <3>1
      <3>3. PICK x \in Copies(d) : u = x.commit
        BY <1>3
      <3> QED
        BY <1>5, <3>1, <3>2, <3>3 DEF CopiesFree
    <2>2. CASE \A w \in writes : w.path # f
      BY <1>5, <2>2 DEF FilesOn
    <2> QED
      BY <2>1, <2>2
  <1>7. ASSUME NEW x \in Copies(d), IsStageable(d, x)
        PROVE  x.commit.path \in DOMAIN a /\ a[x.commit.path] = x.commit.hash
    <2>1. x.commit \in writes
      BY <1>4, <1>7
    <2>2. PICK u \in writes : u.path = x.commit.path /\ a[x.commit.path] = u.hash
      BY <1>5, <2>1
    <2>3. PICK y \in Copies(d) : u = y.commit
      BY <1>3
    <2> QED
      BY <1>5, <2>1, <2>2, <2>3 DEF CopiesFree
  <1> QED
    BY <1>6, <1>7 DEF Keeps, a, s

\* A plan takes a content from the disk only if the room has it, as long as its
\* pulls, however far they got, end with its merges (if there are any).
LEMMA PlanKeeps ==
  ASSUME NEW v, NEW n \in Nat, ClientsOK(v, n), NEW d \in Device,
         phase[d] = "planned", PlanSafe(d), CopiesFree(d),
         \A f \in Replaced(d) \cap FilesOn(disk[d]) :
           f \notin Ignored[d] /\ ~(f \in DOMAIN index[d] /\ index[d][f].isFolder),
         NEW order \in PullOrders(job[d].pulls), NEW k \in 0..Len(order),
         NEW b,
         LET pulled == AfterPulls(Local(WithCopies(d, Staged(d)), index[d]), order, k)
         IN  /\ \A q \in DOMAIN pulled.disk :
                  (\A m \in job[d].merges : m.path # q) =>
                    q \in DOMAIN b /\ b[q] = pulled.disk[q]
             /\ \A m \in job[d].merges : m.path \in DOMAIN b /\ b[m.path] = m.hash
  PROVE  \A f \in FilesOn(disk[d]) :
           \/ Holds(versions, disk[d][f])
           \/ \E g \in FilesOn(b) : disk[d][f] \in Included(b[g])
  <1> DEFINE a == WithCopies(d, Staged(d))
             pulled == AfterPulls(Local(a, index[d]), order, k)
             merges == job[d].merges
             F == Replaced(d)
  <1>1. /\ disk[d] \in Disks /\ index[d] \in Indexes(v) /\ job[d] \in JobSet(v, n)
        /\ job[d].pushes \in Seq(PushSet(v))
    BY ClientOK DEF PushesIn
  <1>2. /\ Keeps(disk[d], {}, a)
        /\ \A x \in Copies(d) : IsStageable(d, x) =>
             x.commit.path \in DOMAIN a /\ a[x.commit.path] = x.commit.hash
    BY <1>1, CopiesStand
  <1>3. order \in Seq(PullSet(v)) /\ \A i \in DOMAIN order : order[i] \in job[d].pulls
    <2>1. job[d].pulls \subseteq PullSet(v) /\ IsFiniteSet(job[d].pulls)
      BY <1>1 DEF JobSet
    <2>2. order \in Seq(job[d].pulls)
      BY <2>1, ListingsFacts DEF PullOrders
    <2>3. order \in Seq(PullSet(v))
      BY <2>1, <2>2, MapWidens
    <2> QED
      BY <2>2, <2>3, SeqElim
  <1>4. Local(a, index[d]) \in Locals(v) /\ Local(a, index[d]).disk = a
    <2>1. a \in Disks
      BY <1>1, WithCopiesOK
    <2> QED
      BY <1>1, <2>1, LocalOK DEF Local
  <1>5. Keeps(a, F, pulled.disk)
    <2>1. \A i \in DOMAIN order : {order[i].path, order[i].from} \subseteq F
      BY <1>3 DEF Replaced
    <2> HIDE DEF F
    <2>2. Keeps(Local(a, index[d]).disk, F, pulled.disk)
      BY <1>3, <1>4, <2>1, PullsKeep
    <2> QED
      BY <1>4, <2>2
  <1> HIDE DEF a, pulled
  <1>6. /\ \A q \in DOMAIN pulled.disk :
             (\A m \in merges : m.path # q) => q \in DOMAIN b /\ b[q] = pulled.disk[q]
        /\ \A m \in merges : m.path \in DOMAIN b /\ b[m.path] = m.hash
    BY DEF pulled, a
  <1>7. /\ \A f \in F \cap FilesOn(disk[d]) : SafeAt(d, f)
        /\ \A x \in Copies(d) : x.commit.path \notin F
        /\ \A m \in merges : m.path \in F
    BY DEF PlanSafe
  <1>8. \A m \in merges : m.hash # NoHash
    BY <1>1, HashAssumption DEF JobSet, MergeSet
  <1>9. ASSUME NEW q \in DOMAIN a, q \notin F, a[q] # NoHash
        PROVE  q \in FilesOn(b) /\ b[q] = a[q]
    <2>1. q \in DOMAIN pulled.disk /\ pulled.disk[q] = a[q]
      BY <1>5, <1>9 DEF Keeps, FilesOn
    <2> QED
      BY <1>6, <1>7, <1>9, <2>1 DEF FilesOn
  <1> SUFFICES ASSUME NEW f \in FilesOn(disk[d]), ~Holds(versions, disk[d][f])
               PROVE  \E g \in FilesOn(b) : disk[d][f] \in Included(b[g])
    OBVIOUS
  <1>10. disk[d][f] # NoHash
    BY DEF FilesOn
  <1>11. \A h : h \in Included(h)
    BY DEF Included
  <1>12. CASE f \notin F
    <2>1. f \in DOMAIN a /\ a[f] = disk[d][f]
      BY <1>2 DEF Keeps
    <2>2. f \in FilesOn(b) /\ b[f] = disk[d][f]
      BY <1>9, <1>10, <1>12, <2>1
    <2> QED
      BY <1>11, <2>2
  <1>13. CASE f \in F
    <2>1. SafeAt(d, f)
      BY <1>7, <1>13
    <2>2. \/ \E x \in Copies(d) : x.source = f /\ x.commit.hash = disk[d][f]
          \/ \E m \in merges : m.path = f /\ disk[d][f] \in Included(m.hash)
      BY <1>13, <2>1 DEF SafeAt
    <2>3. CASE \E x \in Copies(d) : x.source = f /\ x.commit.hash = disk[d][f]
      <3>1. PICK x \in Copies(d) : x.source = f /\ x.commit.hash = disk[d][f]
        BY <2>3
      <3>2. IsStageable(d, x)
        BY <3>1 DEF IsStageable, FilesOn
      <3>3. x.commit.path \in DOMAIN a /\ a[x.commit.path] = disk[d][f]
        BY <1>2, <3>1, <3>2
      <3>4. x.commit.path \in FilesOn(b) /\ b[x.commit.path] = disk[d][f]
        BY <1>7, <1>9, <1>10, <3>3
      <3> QED
        BY <1>11, <3>4
    <2>4. CASE \E m \in merges : m.path = f /\ disk[d][f] \in Included(m.hash)
      <3>1. PICK m \in merges : m.path = f /\ disk[d][f] \in Included(m.hash)
        BY <2>4
      <3>2. f \in FilesOn(b) /\ b[f] = m.hash
        BY <1>6, <1>8, <3>1 DEF FilesOn
      <3> QED
        BY <3>1, <3>2
    <2> QED
      BY <2>2, <2>3, <2>4
  <1> QED
    BY <1>12, <1>13
\* A step that leaves the disk alone loses nothing.
LEMMA SameDiskIsLossless ==
  ASSUME NEW d, disk'[d] = disk[d]
  PROVE  Lossless(d)
  <1>1. Keeps(disk[d], {}, disk'[d])
    BY DEF Keeps, FilesOn
  <1> QED
    BY <1>1, KeepsIsLossless

\* Where a plan's pulls replace files, none of the mishaps was due.
LEMMA NoMishap ==
  ASSUME ~Mishap, NEW d \in Device, DiskChanges(d), phase[d] = "planned"
  PROVE  /\ CopiesFree(d)
         /\ \A f \in Replaced(d) \cap FilesOn(disk[d]) :
              f \notin Ignored[d] /\ ~(f \in DOMAIN index[d] /\ index[d][f].isFolder)
         /\ phase'[d] # "pushing" => job[d].merges = {}
  <1>1. ~KindsClash(d) /\ ~IgnoredPulled(d) /\ ~CopyOverFile(d) /\ ~MergeCutShort(d)
    BY DEF Mishap
  <1> QED
    BY <1>1 DEF KindsClash, IgnoredPulled, CopyOverFile, MergeCutShort, CopiesFree

\* A pushed change replaces only what is kept.
LEMMA ApplyChangeLossless ==
  ASSUME SyncInv, SafePlans, ~Mishap, NEW d \in Device, ApplyChange(d)
  PROVE  Lossless(d)
  <1>1. /\ ClientsOK(versions, seq) /\ seq \in Nat /\ versions' = versions
        /\ phase[d] = "fetching" /\ PlanSafe(d)
    BY DEF ApplyChange, SyncInv, RoomOK, TypeOK, SafePlans, room, vars, tables
  <1>2. disk[d] \in Disks /\ index[d] \in Indexes(versions) /\ job[d] \in JobSet(versions, seq)
    BY <1>1, ClientOK
  <1> DEFINE x == Local(disk[d], index[d])
  <1>3. PICK pull \in job[d].pulls :
          disk' = [disk EXCEPT ![d] = ApplyOnePull(x, pull).disk]
    BY DEF ApplyChange
  <1>4. disk'[d] = ApplyOnePull(x, pull).disk
    BY <1>1, <1>3 DEF ClientsOK
  <1>5. x \in Locals(versions) /\ x.disk = disk[d] /\ pull \in PullSet(versions)
    BY <1>2, LocalOK DEF JobSet, Local
  <1>6. Keeps(disk[d], {pull.path, pull.from}, disk'[d])
    BY <1>4, <1>5, PullKeeps
  <1>7. {pull.path, pull.from} \subseteq Replaced(d)
    BY DEF Replaced
  <1>8. CASE \A f \in Replaced(d) \cap FilesOn(disk[d]) : Holds(versions, disk[d][f])
    <2> SUFFICES ASSUME NEW f \in FilesOn(disk[d]), ~Holds(versions', disk[d][f])
                 PROVE  \E g \in FilesOn(disk'[d]) : disk[d][f] \in Included(disk'[d][g])
      BY DEF Lossless
    <2>1. f \notin {pull.path, pull.from}
      BY <1>1, <1>7, <1>8
    <2>2. f \in FilesOn(disk'[d]) /\ disk'[d][f] = disk[d][f]
      BY <1>6, <2>1 DEF Keeps, FilesOn
    <2> QED
      BY <2>2 DEF Included
  <1>9. CASE ~DiskChanges(d)
    BY <1>9, SameDiskIsLossless DEF DiskChanges
  <1>10. ASSUME DiskChanges(d), NEW f \in Replaced(d) \cap FilesOn(disk[d])
         PROVE  Holds(versions, disk[d][f])
    <2>1. SafeAt(d, f)
      BY <1>1 DEF PlanSafe
    <2>2. ~KindsClash(d)
      BY DEF Mishap
    <2> QED
      BY <1>1, <1>10, <2>1, <2>2 DEF SafeAt, KindsClash
  <1> QED
    BY <1>8, <1>9, <1>10

\* Pulls and merges replace only what is kept, copied or merged.
LEMMA ExecutePlanLossless ==
  ASSUME SyncInv, SafePlans, ~Mishap, NEW d \in Device, ExecutePlan(d)
  PROVE  Lossless(d)
  <1>1. /\ ClientsOK(versions, seq) /\ seq \in Nat /\ versions' = versions
        /\ phase[d] = "planned" /\ PlanSafe(d)
    BY DEF ExecutePlan, SyncInv, RoomOK, TypeOK, SafePlans, room, vars, tables
  <1> DEFINE merges == job[d].merges
  <1>2. PICK order \in PullOrders(job[d].pulls) :
          LET pulled == AfterPulls(Local(WithCopies(d, Staged(d)), index[d]), order, Len(order))
          IN  disk' = [disk EXCEPT ![d] = WriteAll(pulled.disk, merges)]
    BY DEF ExecutePlan
  <1> DEFINE pulled == AfterPulls(Local(WithCopies(d, Staged(d)), index[d]), order, Len(order))
  <1>3. disk'[d] = WriteAll(pulled.disk, merges)
    BY <1>1, <1>2 DEF ClientsOK
  <1>4. Len(order) \in 0..Len(order)
    <2>1. job[d] \in JobSet(versions, seq)
      BY <1>1, ClientOK
    <2>2. IsFiniteSet(job[d].pulls)
      BY <2>1 DEF JobSet
    <2>3. Len(order) \in Nat
      BY <2>2, ListingsFacts DEF PullOrders
    <2> QED
      BY <2>3
  <1>5. \A m, n \in merges : m.path = n.path => m = n
    BY <1>1 DEF PlanSafe
  <1>6. /\ \A q \in DOMAIN pulled.disk :
             (\A m \in merges : m.path # q) => q \in DOMAIN disk'[d] /\ disk'[d][q] = pulled.disk[q]
        /\ \A m \in merges : m.path \in DOMAIN disk'[d] /\ disk'[d][m.path] = m.hash
    <2> HIDE DEF pulled, merges
    <2>1. /\ \A q \in DOMAIN pulled.disk :
               (\A m \in merges : m.path # q) => q \in DOMAIN disk'[d] /\ disk'[d][q] = pulled.disk[q]
          /\ \A m \in merges :
               /\ m.path \in DOMAIN disk'[d]
               /\ \E u \in merges : u.path = m.path /\ disk'[d][m.path] = u.hash
      BY <1>3, WriteAllFacts
    <2>2. \A m \in merges : m.path \in DOMAIN disk'[d] /\ disk'[d][m.path] = m.hash
      BY <1>5, <2>1
    <2> QED
      BY <2>1, <2>2
  <1>7. CASE DiskChanges(d)
    <2>1. \A f \in FilesOn(disk[d]) :
            \/ Holds(versions, disk[d][f])
            \/ \E g \in FilesOn(disk'[d]) : disk[d][f] \in Included(disk'[d][g])
      BY <1>1, <1>4, <1>6, <1>7, NoMishap, PlanKeeps
    <2> QED
      BY <1>1, <2>1 DEF Lossless
  <1> QED
    BY <1>7, SameDiskIsLossless DEF DiskChanges

\* Pulls that end early leave every content that the plan must keep, as long as
\* no merge was to follow.
LEMMA CutShortLossless ==
  ASSUME SyncInv, SafePlans, ~Mishap, NEW d \in Device,
         UNCHANGED room, phase[d] \in {"fetching", "planned"},
         phase'[d] # "pushing",
         NEW order \in PullOrders(job[d].pulls), NEW k \in 0..Len(order),
         disk' = [disk EXCEPT ![d] =
                    AfterPulls(Local(WithCopies(d, Staged(d)), index[d]), order, k).disk]
  PROVE  Lossless(d)
  <1>1. /\ ClientsOK(versions, seq) /\ seq \in Nat /\ versions' = versions /\ PlanSafe(d)
    BY DEF SyncInv, RoomOK, TypeOK, SafePlans, room, vars, tables
  <1> DEFINE pulled == AfterPulls(Local(WithCopies(d, Staged(d)), index[d]), order, k)
  <1>2. disk'[d] = pulled.disk
    BY <1>1 DEF ClientsOK
  <1>3. CASE ~DiskChanges(d)
    BY <1>3, SameDiskIsLossless DEF DiskChanges
  <1>4. CASE DiskChanges(d) /\ phase[d] = "planned"
    <2>1. job[d].merges = {}
      BY <1>4, NoMishap
    <2>2. /\ \A q \in DOMAIN pulled.disk :
               (\A m \in job[d].merges : m.path # q) =>
                 q \in DOMAIN disk'[d] /\ disk'[d][q] = pulled.disk[q]
          /\ \A m \in job[d].merges : m.path \in DOMAIN disk'[d] /\ disk'[d][m.path] = m.hash
      BY <1>2, <2>1
    <2>3. \A f \in FilesOn(disk[d]) :
            \/ Holds(versions, disk[d][f])
            \/ \E g \in FilesOn(disk'[d]) : disk[d][f] \in Included(disk'[d][g])
      BY <1>1, <1>4, <2>2, NoMishap, PlanKeeps
    <2> QED
      BY <1>1, <2>3 DEF Lossless
  <1>5. CASE DiskChanges(d) /\ phase[d] = "fetching"
    <2>1. /\ disk[d] \in Disks /\ index[d] \in Indexes(versions)
          /\ job[d] \in JobSet(versions, seq) /\ job[d].pushes = <<>>
      BY <1>1, <1>5, ClientOK DEF PushesIn
    <2>2. /\ Copies(d) = {} /\ job[d].pushes \in Seq(PushSet(versions))
      BY <2>1 DEF Copies
    <2>3. Keeps(disk[d], {}, WithCopies(d, Staged(d)))
      BY <2>2, CopiesStand DEF CopiesFree
    <2>4. order \in Seq(PullSet(versions)) /\ \A i \in DOMAIN order : order[i] \in job[d].pulls
      <3>1. job[d].pulls \subseteq PullSet(versions) /\ IsFiniteSet(job[d].pulls)
        BY <2>1 DEF JobSet
      <3>2. order \in Seq(job[d].pulls)
        BY <3>1, ListingsFacts DEF PullOrders
      <3>3. order \in Seq(PullSet(versions))
        BY <3>1, <3>2, MapWidens
      <3> QED
        BY <3>2, <3>3, SeqElim
    <2> DEFINE a == WithCopies(d, Staged(d))
    <2>5. Local(a, index[d]) \in Locals(versions) /\ Local(a, index[d]).disk = a
      BY <2>1, <2>2, WithCopiesOK, LocalOK DEF Local
    <2>6. Keeps(a, Replaced(d), disk'[d])
      <3>1. \A i \in DOMAIN order : {order[i].path, order[i].from} \subseteq Replaced(d)
        BY <2>4 DEF Replaced
      <3>2. Keeps(Local(a, index[d]).disk, Replaced(d), pulled.disk)
        BY <2>4, <2>5, <3>1, PullsKeep
      <3> QED
        BY <1>2, <2>5, <3>2
    <2> HIDE DEF a
    <2>7. ASSUME NEW f \in Replaced(d) \cap FilesOn(disk[d])
          PROVE  Holds(versions, disk[d][f])
      <3>1. SafeAt(d, f)
        BY <1>1, <1>5 DEF PlanSafe
      <3>2. ~KindsClash(d)
        BY DEF Mishap
      <3> QED
        BY <1>5, <3>1, <3>2 DEF SafeAt, KindsClash
    <2> SUFFICES ASSUME NEW f \in FilesOn(disk[d]), ~Holds(versions', disk[d][f])
                 PROVE  \E g \in FilesOn(disk'[d]) : disk[d][f] \in Included(disk'[d][g])
      BY DEF Lossless
    <2>8. f \notin Replaced(d)
      BY <1>1, <2>7
    <2>9. f \in FilesOn(a) /\ a[f] = disk[d][f]
      BY <2>3 DEF Keeps, FilesOn, a
    <2>10. f \in FilesOn(disk'[d]) /\ disk'[d][f] = disk[d][f]
      BY <2>6, <2>8, <2>9 DEF Keeps, FilesOn
    <2> QED
      BY <2>10 DEF Included
  <1> QED
    BY <1>3, <1>4, <1>5

\* A commit that lost is folded over a disk that has its content still, or that
\* had none to keep.
LEMMA PushCommitLossless ==
  ASSUME SyncInv, ~Mishap, NEW d \in Device, PushCommit(d)
  PROVE  Lossless(d)
  <1> DEFINE c == Head(job[d].pushes)
             head == files'[c.path]
             pull == Pull(c.path, NoPath, EntryOf(head))
             x == Local(disk[d], index[d])
  <1>1. /\ ClientsOK(versions, seq) /\ seq \in Nat /\ RoomOK
        /\ phase[d] = "pushing" /\ job[d].pushes # <<>> /\ edits' = edits
        /\ AcceptCommit(d, c) /\ FoldReply(d, c, head)
    BY DEF PushCommit, SyncInv, RoomOK, TypeOK, counts
  <1>2. /\ c \in Commits(versions) /\ c \in CommitMsg /\ c.from # c.path
        /\ RoomOK' /\ Grows
    BY PushCommitGrows
  <1>3. disk[d] \in Disks /\ index[d] \in Indexes(versions)
    BY <1>1, ClientOK
  <1> HIDE DEF c
  <1>4. c.path \in DOMAIN files' /\ (CarriesOwn(c) => Holds(versions', c.hash))
    BY <1>1, <1>2, CommitAnswers
  <1>5. \/ disk'[d] = disk[d]
        \/ ~MovedOn(d, c) /\ c.kind # "rename" /\ disk'[d] = ApplyOnePull(x, pull).disk
    <2>1. disk'[d] = IF WeWon(d, c, head) THEN disk[d] ELSE LostTo(d, c, head).disk
      <3>1. disk' = [disk EXCEPT ![d] =
                       (IF WeWon(d, c, head) THEN Local(disk[d], Acked(index[d], c, head))
                        ELSE LostTo(d, c, head)).disk]
        BY <1>1 DEF FoldReply
      <3> QED
        BY <1>1, <3>1 DEF ClientsOK, Local
    <2> QED
      BY <2>1 DEF LostTo, Local
  <1>6. CASE disk'[d] = disk[d]
    BY <1>6, SameDiskIsLossless
  <1>7. CASE /\ disk'[d] # disk[d]
             /\ ~MovedOn(d, c) /\ c.kind # "rename" /\ disk'[d] = ApplyOnePull(x, pull).disk
    <2>1. Keeps(disk[d], {c.path, NoPath}, disk'[d])
      <3>1. Sound(files', versions')
        BY <1>2 DEF RoomOK
      <3>2. c.path \in Path /\ EntryOf(head) \in Entry /\ KnownHead(versions', c.path, EntryOf(head))
        BY <1>4, <3>1, FileEntry
      <3> HIDE DEF head
      <3>3. pull \in PullSet(versions') /\ pull.path = c.path /\ pull.from = NoPath
        BY <3>2 DEF Pull, PullSet, HeadOK
      <3>4. x \in Locals(versions') /\ x.disk = disk[d]
        <4>1. index[d] \in Indexes(versions')
          BY <1>2, <1>3, IndexesGrow DEF Grows
        <4> QED
          BY <1>3, <4>1, LocalOK DEF Local
      <3> HIDE DEF pull, x
      <3>5. Keeps(x.disk, {pull.path, pull.from}, ApplyOnePull(x, pull).disk)
        BY <3>3, <3>4, PullKeeps
      <3> QED
        BY <1>7, <3>3, <3>4, <3>5
    <2> HIDE DEF head, pull, x
    <2>2. ASSUME c.path \in FilesOn(disk[d])
          PROVE  Holds(versions', disk[d][c.path])
      <3>1. c.kind # "delete" /\ ~c.isFolder
        <4>1. ~Recreated(d)
          BY DEF Mishap
        <4> QED
          BY <1>1, <1>7, <2>2, <4>1 DEF Recreated, DiskChanges, c
      <3>2. disk[d][c.path] = c.hash /\ c.hash # NoHash
        BY <1>7, <2>2, <3>1 DEF MovedOn, FilesOn
      <3> QED
        BY <1>4, <1>7, <3>1, <3>2 DEF CarriesOwn, CarriesContent
    <2> SUFFICES ASSUME NEW f \in FilesOn(disk[d]), ~Holds(versions', disk[d][f])
                 PROVE  \E g \in FilesOn(disk'[d]) : disk[d][f] \in Included(disk'[d][g])
      BY DEF Lossless
    <2>3. f # NoPath
      BY <1>3, DiskElim, PathAssumption DEF FilesOn
    <2>4. f # c.path
      BY <2>2
    <2>5. f \in FilesOn(disk'[d]) /\ disk'[d][f] = disk[d][f]
      BY <2>1, <2>3, <2>4 DEF Keeps, FilesOn
    <2> QED
      BY <2>5 DEF Included
  <1> QED
    BY <1>5, <1>6, <1>7

\* Only directories are tidied away.
LEMMA TidyFoldersLossless ==
  ASSUME SyncInv, NEW d \in Device, TidyFolders(d)
  PROVE  Lossless(d)
  <1>1. ASSUME NEW a, NEW b, Keeps(a, {}, b), NEW dirs, dirs \cap FilesOn(b) = {}
        PROVE  Keeps(a, {}, WithoutKeys(b, dirs))
    BY <1>1 DEF Keeps, WithoutKeys, FilesOn
  <1> DEFINE emptied == EmptiedDirs(d)
             without == WithoutKeys(disk[d], emptied)
             stale   == {p \in job[d].stale : IsVacant(without, index[d], p)}
             after   == WithoutKeys(without, stale)
  <1>2. disk' = [disk EXCEPT ![d] = after]
    BY DEF TidyFolders
  <1>3. disk'[d] = after
    BY <1>2 DEF SyncInv, ClientsOK
  <1>4. Keeps(disk[d], {}, disk[d]) /\ emptied \cap FilesOn(disk[d]) = {}
    BY DEF Keeps, EmptiedDirs, IsVacant, DirsOn, FilesOn
  <1>5. Keeps(disk[d], {}, without)
    BY <1>1, <1>4
  <1>6. stale \cap FilesOn(without) = {}
    BY DEF IsVacant, DirsOn, FilesOn
  <1> HIDE DEF without, stale
  <1>7. Keeps(disk[d], {}, after)
    BY <1>1, <1>5, <1>6
  <1> QED
    BY <1>3, <1>7, KeepsIsLossless
\* What the devices hold and the room keeps takes a step of the abstract sync.
LEMMA LosslessIsSync ==
  ASSUME SyncInv, SyncInv', Extends(versions, versions'), edits' = edits,
         \A d \in Device : Lossless(d)
  PROVE  Promise!Next
  <1>1. History \subseteq History'
    BY DEF History, Extends
  <1>2. ASSUME NEW d \in Device, NEW h \in Held[d]
        PROVE  h \in Promise!Reach(Held'[d]) \cup History'
    <2>1. disk[d] \in Disks /\ disk'[d] \in Disks
      BY DEF SyncInv, ClientsOK
    <2>2. PICK f \in FilesOn(disk[d]) : h = disk[d][f] /\ h # NoHash
      BY DEF Held, Contents, FilesOn
    <2>3. CASE Holds(versions', h)
      BY <2>2, <2>3 DEF Holds, History
    <2>4. CASE \E g \in FilesOn(disk'[d]) : h \in Included(disk'[d][g])
      <3>1. PICK g \in FilesOn(disk'[d]) : h \in Included(disk'[d][g])
        BY <2>4
      <3>2. disk'[d][g] \in Hash
        BY <2>1, DiskElim DEF FilesOn
      <3>3. disk'[d][g] \in Held'[d]
        BY DEF Held, Contents
      <3> DEFINE z == disk'[d][g]
                 I == [x \in Hash |-> Included(x)]
      <3>4. I[z] = Included(z)
        BY <3>2
      <3> HIDE DEF I, z
      <3>5. h \in UNION {I[x] : x \in Held'[d]}
        BY <3>1, <3>3, <3>4 DEF z
      <3> QED
        BY <3>5 DEF Promise!Reach, I
    <2> QED
      BY <2>2, <2>3, <2>4 DEF Lossless
  <1>3. Promise!Sync
    BY <1>1, <1>2 DEF Promise!Sync
  <1> QED
    BY <1>3 DEF Promise!Next

\* A step in which no mishap happens is one of the abstract specification.
LEMMA StepIsPromised ==
  ASSUME SyncInv, SyncInv', SafePlans, [SyncNext]_all, [~Mishap]_all
  PROVE  [Promise!Next]_<<Held, History, edits>>
  <1>0. ClientsOK(versions, seq)
    BY DEF SyncInv
  <1>1. CASE UNCHANGED all
    BY <1>1 DEF all, room, vars, tables, local, counts, Held, History
  <1>2. CASE UserStep
    <2>1. PICK d \in Device : \E after : UserWrites(d, after)
      BY <1>2 DEF UserStep, UserEdit, UserDelete, UserMove, UserMakeDir, UserRemoveDir
    <2>2. PICK after : UserWrites(d, after)
      BY <2>1
    <2>3. /\ disk' = [disk EXCEPT ![d] = after] /\ edits' = edits + 1
          /\ versions' = versions
      BY <2>2 DEF UserWrites, room, vars, tables
    <2>4. disk'[d] = after
      BY <1>0, <2>3 DEF ClientsOK
    <2>5. Contents(after) \in SUBSET Hash
      <3>1. after \in Disks
        BY <2>4 DEF SyncInv, ClientsOK
      <3> QED
        BY <3>1, DiskElim DEF Contents, FilesOn
    <2>6. Held' = [Held EXCEPT ![d] = Contents(after)]
      BY <1>0, <2>3 DEF Held, ClientsOK
    <2>7. History' = History
      BY <2>3 DEF History
    <2>8. Promise!Write(d)
      BY <2>3, <2>5, <2>6, <2>7 DEF Promise!Write
    <2> QED
      BY <2>8 DEF Promise!Next
  <1>3. CASE SyncNext /\ ~UserStep /\ all' # all
    <2>0. ~Mishap
      BY <1>3
    <2>1. Extends(versions, versions')
      BY <1>3, StepGrows DEF Grows
    <2>2. edits' = edits
      <3>1. ASSUME FaultStep PROVE edits' = edits
        BY <3>1 DEF FaultStep, Disconnect, Crash, CrashInPulls, LoseState, ChangeFails, PullFails
      <3>2. ASSUME NEW d \in Device, ClientStep(d) PROVE edits' = edits
        BY <3>2 DEF ClientStep, counts, Connect, ReceiveChange, ApplyChange, BeginCycle,
           ExecutePlan, PushCommit, PushCollides, PushRefused, TidyFolders, EndCycle, FailCycle
      <3>3. ASSUME NEW d \in Device, LateCommit(d) PROVE edits' = edits
        BY <3>3 DEF LateCommit, counts
      <3> QED
        BY <1>3, <3>1, <3>2, <3>3 DEF SyncNext, counts
    <2>3. ASSUME NEW e \in Device, FaultStep PROVE Lossless(e)
      <3>1. PICK d \in Device : \/ Disconnect(d) \/ Crash(d) \/ CrashInPulls(d) \/ LoseState(d)
                                \/ ChangeFails(d) \/ PullFails(d)
        BY <2>3 DEF FaultStep
      <3>2. CASE Disconnect(d) \/ Crash(d) \/ LoseState(d) \/ ChangeFails(d)
        <4>1. disk' = disk
          BY <3>2 DEF Disconnect, Crash, LoseState, ChangeFails
        <4> QED
          BY <4>1, SameDiskIsLossless
      <3>3. CASE CrashInPulls(d)
        <4>1. PICK order \in PullOrders(job[d].pulls) : \E k \in 0..Len(order) :
                disk' = [disk EXCEPT ![d] =
                  AfterPulls(Local(WithCopies(d, Staged(d)), index[d]), order, k).disk]
          BY <3>3 DEF CrashInPulls
        <4>2. PICK k \in 0..Len(order) :
                disk' = [disk EXCEPT ![d] =
                  AfterPulls(Local(WithCopies(d, Staged(d)), index[d]), order, k).disk]
          BY <4>1
        <4>3. UNCHANGED room /\ phase[d] \in {"fetching", "planned"} /\ phase'[d] # "pushing"
          BY <1>0, <3>3 DEF CrashInPulls, HangUp, Become, ClientsOK
        <4>4. e = d => Lossless(e)
          BY <2>0, <4>2, <4>3, CutShortLossless
        <4>5. e # d => disk'[e] = disk[e]
          BY <1>0, <4>2 DEF ClientsOK
        <4> QED
          BY <4>4, <4>5, SameDiskIsLossless
      <3>4. CASE PullFails(d)
        <4>1. PICK order \in PullOrders(job[d].pulls) : \E k \in 0..(Len(order) - 1) :
                disk' = [disk EXCEPT ![d] =
                  AfterPulls(Local(WithCopies(d, Staged(d)), index[d]), order, k).disk]
          BY <3>4 DEF PullFails
        <4>2. PICK k \in 0..(Len(order) - 1) :
                disk' = [disk EXCEPT ![d] =
                  AfterPulls(Local(WithCopies(d, Staged(d)), index[d]), order, k).disk]
          BY <4>1
        <4>3. UNCHANGED room /\ phase[d] \in {"fetching", "planned"} /\ phase'[d] # "pushing"
          BY <1>0, <3>4 DEF PullFails, HangUp, Become, ClientsOK
        <4>4. k \in 0..Len(order)
          <5>1. job[d] \in JobSet(versions, seq)
            BY <1>0, ClientOK DEF SyncInv, RoomOK, TypeOK
          <5>2. IsFiniteSet(job[d].pulls)
            BY <5>1 DEF JobSet
          <5>3. Len(order) \in Nat
            BY <5>2, ListingsFacts DEF PullOrders
          <5> QED
            BY <5>3
        <4>5. e = d => Lossless(e)
          BY <2>0, <4>2, <4>3, <4>4, CutShortLossless
        <4>6. e # d => disk'[e] = disk[e]
          BY <1>0, <4>2 DEF ClientsOK
        <4> QED
          BY <4>5, <4>6, SameDiskIsLossless
      <3> QED
        BY <3>1, <3>2, <3>3, <3>4
    <2>4. ASSUME NEW e \in Device, NEW d \in Device, ClientStep(d) PROVE Lossless(e)
      <3>1. e = d \/ disk'[e] = disk[e]
        BY <1>0, <2>4 DEF ClientStep, ClientsOK, Connect, ReceiveChange, ApplyChange,
           BeginCycle, ExecutePlan, PushCommit, FoldReply, PushCollides, PushRefused, local,
           TidyFolders, EndCycle, FailCycle
      <3>2. CASE ApplyChange(d)
        BY <2>0, <3>1, <3>2, ApplyChangeLossless, SameDiskIsLossless
      <3>3. CASE ExecutePlan(d)
        BY <2>0, <3>1, <3>3, ExecutePlanLossless, SameDiskIsLossless
      <3>4. CASE PushCommit(d)
        BY <2>0, <3>1, <3>4, PushCommitLossless, SameDiskIsLossless
      <3>5. CASE TidyFolders(d)
        BY <3>1, <3>5, TidyFoldersLossless, SameDiskIsLossless
      <3>6. CASE \/ Connect(d) \/ ReceiveChange(d) \/ BeginCycle(d) \/ PushCollides(d)
                 \/ PushRefused(d) \/ EndCycle(d) \/ FailCycle(d)
        <4>1. disk' = disk
          BY <3>6 DEF Connect, ReceiveChange, BeginCycle, PushCollides, PushRefused, EndCycle,
             FailCycle, local
        <4> QED
          BY <4>1, SameDiskIsLossless
      <3> QED
        BY <2>4, <3>2, <3>3, <3>4, <3>5, <3>6 DEF ClientStep
    <2>5. ASSUME NEW e \in Device,
                 \/ \E d \in Device : LateCommit(d)
                 \/ EventsPrune /\ UNCHANGED <<local, state, net, counts>>
          PROVE  Lossless(e)
      <3>1. disk' = disk
        BY <2>5 DEF LateCommit, local
      <3> QED
        BY <3>1, SameDiskIsLossless
    <2>6. \A e \in Device : Lossless(e)
      BY <1>3, <2>3, <2>4, <2>5 DEF SyncNext
    <2>7. Promise!Next
      BY <2>1, <2>2, <2>6, LosslessIsSync
    <2> QED
      BY <2>7
  <1> QED
    BY <1>1, <1>2, <1>3

\* "Nothing is ever silently lost" (REQUIREMENTS.md, FR-5), and the five things
\* that the code does not guard against: the devices and the room implement
\* NothingLost, whatever the vault and the number of devices, edits and faults,
\* as long as no mishap happens and no user writes between a cycle's scan and
\* its pulls.
THEOREM NothingLostUnless ==
  ASSUME ~EditsInWindow
  PROVE  SyncSpec /\ [][~Mishap]_all => ContentIsKept
  <1>1. SyncInit => Promise!Init
    BY DEF SyncInit, Init, Promise!Init, Held, History, Contents, FilesOn, EmptyMap
  <1>2. SyncInv /\ SyncInv' /\ SafePlans /\ [SyncNext]_all /\ [~Mishap]_all
          => [Promise!Next]_<<Held, History, edits>>
    BY StepIsPromised
  <1> QED
    BY <1>1, <1>2, SyncInvariant, PlansAreSafe, PTL DEF SyncSpec, ContentIsKept, Promise!Spec
=============================================================================
