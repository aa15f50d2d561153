----------------------------- MODULE Arbitration -----------------------------
(***************************************************************************)
(* Commit arbitration: the pure function both servers run on every commit  *)
(* (core/src/server/arbitrate.ts), with the clock order it decides by      *)
(* (core/src/clock.ts) and the conflict-copy names it gives to what lost   *)
(* (core/src/conflictnames.ts).  Sizes are left out; a timestamp only      *)
(* orders versions and is the field "at".                                  *)
(***************************************************************************)
EXTENDS Naturals, Sequences, FiniteSets

CONSTANTS
  Path,            \* vault paths, conflict-copy names included
  Device,          \* device ids, numbered in the order of their strings
  Hash,            \* content hashes
  NoHash,          \* '', the hash of a folder placeholder
  NoPath,          \* an absent fromPath
  Fold,            \* Fold[p]: the key foldKeyForPath gives to p
  PathOrder,       \* PathOrder[p]: the place of p in string order
  CopyCandidates   \* CopyCandidates[<<p, d>>]: the names tried, in order, for
                   \* a conflict copy of p written by device d

ASSUME PathAssumption ==
  /\ IsFiniteSet(Path)            \* at most 1024 code units each
  /\ NoPath \notin Path
  /\ DOMAIN Fold = Path
  /\ CopyCandidates \in [Path \X Device -> Seq(Path)]

ASSUME DeviceAssumption == Device \subseteq Nat

ASSUME HashAssumption == NoHash \notin Hash

VersionId == Nat \ {0}         \* "v1", "v2", ...
NoVersion == 0                 \* parentVersion: null
Kind == {"edit", "delete", "rename", "conflictCopy", "restore"}

Clock == [counter : Nat, dev : Device]

Version == [path : Path, hash : Hash \cup {NoHash}, clock : Clock,
            parent : Nat, kind : Kind, at : Nat]

\* A row of the files table.  Its version, hash, clock and kind repeat those
\* of the head version.
Row == [version : VersionId, hash : Hash \cup {NoHash}, clock : Clock,
        kind : Kind, deleted : BOOLEAN, isFolder : BOOLEAN]

\* The commit message, as arbitration sees it.
CommitMsg == [path : Path, parent : Nat, hash : Hash \cup {NoHash},
              kind : Kind, from : Path \cup {NoPath}, isFolder : BOOLEAN]

\* A change event: the payload that is fanned out and logged.
Change == [path : Path, version : VersionId, hash : Hash \cup {NoHash},
           clock : Clock, kind : Kind, deleted : BOOLEAN,
           isFolder : BOOLEAN, from : Path \cup {NoPath}]

-----------------------------------------------------------------------------
(* Maps: the JavaScript Map operations the code uses.                       *)

EmptyMap == [x \in {} |-> x]

MapSet(f, k, v) == [x \in DOMAIN f \cup {k} |-> IF x = k THEN v ELSE f[x]]

-----------------------------------------------------------------------------
(* clock.ts *)

\* compareClocks(a, b) > 0
Later(a, b) == \/ a.counter > b.counter
               \/ a.counter = b.counter /\ a.dev > b.dev

\* nextClock of a parent whose counter is n (0 for no parent)
NextClock(n, d) == [counter |-> n + 1, dev |-> d]

-----------------------------------------------------------------------------
(* arbitrate.ts: admission *)

Live(files) == {p \in DOMAIN files : ~files[p].deleted}

\* Mutant: a path that has only a tombstone counts as taken, not as new.
PathCollidesNoRow(files, c) ==
  /\ c.path \notin DOMAIN files
  /\ \E q \in Live(files) \ {c.path, c.from} : Fold[q] = Fold[c.path]

\* A commit that would make c.path live may not fold onto another live path.
PathCollides(files, c) ==
  /\ c.path \notin Live(files)
  /\ \E q \in Live(files) \ {c.path, c.from} : Fold[q] = Fold[c.path]

UnknownParent(versions, c) ==
  c.parent # NoVersion /\ c.parent \notin DOMAIN versions

-----------------------------------------------------------------------------
(* arbitrate.ts: the pieces of a verdict *)

MintId(versions) == Cardinality(DOMAIN versions) + 1

ParentCounter(versions, c) ==
  IF c.parent = NoVersion THEN 0 ELSE versions[c.parent].clock.counter

\* parent?.hash: the common ancestor's content, where there is one.
AncestorHashes(versions, c) ==
  IF c.parent = NoVersion THEN {} ELSE {versions[c.parent].hash}

PayloadOf(path, row, from) ==
  [path |-> path, version |-> row.version, hash |-> row.hash,
   clock |-> row.clock, kind |-> row.kind, deleted |-> row.kind = "delete",
   isFolder |-> row.isFolder, from |-> from]

\* The row a winning commit puts at its path.
HeadRow(id, c, clock) ==
  [version |-> id, hash |-> c.hash, clock |-> clock, kind |-> c.kind,
   deleted |-> c.kind = "delete", isFolder |-> c.isFolder]

VersionOf(path, row, parent, now) ==
  [path |-> path, hash |-> row.hash, clock |-> row.clock, parent |-> parent,
   kind |-> row.kind, at |-> now]

\* Mutant: content the winner has as well counts as lost.
NeedsCopySameHash(loser, winnerHash, ancestors) ==
  /\ ~loser.deleted
  /\ ~loser.isFolder
  /\ loser.hash \notin {NoHash} \cup ancestors

\* Whether the loser has content that survives nowhere else.
NeedsCopy(loser, winnerHash, ancestors) ==
  /\ ~loser.deleted
  /\ ~loser.isFolder
  /\ loser.hash \notin {NoHash, winnerHash} \cup ancestors

FreeCandidates(files, path, dev) ==
  {i \in 1..Len(CopyCandidates[<<path, dev>>]) :
      CopyCandidates[<<path, dev>>][i] \notin DOMAIN files}

\* The first candidate name no row holds, a tombstone's row included.
ConflictCopyPath(files, path, dev) ==
  LET free == FreeCandidates(files, path, dev)
  IN  CopyCandidates[<<path, dev>>]
        [CHOOSE i \in free : \A j \in free : i <= j]

\* A state of arbitration: the two tables, and the changes to announce, the
\* head's first.
Tables(files, versions, changes) ==
  [files |-> files, versions |-> versions, changes |-> changes]

\* Two sides of a conflict: the tables once the winner is in place, the row
\* that lost and the row that won.
Contest(st, loser, winner) == [st |-> st, loser |-> loser, winner |-> winner]

\* Mutant: the copy continues the loser's clock.
CopyRowOwnClock(id, loser, winner) ==
  [version |-> id, hash |-> loser.hash,
   clock |-> NextClock(loser.clock.counter, loser.clock.dev),
   kind |-> "conflictCopy", deleted |-> FALSE, isFolder |-> FALSE]

\* The loser's content becomes a version of its own, built on the winner.
CopyRow(id, loser, winner) ==
  [version |-> id, hash |-> loser.hash,
   clock |-> NextClock(winner.clock.counter, loser.clock.dev),
   kind |-> "conflictCopy", deleted |-> FALSE, isFolder |-> FALSE]

\* Mutant: the copy's id is minted before the winner is in the table.
PreserveLoserEarlyId(contest, c, ancestors, now) ==
  LET st       == contest.st
      copyPath == ConflictCopyPath(st.files, c.path, contest.loser.clock.dev)
      id       == contest.winner.version
      row      == CopyRow(id, contest.loser, contest.winner)
  IN  IF NeedsCopy(contest.loser, contest.winner.hash, ancestors)
      THEN Tables(MapSet(st.files, copyPath, row),
                  MapSet(st.versions, id,
                    VersionOf(copyPath, row, contest.winner.version, now)),
                  Append(st.changes, PayloadOf(copyPath, row, NoPath)))
      ELSE st

PreserveLoser(contest, c, ancestors, now) ==
  LET st       == contest.st
      copyPath == ConflictCopyPath(st.files, c.path, contest.loser.clock.dev)
      id       == MintId(st.versions)
      row      == CopyRow(id, contest.loser, contest.winner)
  IN  IF NeedsCopy(contest.loser, contest.winner.hash, ancestors)
      THEN Tables(MapSet(st.files, copyPath, row),
                  MapSet(st.versions, id,
                    VersionOf(copyPath, row, contest.winner.version, now)),
                  Append(st.changes, PayloadOf(copyPath, row, NoPath)))
      ELSE st

\* Every candidate name is taken: conflictCopyPath throws.
CopyBlocked(contest, c, ancestors) ==
  /\ NeedsCopy(contest.loser, contest.winner.hash, ancestors)
  /\ FreeCandidates(contest.st.files, c.path, contest.loser.clock.dev) = {}

-----------------------------------------------------------------------------
(* arbitrate.ts: arbitrateCommit, one predicate and one outcome per branch.  *)
(* c is the commit, d the committing device, n the room's time.              *)

\* The mover of a rename built on the source's current head.
MovesHead(files, c) ==
  /\ c.kind = "rename"
  /\ c.from \in DOMAIN files
  /\ files[c.from].version = c.parent

MoveClock(files, c, d) == NextClock(files[c.from].clock.counter, d)

MoveIsFree(files, c) == MovesHead(files, c) /\ c.path \notin DOMAIN files

MoveWins(files, c, d) ==
  /\ MovesHead(files, c)
  /\ c.path \in DOMAIN files
  /\ Later(MoveClock(files, c, d), files[c.path].clock)

MoveLoses(files, c, d) ==
  /\ MovesHead(files, c)
  /\ c.path \in DOMAIN files
  /\ ~Later(MoveClock(files, c, d), files[c.path].clock)

\* The path is free, or the commit builds on its current head.
IsFastPath(files, c) ==
  /\ ~MovesHead(files, c)
  /\ c.path \in DOMAIN files => files[c.path].version = c.parent

FastPathCounter(files, versions, c) ==
  IF c.path \in DOMAIN files
  THEN files[c.path].clock.counter
  ELSE ParentCounter(versions, c)

IsConflict(files, c) ==
  /\ ~MovesHead(files, c)
  /\ c.path \in DOMAIN files
  /\ files[c.path].version # c.parent

IncomingClock(versions, c, d) == NextClock(ParentCounter(versions, c), d)

\* Mutant: the last to arrive wins.
IncomingWinsLast(files, versions, c, d) == IsConflict(files, c)

IncomingWins(files, versions, c, d) ==
  /\ IsConflict(files, c)
  /\ Later(IncomingClock(versions, c, d), files[c.path].clock)

HeadWins(files, versions, c, d) ==
  /\ IsConflict(files, c)
  /\ ~Later(IncomingClock(versions, c, d), files[c.path].clock)

\* The row a winning commit would put at its path.
WinningRow(versions, c, clock) == HeadRow(MintId(versions), c, clock)

\* A new head at c.path; the rows of "gone" leave the table.
Advance(files, versions, c, clock, gone, from, now) ==
  LET row  == WinningRow(versions, c, clock)
      kept == [p \in DOMAIN files \ gone |-> files[p]]
  IN  Tables(MapSet(kept, c.path, row),
             MapSet(versions, row.version,
                    VersionOf(c.path, row, c.parent, now)),
             <<PayloadOf(c.path, row, from)>>)

ApplyFastPath(files, versions, c, d, now) ==
  Advance(files, versions, c,
          NextClock(FastPathCounter(files, versions, c), d), {}, NoPath, now)

ApplyMigration(files, versions, c, d, now) ==
  Advance(files, versions, c, MoveClock(files, c, d), {c.from}, c.from, now)

\* A move that beat the occupant of its destination.
MoveContest(files, versions, c, d, now) ==
  Contest(ApplyMigration(files, versions, c, d, now), files[c.path],
          WinningRow(versions, c, MoveClock(files, c, d)))

\* A stale commit that beat the standing head.  A rename that reaches this
\* branch drops the row at its source, whatever that row now holds.
DisplaceContest(files, versions, c, d, now) ==
  LET clock == IncomingClock(versions, c, d)
      gone  == IF c.kind = "rename" THEN {c.from} ELSE {}
  IN  Contest(Advance(files, versions, c, clock, gone, c.from, now),
              files[c.path], WinningRow(versions, c, clock))

\* The losing commit, seen as the row it would have made.
LosingRow(c, d) == HeadRow(NoVersion, c, NextClock(0, d))

\* Mutant: a standing head is never announced again.
StandingHeadSilent(files, versions, c, d) == Tables(files, versions, <<>>)

\* The standing head wins.  It is announced again when the committer wrote it.
StandingHead(files, versions, c, d) ==
  Tables(files, versions,
         IF files[c.path].clock.dev = d
         THEN <<PayloadOf(c.path, files[c.path], NoPath)>> ELSE <<>>)

LoseContest(files, versions, c, d) ==
  Contest(StandingHead(files, versions, c, d), LosingRow(c, d), files[c.path])

=============================================================================
