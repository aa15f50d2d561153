----------------------------- MODULE SyncSystem -----------------------------
(***************************************************************************)
(* Devices that sync one vault: the client of core/src/client.ts on each   *)
(* device, above the room.  A client runs one operation at a time: a       *)
(* change it was sent, or a cycle that fetches the manifest, scans, plans, *)
(* pulls and pushes.  Users write to the disk at any moment.               *)
(*                                                                         *)
(* A request and its answer are one step: what a client sends depends on   *)
(* nothing that can change while the request travels.  Requests the room   *)
(* handles after the connection is gone are kept in "wire".  inbox holds   *)
(* the changes a client has been sent and has not yet handled, on the wire *)
(* or in its queue.  A connection loses them all when it closes.           *)
(***************************************************************************)
EXTENDS VaultRoom, SyncPlan

CONSTANTS
  MergeText3,        \* MergeText3[<<base, ours, theirs>>], where it is clean
  UserPaths,         \* the files users write
  UserDirs,          \* the directories they make and remove
  Mergeable,         \* the Markdown files
  PushConcurrency,   \* commits in flight at once
  EditsInWindow,     \* whether users write while a cycle holds a plan
  WriteFailures,     \* whether a disk write may fail
  MaxEdits,          \* bound on what users do
  MaxFaults          \* bound on disconnects, crashes and failed writes

ASSUME SyncAssumption ==
  /\ DOMAIN MergeText3 \subseteq Hash \X Hash \X Hash
  /\ \A t \in DOMAIN MergeText3 : MergeText3[t] \in Hash
  /\ Mergeable \cup UserPaths \cup UserDirs \subseteq Path
  /\ UserPaths \cap UserDirs = {}
  /\ EditsInWindow \in BOOLEAN /\ WriteFailures \in BOOLEAN
  /\ PushConcurrency \in Nat \ {0} /\ {MaxEdits, MaxFaults} \subseteq Nat
  /\ EmptyId > MaxVersions

VARIABLES
  disk,      \* disk[d]: what is on the disk
  index,     \* index[d]: the local index in memory
  mark,      \* mark[d]: cursor, syncedThrough (0 for null), needsFullManifest
  saved,     \* saved[d]: index and mark in the state file
  phase,     \* phase[d]: what the client is doing
  job,       \* job[d]: the operation it is doing it for
  inbox,     \* inbox[d]: changes sent to d
  wire,      \* wire[d]: commits on a connection that is gone
  due,       \* due[d]: a reconcile is scheduled
  oldest,    \* oldest[d]: serverOldestRetainedSeq, from the last helloAck
  edits,     \* what users have done so far
  faults     \* what has gone wrong so far

room   == vars
local  == <<disk, index, mark, saved>>
state  == <<phase, job, due, oldest>>
net    == <<inbox, wire>>
counts == <<edits, faults>>
all    == <<room, local, state, net, counts>>

Mark(cursor, synced, needsFull) ==
  [cursor |-> cursor, synced |-> synced, needsFull |-> needsFull]

\* The operation in progress: what is left to pull, to merge and to push, the
\* folders to announce, the directories to retry, what the cycle sent, and the
\* manifest's cursor (a change's seq).
Job(pulls, merges, pushes, folders, stale, cursor, starting) ==
  [pulls |-> pulls, merges |-> merges, pushes |-> pushes, folders |-> folders,
   stale |-> stale, sent |-> {}, cursor |-> cursor, starting |-> starting,
   tidied |-> FALSE, failed |-> FALSE]

Idle     == Job({}, {}, <<>>, <<>>, {}, 0, FALSE)
Starting == [Idle EXCEPT !.starting = TRUE]

Fresh == [index |-> EmptyMap, mark |-> Mark(0, 0, FALSE)]

SyncInit ==
  /\ Init
  /\ disk = [d \in Device |-> EmptyMap]
  /\ index = [d \in Device |-> Fresh.index]
  /\ mark = [d \in Device |-> Fresh.mark]
  /\ saved = [d \in Device |-> Fresh]
  /\ phase = [d \in Device |-> "off"]
  /\ job = [d \in Device |-> Idle]
  /\ inbox = [d \in Device |-> <<>>] /\ wire = [d \in Device |-> <<>>]
  /\ due = [d \in Device |-> FALSE]
  /\ oldest = [d \in Device |-> 0]
  /\ edits = 0 /\ faults = 0

Larger(m, n) == IF m > n THEN m ELSE n

\* enqueue saves the state when an operation ends, however it ended.
SaveAs(d, ix, mk) == saved' = [saved EXCEPT ![d] = [index |-> ix, mark |-> mk]]

Become(d, where, what) ==
  /\ phase' = [phase EXCEPT ![d] = where]
  /\ job' = [job EXCEPT ![d] = what]

\* Between two operations: a replay within startup, or live.
Rest(d) == IF job[d].starting THEN Become(d, "replaying", Starting)
                              ELSE Become(d, "live", Idle)

-----------------------------------------------------------------------------
(* The user *)

\* A watcher schedules a reconcile; without a connection none is needed.
UserWrites(d, after) ==
  /\ edits < MaxEdits
  /\ EditsInWindow \/ phase[d] \notin {"fetching", "planned"}
  /\ after # disk[d]
  /\ disk' = [disk EXCEPT ![d] = after]
  /\ due' = [due EXCEPT ![d] = phase[d] # "off"]
  /\ edits' = edits + 1
  /\ UNCHANGED <<room, index, mark, saved, phase, job, oldest, net, faults>>

UserEdit(d, p, h) ==
  /\ p \notin DirsOn(disk[d])
  /\ \A q \in Above[p] : q \notin FilesOn(disk[d])
  /\ UserWrites(d, WriteTo(disk[d], p, h))

UserDelete(d, p) ==
  /\ p \in FilesOn(disk[d])
  /\ UserWrites(d, WithoutKeys(disk[d], {p}))

UserMove(d, p, q) ==
  /\ p \in FilesOn(disk[d])
  /\ q \notin DOMAIN disk[d]
  /\ UserWrites(d, MoveFile(disk[d], p, q))

UserMakeDir(d, p) ==
  /\ p \notin DOMAIN disk[d]
  /\ UserWrites(d, WriteTo(disk[d], p, NoHash))

UserRemoveDir(d, p) ==
  /\ p \in DirsOn(disk[d])
  /\ UserWrites(d, WithoutKeys(disk[d], {q \in DOMAIN disk[d] : q = p \/ p \in Above[q]}))

-----------------------------------------------------------------------------
(* Connections *)

OldestRetained ==
  IF DOMAIN events = {} THEN seq + 1
  ELSE CHOOSE s \in DOMAIN events : \A t \in DOMAIN events : s <= t

\* The changes of the log with these numbers, as they are sent.
Messages(log, S) == [i \in 1..Cardinality(S) |->
                       [seq |-> Sorted(S)[i], change |-> log[Sorted(S)[i]]]]

\* handleHello: a device that has a cursor is sent what it missed.
Replay(cursor) ==
  IF cursor = 0 THEN <<>>
  ELSE Messages(events, {s \in DOMAIN events : s > cursor})

\* shouldRequestDeltaManifest
UseDelta(mk, retained) ==
  mk.cursor > 0 /\ mk.synced > 0 /\ ~mk.needsFull /\ retained <= mk.cursor + 1

\* startup, up to the answer to its hello: the state file is what counts.  A
\* replay is handled before the cycle only if a delta manifest will do.
Connect(d) ==
  /\ phase[d] = "off"
  /\ index' = [index EXCEPT ![d] = saved[d].index]
  /\ mark' = [mark EXCEPT ![d] = saved[d].mark]
  /\ oldest' = [oldest EXCEPT ![d] = OldestRetained]
  /\ inbox' = [inbox EXCEPT ![d] = Replay(saved[d].mark.cursor)]
  /\ Become(d, IF UseDelta(saved[d].mark, OldestRetained)
               THEN "replaying" ELSE "greeted", Starting)
  /\ UNCHANGED <<room, disk, saved, wire, due, counts>>

\* The connection is gone; up to PushConcurrency commits are still under way.
HangUp(d) ==
  /\ Become(d, "off", Idle)
  /\ inbox' = [inbox EXCEPT ![d] = <<>>]
  /\ due' = [due EXCEPT ![d] = FALSE]
  /\ oldest' = [oldest EXCEPT ![d] = 0]

InFlight(d) ==
  IF phase[d] # "pushing" THEN {<<>>}
  ELSE {SubSeq(job[d].pushes, 1, n) :
          n \in 0..(IF Len(job[d].pushes) < PushConcurrency
                    THEN Len(job[d].pushes) ELSE PushConcurrency)}

Fault == faults < MaxFaults /\ faults' = faults + 1

\* onTransportClose: what was running fails and its state is saved.
Disconnect(d) ==
  /\ phase[d] # "off"
  /\ Fault
  /\ HangUp(d)
  /\ SaveAs(d, index[d], mark[d])
  /\ \E lost \in InFlight(d) : wire' = [wire EXCEPT ![d] = @ \o lost]
  /\ UNCHANGED <<room, disk, index, mark, edits>>

\* The process ends: memory is gone.
Crash(d) ==
  /\ phase[d] # "off"
  /\ Fault
  /\ HangUp(d)
  /\ index' = [index EXCEPT ![d] = saved[d].index]
  /\ mark' = [mark EXCEPT ![d] = saved[d].mark]
  /\ \E lost \in InFlight(d) : wire' = [wire EXCEPT ![d] = @ \o lost]
  /\ UNCHANGED <<room, disk, saved, edits>>

\* The state file is found corrupt and moved aside: resetLocalState.
LoseState(d) ==
  /\ phase[d] = "off"
  /\ saved[d] # Fresh
  /\ Fault
  /\ saved' = [saved EXCEPT ![d] = Fresh]
  /\ index' = [index EXCEPT ![d] = Fresh.index]
  /\ mark' = [mark EXCEPT ![d] = Fresh.mark]
  /\ UNCHANGED <<room, disk, state, net, edits>>

-----------------------------------------------------------------------------
(* Changes *)

\* Mutant: a file the index does not know cannot diverge.
DivergesIfKnown(d, p) ==
  /\ p \in DOMAIN disk[d]
  /\ p \in LiveFiles(index[d])
  /\ index[d][p].hash # disk[d][p]

\* changeIsSafe, with pathHasLocalDivergence
Diverges(d, p) ==
  /\ ~(p \in DOMAIN index[d] /\ index[d][p].isFolder)
  /\ p \in DOMAIN disk[d]
  /\ \/ p \notin DOMAIN index[d]
     \/ index[d][p].deleted
     \/ index[d][p].hash # disk[d][p]

ChangeIsSafe(d, change) ==
  \/ change.isFolder
  \/ IF change.from # NoPath
     THEN /\ ~Diverges(d, change.from)
          /\ change.path \in DOMAIN disk[d] =>
               /\ change.path \in DOMAIN index[d]
               /\ ~index[d][change.path].deleted
               /\ index[d][change.path].hash = disk[d][change.path]
     ELSE ~Diverges(d, change.path)

ChangeIsIgnored(d, change) == {change.path, change.from} \cap Ignored[d] # {}

\* Mutant: clocks are compared by their counters alone.
ChangeIsOldByCounter(d, change) ==
  /\ change.path \in DOMAIN index[d]
  /\ \/ index[d][change.path].version = change.version
     \/ index[d][change.path].clock.counter >= change.clock.counter

\* A stale or repeated change: the index is at its clock or past it.
ChangeIsOld(d, change) ==
  /\ change.path \in DOMAIN index[d]
  /\ \/ index[d][change.path].version = change.version
     \/ ~Later(change.clock, index[d][change.path].clock)

EntryOf(x) == [version |-> x.version, hash |-> x.hash, clock |-> x.clock,
               deleted |-> x.deleted, isFolder |-> x.isFolder]

\* handleChange, up to the download: the cursor moves whatever comes next.
ReceiveChange(d) ==
  LET m  == Head(inbox[d])
      mk == [mark[d] EXCEPT !.cursor = Larger(@, m.seq)]
      unsafe == ~ChangeIsSafe(d, m.change)
  IN  /\ phase[d] \in {"replaying", "live"}
      /\ inbox[d] # <<>>
      /\ inbox' = [inbox EXCEPT ![d] = Tail(@)]
      /\ IF ChangeIsIgnored(d, m.change) \/ ChangeIsOld(d, m.change) \/ unsafe
         THEN LET defer == ~ChangeIsIgnored(d, m.change) /\ ~ChangeIsOld(d, m.change)
                  mk2   == [mk EXCEPT !.needsFull = @ \/ defer]
              IN  /\ mark' = [mark EXCEPT ![d] = mk2]
                  /\ due' = [due EXCEPT ![d] = @ \/ defer]
                  /\ SaveAs(d, index[d], mk2)
                  /\ UNCHANGED <<phase, job>>
         ELSE /\ mark' = [mark EXCEPT ![d] = mk]
              /\ Become(d, "fetching",
                   [job[d] EXCEPT !.pulls = {Pull(m.change.path, m.change.from,
                                                  EntryOf(m.change))},
                                  !.cursor = m.seq])
              /\ UNCHANGED <<saved, due>>
      /\ UNCHANGED <<room, disk, index, oldest, wire, counts>>

\* The content is here: it is written, and syncedThrough follows the feed.
ApplyChange(d) ==
  /\ phase[d] = "fetching"
  /\ \E pull \in job[d].pulls :
       \E after \in {ApplyOnePull(Local(disk[d], index[d]), pull)},
          mk \in {[mark[d] EXCEPT !.synced = Larger(@, job[d].cursor)]} :
         /\ disk' = [disk EXCEPT ![d] = after.disk]
         /\ index' = [index EXCEPT ![d] = after.index]
         /\ mark' = [mark EXCEPT ![d] = mk]
         /\ SaveAs(d, after.index, mk)
  /\ Rest(d)
  /\ UNCHANGED <<room, due, oldest, net, counts>>

\* The write fails: the change is dropped and only logged (within startup, the
\* connection attempt fails).
ChangeFails(d) ==
  /\ WriteFailures
  /\ phase[d] = "fetching"
  /\ Fault
  /\ SaveAs(d, index[d], mark[d])
  /\ IF job[d].starting THEN HangUp(d)
     ELSE Rest(d) /\ UNCHANGED <<inbox, due, oldest>>
  /\ UNCHANGED <<room, disk, index, mark, wire, edits>>

-----------------------------------------------------------------------------
(* The sync cycle *)

ManifestSince(s) ==
  [p \in {q \in DOMAIN files : headSeq[q] > s} |-> EntryOf(files[p])]

\* fetchManifest: a delta is laid over the index.
FetchManifest(d) ==
  IF UseDelta(mark[d], oldest[d])
  THEN LET delta == ManifestSince(mark[d].synced)
       IN  [p \in DOMAIN index[d] \cup DOMAIN delta |->
              IF p \in DOMAIN delta THEN delta[p] ELSE index[d][p]]
  ELSE [p \in DOMAIN files |-> EntryOf(files[p])]

\* attemptAutoMerges: both sides edited a note and the texts merge cleanly.
Merges(d, plan, remote) ==
  LET texts(p) == <<index[d][p].hash, disk[d][p], remote[p].hash>>
  IN  {[path |-> p, hash |-> MergeText3[texts(p)], parent |-> remote[p].version] :
         p \in {q \in plan.contested \cap Mergeable \cap LiveFiles(index[d]) :
                  texts(q) \in DOMAIN MergeText3}}

MergedPaths(merges) == {m.path : m \in merges}

\* A merged path is pulled, and neither it nor a copy of it is pushed.
MergedPulls(merges, pulls, remote) ==
  pulls \cup {PullHead(remote, p) : p \in MergedPaths(merges)}

MergedPushes(merges, pushes) ==
  Picked(pushes, {i \in DOMAIN pushes :
     {pushes[i].commit.path, pushes[i].source} \cap MergedPaths(merges) = {}})

\* runCycle, up to its plan: the manifest, the scan, the plan.
BeginCycle(d) ==
  /\ phase[d] \in {"greeted", "replaying"} \/ (phase[d] = "live" /\ due[d])
  /\ \E remote \in {FetchManifest(d)}, scan \in {ScanVault(d, disk[d], index[d])} :
       \E plan \in {ComputeSyncPlan(d, scan, disk[d], index[d], remote)} :
         \E merges \in {Merges(d, plan, remote)}, order \in PushOrders(plan.pushes) :
           IF plan.thrown
           THEN Become(d, "pushing",
                  [job[d] EXCEPT !.tidied = TRUE, !.failed = TRUE])
           ELSE Become(d, "planned",
                  Job(MergedPulls(merges, plan.pulls, remote), merges,
                      MergedPushes(merges, order), plan.folders,
                      scan.staleDirs, seq, job[d].starting))
  /\ mark' = [mark EXCEPT ![d].cursor = Larger(@, seq)]
  /\ due' = [due EXCEPT ![d] = @ /\ job[d].starting]
  /\ UNCHANGED <<room, disk, index, saved, oldest, net, counts>>

\* stagePushes: what is pushed is still what the scan saw.
IsStageable(d, x) ==
  x.source # NoPath => x.source \in DOMAIN disk[d] /\ disk[d][x.source] = x.commit.hash

Staged(d) == Picked(job[d].pushes,
                    {i \in DOMAIN job[d].pushes : IsStageable(d, job[d].pushes[i])})

\* The conflict copies are on the disk before any pull is.
WithCopies(d, staged) ==
  WriteAll(disk[d], {staged[i].commit : i \in
             {j \in DOMAIN staged : staged[j].commit.kind = "conflictCopy"}})

MergeCommit(m) == CommitOf("edit", m.path, m.parent, m.hash, NoPath, FALSE)

\* The commits of the merges, by path.
MergeCommits(merges) ==
  LET order == ByPath(MergedPaths(merges))
  IN  [i \in DOMAIN order |->
         MergeCommit(CHOOSE m \in merges : m.path = order[i])]

\* The rest of the cycle's work on the disk: stage, pull, write the merges.
ExecutePlan(d) ==
  /\ phase[d] = "planned"
  /\ \E order \in PullOrders(job[d].pulls), staged \in {Staged(d)} :
       \E pulled \in {AfterPulls(Local(WithCopies(d, staged), index[d]), order, Len(order))} :
         /\ disk' = [disk EXCEPT ![d] = WriteAll(pulled.disk, job[d].merges)]
         /\ index' = [index EXCEPT ![d] = pulled.index]
         /\ SaveAs(d, pulled.index, mark[d])
         /\ due' = [due EXCEPT ![d] = @ \/ Len(staged) < Len(job[d].pushes)]
         /\ Become(d, "pushing",
              [job[d] EXCEPT !.pulls = {}, !.merges = {},
                 !.pushes = [i \in DOMAIN staged |-> staged[i].commit]
                    \o MergeCommits(job[d].merges)])
  /\ UNCHANGED <<room, mark, oldest, net, counts>>

\* The process ends between two writes of a plan, or before its merges: the
\* state file is the old one.
CrashInPulls(d) ==
  /\ phase[d] \in {"fetching", "planned"}
  /\ Fault
  /\ \E order \in PullOrders(job[d].pulls) :
       \E n \in 0..Len(order) :
         disk' = [disk EXCEPT ![d] =
                    AfterPulls(Local(WithCopies(d, Staged(d)), index[d]),
                               order, n).disk]
  /\ HangUp(d)
  /\ index' = [index EXCEPT ![d] = saved[d].index]
  /\ mark' = [mark EXCEPT ![d] = saved[d].mark]
  /\ UNCHANGED <<room, saved, wire, edits>>

\* A write fails: what came before it stands, and the cycle ends there.
PullFails(d) ==
  /\ WriteFailures
  /\ phase[d] = "planned"
  /\ Fault
  /\ \E order \in PullOrders(job[d].pulls) :
       \E n \in 0..(Len(order) - 1) :
         LET after == AfterPulls(Local(WithCopies(d, Staged(d)), index[d]),
                                 order, n)
         IN  /\ disk' = [disk EXCEPT ![d] = after.disk]
             /\ index' = [index EXCEPT ![d] = after.index]
             /\ SaveAs(d, after.index, mark[d])
  /\ IF job[d].starting THEN HangUp(d)
     ELSE Become(d, "live", Idle) /\ UNCHANGED <<inbox, due, oldest>>
  /\ UNCHANGED <<room, mark, wire, edits>>

-----------------------------------------------------------------------------
(* Pushing *)

\* broadcastOthers for the head, broadcastAll for a conflict copy.
News(e, c, author) ==
  Messages(events', {s \in (seq + 1)..seq' :
                       e \notin author \/ events'[s].path # c.path})

FanOut(c, author) ==
  inbox' = [e \in Device |-> IF phase[e] = "off" THEN inbox[e]
                             ELSE inbox[e] \o News(e, c, author)]

\* applyAckToIndex
Acked(ix, c, head) ==
  MapSet(WithoutKeys(ix, {c.from}), c.path,
         [version |-> head.version, hash |-> c.hash, clock |-> head.clock,
          deleted |-> c.kind = "delete", isFolder |-> c.isFolder])

\* handleConflictReply: whether the winner is what this commit said.
WeWon(d, c, head) == head.clock.dev = d /\ head.hash = c.hash

\* The disk has moved on since the commit was staged.
MovedOn(d, c) ==
  /\ c.kind \notin {"delete", "rename"} /\ ~c.isFolder
  /\ c.path \in DOMAIN disk[d] /\ disk[d][c.path] # c.hash

\* A rename that lost only notes the winner, as a live head; otherwise the
\* winner is pulled.
LostTo(d, c, head) ==
  IF MovedOn(d, c) THEN Local(disk[d], index[d])
  ELSE IF c.kind = "rename"
  THEN Local(disk[d], MapSet(index[d], c.path,
                             [EntryOf(head) EXCEPT !.deleted = FALSE]))
  ELSE ApplyOnePull(Local(disk[d], index[d]), Pull(c.path, NoPath, EntryOf(head)))

\* The seq of an answer moves the cursor.
\* Mutant: it is taken for the next change's.
CursorAfterNext(d, c) == Larger(mark[d].cursor, headSeq'[c.path] + 1)

CursorAfter(d, c) == Larger(mark[d].cursor, headSeq'[c.path])

FoldReply(d, c, head) ==
  LET after == IF WeWon(d, c, head) THEN Local(disk[d], Acked(index[d], c, head))
               ELSE LostTo(d, c, head)
  IN  /\ disk' = [disk EXCEPT ![d] = after.disk]
      /\ index' = [index EXCEPT ![d] = after.index]
      /\ mark' = [mark EXCEPT ![d].cursor = CursorAfter(d, c)]
      /\ due' = [due EXCEPT ![d] = @ \/ (~WeWon(d, c, head) /\ MovedOn(d, c))]

\* What is left to send after the first commit of the queue.
Settle(d, rest) ==
  job' = [job EXCEPT ![d].pushes = rest,
                     ![d].sent = @ \cup {Head(job[d].pushes)}]

\* sendCommit: the room takes the commit, the client its answer.
PushCommit(d) ==
  /\ phase[d] = "pushing" /\ job[d].pushes # <<>>
  /\ LET c == Head(job[d].pushes)
     IN  /\ AcceptCommit(d, c)
         /\ FanOut(c, {d})
         /\ FoldReply(d, c, files'[c.path])
         /\ Settle(d, Tail(job[d].pushes))
  /\ UNCHANGED <<saved, phase, oldest, wire, counts>>

\* PATH_COLLIDES: the path is skipped and reported.
PushCollides(d) ==
  /\ phase[d] = "pushing" /\ job[d].pushes # <<>>
  /\ PathCollides(files, Head(job[d].pushes))
  /\ Settle(d, Tail(job[d].pushes))
  /\ UNCHANGED <<room, local, phase, due, oldest, net, counts>>

\* Any other refusal, or a handler that threw: what is in flight settles,
\* nothing new is sent.
PushRefused(d) ==
  /\ phase[d] = "pushing" /\ job[d].pushes # <<>>
  /\ LET c == Head(job[d].pushes)
     IN  \/ CommitTorn(d, c)
         \/ /\ ~PathCollides(files, c)
            /\ ~ContentKnown(c) \/ UnknownParent(versions, c) \/ NoCopyName(d, c)
            /\ blobs' = IF ContentKnown(c) THEN UpsertedBlobs(FoundInBucket(c)) ELSE blobs
            /\ UNCHANGED <<tables, snapshots, bucket, purged, uploading>>
  /\ \E n \in 0..(PushConcurrency - 1) :
       /\ n < Len(job[d].pushes)
       /\ job' = [job EXCEPT ![d].pushes = SubSeq(Tail(@), 1, n),
                             ![d].failed = TRUE, ![d].tidied = TRUE]
  /\ UNCHANGED <<local, phase, due, oldest, net, counts>>

\* The room takes a commit whose connection is gone.
LateCommit(d) ==
  /\ wire[d] # <<>>
  /\ LET c == Head(wire[d])
     IN  \/ HandleCommit(d, c) /\ FanOut(c, {})
         \/ ~Admitted(c) /\ UNCHANGED <<room, inbox>>
  /\ wire' = [wire EXCEPT ![d] = Tail(@)]
  /\ UNCHANGED <<local, state, counts>>

-----------------------------------------------------------------------------
(* The end of a cycle *)

\* The paths that ceased to exist because their commit landed.
Ceased(d) ==
  {c.path : c \in {x \in job[d].sent :
     /\ x.kind = "delete" /\ ~x.isFolder
     /\ x.path \in DOMAIN index[d] /\ index[d][x.path].deleted}}
  \cup {c.from : c \in {x \in job[d].sent :
     x.kind = "rename" /\ x.from \notin DOMAIN index[d]}}

EmptiedDirs(d) ==
  {dir \in {Parent[p] : p \in Ceased(d)} \ {NoPath} : IsVacant(disk[d], index[d], dir)}

\* The emptied and the stale directories go, the other empty ones are sent.  A
\* stale directory is tried before those within it.
TidyFolders(d) ==
  /\ phase[d] = "pushing" /\ job[d].pushes = <<>> /\ ~job[d].tidied
  /\ LET emptied == EmptiedDirs(d)
         without == WithoutKeys(disk[d], emptied)
         after   == WithoutKeys(without,
                      {p \in job[d].stale : IsVacant(without, index[d], p)})
         folders == Picked(job[d].folders,
                      {i \in DOMAIN job[d].folders : job[d].folders[i] \in DOMAIN after})
     IN  /\ disk' = [disk EXCEPT ![d] = after]
         /\ due' = [due EXCEPT ![d] = @ \/ \E p \in emptied :
                      p \in DOMAIN index[d] /\ index[d][p].isFolder
                        /\ ~index[d][p].deleted]
         /\ job' = [job EXCEPT ![d].tidied = TRUE, ![d].sent = {},
              ![d].pushes = [i \in DOMAIN folders |->
                 CommitOf("edit", folders[i], VersionIn(index[d], folders[i]),
                          NoHash, NoPath, TRUE)]]
  /\ UNCHANGED <<room, index, mark, saved, phase, oldest, net, counts>>

\* Mutant: a cycle that ends clears the reconcile asked for meanwhile.
EndCycleForgets(d) ==
  /\ phase[d] = "pushing" /\ job[d].pushes = <<>> /\ job[d].tidied
  /\ ~job[d].failed
  /\ LET mk == [mark[d] EXCEPT !.synced = Larger(@, job[d].cursor),
                               !.needsFull = FALSE]
     IN  mark' = [mark EXCEPT ![d] = mk] /\ SaveAs(d, index[d], mk)
  /\ Become(d, "live", Idle)
  /\ due' = [due EXCEPT ![d] = FALSE]
  /\ UNCHANGED <<room, disk, index, oldest, net, counts>>

\* syncedThrough is the cursor of the manifest, not of what was acked since.
EndCycle(d) ==
  /\ phase[d] = "pushing" /\ job[d].pushes = <<>> /\ job[d].tidied
  /\ ~job[d].failed
  /\ LET mk == [mark[d] EXCEPT !.synced = Larger(@, job[d].cursor),
                               !.needsFull = FALSE]
     IN  mark' = [mark EXCEPT ![d] = mk] /\ SaveAs(d, index[d], mk)
  /\ Become(d, "live", Idle)
  /\ UNCHANGED <<room, disk, index, due, oldest, net, counts>>

\* A cycle that failed is not tried again by itself; a startup that failed is,
\* by the host, on a new connection.
FailCycle(d) ==
  /\ phase[d] = "pushing" /\ job[d].pushes = <<>> /\ job[d].failed
  /\ SaveAs(d, index[d], mark[d])
  /\ IF job[d].starting THEN HangUp(d)
     ELSE Become(d, "live", Idle) /\ UNCHANGED <<inbox, due, oldest>>
  /\ UNCHANGED <<room, disk, index, mark, wire, counts>>

-----------------------------------------------------------------------------
(* The system *)

UserStep ==
  \E d \in Device :
    \/ \E p \in UserPaths, h \in Hash : UserEdit(d, p, h)
    \/ \E p \in UserPaths : "delete" \in ClientKinds /\ UserDelete(d, p)
    \/ \E p, q \in UserPaths : "rename" \in ClientKinds /\ UserMove(d, p, q)
    \/ \E p \in UserDirs : UserMakeDir(d, p) \/ UserRemoveDir(d, p)

FaultStep ==
  \E d \in Device :
    Disconnect(d) \/ Crash(d) \/ CrashInPulls(d) \/ LoseState(d)
      \/ ChangeFails(d) \/ PullFails(d)

ClientStep(d) ==
  \/ Connect(d)
  \/ ReceiveChange(d) \/ ApplyChange(d)
  \/ BeginCycle(d) \/ ExecutePlan(d)
  \/ PushCommit(d) \/ PushCollides(d) \/ PushRefused(d)
  \/ TidyFolders(d) \/ EndCycle(d) \/ FailCycle(d)

SyncNext ==
  \/ UserStep
  \/ FaultStep
  \/ \E d \in Device : ClientStep(d) \/ LateCommit(d)
  \/ EventsPrune /\ UNCHANGED <<local, state, net, counts>>

SyncSpec == SyncInit /\ [][SyncNext]_all

\* A client's queue runs on, a host dials again after a failure, and the room
\* serves what reached it.
SyncFairness ==
  \A d \in Device : WF_all(ClientStep(d)) /\ WF_all(LateCommit(d))

FairSyncSpec == SyncSpec /\ SyncFairness

-----------------------------------------------------------------------------
(* Properties *)

\* Disks, indexes, cursors and messages hold what the clients store in them; no
\* cursor is ahead of the room's log.
SyncTypeOK ==
  /\ \A d \in Device : IsDisk(disk[d]) /\ IsHeads(index[d]) /\ IsHeads(saved[d].index)
  /\ phase \in [Device -> {"off", "greeted", "replaying", "fetching", "planned",
                           "pushing", "live"}]
  /\ \A d \in Device :
       /\ {mark[d].cursor, mark[d].synced} \subseteq 0..seq /\ oldest[d] \in Nat
       /\ \A i \in DOMAIN inbox[d] : inbox[d][i].change \in Change
       /\ \A i \in DOMAIN wire[d] : wire[d][i] \in CommitMsg
  /\ edits \in 0..MaxEdits /\ faults \in 0..MaxFaults

Contents(files1) == {files1[p] : p \in FilesOn(files1)}

\* A clean merge includes both of the texts it was made from.
Included(h) ==
  {h} \cup UNION {{t[2], t[3]} : t \in {u \in DOMAIN MergeText3 : MergeText3[u] = h}}

Held    == [d \in Device |-> Contents(disk[d])]
History == {versions[id].hash : id \in DOMAIN versions} \ {NoHash}

Promise == INSTANCE NothingLost
             WITH Content  <- Hash,
                  Includes <- [h \in Hash |-> Included(h)],
                  held     <- Held,
                  kept     <- History,
                  writes   <- edits

\* "Nothing is ever silently lost" (REQUIREMENTS.md, FR-5): the devices and the
\* room implement NothingLost.  Whatever a client does to a disk, what was on
\* it stays there, or is part of a merge that is, or is in the room's history.
ContentIsKept == Promise!Spec

\* What a device has ready to send is what the room's module assumes devices
\* send: a parent is a version of the path (of the source, for a rename), a
\* delete carries the hash of what it deletes.  The one exception is a path that
\* the room no longer had and a user wrote again: its parent is ''.
SendsKnownParents ==
  \A d \in Device : phase[d] = "pushing" =>
    \A i \in DOMAIN job[d].pushes :
      LET c == job[d].pushes[i]
      IN  /\ \/ c.parent \in KnownParents(c.kind, IF c.kind = "rename"
                                                  THEN c.from ELSE c.path)
             \/ c.parent = EmptyId /\ c.kind \in {"edit", "restore"}
          /\ c.isFolder \/ c.hash \in SentHashes(c.kind, c.parent)

LiveContents ==
  [p \in {q \in DOMAIN files : ~files[q].deleted /\ ~files[q].isFolder} |->
     files[p].hash]

HoldsLiveFiles(d) == [p \in FilesOn(disk[d]) |-> disk[d][p]] = LiveContents

Quiet(d) ==
  phase[d] = "live" /\ inbox[d] = <<>> /\ wire[d] = <<>> /\ ~due[d]

\* When no device has anything left to do, every disk holds exactly the files
\* that are live in the room.
QuietMeansSynced ==
  (\A d \in Device : Quiet(d)) => \A d \in Device : HoldsLiveFiles(d)

\* Once the users stop and nothing fails any more, every device comes to rest
\* with the live files of the room, and stays there.
Convergence == <>[](\A d \in Device : Quiet(d) /\ HoldsLiveFiles(d))
=============================================================================
