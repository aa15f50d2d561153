---------------------------- MODULE PluginProofs ----------------------------
(***************************************************************************)
(* What PluginSession promises for any number of starts, queues of any     *)
(* length and any number of faults: a client that was closed with no       *)
(* startup left to dial never dials again.  PluginInv is the inductive     *)
(* invariant: a client is closed only after its startSync has built it,    *)
(* and one that is still in use after it was closed is in use by a plugin  *)
(* that is paused and has no reconnect timer.                              *)
(***************************************************************************)
EXTENDS PluginSession, SequenceTheorems, WellFoundedInduction, TLAPS

\* The queue is empty exactly when no operation is under way, and only a startup
\* reads the state file.
Shaped(k) ==
  /\ k \in Client
  /\ k.ops = <<>> <=> k.stage = "rest"
  /\ k.stage = "load" => k.ops[1] \in Startup

\* What ended has been settled.
Ready(k) == Shaped(k) /\ k.stage \notin Ended

\* Offline, and nothing in the queue that will dial.
Quiet(k) == k.wire # "open" /\ Startups(k) \subseteq {1} /\ k.stage # "load"

Begun == {"connecting", "done"}

PluginInv ==
  /\ start \in [Slot -> {"none", "marker"} \cup Begun]
  /\ client \in [Slot -> Client]
  /\ current \in Slot \cup {0} /\ closed \subseteq Slot
  /\ \A i \in Slot : Ready(client[i])
  /\ \A i \in closed : Quiet(client[i]) /\ start[i] \in Begun
  /\ current # 0 => start[current] \in Begun
  /\ current \in closed => paused /\ ~timer

-----------------------------------------------------------------------------
(* The client's queue *)

\* A non-empty set of positions has a first one.
LEMMA FirstOfQueue ==
  ASSUME NEW S \in SUBSET Nat, S # {}
  PROVE  \E j \in S : \A l \in S : j <= l
  <1>1. PICK j \in S : \A l \in S : ~(<<l, j>> \in OpToRel(<, Nat))
    BY NatLessThanWellFounded, WFMin
  <1>2. \A l \in S : ~(l < j)
    BY <1>1 DEF OpToRel
  <1> QED
    BY <1>2

\* An operation that begins: only a startup reads the state file, and no
\* operation dials as it begins.
LEMMA BeginReady ==
  ASSUME NEW k \in Client, k.ops # <<>>
  PROVE  LET b == Begin(k)
         IN  /\ Ready(b) /\ b.ops = k.ops
             /\ k.wire # "open" => b.wire # "open"
             /\ k.ops[1] \notin Startup => b.stage # "load"
  <1> DEFINE b == Begin(k)
             Goal == /\ b \in Client /\ b.ops = k.ops
                     /\ b.stage \in {"load", "ask", "work"}
                     /\ k.wire # "open" => b.wire # "open"
                     /\ b.stage = "load" <=> k.ops[1] \in Startup
  <1>1. k.ops \in Seq(Op) /\ k.ops[1] \in Op
    BY DEF Client
  <1> SUFFICES Goal
    <2> HIDE DEF b
    <2> QED
      BY DEF Ready, Shaped, Ended, b
  <1>2. CASE k.ops[1] = "connect"
    <2>1. b = BeginStartup(k)
      BY <1>2 DEF Begin
    <2> HIDE DEF b
    <2> QED
      BY <1>2, <2>1 DEF BeginStartup, Client, Stage, Startup
  <1>3. CASE k.ops[1] = "reconnect"
    <2>1. b = BeginStartup([k EXCEPT !.wire = "none"])
      BY <1>3 DEF Begin
    <2> HIDE DEF b
    <2> QED
      BY <1>3, <2>1 DEF BeginStartup, Client, Stage, Startup
  <1>4. CASE k.ops[1] = "cycle"
    <2>1. b = RunCycle(k)
      BY <1>4 DEF Begin
    <2> HIDE DEF b
    <2> QED
      BY <1>4, <2>1 DEF RunCycle, Client, Stage, Startup
  <1>5. CASE k.ops[1] = "change"
    <2>1. b = [k EXCEPT !.stage = "work"]
      BY <1>5 DEF Begin
    <2> HIDE DEF b
    <2> QED
      BY <1>5, <2>1 DEF Client, Stage, Startup
  <1> QED
    BY <1>1, <1>2, <1>3, <1>4, <1>5 DEF Op

\* beginNext: a queue without startups, offline, dials nothing.
LEMMA BeginNextReady ==
  ASSUME NEW k \in Client, k.stage = "rest"
  PROVE  /\ Ready(BeginNext(k))
         /\ Startups(k) = {} /\ k.wire # "open" => Quiet(BeginNext(k))
  <1> DEFINE todo == {i \in DOMAIN k.ops : Offline(k) => k.ops[i] # "cycle"}
             first == CHOOSE j \in todo : \A l \in todo : j <= l
             rest == [k EXCEPT !.ops = SubSeq(@, first, Len(@))]
             b == BeginNext(k)
  <1>1. k.ops \in Seq(Op) /\ Len(k.ops) \in Nat /\ DOMAIN k.ops = 1..Len(k.ops)
    BY DEF Client
  <1>2. todo \subseteq 1..Len(k.ops) /\ todo \in SUBSET Nat
    BY <1>1
  <1>3. b = IF todo = {} THEN [k EXCEPT !.ops = <<>>] ELSE Begin(rest)
    BY DEF BeginNext
  <1>4. CASE todo = {}
    <2>1. b = [k EXCEPT !.ops = <<>>] /\ <<>> \in Seq(Op)
      BY <1>3, <1>4
    <2> HIDE DEF b
    <2>2. b \in Client /\ b.ops = <<>> /\ b.stage = "rest" /\ b.wire = k.wire
      BY <2>1 DEF Client
    <2>3. Startups(b) = {}
      BY <2>2 DEF Startups
    <2> QED
      BY <2>2, <2>3 DEF Ready, Shaped, Ended, Quiet, b
  <1>5. CASE todo # {}
    <2>1. first \in todo
      BY <1>2, <1>5, FirstOfQueue
    <2> HIDE DEF first
    <2>2. first \in 1..Len(k.ops)
      BY <1>2, <2>1
    <2> DEFINE t == SubSeq(k.ops, first, Len(k.ops))
    <2>3. t \in Seq(Op) /\ Len(t) = Len(k.ops) - first + 1
          /\ \A i \in 1..Len(t) : t[i] = k.ops[first + i - 1]
      BY <1>1, <2>2, SubSeqProperties, ElementOfSeq
    <2> HIDE DEF t
    <2>4. Len(t) \in Nat /\ Len(t) > 0 /\ DOMAIN t = 1..Len(t) /\ t # <<>>
      BY <1>1, <2>2, <2>3
    <2>5. rest \in Client /\ rest.ops = t /\ rest.wire = k.wire
      BY <2>3 DEF Client, t
    <2> HIDE DEF rest, todo
    <2>6. /\ Ready(b) /\ b.ops = t
          /\ k.wire # "open" => b.wire # "open"
          /\ t[1] \notin Startup => b.stage # "load"
      BY <1>3, <1>5, <2>4, <2>5, BeginReady
    <2> HIDE DEF b
    <2>7. ASSUME Startups(k) = {} PROVE \A i \in 1..Len(t) : t[i] \notin Startup
      <3> SUFFICES ASSUME NEW i \in 1..Len(t) PROVE t[i] \notin Startup
        OBVIOUS
      <3>1. first + i - 1 \in DOMAIN k.ops /\ t[i] = k.ops[first + i - 1]
        BY <1>1, <2>2, <2>3
      <3> QED
        BY <2>7, <3>1 DEF Startups
    <2>8. Startups(k) = {} => Startups(b) = {} /\ t[1] \notin Startup
      BY <2>4, <2>6, <2>7 DEF Startups
    <2> QED
      BY <2>6, <2>8 DEF Quiet, b
  <1> QED
    BY <1>4, <1>5

\* enqueue: an operation that is no startup leaves a quiet client quiet.
LEMMA EnqueueReady ==
  ASSUME NEW k, Ready(k), NEW op \in Op
  PROVE  /\ Ready(Enqueue(k, op))
         /\ op \notin Startup /\ Quiet(k) => Quiet(Enqueue(k, op))
  <1> DEFINE a == [k EXCEPT !.ops = Append(@, op)]
             t == Append(k.ops, op)
  <1>1. k \in Client /\ k.ops \in Seq(Op) /\ Len(k.ops) \in Nat /\ DOMAIN k.ops = 1..Len(k.ops)
    BY DEF Ready, Shaped, Client
  <1>2. /\ t \in Seq(Op) /\ t # <<>> /\ Len(t) = Len(k.ops) + 1 /\ t[Len(k.ops) + 1] = op
        /\ \A i \in 1..Len(k.ops) : t[i] = k.ops[i]
    BY <1>1, AppendProperties
  <1>3. DOMAIN t = 1..(Len(k.ops) + 1)
    BY <1>2
  <1>4. a \in Client /\ a.ops = t /\ a.stage = k.stage /\ a.wire = k.wire
    BY <1>1, <1>2 DEF Client
  <1>5. Enqueue(k, op) = BeginNext(a)
    BY DEF Enqueue
  <1> HIDE DEF t, a
  <1>6. op \notin Startup => Startups(a) = Startups(k)
    BY <1>1, <1>2, <1>3, <1>4 DEF Startups
  <1>7. CASE k.stage = "rest"
    <2>1. Startups(k) = {}
      BY <1>7 DEF Ready, Shaped, Startups
    <2> QED
      BY <1>4, <1>5, <1>6, <1>7, <2>1, BeginNextReady DEF Quiet
  <1>8. CASE k.stage # "rest"
    <2>1. Enqueue(k, op) = a
      BY <1>4, <1>5, <1>8 DEF BeginNext
    <2>2. k.ops # <<>> /\ t[1] = k.ops[1]
      BY <1>1, <1>2, <1>8 DEF Ready, Shaped
    <2>3. Ready(a)
      BY <1>2, <1>4, <1>8, <2>2 DEF Ready, Shaped
    <2> QED
      BY <1>4, <1>6, <2>1, <2>3 DEF Quiet
  <1> QED
    BY <1>7, <1>8

\* The operation at the front is settled.  Only it may have been a startup, so
\* what is left of the queue dials nothing.
LEMMA SettleReady ==
  ASSUME NEW k \in Client, k.ops # <<>>
  PROVE  /\ Ready(Settle(k))
         /\ Startups(k) \subseteq {1} /\ k.wire # "open" => Quiet(Settle(k))
  <1> DEFINE a == [k EXCEPT !.ops = Tail(@), !.stage = "rest"]
             t == Tail(k.ops)
  <1>1. /\ k.ops \in Seq(Op) /\ Len(k.ops) \in Nat /\ DOMAIN k.ops = 1..Len(k.ops)
        /\ Len(k.ops) >= 1
    BY DEF Client
  <1>2. t \in Seq(Op) /\ Len(t) = Len(k.ops) - 1 /\ \A i \in 1..Len(t) : t[i] = k.ops[i + 1]
    BY <1>1, HeadTailProperties
  <1>3. DOMAIN t = 1..(Len(k.ops) - 1)
    BY <1>1, <1>2
  <1>4. a \in Client /\ a.ops = t /\ a.stage = "rest" /\ a.wire = k.wire
    BY <1>2 DEF Client, Stage
  <1>5. Settle(k) = BeginNext(a)
    BY DEF Settle
  <1> HIDE DEF t, a
  <1>6. ASSUME Startups(k) \subseteq {1} PROVE Startups(a) = {}
    <2> SUFFICES ASSUME NEW i \in 1..(Len(k.ops) - 1), t[i] \in Startup PROVE FALSE
      BY <1>3, <1>4 DEF Startups
    <2>1. i + 1 \in DOMAIN k.ops /\ k.ops[i + 1] \in Startup /\ i + 1 # 1
      BY <1>1, <1>2
    <2> QED
      BY <1>6, <2>1 DEF Startups
  <1> QED
    BY <1>4, <1>5, <1>6, BeginNextReady

-----------------------------------------------------------------------------
(* The steps of a client *)

\* What the operation at the front does: only a startup that has read its state
\* file opens a connection.
LEMMA OperationReady ==
  ASSUME NEW k, Ready(k),
         NEW n \in Progress(k) \cup Finish(k) \cup FinishLater(k) \cup Answered(k) \cup Trouble(k)
  PROVE  Shaped(n) /\ (Quiet(k) => Quiet(n))
  <1> DEFINE Good(m) == /\ m \in Client /\ m.ops = k.ops /\ m.stage \notin {"rest", "load"}
                        /\ k.stage # "load" => m.wire = k.wire
  <1>1. k \in Client
    BY DEF Ready, Shaped
  <1>2. GoLive(k) \in Client /\ Good(GoLive(k))
    BY <1>1 DEF GoLive, Client, Stage
  <1>3. FailCycle(k) \in Client /\ Good(FailCycle(k))
    BY <1>1 DEF FailCycle, Client, Stage
  <1>4. RunCycle(k) \in Client /\ Good(RunCycle(k))
    BY <1>1 DEF RunCycle, Client, Stage
  <1>5. Good(Ask(k))
    <2>1. CASE k.wire = "open"
      <3>1. Ask(k) = [k EXCEPT !.stage = "ask"]
        BY <2>1 DEF Ask
      <3> QED
        BY <1>1, <3>1 DEF Client, Stage
    <2>2. CASE k.wire # "open"
      <3>1. Ask(k) = FailCycle(k)
        BY <2>2 DEF Ask
      <3> QED
        BY <1>3, <3>1
    <2> QED
      BY <2>1, <2>2
  <1>6. \A f \in Finish(k) : Good(f) /\ k.stage = "work"
    <2>1. CASE k.stage = "work" /\ k.ops[1] = "change"
      BY <1>1, <2>1 DEF Finish, Client, Stage
    <2>2. CASE k.stage = "work" /\ k.ops[1] # "change"
      BY <1>2, <2>2 DEF Finish
    <2> QED
      BY <2>1, <2>2 DEF Finish
  <1>7. Good(n) /\ k.stage # "rest"
    <2>1. CASE n \in Progress(k)
      <3>1. CASE k.stage = "load"
        BY <1>1, <2>1, <3>1 DEF Progress, Dial, Client, Stage
      <3>2. CASE k.stage = "replay"
        BY <1>2, <1>4, <2>1, <3>2 DEF Progress
      <3>3. CASE k.stage = "work" /\ k.ops[1] # "change"
        BY <1>5, <2>1, <3>3 DEF Progress
      <3> QED
        BY <2>1, <3>1, <3>2, <3>3 DEF Progress
    <2>2. CASE n \in Finish(k)
      BY <1>6, <2>2
    <2>3. CASE n \in FinishLater(k)
      <3>1. PICK f \in Finish(k) : n = [f EXCEPT !.debounce = TRUE]
        BY <2>3 DEF FinishLater
      <3> QED
        BY <1>6, <3>1 DEF Client
    <2>4. CASE n \in Answered(k)
      BY <1>1, <2>4 DEF Answered, Client, Stage
    <2>5. CASE n \in Trouble(k)
      <3>1. CASE k.wire = "open" /\ k.stage = "hello"
        BY <1>1, <2>5, <3>1 DEF Trouble, Client, Stage
      <3> QED
        BY <1>3, <2>5, <3>1 DEF Trouble
    <2> QED
      BY <2>1, <2>2, <2>3, <2>4, <2>5
  <1> QED
    BY <1>7 DEF Ready, Shaped, Quiet, Startups

\* A connection that is lost.
LEMMA LoseReady ==
  ASSUME NEW k, Ready(k)
  PROVE  Shaped(Lose(k)) /\ (Quiet(k) => Quiet(Lose(k)))
  <1> DEFINE l == Lose(k)
  <1>1. k \in Client
    BY DEF Ready, Shaped
  <1>2. /\ l \in Client /\ l.ops = k.ops /\ l.wire = "closed"
        /\ l.stage = k.stage \/ (l.stage = "failed" /\ k.stage \in {"hello", "ask"})
    BY <1>1 DEF Lose, Rejected, Client, Stage
  <1> HIDE DEF l
  <1> QED
    BY <1>2 DEF Ready, Shaped, Quiet, Startups, l

\* close: whatever the client was doing, it is quiet afterwards unless one of its
\* startups had yet to dial.
LEMMA CloseReady ==
  ASSUME NEW k, Ready(k)
  PROVE  Ready(AfterClose(k)) /\ (~WillDial(k) => Quiet(AfterClose(k)))
  <1> DEFINE c == Close(k)
             w == StartWatching(c)
  <1>1. k \in Client
    BY DEF Ready, Shaped
  <1>2. /\ c \in Client /\ c.ops = k.ops /\ c.wire = "none"
        /\ c.stage = k.stage \/ (c.stage = "failed" /\ k.stage \in {"hello", "ask"})
    BY <1>1 DEF Close, Rejected, Client, Stage
  <1> HIDE DEF c
  <1>3. w \in Client /\ w.ops = c.ops /\ w.wire = "none"
    BY <1>2 DEF StartWatching, Client
  <1> HIDE DEF w
  <1>4. AfterClose(k) = IF c.stage \notin Ended THEN c
                        ELSE Settle(IF c.ops[1] = "connect" THEN w ELSE c)
    BY DEF AfterClose, c, w
  <1>5. ~WillDial(k) => Startups(k) \subseteq {1}
    <2> SUFFICES ASSUME ~WillDial(k), NEW i \in Startups(k) PROVE i = 1
      OBVIOUS
    <2>1. i \in 1..Len(k.ops)
      BY <1>1 DEF Startups, Client
    <2>2. ~(i > 1)
      BY DEF WillDial
    <2> QED
      BY <2>1, <2>2
  <1>6. ~WillDial(k) => k.stage # "load"
    <2>1. k.stage = "load" => k.ops # <<>> /\ 1 \in Startups(k)
      BY <1>1 DEF Ready, Shaped, Startups, Client
    <2> QED
      BY <2>1 DEF WillDial
  <1>7. Startups(c) = Startups(k) /\ Startups(w) = Startups(k)
    BY <1>2, <1>3 DEF Startups
  <1>8. CASE c.stage \notin Ended
    <2>1. AfterClose(k) = c /\ c.stage = k.stage
      BY <1>2, <1>4, <1>8 DEF Ended
    <2> QED
      BY <1>2, <1>5, <1>6, <1>7, <1>8, <2>1 DEF Ready, Shaped, Quiet
  <1>9. CASE c.stage \in Ended
    <2>1. c.ops # <<>>
      BY <1>2, <1>9 DEF Ready, Shaped, Ended
    <2>2. PICK m \in {c, w} : AfterClose(k) = Settle(m)
      BY <1>4, <1>9
    <2>3. m \in Client /\ m.ops # <<>> /\ m.wire = "none" /\ Startups(m) = Startups(k)
      BY <1>2, <1>3, <1>7, <2>1, <2>2
    <2> QED
      BY <1>5, <2>2, <2>3, SettleReady
  <1> QED
    BY <1>8, <1>9

-----------------------------------------------------------------------------
(* The steps of the plugin *)

\* One client changes, and no more of what the invariant is about: a reconnect is
\* scheduled only by a plugin that is not paused.
LEMMA ClientKeeps ==
  ASSUME PluginInv, NEW i \in Slot, NEW k, Ready(k), Quiet(client[i]) => Quiet(k),
         client' = [client EXCEPT ![i] = k],
         start' \in {start, [start EXCEPT ![i] = "done"]},
         UNCHANGED <<current, paused, closed>>,
         timer' => timer \/ ~paused
  PROVE  PluginInv'
  <1>1. k \in Client
    BY DEF Ready, Shaped
  <1>2. client' \in [Slot -> Client]
    BY <1>1 DEF PluginInv
  <1>3. \A j \in Slot : client'[j] = IF j = i THEN k ELSE client[j]
    BY DEF PluginInv
  <1>4. /\ start' \in [Slot -> {"none", "marker"} \cup Begun]
        /\ \A j \in Slot : start[j] \in Begun => start'[j] \in Begun
    BY DEF PluginInv, Begun
  <1>5. \A j \in Slot : Ready(client'[j])
    BY <1>3 DEF PluginInv
  <1>6. \A j \in closed' : Quiet(client'[j]) /\ start'[j] \in Begun
    BY <1>3, <1>4 DEF PluginInv
  <1>7. current' # 0 => start'[current'] \in Begun
    BY <1>4 DEF PluginInv
  <1>8. current' \in closed' => paused' /\ ~timer'
    BY DEF PluginInv
  <1> QED
    BY <1>2, <1>4, <1>5, <1>6, <1>7, <1>8 DEF PluginInv

\* What follows an operation that ended.
LEMMA ReactKeeps ==
  ASSUME PluginInv, NEW i \in Slot, NEW k, Shaped(k), Quiet(client[i]) => Quiet(k),
         React(i, k)
  PROVE  PluginInv'
  <1> DEFINE w == StartWatching(k)
  <1>1. k \in Client
    BY DEF Shaped
  <1>2. w \in Client /\ w.ops = k.ops /\ w.wire = k.wire
    BY <1>1 DEF StartWatching, Client
  <1> HIDE DEF w
  <1>3. Startups(w) = Startups(k)
    BY <1>2 DEF Startups
  <1>4. UNCHANGED <<current, paused, closed>>
    BY DEF React
  <1>5. CASE k.stage \notin Ended
    <2>1. client' = [client EXCEPT ![i] = k] /\ UNCHANGED <<start, timer>>
      BY <1>5 DEF React, timers
    <2>2. Ready(k)
      BY <1>5 DEF Ready
    <2> QED
      BY <1>4, <2>1, <2>2, ClientKeeps
  <1>6. CASE k.stage \in Ended
    <2>1. k.ops # <<>> /\ w.ops # <<>>
      BY <1>2, <1>6 DEF Shaped, Ended
    <2>2. /\ Ready(Settle(k)) /\ (Quiet(client[i]) => Quiet(Settle(k)))
          /\ Ready(Settle(w)) /\ (Quiet(client[i]) => Quiet(Settle(w)))
      BY <1>1, <1>2, <1>3, <2>1, SettleReady DEF Quiet
    <2>3. CASE k.ops[1] = "connect"
      <3>1. StartEnds(i, k)
        BY <1>6, <2>3 DEF React
      <3>2. /\ client' = [client EXCEPT ![i] = Settle(w)]
            /\ start' = [start EXCEPT ![i] = "done"]
        BY <3>1 DEF StartEnds, w
      <3>3. timer' => timer \/ ~paused
        BY <3>1 DEF StartEnds, Supervise, OnTick
      <3> QED
        BY <1>4, <2>2, <3>2, <3>3, ClientKeeps
    <2>4. CASE k.ops[1] = "reconnect"
      <3>1. ReconnectEnds(i, k)
        BY <1>6, <2>4 DEF React
      <3>2. client' = [client EXCEPT ![i] = Settle(k)] /\ UNCHANGED <<start, timer>>
        BY <3>1 DEF ReconnectEnds
      <3> QED
        BY <1>4, <2>2, <3>2, ClientKeeps
    <2>5. CASE k.ops[1] \notin {"connect", "reconnect"}
      <3>1. client' = [client EXCEPT ![i] = Settle(k)] /\ UNCHANGED <<start, timer>>
        BY <1>6, <2>5 DEF React
      <3> QED
        BY <1>4, <2>2, <3>1, ClientKeeps
    <2> QED
      BY <2>3, <2>4, <2>5
  <1> QED
    BY <1>5, <1>6

\* A teardown after which the plugin has no client, or is paused with the one it
\* has; a new startSync takes a slot that no client has had.
LEMMA TearDownKeeps ==
  ASSUME PluginInv, NEW ticking, TearDown(ticking),
         \/ start' = Ends /\ (current' = 0 \/ (current' = current /\ paused'))
         \/ current' = 0 /\ \E i \in Slot : start[i] = "none"
                                         /\ start' = [Ends EXCEPT ![i] = "marker"]
  PROVE  PluginInv'
  <1> DEFINE new == {i \in Slot : i = current /\ ~WillDial(client[i])}
  <1>1. /\ client' = [i \in Slot |-> IF i = current THEN AfterClose(client[i]) ELSE client[i]]
        /\ closed' = closed \cup new /\ timer' = FALSE
    BY DEF TearDown
  <1>2. \A i \in Slot : Quiet(client[i]) => ~WillDial(client[i])
    BY DEF Quiet, WillDial, PluginInv
  <1>3. \A i \in Slot : Ready(client'[i])
    BY <1>1, CloseReady DEF PluginInv
  <1>4. client' \in [Slot -> Client]
    BY <1>1, <1>3 DEF PluginInv, Ready, Shaped
  <1>5. \A i \in closed' : i \in Slot /\ Quiet(client'[i])
    <2> SUFFICES ASSUME NEW i \in closed' PROVE i \in Slot /\ Quiet(client'[i])
      OBVIOUS
    <2>1. i \in Slot /\ (i \in closed \/ i \in new)
      BY <1>1 DEF PluginInv
    <2>2. CASE i = current
      <3>1. ~WillDial(client[i])
        BY <1>2, <2>1 DEF PluginInv
      <3> QED
        BY <1>1, <2>1, <2>2, <3>1, CloseReady DEF PluginInv
    <2>3. CASE i # current
      BY <1>1, <2>1, <2>3 DEF PluginInv
    <2> QED
      BY <2>1, <2>2, <2>3
  <1>6. \A i \in closed' : i \in closed \/ i = current
    BY <1>1
  <1>7. /\ Ends \in [Slot -> {"none", "marker"} \cup Begun]
        /\ \A i \in Slot : start[i] \in Begun => Ends[i] \in Begun
    BY DEF Ends, PluginInv, Begun
  <1>8. 0 \notin Slot
    BY DEF Slot
  <1>9. \A i \in closed' : start[i] \in Begun
    BY <1>5, <1>6, <1>8 DEF PluginInv
  <1> HIDE DEF new
  <1>10. CASE start' = Ends /\ (current' = 0 \/ (current' = current /\ paused'))
    BY <1>1, <1>3, <1>4, <1>5, <1>7, <1>8, <1>9, <1>10 DEF PluginInv
  <1>11. ASSUME current' = 0, NEW i \in Slot, start[i] = "none",
                start' = [Ends EXCEPT ![i] = "marker"]
         PROVE  PluginInv'
    <2>1. /\ start' \in [Slot -> {"none", "marker"} \cup Begun]
          /\ \A j \in Slot : start[j] \in Begun => start'[j] \in Begun
      BY <1>7, <1>11 DEF Begun
    <2> QED
      BY <1>1, <1>3, <1>4, <1>5, <1>8, <1>9, <1>11, <2>1 DEF PluginInv
  <1> QED
    BY <1>10, <1>11

\* startSync up to its first await.
LEMMA StartSyncKeeps ==
  ASSUME PluginInv, StartSync
  PROVE  PluginInv'
  BY TearDownKeeps DEF StartSync, StopSync

\* Every step keeps the invariant.
LEMMA PluginStep ==
  ASSUME PluginInv, [Next]_vars
  PROVE  PluginInv'
  <1>1. ASSUME NEW i \in Slot, NEW k, Ready(k), Quiet(client[i]) => Quiet(k), Becomes(i, k)
        PROVE  PluginInv'
    BY <1>1, ClientKeeps DEF Becomes, flags
  <1>2. ASSUME NEW i \in Slot, NEW op \in Op \ Startup, Becomes(i, Enqueue(client[i], op))
        PROVE  PluginInv'
    <2>1. Ready(client[i])
      BY DEF PluginInv
    <2> QED
      BY <1>1, <1>2, <2>1, EnqueueReady
  <1>3. "cycle" \in Op \ Startup /\ "change" \in Op \ Startup /\ {"connect", "reconnect"} \subseteq Op
    BY DEF Op, Startup
  <1>4. ASSUME UNCHANGED <<start, client, current, closed, paused>>, timer' => timer \/ ~paused
        PROVE  PluginInv'
    BY <1>4 DEF PluginInv
  <1>5. CASE Load \/ Paired \/ ResumeSyncing \/ ApplyIgnorePatterns
    <2>1. StartSync \/ UNCHANGED <<start, client, current, closed, paused, timer>>
      BY <1>5 DEF Load, Paired, ResumeSyncing, ApplyIgnorePatterns, flags
    <2> QED
      BY <1>4, <2>1, StartSyncKeeps
  <1>6. CASE SyncNow
    <2>1. CASE StartSync
      BY <2>1, StartSyncKeeps
    <2>2. CASE current # 0 /\ Becomes(current, Enqueue(client[current], "cycle"))
      BY <1>2, <1>3, <2>2 DEF PluginInv
    <2> QED
      BY <1>6, <2>1, <2>2 DEF SyncNow
  <1>7. CASE PauseSyncing
    BY <1>7, TearDownKeeps DEF PauseSyncing
  <1>8. CASE Unlink \/ Unload
    BY <1>8, TearDownKeeps DEF Unlink, Unload, StopSync
  <1>9. CASE Unlinked \/ Tick \/ UNCHANGED vars
    BY <1>4, <1>9 DEF Unlinked, Tick, Supervise, OnTick, WatchesOver, flags, vars
  <1>10. CASE TimerFires
    <2>1. CASE current = 0
      BY <1>4, <1>10, <2>1 DEF TimerFires, flags
    <2>2. CASE current # 0
      <3>1. /\ current \in Slot /\ Ready(client[current]) /\ current \notin closed
        BY <1>10, <2>2 DEF TimerFires, PluginInv
      <3>2. Ready(Enqueue(client[current], "reconnect"))
        BY <1>3, <3>1, EnqueueReady
      <3>3. /\ client' = [client EXCEPT ![current] = Enqueue(client[current], "reconnect")]
            /\ timer' = FALSE /\ UNCHANGED <<start, current, closed, paused>>
        BY <1>10, <2>2 DEF TimerFires, flags
      <3> DEFINE k == Enqueue(client[current], "reconnect")
      <3> HIDE DEF k
      <3> QED
        BY <3>1, <3>2, <3>3 DEF PluginInv, Ready, Shaped
    <2> QED
      BY <2>1, <2>2
  <1>11. ASSUME NEW i \in Slot, MarkerRead(i) PROVE PluginInv'
    <2> DEFINE k == Enqueue(client[i], "connect")
    <2>1. Ready(client[i]) /\ start[i] = "marker" /\ i \notin closed
      BY <1>11 DEF MarkerRead, PluginInv, Begun
    <2>2. Ready(k)
      BY <1>3, <2>1, EnqueueReady
    <2>3. /\ client' = [client EXCEPT ![i] = k] /\ start' = [start EXCEPT ![i] = "connecting"]
          /\ current' = i /\ UNCHANGED <<closed, paused, timer>>
      BY <1>11 DEF MarkerRead
    <2> HIDE DEF k
    <2>4. k \in Client
      BY <2>2 DEF Ready, Shaped
    <2>5. /\ start' \in [Slot -> {"none", "marker"} \cup Begun]
          /\ start'[i] \in Begun
          /\ \A j \in Slot : start[j] \in Begun => start'[j] \in Begun
      BY <2>3 DEF PluginInv, Begun
    <2>6. /\ client' \in [Slot -> Client]
          /\ \A j \in Slot : client'[j] = IF j = i THEN k ELSE client[j]
      BY <2>3, <2>4 DEF PluginInv
    <2>7. \A j \in Slot : Ready(client'[j])
      BY <2>2, <2>6 DEF PluginInv
    <2>8. \A j \in closed : j \in Slot /\ Quiet(client'[j]) /\ start'[j] \in Begun
      BY <2>1, <2>5, <2>6 DEF PluginInv
    <2> QED
      BY <2>1, <2>3, <2>5, <2>6, <2>7, <2>8 DEF PluginInv
  <1>12. ASSUME NEW i \in Slot, \/ ClientRuns(i) \/ ClientFinishes(i) \/ ClientDefers(i)
                               \/ ServerAnswers(i) \/ ClientFails(i) \/ Drop(i)
         PROVE  PluginInv'
    <2>1. Ready(client[i])
      BY DEF PluginInv
    <2>2. \E k : React(i, k) /\ Shaped(k) /\ (Quiet(client[i]) => Quiet(k))
      BY <1>12, <2>1, OperationReady, LoseReady
         DEF ClientRuns, ClientFinishes, ClientDefers, ServerAnswers, ClientFails, Drop
    <2> QED
      BY <2>2, ReactKeeps
  <1>13. ASSUME NEW i \in Slot, ChangeArrives(i) \/ Forward(i) \/ DebounceFires(i) \/ Rescan(i)
         PROVE  PluginInv'
    <2>1. Ready(client[i]) /\ client[i] \in Client
      BY DEF PluginInv
    <2>2. ASSUME NEW b \in BOOLEAN
          PROVE  LET k == [client[i] EXCEPT !.debounce = b]
                 IN  Ready(k) /\ (Quiet(client[i]) => Quiet(k))
      BY <2>1 DEF Ready, Shaped, Quiet, Startups, Client
    <2>3. CASE ChangeArrives(i)
      <3>1. Becomes(i, client[i]) \/ Becomes(i, Enqueue(client[i], "change"))
        BY <2>3 DEF ChangeArrives, Pushed
      <3> QED
        BY <1>1, <1>2, <1>3, <2>1, <3>1
    <2>4. CASE Forward(i)
      BY <1>1, <2>2, <2>4 DEF Forward, OnWatchEvents
    <2>5. CASE DebounceFires(i)
      <3> DEFINE k == [client[i] EXCEPT !.debounce = FALSE]
      <3>1. Ready(k) /\ (Quiet(client[i]) => Quiet(k))
        BY <2>2
      <3>2. Becomes(i, Enqueue(k, "cycle"))
        BY <2>5 DEF DebounceFires, Reconcile
      <3> HIDE DEF k
      <3> QED
        BY <1>1, <1>3, <3>1, <3>2, EnqueueReady
    <2>6. CASE Rescan(i)
      BY <1>2, <1>3, <2>6 DEF Rescan
    <2> QED
      BY <1>13, <2>3, <2>4, <2>5, <2>6
  <1> QED
    BY <1>5, <1>6, <1>7, <1>8, <1>9, <1>10, <1>11, <1>12, <1>13 DEF Next

-----------------------------------------------------------------------------

\* A client that pauseSyncing, stopSync, unlink or onunload closed after its last
\* startup had dialled stays offline for good: whatever timer, tick, rescan, vault
\* event or user action comes later, in whatever order, nothing opens a connection
\* of it or queues a startup on it.
THEOREM ClosedForGood == Spec => []ClosedStaysOffline
  <1>1. Init => PluginInv
    <2> SUFFICES ASSUME Init PROVE PluginInv
      OBVIOUS
    <2>1. NewClient \in Client /\ NewClient.ops = <<>> /\ NewClient.stage = "rest"
      BY DEF NewClient, Client, Stage
    <2>2. Ready(NewClient)
      BY <2>1 DEF Ready, Shaped, Ended
    <2>3. 0 \notin Slot
      BY DEF Slot
    <2> QED
      BY <2>1, <2>2, <2>3 DEF Init, PluginInv
  <1>2. PluginInv /\ [Next]_vars => PluginInv'
    BY PluginStep
  <1>3. PluginInv => ClosedStaysOffline
    BY DEF PluginInv, ClosedStaysOffline, Quiet
  <1> QED
    BY <1>1, <1>2, <1>3, PTL DEF Spec
=============================================================================
