---------------------------- MODULE DaemonProofs ----------------------------
(***************************************************************************)
(* What DaemonSession promises for any number of vaults, queues of any     *)
(* length and any number of faults.  DaemonInv is the inductive invariant: *)
(* the flag busy stands for the one startup in the client's queue, a retry *)
(* timer only runs for a session that is disconnected and not busy, and    *)
(* once the manager stops every session is either closing or closed.       *)
(***************************************************************************)
EXTENDS DaemonSession, SequenceTheorems, FiniteSetTheorems, WellFoundedInduction, TLAPS

\* The queue is empty exactly when no operation is under way, and an operation
\* that has ended has been settled.
Settled(k) == (k.ops = <<>> <=> k.stage = "rest") /\ k.stage \notin Ended

HasStartup(k) == \E i \in DOMAIN k.ops : k.ops[i] \in Startup
OneStartup(k) == \A i, j \in DOMAIN k.ops : k.ops[i] \in Startup /\ k.ops[j] \in Startup => i = j

\* Nothing of the client goes on.
Over(k) == k.ops = <<>> /\ k.wire = "none" /\ ~k.watching /\ ~k.debounce

Halting == mode \in {"stopping", "end"}

\* A session, its queue and its flags.
SessionInv(v) ==
  /\ Settled(client[v]) /\ OneStartup(client[v])
  /\ busy[v] = HasStartup(client[v])
  /\ retry[v] => ~busy[v] /\ phase[v] = "disconnected" /\ ~stopped[v]
  /\ v \notin launched => Over(client[v]) /\ ~retry[v]

\* A session and the manager's stop.
StopInv(v) ==
  /\ stopped[v] = (Halting /\ v \in launched)
  /\ closing[v] => v \in launched
  /\ Halting /\ v \in launched => closing[v] \/ Over(client[v])
  /\ mode = "end" => ~closing[v]

DaemonInv ==
  /\ DaemonTypeOK
  /\ \A v \in Vault : SessionInv(v) /\ StopInv(v)
  /\ ticker => mode = "on"
  /\ mode = "off" => launched = {}

-----------------------------------------------------------------------------
(* The client's queue *)

\* A non-empty set of positions has a first one.
LEMMA FirstPosition ==
  ASSUME NEW S \in SUBSET Nat, S # {}
  PROVE  \E j \in S : \A l \in S : j <= l
  <1>1. PICK j \in S : \A l \in S : ~(<<l, j>> \in OpToRel(<, Nat))
    BY NatLessThanWellFounded, WFMin
  <1>2. \A l \in S : ~(l < j)
    BY <1>1 DEF OpToRel
  <1> QED BY <1>2

\* t is s without its first n operations, all of them cycles.
SkipsCycles(s, t, n) ==
  /\ Len(t) = Len(s) - n
  /\ \A i \in 1..Len(t) : t[i] = s[i + n]
  /\ \A i \in 1..n : s[i] = "cycle"

\* Begin changes the front operation's stage and the connection, no more.
LEMMA BeginKeeps ==
  ASSUME NEW k \in Client, k.ops # <<>>
  PROVE  /\ Begin(k) \in Client
         /\ Begin(k).ops = k.ops /\ Begin(k).watching = k.watching /\ Begin(k).debounce = k.debounce
         /\ Begin(k).stage \in {"load", "ask", "work"}
  <1>1. k.ops \in Seq(Op) /\ k.ops[1] \in Op
    BY DEF Client
  <1>2. CASE k.ops[1] = "connect"
    BY <1>2 DEF Begin, BeginStartup, Client, Stage
  <1>3. CASE k.ops[1] = "reconnect"
    BY <1>3 DEF Begin, BeginStartup, Client, Stage
  <1>4. CASE k.ops[1] = "cycle"
    BY <1>4 DEF Begin, RunCycle, Client, Stage
  <1>5. CASE k.ops[1] = "change"
    BY <1>5 DEF Begin, Client, Stage
  <1> QED BY <1>1, <1>2, <1>3, <1>4, <1>5 DEF Op

\* beginNext passes over cycles and over nothing else.
LEMMA BeginNextKeeps ==
  ASSUME NEW k \in Client, k.stage = "rest"
  PROVE  LET b == BeginNext(k)
         IN  /\ b \in Client /\ Settled(b)
             /\ b.watching = k.watching /\ b.debounce = k.debounce
             /\ \E n \in 0..Len(k.ops) : SkipsCycles(k.ops, b.ops, n)
  <1> DEFINE todo == {i \in DOMAIN k.ops : Offline(k) => k.ops[i] # "cycle"}
             first == CHOOSE j \in todo : \A l \in todo : j <= l
             rest == [k EXCEPT !.ops = SubSeq(@, first, Len(@))]
             b == BeginNext(k)
  <1>1. k.ops \in Seq(Op) /\ Len(k.ops) \in Nat /\ DOMAIN k.ops = 1..Len(k.ops)
    BY DEF Client
  <1>2. todo \subseteq 1..Len(k.ops) /\ todo \in SUBSET Nat
    BY <1>1
  <1>3. b = IF todo = {} THEN [k EXCEPT !.ops = <<>>] ELSE Begin(rest)
    BY DEF BeginNext
  <1>4. CASE todo = {}
    <2>1. \A i \in 1..Len(k.ops) : k.ops[i] = "cycle"
      BY <1>1, <1>4
    <2>a. b = [k EXCEPT !.ops = <<>>] /\ <<>> \in Seq(Op)
      BY <1>3, <1>4
    <2>2. b \in Client /\ b.ops = <<>> /\ b.stage = "rest" /\ b.watching = k.watching
          /\ b.debounce = k.debounce
      BY <2>a DEF Client
    <2>3. SkipsCycles(k.ops, b.ops, Len(k.ops))
      BY <1>1, <2>1, <2>2 DEF SkipsCycles
    <2> QED BY <1>1, <2>2, <2>3 DEF Settled, Ended
  <1>5. CASE todo # {}
    <2>1. first \in todo /\ \A l \in todo : first <= l
      BY <1>2, <1>5, FirstPosition
    <2> HIDE DEF first
    <2>2. first \in 1..Len(k.ops) /\ \A i \in 1..(first - 1) : k.ops[i] = "cycle"
      BY <1>1, <2>1
    <2> DEFINE t == SubSeq(k.ops, first, Len(k.ops))
    <2>3. t \in Seq(Op) /\ Len(t) = Len(k.ops) - first + 1
          /\ \A i \in 1..Len(t) : t[i] = k.ops[first + i - 1]
      BY <1>1, <2>2, SubSeqProperties, ElementOfSeq
    <2> DEFINE n == first - 1
    <2>a. n \in 0..Len(k.ops) /\ Len(t) = Len(k.ops) - n /\ Len(t) > 0
      BY <1>1, <2>2, <2>3
    <2>b. \A i \in 1..Len(t) : t[i] = k.ops[i + n]
      <3> SUFFICES ASSUME NEW i \in 1..Len(t) PROVE t[i] = k.ops[i + n]
        OBVIOUS
      <3>1. first + i - 1 = i + n
        BY <1>1, <2>2
      <3> QED BY <2>3, <3>1
    <2> HIDE DEF t
    <2>4. SkipsCycles(k.ops, t, n) /\ n \in 0..Len(k.ops) /\ t # <<>>
      BY <2>2, <2>a, <2>b DEF SkipsCycles
    <2> HIDE DEF t
    <2>5. rest \in Client /\ rest.ops = t /\ rest.watching = k.watching /\ rest.debounce = k.debounce
      BY <2>3 DEF Client, t
    <2> HIDE DEF rest, todo
    <2>6. /\ b \in Client /\ b.ops = t /\ b.watching = k.watching /\ b.debounce = k.debounce
          /\ b.stage \in {"load", "ask", "work"}
      BY <1>3, <1>5, <2>4, <2>5, BeginKeeps
    <2> QED BY <2>4, <2>6 DEF Settled, Ended
  <1> QED BY <1>4, <1>5

\* Cycles are no startups.
LEMMA SkipKeepsStartups ==
  ASSUME NEW s \in Seq(Op), NEW t \in Seq(Op), NEW n \in 0..Len(s), SkipsCycles(s, t, n)
  PROVE  /\ (\E i \in DOMAIN s : s[i] \in Startup) <=> (\E i \in DOMAIN t : t[i] \in Startup)
         /\ (\A i, j \in DOMAIN s : s[i] \in Startup /\ s[j] \in Startup => i = j) =>
              (\A i, j \in DOMAIN t : t[i] \in Startup /\ t[j] \in Startup => i = j)
  <1>1. /\ DOMAIN s = 1..Len(s) /\ DOMAIN t = 1..Len(t) /\ Len(s) \in Nat /\ Len(t) \in Nat
        /\ Len(t) = Len(s) - n /\ n \in Nat
    BY DEF SkipsCycles
  <1>2. \A i \in 1..Len(t) : i + n \in 1..Len(s) /\ t[i] = s[i + n]
    BY <1>1 DEF SkipsCycles
  <1>3. \A i \in 1..Len(s) : s[i] \in Startup => i - n \in 1..Len(t) /\ t[i - n] = s[i]
    <2> SUFFICES ASSUME NEW i \in 1..Len(s), s[i] \in Startup
                 PROVE  i - n \in 1..Len(t) /\ t[i - n] = s[i]
      OBVIOUS
    <2>1. ~(i \in 1..n)
      BY DEF SkipsCycles, Startup
    <2>2. i - n \in 1..Len(t) /\ (i - n) + n = i
      BY <1>1, <2>1
    <2> QED BY <1>2, <2>2
  <1>4. (\E i \in DOMAIN s : s[i] \in Startup) <=> (\E i \in DOMAIN t : t[i] \in Startup)
    BY <1>1, <1>2, <1>3
  <1>5. ASSUME \A i, j \in DOMAIN s : s[i] \in Startup /\ s[j] \in Startup => i = j
        PROVE  \A i, j \in DOMAIN t : t[i] \in Startup /\ t[j] \in Startup => i = j
    <2> SUFFICES ASSUME NEW i \in 1..Len(t), NEW j \in 1..Len(t), t[i] \in Startup, t[j] \in Startup
                 PROVE  i = j
      BY <1>1
    <2>1. i + n = j + n
      BY <1>1, <1>2, <1>5
    <2> QED BY <1>1, <2>1
  <1> QED BY <1>4, <1>5

\* beginNext keeps the startups of the queue.
LEMMA BeginNextStartups ==
  ASSUME NEW k \in Client, k.stage = "rest"
  PROVE  /\ HasStartup(BeginNext(k)) = HasStartup(k)
         /\ OneStartup(k) => OneStartup(BeginNext(k))
  <1>1. PICK n \in 0..Len(k.ops) : SkipsCycles(k.ops, BeginNext(k).ops, n)
    BY BeginNextKeeps
  <1>2. k.ops \in Seq(Op) /\ BeginNext(k).ops \in Seq(Op)
    BY BeginNextKeeps DEF Client
  <1> QED BY <1>1, <1>2, SkipKeepsStartups DEF HasStartup, OneStartup

\* An operation that is appended.
LEMMA AppendStartups ==
  ASSUME NEW k \in Client, NEW op \in Op
  PROVE  LET a == [k EXCEPT !.ops = Append(@, op)]
         IN  /\ a \in Client /\ a.ops # <<>> /\ a.stage = k.stage
             /\ a.ops[1] = IF k.ops = <<>> THEN op ELSE k.ops[1]
             /\ a.watching = k.watching /\ a.debounce = k.debounce
             /\ op \notin Startup =>
                  HasStartup(a) = HasStartup(k) /\ (OneStartup(k) => OneStartup(a))
             /\ op \in Startup => HasStartup(a) /\ (~HasStartup(k) => OneStartup(a))
  <1> DEFINE a == [k EXCEPT !.ops = Append(@, op)]
  <1>1. k.ops \in Seq(Op) /\ Len(k.ops) \in Nat /\ DOMAIN k.ops = 1..Len(k.ops)
    BY DEF Client
  <1> DEFINE s == k.ops
             t == Append(k.ops, op)
  <1>2. /\ t \in Seq(Op) /\ t # <<>> /\ Len(t) = Len(s) + 1 /\ t[Len(s) + 1] = op
        /\ \A i \in 1..Len(s) : t[i] = s[i]
    BY <1>1, AppendProperties
  <1>3. DOMAIN t = 1..(Len(s) + 1)
    BY <1>2
  <1>4. a \in Client /\ a.ops = t /\ a.stage = k.stage /\ a.watching = k.watching
        /\ a.debounce = k.debounce
    BY <1>2 DEF Client
  <1>5. t[1] = IF s = <<>> THEN op ELSE s[1]
    BY <1>1, <1>2
  <1> HIDE DEF t, s
  <1>6. op \notin Startup =>
          /\ (\E i \in DOMAIN t : t[i] \in Startup) = (\E i \in DOMAIN s : s[i] \in Startup)
          /\ (\A i, j \in DOMAIN s : s[i] \in Startup /\ s[j] \in Startup => i = j) =>
               (\A i, j \in DOMAIN t : t[i] \in Startup /\ t[j] \in Startup => i = j)
    BY <1>1, <1>2, <1>3 DEF s
  <1>7. op \in Startup =>
          /\ \E i \in DOMAIN t : t[i] \in Startup
          /\ ~(\E i \in DOMAIN s : s[i] \in Startup) =>
               (\A i, j \in DOMAIN t : t[i] \in Startup /\ t[j] \in Startup => i = j)
    BY <1>1, <1>2, <1>3 DEF s
  <1> HIDE DEF a
  <1>8. op \notin Startup => HasStartup(a) = HasStartup(k) /\ (OneStartup(k) => OneStartup(a))
    BY <1>4, <1>6 DEF HasStartup, OneStartup, s
  <1>9. op \in Startup => HasStartup(a) /\ (~HasStartup(k) => OneStartup(a))
    BY <1>4, <1>7 DEF HasStartup, OneStartup, s
  <1> QED BY <1>2, <1>4, <1>5, <1>8, <1>9 DEF a, s

\* enqueue: a startup becomes the only one of a queue that had none.
LEMMA EnqueueKeeps ==
  ASSUME NEW k \in Client, k.ops = <<>> <=> k.stage = "rest", NEW op \in Op
  PROVE  LET b == Enqueue(k, op)
         IN  /\ b \in Client
             /\ k.stage \notin Ended => Settled(b)
             /\ k.stage # "rest" => b.stage = k.stage /\ b.ops # <<>> /\ b.ops[1] = k.ops[1]
             /\ b.watching = k.watching /\ b.debounce = k.debounce
             /\ op \notin Startup =>
                  HasStartup(b) = HasStartup(k) /\ (OneStartup(k) => OneStartup(b))
             /\ op \in Startup => HasStartup(b) /\ (~HasStartup(k) => OneStartup(b))
  <1> DEFINE a == [k EXCEPT !.ops = Append(@, op)]
  <1>1. /\ a \in Client /\ a.ops # <<>> /\ a.stage = k.stage
        /\ a.ops[1] = IF k.ops = <<>> THEN op ELSE k.ops[1]
        /\ a.watching = k.watching /\ a.debounce = k.debounce
        /\ op \notin Startup =>
             HasStartup(a) = HasStartup(k) /\ (OneStartup(k) => OneStartup(a))
        /\ op \in Startup => HasStartup(a) /\ (~HasStartup(k) => OneStartup(a))
    BY AppendStartups
  <1>2. Enqueue(k, op) = BeginNext(a)
    BY DEF Enqueue
  <1> HIDE DEF a
  <1>3. CASE k.stage = "rest"
    BY <1>1, <1>2, <1>3, BeginNextKeeps, BeginNextStartups
  <1>4. CASE k.stage # "rest"
    <2>1. Enqueue(k, op) = a
      BY <1>1, <1>2, <1>4 DEF BeginNext
    <2> QED BY <1>1, <1>4, <2>1 DEF Settled
  <1> QED BY <1>3, <1>4

\* The operation at the front is settled: its startup, if it was one, is gone.
LEMMA SettleKeeps ==
  ASSUME NEW k \in Client, k.ops # <<>>
  PROVE  LET b == Settle(k)
         IN  /\ b \in Client /\ Settled(b)
             /\ b.watching = k.watching /\ b.debounce = k.debounce
             /\ k.ops[1] \in Startup /\ OneStartup(k) => ~HasStartup(b) /\ OneStartup(b)
             /\ k.ops[1] \notin Startup =>
                  HasStartup(b) = HasStartup(k) /\ (OneStartup(k) => OneStartup(b))
  <1> DEFINE a == [k EXCEPT !.ops = Tail(@), !.stage = "rest"]
             s == k.ops
             t == Tail(k.ops)
  <1>1. k.ops \in Seq(Op) /\ Len(k.ops) \in Nat /\ DOMAIN k.ops = 1..Len(k.ops) /\ Len(k.ops) >= 1
    BY DEF Client
  <1>2. t \in Seq(Op) /\ Len(t) = Len(s) - 1 /\ \A i \in 1..Len(t) : t[i] = s[i + 1]
    BY <1>1, HeadTailProperties
  <1>3. DOMAIN t = 1..(Len(s) - 1)
    BY <1>1, <1>2
  <1>4. a \in Client /\ a.ops = t /\ a.stage = "rest" /\ a.watching = k.watching
        /\ a.debounce = k.debounce
    BY <1>2 DEF Client, Stage
  <1>5. Settle(k) = BeginNext(a)
    BY DEF Settle
  <1> HIDE DEF t
  <1>6. (\A i, j \in DOMAIN s : s[i] \in Startup /\ s[j] \in Startup => i = j) =>
          (\A i, j \in DOMAIN t : t[i] \in Startup /\ t[j] \in Startup => i = j)
    <2> SUFFICES ASSUME \A i, j \in DOMAIN s : s[i] \in Startup /\ s[j] \in Startup => i = j,
                        NEW i \in 1..(Len(s) - 1), NEW j \in 1..(Len(s) - 1),
                        t[i] \in Startup, t[j] \in Startup
                 PROVE  i = j
      BY <1>3
    <2>1. i + 1 \in 1..Len(s) /\ j + 1 \in 1..Len(s) /\ s[i + 1] \in Startup /\ s[j + 1] \in Startup
      BY <1>1, <1>2
    <2>2. i + 1 = j + 1
      BY <1>1, <2>1
    <2> QED BY <1>1, <2>2
  <1>7. s[1] \in Startup /\ (\A i, j \in DOMAIN s : s[i] \in Startup /\ s[j] \in Startup => i = j)
          => ~\E i \in DOMAIN t : t[i] \in Startup
    <2> SUFFICES ASSUME s[1] \in Startup, NEW i \in 1..(Len(s) - 1), t[i] \in Startup,
                        \A i_1, j \in DOMAIN s : s[i_1] \in Startup /\ s[j] \in Startup => i_1 = j
                 PROVE  FALSE
      BY <1>3
    <2>1. i + 1 \in 1..Len(s) /\ s[i + 1] \in Startup /\ 1 \in 1..Len(s)
      BY <1>1, <1>2
    <2>2. i + 1 = 1
      BY <1>1, <2>1
    <2> QED BY <1>1, <2>2
  <1>8. s[1] \notin Startup =>
          (\E i \in DOMAIN t : t[i] \in Startup) = (\E i \in DOMAIN s : s[i] \in Startup)
    <2> SUFFICES ASSUME s[1] \notin Startup
                 PROVE  (\E i \in DOMAIN t : t[i] \in Startup) = (\E i \in DOMAIN s : s[i] \in Startup)
      OBVIOUS
    <2>1. ASSUME NEW i \in DOMAIN t, t[i] \in Startup PROVE \E j \in DOMAIN s : s[j] \in Startup
      <3>1. i + 1 \in DOMAIN s /\ s[i + 1] \in Startup
        BY <1>1, <1>2, <1>3, <2>1
      <3> QED BY <3>1
    <2>2. ASSUME NEW i \in DOMAIN s, s[i] \in Startup PROVE \E j \in DOMAIN t : t[j] \in Startup
      <3>1. i - 1 \in 1..Len(t) /\ (i - 1) + 1 = i
        BY <1>1, <1>2, <2>2
      <3>2. t[i - 1] \in Startup /\ i - 1 \in DOMAIN t
        BY <1>2, <1>3, <2>2, <3>1
      <3> QED BY <3>2
    <2> QED BY <2>1, <2>2
  <1> HIDE DEF a
  <1>9. /\ k.ops[1] \in Startup /\ OneStartup(k) => ~HasStartup(a) /\ OneStartup(a)
        /\ k.ops[1] \notin Startup =>
             HasStartup(a) = HasStartup(k) /\ (OneStartup(k) => OneStartup(a))
    BY <1>4, <1>6, <1>7, <1>8 DEF HasStartup, OneStartup
  <1> HIDE DEF s
  <1> QED BY <1>4, <1>5, <1>9, BeginNextKeeps, BeginNextStartups

-----------------------------------------------------------------------------
(* The steps of one session *)

\* What the operation at the front does leaves the queue alone.
LEMMA OperationSteps ==
  ASSUME NEW k \in Client, Settled(k),
         NEW n \in Progress(k) \cup Finish(k) \cup FinishLater(k) \cup Answered(k) \cup Trouble(k)
  PROVE  n \in Client /\ n.ops = k.ops /\ n.stage # "rest" /\ k.ops # <<>>
  <1>a. k.ops # <<>> \/ k.stage = "rest"
    BY DEF Settled
  <1>b. GoLive(k) \in Client /\ GoLive(k).ops = k.ops /\ GoLive(k).stage = "done"
    BY DEF GoLive, Client, Stage
  <1>c. FailCycle(k) \in Client /\ FailCycle(k).ops = k.ops /\ FailCycle(k).stage = "failed"
    BY DEF FailCycle, Client, Stage
  <1>d. /\ Ask(k) \in Client /\ Ask(k).ops = k.ops /\ Ask(k).stage # "rest"
        /\ RunCycle(k) \in Client /\ RunCycle(k).ops = k.ops /\ RunCycle(k).stage = "ask"
    <2>1. RunCycle(k) \in Client /\ RunCycle(k).ops = k.ops /\ RunCycle(k).stage = "ask"
      BY DEF RunCycle, Client, Stage
    <2>2. CASE k.wire = "open"
      <3>1. Ask(k) = [k EXCEPT !.stage = "ask"]
        BY <2>2 DEF Ask
      <3> QED BY <2>1, <3>1 DEF Client, Stage
    <2>3. CASE k.wire # "open"
      BY <1>c, <2>1, <2>3 DEF Ask
    <2> QED BY <2>2, <2>3
  <1>1. \A f \in Finish(k) : f \in Client /\ f.ops = k.ops /\ f.stage # "rest" /\ k.ops # <<>>
    <2>1. CASE k.stage = "work" /\ k.ops[1] = "change"
      BY <1>a, <2>1 DEF Finish, Client, Stage
    <2>2. CASE k.stage = "work" /\ k.ops[1] # "change"
      BY <1>a, <1>b, <2>2 DEF Finish
    <2> QED BY <2>1, <2>2 DEF Finish
  <1>2. CASE n \in Progress(k)
    <2>1. CASE k.stage = "load"
      BY <1>2, <2>1 DEF Progress, Dial, Client, Stage, Settled
    <2>2. CASE k.stage = "replay"
      BY <1>2, <1>a, <1>b, <1>d, <2>2 DEF Progress
    <2>3. CASE k.stage = "work" /\ k.ops[1] # "change"
      BY <1>2, <1>a, <1>d, <2>3 DEF Progress
    <2> QED BY <1>2, <2>1, <2>2, <2>3 DEF Progress
  <1>3. CASE n \in Finish(k)
    BY <1>1, <1>3
  <1>4. CASE n \in FinishLater(k)
    <2>1. PICK f \in Finish(k) : n = [f EXCEPT !.debounce = TRUE]
      BY <1>4 DEF FinishLater
    <2> QED BY <1>1, <2>1 DEF Client
  <1>5. CASE n \in Answered(k)
    BY <1>5 DEF Answered, Client, Stage, Settled
  <1>6. CASE n \in Trouble(k)
    <2>1. CASE k.wire = "open" /\ k.stage = "hello"
      BY <1>6, <1>a, <2>1 DEF Trouble, Client, Stage
    <2> QED BY <1>6, <1>a, <1>c, <2>1 DEF Trouble
  <1> QED BY <1>2, <1>3, <1>4, <1>5, <1>6

\* A transport that closes leaves the queue alone.
LEMMA LoseSteps ==
  ASSUME NEW k \in Client
  PROVE  /\ Lose(k) \in Client /\ Lose(k).ops = k.ops
         /\ Lose(k).stage = "rest" <=> k.stage = "rest"
  BY DEF Lose, Rejected, Client, Stage

\* A session of its own moves; the others and the manager stay as they are.
SessionMoves(v, k, p, q) ==
  /\ client' = [client EXCEPT ![v] = k]
  /\ phase' = [phase EXCEPT ![v] = p]
  /\ busy' = [busy EXCEPT ![v] = HasStartup(k)]
  /\ retry' = [retry EXCEPT ![v] = q]
  /\ pending' \subseteq pending
  /\ UNCHANGED <<mode, launched, ticker, stopped, closing>>

\* A move to a settled client, with flags that suit it, keeps the invariant.
LEMMA SessionKeeps ==
  ASSUME DaemonInv, NEW v \in launched, NEW k \in Client, NEW p \in Phase, NEW q \in BOOLEAN,
         SessionMoves(v, k, p, q), Settled(k), OneStartup(k),
         q => ~HasStartup(k) /\ p = "disconnected" /\ ~stopped[v],
         ~Over(client[v]) \/ ~stopped[v]
  PROVE  DaemonInv'
  <1>1. DaemonTypeOK /\ v \in Vault /\ SessionInv(v) /\ StopInv(v)
    BY DEF DaemonInv, DaemonTypeOK
  <1>2. HasStartup(k) \in BOOLEAN
    BY DEF HasStartup
  <1>3. DaemonTypeOK'
    BY <1>1, <1>2 DEF DaemonTypeOK, SessionMoves
  <1>4. ASSUME NEW w \in Vault PROVE SessionInv(w)' /\ StopInv(w)'
    <2>0. SessionInv(w) /\ StopInv(w)
      BY DEF DaemonInv
    <2>1. CASE w = v
      <3>1. client'[w] = k /\ phase'[w] = p /\ busy'[w] = HasStartup(k) /\ retry'[w] = q
        BY <1>1, <2>1 DEF SessionMoves, DaemonTypeOK
      <3>2. SessionInv(w)'
        BY <1>1, <2>1, <3>1 DEF SessionInv, SessionMoves, Settled, OneStartup, HasStartup, Over
      <3>3. StopInv(w)'
        BY <2>0, <2>1 DEF StopInv, SessionMoves, Halting
      <3> QED BY <3>2, <3>3
    <2>2. CASE w # v
      <3>1. client'[w] = client[w] /\ phase'[w] = phase[w] /\ busy'[w] = busy[w] /\ retry'[w] = retry[w]
        BY <1>1, <2>2 DEF SessionMoves, DaemonTypeOK
      <3>2. SessionInv(w)'
        BY <2>0, <3>1 DEF SessionInv, SessionMoves, Settled, OneStartup, HasStartup, Over
      <3>3. StopInv(w)'
        BY <2>0, <3>1 DEF StopInv, SessionMoves, Halting, Over
      <3> QED BY <3>2, <3>3
    <2> QED BY <2>1, <2>2
  <1>5. (ticker => mode = "on")' /\ (mode = "off" => launched = {})'
    BY DEF DaemonInv, SessionMoves
  <1> QED BY <1>3, <1>4, <1>5 DEF DaemonInv

\* A client that does something belongs to a session.
LEMMA ActiveIsLaunched ==
  ASSUME DaemonInv, NEW v \in Vault, ~Over(client[v])
  PROVE  v \in launched
  BY DEF DaemonInv, SessionInv

\* The host's reaction to a client that has become k.
LEMMA ReactKeeps ==
  ASSUME DaemonInv, NEW v \in Vault, NEW k \in Client, k.ops = client[v].ops,
         k.stage = "rest" <=> client[v].stage = "rest", ~Over(client[v]), React(v, k)
  PROVE  DaemonInv'
  <1>1. DaemonTypeOK /\ SessionInv(v) /\ v \in launched
    BY ActiveIsLaunched DEF DaemonInv
  <1>2. Settled(client[v]) /\ OneStartup(k) /\ HasStartup(k) = busy[v] /\ (k.ops = <<>> <=> k.stage = "rest")
    BY <1>1 DEF SessionInv, Settled, OneStartup, HasStartup, Over
  <1>3. CASE k.stage \in Ended /\ k.ops[1] \in Startup
    <2> DEFINE ok == k.stage = "done"
               watched == IF ok /\ k.ops[1] = "connect" THEN StartWatching(k) ELSE k
               p == IF ok THEN "live" ELSE "disconnected"
               q == IF ok THEN retry[v] ELSE ~stopped[v]
    <2>1. k.ops # <<>> /\ HasStartup(k)
      <3>1. k.ops # <<>>
        BY <1>2, <1>3 DEF Ended
      <3>2. k.ops \in Seq(Op)
        BY DEF Client
      <3>3. 1 \in DOMAIN k.ops
        BY <3>1, <3>2
      <3> QED BY <1>3, <3>1, <3>3 DEF HasStartup
    <2>2. watched \in Client /\ watched.ops = k.ops
      BY DEF StartWatching, Client
    <2>3. watched.ops # <<>> /\ watched.ops[1] \in Startup /\ OneStartup(watched)
      BY <1>2, <1>3, <2>1, <2>2 DEF OneStartup
    <2>4. Settle(watched) \in Client /\ Settled(Settle(watched)) /\ ~HasStartup(Settle(watched))
          /\ OneStartup(Settle(watched))
      BY <2>2, <2>3, SettleKeeps
    <2>5. /\ client' = [client EXCEPT ![v] = Settle(watched)]
          /\ phase' = [phase EXCEPT ![v] = p]
          /\ busy' = [busy EXCEPT ![v] = FALSE]
          /\ retry' = [retry EXCEPT ![v] = q]
          /\ pending' \subseteq pending
          /\ UNCHANGED <<mode, launched, ticker, stopped, closing>>
      BY <1>3 DEF React, AttemptEnds
    <2>6. ~retry[v] /\ q \in BOOLEAN /\ p \in Phase /\ (q => p = "disconnected" /\ ~stopped[v])
      BY <1>1, <1>2, <2>1 DEF SessionInv, DaemonTypeOK, Phase
    <2> HIDE DEF watched, p, q, ok
    <2>7. SessionMoves(v, Settle(watched), p, q)
      <3>1. HasStartup(Settle(watched)) = FALSE
        BY <2>4 DEF HasStartup
      <3> QED BY <2>5, <3>1 DEF SessionMoves
    <2> QED BY <1>1, <2>4, <2>6, <2>7, SessionKeeps
  <1>4. CASE ~(k.stage \in Ended /\ k.ops[1] \in Startup)
    <2> DEFINE n == IF k.stage \in Ended THEN Settle(k) ELSE k
    <2>1. n \in Client /\ Settled(n) /\ OneStartup(n) /\ HasStartup(n) = busy[v]
      <3>1. CASE k.stage \in Ended
        <4>1. k.ops # <<>>
          BY <1>2, <3>1 DEF Ended
        <4> QED BY <1>2, <1>4, <3>1, <4>1, SettleKeeps
      <3>2. CASE k.stage \notin Ended
        BY <1>2, <3>2 DEF Settled
      <3> QED BY <3>1, <3>2
    <2>2. /\ client' = [client EXCEPT ![v] = n]
          /\ UNCHANGED <<phase, busy, retry, pending, mode, launched, ticker, stopped, closing>>
      BY <1>4 DEF React
    <2> HIDE DEF n
    <2>3. SessionMoves(v, n, phase[v], retry[v])
      BY <1>1, <2>1, <2>2 DEF SessionMoves, DaemonTypeOK
    <2>4. retry[v] => ~HasStartup(n) /\ phase[v] = "disconnected" /\ ~stopped[v]
      BY <1>1, <2>1 DEF SessionInv
    <2>5. phase[v] \in Phase /\ retry[v] \in BOOLEAN
      BY <1>1 DEF DaemonTypeOK
    <2> QED BY <1>1, <2>1, <2>3, <2>4, <2>5, SessionKeeps
  <1> QED BY <1>3, <1>4

\* The client's own steps, its server and its faults.
LEMMA ClientKeeps ==
  ASSUME DaemonInv, NEW v \in Vault,
         \/ ClientRuns(v) \/ ClientFinishes(v) \/ ClientDefers(v) \/ ServerAnswers(v)
         \/ ClientFails(v)
  PROVE  DaemonInv'
  <1>1. client[v] \in Client /\ Settled(client[v])
    BY DEF DaemonInv, DaemonTypeOK, SessionInv
  <1>2. PICK k \in Progress(client[v]) \cup Finish(client[v]) \cup FinishLater(client[v])
                     \cup Answered(client[v]) \cup Trouble(client[v]) : React(v, k)
    BY DEF ClientRuns, ClientFinishes, ClientDefers, ServerAnswers, ClientFails
  <1>3. k \in Client /\ k.ops = client[v].ops /\ k.stage # "rest" /\ client[v].ops # <<>>
    BY <1>1, <1>2, OperationSteps
  <1>4. client[v].stage # "rest" /\ ~Over(client[v])
    BY <1>1, <1>3 DEF Settled, Over
  <1> QED BY <1>2, <1>3, <1>4, ReactKeeps

\* A startup for a session that has none: the attempt begins.
LEMMA AttemptKeeps ==
  ASSUME DaemonInv, NEW v \in launched, NEW k \in Client, Settled(k), HasStartup(k), OneStartup(k),
         ~Over(client[v]) \/ ~stopped[v],
         Attempt(v, "reconnect", k), retry' = [retry EXCEPT ![v] = FALSE],
         UNCHANGED <<manager, stopped, closing>>
  PROVE  DaemonInv'
  <1>1. HasStartup(k) = TRUE
    BY DEF HasStartup
  <1>2. SessionMoves(v, k, "connecting", FALSE)
    BY <1>1 DEF Attempt, SessionMoves, manager
  <1> QED BY <1>2, SessionKeeps DEF Phase

\* The transport closes.
LEMMA DropKeeps == ASSUME DaemonInv, NEW v \in Vault, Drop(v) PROVE DaemonInv'
  <1> DEFINE k == Lose(client[v])
             e == Enqueue(k, "reconnect")
             n == IF k.stage \in Ended THEN Settle(e) ELSE e
  <1>1. client[v] \in Client /\ Settled(client[v]) /\ SessionInv(v) /\ DaemonTypeOK
    BY DEF DaemonInv, DaemonTypeOK, SessionInv
  <1>2. k \in Client /\ k.ops = client[v].ops /\ (k.stage = "rest" <=> client[v].stage = "rest")
    BY <1>1, LoseSteps
  <1>3. ~Over(client[v]) /\ v \in launched
    BY ActiveIsLaunched DEF Drop, Over
  <1>4. CASE DropIsOurs(v)
    <2>1. ~HasStartup(k) /\ (k.ops = <<>> <=> k.stage = "rest") /\ ~retry[v]
      BY <1>1, <1>2, <1>4 DEF SessionInv, HasStartup, Settled, DropIsOurs
    <2>2. /\ Attempt(v, "reconnect", n)
          /\ UNCHANGED <<manager, stopped, retry, closing>>
      BY <1>4 DEF Drop
    <2> HIDE DEF k
    <2>3. /\ e \in Client /\ (k.stage \notin Ended => Settled(e))
          /\ (k.stage # "rest" => e.stage = k.stage /\ e.ops # <<>> /\ e.ops[1] = k.ops[1])
          /\ HasStartup(e) /\ OneStartup(e)
      BY <1>2, <2>1, EnqueueKeeps DEF Op, Startup
    <2> HIDE DEF e
    <2>4. n \in Client /\ Settled(n) /\ HasStartup(n) /\ OneStartup(n)
      <3>1. CASE k.stage \in Ended
        <4>1. k.stage # "rest" /\ k.ops # <<>>
          BY <2>1, <3>1 DEF Ended
        <4>2. 1 \in DOMAIN k.ops
          BY <1>2, <4>1 DEF Client
        <4>3. e.ops[1] \notin Startup /\ e.ops # <<>>
          BY <2>1, <2>3, <4>1, <4>2 DEF HasStartup
        <4> QED BY <2>3, <3>1, <4>3, SettleKeeps
      <3>2. CASE k.stage \notin Ended
        BY <2>3, <3>2
      <3> QED BY <3>1, <3>2
    <2> HIDE DEF n
    <2>5. retry' = [retry EXCEPT ![v] = FALSE]
      BY <1>1, <2>1, <2>2 DEF DaemonTypeOK
    <2> QED BY <1>3, <2>2, <2>4, <2>5, AttemptKeeps
  <1>5. CASE ~DropIsOurs(v)
    BY <1>2, <1>3, <1>5, ReactKeeps DEF Drop
  <1> QED BY <1>4, <1>5

\* The retry timer fires.
LEMMA RetryKeeps == ASSUME DaemonInv, NEW v \in Vault, Retry(v) PROVE DaemonInv'
  <1>1. client[v] \in Client /\ Settled(client[v]) /\ SessionInv(v) /\ retry[v]
    BY DEF DaemonInv, DaemonTypeOK, SessionInv, Retry
  <1>2. v \in launched /\ ~HasStartup(client[v]) /\ ~stopped[v]
    BY <1>1 DEF SessionInv
  <1> DEFINE e == Enqueue(client[v], "reconnect")
  <1>3. e \in Client /\ Settled(e) /\ HasStartup(e) /\ OneStartup(e)
    BY <1>1, <1>2, EnqueueKeeps DEF Op, Startup, Settled
  <1>4. Attempt(v, "reconnect", e) /\ retry' = [retry EXCEPT ![v] = FALSE]
        /\ UNCHANGED <<manager, stopped, closing>>
    BY DEF Retry
  <1> HIDE DEF e
  <1> QED BY <1>2, <1>3, <1>4, AttemptKeeps

\* Changes, events of the disk and the debounce timer only enqueue.
LEMMA EventKeeps ==
  ASSUME DaemonInv, NEW v \in Vault, ChangeArrives(v) \/ FlushEvents(v) \/ DebounceFires(v)
  PROVE  DaemonInv'
  <1> DEFINE c == client[v]
  <1>1. c \in Client /\ Settled(c) /\ SessionInv(v) /\ DaemonTypeOK
    BY DEF DaemonInv, DaemonTypeOK, SessionInv
  <1>2. ~Over(c) /\ v \in launched
    BY ActiveIsLaunched DEF ChangeArrives, FlushEvents, DebounceFires, Over
  <1>3. ASSUME NEW k \in Client, Settled(k), OneStartup(k), HasStartup(k) = HasStartup(c), Becomes(v, k)
        PROVE  DaemonInv'
    <2>1. phase[v] \in Phase /\ retry[v] \in BOOLEAN /\ busy[v] = HasStartup(k)
          /\ (retry[v] => ~HasStartup(k) /\ phase[v] = "disconnected" /\ ~stopped[v])
      BY <1>1, <1>3 DEF DaemonTypeOK, SessionInv
    <2>2. SessionMoves(v, k, phase[v], retry[v])
      BY <1>1, <1>3, <2>1 DEF SessionMoves, Becomes, manager, session, DaemonTypeOK
    <2> QED BY <1>2, <1>3, <2>1, <2>2, SessionKeeps
  <1>4. OneStartup(c) /\ (c.ops = <<>> <=> c.stage = "rest") /\ c.stage \notin Ended
    BY <1>1 DEF SessionInv, Settled
  <1>5. CASE ChangeArrives(v)
    <2>1. Pushed(c) \in Client /\ Settled(Pushed(c)) /\ OneStartup(Pushed(c))
          /\ HasStartup(Pushed(c)) = HasStartup(c)
      <3>1. "change" \in Op /\ "change" \notin Startup
        BY DEF Op, Startup
      <3> QED BY <1>1, <1>4, <3>1, EnqueueKeeps DEF Pushed
    <2> QED BY <1>3, <1>5, <2>1 DEF ChangeArrives
  <1>6. CASE FlushEvents(v)
    <2>1. OnWatchEvents(c) \in Client /\ OnWatchEvents(c).ops = c.ops /\ OnWatchEvents(c).stage = c.stage
      BY <1>1 DEF OnWatchEvents, Client
    <2>2. Settled(OnWatchEvents(c)) /\ OneStartup(OnWatchEvents(c))
          /\ HasStartup(OnWatchEvents(c)) = HasStartup(c)
      BY <1>1, <1>4, <2>1 DEF Settled, OneStartup, HasStartup
    <2> QED BY <1>3, <1>6, <2>1, <2>2 DEF FlushEvents
  <1>7. CASE DebounceFires(v)
    <2> DEFINE d == [c EXCEPT !.debounce = FALSE]
    <2>1. d \in Client /\ d.ops = c.ops /\ d.stage = c.stage
      BY <1>1 DEF Client
    <2>2. OneStartup(d) /\ HasStartup(d) = HasStartup(c)
      BY <1>4, <2>1 DEF OneStartup, HasStartup
    <2>3. "cycle" \in Op /\ "cycle" \notin Startup /\ Reconcile(c) = Enqueue(d, "cycle")
      BY DEF Op, Startup, Reconcile
    <2> HIDE DEF d
    <2>4. Reconcile(c) \in Client /\ Settled(Reconcile(c)) /\ OneStartup(Reconcile(c))
          /\ HasStartup(Reconcile(c)) = HasStartup(c)
      BY <1>4, <2>1, <2>2, <2>3, EnqueueKeeps
    <2> QED BY <1>3, <1>7, <2>4 DEF DebounceFires
  <1> QED BY <1>5, <1>6, <1>7

\* The end of a session's stop: its queue is empty, and nothing is left.
LEMMA CloseKeeps == ASSUME DaemonInv, NEW v \in Vault, CloseSession(v) PROVE DaemonInv'
  <1> DEFINE c == client[v]
             k == Close(c)
  <1>1. c \in Client /\ Settled(c) /\ SessionInv(v) /\ StopInv(v) /\ DaemonTypeOK
    BY DEF DaemonInv, DaemonTypeOK, SessionInv
  <1>2. c.ops = <<>> /\ c.stage = "rest" /\ v \in launched /\ closing[v]
    BY <1>1 DEF CloseSession, IsIdle, Settled, StopInv
  <1>3. k \in Client /\ k.ops = <<>> /\ k.stage = "rest" /\ Over(k)
    BY <1>1, <1>2 DEF Close, Rejected, Client, Over
  <1>4. /\ client' = [client EXCEPT ![v] = k] /\ closing' = [closing EXCEPT ![v] = FALSE]
        /\ UNCHANGED <<manager, phase, busy, stopped, retry>>
    BY DEF CloseSession
  <1> HIDE DEF k
  <1>5. Settled(k) /\ OneStartup(k) /\ HasStartup(k) = HasStartup(c)
    BY <1>1, <1>2, <1>3 DEF Settled, OneStartup, HasStartup, Ended
  <1>6. DaemonTypeOK'
    BY <1>1, <1>3, <1>4 DEF DaemonTypeOK, manager
  <1>7. ASSUME NEW w \in Vault PROVE SessionInv(w)' /\ StopInv(w)'
    <2>0. SessionInv(w) /\ StopInv(w)
      BY DEF DaemonInv
    <2>1. CASE w = v
      <3>1. client'[w] = k /\ closing'[w] = FALSE
        BY <1>1, <1>4, <2>1 DEF DaemonTypeOK
      <3>2. SessionInv(w)'
        BY <1>2, <1>4, <1>5, <2>0, <2>1, <3>1 DEF SessionInv, manager, Settled, OneStartup, HasStartup, Over
      <3>3. StopInv(w)'
        BY <1>3, <1>4, <2>0, <2>1, <3>1 DEF StopInv, manager, Halting, Over
      <3> QED BY <3>2, <3>3
    <2>2. CASE w # v
      <3>1. client'[w] = client[w] /\ closing'[w] = closing[w]
        BY <1>1, <1>4, <2>2 DEF DaemonTypeOK
      <3>2. SessionInv(w)'
        BY <1>4, <2>0, <3>1 DEF SessionInv, manager, Settled, OneStartup, HasStartup, Over
      <3>3. StopInv(w)'
        BY <1>4, <2>0, <3>1 DEF StopInv, manager, Halting, Over
      <3> QED BY <3>2, <3>3
    <2> QED BY <2>1, <2>2
  <1>8. (ticker => mode = "on")' /\ (mode = "off" => launched = {})'
    BY <1>4 DEF DaemonInv, manager
  <1> QED BY <1>6, <1>7, <1>8 DEF DaemonInv

-----------------------------------------------------------------------------
(* The manager *)

\* The first connects.
LEMMA StartKeeps == ASSUME DaemonInv, Start PROVE DaemonInv'
  <1>1. DaemonTypeOK /\ mode = "off" /\ launched = {}
    BY DEF DaemonInv, Start
  <1>2. PICK L \in SUBSET Vault :
          /\ launched' = L /\ pending' = L
          /\ client' = [v \in Vault |-> IF v \in L THEN Enqueue(client[v], "connect") ELSE client[v]]
          /\ phase' = [v \in Vault |-> IF v \in L THEN "connecting" ELSE "stopped"]
          /\ busy' = [v \in Vault |-> v \in L]
    BY DEF Start
  <1>3. mode' = "starting" /\ UNCHANGED <<ticker, stopped, retry, closing>>
    BY DEF Start
  <1>4. ASSUME NEW v \in Vault
        PROVE  /\ retry[v] = FALSE /\ stopped[v] = FALSE /\ closing[v] = FALSE
               /\ Over(client[v]) /\ client[v] \in Client /\ Settled(client[v])
    BY <1>1 DEF DaemonInv, SessionInv, StopInv, Halting, DaemonTypeOK
  <1>5. ASSUME NEW v \in Vault
        PROVE  LET e == Enqueue(client[v], "connect")
               IN  e \in Client /\ Settled(e) /\ HasStartup(e) = TRUE /\ OneStartup(e)
    <2> DEFINE e == Enqueue(client[v], "connect")
    <2>1. client[v] \in Client /\ client[v].ops = <<>> /\ client[v].stage = "rest"
      BY <1>4 DEF Over, Settled
    <2>2. ~HasStartup(client[v])
      BY <2>1 DEF HasStartup
    <2>3. e \in Client /\ Settled(e) /\ HasStartup(e) /\ OneStartup(e)
      BY <2>1, <2>2, EnqueueKeeps DEF Op, Startup, Ended
    <2> QED BY <2>3 DEF HasStartup
  <1>6. DaemonTypeOK'
    <2>1. client' \in [Vault -> Client]
      BY <1>2, <1>4, <1>5
    <2> QED BY <1>1, <1>2, <1>3, <2>1 DEF DaemonTypeOK, Phase
  <1>7. ASSUME NEW v \in Vault PROVE SessionInv(v)'
    <2>1. retry'[v] = FALSE
      BY <1>3, <1>4
    <2>2. CASE v \in L
      <3>1. client'[v] = Enqueue(client[v], "connect") /\ busy'[v] = TRUE /\ v \in launched'
        BY <1>2, <2>2
      <3> QED BY <1>5, <2>1, <3>1 DEF SessionInv, Settled, OneStartup, HasStartup
    <2>3. CASE v \notin L
      <3>a. (v \in L) = FALSE
        BY <2>3
      <3>b. busy'[v] = (v \in L)
        BY <1>2
      <3>c. client'[v] = client[v]
        BY <1>2, <2>3
      <3>1. client'[v] = client[v] /\ busy'[v] = FALSE
        BY <3>a, <3>b, <3>c, Zenon
      <3>2. client[v].ops = <<>>
        BY <1>4 DEF Over
      <3>3. OneStartup(client'[v]) /\ HasStartup(client'[v]) = FALSE
        BY <3>1, <3>2 DEF OneStartup, HasStartup
      <3> QED BY <1>4, <2>1, <3>1, <3>3 DEF SessionInv, Settled, OneStartup, HasStartup, Over
    <2> QED BY <2>2, <2>3
  <1>8. ASSUME NEW v \in Vault PROVE StopInv(v)'
    <2>1. stopped'[v] = FALSE /\ closing'[v] = FALSE
      BY <1>3, <1>4
    <2> QED BY <1>3, <2>1 DEF StopInv, Halting
  <1>9. (ticker => mode = "on")' /\ (mode = "off" => launched = {})'
    BY <1>1, <1>3 DEF DaemonInv
  <1> QED BY <1>6, <1>7, <1>8, <1>9 DEF DaemonInv

\* The end of the start, the health timer, the last snapshot and a stutter.
LEMMA QuietKeeps ==
  ASSUME DaemonInv, Started \/ HealthTick \/ Stopped \/ UNCHANGED vars
  PROVE  DaemonInv'
  <1>1. UNCHANGED <<launched, pending, client, phase, busy, stopped, retry, closing>>
    BY DEF Started, HealthTick, Stopped, vars, manager, session
  <1>2. /\ mode' \in {"off", "starting", "on", "stopping", "end"} /\ ticker' \in BOOLEAN
        /\ Halting' = Halting
        /\ mode' = "off" => mode = "off"
        /\ mode' = "end" => mode = "end" \/ \A v \in Vault : ~closing[v]
        /\ ticker' => mode' = "on"
    <2>1. mode \in {"off", "starting", "on", "stopping", "end"} /\ ticker \in BOOLEAN
          /\ (ticker => mode = "on")
      BY DEF DaemonInv, DaemonTypeOK
    <2>2. CASE Started
      BY <2>1, <2>2 DEF Started, Halting
    <2>3. CASE HealthTick \/ UNCHANGED vars
      BY <2>1, <2>3 DEF HealthTick, vars, manager, Halting
    <2>4. CASE Stopped
      BY <2>1, <2>4 DEF Stopped, Halting
    <2> QED BY <2>2, <2>3, <2>4
  <1>3. DaemonTypeOK'
    BY <1>1, <1>2 DEF DaemonInv, DaemonTypeOK
  <1>4. ASSUME NEW v \in Vault PROVE SessionInv(v)' /\ StopInv(v)'
    <2>1. SessionInv(v) /\ StopInv(v)
      BY DEF DaemonInv
    <2>2. SessionInv(v)'
      BY <1>1, <2>1 DEF SessionInv, Settled, OneStartup, HasStartup, Over
    <2>3. StopInv(v)'
      BY <1>1, <1>2, <2>1 DEF StopInv, Over
    <2> QED BY <2>2, <2>3
  <1> QED BY <1>1, <1>2, <1>3, <1>4 DEF DaemonInv

\* A signal.
LEMMA StopKeeps == ASSUME DaemonInv, Stop PROVE DaemonInv'
  <1>1. DaemonTypeOK
    BY DEF DaemonInv
  <1>2. PICK F \in SUBSET {v \in launched : client[v].watching} :
          client' = [v \in Vault |->
            [(IF v \in F THEN OnWatchEvents(client[v]) ELSE client[v]) EXCEPT !.watching = FALSE]]
    BY DEF Stop
  <1>3. /\ mode' = "stopping" /\ ticker' = FALSE
        /\ stopped' = [v \in Vault |-> v \in launched]
        /\ closing' = [v \in Vault |-> v \in launched]
        /\ retry' = [v \in Vault |-> FALSE]
        /\ phase' = [v \in Vault |-> "stopped"]
        /\ UNCHANGED <<launched, pending, busy>>
    BY DEF Stop
  <1>4. ASSUME NEW v \in Vault
        PROVE  /\ client'[v] \in Client /\ client'[v].ops = client[v].ops
               /\ client'[v].stage = client[v].stage
               /\ v \notin launched => Over(client'[v])
    <2>1. client[v] \in Client
      BY <1>1 DEF DaemonTypeOK
    <2>2. CASE v \in F
      <3>1. client'[v] = [OnWatchEvents(client[v]) EXCEPT !.watching = FALSE] /\ v \in launched
        BY <1>2, <2>2
      <3> QED BY <2>1, <3>1 DEF OnWatchEvents, Client
    <2>3. CASE v \notin F
      <3>1. client'[v] = [client[v] EXCEPT !.watching = FALSE]
        BY <1>2, <2>3
      <3>2. v \notin launched => Over(client[v])
        BY DEF DaemonInv, SessionInv
      <3>3. /\ client'[v] \in Client /\ client'[v].ops = client[v].ops
            /\ client'[v].stage = client[v].stage /\ client'[v].wire = client[v].wire
            /\ client'[v].debounce = client[v].debounce /\ client'[v].watching = FALSE
        BY <2>1, <3>1 DEF Client
      <3> QED BY <3>2, <3>3 DEF Over
    <2> QED BY <2>2, <2>3
  <1>5. DaemonTypeOK'
    <2>1. client' \in [Vault -> Client]
      BY <1>2, <1>4
    <2>2. /\ stopped' \in [Vault -> BOOLEAN] /\ closing' \in [Vault -> BOOLEAN]
          /\ retry' \in [Vault -> BOOLEAN] /\ phase' \in [Vault -> Phase]
      BY <1>3 DEF Phase
    <2> QED BY <1>1, <1>3, <2>1, <2>2 DEF DaemonTypeOK
  <1>6. ASSUME NEW v \in Vault PROVE SessionInv(v)' /\ StopInv(v)'
    <2>1. SessionInv(v)
      BY DEF DaemonInv
    <2>2. retry'[v] = FALSE /\ stopped'[v] = (v \in launched) /\ closing'[v] = (v \in launched)
      BY <1>3
    <2>3. SessionInv(v)'
      BY <1>3, <1>4, <2>1, <2>2 DEF SessionInv, Settled, OneStartup, HasStartup, Over
    <2>4. StopInv(v)'
      <3>1. Halting' = TRUE /\ mode' # "end" /\ launched' = launched
        BY <1>3 DEF Halting
      <3>2. CASE v \in launched
        BY <2>2, <3>1, <3>2 DEF StopInv
      <3>3. CASE v \notin launched
        <4>1. (v \in launched) = FALSE /\ (Halting' /\ v \in launched') = FALSE
          BY <3>1, <3>3
        <4>2. stopped'[v] = FALSE /\ closing'[v] = FALSE
          BY <2>2, <4>1, Zenon
        <4>3. stopped'[v] = (Halting' /\ v \in launched')
          BY <4>1, <4>2, Zenon
        <4> QED BY <3>1, <3>3, <4>2, <4>3 DEF StopInv
      <3> QED BY <3>2, <3>3
    <2> QED BY <2>3, <2>4
  <1> QED BY <1>3, <1>5, <1>6 DEF DaemonInv

-----------------------------------------------------------------------------
(* The invariant and its consequences *)

\* Before the manager starts nothing runs.
LEMMA DaemonInit == Init => DaemonInv
  <1> SUFFICES ASSUME Init PROVE DaemonInv
    OBVIOUS
  <1>1. NewClient \in Client /\ NewClient.ops = <<>> /\ NewClient.stage = "rest"
    BY DEF NewClient, Client, Stage
  <1>2. OneStartup(NewClient) /\ HasStartup(NewClient) = FALSE /\ Settled(NewClient)
    BY <1>1 DEF OneStartup, HasStartup, Settled, Ended
  <1>3. DaemonTypeOK
    BY <1>1 DEF Init, DaemonTypeOK, Phase
  <1>4. \A v \in Vault : SessionInv(v) /\ StopInv(v)
    BY <1>2 DEF Init, SessionInv, StopInv, Halting, Over, NewClient
  <1> QED BY <1>3, <1>4 DEF Init, DaemonInv

\* Every step keeps the invariant.
LEMMA DaemonStep == DaemonInv /\ [Next]_vars => DaemonInv'
  <1> SUFFICES ASSUME DaemonInv, [Next]_vars PROVE DaemonInv'
    OBVIOUS
  <1>1. CASE Start \/ Stop
    BY <1>1, StartKeeps, StopKeeps
  <1>2. CASE Started \/ HealthTick \/ Stopped \/ UNCHANGED vars
    BY <1>2, QuietKeeps
  <1>3. ASSUME NEW v \in Vault,
               \/ ClientRuns(v) \/ ClientFinishes(v) \/ ClientDefers(v) \/ ServerAnswers(v)
               \/ ClientFails(v)
        PROVE  DaemonInv'
    BY <1>3, ClientKeeps
  <1>4. ASSUME NEW v \in Vault, Drop(v) \/ Retry(v) \/ CloseSession(v) PROVE DaemonInv'
    BY <1>4, DropKeeps, RetryKeeps, CloseKeeps
  <1>5. ASSUME NEW v \in Vault, ChangeArrives(v) \/ FlushEvents(v) \/ DebounceFires(v)
        PROVE  DaemonInv'
    BY <1>5, EventKeeps
  <1> QED BY <1>1, <1>2, <1>3, <1>4, <1>5 DEF Next

\* The invariant holds in every state.
LEMMA DaemonInductive == Spec => []DaemonInv
  BY DaemonInit, DaemonStep, PTL DEF Spec

\* Sessions, timers and clients keep their types: a queue of operations stays
\* one however attempts, drops, changes and stops interleave.
THEOREM DaemonTypeCorrect == Spec => []DaemonTypeOK
  <1>1. DaemonInv => DaemonTypeOK
    BY DEF DaemonInv
  <1> QED BY <1>1, DaemonInductive, PTL

\* busy and the retry timer do what handleDrop and scheduleReconnect need them
\* for: at most one connect or reconnect waits, runs or is scheduled.
THEOREM AttemptsAreSerial == Spec => []OneAttempt
  <1>1. DaemonInv => OneAttempt
    <2> SUFFICES ASSUME DaemonInv, NEW v \in Vault
                 PROVE  Cardinality(Startups(client[v])) + (IF retry[v] THEN 1 ELSE 0) <= 1
      BY DEF OneAttempt
    <2> DEFINE S == Startups(client[v])
    <2>1. /\ OneStartup(client[v]) /\ busy[v] = HasStartup(client[v])
          /\ retry[v] => ~busy[v]
      BY DEF DaemonInv, SessionInv
    <2>2. \A i, j \in S : i = j
      BY <2>1 DEF Startups, OneStartup
    <2>3. retry[v] => S = {}
      BY <2>1 DEF Startups, HasStartup
    <2> HIDE DEF S
    <2>4. S = {} \/ \E i \in S : S = {i}
      BY <2>2
    <2>5. Cardinality({}) = 0 /\ \A i : Cardinality({i}) = 1
      BY FS_EmptySet, FS_Singleton
    <2>6. CASE S = {}
      BY <2>5, <2>6 DEF S
    <2>7. CASE S # {}
      <3>1. Cardinality(S) = 1 /\ ~retry[v]
        BY <2>3, <2>4, <2>5, <2>7
      <3> QED BY <3>1 DEF S
    <2> QED BY <2>6, <2>7
  <1> QED BY <1>1, DaemonInductive, PTL

\* When stop of the manager returns, no operation, transport, watcher or timer
\* of any vault is left, whatever was under way when the signal came.
THEOREM NothingOutlivesStop == Spec => []StopIsFinal
  <1>1. DaemonInv => StopIsFinal
    <2> SUFFICES ASSUME DaemonInv, mode = "end" PROVE StopIsFinal
      BY DEF StopIsFinal
    <2>1. ~ticker
      BY DEF DaemonInv
    <2>2. ASSUME NEW v \in Vault PROVE Over(client[v]) /\ ~retry[v]
      <3>1. SessionInv(v) /\ StopInv(v)
        BY DEF DaemonInv
      <3> QED BY <3>1 DEF SessionInv, StopInv, Halting
    <2> QED BY <2>1, <2>2 DEF StopIsFinal, Over
  <1> QED BY <1>1, DaemonInductive, PTL
=============================================================================
