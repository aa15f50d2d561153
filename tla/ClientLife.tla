----------------------------- MODULE ClientLife -----------------------------
(***************************************************************************)
(* The life of a SyncClient (core/src/client.ts) as the programs that host *)
(* it see it: a queue of operations that run one after the other, a        *)
(* transport that may close at any moment (transport.ts of node-runtime    *)
(* and of the plugin), and a close() that neither waits for the operations *)
(* nor cancels them.  What an operation does to files and to the index is  *)
(* SyncSystem; here it is the points at which it waits.                    *)
(*                                                                         *)
(* The operators map a client to the client after a step.  Promises settle *)
(* before anything else happens, so an operation begins in the step that   *)
(* puts it at the front, and one that ends reaches "done", "failed" or     *)
(* "refused" in the step after which its host reacts (Settle).             *)
(***************************************************************************)
EXTENDS Naturals, Sequences

CONSTANT MaxOps    \* bound on the operations in a client's queue

Op == {"connect", "reconnect", "cycle", "change"}
Startup == {"connect", "reconnect"}

\* Where the operation at the front stands: startup reads its state file,
\* waits for helloAck, replays; a cycle asks the server or works on the disk.
Stage == {"rest", "load", "hello", "replay", "ask", "work", "done", "failed", "refused"}
Ended == {"done", "failed", "refused"}

Client == [ops : Seq(Op), stage : Stage, wire : {"none", "open", "closed"},
           state : {"idle", "connecting", "syncing", "live", "disconnected"},
           buffering : BOOLEAN, watching : BOOLEAN, debounce : BOOLEAN]

NewClient == [ops |-> <<>>, stage |-> "rest", wire |-> "none", state |-> "idle",
              buffering |-> FALSE, watching |-> FALSE, debounce |-> FALSE]

\* runCycle's first line: without a connection a cycle returns at once.
Offline(k) == k.wire = "none" \/ k.state = "disconnected"

RunCycle(k) == [k EXCEPT !.stage = "ask", !.state = "syncing"]

\* startup buffers what the server pushes from its first line on.
BeginStartup(k) == [k EXCEPT !.stage = "load", !.state = "connecting", !.buffering = TRUE]

\* reconnect drops the old transport first; then startup.
Begin(k) ==
  CASE k.ops[1] = "connect"   -> BeginStartup(k)
    [] k.ops[1] = "reconnect" -> BeginStartup([k EXCEPT !.wire = "none"])
    [] k.ops[1] = "cycle"     -> RunCycle(k)
    [] k.ops[1] = "change"    -> [k EXCEPT !.stage = "work"]

\* The next operation that has something to do begins.
BeginNext(k) ==
  LET todo == {i \in DOMAIN k.ops : Offline(k) => k.ops[i] # "cycle"}
      i    == CHOOSE j \in todo : \A l \in todo : j <= l
  IN  IF k.stage # "rest" THEN k
      ELSE IF todo = {} THEN [k EXCEPT !.ops = <<>>]
      ELSE Begin([k EXCEPT !.ops = SubSeq(@, i, Len(@))])

HasRoom(k) == Len(k.ops) < MaxOps

\* enqueue
Enqueue(k, op) == BeginNext([k EXCEPT !.ops = Append(@, op)])

\* The operation at the front has ended and the next one begins.
Settle(k) == BeginNext([k EXCEPT !.ops = Tail(@), !.stage = "rest"])

\* The dial: a new transport takes the place of the old one.
Dial(k) == [k EXCEPT !.stage = "hello", !.wire = "open"]

\* The end of startup, which releases what it buffered, and of a cycle.
GoLive(k) == [k EXCEPT !.stage = "done",
                       !.buffering = @ /\ k.ops[1] \notin Startup,
                       !.state = IF @ = "disconnected" THEN @ ELSE "live"]

\* The catch of runCycle.
FailCycle(k) ==
  [k EXCEPT !.stage = "failed",
            !.state = IF @ = "disconnected" THEN @
                      ELSE IF k.wire = "none" THEN "idle" ELSE "live"]

\* A request on a transport that is closed or gone throws.
Ask(k) == IF k.wire = "open" THEN [k EXCEPT !.stage = "ask"] ELSE FailCycle(k)

\* What an operation does next by itself, and how a cycle or a change ends.
Progress(k) ==
  CASE k.stage = "load"   -> {Dial(k)}
    [] k.stage = "replay" -> {IF Offline(k) THEN GoLive(k) ELSE RunCycle(k)}
    [] k.stage = "work" /\ k.ops[1] # "change" -> {Ask(k)}
    [] OTHER -> {}

Finish(k) ==
  CASE k.stage = "work" /\ k.ops[1] = "change" -> {[k EXCEPT !.stage = "done"]}
    [] k.stage = "work" /\ k.ops[1] # "change" -> {GoLive(k)}
    [] OTHER -> {}

\* A cycle or a change that leaves work for the debounce timer.
FinishLater(k) == {[f EXCEPT !.debounce = TRUE] : f \in Finish(k)}

\* What an answer of the server does.
Answered(k) ==
  CASE k.wire = "open" /\ k.stage = "hello" -> {[k EXCEPT !.stage = "replay", !.state = "syncing"]}
    [] k.wire = "open" /\ k.stage = "ask"   -> {[k EXCEPT !.stage = "work"]}
    [] OTHER -> {}

\* A change is pushed by the server.
Pushed(k) == IF k.buffering THEN k ELSE Enqueue(k, "change")

\* What may go wrong: the token is refused, the disk or a request fails.  A
\* startup whose cycle fails never comes to the line that ends buffering.
Trouble(k) ==
  CASE k.wire = "open" /\ k.stage = "hello" -> {[k EXCEPT !.stage = "refused"]}
    [] k.stage = "work" /\ k.ops[1] # "change" -> {FailCycle(k)}
    [] OTHER -> {}

\* Requests that wait are rejected when their transport closes.
Rejected(k) == IF k.stage \in {"hello", "ask"} THEN [k EXCEPT !.stage = "failed"] ELSE k

\* onTransportClose
Lose(k) == Rejected([k EXCEPT !.wire = "closed", !.state = "disconnected"])

\* close
Close(k) == Rejected([k EXCEPT !.watching = FALSE, !.debounce = FALSE,
                               !.wire = "none", !.state = "idle"])

\* startWatching, and a batch of events that reaches the client.
StartWatching(k) == [k EXCEPT !.watching = TRUE]
OnWatchEvents(k) == [k EXCEPT !.debounce = TRUE]

\* The debounce timer fires.
Reconcile(k) == Enqueue([k EXCEPT !.debounce = FALSE], "cycle")

\* Startups that wait or run.
Startups(k) == {i \in DOMAIN k.ops : k.ops[i] \in Startup}
=============================================================================
