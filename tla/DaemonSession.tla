--------------------------- MODULE DaemonSession ---------------------------
(***************************************************************************)
(* The daemon (daemon/src/daemon.ts, main.ts): DaemonManager starts one    *)
(* VaultSession for every vault that passes its guards; a session connects *)
(* its client, attaches the watcher (watcher.ts), reconnects with a        *)
(* back-off after a failure or an unexpected close, and stops gracefully.  *)
(* Delays are left out: a timer that is armed may fire.  Messages of the   *)
(* server and events of the disk only matter as operations they enqueue.   *)
(***************************************************************************)
EXTENDS ClientLife, FiniteSets

CONSTANTS
  Vault,       \* linked vaults
  MaxFaults,   \* bound on what goes wrong
  MaxEvents    \* bound on the changes that server and disk report

VARIABLES
  mode,       \* the manager: off, starting, on, stopping, end
  launched,   \* the vaults that have a session
  pending,    \* sessions whose start() has not returned
  ticker,     \* the timer of the health snapshot is armed
  snapshot,   \* the health file: running, and the state of every vault
  client,     \* client[v]: the SyncClient of a vault
  phase, busy, stopped,
  retry,      \* retry[v]: cancelRetry # null
  closing,    \* closing[v]: stop() waits for the client to be idle
  faults, events

manager == <<mode, launched, pending, ticker, snapshot>>
session == <<phase, busy, stopped, retry, closing>>
counts == <<faults, events>>
vars == <<manager, client, session, counts>>

Phase == {"stopped", "connecting", "live", "disconnected"}

Init ==
  /\ mode = "off" /\ launched = {} /\ pending = {} /\ ticker = FALSE
  /\ snapshot = [running |-> FALSE, state |-> [v \in Vault |-> "none"]]
  /\ client = [v \in Vault |-> NewClient]
  /\ phase = [v \in Vault |-> "stopped"]
  /\ busy = [v \in Vault |-> FALSE]
  /\ stopped = [v \in Vault |-> FALSE]
  /\ retry = [v \in Vault |-> FALSE]
  /\ closing = [v \in Vault |-> FALSE]
  /\ faults = 0 /\ events = 0

Fault == faults < MaxFaults /\ faults' = faults + 1 /\ UNCHANGED events
Event == events < MaxEvents /\ events' = events + 1 /\ UNCHANGED faults

-----------------------------------------------------------------------------
(* The health snapshot *)

\* status of a session
Status(v) ==
  CASE v \notin launched -> "error"
    [] v \in launched /\ phase[v] # "live" -> phase[v]
    [] OTHER -> IF client[v].state \in {"disconnected", "syncing"} THEN client[v].state ELSE "live"

\* writeHealthSnapshot
WriteHealth(running) ==
  snapshot' = [running |-> running, state |-> [v \in Vault |-> Status(v)]]

-----------------------------------------------------------------------------
(* A session *)

\* connect and reconnect of a session, up to their await.
Attempt(v, op, k) ==
  /\ phase' = [phase EXCEPT ![v] = "connecting"]
  /\ busy' = [busy EXCEPT ![v] = TRUE]
  /\ client' = [client EXCEPT ![v] = k]

\* Mutant: a reconnect that fails is not followed by another.
AttemptEndsOnce(v, k) ==
  LET ok == k.stage = "done"
      watched == IF ok /\ k.ops[1] = "connect" THEN StartWatching(k) ELSE k
  IN  /\ phase' = [phase EXCEPT ![v] = IF ok THEN "live" ELSE "disconnected"]
      /\ busy' = [busy EXCEPT ![v] = FALSE]
      /\ retry' = [retry EXCEPT ![v] = IF ok \/ k.ops[1] = "reconnect" THEN @ ELSE ~stopped[v]]
      /\ pending' = pending \ {v}
      /\ client' = [client EXCEPT ![v] = Settle(watched)]

\* The rest of connect and of reconnect: only connect starts the watcher.
AttemptEnds(v, k) ==
  LET ok == k.stage = "done"
      watched == IF ok /\ k.ops[1] = "connect" THEN StartWatching(k) ELSE k
  IN  /\ phase' = [phase EXCEPT ![v] = IF ok THEN "live" ELSE "disconnected"]
      /\ busy' = [busy EXCEPT ![v] = FALSE]
      /\ retry' = [retry EXCEPT ![v] = IF ok THEN @ ELSE ~stopped[v]]    \* scheduleReconnect
      /\ pending' = pending \ {v}
      /\ client' = [client EXCEPT ![v] = Settle(watched)]

\* The client has become k: if an operation ended, its caller continues.
React(v, k) ==
  /\ IF k.stage \in Ended /\ k.ops[1] \in Startup
     THEN AttemptEnds(v, k)
     ELSE /\ client' = [client EXCEPT ![v] = IF k.stage \in Ended THEN Settle(k) ELSE k]
          /\ UNCHANGED <<phase, busy, retry, pending>>
  /\ UNCHANGED <<mode, launched, ticker, snapshot, stopped, closing>>

ClientRuns(v) == \E k \in Progress(client[v]) : React(v, k) /\ UNCHANGED counts
ClientFinishes(v) == \E k \in Finish(client[v]) : React(v, k) /\ UNCHANGED counts
ClientDefers(v) == \E k \in FinishLater(client[v]) : React(v, k) /\ Event
ServerAnswers(v) == \E k \in Answered(client[v]) : React(v, k) /\ UNCHANGED counts
ClientFails(v) == \E k \in Trouble(client[v]) : React(v, k) /\ Fault

\* Mutant: a close that is reported while an attempt runs starts another.
DropIsOursAlways(v) == ~stopped[v] /\ phase[v] \notin {"disconnected", "stopped"}

\* handleDrop: the conditions under which it acts.
DropIsOurs(v) == ~stopped[v] /\ ~busy[v] /\ phase[v] \notin {"disconnected", "stopped"}

\* The transport closes: the client first, then the session (dial's onClose).
Drop(v) ==
  /\ client[v].wire = "open"
  /\ Fault
  /\ LET k == Lose(client[v])
         e == Enqueue(k, "reconnect")
     IN  IF DropIsOurs(v)
         THEN /\ Attempt(v, "reconnect", IF k.stage \in Ended THEN Settle(e) ELSE e)
              /\ UNCHANGED <<manager, stopped, retry, closing>>
         ELSE React(v, k)

\* The timer of scheduleReconnect fires.
Retry(v) ==
  /\ retry[v]
  /\ retry' = [retry EXCEPT ![v] = FALSE]
  /\ Attempt(v, "reconnect", Enqueue(client[v], "reconnect"))
  /\ UNCHANGED <<manager, stopped, closing, counts>>

Becomes(v, k) ==
  /\ client' = [client EXCEPT ![v] = k]
  /\ UNCHANGED <<manager, session>>

ChangeArrives(v) ==
  /\ client[v].wire = "open" /\ HasRoom(client[v])
  /\ Becomes(v, Pushed(client[v])) /\ Event

\* The watcher's batch window ends.
FlushEvents(v) ==
  /\ client[v].watching /\ ~client[v].debounce
  /\ Becomes(v, OnWatchEvents(client[v])) /\ Event

DebounceFires(v) ==
  /\ client[v].debounce /\ HasRoom(client[v])
  /\ Becomes(v, Reconcile(client[v])) /\ UNCHANGED counts

\* Mutant: the client is closed without waiting for its operations.
IdleAnyway(v) == closing[v]

\* Mutant: waitIdle waits for a client that is live.
IdleWhenLive(v) == closing[v] /\ client[v].ops = <<>> /\ client[v].state = "live"

\* stop's waitIdle has returned.
IsIdle(v) == closing[v] /\ client[v].ops = <<>>

\* The end of a session's stop().
CloseSession(v) ==
  /\ IsIdle(v)
  /\ client' = [client EXCEPT ![v] = Close(@)]
  /\ closing' = [closing EXCEPT ![v] = FALSE]
  /\ UNCHANGED <<manager, phase, busy, stopped, retry, counts>>

-----------------------------------------------------------------------------
(* The manager *)

\* Mutant: vaults without a session are waited for.
StartAwaitsAll ==
  /\ mode = "off"
  /\ mode' = "starting"
  /\ \E L \in SUBSET Vault :
       /\ launched' = L /\ pending' = Vault
       /\ client' = [v \in Vault |-> IF v \in L THEN Enqueue(client[v], "connect") ELSE client[v]]
       /\ phase' = [v \in Vault |-> IF v \in L THEN "connecting" ELSE "stopped"]
       /\ busy' = [v \in Vault |-> v \in L]
  /\ UNCHANGED <<ticker, snapshot, stopped, retry, closing, counts>>

\* start: vaults whose directory or token is missing get no session.
Start ==
  /\ mode = "off"
  /\ mode' = "starting"
  /\ \E L \in SUBSET Vault :
       /\ launched' = L /\ pending' = L
       /\ client' = [v \in Vault |-> IF v \in L THEN Enqueue(client[v], "connect") ELSE client[v]]
       /\ phase' = [v \in Vault |-> IF v \in L THEN "connecting" ELSE "stopped"]
       /\ busy' = [v \in Vault |-> v \in L]
  /\ UNCHANGED <<ticker, snapshot, stopped, retry, closing, counts>>

\* Every first connect has succeeded or failed.
Started ==
  /\ mode = "starting" /\ pending = {}
  /\ mode' = "on"
  /\ WriteHealth(TRUE)
  /\ ticker' = TRUE
  /\ UNCHANGED <<launched, pending, client, session, counts>>

HealthTick ==
  /\ ticker
  /\ WriteHealth(mode = "on")
  /\ UNCHANGED <<mode, launched, pending, ticker, client, session, counts>>

\* A signal: stop of the manager and of every session, up to waitIdle.  The
\* watcher hands over what it has collected.
Stop ==
  /\ mode = "on"
  /\ mode' = "stopping"
  /\ ticker' = FALSE
  /\ stopped' = [v \in Vault |-> v \in launched]
  /\ closing' = [v \in Vault |-> v \in launched]
  /\ retry' = [v \in Vault |-> FALSE]
  /\ phase' = [v \in Vault |-> "stopped"]
  /\ \E F \in SUBSET {v \in launched : client[v].watching} :
       client' = [v \in Vault |->
         [(IF v \in F THEN OnWatchEvents(client[v]) ELSE client[v]) EXCEPT !.watching = FALSE]]
  /\ UNCHANGED <<launched, pending, snapshot, busy, counts>>

\* The last snapshot; then the process ends.
Stopped ==
  /\ mode = "stopping" /\ \A v \in Vault : ~closing[v]
  /\ mode' = "end"
  /\ WriteHealth(FALSE)
  /\ UNCHANGED <<launched, pending, ticker, client, session, counts>>

-----------------------------------------------------------------------------

Next ==
  \/ Start \/ Started \/ HealthTick \/ Stop \/ Stopped
  \/ \E v \in Vault :
       \/ ClientRuns(v) \/ ClientFinishes(v) \/ ClientDefers(v) \/ ServerAnswers(v) \/ ClientFails(v)
       \/ Drop(v) \/ Retry(v) \/ ChangeArrives(v) \/ FlushEvents(v) \/ DebounceFires(v)
       \/ CloseSession(v)

Spec == Init /\ [][Next]_vars

\* Timers fire, operations run, the server answers an open connection, and a
\* cycle that gets its answers sends finitely many requests.
Fairness ==
  /\ WF_vars(Started) /\ WF_vars(Stopped)
  /\ \A v \in Vault :
       /\ WF_vars(ClientRuns(v)) /\ WF_vars(ServerAnswers(v)) /\ SF_vars(ClientFinishes(v))
       /\ WF_vars(Retry(v)) /\ WF_vars(CloseSession(v))

FairSpec == Spec /\ Fairness

-----------------------------------------------------------------------------
(* Properties *)

\* Sessions, timers and clients hold what the code stores in them.
DaemonTypeOK ==
  /\ mode \in {"off", "starting", "on", "stopping", "end"}
  /\ launched \subseteq Vault /\ pending \subseteq launched /\ ticker \in BOOLEAN
  /\ client \in [Vault -> Client]
  /\ phase \in [Vault -> Phase]
  /\ busy \in [Vault -> BOOLEAN] /\ stopped \in [Vault -> BOOLEAN]
  /\ retry \in [Vault -> BOOLEAN] /\ closing \in [Vault -> BOOLEAN]

\* A session has at most one attempt to connect under way, and none while its
\* retry timer runs: handleDrop leaves a close during an attempt to the
\* attempt itself (busy), scheduleReconnect replaces the timer.
OneAttempt ==
  \A v \in Vault :
    Cardinality(Startups(client[v])) + (IF retry[v] THEN 1 ELSE 0) <= 1

\* After a graceful stop nothing of a vault goes on: no operation, no open
\* transport, no watcher, no timer (stop waits for waitIdle before it closes).
StopIsFinal ==
  mode = "end" =>
    /\ ~ticker
    /\ \A v \in Vault :
         /\ client[v].ops = <<>> /\ client[v].wire = "none"
         /\ ~client[v].watching /\ ~client[v].debounce /\ ~retry[v]

\* A session that is disconnected is live again, or stopped, once nothing
\* fails any more.
Recovers == \A v \in Vault : phase[v] = "disconnected" ~> phase[v] = "live" \/ stopped[v]

\* A shutdown comes to its end: waitIdle returns.
StopEnds == mode = "stopping" ~> mode = "end"

=============================================================================
