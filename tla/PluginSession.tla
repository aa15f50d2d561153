--------------------------- MODULE PluginSession ---------------------------
(***************************************************************************)
(* The plugin's sync lifecycle (plugin/src/plugin.ts, reconnect.ts,        *)
(* adapters/obsidian-watch.ts): startSync tears down what there is, reads  *)
(* the device marker, builds a client, connects it and only then attaches  *)
(* watcher, rescan timer and supervision tick; pause, resume, restart,     *)
(* unlink and unload may come at any moment in between.  The tick asks the *)
(* client for its state and schedules reconnects.  The n-th startSync owns *)
(* client n.  Status bar, notices and settings are left out.               *)
(***************************************************************************)
EXTENDS ClientLife, FiniteSets

CONSTANTS
  MaxStarts,   \* bound on the calls of startSync
  MaxFaults,   \* bound on what goes wrong
  MaxEvents    \* bound on the changes that server and vault report

Slot == 1..MaxStarts

VARIABLES
  app,          \* off, on, unloaded
  linked,       \* the plugin's data hold a token
  unlinking,    \* unlink deletes the state files
  paused, authFailed,
  start,        \* start[i]: none, marker, connecting, done
  client,       \* client[i]: the SyncClient that startSync i builds
  current,      \* this.client, 0 for null
  rescan,       \* this.rescan, 0 for null
  rescanning,   \* the clients whose rescan timer runs
  tick,         \* this.tickHandle # null
  strayTick,    \* a tick whose handle was overwritten runs on
  timer,        \* this.reconnectTimer # null
  scheduled,    \* the supervisor's flag
  closed,       \* clients closed with no startup left to dial (history)
  faults, events

switches == <<app, linked, unlinking>>
flags == <<paused, authFailed>>
timers == <<rescan, rescanning, tick, strayTick>>
counts == <<faults, events>>
vars == <<switches, flags, start, client, current, timers, timer, scheduled, closed, counts>>

Init ==
  /\ app = "off" /\ linked \in BOOLEAN /\ unlinking = FALSE /\ paused = FALSE /\ authFailed = FALSE
  /\ start = [i \in Slot |-> "none"]
  /\ client = [i \in Slot |-> NewClient]
  /\ current = 0 /\ rescan = 0 /\ rescanning = {}
  /\ tick = FALSE /\ strayTick = FALSE /\ timer = FALSE /\ scheduled = FALSE
  /\ closed = {}
  /\ faults = 0 /\ events = 0

Fault == faults < MaxFaults /\ faults' = faults + 1 /\ UNCHANGED events
Event == events < MaxEvents /\ events' = events + 1 /\ UNCHANGED faults

-----------------------------------------------------------------------------
(* Supervision *)

\* onTick's last guard.
WatchesOver == ~paused /\ ~authFailed

\* onTick with the supervisor's consider and acknowledged, and
\* scheduleReconnect: for the client state st, the new flag and timer.
Consider(st, flag) == st = "disconnected" /\ ~flag

OnTick(watches, st, flag, armed) ==
  IF watches
  THEN [flag  |-> st = "disconnected",
        timer |-> armed \/ Consider(st, flag)]
  ELSE [flag |-> flag, timer |-> armed]

Supervise(t) == scheduled' = t.flag /\ timer' = t.timer

\* The tick fires.
Tick ==
  /\ tick \/ strayTick
  /\ current # 0
  /\ Supervise(OnTick(WatchesOver, client[current].state, scheduled, timer))
  /\ UNCHANGED <<switches, flags, start, client, current, timers, closed, counts>>

-----------------------------------------------------------------------------
(* Operations that end *)

\* The rest of startSync once connect has ended, well or not: handleSyncError,
\* watcher, rescan, tick.
StartEnds(i, k) ==
  LET refused == authFailed \/ k.stage = "refused"
      k2 == Settle(StartWatching(k))
      st == IF current = i THEN k2.state ELSE client[current].state
  IN  /\ client' = [client EXCEPT ![i] = k2]
      /\ start' = [start EXCEPT ![i] = "done"]
      /\ authFailed' = refused
      /\ rescan' = i /\ rescanning' = rescanning \cup {i}
      /\ tick' = TRUE /\ strayTick' = (strayTick \/ tick)
      /\ IF current # 0
         THEN Supervise(OnTick(~paused /\ ~refused, st, scheduled, timer))
         ELSE UNCHANGED <<scheduled, timer>>

\* Mutant: the supervisor only hears of reconnects that succeed.
ReconnectEndsUnsettled(i, k) ==
  /\ client' = [client EXCEPT ![i] = Settle(k)]
  /\ scheduled' = (scheduled /\ k.stage # "done")
  /\ authFailed' = (authFailed \/ k.stage = "refused")
  /\ UNCHANGED <<start, timers, timer>>

\* The reconnect of a timer ended: settled, handleSyncError.
ReconnectEnds(i, k) ==
  /\ client' = [client EXCEPT ![i] = Settle(k)]
  /\ scheduled' = FALSE
  /\ authFailed' = (authFailed \/ k.stage = "refused")
  /\ UNCHANGED <<start, timers, timer>>

\* Client i has become k.
React(i, k) ==
  /\ CASE k.stage \in Ended /\ k.ops[1] = "connect" -> StartEnds(i, k)
       [] k.stage \in Ended /\ k.ops[1] = "reconnect" -> ReconnectEnds(i, k)
       [] OTHER ->
            /\ client' = [client EXCEPT ![i] = IF k.stage \in Ended THEN Settle(k) ELSE k]
            /\ UNCHANGED <<start, authFailed, timers, timer, scheduled>>
  /\ UNCHANGED <<switches, paused, current, closed>>

ClientRuns(i) == \E k \in Progress(client[i]) : React(i, k) /\ UNCHANGED counts
ClientFinishes(i) == \E k \in Finish(client[i]) : React(i, k) /\ UNCHANGED counts
ClientDefers(i) == \E k \in FinishLater(client[i]) : React(i, k) /\ Event
ServerAnswers(i) == \E k \in Answered(client[i]) : React(i, k) /\ UNCHANGED counts
ClientFails(i) == \E k \in Trouble(client[i]) : React(i, k) /\ Fault
Drop(i) == client[i].wire = "open" /\ React(i, Lose(client[i])) /\ Fault

Becomes(i, k) ==
  /\ client' = [client EXCEPT ![i] = k]
  /\ UNCHANGED <<switches, flags, start, current, timers, timer, scheduled, closed>>

ChangeArrives(i) ==
  /\ client[i].wire = "open" /\ HasRoom(client[i])
  /\ Becomes(i, Pushed(client[i])) /\ Event

\* An event of the vault is forwarded.
Forward(i) ==
  /\ client[i].watching /\ ~client[i].debounce
  /\ Becomes(i, OnWatchEvents(client[i])) /\ Event

DebounceFires(i) ==
  /\ client[i].debounce /\ HasRoom(client[i])
  /\ Becomes(i, Reconcile(client[i])) /\ UNCHANGED counts

\* The rescan timer fires, or a note is focused (poke).
Rescan(i) ==
  /\ i \in rescanning /\ HasRoom(client[i])
  /\ Becomes(i, Enqueue(client[i], "cycle")) /\ Event

\* The reconnect timer fires.
TimerFires ==
  /\ timer
  /\ timer' = FALSE
  /\ IF current = 0
     THEN scheduled' = FALSE /\ UNCHANGED client
     ELSE /\ client' = [client EXCEPT ![current] = Enqueue(@, "reconnect")]
          /\ UNCHANGED scheduled
  /\ UNCHANGED <<switches, flags, start, current, timers, closed, counts>>

-----------------------------------------------------------------------------
(* Teardown.  close() makes a request that waits fail, so the operation it  *)
(* belongs to ends, and what follows it in the code runs, in the same step. *)

AfterClose(k) ==
  LET c == Close(k)
  IN  IF c.stage \notin Ended THEN c
      ELSE Settle(IF c.ops[1] = "connect" THEN StartWatching(c) ELSE c)

\* The startSync whose connect fails when the client is closed.
CutShort ==
  {i \in Slot : i = current /\ client[i].stage \in {"hello", "ask"} /\ client[i].ops[1] = "connect"}

\* A startup of the client has yet to dial.
WillDial(k) == \E i \in Startups(k) : i > 1 \/ k.stage = "load"

\* Mutant: pauseSyncing leaves the reconnect timer armed.
TearDownKeepsTimer(ticking) ==
  /\ timer' = (ticking /\ timer) /\ scheduled' = FALSE
  /\ rescan' = IF CutShort # {} THEN current ELSE 0
  /\ rescanning' = (rescanning \ {rescan}) \cup CutShort
  /\ tick' = ((ticking /\ tick) \/ CutShort # {})
  /\ client' = [i \in Slot |-> IF i = current THEN AfterClose(client[i]) ELSE client[i]]
  /\ closed' = closed \cup {i \in Slot : i = current /\ ~WillDial(client[i])}

\* stopSync (ticking = FALSE) and pauseSyncing (ticking = TRUE), whose tick
\* goes on.  A startSync that is cut short goes on to its timers.  The
\* supervisor's flag is reset by pauseSyncing and by the next startSync.
TearDown(ticking) ==
  /\ timer' = FALSE /\ scheduled' = FALSE
  /\ rescan' = IF CutShort # {} THEN current ELSE 0
  /\ rescanning' = (rescanning \ {rescan}) \cup CutShort
  /\ tick' = ((ticking /\ tick) \/ CutShort # {})
  /\ client' = [i \in Slot |-> IF i = current THEN AfterClose(client[i]) ELSE client[i]]
  /\ closed' = closed \cup {i \in Slot : i = current /\ ~WillDial(client[i])}

Ends == [i \in Slot |-> IF i \in CutShort THEN "done" ELSE start[i]]

StopSync == TearDown(FALSE) /\ current' = 0

-----------------------------------------------------------------------------
(* startSync and its callers *)

\* startSync up to its first await.
StartSync ==
  \E i \in Slot :
    /\ start[i] = "none" /\ \A j \in 1..(i - 1) : start[j] # "none"
    /\ StopSync /\ UNCHANGED strayTick
    /\ start' = [Ends EXCEPT ![i] = "marker"]

\* The marker has been read: from the new client to the await of connect.
MarkerRead(i) ==
  /\ start[i] = "marker"
  /\ start' = [start EXCEPT ![i] = "connecting"]
  /\ client' = [client EXCEPT ![i] = Enqueue(@, "connect")]
  /\ current' = i
  /\ authFailed' = FALSE /\ scheduled' = FALSE
  /\ UNCHANGED <<switches, paused, timers, timer, closed, counts>>

\* onload: without "sync on startup" nothing starts.
Load ==
  /\ app = "off" /\ app' = "on"
  /\ \/ linked /\ StartSync
     \/ UNCHANGED <<start, client, current, timers, timer, scheduled, closed>>
  /\ UNCHANGED <<linked, unlinking, flags, counts>>

\* applyPairOutcome, of a device that is paired.
Paired ==
  /\ app = "on" /\ linked' = TRUE
  /\ StartSync
  /\ UNCHANGED <<app, unlinking, flags, counts>>

\* syncNow
SyncNow ==
  /\ app = "on" /\ ~paused
  /\ \/ current = 0 /\ linked /\ StartSync /\ UNCHANGED <<switches, flags, counts>>
     \/ /\ current # 0 /\ HasRoom(client[current])
        /\ Becomes(current, Enqueue(client[current], "cycle")) /\ Event

PauseSyncing ==
  /\ app = "on" /\ linked /\ ~paused
  /\ paused' = TRUE
  /\ TearDown(TRUE)
  /\ strayTick' = (strayTick \/ (tick /\ CutShort # {}))
  /\ start' = Ends
  /\ UNCHANGED <<switches, authFailed, current, counts>>

ResumeSyncing ==
  /\ app = "on" /\ linked /\ paused
  /\ paused' = FALSE
  /\ StartSync
  /\ UNCHANGED <<switches, authFailed, counts>>

\* applyIgnorePatterns, once the settings are saved.
ApplyIgnorePatterns ==
  /\ app = "on" /\ linked /\ current # 0 /\ ~paused
  /\ StartSync
  /\ UNCHANGED <<switches, flags, counts>>

\* unlink up to its first await, and from its last.
Unlink ==
  /\ app = "on" /\ ~unlinking /\ unlinking' = TRUE
  /\ StopSync /\ UNCHANGED strayTick /\ start' = Ends
  /\ paused' = FALSE
  /\ UNCHANGED <<app, linked, authFailed, counts>>

Unlinked ==
  /\ unlinking /\ unlinking' = FALSE
  /\ linked' = FALSE
  /\ UNCHANGED <<app, flags, start, client, current, timers, timer, scheduled, closed, counts>>

\* onunload; Obsidian clears every registered interval.
Unload ==
  /\ app = "on" /\ app' = "unloaded"
  /\ StopSync /\ strayTick' = FALSE /\ start' = Ends
  /\ UNCHANGED <<linked, unlinking, flags, counts>>

-----------------------------------------------------------------------------

Next ==
  \/ Load \/ Paired \/ SyncNow \/ PauseSyncing \/ ResumeSyncing \/ ApplyIgnorePatterns
  \/ Unlink \/ Unlinked \/ Unload \/ Tick \/ TimerFires
  \/ \E i \in Slot :
       \/ MarkerRead(i)
       \/ ClientRuns(i) \/ ClientFinishes(i) \/ ClientDefers(i) \/ ServerAnswers(i) \/ ClientFails(i)
       \/ Drop(i) \/ ChangeArrives(i) \/ Forward(i) \/ DebounceFires(i) \/ Rescan(i)

Spec == Init /\ [][Next]_vars

\* Timers fire, operations run, the server answers an open connection, and a
\* cycle that gets its answers sends finitely many requests.
Fairness ==
  /\ WF_vars(Tick) /\ WF_vars(TimerFires)
  /\ \A i \in Slot :
       /\ WF_vars(MarkerRead(i)) /\ WF_vars(ClientRuns(i)) /\ WF_vars(ServerAnswers(i))
       /\ SF_vars(ClientFinishes(i))

FairSpec == Spec /\ Fairness

-----------------------------------------------------------------------------
(* Properties *)

\* A client that was closed with no startup left to dial stays offline: no
\* timer, tick, rescan or user action reaches it with a reconnect
\* (pauseSyncing and stopSync clear the timer before they close).
ClosedStaysOffline ==
  \A i \in closed : client[i].wire # "open" /\ Startups(client[i]) \subseteq {1} /\ client[i].stage # "load"

\* The client in use comes back to live after whatever went wrong, unless the
\* user pauses or replaces it or the server rejects its token.
SyncsAgain ==
  \A i \in Slot :
    current = i ~> client[i].state = "live" \/ paused \/ authFailed \/ current # i

=============================================================================
