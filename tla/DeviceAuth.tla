----------------------------- MODULE DeviceAuth -----------------------------
(***************************************************************************)
(* Who may talk to a vault's room: the claim, admin sessions, pairing      *)
(* codes, device tokens and their rotation (worker/src/room.ts behind the  *)
(* router of worker/src/index.ts), the dashboard that administers them,    *)
(* and the hosts (command line, daemon, plugin) that pair, keep a token    *)
(* and dial with it.                                                       *)
(*                                                                         *)
(* A token is the device it was issued for and a number that counts the    *)
(* device's tokens; the room keeps hashes, which identify tokens as well.  *)
(* A browser stands for its cookie jar.  A request and its answer are one  *)
(* step; an answer that does not arrive is an alternative of the step,     *)
(* except for the answer to hello, which waits in "ack".  Time is a count  *)
(* of ticks.  Names and types of devices, the text of a passphrase (a      *)
(* record of it is a number) and the status document are left out.         *)
(***************************************************************************)
EXTENDS Naturals

CONSTANTS
  Browser,            \* where the dashboard runs
  Host,               \* machines and apps that sync
  Plugins,            \* the hosts that are plugins
  Code,               \* pairing codes
  Device,             \* device ids
  NoDevice,           \* no device
  RotationInterval,   \* age after which a token is replaced
  RotationGrace,      \* how long the replaced token is still taken
  PairTtl,            \* life of a pairing code
  SessionTtl,         \* life of an admin session
  FailureWindow,      \* how long failures count
  FailureLimit,       \* failures allowed within it
  MaxTime,            \* bound on ticks
  MaxTokens,          \* bound on the tokens of a device
  MaxSecrets          \* bound on session secrets

ASSUME AuthAssumption ==
  /\ Plugins \subseteq Host
  /\ NoDevice \notin Device
  /\ RotationInterval \in Nat /\ RotationGrace \in Nat
  /\ PairTtl \in Nat /\ SessionTtl \in Nat /\ FailureWindow \in Nat
  /\ FailureLimit \in Nat \ {0}
  /\ MaxTime \in Nat /\ MaxTokens \in Nat /\ MaxSecrets \in Nat

VARIABLES
  now,        \* ticks
  meta,       \* passphrase record (0: unclaimed), session secret, sessions_not_before
  pairs,      \* pairs[c]: a row of the table of pairing codes
  devices,    \* devices[i]: a row of the table of devices
  failures,   \* authFailures of the address the users share; in memory
  cookie,     \* cookie[b]: the admin session of a browser
  view,       \* view[b]: what the dashboard shows
  saved,      \* saved[h]: registry entry, token and marker a host keeps
  missed,     \* missed[h]: replacements of the saved token not saved (history)
  process,    \* process[h]: the token its running client dials with
  socket,     \* socket[h]: none, open (no hello yet), or attached
  ack         \* ack[h]: a replacement on its way to the host

server == <<meta, pairs, devices, failures>>
admin  == <<cookie, view>>
hosts  == <<saved, missed, process, socket, ack>>
vars   == <<now, server, admin, hosts>>

MaybeDevice == Device \cup {NoDevice}
Token == [dev : MaybeDevice, n : Nat]
NoToken == [dev |-> NoDevice, n |-> 0]

PairRow == [minted : BOOLEAN, expires : Nat, used : BOOLEAN]
DeviceRow == [n : Nat, issued : Nat, expires : Nat, revoked : BOOLEAN]  \* n = 0: no row
MetaRow == [passphrase : Nat, secret : Nat, notBefore : Nat]
Failures == [count : Nat, start : Nat]
Session == [secret : Nat, issued : Nat]
View == {"loading", "claim", "finish", "login", "status"}
Kept == [entry : MaybeDevice, token : Token, marker : MaybeDevice]
Socket == {"none", "open", "attached"}

NoCookie == [secret |-> 0, issued |-> 0]
NoFailures == [count |-> 0, start |-> 0]
Unlinked == [entry |-> NoDevice, token |-> NoToken, marker |-> NoDevice]

Init ==
  /\ now = 0
  /\ meta = [passphrase |-> 0, secret |-> 0, notBefore |-> 0]
  /\ pairs = [c \in Code |-> [minted |-> FALSE, expires |-> 0, used |-> FALSE]]
  /\ devices = [i \in Device |-> [n |-> 0, issued |-> 0, expires |-> 0, revoked |-> FALSE]]
  /\ failures = NoFailures
  /\ cookie = [b \in Browser |-> NoCookie]
  /\ view = [b \in Browser |-> "loading"]
  /\ saved = [h \in Host |-> Unlinked]
  /\ missed = [h \in Host |-> 0]
  /\ process = [h \in Host |-> NoToken]
  /\ socket = [h \in Host |-> "none"]
  /\ ack = [h \in Host |-> NoToken]

-----------------------------------------------------------------------------
(* Time and memory *)

Tick ==
  /\ now < MaxTime
  /\ now' = now + 1
  /\ UNCHANGED <<server, admin, hosts>>

\* The room leaves memory; authFailures is all that it keeps there.
Evict ==
  /\ failures # NoFailures
  /\ failures' = NoFailures
  /\ UNCHANGED <<now, meta, pairs, devices, admin, hosts>>

-----------------------------------------------------------------------------
(* The failure budget of login, passphrase change and pairing *)

WindowOpen == failures.count > 0 /\ now < failures.start + FailureWindow

\* Mutant: one failure more than the limit is let through.
ThrottledLate == WindowOpen /\ failures.count > FailureLimit

\* authThrottle
Throttled == WindowOpen /\ failures.count >= FailureLimit

\* noteAuthFailure
NoteAuthFailure ==
  failures' = IF WindowOpen THEN [failures EXCEPT !.count = @ + 1]
                            ELSE [count |-> 1, start |-> now]

-----------------------------------------------------------------------------
(* Admin sessions and the dashboard *)

\* isClaimed
Claimed == meta.passphrase > 0

\* The router passes a request to the room's handler once the vault is claimed.
Gate == Claimed

\* signSession
SignSession(secret) == [secret |-> secret, issued |-> now]

\* requireAdmin
IsAdmin(b) ==
  /\ cookie[b] # NoCookie
  /\ now < cookie[b].issued + SessionTtl
  /\ cookie[b].issued >= meta.notBefore
  /\ cookie[b].secret = meta.secret

\* Set-Cookie of the router's handlers.
SetCookie(b, session) == cookie' = [cookie EXCEPT ![b] = session]

\* reduce and render: the view that an answer leads to.
Show(b, v) == view' = [view EXCEPT ![b] = v]

\* bootstrap: the claim state decides, then a probe of the session.
Bootstrap(b) ==
  /\ view[b] = "loading"
  /\ Show(b, IF ~Claimed THEN "claim" ELSE IF IsAdmin(b) THEN "status" ELSE "login")
  /\ UNCHANGED <<now, server, cookie, hosts>>

\* The page is loaded again.
Reload(b) ==
  /\ view[b] # "loading"
  /\ Show(b, "loading")
  /\ UNCHANGED <<now, server, cookie, hosts>>

\* httpClaim: the first one wins, and registers no device.
HttpClaim == meta' = [meta EXCEPT !.passphrase = 1, !.secret = 1]

\* submitClaim
SubmitClaim(b) ==
  /\ view[b] = "claim"
  /\ \/ Claimed /\ Show(b, "login") /\ UNCHANGED meta
     \/ ~Claimed /\ HttpClaim /\ Show(b, "finish")
     \/ ~Claimed /\ HttpClaim /\ UNCHANGED view    \* the answer is lost
  /\ UNCHANGED <<now, pairs, devices, failures, cookie, hosts>>

\* httpAdminLogin, the right passphrase and a wrong one.
HttpAdminLogin(b) ==
  /\ Gate /\ ~Throttled
  /\ failures' = NoFailures
  /\ SetCookie(b, SignSession(meta.secret))

HttpAdminLoginFails == Gate /\ ~Throttled /\ NoteAuthFailure

\* signIn
SignIn(b) ==
  /\ view[b] = "login"
  /\ \/ HttpAdminLogin(b) /\ Show(b, "status")
     \/ HttpAdminLoginFails /\ UNCHANGED admin
  /\ UNCHANGED <<now, meta, pairs, devices, hosts>>

\* httpAdminPair
HttpAdminPair(c) ==
  /\ ~pairs[c].minted
  /\ pairs' = [pairs EXCEPT ![c] = [minted |-> TRUE, expires |-> now + PairTtl, used |-> FALSE]]

\* finishClaim: sign in with the passphrase of the claim, mint the first
\* code; retried by hand if a request fails, or left for the login form.
FinishClaim(b) ==
  /\ view[b] = "finish"
  /\ \/ /\ meta.passphrase = 1 /\ HttpAdminLogin(b)
        /\ \E c \in Code : HttpAdminPair(c)
        /\ Show(b, "status")
     \/ /\ meta.passphrase = 1 /\ HttpAdminLogin(b)
        /\ UNCHANGED <<pairs, view>>    \* the second request fails
     \/ /\ meta.passphrase # 1 /\ HttpAdminLoginFails    \* changed meanwhile
        /\ UNCHANGED <<pairs, cookie, view>>
     \/ /\ Show(b, "login")
        /\ UNCHANGED <<pairs, cookie, failures>>
  /\ UNCHANGED <<now, meta, devices, hosts>>

\* mint: the modal of the status view.
Mint(b) ==
  /\ view[b] = "status" /\ IsAdmin(b)
  /\ \E c \in Code : HttpAdminPair(c)
  /\ UNCHANGED <<now, meta, devices, failures, admin, hosts>>

\* Mutant: the session secret survives the change.
ChangeKeepingSecret == meta' = [meta EXCEPT !.passphrase = @ + 1, !.notBefore = now]

\* httpAdminPassphraseChange: the record, a new secret, the floor.
HttpAdminPassphraseChange ==
  meta' = [meta EXCEPT !.passphrase = @ + 1, !.secret = @ + 1, !.notBefore = now]

\* submitPassphraseChange
SubmitPassphraseChange(b) ==
  /\ view[b] = "status" /\ IsAdmin(b)
  /\ ~Throttled
  /\ meta.passphrase < MaxSecrets
  /\ HttpAdminPassphraseChange
  /\ failures' = NoFailures
  /\ \/ SetCookie(b, SignSession(meta'.secret))
     \/ UNCHANGED cookie    \* the answer is lost
  /\ UNCHANGED <<now, pairs, devices, view, hosts>>

\* The current passphrase was mistyped: an error in the form.
PassphraseChangeFails(b) ==
  /\ view[b] = "status" /\ IsAdmin(b)
  /\ ~Throttled
  /\ NoteAuthFailure
  /\ UNCHANGED <<now, meta, pairs, devices, admin, hosts>>

\* httpAdminLogout: a valid session raises the floor for all.
HttpAdminLogout(b) ==
  meta' = IF IsAdmin(b) THEN [meta EXCEPT !.notBefore = now] ELSE meta

\* signOut leaves the view whether or not router and room were reached; the
\* router clears the cookie even if the room fails.
SignOut(b) ==
  /\ view[b] = "status"
  /\ HttpAdminLogout(b) \/ UNCHANGED meta
  /\ SetCookie(b, NoCookie) \/ UNCHANGED cookie
  /\ Show(b, "login")
  /\ UNCHANGED <<now, pairs, devices, failures, hosts>>

\* load, every 30 seconds: without a session, back to the login form.
Load(b) ==
  /\ view[b] = "status" /\ ~IsAdmin(b)
  /\ Show(b, "login")
  /\ UNCHANGED <<now, server, cookie, hosts>>

\* A host whose socket closes before its replacement arrived never sees it.
MissedBy(H) == [h \in Host |->
  IF h \in H /\ ack[h] # NoToken /\ ack[h].dev = saved[h].token.dev
  THEN missed[h] + 1 ELSE missed[h]]

Disconnect(H) ==
  /\ socket' = [h \in Host |-> IF h \in H THEN "none" ELSE socket[h]]
  /\ missed' = MissedBy(H)
  /\ ack' = [h \in Host |-> IF h \in H THEN NoToken ELSE ack[h]]

\* Mutant: the device's sockets stay open.
RevokeLeavingSockets(i) ==
  /\ devices' = [devices EXCEPT ![i].revoked = TRUE]
  /\ UNCHANGED <<socket, missed, ack>>

\* httpAdminRevoke
HttpAdminRevoke(i) ==
  /\ devices' = [devices EXCEPT ![i].revoked = TRUE]
  /\ Disconnect({h \in Host : socket[h] = "attached" /\ process[h].dev = i})

\* revokeDevice
RevokeDevice(b, i) ==
  /\ view[b] = "status" /\ IsAdmin(b)
  /\ devices[i].n > 0 /\ ~devices[i].revoked
  /\ HttpAdminRevoke(i)
  /\ UNCHANGED <<now, meta, pairs, failures, admin, saved, process>>

-----------------------------------------------------------------------------
(* Pairing *)

Redeemable(c) == pairs[c].minted /\ ~pairs[c].used /\ pairs[c].expires > now

\* registerDevice
Registered == [n |-> 1, issued |-> now, expires |-> 0, revoked |-> FALSE]

\* httpPair: the code is burnt and the device registered.
HttpPair(c, i) ==
  /\ Gate /\ ~Throttled
  /\ Redeemable(c)
  /\ devices[i].n = 0
  /\ pairs' = [pairs EXCEPT ![c].used = TRUE]
  /\ devices' = [devices EXCEPT ![i] = Registered]
  /\ failures' = NoFailures

FirstToken(i) == [dev |-> i, n |-> 1]

\* upsertVault and setToken of the registry; removeVault drops both.
UpsertVault(s, i) == [s EXCEPT !.entry = i]
SetToken(s, t) == [s EXCEPT !.token = t]
RemoveVault(s) == [s EXCEPT !.entry = NoDevice, !.token = NoToken]

\* writeDeviceMarker
WriteDeviceMarker(s, i) == [s EXCEPT !.marker = i]

Keep(h, s) ==
  /\ saved' = [saved EXCEPT ![h] = s]
  /\ missed' = [missed EXCEPT ![h] = IF s.token = saved[h].token THEN @ ELSE 0]

\* runLink (with --force where a marker or an entry exists): the answer may
\* be lost, or the command may die between two of its three writes.
RunLink(h, c, i) ==
  /\ h \notin Plugins
  /\ HttpPair(c, i)
  /\ LET s1 == UpsertVault(saved[h], i)
         s2 == SetToken(s1, FirstToken(i))
     IN  \/ Keep(h, saved[h])
         \/ Keep(h, s1)
         \/ Keep(h, s2)
         \/ Keep(h, WriteDeviceMarker(s2, i))
  /\ UNCHANGED <<now, meta, admin, process, socket, ack>>

\* applyPairOutcome: one save holds the id and the token.
ApplyPairOutcome(s, i) == [s EXCEPT !.entry = i, !.token = FirstToken(i)]

\* pairWithWorker, from the settings or from a link: a vault that is linked
\* is not paired again.
PairWithWorker(h, c, i) ==
  /\ h \in Plugins /\ saved[h].entry = NoDevice
  /\ HttpPair(c, i)
  /\ LET s == ApplyPairOutcome(saved[h], i)
     IN  \/ Keep(h, saved[h])    \* the answer is lost
         \/ Keep(h, s)           \* the marker's write fails
         \/ Keep(h, WriteDeviceMarker(s, i))
  /\ UNCHANGED <<now, meta, admin, process, socket, ack>>

\* requestPair: a code that is mistyped, used or expired is a failed guess.
RequestPairFails(h) ==
  /\ h \in Plugins => saved[h].entry = NoDevice
  /\ Gate /\ ~Throttled
  /\ NoteAuthFailure
  /\ UNCHANGED <<now, meta, pairs, devices, admin, hosts>>

\* runUnlink leaves the marker, and a daemon that is running.
RunUnlink(h) ==
  /\ h \notin Plugins /\ saved[h].entry # NoDevice
  /\ Keep(h, RemoveVault(saved[h]))
  /\ UNCHANGED <<now, server, admin, process, socket, ack>>

\* The plugin's unlink ends its client first.
Unlink(h) ==
  /\ h \in Plugins /\ saved[h].entry # NoDevice
  /\ Keep(h, Unlinked)
  /\ process' = [process EXCEPT ![h] = NoToken]
  /\ socket' = [socket EXCEPT ![h] = "none"]
  /\ ack' = [ack EXCEPT ![h] = NoToken]
  /\ UNCHANGED <<now, server, admin>>

-----------------------------------------------------------------------------
(* Connections and the rotation of tokens *)

\* A client is built with the token saved at that moment.
CreateVaultClient(h) ==
  /\ process[h] = NoToken
  /\ saved[h].entry # NoDevice /\ saved[h].token # NoToken
  /\ process' = [process EXCEPT ![h] = saved[h].token]
  /\ UNCHANGED <<now, server, admin, saved, missed, socket, ack>>

\* The client dials: handleUpgrade.
HandleUpgrade(h) ==
  /\ process[h] # NoToken /\ socket[h] = "none"
  /\ socket' = [socket EXCEPT ![h] = "open"]
  /\ UNCHANGED <<now, server, admin, saved, missed, process, ack>>

Current(t) == t.dev \in Device /\ devices[t.dev].n = t.n

ViaGrace(t) ==
  t.dev \in Device /\ devices[t.dev].n = t.n + 1 /\ devices[t.dev].expires > now

\* Mutant: only the current token is looked up.
AcceptedCurrent(t) == Current(t) /\ ~devices[t.dev].revoked

\* lookupDeviceByToken and the check of "revoked"
Accepted(t) == (Current(t) \/ ViaGrace(t)) /\ ~devices[t.dev].revoked

Replaced(t) == ViaGrace(t) \/ now > devices[t.dev].issued + RotationInterval

\* handleHello
HandleHello(h) ==
  LET t == process[h]
      d == devices[t.dev]
  IN  /\ socket[h] = "open"
      /\ \/ /\ ~Accepted(t)
            /\ socket' = [socket EXCEPT ![h] = "none"]
            /\ UNCHANGED <<devices, ack>>
         \/ /\ Accepted(t) /\ ~Replaced(t)
            /\ socket' = [socket EXCEPT ![h] = "attached"]
            /\ UNCHANGED <<devices, ack>>
         \/ /\ Accepted(t) /\ Replaced(t)
            /\ d.n < MaxTokens
            /\ devices' = [devices EXCEPT ![t.dev] =
                 [n |-> d.n + 1, issued |-> now, expires |-> now + RotationGrace, revoked |-> FALSE]]
            /\ socket' = [socket EXCEPT ![h] = "attached"]
            /\ ack' = [ack EXCEPT ![h] = [dev |-> t.dev, n |-> d.n + 1]]
      /\ UNCHANGED <<now, meta, pairs, failures, admin, saved, missed, process>>

\* onTokenRotated: the replacement is saved; the running client keeps the
\* token it was built with.
OnTokenRotated(h) ==
  /\ ack[h] # NoToken
  /\ \/ Keep(h, SetToken(saved[h], ack[h]))
     \/ missed' = MissedBy({h}) /\ UNCHANGED saved    \* saving fails
  /\ ack' = [ack EXCEPT ![h] = NoToken]
  /\ UNCHANGED <<now, server, admin, process, socket>>

\* The connection drops.
Drop(h) ==
  /\ socket[h] # "none"
  /\ Disconnect({h})
  /\ UNCHANGED <<now, server, admin, saved, process>>

\* The client is closed, or its process dies.
Stop(h) ==
  /\ process[h] # NoToken
  /\ process' = [process EXCEPT ![h] = NoToken]
  /\ Disconnect({h})
  /\ UNCHANGED <<now, server, admin, saved>>

-----------------------------------------------------------------------------

Next ==
  \/ Tick \/ Evict
  \/ \E b \in Browser :
       \/ Bootstrap(b) \/ Reload(b) \/ SubmitClaim(b) \/ SignIn(b) \/ FinishClaim(b)
       \/ Mint(b) \/ SubmitPassphraseChange(b) \/ PassphraseChangeFails(b)
       \/ SignOut(b) \/ Load(b)
       \/ \E i \in Device : RevokeDevice(b, i)
  \/ \E h \in Host :
       \/ \E c \in Code, i \in Device : RunLink(h, c, i) \/ PairWithWorker(h, c, i)
       \/ RequestPairFails(h) \/ RunUnlink(h) \/ Unlink(h)
       \/ CreateVaultClient(h) \/ HandleUpgrade(h) \/ HandleHello(h)
       \/ OnTokenRotated(h) \/ Drop(h) \/ Stop(h)

Spec == Init /\ [][Next]_vars

-----------------------------------------------------------------------------
(* Properties *)

\* Every table, cookie and file holds what the code stores in it.
AuthTypeOK ==
  /\ now \in Nat
  /\ meta \in MetaRow
  /\ pairs \in [Code -> PairRow]
  /\ devices \in [Device -> DeviceRow]
  /\ failures \in Failures
  /\ cookie \in [Browser -> Session]
  /\ view \in [Browser -> View]
  /\ saved \in [Host -> Kept]
  /\ missed \in [Host -> Nat]
  /\ process \in [Host -> Token]
  /\ socket \in [Host -> Socket]
  /\ ack \in [Host -> Token]

\* The token a host has saved is taken by the room (lookupDeviceByToken) as
\* long as the device is not revoked, every replacement was saved, or one was
\* not and the grace period lasts: rotation wedges nobody who restarts.
SavedTokenWorks ==
  \A h \in Host :
    LET t == saved[h].token
    IN  /\ t # NoToken /\ ack[h] = NoToken /\ ~devices[t.dev].revoked
        /\ \/ missed[h] = 0
           \/ missed[h] = 1 /\ now < devices[t.dev].expires
        => Accepted(t)

\* No socket stays attached to a revoked device (httpAdminRevoke closes the
\* device's sockets, handleHello attaches none).
RevokedStaysOut ==
  \A h \in Host :
    socket[h] = "attached" => process[h].dev \in Device /\ ~devices[process[h].dev].revoked

\* The failures of an address never exceed the limit: authThrottle runs
\* before every guess that noteAuthFailure counts.
FailureBudget == failures.count <= FailureLimit

\* A passphrase change ends every admin session but the one it answers with,
\* however close in time they were opened (httpAdminPassphraseChange).
ChangeEndsSessions ==
  [][\A b \in Browser :
       meta'.passphrase # meta.passphrase /\ IsAdmin(b)' => cookie'[b] # cookie[b]]_vars

=============================================================================
