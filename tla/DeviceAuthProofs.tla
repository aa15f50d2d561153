-------------------------- MODULE DeviceAuthProofs --------------------------
(***************************************************************************)
(* What DeviceAuth promises for any number of browsers, hosts, codes and   *)
(* devices, and for any durations.  AuthInv is the inductive invariant: a  *)
(* device's tokens live on one host, a replacement on its way is the       *)
(* device's current token, and "missed" counts how far the saved token is  *)
(* behind it.                                                              *)
(***************************************************************************)
EXTENDS DeviceAuth, TLAPS

\* A token was issued: its device has a row and has issued at least as many.
Issued(t) == t = NoToken \/ (t.dev \in Device /\ 1 <= t.n /\ t.n <= devices[t.dev].n)

TokensIssued ==
  \A h \in Host : Issued(saved[h].token) /\ Issued(process[h]) /\ Issued(ack[h])

\* A replacement on its way belongs to an attached socket, and is current.
AckCurrent ==
  \A h \in Host : ack[h] # NoToken =>
    socket[h] = "attached" /\ devices[ack[h].dev].n = ack[h].n

\* How far the saved token is behind the device's current one.
Behind(h) ==
  LET t == saved[h].token
      n == devices[t.dev].n
  IN  t # NoToken =>
        IF ack[h].dev = t.dev
        THEN t.n < n /\ (missed[h] = 0 => n = t.n + 1)
        ELSE (missed[h] = 0 => n = t.n) /\ (missed[h] = 1 => n = t.n + 1)

SavedBehind == \A h \in Host : Behind(h)

Holds(h, i) == saved[h].token.dev = i \/ process[h].dev = i \/ ack[h].dev = i

\* A device's tokens live on one host.
OneHost == \A i \in Device, g, h \in Host : Holds(g, i) /\ Holds(h, i) => g = h

\* Every session was signed with a secret the room has had; a secret comes
\* with every passphrase.
SecretsKnown ==
  /\ meta.secret = meta.passphrase
  /\ \A b \in Browser : cookie[b].secret <= meta.secret

TokenInv == TokensIssued /\ AckCurrent /\ SavedBehind /\ OneHost

AuthInv == AuthTypeOK /\ FailureBudget /\ RevokedStaysOut /\ SecretsKnown /\ TokenInv

-----------------------------------------------------------------------------
(* Types *)

\* The constants of the model have their types.
LEMMA ConstantTypes ==
  /\ NoToken \in Token /\ NoCookie \in Session /\ NoFailures \in Failures
  /\ Unlinked \in Kept
  BY DEF NoToken, Token, NoCookie, Session, NoFailures, Failures, Unlinked, Kept, MaybeDevice

\* The initial tables, cookies and files have their types.
LEMMA AuthTypeInit == Init => AuthTypeOK
  BY ConstantTypes DEF Init, AuthTypeOK, PairRow, DeviceRow, MetaRow, View, Socket

\* noteAuthFailure counts a failure, or starts a window.
LEMMA NoteType == ASSUME AuthTypeOK, NoteAuthFailure PROVE failures' \in Failures
  BY DEF AuthTypeOK, NoteAuthFailure, Failures

\* A claim, and a change of the passphrase, write a row of "meta".
LEMMA MetaType ==
  ASSUME now \in Nat, meta \in MetaRow, HttpClaim \/ HttpAdminPassphraseChange
  PROVE  meta' \in MetaRow
<1>1. CASE HttpClaim
  <2>1. meta' = [passphrase |-> 1, secret |-> 1, notBefore |-> meta.notBefore]
    BY <1>1 DEF HttpClaim, MetaRow
  <2>. QED
    BY <2>1 DEF MetaRow
<1>2. CASE HttpAdminPassphraseChange
  <2>1. meta' = [passphrase |-> meta.passphrase + 1, secret |-> meta.secret + 1,
                 notBefore |-> now]
    BY <1>2 DEF HttpAdminPassphraseChange, MetaRow
  <2>. QED
    BY <2>1 DEF MetaRow
<1>. QED
  BY <1>1, <1>2

\* A session is signed with a secret and the time.
LEMMA SignType == ASSUME AuthTypeOK, NEW n \in Nat PROVE SignSession(n) \in Session
  BY DEF AuthTypeOK, SignSession, Session

\* What a host keeps is replaced by something of the same type.
LEMMA KeepType ==
  ASSUME AuthTypeOK, NEW h \in Host, NEW s \in Kept, Keep(h, s)
  PROVE  saved' \in [Host -> Kept] /\ missed' \in [Host -> Nat]
  BY DEF AuthTypeOK, Keep

\* A closed connection leaves counters, sockets and answers of their types.
LEMMA DisconnectType ==
  ASSUME AuthTypeOK, NEW H, Disconnect(H)
  PROVE  socket' \in [Host -> Socket] /\ missed' \in [Host -> Nat] /\ ack' \in [Host -> Token]
  BY ConstantTypes DEF AuthTypeOK, Disconnect, MissedBy, Socket

\* Redeeming a code writes rows of the two tables.
LEMMA HttpPairType ==
  ASSUME AuthTypeOK, NEW c \in Code, NEW i \in Device, HttpPair(c, i)
  PROVE  /\ pairs' \in [Code -> PairRow] /\ devices' \in [Device -> DeviceRow]
         /\ failures' \in Failures
<1>1. pairs' \in [Code -> PairRow]
  BY DEF AuthTypeOK, HttpPair, PairRow
<1>2. Registered \in DeviceRow
  BY DEF AuthTypeOK, Registered, DeviceRow
<1>3. devices' \in [Device -> DeviceRow]
  BY <1>2 DEF AuthTypeOK, HttpPair
<1>. QED
  BY <1>1, <1>3, ConstantTypes DEF HttpPair

\* The writes of a link, on what a host keeps.
LEMMA KeptTypes ==
  ASSUME NEW s \in Kept, NEW i \in MaybeDevice, NEW t \in Token
  PROVE  /\ UpsertVault(s, i) \in Kept /\ SetToken(s, t) \in Kept
         /\ RemoveVault(s) \in Kept /\ WriteDeviceMarker(s, i) \in Kept
         /\ FirstToken(i) \in Token /\ ApplyPairOutcome(s, i) \in Kept
<1>1. FirstToken(i) \in Token
  BY DEF FirstToken, Token
<1>2. NoDevice \in MaybeDevice
  BY DEF MaybeDevice
<1>. QED
  BY <1>1, <1>2, ConstantTypes DEF UpsertVault, SetToken, RemoveVault, WriteDeviceMarker,
     ApplyPairOutcome, Kept

\* Every step of the room, the dashboard or a host keeps the types.
LEMMA AuthTypeStep == AuthTypeOK /\ [Next]_vars => AuthTypeOK'
<1>. SUFFICES ASSUME AuthTypeOK, [Next]_vars PROVE AuthTypeOK'
  OBVIOUS
<1>. USE ConstantTypes DEF AuthTypeOK, server, admin, hosts
<1>1. CASE Tick
  BY <1>1 DEF Tick
<1>2. CASE Evict
  BY <1>2 DEF Evict
<1>3. ASSUME NEW b \in Browser, Bootstrap(b) PROVE AuthTypeOK'
  BY <1>3 DEF Bootstrap, Show, View
<1>4. ASSUME NEW b \in Browser, Reload(b) PROVE AuthTypeOK'
  BY <1>4 DEF Reload, Show, View
<1>5. ASSUME NEW b \in Browser, SubmitClaim(b) PROVE AuthTypeOK'
  <2>1. meta' \in MetaRow
    BY <1>5, MetaType DEF SubmitClaim
  <2>2. view' \in [Browser -> View]
    BY <1>5 DEF SubmitClaim, Show, View
  <2>. QED
    BY <1>5, <2>1, <2>2 DEF SubmitClaim
<1>6. ASSUME NEW b \in Browser, HttpAdminLogin(b)
      PROVE  cookie' \in [Browser -> Session] /\ failures' \in Failures
  <2>1. meta.secret \in Nat
    BY DEF MetaRow
  <2>. QED
    BY <1>6, <2>1, SignType DEF HttpAdminLogin, SetCookie
<1>7. ASSUME NEW b \in Browser, SignIn(b) PROVE AuthTypeOK'
  <2>1. CASE HttpAdminLogin(b) /\ Show(b, "status")
    BY <1>6, <1>7, <2>1 DEF SignIn, Show, View
  <2>2. CASE HttpAdminLoginFails /\ UNCHANGED admin
    BY <1>7, <2>2, NoteType DEF SignIn, HttpAdminLoginFails
  <2>. QED
    BY <1>7, <2>1, <2>2 DEF SignIn
<1>8. ASSUME NEW c \in Code, HttpAdminPair(c) PROVE pairs' \in [Code -> PairRow]
  BY <1>8, AuthAssumption DEF HttpAdminPair, PairRow
<1>9. ASSUME NEW b \in Browser, FinishClaim(b) PROVE AuthTypeOK'
  <2>1. cookie' \in [Browser -> Session] /\ failures' \in Failures
    BY <1>6, <1>9, NoteType DEF FinishClaim, HttpAdminLoginFails
  <2>2. pairs' \in [Code -> PairRow]
    BY <1>8, <1>9 DEF FinishClaim
  <2>3. view' \in [Browser -> View]
    BY <1>9 DEF FinishClaim, Show, View
  <2>. QED
    BY <1>9, <2>1, <2>2, <2>3 DEF FinishClaim
<1>10. ASSUME NEW b \in Browser, Mint(b) PROVE AuthTypeOK'
  BY <1>8, <1>10 DEF Mint
<1>11. ASSUME NEW b \in Browser, SubmitPassphraseChange(b) PROVE AuthTypeOK'
  <2>1. meta' \in MetaRow
    BY <1>11, MetaType DEF SubmitPassphraseChange
  <2>2. meta'.secret \in Nat
    BY <2>1 DEF MetaRow
  <2>3. cookie' \in [Browser -> Session]
    BY <1>11, <2>2, SignType DEF SubmitPassphraseChange, SetCookie
  <2>. QED
    BY <1>11, <2>1, <2>3 DEF SubmitPassphraseChange
<1>12. ASSUME NEW b \in Browser, PassphraseChangeFails(b) PROVE AuthTypeOK'
  BY <1>12, NoteType DEF PassphraseChangeFails
<1>13. ASSUME NEW b \in Browser, SignOut(b) PROVE AuthTypeOK'
  <2>1. meta' \in MetaRow
    BY <1>13 DEF SignOut, HttpAdminLogout, MetaRow
  <2>. QED
    BY <1>13, <2>1 DEF SignOut, SetCookie, Show, View
<1>14. ASSUME NEW b \in Browser, Load(b) PROVE AuthTypeOK'
  BY <1>14 DEF Load, Show, View
<1>15. ASSUME NEW b \in Browser, NEW i \in Device, RevokeDevice(b, i) PROVE AuthTypeOK'
  <2>1. devices' \in [Device -> DeviceRow]
    BY <1>15 DEF RevokeDevice, HttpAdminRevoke, DeviceRow
  <2>. QED
    BY <1>15, <2>1, DisconnectType DEF RevokeDevice, HttpAdminRevoke
<1>16. ASSUME NEW h \in Host, NEW c \in Code, NEW i \in Device, RunLink(h, c, i)
       PROVE  AuthTypeOK'
  <2>1. i \in MaybeDevice /\ saved[h] \in Kept
    BY DEF MaybeDevice
  <2>2. PICK s \in Kept : Keep(h, s)
    BY <1>16, <2>1, KeptTypes DEF RunLink
  <2>3. saved' \in [Host -> Kept] /\ missed' \in [Host -> Nat]
    BY <2>2, KeepType
  <2>. QED
    BY <1>16, <2>3, HttpPairType DEF RunLink
<1>17. ASSUME NEW h \in Host, NEW c \in Code, NEW i \in Device, PairWithWorker(h, c, i)
       PROVE  AuthTypeOK'
  <2>1. i \in MaybeDevice /\ saved[h] \in Kept
    BY DEF MaybeDevice
  <2>2. PICK s \in Kept : Keep(h, s)
    BY <1>17, <2>1, KeptTypes DEF PairWithWorker
  <2>3. saved' \in [Host -> Kept] /\ missed' \in [Host -> Nat]
    BY <2>2, KeepType
  <2>. QED
    BY <1>17, <2>3, HttpPairType DEF PairWithWorker
<1>18. ASSUME NEW h \in Host, RequestPairFails(h) PROVE AuthTypeOK'
  BY <1>18, NoteType DEF RequestPairFails
<1>19. ASSUME NEW h \in Host, RunUnlink(h) PROVE AuthTypeOK'
  <2>1. RemoveVault(saved[h]) \in Kept
    BY KeptTypes DEF MaybeDevice
  <2>2. saved' \in [Host -> Kept] /\ missed' \in [Host -> Nat]
    BY <1>19, <2>1, KeepType DEF RunUnlink
  <2>. QED
    BY <1>19, <2>2 DEF RunUnlink
<1>20. ASSUME NEW h \in Host, Unlink(h) PROVE AuthTypeOK'
  BY <1>20, KeepType DEF Unlink, Socket
<1>21. ASSUME NEW h \in Host, CreateVaultClient(h) PROVE AuthTypeOK'
  BY <1>21 DEF CreateVaultClient, Kept
<1>22. ASSUME NEW h \in Host, HandleUpgrade(h) PROVE AuthTypeOK'
  BY <1>22 DEF HandleUpgrade, Socket
<1>23. ASSUME NEW h \in Host, HandleHello(h) PROVE AuthTypeOK'
  <2>1. socket' \in [Host -> Socket]
    BY <1>23 DEF HandleHello, Socket
  <2>2. CASE UNCHANGED <<devices, ack>>
    BY <1>23, <2>1, <2>2 DEF HandleHello
  <2>3. CASE Accepted(process[h]) /\ ~UNCHANGED <<devices, ack>>
    <3>. DEFINE d == devices[process[h].dev]
    <3>1. process[h].dev \in Device /\ d \in DeviceRow
      BY <2>3 DEF Accepted, Current, ViaGrace
    <3>2. d.n + 1 \in Nat /\ now + RotationGrace \in Nat
      BY <3>1, AuthAssumption DEF DeviceRow
    <3>. DEFINE e == [n |-> d.n + 1, issued |-> now, expires |-> now + RotationGrace,
                      revoked |-> FALSE]
    <3>0. e \in DeviceRow
      BY <3>2 DEF DeviceRow
    <3>3. devices' \in [Device -> DeviceRow]
      <4>1. devices' = [devices EXCEPT ![process[h].dev] = e]
        BY <1>23, <2>3 DEF HandleHello
      <4>. QED
        BY <3>0, <4>1
    <3>4. ack' \in [Host -> Token]
      BY <1>23, <2>3, <3>1, <3>2 DEF HandleHello, Token, MaybeDevice
    <3>. QED
      BY <1>23, <2>1, <3>3, <3>4 DEF HandleHello
  <2>. QED
    BY <1>23, <2>2, <2>3 DEF HandleHello
<1>24. ASSUME NEW h \in Host, OnTokenRotated(h) PROVE AuthTypeOK'
  <2>1. SetToken(saved[h], ack[h]) \in Kept
    BY KeptTypes DEF MaybeDevice
  <2>2. saved' \in [Host -> Kept] /\ missed' \in [Host -> Nat]
    BY <1>24, <2>1, KeepType DEF OnTokenRotated, MissedBy
  <2>. QED
    BY <1>24, <2>2 DEF OnTokenRotated
<1>25. ASSUME NEW h \in Host, Drop(h) PROVE AuthTypeOK'
  BY <1>25, DisconnectType DEF Drop
<1>26. ASSUME NEW h \in Host, Stop(h) PROVE AuthTypeOK'
  BY <1>26, DisconnectType DEF Stop
<1>27. CASE UNCHANGED vars
  BY <1>27 DEF vars
<1>. QED
  BY <1>1, <1>2, <1>3, <1>4, <1>5, <1>7, <1>9, <1>10, <1>11, <1>12, <1>13, <1>14, <1>15,
     <1>16, <1>17, <1>18, <1>19, <1>20, <1>21, <1>22, <1>23, <1>24, <1>25, <1>26, <1>27
     DEF Next

-----------------------------------------------------------------------------
(* The failure budget *)

\* A failure that is counted passed the throttle first.
LEMMA NoteWithinBudget ==
  ASSUME AuthTypeOK, FailureBudget, ~Throttled, NoteAuthFailure PROVE FailureBudget'
<1>1. failures.count \in Nat /\ FailureLimit >= 1 /\ FailureLimit \in Nat
  BY AuthAssumption DEF AuthTypeOK, Failures
<1>2. CASE WindowOpen
  <2>1. failures'.count = failures.count + 1
    BY <1>2 DEF NoteAuthFailure, AuthTypeOK, Failures
  <2>. QED
    BY <1>1, <1>2, <2>1 DEF Throttled, FailureBudget
<1>3. CASE ~WindowOpen
  <2>1. failures'.count = 1
    BY <1>3 DEF NoteAuthFailure
  <2>. QED
    BY <1>1, <2>1 DEF FailureBudget
<1>. QED
  BY <1>2, <1>3

\* Every step of the budget's users stays within it.
LEMMA BudgetStep == AuthTypeOK /\ FailureBudget /\ [Next]_vars => FailureBudget'
<1>. SUFFICES ASSUME AuthTypeOK, FailureBudget, [Next]_vars PROVE FailureBudget'
  OBVIOUS
<1>1. CASE UNCHANGED failures
  BY <1>1 DEF FailureBudget
<1>2. CASE failures' = NoFailures
  BY <1>2, AuthAssumption DEF FailureBudget, NoFailures
<1>3. CASE ~Throttled /\ NoteAuthFailure
  BY <1>3, NoteWithinBudget
<1>4. UNCHANGED failures \/ failures' = NoFailures \/ (~Throttled /\ NoteAuthFailure)
  <2>1. CASE UNCHANGED vars \/ Tick \/ Evict
    BY <2>1 DEF vars, server, Tick, Evict
  <2>2. ASSUME NEW b \in Browser,
               \/ Bootstrap(b) \/ Reload(b) \/ SignOut(b) \/ Load(b) \/ Mint(b)
               \/ \E i \in Device : RevokeDevice(b, i)
        PROVE  UNCHANGED failures
    BY <2>2 DEF server, Bootstrap, Reload, SignOut, Load, Mint, RevokeDevice
  <2>3. ASSUME NEW b \in Browser, SubmitClaim(b) \/ SignIn(b) \/ FinishClaim(b)
        PROVE  UNCHANGED failures \/ failures' = NoFailures \/ (~Throttled /\ NoteAuthFailure)
    BY <2>3 DEF server, SubmitClaim, SignIn, FinishClaim, HttpAdminLogin, HttpAdminLoginFails
  <2>4. ASSUME NEW b \in Browser, SubmitPassphraseChange(b) \/ PassphraseChangeFails(b)
        PROVE  UNCHANGED failures \/ failures' = NoFailures \/ (~Throttled /\ NoteAuthFailure)
    BY <2>4 DEF server, SubmitPassphraseChange, PassphraseChangeFails
  <2>5. ASSUME NEW h \in Host, NEW c \in Code, NEW i \in Device,
               RunLink(h, c, i) \/ PairWithWorker(h, c, i)
        PROVE  UNCHANGED failures \/ failures' = NoFailures \/ (~Throttled /\ NoteAuthFailure)
    BY <2>5 DEF server, RunLink, PairWithWorker, HttpPair
  <2>6. ASSUME NEW h \in Host, RequestPairFails(h)
        PROVE  UNCHANGED failures \/ failures' = NoFailures \/ (~Throttled /\ NoteAuthFailure)
    BY <2>6 DEF server, RequestPairFails
  <2>7. ASSUME NEW h \in Host,
               \/ RunUnlink(h) \/ Unlink(h) \/ CreateVaultClient(h) \/ HandleUpgrade(h)
               \/ HandleHello(h) \/ OnTokenRotated(h) \/ Drop(h) \/ Stop(h)
        PROVE  UNCHANGED failures
    BY <2>7 DEF server, RunUnlink, Unlink, CreateVaultClient, HandleUpgrade, HandleHello,
       OnTokenRotated, Drop, Stop
  <2>. QED
    BY <2>1, <2>2, <2>3, <2>4, <2>5, <2>6, <2>7 DEF Next
<1>. QED
  BY <1>1, <1>2, <1>3, <1>4

-----------------------------------------------------------------------------
(* Sessions *)

\* Which steps write the secret and the sessions.
LEMMA SessionSteps ==
  ASSUME [Next]_vars
  PROVE  \/ UNCHANGED <<meta, cookie>>
         \/ ~Claimed /\ HttpClaim /\ UNCHANGED cookie
         \/ /\ UNCHANGED meta
            /\ \E b \in Browser : SetCookie(b, SignSession(meta.secret))
         \/ /\ HttpAdminPassphraseChange
            /\ UNCHANGED cookie \/ \E b \in Browser : SetCookie(b, SignSession(meta'.secret))
         \/ \E b \in Browser : SignOut(b)
<1>. DEFINE Goal ==
         \/ UNCHANGED <<meta, cookie>>
         \/ ~Claimed /\ HttpClaim /\ UNCHANGED cookie
         \/ /\ UNCHANGED meta
            /\ \E b \in Browser : SetCookie(b, SignSession(meta.secret))
         \/ /\ HttpAdminPassphraseChange
            /\ UNCHANGED cookie \/ \E b \in Browser : SetCookie(b, SignSession(meta'.secret))
         \/ \E b \in Browser : SignOut(b)
<1>1. ASSUME NEW b \in Browser, SubmitClaim(b) PROVE Goal
  BY <1>1 DEF SubmitClaim
<1>2. ASSUME NEW b \in Browser, SignIn(b) \/ FinishClaim(b) PROVE Goal
  BY <1>2 DEF SignIn, FinishClaim, HttpAdminLogin, admin
<1>3. ASSUME NEW b \in Browser, SubmitPassphraseChange(b) PROVE Goal
  BY <1>3 DEF SubmitPassphraseChange
<1>4. ASSUME NEW b \in Browser, SignOut(b) PROVE Goal
  BY <1>4
<1>5. CASE \/ \E b \in Browser : \/ Bootstrap(b) \/ Reload(b) \/ Mint(b) \/ Load(b)
                                 \/ PassphraseChangeFails(b)
                                 \/ \E i \in Device : RevokeDevice(b, i)
           \/ Tick \/ Evict \/ UNCHANGED vars
  BY <1>5 DEF Bootstrap, Reload, Mint, Load, PassphraseChangeFails, RevokeDevice, Tick, Evict,
     vars, server, admin
<1>6. CASE \E h \in Host :
             \/ \E c \in Code, i \in Device : RunLink(h, c, i) \/ PairWithWorker(h, c, i)
             \/ RequestPairFails(h) \/ RunUnlink(h) \/ Unlink(h)
             \/ CreateVaultClient(h) \/ HandleUpgrade(h) \/ HandleHello(h)
             \/ OnTokenRotated(h) \/ Drop(h) \/ Stop(h)
  BY <1>6 DEF RunLink, PairWithWorker, RequestPairFails, RunUnlink, Unlink, CreateVaultClient,
     HandleUpgrade, HandleHello, OnTokenRotated, Drop, Stop, server, admin
<1>. QED
  BY <1>1, <1>2, <1>3, <1>4, <1>5, <1>6 DEF Next

\* Secrets only grow, so no session is signed with one to come; and a session
\* that a passphrase change leaves in place is signed with an older one.
LEMMA SessionStep ==
  ASSUME AuthTypeOK, SecretsKnown, [Next]_vars
  PROVE  /\ SecretsKnown'
         /\ \A b \in Browser :
              meta'.passphrase # meta.passphrase /\ cookie'[b] = cookie[b] => ~IsAdmin(b)'
<1>. USE DEF SecretsKnown
<1>1. meta \in MetaRow /\ cookie \in [Browser -> Session] /\ now \in Nat
  BY DEF AuthTypeOK
<1>2. /\ meta.secret \in Nat /\ meta.passphrase \in Nat
      /\ \A b \in Browser : cookie[b].secret \in Nat
  BY <1>1 DEF MetaRow, Session
<1>3. CASE UNCHANGED <<meta, cookie>>
  BY <1>3
<1>4. CASE ~Claimed /\ HttpClaim /\ UNCHANGED cookie
  <2>1. meta'.secret = 1
    BY <1>1, <1>4 DEF HttpClaim, MetaRow
  <2>2. meta'.passphrase = 1
    BY <1>1, <1>4 DEF HttpClaim, MetaRow
  <2>3. meta.secret = 0
    BY <1>2, <1>4 DEF Claimed
  <2>. QED
    BY <1>2, <1>4, <2>1, <2>2, <2>3 DEF IsAdmin
<1>5. CASE UNCHANGED meta /\ \E b \in Browser : SetCookie(b, SignSession(meta.secret))
  <2>1. PICK b \in Browser : SetCookie(b, SignSession(meta.secret))
    BY <1>5
  <2>2. \A a \in Browser : cookie'[a].secret <= meta.secret
    BY <1>1, <1>2, <2>1 DEF SetCookie, SignSession
  <2>. QED
    BY <1>5, <2>2
<1>6. CASE /\ HttpAdminPassphraseChange
           /\ UNCHANGED cookie \/ \E b \in Browser : SetCookie(b, SignSession(meta'.secret))
  <2>1. meta'.secret = meta.secret + 1
    BY <1>1, <1>6 DEF HttpAdminPassphraseChange, MetaRow
  <2>2. \A b \in Browser : cookie'[b] = cookie[b] => ~IsAdmin(b)'
    BY <1>2, <2>1 DEF IsAdmin
  <2>3. \A b \in Browser : cookie'[b].secret <= meta'.secret
    <3>1. CASE UNCHANGED cookie
      BY <1>2, <2>1, <3>1
    <3>2. ASSUME NEW b \in Browser, SetCookie(b, SignSession(meta'.secret))
          PROVE  \A a \in Browser : cookie'[a].secret <= meta'.secret
      BY <1>1, <1>2, <2>1, <3>2 DEF SetCookie, SignSession
    <3>. QED
      BY <1>6, <3>1, <3>2
  <2>4. meta'.passphrase = meta.passphrase + 1
    BY <1>1, <1>6 DEF HttpAdminPassphraseChange, MetaRow
  <2>. QED
    BY <2>1, <2>2, <2>3, <2>4
<1>7. CASE \E b \in Browser : SignOut(b)
  <2>1. PICK b \in Browser : SignOut(b)
    BY <1>7
  <2>2. meta'.secret = meta.secret /\ meta'.passphrase = meta.passphrase
    BY <1>1, <2>1 DEF SignOut, HttpAdminLogout, MetaRow
  <2>3. \A a \in Browser : cookie'[a].secret <= meta.secret
    BY <1>1, <1>2, <2>1 DEF SignOut, SetCookie, NoCookie
  <2>. QED
    BY <2>2, <2>3
<1>. QED
  BY <1>3, <1>4, <1>5, <1>6, <1>7, SessionSteps

-----------------------------------------------------------------------------
(* Tokens *)

\* Types of the parts the token invariant reads.
LEMMA TokenTypes ==
  ASSUME AuthTypeOK
  PROVE  /\ \A h \in Host : /\ saved[h].token \in Token /\ process[h] \in Token
                            /\ ack[h] \in Token /\ missed[h] \in Nat
                            /\ saved[h] \in Kept
         /\ \A i \in Device : devices[i].n \in Nat
         /\ \A t \in Token : t.n \in Nat /\ t.dev \in MaybeDevice
         /\ NoToken.dev = NoDevice /\ NoDevice \notin Device
  BY AuthAssumption DEF AuthTypeOK, Kept, DeviceRow, Token, NoToken

\* Replacements that are lost put the saved tokens behind by one more.
LEMMA LoseAck ==
  ASSUME AuthTypeOK, TokenInv, NEW H,
         UNCHANGED saved, missed' = MissedBy(H),
         ack' = [h \in Host |-> IF h \in H THEN NoToken ELSE ack[h]],
         \A h \in Host \ H : socket'[h] = socket[h],
         \A i \in Device : devices'[i].n = devices[i].n,
         \A h \in Host : process'[h] \in {process[h], NoToken}
  PROVE  TokenInv'
<1>. USE TokenTypes
<1>1. TokensIssued'
  BY DEF TokenInv, TokensIssued, Issued
<1>2. AckCurrent'
  BY DEF TokenInv, TokensIssued, AckCurrent, Issued
<1>3. ASSUME NEW h \in Host PROVE Behind(h)'
  <2>. DEFINE t == saved[h].token
  <2>1. SUFFICES ASSUME t # NoToken PROVE Behind(h)'
    BY DEF Behind
  <2>2. t.dev \in Device /\ devices'[t.dev].n = devices[t.dev].n /\ Behind(h)
    BY <2>1 DEF TokenInv, TokensIssued, SavedBehind, Issued
  <2>3. CASE h \notin H
    BY <2>2, <2>3 DEF Behind, MissedBy
  <2>4. CASE h \in H /\ ack[h].dev = t.dev
    <3>1. missed'[h] = missed[h] + 1 /\ ack'[h].dev # t.dev
      BY <2>2, <2>4 DEF MissedBy
    <3>. QED
      BY <2>1, <2>2, <2>4, <3>1 DEF Behind
  <2>5. CASE h \in H /\ ack[h].dev # t.dev
    <3>1. missed'[h] = missed[h] /\ ack'[h].dev # t.dev
      BY <2>2, <2>5 DEF MissedBy
    <3>. QED
      BY <2>1, <2>2, <2>5, <3>1 DEF Behind
  <2>. QED
    BY <2>3, <2>4, <2>5
<1>4. OneHost'
  BY DEF TokenInv, OneHost, Holds
<1>. QED
  BY <1>1, <1>2, <1>3, <1>4 DEF TokenInv, SavedBehind

\* Revocation, a dropped connection and the end of a client.
LEMMA DisconnectInv ==
  ASSUME AuthTypeOK, TokenInv, NEW H, Disconnect(H), UNCHANGED saved,
         \A i \in Device : devices'[i].n = devices[i].n,
         \A h \in Host : process'[h] \in {process[h], NoToken}
  PROVE  TokenInv'
<1>1. \A h \in Host \ H : socket'[h] = socket[h]
  BY DEF Disconnect
<1>. QED
  BY <1>1, LoseAck DEF Disconnect

\* A host that unlinks forgets its token.
LEMMA UnlinkInv ==
  ASSUME AuthTypeOK, TokenInv, NEW h \in Host, UNCHANGED devices,
         NEW s, Keep(h, s), s.token = NoToken,
         \A g \in Host \ {h} : ack'[g] = ack[g] /\ socket'[g] = socket[g],
         \/ UNCHANGED <<process, socket, ack>>
         \/ process'[h] = NoToken /\ ack'[h] = NoToken,
         \A g \in Host \ {h} : process'[g] = process[g]
  PROVE  TokenInv'
<1>. USE TokenTypes
<1>1. /\ saved'[h].token = NoToken
      /\ \A g \in Host \ {h} : saved'[g] = saved[g] /\ missed'[g] = missed[g]
  BY DEF Keep, AuthTypeOK
<1>2. TokensIssued'
  BY <1>1 DEF TokenInv, TokensIssued, Issued
<1>3. AckCurrent'
  BY <1>1 DEF TokenInv, TokensIssued, AckCurrent, Issued
<1>4. SavedBehind'
  BY <1>1 DEF TokenInv, SavedBehind, Behind
<1>5. OneHost'
  BY <1>1 DEF TokenInv, OneHost, Holds
<1>. QED
  BY <1>2, <1>3, <1>4, <1>5 DEF TokenInv

\* Pairing: the new device has one token, which is kept or lost.
LEMMA PairInv ==
  ASSUME AuthTypeOK, TokenInv, NEW h \in Host, NEW c \in Code, NEW i \in Device,
         HttpPair(c, i), UNCHANGED <<process, socket, ack>>,
         NEW s, Keep(h, s), s.token = saved[h].token \/ s.token = FirstToken(i)
  PROVE  TokenInv'
<1>. USE TokenTypes
<1>1. /\ saved'[h] = s
      /\ \A g \in Host \ {h} : saved'[g] = saved[g] /\ missed'[g] = missed[g]
      /\ missed'[h] = IF s.token = saved[h].token THEN missed[h] ELSE 0
  BY DEF Keep, AuthTypeOK
<1>2. /\ devices[i].n = 0 /\ devices'[i].n = 1
      /\ \A j \in Device \ {i} : devices'[j] = devices[j]
  BY DEF HttpPair, Registered, AuthTypeOK
<1>3. FirstToken(i) \in Token /\ FirstToken(i).dev = i /\ FirstToken(i).n = 1 /\ FirstToken(i) # NoToken
  BY DEF FirstToken, Token, MaybeDevice, NoToken
<1>4. \A g \in Host : ~Holds(g, i)
  BY <1>2 DEF TokenInv, TokensIssued, Issued, Holds
<1>5. TokensIssued'
  BY <1>1, <1>2, <1>3 DEF TokenInv, TokensIssued, Issued
<1>6. AckCurrent'
  BY <1>1, <1>2, <1>4 DEF TokenInv, TokensIssued, AckCurrent, Issued, Holds
<1>7. ASSUME NEW g \in Host PROVE Behind(g)'
  <2>1. CASE saved'[g].token = saved[g].token
    <3>1. missed'[g] = missed[g]
      BY <1>1, <2>1
    <3>2. saved[g].token # NoToken =>
            devices'[saved[g].token.dev] = devices[saved[g].token.dev]
      BY <1>2, <1>4 DEF TokenInv, TokensIssued, Issued, Holds
    <3>. QED
      BY <2>1, <3>1, <3>2 DEF TokenInv, SavedBehind, Behind
  <2>2. CASE saved'[g].token # saved[g].token
    <3>1. g = h /\ saved'[g].token = FirstToken(i) /\ missed'[g] = 0
      BY <1>1, <2>2
    <3>2. ack'[g].dev # i
      BY <1>4 DEF Holds
    <3>. QED
      BY <1>2, <1>3, <3>1, <3>2 DEF Behind
  <2>. QED
    BY <2>1, <2>2
<1>8. OneHost'
  BY <1>1, <1>3, <1>4 DEF TokenInv, OneHost, Holds
<1>. QED
  BY <1>5, <1>6, <1>7, <1>8 DEF TokenInv, SavedBehind

\* A client is built from the saved token; a socket opens.
LEMMA StartInv ==
  ASSUME AuthTypeOK, TokenInv, NEW h \in Host, CreateVaultClient(h) \/ HandleUpgrade(h)
  PROVE  TokenInv'
<1>. USE TokenTypes
<1>1. UNCHANGED <<devices, saved, missed, ack>>
  BY DEF CreateVaultClient, HandleUpgrade, server
<1>2. \A g \in Host : process'[g] = process[g] \/ process'[g] = saved[g].token
  BY DEF CreateVaultClient, HandleUpgrade, AuthTypeOK
<1>3. \A g \in Host : socket[g] = "attached" => socket'[g] = "attached"
  BY DEF CreateVaultClient, HandleUpgrade, AuthTypeOK
<1>4. TokensIssued'
  BY <1>1, <1>2 DEF TokenInv, TokensIssued, Issued
<1>5. AckCurrent'
  BY <1>1, <1>3 DEF TokenInv, AckCurrent
<1>6. SavedBehind'
  BY <1>1 DEF TokenInv, SavedBehind, Behind
<1>7. OneHost'
  BY <1>1, <1>2 DEF TokenInv, OneHost, Holds
<1>. QED
  BY <1>4, <1>5, <1>6, <1>7 DEF TokenInv

\* Rotation: a replacement becomes the device's current token.
LEMMA RotateInv ==
  ASSUME AuthTypeOK, TokenInv, NEW h \in Host, HandleHello(h),
         Accepted(process[h]), Replaced(process[h])
  PROVE  TokenInv'
<1>. USE TokenTypes
<1>. DEFINE i == process[h].dev
            t == [dev |-> i, n |-> devices[i].n + 1]
<1>1. i \in Device
  BY DEF Accepted, Current, ViaGrace
<1>2. /\ devices'[i].n = devices[i].n + 1
      /\ \A j \in Device \ {i} : devices'[j] = devices[j]
  BY <1>1 DEF HandleHello, AuthTypeOK
<1>3. /\ UNCHANGED <<saved, missed, process>>
      /\ ack'[h] = t /\ socket'[h] = "attached"
      /\ \A g \in Host \ {h} : ack'[g] = ack[g] /\ socket'[g] = socket[g]
  BY DEF HandleHello, AuthTypeOK
<1>4. ack[h] = NoToken
  BY DEF HandleHello, TokenInv, AckCurrent
<1>5. t.dev = i /\ t.n = devices[i].n + 1 /\ t # NoToken
  BY <1>1
<1>. HIDE DEF t, i
<1>6. Holds(h, i) /\ \A g \in Host \ {h} : ~Holds(g, i)
  BY <1>1 DEF TokenInv, OneHost, Holds, i
<1>7. TokensIssued'
  BY <1>1, <1>2, <1>3, <1>5 DEF TokenInv, TokensIssued, Issued
<1>8. AckCurrent'
  BY <1>1, <1>2, <1>3, <1>5, <1>6 DEF TokenInv, TokensIssued, AckCurrent, Issued, Holds
<1>9. ASSUME NEW g \in Host PROVE Behind(g)'
  <2>1. CASE saved[g].token = NoToken
    BY <1>3, <2>1 DEF Behind
  <2>2. CASE saved[g].token # NoToken /\ saved[g].token.dev # i
    <3>1. saved[g].token.dev \in Device
      BY <2>2 DEF TokenInv, TokensIssued, Issued
    <3>2. ack'[g].dev = saved[g].token.dev <=> ack[g].dev = saved[g].token.dev
      BY <1>3, <1>4, <1>5, <2>2, <3>1
    <3>. QED
      BY <1>2, <1>3, <2>2, <3>1, <3>2 DEF TokenInv, SavedBehind, Behind
  <2>3. CASE saved[g].token # NoToken /\ saved[g].token.dev = i
    <3>1. g = h
      BY <1>6, <2>3 DEF Holds
    <3>2. saved[g].token.n <= devices[i].n
      BY <2>3 DEF TokenInv, TokensIssued, Issued
    <3>3. missed[g] = 0 => devices[i].n = saved[g].token.n
      BY <1>1, <1>4, <2>3, <3>1 DEF TokenInv, SavedBehind, Behind
    <3>. QED
      BY <1>1, <1>2, <1>3, <1>5, <2>3, <3>1, <3>2, <3>3 DEF Behind
  <2>. QED
    BY <2>1, <2>2, <2>3
<1>10. OneHost'
  BY <1>3, <1>5, <1>6 DEF TokenInv, OneHost, Holds
<1>. QED
  BY <1>7, <1>8, <1>9, <1>10 DEF TokenInv, SavedBehind

\* A hello that replaces no token.
LEMMA HelloInv ==
  ASSUME AuthTypeOK, TokenInv, NEW h \in Host, HandleHello(h), UNCHANGED <<devices, ack>>
  PROVE  TokenInv'
<1>. USE TokenTypes
<1>1. UNCHANGED <<saved, missed, process>> /\ \A g \in Host \ {h} : socket'[g] = socket[g]
  BY DEF HandleHello, AuthTypeOK
<1>2. ack[h] = NoToken
  BY DEF HandleHello, TokenInv, AckCurrent
<1>3. TokensIssued' /\ SavedBehind' /\ OneHost'
  BY <1>1 DEF TokenInv, TokensIssued, Issued, SavedBehind, Behind, OneHost, Holds
<1>4. AckCurrent'
  BY <1>1, <1>2 DEF TokenInv, AckCurrent
<1>. QED
  BY <1>3, <1>4 DEF TokenInv

\* The hand-off: the saved token becomes the current one.
LEMMA HandOffInv ==
  ASSUME AuthTypeOK, TokenInv, NEW h \in Host, OnTokenRotated(h)
  PROVE  TokenInv'
<1>. USE TokenTypes
<1>1. /\ UNCHANGED <<devices, process, socket>> /\ ack[h] # NoToken
      /\ ack' = [ack EXCEPT ![h] = NoToken]
  BY DEF OnTokenRotated, server
<1>2. CASE missed' = MissedBy({h}) /\ UNCHANGED saved
  <2>1. ack' = [g \in Host |-> IF g \in {h} THEN NoToken ELSE ack[g]]
    BY <1>1 DEF AuthTypeOK
  <2>. QED
    BY <1>1, <1>2, <2>1, LoseAck
<1>3. CASE Keep(h, SetToken(saved[h], ack[h]))
  <2>1. SetToken(saved[h], ack[h]).token = ack[h]
    BY DEF SetToken, Kept
  <2>2. ack[h] # saved[h].token
    BY <1>1 DEF TokenInv, TokensIssued, Issued, AckCurrent, SavedBehind, Behind
  <2>3. /\ saved'[h].token = ack[h] /\ missed'[h] = 0 /\ ack'[h] = NoToken
        /\ \A g \in Host \ {h} : saved'[g] = saved[g] /\ missed'[g] = missed[g] /\ ack'[g] = ack[g]
    BY <1>1, <1>3, <2>1, <2>2 DEF Keep, AuthTypeOK
  <2>4. TokensIssued'
    BY <1>1, <2>3 DEF TokenInv, TokensIssued, Issued
  <2>5. AckCurrent'
    BY <1>1, <2>3 DEF TokenInv, AckCurrent
  <2>6. SavedBehind'
    BY <1>1, <2>3 DEF TokenInv, TokensIssued, Issued, AckCurrent, SavedBehind, Behind
  <2>7. OneHost'
    BY <1>1, <2>3 DEF TokenInv, OneHost, Holds
  <2>. QED
    BY <2>4, <2>5, <2>6, <2>7 DEF TokenInv
<1>. QED
  BY <1>2, <1>3 DEF OnTokenRotated

-----------------------------------------------------------------------------
(* The theorems *)

\* The steps that leave devices and hosts alone.
LEMMA QuietSteps ==
  ASSUME [Next]_vars
  PROVE  \/ UNCHANGED <<devices, hosts>>
         \/ \E b \in Browser, i \in Device : RevokeDevice(b, i)
         \/ \E h \in Host :
              \/ \E c \in Code, i \in Device : RunLink(h, c, i) \/ PairWithWorker(h, c, i)
              \/ RunUnlink(h) \/ Unlink(h) \/ CreateVaultClient(h) \/ HandleUpgrade(h)
              \/ HandleHello(h) \/ OnTokenRotated(h) \/ Drop(h) \/ Stop(h)
<1>1. CASE Tick \/ Evict \/ UNCHANGED vars
  BY <1>1 DEF Tick, Evict, vars, server
<1>2. CASE \E b \in Browser :
             \/ Bootstrap(b) \/ Reload(b) \/ SubmitClaim(b) \/ SignIn(b) \/ FinishClaim(b)
             \/ Mint(b) \/ SubmitPassphraseChange(b) \/ PassphraseChangeFails(b)
             \/ SignOut(b) \/ Load(b)
  BY <1>2 DEF Bootstrap, Reload, SubmitClaim, SignIn, FinishClaim, Mint, SubmitPassphraseChange,
     PassphraseChangeFails, SignOut, Load, server
<1>3. CASE \E h \in Host : RequestPairFails(h)
  BY <1>3 DEF RequestPairFails
<1>. QED
  BY <1>1, <1>2, <1>3 DEF Next

\* Every step keeps the tokens in order.
LEMMA TokenStep == ASSUME AuthTypeOK, TokenInv, [Next]_vars PROVE TokenInv'
<1>1. CASE UNCHANGED <<devices, hosts>>
  BY <1>1 DEF TokenInv, TokensIssued, Issued, AckCurrent, SavedBehind, Behind, OneHost, Holds, hosts
<1>2. ASSUME NEW b \in Browser, NEW i \in Device, RevokeDevice(b, i) PROVE TokenInv'
  <2>1. \A j \in Device : devices'[j].n = devices[j].n
    BY <1>2 DEF RevokeDevice, HttpAdminRevoke, AuthTypeOK, DeviceRow
  <2>. QED
    BY <1>2, <2>1, DisconnectInv DEF RevokeDevice, HttpAdminRevoke
<1>3. ASSUME NEW h \in Host, NEW c \in Code, NEW i \in Device, RunLink(h, c, i)
      PROVE  TokenInv'
  <2>1. saved[h] \in Kept /\ i \in MaybeDevice
    BY TokenTypes DEF MaybeDevice
  <2>. DEFINE s1 == UpsertVault(saved[h], i)
              s2 == SetToken(s1, FirstToken(i))
              s3 == WriteDeviceMarker(s2, i)
  <2>2. s1.token = saved[h].token /\ s2.token = FirstToken(i) /\ s3.token = FirstToken(i)
    BY <2>1 DEF UpsertVault, SetToken, WriteDeviceMarker, Kept
  <2>3. HttpPair(c, i) /\ UNCHANGED <<process, socket, ack>>
    BY <1>3 DEF RunLink
  <2>4. Keep(h, saved[h]) \/ Keep(h, s1) \/ Keep(h, s2) \/ Keep(h, s3)
    BY <1>3 DEF RunLink
  <2>. HIDE DEF s1, s2, s3
  <2>. QED
    BY <2>2, <2>3, <2>4, PairInv
<1>4. ASSUME NEW h \in Host, NEW c \in Code, NEW i \in Device, PairWithWorker(h, c, i)
      PROVE  TokenInv'
  <2>1. saved[h] \in Kept
    BY TokenTypes
  <2>. DEFINE s1 == ApplyPairOutcome(saved[h], i)
              s2 == WriteDeviceMarker(s1, i)
  <2>2. s1.token = FirstToken(i) /\ s2.token = FirstToken(i)
    BY <2>1 DEF ApplyPairOutcome, WriteDeviceMarker, Kept
  <2>3. HttpPair(c, i) /\ UNCHANGED <<process, socket, ack>>
    BY <1>4 DEF PairWithWorker
  <2>4. Keep(h, saved[h]) \/ Keep(h, s1) \/ Keep(h, s2)
    BY <1>4 DEF PairWithWorker
  <2>. HIDE DEF s1, s2
  <2>. QED
    BY <2>2, <2>3, <2>4, PairInv
<1>5. ASSUME NEW h \in Host, RunUnlink(h) PROVE TokenInv'
  <2>1. RemoveVault(saved[h]).token = NoToken
    BY TokenTypes DEF RemoveVault, Kept
  <2>. QED
    BY <1>5, <2>1, UnlinkInv DEF RunUnlink, server
<1>6. ASSUME NEW h \in Host, Unlink(h) PROVE TokenInv'
  <2>1. Unlinked.token = NoToken
    BY DEF Unlinked
  <2>2. /\ process'[h] = NoToken /\ ack'[h] = NoToken
        /\ \A g \in Host \ {h} :
             process'[g] = process[g] /\ ack'[g] = ack[g] /\ socket'[g] = socket[g]
    BY <1>6 DEF Unlink, AuthTypeOK
  <2>. QED
    BY <1>6, <2>1, <2>2, UnlinkInv DEF Unlink, server
<1>7. ASSUME NEW h \in Host, HandleHello(h) PROVE TokenInv'
  <2>1. CASE UNCHANGED <<devices, ack>>
    BY <1>7, <2>1, HelloInv
  <2>2. CASE Accepted(process[h]) /\ Replaced(process[h])
    BY <1>7, <2>2, RotateInv
  <2>. QED
    BY <1>7, <2>1, <2>2 DEF HandleHello
<1>8. ASSUME NEW h \in Host, Drop(h) \/ Stop(h) PROVE TokenInv'
  <2>1. /\ Disconnect({h}) /\ UNCHANGED <<devices, saved>>
        /\ \A g \in Host : process'[g] \in {process[g], NoToken}
    BY <1>8 DEF Drop, Stop, server, AuthTypeOK
  <2>. QED
    BY <2>1, DisconnectInv
<1>. QED
  BY <1>1, <1>2, <1>3, <1>4, <1>5, <1>6, <1>7, <1>8, StartInv, HandOffInv, QuietSteps

\* Every step keeps revoked devices out.
LEMMA RevokedStep == ASSUME AuthTypeOK, TokenInv, RevokedStaysOut, [Next]_vars
                     PROVE  RevokedStaysOut'
<1>. USE TokenTypes DEF RevokedStaysOut
<1>1. CASE UNCHANGED <<devices, hosts>>
  BY <1>1 DEF hosts
<1>2. ASSUME NEW b \in Browser, NEW i \in Device, RevokeDevice(b, i) PROVE RevokedStaysOut'
  <2>1. /\ \A j \in Device \ {i} : devices'[j] = devices[j]
        /\ UNCHANGED process
    BY <1>2 DEF RevokeDevice, HttpAdminRevoke, AuthTypeOK
  <2>2. \A h \in Host : socket'[h] = "attached" => socket[h] = "attached" /\ process[h].dev # i
    BY <1>2 DEF RevokeDevice, HttpAdminRevoke, Disconnect
  <2>. QED
    BY <2>1, <2>2
<1>3. ASSUME NEW h \in Host, NEW c \in Code, NEW i \in Device,
             RunLink(h, c, i) \/ PairWithWorker(h, c, i)
      PROVE  RevokedStaysOut'
  <2>1. HttpPair(c, i) /\ UNCHANGED <<process, socket>>
    BY <1>3 DEF RunLink, PairWithWorker
  <2>2. /\ ~devices'[i].revoked
        /\ \A j \in Device \ {i} : devices'[j] = devices[j]
    BY <2>1 DEF HttpPair, Registered, AuthTypeOK
  <2>. QED
    BY <2>1, <2>2
<1>4. ASSUME NEW h \in Host, RunUnlink(h) \/ OnTokenRotated(h) PROVE RevokedStaysOut'
  BY <1>4 DEF RunUnlink, OnTokenRotated, server
<1>5. ASSUME NEW h \in Host, Unlink(h) PROVE RevokedStaysOut'
  BY <1>5 DEF Unlink, server, AuthTypeOK
<1>6. ASSUME NEW h \in Host, CreateVaultClient(h) PROVE RevokedStaysOut'
  BY <1>6 DEF CreateVaultClient, server, AuthTypeOK
<1>7. ASSUME NEW h \in Host, HandleUpgrade(h) PROVE RevokedStaysOut'
  BY <1>7 DEF HandleUpgrade, server, AuthTypeOK
<1>8. ASSUME NEW h \in Host, HandleHello(h) PROVE RevokedStaysOut'
  <2>1. UNCHANGED process /\ \A g \in Host \ {h} : socket'[g] = socket[g]
    BY <1>8 DEF HandleHello, AuthTypeOK
  <2>2. \A j \in Device : devices'[j].revoked = devices[j].revoked \/ ~devices'[j].revoked
    BY <1>8 DEF HandleHello, AuthTypeOK, Accepted, Current, ViaGrace
  <2>3. socket'[h] = "attached" => Accepted(process[h])
    BY <1>8 DEF HandleHello, AuthTypeOK
  <2>. QED
    BY <2>1, <2>2, <2>3 DEF Accepted, Current, ViaGrace
<1>9. ASSUME NEW h \in Host, Drop(h) \/ Stop(h) PROVE RevokedStaysOut'
  <2>1. /\ Disconnect({h}) /\ UNCHANGED devices
        /\ \A g \in Host \ {h} : process'[g] = process[g]
    BY <1>9 DEF Drop, Stop, server, AuthTypeOK
  <2>. QED
    BY <2>1 DEF Disconnect
<1>. QED
  BY <1>1, <1>2, <1>3, <1>4, <1>5, <1>6, <1>7, <1>8, <1>9, QuietSteps

\* The inductive invariant holds initially and at every step.
LEMMA AuthInductive == Spec => []AuthInv
<1>1. Init => AuthInv
  <2>. SUFFICES ASSUME Init PROVE AuthInv
    OBVIOUS
  <2>1. AuthTypeOK
    BY AuthTypeInit
  <2>2. FailureBudget /\ SecretsKnown
    BY AuthAssumption DEF Init, FailureBudget, SecretsKnown, NoFailures, NoCookie
  <2>3. RevokedStaysOut /\ AckCurrent
    BY DEF Init, RevokedStaysOut, AckCurrent
  <2>4. TokensIssued /\ SavedBehind
    BY DEF Init, TokensIssued, Issued, SavedBehind, Behind, Unlinked
  <2>5. OneHost
    BY AuthAssumption DEF Init, OneHost, Holds, Unlinked, NoToken
  <2>. QED
    BY <2>1, <2>2, <2>3, <2>4, <2>5 DEF AuthInv, TokenInv
<1>2. AuthInv /\ [Next]_vars => AuthInv'
  BY AuthTypeStep, BudgetStep, SessionStep, TokenStep, RevokedStep DEF AuthInv
<1>. QED
  BY <1>1, <1>2, PTL DEF Spec

\* Tables, cookies and files keep their types.
THEOREM AuthTypeCorrect == Spec => []AuthTypeOK
  BY AuthInductive, PTL DEF AuthInv

\* authThrottle keeps an address within its budget of failures.
THEOREM BudgetKept == Spec => []FailureBudget
  BY AuthInductive, PTL DEF AuthInv

\* No socket is attached to a revoked device.
THEOREM RevocationHolds == Spec => []RevokedStaysOut
  BY AuthInductive, PTL DEF AuthInv

\* The token a host has saved is taken, unless more than one replacement
\* went missing, the grace period ended, or the device was revoked.
THEOREM RotationSafe == Spec => []SavedTokenWorks
<1>1. AuthInv => SavedTokenWorks
  <2>. SUFFICES ASSUME AuthInv, NEW h \in Host,
                       saved[h].token # NoToken, ack[h] = NoToken,
                       ~devices[saved[h].token.dev].revoked,
                       \/ missed[h] = 0
                       \/ missed[h] = 1 /\ now < devices[saved[h].token.dev].expires
                PROVE  Accepted(saved[h].token)
    BY DEF SavedTokenWorks
  <2>. DEFINE t == saved[h].token
  <2>1. t.dev \in Device /\ NoToken.dev # t.dev
    BY TokenTypes DEF AuthInv, TokenInv, TokensIssued, Issued
  <2>2. (missed[h] = 0 => devices[t.dev].n = t.n) /\ (missed[h] = 1 => devices[t.dev].n = t.n + 1)
    BY <2>1 DEF AuthInv, TokenInv, SavedBehind, Behind
  <2>3. now \in Nat /\ devices[t.dev].expires \in Nat
    BY <2>1 DEF AuthInv, AuthTypeOK, DeviceRow
  <2>. QED
    BY <2>1, <2>2, <2>3 DEF Accepted, Current, ViaGrace
<1>. QED
  BY <1>1, AuthInductive, PTL

\* A passphrase change ends every session but the one it answers with.
THEOREM ChangesEndSessions == Spec => ChangeEndsSessions
<1>1. AuthInv /\ [Next]_vars =>
        [\A b \in Browser :
           meta'.passphrase # meta.passphrase /\ IsAdmin(b)' => cookie'[b] # cookie[b]]_vars
  BY SessionStep DEF AuthInv
<1>. QED
  BY <1>1, AuthInductive, PTL DEF Spec, ChangeEndsSessions
=============================================================================
