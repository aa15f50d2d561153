------------------------ MODULE ProvisioningProofs ------------------------
(***************************************************************************)
(* What Provisioning promises for any number of runs, accounts, names,     *)
(* dashboard files and failing calls.  ProvisioningInv is the inductive    *)
(* invariant: the step at which a run stands says what it has chosen and   *)
(* what it has left at Cloudflare, where nothing is ever taken away.       *)
(***************************************************************************)
EXTENDS Provisioning, TLAPS

WizardOnly == {"verify", "account", "bucket", "session", "assets", "worker", "cron", "url", "probe"}
SetupOnly  == {"names", "token", "whoami", "login", "recheck", "info", "deploy"}

\* The steps at which the worker's place is known ...
Placed == {"bucket", "create", "download", "extract", "info", "session", "assets", "worker",
           "cron", "url", "probe", "deploy", "ok"}

\* ... and, of these, the ones after vsa setup has unpacked its bundle, or
\* after the wizard has made sure of the bucket.
Delivering == {"session", "assets", "worker", "cron", "url", "probe", "deploy", "ok"}

RunRecord ==
  [at : WizardStep \cup SetupStep \cup {"idle", "failed", "ok"},
   why : {"", "call", "bundle", "account", "login"},
   account : Account \cup {None}, asked : Account \cup {None}, name : Name \cup {None},
   bundle : Bundle \cup {None}, local : BOOLEAN, todo : SUBSET Asset]

ProvisioningTypeOK ==
  /\ digest \in {"pinned", "sidecar", "unknown"}
  /\ run \in [Run -> RunRecord]
  /\ script \in [Account -> [Name -> Bundle \cup {None}]]

\* A step belongs to one of the two programs.
OwnStep(r) ==
  /\ run[r].at \in WizardOnly => r \in Wizard
  /\ run[r].at \in SetupOnly => r \in Setup

\* What a run has chosen by the step at which it stands.
Chosen(r) ==
  /\ run[r].at \in Placed => run[r].account \in Account
  /\ run[r].at \in Placed \cup {"token", "whoami", "login", "recheck"} => run[r].name \in Name
  /\ run[r].at \in Delivering \cup {"extract", "info"} \/ (r \in Setup /\ run[r].at = "create")
       => run[r].bundle \in Bundle

\* What a run has left at Cloudflare by the step at which it stands.
Left(r) ==
  /\ run[r].at \in Delivering \/ (r \in Wizard /\ run[r].at \in {"download", "extract"})
       => Place(r) \in buckets
  /\ run[r].at = "assets" => Missing(r) \subseteq run[r].todo
  /\ run[r].at = "worker" => Missing(r) = {}
  /\ run[r].at \in {"cron", "url", "probe", "ok"} => script[run[r].account][run[r].name] # None
  /\ run[r].at \in {"url", "probe", "ok"} => Place(r) \in crons

\* A bundle of the user belongs to a run of vsa setup that is past its choices;
\* any other bundle is the release when the digest is pinned.
Checked(r) ==
  /\ run[r].local => r \in Setup /\ run[r].at \in {"extract", "info", "create", "deploy", "ok", "failed"}
  /\ digest = "pinned" => run[r].bundle \in {None, Release} \/ run[r].local

RunInv(r) == OwnStep(r) /\ Chosen(r) /\ Left(r) /\ Checked(r)

ProvisioningInv ==
  /\ ProvisioningTypeOK /\ WorkersAreWhole /\ OnlyTheRelease
  /\ \A r \in Run : RunInv(r)

-----------------------------------------------------------------------------
(* One run moves *)

\* Nothing is taken away at Cloudflare.
Grows ==
  /\ digest' = digest
  /\ buckets \subseteq buckets' /\ stored \subseteq stored' /\ crons \subseteq crons'
  /\ \A a \in Account, n \in Name : script[a][n] # None => script'[a][n] # None

\* The run r moves to a record that suits what is at Cloudflare.
Moves(r) ==
  /\ Grows
  /\ \E k \in RunRecord :
       /\ run' = [run EXCEPT ![r] = k]
       /\ run[r].local => k.local /\ k.account = run[r].account /\ k.name = run[r].name
  /\ RunInv(r)'

\* A call that deploys nothing leaves Cloudflare as it was, or adds to it.
LEMMA QuietGrows ==
  ASSUME UNCHANGED <<digest, script>>, buckets \subseteq buckets', stored \subseteq stored',
         crons \subseteq crons'
  PROVE  Grows
  BY DEF Grows

\* A run that does not move keeps what it relies on.
LEMMA OthersKept ==
  ASSUME ProvisioningInv, Grows, NEW q \in Run, run'[q] = run[q]
  PROVE  RunInv(q)'
  <1>1. RunInv(q) /\ run[q] \in RunRecord
    BY DEF ProvisioningInv, ProvisioningTypeOK
  <1>2. OwnStep(q)' /\ Chosen(q)' /\ Checked(q)'
    BY <1>1 DEF RunInv, OwnStep, Chosen, Checked, Grows
  <1>3. Missing(q)' \subseteq Missing(q) /\ Place(q)' = Place(q)
    BY DEF Missing, Place, Grows
  <1>4. run[q].at \in {"cron", "url", "probe", "ok"} =>
          run[q].account \in Account /\ run[q].name \in Name
    BY <1>1 DEF RunInv, Chosen, Placed
  <1>5. Left(q)'
    BY <1>1, <1>3, <1>4 DEF RunInv, Left, Grows
  <1> QED BY <1>2, <1>5 DEF RunInv

\* A run that fails keeps its choices and claims nothing.
LEMMA FailMoves ==
  ASSUME ProvisioningInv, Grows, NEW r \in Run, NEW w \in {"call", "bundle", "account", "login"},
         run' = [run EXCEPT ![r].at = "failed", ![r].why = w]
  PROVE  Moves(r)
  <1> DEFINE k == [run[r] EXCEPT !.at = "failed", !.why = w]
  <1>1. run[r] \in RunRecord /\ RunInv(r)
    BY DEF ProvisioningInv, ProvisioningTypeOK
  <1>2. run' = [run EXCEPT ![r] = k] /\ run'[r] = k
    BY <1>1 DEF ProvisioningInv, ProvisioningTypeOK
  <1>3. /\ k \in RunRecord
        /\ k.at = "failed" /\ k.account = run[r].account /\ k.name = run[r].name
        /\ k.bundle = run[r].bundle /\ k.local = run[r].local
    BY <1>1 DEF RunRecord
  <1> HIDE DEF k
  <1>4. RunInv(r)'
    BY <1>1, <1>2, <1>3 DEF RunInv, OwnStep, Chosen, Left, Checked, WizardOnly, SetupOnly, Placed,
       Delivering, Grows
  <1> QED BY <1>2, <1>3, <1>4 DEF Moves

\* A run that only goes to another step, with what it knows.
LEMMA StepTo ==
  ASSUME ProvisioningInv, Grows, NEW r \in Run,
         NEW s \in WizardStep \cup SetupStep \cup {"ok"},
         run' = [run EXCEPT ![r] = To(r, s)]
  PROVE  /\ run'[r].at = s /\ run'[r].account = run[r].account /\ run'[r].name = run[r].name
         /\ run'[r].bundle = run[r].bundle /\ run'[r].local = run[r].local
         /\ run'[r].todo = run[r].todo
         /\ RunInv(r)' => Moves(r)
  <1>1. run[r] \in RunRecord /\ run \in [Run -> RunRecord]
    BY DEF ProvisioningInv, ProvisioningTypeOK
  <1>2. run'[r] = To(r, s)
    BY <1>1
  <1>3. /\ To(r, s) \in RunRecord
        /\ To(r, s).at = s /\ To(r, s).account = run[r].account /\ To(r, s).name = run[r].name
        /\ To(r, s).bundle = run[r].bundle /\ To(r, s).local = run[r].local
        /\ To(r, s).todo = run[r].todo
    BY <1>1 DEF To, RunRecord
  <1> QED BY <1>2, <1>3 DEF Moves

\* A bundle that the user hands over stays with its run.
LEMMA LocalKept ==
  ASSUME ProvisioningInv, NEW r \in Run, Moves(r), NEW a \in Account, NEW n \in Name, Local(a, n)
  PROVE  Local(a, n)'
  <1>1. PICK q \in Setup : run[q].local /\ run[q].name = n /\ run[q].account = a
    BY DEF Local
  <1>2. q \in Run /\ run \in [Run -> RunRecord]
    BY DEF Run, ProvisioningInv, ProvisioningTypeOK
  <1>3. run'[q].local /\ run'[q].name = n /\ run'[q].account = a
    BY <1>1, <1>2 DEF Moves
  <1> QED BY <1>3 DEF Local

\* A move keeps the types and what every run relies on.
LEMMA MoveKeepsRuns ==
  ASSUME ProvisioningInv, NEW r \in Run, Moves(r)
  PROVE  /\ run' \in [Run -> RunRecord]
         /\ digest' \in {"pinned", "sidecar", "unknown"}
         /\ \A q \in Run : RunInv(q)'
  <1>1. run \in [Run -> RunRecord] /\ Grows
    BY DEF ProvisioningInv, ProvisioningTypeOK, Moves
  <1>2. ASSUME NEW q \in Run PROVE RunInv(q)'
    <2>1. CASE q = r
      BY <2>1 DEF Moves
    <2>2. CASE q # r
      <3>1. run'[q] = run[q]
        BY <1>1, <2>2 DEF Moves
      <3> QED BY <1>1, <3>1, OthersKept
    <2> QED BY <2>1, <2>2
  <1>3. run' \in [Run -> RunRecord]
    BY <1>1 DEF Moves
  <1>4. digest' \in {"pinned", "sidecar", "unknown"}
    BY <1>1 DEF ProvisioningInv, ProvisioningTypeOK, Grows
  <1> QED BY <1>2, <1>3, <1>4

\* A move that deploys nothing keeps the invariant.
LEMMA MoveKeeps ==
  ASSUME ProvisioningInv, NEW r \in Run, Moves(r), UNCHANGED script
  PROVE  ProvisioningInv'
  <1>1. run' \in [Run -> RunRecord] /\ digest' \in {"pinned", "sidecar", "unknown"}
        /\ \A q \in Run : RunInv(q)'
    BY MoveKeepsRuns
  <1>2. Grows
    BY DEF Moves
  <1>3. WorkersAreWhole'
    BY <1>2 DEF ProvisioningInv, WorkersAreWhole, Grows, AssetHash
  <1>4. \A a \in Account, n \in Name : Local(a, n) => Local(a, n)'
    BY LocalKept
  <1>5. OnlyTheRelease'
    BY <1>2, <1>4 DEF ProvisioningInv, OnlyTheRelease, Grows
  <1> QED BY <1>1, <1>3, <1>5 DEF ProvisioningInv, ProvisioningTypeOK

\* A move that deploys the run's bundle, with bucket and dashboard in place,
\* keeps the invariant.
LEMMA DeployKeeps ==
  ASSUME ProvisioningInv, NEW r \in Run, Moves(r),
         run[r].account \in Account, run[r].name \in Name, run[r].bundle \in Bundle,
         script' = [script EXCEPT ![run[r].account][run[r].name] = run[r].bundle],
         Place(r) \in buckets',
         \A f \in Asset : <<run[r].account, AssetHash(run[r].bundle, f)>> \in stored'
  PROVE  ProvisioningInv'
  <1> DEFINE a0 == run[r].account
             n0 == run[r].name
             b0 == run[r].bundle
  <1>1. run' \in [Run -> RunRecord] /\ digest' \in {"pinned", "sidecar", "unknown"}
        /\ \A q \in Run : RunInv(q)'
    BY MoveKeepsRuns
  <1>2. Grows
    BY DEF Moves
  <1>3. script \in [Account -> [Name -> Bundle \cup {None}]] /\ RunInv(r)
        /\ WorkersAreWhole /\ OnlyTheRelease
    BY DEF ProvisioningInv, ProvisioningTypeOK
  <1>4. a0 \in Account /\ n0 \in Name /\ b0 \in Bundle /\ script' = [script EXCEPT ![a0][n0] = b0]
    OBVIOUS
  <1>a. <<a0, n0>> \in buckets' /\ \A f \in Asset : <<a0, AssetHash(b0, f)>> \in stored'
    BY DEF Place
  <1>b. digest = "pinned" => b0 = Release \/ (r \in Setup /\ run[r].local)
    BY <1>3, <1>4, ProvisioningAssumption DEF RunInv, Checked
  <1>c. (r \in Setup /\ run[r].local) => Local(a0, n0)
    BY DEF Local
  <1> HIDE DEF a0, n0, b0
  <1>5. script' \in [Account -> [Name -> Bundle \cup {None}]]
        /\ \A a \in Account, n \in Name :
             script'[a][n] = IF a = a0 /\ n = n0 THEN b0 ELSE script[a][n]
    BY <1>3, <1>4
  <1>6. WorkersAreWhole'
    <2> SUFFICES ASSUME NEW a \in Account, NEW n \in Name, script'[a][n] # None
                 PROVE  /\ <<a, n>> \in buckets'
                        /\ \A f \in Asset : <<a, AssetHash(script'[a][n], f)>> \in stored'
      BY DEF WorkersAreWhole, AssetHash
    <2>1. CASE a = a0 /\ n = n0
      BY <2>1, <1>5, <1>a
    <2>2. CASE ~(a = a0 /\ n = n0)
      BY <2>2, <1>5, <1>3, <1>2 DEF WorkersAreWhole, Grows
    <2> QED BY <2>1, <2>2
  <1>7. OnlyTheRelease'
    <2> SUFFICES ASSUME digest' = "pinned", NEW a \in Account, NEW n \in Name
                 PROVE  script'[a][n] \in {None, Release} \/ Local(a, n)'
      BY DEF OnlyTheRelease
    <2>0. digest = "pinned" /\ (Local(a, n) => Local(a, n)')
      BY <1>2, LocalKept DEF Grows
    <2>1. CASE a = a0 /\ n = n0
      BY <2>0, <2>1, <1>5, <1>b, <1>c
    <2>2. CASE ~(a = a0 /\ n = n0)
      BY <2>0, <2>2, <1>5, <1>3 DEF OnlyTheRelease
    <2> QED BY <2>1, <2>2
  <1> QED BY <1>1, <1>5, <1>6, <1>7 DEF ProvisioningInv, ProvisioningTypeOK

\* A call whose answer takes the run to another step, or is lost.
LEMMA BecomesTo ==
  ASSUME ProvisioningInv, Grows, NEW r \in Run,
         NEW s \in WizardStep \cup SetupStep \cup {"ok"}, Becomes(r, To(r, s)),
         run' = [run EXCEPT ![r] = To(r, s)] => RunInv(r)'
  PROVE  Moves(r)
  <1>1. CASE run' = [run EXCEPT ![r] = To(r, s)]
    BY <1>1, StepTo
  <1>2. CASE run' = [run EXCEPT ![r].at = "failed", ![r].why = "call"]
    BY <1>2, FailMoves
  <1> QED BY <1>1, <1>2 DEF Becomes

\* A run that refuses to go on keeps the invariant.
LEMMA RefusesKeeps ==
  ASSUME ProvisioningInv, NEW r \in Run, NEW w \in {"bundle", "account", "login"}, Refuses(r, w)
  PROVE  ProvisioningInv'
  <1>1. Grows
    BY QuietGrows DEF Refuses, cloud
  <1>2. Moves(r)
    BY <1>1, FailMoves DEF Refuses
  <1> QED BY <1>2, MoveKeeps DEF Refuses, cloud

-----------------------------------------------------------------------------
(* The steps of the two programs *)

\* A run begins with the first step of its program.
LEMMA StartKeeps == ASSUME ProvisioningInv, NEW r \in Run, Start(r) PROVE ProvisioningInv'
  <1> DEFINE s == IF r \in Wizard THEN "verify" ELSE "names"
  <1>1. Grows
    BY QuietGrows DEF Start, cloud
  <1>2. s \in WizardStep \cup SetupStep /\ run' = [run EXCEPT ![r] = To(r, s)]
    BY DEF Start, To, WizardStep, SetupStep, ProvisioningInv, ProvisioningTypeOK
  <1>3. RunInv(r)
    BY DEF ProvisioningInv
  <1>4. RunInv(r)'
    BY <1>1, <1>2, <1>3, StepTo DEF RunInv, OwnStep, Chosen, Left, Checked, WizardOnly, SetupOnly, Placed, Delivering,
       Grows, Run, Start, At
  <1> QED BY <1>1, <1>2, <1>4, StepTo, MoveKeeps DEF Start, cloud

\* A call that fails before its effect.
LEMMA CallFailsKeeps == ASSUME ProvisioningInv, NEW r \in Run, CallFails(r) PROVE ProvisioningInv'
  <1>1. Grows
    BY QuietGrows DEF CallFails, cloud
  <1>2. Moves(r)
    BY <1>1, FailMoves DEF CallFails
  <1> QED BY <1>2, MoveKeeps DEF CallFails, cloud

\* Calls that only ask: the token, the bucket, the worker's address.
LEMMA AskingKeeps ==
  ASSUME ProvisioningInv, NEW r \in Run,
         VerifyApiToken(r) \/ BucketExists(r) \/ GetWorkersDevUrl(r) \/ Probe(r)
  PROVE  ProvisioningInv'
  <1>1. Grows /\ UNCHANGED script
    BY QuietGrows DEF VerifyApiToken, BucketExists, GetWorkersDevUrl, Probe, Becomes, cloud
  <1>2. RunInv(r)
    BY DEF ProvisioningInv
  <1>3. CASE VerifyApiToken(r)
    <2>1. run' = [run EXCEPT ![r] = To(r, "account")] => RunInv(r)'
      <3> SUFFICES ASSUME run' = [run EXCEPT ![r] = To(r, "account")] PROVE RunInv(r)'
        OBVIOUS
      <3>1. /\ run'[r].at = "account" /\ run'[r].account = run[r].account
            /\ run'[r].name = run[r].name /\ run'[r].bundle = run[r].bundle
            /\ run'[r].local = run[r].local
        BY <1>1, StepTo DEF WizardStep, SetupStep
      <3> QED BY <1>1, <1>2, <1>3, <3>1 DEF RunInv, OwnStep, Chosen, Left, Checked, WizardOnly,
                 SetupOnly, Placed, Delivering, Grows, At, Place, VerifyApiToken
    <2> QED BY <1>1, <1>3, <2>1, BecomesTo, MoveKeeps DEF VerifyApiToken, WizardStep
  <1>4. CASE BucketExists(r)
    <2> DEFINE s == IF Place(r) \in buckets THEN AfterBucket(r) ELSE "create"
    <2>1. r \in Wizard /\ s \in {"download", "create"} /\ (s = "download" => Place(r) \in buckets)
      BY <1>2, <1>4 DEF RunInv, OwnStep, WizardOnly, BucketExists, At, AfterBucket
    <2>2. Becomes(r, To(r, s)) /\ At(r, "bucket")
      BY <1>4 DEF BucketExists
    <2> HIDE DEF s
    <2>3. run' = [run EXCEPT ![r] = To(r, s)] => RunInv(r)'
      <3> SUFFICES ASSUME run' = [run EXCEPT ![r] = To(r, s)] PROVE RunInv(r)'
        OBVIOUS
      <3>1. /\ run'[r].at = s /\ run'[r].account = run[r].account /\ run'[r].name = run[r].name
            /\ run'[r].bundle = run[r].bundle /\ run'[r].local = run[r].local
        BY <1>1, <2>1, StepTo DEF WizardStep
      <3>2. r \notin Setup
        BY <2>1, ProvisioningAssumption
      <3> QED BY <1>1, <1>2, <2>1, <2>2, <3>1, <3>2 DEF RunInv, OwnStep, Chosen, Left, Checked,
                 WizardOnly, SetupOnly, Placed, Delivering, Grows, At, Place
    <2> QED BY <1>1, <2>1, <2>2, <2>3, BecomesTo, MoveKeeps DEF WizardStep
  <1>5. CASE GetWorkersDevUrl(r)
    <2>1. run' = [run EXCEPT ![r] = To(r, "probe")] => RunInv(r)'
      <3> SUFFICES ASSUME run' = [run EXCEPT ![r] = To(r, "probe")] PROVE RunInv(r)'
        OBVIOUS
      <3>1. /\ run'[r].at = "probe" /\ run'[r].account = run[r].account
            /\ run'[r].name = run[r].name /\ run'[r].bundle = run[r].bundle
            /\ run'[r].local = run[r].local
        BY <1>1, StepTo DEF WizardStep, SetupStep
      <3> QED BY <1>1, <1>2, <1>5, <3>1 DEF RunInv, OwnStep, Chosen, Left, Checked, WizardOnly,
                 SetupOnly, Placed, Delivering, Grows, At, Place, GetWorkersDevUrl
    <2> QED BY <1>1, <1>5, <2>1, BecomesTo, MoveKeeps DEF GetWorkersDevUrl, WizardStep
  <1>6. CASE Probe(r)
    <2>1. run' = [run EXCEPT ![r] = To(r, "ok")] /\ At(r, "probe")
      BY <1>6 DEF Probe
    <2>2. /\ run'[r].at = "ok" /\ run'[r].account = run[r].account
          /\ run'[r].name = run[r].name /\ run'[r].bundle = run[r].bundle
          /\ run'[r].local = run[r].local
      BY <1>1, <2>1, StepTo
    <2>3. RunInv(r)'
      BY <1>1, <1>2, <2>1, <2>2 DEF RunInv, OwnStep, Chosen, Left, Checked, WizardOnly,
         SetupOnly, Placed, Delivering, Grows, At, Place
    <2> QED BY <1>1, <2>1, <2>3, StepTo, MoveKeeps
  <1> QED BY <1>3, <1>4, <1>5, <1>6

\* createBucket: the bucket is there afterwards.
LEMMA CreateBucketKeeps == ASSUME ProvisioningInv, NEW r \in Run, CreateBucket(r) PROVE ProvisioningInv'
  <1>1. Grows /\ UNCHANGED script
    BY QuietGrows DEF CreateBucket, Becomes
  <1>2. RunInv(r)
    BY DEF ProvisioningInv
  <1>3. /\ At(r, "create") /\ Place(r) \in buckets' /\ Becomes(r, To(r, AfterBucket(r)))
        /\ AfterBucket(r) = IF r \in Wizard THEN "download" ELSE "deploy"
    BY DEF CreateBucket, AfterBucket
  <1>4. AfterBucket(r) \in WizardStep \cup SetupStep
    BY <1>3 DEF WizardStep, SetupStep
  <1>5. run' = [run EXCEPT ![r] = To(r, AfterBucket(r))] => RunInv(r)'
    <2> SUFFICES ASSUME run' = [run EXCEPT ![r] = To(r, AfterBucket(r))] PROVE RunInv(r)'
      OBVIOUS
    <2>1. /\ run'[r].at = AfterBucket(r)
          /\ run'[r].account = run[r].account /\ run'[r].name = run[r].name
          /\ run'[r].bundle = run[r].bundle /\ run'[r].local = run[r].local
      BY <1>1, <1>4, StepTo
    <2>2. (r \in Wizard => r \notin Setup) /\ (r \notin Wizard => r \in Setup)
      BY ProvisioningAssumption DEF Run
    <2> QED BY <1>1, <1>2, <1>3, <2>1, <2>2 DEF RunInv, OwnStep, Chosen, Left, Checked,
               WizardOnly, SetupOnly, Placed, Delivering, Grows, At, Place
  <1> QED BY <1>1, <1>3, <1>4, <1>5, BecomesTo, MoveKeeps

\* Records that differ from the run's in more than the step.
LEMMA ChoiceType ==
  ASSUME ProvisioningInv, NEW r \in Run, NEW s \in WizardStep \cup SetupStep
  PROVE  /\ \A a, x \in Account : \A n \in Name :
              [To(r, s) EXCEPT !.account = a, !.asked = x, !.name = n] \in RunRecord
         /\ \A a, x \in Account : [To(r, s) EXCEPT !.account = a, !.asked = x] \in RunRecord
         /\ \A n \in Name : [To(r, s) EXCEPT !.name = n] \in RunRecord
         /\ \A b \in Bundle : [To(r, s) EXCEPT !.bundle = b] \in RunRecord
         /\ \A b \in Bundle : [To(r, s) EXCEPT !.bundle = b, !.local = TRUE] \in RunRecord
         /\ \A T \in SUBSET Asset : [To(r, s) EXCEPT !.todo = T] \in RunRecord
  <1>1. run[r] \in RunRecord
    BY DEF ProvisioningInv, ProvisioningTypeOK
  <1>2. To(r, s) \in RunRecord
    BY <1>1 DEF To, RunRecord
  <1> QED BY <1>2 DEF RunRecord

\* A run without a bundle of the user may choose.
LEMMA ChoiceMoves ==
  ASSUME ProvisioningInv, Grows, NEW r \in Run, NEW k \in RunRecord, ~run[r].local,
         run' = [run EXCEPT ![r] = k], RunInv(r)'
  PROVE  Moves(r)
  BY DEF Moves

\* What the bundle's check lets through, or refuses.
LEMMA ReceivesKeeps ==
  ASSUME ProvisioningInv, NEW r \in Run, NEW b \in Bundle, Receives(r, b), At(r, "download")
  PROVE  ProvisioningInv'
  <1>1. Grows /\ UNCHANGED script
    BY QuietGrows DEF Receives, cloud
  <1>2. RunInv(r) /\ run[r] \in RunRecord /\ run \in [Run -> RunRecord]
    BY DEF ProvisioningInv, ProvisioningTypeOK
  <1>3. ~run[r].local /\ run[r].account \in Account /\ run[r].name \in Name
    BY <1>2 DEF RunInv, Checked, Chosen, Placed, At
  <1>4. CASE /\ Accepts(b) \/ digest = "sidecar"
             /\ run' = [run EXCEPT ![r] = [To(r, "extract") EXCEPT !.bundle = b]]
    <2> DEFINE k == [To(r, "extract") EXCEPT !.bundle = b]
    <2>1. k \in RunRecord
      BY ChoiceType DEF WizardStep
    <2>2. /\ k.at = "extract" /\ k.bundle = b /\ k.account = run[r].account
          /\ k.name = run[r].name /\ k.local = run[r].local
      BY <1>2 DEF To, RunRecord
    <2>3. run'[r] = k
      BY <1>2, <1>4
    <2> HIDE DEF k
    <2>4. digest = "pinned" => b = Release
      BY <1>4 DEF Accepts
    <2>5. RunInv(r)'
      BY <1>1, <1>2, <1>3, <2>2, <2>3, <2>4 DEF RunInv, OwnStep, Chosen, Left, Checked,
         WizardOnly, SetupOnly, Placed, Delivering, Grows, At, Place
    <2> QED BY <1>1, <1>3, <1>4, <2>1, <2>5, ChoiceMoves, MoveKeeps DEF k
  <1>5. CASE run' = [run EXCEPT ![r] = [To(r, "failed") EXCEPT !.why = "bundle"]]
    <2>1. run' = [run EXCEPT ![r].at = "failed", ![r].why = "bundle"]
      BY <1>2, <1>5 DEF To
    <2> QED BY <1>1, <2>1, FailMoves, MoveKeeps
  <1> QED BY <1>4, <1>5 DEF Receives

\* Downloads of the wizard and of vsa setup, and the user's own archive.
LEMMA BundleKeeps ==
  ASSUME ProvisioningInv, NEW r \in Run,
         DownloadWorkerBundle(r) \/ DownloadBundle(r) \/ CopyBundle(r)
  PROVE  ProvisioningInv'
  <1>1. CASE DownloadWorkerBundle(r) \/ DownloadBundle(r)
    BY <1>1, ReceivesKeeps DEF DownloadWorkerBundle, DownloadBundle
  <1>2. CASE CopyBundle(r)
    <2>1. Grows /\ UNCHANGED script
      BY <1>2, QuietGrows DEF CopyBundle, cloud
    <2>2. RunInv(r) /\ run[r] \in RunRecord /\ run \in [Run -> RunRecord]
      BY DEF ProvisioningInv, ProvisioningTypeOK
    <2>3. /\ r \in Setup /\ At(r, "download")
          /\ ~run[r].local /\ run[r].account \in Account /\ run[r].name \in Name
      BY <1>2, <2>2 DEF RunInv, Checked, Chosen, Placed, At, CopyBundle
    <2>4. PICK b \in Bundle :
            run' = [run EXCEPT ![r] = [To(r, "extract") EXCEPT !.bundle = b, !.local = TRUE]]
      BY <1>2 DEF CopyBundle
    <2> DEFINE k == [To(r, "extract") EXCEPT !.bundle = b, !.local = TRUE]
    <2>5. k \in RunRecord
      BY ChoiceType DEF WizardStep
    <2>6. /\ k.at = "extract" /\ k.bundle = b /\ k.account = run[r].account
          /\ k.name = run[r].name /\ k.local = TRUE
      BY <2>2 DEF To, RunRecord
    <2>7. run'[r] = k
      BY <2>2, <2>4
    <2> HIDE DEF k
    <2>8. r \notin Wizard
      BY <2>3, ProvisioningAssumption
    <2>9. RunInv(r)'
      BY <2>1, <2>2, <2>3, <2>6, <2>7, <2>8 DEF RunInv, OwnStep, Chosen, Left, Checked,
         WizardOnly, SetupOnly, Placed, Delivering, Grows
    <2> QED BY <2>1, <2>3, <2>4, <2>5, <2>9, ChoiceMoves, MoveKeeps DEF k
  <1> QED BY <1>1, <1>2

\* Unpacking, and vsa setup's question after the bucket.
LEMMA UnpackKeeps ==
  ASSUME ProvisioningInv, NEW r \in Run, ExtractBundle(r) \/ ExtractZip(r) \/ BucketInfo(r)
  PROVE  ProvisioningInv'
  <1>1. Grows /\ UNCHANGED script
    BY QuietGrows DEF ExtractBundle, ExtractZip, BucketInfo, Becomes, Refuses, cloud
  <1>2. RunInv(r)
    BY DEF ProvisioningInv
  <1>3. CASE Refuses(r, "bundle")
    BY <1>3, RefusesKeeps
  <1>4. CASE r \in Wizard /\ At(r, "extract") /\ Becomes(r, To(r, "session"))
    <2>0. r \notin Setup
      BY <1>4, ProvisioningAssumption
    <2>1. run' = [run EXCEPT ![r] = To(r, "session")] => RunInv(r)'
      <3> SUFFICES ASSUME run' = [run EXCEPT ![r] = To(r, "session")] PROVE RunInv(r)'
        OBVIOUS
      <3>1. /\ run'[r].at = "session" /\ run'[r].account = run[r].account
            /\ run'[r].name = run[r].name /\ run'[r].bundle = run[r].bundle
            /\ run'[r].local = run[r].local
        BY <1>1, StepTo DEF WizardStep, SetupStep
      <3> QED BY <1>1, <1>2, <1>4, <2>0, <3>1 DEF RunInv, OwnStep, Chosen, Left, Checked, WizardOnly,
                 SetupOnly, Placed, Delivering, Grows, At, Place
    <2> QED BY <1>1, <1>4, <2>1, BecomesTo, MoveKeeps DEF WizardStep
  <1>5. CASE r \in Setup /\ At(r, "extract") /\ Becomes(r, To(r, "info"))
    <2>0. r \notin Wizard
      BY <1>5, ProvisioningAssumption
    <2>1. run' = [run EXCEPT ![r] = To(r, "info")] => RunInv(r)'
      <3> SUFFICES ASSUME run' = [run EXCEPT ![r] = To(r, "info")] PROVE RunInv(r)'
        OBVIOUS
      <3>1. /\ run'[r].at = "info" /\ run'[r].account = run[r].account
            /\ run'[r].name = run[r].name /\ run'[r].bundle = run[r].bundle
            /\ run'[r].local = run[r].local
        BY <1>1, StepTo DEF WizardStep, SetupStep
      <3> QED BY <1>1, <1>2, <1>5, <2>0, <3>1 DEF RunInv, OwnStep, Chosen, Left, Checked, WizardOnly,
                 SetupOnly, Placed, Delivering, Grows, At, Place
    <2> QED BY <1>1, <1>5, <2>1, BecomesTo, MoveKeeps DEF SetupStep
  <1>6. CASE BucketInfo(r)
    <2>1. PICK s \in {"create", "deploy"} :
            /\ s = "deploy" => Place(r) \in buckets
            /\ Becomes(r, To(r, s)) \/ run' = [run EXCEPT ![r] = To(r, s)]
      <3>1. r \in Setup /\ r \notin Wizard
        BY <1>2, <1>6, ProvisioningAssumption DEF RunInv, OwnStep, SetupOnly, BucketInfo, At
      <3> QED BY <1>6, <3>1 DEF BucketInfo, AfterBucket
    <2>2. r \in Setup /\ r \notin Wizard /\ At(r, "info")
      BY <1>2, <1>6, ProvisioningAssumption DEF RunInv, OwnStep, SetupOnly, BucketInfo, At
    <2>3. run' = [run EXCEPT ![r] = To(r, s)] => RunInv(r)'
      <3> SUFFICES ASSUME run' = [run EXCEPT ![r] = To(r, s)] PROVE RunInv(r)'
        OBVIOUS
      <3>1. /\ run'[r].at = s /\ run'[r].account = run[r].account /\ run'[r].name = run[r].name
            /\ run'[r].bundle = run[r].bundle /\ run'[r].local = run[r].local
        BY <1>1, StepTo DEF SetupStep
      <3> QED BY <1>1, <1>2, <2>1, <2>2, <3>1 DEF RunInv, OwnStep, Chosen, Left, Checked,
                 WizardOnly, SetupOnly, Placed, Delivering, Grows, At, Place
    <2>4. Moves(r)
      BY <1>1, <2>1, <2>3, BecomesTo, StepTo DEF SetupStep
    <2> QED BY <1>1, <2>4, MoveKeeps
  <1> QED BY <1>3, <1>4, <1>5, <1>6 DEF ExtractBundle, ExtractZip

\* The choices of account and name, and the logins that precede them.
LEMMA ChoosingKeeps ==
  ASSUME ProvisioningInv, NEW r \in Run,
         \/ ResolveAccount(r) \/ ChooseNames(r) \/ AuthenticateWithToken(r)
         \/ Whoami(r, "whoami") \/ Whoami(r, "recheck") \/ WranglerLogin(r)
  PROVE  ProvisioningInv'
  <1>1. Grows /\ UNCHANGED script
    BY QuietGrows DEF ResolveAccount, ChooseNames, AuthenticateWithToken, Whoami, WranglerLogin,
       Becomes, Refuses, cloud
  <1>2. RunInv(r) /\ run[r] \in RunRecord /\ run \in [Run -> RunRecord]
    BY DEF ProvisioningInv, ProvisioningTypeOK
  <1>3. CASE \E w \in {"account", "login"} : Refuses(r, w)
    BY <1>3, RefusesKeeps
  <1>4. CASE run' = [run EXCEPT ![r].at = "failed", ![r].why = "call"]
    BY <1>1, <1>4, FailMoves, MoveKeeps
  <1>5. CASE ResolveAccount(r)
    <2>1. CASE \E a \in Account, n \in Name :
                 run' = [run EXCEPT ![r] =
                          [To(r, "bucket") EXCEPT !.account = a, !.asked = a, !.name = n]]
      <3>1. PICK a \in Account, n \in Name :
              run' = [run EXCEPT ![r] =
                       [To(r, "bucket") EXCEPT !.account = a, !.asked = a, !.name = n]]
        BY <2>1
      <3> DEFINE k == [To(r, "bucket") EXCEPT !.account = a, !.asked = a, !.name = n]
      <3>2. k \in RunRecord
        BY ChoiceType DEF WizardStep
      <3>3. /\ k.at = "bucket" /\ k.account = a /\ k.name = n /\ k.bundle = run[r].bundle
            /\ k.local = run[r].local
        BY <1>2 DEF To, RunRecord
      <3>4. run'[r] = k
        BY <1>2, <3>1
      <3> HIDE DEF k
      <3>5. ~run[r].local /\ r \in Wizard /\ r \notin Setup
        BY <1>2, <1>5, ProvisioningAssumption DEF RunInv, Checked, OwnStep, WizardOnly, ResolveAccount, At
      <3>6. RunInv(r)'
        BY <1>1, <1>2, <3>3, <3>4, <3>5 DEF RunInv, OwnStep, Chosen, Left, Checked, WizardOnly,
           SetupOnly, Placed, Delivering, Grows
      <3> QED BY <1>1, <3>1, <3>2, <3>5, <3>6, ChoiceMoves, MoveKeeps DEF k
    <2> QED BY <1>3, <1>4, <1>5, <2>1, ProvisioningAssumption DEF ResolveAccount, Becomes, FindAccount
  <1>6. CASE ChooseNames(r)
    <2>1. PICK n \in Name, s \in {"token", "whoami"} :
            run' = [run EXCEPT ![r] = [To(r, s) EXCEPT !.name = n]]
      BY <1>6 DEF ChooseNames
    <2> DEFINE k == [To(r, s) EXCEPT !.name = n]
    <2>2. k \in RunRecord
      BY ChoiceType DEF SetupStep
    <2>3. /\ k.at = s /\ k.account = run[r].account /\ k.name = n /\ k.bundle = run[r].bundle
          /\ k.local = run[r].local
      BY <1>2 DEF To, RunRecord
    <2>4. run'[r] = k
      BY <1>2, <2>1
    <2> HIDE DEF k
    <2>5. ~run[r].local /\ r \in Setup
      BY <1>2, <1>6 DEF RunInv, Checked, OwnStep, SetupOnly, ChooseNames, At
    <2>6. RunInv(r)'
      BY <1>1, <1>2, <2>3, <2>4, <2>5 DEF RunInv, OwnStep, Chosen, Left, Checked, WizardOnly,
         SetupOnly, Placed, Delivering, Grows
    <2> QED BY <1>1, <2>1, <2>2, <2>5, <2>6, ChoiceMoves, MoveKeeps DEF k
  <1>7. ASSUME run[r].at \in {"token", "whoami", "recheck"},
               NEW a \in Account, NEW x \in Account,
               run' = [run EXCEPT ![r] = [To(r, "download") EXCEPT !.account = a, !.asked = x]]
        PROVE  ProvisioningInv'
    <2> DEFINE k == [To(r, "download") EXCEPT !.account = a, !.asked = x]
    <2>1. run[r].name \in Name /\ ~run[r].local /\ r \in Setup /\ r \notin Wizard
      BY <1>2, <1>7, ProvisioningAssumption DEF RunInv, Checked, OwnStep, Chosen, SetupOnly
    <2>2. k \in RunRecord
      BY ChoiceType, <2>1 DEF WizardStep
    <2>3. /\ k.at = "download" /\ k.account = a /\ k.name = run[r].name /\ k.bundle = run[r].bundle
          /\ k.local = run[r].local
      BY <1>2 DEF To, RunRecord
    <2>4. run'[r] = k
      BY <1>2, <1>7
    <2> HIDE DEF k
    <2>5. RunInv(r)'
      BY <1>1, <1>2, <2>1, <2>3, <2>4 DEF RunInv, OwnStep, Chosen, Left, Checked, WizardOnly,
         SetupOnly, Placed, Delivering, Grows
    <2> QED BY <1>1, <1>7, <2>1, <2>2, <2>5, ChoiceMoves, MoveKeeps DEF k
  <1>8. ASSUME NEW s \in {"login", "recheck"}, run[r].at \in {"whoami", "login"},
               run' = [run EXCEPT ![r] = To(r, s)]
        PROVE  ProvisioningInv'
    <2>1. /\ run'[r].at = s /\ run'[r].account = run[r].account /\ run'[r].name = run[r].name
          /\ run'[r].bundle = run[r].bundle /\ run'[r].local = run[r].local
      BY <1>1, <1>8, StepTo DEF SetupStep
    <2>2. RunInv(r)'
      BY <1>1, <1>2, <1>8, <2>1 DEF RunInv, OwnStep, Chosen, Left, Checked, WizardOnly,
         SetupOnly, Placed, Delivering, Grows
    <2> QED BY <1>1, <1>8, <2>2, StepTo, MoveKeeps DEF SetupStep
  <1>9. CASE AuthenticateWithToken(r)
    <2>1. \A a \in PickAccount(RestListAccounts) : a \in Account
      BY ProvisioningAssumption DEF PickAccount, RestListAccounts
    <2> QED BY <1>3, <1>4, <1>7, <1>9, <2>1 DEF AuthenticateWithToken, Becomes, At
  <1>10. ASSUME NEW step \in {"whoami", "recheck"}, Whoami(r, step) PROVE ProvisioningInv'
    <2> DEFINE Listed(doc) == ParseWhoami(doc, login = "ok").accounts
    <2>1. PICK doc \in Payload :
            \/ \E a \in PickAccount(Listed(doc)), b \in Visible :
                 Becomes(r, [To(r, "download") EXCEPT !.account = b, !.asked = a])
            \/ Refuses(r, "account") \/ Refuses(r, "login")
            \/ step = "whoami" /\ Becomes(r, To(r, "login"))
      BY <1>10 DEF Whoami
    <2>2. Listed(doc) \subseteq Account /\ run[r].at = step
      BY <1>10, ProvisioningAssumption DEF ParseWhoami, Whoami, At
    <2>3. \A a \in PickAccount(Listed(doc)) : a \in Account
      BY <2>2 DEF PickAccount
    <2> HIDE DEF Listed
    <2>4. CASE \E a \in PickAccount(Listed(doc)), b \in Visible :
                 Becomes(r, [To(r, "download") EXCEPT !.account = b, !.asked = a])
      BY <1>4, <1>7, <2>2, <2>3, <2>4, ProvisioningAssumption DEF Becomes
    <2>5. CASE step = "whoami" /\ Becomes(r, To(r, "login"))
      BY <1>4, <1>8, <2>2, <2>5 DEF Becomes
    <2> QED BY <1>3, <2>1, <2>4, <2>5
  <1>11. CASE WranglerLogin(r)
    BY <1>8, <1>11 DEF WranglerLogin, At
  <1> QED BY <1>5, <1>6, <1>9, <1>10, <1>11

\* The dashboard: the session, and the buckets of files.
LEMMA DashboardKeeps ==
  ASSUME ProvisioningInv, NEW r \in Run, OpenSession(r) \/ UploadBucket(r)
  PROVE  ProvisioningInv'
  <1>1. Grows /\ UNCHANGED script
    BY QuietGrows DEF OpenSession, UploadBucket, Becomes, cloud
  <1>2. RunInv(r) /\ run[r] \in RunRecord /\ run \in [Run -> RunRecord]
    BY DEF ProvisioningInv, ProvisioningTypeOK
  <1>3. run[r].at \in {"session", "assets"} /\ run[r].todo \subseteq Asset
    BY <1>2 DEF OpenSession, UploadBucket, At, RunRecord
  <1>4. ~run[r].local /\ run[r].account \in Account /\ run[r].name \in Name
        /\ run[r].bundle \in Bundle /\ r \in Wizard
    BY <1>2, <1>3 DEF RunInv, Checked, Chosen, OwnStep, WizardOnly, Placed, Delivering
  <1>5. CASE run' = [run EXCEPT ![r].at = "failed", ![r].why = "call"]
    BY <1>1, <1>5, FailMoves, MoveKeeps
  <1>6. ASSUME NEW s \in {"assets", "worker"}, NEW T \in SUBSET Asset,
               run' = [run EXCEPT ![r] = [To(r, s) EXCEPT !.todo = T]],
               \A f \in Asset \ T : <<run[r].account, AssetHash(run[r].bundle, f)>> \in stored',
               s = "worker" => T = {}
        PROVE  ProvisioningInv'
    <2> DEFINE k == [To(r, s) EXCEPT !.todo = T]
    <2>1. k \in RunRecord
      BY ChoiceType, <1>4 DEF WizardStep
    <2>2. /\ k.at = s /\ k.account = run[r].account /\ k.name = run[r].name
          /\ k.bundle = run[r].bundle /\ k.local = run[r].local /\ k.todo = T
      BY <1>2 DEF To, RunRecord
    <2>3. run'[r] = k
      BY <1>2, <1>6
    <2> HIDE DEF k
    <2>4. Missing(r)' \subseteq T
      BY <1>6, <2>2, <2>3 DEF Missing, AssetHash
    <2>5. RunInv(r)'
      BY <1>1, <1>2, <1>3, <1>4, <1>6, <2>2, <2>3, <2>4 DEF RunInv, OwnStep, Chosen, Left,
         Checked, WizardOnly, SetupOnly, Placed, Delivering, Grows, Place
    <2> QED BY <1>1, <1>4, <1>6, <2>1, <2>5, ChoiceMoves, MoveKeeps DEF k
  <1>7. CASE OpenSession(r)
    <2>1. Missing(r) \subseteq Asset /\ stored' = stored
      BY <1>7 DEF Missing, OpenSession, cloud
    <2>2. \A f \in Asset \ Missing(r) : <<run[r].account, AssetHash(run[r].bundle, f)>> \in stored'
      BY <2>1 DEF Missing
    <2> QED BY <1>5, <1>6, <1>7, <2>1, <2>2 DEF OpenSession, Becomes
  <1>8. CASE UploadBucket(r)
    <2>1. PICK B \in SUBSET run[r].todo :
            /\ stored' = stored \cup {<<run[r].account, AssetHash(run[r].bundle, f)>> : f \in B}
            /\ Becomes(r, [To(r, IF LastBucket(r, B) THEN "worker" ELSE "assets")
                             EXCEPT !.todo = @ \ B])
      BY <1>8 DEF UploadBucket
    <2> DEFINE s == IF LastBucket(r, B) THEN "worker" ELSE "assets"
               T == run[r].todo \ B
    <2>2. To(r, s).todo = run[r].todo
      BY <1>2 DEF To, RunRecord
    <2>3. Becomes(r, [To(r, s) EXCEPT !.todo = T])
      BY <2>1, <2>2
    <2>4. T \in SUBSET Asset /\ s \in {"assets", "worker"} /\ (s = "worker" => T = {})
      BY <1>3 DEF LastBucket
    <2>5. Missing(r) \subseteq run[r].todo
      BY <1>2, <1>8 DEF UploadBucket, At, RunInv, Left
    <2>6. \A f \in Asset \ T : <<run[r].account, AssetHash(run[r].bundle, f)>> \in stored'
      BY <2>1, <2>5 DEF Missing
    <2> HIDE DEF s, T
    <2> QED BY <1>5, <1>6, <2>3, <2>4, <2>6 DEF Becomes
  <1> QED BY <1>7, <1>8

\* The script, once the dashboard is complete.
LEMMA UploadWorkerKeeps == ASSUME ProvisioningInv, NEW r \in Run, UploadWorker(r) PROVE ProvisioningInv'
  <1>1. RunInv(r) /\ script \in [Account -> [Name -> Bundle \cup {None}]] /\ At(r, "worker")
    BY DEF ProvisioningInv, ProvisioningTypeOK, UploadWorker
  <1>2. /\ run[r].account \in Account /\ run[r].name \in Name /\ run[r].bundle \in Bundle
        /\ run[r].bundle # None /\ Place(r) \in buckets /\ Missing(r) = {} /\ ~run[r].local
    BY <1>1, ProvisioningAssumption DEF RunInv, Chosen, Left, Checked, Placed, Delivering, At
  <1>3. /\ script' = [script EXCEPT ![run[r].account][run[r].name] = run[r].bundle]
        /\ UNCHANGED <<buckets, stored, crons, digest>> /\ Becomes(r, To(r, "cron"))
    BY DEF UploadWorker, Becomes
  <1>4. /\ script'[run[r].account][run[r].name] # None
        /\ \A a \in Account, n \in Name : script[a][n] # None => script'[a][n] # None
    BY <1>1, <1>2, <1>3
  <1>5. Grows
    BY <1>3, <1>4 DEF Grows
  <1>6. run' = [run EXCEPT ![r] = To(r, "cron")] => RunInv(r)'
    <2> SUFFICES ASSUME run' = [run EXCEPT ![r] = To(r, "cron")] PROVE RunInv(r)'
      OBVIOUS
    <2>1. /\ run'[r].at = "cron" /\ run'[r].account = run[r].account
          /\ run'[r].name = run[r].name /\ run'[r].bundle = run[r].bundle
          /\ run'[r].local = run[r].local
      BY <1>5, StepTo DEF WizardStep
    <2> QED BY <1>1, <1>2, <1>4, <1>5, <2>1 DEF RunInv, OwnStep, Chosen, Left, Checked,
               WizardOnly, SetupOnly, Placed, Delivering, Grows, At, Place
  <1>7. Moves(r)
    BY <1>3, <1>5, <1>6, BecomesTo DEF WizardStep
  <1>8. Place(r) \in buckets' /\ \A f \in Asset : <<run[r].account, AssetHash(run[r].bundle, f)>> \in stored'
    BY <1>2, <1>3 DEF Missing
  <1> QED BY <1>2, <1>3, <1>7, <1>8, DeployKeeps

\* The schedule.
LEMMA PutSchedulesKeeps == ASSUME ProvisioningInv, NEW r \in Run, PutSchedules(r) PROVE ProvisioningInv'
  <1>1. Grows /\ UNCHANGED script
    BY QuietGrows DEF PutSchedules, Becomes
  <1>2. RunInv(r)
    BY DEF ProvisioningInv
  <1>3. At(r, "cron") /\ Place(r) \in crons' /\ Becomes(r, To(r, "url"))
    BY DEF PutSchedules
  <1>4. run' = [run EXCEPT ![r] = To(r, "url")] => RunInv(r)'
    <2> SUFFICES ASSUME run' = [run EXCEPT ![r] = To(r, "url")] PROVE RunInv(r)'
      OBVIOUS
    <2>1. /\ run'[r].at = "url" /\ run'[r].account = run[r].account
          /\ run'[r].name = run[r].name /\ run'[r].bundle = run[r].bundle
          /\ run'[r].local = run[r].local
      BY <1>1, StepTo DEF WizardStep
    <2> QED BY <1>1, <1>2, <1>3, <2>1 DEF RunInv, OwnStep, Chosen, Left, Checked,
               WizardOnly, SetupOnly, Placed, Delivering, Grows, At, Place
  <1> QED BY <1>1, <1>3, <1>4, BecomesTo, MoveKeeps DEF WizardStep

\* wrangler deploy does all of it in one step.
LEMMA WranglerDeployKeeps == ASSUME ProvisioningInv, NEW r \in Run, WranglerDeploy(r) PROVE ProvisioningInv'
  <1>1. RunInv(r) /\ script \in [Account -> [Name -> Bundle \cup {None}]] /\ At(r, "deploy")
    BY DEF ProvisioningInv, ProvisioningTypeOK, WranglerDeploy
  <1>2. /\ run[r].account \in Account /\ run[r].name \in Name /\ run[r].bundle \in Bundle
        /\ run[r].bundle # None /\ Place(r) \in buckets /\ r \in Setup
    BY <1>1, ProvisioningAssumption
       DEF RunInv, OwnStep, Chosen, Left, SetupOnly, Placed, Delivering, At
  <1>3. /\ stored' = stored \cup
                     ({run[r].account} \X {AssetHash(run[r].bundle, f) : f \in Asset})
        /\ script' = [script EXCEPT ![run[r].account][run[r].name] = run[r].bundle]
        /\ crons' = crons \cup {Place(r)}
        /\ UNCHANGED <<buckets, digest>> /\ Becomes(r, To(r, "ok"))
    <2> DEFINE config == WranglerConfig(r)
    <2>1. /\ config.name = run[r].name /\ config.main = run[r].bundle /\ config.cron = TRUE
          /\ config.assets = {AssetHash(run[r].bundle, f) : f \in Asset}
      BY DEF WranglerConfig
    <2> HIDE DEF config
    <2>2. /\ stored' = stored \cup ({run[r].account} \X config.assets)
          /\ script' = [script EXCEPT ![run[r].account][config.name] = config.main]
          /\ crons' = IF config.cron THEN crons \cup {<<run[r].account, config.name>>}
                      ELSE crons \ {<<run[r].account, config.name>>}
          /\ UNCHANGED buckets /\ Becomes(r, To(r, "ok"))
      BY DEF WranglerDeploy, config
    <2> QED BY <2>1, <2>2 DEF Becomes, Place
  <1>4. /\ script'[run[r].account][run[r].name] # None
        /\ \A a \in Account, n \in Name : script[a][n] # None => script'[a][n] # None
    BY <1>1, <1>2, <1>3
  <1>5. Grows
    BY <1>3, <1>4 DEF Grows
  <1>6. run' = [run EXCEPT ![r] = To(r, "ok")] => RunInv(r)'
    <2> SUFFICES ASSUME run' = [run EXCEPT ![r] = To(r, "ok")] PROVE RunInv(r)'
      OBVIOUS
    <2>1. /\ run'[r].at = "ok" /\ run'[r].account = run[r].account
          /\ run'[r].name = run[r].name /\ run'[r].bundle = run[r].bundle
          /\ run'[r].local = run[r].local
      BY <1>5, StepTo
    <2>2. Place(r) \in crons' /\ Place(r) \in buckets'
      BY <1>2, <1>3
    <2> QED BY <1>1, <1>2, <1>4, <1>5, <2>1, <2>2 DEF RunInv, OwnStep, Chosen, Left, Checked,
               WizardOnly, SetupOnly, Placed, Delivering, Grows, At, Place
  <1>7. Moves(r)
    BY <1>3, <1>5, <1>6, BecomesTo
  <1>8. Place(r) \in buckets' /\ \A f \in Asset : <<run[r].account, AssetHash(run[r].bundle, f)>> \in stored'
    BY <1>2, <1>3
  <1> QED BY <1>2, <1>3, <1>7, <1>8, DeployKeeps

-----------------------------------------------------------------------------
(* The invariant and its consequences *)

\* Before the first run nothing is deployed.
LEMMA ProvisioningInit == Init => ProvisioningInv
  <1> SUFFICES ASSUME Init PROVE ProvisioningInv
    OBVIOUS
  <1>1. Idle \in RunRecord
    BY DEF Idle, RunRecord
  <1>2. ProvisioningTypeOK
    BY <1>1 DEF Init, ProvisioningTypeOK
  <1>3. WorkersAreWhole /\ OnlyTheRelease
    BY DEF Init, WorkersAreWhole, OnlyTheRelease
  <1>4. ASSUME NEW r \in Run PROVE RunInv(r)
    <2>1. run[r].at = "idle" /\ run[r].bundle = None /\ run[r].local = FALSE
      BY DEF Init, Idle
    <2> QED BY <2>1 DEF RunInv, OwnStep, Chosen, Left, Checked, WizardOnly, SetupOnly, Placed,
               Delivering
  <1> QED BY <1>2, <1>3, <1>4 DEF ProvisioningInv

\* Every step of every run keeps the invariant.
LEMMA ProvisioningStep == ProvisioningInv /\ [Next]_vars => ProvisioningInv'
  <1> SUFFICES ASSUME ProvisioningInv, [Next]_vars PROVE ProvisioningInv'
    OBVIOUS
  <1>1. CASE UNCHANGED vars \/ LoginExpires
    <2>1. UNCHANGED <<digest, run, buckets, stored, script, crons>>
      BY <1>1 DEF vars, cloud, LoginExpires
    <2>2. Grows
      BY <2>1, QuietGrows
    <2>3. \A q \in Run : RunInv(q)'
      BY <2>1, <2>2, OthersKept
    <2>4. ProvisioningTypeOK' /\ WorkersAreWhole' /\ OnlyTheRelease'
      BY <2>1 DEF ProvisioningInv, ProvisioningTypeOK, WorkersAreWhole, AssetHash, OnlyTheRelease, Local
    <2> QED BY <2>3, <2>4 DEF ProvisioningInv
  <1>2. ASSUME NEW r \in Run,
               \/ Start(r) \/ CallFails(r) \/ VerifyApiToken(r) \/ BucketExists(r)
               \/ GetWorkersDevUrl(r) \/ Probe(r) \/ CreateBucket(r)
        PROVE  ProvisioningInv'
    BY <1>2, StartKeeps, CallFailsKeeps, AskingKeeps, CreateBucketKeeps
  <1>3. ASSUME NEW r \in Run,
               \/ DownloadWorkerBundle(r) \/ DownloadBundle(r) \/ CopyBundle(r)
               \/ ExtractBundle(r) \/ ExtractZip(r) \/ BucketInfo(r)
        PROVE  ProvisioningInv'
    BY <1>3, BundleKeeps, UnpackKeeps
  <1>4. ASSUME NEW r \in Run,
               \/ ResolveAccount(r) \/ ChooseNames(r) \/ AuthenticateWithToken(r)
               \/ Whoami(r, "whoami") \/ Whoami(r, "recheck") \/ WranglerLogin(r)
        PROVE  ProvisioningInv'
    BY <1>4, ChoosingKeeps
  <1>5. ASSUME NEW r \in Run,
               \/ OpenSession(r) \/ UploadBucket(r) \/ UploadWorker(r) \/ PutSchedules(r)
               \/ WranglerDeploy(r)
        PROVE  ProvisioningInv'
    BY <1>5, DashboardKeeps, UploadWorkerKeeps, PutSchedulesKeeps, WranglerDeployKeeps
  <1> QED BY <1>1, <1>2, <1>3, <1>4, <1>5 DEF Next

\* The invariant holds in every state.
LEMMA ProvisioningInductive == Spec => []ProvisioningInv
  BY ProvisioningInit, ProvisioningStep, PTL DEF Spec

\* Whatever call a run breaks off at and however runs overlap, a script that
\* is deployed has its bucket and every file of its dashboard: provision and
\* ensureBucket come before uploadWorker, whose session is complete.
THEOREM DeployedIsWhole == Spec => []WorkersAreWhole
  <1>1. ProvisioningInv => WorkersAreWhole
    BY DEF ProvisioningInv
  <1> QED BY <1>1, ProvisioningInductive, PTL

\* With the digest pinned nothing but the release is deployed, unless the user
\* handed an archive over (--bundle): the checks of downloadWorkerBundle and of
\* downloadBundle are on every way from a download to a script.
THEOREM ReleaseOnly == Spec => []OnlyTheRelease
  <1>1. ProvisioningInv => OnlyTheRelease
    BY DEF ProvisioningInv
  <1> QED BY <1>1, ProvisioningInductive, PTL

\* No run fails because of what another has left.
THEOREM Repeatable == Spec => []LeftoversAreNoObstacle
  <1>1. ProvisioningInv => LeftoversAreNoObstacle
    BY DEF ProvisioningInv, ProvisioningTypeOK, LeftoversAreNoObstacle, RunRecord
  <1> QED BY <1>1, ProvisioningInductive, PTL

\* A run that reports success has left script, bucket and schedule, however
\* many runs work under the same name.
THEOREM SuccessMeansDeployed == Spec => []SuccessIsComplete
  <1>1. ProvisioningInv => SuccessIsComplete
    BY DEF ProvisioningInv, SuccessIsComplete, RunInv, Left, Delivering
  <1> QED BY <1>1, ProvisioningInductive, PTL
=============================================================================
