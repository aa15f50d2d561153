---------------------------- MODULE Provisioning ----------------------------
(***************************************************************************)
(* Provisioning a worker in the user's Cloudflare account: the plugin's    *)
(* wizard (plugin/src/wizard.ts, cloudflare-deploy.ts, bundle.ts), which   *)
(* calls the REST API step by step, and vsa setup (cli/src/commands/       *)
(* setup.ts, cloudflare.ts), which drives wrangler.  Every run is one      *)
(* invocation; runs follow one another after failures or overlap.  A call  *)
(* may fail before or after it had its effect, and a run that fails leaves *)
(* what it made.  Cloudflare and wrangler are external.                    *)
(***************************************************************************)
EXTENDS Naturals, Sequences, FiniteSets, SequencesExt

CONSTANTS
  Wizard,      \* runs of the wizard
  Setup,       \* runs of vsa setup
  Account,     \* Cloudflare accounts
  Visible,     \* the accounts that the user's credentials see
  Name,        \* worker names
  Asset,       \* files of the dashboard
  Release,     \* the released bundle
  Bundle,      \* what a download may bring
  Content,     \* Content[b][f]: the content of a dashboard file
  Bytes,       \* Bytes[b]: the length of a bundle
  Directory,   \* Directory[b]: the entries of its central directory
  FieldMax,    \* 0xffffffff, the mark of a size in the zip64 field
  DownloadCap, \* MAX_BUNDLE_DOWNLOAD_BYTES
  EntryCap,    \* MAX_ENTRY_UNCOMPRESSED_BYTES
  ArchiveCap,  \* MAX_ARCHIVE_UNCOMPRESSED_BYTES
  None,
  MaxFaults    \* bound on the calls that fail

ASSUME ProvisioningAssumption ==
  /\ Wizard \cap Setup = {}
  /\ Visible \subseteq Account /\ Release \in Bundle
  /\ Bytes \in [Bundle -> Nat]
  /\ \A b \in Bundle : Directory[b] \in Seq([field : 0..FieldMax, zip64 : Nat \cup {None}])
  /\ None \notin Account \cup Name \cup Bundle

Run == Wizard \cup Setup

VARIABLES
  digest,    \* how this build knows the bundle's digest
  login,     \* wrangler's stored login
  run,       \* run[r]
  buckets,   \* R2 buckets, as account and name
  stored,    \* dashboard files stored at Cloudflare: account and hash
  script,    \* script[a][n]: the bundle of the deployed worker, or None
  crons,     \* workers with their schedule
  faults

cloud == <<buckets, stored, script, crons>>
vars == <<digest, login, run, cloud, faults>>

WizardStep == {"verify", "account", "bucket", "create", "download", "extract", "session",
               "assets", "worker", "cron", "url", "probe"}
SetupStep == {"names", "token", "whoami", "login", "recheck", "download", "extract", "info",
              "create", "deploy"}
LoginState == {"ok", "not-logged-in", "expired"}

\* A run: its step and why it failed, the account it deploys to and the one it
\* was told or reports (asked), the worker's name, the bundle and whether the
\* user gave it, the dashboard files still to upload.
Idle == [at |-> "idle", why |-> "", account |-> None, asked |-> None, name |-> None,
         bundle |-> None, local |-> FALSE, todo |-> {}]

Init ==
  /\ digest \in {"pinned", "sidecar", "unknown"}
  /\ login \in LoginState
  /\ run = [r \in Run |-> Idle]
  /\ buckets = {} /\ stored = {} /\ crons = {}
  /\ script = [a \in Account |-> [n \in Name |-> None]]
  /\ faults = 0

-----------------------------------------------------------------------------
(* Steps and failures *)

Fault == faults < MaxFaults /\ faults' = faults + 1

\* A call has its effect; its answer arrives and the run becomes k, or the
\* answer is lost and the run fails.
Becomes(r, k) ==
  /\ \/ run' = [run EXCEPT ![r] = k] /\ UNCHANGED faults
     \/ run' = [run EXCEPT ![r].at = "failed", ![r].why = "call"] /\ Fault
  /\ UNCHANGED <<digest, login>>

\* The run stops with an error of its own.
Refuses(r, why) ==
  /\ run' = [run EXCEPT ![r].at = "failed", ![r].why = why]
  /\ UNCHANGED <<digest, login, cloud, faults>>

At(r, step) == run[r].at = step
To(r, step) == [run[r] EXCEPT !.at = step]

\* A call that fails before it has an effect (api throws, wrangler exits with
\* an error).
CallFails(r) ==
  /\ run[r].at \in (WizardStep \cup SetupStep) \ {"names", "probe"}
  /\ run' = [run EXCEPT ![r].at = "failed", ![r].why = "call"]
  /\ Fault
  /\ UNCHANGED <<digest, login, cloud>>

-----------------------------------------------------------------------------
(* The bundle *)

\* readZip64EntrySize: an entry marked by its size field has its size in the
\* zip64 field, and is malformed without one.
DeclaredSize(e) == IF e.field = FieldMax THEN e.zip64 ELSE e.field

\* readZipDeclaredSizes, which throws for a malformed archive.
Readable(b) == \A i \in DOMAIN Directory[b] : DeclaredSize(Directory[b][i]) # None

\* assertWithinZipCaps.
WithinZipCaps(b) ==
  /\ Readable(b)
  /\ \A i \in DOMAIN Directory[b] : DeclaredSize(Directory[b][i]) <= EntryCap
  /\ FoldSeq(LAMBDA e, total : DeclaredSize(e) + total, 0, Directory[b]) <= ArchiveCap

\* Mutant: the digest is only compared when the release has a sidecar.
AcceptsPinless(b) == digest = "sidecar" => b = Release

\* The integrity check of a download.
Accepts(b) == digest # "unknown" => b = Release

\* readBodyCapped: the declared length and the bytes read stay under the cap.
WithinDownloadCap(b) == Bytes[b] <= DownloadCap

\* What a request for the bundle brings is checked and becomes the run's
\* bundle.  The sidecar may be out of reach, which counts as absent.
Receives(r, b) ==
  /\ b # Release => faults < MaxFaults
  /\ \/ /\ WithinDownloadCap(b)
        /\ Accepts(b) \/ (digest = "sidecar" /\ faults < MaxFaults)
        /\ run' = [run EXCEPT ![r] = [To(r, "extract") EXCEPT !.bundle = b]]
     \/ /\ ~WithinDownloadCap(b) \/ ~Accepts(b)
        /\ run' = [run EXCEPT ![r] = [To(r, "failed") EXCEPT !.why = "bundle"]]
  /\ faults' = IF b = Release THEN faults ELSE faults + 1
  /\ UNCHANGED <<digest, login, cloud>>

DownloadWorkerBundle(r) == r \in Wizard /\ At(r, "download") /\ \E b \in Bundle : Receives(r, b)

\* extractBundle: only the release is sure to have worker.js and index.html.
ExtractBundle(r) ==
  /\ r \in Wizard /\ At(r, "extract")
  /\ \/ /\ WithinZipCaps(run[r].bundle)
        /\ Becomes(r, To(r, "session"))
        /\ UNCHANGED cloud
     \/ run[r].bundle # Release /\ Refuses(r, "bundle")

-----------------------------------------------------------------------------
(* The wizard *)

Start(r) ==
  /\ At(r, "idle")
  /\ run' = [run EXCEPT ![r].at = IF r \in Wizard THEN "verify" ELSE "names"]
  /\ UNCHANGED <<digest, login, cloud, faults>>

VerifyApiToken(r) ==
  /\ At(r, "verify")
  /\ Becomes(r, To(r, "account"))
  /\ UNCHANGED cloud

\* listAccounts and the account that the wizard goes on with, if there is one:
\* the one it was told when the token sees it, or the only one.
FindAccount(asked) ==
  {a \in Visible : a = asked \/ (asked = None /\ Visible = {a})}

\* The account and the names: the suffix is random unless a name is given.
ResolveAccount(r) ==
  /\ At(r, "account")
  /\ \E asked \in Account \cup {None} :
       \/ \E a \in FindAccount(asked), n \in Name :
            /\ Becomes(r, [To(r, "bucket") EXCEPT !.account = a, !.asked = a, !.name = n])
            /\ UNCHANGED cloud
       \/ FindAccount(asked) = {} /\ Refuses(r, "account")

Place(r) == <<run[r].account, run[r].name>>

AfterBucket(r) == IF r \in Wizard THEN "download" ELSE "deploy"

BucketExists(r) ==
  /\ At(r, "bucket")
  /\ Becomes(r, To(r, IF Place(r) \in buckets THEN AfterBucket(r) ELSE "create"))
  /\ UNCHANGED cloud

\* Mutant: a bucket that another run has made in the meantime is an error.
CreateBucketOnce(r) ==
  /\ At(r, "create")
  /\ \/ /\ Place(r) \notin buckets
        /\ buckets' = buckets \cup {Place(r)}
        /\ Becomes(r, To(r, AfterBucket(r)))
        /\ UNCHANGED <<stored, script, crons>>
     \/ Place(r) \in buckets /\ Refuses(r, "exists")

\* createBucket, which tolerates a bucket that exists.
CreateBucket(r) ==
  /\ At(r, "create")
  /\ buckets' = buckets \cup {Place(r)}
  /\ Becomes(r, To(r, AfterBucket(r)))
  /\ UNCHANGED <<stored, script, crons>>

\* assetHash: the content and the extension.
AssetHash(b, f) == Content[b][f]

Missing(r) == {f \in Asset : <<run[r].account, AssetHash(run[r].bundle, f)>> \notin stored}

\* uploadAssets: the session answers with the files that are missing ...
OpenSession(r) ==
  /\ At(r, "session")
  /\ Becomes(r, [To(r, IF Missing(r) = {} THEN "worker" ELSE "assets") EXCEPT !.todo = Missing(r)])
  /\ UNCHANGED cloud

\* Mutant: the answer to the first bucket is taken for the completion token.
LastBucketFirst(r, B) == B # {}

\* The bucket is the last one of its session.
LastBucket(r, B) == run[r].todo \subseteq B

\* ... which are sent bucket by bucket; the last answer carries the token that
\* completes the upload.
UploadBucket(r) ==
  /\ At(r, "assets")
  /\ \E B \in (SUBSET run[r].todo) \ {{}} :
       /\ stored' = stored \cup {<<run[r].account, AssetHash(run[r].bundle, f)>> : f \in B}
       /\ Becomes(r, [To(r, IF LastBucket(r, B) THEN "worker" ELSE "assets") EXCEPT !.todo = @ \ B])
  /\ UNCHANGED <<buckets, script, crons>>

UploadWorker(r) ==
  /\ At(r, "worker")
  /\ script' = [script EXCEPT ![run[r].account][run[r].name] = run[r].bundle]
  /\ Becomes(r, To(r, "cron"))
  /\ UNCHANGED <<buckets, stored, crons>>

\* Mutant: the schedule is sent and not waited for.
PutSchedulesUnawaited(r) ==
  /\ At(r, "cron")
  /\ crons' \in {crons, crons \cup {Place(r)}}
  /\ run' = [run EXCEPT ![r] = To(r, "url")]
  /\ UNCHANGED <<digest, login, buckets, stored, script, faults>>

PutSchedules(r) ==
  /\ At(r, "cron")
  /\ crons' = crons \cup {Place(r)}
  /\ Becomes(r, To(r, "url"))
  /\ UNCHANGED <<buckets, stored, script>>

GetWorkersDevUrl(r) ==
  /\ At(r, "url")
  /\ Becomes(r, To(r, "probe"))
  /\ UNCHANGED cloud

\* The health probe: a miss is no failure.
Probe(r) ==
  /\ At(r, "probe")
  /\ run' = [run EXCEPT ![r] = To(r, "ok")]
  /\ UNCHANGED <<digest, login, cloud, faults>>

-----------------------------------------------------------------------------
(* vsa setup *)

\* The names, and the kind of credentials.
ChooseNames(r) ==
  /\ At(r, "names")
  /\ \E n \in Name, auth \in {"token", "whoami"} :
       run' = [run EXCEPT ![r] = [To(r, auth) EXCEPT !.name = n]]
  /\ UNCHANGED <<digest, login, cloud, faults>>

\* pickAccount from the accounts that are listed: the given one when it is
\* listed or nothing is, the only one, or the one selected at the prompt.
PickAccount(listed) == IF listed = {} THEN Account ELSE listed

\* restListAccounts: the accounts that the token sees; every other answer is
\* a failed call.
RestListAccounts == Visible

\* authenticateWithToken: wrangler is told the account.
AuthenticateWithToken(r) ==
  /\ At(r, "token")
  /\ \/ \E a \in PickAccount(RestListAccounts) :
          /\ Becomes(r, [To(r, "download") EXCEPT !.account = a, !.asked = a])
          /\ UNCHANGED cloud
     \/ Refuses(r, "account")

\* What wrangler whoami prints: a document, or a text that holds none.
Payload == CASE login = "ok"            -> {"accounts", "none"}
             [] login = "not-logged-in" -> {"unauthenticated", "none"}
             [] login = "expired"       -> {"expired"}

\* parseWhoami on the payload and the exit code.
ParseWhoami(doc, success) ==
  [status   |-> CASE doc = "expired" -> "expired"
                  [] doc \in {"accounts", "none"} /\ success -> "ok"
                  [] OTHER -> "not-logged-in",
   accounts |-> IF doc = "accounts" THEN Visible ELSE {}]

\* authenticateWithWrangler: the choice is reported, and wrangler, which is not
\* told, takes an account that its login sees.  Without a login the user is
\* asked to log in, once.
Whoami(r, step) ==
  /\ At(r, step)
  /\ \E doc \in Payload :
       \E info \in {ParseWhoami(doc, login = "ok")} :
         \/ \E a \in PickAccount(info.accounts), b \in Visible :
              /\ info.status = "ok"
              /\ Becomes(r, [To(r, "download") EXCEPT !.account = b, !.asked = a])
              /\ UNCHANGED cloud
         \/ info.status = "ok" /\ Refuses(r, "account")
         \/ info.status # "ok" /\ step = "whoami" /\ Becomes(r, To(r, "login")) /\ UNCHANGED cloud
         \/ info.status # "ok" /\ Refuses(r, "login")

WranglerLogin(r) ==
  /\ At(r, "login")
  /\ login' = "ok"
  /\ run' = [run EXCEPT ![r] = To(r, "recheck")]
  /\ UNCHANGED <<digest, cloud, faults>>

\* wrangler's login runs out at any time.
LoginExpires ==
  /\ login = "ok" /\ Fault
  /\ login' = "expired"
  /\ UNCHANGED <<digest, run, cloud>>

\* --bundle: a local archive is copied, and not compared with a digest.
CopyBundle(r) ==
  /\ r \in Setup /\ At(r, "download")
  /\ \E b \in Bundle : run' = [run EXCEPT ![r] = [To(r, "extract") EXCEPT !.bundle = b, !.local = TRUE]]
  /\ UNCHANGED <<digest, login, cloud, faults>>

DownloadBundle(r) == r \in Setup /\ At(r, "download") /\ \E b \in Bundle : Receives(r, b)

\* extractZip into the deploy directory, whatever the layout is.
ExtractZip(r) ==
  /\ r \in Setup /\ At(r, "extract")
  /\ \/ /\ WithinZipCaps(run[r].bundle)
        /\ Becomes(r, To(r, "info"))
        /\ UNCHANGED cloud
     \/ run[r].bundle # Release /\ Refuses(r, "bundle")

\* ensureBucket takes every error of bucket info for "not found".
BucketInfo(r) ==
  /\ At(r, "info")
  /\ \/ Becomes(r, To(r, IF Place(r) \in buckets THEN AfterBucket(r) ELSE "create"))
     \/ run' = [run EXCEPT ![r] = To(r, "create")] /\ Fault /\ UNCHANGED <<digest, login>>
  /\ UNCHANGED cloud

\* renderWranglerConfig: what the generated wrangler.jsonc tells wrangler.
WranglerConfig(r) ==
  [name |-> run[r].name, bucket |-> run[r].name, main |-> run[r].bundle,
   assets |-> {AssetHash(run[r].bundle, f) : f \in Asset}, cron |-> TRUE]

\* wrangler deploy: dashboard, worker and schedule as configured.
WranglerDeploy(r) ==
  /\ At(r, "deploy")
  /\ \E config \in {WranglerConfig(r)}, a \in {run[r].account} :
       /\ stored' = stored \cup ({a} \X config.assets)
       /\ script' = [script EXCEPT ![a][config.name] = config.main]
       /\ crons' = IF config.cron THEN crons \cup {<<a, config.name>>} ELSE crons \ {<<a, config.name>>}
  /\ Becomes(r, To(r, "ok"))
  /\ UNCHANGED buckets

-----------------------------------------------------------------------------

Next ==
  \/ LoginExpires
  \/ \E r \in Run :
       \/ Start(r) \/ CallFails(r)
       \/ VerifyApiToken(r) \/ ResolveAccount(r) \/ BucketExists(r) \/ CreateBucket(r)
       \/ DownloadWorkerBundle(r) \/ ExtractBundle(r)
       \/ OpenSession(r) \/ UploadBucket(r) \/ UploadWorker(r) \/ PutSchedules(r)
       \/ GetWorkersDevUrl(r) \/ Probe(r)
       \/ ChooseNames(r) \/ AuthenticateWithToken(r)
       \/ Whoami(r, "whoami") \/ WranglerLogin(r) \/ Whoami(r, "recheck")
       \/ CopyBundle(r) \/ DownloadBundle(r) \/ ExtractZip(r)
       \/ BucketInfo(r) \/ WranglerDeploy(r)

Spec == Init /\ [][Next]_vars

-----------------------------------------------------------------------------
(* Properties *)

Local(a, n) == \E r \in Setup : run[r].local /\ run[r].name = n /\ run[r].account = a

\* A worker that can answer has its bucket and every file of its dashboard, at
\* whatever call a run broke off and whatever other runs do under its name.
WorkersAreWhole ==
  \A a \in Account, n \in Name :
    script[a][n] # None =>
      /\ <<a, n>> \in buckets
      /\ \A f \in Asset : <<a, AssetHash(script[a][n], f)>> \in stored

\* With the digest pinned no download but the release is deployed; a bundle
\* that the user hands over is the user's.
OnlyTheRelease ==
  digest = "pinned" =>
    \A a \in Account, n \in Name : script[a][n] \in {None, Release} \/ Local(a, n)

\* What an earlier or a concurrent run has left never makes a run fail: the
\* steps can be repeated under the same name.
LeftoversAreNoObstacle == \A r \in Run : run[r].why # "exists"

\* A run that reports success has left a worker with its bucket and its
\* schedule where it worked.
SuccessIsComplete ==
  \A r \in Run :
    run[r].at = "ok" =>
      /\ script[run[r].account][run[r].name] # None
      /\ Place(r) \in buckets /\ Place(r) \in crons
=============================================================================
