----------------------------- MODULE Acceptance -----------------------------
(***************************************************************************)
(* The two-cluster acceptance harnesses: scripts/test_dual_cluster.py      *)
(* ("direct") and scripts/test_argocd_dual_cluster.py ("argocd"), from     *)
(* execute() to the report on disk.  WorkedExample runs them.              *)
(*                                                                         *)
(* execute() is straight-line code, so it is data here: Program lists its  *)
(* steps in order, `at` is the next one, and there is one action per kind  *)
(* of step.  Any step may raise, a signal may arrive anywhere, and the     *)
(* exception takes the harness through except, finally and cleanup().      *)
(***************************************************************************)
EXTENDS Naturals, Sequences, SequencesExt, FiniteSets

CONSTANTS Method,       \* args.method: "direct", "argocd" or "both"
          MaxSignals,   \* bound: SIGTERM or SIGINT deliveries
          MaxUpsets     \* bound: times a cluster stops serving as deployed

ASSUME AcceptanceAssumption ==
    /\ Method \in {"direct", "argocd", "both"}
    /\ MaxSignals \in Nat /\ MaxUpsets \in Nat

Slots == {"aks01", "aks02"}

\* The harnesses to run, in order.
Methods == IF Method = "both" THEN << "direct", "argocd" >> ELSE << Method >>

-----------------------------------------------------------------------------
(* The steps of execute().  `on` is a resource, slot, revision or label;   *)
(* "-" stands where a step has none.                                       *)

Do(op, on, rev) == [op |-> op, on |-> on, rev |-> rev]

\* prepare(): every resource is tracked before the command that creates it.
Prepare ==
    << Do("track", "registry", "-"), Do("create", "registry", "-"),
       Do("track", "aks01", "-"), Do("create", "aks01", "-"),
       Do("track", "aks02", "-"), Do("create", "aks02", "-"),
       Do("tier", "infrastructure", "-"),
       Do("platform", "aks01", "-"), Do("platform", "aks02", "-"),
       Do("tier", "platform", "-") >>

\* Mutant: the image is recorded only after it is built.
BuildThenTrack(rev) == << Do("create", rev, "-"), Do("track", rev, "-"), Do("push", rev, rev) >>

Build(rev) == << Do("track", rev, "-"), Do("create", rev, "-"), Do("push", rev, rev) >>

\* A release of rev to slot s by either method, and its qualification.
Release(m, s, rev) ==
    << Do(IF m = "direct" THEN "deploy" ELSE "sync", s, rev), Do("release", s, rev) >>

\* What Argo needs before a release: the files in the slot's Git folder.
Stage(m, s, rev) ==
    IF m = "direct" THEN << >> ELSE << Do("stage", s, rev), Do("commit", "-", "-") >>

\* What this slot's releases need, and the first one.
Introduce(m, s) ==
    (IF m = "direct" THEN << Do("grant", s, "-") >>
                     ELSE << Do("application", s, "-"), Do("identity", s, "-") >>)
    \o Release(m, s, "first")

\* Mutant: the cutover is not rolled back.
CutoverWithoutRollback ==
    << Do("traffic", "standby-updated-active-unchanged", "first"),
       Do("switch", "aks02", "-"), Do("traffic", "traffic-cutover", "second") >>

Cutover ==
    << Do("traffic", "standby-updated-active-unchanged", "first"),
       Do("switch", "aks02", "-"), Do("traffic", "traffic-cutover", "second"),
       Do("switch", "aks01", "-"), Do("traffic", "traffic-rollback", "first") >>

\* Mutant: the approved release is not restored.
UpdateWithoutRestore(m) ==
    << Do("open", "-", "-"), Do("traffic", "initial-active", "first") >>
    \o Build("second") \o << Do("distinct", "-", "-") >>
    \o Stage(m, "aks02", "second") \o Release(m, "aks02", "second") \o Cutover

UpdateAndCutover(m) ==
    << Do("open", "-", "-"), Do("traffic", "initial-active", "first") >>
    \o Build("second") \o << Do("distinct", "-", "-") >>
    \o Stage(m, "aks02", "second") \o Release(m, "aks02", "second")
    \o (IF m = "argocd" THEN << Do("release", "aks01", "first") >> ELSE << >>)
    \o Cutover \o Stage(m, "aks02", "first") \o Release(m, "aks02", "first")

DirectProgram ==
    Prepare \o Build("first") \o Introduce("direct", "aks01") \o Introduce("direct", "aks02")
    \o UpdateAndCutover("direct")
    \o << Do("release", "aks01", "first"), Do("close", "-", "-"),
          Do("tier", "application", "-"), Do("pass", "-", "-") >>

ArgoProgram ==
    Prepare \o << Do("bootstrap", "aks01", "-"), Do("bootstrap", "aks02", "-") >>
    \o Build("first")
    \o << Do("stage", "aks01", "first"), Do("stage", "aks02", "first"), Do("commit", "-", "-") >>
    \o Introduce("argocd", "aks01") \o Introduce("argocd", "aks02")
    \o UpdateAndCutover("argocd")
    \o << Do("close", "-", "-"), Do("stage", "aks02", "invalid"), Do("commit", "-", "-"),
          Do("reject", "aks02", "-"), Do("release", "aks02", "first"),
          Do("stage", "aks02", "first"), Do("commit", "-", "-"), Do("sync", "aks02", "first"),
          Do("drift", "aks02", "-"), Do("sync", "aks02", "first"),
          Do("release", "aks02", "first"), Do("release", "aks01", "first"),
          Do("unsynced", "aks01", "-"), Do("tier", "application", "-"),
          Do("retire", "aks01", "-"), Do("retire", "aks02", "-"), Do("pass", "-", "-") >>

Programs == [direct |-> DirectProgram, argocd |-> ArgoProgram]

-----------------------------------------------------------------------------

VARIABLES
    method,    \* the harness that runs
    at,        \* index in Program of the next step of execute()
    phase,     \* running, unwound, cleaning, deleting, reporting, exited, killed
    tracked,   \* self.registry_created, self.clusters, self.image_tags
    existing,  \* resources that exist on the host
    digest,    \* digest[rev]: what the registry answered for the pushed image
    serving,   \* serving[s]: the release cluster s answers with
    granted,   \* slots that may be released to: an identity is bound, for Argo to its Application
    active,    \* relay.active while the stable endpoint is open, else closed
    git,       \* the Git fixture: checkout files, commits pushed, files at its head
    opRev,     \* opRev[s]: commit of the last operation on Application s
    record,    \* self.record, the fields some decision reads
    todo,      \* cleanup(): the deletions still to run
    saved,     \* report files written: local, published
    exit,      \* process status: none, zero, one
    signals,   \* signals delivered
    upsets,    \* upsets so far
    cut        \* history: an exception left cleanup() half way

buildVars   == <<tracked, existing, digest>>
clusterVars == <<serving, granted, opRev>>
cleanVars   == <<todo, saved, exit, cut>>
faultVars   == <<method, signals, upsets>>
vars == <<at, phase, buildVars, clusterVars, active, git, record, cleanVars, faultVars>>

Program == Programs[method]

Revision == {"first", "second"}
Resource == {"registry"} \cup Slots \cup Revision
Served   == Revision \cup {"none", "drifted"}
Files    == Revision \cup {"none", "invalid"}
TierName == {"infrastructure", "platform", "application"}
Check    == {"initial-active", "standby-updated-active-unchanged",
             "traffic-cutover", "traffic-rollback"}

TypeOK ==
    /\ method \in ToSet(Methods)
    /\ at \in 1..(Len(Program) + 1)
    /\ phase \in {"running", "unwound", "cleaning", "deleting", "reporting", "exited", "killed"}
    /\ tracked \in [registry : BOOLEAN, clusters : Seq(Slots), images : Seq(Revision)]
    /\ existing \subseteq Resource
    /\ digest \in [Revision -> {"none", "d1", "d2"}]
    /\ serving \in [Slots -> Served]
    /\ granted \subseteq Slots
    /\ opRev \in [Slots -> Nat]
    /\ active \in Slots \cup {"closed"}
    /\ git \in [files : [Slots -> Files], commits : Nat, head : [Slots -> Files]]
    /\ record \in [result : {"running", "passed", "failed"}, failure : BOOLEAN,
                   errors : SUBSET Resource, tiers : Seq(TierName),
                   platform : SUBSET Slots, application : SUBSET Slots,
                   traffic : Seq([step : Check, slot : Slots, rev : Served])]
    /\ todo \in Seq(Resource)
    /\ saved \subseteq {"local", "published"}
    /\ exit \in {"none", "zero", "one"}
    /\ signals \in 0..MaxSignals
    /\ upsets \in 0..MaxUpsets
    /\ cut \in BOOLEAN

Untracked == [registry |-> FALSE, clusters |-> << >>, images |-> << >>]

Init ==
    /\ method = Methods[1]
    /\ at = 1
    /\ phase = "running"
    /\ tracked = Untracked
    /\ existing = {}
    /\ digest = [r \in Revision |-> "none"]
    /\ serving = [s \in Slots |-> "none"]
    /\ granted = {}
    /\ opRev = [s \in Slots |-> 0]
    /\ active = "closed"
    /\ git = [files |-> [s \in Slots |-> "none"], commits |-> 0,
              head |-> [s \in Slots |-> "none"]]
    /\ record = [result |-> "running", failure |-> FALSE, errors |-> {}, tiers |-> << >>,
                 platform |-> {}, application |-> {}, traffic |-> << >>]
    /\ todo = << >>
    /\ saved = {}
    /\ exit = "none"
    /\ signals = 0
    /\ upsets = 0
    /\ cut = FALSE

-----------------------------------------------------------------------------
(* Running a step, and leaving execute() through an exception.             *)

Step == Program[at]
At(op) == phase = "running" /\ at <= Len(Program) /\ Step.op = op
Advance == at' = at + 1 /\ UNCHANGED phase

\* The exceptions main() names.  test_argocd_dual_cluster.py lists
\* AssertionError (line 415), test_dual_cluster.py does not (line 487).
Caught == {"error", "interrupt"} \cup (IF method = "argocd" THEN {"assertion"} ELSE {})

\* An exception unwinds the endpoint's context managers (the relay and both
\* forwards close) and main() records what it catches; no step is next.
Raise(kind) ==
    /\ at' = Len(Program) + 1
    /\ phase' = "unwound"
    /\ active' = "closed"
    /\ record' = IF kind \in Caught
                 THEN [record EXCEPT !.result = "failed", !.failure = TRUE]
                 ELSE record
    /\ UNCHANGED <<todo, saved, exit, cut>>

\* A step that raises after it changed nothing.
Fails(kind) == Raise(kind) /\ UNCHANGED <<buildVars, clusterVars, git, faultVars>>

\* Steps that may raise an AssertionError: the permission probes, the traffic
\* comparison and the negative synchronization.
AssertingOps == {"bootstrap", "grant", "traffic", "reject"}

\* Every step runs subprocesses, any of which may fail or time out.
StepFails ==
    /\ phase = "running"
    /\ at <= Len(Program)
    /\ Step.op \notin {"track", "tier", "switch", "pass"}
    /\ Fails("error") \/ (Step.op \in AssertingOps /\ Fails("assertion"))

\* SIGTERM raises KeyboardInterrupt wherever the harness is.
Signal ==
    /\ phase = "running"
    /\ signals < MaxSignals
    /\ signals' = signals + 1
    /\ Raise("interrupt")
    /\ UNCHANGED <<method, buildVars, clusterVars, git, upsets>>

\* The cluster under test misbehaves: its pods are gone, or some of them
\* still answer from another release than the Deployment names.
Upset(s, r) ==
    /\ phase = "running"
    /\ upsets < MaxUpsets
    /\ serving[s] \notin {"none", r}
    /\ serving' = [serving EXCEPT ![s] = r]
    /\ upsets' = upsets + 1
    /\ UNCHANGED <<at, phase, buildVars, granted, opRev, active, git, record,
                   cleanVars, method, signals>>

-----------------------------------------------------------------------------
(* prepare() and build()                                                   *)

Calm == UNCHANGED <<cleanVars, faultVars>>

Track ==
    /\ At("track")
    /\ Advance
    /\ tracked' = CASE Step.on = "registry" -> [tracked EXCEPT !.registry = TRUE]
                    [] Step.on \in Slots -> [tracked EXCEPT !.clusters = Append(@, Step.on)]
                    [] Step.on \in Revision -> [tracked EXCEPT !.images = Append(@, Step.on)]
    /\ UNCHANGED <<existing, digest, clusterVars, active, git, record>> /\ Calm

\* A command that creates a resource may fail with the resource half made.
Create ==
    /\ At("create")
    /\ existing' = existing \cup {Step.on}
    /\ (Advance /\ UNCHANGED <<active, record, cleanVars>>) \/ Raise("error")
    /\ UNCHANGED <<tracked, digest, clusterVars, git, faultVars>>

\* docker push; registry_digest reads the digest back.  The second revision
\* may turn out to be the same image as the first.
Push ==
    /\ At("push")
    /\ Advance
    /\ \E d \in {"d1"} \cup (IF Step.on = "first" THEN {} ELSE {"d2"}) :
          digest' = [digest EXCEPT ![Step.on] = d]
    /\ UNCHANGED <<tracked, existing, clusterVars, active, git, record>> /\ Calm

Tier ==
    /\ At("tier")
    /\ Advance
    /\ record' = [record EXCEPT !.tiers = Append(@, Step.on)]
    /\ UNCHANGED <<buildVars, clusterVars, active, git>> /\ Calm

\* gateway.install: the shared platform engine, and its evidence.
Platform ==
    /\ At("platform")
    /\ Advance
    /\ record' = [record EXCEPT !.platform = @ \cup {Step.on}]
    /\ UNCHANGED <<buildVars, clusterVars, active, git>> /\ Calm

\* Steps that only observe: the Argo bootstrap and its controller's permissions.
Bootstrap ==
    /\ At("bootstrap")
    /\ Advance
    /\ UNCHANGED <<buildVars, clusterVars, active, git, record>> /\ Calm

\* Mutant: the digests of the two builds are not compared.
DistinctUnchecked ==
    /\ At("distinct")
    /\ Advance
    /\ UNCHANGED <<buildVars, clusterVars, active, git, record>> /\ Calm

Distinct ==
    /\ At("distinct")
    /\ digest["first"] # digest["second"]
    /\ Advance
    /\ UNCHANGED <<buildVars, clusterVars, active, git, record>> /\ Calm

-----------------------------------------------------------------------------
(* Releasing to a slot                                                     *)

\* native_rbac.check ends with the binding restored.
Grant ==
    /\ At("grant")
    /\ granted' = granted \cup {Step.on}
    /\ (Advance /\ UNCHANGED <<active, record, cleanVars>>) \/ Raise("error")
    /\ UNCHANGED <<buildVars, serving, opRev, git, faultVars>>

\* create_application: nothing synchronizes it yet.
CreateApplication ==
    /\ At("application")
    /\ Advance
    /\ UNCHANGED <<buildVars, clusterVars, active, git, record>> /\ Calm

\* install_sync_identity: the probes that follow the apply may fail.
InstallSyncIdentity ==
    /\ At("identity")
    /\ granted' = granted \cup {Step.on}
    /\ (Advance /\ UNCHANGED <<active, record, cleanVars>>) \/ Raise("error")
    /\ UNCHANGED <<buildVars, serving, opRev, git, faultVars>>

\* engines.deploy as the bound identity; a timeout may follow the apply.
Deploy ==
    /\ At("deploy")
    /\ Step.on \in granted
    /\ serving' = [serving EXCEPT ![Step.on] = Step.rev]
    /\ \/ Advance
          /\ record' = [record EXCEPT !.application = @ \cup {Step.on}]
          /\ UNCHANGED <<active, cleanVars>>
       \/ Raise("error")
    /\ UNCHANGED <<buildVars, granted, opRev, git, faultVars>>

\* check_release: the Deployment's image and what both hosts answer.
ReleaseCheck ==
    /\ At("release")
    /\ serving[Step.on] = Step.rev
    /\ Advance
    /\ UNCHANGED <<buildVars, clusterVars, active, git, record>> /\ Calm

\* GitFixture.replace, or the write of the invalid manifest.
StageFiles ==
    /\ At("stage")
    /\ Advance
    /\ git' = [git EXCEPT !.files[Step.on] = Step.rev]
    /\ UNCHANGED <<buildVars, clusterVars, active, record>> /\ Calm

\* git commit refuses an empty commit.
Commit ==
    /\ At("commit")
    /\ git.files # git.head
    /\ Advance
    /\ git' = [git EXCEPT !.commits = @ + 1, !.head = git.files]
    /\ UNCHANGED <<buildVars, clusterVars, active, record>> /\ Calm

\* sync() to the commit just made.  Argo applies what that commit holds for
\* the slot; a wait that times out may follow an operation that applied.
Sync ==
    /\ At("sync")
    /\ Step.on \in granted
    /\ git.head[Step.on] # "invalid"
    /\ serving' = [serving EXCEPT ![Step.on] = git.head[Step.on]]
    /\ opRev' = [opRev EXCEPT ![Step.on] = git.commits]
    /\ (Advance /\ UNCHANGED <<active, record, cleanVars>>) \/ Raise("error")
    /\ UNCHANGED <<buildVars, granted, git, faultVars>>

\* The negative test: the operation fails on the Deployment and what runs
\* stays; a success would be an AssertionError.
Reject ==
    /\ At("reject")
    /\ Step.on \in granted
    /\ opRev' = [opRev EXCEPT ![Step.on] = git.commits]
    /\ IF git.head[Step.on] = "invalid"
       THEN Advance /\ UNCHANGED <<serving, active, record, cleanVars>>
       ELSE Raise("assertion") /\ serving' = [serving EXCEPT ![Step.on] = git.head[Step.on]]
    /\ UNCHANGED <<buildVars, granted, git, faultVars>>

\* A live patch Argo must report as OutOfSync.
Drift ==
    /\ At("drift")
    /\ Advance
    /\ serving' = [serving EXCEPT ![Step.on] = "drifted"]
    /\ UNCHANGED <<buildVars, granted, opRev, active, git, record>> /\ Calm

\* The active slot's last operation is still the first commit's.
Unsynced ==
    /\ At("unsynced")
    /\ opRev[Step.on] = 1
    /\ Advance
    /\ UNCHANGED <<buildVars, clusterVars, active, git, record>> /\ Calm

\* Orphaning delete of the Application: what it deployed keeps running.
Retire ==
    /\ At("retire")
    /\ Advance
    /\ granted' = granted \ {Step.on}
    /\ UNCHANGED <<buildVars, serving, opRev, active, git, record>> /\ Calm

-----------------------------------------------------------------------------
(* The stable endpoint                                                     *)

Open ==
    /\ At("open")
    /\ Advance
    /\ active' = "aks01"
    /\ UNCHANGED <<buildVars, clusterVars, git, record>> /\ Calm

SwitchTraffic ==
    /\ At("switch")
    /\ Advance
    /\ active' = Step.on
    /\ UNCHANGED <<buildVars, clusterVars, git, record>> /\ Calm

\* traffic.check reads what the endpoint answers and requires the revision
\* the step names; the row holds what was observed.
TrafficCheck ==
    /\ At("traffic")
    /\ serving[active] = Step.rev
    /\ Advance
    /\ record' = [record EXCEPT !.traffic =
          Append(@, [step |-> Step.on, slot |-> active, rev |-> serving[active]])]
    /\ UNCHANGED <<buildVars, clusterVars, active, git>> /\ Calm

Close ==
    /\ At("close")
    /\ Advance
    /\ active' = "closed"
    /\ UNCHANGED <<buildVars, clusterVars, git, record>> /\ Calm

Pass ==
    /\ At("pass")
    /\ at' = at + 1
    /\ phase' = "unwound"
    /\ record' = [record EXCEPT !.result = "passed"]
    /\ UNCHANGED <<buildVars, clusterVars, active, git>> /\ Calm

-----------------------------------------------------------------------------
(* cleanup(), and main() after it                                          *)

Outside == UNCHANGED <<at, tracked, digest, active, git>>
Inside  == Outside /\ UNCHANGED clusterVars

\* A resource goes, and with a cluster all that was in it.
Delete(r) ==
    /\ existing' = existing \ {r}
    /\ serving' = [s \in Slots |-> IF s = r THEN "none" ELSE serving[s]]
    /\ granted' = granted \ {r}
    /\ opRev' = [s \in Slots |-> IF s = r THEN 0 ELSE opRev[s]]

Keep == UNCHANGED <<existing, clusterVars>>

\* Mutant: the registry container is forgotten.
EnterCleanupNoRegistry ==
    /\ phase = "unwound"
    /\ phase' = IF record.result = "passed" THEN "deleting" ELSE "cleaning"
    /\ record' = [record EXCEPT !.result = IF @ = "running" THEN "failed" ELSE @]
    /\ todo' = Reverse(tracked.clusters) \o tracked.images
    /\ UNCHANGED <<existing, saved, exit, cut, faultVars>> /\ Inside

\* The clusters, newest first, the registry and then the images.
Deletions ==
    Reverse(tracked.clusters) \o (IF tracked.registry THEN << "registry" >> ELSE << >>)
    \o tracked.images

\* finally: cleanup().  Diagnostics are collected before anything is deleted.
EnterCleanup ==
    /\ phase = "unwound"
    /\ phase' = IF record.result = "passed" THEN "deleting" ELSE "cleaning"
    /\ record' = [record EXCEPT !.result = IF @ = "running" THEN "failed" ELSE @]
    /\ todo' = Deletions
    /\ UNCHANGED <<existing, saved, exit, cut, faultVars>> /\ Inside

\* A diagnostic that fails or cannot be written is recorded, not raised; but
\* output that is not UTF-8 raises UnicodeDecodeError, which neither
\* collect_diagnostics nor cleanup catches.
Diagnose ==
    /\ phase = "cleaning"
    /\ \/ phase' = "deleting" /\ UNCHANGED <<exit, cut>>
       \/ phase' = "exited" /\ exit' = "one" /\ cut' = TRUE
    /\ UNCHANGED <<existing, record, todo, saved, faultVars>> /\ Inside

\* Mutant: a failed deletion is only printed.
DeleteIgnoringFailure ==
    /\ phase = "deleting" /\ todo # << >>
    /\ todo' = Tail(todo)
    /\ Delete(Head(todo)) \/ Keep
    /\ UNCHANGED <<phase, record, saved, exit, cut, faultVars>> /\ Outside

\* Mutant: a failed deletion is tried again until it succeeds.
DeleteRetrying ==
    /\ phase = "deleting" /\ todo # << >>
    /\ Head(todo) \in Revision => Head(todo) \in existing
    /\ todo' = Tail(todo)
    /\ Delete(Head(todo))
    /\ UNCHANGED <<phase, record, saved, exit, cut, faultVars>> /\ Outside

\* One deletion.  A command that fails may still have deleted; removing an
\* image that was never built always fails.
DeleteNext ==
    /\ phase = "deleting" /\ todo # << >>
    /\ todo' = Tail(todo)
    /\ \/ /\ Head(todo) \in Revision => Head(todo) \in existing
          /\ Delete(Head(todo))
          /\ UNCHANGED record
       \/ /\ Delete(Head(todo)) \/ Keep
          /\ record' = [record EXCEPT !.errors = @ \cup {Head(todo)}, !.result = "failed"]
    /\ UNCHANGED <<phase, saved, exit, cut, faultVars>> /\ Outside

\* The report: first in the artifacts, then published by an atomic replace.
WriteReport ==
    /\ \/ phase = "deleting" /\ todo = << >> /\ phase' = "reporting" /\ saved' = {"local"}
       \/ phase = "reporting" /\ saved = {"local"} /\ saved' = saved \cup {"published"}
          /\ UNCHANGED phase
    /\ UNCHANGED <<existing, record, todo, exit, cut, faultVars>> /\ Inside

ReportFails ==
    /\ (phase = "deleting" /\ todo = << >>) \/ (phase = "reporting" /\ saved = {"local"})
    /\ phase' = "exited"
    /\ exit' = "one"
    /\ UNCHANGED <<existing, record, todo, saved, cut, faultVars>> /\ Inside

Exit ==
    /\ phase = "reporting" /\ saved = {"local", "published"}
    /\ phase' = "exited"
    /\ exit' = IF record.result = "passed" THEN "zero" ELSE "one"
    /\ UNCHANGED <<existing, record, todo, saved, cut, faultVars>> /\ Inside

\* The handler raises in the middle of cleanup() as well, and nothing there
\* catches a KeyboardInterrupt.
SignalInCleanup ==
    /\ phase \in {"cleaning", "deleting", "reporting"}
    /\ signals < MaxSignals
    /\ signals' = signals + 1
    /\ phase' = "exited"
    /\ exit' = "one"
    /\ cut' = TRUE
    /\ UNCHANGED <<method, existing, record, todo, saved, upsets>> /\ Inside

-----------------------------------------------------------------------------

Work ==
    \/ Track \/ Create \/ Push \/ Tier \/ Platform \/ Bootstrap \/ Distinct
    \/ Grant \/ CreateApplication \/ InstallSyncIdentity
    \/ Deploy \/ ReleaseCheck \/ StageFiles \/ Commit \/ Sync
    \/ Reject \/ Drift \/ Unsynced \/ Retire
    \/ Open \/ SwitchTraffic \/ TrafficCheck \/ Close \/ Pass \/ StepFails
    \/ EnterCleanup \/ Diagnose \/ DeleteNext \/ WriteReport \/ ReportFails \/ Exit

Upsets == \E s \in Slots, r \in {"none"} \cup {x \in Revision : digest[x] # "none"} : Upset(s, r)

Over == phase \in {"exited", "killed"}

Next == Work \/ Signal \/ SignalInCleanup \/ Upsets \/ (Over /\ UNCHANGED vars)

Spec == Init /\ [][Next]_vars

-----------------------------------------------------------------------------
(* Properties                                                              *)

\* Nothing exists that cleanup() does not know: every resource is recorded
\* before the command that may half create it ("track before create").
TrackedBeforeCreated == existing \subseteq ToSet(Deletions)

\* Unless an exception cut cleanup() itself short, a resource left behind is
\* named in cleanup_errors and the run has failed.
CleanupComplete ==
    (phase = "exited" /\ ~cut) =>
        /\ existing \subseteq record.errors
        /\ record.errors # {} => exit = "one"

\* While the stable endpoint is open, the harness never releases to the slot
\* the endpoint serves from: only an upset changes what a user sees there.
NeverReleaseToActive ==
    [][active # "closed" /\ upsets' = upsets => serving'[active] = serving[active]]_vars

\* When the run is declared passed, both clusters answer from the approved
\* release again, unless a cluster misbehaved after its last check.
ApprovedReleaseRestored ==
    (phase = "unwound" /\ record.result = "passed" /\ upsets = 0) => \A s \in Slots : serving[s] = "first"

\* The cutover is shown between two different images: no traffic row after
\* the first exists while both revisions are the same image, and aks02 gets
\* traffic only once its release of the second revision has been checked.
CutoverIsReal ==
    /\ Len(record.traffic) > 1 => digest["first"] # digest["second"]
    /\ active = "aks02" /\ upsets = 0 => serving["aks02"] = "second"

\* A published report of a failed run says what failed: an exception or a
\* cleanup error.
FailureNamed ==
    ("published" \in saved /\ record.result = "failed") =>
        record.failure \/ record.errors # {}
=============================================================================
