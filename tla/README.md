# Formal models of aks-platform-demo

This directory holds TLA+ models of the program logic of the repository, the TLC
configurations that check them and the theorems TLAPS proves about them. Paths
below are relative to the repository root; `test_dual_cluster.py` and the other
Python files are in `scripts/`.

## 1. Inventory

The repository contains a small HTTP service, the scripts that deploy and qualify
it on two Kubernetes clusters (`aks01`, `aks02`), and declarative deployment files.
Its logic that is hard to test is in how the scripts and the service behave when
threads, timers, signals, an API server or a mounted volume move between two of
their steps.

| Component | State | Operations | Talks to | Hard behaviour | Correct when | Status |
|---|---|---|---|---|---|---|
| Traffic relay, `acceptance_cutover.py:17-87` | active slot, registered sockets, stopping flag, a socket pair per handler thread | `switch`, `close`, accept, one handler thread per connection | clients, two port forwards, the harness thread | threads against `switch` and `close` | new connections get a current slot, a bound one never moves, no byte or socket is lost, close ends everything | `Relay`, `StickyRouter` |
| Application process, `src/main.mjs`, `src/app.mjs` | ready flag, stopping flag, two timers, listener, connections | listen, two signals, delayed close, forced close, requests | kubelet, Service endpoints, clients | timers against requests, second signal, grace period | unready before close, routed clients are let in, requests get their time, gone in time | `AppLifecycle` |
| Required secret file, `src/workload.mjs` | an open descriptor during a request | open, stat, read, close | CSI driver's mount, `/readyz` | the path changes between two system calls | the answer speaks of the present file, no descriptor leaks | `Readiness` |
| Direct acceptance harness, `test_dual_cluster.py` | what it created, the evidence record | prepare, build, release, cutover, cleanup, report | Docker, kind, kubectl, the relay | any step fails or is interrupted | accepted evidence is complete, everything created is removed or named | `Acceptance` |
| Argo acceptance harness, `test_argocd_dual_cluster.py` | the same, Git fixture, Application status | the same with Git commits and syncs, rejection, drift, retirement | Argo CD, Git fixture | the same | the same | `Acceptance` |
| Argo synchronization, `acceptance_argocd.py:206-269` | none of its own; reads the Application | fetch, refresh, patch, poll, evaluate | Argo controller, branch, other operators | stale status between two calls | never accepts stale success, stale failure or a timeout | `ArgoSync` |
| Git fixture and handler, `acceptance_argocd.py:35-203` | checkout, bare repository, server thread | replace, commit, push, serve | the harness, Argo's repo server | a failure between commit and push | Argo sees whole commits | partly, in `Acceptance` |
| Worked example, `run_worked_example.py` | methods done, its own report | clone and pin, run each harness as a child, judge its report, write the summary | both harnesses, terminal, signals | a Ctrl-C reaches driver and child; the driver kills the child | only complete evidence passes, exit 0 means nothing is left | `WorkedExample` |
| Service forwards, `test_dual_cluster.py:92-148` | child process, reader thread, queue | start, wait for the port, terminate, kill, reap | kubectl | start-up race, signals outside the try block | the child is gone, the port was live | `GatewayCheck` |
| Gateway and engines, `acceptance_gateway.py`, `acceptance_engines.py` | none kept | install platform, deploy, HTTPS checks | clusters, port forwards | stale conditions, negative checks through a tunnel that may be dead | a rejection is the gateway's, a good slot passes | `GatewayCheck`; install and deploy are steps |
| Native RBAC, `acceptance_native_rbac.py` | two bindings and a CRD in a cluster | bind, ask, revoke, ask, restore, two-part clean-up | API server | authorizer lag, failures in the clean-up | answers are current, bindings and CRD end as promised | `NativeRbac` |
| Azure Argo runner, `azure_argocd.py` | none kept; Application and credential in the cluster | install, bootstrap, sync, verify, retire | API server, Argo CD, others with access | get-then-apply, get-then-create, preconditions | what is retired is what was reviewed, workloads survive, a foreign credential is kept | `ArgoLifecycle` |
| Azure workload qualification, `qualify_azure_workload.py` | a report | read four kinds of objects, probe every pod, recheck | live cluster | non-atomic reads during rollouts | a pass speaks for one release and for every pod | `WorkloadQualification` |
| Azure traffic qualification, `qualify_azure_traffic.py` | a report | read gateway and health, sample, recheck, create the report | Azure, live gateway, other runs | non-atomic reads, two runs with one report path | a pass speaks for one configuration, evidence is never replaced | `TrafficQualification` |
| Smoke client, `smoke.mjs` | none | three requests | the service | answers of different pods | one release answers | a command of `GatewayCheck` |
| CI helpers, `install_ci_tools.py`, `.github/ci_scope.py`, `scripts/build.mjs` | files | download and rename, decide | network, git | little | atomic publication | left out |
| Manifests, pipelines, examples | none | none | Kubernetes, Azure DevOps | none of their own | | left out (declarative) |

Every hazard found in the code is listed with its line in `PROJECT.json`, together
with the properties that would catch it.

## 2. Modules

### Relay, StickyRouter, RelayProofs

`StickyRouter` is the promise: a connection waits, is bound once to a slot that was
active since it arrived, keeps it, ends, and never returns. `Relay` is the code.
Each region under `relay.lock` is one action and each blocking call is one action,
so `switch()` and `close()` can fall between any two of them.

| Code | Model |
|---|---|
| `relay.active`, `relay.connections`, `relay.stopping` | `active`, `connections`, `stopping` |
| position of a handler thread in `handle()` | `pc[c]` |
| `port` read at line 21; the open upstream socket | `target[c]`, `upstream[c]` |
| keys returned by `select()` not yet served; content in hand | `ready[c]`, `hand[c]` |
| `switch`, lines 70-74 | `Switch`; an unknown slot is offered and refused |
| `close`, lines 77 / 78 / 79-80 / 81-85 / 86-87 | `CloseBegin`, `CloseShutdown`, `CloseSnapshot`, `CloseSocket`, `CloseListener` |
| `handle`, lines 20-21 / 24-26 / 27-28 / 32 / 33 / 34-36 / 37 / 42-45 / 46-47 | `Route`, `Dial`, `Register`, `WhileNotStopping`, `Poll`, `Recv`, `Send`, `Discard`, `CloseUpstream` |
| `socketserver.serve_forever` | `LoopSelect`, `LoopAccept` (external) |

Content is a count of 64 KiB-at-most chunks. Constructing a relay with wrong
backends raises before any state exists and is left out. `switch` and `close` are
called by one thread in the harness; the model lets `Switch` happen at any time,
which only adds behaviours.

### AppLifecycle, ServiceProofs

One process in seconds. `drain` is the first `setTimeout` of `stop()`, `force` the
second, `idle[c]` Node's keep-alive timer of a connection. `Stop` is the handler of
both signals, `CloseServer` the callback of the delay (`server.close` and
`closeIdleConnections` in one turn of the event loop), `CloseAll` that of the force
timer, `Exit` the end of the event loop once no listener and no connection holds it
(both timers are `unref`'d). `Tick` lets a second pass and cannot overtake a timer
that is due. The kubelet and the Service are the environment: `routed` is how long
clients are still sent here after the signal, `Grace` when the process would be
killed; the model stops there.

Node's own behaviour is modelled from how the code relies on it: request timeouts
are checked only while the server listens, and idle connections close after the
keep-alive timeout. A request whose bytes have begun to arrive is `active`.

### Readiness, ServiceProofs

`/readyz` with `APP_REQUIRED_SECRET_FILE`. `OpenFile`, `Stat`, `Read` and `Send` are
the system calls; `Rotate` repoints or removes the path, `Rewrite` truncates or
fills the file it names. JavaScript runs the handler to its end, so `Drain` (the
signal) cannot interleave with a request; the file system can. Open may fail in
every state (permissions, descriptors, `ELOOP`), and so may stat and read (`Throws`,
lines 20-21), with the descriptor still open; the history `sawBad` counts both as a
reason for the alarm. A path that is not configured is always ready and not
modelled; a writer that keeps writing to a file the path no longer names is left out.

### ArgoSync, ArgoSyncProofs

The Application resource as the harness sees it (`operation`, `operationState`,
`sync`, `health`, error conditions), the controller that moves it (`Begin`,
`Finish`, `Compare`), the tracked branch (`Push`) and others with access (`Drift`,
`OtherSync`). `Push` happens only between two calls: the fixture serves the branch
read-only (`http.receivepack` is false, line 150), so nobody but the harness pushes,
and never while it waits; what the controller compares with may be older. `Drift` and
`OtherSync` happen at any time, between fetch, patch and poll too. `Sync` fetches and
refuses an Application with an operation, and one that fails its other checks
(somebody's automated policy, line 173) or its fetch; `Patch`
is a separate call and replaces whatever is requested by then, `Poll` is one round
of `wait_application` with `evaluate` translated branch by branch (`Own`,
`Rejected`, `Drifted`, `Healthy`, `Raises`). `Poll` may happen in any state, and
ends the call: a round that decides nothing is not a step, and the round at the
deadline gives `timeout`. The histories `ended`, `drifted` and `differed` record
what did happen, for the properties to compare with what `evaluate` concluded.

### ArgoLifecycle, MCArgoLifecycle, LifecycleProofs

`azure_argocd.py` is started by pipelines, once per operation, and nothing keeps
two runs apart. Each element of `Run` is a process; `pc[r]` is the `kubectl` command
it issues next, `seen[r]` the Application it has read. `Start` stands for everything
up to line 170, which reads only files, Git and Azure, and picks the action.

| Code | Model |
|---|---|
| `need` raises, or a command fails without effect | `Fail` |
| a command is cut off after its effect (`timeout=120`) | the second disjunct of `Done` |
| install: lines 171-179, 98-107, 108-116 | `InstallPlatform`, `GetSecret`, `CreateSecret` |
| bootstrap: lines 182-184, one `apply` per value at 187-188 | `ReadOwner`, `ApplyOther`, `ApplyApplication` |
| sync and verify: lines 190-199 | `Request`, `Verify`, `Qualify` |
| retire: lines 201-203, 204-207, 208, 209-212 | `ReadRetired`, `Delete`, `Wait`, `Confirm` |

The API server gives every write of the Application a new `resourceVersion`, and a
created one a new `uid`; `writes` counts them. Argo CD and the garbage collector are
`Begin`, `Finish`, `Collect`; people and other pipelines are the `Others...` actions.
`kubectl apply` merges the whole manifest: it overwrites what the manifest says
(labels, annotations, sync options, source, destination, project) and takes away a
policy, a finalizer or an operation only if an earlier apply had put it there, hence
the choices in `ApplyApplication`, among them that only fields outside the model
change, which is a write (a new `resourceVersion`) of its own. The credential's
content is abstracted to who created it.

`TakeoverOnlyUnseen` states exactly how far bootstrap's check reaches.
`validate_application` (lines 77-83) compares source, destination, project and the
automated policy, and only these are kept: the apply changes the ownership or the
policy of an existing Application only if that appeared or changed after line 182,
because line 188 applies without a precondition. The rest of the manifest is not
compared, and an apply may overwrite it in an Application that passed the check and
that nobody has touched; the property does not say otherwise. Retirement carries preconditions and has no such window
(`RetireIsReviewed`). A retirement that finds no Application reports
`workloads_preserved` without looking at workloads; `WorkloadsSurvive` therefore
speaks of what the retirement's own deletion took along. A finalizer cannot be added
to an object whose deletion has begun; that is a rule of the API server.

### WorkloadQualification, MCWorkload, WorkloadProofs

`qualify()` of `qualify_azure_workload.py`: `ReadDeployment`, `ReadSets`, `ReadPods`
and `ReadStatuses` are the calls of lines 283-285, `Probe(p)` the two requests through
one pod's tunnel, `Recheck` lines 290-293. What `validate_resources` decides from
several reads is decided after the last of them, except that a pod which is not Ready
ends the run when it is read: both end in `failed`. `Fail` is any other failed check
or read, among them the identity, mount and secret fields.

A template is an image and the cluster name in the pod's environment, which is what
`/version` reports (`MCWorkload` has one with the wanted image for another cluster
and one with another image). The cluster side is external: `Change` writes the
Deployment, rollbacks included, `Replace` deletes and creates it, `Control` is the
Deployment controller taking note and writing the status, `ScaleDown` its scaling down
of an older ReplicaSet, `Create`, `Readiness`, `Terminate` what happens to pods. Two
things are assumed of Kubernetes: the status counts are complete only when older
ReplicaSets are scaled to nothing (`AllUpdated`), and a pod being deleted no longer
serves the Service, so `Stray` looks at pods that are not being deleted. The model
ends with the run (`Live`). The histories `changed` and `strayed` start at the first
read. The Azure reads of lines 272-277 and the two `validate_binding` objects are read
before it and once only: what they say may be stale at the end, and no property
says otherwise.

### Acceptance, ExampleProofs

`execute()` of both harnesses is straight-line code, so it is a sequence of steps
(`DirectProgram`, `ArgoProgram`) with one action per kind of step. `StepFails` lets
any step raise, `Create`, `Deploy`, `Sync`, `Grant` and `InstallSyncIdentity` may raise
after their effect,
`Signal` raises wherever the program is. `Raise` unwinds the endpoint and records
what `main()` catches (`Caught`, which differs between the two harnesses);
`EnterCleanup` to `Exit` are `cleanup()` and the rest of `main()`, with
`SignalInCleanup` for the handler that is still installed there. `Upset` is the
cluster under test answering from another release. `Method` may be
`both`; `method` is the harness that runs, and `Delete` what is gone with a cluster.

A slot is introduced by `Grant` in the direct method (`native_rbac.check`) and by
`CreateApplication` and `InstallSyncIdentity` in the Argo one; `granted` holds the
slots that may then be released to.

Abstractions: a step's internal waits and retries are part of the step; the two
hosts of a traffic check are read at one moment; images, commits and manifests are
two revisions; the Argo side of a sync is one step here, because `ArgoSync` looks
inside it. Exceptions that `main()` names none of and no step is written to raise
(`KeyError` on an unexpected JSON shape) are not modelled. The report path is
given, as `run_worked_example.py` always does. A harness that has exited,
or was killed, stutters.

### WorkedExample, ExampleProofs

The driver, composed with the harness it runs: `WorkedExample` extends `Acceptance`,
and `Launch` starts the next harness with fresh variables and whatever the earlier
one left on the host. `stage` is the driver's position, `passed` and `result` are its
record, `summary` is `worked-example.json`, `status` its exit status.

| Code | Model |
|---|---|
| lines 59-110, checks, clone, tools | `Setup`, which may fail before or after the output directory exists |
| lines 112-116, one child per method | `Launch`, `HarnessWork` |
| lines 117-122, the report is read and judged | `Judge`, `JudgeFails`, `ValidEvidence` (lines 23-57) |
| Ctrl-C while `subprocess.run` waits | `Interrupt` (both processes), then `Kill` after any number of harness steps |
| SIGTERM to the driver, which installs no handler | `Terminate`; the harness goes on alone |
| lines 126-135 | `Finish`, whose write may fail |

A signal to the harness alone is `Signal` or `SignalInCleanup` of `Acceptance`. That
`subprocess.run` waits a quarter of a second after a KeyboardInterrupt and then kills
the child is Python's, modelled without the time. Evidence of another shape raises
`KeyError`, `AttributeError` or `TypeError`, which line 123 does not catch: the summary
then says `running` and the exit status is still not zero (`JudgeFails`).

### TrafficQualification, TrafficProofs

`qualify_azure_traffic.py`, one element of `Run` per process with the same `--report`.
`ReadGateway`, `ReadHealth`, one `Ask` per request and `Final` are the reads;
`Create` is the `open(..., "x")` of line 186 and `Write` what follows, `Die` a kill or
an exception in `finally`. The gateway has a configuration (`conf`, told apart by its
ETag and by whether it sends the two hosts to the expected slot) and instances that
route by a configuration of their own (`plane`): `Update` changes the first at once,
`Propagate` the second, `Provision` ends the update. Assumed of Azure: every update
gives a new ETag and leaves `Succeeded` until the instances have followed. `Turn` lets
health and release of the backend turn bad or good. `under` is a history of the
configurations that routed the answers counted.

### NativeRbac, GatewayCheck, SlotIntroduction, SlotProofs

`NativeRbac` is `check()` and `platform_check()` of `acceptance_native_rbac.py`. As
in `Acceptance`, straight-line code is data (`Checks`, `at`) with one action per kind
of command. A binding is the sequence of its changes (`log`), and the authorizer
enforces an element of it that may be behind (`seen`), moved by `Authorize`. `Raise`
enters the `finally` block from inside the `try` and ends the check outside it;
`Revoke`, `Confirm`, `DeleteFixture` and `Record` are lines 322-334. A command may
fail with or without effect. "beyond" is everything that no binding of the run
grants. Nothing in the code waits for the authorizer, so a check may fail for its lag
alone; `AnswersAreCurrent` says that it never passes because of it. After a failure
between a restore and its question, the last refusal asked for in `finally` may be an
answer from before the restore; this concerns only runs that fail anyway.

`GatewayCheck` is `check_release()` from its smoke test on and `check()` of
`acceptance_gateway.py`: the wait, then the commands listed in `Qualification`, each
tunnel command against a child process. `tunnel` is the position in
`service_forward()` (`popen` before its `try`, `startup`, `open` at the `yield`,
`finally`, `lost`), `child` the `kubectl` process, which may die whenever `Exit` is
taken. `gen` and `observed` are the generations of Gateway and HTTPRoute; that a
condition at the current generation means the proxy routes by it is assumed of the
controller (`Reconcile`). Not modelled: a 200 answer of more than 16 KiB, which line
50 reports with the words the Host check accepts (the application's answers are far
smaller).

The SNI check is two steps, `ConnectSni` (line 43) and `HandshakeSni` (line 45), and
the port-forward may end between them: `socket` says whether the connection it
accepted is still up. A connection that was cut off raises a reset, an `SSLEOFError`
(which is an `SSLError`) or a broken pipe, and the first two count as the rejection
like the gateway's own (`Rejections`, line 167). `RejectionIsReal` therefore says for
the server name only what the code ensures: routes were current, and the connect was
not refused. That the comment promises more is a finding.

`SlotIntroduction` puts the two together as `execute()` does for a slot: the RBAC
check, then up to three releases (initial, update, restore), each `Deploy` as the
application identity and the qualification from the start.

| Code | Model |
|---|---|
| `native_rbac.check`, line 332 | `Introduce` |
| `engines.deploy`, line 304 | `Deploy`, refused to an identity that is not authorized yet |
| `check_release`, lines 307-324 | `Qualify` |

## 3. Runs

| Run | Question | Instance | States |
|---|---|---|---|
| `Relay` | is content forwarded exactly, are sockets returned, is it quiet after close, does close end everything; does Relay implement StickyRouter, fresh routes included | 1 connection, 2 slots, 2 chunks each way | 236 k |
| `AppDrain` | does the drain keep its promises with the code's timings, and does the process end | 3 connections, 2 signals, delay 3, force 10, keep-alive 5, grace 30 | 12 k |
| `Readiness` | is the answer about the present file | 3 files, 3 changes of the mount | 22 k |
| `ArgoSync` | is every verdict about this call's operation | 2 calls, 3 revisions (one invalid), 2 interventions | 4.2 M |
| `ArgoLifecycle` | what may two runs and others do to the Application and the credential between two commands | 2 runs, others stop after 4 writes | 3.0 M |
| `WorkloadQualification` | does a pass speak for one release | 3 templates, 2 pods, 1 replica, 2 changes | 5.6 M |
| `WorkedExample` | faults and signals anywhere in the driver and both harnesses | method both, 2 signals, 1 upset | 2.4 M |
| `TrafficQualification` | does a pass speak for one configuration, is evidence kept | 2 runs, 2 samples, 2 updates, 1 turn | 1.6 M |
| `SlotIntroduction` | do the RBAC and gateway checks say what was so, and clean up | 2 interrupts, 2 signals, 3 faults, 3 releases | 12 k |
| `SniTunnelDies` | violation, see findings | 1 fault, 1 release | |
| `AcceptanceFailureNamed` | violation, see findings | no signal | |
| `ExampleInterrupted` | violation, see findings | 1 signal | |

Each run checks what its model could get wrong. The type invariants of the modules
with proofs are theorems and are not repeated in the runs; so is `Sticky` (part of
the refinement).

Why the bounds are enough. The relay's connections share only `active`,
`connections` and the close sequence, and no handler reads another's sockets; one
connection meets every step of `switch` and `close`, and two chunks let one be in hand
while another is queued. Interference between connections is left to the proofs:
every property of this run but `CloseEnds` is proved for any number of them. The
application's connections interact only through the timers; three cover one active,
one idle and one absent at each moment. Three files are the mounted one, the one
held open and the next one. In `ArgoSync`, two calls are needed so that a status of
the first can mislead the second, and two interventions allow one between fetch and
patch and one after it. In `ArgoLifecycle`, four writes are enough for a creation, a
change after a read, a deletion and a second creation under the same name; the runs'
own writes are not bounded by them. In `WorkloadQualification`, two changes are a
change and its rollback, or a change before the reads and one during them, and two
pods are the replica and its replacement. In `WorkedExample`, the second signal is the
one that meets cleanup already running; driver and harness are sequential, and
everything else is bounded by their programs. In `TrafficQualification`, two updates
are a change and its reverse, two samples put a change between two of them, and of
two runs one is faster. In `SlotIntroduction`, three releases are those of
the harness and three faults let a port-forward die after another thing went wrong.
Runs and pods are declared symmetric only in runs without liveness properties. `AppDrain`, `ArgoSync`, `ArgoLifecycle`,
`WorkloadQualification`, `WorkedExample`, `TrafficQualification` and `SlotIntroduction` switch deadlock checking off because the modelled system
really stops: the process has exited, the runs have ended, or the bounded calls,
writes and interventions are used up.

Fairness. `Relay`: every thread is scheduled; `select` has a 0.25 s timeout,
dial, recv and send have 5 s timeouts, so an enabled step of a handler, of the accept
loop or of `close` is eventually taken. Nothing is assumed of clients or backends.
`AppDrain`: time passes, due timers fire, and the event loop ends when nothing holds
it. `WorkedExample`: driver and harness are one thread each, and the driver waits for
nothing but the harness once it is set up. Most commands of the harness have a timeout
(`run`'s default is 600 s), and for them its steps end, well or badly. Some commands have
none, and nothing is assumed of the places where they run (`Untimed`): the driver's own
git, pip and installers (`run_worked_example.py:18-19`, 71-109) in `Setup`, and the
harness's git in `acceptance_engines.py:107-114` and 165-176, in the first step and in
the steps that install the platform or deploy (`HarnessUntimed`). `ExampleEnds` says
accordingly that the example ends unless it stays at such a place for good.

## 4. Proofs

TLAPS proves, for every value of the constants the assumptions allow:

* `RelayProofs`: `TypeOK`, `RouteFresh`, `NothingLost`, `NoSocketLeak`,
  `LateHandlersLeave`, `Sticky`, `QuietAfterClose` and that `Relay` implements
  `StickyRouter`. Assumed: `RelayAssumption` (the initial slot is one, `NoSlot` is
  none, the chunk bound is a number). The inductive invariant `RInv` adds what the
  safety properties leave open: a route is not known before the locked read
  (`Untouched`), the active slot is always among those offered to a waiting
  connection (`Routed`), an upstream exists only in certain places (`Dialled`),
  the lock keeps `connections` in step with the handlers (`Registered`), received
  minus forwarded is what is in hand (`Accounted`), and, for the close, that every
  handler between select and send is in the snapshot or already shut (`Closer`).
  The last one is where the order "stop flag, then snapshot" of the code is used: a
  handler that registers after the snapshot sees the flag before it can serve.
  `RouteFresh` is what the refinement says of routes and `LateHandlersLeave` the part of
  `QuietAfterClose` about late registration; both are proved, and no run repeats them.
  Refinement maps `Route` to `Bind`, each switch to a switch, a handler's end (and
  the refusal of the backlog) to `End`, and every other step to stuttering.
* `ServiceProofs`, of `AppLifecycle`: `TypeOK`, `GoneWithinGrace`, `RoutedClientsServed`,
  `UnreadyFirst` and `RequestsGetTheirTime`, from `AppAssumption` (delay plus force timer is less than the grace period,
  propagation is at most the delay). The invariant `AInv` splits a shutdown into
  stages (`Quiet`, `Draining`, `Closing`, `Forced`) and ties the clock to the timer
  armed in each: elapsed plus drain is the delay, elapsed plus force is both. A request is cut in its
  middle only by its client, by Node's request timeout while the server still listens, or
  by `CloseAll`, which the stage `Closing` puts at exactly that time.
* `ServiceProofs`, of `Readiness` (its specification is `ReadinessSpec`, so that one module
  can speak of both): `NoDescriptorLeak`, `ReadyIsCurrent`, `NoFalseAlarm`, from
  `ReadinessAssumption`. `Held` says that exactly the descriptor is open, `Seen` that
  the histories cover the path and the open file, `Justified` that the value about
  to be returned has been seen.

* `LifecycleProofs`: `WorkloadsSurvive`, `RetireIsReviewed`, `CredentialKept` and
  `TakeoverOnlyUnseen`, from `LifecycleAssumption` (the write bound is a number, "no
  Application" is not one). The argument is about versions: none is ahead of the
  counter (`Numbered`), so an Application that still has the version a run has read
  is the one it has read (`Tied`), and what a run goes on with has passed its check
  (`Reviewed`). Deleting it therefore deletes something without finalizer, and none
  can be added after (`Orphaning`).
* `WorkloadProofs`: `NoPassAcrossChange` and `PassMeansOneRelease`, from
  `QualificationAssumption` (the wanted template is one, there is a replica, the
  bound is a number). The argument starts from the status: when the controller has
  observed the generation and all counts are complete, no other template has or can
  get a pod (`Settled`, `One`), and this stays so until the Deployment is written
  (`Steady`), which the recheck notices because uid and generation only grow
  (`Tracks`). The pods picked are then pods of the template (`Chosen`), and their
  answers say which template it is (`Judged`). Without the `observedGeneration`
  condition of line 165 the first step of the argument fails.
* `ArgoSyncProofs`: `TypeOK`, `HealthyIsOwn`, `RejectedIsExplicit`, `FailureIsOwn`,
  `DriftIsReal`, from `ArgoAssumption`. After a call's patch an operation is requested,
  and only the end of an operation takes the request away; so a status without a
  request tells of an operation that ended after the patch (`Settled`), and whether it
  was for this call's commit is what `evaluate` compares. `Compared` remembers a
  difference the controller has found.
* `TrafficProofs`: `TypeOK`, `ReportIsOwn`, `EvidenceImmutable`, `OneConfiguration`,
  from `TrafficAssumption` (there is a sample, the bounds are numbers, "nobody" is no
  run). Files: only the creator of a report writes it, once. Configurations: ETags only
  grow and the instances never run ahead, so while the ETag is the one read and the
  first read saw `Succeeded`, the instances have routed by nothing else.
* `SlotProofs`: `TunnelReaped`, `RejectionIsReal`, `AnswersAreCurrent`,
  `IntroducedIsSettled`, `BothCleanups`, `FaultlessPasses` and the types, from
  `NativeAssumption`, `GatewayAssumption` and `SlotAssumption` (the bounds are numbers and
  there is a release). The inductive invariant is `SlotInv`.
  `Enclosed` says where in `service_forward()` a child can be alive and that a verdict
  is given outside it (or in the state `lost`), `Awaited` that commands after the wait
  see the current generation. For the native check the lemma `Places` names what stands
  at each of the 18 places of `Checks`, and `OnCourse` says what the place implies for the
  two bindings and the fixture. The answers rest on `Changing`: neighbouring elements of a
  binding's log differ, and by its place every question is asked after the binding
  was brought to the value it expects, one declaration after the opposite one was
  seen, so the authorizer has one element at most to catch up with and an answer from
  before it would be the other one. `Revoked` and `Finally` say what each stage of the
  `finally` block may still have left and that it is in `errors` or `named`. `Steady`
  is about a run without faults and signals: the place tells where the tunnel stands,
  and from there on no exception can start.
* `ExampleProofs`: `DriverTypeOK`, `AcceptedIsComplete`, `ExampleIsComplete`,
  `TrackedBeforeCreated`, `CleanupComplete`, `ApprovedReleaseRestored`, `CutoverIsReal`
  and `NeverReleaseToActive`, all of `ExampleSpec` and so for every method, harness and
  driver together, from `AcceptanceAssumption`. `execute()` is data in the
  model, so the first part of the module says where in the two programs the
  steps stand that matter (`Tracks`, `Opens`, `CutsOver`, `Updates`, `Restores`,
  `Approves`, `TierAt`, `TrafficAt`, ...), and each lemma there is checked against the
  sequences themselves. The invariant `ExampleInv` then says what the position `at` has
  established: which resources are tracked and which may exist, what each slot serves
  between its checks, where the endpoint points, which rows and tiers the report
  holds and that the two images differ. Of the phases after it: what still exists is on
  the list to delete or among the errors, and an exit status 0 means that the last place
  of the program was reached and nothing is left. `Accepted` is the driver's part: the
  methods before the current one have passed in order. That a position is
  reached only through the ones before it is what makes the report complete; the
  evidence rule (`ValidEvidence`) follows from the rows without being assumed.

The types of `Readiness`, `ArgoLifecycle` and `WorkloadQualification` are theorems of
their proof modules too.

`ExampleInv` and `SlotInv` were checked by TLC as invariants before they were proved:
the first with both methods, two signals and one upset (2.4 million distinct states),
the second with the bounds of `SlotIntroduction`. No run repeats this; the runs check the
properties themselves.

Only model-checked: liveness (`CloseEnds`, `StopEnds`, `ExampleEnds`), which is out of
the prover's reach. Every invariant and every action property of a passing run is also
a theorem.

## 5. Findings

* `SniTunnelDies`: the negative SNI check must never "mistake a dead local listener for
  route rejection" (`acceptance_gateway.py:136-137`). A listener that is gone before the
  connect is told apart (`ConnectionRefusedError`, line 169), one that goes between
  connect (line 43) and handshake (line 45) is not: the reset or the `SSLEOFError` it
  causes is caught by line 167 and reported as `tls_hostname_rejection`.
* `AcceptanceFailureNamed`: `test_dual_cluster.py:487` does not catch the
  `AssertionError` that `acceptance_native_rbac.check` and
  `acceptance_cutover.check` raise. Cleanup still runs and the report is published
  with `result: failed`, but it names no failure, which the help text of `--report`
  (line 471: "including failures and cleanup") promises. The Argo harness names
  `AssertionError` in its clause (`test_argocd_dual_cluster.py:415`).
* `ExampleInterrupted`: a Ctrl-C reaches the driver and the harness, which share the
  terminal's process group. The harness begins its `cleanup()`; the driver's
  `subprocess.run` (`run_worked_example.py:19`) gives it a quarter of a second and kills
  it. The run ends with resources no report names, although `docs/WORKED-EXAMPLE.md:57`
  says it "deletes its owned clusters, registry container and image tags, including on
  handled failure or interruption".

Two other ways out of `cleanup()` are in the model and show in no separate run:
output of a diagnostic command that is not UTF-8 raises `UnicodeDecodeError`, which
neither `collect_diagnostics` nor `cleanup` (line 445) catches, and a second signal. In
both cases nothing more is deleted; `CleanupComplete` is therefore stated for runs whose
cleanup was not cut (`cut`), and `AcceptedIsComplete` for all.

## 6. Plan

1. Done: the relay with its abstract router, the application's drain, readiness, both
   harnesses, Argo synchronization, the Azure Argo runner, workload qualification.
2. Done: the worked example over both harnesses, traffic qualification, the native RBAC
   check, the gateway check with its port forwards, and a slot's introduction composed
   of the last two; proofs for synchronization, traffic and tunnels.
3. Done, proofs: both harnesses and the driver (`ExampleProofs`), the native RBAC check and
   the whole slot (`SlotProofs`), the requests of a stopping process (`ServiceProofs`).
   With them every safety property of a run is a theorem.
4. Next, proofs: what `Acceptance` promises its driver as an abstract specification of
   its own, and `WorkedExample` shown to use no more than that.
5. Then a composition of `Relay` and `AppLifecycle` through the slots: a cutover while
   the old slot's pods drain.

## 7. Not modelled

* Smart HTTP handler (`acceptance_argocd.py:35-137`): a stateless filter in front of
  `git http-backend`; it keeps nothing between two requests.
* `smoke.mjs` itself: three requests and a comparison. Its hazard, answers of different
  pods, is narrowed by the rollout status the harness waits for.
* `ci_scope.py` and `install_ci_tools.py`: a decision on a diff and a download that is
  renamed into place. Neither keeps state; the one interaction of interest, cancelled
  workflow runs, belongs to the hosting service.
* Tunnels of `qualify_azure_workload.py`: part of its probe.
* Certificates, manifests, pipelines, examples, `build.mjs`, output formatting: data or
  declarative files no property depends on.
