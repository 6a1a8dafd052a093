--------------------------- MODULE ArgoLifecycle ---------------------------
(***************************************************************************)
(* scripts/azure_argocd.py: runs of install, bootstrap, sync, verify and   *)
(* retire against one cluster.  Every run is a process of its own and      *)
(* nothing keeps two of them apart; every kubectl command is one action.   *)
(* Others with access to the cluster write the same objects in between.    *)
(*                                                                         *)
(* An object of the API server carries a uid and a resourceVersion that no *)
(* other write has; here both are the number of the write.                 *)
(***************************************************************************)
EXTENDS Naturals

CONSTANTS Run,        \* processes
          NoApp,      \* there is no Application of this name
          MaxWrites   \* bound: writes after which the others stop

VARIABLES
    pc,       \* the command each run issues next, "passed" or "failed"
    seen,     \* the Application a run has read
    app,      \* the Application
    writes,   \* writes of the Application so far
    present,  \* its workloads exist
    lost,     \* history: whose deletion of the Application took workloads along
    secret    \* the Git credential: absent, ours (created by a run), bound, foreign

cluster == <<app, writes, present, lost>>
vars    == <<pc, seen, cluster, secret>>

Application ==
    [uid : Nat, rv : Nat,
     own        : BOOLEAN,                     \* source, destination and project as wanted
     automated  : BOOLEAN,                     \* an automated sync policy
     finalizer  : BOOLEAN,                     \* Argo's cascading finalizer
     operation  : BOOLEAN,                     \* an operation is requested
     running    : BOOLEAN,                     \* phase Running or Terminating
     deletedBy  : {"nobody", "run", "others"}] \* deletionTimestamp, and whose it is

ASSUME LifecycleAssumption == MaxWrites \in Nat /\ NoApp \notin Application

Command == {"idle", "platform", "getSecret", "createSecret",
            "readOwner", "project", "application", "role", "binding",
            "request", "verify", "qualify",
            "readRetired", "delete", "wait", "confirm", "passed", "failed"}

TypeOK ==
    /\ pc \in [Run -> Command]
    /\ seen \in [Run -> Application \cup {NoApp}]
    /\ app \in Application \cup {NoApp}
    /\ writes \in Nat
    /\ present \in BOOLEAN
    /\ lost \in {"nobody", "run", "others"}
    /\ secret \in {"absent", "ours", "bound", "foreign"}

Init ==
    /\ pc = [r \in Run |-> "idle"]
    /\ seen = [r \in Run |-> NoApp]
    /\ app = NoApp /\ writes = 0
    /\ present = FALSE /\ lost = "nobody"
    /\ secret \in {"absent", "bound", "foreign"}

Goto(r, where) == pc' = [pc EXCEPT ![r] = where]

\* A command with an effect may be cut off after it, by its timeout.
Done(r, where) == Goto(r, where) \/ Goto(r, "failed")

Put(a) == writes' = writes + 1 /\ app' = [a EXCEPT !.rv = writes + 1]

-----------------------------------------------------------------------------
(* Every run                                                               *)

\* The checks on the checkout, the release and the cluster come first.
Start(r) ==
    /\ pc[r] = "idle"
    /\ \E first \in {"platform", "readOwner", "request", "verify", "readRetired"} :
          Goto(r, first)
    /\ UNCHANGED <<seen, cluster, secret>>

\* A check does not hold, or a command fails without effect.
Fail(r) ==
    /\ pc[r] \notin {"passed", "failed"}
    /\ Goto(r, "failed")
    /\ UNCHANGED <<seen, cluster, secret>>

-----------------------------------------------------------------------------
(* install                                                                 *)

InstallPlatform(r) ==
    /\ pc[r] = "platform"
    /\ Goto(r, "getSecret")
    /\ UNCHANGED <<seen, cluster, secret>>

\* A credential bound to this repository is kept, another one is refused.
GetSecret(r) ==
    /\ pc[r] = "getSecret"
    /\ Goto(r, CASE secret = "absent"  -> "createSecret"
                 [] secret = "foreign" -> "failed"
                 [] OTHER              -> "passed")
    /\ UNCHANGED <<seen, cluster, secret>>

\* Mutant: the credential is applied.
ApplySecret(r) ==
    /\ pc[r] = "createSecret"
    /\ secret' = "ours" /\ Done(r, "passed")
    /\ UNCHANGED <<seen, cluster>>

\* kubectl create fails if there is one by now.
CreateSecret(r) ==
    /\ pc[r] = "createSecret"
    /\ IF secret = "absent"
       THEN secret' = "ours" /\ Done(r, "passed")
       ELSE Goto(r, "failed") /\ UNCHANGED secret
    /\ UNCHANGED <<seen, cluster>>

-----------------------------------------------------------------------------
(* bootstrap                                                               *)

Valid(a) == a.deletedBy = "nobody" /\ a.own /\ ~a.automated

\* Mutant: what is there is not validated.
ReadOwnerUnchecked(r) ==
    /\ pc[r] = "readOwner"
    /\ seen' = [seen EXCEPT ![r] = app]
    /\ Goto(r, "project")
    /\ UNCHANGED <<cluster, secret>>

ReadOwner(r) ==
    /\ pc[r] = "readOwner"
    /\ seen' = [seen EXCEPT ![r] = app]
    /\ Goto(r, IF app = NoApp \/ Valid(app) THEN "project" ELSE "failed")
    /\ UNCHANGED <<cluster, secret>>

\* Project, Role and RoleBinding: objects nothing here looks at again.
ApplyOther(r) ==
    /\ \/ pc[r] = "project" /\ Goto(r, "application")
       \/ pc[r] = "role" /\ Goto(r, "binding")
       \/ pc[r] = "binding" /\ Goto(r, "passed")
    /\ UNCHANGED <<seen, cluster, secret>>

Created(own, automated, finalizer) ==
    [uid |-> writes + 1, rv |-> writes + 1, own |-> own, automated |-> automated,
     finalizer |-> finalizer, operation |-> FALSE, running |-> FALSE,
     deletedBy |-> "nobody"]

\* kubectl apply creates the Application or merges the whole manifest into
\* whatever is there.  It takes a policy, a finalizer or an operation away only if
\* an earlier apply put it there.  The fields that are not modelled (labels,
\* annotations, sync options) may differ and make it a write as well.
ApplyApplication(r) ==
    /\ pc[r] = "application"
    /\ IF app = NoApp THEN Put(Created(TRUE, FALSE, FALSE))
       ELSE \E policy \in {app.automated, FALSE}, finalizer \in {app.finalizer, FALSE},
               operation \in {app.operation, FALSE} :
              LET merged == [app EXCEPT !.own = TRUE, !.automated = policy,
                                        !.finalizer = finalizer, !.operation = operation]
              IN  Put(merged) \/ (merged = app /\ UNCHANGED <<app, writes>>)
    /\ Done(r, "role")
    /\ UNCHANGED <<seen, present, lost, secret>>

-----------------------------------------------------------------------------
(* sync and verify: gitops.verify_release and workload.qualify             *)

Request(r) ==
    /\ pc[r] = "request" /\ app # NoApp /\ app.own
    /\ Put([app EXCEPT !.operation = TRUE])
    /\ Done(r, "verify")
    /\ UNCHANGED <<seen, present, lost, secret>>

Verify(r) ==
    /\ pc[r] = "verify" /\ app # NoApp /\ app.own /\ ~app.operation
    /\ Goto(r, "qualify")
    /\ UNCHANGED <<seen, cluster, secret>>

Qualify(r) ==
    /\ pc[r] = "qualify" /\ present
    /\ Goto(r, "passed")
    /\ UNCHANGED <<seen, cluster, secret>>

-----------------------------------------------------------------------------
(* retire                                                                  *)

\* Mutant: finalizers are not looked at.
RetirableCascading(a) == Valid(a) /\ ~a.operation /\ ~a.running

Retirable(a) == Valid(a) /\ ~a.finalizer /\ ~a.operation /\ ~a.running

ReadRetired(r) ==
    /\ pc[r] = "readRetired"
    /\ seen' = [seen EXCEPT ![r] = app]
    /\ Goto(r, IF app = NoApp THEN "confirm" ELSE IF Retirable(app) THEN "delete" ELSE "failed")
    /\ UNCHANGED <<cluster, secret>>

\* The same object, whatever was written to it since.  Mutant: the only precondition.
Same(a, b) == a # NoApp /\ a.uid = b.uid

Preconditions(a, b) == Same(a, b) /\ a.rv = b.rv

Delete(r) ==
    /\ pc[r] = "delete"
    /\ IF Preconditions(app, seen[r])
       THEN Put([app EXCEPT !.deletedBy = "run"]) /\ Done(r, "wait")
       ELSE Goto(r, "failed") /\ UNCHANGED <<app, writes>>
    /\ UNCHANGED <<seen, present, lost, secret>>

Wait(r) ==
    /\ pc[r] = "wait" /\ ~Same(app, seen[r])
    /\ Goto(r, "confirm")
    /\ UNCHANGED <<seen, cluster, secret>>

Confirm(r) ==
    /\ pc[r] = "confirm"
    /\ Goto(r, IF app = NoApp THEN "passed" ELSE "failed")
    /\ UNCHANGED <<seen, cluster, secret>>

-----------------------------------------------------------------------------
(* Argo CD, the API server and the others (external)                       *)

Begin ==
    /\ app # NoApp /\ app.deletedBy = "nobody" /\ app.operation /\ ~app.running
    /\ Put([app EXCEPT !.running = TRUE])
    /\ UNCHANGED <<pc, seen, present, lost, secret>>

Finish ==
    /\ app # NoApp /\ app.running
    /\ Put([app EXCEPT !.running = FALSE, !.operation = FALSE])
    /\ present' \in {present, TRUE}
    /\ UNCHANGED <<pc, seen, lost, secret>>

\* A deleted Application goes, after its finalizer has deleted the workloads.
Collect ==
    /\ app # NoApp /\ app.deletedBy # "nobody"
    /\ app' = NoApp
    /\ IF app.finalizer THEN present' = FALSE /\ lost' = app.deletedBy
                        ELSE UNCHANGED <<present, lost>>
    /\ UNCHANGED <<pc, seen, writes, secret>>

OthersCreate ==
    /\ writes < MaxWrites /\ app = NoApp
    /\ \E own, automated, finalizer \in BOOLEAN : Put(Created(own, automated, finalizer))
    /\ UNCHANGED <<pc, seen, present, lost, secret>>

\* The API server lets nobody add a finalizer to an object being deleted.
OthersUpdate ==
    /\ writes < MaxWrites /\ app # NoApp
    /\ \E own, automated, finalizer, operation \in BOOLEAN :
          /\ finalizer => app.finalizer \/ app.deletedBy = "nobody"
          /\ app.operation => operation
          /\ Put([app EXCEPT !.own = own, !.automated = automated,
                             !.finalizer = finalizer, !.operation = operation])
    /\ UNCHANGED <<pc, seen, present, lost, secret>>

OthersDelete ==
    /\ writes < MaxWrites /\ app # NoApp /\ app.deletedBy = "nobody"
    /\ Put([app EXCEPT !.deletedBy = "others"])
    /\ UNCHANGED <<pc, seen, present, lost, secret>>

OthersSecret ==
    /\ secret' \in {"absent", "bound", "foreign"}
    /\ UNCHANGED <<pc, seen, cluster>>

Step(r) ==
    \/ Start(r) \/ Fail(r)
    \/ InstallPlatform(r) \/ GetSecret(r) \/ CreateSecret(r)
    \/ ReadOwner(r) \/ ApplyOther(r) \/ ApplyApplication(r)
    \/ Request(r) \/ Verify(r) \/ Qualify(r)
    \/ ReadRetired(r) \/ Delete(r) \/ Wait(r) \/ Confirm(r)

Environment ==
    \/ Begin \/ Finish \/ Collect
    \/ OthersCreate \/ OthersUpdate \/ OthersDelete \/ OthersSecret

Next == (\E r \in Run : Step(r)) \/ Environment

Spec == Init /\ [][Next]_vars

-----------------------------------------------------------------------------
(* Properties                                                              *)

\* What a retirement deletes is what it reviewed: at the moment of the delete
\* the Application is still of the wanted source and target, manual, without
\* finalizer and idle, whoever wrote to it since it was read.
RetireIsReviewed ==
    [][app # NoApp /\ app' # NoApp /\ app.deletedBy # "run" /\ app'.deletedBy = "run"
         => Retirable(app)]_vars

\* "Workloads remain": no retirement takes workloads along.
WorkloadsSurvive == lost # "run"

\* A credential somebody else put there is never replaced by a run's own.
CredentialKept == [][(secret \in {"bound", "foreign"} => secret' # "ours")]_vars

\* "Existing Application belongs to a different source or target": bootstrap
\* checks the Application and applies later, with no precondition.  It changes
\* what it checked, the ownership and the manual policy, only of an Application
\* that appeared or changed since its check; the rest of the manifest, which it
\* does not check, it may overwrite at any time.
TakeoverOnlyUnseen ==
    [][\A r \in Run :
         /\ pc[r] = "application" /\ pc'[r] # pc[r] /\ app # NoApp /\ app' # NoApp
         /\ app'.own # app.own \/ app'.automated # app.automated
         => seen[r] = NoApp \/ seen[r].rv # app.rv]_vars
=============================================================================
