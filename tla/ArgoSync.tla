------------------------------ MODULE ArgoSync ------------------------------
(***************************************************************************)
(* Waiting for Argo CD: ArgoAcceptance.sync in                             *)
(* scripts/test_argocd_dual_cluster.py with evaluate and wait_application  *)
(* in scripts/acceptance_argocd.py, one Application, its controller and    *)
(* whoever else may change the cluster or ask for an operation.            *)
(*                                                                         *)
(* The harness reads the Application object over and over and has to tell  *)
(* the end of its own operation from what earlier ones left in the status. *)
(***************************************************************************)
EXTENDS Naturals

CONSTANTS Revision,     \* Git commits
          Valid,        \* those whose Deployment the API server accepts
          None,         \* no revision
          MaxCalls,     \* bound: waits the harness starts
          MaxMeddling   \* bound: live changes and operations of others

ASSUME ArgoAssumption ==
    /\ Valid \subseteq Revision /\ None \notin Revision
    /\ MaxCalls \in Nat /\ MaxMeddling \in Nat

VARIABLES
    app,       \* the Application: requested operation, operationState, sync, health
    live,      \* the revision the cluster's objects come from, or drifted, None
    head,      \* head of the tracked branch
    pc,        \* harness: idle, patch, poll
    want,      \* the revision and the expectation of the call
    result,    \* how the last call ended: none, healthy, rejected, drift, error, timeout
    calls,     \* calls started
    meddling,  \* interventions of others
    ended,     \* history: phases of operations on want.rev that ended since the patch
    drifted,   \* history: live was changed by hand since the patch
    differed   \* history: since the last healthy result, live differed from want.rev

harness == <<pc, want, result, calls>>
history == <<ended, drifted, differed>>
vars    == <<app, live, head, harness, meddling, history>>

Expectation == {"healthy", "rejected", "drift"}
NoRev == Revision \cup {None}
Phases == {"Running", "Succeeded", "Failed", "Error"}

TypeOK ==
    /\ app \in [operation : NoRev,                      \* .operation.sync.revision
                phase : {"none"} \cup Phases,           \* operationState.phase
                opRev : NoRev,                          \* ... syncResult.revision
                denied : BOOLEAN,                       \* ... the Deployment SyncFailed
                syncRev : NoRev, synced : BOOLEAN,      \* status.sync
                healthy : BOOLEAN,
                errors : BOOLEAN]                       \* error conditions
    /\ live \in NoRev \cup {"drifted"}
    /\ head \in Revision
    /\ pc \in {"idle", "patch", "poll"}
    /\ want \in [rev : NoRev, for : Expectation]
    /\ result \in {"none", "healthy", "rejected", "drift", "error", "timeout"}
    /\ calls \in 0..MaxCalls
    /\ meddling \in 0..MaxMeddling
    /\ ended \subseteq Phases \X BOOLEAN
    /\ drifted \in BOOLEAN /\ differed \in BOOLEAN

Init ==
    /\ app = [operation |-> None, phase |-> "none", opRev |-> None, denied |-> FALSE,
              syncRev |-> None, synced |-> FALSE, healthy |-> FALSE, errors |-> FALSE]
    /\ live = None
    /\ head \in Revision
    /\ pc = "idle"
    /\ want = [rev |-> None, for |-> "healthy"]
    /\ result = "none"
    /\ calls = 0 /\ meddling = 0
    /\ ended = {} /\ drifted = FALSE /\ differed = FALSE

-----------------------------------------------------------------------------
(* acceptance_argocd.evaluate: true, false, or an exception                *)

\* Mutant: an operation that is still requested is not looked at.
OwnIgnoringOperation(a, rev) == a.opRev = rev

\* The last operation is over and was for this revision.
Own(a, rev) == a.opRev = rev /\ a.operation = None

\* Mutant: any failure counts as the expected rejection.
RejectedAnyhow(a, rev) == Own(a, rev) /\ a.phase \in {"Failed", "Error"}

Rejected(a, rev) == Own(a, rev) /\ a.phase = "Failed" /\ a.denied

\* Mutant: out of sync with any commit.
DriftedAnyhow(a, rev) == ~a.errors /\ ~a.synced

Drifted(a, rev) == ~a.errors /\ a.syncRev = rev /\ ~a.synced

Healthy(a, rev) ==
    /\ ~a.errors
    /\ Own(a, rev) /\ a.phase = "Succeeded"
    /\ a.syncRev = rev /\ a.synced /\ a.healthy

\* Exceptions: a success where a rejection is expected, a failure elsewhere.
Raises(a, rev, for) ==
    Own(a, rev) /\ IF for = "rejected" THEN a.phase = "Succeeded"
                                       ELSE a.phase \in {"Failed", "Error"}

Holds(a, rev, for) ==
    CASE for = "rejected" -> Rejected(a, rev)
      [] for = "drift"    -> Drifted(a, rev)
      [] for = "healthy"  -> Healthy(a, rev)

-----------------------------------------------------------------------------
(* The harness                                                             *)

\* sync(): fetch the Application, which has to be idle, and manual: a policy of
\* somebody else's, like a fetch that fails, ends the call.
Sync(rev, for) ==
    /\ pc = "idle" /\ calls < MaxCalls
    /\ calls' = calls + 1
    /\ want' = [rev |-> rev, for |-> for]
    /\ \/ app.operation = None /\ pc' = "patch" /\ UNCHANGED result
       \/ pc' = "idle" /\ result' = "error"
    /\ UNCHANGED <<app, live, head, meddling, history>>

\* Mutant: the operation is patched in only if there was none before.
PatchOnce ==
    /\ pc = "patch"
    /\ pc' = "poll"
    /\ app' = IF app.opRev = want.rev THEN app ELSE [app EXCEPT !.operation = want.rev]
    /\ ended' = {} /\ drifted' = FALSE
    /\ UNCHANGED <<live, head, want, result, calls, meddling, differed>>

\* The merge patch replaces whatever operation is requested by then.
Patch ==
    /\ pc = "patch"
    /\ pc' = "poll"
    /\ app' = [app EXCEPT !.operation = want.rev]
    /\ ended' = {} /\ drifted' = FALSE
    /\ UNCHANGED <<live, head, want, result, calls, meddling, differed>>

\* After a healthy sync the harness itself changes the live Deployment and
\* waits for Argo to report it.
AwaitDrift ==
    /\ pc = "idle" /\ calls < MaxCalls
    /\ result = "healthy"
    /\ calls' = calls + 1
    /\ live' = "drifted"
    /\ pc' = "poll"
    /\ want' = [want EXCEPT !.for = "drift"]
    /\ UNCHANGED <<app, head, result, meddling, history>>

\* wait_application: fetch, evaluate, and only then look at the deadline.
Poll ==
    /\ pc = "poll"
    /\ pc' = "idle"
    /\ result' = IF Raises(app, want.rev, want.for) THEN "error"
                 ELSE IF Holds(app, want.rev, want.for) THEN want.for
                 ELSE "timeout"
    /\ differed' = (differed /\ result' # "healthy")
    /\ UNCHANGED <<app, live, head, want, calls, meddling, ended, drifted>>

-----------------------------------------------------------------------------
(* Argo CD and the others (external)                                       *)

\* The controller takes the requested operation up.
Begin ==
    /\ app.operation # None /\ app.phase # "Running"
    /\ app' = [app EXCEPT !.phase = "Running", !.opRev = app.operation, !.denied = FALSE]
    /\ UNCHANGED <<live, head, harness, meddling, history>>

\* ... and ends it.  The status and the removal of the request are one update.
Finish ==
    /\ app.phase = "Running"
    /\ \E phase \in {"Succeeded", "Failed", "Error"}, denied \in BOOLEAN :
          /\ phase = "Succeeded" => app.opRev \in Valid
          /\ denied => phase = "Failed" /\ app.opRev \notin Valid
          /\ app' = [app EXCEPT !.phase = phase, !.operation = None, !.denied = denied,
                                !.errors = @ \/ phase # "Succeeded"]
          /\ live' = IF phase = "Succeeded" THEN app.opRev ELSE live
          /\ ended' = IF app.opRev = want.rev THEN ended \cup {<<phase, denied>>} ELSE ended
    /\ UNCHANGED <<head, harness, meddling, drifted, differed>>

\* A refresh compares the cluster with the head of the branch.
Compare ==
    /\ \E healthy, errors \in BOOLEAN :
          app' = [app EXCEPT !.syncRev = head, !.synced = (live = head),
                             !.healthy = healthy, !.errors = errors]
    /\ differed' = (differed \/ (head = want.rev /\ live # head))
    /\ UNCHANGED <<live, head, harness, meddling, ended, drifted>>

\* GitFixture.commit: only the harness itself pushes, since the fixture serves the
\* branch read-only, so never while it waits.
Push(rev) ==
    /\ pc = "idle"
    /\ head' = rev
    /\ UNCHANGED <<app, live, harness, meddling, history>>

\* Somebody patches the live objects.
Drift ==
    /\ meddling < MaxMeddling
    /\ meddling' = meddling + 1
    /\ live' = "drifted"
    /\ drifted' = TRUE
    /\ UNCHANGED <<app, head, harness, ended, differed>>

\* Somebody else requests an operation.
OtherSync(rev) ==
    /\ meddling < MaxMeddling
    /\ meddling' = meddling + 1
    /\ app' = [app EXCEPT !.operation = rev]
    /\ UNCHANGED <<live, head, harness, history>>

Next ==
    \/ \E rev \in Revision, for \in {"healthy", "rejected"} : Sync(rev, for)
    \/ AwaitDrift \/ Patch \/ Poll \/ Begin \/ Finish \/ Compare \/ Drift
    \/ \E rev \in Revision : Push(rev) \/ OtherSync(rev)

Spec == Init /\ [][Next]_vars

-----------------------------------------------------------------------------
(* Properties                                                              *)

\* "Never accept stale success": a healthy answer means that an operation on
\* the wanted commit succeeded after this call's patch, and that the cluster
\* runs that commit unless somebody changed it by hand since.
HealthyIsOwn ==
    [][(pc = "poll" /\ result' = "healthy" /\ pc' = "idle") =>
         /\ <<"Succeeded", FALSE>> \in ended
         /\ live = want.rev \/ drifted]_vars

\* "... or mere timeout as negative-test proof": a rejection means that an
\* operation of this call failed on the Deployment itself.
RejectedIsExplicit ==
    [][(pc = "poll" /\ result' = "rejected" /\ pc' = "idle") =>
         <<"Failed", TRUE>> \in ended]_vars

\* A failure left by an earlier operation on the same commit is never blamed
\* on the new one.
FailureIsOwn ==
    [][(pc = "poll" /\ result' = "error" /\ pc' = "idle" /\ want.for # "drift") =>
         \E end \in ended : (end[1] = "Succeeded") <=> (want.for = "rejected")]_vars

\* Drift is only reported when Argo compared the wanted commit with a cluster
\* that did differ from it, not a pending promotion of another commit.
DriftIsReal ==
    [][(pc = "poll" /\ result' = "drift" /\ pc' = "idle") => differed]_vars
=============================================================================
