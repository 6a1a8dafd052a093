--------------------------- MODULE ArgoSyncProofs ---------------------------
(***************************************************************************)
(* What the harness concludes about an Application is right for any        *)
(* commits, calls and interventions.  After a call's patch an operation is *)
(* requested; nothing but the end of an operation takes the request away,  *)
(* so a status without one tells how an operation ended after the patch.   *)
(***************************************************************************)
EXTENDS ArgoSync, TLAPS

\* A call that patched is for a commit; only the wait for drift follows a success.
Called ==
    /\ pc # "idle" \/ result # "none" => want.rev \in Revision
    /\ pc = "patch" => want.for # "drift"

\* No request any more: the operation in the status ended after the patch, and
\* if it succeeded the cluster has been left at its commit.
Settled ==
    pc = "poll" /\ want.for # "drift" /\ app.operation = None =>
        /\ app.phase \in {"Succeeded", "Failed", "Error"}
        /\ app.phase = "Succeeded" => ~app.denied /\ (live = app.opRev \/ drifted)
        /\ app.opRev = want.rev => <<app.phase, app.denied>> \in ended

\* From a healthy result on, a comparison with the wanted commit that finds a
\* difference is remembered.
Compared ==
    /\ (pc = "idle" /\ result = "healthy") \/ (pc = "poll" /\ want.for = "drift")
    /\ app.syncRev = want.rev /\ ~app.synced
    => differed

SInv == TypeOK /\ Called /\ Settled /\ Compared

\* The invariant holds before the first call.
LEMMA SyncInit == Init => SInv
  <1> SUFFICES ASSUME Init PROVE SInv OBVIOUS
  <1>1. TypeOK
    <2>1. calls \in 0..MaxCalls /\ meddling \in 0..MaxMeddling BY ArgoAssumption DEF Init
    <2>2. want \in [rev : NoRev, for : Expectation] BY DEF Init, NoRev, Expectation
    <2>3. app \in [operation : NoRev, phase : {"none"} \cup Phases, opRev : NoRev, denied : BOOLEAN,
                  syncRev : NoRev, synced : BOOLEAN, healthy : BOOLEAN, errors : BOOLEAN]
      BY DEF Init, NoRev
    <2>4. QED BY <2>1, <2>2, <2>3 DEF Init, TypeOK, NoRev
  <1>2. Called /\ Settled /\ Compared BY DEF Init, Called, Settled, Compared
  <1>3. QED BY <1>1, <1>2 DEF SInv

\* The harness's own steps keep the types.
LEMMA HarnessTypes ==
    ASSUME TypeOK,
           \/ \E rev \in Revision, for \in {"healthy", "rejected"} : Sync(rev, for)
           \/ AwaitDrift \/ Patch \/ Poll,
           Called
    PROVE  TypeOK'
  <1> USE ArgoAssumption DEF TypeOK, NoRev, Expectation, Phases, history, harness
  <1>1. CASE \E rev \in Revision, for \in {"healthy", "rejected"} : Sync(rev, for)
    <2>1. PICK rev \in Revision, for \in {"healthy", "rejected"} : Sync(rev, for) BY <1>1
    <2>2. want' \in [rev : NoRev, for : Expectation] BY <2>1 DEF Sync
    <2>3. QED BY <2>1, <2>2 DEF Sync
  <1>2. CASE AwaitDrift BY <1>2 DEF AwaitDrift
  <1>3. CASE Patch      BY <1>3 DEF Patch, Called
  <1>4. CASE Poll       BY <1>4 DEF Poll
  <1>5. QED BY <1>1, <1>2, <1>3, <1>4

\* So do those of Argo CD and of the others.
LEMMA OtherTypes ==
    ASSUME TypeOK, Begin \/ Finish \/ Compare \/ Drift \/ \E rev \in Revision : Push(rev) \/ OtherSync(rev)
    PROVE  TypeOK'
  <1> USE ArgoAssumption DEF TypeOK, NoRev, Expectation, Phases, history, harness
  <1>1. CASE Begin BY <1>1 DEF Begin
  <1>2. CASE Finish
    <2>1. PICK phase \in {"Succeeded", "Failed", "Error"}, denied \in BOOLEAN :
             /\ app' = [app EXCEPT !.phase = phase, !.operation = None, !.denied = denied,
                                   !.errors = @ \/ phase # "Succeeded"]
             /\ live' = IF phase = "Succeeded" THEN app.opRev ELSE live
             /\ ended' = IF app.opRev = want.rev THEN ended \cup {<<phase, denied>>} ELSE ended
      BY <1>2 DEF Finish
    <2>2. app' \in [operation : NoRev, phase : {"none"} \cup Phases, opRev : NoRev, denied : BOOLEAN,
                   syncRev : NoRev, synced : BOOLEAN, healthy : BOOLEAN, errors : BOOLEAN]
      BY <2>1
    <2>3. live' \in NoRev \cup {"drifted"} BY <2>1
    <2>4. ended' \subseteq Phases \X BOOLEAN BY <2>1
    <2>5. QED BY <1>2, <2>2, <2>3, <2>4 DEF Finish
  <1>3. CASE Compare
    <2>1. PICK healthy \in BOOLEAN, errors \in BOOLEAN :
             app' = [app EXCEPT !.syncRev = head, !.synced = (live = head),
                                !.healthy = healthy, !.errors = errors]
      BY <1>3 DEF Compare
    <2>2. (live = head) \in BOOLEAN /\ head \in NoRev OBVIOUS
    <2>3. app' \in [operation : NoRev, phase : {"none"} \cup Phases, opRev : NoRev, denied : BOOLEAN,
                   syncRev : NoRev, synced : BOOLEAN, healthy : BOOLEAN, errors : BOOLEAN]
      BY <2>1, <2>2
    <2>4. QED BY <1>3, <2>3 DEF Compare
  <1>4. CASE Drift BY <1>4 DEF Drift
  <1>5. CASE \E rev \in Revision : Push(rev) BY <1>5 DEF Push
  <1>6. CASE \E rev \in Revision : OtherSync(rev) BY <1>6 DEF OtherSync
  <1>7. QED BY <1>1, <1>2, <1>3, <1>4, <1>5, <1>6

\* Every step keeps what is known of the call.
LEMMA CallKept ==
    ASSUME SInv, [Next]_vars PROVE Called' /\ Settled' /\ Compared'
  <1> USE ArgoAssumption DEF SInv, TypeOK, Called, Settled, Compared, NoRev, Expectation, Phases,
                             history, harness
  <1>1. CASE \E rev \in Revision, for \in {"healthy", "rejected"} : Sync(rev, for)
    <2>1. PICK rev \in Revision, for \in {"healthy", "rejected"} : Sync(rev, for) BY <1>1
    <2>2. pc' = "patch" \/ (pc' = "idle" /\ result' = "error") BY <2>1 DEF Sync
    <2>3. Called' BY <2>1, <2>2 DEF Sync
    <2>4. QED BY <2>2, <2>3
  <1>2. CASE AwaitDrift BY <1>2 DEF AwaitDrift
  <1>3. CASE Patch      BY <1>3 DEF Patch
  <1>4. CASE Poll       BY <1>4 DEF Poll, Holds, Healthy
  <1>5. CASE Begin      BY <1>5 DEF Begin
  <1>6. CASE Finish
    <2>1. PICK phase \in {"Succeeded", "Failed", "Error"}, denied \in BOOLEAN :
             /\ phase = "Succeeded" => app.opRev \in Valid
             /\ denied => phase = "Failed" /\ app.opRev \notin Valid
             /\ app' = [app EXCEPT !.phase = phase, !.operation = None, !.denied = denied,
                                   !.errors = @ \/ phase # "Succeeded"]
             /\ live' = IF phase = "Succeeded" THEN app.opRev ELSE live
             /\ ended' = IF app.opRev = want.rev THEN ended \cup {<<phase, denied>>} ELSE ended
      BY <1>6 DEF Finish
    <2>2. /\ app'.phase = phase /\ app'.denied = denied /\ app'.opRev = app.opRev
          /\ app'.syncRev = app.syncRev /\ app'.synced = app.synced
      BY <2>1
    <2>3. UNCHANGED <<pc, want, result, drifted, differed>> BY <1>6 DEF Finish
    <2>4. Called' /\ Compared' BY <2>2, <2>3
    <2>5. Settled' BY <2>1, <2>2, <2>3
    <2>6. QED BY <2>4, <2>5
  <1>7. CASE Compare
    <2>1. /\ app'.operation = app.operation /\ app'.phase = app.phase
          /\ app'.opRev = app.opRev /\ app'.denied = app.denied
          /\ app'.syncRev = head /\ app'.synced = (live = head)
      BY <1>7 DEF Compare
    <2>2. /\ differed' = (differed \/ (head = want.rev /\ live # head))
          /\ UNCHANGED <<pc, want, result, live, ended, drifted>>
      BY <1>7 DEF Compare
    <2>3. Called' /\ Settled' BY <2>1, <2>2
    <2>4. Compared' BY <2>1, <2>2
    <2>5. QED BY <2>3, <2>4
  <1>8. CASE Drift      BY <1>8 DEF Drift
  <1>9. CASE \E rev \in Revision : Push(rev) BY <1>9 DEF Push
  <1>10. CASE \E rev \in Revision : OtherSync(rev) BY <1>10 DEF OtherSync
  <1>11. CASE UNCHANGED vars BY <1>11 DEF vars
  <1>12. QED BY <1>1, <1>2, <1>3, <1>4, <1>5, <1>6, <1>7, <1>8, <1>9, <1>10, <1>11 DEF Next

\* Every step keeps the invariant.
LEMMA SyncNext == SInv /\ [Next]_vars => SInv'
  <1> SUFFICES ASSUME SInv, [Next]_vars PROVE SInv' OBVIOUS
  <1>1. CASE UNCHANGED vars BY <1>1, CallKept DEF SInv, TypeOK, vars, history, harness
  <1>2. CASE Next BY <1>2, HarnessTypes, OtherTypes, CallKept DEF SInv, Next
  <1>3. QED BY <1>1, <1>2

\* The invariant always holds.
LEMMA SyncInvariance == Spec => []SInv
  BY SyncInit, SyncNext, PTL DEF Spec

\* Every variable keeps its type, for any commits, calls and interventions.
THEOREM SyncTypes == Spec => []TypeOK
  BY SyncInvariance, PTL DEF SInv

\* A call that ends by an exception, a rejection or a healthy answer is a Poll
\* or, when the Application was busy, a Sync.
LEMMA OnlyPoll ==
    ASSUME TypeOK, [Next]_vars, pc = "poll", pc' = "idle" PROVE Poll
  BY DEF Next, vars, harness, Sync, AwaitDrift, Patch, Begin, Finish, Compare, Drift, Push, OtherSync

\* A healthy answer speaks of an operation that succeeded after the patch, and
\* of a cluster at that commit unless it was changed by hand.
THEOREM HealthyAnswersAreOwn == Spec => HealthyIsOwn
  <1>1. ASSUME SInv, [Next]_vars, pc = "poll", result' = "healthy", pc' = "idle"
        PROVE <<"Succeeded", FALSE>> \in ended /\ (live = want.rev \/ drifted)
    <2>1. Poll BY <1>1, OnlyPoll DEF SInv
    <2>2. want.for = "healthy" /\ Healthy(app, want.rev)
      BY <1>1, <2>1 DEF Poll, Holds, SInv, TypeOK, Expectation
    <2>3. app.denied = FALSE BY <1>1, <2>2 DEF SInv, TypeOK, Settled, Healthy, Own
    <2>4. QED BY <1>1, <2>2, <2>3 DEF SInv, Settled, Healthy, Own
  <1>2. QED BY <1>1, SyncInvariance, PTL DEF Spec, HealthyIsOwn

\* A rejection speaks of an operation of this call that failed on the Deployment.
THEOREM RejectionsAreExplicit == Spec => RejectedIsExplicit
  <1>1. ASSUME SInv, [Next]_vars, pc = "poll", result' = "rejected", pc' = "idle"
        PROVE <<"Failed", TRUE>> \in ended
    <2>1. Poll BY <1>1, OnlyPoll DEF SInv
    <2>2. want.for = "rejected" /\ Rejected(app, want.rev)
      BY <1>1, <2>1 DEF Poll, Holds, SInv, TypeOK, Expectation
    <2>3. app.denied = TRUE BY <1>1, <2>2 DEF SInv, TypeOK, Rejected
    <2>4. QED BY <1>1, <2>2, <2>3 DEF SInv, Settled, Rejected, Own
  <1>2. QED BY <1>1, SyncInvariance, PTL DEF Spec, RejectedIsExplicit

\* A failure raised for a sync is how an operation of this call ended.
THEOREM FailuresAreOwn == Spec => FailureIsOwn
  <1>1. ASSUME SInv, [Next]_vars, pc = "poll", result' = "error", pc' = "idle", want.for # "drift"
        PROVE \E end \in ended : (end[1] = "Succeeded") <=> (want.for = "rejected")
    <2>1. Poll BY <1>1, OnlyPoll DEF SInv
    <2>2. Raises(app, want.rev, want.for)
      BY <1>1, <2>1 DEF Poll, SInv, TypeOK, Expectation
    <2>3. <<app.phase, app.denied>> \in ended BY <1>1, <2>2 DEF SInv, Settled, Raises, Own
    <2>4. (app.phase = "Succeeded") <=> (want.for = "rejected")
      BY <1>1, <2>2 DEF Raises
    <2>5. <<app.phase, app.denied>>[1] = app.phase OBVIOUS
    <2>6. QED BY <2>3, <2>4, <2>5
  <1>2. QED BY <1>1, SyncInvariance, PTL DEF Spec, FailureIsOwn

\* Drift is reported only if Argo compared the wanted commit with a cluster that
\* differed from it.
THEOREM DriftsAreReal == Spec => DriftIsReal
  <1>1. ASSUME SInv, [Next]_vars, pc = "poll", result' = "drift", pc' = "idle"
        PROVE differed
    <2>1. Poll BY <1>1, OnlyPoll DEF SInv
    <2>2. want.for = "drift" /\ Drifted(app, want.rev)
      BY <1>1, <2>1 DEF Poll, Holds, SInv, TypeOK, Expectation
    <2>3. QED BY <1>1, <2>2 DEF SInv, Compared, Drifted
  <1>2. QED BY <1>1, SyncInvariance, PTL DEF Spec, DriftIsReal
=============================================================================
