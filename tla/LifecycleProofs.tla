-------------------------- MODULE LifecycleProofs --------------------------
(***************************************************************************)
(* Any number of lifecycle runs and of writes by others.  The argument is  *)
(* about resource versions: a version a run has read names what it read,   *)
(* because every later write has a greater one.                            *)
(***************************************************************************)
EXTENDS ArgoLifecycle, TLAPS

\* No version is ahead of the counter.
Numbered ==
    /\ app # NoApp => app.rv <= writes
    /\ \A r \in Run : seen[r] # NoApp => seen[r].rv <= writes

\* The same version is the same Application.
Tied ==
    \A r \in Run :
        seen[r] # NoApp /\ app # NoApp /\ app.rv = seen[r].rv => app = seen[r]

\* What a run goes on with has passed its check.
Reviewed ==
    \A r \in Run :
        /\ pc[r] = "delete" => seen[r] # NoApp /\ Retirable(seen[r])
        /\ pc[r] \in {"project", "application"} => seen[r] = NoApp \/ Valid(seen[r])

\* An Application a run has deleted leaves its workloads when it goes.
Orphaning == app # NoApp /\ app.deletedBy = "run" => ~app.finalizer

Versions == TypeOK /\ Numbered /\ Tied
LInv == Versions /\ Reviewed /\ Orphaning /\ WorkloadsSurvive

\* A write changes nothing but what it says, and the version.
LEMMA PutFields ==
  ASSUME TypeOK, NEW a \in Application, Put(a)
  PROVE  /\ app' \in Application /\ app' # NoApp
         /\ writes' = writes + 1 /\ app'.rv = writes + 1
         /\ app'.uid = a.uid /\ app'.own = a.own /\ app'.automated = a.automated
         /\ app'.finalizer = a.finalizer /\ app'.operation = a.operation
         /\ app'.running = a.running /\ app'.deletedBy = a.deletedBy
<1>1. writes \in Nat /\ app' = [a EXCEPT !.rv = writes + 1] /\ writes' = writes + 1
  BY DEF TypeOK, Put
<1>2. app' \in Application
  BY <1>1 DEF Application
<1>3. app' # NoApp
  BY <1>2, LifecycleAssumption DEF LifecycleAssumption
<1> QED
  BY <1>1, <1>2, <1>3 DEF Application

\* A write has a version no run has read.
LEMMA PutVersions ==
  ASSUME Versions, NEW a \in Application, Put(a), UNCHANGED seen
  PROVE  Numbered' /\ Tied'
<1>1. app' \in Application /\ writes' = writes + 1 /\ app'.rv = writes + 1
  BY PutFields DEF Versions
<1>2. \A r \in Run : seen[r] # NoApp => seen[r].rv <= writes /\ seen[r].rv \in Nat
  BY DEF Versions, Numbered, TypeOK, Application
<1>3. writes \in Nat
  BY DEF Versions, TypeOK
<1> QED
  BY <1>1, <1>2, <1>3 DEF Numbered, Tied

\* The program moves a run and nothing else.
LEMMA GotoType ==
  ASSUME TypeOK, NEW r \in Run, NEW where \in Command, Goto(r, where)
  PROVE  /\ pc' \in [Run -> Command]
         /\ pc'[r] = where
         /\ \A q \in Run : q # r => pc'[q] = pc[q]
  BY DEF TypeOK, Goto

\* The invariant holds on a cluster without the Application.
LEMMA LifecycleInit == Init => LInv
<1> SUFFICES ASSUME Init PROVE LInv
  OBVIOUS
<1>1. TypeOK
  BY DEF Init, TypeOK, Command
<1>2. Numbered /\ Tied /\ Reviewed /\ Orphaning /\ WorkloadsSurvive
  BY DEF Init, Numbered, Tied, Reviewed, Orphaning, WorkloadsSurvive
<1> QED
  BY <1>1, <1>2 DEF LInv, Versions

\* A step that leaves the Application and what was read alone, and brings no run
\* to a command that needs a check, keeps the invariant.
LEMMA QuietStep ==
  ASSUME LInv, UNCHANGED <<seen, cluster>>,
         pc' \in [Run -> Command],
         secret' \in {"absent", "ours", "bound", "foreign"},
         \A r \in Run :
            /\ pc'[r] = "delete" => pc[r] = "delete"
            /\ pc'[r] \in {"project", "application"} => pc[r] \in {"project", "application"}
  PROVE  LInv'
<1>1. TypeOK'
  BY DEF LInv, Versions, TypeOK, cluster
<1>2. Numbered' /\ Tied'
  BY DEF LInv, Versions, Numbered, Tied, cluster
<1>3. Reviewed'
  BY DEF LInv, Reviewed, cluster
<1>4. Orphaning' /\ WorkloadsSurvive'
  BY DEF LInv, Orphaning, WorkloadsSurvive, cluster
<1> QED
  BY <1>1, <1>2, <1>3, <1>4 DEF LInv, Versions

\* A read decides on the present Application, whose version it remembers.
LEMMA ReadStep ==
  ASSUME LInv, NEW r \in Run, ReadOwner(r) \/ ReadRetired(r)
  PROVE  LInv'
<1>1. PICK where \in Command :
         /\ Goto(r, where)
         /\ where = "delete" => app # NoApp /\ Retirable(app)
         /\ where = "project" => app = NoApp \/ Valid(app)
         /\ where # "application"
  BY DEF ReadOwner, ReadRetired, Command
<1>2. seen' = [seen EXCEPT ![r] = app] /\ UNCHANGED <<cluster, secret>>
  BY DEF ReadOwner, ReadRetired
<1>3. TypeOK' /\ pc'[r] = where /\ \A q \in Run : q # r => pc'[q] = pc[q]
  BY <1>1, <1>2, GotoType DEF LInv, Versions, TypeOK, cluster
<1>4. seen'[r] = app /\ \A q \in Run : q # r => seen'[q] = seen[q]
  BY <1>2 DEF LInv, Versions, TypeOK
<1>5. Numbered' /\ Tied'
  BY <1>2, <1>4 DEF LInv, Versions, Numbered, Tied, cluster
<1>6. Reviewed'
  BY <1>1, <1>3, <1>4 DEF LInv, Reviewed
<1>7. Orphaning' /\ WorkloadsSurvive'
  BY <1>2 DEF LInv, Orphaning, WorkloadsSurvive, cluster
<1> QED
  BY <1>3, <1>5, <1>6, <1>7 DEF LInv, Versions

\* A write of an Application that keeps the workloads keeps the invariant.
LEMMA WriteStep ==
  ASSUME LInv, NEW a \in Application, Put(a),
         UNCHANGED <<seen, lost, secret>>, present' \in BOOLEAN,
         pc' \in [Run -> Command],
         \A r \in Run : pc'[r] \in {"delete", "project", "application"} => pc'[r] = pc[r],
         a.deletedBy = "run" => ~a.finalizer
  PROVE  LInv'
<1>1. app' \in Application /\ writes' = writes + 1
      /\ app'.deletedBy = a.deletedBy /\ app'.finalizer = a.finalizer
  BY PutFields DEF LInv, Versions
<1>2. TypeOK'
  BY <1>1 DEF LInv, Versions, TypeOK
<1>3. Numbered' /\ Tied'
  BY PutVersions DEF LInv
<1>4. Reviewed'
  BY DEF LInv, Reviewed
<1>5. Orphaning' /\ WorkloadsSurvive'
  BY <1>1 DEF LInv, Orphaning, WorkloadsSurvive
<1> QED
  BY <1>2, <1>3, <1>4, <1>5 DEF LInv, Versions

\* What a retirement finds with the version it read is what it reviewed.
LEMMA DeletesReviewed ==
  ASSUME LInv, NEW r \in Run, pc[r] = "delete", Preconditions(app, seen[r])
  PROVE  app \in Application /\ Retirable(app)
<1>1. app # NoApp /\ app.rv = seen[r].rv /\ seen[r] # NoApp /\ Retirable(seen[r])
  BY DEF LInv, Reviewed, Preconditions, Same
<1>2. app = seen[r]
  BY <1>1 DEF LInv, Versions, Tied
<1> QED
  BY <1>1, <1>2 DEF LInv, Versions, TypeOK

\* An Application made from nothing.
LEMMA CreatedType ==
  ASSUME TypeOK, NEW own \in BOOLEAN, NEW automated \in BOOLEAN, NEW finalizer \in BOOLEAN
  PROVE  Created(own, automated, finalizer) \in Application
         /\ Created(own, automated, finalizer).deletedBy = "nobody"
  BY DEF TypeOK, Created, Application

\* Each command of a run keeps the invariant.
LEMMA RunStep == ASSUME LInv, NEW r \in Run, Step(r) PROVE LInv'
<1> USE DEF Command
<1>t. TypeOK
  BY DEF LInv, Versions
<1>1. CASE \/ Start(r) \/ Fail(r) \/ InstallPlatform(r) \/ GetSecret(r) \/ CreateSecret(r)
           \/ ApplyOther(r) \/ Verify(r) \/ Qualify(r) \/ Wait(r) \/ Confirm(r)
  <2>1. PICK where \in Command :
           /\ Goto(r, where)
           /\ where # "delete"
           /\ where \in {"project", "application"} => pc[r] \in {"project", "application"}
    BY <1>1 DEF Start, Fail, InstallPlatform, GetSecret, CreateSecret, ApplyOther,
                Verify, Qualify, Wait, Confirm, Done
  <2>2. UNCHANGED <<seen, cluster>> /\ secret' \in {"absent", "ours", "bound", "foreign"}
    BY <1>1, <1>t DEF Start, Fail, InstallPlatform, GetSecret, CreateSecret, ApplyOther,
                Verify, Qualify, Wait, Confirm, TypeOK
  <2>3. /\ pc' \in [Run -> Command] /\ pc'[r] = where
        /\ \A q \in Run : q # r => pc'[q] = pc[q]
    BY <2>1, <1>t, GotoType
  <2> QED
    BY <2>1, <2>2, <2>3, QuietStep
<1>2. CASE ReadOwner(r) \/ ReadRetired(r)
  BY <1>2, ReadStep
<1>3. CASE ApplyApplication(r)
  <2>1. PICK where \in {"role", "failed"} : Goto(r, where)
    BY <1>3 DEF ApplyApplication, Done
  <2>2. /\ pc' \in [Run -> Command] /\ pc'[r] = where
        /\ \A q \in Run : q # r => pc'[q] = pc[q]
    BY <2>1, <1>t, GotoType
  <2>3. UNCHANGED <<seen, present, lost, secret>> /\ present' \in BOOLEAN
    BY <1>3, <1>t DEF ApplyApplication, TypeOK
  <2>4. CASE app = NoApp
    <3>1. Put(Created(TRUE, FALSE, FALSE))
      BY <1>3, <2>4 DEF ApplyApplication
    <3> QED
      BY <2>1, <2>2, <2>3, <3>1, <1>t, CreatedType, WriteStep
  <2>5. CASE app # NoApp
    <3>0. app.automated \in BOOLEAN /\ app.finalizer \in BOOLEAN /\ app.operation \in BOOLEAN
      BY <2>5, <1>t DEF TypeOK, Application
    <3>1. PICK policy \in {app.automated, FALSE}, finalizer \in {app.finalizer, FALSE},
               operation \in {app.operation, FALSE} :
            LET merged == [app EXCEPT !.own = TRUE, !.automated = policy,
                                      !.finalizer = finalizer, !.operation = operation]
            IN  Put(merged) \/ (merged = app /\ UNCHANGED <<app, writes>>)
      BY <1>3, <2>5 DEF ApplyApplication
    <3> DEFINE merged == [app EXCEPT !.own = TRUE, !.automated = policy,
                                     !.finalizer = finalizer, !.operation = operation]
    <3>2. merged \in Application /\ merged.deletedBy = app.deletedBy
          /\ merged.finalizer \in {app.finalizer, FALSE}
      BY <2>5, <1>t, <3>0 DEF TypeOK, Application
    <3>3. CASE UNCHANGED <<app, writes>>
      <4>1. UNCHANGED cluster
        BY <3>3, <2>3 DEF cluster
      <4> QED
        BY <4>1, <2>1, <2>2, <2>3, <1>t, QuietStep DEF TypeOK
    <3>4. CASE Put(merged)
      <4>1. merged.deletedBy = "run" => ~merged.finalizer
        BY <3>2, <2>5 DEF LInv, Orphaning
      <4> HIDE DEF merged
      <4> QED
        BY <3>4, <4>1, <3>2, <2>1, <2>2, <2>3, WriteStep
    <3> QED
      BY <3>1, <3>3, <3>4
  <2> QED
    BY <2>4, <2>5
<1>4. CASE Request(r)
  <2>1. PICK where \in {"verify", "failed"} : Goto(r, where)
    BY <1>4 DEF Request, Done
  <2>2. /\ pc' \in [Run -> Command] /\ pc'[r] = where
        /\ \A q \in Run : q # r => pc'[q] = pc[q]
    BY <2>1, <1>t, GotoType
  <2> DEFINE a == [app EXCEPT !.operation = TRUE]
  <2>3. app # NoApp /\ Put(a) /\ UNCHANGED <<seen, present, lost, secret>>
    BY <1>4 DEF Request
  <2>4. a \in Application /\ a.deletedBy = app.deletedBy /\ a.finalizer = app.finalizer
    BY <2>3, <1>t DEF TypeOK, Application
  <2>5. (a.deletedBy = "run" => ~a.finalizer) /\ present' \in BOOLEAN
    BY <2>3, <2>4, <1>t DEF LInv, Orphaning, TypeOK
  <2> HIDE DEF a
  <2> QED
    BY <2>1, <2>2, <2>3, <2>4, <2>5, WriteStep
<1>5. CASE Delete(r)
  <2>1. PICK where \in {"wait", "failed"} : Goto(r, where)
    BY <1>5 DEF Delete, Done
  <2>2. /\ pc' \in [Run -> Command] /\ pc'[r] = where
        /\ \A q \in Run : q # r => pc'[q] = pc[q]
    BY <2>1, <1>t, GotoType
  <2>3. UNCHANGED <<seen, present, lost, secret>> /\ present' \in BOOLEAN
    BY <1>5, <1>t DEF Delete, TypeOK
  <2>4. CASE Preconditions(app, seen[r])
    <3> DEFINE a == [app EXCEPT !.deletedBy = "run"]
    <3>1. app \in Application /\ ~app.finalizer
      BY <1>5, <2>4, DeletesReviewed DEF Delete, Retirable
    <3>2. a \in Application /\ ~a.finalizer
      BY <3>1 DEF Application
    <3>3. Put(a)
      BY <1>5, <2>4 DEF Delete
    <3> HIDE DEF a
    <3> QED
      BY <3>2, <3>3, <2>1, <2>2, <2>3, WriteStep
  <2>5. CASE ~Preconditions(app, seen[r])
    <3>1. UNCHANGED cluster
      BY <1>5, <2>5, <2>3 DEF Delete, cluster
    <3> QED
      BY <3>1, <2>1, <2>2, <2>3, <1>t, QuietStep DEF TypeOK
  <2> QED
    BY <2>4, <2>5
<1> QED
  BY <1>1, <1>2, <1>3, <1>4, <1>5 DEF Step

\* Argo CD, the API server and the others keep it too: an Application going away
\* takes its workloads along only if somebody else deleted it.
LEMMA EnvironmentStep == ASSUME LInv, Environment PROVE LInv'
<1>t. TypeOK
  BY DEF LInv, Versions
<1>1. CASE Begin \/ Finish \/ OthersUpdate \/ OthersDelete
  <2>1. app \in Application /\ UNCHANGED <<pc, seen, lost, secret>> /\ present' \in BOOLEAN
    BY <1>1, <1>t DEF Begin, Finish, OthersUpdate, OthersDelete, TypeOK
  <2>2. PICK a \in Application : Put(a) /\ (a.deletedBy = "run" => ~a.finalizer)
    <3>1. CASE Begin
      <4> DEFINE a == [app EXCEPT !.running = TRUE]
      <4>1. Put(a) /\ app.deletedBy = "nobody"
        BY <3>1 DEF Begin
      <4>2. a \in Application /\ a.deletedBy = app.deletedBy
        BY <2>1 DEF Application
      <4> QED
        BY <4>1, <4>2
    <3>2. CASE Finish
      <4> DEFINE a == [app EXCEPT !.running = FALSE, !.operation = FALSE]
      <4>1. Put(a) /\ app # NoApp
        BY <3>2 DEF Finish
      <4>2. a \in Application /\ a.deletedBy = app.deletedBy /\ a.finalizer = app.finalizer
        BY <2>1 DEF Application
      <4> QED
        BY <4>1, <4>2 DEF LInv, Orphaning
    <3>3. CASE OthersUpdate
      <4>1. PICK own \in BOOLEAN, automated \in BOOLEAN, finalizer \in BOOLEAN, operation \in BOOLEAN :
              /\ finalizer => app.finalizer \/ app.deletedBy = "nobody"
              /\ Put([app EXCEPT !.own = own, !.automated = automated,
                                 !.finalizer = finalizer, !.operation = operation])
        BY <3>3 DEF OthersUpdate
      <4> DEFINE a == [app EXCEPT !.own = own, !.automated = automated,
                                  !.finalizer = finalizer, !.operation = operation]
      <4>2. a \in Application /\ a.deletedBy = app.deletedBy /\ a.finalizer = finalizer
        BY <2>1 DEF Application
      <4>3. a.deletedBy = "run" => ~a.finalizer
        BY <3>3, <4>1, <4>2 DEF OthersUpdate, LInv, Orphaning
      <4> QED
        BY <4>1, <4>2, <4>3
    <3>4. CASE OthersDelete
      <4> DEFINE a == [app EXCEPT !.deletedBy = "others"]
      <4>1. Put(a)
        BY <3>4 DEF OthersDelete
      <4>2. a \in Application /\ a.deletedBy = "others"
        BY <2>1 DEF Application
      <4> QED
        BY <4>1, <4>2
    <3> QED
      BY <1>1, <3>1, <3>2, <3>3, <3>4
  <2>3. pc' \in [Run -> Command]
    BY <2>1, <1>t DEF TypeOK
  <2> QED
    BY <2>1, <2>2, <2>3, WriteStep
<1>2. CASE OthersCreate
  <2>1. PICK own \in BOOLEAN, automated \in BOOLEAN, finalizer \in BOOLEAN :
          Put(Created(own, automated, finalizer))
    BY <1>2 DEF OthersCreate
  <2>2. UNCHANGED <<pc, seen, lost, secret>> /\ present' \in BOOLEAN
        /\ pc' \in [Run -> Command]
    BY <1>2, <1>t DEF OthersCreate, TypeOK
  <2> QED
    BY <2>1, <2>2, <1>t, CreatedType, WriteStep
<1>3. CASE OthersSecret
  BY <1>3, <1>t, QuietStep DEF OthersSecret, TypeOK
<1>4. CASE Collect
  <2>1. lost' # "run" /\ lost' \in {"nobody", "run", "others"} /\ present' \in BOOLEAN
    BY <1>4, <1>t DEF Collect, LInv, Orphaning, WorkloadsSurvive, TypeOK, Application
  <2>2. app' = NoApp /\ UNCHANGED <<pc, seen, writes, secret>>
    BY <1>4 DEF Collect
  <2>3. TypeOK'
    BY <2>1, <2>2, <1>t DEF TypeOK
  <2>4. Numbered' /\ Tied' /\ Reviewed' /\ Orphaning' /\ WorkloadsSurvive'
    BY <2>1, <2>2 DEF LInv, Versions, Numbered, Tied, Reviewed, Orphaning, WorkloadsSurvive
  <2> QED
    BY <2>3, <2>4 DEF LInv, Versions
<1> QED
  BY <1>1, <1>2, <1>3, <1>4 DEF Environment

\* Every step keeps the invariant.
LEMMA LifecycleStep == LInv /\ [Next]_vars => LInv'
<1>1. ASSUME LInv, UNCHANGED vars PROVE LInv'
  BY <1>1, QuietStep DEF vars, LInv, Versions, TypeOK
<1> QED
  BY <1>1, RunStep, EnvironmentStep DEF Next

\* A version a run has read names what it read, and what a run goes on with has
\* passed its check, however many runs and writers there are.
THEOREM LifecycleInductive == Spec => []LInv
  BY LifecycleInit, LifecycleStep, PTL DEF Spec

\* Every variable keeps its type, for any number of runs and writes.
THEOREM LifecycleTypes == Spec => []TypeOK
  BY LifecycleInductive, PTL DEF LInv, Versions

\* No retirement takes workloads along.
THEOREM WorkloadsAreKept == Spec => []WorkloadsSurvive
<1>1. LInv => WorkloadsSurvive
  BY DEF LInv
<1> QED
  BY <1>1, LifecycleInductive, PTL

\* A retirement deletes what it reviewed: a write since the read has another version.
THEOREM RetiresWhatWasReviewed == Spec => RetireIsReviewed
<1> DEFINE IsReviewed ==
      app # NoApp /\ app' # NoApp /\ app.deletedBy # "run" /\ app'.deletedBy = "run"
        => Retirable(app)
<1>1. LInv /\ [Next]_vars => IsReviewed
  <2> SUFFICES ASSUME LInv, [Next]_vars, app # NoApp, app' # NoApp,
                      app.deletedBy # "run", app'.deletedBy = "run"
               PROVE  Retirable(app)
    OBVIOUS
  <2>t. TypeOK /\ app \in Application
    BY DEF LInv, Versions, TypeOK
  <2>1. app' # app
    OBVIOUS
  <2>2. ASSUME NEW a \in Application, Put(a) PROVE a.deletedBy = "run"
    BY <2>2, <2>t, PutFields
  <2>3. ~Environment
    <3>1. ~(Collect \/ OthersCreate \/ OthersSecret)
      BY <2>1 DEF Collect, OthersCreate, OthersSecret, cluster
    <3>2. ~Begin
      <4> SUFFICES ASSUME Begin PROVE FALSE
        OBVIOUS
      <4> DEFINE a == [app EXCEPT !.running = TRUE]
      <4>1. a \in Application /\ a.deletedBy = app.deletedBy
        BY <2>t DEF Application
      <4>2. Put(a)
        BY DEF Begin
      <4> QED
        BY <4>1, <4>2, <2>2
    <3>3. ~Finish
      <4> SUFFICES ASSUME Finish PROVE FALSE
        OBVIOUS
      <4> DEFINE a == [app EXCEPT !.running = FALSE, !.operation = FALSE]
      <4>1. a \in Application /\ a.deletedBy = app.deletedBy
        BY <2>t DEF Application
      <4>2. Put(a)
        BY DEF Finish
      <4> QED
        BY <4>1, <4>2, <2>2
    <3>4. ~OthersDelete
      <4> SUFFICES ASSUME OthersDelete PROVE FALSE
        OBVIOUS
      <4> DEFINE a == [app EXCEPT !.deletedBy = "others"]
      <4>1. a \in Application /\ a.deletedBy = "others"
        BY <2>t DEF Application
      <4>2. Put(a)
        BY DEF OthersDelete
      <4> QED
        BY <4>1, <4>2, <2>2
    <3>5. ~OthersUpdate
      <4> SUFFICES ASSUME NEW own \in BOOLEAN, NEW automated \in BOOLEAN,
                          NEW finalizer \in BOOLEAN, NEW operation \in BOOLEAN,
                          Put([app EXCEPT !.own = own, !.automated = automated,
                                          !.finalizer = finalizer, !.operation = operation])
                   PROVE  FALSE
        BY DEF OthersUpdate
      <4> DEFINE a == [app EXCEPT !.own = own, !.automated = automated,
                                  !.finalizer = finalizer, !.operation = operation]
      <4>1. a \in Application /\ a.deletedBy = app.deletedBy
        BY <2>t DEF Application
      <4> QED
        BY <4>1, <2>2
    <3> QED
      BY <3>1, <3>2, <3>3, <3>4, <3>5 DEF Environment
  <2>4. PICK r \in Run : Step(r)
    BY <2>1, <2>3 DEF Next, vars, cluster
  <2>5. ~Request(r)
    <3> SUFFICES ASSUME Request(r) PROVE FALSE
      OBVIOUS
    <3> DEFINE a == [app EXCEPT !.operation = TRUE]
    <3>1. a \in Application /\ a.deletedBy = app.deletedBy
      BY <2>t DEF Application
    <3>2. Put(a)
      BY DEF Request
    <3> QED
      BY <3>1, <3>2, <2>2
  <2>6. ~ApplyApplication(r)
    <3> SUFFICES ASSUME NEW policy \in BOOLEAN, NEW finalizer \in BOOLEAN,
                        NEW operation \in BOOLEAN,
                        Put([app EXCEPT !.own = TRUE, !.automated = policy,
                                        !.finalizer = finalizer, !.operation = operation])
                 PROVE  FALSE
      BY <2>1, <2>t DEF ApplyApplication, Application
    <3> DEFINE a == [app EXCEPT !.own = TRUE, !.automated = policy,
                                !.finalizer = finalizer, !.operation = operation]
    <3>1. a \in Application /\ a.deletedBy = app.deletedBy
      BY <2>t DEF Application
    <3> QED
      BY <3>1, <2>2
  <2>7. Delete(r)
    BY <2>1, <2>4, <2>5, <2>6
    DEF Step, Start, Fail, InstallPlatform, GetSecret, CreateSecret, ReadOwner, ApplyOther,
        Verify, Qualify, ReadRetired, Wait, Confirm, cluster
  <2>8. Preconditions(app, seen[r]) /\ pc[r] = "delete"
    BY <2>1, <2>7 DEF Delete
  <2> QED
    BY <2>8, DeletesReviewed
<1> HIDE DEF IsReviewed
<1>2. Spec => [][IsReviewed]_vars
  BY <1>1, LifecycleInductive, PTL DEF Spec
<1> QED
  BY <1>2 DEF RetireIsReviewed, IsReviewed

\* create, unlike apply, does not replace a credential that appeared since the get.
THEOREM KeepsCredential == Spec => CredentialKept
<1> DEFINE Kept == secret \in {"bound", "foreign"} => secret' # "ours"
<1>1. [Next]_vars => Kept
  BY DEF Next, Step, Environment, Start, Fail, InstallPlatform, GetSecret, CreateSecret,
         ReadOwner, ApplyOther, ApplyApplication, Request, Verify, Qualify, ReadRetired,
         Delete, Wait, Confirm, Begin, Finish, Collect, OthersCreate, OthersUpdate,
         OthersDelete, OthersSecret, vars
<1> HIDE DEF Kept
<1>2. Spec => [][Kept]_vars
  BY <1>1, PTL DEF Spec
<1> QED
  BY <1>2 DEF CredentialKept, Kept

\* What bootstrap checked of an Application it does not then change: if it takes
\* one over or changes its policy, that is not the one it checked.
THEOREM TakesOverOnlyUnseen == Spec => TakeoverOnlyUnseen
<1> DEFINE Unseen ==
      \A r \in Run :
        /\ pc[r] = "application" /\ pc'[r] # pc[r] /\ app # NoApp /\ app' # NoApp
        /\ app'.own # app.own \/ app'.automated # app.automated
        => seen[r] = NoApp \/ seen[r].rv # app.rv
<1>1. LInv /\ [Next]_vars => Unseen
  <2> SUFFICES ASSUME LInv, [Next]_vars, NEW r \in Run,
                      pc[r] = "application", pc'[r] # pc[r], app # NoApp, app' # NoApp,
                      app'.own # app.own \/ app'.automated # app.automated,
                      seen[r] # NoApp, seen[r].rv = app.rv
               PROVE  FALSE
    OBVIOUS
  <2>t. TypeOK /\ app \in Application
    BY DEF LInv, Versions, TypeOK
  <2>1. app = seen[r] /\ Valid(app)
    BY DEF LInv, Versions, Tied, Reviewed
  <2>2. PICK q \in Run : Step(q)
    BY DEF Next, Environment, Begin, Finish, Collect, OthersCreate, OthersUpdate,
           OthersDelete, OthersSecret, vars
  <2>3. pc' = [pc EXCEPT ![q] = pc'[q]]
    BY <2>2, <2>t
    DEF Step, Start, Fail, InstallPlatform, GetSecret, CreateSecret, ReadOwner, ApplyOther,
        ApplyApplication, Request, Verify, Qualify, ReadRetired, Delete, Wait, Confirm,
        Goto, Done, TypeOK
  <2>4. q = r
    BY <2>3, <2>t DEF TypeOK
  <2>5. app' # app
    OBVIOUS
  <2>6. ApplyApplication(r)
    BY <2>2, <2>4, <2>5
    DEF Step, Start, Fail, InstallPlatform, GetSecret, CreateSecret, ReadOwner, ApplyOther,
        Request, Verify, Qualify, ReadRetired, Delete, Wait, Confirm, cluster
  <2>7. PICK policy \in {app.automated, FALSE}, finalizer \in {app.finalizer, FALSE},
             operation \in {app.operation, FALSE} :
          Put([app EXCEPT !.own = TRUE, !.automated = policy,
                          !.finalizer = finalizer, !.operation = operation])
    BY <2>5, <2>6 DEF ApplyApplication
  <2> DEFINE merged == [app EXCEPT !.own = TRUE, !.automated = policy,
                                   !.finalizer = finalizer, !.operation = operation]
  <2>8. merged \in Application /\ merged.own = TRUE /\ merged.automated = policy
    BY <2>7, <2>t DEF Application
  <2>9. app'.own = TRUE /\ app'.automated = policy
    <3>1. Put(merged)
      BY <2>7
    <3> HIDE DEF merged
    <3> QED
      BY <3>1, <2>8, <2>t, PutFields
  <2> QED
    BY <2>1, <2>7, <2>9, <2>t DEF Valid, Application
<1> HIDE DEF Unseen
<1>2. Spec => [][Unseen]_vars
  BY <1>1, LifecycleInductive, PTL DEF Spec
<1> QED
  BY <1>2 DEF TakeoverOnlyUnseen, Unseen
=============================================================================
