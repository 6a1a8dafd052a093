--------------------------- MODULE WorkloadProofs ---------------------------
(***************************************************************************)
(* A qualification that passes speaks for every pod of the Deployment from *)
(* its first read to its last.  The argument starts from the status: when  *)
(* the controller has observed the generation and counts all pods updated, *)
(* no other template can get a pod until the generation changes.           *)
(***************************************************************************)
EXTENDS WorkloadQualification, TLAPS

InRun == {"sets", "pods", "statuses", "probe", "recheck"}

\* Only the Deployment's own template has pods or can get one.
One ==
    /\ scaled = {dep.template}
    /\ \A p \in Pod : Serving(p) => pods[p].template = dep.template

\* The status is never ahead, and is true of its generation.
Settled ==
    /\ status.observed <= dep.gen
    /\ status.observed = dep.gen /\ status.complete => One

\* A changed Deployment is a later one.
Later(d, e) == d.uid > e.uid \/ (d.uid = e.uid /\ d.gen > e.gen)

Tracks ==
    pc \in InRun => IF changed THEN Later(dep, seen.dep) ELSE dep = seen.dep

\* What was complete when it was read stays so until a change.
Steady ==
    pc \in InRun /\ ~changed /\ FullyObserved(seen.status, seen.dep)
    => One /\ (strayed => dep.template # Wanted)

\* The pods picked belong to the rollout that was read.
Chosen ==
    pc \in {"statuses", "probe", "recheck"} =>
        \A p \in picked :
            /\ pods[p].phase # "absent"
            /\ ~changed /\ FullyObserved(seen.status, seen.dep)
               /\ pods[p].phase \in {"live", "terminating"}
               => pods[p].template = dep.template

\* What the steps taken so far have established.
Judged ==
    /\ pc \in {"probe", "recheck"} => FullyObserved(seen.status, seen.dep)
    /\ pc = "recheck" /\ ~changed => dep.template = Wanted

QInv == TypeOK /\ Settled /\ Tracks /\ Steady /\ Chosen /\ Judged

\* The invariant holds when the Deployment has just been created.
LEMMA QualificationInit == Init => QInv
<1> SUFFICES ASSUME Init PROVE QInv
  OBVIOUS
<1>1. TypeOK
  <2>1. dep \in Deployment /\ status \in Status /\ seen \in [dep : Deployment, status : Status]
    BY DEF Init, Deployment, Status
  <2>2. pods \in [Pod -> [phase : {"absent", "live", "terminating", "gone"},
                         owner : Nat, template : Template, ready : BOOLEAN]]
    BY QualificationAssumption DEF QualificationAssumption, Init, Nothing
  <2> QED
    BY <2>1, <2>2 DEF Init, TypeOK
<1>2. Settled /\ Tracks /\ Steady /\ Chosen /\ Judged
  BY DEF Init, Settled, Tracks, Steady, Chosen, Judged, InRun
<1> QED
  BY <1>1, <1>2 DEF QInv

\* The run reads and decides, and leaves the cluster alone.
LEMMA RunStep == QInv /\ Qualify => QInv'
<1> SUFFICES ASSUME QInv, Qualify PROVE QInv'
  OBVIOUS
<1>c. UNCHANGED cluster
  BY DEF Qualify, ReadDeployment, ReadSets, ReadPods, ReadStatuses, Recheck, Fail, Probe
<1>t. TypeOK'
  <2>1. CASE ReadDeployment
    <3>1. seen' \in [dep : Deployment, status : Status] /\ strayed' \in BOOLEAN
      BY <2>1 DEF ReadDeployment, Stray, QInv, TypeOK
    <3> QED
      BY <2>1, <3>1, <1>c DEF ReadDeployment, QInv, TypeOK, cluster
  <2>2. CASE ReadSets \/ ReadPods \/ ReadStatuses \/ Recheck \/ Fail
    BY <2>2, <1>c DEF ReadSets, ReadPods, ReadStatuses, Recheck, Fail, QInv, TypeOK,
                      cluster, reader
  <2>3. ASSUME NEW p \in Pod, Probe(p) PROVE TypeOK'
    BY <2>3, <1>c DEF Probe, QInv, TypeOK, cluster
  <2> QED
    BY <2>1, <2>2, <2>3 DEF Qualify
<1>s. Settled' /\ (One <=> One')
  BY <1>c DEF QInv, Settled, One, Serving, cluster
<1>1. CASE ReadDeployment
  <2>1. /\ pc' = "sets" /\ ~changed' /\ seen'.dep = dep /\ seen'.status = status
        /\ strayed' = Stray
    BY <1>1 DEF ReadDeployment
  <2>2. FullyObserved(seen'.status, seen'.dep) => One /\ (strayed' => dep.template # Wanted)
    BY <2>1 DEF FullyObserved, QInv, Settled, One, Stray, TypeOK, Deployment, Status
  <2> QED
    BY <1>c, <1>t, <1>s, <2>1, <2>2
    DEF QInv, Tracks, Steady, Chosen, Judged, InRun, cluster
<1>2. CASE ReadSets
  BY <1>2, <1>c, <1>t, <1>s
  DEF ReadSets, QInv, Tracks, Steady, Chosen, Judged, InRun, cluster
<1>3. CASE ReadPods
  <2>1. \A p \in picked' : pods[p].phase = "live" /\ pods[p].owner = seen.dep.uid
    BY <1>3 DEF ReadPods
  <2>2. Chosen'
    BY <1>3, <1>c, <2>1
    DEF ReadPods, QInv, Chosen, Tracks, Steady, One, Serving, InRun, cluster, TypeOK
  <2> QED
    BY <1>3, <1>c, <1>t, <1>s, <2>2
    DEF ReadPods, QInv, Tracks, Steady, Judged, InRun, cluster
<1>4. CASE ReadStatuses
  BY <1>4, <1>c, <1>t, <1>s
  DEF ReadStatuses, QInv, Tracks, Steady, Chosen, Judged, InRun, cluster
<1>5. ASSUME NEW p \in Pod, Probe(p) PROVE QInv'
  <2>1. /\ pc = "probe" /\ pc' \in {"probe", "recheck"}
        /\ UNCHANGED <<seen, picked, changed, strayed>>
    BY <1>5 DEF Probe
  <2>2. ~changed => dep.template = Wanted
    BY <1>5, <2>1 DEF Probe, QInv, Chosen, Judged
  <2> QED
    BY <1>c, <1>t, <1>s, <2>1, <2>2
    DEF QInv, Tracks, Steady, Chosen, Judged, InRun, cluster
<1>6. CASE Recheck \/ Fail
  BY <1>6, <1>c, <1>t, <1>s
  DEF Recheck, Fail, QInv, Tracks, Steady, Chosen, Judged, InRun
<1> QED
  BY <1>1, <1>2, <1>3, <1>4, <1>5, <1>6 DEF Qualify

\* A pod created, changed or ended by the cluster is never of another template
\* than its ReplicaSet, and a Deployment complete for its generation stays alone.
LEMMA PodStep ==
  ASSUME QInv, NEW p \in Pod, Create(p) \/ Readiness(p) \/ Terminate(p)
  PROVE  /\ TypeOK' /\ UNCHANGED <<dep, status, scaled, pc, reader, changed>>
         /\ One => One'
         /\ \A q \in Pod :
              pods[q].phase # "absent" =>
                /\ pods'[q].phase # "absent"
                /\ pods'[q].phase \in {"live", "terminating"} =>
                     /\ pods[q].phase \in {"live", "terminating"}
                     /\ pods'[q].template = pods[q].template
<1> DEFINE PodRecord == [phase : {"absent", "live", "terminating", "gone"},
                         owner : Nat, template : Template, ready : BOOLEAN]
<1>1. UNCHANGED <<dep, status, scaled, pc, reader, changed>> /\ Watch
  BY DEF Create, Readiness, Terminate
<1>t. pods \in [Pod -> PodRecord] /\ dep.uid \in Nat /\ scaled \subseteq Template
  BY DEF QInv, TypeOK, Deployment
<1>2. /\ pods' = [pods EXCEPT ![p] = pods'[p]] /\ pods'[p] \in PodRecord
      /\ Create(p) => pods[p].phase = "absent" /\ pods'[p].template \in scaled
      /\ ~Create(p) =>
           /\ pods[p].phase \in {"live", "terminating"} /\ pods'[p].phase # "absent"
           /\ pods'[p].phase = "live" => pods[p].phase = "live"
           /\ pods'[p].phase # "gone" => pods'[p].template = pods[p].template
                                         /\ pods'[p].owner = pods[p].owner
  <2>1. CASE Create(p)
    <3>1. PICK template \in scaled :
            pods' = [pods EXCEPT ![p] = [phase |-> "live", owner |-> dep.uid,
                                         template |-> template, ready |-> FALSE]]
      BY <2>1 DEF Create
    <3>2. pods'[p] = [phase |-> "live", owner |-> dep.uid,
                      template |-> template, ready |-> FALSE]
      BY <1>t, <3>1
    <3> QED
      BY <1>t, <2>1, <3>1, <3>2 DEF Create
  <2>2. CASE Readiness(p)
    <3>1. pods[p].phase = "live" /\ pods' = [pods EXCEPT ![p].ready = ~@]
      BY <2>2 DEF Readiness
    <3>2. ~Create(p)
      BY <3>1 DEF Create
    <3> QED
      BY <1>t, <3>1, <3>2
  <2>3. CASE Terminate(p)
    <3>1. Nothing("gone") \in PodRecord
      BY QualificationAssumption DEF QualificationAssumption, Nothing
    <3>2. CASE pods[p].phase = "live" /\ pods' = [pods EXCEPT ![p].phase = "terminating"]
      BY <1>t, <3>2 DEF Create
    <3>3. CASE pods[p].phase = "terminating" /\ pods' = [pods EXCEPT ![p] = Nothing("gone")]
      BY <1>t, <3>1, <3>3 DEF Create, Nothing
    <3> QED
      BY <2>3, <3>2, <3>3 DEF Terminate
  <2> QED
    BY <2>1, <2>2, <2>3
<1>3. \A q \in Pod : q # p => pods'[q] = pods[q]
  BY <1>2, <1>t
<1>4. TypeOK'
  <2>1. pods' \in [Pod -> PodRecord]
    BY <1>2, <1>t
  <2>2. strayed' \in BOOLEAN
    BY <1>1 DEF Watch, Running, QInv, TypeOK, Stray
  <2> QED
    BY <1>1, <2>1, <2>2 DEF QInv, TypeOK, reader
<1>5. One => One'
  BY <1>1, <1>2, <1>3 DEF One, Serving
<1> QED
  BY <1>1, <1>2, <1>3, <1>4, <1>5

\* A step of the cluster that leaves the Deployment's spec as it is.
LEMMA CarriedStep ==
  ASSUME QInv, UNCHANGED <<dep, pc, reader, changed>>, Watch, TypeOK', Settled', One => One',
         \A q \in Pod :
              pods[q].phase # "absent" =>
                /\ pods'[q].phase # "absent"
                /\ pods'[q].phase \in {"live", "terminating"} =>
                     /\ pods[q].phase \in {"live", "terminating"}
                     /\ pods'[q].template = pods[q].template
  PROVE  QInv'
<1>1. Tracks' /\ Judged'
  BY DEF QInv, Tracks, Judged, reader
<1>2. Steady'
  <2>1. One' /\ Stray' => dep.template # Wanted
    BY DEF One, Stray, Serving
  <2>2. pc \in InRun /\ strayed' => strayed \/ Stray'
    BY DEF Watch
  <2>3. UNCHANGED <<seen, dep, pc, changed>>
    BY DEF reader
  <2>4. FullyObserved(seen.status, seen.dep)' <=> FullyObserved(seen.status, seen.dep)
    BY <2>3
  <2> QED
    BY <2>1, <2>2, <2>3, <2>4 DEF QInv, Steady
<1>3. Chosen'
  <2>1. picked \subseteq Pod
    BY DEF QInv, TypeOK
  <2> QED
    BY <2>1 DEF QInv, Chosen, reader
<1> QED
  BY <1>1, <1>2, <1>3 DEF QInv

\* A step that changes the Deployment is one the last read would notice.
LEMMA ChangeStep ==
  ASSUME QInv, Change \/ Replace
  PROVE  QInv'
<1>1. /\ UNCHANGED <<pods, pc, reader>> /\ changed' = Running /\ Watch
      /\ dep' \in Deployment /\ status' \in Status /\ scaled' \subseteq Template
      /\ Later(dep', dep) /\ status'.observed < dep'.gen
  <2>1. dep \in Deployment /\ status \in Status /\ scaled \subseteq Template
        /\ status.observed <= dep.gen
    BY DEF QInv, TypeOK, Settled
  <2>2. CASE Change
    <3>1. PICK template \in Template : dep' = [dep EXCEPT !.gen = @ + 1, !.template = template]
      BY <2>2 DEF Change
    <3>2. dep' = [uid |-> dep.uid, gen |-> dep.gen + 1, template |-> template]
      BY <2>1, <3>1 DEF Deployment
    <3>3. dep' \in Deployment /\ dep'.uid = dep.uid /\ dep'.gen = dep.gen + 1
      BY <2>1, <3>2 DEF Deployment
    <3>4. UNCHANGED <<status, scaled, pods, pc, reader>> /\ changed' = Running /\ Watch
      BY <2>2 DEF Change
    <3>5. Later(dep', dep)
      BY <2>1, <3>3 DEF Later, Deployment
    <3>6. status'.observed < dep'.gen
      BY <2>1, <3>3, <3>4 DEF Deployment, Status
    <3> QED
      BY <2>1, <3>3, <3>4, <3>5, <3>6
  <2>3. CASE Replace
    <3>1. PICK template \in Template :
            dep' = [uid |-> dep.uid + 1, gen |-> 1, template |-> template]
      BY <2>3 DEF Replace
    <3>2. dep' \in Deployment /\ dep'.uid = dep.uid + 1 /\ dep'.gen = 1
      BY <2>1, <3>1 DEF Deployment
    <3>3. status' = [observed |-> 0, complete |-> FALSE] /\ scaled' = {}
      BY <2>3 DEF Replace
    <3>4. status' \in Status /\ status'.observed < dep'.gen /\ scaled' \subseteq Template
      BY <3>2, <3>3 DEF Status
    <3>5. Later(dep', dep)
      BY <2>1, <3>2 DEF Later, Deployment
    <3> QED
      BY <2>3, <3>2, <3>4, <3>5 DEF Replace
  <2> QED
    BY <2>2, <2>3
<1>2. TypeOK'
  <2>1. strayed' \in BOOLEAN /\ changed' \in BOOLEAN
    BY <1>1 DEF Watch, Running, Stray, QInv, TypeOK
  <2> QED
    BY <1>1, <2>1 DEF QInv, TypeOK, reader
<1>3. Settled'
  BY <1>1 DEF Settled, Deployment, Status
<1>4. pc' \in InRun => changed'
  BY <1>1 DEF InRun, Running
<1>5. Tracks'
  <2>1. dep \in Deployment /\ dep' \in Deployment /\ seen.dep \in Deployment /\ seen' = seen
    BY <1>1 DEF QInv, TypeOK, reader
  <2>2. pc \in InRun => dep = seen.dep \/ Later(dep, seen.dep)
    BY DEF QInv, Tracks
  <2>3. pc \in InRun => Later(dep', seen.dep)
    BY <1>1, <2>1, <2>2 DEF Later, Deployment
  <2> QED
    BY <1>1, <1>4, <2>1, <2>3 DEF Tracks
<1>6. Steady' /\ Chosen' /\ Judged'
  BY <1>1, <1>4 DEF QInv, Steady, Chosen, Judged, InRun, reader
<1> QED
  BY <1>2, <1>3, <1>5, <1>6 DEF QInv

\* The controller's own steps.
LEMMA ControlStep ==
  ASSUME QInv, Control \/ \E template \in Template : ScaleDown(template)
  PROVE  QInv'
<1>1. UNCHANGED <<dep, pods, pc, reader, changed>> /\ Watch
  BY DEF Control, ScaleDown
<1>2. One => One'
  BY <1>1 DEF Control, ScaleDown, One, Serving
<1>t. dep \in Deployment /\ status \in Status
  BY DEF QInv, TypeOK
<1>3. Settled' /\ status' \in Status /\ scaled' \subseteq Template
  <2>1. CASE Control
    <3>1. status' = [observed |-> dep.gen, complete |-> AllUpdated]
          /\ scaled' = scaled \cup {dep.template}
      BY <2>1 DEF Control
    <3>2. AllUpdated => One
      BY DEF AllUpdated, One
    <3>3. AllUpdated \in BOOLEAN
      BY DEF AllUpdated
    <3>4. status'.observed = dep.gen /\ status'.complete = AllUpdated /\ status' \in Status
      BY <1>t, <3>1, <3>3 DEF Status, Deployment
    <3> QED
      BY <1>t, <1>1, <1>2, <3>1, <3>2, <3>4 DEF Settled, QInv, TypeOK, Deployment
  <2>2. CASE \E template \in Template : ScaleDown(template)
    BY <2>2, <1>1, <1>2, <1>t DEF ScaleDown, Settled, QInv, TypeOK
  <2> QED
    BY <2>1, <2>2
<1>4. TypeOK'
  <2>1. strayed' \in BOOLEAN
    BY <1>1 DEF Watch, Running, Stray, QInv, TypeOK
  <2> QED
    BY <1>1, <1>3, <2>1 DEF QInv, TypeOK, reader
<1> QED
  BY <1>1, <1>2, <1>3, <1>4, CarriedStep

\* Every step keeps the invariant.
LEMMA QualificationStep == QInv /\ [Next]_vars => QInv'
<1>1. ASSUME QInv, UNCHANGED vars PROVE QInv'
  <2>1. UNCHANGED <<dep, status, scaled, pods, pc, seen, sets, picked, probed, changed, strayed>>
    BY <1>1 DEF vars, cluster, reader
  <2>2. TypeOK' /\ Settled' /\ Tracks'
    BY <1>1, <2>1 DEF QInv, TypeOK, Settled, One, Serving, Tracks
  <2>3. Steady' /\ Chosen' /\ Judged'
    BY <1>1, <2>1 DEF QInv, Steady, One, Serving, Chosen, Judged
  <2> QED
    BY <2>2, <2>3 DEF QInv
<1>2. ASSUME QInv, NEW p \in Pod, Create(p) \/ Readiness(p) \/ Terminate(p) PROVE QInv'
  <2>1. /\ TypeOK' /\ UNCHANGED <<dep, status, scaled, pc, reader, changed>>
        /\ One => One'
        /\ \A q \in Pod :
             pods[q].phase # "absent" =>
               /\ pods'[q].phase # "absent"
               /\ pods'[q].phase \in {"live", "terminating"} =>
                    /\ pods[q].phase \in {"live", "terminating"}
                    /\ pods'[q].template = pods[q].template
    BY <1>2, PodStep
  <2>2. Settled' /\ Watch
    BY <1>2, <2>1 DEF QInv, Settled, Create, Readiness, Terminate
  <2> QED
    BY <1>2, <2>1, <2>2, CarriedStep
<1> QED
  BY <1>1, <1>2, RunStep, ChangeStep, ControlStep DEF Next, Live

\* The reads stay tied to the Deployment they were made of until it changes.
THEOREM QualificationInductive == Spec => []QInv
  BY QualificationInit, QualificationStep, PTL DEF Spec

\* Every variable keeps its type, for any pods, templates and changes.
THEOREM QualificationTypes == Spec => []TypeOK
  BY QualificationInductive, PTL DEF QInv

\* uid and generation notice every change, the ones that were taken back included.
THEOREM NoPassAcrossAnyChange == Spec => NoPassAcrossChange
<1> DEFINE Unchanged == pc = "recheck" /\ pc' = "passed" => ~changed
<1>1. QInv /\ [Next]_vars => Unchanged
  <2> SUFFICES ASSUME QInv, [Next]_vars, pc = "recheck", pc' = "passed", changed PROVE FALSE
    OBVIOUS
  <2>1. SameRollout(dep, seen.dep)
    BY DEF Next, Qualify, Live, ReadDeployment, ReadSets, ReadPods, ReadStatuses, Recheck, Fail,
           Probe, Change, Replace, Control, ScaleDown, Create, Readiness, Terminate, vars
  <2>2. Later(dep, seen.dep)
    BY DEF QInv, Tracks, InRun
  <2> QED
    BY <2>1, <2>2 DEF SameRollout, Later, QInv, TypeOK, Deployment
<1> HIDE DEF Unchanged
<1>2. Spec => [][Unchanged]_vars
  BY <1>1, QualificationInductive, PTL DEF Spec
<1> QED
  BY <1>2 DEF NoPassAcrossChange, Unchanged

\* A pass speaks for every pod the Deployment had while the run lasted.
THEOREM PassSpeaksForAll == Spec => PassMeansOneRelease
<1> DEFINE Clean == pc = "recheck" /\ pc' = "passed" => ~strayed
<1>1. QInv /\ [Next]_vars => Clean
  <2> SUFFICES ASSUME QInv, [Next]_vars, pc = "recheck", pc' = "passed" PROVE ~strayed
    OBVIOUS
  <2>1. SameRollout(dep, seen.dep)
    BY DEF Next, Qualify, Live, ReadDeployment, ReadSets, ReadPods, ReadStatuses, Recheck, Fail,
           Probe, Change, Replace, Control, ScaleDown, Create, Readiness, Terminate, vars
  <2>2. ~changed
    BY <2>1 DEF SameRollout, Later, QInv, TypeOK, Deployment, Tracks, InRun
  <2> QED
    BY <2>2 DEF QInv, Steady, Judged, InRun
<1> HIDE DEF Clean
<1>2. Spec => [][Clean]_vars
  BY <1>1, QualificationInductive, PTL DEF Spec
<1> QED
  BY <1>2 DEF PassMeansOneRelease, Clean
=============================================================================
