----------------------- MODULE WorkloadQualification -----------------------
(***************************************************************************)
(* scripts/qualify_azure_workload.py: a live Deployment is judged from     *)
(* several reads, requests to its pods and a last read, while it is being  *)
(* changed, rolled out, or loses pods.                                     *)
(*                                                                         *)
(* A template is the image, which fixes the revision the app reports, and  *)
(* the cluster its environment names.  Identity, mount and secret fields   *)
(* are compared value by value and are not told apart here.                *)
(***************************************************************************)
EXTENDS Naturals, FiniteSets

CONSTANTS Template,     \* templates that may be deployed: image and cluster
          Wanted,       \* the one the run is asked for
          Pod,          \* pod uids
          Replicas,     \* desired replicas
          MaxChanges    \* bound: changes of the Deployment

ASSUME QualificationAssumption ==
    Wanted \in Template /\ Replicas \in Nat \ {0} /\ MaxChanges \in Nat

VARIABLES
    dep,      \* the Deployment: uid, generation, template
    status,   \* its status: observedGeneration, and that all counts are as desired
    scaled,   \* templates whose ReplicaSet has replicas
    pods,     \* every pod: phase, owning Deployment, template, readiness
    pc,       \* what the qualification does next
    seen,     \* the Deployment it read first, with its status then
    sets,     \* the ReplicaSets it read
    picked,   \* the pods it judges
    probed,   \* those that answered
    changed,  \* history: the Deployment was changed since it was first read
    strayed   \* history: a pod not of the wanted template served since then

cluster == <<dep, status, scaled, pods>>
reader  == <<seen, sets, picked, probed>>
vars    == <<cluster, pc, reader, changed, strayed>>

Deployment == [uid : Nat, gen : Nat, template : Template]
Status     == [observed : Nat, complete : BOOLEAN]

TypeOK ==
    /\ dep \in Deployment
    /\ status \in Status
    /\ scaled \subseteq Template
    /\ pods \in [Pod -> [phase : {"absent", "live", "terminating", "gone"},
                         owner : Nat, template : Template, ready : BOOLEAN]]
    /\ pc \in {"deployment", "sets", "pods", "statuses", "probe", "recheck", "passed", "failed"}
    /\ seen \in [dep : Deployment, status : Status]
    /\ sets \subseteq Template
    /\ picked \subseteq Pod /\ probed \subseteq Pod
    /\ changed \in BOOLEAN /\ strayed \in BOOLEAN

Serving(p) == pods[p].phase = "live" /\ pods[p].owner = dep.uid

Stray == \E p \in Pod : Serving(p) /\ pods[p].template # Wanted

Nothing(phase) == [phase |-> phase, owner |-> 0, template |-> Wanted, ready |-> FALSE]

\* A Deployment just created, by whatever delivers it.
Init ==
    /\ dep \in [uid : {1}, gen : {1}, template : Template]
    /\ status = [observed |-> 0, complete |-> FALSE]
    /\ scaled = {}
    /\ pods = [p \in Pod |-> Nothing("absent")]
    /\ pc = "deployment"
    /\ seen = [dep |-> dep, status |-> status]
    /\ sets = {} /\ picked = {} /\ probed = {}
    /\ changed = FALSE /\ strayed = FALSE

-----------------------------------------------------------------------------
(* The qualification                                                       *)

ReadDeployment ==
    /\ pc = "deployment" /\ pc' = "sets"
    /\ seen' = [dep |-> dep, status |-> status]
    /\ changed' = FALSE /\ strayed' = Stray
    /\ UNCHANGED <<cluster, sets, picked, probed>>

ReadSets ==
    /\ pc = "sets" /\ pc' = "pods"
    /\ sets' = scaled
    /\ UNCHANGED <<cluster, seen, picked, probed, changed, strayed>>

\* Pods of the ReplicaSets, of this Deployment, that are not being deleted; all
\* of them have to be Ready.
ReadPods ==
    /\ pc = "pods" /\ pc' = "statuses"
    /\ picked' = {p \in Pod : /\ pods[p].phase = "live" /\ pods[p].owner = seen.dep.uid
                              /\ pods[p].template \in sets}
    /\ \A p \in picked' : pods[p].ready
    /\ UNCHANGED <<cluster, seen, sets, probed, changed, strayed>>

\* Mutant: counts that an earlier generation left behind are taken.
CountsComplete(s, d) == s.complete

FullyObserved(s, d) == s.observed >= d.gen /\ s.complete

\* The CSI statuses are the last read of validate_resources, which then judges
\* all of them: a status exists as long as its pod.  The ReplicaSets are not kept.
ReadStatuses ==
    /\ pc = "statuses" /\ pc' = "probe"
    /\ FullyObserved(seen.status, seen.dep)
    /\ Cardinality(picked) = Replicas
    /\ \A p \in picked : /\ pods[p].phase # "gone"
                         /\ pods[p].template.image = seen.dep.template.image
    /\ sets' = {}
    /\ UNCHANGED <<cluster, seen, picked, probed, changed, strayed>>

\* /readyz and /version through a tunnel to this very pod.
Probe(p) ==
    /\ pc = "probe" /\ p \in picked \ probed
    /\ pods[p].phase \in {"live", "terminating"} /\ pods[p].ready
    /\ pods[p].template = Wanted
    /\ probed' = probed \cup {p}
    /\ pc' = IF probed' = picked THEN "recheck" ELSE "probe"
    /\ UNCHANGED <<cluster, seen, sets, picked, changed, strayed>>

\* Mutant: the same image is taken for the same rollout.
SameImage(d, e) == d.uid = e.uid /\ d.template.image = e.template.image

SameRollout(d, e) == d.uid = e.uid /\ d.gen = e.gen

Recheck ==
    /\ pc = "recheck" /\ pc' = "passed"
    /\ SameRollout(dep, seen.dep)
    /\ UNCHANGED <<cluster, reader, changed, strayed>>

\* Any check that does not hold, and any read that fails, ends the run.
Fail ==
    /\ pc \notin {"passed", "failed"} /\ pc' = "failed"
    /\ UNCHANGED <<cluster, reader, changed, strayed>>

-----------------------------------------------------------------------------
(* Kubernetes and whoever delivers (external)                              *)

Running == pc # "deployment"

Watch == strayed' = (Running /\ (strayed \/ Stray'))

May == dep.gen + dep.uid < MaxChanges + 2

\* The template or the replica count is written; the status stays behind.
Change ==
    /\ May
    /\ \E template \in Template : dep' = [dep EXCEPT !.gen = @ + 1, !.template = template]
    /\ changed' = Running
    /\ UNCHANGED <<status, scaled, pods, pc, reader>>
    /\ Watch

\* The Deployment is deleted, its pods with it, and created anew.
Replace ==
    /\ May
    /\ \E template \in Template :
          dep' = [uid |-> dep.uid + 1, gen |-> 1, template |-> template]
    /\ status' = [observed |-> 0, complete |-> FALSE]
    /\ scaled' = {}
    /\ changed' = Running
    /\ UNCHANGED <<pods, pc, reader>>
    /\ Watch

AllUpdated ==
    /\ scaled = {dep.template}
    /\ Cardinality({p \in Pod : Serving(p)}) = Replicas
    /\ \A p \in Pod : Serving(p) => pods[p].template = dep.template /\ pods[p].ready

\* The controller takes note of the generation and writes the status.
Control ==
    /\ status' = [observed |-> dep.gen, complete |-> AllUpdated]
    /\ scaled' = scaled \cup {dep.template}
    /\ UNCHANGED <<dep, pods, pc, reader, changed>>
    /\ Watch

\* ... and scales an older ReplicaSet down to nothing.
ScaleDown(template) ==
    /\ status.observed = dep.gen /\ template \in scaled \ {dep.template}
    /\ scaled' = scaled \ {template}
    /\ UNCHANGED <<dep, status, pods, pc, reader, changed>>
    /\ Watch

\* A ReplicaSet creates a pod, to scale up or for one it has lost.
Create(p) ==
    /\ pods[p].phase = "absent"
    /\ \E template \in scaled :
          pods' = [pods EXCEPT ![p] = [phase |-> "live", owner |-> dep.uid,
                                       template |-> template, ready |-> FALSE]]
    /\ UNCHANGED <<dep, status, scaled, pc, reader, changed>>
    /\ Watch

\* The secret appears or disappears under the pod.
Readiness(p) ==
    /\ pods[p].phase = "live"
    /\ pods' = [pods EXCEPT ![p].ready = ~@]
    /\ UNCHANGED <<dep, status, scaled, pc, reader, changed>>
    /\ Watch

\* Scaled down, evicted or deleted; then gone.
Terminate(p) ==
    /\ \/ pods[p].phase = "live" /\ pods' = [pods EXCEPT ![p].phase = "terminating"]
       \/ pods[p].phase = "terminating" /\ pods' = [pods EXCEPT ![p] = Nothing("gone")]
    /\ UNCHANGED <<dep, status, scaled, pc, reader, changed>>
    /\ Watch

Qualify ==
    \/ ReadDeployment \/ ReadSets \/ ReadPods \/ ReadStatuses \/ Recheck \/ Fail
    \/ \E p \in Pod : Probe(p)

\* The model ends with the run.
Live ==
    /\ pc \notin {"passed", "failed"}
    /\ \/ Change \/ Replace \/ Control
       \/ \E template \in Template : ScaleDown(template)
       \/ \E p \in Pod : Create(p) \/ Readiness(p) \/ Terminate(p)

Next == Qualify \/ Live

Spec == Init /\ [][Next]_vars

-----------------------------------------------------------------------------
(* Properties                                                              *)

\* "Never claim a pass across a concurrent rollout or replacement": not even
\* one that ended where it began.
NoPassAcrossChange == [][pc = "recheck" /\ pc' = "passed" => ~changed]_vars

\* A few reads and one answer per pod speak for every pod: from the first read
\* to the last no pod of the Deployment ran anything but the wanted release.
PassMeansOneRelease == [][pc = "recheck" /\ pc' = "passed" => ~strayed]_vars
=============================================================================
