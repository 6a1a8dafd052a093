------------------------ MODULE TrafficQualification ------------------------
(***************************************************************************)
(* scripts/qualify_azure_traffic.py: a run judges an Application Gateway   *)
(* from two reads of its configuration and the answers in between, and     *)
(* leaves one report.  The gateway, the backends and the release behind    *)
(* them may change at any time, and several runs may be given one path.    *)
(*                                                                         *)
(* A configuration is told apart by its ETag and by whether it sends the   *)
(* two hosts to the expected slot.  TLS and the fields of an answer are    *)
(* compared value by value: an answer is the expected one or it is not.    *)
(***************************************************************************)
EXTENDS Naturals, FiniteSets

CONSTANTS Run,          \* runs that are given the same --report
          Samples,      \* args.samples
          MaxUpdates,   \* bound: updates of the gateway
          MaxTurns      \* bound: times health or release turn good or bad

ASSUME TrafficAssumption ==
    /\ Samples \in Nat \ {0} /\ MaxUpdates \in Nat /\ MaxTurns \in Nat
    /\ "nobody" \notin Run

VARIABLES
    conf,     \* the gateway resource: etag, provisioningState, expected target
    plane,    \* the configuration its instances route by: etag, expected target
    backend,  \* whether the pools are Healthy, and the slot runs the release
    turns,    \* times the backend turned
    file,     \* the report path: who created it, what it says, all of it written
    pc,       \* what each run does next
    report,   \* report["result"] and ["gateway_etag"]
    answers,  \* requests that got the expected answer
    exit,     \* exit status
    under     \* history: ETags of the configurations that routed those requests

gateway == <<conf, plane, backend, turns>>
vars    == <<gateway, file, pc, report, answers, exit, under>>

Config == [etag : Nat, expected : BOOLEAN]
NoFile == [by |-> "nobody", result |-> "none", whole |-> FALSE]

TypeOK ==
    /\ conf \in [etag : Nat, state : {"Succeeded", "Updating", "Failed"}, expected : BOOLEAN]
    /\ plane \in Config
    /\ backend \in [healthy : BOOLEAN, released : BOOLEAN]
    /\ turns \in Nat
    /\ file \in [by : Run \cup {"nobody"}, result : {"none", "passed", "failed"}, whole : BOOLEAN]
    /\ pc \in [Run -> {"start", "gateway", "health", "sample", "final", "open", "write", "done"}]
    /\ report \in [Run -> [result : {"running", "passed", "failed"}, etag : Nat]]
    /\ answers \in [Run -> Nat]
    /\ exit \in [Run -> {"none", "zero", "one"}]
    /\ under \in [Run -> SUBSET Nat]

Init ==
    /\ conf \in [etag : {1}, state : {"Succeeded"}, expected : BOOLEAN]
    /\ plane = [etag |-> 1, expected |-> conf.expected]
    /\ backend \in [healthy : {TRUE}, released : BOOLEAN]
    /\ turns = 0
    /\ file = NoFile
    /\ pc = [r \in Run |-> "start"]
    /\ report = [r \in Run |-> [result |-> "running", etag |-> 0]]
    /\ answers = [r \in Run |-> 0]
    /\ exit = [r \in Run |-> "none"]
    /\ under = [r \in Run |-> {}]

-----------------------------------------------------------------------------
(* A run                                                                   *)

Goto(r, from, to) == pc[r] = from /\ pc' = [pc EXCEPT ![r] = to]

Stop(r, status) == exit' = [exit EXCEPT ![r] = status]

\* "Use a new report path": the arguments are checked before anything is read.
Start(r) ==
    /\ \/ file = NoFile /\ Goto(r, "start", "gateway") /\ UNCHANGED exit
       \/ Goto(r, "start", "done") /\ Stop(r, "one")
    /\ UNCHANGED <<gateway, file, report, answers, under>>

\* Mutant: any provisioning state will do.
AnyState == TRUE

Provisioned == conf.state = "Succeeded"

ReadGateway(r) ==
    /\ Goto(r, "gateway", "health")
    /\ Provisioned
    /\ report' = [report EXCEPT ![r].etag = conf.etag]
    /\ UNCHANGED <<gateway, file, answers, exit, under>>

ReadHealth(r) ==
    /\ Goto(r, "health", "sample")
    /\ backend.healthy
    /\ UNCHANGED <<gateway, file, report, answers, exit, under>>

\* One request of a sample, to the web or the API host, on a connection of its
\* own: routed by whatever configuration the instances have now.
Ask(r) ==
    /\ Goto(r, "sample", IF answers[r] + 1 = 2 * Samples THEN "final" ELSE "sample")
    /\ plane.expected /\ backend.released
    /\ answers' = [answers EXCEPT ![r] = @ + 1]
    /\ under' = [under EXCEPT ![r] = @ \cup {plane.etag}]
    /\ UNCHANGED <<gateway, file, report, exit>>

\* Mutant: the last read does not compare the ETag.
Reachable(r) == Provisioned

Unchanged(r) == Provisioned /\ conf.etag = report[r].etag

Final(r) ==
    /\ Goto(r, "final", "open")
    /\ Unchanged(r)
    /\ report' = [report EXCEPT ![r].result = "passed"]
    /\ UNCHANGED <<gateway, file, answers, exit, under>>

\* A check that does not hold, a read or request that fails, a KeyboardInterrupt:
\* the first two in the except clause, the last in finally.
Fail(r) ==
    /\ \E step \in {"gateway", "health", "sample", "final"} : Goto(r, step, "open")
    /\ report' = [report EXCEPT ![r].result = "failed"]
    /\ UNCHANGED <<gateway, file, answers, exit, under>>

\* Mutant: the report is opened with "w".
CreateOver(r) ==
    /\ Goto(r, "open", "write")
    /\ file' = [by |-> r, result |-> "none", whole |-> FALSE]
    /\ UNCHANGED <<gateway, report, answers, exit, under>>

\* Mutant: a report that is already there is taken for this run's.
CreateOnce(r) ==
    /\ IF file = NoFile
       THEN /\ Goto(r, "open", "write") /\ UNCHANGED exit
            /\ file' = [by |-> r, result |-> "none", whole |-> FALSE]
       ELSE /\ Goto(r, "open", "done") /\ UNCHANGED file
            /\ Stop(r, IF report[r].result = "passed" THEN "zero" ELSE "one")
    /\ UNCHANGED <<gateway, report, answers, under>>

\* open(..., "x"), which raises when another run was faster.
Create(r) ==
    /\ IF file = NoFile
       THEN /\ Goto(r, "open", "write") /\ UNCHANGED exit
            /\ file' = [by |-> r, result |-> "none", whole |-> FALSE]
       ELSE Goto(r, "open", "done") /\ Stop(r, "one") /\ UNCHANGED file
    /\ UNCHANGED <<gateway, report, answers, under>>

\* Then the report is written; the exception that was under way goes on, and
\* an interruption after the last check leaves a report that says passed.
Write(r) ==
    /\ Goto(r, "write", "done")
    /\ file' = [file EXCEPT !.result = report[r].result, !.whole = TRUE]
    /\ (report[r].result = "passed" /\ Stop(r, "zero")) \/ Stop(r, "one")
    /\ UNCHANGED <<gateway, report, answers, under>>

\* The process is killed, or interrupted or out of space in finally.
Die(r) ==
    /\ pc[r] # "done" /\ pc' = [pc EXCEPT ![r] = "done"]
    /\ Stop(r, "one")
    /\ UNCHANGED <<gateway, file, report, answers, under>>

-----------------------------------------------------------------------------
(* The gateway and what is behind it (external)                            *)

Others == UNCHANGED <<file, pc, report, answers, exit, under>>

\* A reviewed plan is applied: a new ETag at once, the instances follow.
Update ==
    /\ conf.etag <= MaxUpdates
    /\ \E e \in BOOLEAN :
          conf' = [etag |-> conf.etag + 1, state |-> "Updating", expected |-> e]
    /\ UNCHANGED <<plane, backend, turns>> /\ Others

Propagate ==
    /\ conf.state = "Updating"
    /\ plane' = [etag |-> conf.etag, expected |-> conf.expected]
    /\ UNCHANGED <<conf, backend, turns>> /\ Others

\* The update ends once the instances have it, or it fails half way.
Provision ==
    /\ conf.state = "Updating"
    /\ \/ plane.etag = conf.etag /\ conf' = [conf EXCEPT !.state = "Succeeded"]
       \/ conf' = [conf EXCEPT !.state = "Failed"]
    /\ UNCHANGED <<plane, backend, turns>> /\ Others

\* Probes, rollouts and the backend's own DNS name.
Turn ==
    /\ turns < MaxTurns /\ turns' = turns + 1
    /\ \/ backend' = [backend EXCEPT !.healthy = ~@]
       \/ backend' = [backend EXCEPT !.released = ~@]
    /\ UNCHANGED <<conf, plane>> /\ Others

-----------------------------------------------------------------------------

RunStep(r) ==
    \/ Start(r) \/ ReadGateway(r) \/ ReadHealth(r) \/ Ask(r) \/ Final(r) \/ Fail(r)
    \/ Create(r) \/ Write(r) \/ Die(r)

Next == (\E r \in Run : RunStep(r)) \/ Update \/ Propagate \/ Provision \/ Turn

Spec == Init /\ [][Next]_vars

-----------------------------------------------------------------------------
(* Properties                                                              *)

\* "It also rejects a gateway configuration change during sampling"
\* (docs/AZURE-WORKLOAD.md:93): a pass means that every answer was routed by
\* the very configuration the report names, not by one on its way in or out.
OneConfiguration ==
    [][\A r \in Run : pc[r] = "final" /\ report'[r].result = "passed"
                        => under[r] = {report[r].etag}]_vars

\* "Prior evidence is immutable": once a report is there, no other run changes
\* it, and nobody does once it is whole.
EvidenceImmutable ==
    [][file # NoFile => file'.by = file.by /\ (file.whole => file' = file)]_vars

\* A run exits 0 only when the report at its path is its own, whole, and says
\* passed, whatever other runs did with the path in between.
ReportIsOwn ==
    \A r \in Run : exit[r] = "zero" =>
        file = [by |-> r, result |-> "passed", whole |-> TRUE]
=============================================================================
