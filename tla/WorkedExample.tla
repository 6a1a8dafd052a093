--------------------------- MODULE WorkedExample ---------------------------
(***************************************************************************)
(* scripts/run_worked_example.py: the driver that runs one or both         *)
(* harnesses of Acceptance as child processes, one after the other, judges *)
(* the report each leaves, and writes worked-example.json.                 *)
(*                                                                         *)
(* Driver and harness are in one process group: a Ctrl-C reaches both.     *)
(* The driver's subprocess.run then waits a quarter of a second for the    *)
(* harness and kills it, so the harness may take any number of its steps   *)
(* in between.  A SIGTERM to the driver ends it at once; the harness goes  *)
(* on alone.  Signals to the harness alone are part of Acceptance.         *)
(***************************************************************************)
EXTENDS Acceptance

VARIABLES
    stage,    \* setup, waiting, interrupted, closing, ended, orphaned
    passed,   \* result["methods"]
    result,   \* result["result"]
    summary,  \* worked-example.json: none, or the result it names
    status    \* the driver's exit status: none, zero, one

driverVars == <<stage, passed, result, summary, status>>
exampleVars == <<vars, driverVars>>

DriverTypeOK ==
    /\ TypeOK
    /\ stage \in {"setup", "waiting", "interrupted", "closing", "ended", "orphaned"}
    /\ passed \in Seq({"direct", "argocd"})
    /\ result \in {"running", "passed", "failed"}
    /\ summary \in {"none", "running", "passed", "failed"}
    /\ status \in {"none", "zero", "one"}

\* The harness of Init is the one the driver is going to start.
ExampleInit ==
    /\ Init
    /\ stage = "setup" /\ passed = << >> /\ result = "running"
    /\ summary = "none" /\ status = "none"

-----------------------------------------------------------------------------
(* The rule a report has to satisfy, on the fields modelled                *)

TrafficSteps == << "initial-active", "standby-updated-active-unchanged",
                   "traffic-cutover", "traffic-rollback" >>
TrafficSlots == << "aks01", "aks01", "aks02", "aks01" >>

ValidEvidence(r, m) ==
    /\ r.result = "passed" /\ r.errors = {}
    /\ r.tiers = << "infrastructure", "platform", "application" >>
    /\ Len(r.traffic) = 4
    /\ \A i \in 1..4 : r.traffic[i].step = TrafficSteps[i] /\ r.traffic[i].slot = TrafficSlots[i]
    /\ r.traffic[2].rev = r.traffic[1].rev
    /\ r.traffic[4].rev = r.traffic[1].rev
    /\ r.traffic[3].rev # r.traffic[1].rev
    /\ r.platform = Slots
    /\ m = "direct" => r.application = Slots

-----------------------------------------------------------------------------
(* The driver                                                              *)

To(next, r) == stage' = next /\ result' = r

\* Clone, pinned checkout and tools.  A check that fails before the output
\* directory is made leaves no report at all.
Setup ==
    /\ stage = "setup"
    /\ \/ To("waiting", result) /\ UNCHANGED status
       \/ To("closing", "failed") /\ UNCHANGED status
       \/ To("ended", result) /\ status' = "one"
    /\ UNCHANGED <<vars, passed, summary>>

\* The next harness starts from nothing but what an earlier one left behind;
\* the bounds on faults are those of the whole example.
Launch(m) ==
    /\ method' = m /\ at' = 1 /\ phase' = "running"
    /\ tracked' = Untracked /\ digest' = [r \in Revision |-> "none"]
    /\ serving' = [s \in Slots |-> "none"] /\ granted' = {} /\ opRev' = [s \in Slots |-> 0]
    /\ active' = "closed"
    /\ git' = [files |-> [s \in Slots |-> "none"], commits |-> 0,
               head |-> [s \in Slots |-> "none"]]
    /\ record' = [result |-> "running", failure |-> FALSE, errors |-> {}, tiers |-> << >>,
                  platform |-> {}, application |-> {}, traffic |-> << >>]
    /\ todo' = << >> /\ saved' = {} /\ exit' = "none" /\ cut' = FALSE
    /\ UNCHANGED <<existing, signals, upsets>>

\* The harness has exited: its status, then its report.
Judge ==
    /\ stage = "waiting" /\ phase = "exited"
    /\ exit = "zero" /\ ValidEvidence(record, method)
    /\ passed' = Append(passed, method)
    /\ IF passed' = Methods
       THEN To("closing", "passed") /\ UNCHANGED vars
       ELSE To("waiting", result) /\ Launch(Methods[Len(passed') + 1])
    /\ UNCHANGED <<summary, status>>

\* A failed harness, a report that cannot be read or does not satisfy the rule.
\* The KeyError, AttributeError or TypeError of a report of another shape is not
\* caught: the result stays what it was.
JudgeFails ==
    /\ stage = "waiting" /\ phase = "exited"
    /\ To("closing", "failed") \/ (exit = "zero" /\ To("closing", result))
    /\ UNCHANGED <<vars, passed, summary, status>>

\* Ctrl-C, to driver and harness alike.
Interrupt ==
    /\ stage = "waiting"
    /\ Signal \/ SignalInCleanup
    /\ To("interrupted", result)
    /\ UNCHANGED <<passed, summary, status>>

\* process.kill(), which finds the harness gone or still at work.
Kill ==
    /\ stage = "interrupted"
    /\ phase' = IF phase = "exited" THEN phase ELSE "killed"
    /\ active' = "closed"
    /\ To("closing", "failed")
    /\ UNCHANGED <<at, buildVars, clusterVars, git, record, cleanVars, faultVars>>
    /\ UNCHANGED <<passed, summary, status>>

\* SIGTERM to the driver, which has no handler for it.
Terminate ==
    /\ stage = "waiting" /\ signals < MaxSignals
    /\ signals' = signals + 1
    /\ To("orphaned", result) /\ status' = "one"
    /\ UNCHANGED <<method, at, phase, buildVars, clusterVars, active, git, record,
                   cleanVars, upsets>>
    /\ UNCHANGED <<passed, summary>>

\* Mutant: a summary that cannot be written is not an error.
FinishUnwritten ==
    /\ stage = "closing"
    /\ To("ended", result)
    /\ summary' \in {summary, result}
    /\ status' = IF result = "passed" THEN "zero" ELSE "one"
    /\ UNCHANGED <<vars, passed>>

\* finally: the summary is written, or that fails too and is the error raised.
Finish ==
    /\ stage = "closing"
    /\ To("ended", result)
    /\ \/ summary' = result /\ status' = (IF result = "passed" THEN "zero" ELSE "one")
       \/ summary' = summary /\ status' = "one"
    /\ UNCHANGED <<vars, passed>>

-----------------------------------------------------------------------------

Alive == stage \in {"waiting", "interrupted", "orphaned"}

HarnessWork == Alive /\ Work /\ UNCHANGED driverVars

DriverWork == Setup \/ Judge \/ JudgeFails \/ Kill \/ Finish

ExampleNext ==
    \/ HarnessWork \/ DriverWork
    \/ Alive /\ (Signal \/ SignalInCleanup \/ Upsets) /\ UNCHANGED driverVars
    \/ Interrupt \/ Terminate

ExampleSpec == ExampleInit /\ [][ExampleNext]_exampleVars

\* Commands without a timeout: the driver's own, and of the harness git on the
\* platform fixture, before the registry is tracked, and on the templates, in the
\* evidence of a platform or an application installed.
HarnessUntimed ==
    /\ Alive /\ phase = "running" /\ at <= Len(Program)
    /\ at = 1 \/ Step.op \in {"platform", "deploy"}

Untimed == stage = "setup" \/ HarnessUntimed

\* Both are single threads, every other command of the harness ends by a timeout,
\* and the driver waits for nothing but the harness.
ExampleFairSpec ==
    /\ ExampleSpec
    /\ WF_exampleVars(HarnessWork /\ ~HarnessUntimed)
    /\ WF_exampleVars(Judge \/ JudgeFails \/ Kill \/ Finish)

-----------------------------------------------------------------------------
(* Properties                                                              *)

\* Whatever fails or is interrupted on the way, a harness exits 0 only with a
\* published report that the rule accepts and with nothing left on the host.
AcceptedIsComplete ==
    exit = "zero" => /\ ValidEvidence(record, method)
                     /\ saved = {"local", "published"}
                     /\ existing = {}

\* The driver exits 0 only if every harness asked for was accepted in turn,
\* the summary says so, and none of them left anything behind.
ExampleIsComplete ==
    status = "zero" => passed = Methods /\ summary = "passed" /\ existing = {}

\* Every example ends, the driver and the harness it may have left alone, unless
\* it waits for a command without a timeout for good.
ExampleEnds == \/ <>(stage = "ended" \/ (stage = "orphaned" /\ Over))
               \/ <>[]Untimed

\* The promise of docs/WORKED-EXAMPLE.md:57: the clusters, registry and images
\* are deleted, "including on handled failure or interruption".  A deletion
\* that failed and was reported is not held against it.
InterruptedRunRemovesTest ==
    (stage = "ended" /\ signals > 0) => existing \subseteq record.errors
=============================================================================
