--------------------------- MODULE TrafficProofs ---------------------------
(***************************************************************************)
(* What a traffic report is worth, for any number of runs and samples.     *)
(* Between the two reads of one ETag no update was begun, so the gateway   *)
(* stayed as it was when it was last provisioned: its instances routed by  *)
(* that configuration throughout.                                          *)
(***************************************************************************)
EXTENDS TrafficQualification, TLAPS

\* Only an update moves the ETag, and a provisioned gateway routes by it.
Provenance ==
    /\ conf.state = "Succeeded" => plane.etag = conf.etag
    /\ \A r \in Run : pc[r] \in {"health", "sample", "final"} =>
          /\ report[r].etag <= conf.etag
          /\ conf.etag = report[r].etag => conf.state = "Succeeded" /\ under[r] \subseteq {conf.etag}

Counted ==
    \A r \in Run : /\ pc[r] \in {"start", "gateway", "health"} => answers[r] = 0 /\ under[r] = {}
                   /\ pc[r] = "final" => under[r] # {}

\* A run that writes owns the file; a whole file is past all writing.
Owned ==
    /\ file = NoFile \/ file.by \in Run
    /\ file.whole => file.by \in Run /\ pc[file.by] = "done"
    /\ \A r \in Run : /\ pc[r] = "write" => file.by = r /\ ~file.whole
                      /\ pc[r] # "done" => exit[r] = "none"
                      /\ pc[r] \in {"open", "write"} => report[r].result # "running"
                      /\ pc[r] \in {"start", "gateway", "health", "sample", "final"}
                            => report[r].result = "running"

TInv == TypeOK /\ Provenance /\ Counted /\ Owned /\ ReportIsOwn

\* The invariant holds at first.
LEMMA InitInv == Init => TInv
  <1> SUFFICES ASSUME Init PROVE TInv OBVIOUS
  <1>1. TypeOK
    <2>1. conf \in [etag : Nat, state : {"Succeeded", "Updating", "Failed"}, expected : BOOLEAN]
      BY DEF Init
    <2>2. plane \in Config
      BY DEF Init, Config
    <2>3. backend \in [healthy : BOOLEAN, released : BOOLEAN]
      BY DEF Init
    <2>4. QED BY <2>1, <2>2, <2>3 DEF Init, TypeOK, NoFile
  <1>2. Provenance BY DEF Init, Provenance
  <1>3. Counted BY DEF Init, Counted
  <1>4. Owned BY DEF Init, Owned, NoFile
  <1>5. ReportIsOwn BY DEF Init, ReportIsOwn
  <1>6. QED BY <1>1, <1>2, <1>3, <1>4, <1>5 DEF TInv

\* A step of one run, by what it does to the variables, keeps the types.
LEMMA RunTypes ==
    ASSUME TypeOK, Owned, NEW r \in Run, RunStep(r) PROVE TypeOK'
  <1> USE DEF TypeOK, Goto, Stop, gateway, Config
  <1>1. CASE Start(r)
    <2>1. pc' \in [Run -> {"start", "gateway", "health", "sample", "final", "open", "write", "done"}]
      BY <1>1 DEF Start
    <2>2. exit' \in [Run -> {"none", "zero", "one"}]
      BY <1>1 DEF Start
    <2>3. UNCHANGED <<conf, plane, backend, turns, file, report, answers, under>>
      BY <1>1 DEF Start
    <2>4. QED BY <2>1, <2>2, <2>3
  <1>2. CASE ReadGateway(r) BY <1>2 DEF ReadGateway
  <1>3. CASE ReadHealth(r)  BY <1>3 DEF ReadHealth
  <1>4. CASE Ask(r)
    <2>1. under' \in [Run -> SUBSET Nat] BY <1>4 DEF Ask
    <2>2. answers' \in [Run -> Nat] BY <1>4 DEF Ask
    <2>3. pc' \in [Run -> {"start", "gateway", "health", "sample", "final", "open", "write", "done"}]
      BY <1>4 DEF Ask
    <2>4. QED BY <1>4, <2>1, <2>2, <2>3 DEF Ask
  <1>5. CASE Final(r)       BY <1>5 DEF Final
  <1>6. CASE Fail(r)        BY <1>6 DEF Fail
  <1>7. CASE Create(r)
    <2>1. file' \in [by : Run \cup {"nobody"}, result : {"none", "passed", "failed"}, whole : BOOLEAN]
      <3>1. CASE file = NoFile
        <4>1. file' = [by |-> r, result |-> "none", whole |-> FALSE] BY <1>7, <3>1 DEF Create
        <4>2. QED BY ONLY <4>1, r \in Run
      <3>2. CASE file # NoFile BY <1>7, <3>2 DEF Create
      <3>3. QED BY <3>1, <3>2
    <2>2. pc' \in [Run -> {"start", "gateway", "health", "sample", "final", "open", "write", "done"}]
      BY <1>7 DEF Create
    <2>3. exit' \in [Run -> {"none", "zero", "one"}]
      BY <1>7 DEF Create
    <2>4. QED BY <1>7, <2>1, <2>2, <2>3 DEF Create
  <1>8. CASE Write(r)
    <2>1. report[r].result \in {"passed", "failed"} BY <1>8 DEF Write, Owned
    <2>2. file' \in [by : Run \cup {"nobody"}, result : {"none", "passed", "failed"}, whole : BOOLEAN]
      BY <1>8, <2>1 DEF Write
    <2>3. exit' \in [Run -> {"none", "zero", "one"}]
      BY <1>8 DEF Write
    <2>4. QED BY <1>8, <2>2, <2>3 DEF Write
  <1>9. CASE Die(r)         BY <1>9 DEF Die
  <1>10. QED BY <1>1, <1>2, <1>3, <1>4, <1>5, <1>6, <1>7, <1>8, <1>9 DEF RunStep

\* The gateway and what is behind it keep their types.
LEMMA OtherTypes ==
    ASSUME TypeOK, Update \/ Propagate \/ Provision \/ Turn PROVE TypeOK'
  <1> USE DEF TypeOK, Others, Config
  <1>1. CASE Update    BY <1>1 DEF Update
  <1>2. CASE Propagate
    <2>1. plane' \in Config BY <1>2 DEF Propagate
    <2>2. QED BY <1>2, <2>1 DEF Propagate
  <1>3. CASE Provision BY <1>3 DEF Provision
  <1>4. CASE Turn
    <2>1. backend' \in [healthy : BOOLEAN, released : BOOLEAN] BY <1>4 DEF Turn
    <2>2. QED BY <1>4, <2>1 DEF Turn
  <1>5. QED BY <1>1, <1>2, <1>3, <1>4

\* A run's step moves no gateway: what is known of the configurations stays, and
\* an answer adds the one the instances route by, which is the provisioned one.
LEMMA RunProvenance ==
    ASSUME TInv, NEW r \in Run, RunStep(r) PROVE Provenance'
  <1> USE DEF TInv, TypeOK, Provenance, Goto, gateway, Config
  <1>1. CASE Start(r)       BY <1>1 DEF Start
  <1>2. CASE ReadGateway(r) BY <1>2 DEF ReadGateway, Provisioned, Counted
  <1>3. CASE ReadHealth(r)  BY <1>3 DEF ReadHealth
  <1>4. CASE Ask(r)         BY <1>4 DEF Ask
  <1>5. CASE Final(r)       BY <1>5 DEF Final
  <1>6. CASE Fail(r)        BY <1>6 DEF Fail
  <1>7. CASE Create(r)      BY <1>7 DEF Create
  <1>8. CASE Write(r)       BY <1>8 DEF Write
  <1>9. CASE Die(r)         BY <1>9 DEF Die
  <1>10. QED BY <1>1, <1>2, <1>3, <1>4, <1>5, <1>6, <1>7, <1>8, <1>9 DEF RunStep

\* An update leaves every earlier ETag behind; provisioning keeps the ETag.
LEMMA OtherProvenance ==
    ASSUME TInv, Update \/ Propagate \/ Provision \/ Turn PROVE Provenance'
  <1> USE DEF TInv, TypeOK, Provenance, Others, Config
  <1>1. CASE Update    BY <1>1 DEF Update
  <1>2. CASE Propagate BY <1>2 DEF Propagate
  <1>3. CASE Provision BY <1>3 DEF Provision
  <1>4. CASE Turn      BY <1>4 DEF Turn
  <1>5. QED BY <1>1, <1>2, <1>3, <1>4

\* A run that has all its answers got at least one.
LEMMA RunCounted ==
    ASSUME TInv, NEW r \in Run, RunStep(r) PROVE Counted'
  <1> USE DEF TInv, TypeOK, Counted, Goto, gateway
  <1>1. CASE Start(r)       BY <1>1 DEF Start
  <1>2. CASE ReadGateway(r) BY <1>2 DEF ReadGateway
  <1>3. CASE ReadHealth(r)  BY <1>3 DEF ReadHealth
  <1>4. CASE Ask(r)         BY <1>4 DEF Ask
  <1>5. CASE Final(r)       BY <1>5 DEF Final
  <1>6. CASE Fail(r)        BY <1>6 DEF Fail
  <1>7. CASE Create(r)      BY <1>7 DEF Create
  <1>8. CASE Write(r)       BY <1>8 DEF Write
  <1>9. CASE Die(r)         BY <1>9 DEF Die
  <1>10. QED BY <1>1, <1>2, <1>3, <1>4, <1>5, <1>6, <1>7, <1>8, <1>9 DEF RunStep


\* The path belongs to the first run that creates it, and to no other.
LEMMA RunOwned ==
    ASSUME TInv, NEW r \in Run, RunStep(r) PROVE Owned' /\ ReportIsOwn'
  <1> USE TrafficAssumption DEF TInv, TypeOK, Owned, ReportIsOwn, Goto, Stop, gateway
  <1>1. CASE Start(r)       BY <1>1 DEF Start
  <1>2. CASE ReadGateway(r) BY <1>2 DEF ReadGateway
  <1>3. CASE ReadHealth(r)  BY <1>3 DEF ReadHealth
  <1>4. CASE Ask(r)         BY <1>4 DEF Ask
  <1>5. CASE Final(r)       BY <1>5 DEF Final
  <1>6. CASE Fail(r)        BY <1>6 DEF Fail
  <1>7. CASE Create(r)
    <2>1. CASE file = NoFile
      <3>1. /\ file' = [by |-> r, result |-> "none", whole |-> FALSE]
            /\ pc' = [pc EXCEPT ![r] = "write"] /\ exit' = exit /\ report' = report
            /\ pc[r] = "open"
        BY <1>7, <2>1 DEF Create
      <3>2. file.by = "nobody" /\ ~file.whole BY <2>1 DEF NoFile
      <3>3. \A q \in Run : pc[q] # "write" /\ exit[q] # "zero" BY <3>2
      <3>4. QED BY <3>1, <3>3
    <2>2. CASE file # NoFile BY <1>7, <2>2 DEF Create
    <2>3. QED BY <2>1, <2>2
  <1>8. CASE Write(r)
    <2>1. /\ file' = [file EXCEPT !.result = report[r].result, !.whole = TRUE]
          /\ pc' = [pc EXCEPT ![r] = "done"] /\ report' = report
          /\ pc[r] = "write" /\ file.by = r /\ ~file.whole
      BY <1>8 DEF Write
    <2>2. \/ report[r].result = "passed" /\ exit' = [exit EXCEPT ![r] = "zero"]
          \/ exit' = [exit EXCEPT ![r] = "one"]
      BY <1>8 DEF Write
    <2>3. \A q \in Run : exit[q] # "zero" BY <2>1
    <2>4. file'.by = r /\ file'.whole /\ file'.result = report[r].result /\ file # NoFile
      BY <2>1 DEF NoFile
    <2>5. Owned' BY <2>1, <2>2, <2>4
    <2>6. file' = [by |-> r, result |-> report[r].result, whole |-> TRUE] BY <2>1
    <2>7. ASSUME NEW q \in Run, exit'[q] = "zero"
          PROVE q = r /\ report[r].result = "passed"
      BY <2>2, <2>3, <2>7
    <2>8. ReportIsOwn' BY <2>6, <2>7
    <2>9. QED BY <2>5, <2>8
  <1>9. CASE Die(r)         BY <1>9 DEF Die
  <1>10. QED BY <1>1, <1>2, <1>3, <1>4, <1>5, <1>6, <1>7, <1>8, <1>9 DEF RunStep

\* Every step keeps the invariant.
LEMMA NextInv == TInv /\ [Next]_vars => TInv'
  <1> SUFFICES ASSUME TInv, [Next]_vars PROVE TInv' OBVIOUS
  <1>1. CASE \E r \in Run : RunStep(r)
    <2>1. PICK r \in Run : RunStep(r) BY <1>1
    <2>2. TypeOK' BY <2>1, RunTypes DEF TInv
    <2>3. QED BY <2>1, <2>2, RunProvenance, RunCounted, RunOwned DEF TInv
  <1>2. CASE Update \/ Propagate \/ Provision \/ Turn
    <2>1. UNCHANGED <<file, pc, report, answers, exit, under>>
      BY <1>2 DEF Update, Propagate, Provision, Turn, Others
    <2>2. Counted' /\ Owned' /\ ReportIsOwn' BY <2>1 DEF TInv, Counted, Owned, ReportIsOwn
    <2>3. TypeOK' BY <1>2, OtherTypes DEF TInv
    <2>4. QED BY <1>2, <2>2, <2>3, OtherProvenance DEF TInv
  <1>3. CASE UNCHANGED vars
    BY <1>3 DEF vars, gateway, TInv, TypeOK, Provenance, Counted, Owned, ReportIsOwn
  <1>4. QED BY <1>1, <1>2, <1>3 DEF Next

\* The invariant always holds.
LEMMA Invariance == Spec => []TInv
  BY InitInv, NextInv, PTL DEF Spec

\* Every variable keeps its type, for any runs, samples and updates.
THEOREM TrafficTypes == Spec => []TypeOK
  BY Invariance, PTL DEF TInv

\* A run exits 0 only with its own, whole, passed report at the path, for any
\* number of runs given that path.
THEOREM OwnReport == Spec => []ReportIsOwn
  BY Invariance, PTL DEF TInv

\* A report that is there stays its creator's, and stays as it is once whole.
THEOREM ImmutableEvidence == Spec => EvidenceImmutable
  <1>1. ASSUME TInv, [Next]_vars
        PROVE file # NoFile => file'.by = file.by /\ (file.whole => file' = file)
    <2> SUFFICES ASSUME file # NoFile PROVE file'.by = file.by /\ (file.whole => file' = file)
      OBVIOUS
    <2>1. CASE file' = file BY <2>1
    <2>2. CASE \E r \in Run : Create(r) BY <2>2 DEF Create
    <2>3. CASE \E r \in Run : Write(r)
      <3>1. PICK r \in Run : Write(r) BY <2>3
      <3>2. ~file.whole BY <1>1, <3>1 DEF Write, Goto, TInv, Owned
      <3>3. QED BY <1>1, <3>1, <3>2 DEF Write, TInv, TypeOK
    <2>4. QED
      BY <1>1, <2>1, <2>2, <2>3 DEF Next, RunStep, vars, Start, ReadGateway, ReadHealth, Ask,
         Final, Fail, Die, Update, Propagate, Provision, Turn, Others
  <1>2. QED BY <1>1, Invariance, PTL DEF Spec, EvidenceImmutable

\* A pass means that every answer was routed by the one configuration the report
\* names, however often the gateway was changed around the run.
THEOREM SampledConfiguration == Spec => OneConfiguration
  <1>1. ASSUME TInv, [Next]_vars
        PROVE \A r \in Run : pc[r] = "final" /\ report'[r].result = "passed"
                                => under[r] = {report[r].etag}
    <2> SUFFICES ASSUME NEW r \in Run, pc[r] = "final", report'[r].result = "passed"
                 PROVE under[r] = {report[r].etag}
      OBVIOUS
    <2>1. report[r].result # "passed" BY <1>1 DEF TInv, Owned
    <2>2. Final(r)
      <3>1. report' # report BY <2>1
      <3>2. PICK q \in Run : RunStep(q)
        BY <1>1, <3>1 DEF Next, vars, Update, Propagate, Provision, Turn, Others
      <3>3. ReadGateway(q) \/ Final(q) \/ Fail(q)
        BY <3>1, <3>2 DEF RunStep, Start, ReadHealth, Ask, Create, Write, Die
      <3>4. report'[r] # report[r] BY <2>1
      <3>5. ~ReadGateway(q) BY <1>1, <2>1, <3>4 DEF ReadGateway, TInv, TypeOK
      <3>6. ~Fail(q) BY <1>1, <2>1, <3>4 DEF Fail, TInv, TypeOK
      <3>7. q = r BY <1>1, <3>3, <3>4, <3>5, <3>6 DEF Final, TInv, TypeOK
      <3>8. QED BY <3>3, <3>5, <3>6, <3>7
    <2>3. conf.etag = report[r].etag BY <2>2 DEF Final, Unchanged
    <2>4. under[r] \subseteq {conf.etag} /\ under[r] # {}
      BY <1>1, <2>3 DEF TInv, Provenance, Counted
    <2>5. QED BY <2>3, <2>4
  <1>2. QED BY <1>1, Invariance, PTL DEF Spec, OneConfiguration
=============================================================================
