--------------------------- MODULE ExampleProofs ---------------------------
(***************************************************************************)
(* The two harnesses and the driver above them, proved for every bound on  *)
(* signals and upsets: what the steps of execute() build up, what cleanup  *)
(* leaves, and what the driver may conclude from an exit status.           *)
(*                                                                         *)
(* execute() is data, so its order is too: the first part says where in    *)
(* the two programs the steps stand that the invariant speaks about.       *)
(***************************************************************************)
EXTENDS WorkedExample, SequenceTheorems, TLAPS

-----------------------------------------------------------------------------
(* The programs, step by step                                              *)

Harness == {"direct", "argocd"}

\* Where, in the program of harness m: the first use of each resource, the
\* releases that later steps rely on, and what happens to the endpoint.
Tracks(m, r) ==
    IF r = "registry" THEN 1 ELSE IF r = "aks01" THEN 3 ELSE IF r = "aks02" THEN 5
    ELSE IF r = "first" THEN (IF m = "direct" THEN 11 ELSE 13)
    ELSE (IF m = "direct" THEN 22 ELSE 29)
FirstRelease(m) == IF m = "direct" THEN 16 ELSE 22  \* aks01 checked with first
Opens(m)     == IF m = "direct" THEN 20 ELSE 27
Compares(m)  == IF m = "direct" THEN 25 ELSE 32
Updates(m)   == IF m = "direct" THEN 27 ELSE 36     \* aks02 checked with second
CutsOver(m)  == IF m = "direct" THEN 29 ELSE 39
RollsBack(m) == IF m = "direct" THEN 31 ELSE 41
Restores(m)  == IF m = "direct" THEN 33 ELSE 45     \* aks02 leaves second
Approves(m)  == IF m = "direct" THEN 34 ELSE 57     \* aks02 checked with first, last
Closes(m)    == IF m = "direct" THEN 36 ELSE 47
Finishes(m)  == IF m = "direct" THEN 38 ELSE 63
TierAt(m)    == << 7, 10, IF m = "direct" THEN 37 ELSE 60 >>
TrafficAt(m) == << Opens(m) + 1, CutsOver(m) - 1, CutsOver(m) + 1, RollsBack(m) + 1 >>

Tiers == << "infrastructure", "platform", "application" >>
Rows == << [step |-> "initial-active", slot |-> "aks01", rev |-> "first"],
           [step |-> "standby-updated-active-unchanged", slot |-> "aks01", rev |-> "first"],
           [step |-> "traffic-cutover", slot |-> "aks02", rev |-> "second"],
           [step |-> "traffic-rollback", slot |-> "aks01", rev |-> "first"] >>

\* Both programs end where Finishes says.
LEMMA ProgramLength ==
  ASSUME NEW m \in Harness PROVE Len(Programs[m]) = Finishes(m)
  <1>1. CASE m = "direct"
    BY <1>1 DEF Programs, DirectProgram, ArgoProgram, Prepare, Introduce, UpdateAndCutover,
         Build, Stage, Release, Cutover, Do, Finishes
  <1>2. CASE m = "argocd"
    BY <1>2 DEF Programs, DirectProgram, ArgoProgram, Prepare, Introduce, UpdateAndCutover,
         Build, Stage, Release, Cutover, Do, Finishes
  <1> QED
    BY <1>1, <1>2 DEF Harness

\* The stable endpoint is opened, cut over, rolled back and closed once.
EndpointStep(m, i, s) ==
    /\ s.op = "open" <=> i = Opens(m)
    /\ s.op = "switch" <=> i \in {CutsOver(m), RollsBack(m)}
    /\ i = CutsOver(m) => s.on = "aks02"
    /\ i = RollsBack(m) => s.on = "aks01"
    /\ s.op = "close" <=> i = Closes(m)
    /\ s.op = "pass" <=> i = Finishes(m)

\* It is so in both programs.
LEMMA EndpointSteps ==
  ASSUME NEW m \in Harness, NEW i \in 1..Finishes(m) PROVE EndpointStep(m, i, Programs[m][i])
  <1>1. CASE m = "direct"
    BY <1>1 DEF Programs, DirectProgram, ArgoProgram, Prepare, Introduce, UpdateAndCutover,
         Build, Stage, Release, Cutover, Do, EndpointStep, Opens, CutsOver, RollsBack, Closes, Finishes
  <1>2. CASE m = "argocd"
    BY <1>2 DEF Programs, DirectProgram, ArgoProgram, Prepare, Introduce, UpdateAndCutover,
         Build, Stage, Release, Cutover, Do, EndpointStep, Opens, CutsOver, RollsBack, Closes, Finishes
  <1> QED
    BY <1>1, <1>2 DEF Harness

\* Where a slot is released to, and where the release is checked.
ReleaseStep(m, i, s) ==
    /\ s.op \in {"deploy", "sync", "drift", "reject"} =>
          \/ s.on = "aks01" /\ i < FirstRelease(m)
          \/ s.on = "aks02" /\ (i < Updates(m) \/ (Restores(m) <= i /\ i < Approves(m)))
    /\ s.op \in {"deploy", "release"} => s.rev \in Revision
    /\ i = FirstRelease(m) => s = Do("release", "aks01", "first")
    /\ i = Updates(m) => s = Do("release", "aks02", "second")
    /\ i = Approves(m) => s = Do("release", "aks02", "first")

\* It is so in both programs.
LEMMA ReleaseSteps ==
  ASSUME NEW m \in Harness, NEW i \in 1..Finishes(m) PROVE ReleaseStep(m, i, Programs[m][i])
  <1>1. CASE m = "direct"
    BY <1>1 DEF Programs, DirectProgram, ArgoProgram, Prepare, Introduce, UpdateAndCutover,
         Build, Stage, Release, Cutover, Do, ReleaseStep, Revision, FirstRelease, Updates, Restores,
         Approves, Finishes
  <1>2. CASE m = "argocd"
    BY <1>2 DEF Programs, DirectProgram, ArgoProgram, Prepare, Introduce, UpdateAndCutover,
         Build, Stage, Release, Cutover, Do, ReleaseStep, Revision, FirstRelease, Updates, Restores,
         Approves, Finishes
  <1> QED
    BY <1>1, <1>2 DEF Harness

\* Every resource is tracked once, and created only after that.
ResourceStep(m, i, s) ==
    /\ s.op = "track" => s.on \in Resource /\ i = Tracks(m, s.on)
    /\ s.op = "create" => s.on \in Resource /\ i > Tracks(m, s.on)
    /\ s.op = "push" => s.on \in Revision /\ i < Compares(m)
    /\ s.op = "distinct" <=> i = Compares(m)

\* It is so in both programs.
LEMMA ResourceSteps ==
  ASSUME NEW m \in Harness, NEW i \in 1..Finishes(m) PROVE ResourceStep(m, i, Programs[m][i])
  <1>1. CASE m = "direct"
    BY <1>1 DEF Programs, DirectProgram, ArgoProgram, Prepare, Introduce, UpdateAndCutover,
         Build, Stage, Release, Cutover, Do, ResourceStep, Revision, Slots, Resource, Tracks, Compares,
         Finishes
  <1>2. CASE m = "argocd"
    <2> DEFINE s == Programs[m][i]
    <2> USE <1>2 DEF Programs, DirectProgram, ArgoProgram, Prepare, Introduce, UpdateAndCutover,
               Build, Stage, Release, Cutover, Do, Revision, Slots, Resource, Tracks, Compares,
               Finishes
    <2>1. s.op = "track" => s.on \in Resource /\ i = Tracks(m, s.on)
      OBVIOUS
    <2>2. s.op = "create" => s.on \in Resource /\ i > Tracks(m, s.on)
      OBVIOUS
    <2>3. s.op = "push" => s.on \in Revision /\ i < Compares(m)
      OBVIOUS
    <2>4. s.op = "distinct" <=> i = Compares(m)
      OBVIOUS
    <2> HIDE DEF Programs, Tracks, Compares
    <2> QED
      BY <2>1, <2>2, <2>3, <2>4 DEF ResourceStep
  <1> QED
    BY <1>1, <1>2 DEF Harness

\* Each resource has its turn.
TrackStep(m, i, s) ==
    /\ i = Tracks(m, "registry") => s = Do("track", "registry", "-")
    /\ i = Tracks(m, "aks01") => s = Do("track", "aks01", "-")
    /\ i = Tracks(m, "aks02") => s = Do("track", "aks02", "-")
    /\ i = Tracks(m, "first") => s = Do("track", "first", "-")
    /\ i = Tracks(m, "second") => s = Do("track", "second", "-")

\* It is so in both programs.
LEMMA TrackSteps ==
  ASSUME NEW m \in Harness, NEW i \in 1..Finishes(m) PROVE TrackStep(m, i, Programs[m][i])
  <1>1. CASE m = "direct"
    BY <1>1 DEF Programs, DirectProgram, ArgoProgram, Prepare, Introduce, UpdateAndCutover,
         Build, Stage, Release, Cutover, Do, TrackStep, Tracks, Finishes
  <1>2. CASE m = "argocd"
    BY <1>2 DEF Programs, DirectProgram, ArgoProgram, Prepare, Introduce, UpdateAndCutover,
         Build, Stage, Release, Cutover, Do, TrackStep, Tracks, Finishes
  <1> QED
    BY <1>1, <1>2 DEF Harness

\* The four traffic checks, and what each has to see.
TrafficRow(m, i, s) ==
    /\ s.op = "traffic" <=> \E k \in 1..4 : i = TrafficAt(m)[k]
    /\ i = TrafficAt(m)[1] => s = Do("traffic", "initial-active", "first")
    /\ i = TrafficAt(m)[2] => s = Do("traffic", "standby-updated-active-unchanged", "first")
    /\ i = TrafficAt(m)[3] => s = Do("traffic", "traffic-cutover", "second")
    /\ i = TrafficAt(m)[4] => s = Do("traffic", "traffic-rollback", "first")

\* It is so in both programs.
LEMMA TrafficRows ==
  ASSUME NEW m \in Harness, NEW i \in 1..Finishes(m) PROVE TrafficRow(m, i, Programs[m][i])
  <1>1. CASE m = "direct"
    BY <1>1 DEF Programs, DirectProgram, ArgoProgram, Prepare, Introduce, UpdateAndCutover,
         Build, Stage, Release, Cutover, Do, TrafficRow, TrafficAt, Opens, CutsOver, RollsBack,
         Finishes
  <1>2. CASE m = "argocd"
    BY <1>2 DEF Programs, DirectProgram, ArgoProgram, Prepare, Introduce, UpdateAndCutover,
         Build, Stage, Release, Cutover, Do, TrafficRow, TrafficAt, Opens, CutsOver, RollsBack,
         Finishes
  <1> QED
    BY <1>1, <1>2 DEF Harness

\* The three tiers.
TierStep(m, i, s) ==
    /\ s.op = "tier" <=> \E k \in 1..3 : i = TierAt(m)[k]
    /\ \A k \in 1..3 : i = TierAt(m)[k] => s.on = Tiers[k]

\* It is so in both programs.
LEMMA TierSteps ==
  ASSUME NEW m \in Harness, NEW i \in 1..Finishes(m) PROVE TierStep(m, i, Programs[m][i])
  <1>1. CASE m = "direct"
    BY <1>1 DEF Programs, DirectProgram, ArgoProgram, Prepare, Introduce, UpdateAndCutover,
         Build, Stage, Release, Cutover, Do, TierStep, TierAt, Tiers, Finishes
  <1>2. CASE m = "argocd"
    BY <1>2 DEF Programs, DirectProgram, ArgoProgram, Prepare, Introduce, UpdateAndCutover,
         Build, Stage, Release, Cutover, Do, TierStep, TierAt, Tiers, Finishes
  <1> QED
    BY <1>1, <1>2 DEF Harness

\* Both slots get the platform.
PlatformStep(m, i, s) ==
    /\ s.op = "platform" => s.on \in Slots
    /\ i = 8 => s = Do("platform", "aks01", "-")
    /\ i = 9 => s = Do("platform", "aks02", "-")

\* It is so in both programs.
LEMMA PlatformSteps ==
  ASSUME NEW m \in Harness, NEW i \in 1..Finishes(m) PROVE PlatformStep(m, i, Programs[m][i])
  <1>1. CASE m = "direct"
    BY <1>1 DEF Programs, DirectProgram, ArgoProgram, Prepare, Introduce, UpdateAndCutover,
         Build, Stage, Release, Cutover, Do, PlatformStep, Slots, Finishes
  <1>2. CASE m = "argocd"
    BY <1>2 DEF Programs, DirectProgram, ArgoProgram, Prepare, Introduce, UpdateAndCutover,
         Build, Stage, Release, Cutover, Do, PlatformStep, Slots, Finishes
  <1> QED
    BY <1>1, <1>2 DEF Harness

\* The direct method deploys to both slots, to aks01 first.
ApplicationStep(m, i, s) ==
    m = "direct" => /\ i = 15 => s = Do("deploy", "aks01", "first")
                    /\ i = 18 => s = Do("deploy", "aks02", "first")

\* It is so in both programs.
LEMMA ApplicationSteps ==
  ASSUME NEW m \in Harness, NEW i \in 1..Finishes(m) PROVE ApplicationStep(m, i, Programs[m][i])
  <1>1. CASE m = "direct"
    BY <1>1 DEF Programs, DirectProgram, ArgoProgram, Prepare, Introduce, UpdateAndCutover,
         Build, Stage, Release, Cutover, Do, ApplicationStep, Finishes
  <1>2. CASE m = "argocd"
    BY <1>2 DEF Programs, DirectProgram, ArgoProgram, Prepare, Introduce, UpdateAndCutover,
         Build, Stage, Release, Cutover, Do, ApplicationStep, Finishes
  <1> QED
    BY <1>1, <1>2 DEF Harness

\* The steps that release to a slot name one.
SlotStep(m, i, s) ==
    s.op \in {"grant", "identity", "deploy", "release", "stage", "sync"} => s.on \in Slots

\* It is so in both programs.
LEMMA SlotSteps ==
  ASSUME NEW m \in Harness, NEW i \in 1..Finishes(m) PROVE SlotStep(m, i, Programs[m][i])
  <1>1. CASE m = "direct"
    BY <1>1 DEF Programs, DirectProgram, ArgoProgram, Prepare, Introduce, UpdateAndCutover,
         Build, Stage, Release, Cutover, Do, SlotStep, Slots, Finishes
  <1>2. CASE m = "argocd"
    BY <1>2 DEF Programs, DirectProgram, ArgoProgram, Prepare, Introduce, UpdateAndCutover,
         Build, Stage, Release, Cutover, Do, SlotStep, Slots, Finishes
  <1> QED
    BY <1>1, <1>2 DEF Harness

\* So do the other steps on a slot, and the switch of the traffic.
OtherSlotStep(m, i, s) ==
    s.op \in {"reject", "drift", "unsynced", "retire", "switch"} => s.on \in Slots

\* It is so in both programs.
LEMMA OtherSlotSteps ==
  ASSUME NEW m \in Harness, NEW i \in 1..Finishes(m) PROVE OtherSlotStep(m, i, Programs[m][i])
  <1>1. CASE m = "direct"
    BY <1>1 DEF Programs, DirectProgram, ArgoProgram, Prepare, Introduce, UpdateAndCutover,
         Build, Stage, Release, Cutover, Do, OtherSlotStep, Slots, Finishes
  <1>2. CASE m = "argocd"
    BY <1>2 DEF Programs, DirectProgram, ArgoProgram, Prepare, Introduce, UpdateAndCutover,
         Build, Stage, Release, Cutover, Do, OtherSlotStep, Slots, Finishes
  <1> QED
    BY <1>1, <1>2 DEF Harness

\* What is staged is a revision or the invalid manifest.
FilesStep(m, i, s) ==
    s.op = "stage" => s.rev \in Revision \cup {"invalid"}

\* It is so in both programs.
LEMMA FilesSteps ==
  ASSUME NEW m \in Harness, NEW i \in 1..Finishes(m) PROVE FilesStep(m, i, Programs[m][i])
  <1>1. CASE m = "direct"
    BY <1>1 DEF Programs, DirectProgram, ArgoProgram, Prepare, Introduce, UpdateAndCutover,
         Build, Stage, Release, Cutover, Do, FilesStep, Revision, Finishes
  <1>2. CASE m = "argocd"
    BY <1>2 DEF Programs, DirectProgram, ArgoProgram, Prepare, Introduce, UpdateAndCutover,
         Build, Stage, Release, Cutover, Do, FilesStep, Revision, Finishes
  <1> QED
    BY <1>1, <1>2 DEF Harness

\* The harness that runs is one of the two.
LEMMA MethodsAreHarnesses ==
  /\ Methods \in Seq(Harness) /\ Len(Methods) > 0
  /\ ToSet(Methods) \subseteq Harness
  <1>1. CASE Method = "both"
    BY <1>1 DEF Methods, ToSet, Harness
  <1>2. CASE Method # "both"
    BY <1>2, AcceptanceAssumption DEF Methods, ToSet, Harness
  <1> QED
    BY <1>1, <1>2

\* What the step at hand is, by where it stands.
LEMMA Here ==
  ASSUME TypeOK, at <= Len(Program)
  PROVE  /\ method \in Harness /\ at \in 1..Finishes(method)
         /\ EndpointStep(method, at, Step) /\ ReleaseStep(method, at, Step)
         /\ ResourceStep(method, at, Step) /\ TrackStep(method, at, Step)
         /\ TrafficRow(method, at, Step) /\ TierStep(method, at, Step)
         /\ PlatformStep(method, at, Step) /\ ApplicationStep(method, at, Step)
         /\ SlotStep(method, at, Step) /\ OtherSlotStep(method, at, Step)
         /\ FilesStep(method, at, Step)
  <1>1. method \in Harness /\ at \in Nat /\ at >= 1
    BY MethodsAreHarnesses DEF TypeOK
  <1>2. at \in 1..Finishes(method)
    <2>1. Len(Program) = Finishes(method) /\ Finishes(method) \in Nat
      BY <1>1, ProgramLength DEF Program, Finishes
    <2> QED
      BY <1>1, <2>1
  <1> QED
    BY <1>1, <1>2, EndpointSteps, ReleaseSteps, ResourceSteps, TrackSteps, TrafficRows,
       TierSteps, PlatformSteps, ApplicationSteps, SlotSteps, OtherSlotSteps, FilesSteps
       DEF Step, Program

-----------------------------------------------------------------------------
(* Sequences as the sets of their elements                                 *)

\* An element appended joins the set.
LEMMA SetOfAppend ==
  ASSUME NEW S, NEW s \in Seq(S), NEW x \in S
  PROVE  ToSet(Append(s, x)) = ToSet(s) \cup {x}
  <1> DEFINE t == Append(s, x)
  <1>1. /\ Len(t) = Len(s) + 1 /\ DOMAIN t = 1..Len(t) /\ DOMAIN s = 1..Len(s)
        /\ t[Len(s) + 1] = x
        /\ \A i \in 1..Len(s) : t[i] = s[i]
    BY AppendProperties
  <1> HIDE DEF t
  <1> QED
    BY <1>1 DEF ToSet

\* Two sequences in one hold what each of them holds.
LEMMA SetOfConcat ==
  ASSUME NEW S, NEW s \in Seq(S), NEW t \in Seq(S)
  PROVE  s \o t \in Seq(S) /\ ToSet(s \o t) = ToSet(s) \cup ToSet(t)
  <1> DEFINE u == s \o t
  <1>1. /\ u \in Seq(S) /\ Len(u) = Len(s) + Len(t) /\ DOMAIN u = 1..Len(u)
        /\ DOMAIN s = 1..Len(s) /\ DOMAIN t = 1..Len(t)
        /\ \A i \in 1..Len(s) : u[i] = s[i]
        /\ \A i \in 1..Len(t) : u[Len(s) + i] = t[i]
    BY ConcatProperties
  <1> HIDE DEF u
  <1>2. ASSUME NEW i \in 1..Len(u) PROVE u[i] \in ToSet(s) \cup ToSet(t)
    <2>1. CASE i <= Len(s)
      <3>1. i \in DOMAIN s /\ u[i] = s[i]
        BY <1>1, <2>1
      <3> QED
        BY <3>1 DEF ToSet
    <2>2. CASE i > Len(s)
      <3>1. (i - Len(s)) \in 1..Len(t) /\ u[i] = t[i - Len(s)]
        BY <1>1, <2>2
      <3> QED
        BY <1>1, <3>1 DEF ToSet
    <2> QED
      BY <2>1, <2>2
  <1>3. ASSUME NEW i \in 1..Len(s) PROVE s[i] \in ToSet(u)
    BY <1>1 DEF ToSet
  <1>4. ASSUME NEW i \in 1..Len(t) PROVE t[i] \in ToSet(u)
    <2>1. Len(s) + i \in DOMAIN u /\ u[Len(s) + i] = t[i]
      BY <1>1
    <2> QED
      BY <2>1 DEF ToSet
  <1>5. ASSUME NEW x \in ToSet(u) PROVE x \in ToSet(s) \cup ToSet(t)
    <2>1. PICK i \in 1..Len(u) : x = u[i]
      BY <1>1 DEF ToSet
    <2> QED
      BY <2>1, <1>2
  <1>6. ASSUME NEW x \in ToSet(s) \cup ToSet(t) PROVE x \in ToSet(u)
    <2>1. (\E i \in 1..Len(s) : x = s[i]) \/ (\E i \in 1..Len(t) : x = t[i])
      BY <1>1 DEF ToSet
    <2> QED
      BY <2>1, <1>3, <1>4
  <1> QED
    BY <1>1, <1>5, <1>6 DEF u

\* A sequence backwards holds the same.
LEMMA SetOfReverse ==
  ASSUME NEW S, NEW s \in Seq(S)
  PROVE  Reverse(s) \in Seq(S) /\ ToSet(Reverse(s)) = ToSet(s)
  <1> DEFINE r == Reverse(s)
  <1>1. /\ r \in Seq(S) /\ DOMAIN r = 1..Len(s) /\ DOMAIN s = 1..Len(s) /\ Len(s) \in Nat
        /\ \A i \in 1..Len(s) : r[i] = s[Len(s) - i + 1]
    BY DEF Reverse
  <1> HIDE DEF r
  <1>2. ASSUME NEW i \in 1..Len(s) PROVE r[i] \in ToSet(s)
    BY <1>1, Len(s) - i + 1 \in 1..Len(s) DEF ToSet
  <1>3. ASSUME NEW i \in 1..Len(s) PROVE s[i] \in ToSet(r)
    <2>1. Len(s) - i + 1 \in 1..Len(s) /\ r[Len(s) - i + 1] = s[i]
      BY <1>1
    <2> QED
      BY <1>1, <2>1 DEF ToSet
  <1>4. ASSUME NEW x \in ToSet(r) PROVE x \in ToSet(s)
    <2>1. PICK i \in 1..Len(s) : x = r[i]
      BY <1>1 DEF ToSet
    <2> QED
      BY <2>1, <1>2
  <1>5. ASSUME NEW x \in ToSet(s) PROVE x \in ToSet(r)
    <2>1. PICK i \in 1..Len(s) : x = s[i]
      BY <1>1 DEF ToSet
    <2> QED
      BY <2>1, <1>3
  <1> QED
    BY <1>1, <1>4, <1>5 DEF r

\* What is not the head of a sequence is in the rest of it.
LEMMA SetOfTail ==
  ASSUME NEW S, NEW s \in Seq(S), s # << >>
  PROVE  ToSet(s) \subseteq {Head(s)} \cup ToSet(Tail(s))
  <1>1. /\ DOMAIN s = 1..Len(s) /\ Head(s) = s[1] /\ Len(s) \in Nat
        /\ DOMAIN Tail(s) = 1..(Len(s) - 1)
        /\ \A i \in 1..(Len(s) - 1) : Tail(s)[i] = s[i + 1]
    BY HeadTailProperties
  <1>2. ASSUME NEW i \in 2..Len(s) PROVE s[i] \in ToSet(Tail(s))
    <2>1. i - 1 \in 1..(Len(s) - 1) /\ Tail(s)[i - 1] = s[i]
      BY <1>1
    <2> QED
      BY <1>1, <2>1 DEF ToSet
  <1> QED
    BY <1>1, <1>2 DEF ToSet

-----------------------------------------------------------------------------
(* The inductive invariant                                                 *)

\* The step execute() is at, when it runs; after it, the end of the program.
Position ==
    /\ at \in 1..(Finishes(method) + 1)
    /\ phase = "running" => at <= Finishes(method) /\ record.result = "running"
    /\ phase \notin {"running", "killed"} => at = Finishes(method) + 1
    /\ record.result = "passed" => phase # "running" /\ at = Finishes(method) + 1

\* execute() has not been left through an exception.
Sound == phase = "running" \/ record.result = "passed"

\* The relay's target follows from the position alone.
Endpoint ==
    active = IF phase # "running" \/ at <= Opens(method) \/ at > Closes(method) THEN "closed"
             ELSE IF CutsOver(method) < at /\ at <= RollsBack(method) THEN "aks02" ELSE "aks01"

\* The report holds what the steps up to here have recorded, in their order.
Recorded(i, log, all, when) ==
    /\ Len(log) <= Len(all)
    /\ \A k \in 1..Len(all) : k <= Len(log) <=> i > when[k]
    /\ \A k \in 1..Len(log) : log[k] = all[k]

Evidence ==
    Sound => /\ Recorded(at, record.traffic, Rows, TrafficAt(method))
             /\ Recorded(at, record.tiers, Tiers, TierAt(method))
             /\ at > 8 => "aks01" \in record.platform
             /\ at > 9 => "aks02" \in record.platform
             /\ method = "direct" /\ at > 15 => "aks01" \in record.application
             /\ method = "direct" /\ at > 18 => "aks02" \in record.application

\* Two different images from the comparison on, and for every row after it.
Different == digest["first"] # digest["second"]
TwoImages ==
    /\ Sound /\ at > Compares(method) => Different
    /\ Len(record.traffic) > 1 => Different

\* What cleanup() will delete, and that each resource gets there in time.
Known ==
    ToSet(tracked.clusters) \cup (IF tracked.registry THEN {"registry"} ELSE {})
    \cup ToSet(tracked.images)

KnownInTime ==
    /\ existing \subseteq Known
    /\ phase = "running" => \A r \in Resource : at > Tracks(method, r) => r \in Known

\* What each cluster serves between the checks, unless one misbehaves.
Serves ==
    upsets = 0 /\ (phase = "running" \/ (phase = "unwound" /\ record.result = "passed")) =>
        /\ at > FirstRelease(method) => serving["aks01"] = "first"
        /\ Updates(method) < at /\ at <= Restores(method) => serving["aks02"] = "second"
        /\ at > Approves(method) => serving["aks02"] = "first"

\* What is left is still to be deleted, or its deletion is reported.
Cleaned ==
    /\ phase \in {"cleaning", "deleting", "reporting"} => existing \subseteq ToSet(todo) \cup record.errors
    /\ phase = "reporting" => todo = << >>
    /\ phase = "exited" /\ ~cut => existing \subseteq record.errors
    /\ phase \in {"running", "unwound"} => record.errors = {}
    /\ record.errors # {} => record.result = "failed"

\* What an exit status says.
Exits ==
    /\ cut \/ exit # "none" => phase = "exited"
    /\ phase = "exited" => exit # "none"
    /\ exit = "zero" => ~cut /\ record.result = "passed" /\ saved = {"local", "published"}

HarnessInv ==
    Position /\ Endpoint /\ Evidence /\ TwoImages /\ KnownInTime /\ Serves /\ Cleaned /\ Exits

\* The driver has accepted the harnesses before this one, in order.
Waits == {"setup", "waiting", "interrupted", "orphaned"}
Accepted ==
    /\ Len(passed) <= Len(Methods)
    /\ \A k \in 1..Len(passed) : passed[k] = Methods[k]
    /\ stage \in Waits => /\ Len(passed) < Len(Methods)
                          /\ method = Methods[Len(passed) + 1]
                          /\ result = "running"
    /\ result = "passed" => passed = Methods /\ existing = {}
    /\ summary # "none" => stage = "ended" /\ summary = result
    /\ status = "zero" => stage = "ended" /\ summary = "passed"

ExampleInv == DriverTypeOK /\ HarnessInv /\ Accepted

\* cleanup() deletes exactly what has been tracked.
LEMMA DeletionsAreKnown ==
  ASSUME TypeOK PROVE Deletions \in Seq(Resource) /\ ToSet(Deletions) = Known
  <1> DEFINE c == Reverse(tracked.clusters)
             r == IF tracked.registry THEN << "registry" >> ELSE << >>
  <1>1. c \in Seq(Resource) /\ ToSet(c) = ToSet(tracked.clusters)
    <2>1. tracked.clusters \in Seq(Resource)
      BY DEF TypeOK, Resource
    <2> QED
      BY <2>1, SetOfReverse
  <1>2. r \in Seq(Resource) /\ ToSet(r) = IF tracked.registry THEN {"registry"} ELSE {}
    <2>1. CASE tracked.registry
      BY <2>1 DEF Resource, ToSet
    <2>2. CASE ~tracked.registry
      BY <2>2 DEF ToSet
    <2> QED
      BY <2>1, <2>2
  <1>3. tracked.images \in Seq(Resource)
    BY DEF TypeOK, Resource
  <1> HIDE DEF c, r
  <1> DEFINE d == c \o r
  <1>4. d \in Seq(Resource) /\ ToSet(d) = ToSet(c) \cup ToSet(r)
    BY <1>1, <1>2, SetOfConcat
  <1> HIDE DEF d
  <1>5. d \o tracked.images \in Seq(Resource)
        /\ ToSet(d \o tracked.images) = ToSet(d) \cup ToSet(tracked.images)
    BY <1>3, <1>4, SetOfConcat
  <1> QED
    BY <1>1, <1>2, <1>4, <1>5 DEF Deletions, Known, c, r, d

-----------------------------------------------------------------------------
(* What each step of a harness changes                                     *)

HarnessStep == Work \/ Signal \/ SignalInCleanup \/ Upsets

\* A step of execute() that succeeds, one that ends in an exception, and a
\* step of what follows.
Goes ==
    /\ phase = "running" /\ at <= Len(Program) /\ Step.op # "pass"
    /\ Advance /\ UNCHANGED <<cleanVars, faultVars>>
Leaves == phase = "running" /\ \E kind \in {"error", "assertion", "interrupt"} : Raise(kind)
Cleans == \/ EnterCleanup \/ Diagnose \/ DeleteNext \/ WriteReport \/ ReportFails \/ Exit
          \/ SignalInCleanup

\* Every step is of one of those kinds, the last step of execute(), or a
\* cluster that misbehaves.
LEMMA Kinds ==
  ASSUME HarnessStep PROVE Goes \/ Leaves \/ Pass \/ Cleans \/ Upsets
  <1> USE DEF At, Advance, Calm, Goes, Leaves
  <1>1. CASE Track \/ Push \/ Tier \/ Platform \/ Bootstrap \/ Distinct \/ ReleaseCheck
    BY <1>1 DEF Track, Push, Tier, Platform, Bootstrap, Distinct, ReleaseCheck
  <1>2. CASE StageFiles \/ Commit \/ Drift \/ Unsynced \/ Retire
    BY <1>2 DEF StageFiles, Commit, Drift, Unsynced, Retire
  <1>3. CASE Open \/ SwitchTraffic \/ TrafficCheck \/ Close
    BY <1>3 DEF Open, SwitchTraffic, TrafficCheck, Close
  <1>4. CASE Create \/ Grant \/ Deploy
    BY <1>4 DEF Create, Grant, Deploy
  <1>7. CASE CreateApplication \/ InstallSyncIdentity
    BY <1>7 DEF CreateApplication, InstallSyncIdentity
  <1>5. CASE Sync \/ Reject
    BY <1>5 DEF Sync, Reject
  <1>6. CASE StepFails \/ Signal
    BY <1>6 DEF StepFails, Fails, Signal
  <1> QED
    BY HarnessStep, <1>1, <1>2, <1>3, <1>4, <1>5, <1>6, <1>7 DEF HarnessStep, Work, Cleans

\* After execute() the position stays and execute() is not entered again.
LEMMA Cleaning ==
  ASSUME Cleans
  PROVE  /\ at' = at /\ phase \in {"unwound", "cleaning", "deleting", "reporting"}
         /\ phase' \in {"cleaning", "deleting", "reporting", "exited"}
  BY DEF Cleans, EnterCleanup, Diagnose, DeleteNext, WriteReport, ReportFails, Exit,
         SignalInCleanup, Inside, Outside

\* A cluster that misbehaves changes what it serves, and nothing else.
LEMMA Misbehaving ==
  ASSUME Upsets
  PROVE  /\ phase = "running" /\ UNCHANGED <<at, phase>> /\ upsets < MaxUpsets /\ upsets' = upsets + 1
         /\ UNCHANGED <<record, saved, exit, cut, signals>>
  BY DEF Upsets, Upset, cleanVars

\* Each kind of step of execute() has an action of its own.
LEMMA Acts ==
  ASSUME HarnessStep, Goes, at \in Nat
  PROVE  /\ Step.op = "track" => Track
         /\ Step.op = "tier" => Tier
         /\ Step.op = "platform" => Platform
         /\ Step.op = "distinct" => Distinct
         /\ Step.op = "deploy" => Deploy
         /\ Step.op = "release" => ReleaseCheck
         /\ Step.op = "open" => Open
         /\ Step.op = "switch" => SwitchTraffic
         /\ Step.op = "traffic" => TrafficCheck
         /\ Step.op = "close" => Close
  <1> USE DEF At, Goes, Advance
  <1>1. CASE Create \/ Push \/ Bootstrap \/ Grant \/ StageFiles \/ Commit
    BY <1>1 DEF Create, Push, Bootstrap, Grant, StageFiles, Commit
  <1>6. CASE CreateApplication \/ InstallSyncIdentity
    BY <1>6 DEF CreateApplication, InstallSyncIdentity
  <1>2. CASE Sync \/ Reject \/ Drift \/ Unsynced \/ Retire \/ Pass
    BY <1>2 DEF Sync, Reject, Drift, Unsynced, Retire, Pass
  <1>3. CASE Track \/ Tier \/ Platform \/ Distinct \/ Deploy \/ ReleaseCheck
    BY <1>3 DEF Track, Tier, Platform, Distinct, Deploy, ReleaseCheck
  <1>4. CASE Open \/ SwitchTraffic \/ TrafficCheck \/ Close
    BY <1>4 DEF Open, SwitchTraffic, TrafficCheck, Close
  <1>5. ~StepFails /\ ~Signal /\ ~Cleans /\ ~Upsets
    BY Cleaning, Misbehaving DEF StepFails, Fails, Signal, Raise
  <1> QED
    BY HarnessStep, <1>1, <1>2, <1>3, <1>4, <1>5, <1>6 DEF HarnessStep, Work, Cleans

\* Which steps change what.
LEMMA Frames ==
  ASSUME HarnessStep
  PROVE  /\ method' = method
         /\ tracked' = tracked \/ Track
         /\ digest' = digest \/ Push
         /\ existing' = existing \/ Create \/ DeleteNext
         /\ granted' = granted \/ Grant \/ InstallSyncIdentity \/ Retire \/ DeleteNext
         /\ opRev' = opRev \/ Sync \/ Reject \/ DeleteNext
         /\ serving' = serving \/ Deploy \/ Sync \/ Reject \/ Drift \/ DeleteNext \/ Upsets
         /\ git' = git \/ StageFiles \/ Commit
         /\ active' = active \/ Open \/ SwitchTraffic \/ Close \/ Leaves
         /\ record' = record \/ Tier \/ Platform \/ Deploy \/ TrafficCheck \/ Pass \/ Leaves
                             \/ EnterCleanup \/ DeleteNext
         /\ todo' = todo \/ EnterCleanup \/ DeleteNext
         /\ UNCHANGED <<saved, exit, cut>> \/ Cleans
         /\ upsets' = upsets \/ Upsets
         /\ signals' = signals \/ (signals < MaxSignals /\ signals' = signals + 1)
  <1> USE DEF buildVars, clusterVars, cleanVars, faultVars, Calm, Inside, Outside, Cleans, At
  <1>0. \A kind \in {"error", "assertion", "interrupt"} : phase = "running" /\ Raise(kind)
              => Leaves /\ UNCHANGED <<todo, saved, exit, cut>>
    BY DEF Leaves, Raise
  <1>1. CASE Track \/ Push \/ Tier \/ Platform \/ Bootstrap \/ Distinct \/ ReleaseCheck \/ StageFiles \/ Commit
    BY <1>1 DEF Track, Push, Tier, Platform, Bootstrap, Distinct, ReleaseCheck, StageFiles, Commit
  <1>2. CASE Create \/ Grant \/ Deploy
    BY <1>0, <1>2 DEF Create, Grant, Deploy
  <1>9. CASE CreateApplication \/ InstallSyncIdentity
    BY <1>0, <1>9 DEF CreateApplication, InstallSyncIdentity
  <1>3. CASE Sync \/ Reject
    BY <1>0, <1>3 DEF Sync, Reject
  <1>4. CASE Drift \/ Unsynced \/ Retire \/ Open \/ SwitchTraffic \/ TrafficCheck \/ Close \/ Pass
    BY <1>4 DEF Drift, Unsynced, Retire, Open, SwitchTraffic, TrafficCheck, Close, Pass
  <1>5. CASE StepFails \/ Signal
    BY <1>0, <1>5 DEF StepFails, Signal, Fails
  <1>6. CASE Upsets
    BY <1>6 DEF Upsets, Upset
  <1>7. CASE EnterCleanup \/ Diagnose \/ DeleteNext \/ WriteReport
    BY <1>7 DEF EnterCleanup, Diagnose, DeleteNext, WriteReport
  <1>8. CASE ReportFails \/ Exit \/ SignalInCleanup
    BY <1>8 DEF ReportFails, Exit, SignalInCleanup
  <1> QED
    BY HarnessStep, <1>1, <1>2, <1>3, <1>4, <1>5, <1>6, <1>7, <1>8, <1>9 DEF HarnessStep, Work

\* An exception keeps the type of the report.
LEMMA LeavesTypes ==
  ASSUME TypeOK, Leaves
  PROVE  record' \in [result : {"running", "passed", "failed"}, failure : BOOLEAN,
                      errors : SUBSET Resource, tiers : Seq(TierName),
                      platform : SUBSET Slots, application : SUBSET Slots,
                      traffic : Seq([step : Check, slot : Slots, rev : Served])]
  <1>1. record' = record \/ record' = [record EXCEPT !.result = "failed", !.failure = TRUE]
    BY DEF Leaves, Raise
  <1>2. CASE record' = record
    BY <1>2 DEF TypeOK
  <1>3. CASE record' = [record EXCEPT !.result = "failed", !.failure = TRUE]
    BY <1>3 DEF TypeOK
  <1> QED
    BY <1>1, <1>2, <1>3

\* Every step keeps the types.
LEMMA TypeStays ==
  ASSUME TypeOK, Position, Endpoint, HarnessStep PROVE TypeOK'
  <1>f. /\ method \in Harness /\ method' = method /\ Program' = Program
        /\ Len(Program) = Finishes(method) /\ Finishes(method) \in Nat
    BY Frames, MethodsAreHarnesses, ProgramLength DEF TypeOK, Program, Finishes
  <1>1. method' \in ToSet(Methods) /\ at' \in 1..(Len(Program') + 1)
    BY <1>f, Kinds, Cleaning, Misbehaving DEF TypeOK, Goes, Advance, Leaves, Raise, Pass, At
  <1>2. phase' \in {"running", "unwound", "cleaning", "deleting", "reporting", "exited", "killed"}
    BY Kinds, Cleaning, Misbehaving DEF TypeOK, Goes, Advance, Leaves, Raise, Pass
  <1>3. tracked' \in [registry : BOOLEAN, clusters : Seq(Slots), images : Seq(Revision)]
    <2>1. CASE Track
      <3>1. Step.on \in Resource
        BY <2>1, Here DEF Track, At, ResourceStep
      <3>2. CASE Step.on = "registry"
        BY <2>1, <3>2 DEF Track, TypeOK, Slots, Revision
      <3>3. CASE Step.on \in Slots
        <4>1. Append(tracked.clusters, Step.on) \in Seq(Slots)
          BY <3>3 DEF TypeOK
        <4> QED
          BY <2>1, <3>3, <4>1 DEF Track, TypeOK, Slots, Revision
      <3>4. CASE Step.on \in Revision
        <4>1. Append(tracked.images, Step.on) \in Seq(Revision)
          BY <3>4 DEF TypeOK
        <4> QED
          BY <2>1, <3>4, <4>1 DEF Track, TypeOK, Slots, Revision
      <3> QED
        BY <3>1, <3>2, <3>3, <3>4 DEF Resource
    <2> QED
      BY <2>1, Frames DEF TypeOK
  <1>4. existing' \subseteq Resource
    <2>1. CASE Create
      BY <2>1, Here DEF Create, At, TypeOK, ResourceStep
    <2>2. CASE DeleteNext
      BY <2>2 DEF DeleteNext, Delete, Keep, TypeOK
    <2> QED
      BY <2>1, <2>2, Frames DEF TypeOK
  <1>5. digest' \in [Revision -> {"none", "d1", "d2"}]
    <2>1. CASE Push
      BY <2>1 DEF Push, TypeOK
    <2> QED
      BY <2>1, Frames DEF TypeOK
  <1>6. serving' \in [Slots -> Served]
    <2>1. CASE Deploy
      BY <2>1, Here DEF Deploy, At, TypeOK, ReleaseStep, Served
    <2>2. CASE Sync
      BY <2>2, Here DEF Sync, At, TypeOK, SlotStep, Served, Files
    <2>3. CASE Reject
      <3>1. Step.on \in Slots /\ git.head[Step.on] \in Files
        BY <2>3, Here DEF Reject, At, TypeOK, OtherSlotStep
      <3>2. CASE git.head[Step.on] = "invalid"
        BY <2>3, <3>2 DEF Reject, TypeOK
      <3>3. CASE git.head[Step.on] # "invalid"
        <4>1. serving' = [serving EXCEPT ![Step.on] = git.head[Step.on]]
          BY <2>3, <3>3 DEF Reject
        <4>2. git.head[Step.on] \in Served
          BY <3>1, <3>3 DEF Served, Files
        <4> QED
          BY <4>1, <4>2 DEF TypeOK
      <3> QED
        BY <3>2, <3>3
    <2>4. CASE Drift
      BY <2>4 DEF Drift, TypeOK, Served
    <2>5. CASE DeleteNext
      BY <2>5 DEF DeleteNext, Delete, Keep, clusterVars, TypeOK, Served
    <2>6. CASE Upsets
      BY <2>6 DEF Upsets, Upset, TypeOK, Served
    <2> QED
      BY <2>1, <2>2, <2>3, <2>4, <2>5, <2>6, Frames DEF TypeOK
  <1>7. granted' \subseteq Slots
    <2>1. CASE Grant
      BY <2>1, Here DEF Grant, At, TypeOK, SlotStep
    <2>4. CASE InstallSyncIdentity
      BY <2>4, Here DEF InstallSyncIdentity, At, TypeOK, SlotStep
    <2>2. CASE Retire
      BY <2>2 DEF Retire, TypeOK
    <2>3. CASE DeleteNext
      BY <2>3 DEF DeleteNext, Delete, Keep, clusterVars, TypeOK
    <2> QED
      BY <2>1, <2>2, <2>3, <2>4, Frames DEF TypeOK
  <1>8. opRev' \in [Slots -> Nat]
    <2>1. CASE Sync
      BY <2>1 DEF Sync, TypeOK
    <2>2. CASE Reject
      BY <2>2 DEF Reject, TypeOK
    <2>3. CASE DeleteNext
      <3>1. opRev' = opRev \/ opRev' = [s \in Slots |-> IF s = Head(todo) THEN 0 ELSE opRev[s]]
        BY <2>3 DEF DeleteNext, Delete, Keep, clusterVars
      <3>2. \A s \in Slots : opRev[s] \in Nat
        BY DEF TypeOK
      <3>3. \A s \in Slots : (IF s = Head(todo) THEN 0 ELSE opRev[s]) \in Nat
        BY <3>2
      <3> QED
        BY <3>1, <3>3 DEF TypeOK
    <2> QED
      BY <2>1, <2>2, <2>3, Frames DEF TypeOK
  <1>9. active' \in Slots \cup {"closed"}
    BY Frames, Here DEF TypeOK, Open, SwitchTraffic, Close, At, OtherSlotStep, Leaves, Raise, Slots
  <1>10. git' \in [files : [Slots -> Files], commits : Nat, head : [Slots -> Files]]
    <2>1. CASE StageFiles
      BY <2>1, Here DEF StageFiles, At, TypeOK, FilesStep, Files
    <2>2. CASE Commit
      <3>1. git.commits + 1 \in Nat /\ git.files \in [Slots -> Files]
        BY DEF TypeOK
      <3> QED
        BY <2>2, <3>1 DEF Commit, TypeOK
    <2> QED
      BY <2>1, <2>2, Frames DEF TypeOK
  <1>11. record' \in [result : {"running", "passed", "failed"}, failure : BOOLEAN,
                      errors : SUBSET Resource, tiers : Seq(TierName),
                      platform : SUBSET Slots, application : SUBSET Slots,
                      traffic : Seq([step : Check, slot : Slots, rev : Served])]
    <2>1. CASE Tier
      <3>1. Step.on \in TierName
        BY <2>1, Here DEF Tier, At, TierStep, Tiers, TierName
      <3>2. Append(record.tiers, Step.on) \in Seq(TierName)
        BY <3>1 DEF TypeOK
      <3> QED
        BY <2>1, <3>2 DEF Tier, TypeOK
    <2>2. CASE Platform
      BY <2>2, Here DEF Platform, At, TypeOK, PlatformStep
    <2>3. CASE Deploy
      <3>1. Step.on \in Slots
        BY <2>3, Here DEF Deploy, At, SlotStep
      <3>2. \/ record' = [record EXCEPT !.application = @ \cup {Step.on}]
            \/ Leaves
        BY <2>3 DEF Deploy, At, Leaves
      <3>3. CASE Leaves
        BY <3>3, LeavesTypes
      <3>4. CASE record' = [record EXCEPT !.application = @ \cup {Step.on}]
        BY <3>1, <3>4 DEF TypeOK
      <3> QED
        BY <3>2, <3>3, <3>4
    <2>4. CASE TrafficCheck
      <3>1. Step.on \in Check /\ active \in Slots
        BY <2>4, Here, <1>f DEF TrafficCheck, At, TrafficRow, TrafficAt, Do, Check, Endpoint, Slots,
           Opens, CutsOver, RollsBack, Closes, Harness
      <3> DEFINE row == [step |-> Step.on, slot |-> active, rev |-> serving[active]]
      <3>2. row \in [step : Check, slot : Slots, rev : Served]
        BY <3>1 DEF TypeOK
      <3>3. Append(record.traffic, row) \in Seq([step : Check, slot : Slots, rev : Served])
        BY <3>2 DEF TypeOK
      <3>4. record' = [record EXCEPT !.traffic = Append(@, row)]
        BY <2>4 DEF TrafficCheck
      <3> HIDE DEF row
      <3> QED
        BY <3>3, <3>4 DEF TypeOK
    <2>5. CASE Pass \/ Leaves
      BY <2>5, LeavesTypes DEF Pass, TypeOK
    <2>6. CASE EnterCleanup
      BY <2>6 DEF EnterCleanup, TypeOK
    <2>7. CASE DeleteNext
      <3>1. Head(todo) \in Resource
        BY <2>7 DEF DeleteNext, TypeOK
      <3>2. record.errors \cup {Head(todo)} \in SUBSET Resource
        BY <3>1 DEF TypeOK
      <3> QED
        BY <2>7, <3>2 DEF DeleteNext, TypeOK
    <2> QED
      BY <2>1, <2>2, <2>3, <2>4, <2>5, <2>6, <2>7, Frames DEF TypeOK
  <1>12. todo' \in Seq(Resource)
    <2>1. CASE EnterCleanup
      BY <2>1, DeletionsAreKnown DEF EnterCleanup
    <2>2. CASE DeleteNext
      BY <2>2 DEF DeleteNext, TypeOK
    <2> QED
      BY <2>1, <2>2, Frames DEF TypeOK
  <1>13. saved' \subseteq {"local", "published"} /\ exit' \in {"none", "zero", "one"} /\ cut' \in BOOLEAN
    BY Frames DEF TypeOK, Cleans, EnterCleanup, Diagnose, DeleteNext, WriteReport, ReportFails, Exit,
         SignalInCleanup
  <1>14. signals' \in 0..MaxSignals /\ upsets' \in 0..MaxUpsets
    <2>1. signals' = signals \/ (signals < MaxSignals /\ signals' = signals + 1)
      BY Frames
    <2>2. upsets' = upsets \/ (upsets < MaxUpsets /\ upsets' = upsets + 1)
      BY Frames, Misbehaving
    <2> QED
      BY <2>1, <2>2, AcceptanceAssumption DEF TypeOK
  <1> QED
    BY <1>1, <1>2, <1>3, <1>4, <1>5, <1>6, <1>7, <1>8, <1>9, <1>10, <1>11, <1>12, <1>13, <1>14,
       Zenon DEF TypeOK

\* A step of execute() that succeeds only adds to the report.
LEMMA GoesRecords ==
  ASSUME TypeOK, HarnessStep, Goes
  PROVE  /\ record'.result = record.result /\ record'.errors = record.errors
         /\ record'.traffic = record.traffic \/ TrafficCheck
         /\ record'.tiers = record.tiers \/ Tier
         /\ record.platform \subseteq record'.platform
         /\ record.application \subseteq record'.application
  <1>1. phase = "running" /\ phase' = "running"
    BY DEF Goes, Advance
  <1>2. record' = record \/ Tier \/ Platform \/ TrafficCheck \/ Deploy
    BY <1>1, Frames, Cleaning DEF Pass, Leaves, Raise, Cleans
  <1>3. CASE Tier
    BY <1>3 DEF Tier, TypeOK
  <1>4. CASE Platform
    BY <1>4 DEF Platform, TypeOK
  <1>5. CASE TrafficCheck
    BY <1>5 DEF TrafficCheck, TypeOK
  <1>6. CASE Deploy
    <2>1. record' = [record EXCEPT !.application = @ \cup {Step.on}]
      BY <1>1, <1>6 DEF Deploy, Raise
    <2> QED
      BY <2>1 DEF TypeOK
  <1> QED
    BY <1>2, <1>3, <1>4, <1>5, <1>6

\* cleanup() never makes a failed run a passed one, nor touches the evidence.
LEMMA CleansRecords ==
  ASSUME TypeOK, HarnessStep, Cleans
  PROVE  /\ record'.result = record.result \/ record'.result = "failed"
         /\ record'.traffic = record.traffic /\ record'.tiers = record.tiers
         /\ record'.platform = record.platform /\ record'.application = record.application
         /\ record.errors \subseteq record'.errors
  <1>1. record' = record \/ EnterCleanup \/ DeleteNext
    BY Frames, Cleaning DEF Tier, Platform, Deploy, TrafficCheck, Pass, Leaves, At
  <1>2. CASE EnterCleanup
    BY <1>2 DEF EnterCleanup, TypeOK
  <1>3. CASE DeleteNext
    <2>1. \/ record' = record
          \/ record' = [record EXCEPT !.errors = @ \cup {Head(todo)}, !.result = "failed"]
      BY <1>3 DEF DeleteNext
    <2>2. CASE record' = [record EXCEPT !.errors = @ \cup {Head(todo)}, !.result = "failed"]
      <3>1. record'.errors = record.errors \cup {Head(todo)} /\ record'.result = "failed"
        BY <2>2 DEF TypeOK
      <3>2. /\ record'.traffic = record.traffic /\ record'.tiers = record.tiers
            /\ record'.platform = record.platform /\ record'.application = record.application
        BY <2>2 DEF TypeOK
      <3> QED
        BY <3>1, <3>2
    <2> QED
      BY <2>1, <2>2
  <1> QED
    BY <1>1, <1>2, <1>3

\* An exception only marks the report as failed, or leaves it as it is.
LEMMA LeavesRecords ==
  ASSUME TypeOK, Leaves
  PROVE  /\ record'.result = record.result \/ record'.result = "failed"
         /\ record'.traffic = record.traffic /\ record'.errors = record.errors
  BY DEF Leaves, Raise, TypeOK

\* Every step keeps the harness in its program.
LEMMA PositionStays ==
  ASSUME TypeOK, Position, HarnessStep PROVE Position'
  <1>f. /\ method \in Harness /\ method' = method /\ Finishes(method) \in Nat
        /\ Len(Program) = Finishes(method)
    BY Frames, MethodsAreHarnesses, ProgramLength DEF TypeOK, Program, Finishes
  <1>1. CASE Goes
    <2>1. at < Finishes(method)
      BY <1>1, <1>f, Here DEF Goes, EndpointStep
    <2>2. record'.result = record.result
      BY <1>1, GoesRecords
    <2> QED
      BY <1>1, <1>f, <2>1, <2>2 DEF Goes, Advance, Position
  <1>2. CASE Leaves
    BY <1>2, <1>f, LeavesRecords DEF Leaves, Raise, Position
  <1>3. CASE Pass
    BY <1>3, <1>f, Here DEF Pass, At, Position, EndpointStep
  <1>4. CASE Cleans
    <2>1. record'.result # "passed" \/ record'.result = record.result
      BY <1>4, CleansRecords
    <2> QED
      BY <1>4, <1>f, <2>1, Cleaning DEF Position
  <1>5. CASE Upsets
    BY <1>5, <1>f, Misbehaving DEF Position
  <1> QED
    BY <1>1, <1>2, <1>3, <1>4, <1>5, Kinds

\* Where the stable endpoint sends traffic follows the position.
LEMMA EndpointStays ==
  ASSUME TypeOK, Position, Endpoint, HarnessStep PROVE Endpoint'
  <1> USE DEF Endpoint
  <1>f. method \in Harness /\ method' = method
    BY Frames, MethodsAreHarnesses DEF TypeOK
  <1>1. CASE Goes
    <2>1. /\ at \in 1..Finishes(method) /\ EndpointStep(method, at, Step)
          /\ phase = "running" /\ phase' = "running" /\ at' = at + 1
      BY <1>1, Here DEF Goes, Advance
    <2>2. active' = active \/ Open \/ SwitchTraffic \/ Close
      BY <2>1, Frames DEF Leaves, Raise
    <2>3. CASE Open
      BY <1>f, <2>1, <2>3 DEF Open, At, EndpointStep, Opens, Closes, CutsOver, Harness
    <2>4. CASE SwitchTraffic
      BY <1>f, <2>1, <2>4 DEF SwitchTraffic, At, EndpointStep, Opens, Closes, CutsOver, RollsBack, Harness
    <2>5. CASE Close
      BY <1>f, <2>1, <2>5 DEF Close, At, EndpointStep, Opens, Closes, Harness
    <2>6. CASE ~Open /\ ~SwitchTraffic /\ ~Close
      <3>1. at # Opens(method) /\ at # CutsOver(method) /\ at # RollsBack(method) /\ at # Closes(method)
        BY <1>1, <2>1, <2>6, Acts DEF EndpointStep
      <3> QED
        BY <1>f, <2>1, <2>2, <2>6, <3>1 DEF Opens, Closes, CutsOver, RollsBack, Finishes, Harness
    <2> QED
      BY <2>3, <2>4, <2>5, <2>6
  <1>2. CASE Leaves
    BY <1>2 DEF Leaves, Raise
  <1>3. CASE Pass
    <2>1. at = Finishes(method) /\ active' = active /\ phase = "running" /\ phase' = "unwound"
      BY <1>3, Here DEF Pass, At, EndpointStep
    <2> QED
      BY <1>f, <2>1 DEF Opens, Closes, CutsOver, RollsBack, Finishes, Harness
  <1>4. CASE Cleans
    <2>1. active' = active
      BY <1>4, Frames, Cleaning DEF Open, SwitchTraffic, Close, Leaves, At
    <2> QED
      BY <1>4, <2>1, Cleaning
  <1>5. CASE Upsets
    <2>1. active' = active
      BY <1>5 DEF Upsets, Upset
    <2> QED
      BY <1>f, <1>5, <2>1, Misbehaving
  <1> QED
    BY <1>1, <1>2, <1>3, <1>4, <1>5, Kinds

\* What the clusters serve between the checks.
LEMMA ServesStays ==
  ASSUME TypeOK, Position, Serves, HarnessStep PROVE Serves'
  <1>f. method \in Harness /\ method' = method
    BY Frames, MethodsAreHarnesses DEF TypeOK
  <1>1. CASE Goes
    <2>1. /\ at \in 1..Finishes(method) /\ ReleaseStep(method, at, Step)
          /\ phase = "running" /\ phase' = "running" /\ at' = at + 1 /\ upsets' = upsets
      BY <1>1, Here DEF Goes, Advance, faultVars
    <2>2. serving' = serving \/ Deploy \/ Sync \/ Reject \/ Drift
      BY <1>1, Frames, Cleaning, Misbehaving DEF Goes, Advance, TypeOK, Cleans
    <2>3. CASE Deploy \/ Sync \/ Reject \/ Drift
      <3>1. /\ Step.op \in {"deploy", "sync", "drift", "reject"}
            /\ \A s \in Slots : s # Step.on => serving'[s] = serving[s]
        BY <2>3 DEF Deploy, Sync, Reject, Drift, At, TypeOK
      <3>2. CASE Step.on = "aks01"
        <4>1. at < FirstRelease(method) /\ serving'["aks02"] = serving["aks02"]
          BY <2>1, <3>1, <3>2 DEF ReleaseStep, Slots
        <4> QED
          BY <1>f, <2>1, <4>1 DEF Serves, FirstRelease, Updates, Restores, Approves, Harness
      <3>3. CASE Step.on = "aks02"
        <4>1. /\ at < Updates(method) \/ (Restores(method) <= at /\ at < Approves(method))
              /\ at # FirstRelease(method) /\ serving'["aks01"] = serving["aks01"]
          BY <2>1, <3>1, <3>3 DEF ReleaseStep, Do, Slots
        <4> QED
          BY <1>f, <2>1, <4>1 DEF Serves, FirstRelease, Updates, Restores, Approves, Harness
      <3> QED
        BY <2>1, <3>1, <3>2, <3>3 DEF ReleaseStep
    <2>4. CASE serving' = serving
      <3>1. ASSUME Step.op = "release" PROVE serving[Step.on] = Step.rev
        BY <1>1, <3>1, Acts DEF ReleaseCheck, TypeOK
      <3> QED
        BY <1>f, <2>1, <2>4, <3>1 DEF Serves, ReleaseStep, Do, FirstRelease, Updates, Restores, Approves,
           Harness
    <2> QED
      BY <2>2, <2>3, <2>4
  <1>2. CASE Leaves
    BY <1>2, LeavesRecords DEF Leaves, Raise, Position, Serves
  <1>3. CASE Pass
    <2>1. /\ at = Finishes(method) /\ serving' = serving /\ upsets' = upsets
          /\ phase = "running" /\ at' = at + 1
      BY <1>3, Here DEF Pass, At, EndpointStep, clusterVars, faultVars, Calm
    <2> QED
      BY <1>f, <2>1 DEF Serves, FirstRelease, Updates, Restores, Approves, Finishes, Harness
  <1>4. CASE Cleans
    BY <1>4, Cleaning DEF Serves
  <1>5. CASE Upsets
    BY <1>5, Misbehaving DEF Serves, TypeOK
  <1> QED
    BY <1>1, <1>2, <1>3, <1>4, <1>5, Kinds

\* Tracking a resource is what makes it known, and nothing is forgotten.
LEMMA TrackingIsKnowing ==
  ASSUME TypeOK, Track, Step.on \in Resource PROVE Known' = Known \cup {Step.on}
  <1>1. CASE Step.on = "registry"
    <2>1. /\ tracked'.registry = TRUE
          /\ tracked'.clusters = tracked.clusters /\ tracked'.images = tracked.images
      BY <1>1 DEF Track, TypeOK, Slots, Revision
    <2> QED
      BY <1>1, <2>1 DEF Known
  <1>2. CASE Step.on \in Slots
    <2>1. /\ tracked'.clusters = Append(tracked.clusters, Step.on)
          /\ tracked'.registry = tracked.registry /\ tracked'.images = tracked.images
      BY <1>2 DEF Track, TypeOK, Slots, Revision
    <2>2. ToSet(tracked'.clusters) = ToSet(tracked.clusters) \cup {Step.on}
      BY <1>2, <2>1, SetOfAppend DEF TypeOK
    <2> QED
      BY <2>1, <2>2 DEF Known
  <1>3. CASE Step.on \in Revision
    <2>1. /\ tracked'.images = Append(tracked.images, Step.on)
          /\ tracked'.registry = tracked.registry /\ tracked'.clusters = tracked.clusters
      BY <1>3 DEF Track, TypeOK, Slots, Revision
    <2>2. ToSet(tracked'.images) = ToSet(tracked.images) \cup {Step.on}
      BY <1>3, <2>1, SetOfAppend DEF TypeOK
    <2> QED
      BY <2>1, <2>2 DEF Known
  <1> QED
    BY <1>1, <1>2, <1>3 DEF Resource

\* Nothing exists that cleanup() does not know.
LEMMA KnownInTimeStays ==
  ASSUME TypeOK, Position, KnownInTime, HarnessStep PROVE KnownInTime'
  <1>f. method \in Harness /\ method' = method
    BY Frames, MethodsAreHarnesses DEF TypeOK
  <1>1. Known \subseteq Known'
    <2>1. CASE Track
      BY <2>1, Here, TrackingIsKnowing DEF Track, At, ResourceStep
    <2>2. CASE tracked' = tracked
      BY <2>2 DEF Known
    <2> QED
      BY <2>1, <2>2, Frames
  <1>2. existing' \subseteq Known'
    <2>1. CASE Create
      <3>1. Step.on \in Resource /\ at > Tracks(method, Step.on)
        BY <2>1, Here DEF Create, At, ResourceStep
      <3>2. Step.on \in Known
        BY <2>1, <3>1 DEF Create, At, KnownInTime
      <3> QED
        BY <1>1, <2>1, <3>2 DEF Create, KnownInTime
    <2>2. CASE DeleteNext
      BY <1>1, <2>2 DEF DeleteNext, Delete, Keep, KnownInTime
    <2> QED
      BY <1>1, <2>1, <2>2, Frames DEF KnownInTime
  <1>3. ASSUME phase' = "running", NEW r \in Resource, at' > Tracks(method, r) PROVE r \in Known'
    <2>1. phase = "running" /\ at \in Nat /\ Tracks(method, r) \in Nat
      BY <1>3, Kinds, Cleaning DEF Goes, Leaves, Raise, Pass, At, Upsets, Upset, TypeOK, Tracks
    <2>2. CASE at > Tracks(method, r)
      BY <1>1, <2>1, <2>2 DEF KnownInTime
    <2>3. CASE at <= Tracks(method, r)
      <3>1. Goes
        BY <1>3, <2>1, <2>3, Kinds, Cleaning, Misbehaving DEF Leaves, Raise, Pass
      <3>2. at = Tracks(method, r)
        BY <1>3, <2>1, <2>3, <3>1 DEF Goes, Advance
      <3>3. Step = Do("track", r, "-")
        BY <3>1, <3>2, Here DEF Goes, TrackStep, Resource, Slots, Revision
      <3>4. Track /\ Step.on = r
        BY <2>1, <3>1, <3>3, Acts DEF Do
      <3> QED
        BY <3>4, TrackingIsKnowing
    <2> QED
      BY <2>1, <2>2, <2>3
  <1> QED
    BY <1>f, <1>2, <1>3 DEF KnownInTime

\* What cleanup() has not removed is still on its list or in its errors.
LEMMA CleanedStays ==
  ASSUME TypeOK, Position, KnownInTime, Cleaned, HarnessStep PROVE Cleaned'
  <1>1. CASE Goes
    BY <1>1, GoesRecords DEF Goes, Advance, Cleaned
  <1>2. CASE Leaves
    BY <1>2, LeavesRecords DEF Leaves, Raise, Cleaned
  <1>3. CASE Pass
    BY <1>3 DEF Pass, At, TypeOK, Cleaned
  <1>4. CASE EnterCleanup
    <2>1. existing' = existing /\ todo' = Deletions /\ record'.errors = {}
      BY <1>4 DEF EnterCleanup, TypeOK, Cleaned
    <2>2. phase' \in {"cleaning", "deleting"}
      BY <1>4 DEF EnterCleanup
    <2> QED
      BY <2>1, <2>2, DeletionsAreKnown DEF KnownInTime, Cleaned
  <1>5. CASE DeleteNext
    <2>1. /\ phase = "deleting" /\ phase' = "deleting" /\ todo # << >> /\ todo' = Tail(todo)
      BY <1>5 DEF DeleteNext
    <2>2. ToSet(todo) \subseteq {Head(todo)} \cup ToSet(todo')
      BY <2>1, SetOfTail DEF TypeOK
    <2>3. \/ existing' = existing \ {Head(todo)} /\ record' = record
          \/ /\ existing' \subseteq existing
             /\ record'.errors = record.errors \cup {Head(todo)} /\ record'.result = "failed"
      BY <1>5 DEF DeleteNext, Delete, Keep, TypeOK
    <2> QED
      BY <2>1, <2>2, <2>3 DEF Cleaned
  <1>6. CASE Diagnose \/ WriteReport \/ ReportFails \/ Exit \/ SignalInCleanup
    <2>1. UNCHANGED <<existing, record, todo>>
      BY <1>6 DEF Diagnose, WriteReport, ReportFails, Exit, SignalInCleanup
    <2> QED
      BY <1>6, <2>1 DEF Diagnose, WriteReport, ReportFails, Exit, SignalInCleanup, Cleaned, ToSet
  <1>7. CASE Upsets
    BY <1>7, Misbehaving DEF Cleaned
  <1> QED
    BY <1>1, <1>2, <1>3, <1>4, <1>5, <1>6, <1>7, Kinds DEF Cleans

\* What an exit status says.
LEMMA ExitsStays ==
  ASSUME TypeOK, Exits, HarnessStep PROVE Exits'
  <1>1. CASE Goes \/ Leaves \/ Pass
    BY <1>1 DEF Goes, Advance, Leaves, Raise, Pass, At, Calm, cleanVars, Exits
  <1>2. CASE Cleans
    BY <1>2 DEF Cleans, EnterCleanup, Diagnose, DeleteNext, WriteReport, ReportFails, Exit,
         SignalInCleanup, Exits
  <1>3. CASE Upsets
    BY <1>3, Misbehaving DEF Exits
  <1> QED
    BY <1>1, <1>2, <1>3, Kinds

\* A log that is written at the positions `when` lists, in order.
LEMMA RecordedNext ==
  ASSUME NEW S, NEW log \in Seq(S), NEW i \in Nat, NEW all \in Seq(S), NEW when,
         \A k \in 1..Len(all) : when[k] \in Nat,
         \A j, k \in 1..Len(all) : j < k => when[j] < when[k],
         Recorded(i, log, all, when)
  PROVE  /\ (\A k \in 1..Len(all) : i # when[k]) => Recorded(i + 1, log, all, when)
         /\ \A k \in 1..Len(all) : i = when[k] => Recorded(i + 1, Append(log, all[k]), all, when)
  <1>1. ASSUME \A k \in 1..Len(all) : i # when[k] PROVE Recorded(i + 1, log, all, when)
    BY <1>1 DEF Recorded
  <1>2. ASSUME NEW k \in 1..Len(all), i = when[k] PROVE Recorded(i + 1, Append(log, all[k]), all, when)
    <2>1. Len(log) = k - 1
      <3>1. Len(log) < k
        BY <1>2 DEF Recorded
      <3>2. CASE k = 1
        BY <3>1, <3>2
      <3>3. CASE k > 1
        <4>1. k - 1 \in 1..Len(all) /\ i > when[k - 1]
          BY <1>2, <3>3
        <4> QED
          BY <3>1, <4>1 DEF Recorded
      <3> QED
        BY <3>2, <3>3
    <2> DEFINE new == Append(log, all[k])
    <2>2. /\ Len(new) = k /\ new[k] = all[k]
          /\ \A j \in 1..(k - 1) : new[j] = log[j]
      BY <2>1, AppendProperties
    <2> HIDE DEF new
    <2>3. \A j \in 1..Len(all) : j <= k <=> i + 1 > when[j]
      BY <1>2
    <2> QED
      BY <2>1, <2>2, <2>3 DEF Recorded, new
  <1> QED
    BY <1>1, <1>2

\* The two logs of the report, and when they are written.
LEMMA Logs ==
  ASSUME NEW m \in Harness
  PROVE  /\ Rows \in Seq([step : Check, slot : Slots, rev : Served]) /\ Len(Rows) = 4
         /\ Tiers \in Seq(TierName) /\ Len(Tiers) = 3
         /\ \A k \in 1..4 : TrafficAt(m)[k] \in Nat
         /\ \A j, k \in 1..4 : j < k => TrafficAt(m)[j] < TrafficAt(m)[k]
         /\ \A k \in 1..3 : TierAt(m)[k] \in Nat
         /\ \A j, k \in 1..3 : j < k => TierAt(m)[j] < TierAt(m)[k]
  <1>1. Rows \in Seq([step : Check, slot : Slots, rev : Served]) /\ Len(Rows) = 4
    BY DEF Rows, Check, Slots, Served, Revision
  <1>2. Tiers \in Seq(TierName) /\ Len(Tiers) = 3
    BY DEF Tiers, TierName
  <1>3. /\ \A k \in 1..4 : TrafficAt(m)[k] \in Nat
        /\ \A j, k \in 1..4 : j < k => TrafficAt(m)[j] < TrafficAt(m)[k]
    BY DEF TrafficAt, Opens, CutsOver, RollsBack
  <1>4. /\ \A k \in 1..3 : TierAt(m)[k] \in Nat
        /\ \A j, k \in 1..3 : j < k => TierAt(m)[j] < TierAt(m)[k]
    BY DEF TierAt
  <1> QED
    BY <1>1, <1>2, <1>3, <1>4

\* The traffic log, one step further.
LEMMA TrafficNext ==
  ASSUME NEW m \in Harness, NEW i \in Nat,
         NEW log \in Seq([step : Check, slot : Slots, rev : Served]),
         Recorded(i, log, Rows, TrafficAt(m))
  PROVE  /\ (\A k \in 1..4 : i # TrafficAt(m)[k]) => Recorded(i + 1, log, Rows, TrafficAt(m))
         /\ \A k \in 1..4 : i = TrafficAt(m)[k]
                 => Recorded(i + 1, Append(log, Rows[k]), Rows, TrafficAt(m))
  <1> DEFINE when == TrafficAt(m)
             Row == [step : Check, slot : Slots, rev : Served]
  <1>1. /\ Rows \in Seq(Row) /\ Len(Rows) = 4
        /\ \A k \in 1..4 : when[k] \in Nat
        /\ \A j, k \in 1..4 : j < k => when[j] < when[k]
    BY Logs
  <1> HIDE DEF when, Row
  <1>2. log \in Seq(Row) /\ Recorded(i, log, Rows, when)
    BY DEF when, Row
  <1>3. /\ (\A k \in 1..4 : i # when[k]) => Recorded(i + 1, log, Rows, when)
        /\ \A k \in 1..4 : i = when[k] => Recorded(i + 1, Append(log, Rows[k]), Rows, when)
    BY <1>1, <1>2, RecordedNext
  <1> QED
    BY <1>3 DEF when

\* The tiers, one step further.
LEMMA TiersNext ==
  ASSUME NEW m \in Harness, NEW i \in Nat, NEW log \in Seq(TierName),
         Recorded(i, log, Tiers, TierAt(m))
  PROVE  /\ (\A k \in 1..3 : i # TierAt(m)[k]) => Recorded(i + 1, log, Tiers, TierAt(m))
         /\ \A k \in 1..3 : i = TierAt(m)[k]
                 => Recorded(i + 1, Append(log, Tiers[k]), Tiers, TierAt(m))
  <1> DEFINE when == TierAt(m)
  <1>1. /\ Tiers \in Seq(TierName) /\ Len(Tiers) = 3
        /\ \A k \in 1..3 : when[k] \in Nat
        /\ \A j, k \in 1..3 : j < k => when[j] < when[k]
    BY Logs
  <1> HIDE DEF when
  <1>2. Recorded(i, log, Tiers, when)
    BY DEF when
  <1>3. /\ (\A k \in 1..3 : i # when[k]) => Recorded(i + 1, log, Tiers, when)
        /\ \A k \in 1..3 : i = when[k] => Recorded(i + 1, Append(log, Tiers[k]), Tiers, when)
    BY <1>1, <1>2, RecordedNext
  <1> QED
    BY <1>3 DEF when

\* The row a successful traffic check adds is the one expected there.
LEMMA RowIsExpected ==
  ASSUME TypeOK, Position, Endpoint, TrafficCheck, NEW k \in 1..4, at = TrafficAt(method)[k]
  PROVE  record'.traffic = Append(record.traffic, Rows[k])
  <1> DEFINE row == [step |-> Step.on, slot |-> active, rev |-> serving[active]]
  <1>1. record'.traffic = Append(record.traffic, row)
    BY DEF TrafficCheck, TypeOK
  <1>2. /\ method \in Harness /\ phase = "running" /\ TrafficRow(method, at, Step)
        /\ serving[active] = Step.rev
    BY Here DEF TrafficCheck, At
  <1>3. CASE k = 1
    BY <1>1, <1>2, <1>3 DEF TrafficRow, TrafficAt, Do, Rows, Endpoint, Opens, Closes, CutsOver, RollsBack,
       Harness
  <1>4. CASE k = 2
    BY <1>1, <1>2, <1>4 DEF TrafficRow, TrafficAt, Do, Rows, Endpoint, Opens, Closes, CutsOver, RollsBack,
       Harness
  <1>5. CASE k = 3
    BY <1>1, <1>2, <1>5 DEF TrafficRow, TrafficAt, Do, Rows, Endpoint, Opens, Closes, CutsOver, RollsBack,
       Harness
  <1>6. CASE k = 4
    BY <1>1, <1>2, <1>6 DEF TrafficRow, TrafficAt, Do, Rows, Endpoint, Opens, Closes, CutsOver, RollsBack,
       Harness
  <1> QED
    BY <1>3, <1>4, <1>5, <1>6

\* The report holds what the steps so far have recorded.
LEMMA EvidenceStays ==
  ASSUME TypeOK, Position, Endpoint, Evidence, HarnessStep PROVE Evidence'
  <1>f. /\ method \in Harness /\ method' = method /\ at \in Nat
        /\ record.traffic \in Seq([step : Check, slot : Slots, rev : Served])
        /\ record.tiers \in Seq(TierName)
    BY Frames, MethodsAreHarnesses DEF TypeOK
  <1>1. CASE Goes
    <2>1. /\ at \in 1..Finishes(method) /\ at' = at + 1 /\ Sound
          /\ TrafficRow(method, at, Step) /\ TierStep(method, at, Step)
          /\ PlatformStep(method, at, Step) /\ ApplicationStep(method, at, Step)
      BY <1>1, Here DEF Goes, Advance, Sound
    <2>2. Recorded(at + 1, record'.traffic, Rows, TrafficAt(method))
      <3>1. CASE \E k \in 1..4 : at = TrafficAt(method)[k]
        <4>1. PICK k \in 1..4 : at = TrafficAt(method)[k]
          BY <3>1
        <4>2. TrafficCheck
          BY <1>1, <1>f, <2>1, <4>1, Acts DEF TrafficRow
        <4> QED
          BY <1>f, <2>1, <4>1, <4>2, RowIsExpected, TrafficNext DEF Evidence
      <3>2. CASE \A k \in 1..4 : at # TrafficAt(method)[k]
        <4>1. record'.traffic = record.traffic
          BY <1>1, <2>1, <3>2, GoesRecords DEF TrafficRow, TrafficCheck, At
        <4> QED
          BY <1>f, <2>1, <3>2, <4>1, TrafficNext DEF Evidence
      <3> QED
        BY <3>1, <3>2
    <2>3. Recorded(at + 1, record'.tiers, Tiers, TierAt(method))
      <3>1. CASE \E k \in 1..3 : at = TierAt(method)[k]
        <4>1. PICK k \in 1..3 : at = TierAt(method)[k]
          BY <3>1
        <4>2. record'.tiers = Append(record.tiers, Tiers[k])
          <5>1. Step.op = "tier" /\ Step.on = Tiers[k]
            BY <2>1, <4>1 DEF TierStep
          <5>2. Tier
            BY <1>1, <1>f, <5>1, Acts DEF TypeOK
          <5>3. record' = [record EXCEPT !.tiers = Append(@, Step.on)]
            BY <5>2 DEF Tier
          <5> QED
            BY <5>1, <5>3 DEF TypeOK
        <4> QED
          BY <1>f, <2>1, <4>1, <4>2, TiersNext DEF Evidence
      <3>2. CASE \A k \in 1..3 : at # TierAt(method)[k]
        <4>1. record'.tiers = record.tiers
          BY <1>1, <2>1, <3>2, GoesRecords DEF TierStep, Tier, At
        <4> QED
          BY <1>f, <2>1, <3>2, <4>1, TiersNext DEF Evidence
      <3> QED
        BY <3>1, <3>2
    <2>4. /\ at + 1 > 8 => "aks01" \in record'.platform
          /\ at + 1 > 9 => "aks02" \in record'.platform
      <3>1. at \in {8, 9} => Step.on \in record'.platform
        BY <1>1, <1>f, <2>1, Acts DEF PlatformStep, Do, Platform, TypeOK
      <3> QED
        BY <1>1, <1>f, <2>1, <3>1, GoesRecords DEF Evidence, PlatformStep, Do
    <2>5. method = "direct" => /\ at + 1 > 15 => "aks01" \in record'.application
                               /\ at + 1 > 18 => "aks02" \in record'.application
      <3>1. method = "direct" /\ at \in {15, 18} => Step.on \in record'.application
        BY <1>1, <1>f, <2>1, Acts DEF ApplicationStep, Do, Deploy, Goes, Advance, Raise, TypeOK
      <3> QED
        BY <1>1, <1>f, <2>1, <3>1, GoesRecords DEF Evidence, ApplicationStep, Do
    <2> QED
      BY <1>f, <2>1, <2>2, <2>3, <2>4, <2>5 DEF Evidence
  <1>2. CASE Leaves
    BY <1>2, LeavesRecords DEF Leaves, Raise, Position, Sound, Evidence
  <1>3. CASE Pass
    <2>1. /\ at = Finishes(method) /\ at' = at + 1 /\ Sound
          /\ record'.traffic = record.traffic /\ record'.tiers = record.tiers
          /\ record'.platform = record.platform /\ record'.application = record.application
      BY <1>3, Here DEF Pass, At, EndpointStep, Sound, TypeOK
    <2>2. /\ \A k \in 1..4 : at # TrafficAt(method)[k]
          /\ \A k \in 1..3 : at # TierAt(method)[k]
      BY <2>1 DEF TrafficAt, TierAt, Opens, CutsOver, RollsBack, Finishes
    <2>3. /\ Recorded(at + 1, record'.traffic, Rows, TrafficAt(method))
          /\ Recorded(at + 1, record'.tiers, Tiers, TierAt(method))
      BY <1>f, <2>1, <2>2, TrafficNext, TiersNext DEF Evidence
    <2> QED
      BY <1>f, <2>1, <2>3 DEF Evidence, Finishes
  <1>4. CASE Cleans
    BY <1>4, <1>f, Cleaning, CleansRecords DEF Evidence, Sound
  <1>5. CASE Upsets
    BY <1>5, <1>f, Misbehaving DEF Evidence, Sound
  <1> QED
    BY <1>1, <1>2, <1>3, <1>4, <1>5, Kinds

\* The two images differ wherever the evidence depends on it.
LEMMA TwoImagesStays ==
  ASSUME TypeOK, TypeOK', Position, Evidence, Evidence', TwoImages, HarnessStep PROVE TwoImages'
  <1>f. method \in Harness /\ method' = method /\ at \in Nat
    BY Frames, MethodsAreHarnesses DEF TypeOK
  <1>1. CASE Goes
    <2>1. /\ at \in 1..Finishes(method) /\ ResourceStep(method, at, Step) /\ Sound /\ Sound'
          /\ phase = "running" /\ at' = at + 1
      BY <1>1, Here DEF Goes, Advance, Sound
    <2>2. at' > Compares(method) => Different'
      <3>1. CASE Push
        BY <1>f, <2>1, <3>1 DEF Push, At, ResourceStep, Compares
      <3>2. CASE digest' = digest
        <4>1. at = Compares(method) => Different
          BY <1>1, <1>f, <2>1, Acts DEF ResourceStep, Distinct, Different
        <4> QED
          BY <1>f, <2>1, <3>2, <4>1 DEF TwoImages, Different, Compares
      <3> QED
        BY <3>1, <3>2, Frames
    <2>3. Len(record'.traffic) > 1 => at' > Compares(method)
      <3>1. Recorded(at', record'.traffic, Rows, TrafficAt(method))
        BY <1>f, <2>1 DEF Evidence
      <3>2. Len(record'.traffic) \in Nat
        <4>1. record'.traffic \in Seq([step : Check, slot : Slots, rev : Served])
          BY DEF TypeOK
        <4> QED
          BY <4>1
      <3>3. Len(Rows) = 4 /\ TrafficAt(method)[2] = CutsOver(method) - 1
        BY DEF Rows, TrafficAt
      <3>4. Len(record'.traffic) > 1 => at' > CutsOver(method) - 1
        BY <3>1, <3>2, <3>3 DEF Recorded
      <3> QED
        BY <1>f, <2>1, <3>4 DEF Compares, CutsOver, Harness
    <2> QED
      BY <1>f, <2>2, <2>3 DEF TwoImages
  <1>2. CASE ~Goes
    <2>1. digest' = digest
      BY <1>2, Frames DEF Push, Goes, At, Calm
    <2>2. Len(record'.traffic) > 1 => Len(record.traffic) > 1
      BY <1>2, Kinds, LeavesRecords, CleansRecords, Misbehaving DEF Pass, TypeOK
    <2>3. Sound' /\ at' > Compares(method) => Sound /\ at > Compares(method)
      BY <1>2, <1>f, Kinds, Cleaning, LeavesRecords, CleansRecords, Misbehaving, Here
         DEF Sound, Pass, At, Leaves, Raise, Position, EndpointStep, Finishes, Compares
    <2> QED
      BY <1>f, <2>1, <2>2, <2>3 DEF TwoImages, Different
  <1> QED
    BY <1>1, <1>2

\* A step of a harness keeps all of it.
LEMMA HarnessStays ==
  ASSUME TypeOK, HarnessInv, HarnessStep PROVE TypeOK' /\ HarnessInv'
  <1>1. TypeOK' /\ Position' /\ Endpoint' /\ Evidence'
    BY TypeStays, PositionStays, EndpointStays, EvidenceStays DEF HarnessInv
  <1>2. TwoImages' /\ KnownInTime' /\ Serves' /\ Cleaned' /\ Exits'
    BY <1>1, TwoImagesStays, KnownInTimeStays, ServesStays, CleanedStays, ExitsStays DEF HarnessInv
  <1> QED
    BY <1>1, <1>2 DEF HarnessInv

\* A harness that starts, with what an earlier one has left.
Fresh ==
    /\ method \in Harness /\ at = 1 /\ phase = "running" /\ existing = {} /\ active = "closed"
    /\ record = [result |-> "running", failure |-> FALSE, errors |-> {}, tiers |-> << >>,
                 platform |-> {}, application |-> {}, traffic |-> << >>]
    /\ exit = "none" /\ cut = FALSE

\* A harness that has just started has the invariant.
LEMMA FreshIsGood == Fresh => HarnessInv
  <1> SUFFICES ASSUME Fresh PROVE HarnessInv
    OBVIOUS
  <1>1. /\ method \in Harness /\ at = 1 /\ phase = "running" /\ existing = {} /\ active = "closed"
        /\ record.result = "running" /\ record.errors = {} /\ record.tiers = << >>
        /\ record.traffic = << >> /\ exit = "none" /\ cut = FALSE
    BY DEF Fresh
  <1>2. Position /\ Endpoint
    BY <1>1 DEF Position, Endpoint, Finishes, Opens
  <1>3. /\ Recorded(1, << >>, Rows, TrafficAt(method))
        /\ Recorded(1, << >>, Tiers, TierAt(method))
    <2>1. Len(Rows) = 4 /\ \A k \in 1..4 : ~(1 > TrafficAt(method)[k])
      BY <1>1, Logs DEF TrafficAt, Opens, CutsOver, RollsBack
    <2>2. Len(Tiers) = 3 /\ \A k \in 1..3 : ~(1 > TierAt(method)[k])
      BY <1>1, Logs DEF TierAt
    <2> QED
      BY <2>1, <2>2 DEF Recorded
  <1>4. Evidence /\ TwoImages
    BY <1>1, <1>3 DEF Evidence, TwoImages, Compares
  <1>5. KnownInTime
    BY <1>1 DEF KnownInTime, Tracks
  <1>6. Serves
    BY <1>1 DEF Serves, FirstRelease, Updates, Approves
  <1>7. Cleaned /\ Exits
    BY <1>1 DEF Cleaned, Exits
  <1> QED
    BY <1>2, <1>4, <1>5, <1>6, <1>7 DEF HarnessInv

-----------------------------------------------------------------------------
(* What an exit status is worth                                            *)

\* A log that is full is the log expected.
LEMMA FullLog ==
  ASSUME NEW S, NEW log \in Seq(S), NEW all \in Seq(S), NEW i \in Nat, NEW when, Len(all) > 0,
         Recorded(i, log, all, when), i > when[Len(all)]
  PROVE  log = all
  <1>1. Len(log) = Len(all)
    BY DEF Recorded
  <1> QED
    BY <1>1, SeqEqual DEF Recorded

\* What exit status zero says of the report.
LEMMA Complete ==
  ASSUME TypeOK, HarnessInv PROVE AcceptedIsComplete
  <1> SUFFICES ASSUME exit = "zero"
               PROVE  ValidEvidence(record, method) /\ saved = {"local", "published"} /\ existing = {}
    BY DEF AcceptedIsComplete
  <1>1. /\ phase = "exited" /\ ~cut /\ record.result = "passed" /\ saved = {"local", "published"}
        /\ at = Finishes(method) + 1 /\ method \in Harness /\ at \in Nat
    BY MethodsAreHarnesses DEF HarnessInv, Exits, Position, TypeOK
  <1>2. record.errors = {} /\ existing = {}
    BY <1>1 DEF HarnessInv, Cleaned
  <1>3. /\ Recorded(at, record.traffic, Rows, TrafficAt(method))
        /\ Recorded(at, record.tiers, Tiers, TierAt(method))
        /\ "aks01" \in record.platform /\ "aks02" \in record.platform
        /\ method = "direct" => "aks01" \in record.application /\ "aks02" \in record.application
    BY <1>1 DEF HarnessInv, Evidence, Sound, Finishes
  <1>4. record.traffic = Rows
    <2> DEFINE when == TrafficAt(method)
               Row == [step : Check, slot : Slots, rev : Served]
    <2>1. at > when[4]
      BY <1>1 DEF TrafficAt, RollsBack, Finishes
    <2>2. Rows \in Seq(Row) /\ Len(Rows) = 4 /\ record.traffic \in Seq(Row)
      BY <1>1, Logs DEF TypeOK
    <2>3. Recorded(at, record.traffic, Rows, when)
      BY <1>3
    <2>4. at \in Nat /\ Len(Rows) > 0 /\ at > when[Len(Rows)]
      BY <1>1, <2>1, <2>2
    <2> HIDE DEF when, Row
    <2> QED
      BY <2>2, <2>3, <2>4, FullLog
  <1>5. record.tiers = Tiers
    <2> DEFINE when == TierAt(method)
    <2>1. at > when[3]
      BY <1>1 DEF TierAt, Finishes
    <2>2. Tiers \in Seq(TierName) /\ Len(Tiers) = 3 /\ record.tiers \in Seq(TierName)
      BY <1>1, Logs DEF TypeOK
    <2>3. Recorded(at, record.tiers, Tiers, when)
      BY <1>3
    <2>4. at \in Nat /\ Len(Tiers) > 0 /\ at > when[Len(Tiers)]
      BY <1>1, <2>1, <2>2
    <2> HIDE DEF when
    <2> QED
      BY <2>2, <2>3, <2>4, FullLog
  <1>6. record.platform = Slots /\ (method = "direct" => record.application = Slots)
    BY <1>3 DEF TypeOK, Slots
  <1> QED
    BY <1>1, <1>2, <1>4, <1>5, <1>6 DEF ValidEvidence, Rows, Tiers, TrafficSteps, TrafficSlots

\* The rest of what the runs check of a harness.
LEMMA HarnessIsGood ==
  ASSUME TypeOK, HarnessInv
  PROVE  TrackedBeforeCreated /\ CleanupComplete /\ ApprovedReleaseRestored /\ CutoverIsReal
  <1>f. method \in Harness
    BY MethodsAreHarnesses DEF TypeOK
  <1>1. TrackedBeforeCreated
    BY DeletionsAreKnown DEF HarnessInv, KnownInTime, TrackedBeforeCreated
  <1>2. CleanupComplete
    BY DEF HarnessInv, Cleaned, Exits, CleanupComplete, TypeOK
  <1>3. ApprovedReleaseRestored
    <2> SUFFICES ASSUME phase = "unwound", record.result = "passed", upsets = 0
                 PROVE  \A s \in Slots : serving[s] = "first"
      BY DEF ApprovedReleaseRestored
    <2>1. at = Finishes(method) + 1
      BY DEF HarnessInv, Position
    <2> QED
      BY <1>f, <2>1 DEF HarnessInv, Serves, Slots, Finishes, FirstRelease, Approves
  <1>4. CutoverIsReal
    <2>1. Len(record.traffic) > 1 => digest["first"] # digest["second"]
      BY DEF HarnessInv, TwoImages, Different
    <2>2. ASSUME active = "aks02", upsets = 0 PROVE serving["aks02"] = "second"
      <3>1. phase = "running" /\ CutsOver(method) < at /\ at <= RollsBack(method)
        BY <2>2 DEF HarnessInv, Endpoint
      <3> QED
        BY <1>f, <2>2, <3>1 DEF HarnessInv, Serves, TypeOK, CutsOver, RollsBack, Updates, Restores
    <2> QED
      BY <2>1, <2>2 DEF CutoverIsReal
  <1> QED
    BY <1>1, <1>2, <1>3, <1>4

-----------------------------------------------------------------------------
(* The driver                                                              *)

\* Every step of the example is a harness's or the driver's.
LEMMA DriverKinds ==
  ASSUME ExampleNext
  PROVE  \/ HarnessStep /\ (UNCHANGED driverVars \/ Interrupt) /\ Alive
         \/ Setup \/ Judge \/ JudgeFails \/ Kill \/ Finish \/ Terminate
  BY DEF ExampleNext, HarnessWork, DriverWork, HarnessStep, Interrupt, Alive

\* The methods accepted are the first ones, so their number says which is next.
LEMMA NextMethod ==
  ASSUME DriverTypeOK, Accepted, stage \in Waits, NEW p, p = Append(passed, method)
  PROVE  /\ p \in Seq(Harness) /\ Len(p) <= Len(Methods)
         /\ \A k \in 1..Len(p) : p[k] = Methods[k]
         /\ p = Methods \/ Len(p) < Len(Methods)
  <1>1. /\ Methods \in Seq(Harness) /\ passed \in Seq(Harness) /\ method \in Harness
        /\ Len(passed) < Len(Methods) /\ method = Methods[Len(passed) + 1]
        /\ \A k \in 1..Len(passed) : passed[k] = Methods[k]
    BY MethodsAreHarnesses DEF DriverTypeOK, TypeOK, Accepted, Harness
  <1>2. /\ p \in Seq(Harness) /\ Len(p) = Len(passed) + 1 /\ p[Len(passed) + 1] = method
        /\ \A k \in 1..Len(passed) : p[k] = passed[k]
    BY <1>1, AppendProperties
  <1>3. \A k \in 1..Len(p) : p[k] = Methods[k]
    BY <1>1, <1>2
  <1>4. Len(p) = Len(Methods) => p = Methods
    BY <1>1, <1>2, <1>3, SeqEqual
  <1> QED
    BY <1>1, <1>2, <1>3, <1>4

\* The next harness starts afresh.
LEMMA LaunchIsFresh ==
  ASSUME NEW m \in ToSet(Methods), Launch(m), DriverTypeOK, existing = {}
  PROVE  TypeOK' /\ Fresh'
  <1>1. /\ method' = m /\ at' = 1 /\ phase' = "running" /\ existing' = {} /\ active' = "closed"
        /\ exit' = "none" /\ cut' = FALSE /\ todo' = << >> /\ saved' = {} /\ granted' = {}
        /\ record' = [result |-> "running", failure |-> FALSE, errors |-> {}, tiers |-> << >>,
                      platform |-> {}, application |-> {}, traffic |-> << >>]
    BY DEF Launch
  <1>2. Fresh'
    BY <1>1, MethodsAreHarnesses DEF Fresh
  <1>3. 1 \in 1..(Len(Program') + 1)
    <2>1. Len(Program') = Finishes(m)
      BY <1>1, MethodsAreHarnesses, ProgramLength DEF Program
    <2> QED
      BY <2>1 DEF Finishes
  <1>4. /\ tracked' \in [registry : BOOLEAN, clusters : Seq(Slots), images : Seq(Revision)]
        /\ digest' \in [Revision -> {"none", "d1", "d2"}]
        /\ serving' \in [Slots -> Served] /\ opRev' \in [Slots -> Nat]
        /\ git' \in [files : [Slots -> Files], commits : Nat, head : [Slots -> Files]]
    BY DEF Launch, Untracked, Served, Files
  <1>5. record' \in [result : {"running", "passed", "failed"}, failure : BOOLEAN,
                     errors : SUBSET Resource, tiers : Seq(TierName),
                     platform : SUBSET Slots, application : SUBSET Slots,
                     traffic : Seq([step : Check, slot : Slots, rev : Served])]
    BY <1>1
  <1>6. signals' = signals /\ upsets' = upsets
    BY DEF Launch
  <1>7. signals' \in 0..MaxSignals /\ upsets' \in 0..MaxUpsets
    BY <1>6 DEF TypeOK, DriverTypeOK
  <1>8. /\ method' \in ToSet(Methods) /\ existing' \subseteq Resource /\ granted' \subseteq Slots
        /\ phase' \in {"running", "unwound", "cleaning", "deleting", "reporting", "exited", "killed"}
        /\ active' \in Slots \cup {"closed"} /\ todo' \in Seq(Resource)
        /\ saved' \subseteq {"local", "published"} /\ exit' \in {"none", "zero", "one"} /\ cut' \in BOOLEAN
    <2>1. todo' \in Seq(Resource) /\ granted' \subseteq Slots /\ existing' \subseteq Resource
      BY <1>1
    <2>2. /\ phase' = "running" /\ active' = "closed" /\ saved' = {} /\ exit' = "none" /\ cut' = FALSE
          /\ method' \in ToSet(Methods)
      BY <1>1
    <2> QED
      BY <2>1, <2>2
  <1>9. at' \in 1..(Len(Program') + 1)
    BY <1>1, <1>3
  <1> QED
    BY <1>2, <1>4, <1>5, <1>7, <1>8, <1>9 DEF TypeOK

\* The invariant holds when the driver starts.
LEMMA ExampleStarts == ExampleInit => ExampleInv
  <1> SUFFICES ASSUME ExampleInit PROVE ExampleInv
    OBVIOUS
  <1>1. Methods \in Seq(Harness) /\ Len(Methods) > 0 /\ Methods[1] \in ToSet(Methods)
        /\ method = Methods[1] /\ method \in Harness
    BY MethodsAreHarnesses DEF ExampleInit, Init, ToSet
  <1>2. HarnessInv
    BY <1>1, FreshIsGood DEF Fresh, ExampleInit, Init
  <1>3. TypeOK
    <2>1. at \in 1..(Len(Program) + 1)
      <3>1. Len(Program) = Finishes(method)
        BY <1>1, ProgramLength DEF Program
      <3> QED
        BY <3>1 DEF ExampleInit, Init, Finishes
    <2>2. /\ tracked \in [registry : BOOLEAN, clusters : Seq(Slots), images : Seq(Revision)]
          /\ digest \in [Revision -> {"none", "d1", "d2"}]
          /\ serving \in [Slots -> Served] /\ opRev \in [Slots -> Nat]
          /\ git \in [files : [Slots -> Files], commits : Nat, head : [Slots -> Files]]
      BY DEF ExampleInit, Init, Untracked, Served, Files
    <2>3. record \in [result : {"running", "passed", "failed"}, failure : BOOLEAN,
                      errors : SUBSET Resource, tiers : Seq(TierName),
                      platform : SUBSET Slots, application : SUBSET Slots,
                      traffic : Seq([step : Check, slot : Slots, rev : Served])]
      BY DEF ExampleInit, Init
    <2>4. /\ phase = "running" /\ existing = {} /\ granted = {} /\ active = "closed"
          /\ todo = << >> /\ saved = {} /\ exit = "none" /\ signals = 0 /\ upsets = 0
          /\ cut = FALSE
      BY DEF ExampleInit, Init
    <2>5. signals \in 0..MaxSignals /\ upsets \in 0..MaxUpsets
      BY <2>4, AcceptanceAssumption
    <2>6. /\ method \in ToSet(Methods) /\ existing \subseteq Resource /\ granted \subseteq Slots
          /\ phase \in {"running", "unwound", "cleaning", "deleting", "reporting", "exited", "killed"}
          /\ active \in Slots \cup {"closed"} /\ todo \in Seq(Resource)
          /\ saved \subseteq {"local", "published"} /\ exit \in {"none", "zero", "one"} /\ cut \in BOOLEAN
      <3>1. todo \in Seq(Resource) /\ granted \subseteq Slots /\ existing \subseteq Resource
        BY <2>4
      <3>2. /\ phase = "running" /\ active = "closed" /\ saved = {} /\ exit = "none" /\ cut = FALSE
            /\ method \in ToSet(Methods)
        BY <1>1, <2>4
      <3> QED
        BY <3>1, <3>2
    <2> QED
      BY <2>1, <2>2, <2>3, <2>5, <2>6 DEF TypeOK
  <1>4. DriverTypeOK /\ Accepted
    BY <1>1, <1>3 DEF ExampleInit, DriverTypeOK, Accepted, Waits
  <1> QED
    BY <1>2, <1>4 DEF ExampleInv

\* A harness that is killed, or that goes on after a signal to the driver.
LEMMA KillStays ==
  ASSUME TypeOK, HarnessInv, Kill PROVE TypeOK' /\ HarnessInv'
  <1>1. /\ phase' = (IF phase = "exited" THEN phase ELSE "killed") /\ active' = "closed"
        /\ UNCHANGED <<method, at, tracked, existing, digest, serving, granted, opRev, git, record>>
        /\ UNCHANGED <<todo, saved, exit, cut, signals, upsets>>
    BY DEF Kill, buildVars, clusterVars, cleanVars, faultVars
  <1>2. TypeOK' /\ Known' = Known
    BY <1>1 DEF TypeOK, Program, Known
  <1>3. phase' # "running" /\ phase' # "unwound" /\ (Sound' => Sound)
    BY <1>1 DEF Sound
  <1>4. Position' /\ Endpoint' /\ Cleaned' /\ Exits'
    BY <1>1 DEF HarnessInv, Position, Endpoint, Cleaned, Exits
  <1>5. Evidence' /\ TwoImages'
    BY <1>1, <1>3 DEF HarnessInv, Evidence, TwoImages, Different
  <1>6. KnownInTime' /\ Serves'
    BY <1>1, <1>2, <1>3 DEF HarnessInv, KnownInTime, Serves
  <1> QED
    BY <1>2, <1>4, <1>5, <1>6 DEF HarnessInv

\* What does not touch a harness but its count of signals keeps its invariant.
LEMMA StillStays ==
  ASSUME TypeOK, HarnessInv, UNCHANGED vars \/ Terminate PROVE TypeOK' /\ HarnessInv'
  <1>1. /\ UNCHANGED <<method, at, phase, active, tracked, existing, digest, serving, granted, opRev, git, record>>
        /\ UNCHANGED <<todo, saved, exit, cut, upsets>>
        /\ signals' = signals \/ (signals < MaxSignals /\ signals' = signals + 1)
    BY DEF Terminate, vars, buildVars, clusterVars, cleanVars, faultVars
  <1>2. signals' \in 0..MaxSignals
    BY <1>1, AcceptanceAssumption DEF TypeOK
  <1>3. TypeOK' /\ Known' = Known
    BY <1>1, <1>2 DEF TypeOK, Program, Known
  <1>4. Position' /\ Endpoint' /\ Cleaned' /\ Exits'
    BY <1>1 DEF HarnessInv, Position, Endpoint, Cleaned, Exits
  <1>5. Evidence' /\ TwoImages'
    BY <1>1 DEF HarnessInv, Evidence, TwoImages, Different, Sound
  <1>6. KnownInTime' /\ Serves'
    BY <1>1, <1>3 DEF HarnessInv, KnownInTime, Serves
  <1> QED
    BY <1>3, <1>4, <1>5, <1>6 DEF HarnessInv

\* The driver's own state, through a step of either.
LEMMA DriverStays ==
  ASSUME ExampleInv, TypeOK', HarnessStep, UNCHANGED driverVars \/ Interrupt, Alive
  PROVE  DriverTypeOK' /\ Accepted'
  <1>1. method' = method
    BY Frames
  <1>2. /\ stage' \in Waits /\ stage \in Waits
        /\ passed' = passed /\ result' = result /\ summary' = summary /\ status' = status
    BY DEF driverVars, Alive, Interrupt, To, Waits
  <1>3. DriverTypeOK'
    BY <1>2 DEF ExampleInv, DriverTypeOK, Waits
  <1>4. Accepted'
    BY <1>1, <1>2 DEF ExampleInv, Accepted, Waits
  <1> QED
    BY <1>3, <1>4

\* A report accepted: the last one, or the next harness starts.
LEMMA JudgeStays ==
  ASSUME ExampleInv, Judge PROVE ExampleInv'
  <1>1. /\ stage = "waiting" /\ phase = "exited" /\ exit = "zero"
        /\ passed' = Append(passed, method) /\ summary' = summary /\ status' = status
    BY DEF Judge
  <1>2. existing = {}
    BY <1>1, Complete DEF ExampleInv, DriverTypeOK, AcceptedIsComplete
  <1>3. /\ passed' \in Seq(Harness) /\ Len(passed') <= Len(Methods)
        /\ \A k \in 1..Len(passed') : passed'[k] = Methods[k]
        /\ passed' = Methods \/ Len(passed') < Len(Methods)
    BY <1>1, NextMethod DEF ExampleInv, Waits
  <1>4. CASE passed' = Methods
    <2>1. stage' = "closing" /\ result' = "passed" /\ UNCHANGED vars /\ existing' = existing
      BY <1>4 DEF Judge, To, vars, buildVars
    <2>2. TypeOK' /\ HarnessInv'
      BY <2>1, StillStays DEF ExampleInv, DriverTypeOK
    <2>3. DriverTypeOK'
      BY <1>1, <1>3, <2>1, <2>2 DEF ExampleInv, DriverTypeOK, Harness
    <2>4. Accepted'
      BY <1>1, <1>2, <1>3, <1>4, <2>1 DEF ExampleInv, Accepted, Waits
    <2> QED
      BY <2>2, <2>3, <2>4 DEF ExampleInv
  <1>5. CASE passed' # Methods
    <2> DEFINE m == Methods[Len(passed') + 1]
    <2>1. stage' = "waiting" /\ result' = result /\ Launch(m)
      BY <1>5 DEF Judge, To
    <2>2. Len(passed') < Len(Methods) /\ Len(passed') \in Nat
      BY <1>3, <1>5
    <2>3. m \in ToSet(Methods)
      BY <2>2, MethodsAreHarnesses DEF ToSet
    <2> HIDE DEF m
    <2>4. TypeOK' /\ Fresh' /\ method' = m
      BY <1>2, <2>1, <2>3, LaunchIsFresh DEF ExampleInv, Launch
    <2>5. Fresh' => HarnessInv'
      BY FreshIsGood, PTL
    <2>6. result = "running"
      BY <1>1 DEF ExampleInv, Accepted, Waits
    <2>7. DriverTypeOK'
      BY <1>1, <1>3, <2>1, <2>4, <2>6 DEF ExampleInv, DriverTypeOK, Harness
    <2>8. Accepted'
      BY <1>1, <1>3, <2>1, <2>2, <2>4, <2>6 DEF ExampleInv, Accepted, Waits, m
    <2> QED
      BY <2>4, <2>5, <2>7, <2>8 DEF ExampleInv
  <1> QED
    BY <1>4, <1>5

\* The driver's other steps.
LEMMA OtherStays ==
  ASSUME ExampleInv, Setup \/ JudgeFails \/ Kill \/ Finish \/ Terminate PROVE ExampleInv'
  <1>1. TypeOK' /\ HarnessInv'
    BY StillStays, KillStays DEF ExampleInv, DriverTypeOK, Setup, JudgeFails, Finish
  <1>2. /\ method' = method /\ passed' = passed /\ existing' = existing
    BY DEF Setup, JudgeFails, Kill, Finish, Terminate, vars, faultVars, buildVars
  <1>3. CASE Setup \/ JudgeFails
    BY <1>1, <1>2, <1>3 DEF ExampleInv, DriverTypeOK, Accepted, Waits, Setup, JudgeFails, To
  <1>4. CASE Kill \/ Terminate
    BY <1>1, <1>2, <1>4 DEF ExampleInv, DriverTypeOK, Accepted, Waits, Kill, Terminate, To
  <1>5. CASE Finish
    BY <1>1, <1>2, <1>5 DEF ExampleInv, DriverTypeOK, Accepted, Waits, Finish, To
  <1> QED
    BY <1>3, <1>4, <1>5

\* Every step of the example keeps the invariant.
LEMMA ExampleInvStep == ExampleInv /\ [ExampleNext]_exampleVars => ExampleInv'
  <1> SUFFICES ASSUME ExampleInv, [ExampleNext]_exampleVars PROVE ExampleInv'
    OBVIOUS
  <1>1. CASE UNCHANGED exampleVars
    <2>1. UNCHANGED vars /\ UNCHANGED <<stage, passed, result, summary, status>>
      BY <1>1 DEF exampleVars, driverVars
    <2>2. method' = method /\ existing' = existing
      BY <2>1 DEF vars, faultVars, buildVars
    <2>3. TypeOK' /\ HarnessInv'
      BY <2>1, StillStays DEF ExampleInv, DriverTypeOK
    <2> QED
      BY <2>1, <2>2, <2>3 DEF ExampleInv, DriverTypeOK, Accepted
  <1>2. CASE HarnessStep /\ (UNCHANGED driverVars \/ Interrupt) /\ Alive
    <2>1. TypeOK' /\ HarnessInv'
      BY <1>2, HarnessStays DEF ExampleInv, DriverTypeOK
    <2> QED
      BY <1>2, <2>1, DriverStays DEF ExampleInv
  <1>3. CASE Judge
    BY <1>3, JudgeStays
  <1>4. CASE Setup \/ JudgeFails \/ Kill \/ Finish \/ Terminate
    BY <1>4, OtherStays
  <1> QED
    BY <1>1, <1>2, <1>3, <1>4, DriverKinds

\* No step of the example releases to the slot users are on.
LEMMA NoReleaseToActive ==
  ASSUME ExampleInv, [ExampleNext]_exampleVars
  PROVE  [active # "closed" /\ upsets' = upsets => serving'[active] = serving[active]]_vars
  <1> SUFFICES ASSUME active # "closed", upsets' = upsets PROVE serving'[active] = serving[active]
    OBVIOUS
  <1>1. /\ phase = "running" /\ Opens(method) < at /\ at <= Closes(method)
        /\ active = IF CutsOver(method) < at /\ at <= RollsBack(method) THEN "aks02" ELSE "aks01"
        /\ method \in Harness /\ at \in Nat /\ upsets \in Nat
    BY MethodsAreHarnesses DEF ExampleInv, HarnessInv, Endpoint, DriverTypeOK, TypeOK, Opens, Closes
  <1>2. CASE HarnessStep
    <2>1. serving' = serving \/ Deploy \/ Sync \/ Reject \/ Drift
      BY <1>1, <1>2, Frames, Misbehaving DEF DeleteNext
    <2>2. CASE Deploy \/ Sync \/ Reject \/ Drift
      <3>1. /\ Step.op \in {"deploy", "sync", "drift", "reject"} /\ at <= Len(Program)
            /\ \A s \in Slots : s # Step.on => serving'[s] = serving[s]
        BY <2>2 DEF Deploy, Sync, Reject, Drift, At, ExampleInv, DriverTypeOK, TypeOK
      <3>2. \/ Step.on = "aks01" /\ at < FirstRelease(method)
            \/ Step.on = "aks02" /\ (at < Updates(method) \/ Restores(method) <= at)
        BY <3>1, Here DEF ReleaseStep, ExampleInv, DriverTypeOK
      <3>3. Step.on # active /\ active \in Slots
        BY <1>1, <3>2 DEF Opens, CutsOver, RollsBack, FirstRelease, Updates, Restores, Slots, Harness
      <3> QED
        BY <3>1, <3>3
    <2> QED
      BY <2>1, <2>2
  <1>3. CASE UNCHANGED exampleVars \/ Setup \/ JudgeFails \/ Kill \/ Finish \/ Terminate
    BY <1>3 DEF exampleVars, vars, Setup, JudgeFails, Kill, Finish, Terminate, clusterVars
  <1>4. ~Judge
    BY <1>1 DEF Judge
  <1> QED
    BY <1>2, <1>3, <1>4, DriverKinds

-----------------------------------------------------------------------------
(* The theorems                                                            *)

\* The invariant of the whole example: position, endpoint, evidence,
\* resources, releases and exit status of the harness, and the driver's books.
THEOREM ExampleInductive == ExampleSpec => []ExampleInv
  BY ExampleStarts, ExampleInvStep, PTL DEF ExampleSpec

\* The variables keep their types (the type invariant of both modules).
THEOREM ExampleTypes == ExampleSpec => []DriverTypeOK
  <1>1. ExampleInv => DriverTypeOK
    BY DEF ExampleInv
  <1> QED
    BY <1>1, ExampleInductive, PTL

\* Whatever fails, is signalled or is killed on the way, an exit status of
\* zero means a published report the rule accepts and nothing left behind.
THEOREM ZeroMeansComplete == ExampleSpec => []AcceptedIsComplete
  <1>1. ExampleInv => AcceptedIsComplete
    BY Complete DEF ExampleInv, DriverTypeOK
  <1> QED
    BY <1>1, ExampleInductive, PTL

\* The driver's exit status of zero speaks for every harness asked for.
THEOREM DriverZeroMeansAll == ExampleSpec => []ExampleIsComplete
  <1>1. ExampleInv => ExampleIsComplete
    BY DEF ExampleInv, Accepted, ExampleIsComplete
  <1> QED
    BY <1>1, ExampleInductive, PTL

\* Every resource on the host is one that cleanup() would delete.
THEOREM NothingUntracked == ExampleSpec => []TrackedBeforeCreated
  <1>1. ExampleInv => TrackedBeforeCreated
    BY HarnessIsGood DEF ExampleInv, DriverTypeOK
  <1> QED
    BY <1>1, ExampleInductive, PTL

\* What cleanup() leaves it names, unless it was itself cut short.
THEOREM CleanupIsComplete == ExampleSpec => []CleanupComplete
  <1>1. ExampleInv => CleanupComplete
    BY HarnessIsGood DEF ExampleInv, DriverTypeOK
  <1> QED
    BY <1>1, ExampleInductive, PTL

\* A run declared passed leaves both clusters on the approved release.
THEOREM ApprovedIsRestored == ExampleSpec => []ApprovedReleaseRestored
  <1>1. ExampleInv => ApprovedReleaseRestored
    BY HarnessIsGood DEF ExampleInv, DriverTypeOK
  <1> QED
    BY <1>1, ExampleInductive, PTL

\* The cutover is between two different images, to a slot already checked.
THEOREM RealCutover == ExampleSpec => []CutoverIsReal
  <1>1. ExampleInv => CutoverIsReal
    BY HarnessIsGood DEF ExampleInv, DriverTypeOK
  <1> QED
    BY <1>1, ExampleInductive, PTL

\* No release ever goes to the slot the stable endpoint serves from.
THEOREM ActiveIsLeftAlone == ExampleSpec => NeverReleaseToActive
  <1>1. ExampleInv /\ [ExampleNext]_exampleVars
        => [active # "closed" /\ upsets' = upsets => serving'[active] = serving[active]]_vars
    BY NoReleaseToActive
  <1> QED
    BY <1>1, ExampleInductive, PTL DEF ExampleSpec, NeverReleaseToActive
=============================================================================
