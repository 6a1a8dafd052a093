----------------------------- MODULE NativeRbac -----------------------------
(***************************************************************************)
(* scripts/acceptance_native_rbac.py: what a slot's application identity   *)
(* and its platform identity may do, asked of a real API server while      *)
(* their bindings are applied, emptied and applied again.                  *)
(*                                                                         *)
(* check() and the try block of platform_check() are straight-line code,   *)
(* so they are data: Checks lists the commands in order and `at` is the    *)
(* next one.  A binding is the sequence of what was applied to it, and the *)
(* API server's authorizer enforces some element of it, the last in time.  *)
(***************************************************************************)
EXTENDS Naturals, Sequences, SequencesExt

CONSTANT MaxInterrupts  \* bound: SIGTERM or SIGINT deliveries

ASSUME NativeAssumption == MaxInterrupts \in Nat

VARIABLES
    log,        \* log[b]: whether binding b named its subject, after each change
    seen,       \* seen[b]: position in log[b] the authorizer enforces
    crd,        \* whether the fixture's CustomResourceDefinition exists
    at,         \* index in Checks of the next command
    cleanup,    \* the finally block: no, revoke, confirm, delete, record, over
    raised,     \* the exception under way when it was entered
    errors,     \* cleanup_errors
    named,      \* test.record["cleanup_errors"]
    outcome,    \* how check() ended: passed, failure, runtime, interrupt, cut
    interrupts  \* signals delivered

nativeVars == <<log, seen, crd, at, cleanup, raised, errors, named, outcome, interrupts>>

Binding == {"application", "platform"}

-----------------------------------------------------------------------------
(* The commands.  "beyond" is asked what no binding of the run grants.     *)

Apply(b, bound)    == [op |-> "apply", on |-> b, value |-> bound]
Ask(b, expected)   == [op |-> "ask", on |-> b, value |-> expected]

\* check(): the probe lists, the dry run of the rendered bundle and the patch of
\* the Gateway; then without the principal; then with it again.
Application ==
    << Apply("application", TRUE),
       Ask("application", TRUE), Ask("beyond", FALSE), Ask("application", TRUE), Ask("beyond", FALSE),
       Apply("application", FALSE), Ask("application", FALSE), Ask("application", FALSE),
       Apply("application", TRUE), Ask("application", TRUE) >>

\* platform_check() renders both declarations before its try block, then creates
\* the fixture, asks for isolation, and revokes and restores.
Platform ==
    << [op |-> "render", on |-> "platform", value |-> TRUE],
       Apply("platform", TRUE), [op |-> "create", on |-> "platform", value |-> TRUE],
       Ask("beyond", FALSE),
       Apply("platform", FALSE), Ask("platform", FALSE),
       Apply("platform", TRUE), Ask("platform", TRUE) >>

\* Mutant: the revoked platform identity is not asked anything.
ChecksWithoutRevoked == Application \o SelectSeq(Platform, LAMBDA c : c # Ask("platform", FALSE))

Checks == Application \o Platform

Trying  == at > Len(Application) + 1
Current == Checks[at]
At(op)  == cleanup = "no" /\ at <= Len(Checks) /\ Current.op = op

Bound(b)    == Last(log[b])
Enforced(b) == IF b \in Binding THEN log[b][seen[b]] ELSE FALSE

NativeTypeOK ==
    /\ \A b \in Binding : log[b] \in Seq(BOOLEAN) /\ seen[b] \in 1..Len(log[b])
    /\ crd \in BOOLEAN
    /\ at \in 1..(Len(Checks) + 1)
    /\ cleanup \in {"no", "revoke", "confirm", "delete", "record", "over"}
    /\ raised \in {"none", "failure", "interrupt"}
    /\ errors \subseteq {"binding", "crd"} /\ named \subseteq {"binding", "crd"}
    /\ outcome \in {"none", "passed", "failure", "runtime", "interrupt", "cut"}
    /\ interrupts \in 0..MaxInterrupts

\* install_platform has bound the platform identity; nobody bound the application.
NativeInit ==
    /\ log = [b \in Binding |-> << b = "platform" >>]
    /\ seen = [b \in Binding |-> 1]
    /\ crd = FALSE
    /\ at = 1
    /\ cleanup = "no"
    /\ raised = "none"
    /\ errors = {} /\ named = {}
    /\ outcome = "none"
    /\ interrupts = 0

-----------------------------------------------------------------------------
(* The straight path                                                       *)

\* kubectl apply of a declaration changes the binding only when it differs.
Bind(b, bound) == log' = IF Bound(b) = bound THEN log ELSE [log EXCEPT ![b] = Append(@, bound)]

Advance == at' = at + 1 /\ UNCHANGED <<cleanup, raised, outcome>>

Raise(kind) ==
    /\ raised' = kind
    /\ IF Trying THEN cleanup' = "revoke" /\ UNCHANGED outcome
                 ELSE cleanup' = "over" /\ outcome' = kind
    /\ UNCHANGED at

\* Mutant: forbidden() takes any failure for the API server's refusal.
RefusedByStatus(b) == TRUE

\* A refusal is "no" or "Forbidden", said by the API server.
Refused(b) == ~Enforced(b)

\* A permission is an unambiguous "yes" or an operation that went through.
Allowed(b) == Enforced(b)

\* Nothing is waited for between a change and the question about it.
ApplyBinding ==
    /\ At("apply")
    /\ \/ Bind(Current.on, Current.value) /\ Advance
       \/ (Bind(Current.on, Current.value) \/ UNCHANGED log) /\ Raise("failure")
    /\ UNCHANGED <<seen, crd, errors, named, interrupts>>

\* as_user(): the expected answer, or a mismatch, an ambiguous answer, a timeout.
Probe ==
    /\ At("ask")
    /\ \/ (IF Current.value THEN Allowed(Current.on) ELSE Refused(Current.on)) /\ Advance
       \/ Raise("failure")
    /\ UNCHANGED <<log, seen, crd, errors, named, interrupts>>

\* platform-created-crd: a create that timed out may have been carried out.
CreateFixture ==
    /\ At("create")
    /\ \/ Enforced("platform") /\ crd' = TRUE /\ Advance
       \/ crd' \in {crd, Enforced("platform")} /\ Raise("failure")
    /\ UNCHANGED <<log, seen, errors, named, interrupts>>

Render ==
    /\ At("render")
    /\ Advance \/ Raise("failure")
    /\ UNCHANGED <<log, seen, crd, errors, named, interrupts>>

LeaveTry ==
    /\ cleanup = "no" /\ at > Len(Checks)
    /\ cleanup' = "revoke"
    /\ UNCHANGED <<log, seen, crd, at, raised, errors, named, outcome, interrupts>>

-----------------------------------------------------------------------------
(* The finally block                                                       *)

Cleaning(from, to) == cleanup = from /\ cleanup' = to

\* Mutant: the binding's cleanup error ends the block.
AfterBindingAtOnce == "record"

\* Where a failed binding cleanup goes on.
AfterBindingError == "delete"

BindingError == Cleaning(cleanup, AfterBindingError) /\ errors' = errors \cup {"binding"}

Revoke ==
    /\ \/ Cleaning("revoke", "confirm") /\ Bind("platform", FALSE) /\ UNCHANGED errors
       \/ cleanup = "revoke" /\ BindingError /\ (Bind("platform", FALSE) \/ UNCHANGED log)
    /\ UNCHANGED <<seen, crd, at, raised, named, outcome, interrupts>>

Confirm ==
    /\ \/ Cleaning("confirm", "delete") /\ Refused("platform") /\ UNCHANGED errors
       \/ cleanup = "confirm" /\ BindingError
    /\ UNCHANGED <<log, seen, crd, at, raised, named, outcome, interrupts>>

DeleteFixture ==
    /\ Cleaning("delete", "record")
    /\ \/ crd' = FALSE /\ UNCHANGED errors
       \/ crd' \in {crd, FALSE} /\ errors' = errors \cup {"crd"}
    /\ UNCHANGED <<log, seen, at, raised, named, outcome, interrupts>>

\* Mutant: cleanup errors are recorded but not raised.
OutcomeRecorded == IF raised # "none" THEN raised ELSE "passed"

\* The exception that was under way goes on; a RuntimeError only without one.
Outcome ==
    IF raised # "none" THEN raised ELSE IF errors # {} THEN "runtime" ELSE "passed"

Record ==
    /\ Cleaning("record", "over")
    /\ named' = named \cup errors
    /\ outcome' = Outcome
    /\ UNCHANGED <<log, seen, crd, at, raised, errors, interrupts>>

-----------------------------------------------------------------------------

\* KeyboardInterrupt is not among the exceptions the finally block catches.
Interrupt ==
    /\ cleanup # "over" /\ interrupts < MaxInterrupts
    /\ interrupts' = interrupts + 1
    /\ IF cleanup = "no" THEN Raise("interrupt")
       ELSE cleanup' = "over" /\ outcome' = "cut" /\ UNCHANGED <<raised, at>>
    /\ UNCHANGED <<log, seen, crd, errors, named>>

\* The authorizer's informer takes in the next change of a binding.
Authorize(b) ==
    /\ seen[b] < Len(log[b])
    /\ seen' = [seen EXCEPT ![b] = @ + 1]
    /\ UNCHANGED <<log, crd, at, cleanup, raised, errors, named, outcome, interrupts>>

NativeNext ==
    \/ ApplyBinding \/ Probe \/ CreateFixture \/ Render \/ LeaveTry
    \/ Revoke \/ Confirm \/ DeleteFixture \/ Record
    \/ Interrupt \/ \E b \in Binding : Authorize(b)

NativeSpec == NativeInit /\ [][NativeNext]_nativeVars

-----------------------------------------------------------------------------
(* Properties                                                              *)

\* An expected answer is about the binding as last applied, although nothing
\* waits for the authorizer: each change is asked about with the opposite answer
\* to the one before, so an answer from before the change cannot be the expected one.
AnswersAreCurrent ==
    [][at' = at + 1 /\ Current.op \in {"ask", "create"} /\ Current.on \in Binding
         => seen[Current.on] = Len(log[Current.on])]_nativeVars

\* A check that passed leaves the slot ready for its releases and nothing of the
\* fixture: the application is bound and authorized, the platform identity is
\* revoked and refused, the CRD is gone, and no cleanup error is hidden.
IntroducedIsSettled ==
    outcome = "passed" =>
        /\ Bound("application") /\ seen["application"] = Len(log["application"])
        /\ ~Bound("platform") /\ seen["platform"] = Len(log["platform"])
        /\ ~crd /\ named = {}

\* "Both cleanup operations must run even if the first one fails"
\* (acceptance_native_rbac.py:319): unless a signal cuts the block, what is left
\* behind is named in the report, and an earlier exception is the one that leaves.
BothCleanups ==
    Trying /\ outcome \notin {"none", "cut"} =>
        /\ ~Bound("platform") \/ "binding" \in named
        /\ ~crd \/ "crd" \in named
        /\ raised # "none" => outcome = raised
=============================================================================
