-------------------------- MODULE SlotIntroduction --------------------------
(***************************************************************************)
(* A slot of the direct harness: the native RBAC check, then releases by   *)
(* apply_and_check(), each a deployment as the application identity that   *)
(* the check introduced and the qualification of what it serves.           *)
(***************************************************************************)
EXTENDS NativeRbac, GatewayCheck

CONSTANT MaxReleases  \* releases to the slot: initial, update, restore

ASSUME SlotAssumption == MaxReleases \in Nat \ {0}

VARIABLE releases  \* releases deployed

slotVars == <<nativeVars, gateVars, releases>>

SlotInit == NativeInit /\ GateInit /\ releases = 0

Introduce == NativeNext /\ UNCHANGED <<gateVars, releases>>

\* deploy() impersonates the application, so it is refused unless that one is
\* authorized; it changes the route or only the Deployment.  The slot is then
\* checked from the start.
Deploy ==
    /\ outcome = "passed" /\ releases < MaxReleases
    /\ releases = 0 \/ verdict = "passed"
    /\ releases' = releases + 1
    /\ line' = 1 /\ child' = "none" /\ stopping' = FALSE
    /\ \/ /\ verdict' = IF Enforced("application") THEN "none" ELSE "failed"
          /\ \E changed \in IF releases = 0 THEN {TRUE} ELSE BOOLEAN :
                gen' = IF changed THEN [gen EXCEPT !.route = @ + 1] ELSE gen
          /\ UNCHANGED faults
       \/ Fault /\ verdict' = "failed" /\ UNCHANGED gen
    /\ UNCHANGED <<nativeVars, observed, socket, tunnel, error, signals>>

Qualify == releases > 0 /\ GateNext /\ UNCHANGED <<nativeVars, releases>>

SlotNext == Introduce \/ Deploy \/ Qualify

SlotSpec == SlotInit /\ [][SlotNext]_slotVars

-----------------------------------------------------------------------------
(* Properties                                                              *)

SlotTypeOK == NativeTypeOK /\ GateTypeOK /\ releases \in 0..MaxReleases

\* A slot whose native check passed, and whose releases meet no fault, qualifies:
\* not refused to the identity it just introduced, not judged by conditions from
\* before the release, not through the tunnel that a rejection closed.
FaultlessPasses == verdict = "failed" => faults > 0 \/ signals > 0
=============================================================================
