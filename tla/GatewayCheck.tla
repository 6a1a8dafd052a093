---------------------------- MODULE GatewayCheck ----------------------------
(***************************************************************************)
(* What qualifies a slot after a deployment: the smoke test of             *)
(* check_release() and scripts/acceptance_gateway.py's check(), each       *)
(* through a kubectl port-forward of its own (service_forward()).          *)
(*                                                                         *)
(* The wait for current-generation conditions, then the commands listed in *)
(* Qualification.  A command of a tunnel meets its child process, which    *)
(* starts, listens, and may end at any time.                               *)
(***************************************************************************)
EXTENDS Naturals, Sequences

CONSTANTS MaxFaults,   \* bound: things that go wrong outside
          MaxSignals   \* bound: SIGTERM or SIGINT deliveries

ASSUME GatewayAssumption == MaxFaults \in Nat /\ MaxSignals \in Nat

VARIABLES
    gen,       \* metadata.generation of the Gateway and of the HTTPRoute
    observed,  \* observedGeneration of their conditions, all of them "True"
    line,      \* index in Qualification of the next command
    child,     \* the port-forward: none, starting, listening; dead, or ended once it had listened
    stopping,  \* SIGTERM was sent to it
    socket,    \* the SNI check's connection: none, up, or cut off by the child's end
    tunnel,    \* service_forward(): closed, popen, startup, open, finally, lost
    error,     \* the exception under way
    verdict,   \* how the check ended: none, passed, failed
    faults,    \* things that went wrong
    signals    \* signals delivered

gateVars == <<gen, observed, line, child, stopping, socket, tunnel, error, verdict, faults, signals>>

Kind == {"gateway", "route"}

\* Mutant: the three checks share one tunnel.
OneTunnel ==
    << "open", "smoke", "close", "ready", "open", "routes", "sni", "host", "close" >>

\* "Never reuse its tunnel for subsequent assertions."
Qualification ==
    << "open", "smoke", "close", "ready", "open", "routes", "close",
       "open", "host", "close", "open", "sni", "close" >>

Doing(command) ==
    /\ verdict = "none" /\ error = "none" /\ tunnel \in {"closed", "open"}
    /\ line <= Len(Qualification) /\ Qualification[line] = command

Alive == child \in {"starting", "listening"}
Ended == child \in {"dead", "ended"}

GateTypeOK ==
    /\ gen \in [Kind -> Nat] /\ observed \in [Kind -> Nat]
    /\ line \in 1..(Len(Qualification) + 1)
    /\ child \in {"none", "starting", "listening", "dead", "ended"}
    /\ stopping \in BOOLEAN
    /\ socket \in {"none", "up", "cut"}
    /\ tunnel \in {"closed", "popen", "startup", "open", "finally", "lost"}
    /\ error \in {"none", "failure", "interrupt"}
    /\ verdict \in {"none", "passed", "failed"}
    /\ faults \in 0..MaxFaults /\ signals \in 0..MaxSignals

\* The Gateway is installed, and perhaps reconciled; there is no route yet.
GateInit ==
    /\ gen = [gateway |-> 1, route |-> 0]
    /\ observed \in {[gateway |-> g, route |-> 0] : g \in 0..1}
    /\ line = 1
    /\ child = "none" /\ stopping = FALSE /\ socket = "none" /\ tunnel = "closed"
    /\ error = "none" /\ verdict = "none"
    /\ faults = 0 /\ signals = 0

-----------------------------------------------------------------------------
(* The commands                                                            *)

Proceed == line' = line + 1 /\ UNCHANGED error
Fault   == faults < MaxFaults /\ faults' = faults + 1

\* An exception inside the tunnel's block is on its way to its finally clause,
\* outside one it ends the check.
Throw(kind) ==
    /\ error' = kind
    /\ IF tunnel \in {"startup", "open"}
       THEN tunnel' = "finally" /\ UNCHANGED verdict
       ELSE verdict' = "failed" /\ UNCHANGED tunnel
    /\ UNCHANGED line

\* Mutant: any "True" condition will do.
CurrentOrStale(k) == observed[k] > 0

\* current_conditions() and ready_route()
CurrentConditions(k) == observed[k] = gen[k]

\* The poll goes on every two seconds for 300: conditions that do not come, a
\* kubectl that fails or a second proxy Service end it.
Ready ==
    /\ Doing("ready")
    /\ \/ (\A k \in Kind : CurrentConditions(k)) /\ Proceed /\ UNCHANGED <<tunnel, verdict, faults>>
       \/ Fault /\ Throw("failure")
    /\ UNCHANGED <<gen, observed, child, stopping, socket, signals>>

\* Otherwise connecting raises ConnectionRefusedError.
Connected == child = "listening"

\* smoke.mjs for both hosts, and the six answers asked of the gateway: a gateway
\* that does not route by the current generation yet answers otherwise.
Positive ==
    /\ Doing("smoke") \/ Doing("routes")
    /\ \/ Connected /\ Proceed /\ UNCHANGED <<tunnel, verdict, faults>>
       \/ /\ ~Connected \/ (Doing("routes") /\ observed # gen)
          /\ Throw("failure") /\ UNCHANGED faults
       \/ Fault /\ Throw("failure")
    /\ UNCHANGED <<gen, observed, child, stopping, socket, signals>>

\* An unmatched Host is answered with another status than 200.  Nothing but an
\* answer is the ValueError that counts: a tunnel that ends fails the check.
NegativeHost ==
    /\ Doing("host")
    /\ \/ Connected /\ Proceed /\ UNCHANGED <<tunnel, verdict, faults>>
       \/ ~Connected /\ Throw("failure") /\ UNCHANGED faults
       \/ Fault /\ Throw("failure")
    /\ UNCHANGED <<gen, observed, child, stopping, socket, signals>>

\* Mutant: a refused connection counts as a rejection.
RejectionsAndRefusal == {"ssl", "reset", "refused"}

\* The exceptions that count as the rejection of a server name: SSLError and
\* ConnectionResetError.  "ConnectionRefusedError is intentionally not an accepted
\* rejection."
Rejections == {"ssl", "reset"}

Raised(exception) == IF exception \in Rejections THEN Proceed /\ UNCHANGED <<tunnel, verdict>>
                                                  ELSE Throw("failure")

\* create_connection
ConnectSni ==
    /\ Doing("sni") /\ socket = "none"
    /\ \/ Connected /\ socket' = "up" /\ UNCHANGED <<line, error, tunnel, verdict, faults>>
       \/ ~Connected /\ Raised("refused") /\ UNCHANGED <<socket, faults>>
       \/ Fault /\ Throw("failure") /\ UNCHANGED socket
    /\ UNCHANGED <<gen, observed, child, stopping, signals>>

\* wrap_socket.  The gateway rejects the name, which can close the transport; or
\* the connection was cut off since, which raises a reset, an SSLEOFError (an
\* SSLError) or a broken pipe.
HandshakeSni ==
    /\ Doing("sni") /\ socket # "none"
    /\ socket' = "none"
    /\ \/ /\ \E exception \in {"ssl", "reset"} \cup (IF socket = "cut" THEN {"pipe"} ELSE {}) :
                Raised(exception)
          /\ child' \in {child} \cup (IF Connected THEN {"ended"} ELSE {})
          /\ UNCHANGED faults
       \/ Fault /\ Throw("failure") /\ UNCHANGED child
    /\ UNCHANGED <<gen, observed, stopping, signals>>

Pass ==
    /\ verdict = "none" /\ error = "none" /\ tunnel = "closed" /\ line > Len(Qualification)
    /\ verdict' = "passed"
    /\ UNCHANGED <<gen, observed, line, child, stopping, socket, tunnel, error, faults, signals>>

-----------------------------------------------------------------------------
(* service_forward()                                                       *)

\* There may be no kubectl to start.
Popen ==
    /\ Doing("open")
    /\ \/ /\ tunnel' = "popen" /\ child' = "starting" /\ stopping' = FALSE
          /\ UNCHANGED <<line, error, verdict, faults>>
       \/ Fault /\ Throw("failure") /\ UNCHANGED <<child, stopping>>
    /\ UNCHANGED <<gen, observed, socket, signals>>

\* The reader thread runs; only from here on does an exception meet the finally.
EnterTry ==
    /\ tunnel = "popen"
    /\ tunnel' = "startup"
    /\ UNCHANGED <<gen, observed, line, child, stopping, socket, error, verdict, faults, signals>>

\* The line with the port may be read before or after the child ended.
PortRead ==
    /\ tunnel = "startup" /\ child \in {"listening", "ended"}
    /\ tunnel' = "open" /\ Proceed
    /\ UNCHANGED <<gen, observed, child, stopping, socket, verdict, faults, signals>>

\* It exited before its port was read, or 30 seconds are over.
StartupFails ==
    /\ tunnel = "startup"
    /\ (Ended /\ UNCHANGED faults) \/ Fault
    /\ Throw("failure")
    /\ UNCHANGED <<gen, observed, child, stopping, socket, signals>>

Close ==
    /\ Doing("close")
    /\ tunnel' = "finally" /\ Proceed
    /\ UNCHANGED <<gen, observed, child, stopping, socket, verdict, faults, signals>>

Terminate ==
    /\ tunnel = "finally" /\ Alive /\ ~stopping
    /\ stopping' = TRUE
    /\ UNCHANGED <<gen, observed, line, child, socket, tunnel, error, verdict, faults, signals>>

\* The child is gone and its output is written down, which may fail as well; an
\* exception that was under way goes on.
Leave ==
    /\ tunnel' = "closed"
    /\ \/ verdict' = (IF error = "none" THEN verdict ELSE "failed") /\ UNCHANGED <<error, faults>>
       \/ Fault /\ error' = "failure" /\ verdict' = "failed"

\* Mutant: after five seconds the child is left to itself.
Abandon == child' = child

\* process.kill(), of a child that does not end on SIGTERM.
Kill == child' = "dead"

KillAfterWait ==
    /\ tunnel = "finally" /\ Alive /\ stopping
    /\ Kill /\ Leave
    /\ UNCHANGED <<gen, observed, line, stopping, socket, signals>>

\* process.wait() returned.
Reap ==
    /\ tunnel = "finally" /\ Ended
    /\ Leave
    /\ UNCHANGED <<gen, observed, line, child, stopping, socket, signals>>

-----------------------------------------------------------------------------
(* The child, the controller and the operator (external, but for Signal) *)

Listen ==
    /\ child = "starting" /\ ~stopping
    /\ child' = "listening"
    /\ UNCHANGED <<gen, observed, line, stopping, socket, tunnel, error, verdict, faults, signals>>

\* On SIGTERM, or because it lost its pod.
Exit ==
    /\ Alive
    /\ (stopping /\ UNCHANGED faults) \/ (~stopping /\ Fault)
    /\ child' = IF child = "listening" THEN "ended" ELSE "dead"
    /\ socket' = IF socket = "up" THEN "cut" ELSE socket
    /\ UNCHANGED <<gen, observed, line, stopping, tunnel, error, verdict, signals>>

\* The gateway controller: it reports a generation once the proxy routes by it.
Reconcile(k) ==
    /\ observed[k] < gen[k]
    /\ observed' = [observed EXCEPT ![k] = gen[k]]
    /\ UNCHANGED <<gen, line, child, stopping, socket, tunnel, error, verdict, faults, signals>>

\* A KeyboardInterrupt between Popen and try, or in the finally clause, leaves
\* the child to itself.
Signal ==
    /\ verdict = "none" /\ signals < MaxSignals
    /\ signals' = signals + 1
    /\ IF tunnel \in {"popen", "finally"}
       THEN tunnel' = "lost" /\ verdict' = "failed" /\ error' = "interrupt" /\ UNCHANGED line
       ELSE Throw("interrupt")
    /\ socket' = "none"
    /\ UNCHANGED <<gen, observed, child, stopping, faults>>

GateNext ==
    \/ Ready \/ Positive \/ NegativeHost \/ ConnectSni \/ HandshakeSni \/ Pass
    \/ Popen \/ EnterTry \/ PortRead \/ StartupFails \/ Close \/ Terminate \/ KillAfterWait \/ Reap
    \/ Listen \/ Exit \/ Signal \/ \E k \in Kind : Reconcile(k)

-----------------------------------------------------------------------------
(* Properties                                                              *)

\* Whatever the tunnel was used for, and however the port-forward behaves, no
\* child outlives the check, unless a signal hit one of the two windows in which
\* no finally clause protects it.
TunnelReaped == verdict # "none" => ~Alive \/ tunnel = "lost"

\* A rejection is counted only at a gateway that routes by the current
\* generation: of a Host while the port-forward still listens, of a server name on
\* a connection that the port-forward accepted, never of a refused one.
RejectionIsReal ==
    [][line' = line + 1 /\ Qualification[line] \in {"host", "sni"}
         => /\ observed = gen
            /\ IF Qualification[line] = "host" THEN child = "listening"
                                              ELSE socket # "none"]_gateVars

\* "Never ... mistake a dead local listener for route rejection"
\* (acceptance_gateway.py:136): what counts as the rejection of a server name was
\* not the port-forward ending between connect and handshake.
DeadListenerNotMistaken ==
    [][line' = line + 1 /\ Qualification[line] = "sni" => socket = "up"]_gateVars
=============================================================================
