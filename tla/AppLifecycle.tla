---------------------------- MODULE AppLifecycle ----------------------------
(***************************************************************************)
(* One application process, from listen() to exit: src/main.mjs, with the  *)
(* HTTP server's connections as Node keeps them and the Service that may   *)
(* route to the pod for a while after it was told to stop.                 *)
(*                                                                         *)
(* Timers are countdowns in seconds and Off when not armed; Tick is a      *)
(* second passing and cannot overtake a timer that is due.                 *)
(***************************************************************************)
EXTENDS Integers, FiniteSets

CONSTANTS Conn,         \* client connections
          Delay,        \* SHUTDOWN_DELAY_MS
          ForceAfter,   \* main.mjs:38, 10 s
          KeepAlive,    \* app.mjs keepAliveTimeout, 5 s
          Propagation,  \* until no client is routed to a stopping pod
          Grace,        \* terminationGracePeriodSeconds
          MaxSignals    \* bound: SIGTERM and SIGINT deliveries

\* main.mjs:13 accepts 0..10 s; deploy/base/deployment.yaml grants 30 s.
ASSUME AppAssumption ==
    /\ Delay \in Nat /\ ForceAfter \in Nat /\ KeepAlive \in Nat /\ MaxSignals \in Nat
    /\ Grace \in Nat /\ Delay + ForceAfter < Grace
    /\ Propagation \in 0..Delay

Off == -1

VARIABLES
    server,    \* starting, listening, closed, failed
    ready,     \* app.mjs: the flag behind /readyz
    stopping,  \* main.mjs: the first signal was handled
    drain,     \* countdown to server.close()
    force,     \* countdown to closeAllConnections()
    conn,      \* conn[c]: none; active, no complete request yet; idle, answered
    idle,      \* idle[c]: countdown to the keep-alive close
    routed,    \* countdown while the Service still routes here; Off afterwards
    elapsed,   \* seconds since the first signal
    process,   \* running, or the exit code
    signals    \* signals delivered

timers == <<drain, force, routed, elapsed>>
conns  == <<conn, idle>>
vars   == <<server, ready, stopping, timers, conns, process, signals>>

Countdown(n) == {Off} \cup 0..n

TypeOK ==
    /\ server \in {"starting", "listening", "closed", "failed"}
    /\ ready \in BOOLEAN /\ stopping \in BOOLEAN
    /\ drain \in Countdown(Delay)
    /\ force \in Countdown(ForceAfter)
    /\ conn \in [Conn -> {"none", "active", "idle"}]
    /\ idle \in [Conn -> Countdown(KeepAlive)]
    /\ \A c \in Conn : conn[c] = "idle" <=> idle[c] # Off
    /\ routed \in Countdown(Propagation)
    /\ elapsed \in 0..Grace
    /\ process \in {"running", "0", "1"}
    /\ signals \in 0..MaxSignals

Init ==
    /\ server = "starting"
    /\ ready = TRUE
    /\ stopping = FALSE
    /\ drain = Off /\ force = Off
    /\ conn = [c \in Conn |-> "none"]
    /\ idle = [c \in Conn |-> Off]
    /\ routed = Off
    /\ elapsed = 0
    /\ process = "running"
    /\ signals = 0

Running == process = "running"

-----------------------------------------------------------------------------
(* main.mjs                                                                *)

Listening ==
    /\ Running /\ server = "starting"
    /\ server' = "listening"
    /\ routed' = Propagation
    /\ UNCHANGED <<ready, stopping, drain, force, elapsed, conns, process, signals>>

\* "error": the port is taken.  No handle is left, so the process ends.
ListenError ==
    /\ Running /\ server = "starting"
    /\ server' = "failed"
    /\ UNCHANGED <<ready, stopping, timers, conns, process, signals>>

\* Mutant: the connections are closed without the delay.
StopAtOnce ==
    /\ Running
    /\ signals < MaxSignals
    /\ signals' = signals + 1
    /\ stopping' = TRUE
    /\ ready' = FALSE
    /\ drain' = IF stopping THEN drain ELSE 0
    /\ UNCHANGED <<server, force, routed, elapsed, conns, process>>

\* Mutant: stop() forgets setReady(false).
StopStillReady ==
    /\ Running
    /\ signals < MaxSignals
    /\ signals' = signals + 1
    /\ stopping' = TRUE
    /\ drain' = IF stopping THEN drain ELSE Delay
    /\ UNCHANGED <<server, ready, force, routed, elapsed, conns, process>>

\* stop(): the second signal returns early.
Stop ==
    /\ Running
    /\ signals < MaxSignals
    /\ signals' = signals + 1
    /\ stopping' = TRUE
    /\ IF stopping
       THEN UNCHANGED <<ready, drain>>
       ELSE ready' = FALSE /\ drain' = Delay
    /\ UNCHANGED <<server, force, routed, elapsed, conns, process>>

\* What closing the connections C leaves.
CloseConns(C) ==
    /\ conn' = [c \in Conn |-> IF c \in C THEN "none" ELSE conn[c]]
    /\ idle' = [c \in Conn |-> IF c \in C THEN Off ELSE idle[c]]

IdleConns == {c \in Conn : conn[c] = "idle"}

\* Mutant: every connection is closed with the listener.
CloseEverything ==
    /\ Running /\ drain = 0 /\ server # "starting"
    /\ drain' = Off
    /\ force' = ForceAfter
    /\ server' = IF server = "listening" THEN "closed" ELSE server
    /\ CloseConns(Conn)
    /\ UNCHANGED <<ready, stopping, routed, elapsed, process, signals>>

\* Mutant: nothing bounds the connections that stay.
CloseUnbounded ==
    /\ Running /\ drain = 0 /\ server # "starting"
    /\ drain' = Off
    /\ server' = IF server = "listening" THEN "closed" ELSE server
    /\ CloseConns(IdleConns)
    /\ UNCHANGED <<ready, stopping, force, routed, elapsed, process, signals>>

\* The delay is over: close the listener and the idle connections.
CloseServer ==
    /\ Running /\ drain = 0 /\ server # "starting"
    /\ drain' = Off
    /\ force' = ForceAfter
    /\ server' = IF server = "listening" THEN "closed" ELSE server
    /\ CloseConns(IdleConns)
    /\ UNCHANGED <<ready, stopping, routed, elapsed, process, signals>>

CloseAll ==
    /\ Running /\ force = 0
    /\ force' = Off
    /\ CloseConns(Conn)
    /\ UNCHANGED <<server, ready, stopping, drain, routed, elapsed, process, signals>>

\* Both timers are unref()ed: only the listener and the connections hold the
\* process, which ends with process.exitCode once they are gone.
Idle == server \in {"closed", "failed"} /\ \A c \in Conn : conn[c] = "none"

Exit ==
    /\ Running /\ Idle
    /\ process' = IF server = "failed" THEN "1" ELSE "0"
    /\ UNCHANGED <<server, ready, stopping, timers, conns, signals>>

-----------------------------------------------------------------------------
(* The clients, and what Node's server does with a connection (external)   *)

SetConn(c, state) ==
    /\ conn' = [conn EXCEPT ![c] = state]
    /\ idle' = [idle EXCEPT ![c] = IF state = "idle" THEN KeepAlive ELSE Off]
    /\ UNCHANGED <<server, ready, stopping, timers, process, signals>>

Connect(c) == Running /\ server = "listening" /\ conn[c] = "none" /\ SetConn(c, "active")

\* The request is complete; the handler of app.mjs answers it synchronously.
Answer(c) == Running /\ conn[c] = "active" /\ SetConn(c, "idle")

NextRequest(c) == Running /\ conn[c] = "idle" /\ SetConn(c, "active")

ClientCloses(c) == Running /\ conn[c] # "none" /\ SetConn(c, "none")

\* requestTimeout and headersTimeout: Node's checking stops with the listener.
RequestTimeout(c) ==
    Running /\ server = "listening" /\ conn[c] = "active" /\ SetConn(c, "none")

IdleTimeout(c) == Running /\ conn[c] = "idle" /\ idle[c] = 0 /\ SetConn(c, "none")

Down(t) == IF t > 0 THEN t - 1 ELSE t

\* The model ends at Grace, where the kubelet would kill what still runs.
Tick ==
    /\ elapsed < Grace
    /\ Running /\ server # "starting" /\ ~Idle
    /\ drain # 0 /\ force # 0
    /\ \A c \in Conn : idle[c] # 0
    /\ stopping \/ \E c \in Conn : conn[c] = "idle"
    /\ drain' = Down(drain) /\ force' = Down(force)
    /\ idle' = [c \in Conn |-> Down(idle[c])]
    /\ routed' = IF stopping THEN Down(routed) ELSE routed
    /\ elapsed' = IF stopping THEN elapsed + 1 ELSE elapsed
    /\ UNCHANGED <<server, ready, stopping, conn, process, signals>>

-----------------------------------------------------------------------------

Client(c) ==
    Connect(c) \/ Answer(c) \/ NextRequest(c) \/ ClientCloses(c) \/ RequestTimeout(c)

Timer == CloseServer \/ CloseAll \/ (\E c \in Conn : IdleTimeout(c)) \/ Tick

Next ==
    \/ Listening \/ ListenError \/ Stop \/ Exit \/ Timer
    \/ \E c \in Conn : Client(c)

Spec == Init /\ [][Next]_vars

\* Time passes, timers fire and the event loop ends when nothing holds it.
\* Nothing is assumed of the clients or of signals.
FairSpec == Spec /\ WF_vars(Timer) /\ WF_vars(Exit) /\ WF_vars(Listening \/ ListenError)

-----------------------------------------------------------------------------
(* Properties                                                              *)

\* However the clients behave, a process that was told to stop is gone before
\* the kubelet's grace period ends: it is never killed.
GoneWithinGrace == stopping /\ Running => elapsed <= Delay + ForceAfter

\* README.md:45: "SIGTERM marks the app unready before closing connections".
\* The listener closes only when /readyz has said so for the whole delay.
UnreadyFirst ==
    [][(server = "listening" /\ server' = "closed") => ~ready /\ elapsed >= Delay]_vars

\* A client that the Service still routes to the stopping pod is let in, as
\* long as the Service forgets the pod within the delay.
RoutedClientsServed == server = "closed" => routed <= 0

\* Once stopping, the server cuts a connection in the middle of a request
\* only when the ten seconds after the close are over.
RequestsGetTheirTime ==
    [][\A c \in Conn :
         (stopping /\ conn[c] = "active" /\ conn'[c] = "none")
            => \/ ClientCloses(c) \/ RequestTimeout(c)
               \/ elapsed = Delay + ForceAfter]_vars

\* A process that is told to stop, or that cannot listen, ends; clients that
\* never finish a request cannot hold it.
StopEnds == (stopping \/ server = "failed") ~> process # "running"
=============================================================================
