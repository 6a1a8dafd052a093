--------------------------- MODULE ServiceProofs ----------------------------
(***************************************************************************)
(* The service process: what AppLifecycle promises for every delay, grace  *)
(* period and set of connections, and the readiness check of Readiness for *)
(* any number of files and changes of the mount.                           *)
(*                                                                         *)
(* The two models share no state; a request of either is one run of a      *)
(* handler in the same process.                                            *)
(***************************************************************************)
EXTENDS AppLifecycle, Readiness, TLAPS

-----------------------------------------------------------------------------
(* AppLifecycle.  The invariant describes the stages of a shutdown and     *)
(* ties the clock to the timer that is armed in each.                      *)

Quiet ==
    ~stopping /\ drain = Off /\ force = Off /\ elapsed = 0 /\ server # "closed"

Draining ==
    stopping /\ drain \in 0..Delay /\ force = Off /\ elapsed + drain = Delay
    /\ server # "closed" /\ (server = "starting" => elapsed = 0)

Closing ==
    stopping /\ drain = Off /\ force \in 0..ForceAfter /\ elapsed + force = Delay + ForceAfter
    /\ server \in {"closed", "failed"}

Forced ==
    stopping /\ drain = Off /\ force = Off /\ elapsed = Delay + ForceAfter /\ Idle

\* How long the Service still routes here follows from the clock.
Routes ==
    \/ routed = Off
    \/ elapsed <= Propagation /\ routed = Propagation - elapsed
    \/ elapsed > Propagation /\ routed = 0

AInv ==
    /\ TypeOK
    /\ Quiet \/ Draining \/ Closing \/ Forced
    /\ ready <=> ~stopping
    /\ Routes

\* The invariant holds in the initial state.
LEMMA AInit == Init => AInv
<1> SUFFICES ASSUME Init PROVE AInv
  OBVIOUS
<1>1. /\ conn \in [Conn -> {"none", "active", "idle"}]
      /\ idle \in [Conn -> Countdown(KeepAlive)]
      /\ \A c \in Conn : conn[c] = "idle" <=> idle[c] # Off
  BY DEF Init, Countdown
<1>2. \A n \in Nat : Off \in Countdown(n)
  BY DEF Countdown
<1>3. elapsed \in 0..Grace /\ signals \in 0..MaxSignals
  BY AppAssumption DEF AppAssumption, Init
<1>4. Propagation \in Nat /\ Delay \in Nat /\ ForceAfter \in Nat
  BY AppAssumption DEF AppAssumption
<1>5. drain \in Countdown(Delay) /\ force \in Countdown(ForceAfter)
      /\ routed \in Countdown(Propagation)
  BY <1>2, <1>4 DEF Init
<1>6. TypeOK
  BY <1>1, <1>3, <1>5 DEF Init, TypeOK
<1> QED
  BY <1>6 DEF Init, AInv, Quiet, Routes

-----------------------------------------------------------------------------

\* What a step on one connection does: it touches that connection only.
LEMMA ConnStep ==
  ASSUME AInv, NEW c \in Conn, NEW state \in {"none", "active", "idle"},
         SetConn(c, state), server = "listening" \/ ~Idle, state = "none" \/ ~Idle \/ server = "listening"
  PROVE  AInv'
<1>1. TypeOK'
  BY AppAssumption DEF AppAssumption, AInv, TypeOK, SetConn, Off, Countdown, timers
<1>2. Quiet \/ Draining \/ Closing
  BY DEF AInv, Forced, Idle
<1>3. (Quiet \/ Draining \/ Closing)'
  BY <1>2 DEF Quiet, Draining, Closing, SetConn, timers
<1> QED
  BY <1>1, <1>3 DEF AInv, Routes, SetConn, timers

\* Closing some of the connections keeps the types of all.
LEMMA ClosedConns ==
  ASSUME TypeOK, NEW S \in SUBSET Conn,
         conn' = [c \in Conn |-> IF c \in S THEN "none" ELSE conn[c]],
         idle' = [c \in Conn |-> IF c \in S THEN Off ELSE idle[c]]
  PROVE  /\ conn' \in [Conn -> {"none", "active", "idle"}]
         /\ idle' \in [Conn -> Countdown(KeepAlive)]
         /\ \A c \in Conn : conn'[c] = "idle" <=> idle'[c] # Off
  BY DEF TypeOK, Off, Countdown

\* The delay ends: draining becomes closing.
LEMMA CloseServerStep == AInv /\ CloseServer => AInv'
<1> SUFFICES ASSUME AInv, CloseServer PROVE AInv'
  OBVIOUS
<1> DEFINE S == {c \in Conn : conn[c] = "idle"}
<1>1. /\ conn' = [c \in Conn |-> IF c \in S THEN "none" ELSE conn[c]]
      /\ idle' = [c \in Conn |-> IF c \in S THEN Off ELSE idle[c]]
  BY DEF CloseServer, CloseConns, IdleConns
<1> HIDE DEF S
<1>2. S \in SUBSET Conn
  BY DEF S
<1>3. /\ conn' \in [Conn -> {"none", "active", "idle"}]
      /\ idle' \in [Conn -> Countdown(KeepAlive)]
      /\ \A c \in Conn : conn'[c] = "idle" <=> idle'[c] # Off
  BY <1>1, <1>2, ClosedConns DEF AInv
<1>4. Draining
  BY DEF AInv, CloseServer, Quiet, Closing, Forced, Off
<1>5. TypeOK'
  BY <1>3, AppAssumption DEF AppAssumption, AInv, TypeOK, CloseServer, Off, Countdown
<1>6. Closing'
  BY <1>4, AppAssumption DEF AppAssumption, Draining, Closing, CloseServer, AInv, TypeOK, Off, Countdown
<1> QED
  BY <1>5, <1>6 DEF AInv, Routes, CloseServer

\* The force timer ends: nothing holds the process any more.
LEMMA CloseAllStep == AInv /\ CloseAll => AInv'
<1> SUFFICES ASSUME AInv, CloseAll PROVE AInv'
  OBVIOUS
<1>1. /\ conn' = [c \in Conn |-> IF c \in Conn THEN "none" ELSE conn[c]]
      /\ idle' = [c \in Conn |-> IF c \in Conn THEN Off ELSE idle[c]]
  BY DEF CloseAll, CloseConns
<1>3. /\ conn' \in [Conn -> {"none", "active", "idle"}]
      /\ idle' \in [Conn -> Countdown(KeepAlive)]
      /\ \A c \in Conn : conn'[c] = "idle" <=> idle'[c] # Off
  BY <1>1, ClosedConns DEF AInv
<1>4. Closing
  BY DEF AInv, CloseAll, Quiet, Draining, Forced, Off
<1>5. TypeOK'
  BY <1>3, AppAssumption DEF AppAssumption, AInv, TypeOK, CloseAll, Off, Countdown
<1>6. Forced'
  BY <1>4, <1>1, AppAssumption DEF AppAssumption, Closing, Forced, CloseAll, AInv, TypeOK, Idle, Off, Countdown
<1> QED
  BY <1>5, <1>6 DEF AInv, Routes, CloseAll

\* A second passes.
LEMMA TickStep == AInv /\ Tick => AInv'
<1> SUFFICES ASSUME AInv, Tick PROVE AInv'
  OBVIOUS
<1>1. Quiet \/ Draining \/ Closing
  BY DEF AInv, Forced, Tick
<1>2. (Quiet \/ Draining \/ Closing)'
  BY <1>1, AppAssumption DEF AppAssumption, Quiet, Draining, Closing, Tick, Down, AInv, TypeOK, Off, Countdown
<1>3. TypeOK'
  <2>1. drain' \in Countdown(Delay) /\ force' \in Countdown(ForceAfter) /\ routed' \in Countdown(Propagation)
    BY AppAssumption DEF AppAssumption, Tick, Down, AInv, TypeOK, Off, Countdown
  <2>2. /\ idle' \in [Conn -> Countdown(KeepAlive)]
        /\ \A c \in Conn : conn'[c] = "idle" <=> idle'[c] # Off
    BY AppAssumption DEF AppAssumption, Tick, Down, AInv, TypeOK, Off, Countdown
  <2>3. elapsed' \in 0..Grace
    BY <1>2, AppAssumption DEF AppAssumption, Quiet, Draining, Closing, AInv, TypeOK, Tick, Off, Countdown
  <2> QED
    BY <2>1, <2>2, <2>3 DEF AInv, TypeOK, Tick
<1>4. Routes'
  BY <1>1, AppAssumption DEF AppAssumption, Routes, Tick, Down, AInv, TypeOK, Off, Countdown, Quiet
<1> QED
  BY <1>2, <1>3, <1>4 DEF AInv, Tick

\* A first signal starts the countdown the invariant accounts for, and a repeated
\* one restarts nothing: Stop keeps the invariant.
LEMMA StopStep == AInv /\ Stop => AInv'
<1> SUFFICES ASSUME AInv, Stop PROVE AInv'
  OBVIOUS
<1>1. TypeOK'
  <2>1. drain' \in Countdown(Delay) /\ signals' \in 0..MaxSignals
    BY AppAssumption DEF AppAssumption, AInv, TypeOK, Stop, Off, Countdown
  <2>2. stopping' \in BOOLEAN /\ ready' \in BOOLEAN
    BY DEF AInv, TypeOK, Stop
  <2> QED
    BY <2>1, <2>2 DEF AInv, TypeOK, Stop, conns, Countdown
<1>2. CASE stopping
  BY <1>1, <1>2 DEF AInv, Stop, conns, Quiet, Draining, Closing, Forced, Idle, Routes
<1>3. CASE ~stopping
  <2>1. Quiet
    BY <1>3 DEF AInv, Draining, Closing, Forced
  <2>2. Draining'
    BY <1>3, <2>1, AppAssumption DEF AppAssumption, Quiet, Draining, Stop, Off
  <2> QED
    BY <1>1, <1>3, <2>2 DEF AInv, Stop, Routes
<1> QED
  BY <1>2, <1>3

\* The Service has forgotten the pod by the time the listener closes.
LEMMA RoutedLemma == AInv => RoutedClientsServed
<1> SUFFICES ASSUME AInv, server = "closed" PROVE routed <= 0
  BY DEF RoutedClientsServed
<1>1. Closing \/ Forced
  BY DEF AInv, Quiet, Draining
<1>2. elapsed >= Delay
  BY <1>1, AppAssumption DEF AppAssumption, Closing, Forced, AInv, TypeOK, Countdown, Off
<1> QED
  BY <1>2, AppAssumption DEF AppAssumption, AInv, Routes, TypeOK, Off, Countdown

\* Starting to listen starts the routing; no second has passed before it.
LEMMA ListenStep == AInv /\ (Listening \/ ListenError) => AInv'
<1> SUFFICES ASSUME AInv, Listening \/ ListenError PROVE AInv'
  OBVIOUS
<1>1. TypeOK'
  BY AppAssumption DEF AppAssumption, AInv, TypeOK, Listening, ListenError, timers, conns, Off, Countdown
<1>2. (Quiet \/ Draining) /\ elapsed = 0
  BY DEF AInv, Listening, ListenError, Quiet, Draining, Closing, Forced, Idle
<1>3. (Quiet \/ Draining)' /\ elapsed' = 0
  BY <1>2 DEF Quiet, Draining, Listening, ListenError, timers
<1>4. Routes'
  BY <1>2, AppAssumption DEF AppAssumption, AInv, Routes, Listening, ListenError, timers
<1> QED
  BY <1>1, <1>3, <1>4 DEF AInv, Listening, ListenError

-----------------------------------------------------------------------------

\* The invariant is inductive.
LEMMA Preserved == AInv /\ [Next]_vars => AInv'
<1> SUFFICES ASSUME AInv, [Next]_vars PROVE AInv'
  OBVIOUS
<1>1. CASE Listening \/ ListenError
  BY <1>1, ListenStep
<1>2. CASE Stop
  BY <1>2, StopStep
<1>3. CASE Exit
  <2>1. TypeOK'
    BY <1>3 DEF AInv, TypeOK, Exit, timers, conns
  <2>2. (Quiet \/ Draining \/ Closing \/ Forced)'
    BY <1>3 DEF AInv, Exit, timers, conns, Quiet, Draining, Closing, Forced, Idle
  <2> QED
    BY <1>3, <2>1, <2>2 DEF AInv, Exit, Routes, timers
<1>4. CASE CloseServer
  BY <1>4, CloseServerStep
<1>5. CASE CloseAll
  BY <1>5, CloseAllStep
<1>6. CASE Tick
  BY <1>6, TickStep
<1>7. ASSUME NEW c \in Conn, IdleTimeout(c) PROVE AInv'
  BY <1>7, ConnStep DEF IdleTimeout, Idle
<1>8. ASSUME NEW c \in Conn, Client(c) PROVE AInv'
  BY <1>8, ConnStep DEF Client, Connect, Answer, NextRequest, ClientCloses, RequestTimeout, Idle
<1>9. CASE UNCHANGED vars
  <2>1. TypeOK'
    BY <1>9 DEF AInv, TypeOK, vars, timers, conns
  <2>2. (Quiet \/ Draining \/ Closing \/ Forced)'
    BY <1>9 DEF AInv, vars, timers, conns, Quiet, Draining, Closing, Forced, Idle
  <2> QED
    BY <1>9, <2>1, <2>2 DEF AInv, Routes, vars, timers
<1> QED
  BY <1>1, <1>2, <1>3, <1>4, <1>5, <1>6, <1>7, <1>8, <1>9 DEF Next, Timer

\* The stages of a shutdown, and the clock in each, for every behaviour.
THEOREM Stages == Spec => []AInv
  BY AInit, Preserved, PTL DEF Spec

\* Every variable keeps its type.
THEOREM AppTypes == Spec => []TypeOK
<1>1. AInv => TypeOK
  BY DEF AInv
<1> QED
  BY <1>1, Stages, PTL

\* A stopping process never outlives the delay plus the force timeout, which
\* the assumption keeps below the kubelet's grace period.
THEOREM AppIsGone == Spec => []GoneWithinGrace
<1>1. AInv => GoneWithinGrace
  BY AppAssumption
  DEF AppAssumption, AInv, GoneWithinGrace, TypeOK, Quiet, Draining, Closing, Forced, Countdown, Off
<1> QED
  BY <1>1, Stages, PTL

\* No client that the Service still routes here finds the port closed.
THEOREM RoutedServed == Spec => []RoutedClientsServed
  BY RoutedLemma, Stages, PTL

\* The listener closes only after /readyz reported draining for the delay.
THEOREM UnreadyBeforeClose == Spec => UnreadyFirst
<1> DEFINE Announced ==
      (server = "listening" /\ server' = "closed") => ~ready /\ elapsed >= Delay
<1>1. AInv /\ [Next]_vars => Announced
  <2> SUFFICES ASSUME AInv, [Next]_vars, server = "listening", server' = "closed"
               PROVE  ~ready /\ elapsed >= Delay
    OBVIOUS
  <2>1. CloseServer
    BY DEF Next, Listening, ListenError, Stop, Exit, Timer, CloseAll, Tick, IdleTimeout,
           Client, Connect, Answer, NextRequest, ClientCloses, RequestTimeout, SetConn, vars
  <2>2. Draining
    BY <2>1 DEF AInv, CloseServer, Quiet, Closing, Forced, Off
  <2> QED
    BY <2>1, <2>2, AppAssumption DEF AppAssumption, Draining, CloseServer, AInv, TypeOK
<1> HIDE DEF Announced
<1>2. Spec => [][Announced]_vars
  BY <1>1, Stages, PTL DEF Spec
<1> QED
  BY <1>2 DEF UnreadyFirst, Announced

\* Closing some of the connections cuts none of the others.
LEMMA ClosesOnly ==
  ASSUME NEW S \in SUBSET Conn, CloseConns(S), NEW c \in Conn, conn[c] # "none", conn'[c] = "none"
  PROVE  c \in S
  BY DEF CloseConns

\* A step on one connection leaves the states of the others.
LEMMA SetsOnly ==
  ASSUME TypeOK, NEW d \in Conn, NEW state, SetConn(d, state), NEW c \in Conn, conn'[c] # conn[c]
  PROVE  d = c /\ state = conn'[c]
  BY DEF SetConn, TypeOK

\* In the middle of a request a stopping server cuts a connection only when the
\* force timeout after the close is over: closeIdleConnections() of close()
\* does not reach it, and it is not idle for the keep-alive timeout.
THEOREM RequestsAreFinished == Spec => RequestsGetTheirTime
<1>1. ASSUME AInv, [Next]_vars, NEW c \in Conn, stopping, conn[c] = "active", conn'[c] = "none"
      PROVE  ClientCloses(c) \/ RequestTimeout(c) \/ elapsed = Delay + ForceAfter
  <2>1. CASE CloseAll
    <3>1. Closing
      BY <2>1, <1>1 DEF AInv, CloseAll, Quiet, Draining, Forced, Off
    <3> QED
      BY <3>1, <2>1, <1>1, AppAssumption DEF AppAssumption, Closing, CloseAll, AInv, TypeOK
  <2>2. CASE CloseServer
    <3>1. CloseConns(IdleConns) /\ IdleConns \in SUBSET Conn
      BY <2>2 DEF CloseServer, IdleConns
    <3>2. c \in IdleConns
      BY <1>1, <3>1, ClosesOnly
    <3> QED
      BY <1>1, <3>2 DEF IdleConns
  <2>3. ASSUME NEW d \in Conn, IdleTimeout(d) PROVE FALSE
    <3>1. d = c
      BY <1>1, <2>3, SetsOnly DEF IdleTimeout, AInv
    <3> QED
      BY <1>1, <2>3, <3>1 DEF IdleTimeout
  <2>4. ASSUME NEW d \in Conn, Client(d) PROVE ClientCloses(c) \/ RequestTimeout(c)
    <3>1. \/ SetConn(d, "active") \/ SetConn(d, "idle")
          \/ (ClientCloses(d) \/ RequestTimeout(d)) /\ SetConn(d, "none")
      BY <2>4 DEF Client, Connect, Answer, NextRequest, ClientCloses, RequestTimeout
    <3>2. ~SetConn(d, "active") /\ ~SetConn(d, "idle") /\ (SetConn(d, "none") => d = c)
      BY <1>1, SetsOnly DEF AInv
    <3> QED
      BY <3>1, <3>2
  <2>5. CASE Listening \/ ListenError \/ Stop \/ Exit \/ Tick \/ UNCHANGED vars
    BY <1>1, <2>5 DEF Listening, ListenError, Stop, Exit, Tick, vars, conns
  <2> QED
    BY <1>1, <2>1, <2>2, <2>3, <2>4, <2>5 DEF Next, Timer
<1> DEFINE InTime ==
      \A c \in Conn : (stopping /\ conn[c] = "active" /\ conn'[c] = "none")
                         => \/ ClientCloses(c) \/ RequestTimeout(c)
                            \/ elapsed = Delay + ForceAfter
<1>2. AInv /\ [Next]_vars => InTime
  BY <1>1
<1> HIDE DEF InTime
<1>3. Spec => [][InTime]_vars
  BY <1>2, Stages, PTL DEF Spec
<1> QED
  BY <1>3 DEF RequestsGetTheirTime, InTime

-----------------------------------------------------------------------------
(* Readiness.  The invariant says what the request has seen so far of the  *)
(* path and of the file it holds open.                                     *)

\* The descriptor is held from open to send, and nothing else is open.
Held ==
    /\ pc \in {"idle", "open"} => fd = None
    /\ pc \in {"stat", "read"} => fd # None
    /\ open = {fd} \ {None}

\* While a request runs, the histories record the path and the open file.
Seen ==
    pc # "idle" =>
        /\ Full(path, kind) => sawFull
        /\ ~Full(path, kind) => sawBad
        /\ fd # None /\ kind[fd] = "full" => sawFull
        /\ fd # None /\ kind[fd] # "full" => sawBad

\* What the check is about to answer has been seen.
Justified ==
    /\ pc \in {"stat", "read"} => ~good
    /\ pc = "send" /\ good => sawFull
    /\ pc = "send" /\ ~good => sawBad

RInv == ReadinessTypeOK /\ Held /\ Seen /\ Justified

\* The invariant holds before the first request arrives.
LEMMA ReadinessInitially == ReadinessInit => RInv
<1> SUFFICES ASSUME ReadinessInit PROVE RInv
  OBVIOUS
<1>1. ReadinessTypeOK
  <2>1. changes \in 0..MaxChanges
    BY ReadinessAssumption DEF ReadinessAssumption, ReadinessInit
  <2> QED
    BY <2>1 DEF ReadinessInit, ReadinessTypeOK
<1>2. Held /\ Seen /\ Justified
  BY DEF ReadinessInit, Held, Seen, Justified
<1> QED
  BY <1>1, <1>2 DEF RInv

\* The steps of the handler leave the mount alone.
LEMMA HandlerStep ==
  RInv /\ (Request \/ OpenFile \/ Stat \/ Read \/ Send \/ Drain) => RInv'
<1> SUFFICES ASSUME RInv, Request \/ OpenFile \/ Stat \/ Read \/ Send \/ Drain PROVE RInv'
  OBVIOUS
<1> USE ReadinessAssumption DEF ReadinessAssumption, RInv, ReadinessTypeOK, Held, Seen, Justified, mount, handler
<1>1. CASE Request
  BY <1>1 DEF Request, Full
<1>2. CASE OpenFile
  BY <1>2 DEF OpenFile, Full
<1>3. ASSUME Stat \/ Read PROVE RInv'
  <2>1. CASE Throws
    BY <1>3, <2>1 DEF Stat, Read, Throws, Full
  <2>2. CASE Stat /\ ~Throws
    BY <2>2 DEF Stat, Full, Kinds
  <2>3. CASE Read /\ ~Throws
    <3>1. good' \in BOOLEAN
      BY <2>3 DEF Read
    <3>2. /\ pc = "read" /\ pc' = "send" /\ good' = (kind[fd] = "full")
          /\ UNCHANGED <<mount, readyFlag, fd, open, answer, sawFull, sawBad>>
      BY <2>3 DEF Read
    <3>3. ReadinessTypeOK'
      BY <3>1, <3>2
    <3>4. Held' /\ Seen' /\ Justified'
      BY <3>2 DEF Full
    <3> QED
      BY <3>3, <3>4
  <2> QED
    BY <1>3, <2>1, <2>2, <2>3
<1>4. CASE Send
  BY <1>4 DEF Send, Full
<1>5. CASE Drain
  BY <1>5 DEF Drain, Full
<1> QED
  BY <1>1, <1>2, <1>3, <1>4, <1>5

\* The steps of the mount leave the handler alone and are observed.
LEMMA MountStep == RInv /\ (Rotate \/ Rewrite) => RInv'
<1> SUFFICES ASSUME RInv, Rotate \/ Rewrite PROVE RInv'
  OBVIOUS
<1> USE ReadinessAssumption DEF ReadinessAssumption, RInv, handler
<1>1. ReadinessTypeOK'
  <2>1. path' \in File \cup {None} /\ kind' \in [File -> Kinds] /\ changes' \in 0..MaxChanges
    BY DEF ReadinessTypeOK, Rotate, Rewrite, Kinds
  <2>2. sawFull' \in BOOLEAN /\ sawBad' \in BOOLEAN
    BY DEF ReadinessTypeOK, Rotate, Rewrite, Observe
  <2> QED
    BY <2>1, <2>2 DEF ReadinessTypeOK, Rotate, Rewrite
<1>2. Held' /\ UNCHANGED <<pc, fd, good>> /\ Observe
  BY DEF Held, Rotate, Rewrite
<1>3. Seen'
  <2> SUFFICES ASSUME pc' # "idle"
               PROVE  /\ Full(path, kind)' => sawFull'
                      /\ ~Full(path, kind)' => sawBad'
                      /\ fd' # None /\ kind'[fd'] = "full" => sawFull'
                      /\ fd' # None /\ kind'[fd'] # "full" => sawBad'
    BY DEF Seen
  <2>1. /\ Full(path', kind') => sawFull'
        /\ ~Full(path', kind') => sawBad'
        /\ fd # None /\ kind'[fd] # "full" => sawBad'
    BY <1>2 DEF Observe
  <2>2. fd # None /\ kind'[fd] = "full" => sawFull'
    <3> SUFFICES ASSUME fd # None, kind'[fd] = "full" PROVE sawFull'
      OBVIOUS
    <3>1. CASE Rotate
      BY <3>1, <1>2 DEF Rotate, Seen, Observe, ReadinessTypeOK, Held
    <3>2. CASE Rewrite
      BY <3>2, <1>2, <2>1 DEF Rewrite, Seen, Observe, ReadinessTypeOK, Full
    <3> QED
      BY <3>1, <3>2
  <2> QED
    BY <1>2, <2>1, <2>2 DEF Full
<1>4. (sawFull => sawFull') /\ (sawBad => sawBad')
  BY <1>2 DEF Observe
<1>5. Justified'
  BY <1>2, <1>4 DEF Justified
<1> QED
  BY <1>1, <1>2, <1>3, <1>5

\* Each step of a request, and each change of the file under it, keeps the invariant.
LEMMA ReadinessStep == RInv /\ [ReadinessNext]_readinessVars => RInv'
<1> SUFFICES ASSUME RInv, [ReadinessNext]_readinessVars PROVE RInv'
  OBVIOUS
<1>1. CASE UNCHANGED readinessVars
  BY <1>1 DEF RInv, ReadinessTypeOK, Held, Seen, Justified, Full, readinessVars, mount, handler
<1> QED
  BY <1>1, HandlerStep, MountStep DEF ReadinessNext

\* The check is always at a point its histories justify.
THEOREM ReadinessInductive == ReadinessSpec => []RInv
  BY ReadinessInitially, ReadinessStep, PTL DEF ReadinessSpec

\* Every variable keeps its type, for any number of files and changes.
THEOREM ReadinessTypes == ReadinessSpec => []ReadinessTypeOK
  BY ReadinessInductive, PTL DEF RInv

\* Between two requests no descriptor is open.
THEOREM DescriptorsClosed == ReadinessSpec => []NoDescriptorLeak
<1>1. RInv => NoDescriptorLeak
  BY DEF RInv, Held, NoDescriptorLeak
<1> QED
  BY <1>1, ReadinessInductive, PTL

\* "ready" is only said of a file the path named during the request.
THEOREM ReadyMeansCurrent == ReadinessSpec => ReadyIsCurrent
<1> DEFINE Current == pc = "send" /\ answer' = "ready" /\ pc' = "idle" => sawFull
<1>1. RInv /\ [ReadinessNext]_readinessVars => [Current]_readinessVars
  BY DEF RInv, Justified, ReadinessNext, Request, OpenFile, Stat, Throws, Read, Send, Drain, Rotate, Rewrite, handler, readinessVars
<1> HIDE DEF Current
<1>2. ReadinessSpec => [][Current]_readinessVars
  BY <1>1, ReadinessInductive, PTL DEF ReadinessSpec
<1> QED
  BY <1>2 DEF ReadyIsCurrent, Current

\* "dependency_unavailable" is only said when the mount was not usable.
THEOREM AlarmsAreTrue == ReadinessSpec => NoFalseAlarm
<1> DEFINE Alarm == pc = "send" /\ answer' = "unavailable" /\ pc' = "idle" => sawBad
<1>1. RInv /\ [ReadinessNext]_readinessVars => [Alarm]_readinessVars
  BY DEF RInv, Justified, ReadinessNext, Request, OpenFile, Stat, Throws, Read, Send, Drain, Rotate, Rewrite, handler, readinessVars
<1> HIDE DEF Alarm
<1>2. ReadinessSpec => [][Alarm]_readinessVars
  BY <1>1, ReadinessInductive, PTL DEF ReadinessSpec
<1> QED
  BY <1>2 DEF NoFalseAlarm, Alarm
=============================================================================
