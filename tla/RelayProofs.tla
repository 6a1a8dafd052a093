---------------------------- MODULE RelayProofs ----------------------------
(***************************************************************************)
(* Theorems about Relay, for any number of slots, connections and chunks.  *)
(*                                                                         *)
(* RInv strengthens the safety properties into an inductive invariant.  Its*)
(* parts follow the handler thread: what is known before the locked read   *)
(* (Untouched), between the read and the end (Routed, Dialled), what the   *)
(* lock keeps in step with the program counter (Registered), how content   *)
(* is accounted for (Accounted), and how far close() has got (Closer).     *)
(***************************************************************************)
EXTENDS Relay, TLAPS

Untouched ==
    \A c \in Conn :
        pc[c] \in {"absent", "backlog", "routing", "refused"} => target[c] = NoSlot

Routed ==
    \A c \in Conn :
        /\ pc[c] \in Waiting => active \in offered[c]
        /\ target[c] # NoSlot => target[c] \in offered[c]

Dialled ==
    \A c \in Conn :
        /\ upstream[c] # NoSlot =>
               pc[c] \in {"dialed", "looping", "polling", "serving", "sending", "leaving", "discarded"}
        /\ pc[c] = "dialing" => target[c] # NoSlot

Registered ==
    \A c \in Conn :
        /\ pc[c] \in {"looping", "polling", "serving", "sending"} => Sockets(c) \subseteq connections
        /\ pc[c] \notin {"looping", "polling", "serving", "sending", "leaving"} =>
               connections \cap Sockets(c) = {}

Fresh == {"absent", "backlog", "routing", "dialing", "dialed", "refused"}

Accounts(c, d) ==
    /\ pc[c] \in Fresh => /\ read[<<c, d>>] = 0
                          /\ delivered[<<c, d>>] = 0
    /\ pc[c] \in {"looping", "polling", "serving"} =>
           delivered[<<c, Other(d)>>] = read[<<c, d>>]
    /\ pc[c] = "sending" =>
           read[<<c, d>>] = delivered[<<c, Other(d)>>]
                            + (IF hand[c] = d THEN 1 ELSE 0)

Accounted == \A c \in Conn, d \in Side : Accounts(c, d)

Closer ==
    /\ stopping <=> closer # "idle"
    /\ closer \in {"closing", "closed"} =>
           \A c \in Conn : pc[c] \in {"polling", "serving", "sending"} =>
               Sockets(c) \subseteq doomed \cup shut
    /\ closer = "closed" => doomed = {}

RInv == TypeOK /\ Untouched /\ Routed /\ Dialled /\ Registered /\ Accounted /\ Closer

-----------------------------------------------------------------------------
(* Type correctness.                                                       *)

\* The variables a step changes stay in their types, one step per action.
LEMMA TypeStep == TypeOK /\ [Next]_vars => TypeOK'
<1> SUFFICES ASSUME TypeOK, [Next]_vars PROVE TypeOK'
  OBVIOUS
<1> USE RelayAssumption DEF TypeOK, closeVars, dataVars, netVars, Goto, Place,
        Side, Socket, Waiting, Over
<1>1. ASSUME NEW s \in SwitchArg, Switch(s) PROVE TypeOK'
  BY <1>1 DEF Switch
<1>2. CASE CloseBegin
  BY <1>2 DEF CloseBegin
<1>3. CASE Closing
  <2>1. CASE CloseShutdown
    BY <2>1 DEF CloseShutdown
  <2>2. CASE CloseSnapshot
    BY <2>2 DEF CloseSnapshot
  <2>3. CASE CloseListener
    BY <2>3 DEF CloseListener
  <2>4. ASSUME NEW s \in Socket, CloseSocket(s) PROVE TypeOK'
    BY <2>4 DEF CloseSocket
  <2> QED
    BY <1>3, <2>1, <2>2, <2>3, <2>4 DEF Closing
<1>4. CASE Remote
  <2>1. ASSUME NEW c \in Conn, Connect(c) PROVE TypeOK'
    BY <2>1 DEF Connect
  <2>2. ASSUME NEW s \in Socket, RemoteSend(s) PROVE TypeOK'
    BY <2>2 DEF RemoteSend
  <2>3. ASSUME NEW s \in Socket, RemoteEnd(s) PROVE TypeOK'
    BY <2>3 DEF RemoteEnd
  <2> QED
    BY <1>4, <2>1, <2>2, <2>3 DEF Remote
<1>5. CASE AcceptLoop
  <2>1. CASE LoopSelect
    BY <2>1 DEF LoopSelect
  <2>2. ASSUME NEW c \in Conn, LoopAccept(c) PROVE TypeOK'
    BY <2>2 DEF LoopAccept
  <2> QED
    BY <1>5, <2>1, <2>2 DEF AcceptLoop
<1>6. ASSUME NEW c \in Conn, Handler(c) PROVE TypeOK'
  <2>1. CASE Route(c)
    BY <2>1 DEF Route
  <2>2. CASE Dial(c)
    BY <2>2 DEF Dial
  <2>3. CASE Register(c)
    <3>1. connections' \subseteq Socket
      BY <2>3 DEF Register, Sockets
    <3> QED
      BY <2>3, <3>1 DEF Register
  <2>9. CASE WhileNotStopping(c)
    BY <2>9 DEF WhileNotStopping
  <2>4. CASE Poll(c)
    <3>1. ready' \in [Conn -> SUBSET Side]
      <4> DEFINE keys == {d \in Side : Readable(<<c, d>>)}
      <4>1. keys \in SUBSET Side
        OBVIOUS
      <4>2. ready' = [ready EXCEPT ![c] = keys]
        BY <2>4 DEF Poll
      <4> HIDE DEF keys
      <4> QED
        BY <4>1, <4>2
    <3>2. pc' \in [Conn -> Place]
      BY <2>4 DEF Poll
    <3>3. UNCHANGED <<active, connections, loop, closeVars, target, upstream,
                      read, delivered, hand, netVars, offered>>
      BY <2>4 DEF Poll
    <3> QED
      BY <3>1, <3>2, <3>3
  <2>5. ASSUME NEW d \in Side, Recv(c, d) PROVE TypeOK'
    <3> DEFINE s == <<c, d>>
    <3>1. s \in Socket /\ read[s] \in Nat
      BY <2>5
    <3>2. read' \in [Socket -> Nat]
      <4>1. read' = read \/ read' = [read EXCEPT ![s] = @ + 1]
        BY <2>5 DEF Recv
      <4> HIDE DEF s
      <4> QED
        BY <3>1, <4>1
    <3>3. pc' \in [Conn -> Place]
      <4>1. \E place \in {"sending", "leaving"} : pc' = [pc EXCEPT ![c] = place]
        BY <2>5 DEF Recv
      <4> QED
        BY <4>1
    <3>4. hand' \in [Conn -> Side]
      BY <2>5 DEF Recv
    <3>5. ready' \in [Conn -> SUBSET Side]
      <4>1. ready[c] \in SUBSET Side
        OBVIOUS
      <4>2. ready' = [ready EXCEPT ![c] = ready[c] \ {d}]
        BY <2>5 DEF Recv
      <4>3. ready[c] \ {d} \subseteq ready[c]
        OBVIOUS
      <4>4. ready[c] \ {d} \in SUBSET Side
        BY <4>1, <4>3
      <4> QED
        BY <4>2, <4>4
    <3> QED
      BY <2>5, <3>2, <3>3, <3>4, <3>5 DEF Recv
  <2>6. CASE Send(c)
    <3> DEFINE peer == <<c, Other(hand[c])>>
    <3>1. peer \in Socket /\ delivered[peer] \in Nat
      BY DEF Other
    <3>2. delivered' = delivered \/ delivered' = [delivered EXCEPT ![peer] = @ + 1]
      BY <2>6 DEF Send
    <3> HIDE DEF peer
    <3>3. delivered' \in [Socket -> Nat]
      BY <3>1, <3>2
    <3>4. pc' \in [Conn -> Place]
      BY <2>6 DEF Send
    <3> QED
      BY <2>6, <3>3, <3>4 DEF Send
  <2>7. CASE Discard(c)
    BY <2>7 DEF Discard
  <2>8. CASE CloseUpstream(c)
    BY <2>8 DEF CloseUpstream
  <2> QED
    BY <1>6, <2>1, <2>2, <2>3, <2>4, <2>5, <2>6, <2>7, <2>8, <2>9 DEF Handler
<1>7. CASE UNCHANGED vars
  BY <1>7 DEF vars
<1> QED
  BY <1>1, <1>2, <1>3, <1>4, <1>5, <1>6, <1>7 DEF Next

\* The initial values are in their types.
LEMMA TypeInit == Init => TypeOK
<1> SUFFICES ASSUME Init PROVE TypeOK
  OBVIOUS
<1> USE RelayAssumption DEF Init, Place, Side
<1>1. /\ sent \in [Socket -> 0..MaxChunks]
      /\ read \in [Socket -> Nat]
      /\ delivered \in [Socket -> Nat]
  OBVIOUS
<1>2. /\ pc \in [Conn -> Place]
      /\ target \in [Conn -> Slot \cup {NoSlot}]
      /\ upstream \in [Conn -> Slot \cup {NoSlot}]
      /\ ready \in [Conn -> SUBSET Side]
      /\ hand \in [Conn -> Side]
      /\ offered \in [Conn -> SUBSET Slot]
  OBVIOUS
<1> QED
  BY <1>1, <1>2 DEF TypeOK

\* Every state of the relay is well typed, for any number of connections.
THEOREM TypeCorrect == Spec => []TypeOK
BY TypeInit, TypeStep, PTL DEF Spec

-----------------------------------------------------------------------------
(* Each part of RInv is preserved by every step.                           *)

\* Nothing is read before the lock is taken.
LEMMA UntouchedStep == TypeOK /\ Untouched /\ [Next]_vars => Untouched'
<1> SUFFICES ASSUME TypeOK, Untouched, [Next]_vars PROVE Untouched'
  OBVIOUS
<1> USE RelayAssumption DEF TypeOK, Place, Waiting, Over, Untouched, closeVars, dataVars, netVars, Goto
<1>1. ASSUME NEW s \in SwitchArg, Switch(s) PROVE Untouched'
  BY <1>1 DEF Switch
<1>2. CASE CloseBegin
  BY <1>2 DEF CloseBegin
<1>3. CASE CloseShutdown
  BY <1>3 DEF CloseShutdown
<1>4. CASE CloseSnapshot
  BY <1>4 DEF CloseSnapshot
<1>5. CASE CloseListener
  BY <1>5 DEF CloseListener
<1>6. ASSUME NEW s \in Socket, CloseSocket(s) PROVE Untouched'
  BY <1>6 DEF CloseSocket
<1>7. ASSUME NEW c \in Conn, Connect(c) PROVE Untouched'
  BY <1>7 DEF Connect
<1>8. ASSUME NEW s \in Socket, RemoteSend(s) PROVE Untouched'
  BY <1>8 DEF RemoteSend
<1>9. ASSUME NEW s \in Socket, RemoteEnd(s) PROVE Untouched'
  BY <1>9 DEF RemoteEnd
<1>10. CASE LoopSelect
  BY <1>10 DEF LoopSelect
<1>11. ASSUME NEW c \in Conn, LoopAccept(c) PROVE Untouched'
  BY <1>11 DEF LoopAccept
<1>12. ASSUME NEW c \in Conn, Route(c) PROVE Untouched'
  BY <1>12 DEF Route
<1>13. ASSUME NEW c \in Conn, Dial(c) PROVE Untouched'
  BY <1>13 DEF Dial
<1>14. ASSUME NEW c \in Conn, Register(c) PROVE Untouched'
  BY <1>14 DEF Register
<1>15. ASSUME NEW c \in Conn, Poll(c) PROVE Untouched'
  BY <1>15 DEF Poll
<1>21. ASSUME NEW c \in Conn, WhileNotStopping(c) PROVE Untouched'
  BY <1>21 DEF WhileNotStopping
<1>16. ASSUME NEW c \in Conn, NEW d \in Side, Recv(c, d) PROVE Untouched'
  BY <1>16 DEF Recv
<1>17. ASSUME NEW c \in Conn, Send(c) PROVE Untouched'
  BY <1>17 DEF Send
<1>18. ASSUME NEW c \in Conn, Discard(c) PROVE Untouched'
  BY <1>18 DEF Discard
<1>19. ASSUME NEW c \in Conn, CloseUpstream(c) PROVE Untouched'
  BY <1>19 DEF CloseUpstream
<1>20. CASE UNCHANGED vars
  BY <1>20 DEF vars
<1> QED
  BY <1>1, <1>2, <1>3, <1>4, <1>5, <1>6, <1>7, <1>8, <1>9, <1>10,
     <1>11, <1>12, <1>13, <1>14, <1>15, <1>16, <1>17, <1>18, <1>19, <1>20, <1>21
     DEF Next, Closing, Remote, AcceptLoop, Handler

\* A slot that was read was on offer, and the active one always is.
LEMMA RoutedStep == TypeOK /\ Untouched /\ Routed /\ [Next]_vars => Routed'
<1> SUFFICES ASSUME TypeOK, Untouched, Routed, [Next]_vars PROVE Routed'
  OBVIOUS
<1> USE RelayAssumption DEF TypeOK, Place, Waiting, Over, Untouched, Routed, closeVars, dataVars, netVars, Goto
<1>1. ASSUME NEW s \in SwitchArg, Switch(s) PROVE Routed'
  BY <1>1 DEF Switch
<1>2. CASE CloseBegin
  BY <1>2 DEF CloseBegin
<1>3. CASE CloseShutdown
  BY <1>3 DEF CloseShutdown
<1>4. CASE CloseSnapshot
  BY <1>4 DEF CloseSnapshot
<1>5. CASE CloseListener
  BY <1>5 DEF CloseListener
<1>6. ASSUME NEW s \in Socket, CloseSocket(s) PROVE Routed'
  BY <1>6 DEF CloseSocket
<1>7. ASSUME NEW c \in Conn, Connect(c) PROVE Routed'
  BY <1>7 DEF Connect
<1>8. ASSUME NEW s \in Socket, RemoteSend(s) PROVE Routed'
  BY <1>8 DEF RemoteSend
<1>9. ASSUME NEW s \in Socket, RemoteEnd(s) PROVE Routed'
  BY <1>9 DEF RemoteEnd
<1>10. CASE LoopSelect
  BY <1>10 DEF LoopSelect
<1>11. ASSUME NEW c \in Conn, LoopAccept(c) PROVE Routed'
  BY <1>11 DEF LoopAccept
<1>12. ASSUME NEW c \in Conn, Route(c) PROVE Routed'
  BY <1>12 DEF Route
<1>13. ASSUME NEW c \in Conn, Dial(c) PROVE Routed'
  BY <1>13 DEF Dial
<1>14. ASSUME NEW c \in Conn, Register(c) PROVE Routed'
  BY <1>14 DEF Register
<1>15. ASSUME NEW c \in Conn, Poll(c) PROVE Routed'
  BY <1>15 DEF Poll
<1>21. ASSUME NEW c \in Conn, WhileNotStopping(c) PROVE Routed'
  BY <1>21 DEF WhileNotStopping
<1>16. ASSUME NEW c \in Conn, NEW d \in Side, Recv(c, d) PROVE Routed'
  BY <1>16 DEF Recv
<1>17. ASSUME NEW c \in Conn, Send(c) PROVE Routed'
  BY <1>17 DEF Send
<1>18. ASSUME NEW c \in Conn, Discard(c) PROVE Routed'
  BY <1>18 DEF Discard
<1>19. ASSUME NEW c \in Conn, CloseUpstream(c) PROVE Routed'
  BY <1>19 DEF CloseUpstream
<1>20. CASE UNCHANGED vars
  BY <1>20 DEF vars
<1> QED
  BY <1>1, <1>2, <1>3, <1>4, <1>5, <1>6, <1>7, <1>8, <1>9, <1>10,
     <1>11, <1>12, <1>13, <1>14, <1>15, <1>16, <1>17, <1>18, <1>19, <1>20, <1>21
     DEF Next, Closing, Remote, AcceptLoop, Handler

\* An upstream socket belongs to a handler that dialled and has not closed it.
LEMMA DialledStep == TypeOK /\ Untouched /\ Routed /\ Dialled /\ [Next]_vars => Dialled'
<1> SUFFICES ASSUME TypeOK, Untouched, Routed, Dialled, [Next]_vars PROVE Dialled'
  OBVIOUS
<1> USE RelayAssumption DEF TypeOK, Place, Waiting, Over, Untouched, Routed, Dialled, closeVars, dataVars, netVars, Goto
<1>1. ASSUME NEW s \in SwitchArg, Switch(s) PROVE Dialled'
  BY <1>1 DEF Switch
<1>2. CASE CloseBegin
  BY <1>2 DEF CloseBegin
<1>3. CASE CloseShutdown
  BY <1>3 DEF CloseShutdown
<1>4. CASE CloseSnapshot
  BY <1>4 DEF CloseSnapshot
<1>5. CASE CloseListener
  BY <1>5 DEF CloseListener
<1>6. ASSUME NEW s \in Socket, CloseSocket(s) PROVE Dialled'
  BY <1>6 DEF CloseSocket
<1>7. ASSUME NEW c \in Conn, Connect(c) PROVE Dialled'
  BY <1>7 DEF Connect
<1>8. ASSUME NEW s \in Socket, RemoteSend(s) PROVE Dialled'
  BY <1>8 DEF RemoteSend
<1>9. ASSUME NEW s \in Socket, RemoteEnd(s) PROVE Dialled'
  BY <1>9 DEF RemoteEnd
<1>10. CASE LoopSelect
  BY <1>10 DEF LoopSelect
<1>11. ASSUME NEW c \in Conn, LoopAccept(c) PROVE Dialled'
  BY <1>11 DEF LoopAccept
<1>12. ASSUME NEW c \in Conn, Route(c) PROVE Dialled'
  BY <1>12 DEF Route
<1>13. ASSUME NEW c \in Conn, Dial(c) PROVE Dialled'
  BY <1>13 DEF Dial
<1>14. ASSUME NEW c \in Conn, Register(c) PROVE Dialled'
  BY <1>14 DEF Register
<1>15. ASSUME NEW c \in Conn, Poll(c) PROVE Dialled'
  BY <1>15 DEF Poll
<1>21. ASSUME NEW c \in Conn, WhileNotStopping(c) PROVE Dialled'
  BY <1>21 DEF WhileNotStopping
<1>16. ASSUME NEW c \in Conn, NEW d \in Side, Recv(c, d) PROVE Dialled'
  BY <1>16 DEF Recv
<1>17. ASSUME NEW c \in Conn, Send(c) PROVE Dialled'
  BY <1>17 DEF Send
<1>18. ASSUME NEW c \in Conn, Discard(c) PROVE Dialled'
  BY <1>18 DEF Discard
<1>19. ASSUME NEW c \in Conn, CloseUpstream(c) PROVE Dialled'
  BY <1>19 DEF CloseUpstream
<1>20. CASE UNCHANGED vars
  BY <1>20 DEF vars
<1> QED
  BY <1>1, <1>2, <1>3, <1>4, <1>5, <1>6, <1>7, <1>8, <1>9, <1>10,
     <1>11, <1>12, <1>13, <1>14, <1>15, <1>16, <1>17, <1>18, <1>19, <1>20, <1>21
     DEF Next, Closing, Remote, AcceptLoop, Handler

\* relay.connections holds exactly the sockets of the registered handlers.
LEMMA RegisteredStep == TypeOK /\ Registered /\ [Next]_vars => Registered'
<1> SUFFICES ASSUME TypeOK, Registered, [Next]_vars PROVE Registered'
  OBVIOUS
<1> USE RelayAssumption DEF TypeOK, Place, Waiting, Over, Registered, Sockets, closeVars, dataVars, netVars, Goto
<1>1. ASSUME NEW s \in SwitchArg, Switch(s) PROVE Registered'
  BY <1>1 DEF Switch
<1>2. CASE CloseBegin
  BY <1>2 DEF CloseBegin
<1>3. CASE CloseShutdown
  BY <1>3 DEF CloseShutdown
<1>4. CASE CloseSnapshot
  BY <1>4 DEF CloseSnapshot
<1>5. CASE CloseListener
  BY <1>5 DEF CloseListener
<1>6. ASSUME NEW s \in Socket, CloseSocket(s) PROVE Registered'
  BY <1>6 DEF CloseSocket
<1>7. ASSUME NEW c \in Conn, Connect(c) PROVE Registered'
  BY <1>7 DEF Connect
<1>8. ASSUME NEW s \in Socket, RemoteSend(s) PROVE Registered'
  BY <1>8 DEF RemoteSend
<1>9. ASSUME NEW s \in Socket, RemoteEnd(s) PROVE Registered'
  BY <1>9 DEF RemoteEnd
<1>10. CASE LoopSelect
  BY <1>10 DEF LoopSelect
<1>11. ASSUME NEW c \in Conn, LoopAccept(c) PROVE Registered'
  BY <1>11 DEF LoopAccept
<1>12. ASSUME NEW c \in Conn, Route(c) PROVE Registered'
  BY <1>12 DEF Route
<1>13. ASSUME NEW c \in Conn, Dial(c) PROVE Registered'
  BY <1>13 DEF Dial
<1>14. ASSUME NEW c \in Conn, Register(c) PROVE Registered'
  BY <1>14 DEF Register
<1>15. ASSUME NEW c \in Conn, Poll(c) PROVE Registered'
  BY <1>15 DEF Poll
<1>21. ASSUME NEW c \in Conn, WhileNotStopping(c) PROVE Registered'
  BY <1>21 DEF WhileNotStopping
<1>16. ASSUME NEW c \in Conn, NEW d \in Side, Recv(c, d) PROVE Registered'
  BY <1>16 DEF Recv
<1>17. ASSUME NEW c \in Conn, Send(c) PROVE Registered'
  BY <1>17 DEF Send
<1>18. ASSUME NEW c \in Conn, Discard(c) PROVE Registered'
  BY <1>18 DEF Discard
<1>19. ASSUME NEW c \in Conn, CloseUpstream(c) PROVE Registered'
  BY <1>19 DEF CloseUpstream
<1>20. CASE UNCHANGED vars
  BY <1>20 DEF vars
<1> QED
  BY <1>1, <1>2, <1>3, <1>4, <1>5, <1>6, <1>7, <1>8, <1>9, <1>10,
     <1>11, <1>12, <1>13, <1>14, <1>15, <1>16, <1>17, <1>18, <1>19, <1>20, <1>21
     DEF Next, Closing, Remote, AcceptLoop, Handler

\* A step that moves no content and sends no handler back into its loop
\* leaves the accounts in order.
Quiet ==
    /\ UNCHANGED <<read, delivered, hand>>
    /\ \A c \in Conn :
         /\ pc'[c] \in Fresh => pc[c] \in Fresh
         /\ pc'[c] \in {"looping", "polling", "serving"} =>
                pc[c] \in Fresh \cup {"looping", "polling", "serving"}
         /\ pc'[c] = "sending" => pc[c] = "sending"

\* A step that moves no byte leaves every connection's account as it was.
LEMMA QuietStep == Accounted /\ Quiet => Accounted'
<1> SUFFICES ASSUME Accounted, Quiet, NEW c \in Conn, NEW d \in Side
             PROVE  Accounts(c, d)'
  BY DEF Accounted
<1> DEFINE r == read[<<c, d>>]
           w == delivered[<<c, d>>]
           o == delivered[<<c, Other(d)>>]
<1>1. /\ pc[c] \in Fresh => r = 0 /\ w = 0 /\ o = 0
      /\ pc[c] \in {"looping", "polling", "serving"} => o = r
      /\ pc[c] = "sending" => r = o + (IF hand[c] = d THEN 1 ELSE 0)
  <2>1. Other(d) \in Side
    BY DEF Other, Side
  <2> QED
    BY <2>1 DEF Accounted, Accounts
<1> HIDE DEF r, w, o
<1>2. /\ pc'[c] \in Fresh => pc[c] \in Fresh
      /\ pc'[c] \in {"looping", "polling", "serving"} => pc[c] \in Fresh \cup {"looping", "polling", "serving"}
      /\ pc'[c] = "sending" => pc[c] = "sending"
  BY DEF Quiet
<1>3. /\ pc'[c] \in Fresh => r = 0 /\ w = 0
      /\ pc'[c] \in {"looping", "polling", "serving"} => o = r
      /\ pc'[c] = "sending" => r = o + (IF hand[c] = d THEN 1 ELSE 0)
  BY <1>1, <1>2
<1> QED
  BY <1>3 DEF r, w, o, Quiet, Accounts

\* Content read and content delivered stay in step.
LEMMA AccountedStep == TypeOK /\ Accounted /\ [Next]_vars => Accounted'
<1> SUFFICES ASSUME TypeOK, Accounted, [Next]_vars PROVE Accounted'
  OBVIOUS
<1> USE DEF closeVars, dataVars, netVars, Goto
<1>T. pc \in [Conn -> Place]
  BY DEF TypeOK
<1>1. ASSUME NEW s \in SwitchArg, Switch(s) PROVE Accounted'
  <2>1. Quiet
    BY <1>1, <1>T DEF Quiet, Fresh, Place, Waiting, Over, Switch
  <2> QED
    BY <2>1, QuietStep
<1>2. CASE CloseBegin
  <2>1. Quiet
    BY <1>2, <1>T DEF Quiet, Fresh, Place, Waiting, Over, CloseBegin
  <2> QED
    BY <2>1, QuietStep
<1>3. CASE CloseShutdown
  <2>1. Quiet
    BY <1>3, <1>T DEF Quiet, Fresh, Place, Waiting, Over, CloseShutdown
  <2> QED
    BY <2>1, QuietStep
<1>4. CASE CloseSnapshot
  <2>1. Quiet
    BY <1>4, <1>T DEF Quiet, Fresh, Place, Waiting, Over, CloseSnapshot
  <2> QED
    BY <2>1, QuietStep
<1>5. CASE CloseListener
  <2>1. Quiet
    BY <1>5, <1>T DEF Quiet, Fresh, Place, Waiting, Over, CloseListener
  <2> QED
    BY <2>1, QuietStep
<1>6. ASSUME NEW s \in Socket, CloseSocket(s) PROVE Accounted'
  <2>1. Quiet
    BY <1>6, <1>T DEF Quiet, Fresh, Place, Waiting, Over, CloseSocket
  <2> QED
    BY <2>1, QuietStep
<1>7. ASSUME NEW c \in Conn, Connect(c) PROVE Accounted'
  <2>1. Quiet
    BY <1>7, <1>T DEF Quiet, Fresh, Place, Waiting, Over, Connect
  <2> QED
    BY <2>1, QuietStep
<1>8. ASSUME NEW s \in Socket, RemoteSend(s) PROVE Accounted'
  <2>1. Quiet
    BY <1>8, <1>T DEF Quiet, Fresh, Place, Waiting, Over, RemoteSend
  <2> QED
    BY <2>1, QuietStep
<1>9. ASSUME NEW s \in Socket, RemoteEnd(s) PROVE Accounted'
  <2>1. Quiet
    BY <1>9, <1>T DEF Quiet, Fresh, Place, Waiting, Over, RemoteEnd
  <2> QED
    BY <2>1, QuietStep
<1>10. CASE LoopSelect
  <2>1. Quiet
    BY <1>10, <1>T DEF Quiet, Fresh, Place, Waiting, Over, LoopSelect
  <2> QED
    BY <2>1, QuietStep
<1>11. ASSUME NEW c \in Conn, LoopAccept(c) PROVE Accounted'
  <2>1. Quiet
    BY <1>11, <1>T DEF Quiet, Fresh, Place, Waiting, Over, LoopAccept
  <2> QED
    BY <2>1, QuietStep
<1>12. ASSUME NEW c \in Conn, Route(c) PROVE Accounted'
  <2>1. Quiet
    BY <1>12, <1>T DEF Quiet, Fresh, Place, Waiting, Over, Route
  <2> QED
    BY <2>1, QuietStep
<1>13. ASSUME NEW c \in Conn, Dial(c) PROVE Accounted'
  <2>1. Quiet
    BY <1>13, <1>T DEF Quiet, Fresh, Place, Waiting, Over, Dial
  <2> QED
    BY <2>1, QuietStep
<1>14. ASSUME NEW c \in Conn, Register(c) PROVE Accounted'
  <2>1. Quiet
    BY <1>14, <1>T DEF Quiet, Fresh, Place, Waiting, Over, Register
  <2> QED
    BY <2>1, QuietStep
<1>15. ASSUME NEW c \in Conn, Poll(c) PROVE Accounted'
  <2>1. Quiet
    BY <1>15, <1>T DEF Quiet, Fresh, Place, Waiting, Over, Poll
  <2> QED
    BY <2>1, QuietStep
<1>21. ASSUME NEW c \in Conn, WhileNotStopping(c) PROVE Accounted'
  <2>1. Quiet
    BY <1>21, <1>T DEF Quiet, Fresh, Place, Waiting, Over, WhileNotStopping
  <2> QED
    BY <2>1, QuietStep
<1>16. ASSUME NEW c \in Conn, Discard(c) PROVE Accounted'
  <2>1. Quiet
    BY <1>16, <1>T DEF Quiet, Fresh, Place, Waiting, Over, Discard
  <2> QED
    BY <2>1, QuietStep
<1>17. ASSUME NEW c \in Conn, CloseUpstream(c) PROVE Accounted'
  <2>1. Quiet
    BY <1>17, <1>T DEF Quiet, Fresh, Place, Waiting, Over, CloseUpstream
  <2> QED
    BY <2>1, QuietStep
<1>18. ASSUME NEW c \in Conn, NEW d \in Side, Recv(c, d) PROVE Accounted'
  <2>1. CASE pc' = [pc EXCEPT ![c] = "leaving"] /\ UNCHANGED <<read, hand, delivered>>
    <3>1. Quiet
      BY <2>1, <1>T DEF Quiet, Fresh
    <3> QED
      BY <3>1, QuietStep
  <2>2. CASE /\ pc' = [pc EXCEPT ![c] = "sending"]
             /\ read' = [read EXCEPT ![<<c, d>>] = @ + 1]
             /\ hand' = [hand EXCEPT ![c] = d]
             /\ UNCHANGED delivered
    <3> SUFFICES ASSUME NEW x \in Conn, NEW e \in Side PROVE Accounts(x, e)'
      BY DEF Accounted
    <3>1. pc[c] = "serving"
      BY <1>18 DEF Recv
    <3>2. CASE x # c
      <4>1. pc'[x] = pc[x] /\ hand'[x] = hand[x] /\ read'[<<x, e>>] = read[<<x, e>>]
        BY <3>2, <2>2, <1>18 DEF TypeOK, Socket
      <4> QED
        BY <4>1, <2>2 DEF Accounted, Accounts
    <3>3. CASE x = c
      <4>1. pc'[x] = "sending" /\ hand'[x] = d
        BY <3>3, <2>2 DEF TypeOK
      <4>2. delivered[<<x, Other(e)>>] = read[<<x, e>>]
        BY <3>1, <3>3 DEF Accounted, Accounts
      <4>3. read[<<x, e>>] \in Nat /\ <<x, e>> \in DOMAIN read
        BY DEF TypeOK, Socket
      <4>4. read'[<<x, e>>] = read[<<x, e>>] + (IF d = e THEN 1 ELSE 0)
        <5>1. CASE d = e
          BY <5>1, <3>3, <4>3, <2>2
        <5>2. CASE d # e
          BY <5>2, <3>3, <4>3, <2>2
        <5> QED
          BY <5>1, <5>2
      <4> QED
        BY <4>1, <4>2, <4>4, <2>2 DEF Fresh, Accounts
    <3> QED
      BY <3>2, <3>3
  <2> QED
    BY <1>18, <2>1, <2>2 DEF Recv
<1>19. ASSUME NEW c \in Conn, Send(c) PROVE Accounted'
  <2>1. CASE pc' = [pc EXCEPT ![c] = "leaving"] /\ UNCHANGED <<read, hand, delivered>>
    <3>1. Quiet
      BY <2>1, <1>T DEF Quiet, Fresh
    <3> QED
      BY <3>1, QuietStep
  <2> DEFINE peer == <<c, Other(hand[c])>>
  <2>2. CASE /\ \E place \in {"looping", "serving"} : pc' = [pc EXCEPT ![c] = place]
             /\ delivered' = [delivered EXCEPT ![peer] = @ + 1]
             /\ UNCHANGED <<read, hand>>
    <3> SUFFICES ASSUME NEW x \in Conn, NEW e \in Side PROVE Accounts(x, e)'
      BY DEF Accounted
    <3>1. pc[c] = "sending" /\ hand[c] \in Side
      BY <1>19 DEF Send, TypeOK
    <3>2. Other(e) \in Side /\ (Other(e) = Other(hand[c]) <=> e = hand[c])
      BY <3>1 DEF Other, Side
    <3>3. <<x, Other(e)>> \in DOMAIN delivered /\ delivered[<<x, Other(e)>>] \in Nat
      BY <3>2 DEF TypeOK, Socket
    <3>4. CASE x # c
      <4>1. /\ pc'[x] = pc[x]
            /\ delivered'[<<x, Other(e)>>] = delivered[<<x, Other(e)>>]
        BY <3>4, <2>2, <3>3, <1>T
      <4>2. delivered'[<<x, e>>] = delivered[<<x, e>>]
        BY <3>4, <2>2 DEF TypeOK, Socket
      <4> QED
        BY <4>1, <4>2, <2>2 DEF Accounted, Accounts
    <3>5. CASE x = c
      <4>1. pc'[x] \in {"looping", "polling", "serving"}
        BY <3>5, <2>2, <1>T
      <4>2. read[<<x, e>>] = delivered[<<x, Other(e)>>] + (IF hand[c] = e THEN 1 ELSE 0)
        BY <3>1, <3>5 DEF Accounted, Accounts
      <4>3. delivered'[<<x, Other(e)>>] = delivered[<<x, Other(e)>>]
                                          + (IF hand[c] = e THEN 1 ELSE 0)
        <5>1. CASE hand[c] = e
          BY <5>1, <3>5, <3>3, <2>2
        <5>2. CASE hand[c] # e
          BY <5>2, <3>5, <3>2, <3>3, <2>2
        <5> QED
          BY <5>1, <5>2
      <4> QED
        BY <4>1, <4>2, <4>3, <2>2 DEF Fresh, Accounts
    <3> QED
      BY <3>4, <3>5
  <2> QED
    BY <1>19, <2>1, <2>2 DEF Send
<1>20. CASE UNCHANGED vars
  <2>1. Quiet
    BY <1>20 DEF vars, Quiet
  <2> QED
    BY <2>1, QuietStep
<1> QED
  BY <1>1, <1>2, <1>3, <1>4, <1>5, <1>6, <1>7, <1>8, <1>9, <1>10,
     <1>11, <1>12, <1>13, <1>14, <1>15, <1>16, <1>17, <1>18, <1>19, <1>20, <1>21
     DEF Next, Closing, Remote, AcceptLoop, Handler

\* The snapshot dooms every handler that may still hold content.
LEMMA CloserStep == TypeOK /\ Registered /\ Closer /\ [Next]_vars => Closer'
<1> SUFFICES ASSUME TypeOK, Registered, Closer, [Next]_vars PROVE Closer'
  OBVIOUS
<1> USE RelayAssumption DEF TypeOK, Place, Waiting, Over, Closer, Registered, Sockets, closeVars, dataVars, netVars, Goto
<1>1. ASSUME NEW s \in SwitchArg, Switch(s) PROVE Closer'
  BY <1>1 DEF Switch
<1>2. CASE CloseBegin
  BY <1>2 DEF CloseBegin
<1>3. CASE CloseShutdown
  BY <1>3 DEF CloseShutdown
<1>4. CASE CloseSnapshot
  BY <1>4 DEF CloseSnapshot
<1>5. CASE CloseListener
  BY <1>5 DEF CloseListener
<1>6. ASSUME NEW s \in Socket, CloseSocket(s) PROVE Closer'
  BY <1>6 DEF CloseSocket
<1>7. ASSUME NEW c \in Conn, Connect(c) PROVE Closer'
  BY <1>7 DEF Connect
<1>8. ASSUME NEW s \in Socket, RemoteSend(s) PROVE Closer'
  BY <1>8 DEF RemoteSend
<1>9. ASSUME NEW s \in Socket, RemoteEnd(s) PROVE Closer'
  BY <1>9 DEF RemoteEnd
<1>10. CASE LoopSelect
  BY <1>10 DEF LoopSelect
<1>11. ASSUME NEW c \in Conn, LoopAccept(c) PROVE Closer'
  BY <1>11 DEF LoopAccept
<1>12. ASSUME NEW c \in Conn, Route(c) PROVE Closer'
  BY <1>12 DEF Route
<1>13. ASSUME NEW c \in Conn, Dial(c) PROVE Closer'
  BY <1>13 DEF Dial
<1>14. ASSUME NEW c \in Conn, Register(c) PROVE Closer'
  BY <1>14 DEF Register
<1>15. ASSUME NEW c \in Conn, Poll(c) PROVE Closer'
  BY <1>15 DEF Poll
<1>21. ASSUME NEW c \in Conn, WhileNotStopping(c) PROVE Closer'
  BY <1>21 DEF WhileNotStopping
<1>16. ASSUME NEW c \in Conn, NEW d \in Side, Recv(c, d) PROVE Closer'
  BY <1>16 DEF Recv
<1>17. ASSUME NEW c \in Conn, Send(c) PROVE Closer'
  BY <1>17 DEF Send
<1>18. ASSUME NEW c \in Conn, Discard(c) PROVE Closer'
  BY <1>18 DEF Discard
<1>19. ASSUME NEW c \in Conn, CloseUpstream(c) PROVE Closer'
  BY <1>19 DEF CloseUpstream
<1>20. CASE UNCHANGED vars
  BY <1>20 DEF vars
<1> QED
  BY <1>1, <1>2, <1>3, <1>4, <1>5, <1>6, <1>7, <1>8, <1>9, <1>10,
     <1>11, <1>12, <1>13, <1>14, <1>15, <1>16, <1>17, <1>18, <1>19, <1>20, <1>21
     DEF Next, Closing, Remote, AcceptLoop, Handler
-----------------------------------------------------------------------------
(* The inductive invariant and the safety properties it yields.            *)

\* RInv holds in every state: the strengthening the theorems below rest on.
THEOREM Inductive == Spec => []RInv
<1>1. Init => RInv
  <2> SUFFICES ASSUME Init PROVE RInv
    OBVIOUS
  <2>1. TypeOK
    BY TypeInit
  <2>2. Untouched /\ Routed /\ Dialled /\ Registered /\ Closer
    BY RelayAssumption
    DEF Init, Untouched, Routed, Dialled, Registered, Closer, Waiting
  <2>3. Accounted
    <3> SUFFICES ASSUME NEW c \in Conn, NEW d \in Side PROVE Accounts(c, d)
      BY DEF Accounted
    <3>1. <<c, d>> \in Socket
      BY DEF Socket
    <3> QED
      BY <3>1 DEF Init, Accounts, Fresh
  <2> QED
    BY <2>1, <2>2, <2>3 DEF RInv
<1>2. RInv /\ [Next]_vars => RInv'
  BY TypeStep, UntouchedStep, RoutedStep, DialledStep, RegisteredStep,
     AccountedStep, CloserStep DEF RInv
<1> QED
  BY <1>1, <1>2, PTL DEF Spec

\* A connection never reaches a slot that was switched away from before its
\* client connected.
THEOREM RoutesAreFresh == Spec => []RouteFresh
<1>1. RInv => RouteFresh
  BY DEF RInv, Routed, RouteFresh
<1> QED
  BY <1>1, Inductive, PTL

\* The relay passes on exactly what it reads while a connection is alive.
THEOREM NothingIsLost == Spec => []NothingLost
<1>1. RInv => NothingLost
  BY DEF RInv, Accounted, Accounts, NothingLost
<1> QED
  BY <1>1, Inductive, PTL

\* A handler that ended left no socket behind.
THEOREM NoSocketLeaks == Spec => []NoSocketLeak
<1>1. RInv => NoSocketLeak
  BY DEF RInv, Registered, Dialled, NoSocketLeak, Over
<1> QED
  BY <1>1, Inductive, PTL

\* Once close() has returned, whoever is still in its loop is shut down.
THEOREM LateHandlers == Spec => []LateHandlersLeave
<1>1. RInv => LateHandlersLeave
  BY DEF RInv, Closer, LateHandlersLeave
<1> QED
  BY <1>1, Inductive, PTL

-----------------------------------------------------------------------------
(* What a step may never do.                                               *)

\* No step moves a connection to another slot or dials it twice.
THEOREM ConnectionsStick == Spec => Sticky
<1>1. RInv /\ [Next]_vars => [SlotsKept]_vars
  <2> SUFFICES ASSUME RInv, Next, NEW x \in Conn PROVE KeepsSlot(x)
    BY DEF SlotsKept
  <2>1. CASE UNCHANGED <<target, upstream>>
    BY <2>1 DEF KeepsSlot
  <2>2. ASSUME NEW c \in Conn, Route(c) PROVE KeepsSlot(x)
    BY <2>2 DEF RInv, TypeOK, Untouched, Route, KeepsSlot
  <2>3. ASSUME NEW c \in Conn, Dial(c) PROVE KeepsSlot(x)
    <3>1. pc[c] = "dialing" /\ upstream[c] = NoSlot /\ delivered[<<c, "client">>] = 0
      BY <2>3 DEF RInv, Dialled, Accounted, Accounts, Fresh, Side, Dial
    <3>2. upstream' = upstream \/ upstream' = [upstream EXCEPT ![c] = target[c]]
      BY <2>3 DEF Dial
    <3>3. target' = target
      BY <2>3 DEF Dial
    <3> QED
      BY <3>1, <3>2, <3>3 DEF RInv, TypeOK, KeepsSlot
  <2>4. ASSUME NEW c \in Conn, CloseUpstream(c) PROVE KeepsSlot(x)
    BY <2>4 DEF RInv, TypeOK, CloseUpstream, KeepsSlot
  <2>5. CASE \E s \in SwitchArg : Switch(s)
    BY <2>5, <2>1 DEF Switch
  <2>6. CASE CloseBegin \/ Closing
    BY <2>6, <2>1 DEF CloseBegin, Closing, CloseShutdown, CloseSnapshot,
                      CloseListener, CloseSocket
  <2>7. CASE Remote \/ AcceptLoop
    BY <2>7, <2>1 DEF Remote, Connect, RemoteSend, RemoteEnd, AcceptLoop,
                      LoopSelect, LoopAccept
  <2>8. ASSUME NEW c \in Conn,
               \/ Register(c) \/ WhileNotStopping(c) \/ Poll(c) \/ (\E d \in Side : Recv(c, d))
               \/ Send(c) \/ Discard(c)
        PROVE  KeepsSlot(x)
    BY <2>8, <2>1 DEF Register, WhileNotStopping, Poll, Recv, Send, Discard
  <2> QED
    BY <2>2, <2>3, <2>4, <2>5, <2>6, <2>7, <2>8 DEF Next, Handler
<1> QED
  BY <1>1, Inductive, PTL DEF Spec, Sticky

\* close() joins no handler thread, and still nothing is written after it.
THEOREM QuietAfterCloseHolds == Spec => QuietAfterClose
<1>1. RInv /\ [Next]_vars => [closer = "closed" => delivered' = delivered]_vars
  <2> SUFFICES ASSUME RInv, Next, closer = "closed" PROVE delivered' = delivered
    OBVIOUS
  <2> USE DEF dataVars
  <2>1. ASSUME NEW c \in Conn, Send(c) PROVE delivered' = delivered
    <3>1. pc[c] = "sending" /\ hand[c] \in Side
      BY <2>1 DEF Send, RInv, TypeOK
    <3>2. <<c, Other(hand[c])>> \in Sockets(c)
      BY <3>1 DEF Other, Side, Sockets
    <3>3. <<c, Other(hand[c])>> \in shut
      BY <3>1, <3>2 DEF RInv, Closer
    <3> QED
      BY <2>1, <3>3 DEF Send
  <2>2. CASE \E s \in SwitchArg : Switch(s)
    BY <2>2 DEF Switch
  <2>3. CASE CloseBegin \/ Closing
    BY <2>3 DEF CloseBegin, Closing, CloseShutdown, CloseSnapshot,
                CloseListener, CloseSocket
  <2>4. CASE Remote \/ AcceptLoop
    BY <2>4 DEF Remote, Connect, RemoteSend, RemoteEnd, AcceptLoop,
                LoopSelect, LoopAccept
  <2>5. ASSUME NEW c \in Conn,
               \/ Route(c) \/ Dial(c) \/ Register(c) \/ WhileNotStopping(c) \/ Poll(c)
               \/ (\E d \in Side : Recv(c, d)) \/ Discard(c) \/ CloseUpstream(c)
        PROVE  delivered' = delivered
    BY <2>5 DEF Route, Dial, Register, WhileNotStopping, Poll, Recv, Discard, CloseUpstream
  <2> QED
    BY <2>1, <2>2, <2>3, <2>4, <2>5 DEF Next, Handler
<1> QED
  BY <1>1, Inductive, PTL DEF Spec, QuietAfterClose

-----------------------------------------------------------------------------
(* The relay implements the sticky router.                                 *)

\* Every step of the relay is a step of StickyRouter or leaves it unchanged:
\* Route is Bind, Connect is Arrive, CloseUpstream and CloseListener are End.
THEOREM Refinement == Spec => ImplementsRouter
<1>1. Init => Router!Init
  BY DEF Init, Router!Init, PhaseOf, Waiting, Over
<1>2. RInv /\ [Next]_vars => [Router!Next]_(Router!vars)
  <2> SUFFICES ASSUME RInv, [Next]_vars PROVE [Router!Next]_(Router!vars)
    OBVIOUS
  <2> USE DEF RInv, closeVars, dataVars, netVars, Goto
  <2>T. pc \in [Conn -> Place] /\ offered \in [Conn -> SUBSET Slot] /\ active \in Slot
    BY DEF TypeOK
  <2>S. ASSUME UNCHANGED <<active, target, offered>>,
               \A c \in Conn : PhaseOf(pc'[c]) = PhaseOf(pc[c])
        PROVE  UNCHANGED Router!vars
    BY <2>S DEF Router!vars
  <2> DEFINE Same == /\ UNCHANGED <<active, target, offered>>
                     /\ \A c \in Conn : PhaseOf(pc'[c]) = PhaseOf(pc[c])
  <2>1. ASSUME NEW s \in SwitchArg, Switch(s) PROVE s \in Slot /\ Router!Switch(s)
    BY <2>1, <2>T DEF Switch, Router!Switch, PhaseOf, Waiting, Over, Place
  <2>2. CASE CloseBegin
    BY <2>2, <2>S DEF CloseBegin
  <2>3. CASE CloseShutdown \/ CloseSnapshot \/ \E s \in Socket : CloseSocket(s)
    BY <2>3, <2>S DEF CloseShutdown, CloseSnapshot, CloseSocket
  <2>4. CASE CloseListener
    <3> DEFINE C == {c \in Conn : pc[c] = "backlog"}
    <3>1. \A c \in C : PhaseOf(pc[c]) = "waiting"
      BY DEF PhaseOf, Waiting, Over
    <3>2. \A c \in Conn : PhaseOf(pc'[c]) = IF c \in C THEN "ended" ELSE PhaseOf(pc[c])
      BY <2>4, <2>T DEF CloseListener, PhaseOf, Waiting, Over
    <3>3. UNCHANGED <<active, target, offered>>
      BY <2>4 DEF CloseListener
    <3>4. C \in SUBSET Conn
      OBVIOUS
    <3> HIDE DEF C
    <3>5. Router!End(C)
      BY <3>1, <3>2, <3>3, <3>4 DEF Router!End
    <3> QED
      BY <3>4, <3>5 DEF Router!Next
  <2>5. ASSUME NEW c \in Conn, Connect(c) PROVE Router!Arrive(c)
    BY <2>5, <2>T DEF Connect, Router!Arrive, PhaseOf, Waiting, Over
  <2>6. CASE \E s \in Socket : RemoteSend(s) \/ RemoteEnd(s)
    BY <2>6, <2>S DEF RemoteSend, RemoteEnd
  <2>7. CASE LoopSelect
    BY <2>7, <2>S DEF LoopSelect
  <2>8. ASSUME NEW c \in Conn, LoopAccept(c) PROVE Same
    BY <2>8, <2>T DEF LoopAccept, PhaseOf, Waiting, Over
  <2>9. ASSUME NEW c \in Conn, Route(c) PROVE Router!Bind(c)
    <3>1. pc[c] = "routing" /\ active \in offered[c]
      BY <2>9 DEF Route, Routed, Waiting
    <3>2. /\ target' = [target EXCEPT ![c] = active]
          /\ pc' = [pc EXCEPT ![c] = "dialing"]
          /\ UNCHANGED <<active, offered>>
      BY <2>9 DEF Route
    <3>3. \A x \in Conn : PhaseOf(pc'[x]) = IF x = c THEN "bound" ELSE PhaseOf(pc[x])
      BY <3>2, <2>T DEF PhaseOf, Waiting, Over
    <3>4. PhaseOf(pc[c]) = "waiting"
      BY <3>1 DEF PhaseOf, Waiting, Over
    <3> QED
      BY <3>1, <3>2, <3>3, <3>4 DEF Router!Bind
  <2>10. ASSUME NEW c \in Conn, Dial(c) \/ Register(c) PROVE Same
    BY <2>10, <2>T DEF Dial, Register, PhaseOf, Waiting, Over
  <2>11. ASSUME NEW c \in Conn, WhileNotStopping(c) \/ Poll(c) PROVE Same
    BY <2>11, <2>T DEF WhileNotStopping, Poll, PhaseOf, Waiting, Over
  <2>12. ASSUME NEW c \in Conn, NEW d \in Side, Recv(c, d) PROVE Same
    <3>1. /\ pc[c] = "serving"
          /\ \E place \in {"sending", "leaving"} : pc' = [pc EXCEPT ![c] = place]
          /\ UNCHANGED <<active, target, offered>>
      BY <2>12 DEF Recv
    <3> QED
      BY <3>1, <2>T DEF PhaseOf, Waiting, Over
  <2>13. ASSUME NEW c \in Conn, Send(c) PROVE Same
    <3>1. /\ pc[c] = "sending"
          /\ \E place \in {"looping", "serving", "leaving"} : pc' = [pc EXCEPT ![c] = place]
          /\ UNCHANGED <<active, target, offered>>
      BY <2>13 DEF Send
    <3> QED
      BY <3>1, <2>T DEF PhaseOf, Waiting, Over
  <2>14. ASSUME NEW c \in Conn, Discard(c) PROVE Same
    BY <2>14, <2>T DEF Discard, PhaseOf, Waiting, Over
  <2>15. ASSUME NEW c \in Conn, CloseUpstream(c) PROVE Router!End({c})
    <3>1. /\ pc[c] = "discarded"
          /\ pc' = [pc EXCEPT ![c] = "done"]
          /\ UNCHANGED <<active, target, offered>>
      BY <2>15 DEF CloseUpstream
    <3>2. PhaseOf(pc[c]) = "bound"
      BY <3>1 DEF PhaseOf, Waiting, Over
    <3>3. \A x \in Conn : PhaseOf(pc'[x]) = IF x \in {c} THEN "ended" ELSE PhaseOf(pc[x])
      BY <3>1, <2>T DEF PhaseOf, Waiting, Over
    <3> QED
      BY <3>1, <3>2, <3>3 DEF Router!End
  <2>16. CASE UNCHANGED vars
    BY <2>16, <2>S DEF vars
  <2>17. CASE Closing
    BY <2>17, <2>3, <2>4 DEF Closing
  <2>18. CASE Remote
    BY <2>18, <2>5, <2>6 DEF Remote, Router!Next
  <2>19. CASE AcceptLoop
    BY <2>19, <2>7, <2>8, <2>S DEF AcceptLoop
  <2>20. ASSUME NEW c \in Conn, Handler(c) PROVE [Router!Next]_(Router!vars)
    <3>1. CASE Route(c)
      BY <3>1, <2>9 DEF Router!Next
    <3>2. CASE CloseUpstream(c)
      BY <3>2, <2>15 DEF Router!Next
    <3>3. CASE Same
      BY <3>3, <2>S
    <3> QED
      BY <2>20, <3>1, <3>2, <3>3, <2>10, <2>11, <2>12, <2>13, <2>14 DEF Handler
  <2>21. CASE \E s \in SwitchArg : Switch(s)
    BY <2>21, <2>1 DEF Router!Next
  <2> QED
    BY <2>2, <2>16, <2>17, <2>18, <2>19, <2>20, <2>21 DEF Next
<1> QED
  BY <1>1, <1>2, Inductive, PTL DEF Spec, ImplementsRouter, Router!Spec

=============================================================================
