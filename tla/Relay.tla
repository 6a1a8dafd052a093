------------------------------- MODULE Relay -------------------------------
(***************************************************************************)
(* scripts/acceptance_cutover.py: the TCP relay that stands for the stable *)
(* endpoint in the two-cluster acceptance runs.                            *)
(*                                                                         *)
(* Threads: the accept loop (socketserver's serve_forever, started by      *)
(* Relay.__init__), one daemon handler thread per connection               *)
(* (_Connection.handle), and the harness thread, which calls switch and    *)
(* close.  relay.lock protects `active` and `connections`; each locked     *)
(* region is one action here, and every step outside the lock is an action *)
(* of its own, so that switch and close can fall between any two.          *)
(***************************************************************************)
EXTENDS Naturals, FiniteSets

CONSTANTS Slot,         \* keys of relay.backends
          InitialSlot,  \* relay.active after __init__
          Conn,         \* client connections
          NoSlot,       \* no port read yet, or no upstream socket
          MaxChunks     \* bound: chunks a remote end sends on one socket

ASSUME RelayAssumption ==
    /\ InitialSlot \in Slot
    /\ NoSlot \notin Slot
    /\ MaxChunks \in Nat

VARIABLES
    active,       \* relay.active
    stopping,     \* relay.stopping
    connections,  \* relay.connections: the registered sockets
    loop,         \* the accept loop: select, accepting, exited
    closer,       \* where close() is
    doomed,       \* close()'s local snapshot of connections, still to shut
    shut,         \* sockets on which close() called shutdown(SHUT_RDWR)
    pc,           \* pc[c]: where connection c and its handler thread are
    target,       \* target[c]: the slot whose port the handler read
    upstream,     \* upstream[c]: the slot its open upstream socket reaches
    ready,        \* ready[c]: keys of the current select() still to serve
    hand,         \* hand[c]: side whose content recv returned, being sent
    sent,         \* sent[s]: chunks the remote end of s has sent
    read,         \* read[s]: chunks recv() returned from s
    delivered,    \* delivered[s]: chunks sendall() wrote to s
    ended,        \* sockets whose remote end has closed or reset
    offered       \* history: slots active since c connected

netVars   == <<sent, ended>>
dataVars  == <<read, delivered, hand, ready>>
closeVars == <<stopping, closer, doomed, shut>>
vars == <<active, stopping, connections, loop, closer, doomed, shut, pc,
          target, upstream, ready, hand, sent, read, delivered, ended, offered>>

Side      == {"client", "upstream"}
Socket    == Conn \X Side
Sockets(c) == {c} \X Side
Other(d)  == IF d = "client" THEN "upstream" ELSE "client"

\* Where a connection can be.  The handler thread runs from "routing" on;
\* "leaving" and "discarded" are the finally clause.
Place == {"absent", "backlog", "routing", "dialing", "dialed", "looping",
          "polling", "serving", "sending", "leaving", "discarded", "done", "refused"}
Waiting == {"backlog", "routing"}
Over    == {"done", "refused"}

TypeOK ==
    /\ active \in Slot
    /\ stopping \in BOOLEAN
    /\ connections \subseteq Socket
    /\ loop \in {"select", "accepting", "exited"}
    /\ closer \in {"idle", "stopping", "shutdown", "closing", "closed"}
    /\ doomed \subseteq Socket
    /\ shut \subseteq Socket
    /\ pc \in [Conn -> Place]
    /\ target \in [Conn -> Slot \cup {NoSlot}]
    /\ upstream \in [Conn -> Slot \cup {NoSlot}]
    /\ ready \in [Conn -> SUBSET Side]
    /\ hand \in [Conn -> Side]
    /\ sent \in [Socket -> 0..MaxChunks]
    /\ read \in [Socket -> Nat]
    /\ delivered \in [Socket -> Nat]
    /\ ended \subseteq Socket
    /\ offered \in [Conn -> SUBSET Slot]

Init ==
    /\ active = InitialSlot
    /\ stopping = FALSE
    /\ connections = {}
    /\ loop = "select"
    /\ closer = "idle"
    /\ doomed = {}
    /\ shut = {}
    /\ pc = [c \in Conn |-> "absent"]
    /\ target = [c \in Conn |-> NoSlot]
    /\ upstream = [c \in Conn |-> NoSlot]
    /\ ready = [c \in Conn |-> {}]
    /\ hand = [c \in Conn |-> "client"]
    /\ sent = [s \in Socket |-> 0]
    /\ read = [s \in Socket |-> 0]
    /\ delivered = [s \in Socket |-> 0]
    /\ ended = {}
    /\ offered = [c \in Conn |-> {}]

Goto(c, place) == pc' = [pc EXCEPT ![c] = place]

-----------------------------------------------------------------------------
(* The harness thread.                                                     *)

\* What the harness may pass to switch(): a slot, or a name that is none.
SwitchArg == Slot \cup {NoSlot}

\* switch(): an unknown slot raises ValueError and changes nothing.
Switch(s) ==
    /\ s \in Slot
    /\ active' = s
    /\ offered' = [c \in Conn |-> IF pc[c] \in Waiting
                                  THEN offered[c] \cup {s} ELSE offered[c]]
    /\ UNCHANGED <<stopping, connections, loop, closer, doomed, shut, pc,
                   target, upstream, dataVars, netVars>>

\* close(): stopping.set(), then shutdown() asks the accept loop to stop ...
CloseBegin ==
    /\ closer = "idle"
    /\ stopping' = TRUE
    /\ closer' = "stopping"
    /\ UNCHANGED <<active, connections, loop, doomed, shut, pc, target,
                   upstream, dataVars, netVars, offered>>

CloseShutdown ==
    /\ closer = "stopping"
    /\ closer' = "shutdown"
    /\ UNCHANGED <<active, stopping, connections, loop, doomed, shut, pc,
                   target, upstream, dataVars, netVars, offered>>

\* ... and waits for it; then the snapshot of connections, under the lock.
CloseSnapshot ==
    /\ closer = "shutdown"
    /\ loop = "exited"
    /\ doomed' = connections
    /\ closer' = "closing"
    /\ UNCHANGED <<active, stopping, connections, loop, shut, pc, target,
                   upstream, dataVars, netVars, offered>>

\* One iteration of the loop over the snapshot.  A socket its handler has
\* closed already raises OSError, which is dropped: marking it is harmless.
CloseSocket(s) ==
    /\ closer = "closing"
    /\ s \in doomed
    /\ doomed' = doomed \ {s}
    /\ shut' = shut \cup {s}
    /\ UNCHANGED <<active, stopping, connections, loop, closer, pc, target,
                   upstream, dataVars, netVars, offered>>

\* server_close() closes the listening socket: the kernel resets whatever
\* is still in its backlog.  worker.join returns, the loop has exited.
CloseListener ==
    /\ closer = "closing"
    /\ doomed = {}
    /\ closer' = "closed"
    /\ pc' = [c \in Conn |-> IF pc[c] = "backlog" THEN "refused" ELSE pc[c]]
    /\ UNCHANGED <<active, stopping, connections, loop, doomed, shut, target,
                   upstream, dataVars, netVars, offered>>

-----------------------------------------------------------------------------
(* Remote ends: clients and the per-cluster port forwards.                 *)

\* Once the listener is closed a connect is refused: no connection exists.
Connect(c) ==
    /\ pc[c] = "absent"
    /\ closer # "closed"
    /\ Goto(c, "backlog")
    /\ offered' = [offered EXCEPT ![c] = {active}]
    /\ UNCHANGED <<active, connections, loop, closeVars, target, upstream,
                   dataVars, netVars>>

\* A socket exists from the client's connect, or the handler's dial, on.
Exists(s) == IF s[2] = "client" THEN pc[s[1]] \notin {"absent"} \cup Over
                                ELSE upstream[s[1]] # NoSlot

RemoteSend(s) ==
    /\ Exists(s)
    /\ s \notin ended
    /\ sent[s] < MaxChunks
    /\ sent' = [sent EXCEPT ![s] = @ + 1]
    /\ UNCHANGED <<active, connections, loop, closeVars, pc, target, upstream,
                   dataVars, ended, offered>>

RemoteEnd(s) ==
    /\ Exists(s)
    /\ s \notin ended
    /\ ended' = ended \cup {s}
    /\ UNCHANGED <<active, connections, loop, closeVars, pc, target, upstream,
                   dataVars, sent, offered>>

-----------------------------------------------------------------------------
(* The accept loop.  serve_forever looks at the shutdown request after     *)
(* each select and before it accepts.                                      *)

LoopSelect ==
    /\ loop = "select"
    /\ \/ /\ closer \in {"idle", "stopping"}
          /\ \E c \in Conn : pc[c] = "backlog"
          /\ loop' = "accepting"
       \/ /\ closer = "shutdown"
          /\ loop' = "exited"
    /\ UNCHANGED <<active, connections, closeVars, pc, target, upstream,
                   dataVars, netVars, offered>>

LoopAccept(c) ==
    /\ loop = "accepting"
    /\ pc[c] = "backlog"
    /\ loop' = "select"
    /\ Goto(c, "routing")
    /\ UNCHANGED <<active, connections, closeVars, target, upstream,
                   dataVars, netVars, offered>>

-----------------------------------------------------------------------------
(* The handler thread of connection c.                                     *)

\* with relay.lock: port = relay.backends[relay.active]
Route(c) ==
    /\ pc[c] = "routing"
    /\ target' = [target EXCEPT ![c] = active]
    /\ Goto(c, "dialing")
    /\ UNCHANGED <<active, connections, loop, closeVars, upstream, dataVars,
                   netVars, offered>>

DialRetry(c) ==                \* mutant of Dial: a failed dial starts over
    /\ pc[c] = "dialing"
    /\ \/ /\ upstream' = [upstream EXCEPT ![c] = target[c]]
          /\ Goto(c, "dialed")
       \/ /\ Goto(c, "routing")
          /\ UNCHANGED upstream
    /\ UNCHANGED <<active, connections, loop, closeVars, target, dataVars,
                   netVars, offered>>

\* create_connection either succeeds or raises OSError within its timeout.
Dial(c) ==
    /\ pc[c] = "dialing"
    /\ \/ /\ upstream' = [upstream EXCEPT ![c] = target[c]]
          /\ Goto(c, "dialed")
       \/ /\ Goto(c, "leaving")
          /\ UNCHANGED upstream
    /\ UNCHANGED <<active, connections, loop, closeVars, target, dataVars,
                   netVars, offered>>

RegisterClient(c) ==           \* mutant of Register: only the request is added
    /\ pc[c] = "dialed"
    /\ connections' = connections \cup {<<c, "client">>}
    /\ Goto(c, "looping")
    /\ UNCHANGED <<active, loop, closeVars, target, upstream, dataVars,
                   netVars, offered>>

\* with relay.lock: relay.connections.update((self.request, upstream))
Register(c) ==
    /\ pc[c] = "dialed"
    /\ connections' = connections \cup Sockets(c)
    /\ Goto(c, "looping")
    /\ UNCHANGED <<active, loop, closeVars, target, upstream, dataVars,
                   netVars, offered>>

Readable(s) == read[s] < sent[s] \/ s \in ended \cup shut

LoopForever(c) ==              \* mutant of WhileNotStopping: "while True"
    /\ pc[c] = "looping"
    /\ Goto(c, "polling")
    /\ UNCHANGED <<active, connections, loop, closeVars, target, upstream,
                   dataVars, netVars, offered>>

\* while not relay.stopping.is_set(): close() may begin right after the check.
WhileNotStopping(c) ==
    /\ pc[c] = "looping"
    /\ Goto(c, IF stopping THEN "leaving" ELSE "polling")
    /\ UNCHANGED <<active, connections, loop, closeVars, target, upstream,
                   dataVars, netVars, offered>>

\* select(timeout=0.25): the keys that are readable, none after the timeout.
Poll(c) ==
    LET keys == {d \in Side : Readable(<<c, d>>)}
    IN  /\ pc[c] = "polling"
        /\ ready' = [ready EXCEPT ![c] = keys]
        /\ Goto(c, IF keys = {} THEN "looping" ELSE "serving")
        /\ UNCHANGED <<active, connections, loop, closeVars, target, upstream,
                       read, delivered, hand, netVars, offered>>

\* recv of one ready key: content, or an empty result / OSError that ends
\* the connection.  Data queued before a shutdown can still be read.
Recv(c, d) ==
    /\ pc[c] = "serving"
    /\ d \in ready[c]
    /\ ready' = [ready EXCEPT ![c] = @ \ {d}]
    /\ \/ /\ read[<<c, d>>] < sent[<<c, d>>]
          /\ read' = [read EXCEPT ![<<c, d>>] = @ + 1]
          /\ hand' = [hand EXCEPT ![c] = d]
          /\ Goto(c, "sending")
       \/ /\ <<c, d>> \in ended \cup shut
          /\ Goto(c, "leaving")
          /\ UNCHANGED <<read, hand>>
    /\ UNCHANGED <<active, connections, loop, closeVars, target, upstream,
                   delivered, netVars, offered>>

SendIgnoringErrors(c) ==       \* mutant of Send: an OSError keeps the connection
    /\ pc[c] = "sending"
    /\ \/ delivered' = [delivered EXCEPT ![<<c, Other(hand[c])>>] = @ + 1]
       \/ UNCHANGED delivered
    /\ Goto(c, IF ready[c] = {} THEN "looping" ELSE "serving")
    /\ UNCHANGED <<active, connections, loop, closeVars, target, upstream,
                   read, hand, ready, netVars, offered>>

\* key.data.sendall(content): a closed peer or the 5s timeout is an OSError.
Send(c) ==
    LET peer == <<c, Other(hand[c])>>
    IN  /\ pc[c] = "sending"
        /\ \/ /\ peer \notin shut
              /\ delivered' = [delivered EXCEPT ![peer] = @ + 1]
              /\ Goto(c, IF ready[c] = {} THEN "looping" ELSE "serving")
           \/ /\ Goto(c, "leaving")
              /\ UNCHANGED delivered
        /\ UNCHANGED <<active, connections, loop, closeVars, target, upstream,
                       read, hand, ready, netVars, offered>>

DiscardClient(c) ==            \* mutant of Discard: the upstream socket is kept
    /\ pc[c] = "leaving"
    /\ connections' = connections \ {<<c, "client">>}
    /\ Goto(c, "discarded")
    /\ UNCHANGED <<active, loop, closeVars, target, upstream, dataVars,
                   netVars, offered>>

\* finally, with relay.lock: discard both sockets ...
Discard(c) ==
    /\ pc[c] = "leaving"
    /\ connections' = connections \ Sockets(c)
    /\ Goto(c, "discarded")
    /\ UNCHANGED <<active, loop, closeVars, target, upstream, dataVars,
                   netVars, offered>>

\* ... then upstream.close(); socketserver closes the request after handle().
CloseUpstream(c) ==
    /\ pc[c] = "discarded"
    /\ upstream' = [upstream EXCEPT ![c] = NoSlot]
    /\ Goto(c, "done")
    /\ UNCHANGED <<active, connections, loop, closeVars, target, dataVars,
                   netVars, offered>>

Handler(c) ==
    \/ Route(c) \/ Dial(c) \/ Register(c) \/ WhileNotStopping(c) \/ Poll(c)
    \/ (\E d \in Side : Recv(c, d))
    \/ Send(c) \/ Discard(c) \/ CloseUpstream(c)

AcceptLoop == LoopSelect \/ \E c \in Conn : LoopAccept(c)

Closing ==
    \/ CloseShutdown \/ CloseSnapshot \/ CloseListener
    \/ \E s \in Socket : CloseSocket(s)

Remote ==
    \/ \E c \in Conn : Connect(c)
    \/ \E s \in Socket : RemoteSend(s) \/ RemoteEnd(s)

Next ==
    \/ \E s \in SwitchArg : Switch(s)
    \/ CloseBegin
    \/ Closing
    \/ Remote
    \/ AcceptLoop
    \/ \E c \in Conn : Handler(c)

Spec == Init /\ [][Next]_vars

\* Every thread is scheduled, and every blocking call of the handler has a
\* timeout.  close() runs to its end once called.  Nobody owes a connection,
\* a byte, a switch or a call of close().
Fairness ==
    /\ WF_vars(AcceptLoop)
    /\ WF_vars(Closing)
    /\ \A c \in Conn : WF_vars(Handler(c))

FairSpec == Spec /\ Fairness

-----------------------------------------------------------------------------
(* Properties.                                                             *)

\* A handler reads the port of a slot that was active since its client
\* connected (lines 20-21, 73-74): a connection opened after switch(s)
\* returned, with no later switch, never reaches the previous cluster.
RouteFresh == \A c \in Conn : target[c] # NoSlot => target[c] \in offered[c]

KeepsSlot(c) ==
    /\ target[c] # NoSlot => target'[c] = target[c]
    /\ upstream'[c] # upstream[c] =>
           \/ upstream'[c] = NoSlot
           \/ /\ upstream[c] = NoSlot
              /\ upstream'[c] = target[c]
              /\ delivered[<<c, "client">>] = 0

SlotsKept == \A c \in Conn : KeepsSlot(c)

\* "A closed client/upstream ends this connection, never changes target"
\* (line 39): the upstream socket is dialled once, to the slot the handler
\* read, and survives any switch; it is never replaced by another.
Sticky == [][SlotsKept]_vars

\* While a connection is alive and no content is in flight, everything recv
\* returned was passed on to the other side, and only that (lines 33-37).
NothingLost ==
    \A c \in Conn, d \in Side :
        pc[c] \in {"looping", "polling", "serving"} =>
            delivered[<<c, Other(d)>>] = read[<<c, d>>]

\* A finished handler leaves no socket in relay.connections and no open
\* upstream socket (lines 41-47), however it ended.
NoSocketLeak ==
    \A c \in Conn : pc[c] \in Over =>
        /\ connections \cap Sockets(c) = {}
        /\ upstream[c] = NoSlot

\* After close() has returned, no handler writes to a client or a backend
\* any more (lines 76-87), although close() joins no handler thread: those
\* registered before the snapshot have both sockets shut, the others find
\* `stopping` set before their first select.
QuietAfterClose == [][closer = "closed" => delivered' = delivered]_vars

\* The part of that argument about late registration: a handler whose
\* sockets are not shut once close() has returned is past its last select.
LateHandlersLeave ==
    closer = "closed" =>
        \A c \in Conn : pc[c] \in {"polling", "serving", "sending"} => Sockets(c) \subseteq shut

\* close() returns once called, and then every handler thread ends, even
\* one whose client and backend both stay silent.
CloseEnds == (closer = "stopping") ~>
                 (closer = "closed" /\ \A c \in Conn : pc[c] \in Over \cup {"absent"})

-----------------------------------------------------------------------------
(* The relay implements the sticky router.                                 *)

PhaseOf(place) ==
    CASE place = "absent" -> "absent"
      [] place \in Waiting -> "waiting"
      [] place \in Over -> "ended"
      [] OTHER -> "bound"

Router == INSTANCE StickyRouter WITH
              phase <- [c \in Conn |-> PhaseOf(pc[c])],
              route <- target

\* The relay refines StickyRouter: binding happens at the locked read.
ImplementsRouter == Router!Spec

=============================================================================
