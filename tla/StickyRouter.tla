---------------------------- MODULE StickyRouter ----------------------------
(***************************************************************************)
(* What the loopback traffic adapter of scripts/acceptance_cutover.py      *)
(* promises its clients, with no threads, sockets or locks in it.          *)
(*                                                                         *)
(* A connection waits, is bound once to a slot that was active at some     *)
(* moment since it arrived, keeps that slot until it ends, and never comes *)
(* back.  A switch never touches a bound connection.  Relay implements     *)
(* this module.                                                            *)
(***************************************************************************)
CONSTANTS Slot,         \* the backends of the relay: aks01 and aks02
          InitialSlot,  \* the slot that serves before the first switch
          Conn,         \* client connections
          NoSlot        \* "not bound"

VARIABLES active,   \* the slot new connections go to
          phase,    \* phase[c]: absent, waiting, bound, ended
          route,    \* route[c]: the slot c was bound to
          offered   \* offered[c]: every slot active since c arrived

vars == <<active, phase, route, offered>>

Phase == {"absent", "waiting", "bound", "ended"}

TypeOK ==
    /\ active \in Slot
    /\ phase \in [Conn -> Phase]
    /\ route \in [Conn -> Slot \cup {NoSlot}]
    /\ offered \in [Conn -> SUBSET Slot]

Init ==
    /\ active = InitialSlot
    /\ phase = [c \in Conn |-> "absent"]
    /\ route = [c \in Conn |-> NoSlot]
    /\ offered = [c \in Conn |-> {}]

Arrive(c) ==
    /\ phase[c] = "absent"
    /\ phase' = [phase EXCEPT ![c] = "waiting"]
    /\ offered' = [offered EXCEPT ![c] = {active}]
    /\ UNCHANGED <<active, route>>

Switch(s) ==
    /\ active' = s
    /\ offered' = [c \in Conn |-> IF phase[c] = "waiting"
                                  THEN offered[c] \cup {s} ELSE offered[c]]
    /\ UNCHANGED <<phase, route>>

Bind(c) ==
    /\ phase[c] = "waiting"
    /\ phase' = [phase EXCEPT ![c] = "bound"]
    /\ \E s \in offered[c] : route' = [route EXCEPT ![c] = s]
    /\ UNCHANGED <<active, offered>>

\* Connections may end before they are bound (refused) or after, several
\* at once when the listener closes.
End(C) ==
    /\ \A c \in C : phase[c] \in {"waiting", "bound"}
    /\ phase' = [c \in Conn |-> IF c \in C THEN "ended" ELSE phase[c]]
    /\ UNCHANGED <<active, route, offered>>

Next ==
    \/ \E s \in Slot : Switch(s)
    \/ \E c \in Conn : Arrive(c) \/ Bind(c)
    \/ \E C \in SUBSET Conn : End(C)

Spec == Init /\ [][Next]_vars

=============================================================================
