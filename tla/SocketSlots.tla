---------------------------- MODULE SocketSlots ----------------------------
(***************************************************************************)
(* What the adapters promise about the WebSockets they open: an adapter is *)
(* a slot for one connection.  A connection is put into an empty slot,     *)
(* may linger after the slot let go of it, and empties the slot it was     *)
(* made for when it ends - whatever that slot holds by then.               *)
(***************************************************************************)
CONSTANTS Slot, Connection, None

VARIABLES
    held,   \* held[s]: the connection slot s refers to
    owner   \* owner[c]: the slot connection c was made for, None if it is over

slotVars == <<held, owner>>

Init ==
    /\ held = [s \in Slot |-> None]
    /\ owner = [c \in Connection |-> None]

Attach(s, c) ==
    /\ held[s] = None
    /\ owner[c] = None
    /\ held' = [held EXCEPT ![s] = c]
    /\ owner' = [owner EXCEPT ![c] = s]

\* The slot lets go; the connection ends at once (it was never established),
\* or goes on until it reports its end
Release(s) ==
    /\ held[s] # None
    /\ held' = [held EXCEPT ![s] = None]
    /\ owner' \in {owner, [owner EXCEPT ![held[s]] = None]}

End(c) ==
    /\ owner[c] # None
    /\ held' = [held EXCEPT ![owner[c]] = None]
    /\ owner' = [owner EXCEPT ![c] = None]

Next ==
    \/ \E s \in Slot, c \in Connection : Attach(s, c)
    \/ \E s \in Slot : Release(s)
    \/ \E c \in Connection : End(c)

Spec == Init /\ [][Next]_slotVars
=============================================================================
