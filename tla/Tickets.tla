------------------------------ MODULE Tickets ------------------------------
(***************************************************************************)
(* What a send counter promises the devices: tickets are handed out one    *)
(* after the other, modulo the size of the field, and each goes on at most *)
(* one message.  A ticket may also go on none.                             *)
(***************************************************************************)
EXTENDS Naturals, Sequences

CONSTANTS
    Devices,  \* the devices whose messages carry a counter
    Largest   \* the largest value of the two-byte field

VARIABLES
    last,   \* last[d]: the ticket handed out last
    held,   \* held[d]: tickets handed out and not used yet
    wire    \* wire[d]: the tickets of the messages sent, in order

ticketVars == <<last, held, wire>>

Field == 0 .. Largest
Successor(n) == IF n = Largest THEN 0 ELSE n + 1

TicketInit ==
    /\ last \in [Devices -> Field]
    /\ held = [d \in Devices |-> {}]
    /\ wire = [d \in Devices |-> <<>>]

HandOut(d) ==
    /\ last' = [last EXCEPT ![d] = Successor(@)]
    /\ held' = [held EXCEPT ![d] = @ \cup {last'[d]}]
    /\ UNCHANGED wire

Use(d) ==
    \E n \in held[d] : /\ wire' = [wire EXCEPT ![d] = Append(@, n)]
                       /\ held' = [held EXCEPT ![d] = @ \ {n}]
                       /\ UNCHANGED last

Discard(d) ==
    \E n \in held[d] : held' = [held EXCEPT ![d] = @ \ {n}] /\ UNCHANGED <<last, wire>>

TicketNext == \E d \in Devices : HandOut(d) \/ Use(d) \/ Discard(d)

TicketSpec == TicketInit /\ [][TicketNext]_ticketVars
=============================================================================
