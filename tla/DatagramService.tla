--------------------------- MODULE DatagramService ---------------------------
(***************************************************************************)
(* What UDP-level fragmentation promises its user: a datagram is delivered *)
(* only if it was offered, and then as it was offered, whole and unmixed.  *)
(* It may be lost, delivered late, out of order or more than once, as any  *)
(* UDP datagram.                                                           *)
(***************************************************************************)
CONSTANTS
    Datagrams,   \* the datagrams that may be offered
    None

VARIABLES
    offered,     \* datagrams handed to send()
    delivery     \* the datagram the last step delivered, or None

vars == <<offered, delivery>>

Offer(d) == offered' = offered \cup {d} /\ delivery' = None

Deliver(d) == d \in offered /\ delivery' = d /\ UNCHANGED offered

Quiet == delivery' = None /\ UNCHANGED offered

Init == offered = {} /\ delivery = None

Next ==
    \/ \E d \in Datagrams : Offer(d) \/ Deliver(d)
    \/ Quiet

Spec == Init /\ [][Next]_vars

=============================================================================
