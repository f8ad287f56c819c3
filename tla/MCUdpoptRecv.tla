---------------------------- MODULE MCUdpoptRecv ----------------------------
(***************************************************************************)
(* Without a source port filter two different datagrams match; the others  *)
(* are noise, one of each kind.  One or two datagrams are asked for, with  *)
(* and without timeout.  A tick is half of SO_RCVTIMEO's unit, so that the *)
(* time left can fall below the unit and below MIN_READ_TIMEOUT.           *)
(***************************************************************************)
EXTENDS UdpoptRecv

Match == [headers_ok |-> TRUE, own |-> FALSE, to_us |-> TRUE, from_peer |-> TRUE]

MCFrames ==
    {Match, [Match EXCEPT !.from_peer = FALSE],
     [Match EXCEPT !.headers_ok = FALSE], [Match EXCEPT !.own = TRUE], [Match EXCEPT !.to_us = FALSE]}

=============================================================================
