--------------------------- MODULE MCFragTransfer ---------------------------
(***************************************************************************)
(* A sender with few Identifications left, and a receiver with the limits  *)
(* the sender believes in.                                                 *)
(***************************************************************************)
EXTENDS FragTransfer

Config(len, auto, segments) ==
    [max_datagram_len |-> len, auto |-> auto, peer_size |-> 52, peer_segments |-> segments]

Job(payload, body) == [payload_len |-> payload, body_len |-> body, valid |-> TRUE]

\* Datagrams of two and three fragments, one with an options body behind an alignment pad.
TimelyConfigs == {Config(55, TRUE, 3)}
TimelyJobs == {Job(28, 0), Job(25, 6)}

\* A length of 42 leaves no data bytes for the terminal fragment, one of 55 makes two fragments
\* enough for some datagrams; 27 and 65536 are invalid.
MCConfigs ==
    {Config(42, TRUE, 2), Config(55, TRUE, 3), Config(55, FALSE, 3),
     Config(27, TRUE, 3), Config(65535, TRUE, 3), Config(65536, TRUE, 3)}

\* Also datagrams that fit whole, that no fragmentation can carry, and that are invalid.
MCJobs ==
    TimelyJobs \cup {Job(15, 0), Job(46, 4)}
    \cup {[payload_len |-> 1, body_len |-> 4, valid |-> FALSE]}

=============================================================================
