--------------------------- MODULE MCFragSplit ---------------------------
(***************************************************************************)
(* Requests around every boundary of split_datagram: surplus budgets from  *)
(* below the terminal form up to a few data bytes, tails from empty to     *)
(* several fragments, and the 16-bit limits.                               *)
(***************************************************************************)
EXTENDS FragSplit

Request(payload, body, surplus, size, segments) ==
    [payload_len |-> payload, body_len |-> body, max_surplus |-> surplus, peer_size |-> size,
     peer_segments |-> segments, id |-> 7]

MCRequests ==
    {Request(p, b, s, z, n) :
        p \in 0 .. 9, b \in {0, 1, 3, 4}, s \in {13, 14, 16}, z \in {16, 26}, n \in {0, 1, 2, 4}}
    \cup {Request(65527, 0, s, 65535, 255) : s \in {20000, 65507, 65508}}
    \cup {Request(65528, 0, 65507, 65535, 255), Request(65524, 2, 65507, 65535, 255)}

=============================================================================
