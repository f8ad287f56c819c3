--------------------------- MODULE MCWireDatagram ---------------------------
(***************************************************************************)
(* User data of both parities, down to none; option bodies of even and odd *)
(* length, with one whose computed OCS is zero; every combination of the   *)
(* faults; a damaged byte gets a single bit flipped, or all set or reset.  *)
(***************************************************************************)
EXTENDS WireDatagram

MCSrc == <<192, 0, 2, 1>>
MCDst == <<198, 51, 100, 2>>

\* With <<255, 251>> a UDP length damaged from 10 to 8 is not noticed.
MCUserData == {<<>>, <<7>>, <<255, 251>>, <<255, 255>>, <<0, 1, 128>>}

\* The last one: 4 + 65531 = 0xffff, with its own length.
MCBodies ==
    {<<>>, <<0, 0, 0, 0>>, <<0, 0, 4, 4, 5, 120, 0, 0>>, <<0, 0, 1>>, <<0, 0, 255, 251>>}

MCFaults ==
    [ocs : {None, <<0, 0>>, <<255, 255>>, <<18, 52>>}, pad : {None, 0, 1},
     zero_udp_checksum : BOOLEAN]

\* The lowest, the second lowest or the highest bit flipped, or all set or reset
MCDamage(byte) ==
    {0, 255, IF byte % 2 = 0 THEN byte + 1 ELSE byte - 1,
     IF byte % 4 < 2 THEN byte + 2 ELSE byte - 2, (byte + 128) % 256}

=============================================================================
