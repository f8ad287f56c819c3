--------------------------- MODULE MCRecvPipeline ---------------------------
(***************************************************************************)
(* Datagrams of two fragments under one key, an atomic fragment under      *)
(* another, and unfragmented datagrams, with options that are good,        *)
(* repeated, malformed, unsafe or cut off at each place where the pipeline *)
(* tells them apart.                                                       *)
(***************************************************************************)
EXTENDS RecvPipeline

Option(kind, form, value) == [kind |-> kind, form |-> form, value |-> value]

Mds(size) == Option("MDS", "ok", size)
BadMds == Option("MDS", "bad", 0)
Mrds == Option("MRDS", "ok", [size |-> 9, segments |-> 3])
Apc(form) == Option("APC", form, 0)
Unsafe == Option("UNSAFE", "ok", 0)
Overrun == Option("SAFE", "overrun", 0)
Nop == Option("NOP", "ok", 0)
Eol == Option("EOL", "ok", 0)
Safe(form) == Option("SAFE", form, 0)

Frag(key, offset, rdos, data, cut) ==
    Option("FRAG", "ok", [key |-> key, offset |-> offset, rdos |-> rdos, data |-> data, cut |-> cut])

BadFrag == Option("FRAG", "bad", 0)
ShortFrag == Option("FRAG", "short", 0)

Datagram(user, options) ==
    [udp |-> "ok", checksum |-> "good", user |-> user, surplus |-> "ok", ocs |-> "good",
     options |-> options]

\* Bytes: the head of a datagram, and what may follow it.
MCData == {"", "head", "mds", "frag", "unsafe", "bad_ocs", "long"}
MCDataLen == [d \in MCData |-> CASE d = "" -> 0 [] d = "long" -> 12 [] OTHER -> 4]

\* A tail ends in what its last chunk holds; it starts with user data unless the UDP length is 8.
LastChunk(tail) == CHOOSE c \in tail : \A b \in tail : b.start <= c.start

MCInside(tail, udp_length) ==
    LET data == LastChunk(tail).data IN
    [user |-> IF udp_length = 8 THEN Empty ELSE "user",
     surplus |-> IF data = "head" THEN "none" ELSE "ok",
     ocs |-> IF data = "bad_ocs" THEN "bad" ELSE "good",
     options |-> CASE data = "mds" -> <<Mds(2), Apc("ok")>>
                   [] data = "frag" -> <<Frag("k1", 8, None, "head", 1)>>
                   [] data = "unsafe" -> <<Frag("k1", 8, None, "head", 2), Unsafe>>
                   [] OTHER -> <<>>]

HeadFrag(cut) == Frag("k1", 8, None, "head", cut)
TailFrag(data, cut) == Frag("k1", 12, 12, data, cut)

Heads ==
    {<<HeadFrag(1), Overrun>>, <<HeadFrag(2), Mds(1)>>, <<BadMds, HeadFrag(2)>>,
     <<HeadFrag(3), Apc("short"), Mrds>>, <<HeadFrag(2), Overrun>>, <<HeadFrag(2), Safe("short")>>,
     <<HeadFrag(2), Unsafe>>, <<HeadFrag(2), HeadFrag(2)>>, <<HeadFrag(0)>>, <<HeadFrag(2)>>}

Tails ==
    {<<TailFrag("mds", 1)>>, <<TailFrag("bad_ocs", 1)>>, <<TailFrag("mds", 2), Mds(3)>>,
     <<TailFrag("mds", 2), Overrun>>}

Atomics ==
    {<<Frag("k2", 0, 8, data, 1)>> : data \in {"mds", "frag", "unsafe", "long"}}

Plain ==
    {<<>>, <<Apc("ok"), Mds(1), Mds(2), Safe("ok")>>, <<Apc("bad"), Nop, Mds(1), Eol, Overrun>>,
     <<Mds(1), Overrun>>, <<Safe("short")>>, <<HeadFrag(1)>>, <<HeadFrag(1), Unsafe>>,
     <<HeadFrag(1), HeadFrag(1)>>, <<Mds(1), Unsafe>>, <<BadFrag>>, <<ShortFrag>>,
     <<Option("REQ", "ok", "t"), Option("RES", "ok", "t")>>}

Fragment(o) == Datagram(Empty, o)

MCDatagrams ==
    {Fragment(o) : o \in Heads \cup Tails \cup Atomics}
    \cup {Datagram(user, o) : user \in {Empty, "user"}, o \in {<<>>, <<Mds(1), Unsafe>>, <<BadFrag>>}}
    \cup {Datagram("user", o) : o \in Plain}
    \cup {[d EXCEPT !.ocs = "zero", !.checksum = c] :
             c \in {"zero", "good"}, d \in {Fragment(<<HeadFrag(1)>>), Datagram("user", <<Mds(1)>>)}}
    \cup {[Datagram("user", <<Mds(1)>>) EXCEPT !.surplus = s] : s \in {"none", "bad_pad"}}
    \cup {[Fragment(<<HeadFrag(1)>>) EXCEPT !.ocs = "bad"],
          [Fragment(<<HeadFrag(1)>>) EXCEPT !.checksum = "bad"],
          [Datagram("user", <<>>) EXCEPT !.udp = "malformed"]}

Policy(required, drop_all, ocs_required) ==
    [required |-> required, drop_all |-> drop_all, ocs_required |-> ocs_required]

\* The last one: a failing OCS inside is not hidden by an APC that is missing as well.
MCPolicies ==
    {Policy({}, FALSE, FALSE), Policy({"MDS"}, FALSE, FALSE), Policy({"APC"}, FALSE, TRUE),
     Policy({}, TRUE, FALSE), Policy({}, FALSE, TRUE)}

NoList == [mds |-> None, mrds_size |-> None, mrds_segments |-> None, req |-> None, res |-> None]

MCOptionLists ==
    {NoList, [NoList EXCEPT !.mds = 1], [NoList EXCEPT !.mds = 3],
     [NoList EXCEPT !.mrds_size = 9, !.mrds_segments = 3]}

MCDirectFragments ==
    {[offset |-> 8, rdos |-> None, data |-> "head", options |-> NoList, failures |-> {},
      ocs |-> "unobserved"]}

\* What reaches the cache in this instance is of the type that Reassembly assumes.
ASSUME CacheFragmentsTyped == CacheFragments \subseteq R!FragmentType

=============================================================================
