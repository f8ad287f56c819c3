----------------------------- MODULE FragSplit ------------------------------
(***************************************************************************)
(* Splitting one datagram into FRAG fragments (src/frag/split.rs).         *)
(*                                                                         *)
(* split_datagram() checks its request, lets the loop of chunk_ranges()    *)
(* cut the tail (payload, alignment pad, options body) into ranges, and    *)
(* turns the ranges into fragments.  Each turn of the loop is a step.      *)
(* Bytes do not matter here: a fragment's data is a slice of the tail.     *)
(***************************************************************************)
EXTENDS Integers, Sequences

CONSTANTS
    Requests,   \* the calls split_datagram() may get
    None

U16Max == 65535
UdpHeader == 8
OcsLen == 2
Ipv4Header == 20
FragmentSurplusLenMax == U16Max - Ipv4Header - UdpHeader
NonTerminalBodyLen == OcsLen + 10
TerminalBodyLen == OcsLen + 12

RequestType ==
    [payload_len : Nat, body_len : Nat, max_surplus : Nat, peer_size : 0 .. U16Max,
     peer_segments : 0 .. 255, id : Nat]

SplitErrors ==
    {"OptionsBodyTooShort", "FragmentSurplusTooLarge", "RdosTooLarge",
     "ReassembledDatagramTooLarge", "FragmentCapacityTooSmall", "SegmentLimitExceeded",
     "FragmentOffsetTooLarge"}

ASSUME RequestsAssumption == Requests # {} /\ Requests \subseteq RequestType
ASSUME NoneAssumption == None \notin Nat \cup SplitErrors

VARIABLES
    req,         \* the arguments of the current or last call
    pc,          \* "idle", or "chunking" inside the loop of chunk_ranges
    ranges,      \* chunk_ranges: the ranges pushed so far
    start,       \* chunk_ranges: where the next range starts
    remaining,   \* chunk_ranges: bytes not yet in a range
    result       \* what the last call returned

vars == <<req, pc, ranges, start, remaining, result>>

-----------------------------------------------------------------------------
\* Slip: the pad is put where the RDOS is even.
PadLenInverted(r) == IF r.body_len # 0 /\ (UdpHeader + r.payload_len) % 2 = 0 THEN 1 ELSE 0

\* rdos_needs_options_pad, reassembled_tail
PadLen(r) == IF r.body_len # 0 /\ (UdpHeader + r.payload_len) % 2 = 1 THEN 1 ELSE 0

TailLen(r) == r.payload_len + PadLen(r) + r.body_len

\* checked_rdos
Rdos(r) == UdpHeader + r.payload_len

\* Slip: the RDOS field of the terminal form is not counted.
TerminalCapacityShortForm(r) == r.max_surplus - NonTerminalBodyLen

TerminalCapacity(r) == r.max_surplus - TerminalBodyLen
NonTerminalCapacity(r) ==
    IF r.max_surplus >= NonTerminalBodyLen THEN r.max_surplus - NonTerminalBodyLen ELSE 0

\* The checks made before the loop: the error of the first that fails, or None.
Rejection(r) ==
    IF r.body_len # 0 /\ r.body_len < OcsLen THEN "OptionsBodyTooShort"
    ELSE IF r.max_surplus > FragmentSurplusLenMax THEN "FragmentSurplusTooLarge"
    ELSE IF Rdos(r) > U16Max THEN "RdosTooLarge"
    ELSE IF UdpHeader + TailLen(r) > r.peer_size THEN "ReassembledDatagramTooLarge"
    ELSE IF r.max_surplus < TerminalBodyLen THEN "FragmentCapacityTooSmall"
    ELSE IF TailLen(r) > TerminalCapacity(r) /\ NonTerminalCapacity(r) = 0
         THEN "FragmentCapacityTooSmall"
    ELSE None

Failure(error) == [kind |-> "Err", error |-> error]

SplitDatagram(r) ==
    /\ pc = "idle"
    /\ req' = r
    /\ ranges' = <<>>
    /\ start' = 0
    /\ remaining' = TailLen(r)
    /\ IF Rejection(r) # None
       THEN pc' = "idle" /\ result' = Failure(Rejection(r))
       ELSE pc' = "chunking" /\ result' = [kind |-> "None"]

\* Slip: one byte less than fits.
TakeShort ==
    IF NonTerminalCapacity(req) <= remaining - TerminalCapacity(req)
    THEN NonTerminalCapacity(req) - 1 ELSE remaining - TerminalCapacity(req)

Take ==
    IF NonTerminalCapacity(req) <= remaining - TerminalCapacity(req)
    THEN NonTerminalCapacity(req) ELSE remaining - TerminalCapacity(req)

\* Slip: the start advances by a full range although a shorter one was taken.
ChunkStepFullStride ==
    /\ pc = "chunking"
    /\ remaining > TerminalCapacity(req)
    /\ ranges' = Append(ranges, [start |-> start, end |-> start + Take, terminal |-> FALSE])
    /\ start' = start + NonTerminalCapacity(req)
    /\ remaining' = remaining - Take
    /\ UNCHANGED <<req, pc, result>>

\* Slip: ranges are cut in units of four bytes, as IP fragments are in units of eight.
ChunkStepUnits ==
    LET take == (Take \div 4) * 4 IN
    /\ pc = "chunking"
    /\ remaining > TerminalCapacity(req)
    /\ ranges' = IF take = 0 THEN ranges
                 ELSE Append(ranges, [start |-> start, end |-> start + take, terminal |-> FALSE])
    /\ start' = start + take
    /\ remaining' = remaining - take
    /\ UNCHANGED <<req, pc, result>>

\* One turn of the loop.
ChunkStep ==
    /\ pc = "chunking"
    /\ remaining > TerminalCapacity(req)
    /\ ranges' = Append(ranges, [start |-> start, end |-> start + Take, terminal |-> FALSE])
    /\ start' = start + Take
    /\ remaining' = remaining - Take
    /\ UNCHANGED <<req, pc, result>>

\* Only a lone fragment has the atomic form, at offset zero.
Offset(rs, i) == IF Len(rs) = 1 THEN 0 ELSE UdpHeader + rs[i].start

\* The fragment made of one range: slice of the tail, header fields and surplus length.
Fragment(rs, i) ==
    [offset      |-> Offset(rs, i),
     rdos        |-> IF rs[i].terminal THEN Rdos(req) ELSE None,
     from        |-> rs[i].start,
     to          |-> rs[i].end,
     id          |-> req.id,
     surplus_len |-> (IF rs[i].terminal THEN TerminalBodyLen ELSE NonTerminalBodyLen)
                        + rs[i].end - rs[i].start]

\* What split_datagram returns for the ranges rs.
ResultOf(rs) ==
    IF Len(rs) > req.peer_segments THEN Failure("SegmentLimitExceeded")
    ELSE IF \E i \in DOMAIN rs : Offset(rs, i) > U16Max THEN Failure("FragmentOffsetTooLarge")
    ELSE [kind |-> "Ok", fragments |-> [i \in DOMAIN rs |-> Fragment(rs, i)]]

\* The terminal range, the segment limit and the fragments; the early return for a tail that
\* fits the terminal fragment is the case of a loop that made no turn.
ChunkDone ==
    /\ pc = "chunking"
    /\ remaining <= TerminalCapacity(req)
    /\ ranges' = Append(ranges, [start |-> start, end |-> TailLen(req), terminal |-> TRUE])
    /\ result' = ResultOf(ranges')
    /\ pc' = "idle"
    /\ UNCHANGED <<req, start, remaining>>

Init ==
    /\ req = CHOOSE r \in Requests : TRUE
    /\ pc = "idle"
    /\ ranges = <<>>
    /\ start = 0
    /\ remaining = 0
    /\ result = [kind |-> "None"]

Next ==
    \/ \E r \in Requests : SplitDatagram(r)
    \/ ChunkStep
    \/ ChunkDone

Spec == Init /\ [][Next]_vars

\* The loop runs in one thread to its end.
FairSpec == Spec /\ WF_vars(ChunkStep \/ ChunkDone)

-----------------------------------------------------------------------------
\* Properties

RangeType == [start : Nat, end : Nat, terminal : BOOLEAN]

FragmentType ==
    [offset : Nat, rdos : Nat \cup {None}, from : Nat, to : Nat, id : Nat, surplus_len : Nat]

\* The loop's variables are naturals (usize): no subtraction of chunk_ranges goes below zero.
TypeOK ==
    /\ req \in RequestType
    /\ pc \in {"idle", "chunking"}
    /\ ranges \in Seq(RangeType)
    /\ start \in Nat
    /\ remaining \in Nat
    /\ result.kind = "Ok" => result.fragments \in Seq(FragmentType)

\* The fragments continue each other from zero to the end of the tail, only the last of them
\* carries the RDOS, and none but it may be empty.
TilesTail(fs, r) ==
    /\ Len(fs) > 0
    /\ fs[1].from = 0 /\ fs[Len(fs)].to = TailLen(r)
    /\ \A i \in 1 .. (Len(fs) - 1) :
          fs[i].to = fs[i + 1].from /\ fs[i].from < fs[i].to /\ fs[i].rdos = None
    /\ fs[Len(fs)].from <= fs[Len(fs)].to /\ fs[Len(fs)].rdos = Rdos(r)

\* A split loses, repeats and reorders no byte of the tail, whatever the sizes: the loop of
\* chunk_ranges leaves exactly what the terminal fragment takes.
SplitTiles == result.kind = "Ok" => TilesTail(result.fragments, req)

\* Every fragment fits the surplus budget, the IPv4 Total Length and the size the peer can
\* reassemble; so the error for an offset beyond 16 bits is never returned.
FragmentsFit ==
    /\ result.kind = "Ok" =>
          \A i \in DOMAIN result.fragments :
              LET f == result.fragments[i] IN
              /\ f.surplus_len <= req.max_surplus
              /\ Ipv4Header + UdpHeader + f.surplus_len <= U16Max
              /\ UdpHeader + f.to <= req.peer_size
    /\ result # Failure("FragmentOffsetTooLarge")

\* What n fragments can carry at most.
Carries(r, n) == TerminalCapacity(r) + (n - 1) * NonTerminalCapacity(r)

\* No split of the same tail has fewer fragments, and the segment limit is reported only when no
\* number of fragments the peer accepts could carry the tail.
FewestFragments ==
    /\ result.kind = "Ok" =>
          Len(result.fragments) = 1 \/ Carries(req, Len(result.fragments) - 1) < TailLen(req)
    /\ result = Failure("SegmentLimitExceeded") =>
             req.peer_segments = 0 \/ Carries(req, req.peer_segments) < TailLen(req)

\* The reassembled user data ends at the RDOS and the options body begins at the next even
\* offset, where the receiver looks for the OCS (locate_surplus on the reassembled datagram).
OptionsAligned ==
    result.kind = "Ok" /\ req.body_len > 0 =>
        LET last == result.fragments[Len(result.fragments)]
            ocs_at == UdpHeader + last.to - req.body_len
        IN  ocs_at % 2 = 0 /\ ocs_at - last.rdos \in {0, 1}

\* The loop ends for every request: each turn takes at least one byte.
SplitReturns == pc = "chunking" ~> pc = "idle"

=============================================================================
