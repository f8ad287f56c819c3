---------------------------- MODULE FragTransfer ----------------------------
(***************************************************************************)
(* Fragmentation end to end: a sending Peer (PeerSend), a network that     *)
(* loses, repeats, delays and reorders packets, and the reassembly cache   *)
(* of the receiver (Reassembly).                                           *)
(*                                                                         *)
(* The network needs no variable: every packet written may arrive at any   *)
(* time, any number of times, or never.  The bytes of a datagram are known *)
(* by its number: the data of a fragment is a slice of datagram n.         *)
(***************************************************************************)
EXTENDS PeerSend, FiniteSets

CONSTANTS
    MaxReassembledSize, MaxSegments, MaxPendingPartials,
    Timeout, TimeoutMax,    \* the receiver, see Reassembly
    TailMax                 \* bound on the tails that are sent in fragments

ASSUME SendsAssumption == MaxSends \in Nat
ASSUME ReceiverAssumption ==
    /\ MaxReassembledSize \in Nat
    /\ MaxSegments \in Nat
    /\ MaxPendingPartials \in Nat
    /\ Timeout \in Nat
    /\ TimeoutMax \in Nat
ASSUME TailMaxAssumption ==
    TailMax \in Nat /\ \A c \in Configs : c.peer_size <= UdpHeader + TailMax
ASSUME NoneNoError == None \notin S!SplitErrors \cup {"InvalidConfig", "DatagramTooLarge"}

VARIABLES
    partials, outcome, taken,    \* the receiver, see Reassembly
    offered      \* history: the datagrams handed to send()

cache_vars == <<partials, outcome, taken>>
transfer_vars == <<vars, cache_vars, offered>>

\* Slices of the tails; an empty slice is the same bytes for every datagram.
Slice(n, from, to) == IF from = to THEN <<>> ELSE <<n, from, to>>
Slices == {<<>>} \cup {s \in (1 .. MaxSends) \X (0 .. TailMax) \X (0 .. TailMax) : s[2] < s[3]}
SliceLen == [s \in Slices |-> IF s = <<>> THEN 0 ELSE s[3] - s[2]]

PlainOptions == [mds |-> None, mrds_size |-> None, mrds_segments |-> None,
                 req |-> None, res |-> None]

R == INSTANCE Reassembly
     WITH Keys <- 0 .. IdMax, Data <- Slices, DataLen <- SliceLen,
          OptionLists <- {PlainOptions}, Tokens <- {}, Kinds <- {}, Fragments <- {}

\* What the receiver's pipeline makes of a fragment packet: its FRAG fields and fragment data.
Received(p) ==
    [offset |-> p.fragment.offset, rdos |-> p.fragment.rdos,
     data |-> Slice(p.n, p.fragment.from, p.fragment.to),
     options |-> PlainOptions, failures |-> {}, ocs |-> "valid"]

\* The datagram call number n offers.
Datagram(n, j) ==
    [n |-> n, tail_len |-> S!TailLen(j), udp_length |-> S!Rdos(j)]

Offer(j) ==
    /\ Call(j)
    /\ offered' = offered \cup {Datagram(job.n + 1, j)}
    /\ outcome' = [kind |-> "Called"]
    /\ UNCHANGED <<partials, taken>>

SenderStep ==
    /\ Step \/ SocketError
    /\ UNCHANGED <<cache_vars, offered>>

\* The new seed is any: random, or the caller's.
Restart(seed) ==
    /\ Rebind(seed)
    /\ UNCHANGED <<cache_vars, offered>>

Arrive(p) ==
    /\ p.fragment # None
    /\ R!Insert(p.fragment.id, Received(p))
    /\ UNCHANGED <<vars, offered>>

ReceiverStep ==
    /\ R!Gc \/ R!Tick
    /\ UNCHANGED <<vars, offered>>

TransferInit == Init /\ R!Init /\ offered = {}

TransferNext ==
    \/ \E j \in Jobs : Offer(j)
    \/ SenderStep
    \/ \E seed \in Seeds : Restart(seed)
    \/ \E p \in wire : Arrive(p)
    \/ ReceiverStep

\* Assumed, for nothing in the code sees to it: a restarted sender takes no Identification that it
\* took in an earlier life.  Random 31-bit seeds make a repetition unlikely; seeds chosen by the
\* caller are the caller's responsibility.
LivesApart == \A a, b \in issued : a.id = b.id => a.life = b.life

TransferSpec == TransferInit /\ [][TransferNext /\ LivesApart']_transfer_vars

\* Every fragment written arrives, before the timeout: the clock stands still.
Timely ==
    \/ \E j \in Jobs : Offer(j)
    \/ SenderStep
    \/ \E p \in wire : Arrive(p)
    \/ R!Gc /\ UNCHANGED <<vars, offered>>

\* The fragments the cache holds for an Identification.
Collected(id) == {R!TakenFor(id)[i] : i \in DOMAIN R!TakenFor(id)}

\* A fragment the cache still lacks arrives; weaker than fairness to every single packet.
MissingArrives(n) ==
    \E p \in wire :
        /\ p.n = n
        /\ p.fragment # None
        /\ \A t \in Collected(p.fragment.id) : t.frag # Received(p)
        /\ Arrive(p)

TimelySpec ==
    /\ TransferInit /\ [][Timely]_transfer_vars
    /\ WF_transfer_vars(Step /\ SenderStep)
    /\ \A n \in 1 .. MaxSends : WF_transfer_vars(MissingArrives(n))

-----------------------------------------------------------------------------
\* Properties

\* A completed tail holds the bytes of datagram n, each at its own place, and no gap.
HoldsTailOf(n, o) ==
    /\ \A c \in o.tail : c.data = Slice(n, c.start, c.end)
    /\ \A x \in 0 .. (o.tail_len - 1) : \E c \in o.tail : c.start <= x /\ x < c.end

\* The datagram the last step reassembled; its number is 0 if it is a mixture.
Reassembled ==
    IF outcome.kind # "Complete" THEN None
    ELSE LET of == {n \in 1 .. MaxSends : HoldsTailOf(n, outcome)} IN
         [n |-> IF of = {} THEN 0 ELSE CHOOSE n \in of : TRUE,
          tail_len |-> outcome.tail_len, udp_length |-> outcome.udp_length]

Service == INSTANCE DatagramService
           WITH Datagrams <- {Datagram(n, j) : n \in 1 .. MaxSends, j \in Jobs},
                delivery <- Reassembled

\* Fragmentation end to end implements DatagramService: whatever the network does and wherever
\* the sender fails, what is reassembled is one datagram that was sent, whole and unmixed, as long
\* as the lives of the sender share no Identification.
DeliversOnlySent == Service!Spec

\* Fragments of a sender that respects the receiver's limits are never refused but for want of
\* room: split_datagram and the checks of the cache agree, in every order of arrival and with any
\* duplicates, so no genuine fragment ever destroys what was collected.
GenuineNeverAborts ==
    [][\A p \in wire :
          outcome'.kind \notin {"Incomplete", "Complete"} /\ Arrive(p) =>
              outcome'.kind = "LimitExceeded" /\ ~R!HasRoom(p.fragment.id)]_transfer_vars

\* If send() returned Ok and every fragment it wrote arrives in time, in whatever order and
\* however often, and the cache has room, the datagram is reassembled.
EventuallyReassembled ==
    \A n \in 1 .. MaxSends :
        returned.kind = "Ok" /\ job.n = n ~> Reassembled # None /\ Reassembled.n = n

=============================================================================
