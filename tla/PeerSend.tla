------------------------------ MODULE PeerSend ------------------------------
(***************************************************************************)
(* The sending half of a Peer (src/api/mod.rs, src/frag/split.rs,          *)
(* src/socket/send.rs).                                                    *)
(*                                                                         *)
(* send() validates, builds one IPv4 datagram or takes an Identification   *)
(* and splits, and then writes the datagrams to the raw socket one after   *)
(* the other.  The socket may fail at each of them, and the process may    *)
(* stop anywhere and bind again: nothing is persisted.                     *)
(***************************************************************************)
EXTENDS Integers, Sequences

CONSTANTS
    Configs,      \* SendConfig values a peer may be bound with
    Jobs,         \* arguments of send(): payload length, options body length, validity
    Seeds,        \* first Identification of a newly bound peer
    IdMax,        \* stands for u32::MAX
    MaxSends,     \* bound on the calls of send()
    MaxBinds,     \* bound on the times the peer is bound
    None

Ipv4Header == 20
UdpHeader == 8
Ipv4DatagramLenMax == 65535
U16Max == 65535

ConfigType ==
    [max_datagram_len : Nat, auto : BOOLEAN, peer_size : 0 .. U16Max, peer_segments : 0 .. 255]

JobType == [payload_len : Nat, body_len : Nat, valid : BOOLEAN]

ASSUME ConfigsAssumption == Configs \subseteq ConfigType /\ Configs # {}
ASSUME JobsAssumption == Jobs \subseteq JobType
ASSUME SeedsAssumption == IdMax \in Nat /\ Seeds \subseteq 0 .. IdMax
ASSUME NoneAssumption == None \notin Nat

VARIABLES
    config,     \* Peer::send, fixed by bind()
    next,       \* IdentificationGenerator::next
    call,       \* where send() is: "idle", "splitting" or "sending"
    job,        \* its arguments, with the number of the call
    queue,      \* datagrams built and not yet written
    returned,   \* what the last call returned
    wire,       \* history: every packet written to the socket
    issued,     \* history: every Identification taken
    life,       \* history: which bind() the peer lives from
    req, pc, ranges, start, remaining, result   \* split_datagram, see FragSplit

split_vars == <<req, pc, ranges, start, remaining, result>>
own_vars == <<config, next, call, job, queue, returned, wire, issued, life>>
vars == <<own_vars, split_vars>>

\* build_outgoing_datagrams to split_datagram: fragment_surplus_budget is what the headers leave.
Request(c, j, id) ==
    [payload_len |-> j.payload_len, body_len |-> j.body_len,
     max_surplus |-> c.max_datagram_len - (Ipv4Header + UdpHeader),
     peer_size |-> c.peer_size, peer_segments |-> c.peer_segments, id |-> id]

Splittable == {c \in Configs : c.max_datagram_len >= Ipv4Header + UdpHeader}

S == INSTANCE FragSplit
     WITH Requests <- {Request(c, j, 0) : c \in Splittable, j \in Jobs}

\* datagram_len
DatagramLen(payload_len, body_len) ==
    LET natural_start == Ipv4Header + UdpHeader + payload_len IN
    IF body_len = 0 THEN natural_start ELSE natural_start + (natural_start % 2) + body_len

-----------------------------------------------------------------------------
\* The checks of build_outgoing_datagrams that need no Identification.
Rejection(j) ==
    IF config.max_datagram_len > Ipv4DatagramLenMax THEN "InvalidConfig"
    ELSE IF config.max_datagram_len < Ipv4Header + UdpHeader THEN "InvalidConfig"
    ELSE IF ~j.valid THEN "InvalidConfig"
    ELSE IF DatagramLen(j.payload_len, j.body_len) > config.max_datagram_len /\ ~config.auto
         THEN "DatagramTooLarge"
    ELSE None

FitsWhole(j) == DatagramLen(j.payload_len, j.body_len) <= config.max_datagram_len

Error(error) == [kind |-> "Err", error |-> error]

\* The call number is history: it tells the datagrams on the wire apart.
Numbered(j) == [n |-> job.n + 1, payload_len |-> j.payload_len, body_len |-> j.body_len]

Packet(fragment, len) == [n |-> job.n, fragment |-> fragment, len |-> len]

Called(j) ==
    /\ call = "idle"
    /\ job.n < MaxSends
    /\ job' = Numbered(j)
    /\ UNCHANGED <<config, wire, life>>

SendRejected(j) ==
    /\ Called(j)
    /\ Rejection(j) # None
    /\ returned' = Error(Rejection(j))
    /\ UNCHANGED <<next, call, queue, issued, split_vars>>

SendWhole(j) ==
    /\ Called(j)
    /\ Rejection(j) = None
    /\ FitsWhole(j)
    /\ queue' = <<[n |-> job.n + 1, fragment |-> None,
                   len |-> DatagramLen(j.payload_len, j.body_len)]>>
    /\ call' = "sending"
    /\ returned' = [kind |-> "None"]
    /\ UNCHANGED <<next, issued, split_vars>>

SendExhausted(j) ==
    /\ Called(j)
    /\ Rejection(j) = None
    /\ ~FitsWhole(j)
    /\ next = None
    /\ returned' = Error("IdentificationExhausted")
    /\ UNCHANGED <<next, call, queue, issued, split_vars>>

\* Slip: the generator wraps around.
NextIdWrapping(id) == (id + 1) % (IdMax + 1)

\* IdentificationGenerator::next_id: checked_add, None once u32::MAX has been handed out.
NextId(id) == IF id = IdMax THEN None ELSE id + 1

\* The Identification is taken before split_datagram is called, whatever that returns.
SendFragmented(j) ==
    /\ Called(j)
    /\ Rejection(j) = None
    /\ ~FitsWhole(j)
    /\ next # None
    /\ next' = NextId(next)
    /\ issued' = issued \cup {[life |-> life, id |-> next, n |-> job.n + 1]}
    /\ S!SplitDatagram(Request(config, j, next))
    /\ call' = "splitting"
    /\ returned' = [kind |-> "None"]
    /\ UNCHANGED queue

Splitting ==
    /\ call = "splitting"
    /\ S!ChunkStep \/ S!ChunkDone
    /\ UNCHANGED own_vars

\* Slip: a datagram that cannot be split is written whole before the error is returned.
SplitFailedFallback ==
    /\ call = "splitting"
    /\ pc = "idle"
    /\ result.kind = "Err"
    /\ call' = "idle"
    /\ returned' = result
    /\ wire' = wire \cup {Packet(None, DatagramLen(job.payload_len, job.body_len))}
    /\ UNCHANGED <<config, next, job, queue, issued, life, split_vars>>

SplitFailed ==
    /\ call = "splitting"
    /\ pc = "idle"
    /\ result.kind = "Err"
    /\ call' = "idle"
    /\ returned' = result
    /\ UNCHANGED <<config, next, job, queue, wire, issued, life, split_vars>>

\* assemble_checked for each fragment: the fragment body goes behind an empty payload.
FragmentLen(f) == DatagramLen(0, f.surplus_len)

TooLong == \E i \in DOMAIN result.fragments :
              FragmentLen(result.fragments[i]) > config.max_datagram_len

AssembleFragments ==
    /\ call = "splitting"
    /\ pc = "idle"
    /\ result.kind = "Ok"
    /\ IF TooLong
       THEN call' = "idle" /\ returned' = Error("DatagramTooLarge") /\ queue' = <<>>
       ELSE /\ call' = "sending"
            /\ queue' = [i \in DOMAIN result.fragments |->
                           Packet(result.fragments[i], FragmentLen(result.fragments[i]))]
            /\ UNCHANGED returned
    /\ UNCHANGED <<config, next, job, wire, issued, life, split_vars>>

\* One turn of the loop of Peer::send.
Transmit ==
    /\ call = "sending"
    /\ wire' = wire \cup {Head(queue)}
    /\ queue' = Tail(queue)
    /\ IF Len(queue) = 1
       THEN call' = "idle" /\ returned' = [kind |-> "Ok"]
       ELSE UNCHANGED <<call, returned>>
    /\ UNCHANGED <<config, next, job, issued, life, split_vars>>

\* The raw socket refuses a datagram: those after it are never written.
SocketError ==
    /\ call = "sending"
    /\ queue' = <<>>
    /\ call' = "idle"
    /\ returned' = Error("Socket")
    /\ UNCHANGED <<config, next, job, wire, issued, life, split_vars>>

\* The process stops and a new peer is bound.
Rebind(seed) ==
    /\ life < MaxBinds
    /\ life' = life + 1
    /\ next' = seed
    /\ call' = "idle"
    /\ queue' = <<>>
    /\ returned' = [kind |-> "None"]
    /\ pc' = "idle"
    /\ result' = [kind |-> "None"]
    /\ UNCHANGED <<config, job, wire, issued, req, ranges, start, remaining>>

Init ==
    /\ config \in Configs
    /\ next \in Seeds
    /\ call = "idle"
    /\ job = [n |-> 0, payload_len |-> 0, body_len |-> 0]
    /\ queue = <<>>
    /\ returned = [kind |-> "None"]
    /\ wire = {}
    /\ issued = {}
    /\ life = 1
    /\ S!Init

Call(j) == SendRejected(j) \/ SendWhole(j) \/ SendExhausted(j) \/ SendFragmented(j)

Step == Splitting \/ SplitFailed \/ AssembleFragments \/ Transmit

Next ==
    \/ \E j \in Jobs : Call(j)
    \/ Step
    \/ SocketError
    \/ \E seed \in Seeds : Rebind(seed)

Spec == Init /\ [][Next]_vars

-----------------------------------------------------------------------------
\* Properties

PacketsOf(n) == {p \in wire : p.n = n}

\* No Identification is handed out twice in the life of a peer, also not to calls that failed
\* after taking it: the generator fails closed at u32::MAX instead of wrapping.
FreshIds ==
    \A a, b \in issued : a.life = b.life /\ a.id = b.id => a.n = b.n

\* A call that returns an error other than a socket error has written nothing: all checks, the
\* peer's segment limit included, come before the first write.
RejectedSendsNothing ==
    returned.kind = "Err" /\ returned # Error("Socket") => PacketsOf(job.n) = {}

=============================================================================
