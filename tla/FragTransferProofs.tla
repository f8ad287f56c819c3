------------------------- MODULE FragTransferProofs -------------------------
(***************************************************************************)
(* The sending half of a peer: Identifications are never reused, and a     *)
(* call that is refused has written nothing, however many calls are made   *)
(* and wherever they fail.                                                 *)
(*                                                                         *)
(* Fragmentation end to end: whatever the network does and wherever the    *)
(* sender fails, what the receiver reassembles is one of the datagrams     *)
(* offered.  For every configuration and every bound.                      *)
(*                                                                         *)
(* What split_datagram returns (FragSplitProofs) and that a completed walk *)
(* covers the tail (ReassemblyProofs) are taken over by instantiation.     *)
(***************************************************************************)
EXTENDS FragTransfer, TLAPS

-----------------------------------------------------------------------------
(* The sending half of a peer *)

IssuedType == [life : Nat, id : Nat, n : Nat]

TypeInv ==
    /\ next \in Nat \cup {None}
    /\ life \in Nat
    /\ job.n \in Nat
    /\ issued \subseteq IssuedType

\* The generator is ahead of every Identification of this life, and no Identification belongs to a
\* life or a call that is still to come.
Ahead ==
    \A a \in issued :
        /\ a.life <= life
        /\ a.n <= job.n
        /\ a.life = life /\ next # None => a.id < next

Inv == TypeInv /\ Ahead /\ FreshIds

-----------------------------------------------------------------------------
\* A call that takes no Identification leaves the issued ones and the generator alone.
LEMMA NotTaken ==
    ASSUME Inv, next' = next, life' = life, issued' = issued, job'.n \in Nat, job.n <= job'.n
    PROVE  Inv'
<1>1. TypeInv'
    BY DEF Inv, TypeInv
<1>2. Ahead'
    BY DEF Inv, TypeInv, Ahead, IssuedType
<1>3. FreshIds'
    BY DEF Inv, FreshIds
<1> QED
    BY <1>1, <1>2, <1>3 DEF Inv

\* The number of a call is one more than that of the call before.
LEMMA CalledNumber ==
    ASSUME Inv, NEW j, Called(j)
    PROVE  job'.n = job.n + 1 /\ life' = life
BY DEF Called, Numbered

\* next_id hands out what no call of this life has had.
LEMMA TakenIsFresh ==
    ASSUME Inv, NEW j, SendFragmented(j)
    PROVE  Inv'
<1>1. PICK i \in Nat, n \in Nat : i = next /\ n = job.n + 1 /\ job'.n = n /\ life' = life
    BY CalledNumber DEF SendFragmented, Inv, TypeInv
<1>2. next' \in Nat \cup {None} /\ (next' # None => next' = i + 1)
    BY <1>1 DEF SendFragmented, NextId
<1>3. PICK new \in IssuedType : /\ new.life = life /\ new.id = i /\ new.n = n
                                /\ issued' = issued \cup {new}
    <2>1. [life |-> life, id |-> i, n |-> n] \in IssuedType
        BY <1>1 DEF Inv, TypeInv, IssuedType
    <2> QED
        BY <1>1, <2>1 DEF SendFragmented
<1>4. TypeInv'
    BY <1>1, <1>2, <1>3 DEF Inv, TypeInv
<1>5. Ahead'
    <2> SUFFICES ASSUME NEW a \in issued'
                 PROVE  /\ a.life <= life
                        /\ a.n <= n
                        /\ a.life = life /\ next' # None => a.id < next'
        BY <1>1 DEF Ahead
    <2>1. CASE a \in issued
        BY <1>1, <1>2, <2>1, NoneAssumption DEF Inv, TypeInv, Ahead, IssuedType
    <2>2. CASE a = new
        BY <1>1, <1>2, <1>3, <2>2 DEF Inv, TypeInv
    <2> QED
        BY <1>3, <2>1, <2>2
<1>6. FreshIds'
    <2>1. \A a \in issued : ~(a.life = new.life /\ a.id = new.id)
        BY <1>1, <1>3, NoneAssumption DEF Inv, TypeInv, Ahead, IssuedType
    <2> QED
        BY <1>3, <2>1 DEF Inv, FreshIds
<1> QED
    BY <1>4, <1>5, <1>6 DEF Inv

-----------------------------------------------------------------------------
\* A peer just bound has issued nothing.
LEMMA InitInv == Init => Inv
BY SeedsAssumption DEF Init, Inv, TypeInv, Ahead, FreshIds

\* Every step keeps the invariant.
LEMMA NextInv == Inv /\ [Next]_vars => Inv'
<1> SUFFICES ASSUME Inv, [Next]_vars PROVE Inv'
    OBVIOUS
<1>1. ASSUME NEW j \in Jobs, Call(j) PROVE Inv'
    <2>1. CASE SendFragmented(j)
        BY <2>1, TakenIsFresh
    <2>2. CASE SendRejected(j) \/ SendWhole(j) \/ SendExhausted(j)
        <3>1. Called(j) /\ next' = next /\ issued' = issued
            BY <2>2 DEF SendRejected, SendWhole, SendExhausted
        <3> QED
            BY <3>1, CalledNumber, NotTaken DEF Inv, TypeInv
    <2> QED
        BY <1>1, <2>1, <2>2 DEF Call
<1>2. CASE Step \/ SocketError \/ UNCHANGED vars
    <2>1. next' = next /\ life' = life /\ issued' = issued /\ job' = job
        BY <1>2 DEF Step, Splitting, SplitFailed, AssembleFragments, Transmit, SocketError,
                    vars, own_vars
    <2> QED
        BY <2>1, NotTaken DEF Inv, TypeInv
<1>3. ASSUME NEW seed \in Seeds, Rebind(seed) PROVE Inv'
    <2>1. life' = life + 1 /\ next' = seed /\ issued' = issued /\ job' = job /\ seed \in Nat
        BY <1>3, SeedsAssumption DEF Rebind
    <2>2. Ahead'
        BY <2>1 DEF Inv, TypeInv, Ahead, IssuedType
    <2> QED
        BY <2>1, <2>2 DEF Inv, TypeInv, FreshIds
<1> QED
    BY <1>1, <1>2, <1>3 DEF Next

\* The inductive invariant of IdentificationGenerator and Peer::send (src/api/mod.rs).
THEOREM Invariance == Spec => []Inv
BY InitInv, NextInv, PTL DEF Spec

\* No Identification is handed out twice in the life of a peer, whatever the size of the counter.
THEOREM IdentificationsFresh == Spec => []FreshIds
<1>1. Inv => FreshIds
    BY DEF Inv
<1> QED
    BY <1>1, Invariance, PTL

-----------------------------------------------------------------------------
\* Some sequence, of whatever elements.
IsSeq(s) == \E T : s \in Seq(T)

\* split_datagram returns a non-empty sequence of fragments.
SplitShape ==
    /\ IsSeq(ranges)
    /\ result.kind = "Ok" =>
          \E m \in Nat \ {0} : result.fragments = [i \in 1 .. m |-> result.fragments[i]]

\* What is queued belongs to the call under way, what is written to it or an earlier one, and
\* before the first write the call has not returned.
Writes ==
    /\ job.n \in Nat
    /\ IsSeq(queue)
    /\ \A i \in 1 .. Len(queue) : queue[i].n = job.n
    /\ call = "sending" <=> Len(queue) > 0
    /\ \A p \in wire : p.n \in Nat /\ p.n <= job.n
    /\ call = "splitting" => PacketsOf(job.n) = {}
    /\ call \in {"splitting", "sending"} => returned = [kind |-> "None"]

WInv == SplitShape /\ Writes /\ RejectedSendsNothing

\* Appending makes a sequence one longer, whatever is appended.
LEMMA AppendIsSeq ==
    ASSUME NEW s, IsSeq(s), NEW x
    PROVE  /\ IsSeq(Append(s, x))
           /\ Len(s) \in Nat
           /\ DOMAIN Append(s, x) = 1 .. (Len(s) + 1)
<1>1. PICK T : s \in Seq(T)
    BY DEF IsSeq
<1>2. s \in Seq(T \cup {x})
    BY <1>1
<1> QED
    BY <1>2 DEF IsSeq

\* The empty sequence and those of one element.
LEMMA ShortSeqs ==
    /\ IsSeq(<<>>) /\ Len(<<>>) = 0
    /\ \A x : IsSeq(<<x>>) /\ Len(<<x>>) = 1 /\ <<x>>[1] = x
<1>1. <<>> \in Seq({}) /\ \A x : <<x>> \in Seq({x})
    OBVIOUS
<1> QED
    BY <1>1, Zenon DEF IsSeq

\* Taking the head off leaves the other elements in their order.
LEMMA TailIsSeq ==
    ASSUME NEW s, IsSeq(s), Len(s) > 0
    PROVE  /\ IsSeq(Tail(s)) /\ Len(Tail(s)) = Len(s) - 1 /\ Len(s) \in Nat
           /\ Head(s) = s[1]
           /\ \A i \in 1 .. Len(Tail(s)) : Tail(s)[i] = s[i + 1]
BY DEF IsSeq

\* A function on 1 .. m is a sequence.
LEMMA FunctionIsSeq ==
    ASSUME NEW m \in Nat, NEW s, s = [i \in 1 .. m |-> s[i]]
    PROVE  IsSeq(s) /\ Len(s) = m
<1>1. PICK T : s \in [1 .. m -> T]
    <2>1. s \in [1 .. m -> {s[i] : i \in 1 .. m}]
        OBVIOUS
    <2> QED
        BY <2>1, Zenon
<1>2. s \in Seq(T) /\ Len(s) = m
    BY <1>1
<1> QED
    BY <1>2 DEF IsSeq

\* The steps of split_datagram keep the shape of its result.
LEMMA SplitShapeKept ==
    ASSUME SplitShape, [Next]_vars
    PROVE  SplitShape'
<1>1. CASE ranges' = <<>> /\ result'.kind # "Ok"
    <2>1. <<>> \in Seq({})
        OBVIOUS
    <2> QED
        BY <1>1, <2>1 DEF SplitShape, IsSeq
<1>2. CASE ranges' = ranges /\ (result' = result \/ result'.kind # "Ok")
    BY <1>2 DEF SplitShape
<1>3. CASE S!ChunkStep
    <2>1. PICK x : ranges' = Append(ranges, x)
        BY <1>3 DEF S!ChunkStep
    <2> QED
        BY <1>3, <2>1, AppendIsSeq, Zenon DEF SplitShape, S!ChunkStep
<1>4. CASE S!ChunkDone
    <2>1. PICK x : ranges' = Append(ranges, x)
        BY <1>4 DEF S!ChunkDone
    <2>2. IsSeq(ranges') /\ Len(ranges) \in Nat /\ DOMAIN ranges' = 1 .. (Len(ranges) + 1)
        BY <2>1, AppendIsSeq DEF SplitShape
    <2>3. result'.kind = "Ok" =>
             result'.fragments = [i \in DOMAIN ranges' |-> S!Fragment(ranges', i)]
        BY <1>4, Zenon DEF S!ChunkDone, S!ResultOf, S!Failure
    <2>4. ASSUME result'.kind = "Ok"
          PROVE  \E m \in Nat \ {0} : result'.fragments = [i \in 1 .. m |-> result'.fragments[i]]
        <3>1. PICK m \in Nat \ {0} : m = Len(ranges) + 1
            BY <2>2
        <3>2. PICK fs : fs = result'.fragments
            OBVIOUS
        <3>3. fs = [i \in 1 .. m |-> S!Fragment(ranges', i)]
            BY <2>2, <2>3, <2>4, <3>1, <3>2
        <3>4. fs = [i \in 1 .. m |-> fs[i]]
            BY <3>3
        <3> QED
            BY <3>2, <3>4
    <2> QED
        BY <2>2, <2>4, Zenon DEF SplitShape
<1>5. ASSUME NEW j \in Jobs, Call(j) PROVE SplitShape'
    <2>1. CASE SendFragmented(j)
        <3>1. ranges' = <<>> /\ result'.kind # "Ok"
            BY <2>1 DEF SendFragmented, S!SplitDatagram, S!Failure
        <3> QED
            BY <1>1, <3>1
    <2>2. CASE SendRejected(j) \/ SendWhole(j) \/ SendExhausted(j)
        BY <1>2, <2>2 DEF SendRejected, SendWhole, SendExhausted, split_vars
    <2> QED
        BY <1>5, <2>1, <2>2 DEF Call
<1>6. CASE SplitFailed \/ AssembleFragments \/ Transmit \/ SocketError \/ UNCHANGED vars
    BY <1>2, <1>6 DEF SplitFailed, AssembleFragments, Transmit, SocketError, vars, split_vars
<1>7. ASSUME NEW seed \in Seeds, Rebind(seed) PROVE SplitShape'
    BY <1>2, <1>7 DEF Rebind
<1> QED
    BY <1>3, <1>4, <1>5, <1>6, <1>7 DEF Next, Step, Splitting

\* No packet of a call is on the wire when the call begins.
LEMMA CallStartsUnwritten ==
    ASSUME Writes, NEW j, Called(j)
    PROVE  /\ job'.n \in Nat /\ job'.n = job.n + 1 /\ wire' = wire
           /\ \A p \in wire' : p.n \in Nat /\ p.n <= job'.n
           /\ PacketsOf(job.n)' = {}
BY DEF Writes, Called, Numbered, PacketsOf

\* Every step keeps the account of what is written.
LEMMA WritesKept ==
    ASSUME WInv, [Next]_vars
    PROVE  Writes' /\ RejectedSendsNothing'
<1> USE DEF WInv
<1>1. ASSUME NEW j \in Jobs, Call(j) PROVE Writes' /\ RejectedSendsNothing'
    <2>0. Called(j) /\ call = "idle"
        BY <1>1 DEF Call, SendRejected, SendWhole, SendExhausted, SendFragmented, Called
    <2>1. Len(queue) \in Nat /\ Len(queue) = 0
        BY <2>0, AppendIsSeq DEF Writes
    <2>2. CASE SendRejected(j) \/ SendExhausted(j)
        <3>1. call' = "idle" /\ queue' = queue
            BY <2>0, <2>2 DEF SendRejected, SendExhausted
        <3> QED
            BY <2>0, <2>1, <3>1, CallStartsUnwritten DEF Writes, RejectedSendsNothing
    <2>3. CASE SendFragmented(j)
        <3>1. call' = "splitting" /\ queue' = queue /\ returned' = [kind |-> "None"]
            BY <2>3 DEF SendFragmented
        <3> QED
            BY <2>0, <2>1, <3>1, CallStartsUnwritten DEF Writes, RejectedSendsNothing
    <2>4. CASE SendWhole(j)
        <3>1. PICK p : queue' = <<p>> /\ p.n = job.n + 1
            BY <2>4 DEF SendWhole
        <3>2. IsSeq(queue') /\ Len(queue') = 1 /\ queue'[1].n = job'.n
            BY <2>0, <3>1, ShortSeqs, CallStartsUnwritten
        <3>3. call' = "sending" /\ returned' = [kind |-> "None"]
            BY <2>4 DEF SendWhole
        <3> QED
            BY <2>0, <3>2, <3>3, CallStartsUnwritten DEF Writes, RejectedSendsNothing
    <2> QED
        BY <1>1, <2>2, <2>3, <2>4 DEF Call
<1>2. CASE Splitting \/ UNCHANGED vars
    BY <1>2 DEF Splitting, vars, own_vars, Writes, RejectedSendsNothing, PacketsOf
<1>3. CASE SplitFailed
    BY <1>3 DEF SplitFailed, Writes, RejectedSendsNothing, PacketsOf
<1>4. CASE AssembleFragments
    <2>1. wire' = wire /\ job' = job /\ PacketsOf(job.n)' = {}
        BY <1>4 DEF AssembleFragments, Writes, PacketsOf
    <2>2. CASE TooLong
        BY <1>4, <2>1, <2>2, ShortSeqs DEF AssembleFragments, Writes, RejectedSendsNothing
    <2>3. CASE ~TooLong
        <3>1. PICK m \in Nat \ {0} : result.fragments = [i \in 1 .. m |-> result.fragments[i]]
            BY <1>4, Zenon DEF AssembleFragments, SplitShape
        <3>2. DOMAIN result.fragments = 1 .. m
            BY <3>1
        <3>3. queue' = [i \in 1 .. m |->
                          Packet(result.fragments[i], FragmentLen(result.fragments[i]))]
            BY <1>4, <2>3, <3>2 DEF AssembleFragments
        <3>4. queue' = [i \in 1 .. m |-> queue'[i]]
            BY <3>3
        <3>5. IsSeq(queue') /\ Len(queue') = m
            BY <3>4, FunctionIsSeq
        <3>6. \A i \in 1 .. m : queue'[i].n = job.n
            BY <3>3 DEF Packet
        <3>7. call' = "sending" /\ returned' = returned /\ call = "splitting"
            BY <1>4, <2>3 DEF AssembleFragments
        <3> QED
            BY <2>1, <3>5, <3>6, <3>7 DEF Writes, RejectedSendsNothing
    <2> QED
        BY <2>2, <2>3
<1>5. CASE Transmit
    <2>1. PICK n \in Nat : n = Len(queue) /\ n > 0
        BY <1>5, AppendIsSeq DEF Transmit, Writes
    <2>2. /\ IsSeq(queue') /\ Len(queue') = n - 1
          /\ Head(queue) = queue[1]
          /\ \A i \in 1 .. (n - 1) : queue'[i] = queue[i + 1]
        BY <1>5, <2>1, TailIsSeq DEF Transmit, Writes
    <2>3. \A i \in 1 .. (n - 1) : queue'[i].n = job.n
        BY <2>1, <2>2 DEF Writes
    <2>4. job' = job /\ \A p \in wire' : p.n \in Nat /\ p.n <= job.n
        BY <1>5, <2>1, <2>2 DEF Transmit, Writes
    <2>5. CASE n = 1
        <3>1. call' = "idle" /\ returned' = [kind |-> "Ok"] /\ Len(queue') = 0
            BY <1>5, <2>1, <2>2, <2>5 DEF Transmit
        <3>2. RejectedSendsNothing'
            BY <3>1 DEF RejectedSendsNothing
        <3>3. Writes'
            BY <2>2, <2>4, <3>1 DEF Writes
        <3> QED
            BY <3>2, <3>3
    <2>6. CASE n # 1
        BY <1>5, <2>1, <2>2, <2>3, <2>4, <2>6 DEF Transmit, Writes, RejectedSendsNothing
    <2> QED
        BY <2>5, <2>6
<1>6. CASE SocketError
    BY <1>6, ShortSeqs DEF SocketError, Writes, RejectedSendsNothing
<1>7. ASSUME NEW seed \in Seeds, Rebind(seed) PROVE Writes' /\ RejectedSendsNothing'
    BY <1>7, ShortSeqs DEF Rebind, Writes, RejectedSendsNothing
<1> QED
    BY <1>1, <1>2, <1>3, <1>4, <1>5, <1>6, <1>7 DEF Next, Step

\* A call that returns an error other than a socket error has written nothing.
THEOREM RefusedWritesNothing == Spec => []RejectedSendsNothing
<1>1. Init => WInv
    BY ShortSeqs DEF Init, S!Init, WInv, SplitShape, Writes, RejectedSendsNothing
<1>2. WInv /\ [Next]_vars => WInv'
    BY SplitShapeKept, WritesKept DEF WInv
<1>3. WInv => RejectedSendsNothing
    BY DEF WInv
<1> QED
    BY <1>1, <1>2, <1>3, PTL DEF Spec

-----------------------------------------------------------------------------
(* Fragmentation end to end *)

\* Identifications are used once, over all lives of the sender, and the generator is ahead of those
\* taken in this life.
IdsOK ==
    /\ next \in (0 .. IdMax) \cup {None} /\ life \in Nat
    /\ \A a \in issued : /\ a.id \in 0 .. IdMax /\ a.life \in Nat /\ a.life <= life
                         /\ a.life = life /\ next # None => a.id < next
    /\ \A a, b \in issued : a.id = b.id => a.n = b.n

\* The number of a call tells the datagram it offered.
OfferedOK ==
    /\ job.n \in 0 .. MaxSends
    /\ \A d \in offered : d.n \in 1 .. job.n /\ d.tail_len \in Nat /\ d.udp_length \in Nat
    /\ \A d, e \in offered : d.n = e.n => d = e

\* The fragment f is a slice of the tail of datagram d and says where it belongs.
PieceOf(f, d) ==
    /\ f.from \in Nat /\ f.to \in Nat
    /\ f.from <= f.to /\ f.to <= d.tail_len
    /\ f.offset = UdpHeader + f.from \/ (f.offset = 0 /\ f.from = 0 /\ f.rdos # None)
    /\ f.rdos # None => f.rdos = d.udp_length /\ f.to = d.tail_len

\* An Identification taken by call n.
TakenBy(id, n) == \E a \in issued : a.id = id /\ a.n = n

\* The packet p is a whole datagram, or carries a piece of the datagram its call offered.
Genuine(p) ==
    p.fragment # None =>
        /\ TakenBy(p.fragment.id, p.n)
        /\ \E d \in offered : /\ d.n = p.n
                              /\ 0 < d.tail_len /\ d.tail_len <= TailMax
                              /\ PieceOf(p.fragment, d)

PacketsOK == (\A i \in 1 .. Len(queue) : Genuine(queue[i])) /\ (\A p \in wire : Genuine(p))

\* split_datagram works on the datagram of the call under way, with the Identification it took.
SplitFor ==
    call = "splitting" =>
        /\ req.peer_size \in Nat /\ req.peer_size <= UdpHeader + TailMax
        /\ TakenBy(req.id, job.n)
        /\ \E d \in offered : /\ d.n = job.n /\ 0 < d.tail_len
                              /\ d.tail_len = S!TailLen(req) /\ d.udp_length = S!Rdos(req)

SenderInv == WInv /\ config \in Configs /\ IdsOK /\ OfferedOK /\ PacketsOK /\ SplitFor

-----------------------------------------------------------------------------
\* The sender

\* Every step of the composition is a step of the peer or leaves the peer alone.
LEMMA PeerSteps ==
    ASSUME [TransferNext]_transfer_vars
    PROVE  [Next]_vars
<1>1. ASSUME NEW j \in Jobs, Offer(j) PROVE Next
    BY <1>1 DEF Offer, Next
<1>2. SenderStep => Next
    BY DEF SenderStep, Next
<1>3. ASSUME NEW seed \in Seeds, Restart(seed) PROVE Next
    BY <1>3 DEF Restart, Next
<1>4. ASSUME NEW p \in wire, Arrive(p) PROVE UNCHANGED vars
    BY <1>4 DEF Arrive
<1>5. ReceiverStep \/ UNCHANGED transfer_vars => UNCHANGED vars
    BY DEF ReceiverStep, transfer_vars
<1> QED
    BY <1>1, <1>2, <1>3, <1>4, <1>5 DEF TransferNext

\* What a call does, to whichever of its ends it comes.
LEMMA CallEffect ==
    ASSUME NEW j \in Jobs, Call(j)
    PROVE  /\ call = "idle" /\ job.n < MaxSends /\ job'.n = job.n + 1
           /\ wire' = wire /\ config' = config
           /\ life' = life
           /\ SendFragmented(j) \/ (call' # "splitting" /\ next' = next /\ issued' = issued)
<1>1. Called(j)
    BY DEF Call, SendRejected, SendWhole, SendExhausted, SendFragmented
<1>2. /\ call = "idle" /\ job.n < MaxSends /\ job'.n = job.n + 1 /\ wire' = wire
      /\ config' = config /\ life' = life
    BY <1>1 DEF Called, Numbered
<1> QED
    BY <1>2 DEF Call, SendRejected, SendWhole, SendExhausted

\* The steps that are not calls and not restarts leave the counters alone.
LEMMA StepEffect ==
    ASSUME Step \/ SocketError \/ UNCHANGED vars
    PROVE  /\ next' = next /\ issued' = issued /\ job' = job /\ config' = config /\ life' = life
           /\ wire \subseteq wire'
BY DEF Step, Splitting, SplitFailed, AssembleFragments, Transmit, SocketError, vars, own_vars

LEMMA IdsKept ==
    ASSUME IdsOK, [TransferNext /\ LivesApart']_transfer_vars
    PROVE  IdsOK'
<1>1. CASE next' = next /\ issued' = issued /\ life' = life
    BY <1>1 DEF IdsOK
<1>2. ASSUME NEW j \in Jobs, Offer(j), LivesApart' PROVE IdsOK'
    <2>0. life' = life
        BY <1>2, CallEffect DEF Offer
    <2>1. CASE SendFragmented(j)
        <3>1. PICK i \in 0 .. IdMax : i = next
            BY <2>1 DEF SendFragmented, IdsOK
        <3>2. PICK new : new.id = i /\ new.life = life /\ issued' = issued \cup {new}
            BY <2>1, <3>1, Zenon DEF SendFragmented
        <3>3. next' \in (0 .. IdMax) \cup {None} /\ (next' # None => next' = i + 1)
            BY <2>1, <3>1, SeedsAssumption DEF SendFragmented, NextId
        <3>4. \A a \in issued : a.id \in 0 .. IdMax /\ (a.life = life => a.id < i)
            <4>1. next # None
                BY <3>1, SeedsAssumption, NoneAssumption
            <4> QED
                BY <3>1, <4>1, Zenon DEF IdsOK
        <3>5. \A a \in issued' :
                 /\ a.id \in 0 .. IdMax /\ a.life \in Nat /\ a.life <= life
                 /\ a.life = life /\ next' # None => a.id < next'
            <4>1. /\ life \in Nat
                  /\ \A a \in issued : a.id \in 0 .. IdMax /\ a.life \in Nat /\ a.life <= life
                BY Zenon DEF IdsOK
            <4>2. ASSUME NEW a \in issued PROVE a.life = life /\ next' # None => a.id < next'
                BY <3>1, <3>3, <3>4, <4>1, SeedsAssumption
            <4>3. /\ new.id \in 0 .. IdMax /\ new.life \in Nat /\ new.life <= life
                  /\ next' # None => new.id < next'
                BY <3>1, <3>2, <3>3, <4>1, SeedsAssumption
            <4> QED
                BY <3>2, <4>1, <4>2, <4>3, Zenon
        <3>6. \A a \in issued : a.id # i
            <4>1. \A a \in issued : a.id = i => a.life = life
                BY <1>2, <3>2, Zenon DEF LivesApart
            <4> QED
                BY <3>1, <3>4, <4>1, SeedsAssumption
        <3>7. \A a, b \in issued' : a.id = b.id => a.n = b.n
            BY <3>2, <3>6, Zenon DEF IdsOK
        <3> QED
            BY <2>0, <3>3, <3>5, <3>7 DEF IdsOK
    <2> QED
        BY <1>1, <1>2, <2>0, <2>1, CallEffect DEF Offer
<1>3. ASSUME NEW seed \in Seeds, Restart(seed) PROVE IdsOK'
    <2>1. next' = seed /\ life' = life + 1 /\ issued' = issued
        BY <1>3, Zenon DEF Restart, Rebind
    <2>2. life \in Nat /\ \A a \in issued : a.life \in Nat /\ a.life <= life
        BY Zenon DEF IdsOK
    <2>3. life + 1 \in Nat /\ \A a \in issued : a.life <= life + 1 /\ a.life # life + 1
        BY <2>2, SMT
    <2>4. seed \in 0 .. IdMax
        BY SeedsAssumption
    <2> QED
        BY <2>1, <2>3, <2>4, Zenon DEF IdsOK
<1>4. CASE SenderStep \/ (\E p \in wire : Arrive(p)) \/ ReceiverStep \/ UNCHANGED transfer_vars
    BY <1>1, <1>4, StepEffect DEF SenderStep, Arrive, ReceiverStep, transfer_vars
<1> QED
    BY <1>2, <1>3, <1>4 DEF TransferNext

\* The lengths of a datagram are naturals.
LEMMA DatagramType ==
    ASSUME NEW j \in Jobs, NEW n
    PROVE  /\ Datagram(n, j).n = n
           /\ Datagram(n, j).tail_len = S!TailLen(j) /\ S!TailLen(j) \in Nat
           /\ Datagram(n, j).udp_length = S!Rdos(j) /\ S!Rdos(j) \in Nat
BY JobsAssumption DEF JobType, Datagram, S!TailLen, S!PadLen, S!Rdos, S!UdpHeader

LEMMA OfferedKept ==
    ASSUME OfferedOK, [TransferNext]_transfer_vars
    PROVE  OfferedOK' /\ offered \subseteq offered' /\ issued \subseteq issued'
<1>1. CASE job'.n = job.n /\ offered' = offered /\ issued' = issued
    BY <1>1 DEF OfferedOK
<1>2. ASSUME NEW j \in Jobs, Offer(j)
      PROVE  OfferedOK' /\ offered \subseteq offered' /\ issued \subseteq issued'
    <2>1. PICK m \in Nat : m = job.n /\ job'.n = m + 1 /\ m + 1 \in 1 .. MaxSends
        BY <1>2, CallEffect, SendsAssumption DEF Offer, OfferedOK
    <2>2. PICK new : /\ offered' = offered \cup {new}
                     /\ new.n = m + 1 /\ new.tail_len \in Nat /\ new.udp_length \in Nat
        BY <1>2, <2>1, DatagramType DEF Offer
    <2>3. issued \subseteq issued'
        BY <1>2, CallEffect DEF Offer, SendFragmented
    <2>4. \A d \in offered : d.n \in 1 .. m /\ d.tail_len \in Nat /\ d.udp_length \in Nat
        BY <2>1 DEF OfferedOK
    <2>5. \A d \in offered' :
             d.n \in 1 .. (m + 1) /\ d.tail_len \in Nat /\ d.udp_length \in Nat
        BY <2>1, <2>2, <2>4
    <2>6. \A d, e \in offered' : d.n = e.n => d = e
        BY <2>1, <2>2, <2>4 DEF OfferedOK
    <2> QED
        BY <2>1, <2>2, <2>3, <2>5, <2>6, SendsAssumption DEF OfferedOK
<1>3. CASE SenderStep \/ (\E p \in wire : Arrive(p)) \/ ReceiverStep \/ UNCHANGED transfer_vars
    BY <1>1, <1>3, StepEffect DEF SenderStep, Arrive, ReceiverStep, transfer_vars
<1>4. ASSUME NEW seed \in Seeds, Restart(seed)
      PROVE  job'.n = job.n /\ offered' = offered /\ issued' = issued
    BY <1>4 DEF Restart, Rebind
<1> QED
    BY <1>1, <1>2, <1>3, <1>4 DEF TransferNext

\* What was genuine stays genuine.
LEMMA GenuineKept ==
    ASSUME NEW p, Genuine(p), offered \subseteq offered', issued \subseteq issued'
    PROVE  Genuine(p)'
BY DEF Genuine, TakenBy, PieceOf

\* A call that is to be fragmented passes split_datagram a proper request for what it offers.
LEMMA RequestOK ==
    ASSUME config \in Configs, NEW j \in Jobs, NEW i \in Nat, Rejection(j) = None, ~FitsWhole(j)
    PROVE  /\ Request(config, j, i) \in S!RequestType
           /\ S!TailLen(Request(config, j, i)) = S!TailLen(j)
           /\ S!Rdos(Request(config, j, i)) = S!Rdos(j)
           /\ Request(config, j, i).id = i
           /\ Request(config, j, i).peer_size \in Nat
           /\ Request(config, j, i).peer_size <= UdpHeader + TailMax
           /\ 0 < S!TailLen(j)
<1>1. /\ config.max_datagram_len \in Nat /\ config.peer_size \in 0 .. U16Max
      /\ config.peer_segments \in 0 .. 255
      /\ j.payload_len \in Nat /\ j.body_len \in Nat
    BY ConfigsAssumption, JobsAssumption DEF ConfigType, JobType
<1>2. config.max_datagram_len >= 28
    BY <1>1, NoneNoError, SMTT(30) DEF Rejection, Ipv4Header, UdpHeader
<1>3. Request(config, j, i) \in S!RequestType
    <2>1. U16Max = S!U16Max
        BY DEF U16Max, S!U16Max
    <2> QED
        BY <1>1, <1>2, <2>1 DEF Request, S!RequestType, Ipv4Header, UdpHeader
<1>4. /\ S!TailLen(Request(config, j, i)) = S!TailLen(j)
      /\ S!Rdos(Request(config, j, i)) = S!Rdos(j)
      /\ Request(config, j, i).id = i /\ Request(config, j, i).peer_size = config.peer_size
    BY DEF Request, S!TailLen, S!PadLen, S!Rdos
<1>5. DatagramLen(j.payload_len, j.body_len) > 28
    <2>1. DatagramLen(j.payload_len, j.body_len) \in Nat
        BY <1>1 DEF DatagramLen, Ipv4Header, UdpHeader
    <2> QED
        BY <1>1, <1>2, <2>1 DEF FitsWhole
<1>6. j.payload_len > 0 \/ j.body_len > 0
    BY <1>1, <1>5 DEF DatagramLen, Ipv4Header, UdpHeader
<1>7. 0 < S!TailLen(j)
    BY <1>1, <1>6 DEF S!TailLen, S!PadLen
<1>8. config.peer_size \in Nat
    <2>1. U16Max \in Nat
        BY DEF U16Max
    <2> QED
        BY <1>1, <2>1
<1> QED
    BY <1>3, <1>4, <1>7, <1>8, TailMaxAssumption

\* What a call that is to be fragmented starts split_datagram on.
LEMMA CallSplits ==
    ASSUME SenderInv, NEW j \in Jobs, Offer(j), SendFragmented(j)
    PROVE  \E r \in S!RequestType :
              /\ S!SplitDatagram(r) /\ req' = r /\ r.id = next
              /\ r.peer_size \in Nat /\ r.peer_size <= UdpHeader + TailMax
              /\ S!TailLen(r) = S!TailLen(j) /\ S!Rdos(r) = S!Rdos(j) /\ 0 < S!TailLen(j)
<1>1. PICK i \in Nat : i = next /\ S!SplitDatagram(Request(config, j, i))
    BY SeedsAssumption DEF SendFragmented, SenderInv, IdsOK
<1>2. Rejection(j) = None /\ ~FitsWhole(j) /\ config \in Configs
    BY DEF SendFragmented, SenderInv
<1>3. req' = Request(config, j, i)
    BY <1>1 DEF S!SplitDatagram
<1> QED
    BY <1>1, <1>2, <1>3, RequestOK

\* While send() is splitting, split_datagram has just been called, goes on or stands still.
LEMMA SplitMoves ==
    ASSUME SenderInv, [TransferNext]_transfer_vars, call' = "splitting"
    PROVE  \/ \E r \in S!RequestType : S!SplitDatagram(r)
           \/ call = "splitting" /\ (S!ChunkStep \/ S!ChunkDone \/ UNCHANGED split_vars)
<1>1. ASSUME NEW j \in Jobs, Offer(j) PROVE \E r \in S!RequestType : S!SplitDatagram(r)
    BY <1>1, CallEffect, CallSplits DEF Offer
<1>2. SenderStep => call = "splitting" /\ (S!ChunkStep \/ S!ChunkDone)
    BY DEF SenderStep, Step, Splitting, SplitFailed, AssembleFragments, Transmit, SocketError
<1>3. ~\E seed \in Seeds : Restart(seed)
    BY DEF Restart, Rebind
<1>4. (\E p \in wire : Arrive(p)) \/ ReceiverStep \/ UNCHANGED transfer_vars =>
         call = "splitting" /\ UNCHANGED split_vars
    BY DEF Arrive, ReceiverStep, transfer_vars, vars, own_vars
<1> QED
    BY <1>1, <1>2, <1>3, <1>4 DEF TransferNext

LEMMA SplitForKept ==
    ASSUME SenderInv, [TransferNext]_transfer_vars
    PROVE  SplitFor'
<1>1. CASE call' # "splitting"
    BY <1>1 DEF SplitFor
<1>2. ASSUME NEW j \in Jobs, Offer(j), SendFragmented(j) PROVE SplitFor'
    <2>1. PICK r \in S!RequestType :
              /\ req' = r /\ r.id = next
              /\ r.peer_size \in Nat /\ r.peer_size <= UdpHeader + TailMax
              /\ S!TailLen(r) = S!TailLen(j) /\ S!Rdos(r) = S!Rdos(j) /\ 0 < S!TailLen(j)
        BY <1>2, CallSplits
    <2>2. PICK n : n = job.n + 1 /\ job'.n = n
        BY <1>2, CallEffect DEF Offer
    <2>3. \E a \in issued' : a.id = r.id /\ a.n = n
        <3>1. PICK a : a.id = next /\ a.n = n /\ issued' = issued \cup {a}
            BY <1>2, <2>2, Zenon DEF SendFragmented
        <3> QED
            BY <2>1, <3>1
    <2>4. \E d \in offered' : d.n = n /\ d.tail_len = S!TailLen(r) /\ d.udp_length = S!Rdos(r)
        BY <1>2, <2>1, <2>2, DatagramType DEF Offer
    <2>5. S!TailLen(req)' = S!TailLen(r) /\ S!Rdos(req)' = S!Rdos(r)
        BY <2>1 DEF S!TailLen, S!PadLen, S!Rdos
    <2> QED
        BY <2>1, <2>2, <2>3, <2>4, <2>5 DEF SplitFor, TakenBy
<1>3. CASE UNCHANGED <<job, issued, offered, req, call>>
    BY <1>3 DEF SenderInv, SplitFor, TakenBy, S!TailLen, S!PadLen, S!Rdos
<1>4. ASSUME NEW j \in Jobs, Offer(j) PROVE SplitFor'
    BY <1>1, <1>2, <1>4, CallEffect DEF Offer
<1>5. CASE SenderStep
    <2>1. CASE Splitting
        BY <1>3, <1>5, <2>1 DEF SenderStep, Splitting, own_vars, S!ChunkStep, S!ChunkDone
    <2>2. CASE ~Splitting
        BY <1>1, <1>5, <2>2
        DEF SenderStep, Step, SplitFailed, AssembleFragments, Transmit, SocketError
    <2> QED
        BY <2>1, <2>2
<1>6. ASSUME NEW seed \in Seeds, Restart(seed) PROVE SplitFor'
    BY <1>1, <1>6 DEF Restart, Rebind
<1>7. CASE (\E p \in wire : Arrive(p)) \/ ReceiverStep \/ UNCHANGED transfer_vars
    BY <1>3, <1>7 DEF Arrive, ReceiverStep, transfer_vars, vars, own_vars, split_vars
<1> QED
    BY <1>4, <1>5, <1>6, <1>7 DEF TransferNext

-----------------------------------------------------------------------------
\* The receiver

\* The segment s is the piece of a tail that packet p carries.
CarriedBy(s, p) ==
    /\ s.start = p.fragment.from /\ s.end = p.fragment.to
    /\ s.start \in Nat /\ s.end \in Nat /\ s.start < s.end
    /\ s.data = Slice(p.n, s.start, s.end)

\* The packets written with Identification id.
WrittenWith(id) == {p \in wire : p.fragment # None /\ p.fragment.id = id}

\* All that the partial q holds was written with Identification id: its segments, and the lengths
\* it has from a terminal fragment.
Gathered(q, id) ==
    /\ {"segments", "terminal_end", "udp_length"} \subseteq DOMAIN q
    /\ \A s \in q.segments : \E p \in WrittenWith(id) : CarriedBy(s, p)
    /\ q.terminal_end # None =>
          \E p \in WrittenWith(id) : /\ p.fragment.rdos # None
                                     /\ p.fragment.rdos = q.udp_length
                                     /\ p.fragment.to = q.terminal_end

CacheOK == \A k \in DOMAIN partials : Gathered(partials[k], k)

\* What was written stays written.
LEMMA GatheredKept ==
    ASSUME NEW q, NEW id, Gathered(q, id), wire \subseteq wire'
    PROVE  Gathered(q, id)'
BY DEF Gathered, WrittenWith

\* The cache places a genuine fragment where it was cut.
LEMMA ReceivedExtent ==
    ASSUME OfferedOK, NEW p, Genuine(p), p.fragment # None
    PROVE  /\ p.fragment.from \in Nat /\ p.fragment.to \in Nat
           /\ p.fragment.from <= p.fragment.to
           /\ R!Start(Received(p)) = p.fragment.from
           /\ R!End(Received(p)) = p.fragment.to
           /\ R!Len0(Received(p)) = p.fragment.to - p.fragment.from
<1>1. PICK d \in offered : /\ d.n = p.n /\ d.n \in 1 .. MaxSends
                           /\ d.tail_len \in Nat /\ d.tail_len <= TailMax
                           /\ PieceOf(p.fragment, d)
    BY SendsAssumption DEF Genuine, OfferedOK
<1>2. PICK n \in 1 .. MaxSends, a \in 0 .. TailMax, b \in 0 .. TailMax :
         n = p.n /\ a = p.fragment.from /\ b = p.fragment.to /\ a <= b
    BY <1>1, TailMaxAssumption DEF PieceOf
<1>3. SliceLen[Slice(n, a, b)] = b - a
    <2>1. CASE a = b
        BY <2>1 DEF SliceLen, Slice, Slices
    <2>2. CASE a # b
        <3>0. Len(<<n, a, b>>) = 3 /\ Len(<<>>) = 0
            OBVIOUS
        <3>1. PICK s : s = <<n, a, b>>
            BY Zenon
        <3>2. s[2] = a /\ s[3] = b
            BY <3>1
        <3>3. s # <<>>
            BY <3>0, <3>1
        <3>4. s \in Slices
            BY <1>2, <2>2, <3>1, <3>2, SMTT(30) DEF Slices
        <3> QED
            BY <2>2, <3>1, <3>2, <3>3, <3>4 DEF SliceLen, Slice
    <2> QED
        BY <2>1, <2>2
<1>4. R!Len0(Received(p)) = b - a
    BY <1>2, <1>3, SMTT(30) DEF R!Len0, Received
<1>5. R!Start(Received(p)) = a
    <2>1. Received(p).offset = p.fragment.offset /\ Received(p).rdos = p.fragment.rdos
        BY Zenon DEF Received
    <2>2. p.fragment.offset = UdpHeader + a \/ (p.fragment.offset = 0 /\ a = 0)
        BY <1>1, <1>2, Zenon DEF PieceOf
    <2> QED
        BY ONLY a \in 0 .. TailMax, <2>1, <2>2, SMT DEF R!Start, R!UdpHeader, UdpHeader
<1> QED
    BY <1>2, <1>4, <1>5 DEF R!End

\* A genuine fragment that is accepted adds what was written with its Identification.
LEMMA AcceptGathers ==
    ASSUME OfferedOK, NEW p \in wire, Genuine(p), p.fragment # None,
           NEW q, Gathered(q, p.fragment.id)
    PROVE  Gathered(R!Accept(q, Received(p)), p.fragment.id)
<1> DEFINE f == Received(p)
           new == R!Accept(q, f)
           id == p.fragment.id
<1>1. p \in WrittenWith(id)
    BY DEF WrittenWith
<1>2. {"segments", "terminal_end", "udp_length"} \subseteq DOMAIN new
    BY Zenon DEF R!Accept, Gathered
<1>3. \A s \in new.segments : s \in q.segments \/ (R!Len0(f) # 0 /\ s = R!Segment(f))
    BY SMTT(30) DEF R!Accept, Gathered
<1>4. R!Len0(f) # 0 => CarriedBy(R!Segment(f), p)
    <2>1. R!Segment(f).data = Slice(p.n, p.fragment.from, p.fragment.to)
        BY DEF R!Segment, Received
    <2>2. R!Segment(f).start = R!Start(f) /\ R!Segment(f).end = R!End(f)
        BY DEF R!Segment
    <2> QED
        BY <2>1, <2>2, ReceivedExtent, SMTT(30) DEF CarriedBy
<1>5. \/ new.terminal_end = q.terminal_end /\ new.udp_length = q.udp_length
      \/ f.rdos # None /\ new.terminal_end = R!End(f) /\ new.udp_length = f.rdos
    BY DEF R!Accept, R!IsTerminal, Gathered
<1>6. f.rdos = p.fragment.rdos
    BY DEF Received
<1>7. p.fragment.to = R!End(f)
    BY ReceivedExtent, Zenon
<1> HIDE DEF f, new
<1>8. \A s \in new.segments : \E w \in WrittenWith(id) : CarriedBy(s, w)
    BY <1>1, <1>3, <1>4, Zenon DEF Gathered
<1>9. new.terminal_end # None =>
         \E w \in WrittenWith(id) : /\ w.fragment.rdos # None
                                    /\ w.fragment.rdos = new.udp_length
                                    /\ w.fragment.to = new.terminal_end
    BY <1>1, <1>5, <1>6, <1>7, Zenon DEF Gathered
<1>10. Gathered(new, id)
    BY <1>2, <1>8, <1>9, Zenon DEF Gathered
<1> QED
    BY <1>10, Zenon DEF new, f

\* Partial::insert keeps a partial gathered, and completes only what complete() finds complete.
LEMMA InsertGathers ==
    ASSUME OfferedOK, NEW p \in wire, Genuine(p), p.fragment # None,
           NEW q, Gathered(q, p.fragment.id)
    PROVE  /\ Gathered(R!InsertResult(q, Received(p)).partial, p.fragment.id)
           /\ R!InsertResult(q, Received(p)).kind = "Complete" =>
                 R!CompleteResult(R!InsertResult(q, Received(p)).partial) = "Complete"
<1> DEFINE f == Received(p)
<1>1. Gathered(R!Accept(q, f), p.fragment.id)
    BY AcceptGathers
<1>2. \A o : Gathered([q EXCEPT !.ocs = o], p.fragment.id)
    BY DEF Gathered
<1> HIDE DEF f
<1>3. CASE R!IsExactDuplicate(q, f)
    BY <1>2, <1>3 DEF R!InsertResult, f
<1>4. CASE ~R!IsExactDuplicate(q, f)
    BY <1>1, <1>4, SMTT(30) DEF R!InsertResult, f
<1> QED
    BY <1>3, <1>4

LEMMA NewGathers ==
    ASSUME NEW id
    PROVE  Gathered(R!NewPartial, id)
BY DEF Gathered, R!NewPartial

\* A genuine fragment that arrives leaves the cache gathered; a completion is of a partial that
\* is gathered and that complete() finds complete.
LEMMA ArriveGathers ==
    ASSUME CacheOK, OfferedOK, NEW p \in wire, Genuine(p), Arrive(p)
    PROVE  /\ CacheOK'
           /\ outcome'.kind = "Complete" =>
                 \E q, h : /\ Gathered(q, p.fragment.id)
                           /\ R!CompleteResult(q) = "Complete"
                           /\ outcome' = R!Completed(p.fragment.id, q, h)
<1> DEFINE f == Received(p)
           id == p.fragment.id
<1>1. p.fragment # None /\ wire' = wire /\ R!Insert(id, f)
    BY DEF Arrive, vars, own_vars
<1>2. R!Live \subseteq DOMAIN partials
    BY DEF R!Live
<1>3. ASSUME NEW Z \in SUBSET R!Live, partials' = R!Restrict(partials, Z) PROVE CacheOK'
    <2>1. \A k \in DOMAIN partials' : k \in DOMAIN partials /\ partials'[k] = partials[k]
        BY <1>2, <1>3, SMTT(30) DEF R!Restrict
    <2>2. \A k \in DOMAIN partials' : Gathered(partials[k], k)'
        BY <1>1, <2>1 DEF CacheOK, Gathered, WrittenWith
    <2> QED
        BY <2>1, <2>2 DEF CacheOK
<1>4. Gathered(R!PartialFor(id), id)
    BY <1>2, NewGathers DEF R!PartialFor, CacheOK
<1>5. CASE R!InsertMalformed(id, f) \/ R!InsertOversize(id, f)
    <2>1. outcome'.kind # "Complete"
        BY <1>5 DEF R!InsertMalformed, R!InsertOversize, R!Returned
    <2>2. partials' = R!Restrict(partials, R!Live \ {id})
        BY <1>5 DEF R!InsertMalformed, R!InsertOversize, R!GcAndRemove
    <2> QED
        BY <1>3, <2>1, <2>2
<1>6. CASE R!InsertWithoutRetaining(id, f)
    <2>1. PICK r : r = R!InsertResult(R!NewPartial, f)
        OBVIOUS
    <2>2. Gathered(r.partial, id) /\ (r.kind = "Complete" => R!CompleteResult(r.partial) = "Complete")
        BY <1>1, <2>1, NewGathers, InsertGathers
    <2>3. /\ R!GcOnly
          /\ outcome' = IF r.kind = "Complete" THEN R!Completed(id, r.partial, R!Extended(id, f))
                        ELSE IF r.kind = "Incomplete" THEN R!Returned("LimitExceeded", id)
                        ELSE R!Returned(r.kind, id)
        BY <1>6, <2>1, ZenonT(60) DEF R!InsertWithoutRetaining
    <2>4. CacheOK'
        BY <1>3, <2>3, SMTT(30) DEF R!GcOnly
    <2>5. \/ r.kind = "Complete" /\ \E h : outcome' = R!Completed(id, r.partial, h)
          \/ outcome'.kind # "Complete"
        BY <2>3, SMTT(30) DEF R!Returned
    <2> QED
        BY <2>2, <2>4, <2>5
<1>7. CASE R!InsertRetaining(id, f)
    <2>1. PICK r : r = R!InsertResult(R!PartialFor(id), f)
        OBVIOUS
    <2>2. Gathered(r.partial, id) /\ (r.kind = "Complete" => R!CompleteResult(r.partial) = "Complete")
        BY <1>1, <1>4, <2>1, InsertGathers
    <2>3. \/ /\ R!GcAndStore(id, r.partial, R!Extended(id, f))
             /\ outcome' = R!Returned("Incomplete", id)
          \/ /\ R!GcAndRemove(id)
             /\ r.kind = "Complete" /\ outcome' = R!Completed(id, r.partial, R!Extended(id, f))
          \/ /\ R!GcAndRemove(id)
             /\ r.kind \in {"LimitExceeded", "Overlap"} /\ outcome' = R!Returned(r.kind, id)
        BY <1>7, <2>1, ZenonT(60) DEF R!InsertRetaining
    <2>4. CASE /\ R!GcAndStore(id, r.partial, R!Extended(id, f))
               /\ outcome' = R!Returned("Incomplete", id)
        <3>1. /\ partials' = [j \in R!Live \cup {id} |-> IF j = id THEN r.partial ELSE partials[j]]
              /\ outcome'.kind = "Incomplete"
            BY <2>4, SMTT(30) DEF R!GcAndStore, R!Returned
        <3>2. \A k \in DOMAIN partials' : Gathered(partials'[k], k)
            BY <1>2, <2>2, <3>1 DEF CacheOK
        <3> QED
            BY <1>1, <3>1, <3>2, ZenonT(30) DEF CacheOK, Gathered, WrittenWith
    <2>5. CASE /\ R!GcAndRemove(id)
               /\ r.kind = "Complete" /\ outcome' = R!Completed(id, r.partial, R!Extended(id, f))
        <3>1. CacheOK'
            BY <1>3, <2>5, SMTT(30) DEF R!GcAndRemove
        <3> QED
            BY <2>2, <2>5, <3>1, ZenonT(30)
    <2>6. CASE /\ R!GcAndRemove(id)
               /\ r.kind \in {"LimitExceeded", "Overlap"} /\ outcome' = R!Returned(r.kind, id)
        <3>1. CacheOK'
            BY <1>3, <2>6, SMTT(30) DEF R!GcAndRemove
        <3>2. outcome'.kind # "Complete"
            BY <2>6, SMTT(30) DEF R!Returned
        <3> QED
            BY <3>1, <3>2
    <2> QED
        BY <2>3, <2>4, <2>5, <2>6, ZenonT(30)
<1> QED
    BY <1>1, <1>5, <1>6, <1>7 DEF R!Insert

\* Every other step leaves what the cache holds gathered: collection of expired partials, time
\* passing, and whatever the sender does.
LEMMA CacheKept ==
    ASSUME CacheOK, wire \subseteq wire', partials' = partials \/ R!Gc \/ R!Tick
    PROVE  CacheOK'
<1> SUFFICES ASSUME NEW k \in DOMAIN partials', NEW q, q = partials'[k] PROVE Gathered(q, k)'
    BY DEF CacheOK, Gathered, WrittenWith
<1>1. k \in DOMAIN partials
    BY DEF R!Gc, R!GcOnly, R!Restrict, R!Live, R!Tick
<1>2. Gathered(partials'[k], k)
    <2>1. CASE partials' = partials
        BY <1>1, <2>1 DEF CacheOK
    <2>2. CASE R!Gc
        BY <1>1, <2>2 DEF CacheOK, R!Gc, R!GcOnly, R!Restrict
    <2>3. CASE R!Tick
        <3>1. PICK age : partials'[k] = [partials[k] EXCEPT !.age = age]
            BY <1>1, <2>3, Zenon DEF R!Tick
        <3> QED
            BY <1>1, <3>1 DEF CacheOK, Gathered
    <2> QED
        BY <2>1, <2>2, <2>3
<1> QED
    BY <1>2, GatheredKept

\* Packets are genuine also after a step that adds only genuine ones.
LEMMA PacketsFrom ==
    ASSUME offered \subseteq offered', issued \subseteq issued',
           \A i \in 1 .. Len(queue') : Genuine(queue'[i]), \A p \in wire' : Genuine(p)
    PROVE  PacketsOK'
BY DEF PacketsOK, Genuine, TakenBy, PieceOf

\* Whatever is queued or written is genuine, if the fragments that are assembled are.
LEMMA PacketsKept ==
    ASSUME SenderInv, [TransferNext]_transfer_vars,
           AssembleFragments => \A i \in DOMAIN result.fragments :
                                   \A len : Genuine(Packet(result.fragments[i], len))
    PROVE  PacketsOK'
<1>1. offered \subseteq offered' /\ issued \subseteq issued'
    BY OfferedKept DEF SenderInv
<1>2. CASE wire' = wire /\ (queue' = queue \/ queue' = <<>>)
    <2>1. \A i \in 1 .. Len(queue') : Genuine(queue'[i])
        BY <1>2, ShortSeqs DEF SenderInv, PacketsOK
    <2> QED
        BY <1>1, <1>2, <2>1, PacketsFrom DEF SenderInv, PacketsOK
<1>3. ASSUME NEW j \in Jobs, Offer(j) PROVE PacketsOK'
    <2>1. wire' = wire
        BY <1>3, CallEffect, SMTT(30) DEF Offer
    <2>2. CASE SendWhole(j)
        <3>1. PICK p : queue' = <<p>> /\ p.fragment = None
            BY <2>2, SMTT(30) DEF SendWhole
        <3>2. \A i \in 1 .. Len(queue') : Genuine(queue'[i])
            BY <3>1, ShortSeqs DEF Genuine
        <3> QED
            BY <1>1, <2>1, <3>2, PacketsFrom DEF SenderInv, PacketsOK
    <2>3. CASE ~SendWhole(j)
        <3>1. queue' = queue
            BY <1>3, <2>3 DEF Offer, Call, SendRejected, SendExhausted, SendFragmented
        <3> QED
            BY <1>2, <2>1, <3>1, SMTT(30)
    <2> QED
        BY <2>2, <2>3
<1>4. CASE AssembleFragments
    <2>1. CASE TooLong
        BY <1>2, <1>4, <2>1, Zenon DEF AssembleFragments
    <2>2. CASE ~TooLong
        <3>1. PICK m \in Nat \ {0} : result.fragments = [i \in 1 .. m |-> result.fragments[i]]
            BY <1>4, Zenon DEF AssembleFragments, SenderInv, WInv, SplitShape
        <3>2. DOMAIN result.fragments = 1 .. m
            BY <3>1, SMTT(30)
        <3>3. queue' = [i \in 1 .. m |->
                          Packet(result.fragments[i], FragmentLen(result.fragments[i]))]
            BY <1>4, <2>2, <3>2, Zenon DEF AssembleFragments
        <3>4. queue' = [i \in 1 .. m |-> queue'[i]]
            BY <3>3
        <3>5. Len(queue') = m
            BY <3>4, FunctionIsSeq
        <3>6. \A i \in 1 .. m : Genuine(Packet(result.fragments[i], FragmentLen(result.fragments[i])))
            BY <1>4, <3>2, Zenon
        <3>7. \A i \in 1 .. Len(queue') : Genuine(queue'[i])
            BY <3>3, <3>5, <3>6
        <3>8. wire' = wire
            BY <1>4 DEF AssembleFragments
        <3>9. \A p \in wire' : Genuine(p)
            BY <3>8, Zenon DEF SenderInv, PacketsOK
        <3> QED
            BY ONLY <1>1, <3>7, <3>9, PacketsFrom, Zenon
    <2> QED
        BY <2>1, <2>2
<1>5. CASE Transmit
    <2>1. PICK n \in Nat : n = Len(queue) /\ n > 0
        <3>1. IsSeq(queue) /\ Len(queue) > 0
            BY <1>5, Zenon DEF Transmit, SenderInv, WInv, Writes
        <3> QED
            BY <3>1, AppendIsSeq, Zenon
    <2>2. /\ Len(queue') = n - 1 /\ Head(queue) = queue[1]
          /\ \A i \in 1 .. (n - 1) : queue'[i] = queue[i + 1]
        BY <1>5, <2>1, TailIsSeq DEF Transmit, SenderInv, WInv, Writes
    <2>3. \A i \in 1 .. n : Genuine(queue[i])
        BY <2>1, SMTT(30) DEF SenderInv, PacketsOK
    <2>4. \A i \in 1 .. Len(queue') : Genuine(queue'[i])
        <3>1. \A i \in 1 .. (n - 1) : i + 1 \in 1 .. n
            OBVIOUS
        <3> QED
            BY <2>2, <2>3, <3>1, SMTT(30)
    <2>5. \A p \in wire' : Genuine(p)
        BY <1>5, <2>1, <2>2, <2>3, SMTT(30) DEF Transmit, SenderInv, PacketsOK
    <2> QED
        BY ONLY <1>1, <2>4, <2>5, PacketsFrom, Zenon
<1>6. CASE SenderStep
    <2>1. Splitting \/ SplitFailed \/ SocketError => wire' = wire /\ (queue' = queue \/ queue' = <<>>)
        BY DEF Splitting, SplitFailed, SocketError, own_vars
    <2> QED
        BY <1>2, <1>4, <1>5, <1>6, <2>1, SMTT(30) DEF SenderStep, Step
<1>7. ASSUME NEW seed \in Seeds, Restart(seed) PROVE PacketsOK'
    BY <1>2, <1>7, SMTT(30) DEF Restart, Rebind
<1>8. CASE (\E p \in wire : Arrive(p)) \/ ReceiverStep \/ UNCHANGED transfer_vars
    BY <1>2, <1>8 DEF Arrive, ReceiverStep, transfer_vars, vars, own_vars
<1> QED
    BY <1>3, <1>6, <1>7, <1>8 DEF TransferNext

\* The configuration of a peer does not change.
LEMMA ConfigKept ==
    ASSUME [TransferNext]_transfer_vars
    PROVE  config' = config
<1>1. ASSUME NEW j \in Jobs, Offer(j) PROVE config' = config
    BY <1>1, CallEffect DEF Offer
<1>2. SenderStep => config' = config
    BY StepEffect DEF SenderStep
<1>3. ASSUME NEW seed \in Seeds, Restart(seed) PROVE config' = config
    BY <1>3 DEF Restart, Rebind
<1>4. (\E p \in wire : Arrive(p)) \/ ReceiverStep \/ UNCHANGED transfer_vars => config' = config
    BY SMTT(30) DEF Arrive, ReceiverStep, transfer_vars, vars, own_vars
<1> QED
    BY <1>1, <1>2, <1>3, <1>4, SMTT(30) DEF TransferNext

LEMMA SenderKept ==
    ASSUME SenderInv, [TransferNext /\ LivesApart']_transfer_vars,
           AssembleFragments => \A i \in DOMAIN result.fragments :
                                   \A len : Genuine(Packet(result.fragments[i], len))
    PROVE  SenderInv'
<1>0. [TransferNext]_transfer_vars
    OBVIOUS
<1>1. WInv'
    BY <1>0, PeerSteps, SplitShapeKept, WritesKept, SMTT(30) DEF SenderInv, WInv
<1>2. IdsOK' /\ OfferedOK' /\ config' \in Configs
    BY <1>0, IdsKept, OfferedKept, ConfigKept DEF SenderInv
<1> QED
    BY <1>0, <1>1, <1>2, PacketsKept, SplitForKept, SMTT(30) DEF SenderInv

LEMMA SenderStarts ==
    ASSUME TransferInit
    PROVE  SenderInv
<1>1. WInv
    BY ShortSeqs, SMTT(30) DEF TransferInit, Init, S!Init, WInv, SplitShape, Writes, RejectedSendsNothing
<1>2. IdsOK /\ OfferedOK /\ PacketsOK /\ SplitFor /\ config \in Configs
    BY SeedsAssumption, SendsAssumption, ShortSeqs
    DEF TransferInit, Init, IdsOK, OfferedOK, PacketsOK, SplitFor
<1> QED
    BY <1>1, <1>2, SMTT(30) DEF SenderInv

-----------------------------------------------------------------------------
\* Delivery

\* What was offered is of the kind the service knows.
OfferedKnown == \A d \in offered : \E n \in 1 .. MaxSends, j \in Jobs : d = Datagram(n, j)

\* What the cache holds stays gathered, and what was offered known, in every step.
LEMMA ReceiverKept ==
    ASSUME SenderInv, OfferedKnown, CacheOK, [TransferNext]_transfer_vars
    PROVE  OfferedKnown' /\ CacheOK'
<1>1. ASSUME NEW j \in Jobs, Offer(j) PROVE OfferedKnown' /\ CacheOK'
    <2>1. wire' = wire /\ partials' = partials /\ job.n + 1 \in 1 .. MaxSends
        BY <1>1, CallEffect, SendsAssumption, SMTT(30) DEF Offer, SenderInv, OfferedOK
    <2>2. OfferedKnown'
        BY <1>1, <2>1 DEF Offer, OfferedKnown
    <2> QED
        BY <2>1, <2>2, CacheKept
<1>2. CASE SenderStep
    <2>1. wire \subseteq wire' /\ partials' = partials /\ offered' = offered
        BY <1>2, StepEffect DEF SenderStep, cache_vars
    <2>2. OfferedKnown'
        BY <2>1 DEF OfferedKnown
    <2>3. CacheOK'
        BY <2>1, CacheKept
    <2> QED
        BY <2>2, <2>3
<1>3. ASSUME NEW seed \in Seeds, Restart(seed) PROVE OfferedKnown' /\ CacheOK'
    <2>1. wire' = wire /\ partials' = partials /\ offered' = offered
        BY <1>3 DEF Restart, Rebind, cache_vars
    <2>2. OfferedKnown'
        BY <2>1 DEF OfferedKnown
    <2>3. CacheOK'
        BY <2>1, CacheKept
    <2> QED
        BY <2>2, <2>3
<1>4. ASSUME NEW p \in wire, Arrive(p) PROVE OfferedKnown' /\ CacheOK'
    <2>1. Genuine(p) /\ OfferedOK /\ CacheOK /\ offered' = offered
        BY <1>4, SMTT(30) DEF SenderInv, PacketsOK, Arrive
    <2> QED
        BY <1>4, <2>1, ArriveGathers DEF OfferedKnown
<1>5. CASE ReceiverStep \/ UNCHANGED transfer_vars
    <2>1. /\ wire' = wire /\ offered' = offered
          /\ partials' = partials \/ R!Gc \/ R!Tick
        BY <1>5 DEF ReceiverStep, transfer_vars, cache_vars, vars, own_vars
    <2>2. OfferedKnown'
        BY <2>1 DEF OfferedKnown
    <2>3. CacheOK'
        BY <2>1, CacheKept, SMTT(30)
    <2> QED
        BY <2>2, <2>3
<1> QED
    BY <1>1, <1>2, <1>3, <1>4, <1>5 DEF TransferNext

\* All that was written with one Identification is cut from one datagram.
LEMMA OneDatagram ==
    ASSUME SenderInv, NEW p \in wire, p.fragment # None
    PROVE  \E d \in offered : /\ 0 < d.tail_len
                              /\ \A w \in WrittenWith(p.fragment.id) :
                                    w.n = d.n /\ PieceOf(w.fragment, d)
<1>1. PICK d \in offered : d.n = p.n /\ 0 < d.tail_len /\ TakenBy(p.fragment.id, d.n)
    BY DEF SenderInv, PacketsOK, Genuine
<1>2. ASSUME NEW w \in WrittenWith(p.fragment.id) PROVE w.n = d.n /\ PieceOf(w.fragment, d)
    <2>1. TakenBy(p.fragment.id, w.n) /\ \E e \in offered : e.n = w.n /\ PieceOf(w.fragment, e)
        BY <1>2, SMTT(30) DEF WrittenWith, SenderInv, PacketsOK, Genuine
    <2>2. w.n = d.n
        BY <1>1, <2>1, SMTT(30) DEF TakenBy, SenderInv, IdsOK
    <2> QED
        BY <2>1, <2>2, SMTT(30) DEF SenderInv, OfferedOK
<1> QED
    BY <1>1, <1>2, SMTT(30)

\* Different datagrams share no bytes.
LEMMA SliceTells ==
    ASSUME NEW m, NEW n, NEW a \in Nat, NEW b \in Nat, a < b, Slice(m, a, b) = Slice(n, a, b)
    PROVE  m = n
BY DEF Slice

\* A tail without gaps that holds slices of datagram n only is recognised as that of n.
LEMMA TailTells ==
    ASSUME outcome'.kind = "Complete", NEW n \in 1 .. MaxSends,
           outcome'.tail_len \in Nat, 0 < outcome'.tail_len,
           \A c \in outcome'.tail : /\ c.start \in Nat /\ c.end \in Nat /\ c.start < c.end
                                    /\ c.data = Slice(n, c.start, c.end),
           \A x \in Nat : x < outcome'.tail_len =>
                             \E c \in outcome'.tail : c.start <= x /\ x < c.end
    PROVE  Reassembled' = [n |-> n, tail_len |-> outcome'.tail_len,
                           udp_length |-> outcome'.udp_length]
<1> DEFINE of == {m \in 1 .. MaxSends : HoldsTailOf(m, outcome')}
<1>1. n \in of
    BY SMTT(30) DEF HoldsTailOf
<1>2. ASSUME NEW m \in of PROVE m = n
    <2>1. PICK c \in outcome'.tail : c.data = Slice(m, c.start, c.end)
        BY DEF HoldsTailOf
    <2> QED
        BY <2>1, SliceTells, SMTT(30)
<1>3. of # {} /\ (CHOOSE m \in of : TRUE) = n
    <2> HIDE DEF of
    <2> QED
        BY <1>1, <1>2, SMTT(30)
<1> HIDE DEF of
<1>4. Reassembled' = [n |-> IF of = {} THEN 0 ELSE CHOOSE m \in of : TRUE,
                      tail_len |-> outcome'.tail_len, udp_length |-> outcome'.udp_length]
    BY DEF Reassembled, HoldsTailOf, of
<1> QED
    BY <1>3, <1>4, Zenon

\* A datagram that is completed is one that was offered, if what complete() accepts has no gaps.
LEMMA DeliversOffered ==
    ASSUME SenderInv, OfferedKnown, NEW p \in wire, p.fragment # None, NEW q, NEW h,
           Gathered(q, p.fragment.id), outcome' = R!Completed(p.fragment.id, q, h),
           q.terminal_end # None,
           \A x \in Nat : x < q.terminal_end => \E s \in q.segments : s.start <= x /\ x < s.end
    PROVE  Reassembled' \in offered
<1>1. PICK d \in offered : /\ 0 < d.tail_len
                           /\ \A w \in WrittenWith(p.fragment.id) :
                                 w.n = d.n /\ PieceOf(w.fragment, d)
    BY OneDatagram, SMTT(30)
<1>2. d.n \in 1 .. MaxSends /\ d.tail_len \in Nat
    BY SendsAssumption, SMTT(30) DEF SenderInv, OfferedOK
<1>3. PICK w \in WrittenWith(p.fragment.id) :
          w.fragment.rdos # None /\ w.fragment.rdos = q.udp_length /\ w.fragment.to = q.terminal_end
    BY Zenon DEF Gathered
<1>4. q.terminal_end = d.tail_len /\ q.udp_length = d.udp_length
    BY <1>1, <1>3, Zenon DEF PieceOf
<1>5. \A s \in q.segments : /\ s.start \in Nat /\ s.end \in Nat /\ s.start < s.end
                            /\ s.data = Slice(d.n, s.start, s.end)
    BY <1>1, Zenon DEF Gathered, CarriedBy
<1>6. \A x \in Nat : x < d.tail_len => \E s \in q.segments : s.start <= x /\ x < s.end
    BY <1>4, Zenon
<1>7. /\ outcome'.kind = "Complete"
      /\ outcome'.tail_len = d.tail_len /\ outcome'.udp_length = d.udp_length
      /\ outcome'.tail = {[start |-> s.start, end |-> s.end, data |-> s.data] : s \in q.segments}
    BY <1>4, Zenon DEF R!Completed
<1>8. \A c \in outcome'.tail : /\ c.start \in Nat /\ c.end \in Nat /\ c.start < c.end
                               /\ c.data = Slice(d.n, c.start, c.end)
    BY ONLY <1>5, <1>7, SMT
<1>9. \A x \in Nat : x < d.tail_len => \E c \in outcome'.tail : c.start <= x /\ x < c.end
    <2> SUFFICES ASSUME NEW x \in Nat, x < d.tail_len
                 PROVE  \E c \in outcome'.tail : c.start <= x /\ x < c.end
        BY Zenon
    <2>1. PICK s \in q.segments : s.start <= x /\ x < s.end
        BY <1>6
    <2>2. PICK c : c = [start |-> s.start, end |-> s.end, data |-> s.data]
        BY Zenon
    <2>3. c \in outcome'.tail
        BY <1>7, <2>2, Zenon
    <2>4. c.start = s.start /\ c.end = s.end
        BY <2>2, Zenon
    <2> QED
        BY <2>1, <2>3, <2>4, Zenon
<1>10. Reassembled' = [n |-> d.n, tail_len |-> d.tail_len, udp_length |-> d.udp_length]
    BY <1>1, <1>2, <1>7, <1>8, <1>9, TailTells, ZenonT(60)
<1>11. d = [n |-> d.n, tail_len |-> d.tail_len, udp_length |-> d.udp_length]
    BY DEF OfferedKnown, Datagram
<1> QED
    BY <1>10, <1>11, Zenon

\* What complete() accepts has no gaps.
WalkCovers ==
    \A q : /\ \A s \in q.segments : s.start \in Nat /\ s.end \in Nat /\ s.start < s.end
           /\ R!CompleteResult(q) = "Complete"
           => \A x \in Nat : x < q.terminal_end =>
                                \E s \in q.segments : s.start <= x /\ x < s.end

\* What an arrival completes was offered, if what complete() accepts has no gaps.
LEMMA CompletesOffered ==
    ASSUME SenderInv, OfferedKnown, CacheOK, WalkCovers,
           NEW p \in wire, Arrive(p), outcome'.kind = "Complete"
    PROVE  Reassembled' \in offered
<1>1. Genuine(p) /\ OfferedOK /\ CacheOK /\ p.fragment # None
    BY DEF SenderInv, PacketsOK, Arrive
<1>2. PICK q, h : /\ Gathered(q, p.fragment.id) /\ R!CompleteResult(q) = "Complete"
                  /\ outcome' = R!Completed(p.fragment.id, q, h)
    BY <1>1, ArriveGathers
<1>3. q.terminal_end # None
    BY <1>2, SMTT(30) DEF R!CompleteResult
<1>4. \A s \in q.segments : s.start \in Nat /\ s.end \in Nat /\ s.start < s.end
    BY <1>2 DEF Gathered, CarriedBy
<1>5. \A x \in Nat : x < q.terminal_end => \E s \in q.segments : s.start <= x /\ x < s.end
    BY <1>2, <1>4, Zenon DEF WalkCovers
<1> QED
    BY <1>1, <1>2, <1>3, <1>5, DeliversOffered, Zenon

\* Every step is a step of the service, or changes nothing the service speaks of, if what
\* At first nothing is offered and nothing delivered.
LEMMA ServiceStarts == TransferInit => Service!Init
<1>1. TransferInit => outcome.kind # "Complete"
    BY DEF TransferInit, R!Init
<1> QED
    BY <1>1, Zenon DEF TransferInit, Service!Init, Reassembled

\* complete() accepts has no gaps.
LEMMA ServiceStep ==
    ASSUME SenderInv, OfferedKnown, CacheOK, WalkCovers, [TransferNext]_transfer_vars
    PROVE  [Service!Next]_Service!vars
<1>1. CASE outcome'.kind # "Complete" /\ offered' = offered
    BY <1>1, SMTT(30) DEF Service!Next, Service!Quiet, Reassembled
<1>2. CASE outcome' = outcome /\ offered' = offered
    BY <1>2, SMTT(30) DEF Service!vars, Reassembled, HoldsTailOf
<1>3. ASSUME NEW j \in Jobs, Offer(j) PROVE Service!Next
    <2>1. job.n + 1 \in 1 .. MaxSends
        BY <1>3, CallEffect, SendsAssumption, SMTT(30) DEF Offer, SenderInv, OfferedOK
    <2>2. PICK d \in {Datagram(n, i) : n \in 1 .. MaxSends, i \in Jobs} :
             offered' = offered \cup {d}
        BY <1>3, <2>1, SMTT(30) DEF Offer
    <2>3. Reassembled' = None
        BY <1>3 DEF Offer, Reassembled
    <2> QED
        BY <2>2, <2>3, SMTT(30) DEF Service!Next, Service!Offer
<1>4. ASSUME NEW p \in wire, Arrive(p) PROVE Service!Next
    <2>1. offered' = offered
        BY <1>4 DEF Arrive
    <2>2. CASE outcome'.kind = "Complete"
        <3>1. Reassembled' \in offered
            BY <1>4, <2>2, CompletesOffered
        <3>2. Reassembled' \in {Datagram(n, j) : n \in 1 .. MaxSends, j \in Jobs}
            BY <3>1 DEF OfferedKnown
        <3> QED
            BY <2>1, <3>1, <3>2 DEF Service!Next, Service!Deliver
    <2>3. CASE outcome'.kind # "Complete"
        BY <2>1, <2>3 DEF Service!Next, Service!Quiet, Reassembled
    <2> QED
        BY <2>2, <2>3
<1>5. CASE SenderStep \/ (\E seed \in Seeds : Restart(seed)) \/ UNCHANGED transfer_vars
    BY <1>2, <1>5 DEF SenderStep, Restart, transfer_vars, cache_vars
<1>6. CASE ReceiverStep
    <2>1. outcome'.kind # "Complete" /\ offered' = offered
        BY <1>6, SMTT(30) DEF ReceiverStep, R!Gc, R!Tick
    <2> QED
        BY <1>1, <2>1
<1> QED
    BY <1>3, <1>4, <1>5, <1>6, SMTT(30) DEF TransferNext

-----------------------------------------------------------------------------
\* split_datagram

SP == INSTANCE FragSplitProofs WITH Requests <- S!RequestType

\* While send() is splitting, the invariant of split_datagram holds.
SplitGood == call = "splitting" => SP!IInv

TransferInv == SenderInv /\ SplitGood /\ OfferedKnown /\ CacheOK

\* What FragSplitProofs assumes holds of this instance.
LEMMA SplitAssumptions == SP!RequestsAssumption /\ SP!NoneAssumption
<1>1. [payload_len |-> 0, body_len |-> 0, max_surplus |-> 0, peer_size |-> 0, peer_segments |-> 0,
       id |-> 0] \in S!RequestType
    BY DEF S!RequestType, S!U16Max
<1>2. SP!RequestType = S!RequestType
    BY DEF SP!RequestType, S!RequestType, SP!U16Max, S!U16Max
<1>3. SP!SplitErrors = S!SplitErrors
    BY DEF SP!SplitErrors, S!SplitErrors
<1> QED
    BY <1>1, <1>2, <1>3, NoneAssumption, NoneNoError, Zenon
    DEF SP!RequestsAssumption, SP!NoneAssumption

\* The two instances of split_datagram compute the same.
LEMMA SameLengths ==
    /\ S!UdpHeader = SP!UdpHeader /\ S!U16Max = SP!U16Max /\ S!OcsLen = SP!OcsLen
    /\ S!TerminalBodyLen = SP!TerminalBodyLen /\ S!NonTerminalBodyLen = SP!NonTerminalBodyLen
    /\ S!FragmentSurplusLenMax = SP!FragmentSurplusLenMax
    /\ \A r : /\ S!TailLen(r) = SP!TailLen(r) /\ S!Rdos(r) = SP!Rdos(r)
              /\ S!TerminalCapacity(r) = SP!TerminalCapacity(r)
              /\ S!NonTerminalCapacity(r) = SP!NonTerminalCapacity(r)
<1>1. /\ S!UdpHeader = SP!UdpHeader /\ S!U16Max = SP!U16Max /\ S!OcsLen = SP!OcsLen
      /\ S!TerminalBodyLen = SP!TerminalBodyLen /\ S!NonTerminalBodyLen = SP!NonTerminalBodyLen
    BY DEF S!UdpHeader, SP!UdpHeader, S!U16Max, SP!U16Max, S!OcsLen, SP!OcsLen,
           S!TerminalBodyLen, SP!TerminalBodyLen, S!NonTerminalBodyLen, SP!NonTerminalBodyLen
<1>2. S!FragmentSurplusLenMax = SP!FragmentSurplusLenMax
    BY <1>1, Zenon DEF S!FragmentSurplusLenMax, SP!FragmentSurplusLenMax, S!Ipv4Header, SP!Ipv4Header
<1>3. \A r : S!TailLen(r) = SP!TailLen(r) /\ S!Rdos(r) = SP!Rdos(r)
    BY <1>1, Zenon DEF S!TailLen, SP!TailLen, S!PadLen, SP!PadLen, S!Rdos, SP!Rdos
<1>4. \A r : /\ S!TerminalCapacity(r) = SP!TerminalCapacity(r)
             /\ S!NonTerminalCapacity(r) = SP!NonTerminalCapacity(r)
    BY <1>1, Zenon DEF S!TerminalCapacity, SP!TerminalCapacity, S!NonTerminalCapacity,
                       SP!NonTerminalCapacity
<1> QED
    BY <1>1, <1>2, <1>3, <1>4, Zenon

LEMMA SameResult ==
    ASSUME NEW rs
    PROVE  S!ResultOf(rs) = SP!ResultOf(rs)
<1>1. \A i : S!Offset(rs, i) = SP!Offset(rs, i)
    BY SameLengths, Zenon DEF S!Offset, SP!Offset
<1>2. \A i : S!Fragment(rs, i) = SP!Fragment(rs, i)
    BY <1>1, SameLengths, Zenon DEF S!Fragment, SP!Fragment
<1> QED
    BY <1>1, <1>2, SameLengths, Zenon DEF S!ResultOf, SP!ResultOf, S!Failure, SP!Failure

\* split_datagram establishes its invariant when it is called, and keeps it.
LEMMA SplitStarts ==
    ASSUME NEW r \in S!RequestType, S!SplitDatagram(r)
    PROVE  SP!IInv'
<1>1. S!Rejection(r) = SP!Rejection(r)
    BY SameLengths, Zenon DEF S!Rejection, SP!Rejection
<1>2. SP!SplitDatagram(r)
    BY <1>1, SameLengths, Zenon DEF S!SplitDatagram, SP!SplitDatagram, S!Failure, SP!Failure
<1>3. r \in SP!RequestType
    BY SplitAssumptions, SMTT(30) DEF SP!RequestsAssumption
<1> QED
    BY <1>2, <1>3, SplitAssumptions, SP!SplitDatagramOK, SMTT(30) DEF SP!SplitDatagramOK

LEMMA SplitGoesOn ==
    ASSUME SP!IInv, S!ChunkStep \/ S!ChunkDone \/ UNCHANGED split_vars
    PROVE  SP!IInv'
<1>1. S!Take = SP!Take
    BY SameLengths, Zenon DEF S!Take, SP!Take
<1>2. S!ChunkStep => SP!ChunkStep
    BY <1>1, SameLengths, Zenon DEF S!ChunkStep, SP!ChunkStep
<1>3. S!ChunkDone => SP!ChunkDone
    BY SameLengths, SameResult, Zenon DEF S!ChunkDone, SP!ChunkDone
<1>4. SP!Next \/ UNCHANGED SP!vars
    BY <1>2, <1>3, SMTT(30) DEF SP!Next, SP!vars, split_vars
<1> QED
    BY <1>4, SplitAssumptions, SP!NextStep, SMTT(30) DEF SP!NextStep

\* The invariant of split_datagram is kept.
LEMMA SplitKept ==
    ASSUME SenderInv, SplitGood, [TransferNext]_transfer_vars
    PROVE  SplitGood'
<1> SUFFICES ASSUME call' = "splitting" PROVE SP!IInv'
    BY DEF SplitGood
<1>1. ASSUME NEW r \in S!RequestType, S!SplitDatagram(r) PROVE SP!IInv'
    BY <1>1, SplitStarts, SMTT(30)
<1>2. ASSUME call = "splitting", S!ChunkStep \/ S!ChunkDone \/ UNCHANGED split_vars PROVE SP!IInv'
    BY <1>2, SplitGoesOn, SMTT(30) DEF SplitGood
<1> QED
    BY <1>1, <1>2, SplitMoves, SMTT(30)

\* The fragments split_datagram returns are pieces of the datagram of the call.
LEMMA FragmentsGenuine ==
    ASSUME SenderInv, SplitGood, call = "splitting", result.kind = "Ok"
    PROVE  \A i \in DOMAIN result.fragments :
              \A len : Genuine(Packet(result.fragments[i], len))
<1>1. PICK d \in offered : /\ d.n = job.n /\ 0 < d.tail_len /\ d.tail_len \in Nat
                           /\ d.tail_len = SP!TailLen(req) /\ d.udp_length = SP!Rdos(req)
    BY SameLengths, SMTT(30) DEF SenderInv, SplitFor, OfferedOK
<1>2. /\ req.peer_size \in Nat /\ req.peer_size <= UdpHeader + TailMax
      /\ TakenBy(req.id, job.n)
    BY DEF SenderInv, SplitFor
<1>3. /\ SP!UdpHeader + SP!TailLen(req) <= req.peer_size
      /\ \A i \in DOMAIN result.fragments : SP!CarriesRange(result.fragments[i], req)
    BY SplitAssumptions, SP!FragmentsCarryRanges, SMTT(30) DEF SplitGood, SP!FragmentsCarryRanges
<1>4. UdpHeader = 8 /\ SP!UdpHeader = 8
    BY SMTT(30) DEF UdpHeader, SP!UdpHeader
<1>5. d.tail_len <= TailMax
    BY <1>1, <1>2, <1>3, <1>4, TailMaxAssumption, SMTT(30)
<1> SUFFICES ASSUME NEW i \in DOMAIN result.fragments, NEW len,
                    NEW f, f = result.fragments[i]
             PROVE  Genuine(Packet(f, len))
    BY Zenon
<1>6. PieceOf(f, d) /\ f.id = req.id
    BY <1>1, <1>3, <1>4, SMTT(30) DEF PieceOf, SP!CarriesRange
<1>7. Packet(f, len).n = job.n /\ Packet(f, len).fragment = f
    BY SMTT(30) DEF Packet
<1> QED
    BY <1>1, <1>2, <1>5, <1>6, <1>7, ZenonT(60) DEF Genuine

LEMMA TransferStarts ==
    ASSUME TransferInit
    PROVE  TransferInv
BY SenderStarts, SMTT(30) DEF TransferInit, Init, TransferInv, SplitGood, OfferedKnown, CacheOK, R!Init

LEMMA TransferKept ==
    ASSUME TransferInv, [TransferNext /\ LivesApart']_transfer_vars
    PROVE  TransferInv'
<1>0. [TransferNext]_transfer_vars
    OBVIOUS
<1>1. AssembleFragments => \A i \in DOMAIN result.fragments :
                              \A len : Genuine(Packet(result.fragments[i], len))
    BY FragmentsGenuine, Zenon DEF AssembleFragments, TransferInv
<1>2. SenderInv'
    BY <1>1, SenderKept, SMTT(30) DEF TransferInv
<1>3. SplitGood'
    BY <1>0, SplitKept DEF TransferInv
<1>4. OfferedKnown' /\ CacheOK'
    BY <1>0, ReceiverKept DEF TransferInv
<1> QED
    BY <1>2, <1>3, <1>4, SMTT(30) DEF TransferInv

\* Whatever the network does and wherever the sender fails, as long as its lives share no
\* Identification: what is written is cut from the datagram of its call, and what the cache holds
\* was written.
THEOREM TransferInvariance == TransferSpec => []TransferInv
BY TransferStarts, TransferKept, PTL DEF TransferSpec

-----------------------------------------------------------------------------
\* The walk of complete() visits every byte of the tail (ReassemblyProofs).
RP == INSTANCE ReassemblyProofs
      WITH Keys <- 0 .. IdMax, Data <- Slices, DataLen <- SliceLen,
           OptionLists <- {PlainOptions}, Tokens <- {}, Kinds <- {}, Fragments <- {}

LEMMA CompleteCovers == WalkCovers
<1>1. RP!DataAssumption
    BY TailMaxAssumption, SMTT(30) DEF RP!DataAssumption, SliceLen, Slices
<1>2. /\ RP!NoneAssumption /\ RP!OptionListsAssumption
      /\ RP!FragmentsAssumption /\ RP!LimitsAssumption
    BY NoneAssumption, ReceiverAssumption, SMTT(30)
    DEF RP!NoneAssumption, RP!OptionListsAssumption, RP!FragmentsAssumption,
        RP!LimitsAssumption, RP!OptionListType, PlainOptions
<1>3. \A Z : RP!CursorAfter(Z) = R!CursorAfter(Z)
    BY ZenonT(60) DEF RP!CursorAfter, R!CursorAfter
<1>4. \A Z, s : RP!Before(Z, s) = R!Before(Z, s)
    BY ZenonT(60) DEF RP!Before, R!Before
<1>5. \A Z : RP!Mismatches(Z) = R!Mismatches(Z)
    BY <1>3, <1>4, ZenonT(60) DEF RP!Mismatches, R!Mismatches
<1>6. ASSUME NEW q, R!CompleteResult(q) = "Complete" PROVE RP!CompleteResult(q) = "Complete"
    BY <1>3, <1>4, <1>5, <1>6, ZenonT(60) DEF RP!CompleteResult, R!CompleteResult
<1> SUFFICES ASSUME NEW q, R!CompleteResult(q) = "Complete",
                    \A s \in q.segments : s.start \in Nat /\ s.end \in Nat /\ s.start < s.end,
                    NEW x \in Nat, x < q.terminal_end
             PROVE  \E s \in q.segments : s.start <= x /\ x < s.end
    BY ZenonT(60) DEF WalkCovers
<1>7. RP!Extents(q.segments)
    BY ZenonT(60) DEF RP!Extents
<1> QED
    BY <1>1, <1>2, <1>6, <1>7, RP!CompleteCovers, Zenon DEF RP!CompleteCovers

\* Fragmentation end to end implements DatagramService: a sender that may fail anywhere, a network
\* that loses, repeats and reorders, and a cache that expires and refuses, deliver nothing but
\* datagrams that were offered, whole and unmixed, as long as the lives of the sender share no
\* Identification.
THEOREM OnlySentDelivered == TransferSpec => DeliversOnlySent
<1>1. TransferInit => Service!Init
    BY ServiceStarts, Zenon
<1>2. TransferInv /\ [TransferNext /\ LivesApart']_transfer_vars => [Service!Next]_Service!vars
    BY ServiceStep, CompleteCovers, Zenon DEF TransferInv
<1> QED
    BY <1>1, <1>2, TransferInvariance, PTL DEF TransferSpec, DeliversOnlySent, Service!Spec

=============================================================================
