--------------------------- MODULE FragSplitProofs ---------------------------
(***************************************************************************)
(* split_datagram() for every request: the tiling, the size limits, the    *)
(* minimal number of fragments and the alignment of the options.           *)
(*                                                                         *)
(* The argument is the loop invariant of chunk_ranges(): the ranges pushed *)
(* so far continue each other from zero to start, the bytes before start   *)
(* and the remaining ones add up to the tail, and every range but the last *)
(* is as long as a non-terminal fragment can be.                           *)
(***************************************************************************)
EXTENDS FragSplit, TLAPS

\* A range of the loop: not terminal, not empty, within the capacity of a fragment.
RangeOK(x, r) ==
    /\ ~x.terminal
    /\ x.start < x.end
    /\ x.end - x.start <= NonTerminalCapacity(r)

\* The ranges rs continue each other from zero to s.
Chain(rs, s) ==
    /\ Len(rs) = 0 => s = 0
    /\ Len(rs) > 0 => rs[1].start = 0 /\ rs[Len(rs)].end = s
    /\ \A i \in 1 .. (Len(rs) - 1) : rs[i].end = rs[i + 1].start
    /\ \A i \in 1 .. Len(rs) : rs[i].end <= s

\* While bytes remain for another range all ranges are full; the last one may be short.
Filled ==
    /\ remaining > TerminalCapacity(req) => start = Len(ranges) * NonTerminalCapacity(req)
    /\ Len(ranges) > 0 =>
          /\ remaining >= TerminalCapacity(req)
          /\ (Len(ranges) - 1) * NonTerminalCapacity(req) < start

LoopInv ==
    pc = "chunking" =>
        /\ Rejection(req) = None
        /\ result.kind = "None"
        /\ start + remaining = TailLen(req)
        /\ Chain(ranges, start)
        /\ \A i \in 1 .. Len(ranges) : RangeOK(ranges[i], req)
        /\ Filled

\* Every fragment is a slice of the tail and carries the Identification of the request and, unless
\* it is alone, the place of its data in the reassembled datagram.
FragmentsPlaced ==
    result.kind = "Ok" =>
        \A i \in DOMAIN result.fragments :
            LET f == result.fragments[i] IN
            /\ f.to <= TailLen(req)
            /\ f.id = req.id
            /\ f.offset = IF Len(result.fragments) = 1 THEN 0 ELSE UdpHeader + f.from

ReturnOK == SplitTiles /\ FragmentsFit /\ FewestFragments /\ FragmentsPlaced

IInv == TypeOK /\ LoopInv /\ ReturnOK

-----------------------------------------------------------------------------
LEMMA TailLenNat ==
    ASSUME NEW r \in RequestType
    PROVE  TailLen(r) \in Nat
BY DEF RequestType, TailLen, PadLen

LEMMA RangeElement ==
    ASSUME NEW rs \in Seq(RangeType), NEW i \in 1 .. Len(rs)
    PROVE  rs[i].start \in Nat /\ rs[i].end \in Nat /\ rs[i].terminal \in BOOLEAN
<1>1. rs[i] \in RangeType
  OBVIOUS
<1> QED BY <1>1 DEF RangeType

LEMMA FragmentElement ==
    ASSUME NEW fs \in Seq(FragmentType), NEW i \in DOMAIN fs
    PROVE  fs[i].surplus_len \in Nat /\ fs[i].to \in Nat
<1>1. fs[i] \in FragmentType
  OBVIOUS
<1> QED BY <1>1 DEF FragmentType

LEMMA PeerSizeNat ==
    ASSUME NEW r \in RequestType
    PROVE  r.peer_size \in Nat
<1>1. U16Max \in Nat
  BY DEF U16Max
<1> QED BY <1>1 DEF RequestType

\* What the checks before the loop leave for it.
LEMMA AdmittedCapacities ==
    ASSUME NEW r \in RequestType, Rejection(r) = None
    PROVE  /\ TerminalCapacity(r) \in Nat
           /\ NonTerminalCapacity(r) = TerminalCapacity(r) + 2
           /\ r.max_surplus <= FragmentSurplusLenMax
           /\ UdpHeader + TailLen(r) <= r.peer_size
           /\ r.peer_size <= U16Max /\ r.peer_segments \in Nat
<1>1. /\ ~(r.max_surplus > FragmentSurplusLenMax)
      /\ ~(UdpHeader + TailLen(r) > r.peer_size)
      /\ ~(r.max_surplus < TerminalBodyLen)
  BY NoneAssumption DEF Rejection, SplitErrors
<1>2. /\ r.max_surplus \in Nat /\ r.peer_size \in 0 .. U16Max /\ r.peer_segments \in Nat
      /\ TailLen(r) \in Nat
  BY TailLenNat DEF RequestType
<1>3. r.max_surplus >= 14
  BY <1>1, <1>2 DEF TerminalBodyLen, OcsLen
<1>4. TerminalCapacity(r) = r.max_surplus - 14 /\ NonTerminalCapacity(r) = r.max_surplus - 12
  BY <1>2, <1>3 DEF TerminalCapacity, NonTerminalCapacity, TerminalBodyLen,
                    NonTerminalBodyLen, OcsLen
<1>5. TerminalCapacity(r) \in Nat /\ NonTerminalCapacity(r) = TerminalCapacity(r) + 2
  BY <1>2, <1>3, <1>4
<1>6. FragmentSurplusLenMax \in Nat /\ U16Max \in Nat /\ UdpHeader \in Nat
  BY DEF FragmentSurplusLenMax, U16Max, UdpHeader, Ipv4Header
<1>7. r.max_surplus <= FragmentSurplusLenMax /\ r.peer_size \in Nat /\ r.peer_size <= U16Max
  BY <1>1, <1>2, <1>6
<1>8. UdpHeader + TailLen(r) <= r.peer_size
  BY <1>1, <1>2, <1>6, <1>7
<1> QED BY <1>2, <1>5, <1>7, <1>8

\* Take is at least one byte, at most a full range, and leaves what the terminal fragment takes.
LEMMA TakeBounds ==
    ASSUME TypeOK, Rejection(req) = None, remaining > TerminalCapacity(req)
    PROVE  /\ Take \in Nat /\ 0 < Take
           /\ Take <= NonTerminalCapacity(req)
           /\ Take <= remaining - TerminalCapacity(req)
           /\ Take = NonTerminalCapacity(req) \/ Take = remaining - TerminalCapacity(req)
BY AdmittedCapacities DEF TypeOK, Take

\* Appending a range: the chain goes on.
LEMMA AppendRange ==
    ASSUME NEW rs \in Seq(RangeType), NEW x \in RangeType, Chain(rs, x.start),
           x.start <= x.end
    PROVE  /\ Append(rs, x) \in Seq(RangeType)
           /\ Len(Append(rs, x)) = Len(rs) + 1
           /\ Append(rs, x)[Len(rs) + 1] = x
           /\ \A i \in 1 .. Len(rs) : Append(rs, x)[i] = rs[i]
           /\ Chain(Append(rs, x), x.end)
<1> DEFINE q == Append(rs, x)
<1>1. /\ q \in Seq(RangeType) /\ Len(q) = Len(rs) + 1 /\ q[Len(rs) + 1] = x
      /\ \A i \in 1 .. Len(rs) : q[i] = rs[i]
      /\ Len(rs) \in Nat
  OBVIOUS
<1> HIDE DEF q
<1>2. q[1].start = 0
  BY <1>1 DEF Chain
<1>3. ASSUME NEW i \in 1 .. (Len(q) - 1) PROVE q[i].end = q[i + 1].start
  <2>1. CASE i = Len(rs)
    BY <1>1, <2>1 DEF Chain
  <2>2. CASE i # Len(rs)
    <3>1. i \in 1 .. (Len(rs) - 1) /\ i + 1 \in 1 .. Len(rs) /\ i \in 1 .. Len(rs)
      BY <1>1, <2>2
    <3> QED BY <1>1, <3>1 DEF Chain
  <2> QED BY <2>1, <2>2
<1>4. \A i \in 1 .. Len(q) : q[i].end <= x.end
  <2>1. x.start \in Nat /\ x.end \in Nat /\ \A i \in 1 .. Len(rs) : rs[i].end \in Nat
    BY RangeElement DEF RangeType
  <2>2. \A i \in 1 .. Len(rs) : rs[i].end <= x.end
    BY <2>1 DEF Chain
  <2> QED BY <1>1, <2>1, <2>2
<1>5. Chain(q, x.end)
  BY <1>1, <1>2, <1>3, <1>4 DEF Chain
<1> QED BY <1>1, <1>5 DEF q

LEMMA ChunkStepOK ==
    ASSUME IInv, ChunkStep
    PROVE  IInv'
<1> DEFINE x == [start |-> start, end |-> start + Take, terminal |-> FALSE]
           nt == NonTerminalCapacity(req)
           t == TerminalCapacity(req)
           n == Len(ranges)
<1>1. /\ pc = "chunking" /\ TypeOK /\ remaining > t
      /\ Rejection(req) = None /\ result.kind = "None"
      /\ start + remaining = TailLen(req)
      /\ Chain(ranges, start)
      /\ \A i \in 1 .. Len(ranges) : RangeOK(ranges[i], req)
      /\ Filled
  BY DEF IInv, LoopInv, ChunkStep
<1>2. /\ Take \in Nat /\ 0 < Take /\ Take <= nt /\ Take <= remaining - t
      /\ Take = nt \/ Take = remaining - t
  BY <1>1, TakeBounds
<1>3. t \in Nat /\ nt = t + 2 /\ nt \in Nat
  BY <1>1, AdmittedCapacities DEF TypeOK
<1>4. start \in Nat /\ remaining \in Nat /\ ranges \in Seq(RangeType) /\ n \in Nat
  BY <1>1 DEF TypeOK
<1>5. /\ ranges' = Append(ranges, x) /\ start' = start + Take /\ remaining' = remaining - Take
      /\ req' = req /\ pc' = pc /\ result' = result
  BY DEF ChunkStep
<1>6. x \in RangeType /\ x.start = start /\ x.end = start + Take /\ x.start <= x.end
  BY <1>2, <1>4 DEF RangeType
<1>7. /\ ranges' \in Seq(RangeType) /\ Len(ranges') = n + 1 /\ ranges'[n + 1] = x
      /\ \A i \in 1 .. n : ranges'[i] = ranges[i]
      /\ Chain(ranges', start')
  BY <1>1, <1>4, <1>5, <1>6, AppendRange
<1>8. TypeOK'
  BY <1>1, <1>2, <1>3, <1>4, <1>5, <1>7 DEF TypeOK
<1>9. \A i \in 1 .. Len(ranges') : RangeOK(ranges'[i], req)
  BY <1>1, <1>2, <1>4, <1>6, <1>7 DEF RangeOK
<1>10. Filled'
  <2>1. start = n * nt
    BY <1>1 DEF Filled
  <2>2. (n + 1) * nt = n * nt + nt /\ n * nt \in Nat
    BY <1>3, <1>4
  <2>3. remaining' > t => start' = (n + 1) * nt
    <3>1. remaining' > t => Take = nt
      BY <1>2, <1>3, <1>4, <1>5
    <3>2. Take = nt => start' = n * nt + nt
      BY <1>5, <2>1
    <3> QED BY <2>2, <3>1, <3>2
  <2>4. remaining' >= t
    BY <1>2, <1>3, <1>4, <1>5
  <2>5. n * nt < start'
    BY <1>2, <1>4, <1>5, <2>1, <2>2
  <2>6. Len(ranges') - 1 = n
    BY <1>4, <1>7
  <2> QED BY <1>5, <1>7, <2>3, <2>4, <2>5, <2>6
          DEF Filled, TerminalCapacity, NonTerminalCapacity
<1>11. LoopInv'
  <2>1. start' + remaining' = TailLen(req')
    BY <1>1, <1>2, <1>4, <1>5
  <2>2. Rejection(req)' = None
    BY <1>1, <1>5 DEF Rejection, Rdos, TailLen, PadLen, TerminalCapacity, NonTerminalCapacity
  <2> QED BY <1>1, <1>5, <1>7, <1>9, <1>10, <2>1, <2>2
          DEF LoopInv, TailLen, PadLen, RangeOK, NonTerminalCapacity, Chain
<1>12. ReturnOK'
  BY <1>1, <1>5 DEF ReturnOK, SplitTiles, FragmentsFit, FewestFragments, FragmentsPlaced, Failure
<1> QED BY <1>8, <1>11, <1>12 DEF IInv

\* The fragments made of a finished chain of ranges.
LEMMA FragmentsOK ==
    ASSUME TypeOK, Rejection(req) = None, NEW rs \in Seq(RangeType), Len(rs) > 0,
           Chain(rs, TailLen(req)),
           \A i \in 1 .. (Len(rs) - 1) : RangeOK(rs[i], req),
           rs[Len(rs)].terminal, rs[Len(rs)].start <= rs[Len(rs)].end,
           rs[Len(rs)].end - rs[Len(rs)].start <= TerminalCapacity(req),
           NEW fs, fs = [i \in DOMAIN rs |-> Fragment(rs, i)]
    PROVE  /\ fs \in Seq(FragmentType) /\ Len(fs) = Len(rs)
           /\ TilesTail(fs, req)
           /\ \A i \in DOMAIN fs : /\ fs[i].surplus_len <= req.max_surplus
                                   /\ fs[i].to <= TailLen(req)
                                   /\ fs[i].id = req.id
                                   /\ fs[i].offset = IF Len(fs) = 1 THEN 0
                                                     ELSE UdpHeader + fs[i].from
<1> DEFINE n == Len(rs)
           nt == NonTerminalCapacity(req)
           t == TerminalCapacity(req)
<1>1. /\ t \in Nat /\ nt = t + 2 /\ req.max_surplus = t + TerminalBodyLen
      /\ TerminalBodyLen = 14 /\ NonTerminalBodyLen = 12 /\ UdpHeader = 8
      /\ req.max_surplus \in Nat
  <2>1. req.max_surplus \in Nat
    BY DEF TypeOK, RequestType
  <2> QED BY <2>1, AdmittedCapacities
          DEF TypeOK, TerminalCapacity, TerminalBodyLen, NonTerminalBodyLen, OcsLen, UdpHeader
<1>2. /\ n \in Nat /\ n > 0 /\ DOMAIN rs = 1 .. n
      /\ \A i \in 1 .. n : rs[i].start \in Nat /\ rs[i].end \in Nat /\ rs[i].terminal \in BOOLEAN
  BY RangeElement
<1>3. \A i \in 1 .. n : rs[i].start <= rs[i].end
  BY <1>2 DEF RangeOK
<1>4. /\ \A i \in 1 .. (n - 1) : ~rs[i].terminal /\ rs[i].end - rs[i].start <= nt
      /\ rs[n].terminal
  BY DEF RangeOK
<1>5. req.id \in Nat /\ Rdos(req) \in Nat /\ TailLen(req) \in Nat
  BY TailLenNat DEF TypeOK, RequestType, Rdos, UdpHeader
<1>6. \A i \in 1 .. n :
        /\ fs[i] = Fragment(rs, i)
        /\ fs[i].from = rs[i].start /\ fs[i].to = rs[i].end
        /\ fs[i].rdos = IF rs[i].terminal THEN Rdos(req) ELSE None
        /\ fs[i].surplus_len = (IF rs[i].terminal THEN TerminalBodyLen ELSE NonTerminalBodyLen)
                                  + rs[i].end - rs[i].start
  BY <1>2 DEF Fragment
<1>7. DOMAIN fs = 1 .. n
  BY <1>2
<1>8. \A i \in 1 .. n : fs[i] \in FragmentType /\ fs[i].surplus_len <= req.max_surplus
  <2> TAKE i \in 1 .. n
  <2>1. Offset(rs, i) \in Nat
    BY <1>1, <1>2 DEF Offset
  <2>2. fs[i].surplus_len \in Nat /\ fs[i].surplus_len <= req.max_surplus
    <3>1. CASE i = n
      <4>1. fs[i].surplus_len = 14 + rs[i].end - rs[i].start
        BY <1>1, <1>4, <1>6, <3>1, Zenon
      <4>2. rs[i].start \in Nat /\ rs[i].end \in Nat /\ rs[i].start <= rs[i].end
            /\ rs[i].end - rs[i].start <= t
        BY <1>2, <1>3, <3>1
      <4> QED BY <1>1, <4>1, <4>2
    <3>2. CASE i # n
      <4>1. i \in 1 .. (n - 1)
        BY <1>2, <3>2
      <4>2. fs[i].surplus_len = 12 + rs[i].end - rs[i].start
        BY <1>1, <1>4, <1>6, <4>1, Zenon
      <4>3. rs[i].start \in Nat /\ rs[i].end \in Nat /\ rs[i].start <= rs[i].end
            /\ rs[i].end - rs[i].start <= nt
        BY <1>2, <1>3, <1>4, <4>1
      <4> QED BY <1>1, <4>2, <4>3
    <3> QED BY <3>1, <3>2
  <2> QED BY <1>2, <1>5, <1>6, <2>1, <2>2 DEF Fragment, FragmentType
<1> HIDE DEF n, t, nt
<1>9. fs \in Seq(FragmentType) /\ Len(fs) = n
  <2>1. fs = [i \in 1 .. n |-> fs[i]]
    BY <1>2, <1>7
  <2> QED BY <1>2, <1>7, <1>8, <2>1
<1>10. TilesTail(fs, req)
  <2>1. fs[1].from = 0 /\ fs[n].to = TailLen(req)
    BY <1>2, <1>6 DEF Chain, n
  <2>2. fs[n].from <= fs[n].to /\ fs[n].rdos = Rdos(req)
    BY <1>2, <1>3, <1>4, <1>6
  <2>3. ASSUME NEW i \in 1 .. (n - 1)
        PROVE  fs[i].to = fs[i + 1].from /\ fs[i].from < fs[i].to /\ fs[i].rdos = None
    <3>1. i \in 1 .. n /\ i + 1 \in 1 .. n
      BY <1>2
    <3>2. rs[i].end = rs[i + 1].start /\ rs[i].start < rs[i].end /\ ~rs[i].terminal
      BY DEF Chain, RangeOK, n
    <3> QED BY <1>6, <3>1, <3>2, Zenon
  <2> QED BY <1>2, <1>9, <2>1, <2>2, <2>3, Zenon DEF TilesTail
<1>11. \A i \in 1 .. n : fs[i].to <= TailLen(req)
  BY <1>6, Zenon DEF Chain, n
<1>12. \A i \in 1 .. n : /\ fs[i].id = req.id
                         /\ fs[i].offset = IF n = 1 THEN 0 ELSE UdpHeader + fs[i].from
  BY <1>6 DEF Fragment, Offset, n
<1> QED BY <1>7, <1>8, <1>9, <1>10, <1>11, <1>12 DEF n

LEMMA ChunkDoneOK ==
    ASSUME IInv, ChunkDone
    PROVE  IInv'
<1> DEFINE x == [start |-> start, end |-> TailLen(req), terminal |-> TRUE]
           rs == Append(ranges, x)
           fs == [i \in DOMAIN rs |-> Fragment(rs, i)]
           nt == NonTerminalCapacity(req)
           t == TerminalCapacity(req)
           n == Len(ranges)
<1>1. /\ TypeOK /\ remaining <= t
      /\ Rejection(req) = None
      /\ start + remaining = TailLen(req)
      /\ Chain(ranges, start)
      /\ \A i \in 1 .. Len(ranges) : RangeOK(ranges[i], req)
      /\ Filled
  BY DEF IInv, LoopInv, ChunkDone
<1>2. t \in Nat /\ nt = t + 2 /\ nt \in Nat
  BY <1>1, AdmittedCapacities DEF TypeOK
<1>3. /\ start \in Nat /\ remaining \in Nat /\ ranges \in Seq(RangeType) /\ n \in Nat
      /\ TailLen(req) \in Nat /\ req \in RequestType /\ req.peer_segments \in Nat
  BY <1>1, TailLenNat, AdmittedCapacities DEF TypeOK
<1>4. /\ ranges' = rs /\ req' = req /\ pc' = "idle"
      /\ start' = start /\ remaining' = remaining
      /\ result' = ResultOf(rs)
  BY DEF ChunkDone, ResultOf, Fragment, Offset, Rdos
<1>5. x \in RangeType /\ x.start = start /\ x.end = TailLen(req) /\ x.start <= x.end /\ x.terminal
  BY <1>1, <1>3 DEF RangeType
<1>6. /\ rs \in Seq(RangeType) /\ Len(rs) = n + 1 /\ rs[n + 1] = x
      /\ \A i \in 1 .. n : rs[i] = ranges[i]
      /\ Chain(rs, TailLen(req))
  BY <1>1, <1>3, <1>5, AppendRange
<1>7. Len(rs) > 0 /\ Len(rs) - 1 = n /\ rs[Len(rs)] = x
  BY <1>3, <1>6
<1>8. \A i \in 1 .. (Len(rs) - 1) : RangeOK(rs[i], req)
  BY <1>1, <1>6, <1>7
<1>9. x.end - x.start <= t
  BY <1>1, <1>2, <1>3, <1>5
<1> HIDE DEF x, rs
<1>10. /\ fs \in Seq(FragmentType) /\ Len(fs) = n + 1
       /\ TilesTail(fs, req)
       /\ \A i \in DOMAIN fs : fs[i].surplus_len <= req.max_surplus /\ fs[i].to <= TailLen(req)
       /\ \A i \in DOMAIN fs : /\ fs[i].id = req.id
                               /\ fs[i].offset = IF Len(fs) = 1 THEN 0
                                                 ELSE UdpHeader + fs[i].from
  <2>1. /\ rs[Len(rs)].terminal /\ rs[Len(rs)].start <= rs[Len(rs)].end
        /\ rs[Len(rs)].end - rs[Len(rs)].start <= TerminalCapacity(req)
    BY <1>5, <1>7, <1>9
  <2> QED BY <1>1, <1>6, <1>7, <1>8, <2>1, FragmentsOK, Zenon
<1>11. \A i \in DOMAIN fs : fs[i].surplus_len \in Nat /\ fs[i].to \in Nat
  <2> HIDE DEF fs
  <2> QED BY <1>10, FragmentElement
<1>12. \A i \in DOMAIN rs : ~(Offset(rs, i) > U16Max)
  <2> TAKE i \in DOMAIN rs
  <2>1. rs[i].start \in Nat /\ rs[i].end \in Nat /\ rs[i].start <= rs[i].end
    <3>1. i \in 1 .. (n + 1)
      BY <1>6
    <3>2. CASE i = n + 1
      BY <1>3, <1>5, <1>6, <3>2
    <3>3. CASE i # n + 1
      <4>1. i \in 1 .. n
        BY <1>3, <3>1, <3>3
      <4>2. ranges[i] \in RangeType /\ RangeOK(ranges[i], req)
        BY <1>1, <1>3, <4>1
      <4> QED BY <1>6, <4>1, <4>2 DEF RangeType, RangeOK
    <3> QED BY <3>2, <3>3
  <2>2. rs[i].end <= TailLen(req)
    BY <1>6 DEF Chain
  <2>3. UdpHeader + TailLen(req) <= req.peer_size /\ req.peer_size <= U16Max
    BY <1>1, <1>3, AdmittedCapacities
  <2>4. req.peer_size \in Nat /\ U16Max \in Nat /\ UdpHeader = 8
    BY <1>3, PeerSizeNat DEF U16Max, UdpHeader
  <2>5. UdpHeader + rs[i].start <= U16Max
    BY <1>3, <2>1, <2>2, <2>3, <2>4
  <2> QED BY <2>1, <2>4, <2>5 DEF Offset
<1>13. result' = IF n + 1 > req.peer_segments THEN Failure("SegmentLimitExceeded")
                 ELSE [kind |-> "Ok", fragments |-> fs]
  BY <1>4, <1>6, <1>12 DEF ResultOf
<1> HIDE DEF fs
<1>14. TypeOK'
  <2>1. result'.kind = "Ok" => result'.fragments = fs
    BY <1>13 DEF Failure
  <2> QED BY <1>3, <1>4, <1>6, <1>10, <2>1 DEF TypeOK
<1>15. LoopInv'
  BY <1>4 DEF LoopInv
<1>16. SplitTiles'
  BY <1>4, <1>10, <1>13 DEF SplitTiles, Failure, TilesTail, TailLen, PadLen, Rdos
<1>17. FragmentsFit'
  <2>1. req.max_surplus <= FragmentSurplusLenMax /\ req.max_surplus \in Nat
        /\ UdpHeader + TailLen(req) <= req.peer_size /\ req.peer_size \in Nat
    BY <1>1, <1>3, AdmittedCapacities, PeerSizeNat DEF RequestType
  <2>2. \A i \in DOMAIN fs :
           /\ fs[i].surplus_len <= req.max_surplus
           /\ Ipv4Header + UdpHeader + fs[i].surplus_len <= U16Max
           /\ UdpHeader + fs[i].to <= req.peer_size
    <3> TAKE i \in DOMAIN fs
    <3>1. /\ fs[i].surplus_len \in Nat /\ fs[i].to \in Nat
          /\ fs[i].surplus_len <= req.max_surplus /\ fs[i].to <= TailLen(req)
      BY <1>10, <1>11
    <3>2. /\ Ipv4Header = 20 /\ UdpHeader = 8 /\ U16Max \in Nat
          /\ FragmentSurplusLenMax = U16Max - 28
      BY DEF FragmentSurplusLenMax, Ipv4Header, UdpHeader, U16Max
    <3>3. UdpHeader + fs[i].to <= req.peer_size
      BY <1>3, <2>1, <3>1, <3>2
    <3>4. fs[i].surplus_len <= U16Max - 28
      BY <2>1, <3>1, <3>2
    <3>5. Ipv4Header + UdpHeader + fs[i].surplus_len <= U16Max
      BY <3>1, <3>2, <3>4
    <3> QED BY <3>1, <3>3, <3>5
  <2>3. result' # Failure("FragmentOffsetTooLarge")
    BY <1>13 DEF Failure
  <2> QED BY <1>4, <1>13, <2>2, <2>3 DEF FragmentsFit, Failure
<1>18. FewestFragments'
  <2> DEFINE Cap(m) == t + (m - 1) * nt
  <2>1. n > 0 => Cap(n) < TailLen(req)
    <3> SUFFICES ASSUME n > 0 PROVE Cap(n) < TailLen(req)
      OBVIOUS
    <3>1. remaining >= t /\ (n - 1) * nt < start
      BY <1>1 DEF Filled
    <3>2. (n - 1) * nt \in Int
      BY <1>2, <1>3
    <3> QED BY <1>1, <1>2, <1>3, <3>1, <3>2
  <2>2. ASSUME NEW m \in Nat, 0 < m, m <= n PROVE Cap(m) <= Cap(n)
    <3>1. (m - 1) * nt <= (n - 1) * nt
      BY <1>2, <1>3, <2>2
    <3>2. (m - 1) * nt \in Int /\ (n - 1) * nt \in Int
      BY <1>2, <1>3
    <3> QED BY <1>2, <3>1, <3>2
  <2>3. ASSUME NEW m \in Nat, 0 < m, m <= n PROVE Cap(m) < TailLen(req)
    <3>1. Cap(m) \in Int /\ Cap(n) \in Int
      BY <1>2, <1>3
    <3> QED BY <1>3, <2>1, <2>2, <2>3, <3>1
  <2>4. CASE n + 1 > req.peer_segments
    <3>1. result' = Failure("SegmentLimitExceeded")
      BY <1>13, <2>4
    <3>2. req.peer_segments = 0 \/ Cap(req.peer_segments) < TailLen(req)
      BY <1>3, <2>3, <2>4
    <3> QED BY <1>4, <3>1, <3>2 DEF FewestFragments, Failure, Carries, TailLen, PadLen,
                                    TerminalCapacity, NonTerminalCapacity
  <2>5. CASE ~(n + 1 > req.peer_segments)
    <3>1. result' = [kind |-> "Ok", fragments |-> fs]
      BY <1>13, <2>5
    <3>2. Len(fs) = 1 \/ Cap(Len(fs) - 1) < TailLen(req)
      BY <1>3, <1>10, <2>1
    <3> QED BY <1>4, <3>1, <3>2 DEF FewestFragments, Failure, Carries, TailLen, PadLen,
                                    TerminalCapacity, NonTerminalCapacity
  <2> QED BY <2>4, <2>5
<1>19. FragmentsPlaced'
  BY <1>4, <1>10, <1>13 DEF FragmentsPlaced, Failure, TailLen, PadLen
<1> QED BY <1>14, <1>15, <1>16, <1>17, <1>18, <1>19 DEF IInv, ReturnOK

\* A call starts afresh, whatever the one before it left.
LEMMA SplitDatagramOK ==
    ASSUME NEW r \in RequestType, SplitDatagram(r)
    PROVE  IInv'
<1>1. r \in RequestType /\ TailLen(r) \in Nat
  BY TailLenNat
<1>2. /\ req' = r /\ ranges' = <<>> /\ start' = 0 /\ remaining' = TailLen(r)
      /\ \/ pc' = "idle" /\ Rejection(r) # None /\ result' = Failure(Rejection(r))
         \/ pc' = "chunking" /\ Rejection(r) = None /\ result' = [kind |-> "None"]
  BY DEF SplitDatagram
<1>3. result'.kind \in {"Err", "None"}
  BY <1>2 DEF Failure
<1>4. TypeOK'
  BY <1>1, <1>2, <1>3 DEF TypeOK
<1>5. LoopInv'
  <2> SUFFICES ASSUME pc' = "chunking" PROVE LoopInv'
    BY DEF LoopInv
  <2>1. Rejection(r) = None /\ result'.kind = "None"
    BY <1>2
  <2>2. Len(ranges') = 0
    BY <1>2
  <2>3. Chain(ranges', start')
    BY <1>2, <2>2 DEF Chain
  <2>4. TerminalCapacity(r) \in Nat /\ NonTerminalCapacity(r) \in Nat
    BY <1>1, <2>1, AdmittedCapacities
  <2>5. Filled'
    BY <1>2, <2>2, <2>4 DEF Filled, NonTerminalCapacity, TerminalCapacity
  <2>6. start' + remaining' = TailLen(r)
    BY <1>1, <1>2
  <2> QED BY <1>2, <2>1, <2>2, <2>3, <2>5, <2>6
          DEF LoopInv, Chain, Rejection, TailLen, PadLen, Rdos, TerminalCapacity,
              NonTerminalCapacity
<1>6. Rejection(r) \notin {"SegmentLimitExceeded", "FragmentOffsetTooLarge"}
  BY NoneAssumption DEF Rejection, SplitErrors
<1>7. ReturnOK'
  BY <1>2, <1>3, <1>6 DEF ReturnOK, SplitTiles, FragmentsFit, FewestFragments, FragmentsPlaced,
                          Failure
<1> QED BY <1>4, <1>5, <1>7 DEF IInv

\* Every step keeps the invariant.
LEMMA NextStep ==
    ASSUME IInv, [Next]_vars
    PROVE  IInv'
<1>1. CASE UNCHANGED vars
  BY <1>1 DEF vars, IInv, TypeOK, LoopInv, ReturnOK, SplitTiles, FragmentsFit,
              FewestFragments, FragmentsPlaced, Filled, Chain, RangeOK, TilesTail, Carries,
              Rejection, TailLen, PadLen, Rdos, TerminalCapacity, NonTerminalCapacity
<1> QED BY <1>1, SplitDatagramOK, ChunkStepOK, ChunkDoneOK, RequestsAssumption DEF Next

\* The loop invariant holds throughout every call, and what is returned satisfies ReturnOK.
THEOREM Invariance == Spec => []IInv
<1>1. Init => IInv
  <2> SUFFICES ASSUME Init PROVE IInv
    OBVIOUS
  <2>1. req \in RequestType
    BY RequestsAssumption DEF Init
  <2> QED BY <2>1 DEF Init, IInv, TypeOK, LoopInv, ReturnOK, SplitTiles, FragmentsFit,
                      FewestFragments, FragmentsPlaced, Failure
<1> QED BY <1>1, NextStep, PTL DEF Spec

\* No subtraction of the loop goes below zero, for every request.
THEOREM TypeCorrect == Spec => []TypeOK
<1>1. IInv => TypeOK
  BY DEF IInv
<1> QED BY <1>1, Invariance, PTL

\* For every request: a split loses, repeats and reorders no byte of the tail.
THEOREM SplitIsTiling == Spec => []SplitTiles
<1>1. IInv => SplitTiles
  BY DEF IInv, ReturnOK
<1> QED BY <1>1, Invariance, PTL

\* For every request: the fragments fit the budget, the 16-bit fields and the peer's size limit.
THEOREM SplitFits == Spec => []FragmentsFit
<1>1. IInv => FragmentsFit
  BY DEF IInv, ReturnOK
<1> QED BY <1>1, Invariance, PTL

\* For every request: no split of the tail has fewer fragments than chunk_ranges makes.
THEOREM SplitIsMinimal == Spec => []FewestFragments
<1>1. IInv => FewestFragments
  BY DEF IInv, ReturnOK
<1> QED BY <1>1, Invariance, PTL

\* For every request: the options body starts at the even offset at or after the RDOS.
THEOREM SplitAlignsOptions == Spec => []OptionsAligned
<1>1. IInv => OptionsAligned
  <2> SUFFICES ASSUME IInv, result.kind = "Ok", req.body_len > 0 PROVE OptionsAligned
    BY DEF OptionsAligned
  <2> DEFINE last == result.fragments[Len(result.fragments)]
  <2>1. last.to = TailLen(req) /\ last.rdos = Rdos(req)
    BY DEF IInv, ReturnOK, SplitTiles, TilesTail
  <2>2. req.payload_len \in Nat /\ req.body_len \in Nat
    BY DEF IInv, TypeOK, RequestType
  <2>3. UdpHeader + last.to - req.body_len = 8 + req.payload_len + PadLen(req)
    BY <2>1, <2>2 DEF TailLen, PadLen, UdpHeader
  <2>4. PadLen(req) = IF (8 + req.payload_len) % 2 = 1 THEN 1 ELSE 0
    BY <2>2 DEF PadLen, UdpHeader
  <2>5. (8 + req.payload_len + PadLen(req)) % 2 = 0
    BY <2>2, <2>4
  <2>6. (8 + req.payload_len + PadLen(req)) - Rdos(req) \in {0, 1}
    BY <2>2, <2>4 DEF Rdos, UdpHeader
  <2> QED BY <2>1, <2>3, <2>5, <2>6 DEF OptionsAligned
<1> QED BY <1>1, Invariance, PTL

\* What one fragment says of the datagram of request r: it carries a range of the tail, is placed
\* by it, and the terminal one tells where the tail ends.
CarriesRange(f, r) ==
    /\ f.from \in Nat /\ f.to \in Nat /\ f.from <= f.to /\ f.to <= TailLen(r)
    /\ f.id = r.id
    /\ f.offset = UdpHeader + f.from \/ (f.offset = 0 /\ f.from = 0 /\ f.rdos # None)
    /\ f.rdos # None => f.rdos = Rdos(r) /\ f.to = TailLen(r)

\* Each fragment that split_datagram returns carries a range of the tail, which fits the peer.
LEMMA FragmentsCarryRanges ==
    ASSUME IInv, result.kind = "Ok"
    PROVE  /\ UdpHeader + TailLen(req) <= req.peer_size
           /\ \A i \in DOMAIN result.fragments : CarriesRange(result.fragments[i], req)
<1> DEFINE fs == result.fragments
<1>1. TypeOK /\ SplitTiles /\ FragmentsFit /\ FragmentsPlaced
  BY DEF IInv, ReturnOK
<1>2. fs \in Seq(FragmentType)
  BY <1>1 DEF TypeOK
<1>3. PICK m \in Nat : m = Len(fs) /\ DOMAIN fs = 1 .. m
  BY <1>2
<1>4. \A i \in 1 .. m : fs[i] \in FragmentType
  BY <1>2, <1>3
<1>5. \A i \in 1 .. m : fs[i].from \in Nat /\ fs[i].to \in Nat
  BY <1>4 DEF FragmentType
<1>6. /\ m > 0 /\ fs[1].from = 0
      /\ \A i \in 1 .. (m - 1) : fs[i].from < fs[i].to /\ fs[i].rdos = None
      /\ fs[m].from <= fs[m].to /\ fs[m].to = TailLen(req) /\ fs[m].rdos = Rdos(req)
  BY <1>1, <1>3 DEF SplitTiles, TilesTail
<1>7. \A i \in 1 .. m : /\ fs[i].to <= TailLen(req) /\ fs[i].id = req.id
                        /\ fs[i].offset = IF m = 1 THEN 0 ELSE UdpHeader + fs[i].from
                        /\ UdpHeader + fs[i].to <= req.peer_size
  BY <1>1, <1>3 DEF FragmentsPlaced, FragmentsFit
<1>8. Rdos(req) \in Nat
  BY <1>1 DEF TypeOK, RequestType, Rdos, UdpHeader
<1> HIDE DEF fs
<1>9. UdpHeader + TailLen(req) <= req.peer_size
  BY <1>3, <1>6, <1>7
<1>10. ASSUME NEW i \in 1 .. m PROVE CarriesRange(fs[i], req)
  <2>1. fs[i].rdos # None => i = m
    BY <1>6
  <2>2. m = 1 => fs[i].from = 0 /\ fs[i].rdos # None
    BY <1>6, <1>8, NoneAssumption
  <2>3. fs[i].from <= fs[i].to
    BY <1>5, <1>6
  <2> QED
    BY <1>5, <1>6, <1>7, <2>1, <2>2, <2>3 DEF CarriesRange
<1> QED
  BY <1>3, <1>9, <1>10 DEF fs

=============================================================================
