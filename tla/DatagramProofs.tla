--------------------------- MODULE DatagramProofs ---------------------------
(***************************************************************************)
(* The bytes on the wire, for every content: a datagram from               *)
(* assemble_datagram is received as the disposition table says, whatever   *)
(* the path adds to it, and one damaged byte is not trusted.  What the     *)
(* checksums contribute is stated as laws, which WireProofs proves.        *)
(***************************************************************************)
EXTENDS WireDatagram, TLAPS

-----------------------------------------------------------------------------
(* Bytes in sequences, place by place *)

-----------------------------------------------------------------------------
\* The 16-bit values are the naturals up to 65535.
LEMMA U16Bounds ==
    ASSUME NEW y \in U16
    PROVE  y \in Nat /\ y <= 65535
<1>1. U16Max \in Nat
    BY SMT DEF U16Max
<1>2. y \in Nat /\ y <= U16Max
    BY <1>1, SMT DEF U16
<1> QED
    BY <1>2, SMT DEF U16Max

LEMMA U16Has ==
    ASSUME NEW y \in Nat, y <= 65535
    PROVE  y \in U16
<1>1. U16Max \in Nat /\ y <= U16Max
    BY SMT DEF U16Max
<1> QED
    BY <1>1, SMT DEF U16

LEMMA ByteAt ==
    ASSUME NEW s \in Seq(Byte), NEW i \in 1 .. Len(s)
    PROVE  s[i] \in Byte
BY SMT

LEMMA BytesEqual ==
    ASSUME NEW s \in Seq(Byte), NEW t \in Seq(Byte), Len(s) = Len(t),
           \A i \in 1 .. Len(t) : s[i] = t[i]
    PROVE  s = t
BY SMT

LEMMA SliceIs ==
    ASSUME NEW b \in Seq(Byte), NEW from \in Nat, NEW to \in Nat, from <= to, to <= Len(b)
    PROVE  /\ Slice(b, from, to) \in Seq(Byte)
           /\ Len(Slice(b, from, to)) = to - from
           /\ \A i \in 1 .. to - from : Slice(b, from, to)[i] = b[from + i]
<1>1. SubSeq(b, from + 1, to) \in Seq(Byte)
    BY SMT
<1>2. Len(SubSeq(b, from + 1, to)) = to - from
    BY SMT
<1>3. ASSUME NEW i \in 1 .. to - from PROVE SubSeq(b, from + 1, to)[i] = b[from + i]
    BY SMT
<1> QED
    BY <1>1, <1>2, <1>3, Zenon DEF Slice

LEMMA SliceTo ==
    ASSUME NEW b \in Seq(Byte), NEW to \in Nat, to <= Len(b)
    PROVE  /\ Slice(b, 0, to) \in Seq(Byte) /\ Len(Slice(b, 0, to)) = to
           /\ \A i \in 1 .. to : Slice(b, 0, to)[i] = b[i]
<1>1. 0 \in Nat /\ 0 <= to /\ to - 0 = to /\ \A i \in 1 .. to : 0 + i = i
    BY SMT
<1>2. /\ Slice(b, 0, to) \in Seq(Byte) /\ Len(Slice(b, 0, to)) = to - 0
      /\ \A i \in 1 .. to - 0 : Slice(b, 0, to)[i] = b[0 + i]
    BY <1>1, SliceIs, Zenon
<1> QED
    BY <1>1, <1>2, SMT

LEMMA SliceFrom ==
    ASSUME NEW b \in Seq(Byte), NEW from \in Nat, from <= Len(b)
    PROVE  /\ Slice(b, from, Len(b)) \in Seq(Byte)
           /\ Len(Slice(b, from, Len(b))) = Len(b) - from
           /\ \A i \in 1 .. Len(b) - from : Slice(b, from, Len(b))[i] = b[from + i]
<1>1. Len(b) \in Nat /\ Len(b) <= Len(b)
    BY SMT
<1> QED
    BY <1>1, SliceIs, Zenon

LEMMA ConcatIs ==
    ASSUME NEW s \in Seq(Byte), NEW t \in Seq(Byte)
    PROVE  /\ s \o t \in Seq(Byte) /\ Len(s \o t) = Len(s) + Len(t)
           /\ \A i \in 1 .. Len(s) : (s \o t)[i] = s[i]
           /\ \A i \in 1 .. Len(t) : (s \o t)[Len(s) + i] = t[i]
BY SMT

\* A patch replaces its bytes and leaves the others.
LEMMA PatchIs ==
    ASSUME NEW b \in Seq(Byte), NEW at \in Nat, NEW bytes \in Seq(Byte), at + Len(bytes) <= Len(b)
    PROVE  /\ Patch(b, at, bytes) \in Seq(Byte)
           /\ Len(Patch(b, at, bytes)) = Len(b)
           /\ \A i \in 1 .. Len(bytes) : Patch(b, at, bytes)[at + i] = bytes[i]
           /\ \A i \in 1 .. Len(b) : i <= at \/ i > at + Len(bytes) => Patch(b, at, bytes)[i] = b[i]
<1> DEFINE l == Slice(b, 0, at)
           r == Slice(b, at + Len(bytes), Len(b))
<1>1. /\ l \in Seq(Byte) /\ Len(l) = at
      /\ \A i \in 1 .. at : l[i] = b[i]
    <2>1. at <= Len(b)
        BY SMT
    <2> QED
        BY <2>1, SliceTo, Zenon
<1>2. /\ r \in Seq(Byte) /\ Len(r) = Len(b) - (at + Len(bytes))
      /\ \A i \in 1 .. Len(r) : r[i] = b[at + Len(bytes) + i]
    <2>1. at + Len(bytes) \in Nat /\ Len(b) \in Nat /\ Len(b) <= Len(b)
        BY SMT
    <2>2. /\ r \in Seq(Byte) /\ Len(r) = Len(b) - (at + Len(bytes))
          /\ \A i \in 1 .. Len(b) - (at + Len(bytes)) : r[i] = b[at + Len(bytes) + i]
        BY <2>1, SliceIs, Zenon
    <2> QED
        BY <2>2, SMT
<1> HIDE DEF l, r
<1>3. /\ l \o bytes \in Seq(Byte) /\ Len(l \o bytes) = at + Len(bytes)
      /\ \A i \in 1 .. at : (l \o bytes)[i] = b[i]
      /\ \A i \in 1 .. Len(bytes) : (l \o bytes)[at + i] = bytes[i]
    BY ONLY bytes \in Seq(Byte), <1>1, ConcatIs, Zenon
<1> DEFINE lb == l \o bytes
<1>4. lb \in Seq(Byte) /\ Len(lb) = at + Len(bytes)
    BY <1>3
<1> HIDE DEF lb
<1>5. /\ lb \o r \in Seq(Byte) /\ Len(lb \o r) = Len(b)
      /\ \A i \in 1 .. at + Len(bytes) : (lb \o r)[i] = lb[i]
      /\ \A i \in 1 .. Len(r) : (lb \o r)[at + Len(bytes) + i] = r[i]
    <2>1. /\ lb \o r \in Seq(Byte) /\ Len(lb \o r) = Len(lb) + Len(r)
          /\ \A i \in 1 .. Len(lb) : (lb \o r)[i] = lb[i]
          /\ \A i \in 1 .. Len(r) : (lb \o r)[Len(lb) + i] = r[i]
        BY ONLY <1>2, <1>4, ConcatIs, Zenon
    <2>2. Len(lb) + Len(r) = Len(b)
        BY <1>2, <1>4, SMT
    <2> QED
        BY <1>4, <2>1, <2>2, Zenon
<1>6. ASSUME NEW i \in 1 .. Len(bytes) PROVE (lb \o r)[at + i] = bytes[i]
    <2>1. at + i \in 1 .. at + Len(bytes)
        BY SMT
    <2> QED
        BY <1>3, <1>5, <2>1, Zenon DEF lb
<1>7. ASSUME NEW i \in 1 .. Len(b), i <= at \/ i > at + Len(bytes) PROVE (lb \o r)[i] = b[i]
    <2>1. CASE i <= at
        <3>1. i \in 1 .. at /\ i \in 1 .. at + Len(bytes)
            BY <2>1, SMT
        <3> QED
            BY <1>3, <1>5, <3>1, Zenon DEF lb
    <2>2. CASE i > at + Len(bytes)
        <3>1. PICK j \in 1 .. Len(r) : i = at + Len(bytes) + j
            <4>1. /\ i - (at + Len(bytes)) \in 1 .. Len(r)
                  /\ i = at + Len(bytes) + (i - (at + Len(bytes)))
                BY <1>2, <2>2, SMT
            <4> QED
                BY <4>1, Zenon
        <3> QED
            BY <1>2, <1>5, <3>1, Zenon
    <2> QED
        BY <1>7, <2>1, <2>2, Zenon
<1> QED
    BY <1>5, <1>6, <1>7, Zenon DEF Patch, lb, l, r

\* The patches the code makes are fields of two bytes.
LEMMA FieldPatchIs ==
    ASSUME NEW b \in Seq(Byte), NEW at \in Nat, NEW f \in Seq(Byte), Len(f) = 2, at + 2 <= Len(b)
    PROVE  /\ Patch(b, at, f) \in Seq(Byte) /\ Len(Patch(b, at, f)) = Len(b)
           /\ Patch(b, at, f)[at + 1] = f[1] /\ Patch(b, at, f)[at + 2] = f[2]
           /\ \A i \in 1 .. Len(b) : i # at + 1 /\ i # at + 2 => Patch(b, at, f)[i] = b[i]
<1> DEFINE p == Patch(b, at, f)
<1>1. /\ p \in Seq(Byte) /\ Len(p) = Len(b)
      /\ \A i \in 1 .. Len(f) : p[at + i] = f[i]
      /\ \A i \in 1 .. Len(b) : i <= at \/ i > at + Len(f) => p[i] = b[i]
    <2>1. at + Len(f) <= Len(b)
        BY Zenon
    <2> QED
        BY <2>1, PatchIs, Zenon
<1> HIDE DEF p
<1>2. p[at + 1] = f[1] /\ p[at + 2] = f[2]
    BY <1>1, SMT
<1>3. \A i \in 1 .. Len(b) : i # at + 1 /\ i # at + 2 => p[i] = b[i]
    BY <1>1, SMT
<1> QED
    BY <1>1, <1>2, <1>3, Zenon DEF p

LEMMA ByteIs == \A x : x \in Byte <=> x \in Nat /\ x <= 255
BY SMT DEF Byte

\* A u16 survives to_be_bytes and from_be_bytes.
LEMMA U16BytesIs ==
    ASSUME NEW v \in U16
    PROVE  /\ U16Bytes(v) \in Seq(Byte) /\ Len(U16Bytes(v)) = 2
           /\ U16Bytes(v)[1] \in Byte /\ U16Bytes(v)[2] \in Byte
           /\ Word(U16Bytes(v)[1], U16Bytes(v)[2]) = v
<1>1. v \div 256 \in Byte /\ v % 256 \in Byte /\ (v \div 256) * 256 + (v % 256) = v
    <2>1. v \in Nat /\ v <= 65535
        BY U16Bounds, SMT
    <2>2. v \div 256 \in Nat /\ v % 256 \in Nat /\ v % 256 <= 255 /\ v = 256 * (v \div 256) + (v % 256)
        BY <2>1, SMT
    <2>3. \A q, r \in Nat : v = 256 * q + r => q <= 255 /\ q * 256 + r = v
        BY <2>1, SMT
    <2>4. v \div 256 <= 255 /\ (v \div 256) * 256 + (v % 256) = v
        BY <2>2, <2>3, SMT
    <2> QED
        BY <2>2, <2>4, ByteIs, SMT
<1>2. PICK q \in Byte, r \in Byte : q = v \div 256 /\ r = v % 256
    BY <1>1, Zenon
<1>3. U16Bytes(v) = <<q, r>> /\ q * 256 + r = v
    BY <1>1, <1>2, Zenon DEF U16Bytes
<1>4. <<q, r>> \in Seq(Byte) /\ Len(<<q, r>>) = 2 /\ <<q, r>>[1] = q /\ <<q, r>>[2] = r
    BY SMT
<1> QED
    BY <1>3, <1>4, ZenonT(40) DEF Word

\* Two bytes make a u16, and no other two make it.
LEMMA WordIs ==
    ASSUME NEW hi \in Byte, NEW lo \in Byte
    PROVE  /\ Word(hi, lo) \in U16
           /\ Word(hi, lo) = 0 <=> hi = 0 /\ lo = 0
           /\ \A x, y \in Byte : Word(x, y) = Word(hi, lo) => x = hi /\ y = lo
<1>1. hi \in Nat /\ hi <= 255 /\ lo \in Nat /\ lo <= 255
    BY ByteIs, SMT
<1>2. ASSUME NEW x \in Byte, NEW y \in Byte, Word(x, y) = Word(hi, lo) PROVE x = hi /\ y = lo
    <2>1. x \in Nat /\ x <= 255 /\ y \in Nat /\ y <= 255
        BY ByteIs, SMT
    <2> QED
        BY <1>1, <1>2, <2>1, SMT DEF Word
<1>3. Word(hi, lo) \in U16
    BY <1>1, U16Has, SMT DEF Word
<1>4. Word(hi, lo) = 0 <=> hi = 0 /\ lo = 0
    BY <1>1, SMT DEF Word
<1> QED
    BY <1>2, <1>3, <1>4, Zenon

\* The two values of a 16-bit word with a changed byte
Apart(x, y) == x # y /\ ~(x = 0 /\ y = U16Max) /\ ~(x = U16Max /\ y = 0)

LEMMA WordApart ==
    ASSUME NEW p \in Byte, NEW q \in Byte, NEW r \in Byte, NEW s \in Byte,
           (p # r /\ q = s) \/ (p = r /\ q # s)
    PROVE  Apart(Word(p, q), Word(r, s))
<1>1. /\ p \in Nat /\ p <= 255 /\ q \in Nat /\ q <= 255
      /\ r \in Nat /\ r <= 255 /\ s \in Nat /\ s <= 255
    BY ByteIs, SMT
<1> QED
    BY <1>1, SMT DEF Apart, Word, U16Max

\* The UDP checksum of a datagram between the two hosts
UdpSum(sp, dp, u) ==
    ComputeChecksum([src |-> Src, dst |-> Dst],
                    [src_port |-> sp, dst_port |-> dp, length |-> UdpHeaderLen + Len(u),
                     checksum |-> 0], u)

\* compute_checksum looks at the addresses, ports, length and data only.
LEMMA UdpSumIs ==
    ASSUME NEW ip, ip.src = Src, ip.dst = Dst, NEW udp, udp.src_port \in U16, udp.dst_port \in U16,
           NEW u \in Seq(Byte), udp.length = UdpHeaderLen + Len(u)
    PROVE  ComputeChecksum(ip, udp, u) = UdpSum(udp.src_port, udp.dst_port, u)
BY Zenon DEF ComputeChecksum, UdpSum, PseudoHeader

-----------------------------------------------------------------------------
(* What the datagrams rely on in the three checksums *)

\* What fill() stores in an IPv4 header verifies.
HeaderStored ==
    \A h : \A z \in Seq(Byte) :
        ( /\ Len(z) >= 12 /\ z[1] # 0 /\ z[11] = 0 /\ z[12] = 0
          /\ h = Patch(z, 10, U16Bytes(InternetChecksum(z))) )
        => /\ h \in Seq(Byte) /\ Len(h) = Len(z)
           /\ \A i \in 1 .. Len(z) : i # 11 /\ i # 12 => h[i] = z[i]
           /\ InternetChecksum(h) = 0

\* A header with one byte changed does not verify.
HeaderChange ==
    \A b, c \in Seq(Byte) : \A j \in 1 .. Len(b) :
        ( /\ Len(b) = Len(c) /\ b[j] # c[j] /\ \A i \in 1 .. Len(b) : i # j => b[i] = c[i]
          /\ InternetChecksum(c) = 0 )
        => InternetChecksum(b) # 0

\* What compute() stores for the OCS makes it right, and is not zero.
OcsStores ==
    \A b \in Seq(Byte), n \in U16 :
        Len(b) >= 2 =>
            \E f \in Seq(Byte) :
               /\ Len(f) = 2 /\ f # <<0, 0>>
               /\ OcsCompute(b, n) = Patch(b, 0, f)
               /\ OnesComplementOf(Total(Append(Words(Patch(b, 0, f)), n))) = U16Max

\* validate() finds out whether it is.
OcsVerdicts ==
    \A field : \A b \in Seq(Byte), n \in U16 :
        Len(b) >= 2 =>
            OcsValidate(b, n, field) =
               IF ReadU16(b, 0) = 0 THEN IF field = 0 THEN "Unused" ELSE "InvalidZero"
               ELSE IF OnesComplementOf(Total(Append(Words(b), n))) = U16Max THEN "Valid"
               ELSE "Failed"

\* Option bytes with one byte changed are not found valid.
OcsChange ==
    \A field : \A b, c \in Seq(Byte), n \in U16 : \A j \in 1 .. Len(b) :
        ( /\ Len(b) = Len(c) /\ b[j] # c[j] /\ \A i \in 1 .. Len(b) : i # j => b[i] = c[i]
          /\ Len(b) >= 2 /\ OnesComplementOf(Total(Append(Words(c), n))) = U16Max )
        => OcsValidate(b, n, field) # "Valid"

\* A computed UDP checksum is a word, and is not zero.
UdpStored ==
    \A sp, dp \in U16, u \in Seq(Byte) :
        UdpHeaderLen + Len(u) \in U16 => UdpSum(sp, dp, u) \in U16 /\ UdpSum(sp, dp, u) # 0

\* One with a changed byte in the data is another, and so is one with a changed port.
UdpDataChange ==
    \A sp, dp \in U16, u, v \in Seq(Byte) : \A j \in 1 .. Len(u) :
        ( /\ UdpHeaderLen + Len(u) \in U16
          /\ Len(u) = Len(v) /\ u[j] # v[j] /\ \A i \in 1 .. Len(u) : i # j => u[i] = v[i] )
        => UdpSum(sp, dp, u) # UdpSum(sp, dp, v)

UdpPortChange ==
    \A sp, dp, sq, dq \in U16, u \in Seq(Byte) :
        ( /\ UdpHeaderLen + Len(u) \in U16
          /\ (Apart(sp, sq) /\ dp = dq) \/ (sp = sq /\ Apart(dp, dq)) )
        => UdpSum(sp, dp, u) # UdpSum(sq, dq, u)

ChecksumLaws ==
    /\ HeaderStored /\ HeaderChange
    /\ OcsStores /\ OcsVerdicts /\ OcsChange
    /\ UdpStored /\ UdpDataChange /\ UdpPortChange

-----------------------------------------------------------------------------
(* What a datagram carries, and what the receiver makes of it *)

\* The first hl bytes of b are an IPv4 header that parse() accepts for a datagram of this length.
IpHeaderOf(b, hl, total_len) ==
    /\ b \in Seq(Byte) /\ total_len \in U16
    /\ hl <= total_len /\ total_len <= Len(b)
    /\ (hl = 20 /\ b[1] = 69) \/ (hl = 24 /\ b[1] = 70)
    /\ ReadU16(b, 2) = total_len
    /\ b[10] = IpProtoUdp
    /\ \A i \in 1 .. 4 : b[12 + i] = Src[i] /\ b[16 + i] = Dst[i]
    /\ InternetChecksum(Slice(b, 0, hl)) = 0

\* From offset hl, b has a UDP header, the user data u and the surplus area s.
UdpOf(b, hl, sp, dp, chk, u, s) ==
    /\ u \in Seq(Byte) /\ s \in Seq(Byte)
    /\ sp \in U16 /\ dp \in U16 /\ chk \in U16
    /\ ReadU16(b, hl) = sp /\ ReadU16(b, hl + 2) = dp
    /\ ReadU16(b, hl + 4) = 8 + Len(u) /\ ReadU16(b, hl + 6) = chk
    /\ \A i \in 1 .. Len(u) : b[hl + 8 + i] = u[i]
    /\ \A i \in 1 .. Len(s) : b[hl + 8 + Len(u) + i] = s[i]

\* The datagram b has both, and perhaps trailing bytes that are not its own.
Carries(b, hl, sp, dp, chk, u, s) ==
    /\ IpHeaderOf(b, hl, hl + 8 + Len(u) + Len(s))
    /\ UdpOf(b, hl, sp, dp, chk, u, s)

\* The pad byte before the OCS, after user data of odd length
PadLen(u) == Len(u) % 2

\* A surplus area is empty, or has its pad byte and the OCS at least.
SurplusFits(u, s) == Len(s) = 0 \/ Len(s) >= PadLen(u) + 2

\* What process_datagram_inner makes of what a datagram carries
Verdict(chk, u, s) ==
    IF Len(s) = 0 THEN "Absent"
    ELSE IF PadLen(u) = 1 /\ s[1] # 0 THEN "Failed"
    ELSE OcsValidate(Slice(s, PadLen(u), Len(s)), Len(s), chk)

Received(sp, dp, chk, u, s) ==
    IF chk # 0 /\ UdpSum(sp, dp, u) # chk THEN Err
    ELSE Payload(u, Verdict(chk, u, s),
                 IF Verdict(chk, u, s) \in {"Valid", "Unused"} THEN Slice(s, PadLen(u) + 2, Len(s))
                 ELSE <<>>)

LEMMA HeaderParses ==
    ASSUME NEW b, NEW hl, NEW total_len, IpHeaderOf(b, hl, total_len)
    PROVE  /\ hl \in Nat /\ (hl = 20 \/ hl = 24) /\ hl % 2 = 0 /\ total_len \in Nat
           /\ IpParses(b)
           /\ HeaderLen(IpRepr(b)) = hl /\ TransportPayloadLen(IpRepr(b)) = total_len - hl
           /\ IpRepr(b).src = Src /\ IpRepr(b).dst = Dst
<1> DEFINE ip == IpRepr(b)
<1>1. /\ b \in Seq(Byte) /\ total_len \in U16 /\ hl <= total_len /\ total_len <= Len(b)
      /\ (hl = 20 /\ b[1] = 69) \/ (hl = 24 /\ b[1] = 70)
      /\ ReadU16(b, 2) = total_len /\ b[10] = IpProtoUdp
      /\ \A i \in 1 .. 4 : b[12 + i] = Src[i] /\ b[16 + i] = Dst[i]
      /\ InternetChecksum(Slice(b, 0, hl)) = 0
    BY Zenon DEF IpHeaderOf
<1>2. total_len \in Nat /\ hl \in Nat /\ hl % 2 = 0 /\ Len(b) >= 20
    BY <1>1, U16Bounds, SMTT(30)
<1>3. (b[1] % 16) * 4 = hl /\ b[1] % 16 >= 5 /\ b[1] \div 16 = 4
    <2>1. /\ 69 % 16 = 5 /\ 69 \div 16 = 4 /\ 5 * 4 = 20
          /\ 70 % 16 = 6 /\ 70 \div 16 = 4 /\ 6 * 4 = 24 /\ 5 >= 5 /\ 6 >= 5
        BY SMT
    <2> QED
        BY <1>1, <2>1, ZenonT(40)
<1>4. ip.ihl = b[1] % 16 /\ ip.total_len = total_len
      /\ ip.src = Slice(b, 12, 16) /\ ip.dst = Slice(b, 16, 20)
    BY <1>1, Zenon DEF IpRepr
<1>5. ip.src = Src /\ ip.dst = Dst
    <2>1. /\ Slice(b, 12, 16) \in Seq(Byte) /\ Len(Slice(b, 12, 16)) = 4
          /\ \A i \in 1 .. 4 : Slice(b, 12, 16)[i] = b[12 + i]
        BY <1>1, <1>2, SMTT(30) DEF Slice
    <2>2. /\ Slice(b, 16, 20) \in Seq(Byte) /\ Len(Slice(b, 16, 20)) = 4
          /\ \A i \in 1 .. 4 : Slice(b, 16, 20)[i] = b[16 + i]
        BY <1>1, <1>2, SMTT(30) DEF Slice
    <2> DEFINE s == Slice(b, 12, 16)
               d == Slice(b, 16, 20)
    <2>3. /\ s \in Seq(Byte) /\ Len(s) = Len(Src) /\ \A i \in 1 .. Len(Src) : s[i] = Src[i]
          /\ d \in Seq(Byte) /\ Len(d) = Len(Dst) /\ \A i \in 1 .. Len(Dst) : d[i] = Dst[i]
        BY <1>1, <2>1, <2>2, AddressesAssumption, Zenon
    <2> HIDE DEF s, d
    <2>4. s = Src /\ d = Dst
        BY <2>3, AddressesAssumption, BytesEqual, Zenon
    <2> QED
        BY <1>4, <2>4, Zenon DEF s, d
<1> HIDE DEF ip
<1>6. HeaderLen(ip) = hl
    BY <1>3, <1>4, Zenon DEF HeaderLen
<1>7. TransportPayloadLen(ip) = total_len - hl
    <2>1. ~(total_len < hl)
        BY <1>1, <1>2, SMT
    <2> QED
        BY <1>4, <1>6, <2>1, Zenon DEF TransportPayloadLen
<1>8. b # <<>> /\ Len(b) >= hl
    BY <1>1, <1>2, SMTT(30)
<1>9. IpParses(b)
    BY <1>1, <1>2, <1>3, <1>4, <1>6, <1>8, SMT DEF IpParses, ip, Ipv4HeaderLen
<1> QED
    BY <1>1, <1>2, <1>5, <1>6, <1>7, <1>9, Zenon DEF ip

\* The pieces process_datagram_inner cuts a datagram into
LEMMA Pieces ==
    ASSUME NEW b, NEW hl, NEW sp, NEW dp, NEW chk, NEW u, NEW s,
           Carries(b, hl, sp, dp, chk, u, s),
           NEW d, d = Slice(b, 0, hl + 8 + Len(u) + Len(s)), NEW g, g = Slice(d, hl, Len(d))
    PROVE  /\ d \in Seq(Byte) /\ Len(d) = hl + 8 + Len(u) + Len(s)
           /\ \A i \in 1 .. Len(s) : d[hl + 8 + Len(u) + i] = s[i]
           /\ UdpParses(g)
           /\ UdpRepr(g) = [src_port |-> sp, dst_port |-> dp, length |-> 8 + Len(u),
                            checksum |-> chk]
           /\ Slice(g, 8, 8 + Len(u)) = u
<1> DEFINE n == hl + 8 + Len(u) + Len(s)
<1>1. IpHeaderOf(b, hl, n) /\ UdpOf(b, hl, sp, dp, chk, u, s)
    BY Zenon DEF Carries
<1>2. hl \in Nat /\ (hl = 20 \/ hl = 24) /\ b \in Seq(Byte) /\ n \in Nat /\ n <= Len(b)
    <2>1. b \in Seq(Byte) /\ n <= Len(b)
        BY <1>1, Zenon DEF IpHeaderOf
    <2> HIDE DEF n
    <2>2. hl \in Nat /\ (hl = 20 \/ hl = 24) /\ n \in Nat
        BY <1>1, HeaderParses, SMT
    <2> QED
        BY <2>1, <2>2, Zenon
<1>3. /\ u \in Seq(Byte) /\ s \in Seq(Byte)
      /\ ReadU16(b, hl) = sp /\ ReadU16(b, hl + 2) = dp
      /\ ReadU16(b, hl + 4) = 8 + Len(u) /\ ReadU16(b, hl + 6) = chk
      /\ \A i \in 1 .. Len(u) : b[hl + 8 + i] = u[i]
      /\ \A i \in 1 .. Len(s) : b[hl + 8 + Len(u) + i] = s[i]
    BY <1>1, Zenon DEF UdpOf
<1>4. Len(u) \in Nat /\ Len(s) \in Nat
    BY <1>3, SMT
<1>5. /\ d \in Seq(Byte) /\ Len(d) = n /\ \A i \in 1 .. n : d[i] = b[i]
    BY <1>2, SliceTo, Zenon
<1>6. /\ g \in Seq(Byte) /\ Len(g) = n - hl /\ \A i \in 1 .. n - hl : g[i] = d[hl + i]
    <2>1. hl <= Len(d) /\ Len(d) \in Nat /\ Len(d) <= Len(d)
        BY <1>2, <1>4, <1>5, SMT
    <2> HIDE DEF n
    <2>2. /\ g \in Seq(Byte) /\ Len(g) = Len(d) - hl
          /\ \A i \in 1 .. Len(d) - hl : g[i] = d[hl + i]
        BY <1>2, <1>5, <2>1, SliceFrom, Zenon
    <2> QED
        BY <1>5, <2>2, Zenon
<1>7. n - hl = 8 + Len(u) + Len(s)
    BY <1>2, <1>4, SMT
<1> HIDE DEF n
<1>8. \A i \in 1 .. 8 + Len(u) + Len(s) : g[i] = b[hl + i]
    BY <1>2, <1>4, <1>5, <1>6, <1>7, SMT
<1>9. /\ ReadU16(g, 0) = ReadU16(b, hl) /\ ReadU16(g, 2) = ReadU16(b, hl + 2)
      /\ ReadU16(g, 4) = ReadU16(b, hl + 4) /\ ReadU16(g, 6) = ReadU16(b, hl + 6)
    <2>1. /\ g[1] = b[hl + 1] /\ g[2] = b[hl + 2] /\ g[3] = b[hl + 3] /\ g[4] = b[hl + 4]
          /\ g[5] = b[hl + 5] /\ g[6] = b[hl + 6] /\ g[7] = b[hl + 7] /\ g[8] = b[hl + 8]
        BY <1>4, <1>8, SMT
    <2>2. /\ 0 + 1 = 1 /\ 0 + 2 = 2 /\ 2 + 1 = 3 /\ 2 + 2 = 4 /\ 4 + 1 = 5 /\ 4 + 2 = 6
          /\ 6 + 1 = 7 /\ 6 + 2 = 8
          /\ hl + 2 + 1 = hl + 3 /\ hl + 2 + 2 = hl + 4 /\ hl + 4 + 1 = hl + 5
          /\ hl + 4 + 2 = hl + 6 /\ hl + 6 + 1 = hl + 7 /\ hl + 6 + 2 = hl + 8
        BY <1>2, SMT
    <2> QED
        BY <2>1, <2>2, Zenon DEF ReadU16
<1>10. UdpRepr(g) = [src_port |-> sp, dst_port |-> dp, length |-> 8 + Len(u), checksum |-> chk]
    BY <1>3, <1>9, Zenon DEF UdpRepr
<1>11. UdpParses(g)
    <2>1. Len(g) >= 8 /\ 8 + Len(u) >= 8
        BY <1>4, <1>6, <1>7, SMT
    <2>2. UdpRepr(g).length = 8 + Len(u)
        BY <1>10, SMT
    <2> QED
        BY <2>1, <2>2, SMT DEF UdpParses, UdpHeaderLen
<1> DEFINE v == Slice(g, 8, 8 + Len(u))
<1>12. v = u
    <2>1. PICK k \in Nat : k = 8
        BY SMT
    <2>b. PICK m \in Nat : m = 8 + Len(u)
        BY <1>4, SMT
    <2>d. m - k = Len(u) /\ k <= m /\ m <= Len(g)
        BY <1>4, <1>6, <1>7, <2>1, <2>b, SMT
    <2>c. g \in Seq(Byte) /\ k <= m /\ m <= Len(g)
        BY <1>6, <2>d, Zenon
    <2>a. LET w == Slice(g, k, m)
          IN  w \in Seq(Byte) /\ Len(w) = m - k /\ \A i \in 1 .. m - k : w[i] = g[k + i]
        BY ONLY k \in Nat, m \in Nat, <2>c, SliceIs, Zenon
    <2>2. v \in Seq(Byte) /\ Len(v) = Len(u) /\ \A i \in 1 .. Len(u) : v[i] = g[8 + i]
        BY <2>1, <2>a, <2>b, <2>d, Zenon
    <2> HIDE DEF v
    <2>3. \A i \in 1 .. Len(u) : g[8 + i] = u[i]
        BY <1>2, <1>3, <1>4, <1>8, SMT
    <2> QED
        BY <1>3, <2>2, <2>3, BytesEqual, Zenon
<1>13. \A i \in 1 .. Len(s) : d[hl + 8 + Len(u) + i] = s[i]
    <2> TAKE i \in 1 .. Len(s)
    <2>1. hl + 8 + Len(u) + i \in 1 .. n
        BY <1>2, <1>4, SMT DEF n
    <2> QED
        BY <1>3, <1>5, <2>1, Zenon
<1> QED
    BY <1>5, <1>10, <1>11, <1>12, <1>13, Zenon DEF n

\* A slice to the end of a datagram is one of its surplus area.
LEMMA TailOf ==
    ASSUME NEW d \in Seq(Byte), NEW s \in Seq(Byte), NEW at \in Nat, Len(d) = at + Len(s),
           \A i \in 1 .. Len(s) : d[at + i] = s[i], NEW k \in Nat, k <= Len(s)
    PROVE  Slice(d, at + k, Len(d)) = Slice(s, k, Len(s))
<1> DEFINE x == Slice(d, at + k, Len(d))
           y == Slice(s, k, Len(s))
<1>1. PICK n \in Nat : n = Len(s) - k /\ Len(s) = k + n /\ Len(d) - (at + k) = n
    BY SMT
<1>2. y \in Seq(Byte) /\ Len(y) = Len(s) - k /\ \A i \in 1 .. Len(s) - k : y[i] = s[k + i]
    BY ONLY s \in Seq(Byte), k \in Nat, k <= Len(s), SliceFrom, Zenon
<1>3. PICK m \in Nat : m = at + k
    BY SMT
<1>4. m <= Len(d)
    BY <1>3, SMT
<1>5. LET w == Slice(d, m, Len(d))
      IN  w \in Seq(Byte) /\ Len(w) = Len(d) - m /\ \A i \in 1 .. Len(d) - m : w[i] = d[m + i]
    BY ONLY d \in Seq(Byte), m \in Nat, <1>4, SliceFrom, Zenon
<1>6. x \in Seq(Byte) /\ Len(x) = n /\ \A i \in 1 .. n : x[i] = d[m + i]
    BY <1>1, <1>3, <1>5, Zenon
<1>7. y \in Seq(Byte) /\ Len(y) = n /\ \A i \in 1 .. n : y[i] = s[k + i]
    BY <1>1, <1>2, Zenon
<1> HIDE DEF x, y
<1>8. ASSUME NEW i \in 1 .. n PROVE x[i] = y[i]
    <2>1. k + i \in 1 .. Len(s) /\ m + i = at + (k + i)
        BY <1>1, <1>3, SMT
    <2>2. d[m + i] = s[k + i]
        BY <2>1, Zenon
    <2> QED
        BY <1>6, <1>7, <2>2, Zenon
<1>9. x = y
    BY <1>6, <1>7, <1>8, BytesEqual, Zenon
<1> QED
    BY <1>9, Zenon DEF x, y

LEMMA EvenOdd ==
    ASSUME NEW hl \in Nat, hl = 20 \/ hl = 24, NEW n \in Nat
    PROVE  /\ (hl + 8 + n) % 2 = n % 2
           /\ n % 2 = 0 \/ n % 2 = 1
BY SMT

\* locate_surplus finds the surplus area a datagram carries.
LEMMA LayoutIs ==
    ASSUME NEW b, NEW hl, NEW sp, NEW dp, NEW chk, NEW u, NEW s,
           Carries(b, hl, sp, dp, chk, u, s), SurplusFits(u, s),
           NEW udp, udp.length = 8 + Len(u)
    PROVE  LET layout == LocateSurplus(IpRepr(b), udp)
           IN  IF Len(s) = 0 THEN layout = None
               ELSE /\ layout # None
                    /\ layout = [starts_at |-> hl + 8 + Len(u), needs_pad |-> PadLen(u) = 1,
                                 len |-> Len(s)]
                    /\ OcsAt(layout) = hl + 8 + Len(u) + PadLen(u)
<1> DEFINE n == hl + 8 + Len(u) + Len(s)
           ip == IpRepr(b)
           at == hl + 8 + Len(u)
           lay == [starts_at |-> at, needs_pad |-> PadLen(u) = 1, len |-> Len(s)]
<1>1. IpHeaderOf(b, hl, n) /\ u \in Seq(Byte) /\ s \in Seq(Byte)
    BY Zenon DEF Carries, UdpOf
<1>2. Len(u) \in Nat /\ Len(s) \in Nat
    BY <1>1, SMT
<1>3. /\ hl \in Nat /\ (hl = 20 \/ hl = 24)
      /\ HeaderLen(ip) = hl /\ TransportPayloadLen(ip) = n - hl
    BY <1>1, HeaderParses, SMT
<1>4. TransportPayloadLen(ip) - udp.length = Len(s) /\ HeaderLen(ip) + udp.length = at
    BY <1>2, <1>3, SMT
<1>5. at % 2 = PadLen(u) /\ (PadLen(u) = 0 \/ PadLen(u) = 1)
    BY <1>2, <1>3, EvenOdd, SMT DEF PadLen
<1>6. at \in Nat
    BY <1>2, <1>3, SMT
<1> HIDE DEF at, ip
<1>7. LocateSurplus(ip, udp) =
          IF Len(s) = 0 \/ Len(s) < (IF at % 2 = 1 THEN 1 ELSE 0) + OcsLen THEN None
          ELSE [starts_at |-> at, needs_pad |-> at % 2 = 1, len |-> Len(s)]
    BY <1>4, Zenon DEF LocateSurplus
<1>8. CASE Len(s) = 0
    BY <1>7, <1>8, Zenon DEF ip
<1>9. CASE Len(s) # 0
    <2>1. (IF at % 2 = 1 THEN 1 ELSE 0) = PadLen(u)
        BY <1>5, Zenon
    <2>2. ~(Len(s) < PadLen(u) + OcsLen)
        BY <1>2, <1>5, <1>9, SMT DEF SurplusFits, OcsLen
    <2>3. LocateSurplus(ip, udp) = lay
        BY <1>5, <1>7, <1>9, <2>1, <2>2, Zenon
    <2>4. lay # None
        <3>1. lay \in [starts_at : Nat, needs_pad : BOOLEAN, len : Nat]
            BY <1>2, <1>6, Zenon
        <3> QED
            BY <3>1, NoneAssumption, Zenon
    <2>5. OcsAt(lay) = at + PadLen(u)
        <3>1. OcsAt(lay) = at + (IF PadLen(u) = 1 THEN 1 ELSE 0)
            BY Zenon DEF OcsAt
        <3> QED
            BY <1>5, <3>1, Zenon
    <2> QED
        BY <1>9, <2>3, <2>4, <2>5, Zenon DEF at, ip
<1> QED
    BY <1>8, <1>9, Zenon

\* What the receiver makes of a datagram is what it should make of what the datagram carries.
LEMMA DispositionIs ==
    ASSUME NEW b, NEW hl, NEW sp, NEW dp, NEW chk, NEW u, NEW s,
           Carries(b, hl, sp, dp, chk, u, s), SurplusFits(u, s)
    PROVE  Disposition(b) = Received(sp, dp, chk, u, s)
<1> DEFINE n == hl + 8 + Len(u) + Len(s)
           at == hl + 8 + Len(u)
           ip == IpRepr(b)
           d == Slice(b, 0, n)
           g == Slice(d, hl, Len(d))
           udp == UdpRepr(g)
           layout == LocateSurplus(ip, udp)
           status == SurplusStatus(d, layout, udp)
<1>1. /\ IpHeaderOf(b, hl, n) /\ u \in Seq(Byte) /\ s \in Seq(Byte)
      /\ sp \in U16 /\ dp \in U16
    BY Zenon DEF Carries, UdpOf
<1>2. Len(u) \in Nat /\ Len(s) \in Nat
    BY <1>1, SMT
<1>3. /\ hl \in Nat /\ (hl = 20 \/ hl = 24) /\ n \in Nat
      /\ IpParses(b) /\ HeaderLen(ip) = hl /\ TransportPayloadLen(ip) = n - hl
      /\ ip.src = Src /\ ip.dst = Dst
    BY <1>1, HeaderParses, SMT
<1>4. /\ d \in Seq(Byte) /\ Len(d) = n /\ \A i \in 1 .. Len(s) : d[at + i] = s[i]
      /\ UdpParses(g)
      /\ udp = [src_port |-> sp, dst_port |-> dp, length |-> 8 + Len(u), checksum |-> chk]
      /\ Slice(g, 8, 8 + Len(u)) = u
    BY Pieces, SMT
<1>5. udp.src_port = sp /\ udp.dst_port = dp /\ udp.length = 8 + Len(u) /\ udp.checksum = chk
    BY <1>4, SMT
<1>6. n = at + Len(s) /\ at \in Nat
    BY <1>2, <1>3, SMT
<1>7. hl + (n - hl) = n /\ ~(8 + Len(u) > n - hl)
    BY <1>2, <1>3, SMT
<1>8. ComputeChecksum(ip, udp, u) = UdpSum(sp, dp, u)
    <2>1. udp.length = UdpHeaderLen + Len(u)
        BY <1>5, Zenon DEF UdpHeaderLen
    <2> HIDE DEF ip, udp
    <2> QED
        BY <1>1, <1>3, <1>5, <2>1, UdpSumIs, Zenon
<1>9. IF Len(s) = 0 THEN layout = None
      ELSE /\ layout # None
           /\ layout = [starts_at |-> at, needs_pad |-> PadLen(u) = 1, len |-> Len(s)]
           /\ OcsAt(layout) = at + PadLen(u)
    <2> HIDE DEF udp
    <2> QED
        BY <1>5, LayoutIs, SMT
<1> HIDE DEF n, at, ip, d, g, udp, layout
<1>10. Disposition(b) =
           IF ~(chk # 0 => UdpSum(sp, dp, u) = chk) THEN Err
           ELSE IF layout = None THEN Payload(u, "Absent", <<>>)
           ELSE IF status \notin {"Valid", "Unused"} THEN Payload(u, status, <<>>)
           ELSE Payload(u, status, Slice(d, OcsAt(layout) + OcsLen, Len(d)))
    <2>1. Slice(b, 0, HeaderLen(ip) + TransportPayloadLen(ip)) = d
        BY <1>3, <1>7, Zenon DEF d
    <2>2. Slice(d, HeaderLen(ip), Len(d)) = g
        BY <1>3, Zenon DEF g
    <2>3. Slice(g, UdpHeaderLen, udp.length) = u
        BY <1>4, <1>5, Zenon DEF UdpHeaderLen
    <2>4. UdpChecksumPasses(ip, udp, u) <=> (chk # 0 => UdpSum(sp, dp, u) = chk)
        BY <1>5, <1>8, Zenon DEF UdpChecksumPasses
    <2>5. ~(udp.length > TransportPayloadLen(ip))
        BY <1>3, <1>5, <1>7, Zenon
    <2>6. ip = IpRepr(b) /\ udp = UdpRepr(g) /\ layout = LocateSurplus(ip, udp)
        BY Zenon DEF ip, udp, layout
    <2> QED
        BY <1>3, <1>4, <2>1, <2>2, <2>3, <2>4, <2>5, <2>6, Zenon DEF Disposition
<1>11. PadLen(u) \in Nat
    BY <1>2, SMT DEF PadLen
<1>12. CASE Len(s) = 0
    <2>1. Verdict(chk, u, s) = "Absent" /\ "Absent" \notin {"Valid", "Unused"}
        BY <1>12, Zenon DEF Verdict
    <2>2. layout = None
        BY <1>9, <1>12, Zenon
    <2> QED
        BY <1>10, <2>1, <2>2, Zenon DEF Received
<1>13. CASE Len(s) # 0
    <2>1. /\ layout # None /\ layout.starts_at = at /\ (layout.needs_pad <=> PadLen(u) = 1)
          /\ layout.len = Len(s) /\ OcsAt(layout) = at + PadLen(u)
        <3> DEFINE lay == [starts_at |-> at, needs_pad |-> PadLen(u) = 1, len |-> Len(s)]
        <3>1. layout # None /\ layout = lay /\ OcsAt(layout) = at + PadLen(u)
            BY <1>9, <1>13, Zenon
        <3>2. lay.starts_at = at /\ (lay.needs_pad <=> PadLen(u) = 1) /\ lay.len = Len(s)
            BY Zenon
        <3> QED
            BY <3>1, <3>2, Zenon
    <2>2. PadLen(u) + 2 \in Nat /\ PadLen(u) + 2 <= Len(s) /\ PadLen(u) <= Len(s)
        BY <1>2, <1>11, <1>13, SMT DEF SurplusFits
    <2>0. ASSUME NEW k \in Nat, k <= Len(s) PROVE Slice(d, at + k, Len(d)) = Slice(s, k, Len(s))
        <3>1. /\ d \in Seq(Byte) /\ s \in Seq(Byte) /\ at \in Nat /\ k <= Len(s)
              /\ Len(d) = at + Len(s) /\ \A i \in 1 .. Len(s) : d[at + i] = s[i]
            BY <1>1, <1>4, <1>6, <2>0, Zenon
        <3> QED
            BY ONLY <3>1, k \in Nat, TailOf, SMT
    <2>3. Slice(d, OcsAt(layout), Len(d)) = Slice(s, PadLen(u), Len(s))
        <3>1. PICK k \in Nat : k = PadLen(u) /\ k <= Len(s)
            BY <1>11, <2>2, Zenon
        <3>2. Slice(d, at + k, Len(d)) = Slice(s, k, Len(s))
            BY <2>0, <3>1, Zenon
        <3> QED
            BY <2>1, <3>1, <3>2, Zenon
    <2>4. Slice(d, OcsAt(layout) + OcsLen, Len(d)) = Slice(s, PadLen(u) + 2, Len(s))
        <3>1. PICK k \in Nat : k = PadLen(u) + 2 /\ k <= Len(s)
            BY <2>2, Zenon
        <3>2. Slice(d, at + k, Len(d)) = Slice(s, k, Len(s))
            BY <2>0, <3>1, Zenon
        <3>3. OcsAt(layout) + OcsLen = at + k
            BY <1>6, <1>11, <2>1, <3>1, SMT DEF OcsLen
        <3> QED
            BY <3>1, <3>2, <3>3, Zenon
    <2>5. d[at + 1] = s[1]
        BY <1>2, <1>4, <1>13, SMT
    <2>6. status = Verdict(chk, u, s)
        <3>1. status = IF PadLen(u) = 1 /\ s[1] # 0 THEN "Failed"
                       ELSE OcsValidate(Slice(s, PadLen(u), Len(s)), Len(s), chk)
            BY <1>5, <2>1, <2>3, <2>5, Zenon DEF SurplusStatus
        <3> QED
            BY <1>13, <3>1, Zenon DEF Verdict
    <2> HIDE DEF status
    <2> QED
        BY <1>10, <2>1, <2>4, <2>6, Zenon DEF Received
<1> QED
    BY <1>12, <1>13, Zenon

-----------------------------------------------------------------------------
(* What the sender and the path put into a datagram *)

LEMMA BytesAssociative ==
    ASSUME NEW s \in Seq(Byte), NEW t \in Seq(Byte), NEW v \in Seq(Byte)
    PROVE  (s \o t) \o v = s \o (t \o v)
BY SMT

\* The bytes of a header of this length.
HeaderFor(h, hl, total_len) ==
    /\ h \in Seq(Byte) /\ Len(h) = hl
    /\ (hl = 20 /\ h[1] = 69) \/ (hl = 24 /\ h[1] = 70)
    /\ ReadU16(h, 2) = total_len
    /\ h[10] = IpProtoUdp
    /\ \A i \in 1 .. 4 : h[12 + i] = Src[i] /\ h[16 + i] = Dst[i]

\* A header and its checksum.
LEMMA HeaderFilled ==
    ASSUME ChecksumLaws,
           NEW z, NEW hl, NEW total_len, HeaderFor(z, hl, total_len), z[11] = 0, z[12] = 0,
           NEW h, h = Patch(z, 10, U16Bytes(InternetChecksum(z)))
    PROVE  HeaderFor(h, hl, total_len) /\ InternetChecksum(h) = 0
<1>law. HeaderStored
    BY Zenon DEF ChecksumLaws
<1>1. /\ z \in Seq(Byte) /\ Len(z) = hl
      /\ (hl = 20 /\ z[1] = 69) \/ (hl = 24 /\ z[1] = 70)
      /\ ReadU16(z, 2) = total_len /\ z[10] = IpProtoUdp
      /\ \A i \in 1 .. 4 : z[12 + i] = Src[i] /\ z[16 + i] = Dst[i]
    BY Zenon DEF HeaderFor
<1>2. Len(z) >= 12 /\ z[1] # 0 /\ (hl = 20 \/ hl = 24)
    BY <1>1, SMT
<1>3. /\ h \in Seq(Byte) /\ Len(h) = Len(z)
      /\ \A i \in 1 .. Len(z) : i # 11 /\ i # 12 => h[i] = z[i]
      /\ InternetChecksum(h) = 0
    <2>1. /\ z \in Seq(Byte) /\ Len(z) >= 12 /\ z[1] # 0 /\ z[11] = 0 /\ z[12] = 0
          /\ h = Patch(z, 10, U16Bytes(InternetChecksum(z)))
        BY <1>1, <1>2, Zenon
    <2> QED
        BY ONLY <2>1, <1>law, SMT DEF HeaderStored
<1>4. h[1] = z[1] /\ h[3] = z[3] /\ h[4] = z[4] /\ h[10] = z[10]
    BY <1>1, <1>2, <1>3, SMTT(30)
<1>5. \A i \in 1 .. 4 : h[12 + i] = z[12 + i] /\ h[16 + i] = z[16 + i]
    BY <1>1, <1>2, <1>3, SMTT(30)
<1>6. ReadU16(h, 2) = ReadU16(z, 2)
    <2>1. 2 + 1 = 3 /\ 2 + 2 = 4
        BY SMT
    <2> QED
        BY <1>4, <2>1, Zenon DEF ReadU16
<1> QED
    BY <1>1, <1>3, <1>4, <1>5, <1>6, SMT DEF HeaderFor

\* IpRepr::write
LEMMA IpHeaderIs ==
    ASSUME ChecksumLaws,
           NEW n \in U16
    PROVE  HeaderFor(IpHeader(n), 20, n) /\ InternetChecksum(IpHeader(n)) = 0
<1> DEFINE nb == U16Bytes(n)
           o == <<69, 0>>
           p == o \o nb
           m == <<0, 0, 0, 0, DefaultTtl, IpProtoUdp, 0, 0>>
           q == p \o m
           r == q \o Src
           z == r \o Dst
<1>1. nb \in Seq(Byte) /\ Len(nb) = 2 /\ Word(nb[1], nb[2]) = n
    BY U16BytesIs, Zenon
<1>2. 69 \in Byte /\ 0 \in Byte /\ 64 \in Byte /\ 17 \in Byte
    BY SMT DEF Byte
<1>3. o \in Seq(Byte) /\ Len(o) = 2 /\ o[1] = 69
    BY <1>2, SMT
<1>4. /\ m \in Seq(Byte) /\ Len(m) = 8 /\ m[6] = IpProtoUdp /\ m[7] = 0 /\ m[8] = 0
    BY <1>2, SMT DEF DefaultTtl, IpProtoUdp
<1> HIDE DEF nb, o, m
<1>5. p \in Seq(Byte) /\ Len(p) = 4 /\ p[1] = 69 /\ p[3] = nb[1] /\ p[4] = nb[2]
    <2>a. o \in Seq(Byte) /\ nb \in Seq(Byte)
        BY <1>1, <1>3, Zenon
    <2>b. /\ p \in Seq(Byte) /\ Len(p) = Len(o) + Len(nb)
          /\ \A i \in 1 .. Len(o) : p[i] = o[i]
          /\ \A i \in 1 .. Len(nb) : p[Len(o) + i] = nb[i]
        BY <2>a, ConcatIs, Zenon
    <2>c. Len(o) = 2 /\ Len(nb) = 2
        BY <1>1, <1>3, Zenon
    <2>1. /\ p \in Seq(Byte) /\ Len(p) = 2 + 2 /\ \A i \in 1 .. 2 : p[i] = o[i]
          /\ \A i \in 1 .. 2 : p[2 + i] = nb[i]
        BY <2>b, <2>c, Zenon
    <2> HIDE DEF p
    <2> QED
        BY <1>3, <2>1, SMT
<1> HIDE DEF p
<1>6. /\ q \in Seq(Byte) /\ Len(q) = 12 /\ q[1] = 69 /\ q[3] = nb[1] /\ q[4] = nb[2]
      /\ q[10] = IpProtoUdp /\ q[11] = 0 /\ q[12] = 0
    <2>a. p \in Seq(Byte) /\ m \in Seq(Byte)
        BY <1>4, <1>5, Zenon
    <2>b. /\ q \in Seq(Byte) /\ Len(q) = Len(p) + Len(m)
          /\ \A i \in 1 .. Len(p) : q[i] = p[i]
          /\ \A i \in 1 .. Len(m) : q[Len(p) + i] = m[i]
        BY <2>a, ConcatIs, Zenon
    <2>c. Len(p) = 4 /\ Len(m) = 8
        BY <1>4, <1>5, Zenon
    <2>1. /\ q \in Seq(Byte) /\ Len(q) = 4 + 8 /\ \A i \in 1 .. 4 : q[i] = p[i]
          /\ \A i \in 1 .. 8 : q[4 + i] = m[i]
        BY <2>b, <2>c, Zenon
    <2> HIDE DEF q
    <2> QED
        BY <1>4, <1>5, <2>1, SMT
<1> HIDE DEF q
<1>7. /\ r \in Seq(Byte) /\ Len(r) = 16 /\ \A i \in 1 .. 12 : r[i] = q[i]
      /\ \A i \in 1 .. 4 : r[12 + i] = Src[i]
    <2>a. q \in Seq(Byte) /\ Src \in Seq(Byte)
        BY <1>6, AddressesAssumption, Zenon
    <2>b. /\ r \in Seq(Byte) /\ Len(r) = Len(q) + Len(Src)
          /\ \A i \in 1 .. Len(q) : r[i] = q[i]
          /\ \A i \in 1 .. Len(Src) : r[Len(q) + i] = Src[i]
        BY <2>a, ConcatIs, Zenon
    <2>c. Len(q) = 12 /\ Len(Src) = 4
        BY <1>6, AddressesAssumption, Zenon
    <2>1. /\ r \in Seq(Byte) /\ Len(r) = 12 + 4 /\ \A i \in 1 .. 12 : r[i] = q[i]
          /\ \A i \in 1 .. 4 : r[12 + i] = Src[i]
        BY <2>b, <2>c, Zenon
    <2>2. 12 + 4 = 16
        BY SMT
    <2> QED
        BY <2>1, <2>2, Zenon
<1> HIDE DEF r
<1>8. /\ z \in Seq(Byte) /\ Len(z) = 20 /\ z[1] = 69 /\ z[3] = nb[1] /\ z[4] = nb[2]
      /\ z[10] = IpProtoUdp /\ z[11] = 0 /\ z[12] = 0
      /\ \A i \in 1 .. 4 : z[12 + i] = Src[i] /\ z[16 + i] = Dst[i]
    <2>a. r \in Seq(Byte) /\ Dst \in Seq(Byte)
        BY <1>7, AddressesAssumption, Zenon
    <2>b. /\ z \in Seq(Byte) /\ Len(z) = Len(r) + Len(Dst)
          /\ \A i \in 1 .. Len(r) : z[i] = r[i]
          /\ \A i \in 1 .. Len(Dst) : z[Len(r) + i] = Dst[i]
        BY <2>a, ConcatIs, Zenon
    <2>c. Len(r) = 16 /\ Len(Dst) = 4
        BY <1>7, AddressesAssumption, Zenon
    <2>1. /\ z \in Seq(Byte) /\ Len(z) = 16 + 4 /\ \A i \in 1 .. 16 : z[i] = r[i]
          /\ \A i \in 1 .. 4 : z[16 + i] = Dst[i]
        BY <2>b, <2>c, Zenon
    <2> HIDE DEF z
    <2>2. ASSUME NEW i \in 1 .. 4 PROVE z[12 + i] = Src[i]
        <3>1. 12 + i \in 1 .. 16
            BY SMT
        <3> QED
            BY <1>7, <2>1, <3>1, Zenon
    <2>3. Len(z) = 20 /\ \A i \in 1 .. 12 : z[i] = q[i]
        <3>1. 16 + 4 = 20 /\ \A i \in 1 .. 12 : i \in 1 .. 16
            BY SMT
        <3> QED
            BY <1>7, <2>1, <3>1, Zenon
    <2>4. /\ z[1] = 69 /\ z[3] = nb[1] /\ z[4] = nb[2]
          /\ z[10] = IpProtoUdp /\ z[11] = 0 /\ z[12] = 0
        BY <1>6, <2>3, SMT
    <2> QED
        BY <2>1, <2>2, <2>3, <2>4, Zenon
<1>9. IpHeader(n) = Patch(z, 10, U16Bytes(InternetChecksum(z)))
    BY Zenon DEF IpHeader, z, r, q, p, o, m, nb
<1> HIDE DEF z
<1>10. ReadU16(z, 2) = n
    <2>1. 2 + 1 = 3 /\ 2 + 2 = 4
        BY SMT
    <2> QED
        BY <1>1, <1>8, <2>1, Zenon DEF ReadU16
<1>11. HeaderFor(z, 20, n)
    BY <1>8, <1>10, SMT DEF HeaderFor
<1> QED
    <2>1. z[11] = 0 /\ z[12] = 0
        BY <1>8, Zenon
    <2> QED
        BY ONLY ChecksumLaws, <1>9, <1>11, <2>1, HeaderFilled, SMT

\* A header in front of the bytes of its datagram.
LEMMA HeaderPlaced ==
    ASSUME NEW h, NEW hl, NEW n \in U16, HeaderFor(h, hl, n), InternetChecksum(h) = 0,
           NEW r \in Seq(Byte), hl <= n, n <= hl + Len(r)
    PROVE  /\ IpHeaderOf(h \o r, hl, n)
           /\ hl \in Nat /\ Len(h \o r) = hl + Len(r)
           /\ \A i \in 1 .. Len(r) : (h \o r)[hl + i] = r[i]
<1> DEFINE b == h \o r
<1>1. /\ h \in Seq(Byte) /\ Len(h) = hl
      /\ (hl = 20 /\ h[1] = 69) \/ (hl = 24 /\ h[1] = 70)
      /\ ReadU16(h, 2) = n /\ h[10] = IpProtoUdp
      /\ \A i \in 1 .. 4 : h[12 + i] = Src[i] /\ h[16 + i] = Dst[i]
    BY Zenon DEF HeaderFor
<1>2. hl \in Nat /\ (hl = 20 \/ hl = 24)
    BY <1>1, SMT
<1>a. hl \in Nat /\ h \in Seq(Byte) /\ Len(h) = hl
    BY <1>1, <1>2, Zenon
<1>b. \A i \in 1 .. 4 : h[12 + i] = Src[i] /\ h[16 + i] = Dst[i]
    BY <1>1, Zenon
<1>3. /\ b \in Seq(Byte) /\ Len(b) = hl + Len(r)
      /\ \A i \in 1 .. hl : b[i] = h[i]
      /\ \A i \in 1 .. Len(r) : b[hl + i] = r[i]
    <2>2. /\ b \in Seq(Byte) /\ Len(b) = Len(h) + Len(r)
          /\ \A i \in 1 .. Len(h) : b[i] = h[i]
          /\ \A i \in 1 .. Len(r) : b[Len(h) + i] = r[i]
        BY <1>a, ConcatIs, Zenon
    <2> QED
        BY <1>a, <2>2, Zenon
<1> HIDE DEF b
<1>4. b[1] = h[1] /\ b[3] = h[3] /\ b[4] = h[4] /\ b[10] = h[10]
    BY <1>2, <1>3, SMT
<1>5. ASSUME NEW i \in 1 .. 4 PROVE b[12 + i] = Src[i] /\ b[16 + i] = Dst[i]
    <2>1. 12 + i \in 1 .. hl /\ 16 + i \in 1 .. hl
        BY <1>2, SMT
    <2> QED
        BY <1>b, <1>3, <2>1, Zenon
<1>6. ReadU16(b, 2) = n
    <2>1. 2 + 1 = 3 /\ 2 + 2 = 4
        BY SMT
    <2> QED
        BY <1>1, <1>4, <2>1, Zenon DEF ReadU16
<1>7. Slice(b, 0, hl) = h
    <2> DEFINE x == Slice(b, 0, hl)
    <2>1. hl <= Len(b)
        BY <1>2, <1>3, SMT
    <2>4. x \in Seq(Byte) /\ Len(x) = hl /\ \A i \in 1 .. hl : x[i] = b[i]
        BY <1>a, <1>3, <2>1, SliceTo, Zenon
    <2> HIDE DEF x
    <2>5. h \in Seq(Byte) /\ Len(x) = Len(h) /\ \A i \in 1 .. Len(h) : x[i] = h[i]
        BY <1>a, <1>3, <2>4, Zenon
    <2> QED
        BY ONLY <2>4, <2>5, BytesEqual, Zenon DEF x
<1>8. IpHeaderOf(b, hl, n)
    BY <1>1, <1>3, <1>4, <1>5, <1>6, <1>7, Zenon DEF IpHeaderOf
<1> QED
    BY <1>2, <1>3, <1>8, Zenon DEF b

\* The same UDP header and data at another offset.
LEMMA UdpMoved ==
    ASSUME NEW b, NEW hl \in Nat, NEW sp, NEW dp, NEW chk, NEW u, NEW s,
           UdpOf(b, hl, sp, dp, chk, u, s),
           NEW c, NEW at \in Nat, \A i \in 1 .. 8 + Len(u) + Len(s) : c[at + i] = b[hl + i]
    PROVE  UdpOf(c, at, sp, dp, chk, u, s)
<1>1. /\ u \in Seq(Byte) /\ s \in Seq(Byte)
      /\ sp \in U16 /\ dp \in U16 /\ chk \in U16
      /\ ReadU16(b, hl) = sp /\ ReadU16(b, hl + 2) = dp
      /\ ReadU16(b, hl + 4) = 8 + Len(u) /\ ReadU16(b, hl + 6) = chk
      /\ \A i \in 1 .. Len(u) : b[hl + 8 + i] = u[i]
      /\ \A i \in 1 .. Len(s) : b[hl + 8 + Len(u) + i] = s[i]
    BY Zenon DEF UdpOf
<1>2. Len(u) \in Nat /\ Len(s) \in Nat
    BY <1>1, SMT
<1>3. ASSUME NEW k \in Nat, k <= 6 PROVE ReadU16(c, at + k) = ReadU16(b, hl + k)
    <2>1. /\ k + 1 \in 1 .. 8 + Len(u) + Len(s) /\ k + 2 \in 1 .. 8 + Len(u) + Len(s)
          /\ at + k + 1 = at + (k + 1) /\ at + k + 2 = at + (k + 2)
          /\ hl + k + 1 = hl + (k + 1) /\ hl + k + 2 = hl + (k + 2)
        BY <1>2, <1>3, SMT
    <2>2. c[at + (k + 1)] = b[hl + (k + 1)] /\ c[at + (k + 2)] = b[hl + (k + 2)]
        BY <2>1, Zenon
    <2> QED
        BY <2>1, <2>2, Zenon DEF ReadU16
<1>4. /\ ReadU16(c, at) = ReadU16(b, hl) /\ ReadU16(c, at + 2) = ReadU16(b, hl + 2)
      /\ ReadU16(c, at + 4) = ReadU16(b, hl + 4) /\ ReadU16(c, at + 6) = ReadU16(b, hl + 6)
    <2>1. /\ 0 \in Nat /\ 0 <= 6 /\ 2 \in Nat /\ 2 <= 6 /\ 4 \in Nat /\ 4 <= 6 /\ 6 \in Nat /\ 6 <= 6
          /\ at + 0 = at /\ hl + 0 = hl
        BY SMT
    <2>2. ReadU16(c, at + 0) = ReadU16(b, hl + 0)
        BY <1>3, <2>1, Zenon
    <2> QED
        BY <1>3, <2>1, <2>2, Zenon
<1>5. ASSUME NEW i \in 1 .. Len(u) PROVE c[at + 8 + i] = u[i]
    <2>1. /\ 8 + i \in 1 .. 8 + Len(u) + Len(s) /\ at + 8 + i = at + (8 + i)
          /\ hl + 8 + i = hl + (8 + i)
        BY <1>2, SMT
    <2> QED
        BY <1>1, <2>1, Zenon
<1>6. ASSUME NEW i \in 1 .. Len(s) PROVE c[at + 8 + Len(u) + i] = s[i]
    <2>1. /\ 8 + Len(u) + i \in 1 .. 8 + Len(u) + Len(s)
          /\ at + 8 + Len(u) + i = at + (8 + Len(u) + i)
          /\ hl + 8 + Len(u) + i = hl + (8 + Len(u) + i)
        BY <1>2, SMT
    <2> QED
        BY <1>1, <2>1, Zenon
<1> QED
    BY <1>1, <1>4, <1>5, <1>6, Zenon DEF UdpOf

\* A field after others, and the fields before what follows them.
LEMMA FieldAppended ==
    ASSUME NEW s \in Seq(Byte), NEW v \in U16
    PROVE  /\ s \o U16Bytes(v) \in Seq(Byte) /\ Len(s \o U16Bytes(v)) = Len(s) + 2
           /\ ReadU16(s \o U16Bytes(v), Len(s)) = v
<1> DEFINE f == U16Bytes(v)
<1>1. f \in Seq(Byte) /\ Len(f) = 2 /\ Word(f[1], f[2]) = v
    BY U16BytesIs, Zenon
<1> HIDE DEF f
<1>2. /\ s \o f \in Seq(Byte) /\ Len(s \o f) = Len(s) + Len(f)
      /\ \A i \in 1 .. Len(f) : (s \o f)[Len(s) + i] = f[i]
    BY <1>1, ConcatIs, Zenon
<1>3. 1 \in 1 .. 2 /\ 2 \in 1 .. 2
    BY SMT
<1>4. ReadU16(s \o f, Len(s)) = v
    BY <1>1, <1>2, <1>3, Zenon DEF ReadU16
<1> QED
    BY <1>1, <1>2, <1>4, Zenon DEF f

LEMMA FieldKept ==
    ASSUME NEW s \in Seq(Byte), NEW t \in Seq(Byte), NEW k \in Nat, k + 2 <= Len(s)
    PROVE  ReadU16(s \o t, k) = ReadU16(s, k)
<1>1. k + 1 \in 1 .. Len(s) /\ k + 2 \in 1 .. Len(s)
    BY SMT
<1> QED
    BY <1>1, ConcatIs, Zenon DEF ReadU16

\* UdpHeader::write and what follows
LEMMA UdpBytesAre ==
    ASSUME NEW sp \in U16, NEW dp \in U16, NEW chk \in U16, NEW u \in Seq(Byte), NEW s \in Seq(Byte),
           8 + Len(u) \in U16
    PROVE  LET udp == [src_port |-> sp, dst_port |-> dp, length |-> 8 + Len(u), checksum |-> chk]
               r == UdpHeader(udp) \o u \o s
           IN  /\ r \in Seq(Byte) /\ Len(r) = 8 + Len(u) + Len(s)
               /\ UdpOf(r, 0, sp, dp, chk, u, s)
               /\ UdpHeader(udp) \in Seq(Byte)
<1> DEFINE udp == [src_port |-> sp, dst_port |-> dp, length |-> 8 + Len(u), checksum |-> chk]
           f == U16Bytes(sp)
           g == f \o U16Bytes(dp)
           e == g \o U16Bytes(8 + Len(u))
           h == e \o U16Bytes(chk)
           x == h \o u
           r == x \o s
<1>0. PICK z \in Nat : z = 0
    BY SMT
<1>1. f \in Seq(Byte) /\ Len(f) = 2 /\ ReadU16(f, 0) = sp
    <2>1. 0 + 1 = 1 /\ 0 + 2 = 2
        BY SMT
    <2> QED
        BY <2>1, U16BytesIs, Zenon DEF ReadU16
<1> HIDE DEF f
<1>2. g \in Seq(Byte) /\ Len(g) = 4 /\ ReadU16(g, 0) = sp /\ ReadU16(g, 2) = dp
    <2>1. g \in Seq(Byte) /\ Len(g) = Len(f) + 2 /\ ReadU16(g, Len(f)) = dp
        BY <1>1, FieldAppended, Zenon
    <2>2. U16Bytes(dp) \in Seq(Byte)
        BY U16BytesIs, Zenon
    <2>3. 0 \in Nat /\ 0 + 2 <= Len(f) /\ 2 + 2 = 4
        BY <1>1, SMT
    <2>4. ReadU16(g, 0) = ReadU16(f, 0)
        BY <1>1, <2>2, <2>3, FieldKept, Zenon
    <2> QED
        BY <1>1, <2>1, <2>3, <2>4, Zenon
<1> HIDE DEF g
<1>3. e \in Seq(Byte) /\ Len(e) = 6
      /\ ReadU16(e, 0) = sp /\ ReadU16(e, 2) = dp /\ ReadU16(e, 4) = 8 + Len(u)
    <2>1. e \in Seq(Byte) /\ Len(e) = Len(g) + 2 /\ ReadU16(e, Len(g)) = 8 + Len(u)
        BY <1>2, FieldAppended, Zenon
    <2>2. U16Bytes(8 + Len(u)) \in Seq(Byte)
        BY U16BytesIs, Zenon
    <2>3. 0 \in Nat /\ 0 + 2 <= Len(g) /\ 2 \in Nat /\ 2 + 2 <= Len(g) /\ 4 + 2 = 6
        BY <1>2, SMT
    <2>4. ReadU16(e, 0) = ReadU16(g, 0) /\ ReadU16(e, 2) = ReadU16(g, 2)
        BY <1>2, <2>2, <2>3, FieldKept, Zenon
    <2> QED
        BY <1>2, <2>1, <2>3, <2>4, Zenon
<1> HIDE DEF e
<1>4. h \in Seq(Byte) /\ Len(h) = 8
      /\ ReadU16(h, 0) = sp /\ ReadU16(h, 2) = dp /\ ReadU16(h, 4) = 8 + Len(u)
      /\ ReadU16(h, 6) = chk
    <2>1. h \in Seq(Byte) /\ Len(h) = Len(e) + 2 /\ ReadU16(h, Len(e)) = chk
        BY <1>3, FieldAppended, Zenon
    <2>2. U16Bytes(chk) \in Seq(Byte)
        BY U16BytesIs, Zenon
    <2>3. /\ 0 \in Nat /\ 0 + 2 <= Len(e) /\ 2 \in Nat /\ 2 + 2 <= Len(e)
          /\ 4 \in Nat /\ 4 + 2 <= Len(e) /\ 6 + 2 = 8
        BY <1>3, SMT
    <2>4. /\ ReadU16(h, 0) = ReadU16(e, 0) /\ ReadU16(h, 2) = ReadU16(e, 2)
          /\ ReadU16(h, 4) = ReadU16(e, 4)
        BY <1>3, <2>2, <2>3, FieldKept, Zenon
    <2> QED
        BY <1>3, <2>1, <2>3, <2>4, Zenon
<1>5. UdpHeader(udp) = h
    BY Zenon DEF UdpHeader, h, e, g, f
<1> HIDE DEF h
<1>6. x \in Seq(Byte) /\ Len(x) = Len(h) + Len(u) /\ \A i \in 1 .. Len(u) : x[Len(h) + i] = u[i]
    BY <1>4, ConcatIs, Zenon
<1>7. ASSUME NEW k \in Nat, k + 2 <= Len(h) PROVE ReadU16(x, k) = ReadU16(h, k)
    BY <1>4, <1>7, FieldKept, Zenon
<1> HIDE DEF x
<1>8. /\ r \in Seq(Byte) /\ Len(r) = Len(x) + Len(s)
      /\ \A i \in 1 .. Len(x) : r[i] = x[i]
      /\ \A i \in 1 .. Len(s) : r[Len(x) + i] = s[i]
    BY <1>6, ConcatIs, Zenon
<1>9. ASSUME NEW k \in Nat, k + 2 <= Len(h) PROVE ReadU16(r, k) = ReadU16(h, k)
    <2>1. k + 2 <= Len(x)
        BY <1>4, <1>6, <1>9, SMT
    <2>2. ReadU16(r, k) = ReadU16(x, k)
        BY <1>6, <2>1, FieldKept, Zenon
    <2> QED
        BY <1>7, <1>9, <2>2, Zenon
<1> HIDE DEF r
<1>10. /\ ReadU16(r, 0) = sp /\ ReadU16(r, 0 + 2) = dp /\ ReadU16(r, 0 + 4) = 8 + Len(u)
       /\ ReadU16(r, 0 + 6) = chk
    <2>1. /\ 0 \in Nat /\ 0 + 2 <= Len(h) /\ 2 \in Nat /\ 2 + 2 <= Len(h)
          /\ 4 \in Nat /\ 4 + 2 <= Len(h) /\ 6 \in Nat /\ 6 + 2 <= Len(h)
          /\ 0 + 2 = 2 /\ 0 + 4 = 4 /\ 0 + 6 = 6
        BY <1>4, SMT
    <2> QED
        BY <1>4, <1>9, <2>1, Zenon
<1>11. \A i \in 1 .. Len(u) : r[0 + 8 + i] = u[i]
    BY <1>4, <1>6, <1>8, SMT
<1>12. \A i \in 1 .. Len(s) : r[0 + 8 + Len(u) + i] = s[i]
    BY <1>4, <1>6, <1>8, SMT
<1>13. Len(r) = 8 + Len(u) + Len(s)
    BY <1>4, <1>6, <1>8, SMT
<1>14. UdpOf(r, 0, sp, dp, chk, u, s)
    BY <1>10, <1>11, <1>12, Zenon DEF UdpOf
<1> QED
    BY <1>4, <1>5, <1>8, <1>13, <1>14, Zenon DEF r, x

\* s is the surplus area for the user data u and the options b: the pad byte p where one is
\* needed, and b with f for its OCS.
AreaOf(s, u, b, p, f) ==
    /\ s \in Seq(Byte) /\ b \in Seq(Byte) /\ f \in Seq(Byte) /\ Len(f) = 2
    /\ IF b = <<>> THEN Len(s) = 0
       ELSE /\ Len(b) >= 2
            /\ Len(s) = PadLen(u) + Len(b)
            /\ PadLen(u) = 1 => s[1] = p
            /\ \A i \in 1 .. Len(b) : s[PadLen(u) + i] = Patch(b, 0, f)[i]

\* The OCS f is right for it.
OcsFits(u, b, f) ==
    OnesComplementOf(Total(Append(Words(Patch(b, 0, f)), PadLen(u) + Len(b)))) = U16Max

\* The surplus area as assemble_datagram makes it
AreaParts(u, b, pad, n, s) ==
    /\ pad = IF b # <<>> /\ PadLen(u) = 1 THEN <<0>> ELSE <<>>
    /\ n = IF b = <<>> THEN 0 ELSE Len(pad) + Len(b)
    /\ s = IF b = <<>> THEN <<>> ELSE pad \o OcsCompute(b, n)

\* pad \o ocs::compute is such an area, with a right OCS that is not zero.
LEMMA AreaBuilt ==
    ASSUME ChecksumLaws,
           NEW u \in Seq(Byte), NEW b \in Seq(Byte), b = <<>> \/ Len(b) >= 2,
           PadLen(u) + Len(b) \in U16,
           NEW pad, NEW n, NEW s, AreaParts(u, b, pad, n, s)
    PROVE  /\ s \in Seq(Byte) /\ Len(s) = n
           /\ \E f : AreaOf(s, u, b, 0, f) /\ (b # <<>> => f # <<0, 0>> /\ OcsFits(u, b, f))
<1>law. OcsStores
    BY Zenon DEF ChecksumLaws
<1>1. Len(u) \in Nat /\ Len(b) \in Nat /\ (PadLen(u) = 0 \/ PadLen(u) = 1)
    BY SMT DEF PadLen
<1>2. CASE b = <<>>
    <2>1. s = <<>> /\ n = 0
        BY <1>2, Zenon DEF AreaParts
    <2>2. <<>> \in Seq(Byte) /\ Len(<<>>) = 0 /\ <<0, 0>> \in Seq(Byte) /\ Len(<<0, 0>>) = 2
        BY SMT DEF Byte
    <2> QED
        BY <1>2, <2>1, <2>2, Zenon DEF AreaOf
<1>3. CASE b # <<>>
    <2>1. pad \in Seq(Byte) /\ Len(pad) = PadLen(u) /\ (PadLen(u) = 1 => pad[1] = 0)
        <3>1. CASE PadLen(u) = 1
            <4>1. pad = <<0>>
                BY <1>3, <3>1, Zenon DEF AreaParts
            <4>2. <<0>> \in Seq(Byte) /\ Len(<<0>>) = 1 /\ <<0>>[1] = 0
                BY SMT DEF Byte
            <4> QED
                BY <3>1, <4>1, <4>2, Zenon
        <3>2. CASE PadLen(u) = 0
            <4>1. pad = <<>>
                BY <3>2, SMT DEF AreaParts
            <4> QED
                BY <3>2, <4>1, SMT DEF Byte
        <3> QED
            BY <1>1, <3>1, <3>2, Zenon
    <2>2. n = PadLen(u) + Len(b) /\ n \in U16 /\ s = pad \o OcsCompute(b, n) /\ Len(b) >= 2
        BY <1>3, <2>1, Zenon DEF AreaParts
    <2>3. PICK f \in Seq(Byte) :
              /\ Len(f) = 2 /\ f # <<0, 0>> /\ OcsCompute(b, n) = Patch(b, 0, f)
              /\ OnesComplementOf(Total(Append(Words(Patch(b, 0, f)), n))) = U16Max
        BY <2>2, <1>law, Zenon DEF OcsStores
    <2> DEFINE q == Patch(b, 0, f)
    <2>4. 0 \in Nat /\ 0 + 2 <= Len(b)
        BY <1>1, <2>2, SMT
    <2>5. q \in Seq(Byte) /\ Len(q) = Len(b)
        BY <2>3, <2>4, FieldPatchIs, Zenon
    <2>6. s = pad \o q
        BY <2>2, <2>3, Zenon
    <2>7. OcsFits(u, b, f)
        BY <2>2, <2>3, Zenon DEF OcsFits
    <2> HIDE DEF q
    <2>8. /\ s \in Seq(Byte) /\ Len(s) = PadLen(u) + Len(b)
          /\ \A i \in 1 .. Len(pad) : s[i] = pad[i]
          /\ \A i \in 1 .. Len(b) : s[PadLen(u) + i] = q[i]
        <3>1. /\ pad \o q \in Seq(Byte) /\ Len(pad \o q) = Len(pad) + Len(q)
              /\ \A i \in 1 .. Len(pad) : (pad \o q)[i] = pad[i]
              /\ \A i \in 1 .. Len(q) : (pad \o q)[Len(pad) + i] = q[i]
            BY <2>1, <2>5, ConcatIs, Zenon
        <3> QED
            BY <2>1, <2>5, <2>6, <3>1, Zenon
    <2>9. PadLen(u) = 1 => s[1] = 0
        <3>1. PadLen(u) = 1 => 1 \in 1 .. Len(pad)
            BY <2>1, SMT
        <3> QED
            BY <2>1, <2>8, <3>1, Zenon
    <2>10. AreaOf(s, u, b, 0, f)
        BY <1>3, <2>2, <2>3, <2>8, <2>9, Zenon DEF AreaOf, q
    <2> QED
        BY <2>2, <2>3, <2>7, <2>8, <2>10, Zenon
<1> QED
    BY <1>2, <1>3, Zenon

\* There are none.
NoArea(s) == Len(s) = 0
NoOptions(b) == b = <<>>

LEMMA AreaFits ==
    ASSUME NEW s, NEW u \in Seq(Byte), NEW b, NEW p, NEW f, AreaOf(s, u, b, p, f)
    PROVE  /\ SurplusFits(u, s) /\ s \in Seq(Byte)
           /\ NoArea(s) <=> NoOptions(b)
           /\ PadLen(u) = 0 \/ PadLen(u) = 1
<1>1. Len(u) \in Nat /\ (PadLen(u) = 0 \/ PadLen(u) = 1)
    BY SMT DEF PadLen
<1>2. /\ s \in Seq(Byte) /\ b \in Seq(Byte)
      /\ b = <<>> => Len(s) = 0
      /\ b # <<>> => Len(b) >= 2 /\ Len(s) = PadLen(u) + Len(b)
    BY Zenon DEF AreaOf
<1>3. Len(s) \in Nat /\ Len(b) \in Nat
    BY <1>2, SMT
<1> QED
    BY <1>1, <1>2, <1>3, SMT DEF SurplusFits, NoArea, NoOptions

\* The OCS-led body of such an area, and the options after the OCS
LEMMA AreaBody ==
    ASSUME NEW s, NEW u \in Seq(Byte), NEW b, ~NoOptions(b), NEW p, NEW f, AreaOf(s, u, b, p, f)
    PROVE  /\ Slice(s, PadLen(u), Len(s)) = Patch(b, 0, f)
           /\ Slice(s, PadLen(u) + 2, Len(s)) = Slice(b, 2, Len(b))
           /\ Patch(b, 0, f) \in Seq(Byte) /\ Len(Patch(b, 0, f)) = Len(b)
           /\ ReadU16(Patch(b, 0, f), 0) = Word(f[1], f[2])
<1> DEFINE q == Patch(b, 0, f)
           x == Slice(s, PadLen(u), Len(s))
           y == Slice(s, PadLen(u) + 2, Len(s))
           z == Slice(b, 2, Len(b))
<1>1. PadLen(u) = 0 \/ PadLen(u) = 1
    BY AreaFits, Zenon
<1>2. /\ s \in Seq(Byte) /\ b \in Seq(Byte) /\ f \in Seq(Byte) /\ Len(f) = 2
      /\ Len(b) >= 2 /\ Len(s) = PadLen(u) + Len(b)
      /\ \A i \in 1 .. Len(b) : s[PadLen(u) + i] = q[i]
    BY Zenon DEF AreaOf, NoOptions
<1>3. /\ Len(s) \in Nat /\ Len(b) \in Nat /\ PadLen(u) \in Nat /\ PadLen(u) + 2 \in Nat
      /\ PadLen(u) <= Len(s) /\ PadLen(u) + 2 <= Len(s) /\ 2 \in Nat /\ 2 <= Len(b)
      /\ 0 \in Nat /\ 0 + 2 <= Len(b) /\ Len(s) - PadLen(u) = Len(b)
      /\ Len(s) - (PadLen(u) + 2) = Len(b) - 2
      /\ 0 + 1 = 1 /\ 0 + 2 = 2
    BY <1>1, <1>2, SMT
<1>4. /\ q \in Seq(Byte) /\ Len(q) = Len(b) /\ q[0 + 1] = f[1] /\ q[0 + 2] = f[2]
      /\ \A i \in 1 .. Len(b) : i # 0 + 1 /\ i # 0 + 2 => q[i] = b[i]
    <2>1. b \in Seq(Byte) /\ 0 \in Nat /\ f \in Seq(Byte) /\ Len(f) = 2 /\ 0 + 2 <= Len(b)
        BY <1>2, <1>3, Zenon
    <2> QED
        BY ONLY <2>1, FieldPatchIs, Zenon DEF q
<1> HIDE DEF q
<1>5. x \in Seq(Byte) /\ Len(x) = Len(b) /\ \A i \in 1 .. Len(b) : x[i] = s[PadLen(u) + i]
    <2>1. s \in Seq(Byte) /\ PadLen(u) \in Nat /\ PadLen(u) <= Len(s)
        BY <1>2, <1>3, Zenon
    <2>2. /\ x \in Seq(Byte) /\ Len(x) = Len(s) - PadLen(u)
          /\ \A i \in 1 .. Len(s) - PadLen(u) : x[i] = s[PadLen(u) + i]
        BY ONLY <2>1, SliceFrom, Zenon DEF x
    <2> QED
        BY <1>3, <2>2, Zenon
<1>6. y \in Seq(Byte) /\ Len(y) = Len(b) - 2 /\ \A i \in 1 .. Len(b) - 2 : y[i] = s[PadLen(u) + 2 + i]
    <2>1. s \in Seq(Byte) /\ PadLen(u) + 2 \in Nat /\ PadLen(u) + 2 <= Len(s)
        BY <1>2, <1>3, Zenon
    <2>2. /\ y \in Seq(Byte) /\ Len(y) = Len(s) - (PadLen(u) + 2)
          /\ \A i \in 1 .. Len(s) - (PadLen(u) + 2) : y[i] = s[PadLen(u) + 2 + i]
        BY ONLY <2>1, SliceFrom, Zenon DEF y
    <2> QED
        BY <1>3, <2>2, Zenon
<1>7. z \in Seq(Byte) /\ Len(z) = Len(b) - 2 /\ \A i \in 1 .. Len(b) - 2 : z[i] = b[2 + i]
    BY ONLY <1>2, <1>3, SliceFrom, Zenon DEF z
<1> HIDE DEF x, y, z
<1>8. x = q
    <2>1. x \in Seq(Byte) /\ q \in Seq(Byte) /\ Len(x) = Len(q) /\ \A i \in 1 .. Len(q) : x[i] = q[i]
        BY <1>2, <1>4, <1>5, Zenon
    <2> QED
        BY ONLY <2>1, BytesEqual, Zenon
<1>9. ASSUME NEW i \in 1 .. Len(b) - 2 PROVE y[i] = z[i]
    <2>1. 2 + i \in 1 .. Len(b) /\ PadLen(u) + 2 + i = PadLen(u) + (2 + i) /\ 2 + i # 1 /\ 2 + i # 2
        BY <1>1, <1>3, SMT
    <2>2. y[i] = q[2 + i]
        BY <1>2, <1>6, <2>1, Zenon
    <2>3. q[2 + i] = b[2 + i]
        BY <1>3, <1>4, <2>1, Zenon
    <2> QED
        BY <1>7, <2>2, <2>3, Zenon
<1>10. y = z
    BY <1>6, <1>7, <1>9, BytesEqual, Zenon
<1>11. ReadU16(q, 0) = Word(f[1], f[2])
    BY <1>4, Zenon DEF ReadU16
<1> QED
    BY <1>4, <1>8, <1>10, <1>11, Zenon DEF q, x, y, z

\* datagram_len, and the lengths it bounds
LEMMA DatagramLenIs ==
    ASSUME NEW k \in Nat, NEW l \in Nat
    PROVE  DatagramLen(k, l) = 20 + (UdpHeaderLen + k) + (IF l = 0 THEN 0 ELSE (k % 2) + l)
<1>1. (Ipv4HeaderLen + UdpHeaderLen + k) % 2 = k % 2 /\ k % 2 \in Nat
    BY SMT DEF Ipv4HeaderLen, UdpHeaderLen
<1>2. DatagramLen(k, l) = IF l = 0 THEN Ipv4HeaderLen + UdpHeaderLen + k
                          ELSE Ipv4HeaderLen + UdpHeaderLen + k + (k % 2) + l
    BY <1>1, Zenon DEF DatagramLen
<1> QED
    BY <1>1, <1>2, SMT DEF Ipv4HeaderLen, UdpHeaderLen

LEMMA LengthsFit ==
    ASSUME NEW k \in Nat, NEW n \in Nat, 20 + (UdpHeaderLen + k) + n <= U16Max
    PROVE  20 + (UdpHeaderLen + k) + n \in U16 /\ n \in U16 /\ 8 + k \in U16
<1>1. 20 + (UdpHeaderLen + k) + n \in Nat /\ 20 + (UdpHeaderLen + k) + n <= 65535
    BY SMT DEF UdpHeaderLen, U16Max
<1>2. 8 + k \in Nat /\ 8 + k <= 65535 /\ n <= 65535
    BY SMT DEF UdpHeaderLen, U16Max
<1>3. 20 + (UdpHeaderLen + k) + n \in U16
    BY <1>1, U16Has, SMT
<1>4. 8 + k \in U16 /\ n \in U16
    BY <1>2, U16Has, SMT
<1> QED
    BY <1>3, <1>4, Zenon

\* assemble_datagram builds a datagram that carries what it was given, as long as datagram_len says.
LEMMA AssembleCarries ==
    ASSUME ChecksumLaws,
           NEW u \in UserData, NEW b \in Bodies
    PROVE  LET w == AssembleDatagram(u, b)
           IN  /\ u \in Seq(Byte) /\ b \in Seq(Byte)
               /\ Len(w) = DatagramLen(Len(u), Len(b))
               /\ \E s, f :
                     /\ AreaOf(s, u, b, 0, f)
                     /\ b # <<>> => f # <<0, 0>> /\ OcsFits(u, b, f)
                     /\ Len(w) = 20 + 8 + Len(u) + Len(s)
                     /\ Carries(w, 20, SrcPort, DstPort, UdpSum(SrcPort, DstPort, u), u, s)
<1>law. UdpStored
    BY Zenon DEF ChecksumLaws
<1> DEFINE chk == UdpSum(SrcPort, DstPort, u)
           ip == [src |-> Src, dst |-> Dst]
           udp_len == UdpHeaderLen + Len(u)
           natural_start == UdpHeaderLen + 20 + Len(u)
           pad == IF b # <<>> /\ natural_start % 2 = 1 THEN <<0>> ELSE <<>>
           n == IF b = <<>> THEN 0 ELSE Len(pad) + Len(b)
           s == IF b = <<>> THEN <<>> ELSE pad \o OcsCompute(b, n)
           udp == [src_port |-> SrcPort, dst_port |-> DstPort, length |-> udp_len, checksum |-> 0]
           h == IpHeader(20 + udp_len + n)
           r == UdpHeader([udp EXCEPT !.checksum = chk]) \o u \o s
           w == AssembleDatagram(u, b)
<1>1. /\ u \in Seq(Byte) /\ b \in Seq(Byte) /\ (b = <<>> \/ Len(b) >= 2)
      /\ DatagramLen(Len(u), Len(b)) <= U16Max
    BY DatagramsAssumption, Zenon DEF OcsLen
<1>2. Len(u) \in Nat /\ Len(b) \in Nat /\ (b = <<>> <=> Len(b) = 0)
    BY <1>1, SMT
<1>3. natural_start % 2 = PadLen(u) /\ (PadLen(u) = 0 \/ PadLen(u) = 1)
    BY <1>2, SMT DEF PadLen, UdpHeaderLen
<1>4. pad = IF b # <<>> /\ PadLen(u) = 1 THEN <<0>> ELSE <<>>
    BY <1>3, Zenon
<1>5. Len(<<>>) = 0 /\ Len(<<0>>) = 1
    BY SMT
<1>6. b # <<>> => Len(pad) = PadLen(u)
    BY <1>3, <1>4, <1>5, Zenon
<1> HIDE DEF pad
<1>7. 20 + udp_len + n = DatagramLen(Len(u), Len(b)) /\ n \in Nat
    <2>1. n = IF Len(b) = 0 THEN 0 ELSE PadLen(u) + Len(b)
        BY <1>2, <1>6, Zenon
    <2> HIDE DEF n
    <2>2. n \in Nat
        BY <1>2, <1>3, <2>1, SMT
    <2> QED
        BY <1>2, <2>1, <2>2, DatagramLenIs, Zenon DEF PadLen
<1>8. 20 + udp_len + n \in U16 /\ n \in U16 /\ 8 + Len(u) \in U16
    <2> HIDE DEF n
    <2>1. 20 + (UdpHeaderLen + Len(u)) + n <= U16Max
        BY <1>1, <1>7, Zenon
    <2> QED
        BY <1>2, <1>7, <2>1, LengthsFit, Zenon
<1>9. b # <<>> => PadLen(u) + Len(b) \in U16
    BY <1>6, <1>8, Zenon
<1>10. /\ s \in Seq(Byte) /\ Len(s) = n
       /\ \E f : AreaOf(s, u, b, 0, f) /\ (b # <<>> => f # <<0, 0>> /\ OcsFits(u, b, f))
    <2>1. PadLen(u) + Len(b) \in U16
        <3>1. b = <<>> => PadLen(u) + Len(b) \in U16
            BY <1>2, <1>3, U16Has, SMT
        <3> QED
            BY <1>9, <3>1, Zenon
    <2> HIDE DEF s, n
    <2>2. AreaParts(u, b, pad, n, s)
        BY <1>4, Zenon DEF AreaParts, n, s
    <2>3. u \in Seq(Byte) /\ b \in Seq(Byte) /\ (b = <<>> \/ Len(b) >= 2)
        BY <1>1, Zenon
    <2> QED
        BY <2>1, <2>2, <2>3, AreaBuilt, Zenon
<1>11. ComputeChecksum(ip, udp, u) = chk
    BY Zenon DEF UdpSum
<1> DEFINE k == UdpHeader([udp EXCEPT !.checksum = chk])
<1>12. h \in Seq(Byte) /\ HeaderFor(h, 20, 20 + udp_len + n) /\ InternetChecksum(h) = 0
    <2> DEFINE t == 20 + udp_len + n
    <2>1. t \in U16
        BY <1>8
    <2> HIDE DEF t
    <2>2. HeaderFor(IpHeader(t), 20, t) /\ InternetChecksum(IpHeader(t)) = 0
        BY <2>1, IpHeaderIs, Zenon
    <2>3. IpHeader(t) \in Seq(Byte)
        BY <2>2, Zenon DEF HeaderFor
    <2> QED
        BY <2>2, <2>3, Zenon DEF t
<1>13. chk \in U16 /\ SrcPort \in U16 /\ DstPort \in U16
    <2>1. SrcPort \in U16 /\ DstPort \in U16
        BY AddressesAssumption, Zenon
    <2>2. udp_len \in U16
        BY <1>8, Zenon DEF UdpHeaderLen
    <2> QED
        BY <1>1, <2>1, <2>2, <1>law, Zenon DEF UdpStored
<1>14. [udp EXCEPT !.checksum = chk] =
           [src_port |-> SrcPort, dst_port |-> DstPort, length |-> 8 + Len(u), checksum |-> chk]
    BY SMT DEF UdpHeaderLen
<1>15. /\ r \in Seq(Byte) /\ Len(r) = 8 + Len(u) + Len(s)
       /\ UdpOf(r, 0, SrcPort, DstPort, chk, u, s)
       /\ k \in Seq(Byte)
    <2> DEFINE v == [src_port |-> SrcPort, dst_port |-> DstPort, length |-> 8 + Len(u), checksum |-> chk]
    <2>1. [udp EXCEPT !.checksum = chk] = v
        BY <1>14, Zenon
    <2> HIDE DEF chk, s
    <2>2. /\ SrcPort \in U16 /\ DstPort \in U16 /\ chk \in U16 /\ u \in Seq(Byte) /\ s \in Seq(Byte)
          /\ 8 + Len(u) \in U16
        BY <1>1, <1>8, <1>10, <1>13, Zenon
    <2>3. /\ UdpHeader(v) \o u \o s \in Seq(Byte)
          /\ Len(UdpHeader(v) \o u \o s) = 8 + Len(u) + Len(s)
          /\ UdpOf(UdpHeader(v) \o u \o s, 0, SrcPort, DstPort, chk, u, s)
          /\ UdpHeader(v) \in Seq(Byte)
        BY ONLY <2>2, UdpBytesAre, SMT DEF v
    <2> HIDE DEF v
    <2> QED
        BY <2>1, <2>3, Zenon
<1> HIDE DEF k, h
<1>16. w = h \o r
    <2>1. w = ((h \o k) \o u) \o s
        BY <1>11, Zenon DEF AssembleDatagram, pad, h, k
    <2> HIDE DEF s
    <2>2. h \in Seq(Byte) /\ k \in Seq(Byte) /\ u \in Seq(Byte)
        BY <1>1, <1>12, <1>15, Zenon
    <2>3. (h \o k) \o u = h \o (k \o u)
        BY ONLY <2>2, BytesAssociative, SMT
    <2> DEFINE x == k \o u
    <2>4. x \in Seq(Byte)
        BY ONLY <2>2, ConcatIs, Zenon
    <2> HIDE DEF x
    <2>5. (h \o x) \o s = h \o (x \o s)
        BY <1>10, <1>12, <2>4, BytesAssociative, Zenon
    <2> QED
        BY <2>1, <2>3, <2>5, Zenon DEF k, x
<1> HIDE DEF s, n, r, w, chk
<1>17. 20 + udp_len + n = 20 + 8 + Len(u) + Len(s) /\ Len(s) \in Nat
    BY <1>2, <1>7, <1>10, SMT DEF UdpHeaderLen
<1>18. /\ IpHeaderOf(w, 20, 20 + 8 + Len(u) + Len(s)) /\ Len(w) = 20 + Len(r)
       /\ \A i \in 1 .. Len(r) : w[20 + i] = r[i]
    <2>1. 20 <= 20 + udp_len + n /\ 20 + udp_len + n <= 20 + Len(r)
        BY <1>2, <1>15, <1>17, SMT
    <2> QED
        <3> DEFINE t == 20 + udp_len + n
        <3>1. t \in U16 /\ HeaderFor(h, 20, t) /\ 20 <= t /\ t <= 20 + Len(r)
            BY <1>8, <1>12, <2>1, Zenon
        <3>2. t = 20 + 8 + Len(u) + Len(s)
            BY <1>17, Zenon
        <3> HIDE DEF t
        <3>3. /\ IpHeaderOf(h \o r, 20, t) /\ Len(h \o r) = 20 + Len(r)
              /\ \A i \in 1 .. Len(r) : (h \o r)[20 + i] = r[i]
            <4>1. PICK hl \in Nat : hl = 20
                BY SMT
            <4>2. /\ HeaderFor(h, hl, t) /\ InternetChecksum(h) = 0 /\ t \in U16 /\ hl <= t
                  /\ t <= hl + Len(r) /\ r \in Seq(Byte)
                BY <1>12, <1>15, <3>1, <4>1, Zenon
            <4>3. /\ IpHeaderOf(h \o r, hl, t) /\ Len(h \o r) = hl + Len(r)
                  /\ \A i \in 1 .. Len(r) : (h \o r)[hl + i] = r[i]
                BY ONLY <4>2, HeaderPlaced, SMT
            <4> QED
                BY <4>1, <4>3, Zenon
        <3> QED
            BY <1>16, <3>2, <3>3, Zenon
<1>19. UdpOf(w, 20, SrcPort, DstPort, chk, u, s)
    <2>1. 0 \in Nat /\ 20 \in Nat /\ \A i \in 1 .. 8 + Len(u) + Len(s) : w[20 + i] = r[0 + i]
        BY <1>15, <1>18, SMT
    <2> QED
        BY <1>15, <2>1, UdpMoved, Zenon
<1>20. Len(w) = 20 + 8 + Len(u) + Len(s)
    BY <1>2, <1>15, <1>17, <1>18, SMT
<1>21. Carries(w, 20, SrcPort, DstPort, chk, u, s)
    BY <1>18, <1>19, Zenon DEF Carries
<1> QED
    BY <1>1, <1>7, <1>10, <1>17, <1>20, <1>21, Zenon DEF w, chk
-----------------------------------------------------------------------------
(* The layouts of the surplus area *)

\* What a datagram as it was sent carries, taken apart
LEMMA CarriesTypes ==
    ASSUME NEW w, NEW hl, NEW sp, NEW dp, NEW chk, NEW u, NEW s, Carries(w, hl, sp, dp, chk, u, s)
    PROVE  /\ w \in Seq(Byte) /\ u \in Seq(Byte) /\ s \in Seq(Byte)
           /\ sp \in U16 /\ dp \in U16 /\ chk \in U16
           /\ hl \in Nat /\ (hl = 20 \/ hl = 24)
           /\ Len(u) \in Nat /\ Len(s) \in Nat /\ Len(w) \in Nat
           /\ hl + 8 + Len(u) + Len(s) \in U16
           /\ hl + 8 + Len(u) + Len(s) <= Len(w)
<1>1. /\ u \in Seq(Byte) /\ s \in Seq(Byte) /\ sp \in U16 /\ dp \in U16 /\ chk \in U16
      /\ IpHeaderOf(w, hl, hl + 8 + Len(u) + Len(s))
    BY Zenon DEF Carries, UdpOf
<1> DEFINE n == hl + 8 + Len(u) + Len(s)
<1> HIDE DEF n
<1>2. IpHeaderOf(w, hl, n)
    BY <1>1, Zenon DEF n
<1>3. w \in Seq(Byte) /\ n \in U16 /\ n <= Len(w)
    BY <1>2, Zenon DEF IpHeaderOf
<1>4. hl \in Nat /\ (hl = 20 \/ hl = 24)
    BY <1>2, HeaderParses, SMT
<1>5. Len(u) \in Nat /\ Len(s) \in Nat /\ Len(w) \in Nat
    BY <1>1, <1>3, SMT
<1> QED
    BY <1>1, <1>3, <1>4, <1>5, Zenon DEF n

\* surplus_layout of udpopt-send finds the surplus area too.
LEMMA CliLayoutIs ==
    ASSUME NEW w, NEW sp, NEW dp, NEW chk, NEW u, NEW s, Carries(w, 20, sp, dp, chk, u, s),
           Len(w) = 20 + 8 + Len(u) + Len(s)
    PROVE  LET layout == CliSurplusLayout(w)
           IN  IF Len(s) = 0 THEN layout = None
               ELSE /\ layout # None
                    /\ layout = [starts_at |-> 20 + 8 + Len(u), needs_pad |-> PadLen(u) = 1]
                    /\ OcsAt(layout) = 20 + 8 + Len(u) + PadLen(u)
<1>1. Len(u) \in Nat /\ Len(s) \in Nat
    BY CarriesTypes, Zenon
<1>2. ReadU16(w, 24) = 8 + Len(u)
    <2>1. ReadU16(w, 20 + 4) = 8 + Len(u)
        BY Zenon DEF Carries, UdpOf
    <2>2. 20 + 4 = 24
        BY SMT
    <2> QED
        BY <2>1, <2>2, Zenon
<1>3. PICK at \in Nat : at = 20 + 8 + Len(u)
    BY <1>1, SMT
<1>4. /\ Ipv4HeaderLen + ReadU16(w, 24) = at
      /\ ~(Len(w) < Ipv4HeaderLen + UdpHeaderLen)
      /\ (at >= Len(w) <=> Len(s) = 0)
    BY <1>1, <1>2, <1>3, SMT DEF Ipv4HeaderLen, UdpHeaderLen
<1>5. at % 2 = PadLen(u) /\ (PadLen(u) = 0 \/ PadLen(u) = 1)
    BY <1>1, <1>3, SMT DEF PadLen
<1> DEFINE lay == [starts_at |-> at, needs_pad |-> PadLen(u) = 1]
<1>6. (at % 2 # 0) = (PadLen(u) = 1)
    <2>1. 0 # 1
        BY SMT
    <2> QED
        BY <1>5, <2>1, Zenon
<1>7. CliSurplusLayout(w) = IF Len(s) = 0 THEN None ELSE lay
    <2>1. CliSurplusLayout(w) =
              IF Len(w) < Ipv4HeaderLen + UdpHeaderLen \/ at >= Len(w) THEN None
              ELSE [starts_at |-> at, needs_pad |-> at % 2 # 0]
        BY <1>4, Zenon DEF CliSurplusLayout
    <2> QED
        BY <1>4, <1>6, <2>1, Zenon
<1>8. lay # None
    <2>1. lay \in [starts_at : Nat, needs_pad : BOOLEAN]
        BY Zenon
    <2> QED
        BY <2>1, NoneAssumption, Zenon
<1>9. OcsAt(lay) = at + PadLen(u)
    <2>1. OcsAt(lay) = at + (IF PadLen(u) = 1 THEN 1 ELSE 0)
        BY Zenon DEF OcsAt
    <2> QED
        BY <1>5, <2>1, Zenon
<1> QED
    BY <1>3, <1>7, <1>8, <1>9, Zenon

\* The datagram udpopt-send applies its faults to is the one assemble_datagram built.
Assembled ==
    pc = "faults" => user \in UserData /\ body \in Bodies /\ wire = AssembleDatagram(user, body)

LEMMA AssembledInvariant == Spec => []Assembled
<1>1. Init => Assembled
    BY Zenon DEF Init, Assembled
<1>2. Assembled /\ [Next]_vars => Assembled'
    <2> SUFFICES ASSUME Assembled, [Next]_vars PROVE Assembled'
        OBVIOUS
    <2>1. ASSUME NEW u \in UserData, NEW b \in Bodies, Assemble(u, b) PROVE Assembled'
        BY <2>1, Zenon DEF Assemble, Assembled
    <2>2. ASSUME NEW f \in Faults, ApplyFaults(f) \/ RefuseFaults(f) PROVE Assembled'
        BY <2>2, Zenon DEF ApplyFaults, RefuseFaults, Assembled
    <2>3. CASE AddIpOptions
        BY <2>3, Zenon DEF AddIpOptions, Assembled
    <2>4. CASE AddTrailer
        BY <2>4, Zenon DEF AddTrailer, Assembled
    <2>5. ASSUME NEW i \in DOMAIN wire, DamageByte(i) PROVE Assembled'
        BY <2>5, Zenon DEF DamageByte, Assembled
    <2>6. CASE Receive
        BY <2>6, Zenon DEF Receive, Assembled
    <2>7. CASE UNCHANGED vars
        BY <2>7, Zenon DEF vars, Assembled
    <2> QED
        BY <2>1, <2>2, <2>3, <2>4, <2>5, <2>6, <2>7, Zenon DEF Next
<1> QED
    BY <1>1, <1>2, PTL DEF Spec

\* The length of the UDP header in what follows the IPv4 header
LEMMA UdpLengthIs ==
    ASSUME NEW w, NEW hl, NEW sp, NEW dp, NEW chk, NEW u, NEW s, Carries(w, hl, sp, dp, chk, u, s)
    PROVE  UdpRepr(Slice(w, hl, Len(w))).length = 8 + Len(u)
<1> DEFINE g == Slice(w, hl, Len(w))
<1>1. w \in Seq(Byte) /\ hl \in Nat /\ Len(u) \in Nat /\ Len(s) \in Nat /\ Len(w) \in Nat
    BY CarriesTypes, Zenon
<1>2. hl + 8 + Len(u) + Len(s) <= Len(w)
    BY CarriesTypes, Zenon
<1>3. hl <= Len(w) /\ 4 + 1 \in 1 .. Len(w) - hl /\ 4 + 2 \in 1 .. Len(w) - hl
    BY <1>1, <1>2, SMT
<1>4. \A i \in 1 .. Len(w) - hl : g[i] = w[hl + i]
    BY <1>1, <1>3, SliceFrom, Zenon
<1> HIDE DEF g
<1>5. hl + 4 + 1 = hl + (4 + 1) /\ hl + 4 + 2 = hl + (4 + 2)
    BY <1>1, SMT
<1>6. ReadU16(g, 4) = ReadU16(w, hl + 4)
    <2>1. g[4 + 1] = w[hl + 4 + 1] /\ g[4 + 2] = w[hl + 4 + 2]
        BY <1>3, <1>4, <1>5, SMT
    <2> QED
        BY <2>1, Zenon DEF ReadU16
<1>7. ReadU16(w, hl + 4) = 8 + Len(u)
    BY Zenon DEF Carries, UdpOf
<1> QED
    BY <1>6, <1>7, Zenon DEF UdpRepr, g

\* The two layouts agree, by the laws.
LEMMA LayoutsFollow == ASSUME ChecksumLaws PROVE Spec => []LayoutsAgree
<1>1. Assembled => LayoutsAgree
    <2> SUFFICES ASSUME Assembled, pc = "faults" PROVE LayoutsAgree
        BY Zenon DEF LayoutsAgree
    <2> DEFINE chk == UdpSum(SrcPort, DstPort, user)
               udp == UdpRepr(Slice(wire, 20, Len(wire)))
               found == LocateSurplus(IpRepr(wire), udp)
               cli == CliSurplusLayout(wire)
    <2>1. user \in UserData /\ body \in Bodies /\ wire = AssembleDatagram(user, body)
        BY Zenon DEF Assembled
    <2>2. PICK s, f :
              /\ AreaOf(s, user, body, 0, f)
              /\ Len(wire) = 20 + 8 + Len(user) + Len(s)
              /\ Carries(wire, 20, SrcPort, DstPort, chk, user, s)
        BY <2>1, AssembleCarries, Zenon
    <2>3. /\ user \in Seq(Byte) /\ body \in Seq(Byte)
          /\ Len(wire) = DatagramLen(Len(user), Len(body))
        BY <2>1, AssembleCarries, Zenon
    <2> HIDE DEF chk
    <2>4. /\ SurplusFits(user, s) /\ s \in Seq(Byte) /\ (Len(s) = 0 <=> body = <<>>)
          /\ PadLen(user) = 0 \/ PadLen(user) = 1
        <3>1. AreaOf(s, user, body, 0, f) /\ user \in Seq(Byte)
            BY <2>2, <2>3, Zenon
        <3>2. /\ SurplusFits(user, s) /\ s \in Seq(Byte) /\ (NoArea(s) <=> NoOptions(body))
              /\ PadLen(user) = 0 \/ PadLen(user) = 1
            BY ONLY <3>1, AreaFits, Zenon
        <3> QED
            BY <3>2, Zenon DEF NoArea, NoOptions
    <2>5. udp.length = 8 + Len(user)
        BY <2>2, UdpLengthIs, SMT
    <2> HIDE DEF udp
    <2>6. IF Len(s) = 0 THEN found = None
          ELSE /\ found # None
               /\ found = [starts_at |-> 20 + 8 + Len(user), needs_pad |-> PadLen(user) = 1,
                           len |-> Len(s)]
               /\ OcsAt(found) = 20 + 8 + Len(user) + PadLen(user)
        BY <2>2, <2>4, <2>5, LayoutIs, SMT
    <2>7. IF Len(s) = 0 THEN cli = None
          ELSE /\ cli # None
               /\ cli = [starts_at |-> 20 + 8 + Len(user), needs_pad |-> PadLen(user) = 1]
               /\ OcsAt(cli) = 20 + 8 + Len(user) + PadLen(user)
        BY <2>2, CliLayoutIs, Zenon
    <2>8. (found = None <=> body = <<>>) /\ (cli = None <=> body = <<>>)
        BY <2>4, <2>6, <2>7, Zenon
    <2> HIDE DEF found, cli
    <2>9. ASSUME body # <<>>
          PROVE  /\ found.starts_at = cli.starts_at /\ found.needs_pad = cli.needs_pad
                 /\ found.starts_at + found.len = Len(wire)
                 /\ OcsAt(found) % 2 = 0
                 /\ Slice(wire, OcsAt(found) + OcsLen, Len(wire)) = OptionBytes
        <3>1. PICK at \in Nat : at = 20 + 8 + Len(user)
            BY <2>3, SMT
        <3> DEFINE fl == [starts_at |-> at, needs_pad |-> PadLen(user) = 1, len |-> Len(s)]
                   cl == [starts_at |-> at, needs_pad |-> PadLen(user) = 1]
        <3>2. found = fl /\ cli = cl /\ OcsAt(found) = at + PadLen(user)
            BY <2>4, <2>6, <2>7, <2>9, <3>1, Zenon
        <3>3. fl.starts_at = at /\ fl.needs_pad = (PadLen(user) = 1) /\ fl.len = Len(s)
            BY Zenon
        <3>4. cl.starts_at = at /\ cl.needs_pad = (PadLen(user) = 1)
            BY Zenon
        <3>5. /\ found.starts_at = at /\ found.len = Len(s)
              /\ found.starts_at = cli.starts_at /\ found.needs_pad = cli.needs_pad
            BY <3>2, <3>3, <3>4, Zenon
        <3>6. Len(wire) = at + Len(s)
            BY <2>2, <3>1, Zenon
        <3>7. OcsAt(found) % 2 = 0
            <4>1. (at + PadLen(user)) % 2 = 0
                BY <2>3, <2>4, <3>1, SMT DEF PadLen
            <4> QED
                BY <3>2, <4>1, Zenon
        <3>8. Slice(s, PadLen(user) + 2, Len(s)) = Slice(body, 2, Len(body))
            <4>1. ~NoOptions(body)
                BY <2>9, Zenon DEF NoOptions
            <4> QED
                BY <2>2, <2>3, <4>1, AreaBody, Zenon
        <3>9. PICK k \in Nat : k = PadLen(user) + 2 /\ k <= Len(s) /\ OcsAt(found) + OcsLen = at + k
            <4>1. OcsAt(found) = at + PadLen(user) /\ Len(s) >= PadLen(user) + 2
                BY <2>4, <2>9, <3>2, Zenon DEF SurplusFits
            <4> QED
                BY <2>4, <4>1, SMT DEF OcsLen
        <3>10. \A i \in 1 .. Len(s) : wire[at + i] = s[i]
            BY <2>2, <3>1, Zenon DEF Carries, UdpOf
        <3>11. wire \in Seq(Byte)
            BY <2>2, CarriesTypes, Zenon
        <3>12. Slice(wire, at + k, Len(wire)) = Slice(s, k, Len(s))
            <4>1. /\ wire \in Seq(Byte) /\ s \in Seq(Byte) /\ k <= Len(s)
                  /\ Len(wire) = at + Len(s) /\ \A i \in 1 .. Len(s) : wire[at + i] = s[i]
                BY <2>4, <3>6, <3>9, <3>10, <3>11, Zenon
            <4> QED
                BY ONLY <4>1, at \in Nat, k \in Nat, TailOf, Zenon
        <3>13. Slice(wire, OcsAt(found) + OcsLen, Len(wire)) = OptionBytes
            BY <3>8, <3>9, <3>12, Zenon DEF OptionBytes, OcsLen
        <3> QED
            BY <3>5, <3>6, <3>7, <3>13, Zenon
    <2> QED
        BY <2>3, <2>8, <2>9, Zenon DEF LayoutsAgree, found, cli, udp
<1> QED
    BY <1>1, AssembledInvariant, PTL

-----------------------------------------------------------------------------
(* Datagrams that differ after the IPv4 header *)

LEMMA HeaderKept ==
    ASSUME NEW w, NEW hl, NEW n, IpHeaderOf(w, hl, n),
           NEW c \in Seq(Byte), n <= Len(c), \A i \in 1 .. hl : c[i] = w[i]
    PROVE  IpHeaderOf(c, hl, n)
<1>1. /\ w \in Seq(Byte) /\ n \in U16 /\ hl <= n /\ n <= Len(w)
      /\ (hl = 20 /\ w[1] = 69) \/ (hl = 24 /\ w[1] = 70)
      /\ ReadU16(w, 2) = n /\ w[10] = IpProtoUdp
      /\ \A i \in 1 .. 4 : w[12 + i] = Src[i] /\ w[16 + i] = Dst[i]
      /\ InternetChecksum(Slice(w, 0, hl)) = 0
    BY Zenon DEF IpHeaderOf
<1>2. hl \in Nat /\ (hl = 20 \/ hl = 24) /\ n \in Nat
    BY HeaderParses, SMT
<1>3. /\ 1 \in 1 .. hl /\ 2 + 1 \in 1 .. hl /\ 2 + 2 \in 1 .. hl /\ 10 \in 1 .. hl
      /\ \A i \in 1 .. 4 : 12 + i \in 1 .. hl /\ 16 + i \in 1 .. hl
    BY <1>2, SMT
<1>4. ReadU16(c, 2) = n
    <2>1. c[2 + 1] = w[2 + 1] /\ c[2 + 2] = w[2 + 2]
        BY <1>3, Zenon
    <2> QED
        BY <1>1, <2>1, Zenon DEF ReadU16
<1>5. c[1] = w[1] /\ c[10] = w[10]
    BY <1>3, Zenon
<1>6. \A i \in 1 .. 4 : c[12 + i] = w[12 + i] /\ c[16 + i] = w[16 + i]
    BY <1>3, Zenon
<1>7. Slice(c, 0, hl) = Slice(w, 0, hl)
    <2> DEFINE x == Slice(c, 0, hl)
               y == Slice(w, 0, hl)
    <2>1. w \in Seq(Byte) /\ hl \in Nat /\ hl <= Len(c) /\ hl <= Len(w)
        BY <1>1, <1>2, SMTT(30)
    <2>2. x \in Seq(Byte) /\ Len(x) = hl /\ \A i \in 1 .. hl : x[i] = c[i]
        BY <2>1, SliceTo, Zenon
    <2>3. y \in Seq(Byte) /\ Len(y) = hl /\ \A i \in 1 .. hl : y[i] = w[i]
        BY <2>1, SliceTo, Zenon
    <2> HIDE DEF x, y
    <2>4. Len(x) = Len(y) /\ \A i \in 1 .. Len(y) : x[i] = y[i]
        BY <2>2, <2>3, Zenon
    <2> QED
        BY ONLY <2>2, <2>3, <2>4, BytesEqual, Zenon DEF x, y
<1>8. /\ (hl = 20 /\ c[1] = 69) \/ (hl = 24 /\ c[1] = 70)
      /\ c[10] = IpProtoUdp
      /\ \A i \in 1 .. 4 : c[12 + i] = Src[i] /\ c[16 + i] = Dst[i]
      /\ InternetChecksum(Slice(c, 0, hl)) = 0
    BY <1>1, <1>5, <1>6, <1>7, Zenon
<1> QED
    BY <1>1, <1>4, <1>8, Zenon DEF IpHeaderOf

\* The datagram c has v and t where another has u and s.
RestOf(c, hl, u, s, v, t) ==
    /\ v \in Seq(Byte) /\ Len(v) = Len(u) /\ \A i \in 1 .. Len(u) : v[i] = c[hl + 8 + i]
    /\ t \in Seq(Byte) /\ Len(t) = Len(s) /\ \A i \in 1 .. Len(s) : t[i] = c[hl + 8 + Len(u) + i]
    /\ Carries(c, hl, ReadU16(c, hl), ReadU16(c, hl + 2), ReadU16(c, hl + 6), v, t)

\* Whatever the bytes after the IPv4 header, but the UDP length, have become: the datagram
\* carries them.
LEMMA CarriesOther ==
    ASSUME NEW w, NEW hl, NEW sp, NEW dp, NEW chk, NEW u, NEW s, Carries(w, hl, sp, dp, chk, u, s),
           NEW c \in Seq(Byte), Len(c) = Len(w), \A i \in 1 .. hl : c[i] = w[i],
           ReadU16(c, hl + 4) = ReadU16(w, hl + 4)
    PROVE  \E v, t : RestOf(c, hl, u, s, v, t)
<1> DEFINE n == hl + 8 + Len(u) + Len(s)
<1>1. /\ w \in Seq(Byte) /\ u \in Seq(Byte) /\ s \in Seq(Byte) /\ hl \in Nat
      /\ Len(u) \in Nat /\ Len(s) \in Nat /\ Len(w) \in Nat
    BY CarriesTypes, Zenon
<1>2. n <= Len(w)
    BY CarriesTypes, Zenon
<1>3. IpHeaderOf(w, hl, n) /\ ReadU16(w, hl + 4) = 8 + Len(u)
    BY Zenon DEF Carries, UdpOf
<1>4. IpHeaderOf(c, hl, n)
    <2> HIDE DEF n
    <2> QED
        BY <1>2, <1>3, HeaderKept, Zenon
<1>5. ASSUME NEW k \in Nat, hl + k + 2 <= Len(w) PROVE ReadU16(c, hl + k) \in U16
    <2>1. hl + k + 1 \in 1 .. Len(c) /\ hl + k + 2 \in 1 .. Len(c)
        BY <1>1, <1>5, SMT
    <2>2. c[hl + k + 1] \in Byte /\ c[hl + k + 2] \in Byte
        BY <2>1, SMT
    <2>3. Word(c[hl + k + 1], c[hl + k + 2]) \in U16
        BY ONLY <2>2, WordIs, Zenon
    <2> QED
        BY <2>3, Zenon DEF ReadU16
<1>6. ReadU16(c, hl) \in U16 /\ ReadU16(c, hl + 2) \in U16 /\ ReadU16(c, hl + 6) \in U16
    <2>1. /\ hl + 0 + 2 <= Len(w) /\ hl + 2 + 2 <= Len(w) /\ hl + 6 + 2 <= Len(w) /\ hl + 0 = hl
          /\ 0 \in Nat /\ 2 \in Nat /\ 6 \in Nat
        BY <1>1, <1>2, SMT
    <2> QED
        BY <1>5, <2>1, Zenon
<1> DEFINE v == Slice(c, hl + 8, hl + 8 + Len(u))
           t == Slice(c, hl + 8 + Len(u), n)
<1>7. /\ v \in Seq(Byte) /\ Len(v) = Len(u) /\ \A i \in 1 .. Len(u) : v[i] = c[hl + 8 + i]
    <2>1. PICK x \in Nat : x = hl + 8
        BY <1>1, SMT
    <2>2. PICK y \in Nat : y = x + Len(u)
        BY <1>1, SMT
    <2>3. x <= y /\ y <= Len(c) /\ y - x = Len(u)
        BY <1>1, <1>2, <2>1, <2>2, SMT
    <2>4. /\ Slice(c, x, y) \in Seq(Byte) /\ Len(Slice(c, x, y)) = y - x
          /\ \A i \in 1 .. y - x : Slice(c, x, y)[i] = c[x + i]
        BY <2>3, SliceIs, Zenon
    <2> QED
        BY <2>1, <2>2, <2>3, <2>4, Zenon
<1>8. /\ t \in Seq(Byte) /\ Len(t) = Len(s) /\ \A i \in 1 .. Len(s) : t[i] = c[hl + 8 + Len(u) + i]
    <2>1. PICK x \in Nat : x = hl + 8 + Len(u)
        BY <1>1, SMT
    <2>2. PICK y \in Nat : y = x + Len(s)
        BY <1>1, SMT
    <2>3. x <= y /\ y <= Len(c) /\ y - x = Len(s)
        BY <1>1, <1>2, <2>1, <2>2, SMT
    <2>4. /\ Slice(c, x, y) \in Seq(Byte) /\ Len(Slice(c, x, y)) = y - x
          /\ \A i \in 1 .. y - x : Slice(c, x, y)[i] = c[x + i]
        BY <2>3, SliceIs, Zenon
    <2> QED
        BY <2>1, <2>2, <2>3, <2>4, Zenon
<1> HIDE DEF v, t
<1>9. Carries(c, hl, ReadU16(c, hl), ReadU16(c, hl + 2), ReadU16(c, hl + 6), v, t)
    <2>1. UdpOf(c, hl, ReadU16(c, hl), ReadU16(c, hl + 2), ReadU16(c, hl + 6), v, t)
        BY <1>3, <1>6, <1>7, <1>8, Zenon DEF UdpOf
    <2> QED
        BY <1>4, <1>7, <1>8, <2>1, Zenon DEF Carries
<1>10. RestOf(c, hl, u, s, v, t)
    BY <1>7, <1>8, <1>9, Zenon DEF RestOf
<1> QED
    BY <1>10, Zenon

\* The user data and the surplus area are as before where their bytes are.
LEMMA DataKept ==
    ASSUME NEW w, NEW hl, NEW sp, NEW dp, NEW chk, NEW u, NEW s, Carries(w, hl, sp, dp, chk, u, s),
           NEW c, NEW v \in Seq(Byte), Len(v) = Len(u), \A i \in 1 .. Len(u) : v[i] = c[hl + 8 + i],
           \A i \in 1 .. Len(u) : c[hl + 8 + i] = w[hl + 8 + i]
    PROVE  v = u
<1>1. u \in Seq(Byte) /\ \A i \in 1 .. Len(u) : w[hl + 8 + i] = u[i]
    BY Zenon DEF Carries, UdpOf
<1>2. \A i \in 1 .. Len(u) : v[i] = u[i]
    BY <1>1, Zenon
<1> QED
    BY <1>1, <1>2, BytesEqual, Zenon

LEMMA AreaKept ==
    ASSUME NEW w, NEW hl, NEW sp, NEW dp, NEW chk, NEW u, NEW s, Carries(w, hl, sp, dp, chk, u, s),
           NEW c, NEW t \in Seq(Byte), Len(t) = Len(s),
           \A i \in 1 .. Len(s) : t[i] = c[hl + 8 + Len(u) + i],
           \A i \in 1 .. Len(s) : c[hl + 8 + Len(u) + i] = w[hl + 8 + Len(u) + i]
    PROVE  t = s
<1>1. s \in Seq(Byte) /\ \A i \in 1 .. Len(s) : w[hl + 8 + Len(u) + i] = s[i]
    BY Zenon DEF Carries, UdpOf
<1>2. \A i \in 1 .. Len(s) : t[i] = s[i]
    BY <1>1, Zenon
<1> QED
    BY <1>1, <1>2, BytesEqual, Zenon

\* Faults and damage in the surplus area alone
LEMMA AreaReplaced ==
    ASSUME NEW w, NEW hl, NEW sp, NEW dp, NEW chk, NEW u, NEW s, Carries(w, hl, sp, dp, chk, u, s),
           NEW c \in Seq(Byte), Len(c) = Len(w),
           \A i \in 1 .. hl + 8 + Len(u) : c[i] = w[i]
    PROVE  \E t \in Seq(Byte) :
               /\ Len(t) = Len(s) /\ \A i \in 1 .. Len(s) : t[i] = c[hl + 8 + Len(u) + i]
               /\ Carries(c, hl, sp, dp, chk, u, t)
<1>1. hl \in Nat /\ Len(u) \in Nat
    BY CarriesTypes, Zenon
<1>2. \A i \in 1 .. hl : c[i] = w[i]
    BY <1>1, SMT
<1>3. \A i \in 1 .. Len(u) : c[hl + 8 + i] = w[hl + 8 + i]
    BY <1>1, SMT
<1>4. ASSUME NEW k \in Nat, k <= 6 PROVE ReadU16(c, hl + k) = ReadU16(w, hl + k)
    <2>1. c[hl + k + 1] = w[hl + k + 1] /\ c[hl + k + 2] = w[hl + k + 2]
        BY <1>1, <1>4, SMT
    <2> QED
        BY <2>1, Zenon DEF ReadU16
<1>5. /\ ReadU16(c, hl) = ReadU16(w, hl) /\ ReadU16(c, hl + 2) = ReadU16(w, hl + 2)
      /\ ReadU16(c, hl + 4) = ReadU16(w, hl + 4) /\ ReadU16(c, hl + 6) = ReadU16(w, hl + 6)
    <2>1. /\ 0 \in Nat /\ 0 <= 6 /\ 2 \in Nat /\ 2 <= 6 /\ 4 \in Nat /\ 4 <= 6 /\ 6 \in Nat /\ 6 <= 6
          /\ hl + 0 = hl
        BY <1>1, SMT
    <2>2. ReadU16(c, hl + 0) = ReadU16(w, hl + 0)
        BY <1>4, <2>1, Zenon
    <2> QED
        BY <1>4, <2>1, <2>2, Zenon
<1>6. /\ ReadU16(w, hl) = sp /\ ReadU16(w, hl + 2) = dp /\ ReadU16(w, hl + 6) = chk
    BY Zenon DEF Carries, UdpOf
<1>7. PICK v, t \in Seq(Byte) :
          /\ Len(v) = Len(u) /\ \A i \in 1 .. Len(u) : v[i] = c[hl + 8 + i]
          /\ Len(t) = Len(s) /\ \A i \in 1 .. Len(s) : t[i] = c[hl + 8 + Len(u) + i]
          /\ Carries(c, hl, ReadU16(c, hl), ReadU16(c, hl + 2), ReadU16(c, hl + 6), v, t)
    <2>1. PICK v, t : RestOf(c, hl, u, s, v, t)
        BY <1>2, <1>5, CarriesOther, Zenon
    <2> QED
        BY <2>1, Zenon DEF RestOf
<1>8. v = u
    BY <1>3, <1>7, DataKept, SMT
<1>9. Carries(c, hl, sp, dp, chk, u, t)
    BY <1>5, <1>6, <1>7, <1>8, Zenon
<1> QED
    BY <1>7, <1>9, Zenon

\* The bytes at offset k of the surplus area replaced
LEMMA AreaWritten ==
    ASSUME NEW w, NEW hl, NEW sp, NEW dp, NEW chk, NEW u, NEW s, Carries(w, hl, sp, dp, chk, u, s),
           NEW k \in Nat, NEW bytes \in Seq(Byte), k + Len(bytes) <= Len(s),
           NEW at \in Nat, at = hl + 8 + Len(u) + k
    PROVE  /\ Len(Patch(w, at, bytes)) = Len(w)
           /\ Carries(Patch(w, at, bytes), hl, sp, dp, chk, u, Patch(s, k, bytes))
<1> DEFINE c == Patch(w, at, bytes)
           x == Patch(s, k, bytes)
<1>1. /\ w \in Seq(Byte) /\ u \in Seq(Byte) /\ s \in Seq(Byte) /\ hl \in Nat
      /\ Len(u) \in Nat /\ Len(s) \in Nat /\ Len(w) \in Nat
    BY CarriesTypes, Zenon
<1>2. hl + 8 + Len(u) + Len(s) <= Len(w)
    BY CarriesTypes, Zenon
<1>3. Len(bytes) \in Nat
    BY SMT
<1>4. at + Len(bytes) <= Len(w)
    BY <1>1, <1>2, <1>3, SMT
<1>5. /\ c \in Seq(Byte) /\ Len(c) = Len(w)
      /\ \A i \in 1 .. Len(bytes) : c[at + i] = bytes[i]
      /\ \A i \in 1 .. Len(w) : i <= at \/ i > at + Len(bytes) => c[i] = w[i]
    BY <1>1, <1>4, PatchIs, SMT
<1>6. /\ x \in Seq(Byte) /\ Len(x) = Len(s)
      /\ \A i \in 1 .. Len(bytes) : x[k + i] = bytes[i]
      /\ \A i \in 1 .. Len(s) : i <= k \/ i > k + Len(bytes) => x[i] = s[i]
    BY ONLY <1>1, bytes \in Seq(Byte), k \in Nat, k + Len(bytes) <= Len(s), PatchIs, SMT
<1> HIDE DEF c, x
<1>7. \A i \in 1 .. hl + 8 + Len(u) : c[i] = w[i]
    <2>1. \A i \in 1 .. hl + 8 + Len(u) : i \in 1 .. Len(w) /\ i <= at
        BY <1>1, <1>2, SMT
    <2> QED
        BY ONLY <1>5, <2>1, Zenon
<1>8. PICK t \in Seq(Byte) :
          /\ Len(t) = Len(s) /\ \A i \in 1 .. Len(s) : t[i] = c[hl + 8 + Len(u) + i]
          /\ Carries(c, hl, sp, dp, chk, u, t)
    BY <1>5, <1>7, AreaReplaced, SMT
<1>9. \A i \in 1 .. Len(s) : w[hl + 8 + Len(u) + i] = s[i]
    BY Zenon DEF Carries, UdpOf
<1>10. ASSUME NEW i \in 1 .. Len(s) PROVE t[i] = x[i]
    <2>1. CASE i <= k \/ i > k + Len(bytes)
        <3>1. /\ hl + 8 + Len(u) + i \in 1 .. Len(w)
              /\ hl + 8 + Len(u) + i <= at \/ hl + 8 + Len(u) + i > at + Len(bytes)
            BY <1>1, <1>2, <1>3, <2>1, SMT
        <3> QED
            BY <1>5, <1>6, <1>8, <1>9, <2>1, <3>1, Zenon
    <2>2. CASE ~(i <= k \/ i > k + Len(bytes))
        <3>1. PICK j \in 1 .. Len(bytes) : i = k + j /\ hl + 8 + Len(u) + i = at + j
            <4>1. i - k \in 1 .. Len(bytes) /\ i = k + (i - k) /\ hl + 8 + Len(u) + i = at + (i - k)
                BY <1>1, <1>3, <2>2, SMT
            <4> QED
                BY <4>1, Zenon
        <3> QED
            BY <1>5, <1>6, <1>8, <3>1, Zenon
    <2> QED
        BY <2>1, <2>2, Zenon
<1>11. t = x
    BY <1>6, <1>8, <1>10, BytesEqual, Zenon
<1> QED
    BY <1>5, <1>8, <1>11, Zenon DEF c, x

-----------------------------------------------------------------------------
(* The faults of udpopt-send *)

\* --zero-udp-checksum
LEMMA ZeroedCarries ==
    ASSUME NEW w, NEW hl, NEW sp, NEW dp, NEW chk, NEW u, NEW s, Carries(w, hl, sp, dp, chk, u, s),
           NEW at \in Nat, at = hl + 6
    PROVE  LET c == Patch(w, at, <<0, 0>>)
           IN  Len(c) = Len(w) /\ Carries(c, hl, sp, dp, 0, u, s)
<1> DEFINE o == <<0, 0>>
           c == Patch(w, at, o)
<1>1. /\ w \in Seq(Byte) /\ u \in Seq(Byte) /\ s \in Seq(Byte) /\ hl \in Nat
      /\ Len(u) \in Nat /\ Len(s) \in Nat /\ Len(w) \in Nat
    BY CarriesTypes, Zenon
<1>2. hl + 8 + Len(u) + Len(s) <= Len(w)
    BY CarriesTypes, Zenon
<1>3. o \in Seq(Byte) /\ Len(o) = 2 /\ o[1] = 0 /\ o[2] = 0
    BY SMT DEF Byte
<1> HIDE DEF o
<1>4. at + 2 <= Len(w)
    BY <1>1, <1>2, SMT
<1>5. /\ c \in Seq(Byte) /\ Len(c) = Len(w) /\ c[at + 1] = o[1] /\ c[at + 2] = o[2]
      /\ \A i \in 1 .. Len(w) : i # at + 1 /\ i # at + 2 => c[i] = w[i]
    BY <1>1, <1>3, <1>4, FieldPatchIs, SMT
<1>6. /\ c \in Seq(Byte) /\ Len(c) = Len(w) /\ c[at + 1] = 0 /\ c[at + 2] = 0
      /\ \A i \in 1 .. Len(w) : i # at + 1 /\ i # at + 2 => c[i] = w[i]
    BY <1>3, <1>5, Zenon
<1> HIDE DEF c
<1>7. \A i \in 1 .. hl : c[i] = w[i]
    BY <1>1, <1>2, <1>6, SMT
<1>8. \A i \in 1 .. Len(u) : c[hl + 8 + i] = w[hl + 8 + i]
    BY <1>1, <1>2, <1>6, SMT
<1>9. \A i \in 1 .. Len(s) : c[hl + 8 + Len(u) + i] = w[hl + 8 + Len(u) + i]
    BY <1>1, <1>2, <1>6, SMT
<1>10. /\ ReadU16(c, hl) = ReadU16(w, hl) /\ ReadU16(c, hl + 2) = ReadU16(w, hl + 2)
       /\ ReadU16(c, hl + 4) = ReadU16(w, hl + 4)
    <2>1. /\ c[hl + 1] = w[hl + 1] /\ c[hl + 2] = w[hl + 2]
          /\ c[hl + 2 + 1] = w[hl + 2 + 1] /\ c[hl + 2 + 2] = w[hl + 2 + 2]
          /\ c[hl + 4 + 1] = w[hl + 4 + 1] /\ c[hl + 4 + 2] = w[hl + 4 + 2]
        BY <1>1, <1>2, <1>6, SMTT(30)
    <2> QED
        BY <2>1, Zenon DEF ReadU16
<1>11. ReadU16(c, hl + 6) = 0
    <2>1. 0 \in Byte
        BY SMT DEF Byte
    <2>2. Word(0, 0) = 0
        BY <2>1, WordIs, Zenon
    <2>3. c[hl + 6 + 1] = 0 /\ c[hl + 6 + 2] = 0
        BY <1>6, SMT
    <2> QED
        BY <2>2, <2>3, Zenon DEF ReadU16
<1>12. /\ ReadU16(w, hl) = sp /\ ReadU16(w, hl + 2) = dp
    BY Zenon DEF Carries, UdpOf
<1>13. PICK v, t \in Seq(Byte) :
          /\ Len(v) = Len(u) /\ \A i \in 1 .. Len(u) : v[i] = c[hl + 8 + i]
          /\ Len(t) = Len(s) /\ \A i \in 1 .. Len(s) : t[i] = c[hl + 8 + Len(u) + i]
          /\ Carries(c, hl, ReadU16(c, hl), ReadU16(c, hl + 2), ReadU16(c, hl + 6), v, t)
    <2>1. PICK v, t : RestOf(c, hl, u, s, v, t)
        BY <1>6, <1>7, <1>10, CarriesOther, Zenon
    <2> QED
        BY <2>1, Zenon DEF RestOf
<1>14. v = u
    BY <1>8, <1>13, DataKept, SMT
<1>15. t = s
    BY <1>9, <1>13, AreaKept, SMT
<1>16. Carries(c, hl, sp, dp, 0, u, s)
    BY <1>10, <1>11, <1>12, <1>13, <1>14, <1>15, Zenon
<1> QED
    BY <1>6, <1>16, Zenon DEF c, o

\* --pad-byte
LEMMA PadReplaced ==
    ASSUME NEW s, NEW u \in Seq(Byte), NEW b, NEW p, NEW f, AreaOf(s, u, b, p, f), b # <<>>,
           PadLen(u) = 1, NEW q \in Byte
    PROVE  AreaOf(Patch(s, 0, <<q>>), u, b, q, f)
<1> DEFINE t == Patch(s, 0, <<q>>)
<1>1. /\ s \in Seq(Byte) /\ b \in Seq(Byte) /\ f \in Seq(Byte) /\ Len(f) = 2
      /\ Len(b) >= 2 /\ Len(s) = 1 + Len(b)
      /\ \A i \in 1 .. Len(b) : s[1 + i] = Patch(b, 0, f)[i]
    BY Zenon DEF AreaOf
<1>2. <<q>> \in Seq(Byte) /\ Len(<<q>>) = 1 /\ <<q>>[1] = q
    BY SMT
<1>3. Len(b) \in Nat /\ 0 \in Nat /\ 0 + 1 <= Len(s) /\ 1 \in 1 .. 1 /\ 0 + 1 = 1
    BY <1>1, SMT
<1>4. /\ t \in Seq(Byte) /\ Len(t) = Len(s)
      /\ \A i \in 1 .. 1 : t[0 + i] = <<q>>[i]
      /\ \A i \in 1 .. Len(s) : i <= 0 \/ i > 0 + 1 => t[i] = s[i]
    <2> DEFINE y == <<q>>
    <2>1. PICK z \in Nat : z = 0
        BY SMT
    <2>2. s \in Seq(Byte) /\ y \in Seq(Byte) /\ z + Len(y) <= Len(s) /\ Len(y) = 1
        BY <1>1, <1>2, <1>3, <2>1, Zenon
    <2> HIDE DEF y
    <2>3. /\ Patch(s, z, y) \in Seq(Byte) /\ Len(Patch(s, z, y)) = Len(s)
          /\ \A i \in 1 .. Len(y) : Patch(s, z, y)[z + i] = y[i]
          /\ \A i \in 1 .. Len(s) : i <= z \/ i > z + Len(y) => Patch(s, z, y)[i] = s[i]
        BY ONLY <2>2, z \in Nat, PatchIs, Zenon
    <2> QED
        BY <2>1, <2>2, <2>3, Zenon DEF y
<1> HIDE DEF t
<1>5. t[1] = q
    BY <1>2, <1>3, <1>4, Zenon
<1>6. \A i \in 1 .. Len(b) : t[1 + i] = s[1 + i]
    BY <1>1, <1>3, <1>4, SMT
<1> QED
    BY <1>1, <1>4, <1>5, <1>6, Zenon DEF AreaOf, t

\* --ocs
LEMMA OcsReplaced ==
    ASSUME NEW s, NEW u \in Seq(Byte), NEW b, NEW p, NEW f, AreaOf(s, u, b, p, f), b # <<>>,
           NEW g \in Seq(Byte), Len(g) = 2
    PROVE  AreaOf(Patch(s, PadLen(u), g), u, b, p, g)
<1> DEFINE t == Patch(s, PadLen(u), g)
           x == Patch(b, 0, f)
           y == Patch(b, 0, g)
<1>1. /\ s \in Seq(Byte) /\ b \in Seq(Byte) /\ f \in Seq(Byte) /\ Len(f) = 2
      /\ Len(b) >= 2 /\ Len(s) = PadLen(u) + Len(b)
      /\ PadLen(u) = 1 => s[1] = p
      /\ \A i \in 1 .. Len(b) : s[PadLen(u) + i] = x[i]
    BY Zenon DEF AreaOf
<1>2. PICK k \in Nat : k = PadLen(u) /\ (k = 0 \/ k = 1)
    BY SMT DEF PadLen
<1>3. Len(b) \in Nat /\ k + 2 <= Len(s) /\ 0 \in Nat /\ 0 + 2 <= Len(b)
    BY <1>1, <1>2, SMT
<1>4. /\ x \in Seq(Byte) /\ Len(x) = Len(b) /\ x[0 + 1] = f[1] /\ x[0 + 2] = f[2]
      /\ \A i \in 1 .. Len(b) : i # 0 + 1 /\ i # 0 + 2 => x[i] = b[i]
    BY <1>1, <1>3, FieldPatchIs, SMT
<1>5. /\ y \in Seq(Byte) /\ Len(y) = Len(b) /\ y[0 + 1] = g[1] /\ y[0 + 2] = g[2]
      /\ \A i \in 1 .. Len(b) : i # 0 + 1 /\ i # 0 + 2 => y[i] = b[i]
    BY <1>1, <1>3, FieldPatchIs, SMT
<1>6. /\ t \in Seq(Byte) /\ Len(t) = Len(s) /\ t[k + 1] = g[1] /\ t[k + 2] = g[2]
      /\ \A i \in 1 .. Len(s) : i # k + 1 /\ i # k + 2 => t[i] = s[i]
    <2>1. Patch(s, k, g) = t /\ s \in Seq(Byte) /\ k + 2 <= Len(s)
        BY <1>1, <1>2, <1>3, Zenon
    <2> HIDE DEF t
    <2>2. /\ Patch(s, k, g) \in Seq(Byte) /\ Len(Patch(s, k, g)) = Len(s)
          /\ Patch(s, k, g)[k + 1] = g[1] /\ Patch(s, k, g)[k + 2] = g[2]
          /\ \A i \in 1 .. Len(s) : i # k + 1 /\ i # k + 2 => Patch(s, k, g)[i] = s[i]
        BY ONLY <2>1, k \in Nat, g \in Seq(Byte), Len(g) = 2, FieldPatchIs, SMT
    <2> QED
        BY <2>1, <2>2, Zenon
<1> HIDE DEF t, x, y
<1>7. k = 1 => t[1] = s[1]
    <2>1. k = 1 => 1 \in 1 .. Len(s) /\ 1 # k + 1 /\ 1 # k + 2
        BY <1>1, <1>3, SMT
    <2> QED
        BY <1>6, <2>1, Zenon
<1>8. ASSUME NEW i \in 1 .. Len(b) PROVE t[k + i] = y[i]
    <2>1. CASE i = 1 \/ i = 2
        <3>1. 0 + 1 = 1 /\ 0 + 2 = 2
            BY SMT
        <3> QED
            BY <1>5, <1>6, <2>1, <3>1, Zenon
    <2>2. CASE i # 1 /\ i # 2
        <3>1. k + i \in 1 .. Len(s) /\ k + i # k + 1 /\ k + i # k + 2 /\ i # 0 + 1 /\ i # 0 + 2
            BY <1>1, <1>2, <1>3, <2>2, SMT
        <3>2. t[k + i] = s[k + i] /\ x[i] = b[i] /\ y[i] = b[i]
            BY <1>4, <1>5, <1>6, <3>1, Zenon
        <3> QED
            BY <1>1, <1>2, <3>2, Zenon
    <2> QED
        BY <2>1, <2>2, Zenon
<1> QED
    BY <1>1, <1>2, <1>6, <1>7, <1>8, Zenon DEF AreaOf, t, y

\* What the faults f make of the pad byte, the UDP checksum and the OCS
PadSent(f) == IF f.pad = None THEN 0 ELSE f.pad
ChecksumSent(f, u) == IF f.zero_udp_checksum THEN 0 ELSE UdpSum(SrcPort, DstPort, u)
OcsSent(f, u, b, g) ==
    IF f.ocs = None THEN b # <<>> => g # <<0, 0>> /\ OcsFits(u, b, g) ELSE g = f.ocs

\* The faults that WireFaults::apply does not refuse
FaultsPossible(f, u, b) ==
    /\ b = <<>> => f.ocs = None /\ f.pad = None
    /\ f.pad # None => PadLen(u) = 1

\* A datagram of udpopt-send carries the user data, and the surplus area the faults ask for.
Sent(w, hl, f, u, b) ==
    \E s, g : /\ AreaOf(s, u, b, PadSent(f), g)
              /\ OcsSent(f, u, b, g)
              /\ Carries(w, hl, SrcPort, DstPort, ChecksumSent(f, u), u, s)

LEMMA FaultsAre ==
    ASSUME NEW f \in Faults
    PROVE  /\ f.ocs # None => f.ocs \in Seq(Byte) /\ Len(f.ocs) = 2
           /\ f.pad # None => f.pad \in Byte
           /\ f.zero_udp_checksum \in BOOLEAN
BY FaultsAssumption, Zenon DEF OcsLen

LEMMA FaultySent ==
    ASSUME ChecksumLaws,
           NEW u \in UserData, NEW b \in Bodies, NEW w, w = AssembleDatagram(u, b),
           NEW f \in Faults, ~FaultsRefused(f, w)
    PROVE  FaultsPossible(f, u, b) /\ Sent(Faulty(f, w), 20, f, u, b)
<1> DEFINE chk == UdpSum(SrcPort, DstPort, u)
           sent == ChecksumSent(f, u)
           layout == CliSurplusLayout(w)
           zeroed == IF f.zero_udp_checksum THEN Patch(w, 26, <<0, 0>>) ELSE w
           padded == IF f.pad = None THEN zeroed ELSE Patch(zeroed, layout.starts_at, <<f.pad>>)
<1>1. PICK s, g :
          /\ AreaOf(s, u, b, 0, g)
          /\ b # <<>> => g # <<0, 0>> /\ OcsFits(u, b, g)
          /\ Len(w) = 20 + 8 + Len(u) + Len(s)
          /\ Carries(w, 20, SrcPort, DstPort, chk, u, s)
    BY AssembleCarries, Zenon
<1>2. u \in Seq(Byte) /\ b \in Seq(Byte)
    BY AssembleCarries, Zenon
<1>3. /\ f.ocs # None => f.ocs \in Seq(Byte) /\ Len(f.ocs) = 2
      /\ f.pad # None => f.pad \in Byte
      /\ f.zero_udp_checksum \in BOOLEAN
    BY FaultsAre, Zenon
<1>4. PICK hl \in Nat : hl = 20
    BY SMT
<1>5. PICK at \in Nat : at = hl + 8 + Len(u)
    BY <1>2, <1>4, SMT
<1>6. IF Len(s) = 0 THEN layout = None
      ELSE /\ layout # None
           /\ layout = [starts_at |-> at, needs_pad |-> PadLen(u) = 1]
           /\ OcsAt(layout) = at + PadLen(u)
    BY <1>1, <1>4, <1>5, CliLayoutIs, Zenon
<1>7. /\ SurplusFits(u, s) /\ s \in Seq(Byte) /\ (Len(s) = 0 <=> b = <<>>)
      /\ PadLen(u) = 0 \/ PadLen(u) = 1
    <2>1. AreaOf(s, u, b, 0, g) /\ u \in Seq(Byte)
        BY <1>1, <1>2, Zenon
    <2>2. /\ SurplusFits(u, s) /\ s \in Seq(Byte) /\ (NoArea(s) <=> NoOptions(b))
          /\ PadLen(u) = 0 \/ PadLen(u) = 1
        BY ONLY <2>1, AreaFits, Zenon
    <2> QED
        BY <2>2, Zenon DEF NoArea, NoOptions
<1> HIDE DEF chk, layout
<1>8. b # <<>> => layout.starts_at = at /\ (layout.needs_pad <=> PadLen(u) = 1)
    <2> DEFINE lay == [starts_at |-> at, needs_pad |-> PadLen(u) = 1]
    <2>1. lay.starts_at = at /\ (lay.needs_pad <=> PadLen(u) = 1)
        BY Zenon
    <2>2. b # <<>> => layout = lay
        BY <1>6, <1>7, Zenon
    <2> QED
        BY <2>1, <2>2, Zenon
<1>9. FaultsPossible(f, u, b)
    <2>1. f.ocs # None \/ f.pad # None => layout # None /\ (f.pad # None => layout.needs_pad)
        BY Zenon DEF FaultsRefused, layout
    <2> QED
        BY <1>6, <1>7, <1>8, <2>1, Zenon DEF FaultsPossible
<1>10. Carries(zeroed, hl, SrcPort, DstPort, sent, u, s)
    <2>1. Carries(w, hl, SrcPort, DstPort, chk, u, s)
        BY <1>1, <1>4, Zenon
    <2>2. CASE f.zero_udp_checksum
        <3>1. PICK k \in Nat : k = hl + 6 /\ k = 26
            BY <1>4, SMT
        <3>2. Carries(Patch(w, k, <<0, 0>>), hl, SrcPort, DstPort, 0, u, s)
            BY ONLY <2>1, <3>1, k \in Nat, ZeroedCarries, SMT
        <3> QED
            BY <2>2, <3>1, <3>2, Zenon DEF ChecksumSent
    <2>3. CASE ~f.zero_udp_checksum
        BY <2>1, <2>3, Zenon DEF ChecksumSent, chk
    <2> QED
        BY <2>2, <2>3, Zenon
<1> HIDE DEF zeroed, sent
<1>11. PICK t : AreaOf(t, u, b, PadSent(f), g) /\ Carries(padded, hl, SrcPort, DstPort, sent, u, t)
    <2>1. CASE f.pad = None
        BY <1>1, <1>10, <2>1, Zenon DEF PadSent
    <2>2. CASE f.pad # None
        <3>1. b # <<>> /\ PadLen(u) = 1 /\ f.pad \in Byte
            BY <1>3, <1>9, <2>2, Zenon DEF FaultsPossible
        <3>2. PICK q \in Byte : q = f.pad
            BY <3>1, Zenon
        <3>3. AreaOf(Patch(s, 0, <<q>>), u, b, q, g)
            BY <1>1, <1>2, <3>1, PadReplaced, Zenon
        <3>4. PICK z \in Nat : z = 0
            BY SMT
        <3>5. PICK y \in Seq(Byte) : y = <<q>> /\ Len(y) = 1
            <4>1. <<q>> \in Seq(Byte) /\ Len(<<q>>) = 1
                BY SMT
            <4> QED
                BY <4>1, Zenon
        <3>6. z + Len(y) <= Len(s) /\ at = hl + 8 + Len(u) + z
            BY <1>2, <1>4, <1>5, <1>7, <3>1, <3>4, <3>5, SMT DEF SurplusFits
        <3>7. Carries(Patch(zeroed, at, y), hl, SrcPort, DstPort, sent, u, Patch(s, z, y))
            BY ONLY <1>10, <3>6, z \in Nat, y \in Seq(Byte), at \in Nat, AreaWritten, SMT
        <3>8. padded = Patch(zeroed, at, y)
            BY <1>8, <2>2, <3>1, <3>2, <3>5, Zenon
        <3> QED
            BY <2>2, <3>2, <3>3, <3>4, <3>5, <3>7, <3>8, Zenon DEF PadSent
    <2> QED
        BY <2>1, <2>2, Zenon
<1> HIDE DEF padded
<1>12. Faulty(f, w) = IF f.ocs = None THEN padded ELSE Patch(padded, OcsAt(layout), f.ocs)
    BY Zenon DEF Faulty, padded, zeroed, layout
<1>13. CASE f.ocs = None
    BY <1>1, <1>4, <1>9, <1>11, <1>12, <1>13, Zenon DEF Sent, OcsSent, sent
<1>14. CASE f.ocs # None
    <2>1. b # <<>> /\ f.ocs \in Seq(Byte) /\ Len(f.ocs) = 2
        BY <1>3, <1>9, <1>14, Zenon DEF FaultsPossible
    <2>2. PICK y \in Seq(Byte) : y = f.ocs /\ Len(y) = 2
        BY <2>1, Zenon
    <2>3. AreaOf(Patch(t, PadLen(u), y), u, b, PadSent(f), y)
        BY <1>2, <1>11, <2>1, <2>2, OcsReplaced, Zenon
    <2>4. PICK k \in Nat : k = PadLen(u)
        BY <1>7, SMT
    <2>5. PICK x \in Nat : x = at + k
        BY SMT
    <2>6. k + Len(y) <= Len(t) /\ x = hl + 8 + Len(u) + k
        <3>1. SurplusFits(u, t) /\ (NoArea(t) <=> NoOptions(b))
            BY ONLY <1>2, <1>11, AreaFits, Zenon
        <3>2. Len(t) >= k + 2
            BY <2>1, <2>4, <3>1, Zenon DEF SurplusFits, NoArea, NoOptions
        <3> QED
            BY <1>2, <1>5, <2>2, <2>5, <3>2, SMT
    <2>7. Carries(Patch(padded, x, y), hl, SrcPort, DstPort, sent, u, Patch(t, k, y))
        BY ONLY <1>11, <2>6, k \in Nat, y \in Seq(Byte), x \in Nat, AreaWritten, SMT
    <2>8. Faulty(f, w) = Patch(padded, x, y)
        BY <1>6, <1>7, <1>12, <1>14, <2>1, <2>2, <2>4, <2>5, Zenon
    <2>9. OcsSent(f, u, b, y)
        BY <1>14, <2>2, Zenon DEF OcsSent
    <2> QED
        BY <1>4, <1>9, <2>3, <2>4, <2>7, <2>8, <2>9, Zenon DEF Sent, sent
<1> QED
    BY <1>13, <1>14, Zenon

-----------------------------------------------------------------------------
(* What the path adds *)

\* Trailing bytes
LEMMA TrailerCarries ==
    ASSUME NEW w, NEW hl, NEW sp, NEW dp, NEW chk, NEW u, NEW s, Carries(w, hl, sp, dp, chk, u, s),
           NEW t \in Seq(Byte)
    PROVE  Carries(w \o t, hl, sp, dp, chk, u, s)
<1> DEFINE c == w \o t
           n == hl + 8 + Len(u) + Len(s)
<1>1. /\ w \in Seq(Byte) /\ hl \in Nat /\ Len(u) \in Nat /\ Len(s) \in Nat /\ Len(w) \in Nat
    BY CarriesTypes, Zenon
<1>2. n <= Len(w)
    BY CarriesTypes, Zenon
<1>3. /\ c \in Seq(Byte) /\ Len(c) = Len(w) + Len(t) /\ \A i \in 1 .. Len(w) : c[i] = w[i]
    BY <1>1, ConcatIs, Zenon
<1> HIDE DEF c
<1>4. n <= Len(c) /\ \A i \in 1 .. hl : c[i] = w[i]
    <2>1. Len(t) \in Nat
        BY SMT
    <2>2. n <= Len(c)
        BY <1>1, <1>2, <1>3, <2>1, SMT
    <2>3. \A i \in 1 .. hl : i \in 1 .. Len(w)
        BY <1>1, <1>2, SMT
    <2> QED
        BY <1>3, <2>2, <2>3, Zenon
<1>5. \A i \in 1 .. 8 + Len(u) + Len(s) : c[hl + i] = w[hl + i]
    <2>1. \A i \in 1 .. 8 + Len(u) + Len(s) : hl + i \in 1 .. Len(w)
        BY <1>1, <1>2, SMT
    <2> QED
        BY <1>3, <2>1, Zenon
<1>6. IpHeaderOf(w, hl, n) /\ UdpOf(w, hl, sp, dp, chk, u, s)
    BY Zenon DEF Carries
<1>7. IpHeaderOf(c, hl, n)
    <2> HIDE DEF n
    <2> QED
        BY <1>3, <1>4, <1>6, HeaderKept, SMT
<1>8. UdpOf(c, hl, sp, dp, chk, u, s)
    BY <1>1, <1>5, <1>6, UdpMoved, SMT
<1> QED
    BY <1>7, <1>8, Zenon DEF Carries, c

\* The header with four bytes of options
LongHeader(w, m) ==
    <<70, 0>> \o U16Bytes(m) \o Slice(w, 4, 10) \o <<0, 0>> \o Slice(w, 12, 20) \o <<1, 1, 1, 1>>

LEMMA LongHeaderIs ==
    ASSUME NEW w, NEW hl, NEW n, IpHeaderOf(w, hl, n), NEW m \in U16
    PROVE  LET z == LongHeader(w, m)
           IN  HeaderFor(z, 24, m) /\ z[11] = 0 /\ z[12] = 0
<1> DEFINE o == <<70, 0>>
           nb == U16Bytes(m)
           p == o \o nb
           a == Slice(w, 4, 10)
           q == p \o a
           e == <<0, 0>>
           r == q \o e
           d == Slice(w, 12, 20)
           x == r \o d
           j == <<1, 1, 1, 1>>
           y == x \o j
<1>1. nb \in Seq(Byte) /\ Len(nb) = 2 /\ Word(nb[1], nb[2]) = m
    BY U16BytesIs, Zenon
<1>2. 70 \in Byte /\ 0 \in Byte /\ 1 \in Byte
    BY SMT DEF Byte
<1>3. o \in Seq(Byte) /\ Len(o) = 2 /\ o[1] = 70
    BY <1>2, SMT
<1>4. e \in Seq(Byte) /\ Len(e) = 2 /\ e[1] = 0 /\ e[2] = 0
    BY <1>2, SMT
<1>5. j \in Seq(Byte) /\ Len(j) = 4
    BY <1>2, SMT
<1>6. w \in Seq(Byte) /\ Len(w) >= 20 /\ Len(w) \in Nat
    <2>1. w \in Seq(Byte) /\ hl <= n /\ n <= Len(w)
        BY Zenon DEF IpHeaderOf
    <2>2. n \in Nat /\ hl \in Nat /\ (hl = 20 \/ hl = 24)
        BY HeaderParses, SMT
    <2> QED
        BY <2>1, <2>2, SMT
<1>7. w[10] = IpProtoUdp /\ \A i \in 1 .. 4 : w[12 + i] = Src[i] /\ w[16 + i] = Dst[i]
    BY Zenon DEF IpHeaderOf
<1>8. a \in Seq(Byte) /\ Len(a) = 6 /\ a[6] = IpProtoUdp
    <2>1. a \in Seq(Byte) /\ Len(a) = 10 - 4 /\ \A i \in 1 .. 10 - 4 : a[i] = w[4 + i]
        <3>1. 4 \in Nat /\ 10 \in Nat /\ 4 <= 10 /\ 10 <= Len(w) /\ w \in Seq(Byte)
            BY <1>6, SMT
        <3> QED
            BY ONLY <3>1, SliceIs, Zenon DEF a
    <2> HIDE DEF a
    <2> QED
        BY <1>7, <2>1, SMT
<1>9. d \in Seq(Byte) /\ Len(d) = 8 /\ \A i \in 1 .. 4 : d[i] = Src[i] /\ d[4 + i] = Dst[i]
    <2>1. d \in Seq(Byte) /\ Len(d) = 20 - 12 /\ \A i \in 1 .. 20 - 12 : d[i] = w[12 + i]
        <3>1. 12 \in Nat /\ 20 \in Nat /\ 12 <= 20 /\ 20 <= Len(w) /\ w \in Seq(Byte)
            BY <1>6, SMT
        <3> QED
            BY ONLY <3>1, SliceIs, Zenon DEF d
    <2> HIDE DEF d
    <2> QED
        BY <1>7, <2>1, SMT
<1> HIDE DEF o, nb, a, e, d, j
<1>10. p \in Seq(Byte) /\ Len(p) = 4 /\ p[1] = 70 /\ p[3] = nb[1] /\ p[4] = nb[2]
    <2>1. /\ p \in Seq(Byte) /\ Len(p) = 2 + 2 /\ \A i \in 1 .. 2 : p[i] = o[i]
          /\ \A i \in 1 .. 2 : p[2 + i] = nb[i]
        <3>1. o \in Seq(Byte) /\ nb \in Seq(Byte)
            BY <1>1, <1>3, Zenon
        <3>2. /\ p \in Seq(Byte) /\ Len(p) = Len(o) + Len(nb)
              /\ \A i \in 1 .. Len(o) : p[i] = o[i]
              /\ \A i \in 1 .. Len(nb) : p[Len(o) + i] = nb[i]
            BY ONLY <3>1, ConcatIs, Zenon DEF p
        <3>3. Len(o) = 2 /\ Len(nb) = 2
            BY <1>1, <1>3, Zenon
        <3> QED
            BY <3>2, <3>3, Zenon
    <2> HIDE DEF p
    <2> QED
        BY <1>3, <2>1, SMT
<1> HIDE DEF p
<1>11. /\ q \in Seq(Byte) /\ Len(q) = 10 /\ q[1] = 70 /\ q[3] = nb[1] /\ q[4] = nb[2]
       /\ q[10] = IpProtoUdp
    <2>1. /\ q \in Seq(Byte) /\ Len(q) = 4 + 6 /\ \A i \in 1 .. 4 : q[i] = p[i]
          /\ \A i \in 1 .. 6 : q[4 + i] = a[i]
        <3>1. p \in Seq(Byte) /\ a \in Seq(Byte)
            BY <1>8, <1>10, Zenon
        <3>2. /\ q \in Seq(Byte) /\ Len(q) = Len(p) + Len(a)
              /\ \A i \in 1 .. Len(p) : q[i] = p[i]
              /\ \A i \in 1 .. Len(a) : q[Len(p) + i] = a[i]
            BY ONLY <3>1, ConcatIs, Zenon DEF q
        <3>3. Len(p) = 4 /\ Len(a) = 6
            BY <1>8, <1>10, Zenon
        <3> QED
            BY <3>2, <3>3, Zenon
    <2> HIDE DEF q
    <2> QED
        BY <1>8, <1>10, <2>1, SMT
<1> HIDE DEF q
<1>12. /\ r \in Seq(Byte) /\ Len(r) = 12 /\ r[1] = 70 /\ r[3] = nb[1] /\ r[4] = nb[2]
       /\ r[10] = IpProtoUdp /\ r[11] = 0 /\ r[12] = 0
    <2>1. /\ r \in Seq(Byte) /\ Len(r) = 10 + 2 /\ \A i \in 1 .. 10 : r[i] = q[i]
          /\ \A i \in 1 .. 2 : r[10 + i] = e[i]
        <3>1. q \in Seq(Byte) /\ e \in Seq(Byte)
            BY <1>4, <1>11, Zenon
        <3>2. /\ r \in Seq(Byte) /\ Len(r) = Len(q) + Len(e)
              /\ \A i \in 1 .. Len(q) : r[i] = q[i]
              /\ \A i \in 1 .. Len(e) : r[Len(q) + i] = e[i]
            BY ONLY <3>1, ConcatIs, Zenon DEF r
        <3>3. Len(q) = 10 /\ Len(e) = 2
            BY <1>4, <1>11, Zenon
        <3> QED
            BY <3>2, <3>3, Zenon
    <2> HIDE DEF r
    <2> QED
        BY <1>4, <1>11, <2>1, SMT
<1> HIDE DEF r
<1>13. /\ x \in Seq(Byte) /\ Len(x) = 20 /\ \A i \in 1 .. 12 : x[i] = r[i]
       /\ \A i \in 1 .. 4 : x[12 + i] = Src[i] /\ x[16 + i] = Dst[i]
    <2>1. /\ x \in Seq(Byte) /\ Len(x) = 12 + 8 /\ \A i \in 1 .. 12 : x[i] = r[i]
          /\ \A i \in 1 .. 8 : x[12 + i] = d[i]
        <3>1. r \in Seq(Byte) /\ d \in Seq(Byte)
            BY <1>9, <1>12, Zenon
        <3>2. /\ x \in Seq(Byte) /\ Len(x) = Len(r) + Len(d)
              /\ \A i \in 1 .. Len(r) : x[i] = r[i]
              /\ \A i \in 1 .. Len(d) : x[Len(r) + i] = d[i]
            BY ONLY <3>1, ConcatIs, Zenon DEF x
        <3>3. Len(r) = 12 /\ Len(d) = 8
            BY <1>9, <1>12, Zenon
        <3> QED
            BY <3>2, <3>3, Zenon
    <2> HIDE DEF x
    <2> QED
        BY <1>9, <2>1, SMTT(30)
<1> HIDE DEF x
<1>14. /\ y \in Seq(Byte) /\ Len(y) = 24 /\ \A i \in 1 .. 20 : y[i] = x[i]
    <2>1. /\ y \in Seq(Byte) /\ Len(y) = 20 + 4 /\ \A i \in 1 .. 20 : y[i] = x[i]
        <3>1. x \in Seq(Byte) /\ j \in Seq(Byte)
            BY <1>5, <1>13, Zenon
        <3>2. /\ y \in Seq(Byte) /\ Len(y) = Len(x) + Len(j)
              /\ \A i \in 1 .. Len(x) : y[i] = x[i]
              /\ \A i \in 1 .. Len(j) : y[Len(x) + i] = j[i]
            BY ONLY <3>1, ConcatIs, Zenon DEF y
        <3>3. Len(x) = 20 /\ Len(j) = 4
            BY <1>5, <1>13, Zenon
        <3> QED
            BY <3>2, <3>3, Zenon
    <2> HIDE DEF y
    <2> QED
        BY <2>1, SMT
<1>15. LongHeader(w, m) = y
    BY Zenon DEF LongHeader, y, x, r, q, p, o, nb, a, e, d, j
<1> HIDE DEF y
<1>16. \A i \in 1 .. 12 : y[i] = r[i]
    BY <1>13, <1>14, SMTT(30)
<1>17. \A i \in 1 .. 4 : y[12 + i] = Src[i] /\ y[16 + i] = Dst[i]
    <2>1. \A i \in 1 .. 4 : 12 + i \in 1 .. 20 /\ 16 + i \in 1 .. 20
        BY SMT
    <2> QED
        BY <1>13, <1>14, <2>1, Zenon
<1>18. /\ y[1] = 70 /\ y[2 + 1] = nb[1] /\ y[2 + 2] = nb[2] /\ y[10] = IpProtoUdp
       /\ y[11] = 0 /\ y[12] = 0
    BY <1>12, <1>16, SMT
<1>19. ReadU16(y, 2) = m
    BY <1>1, <1>18, Zenon DEF ReadU16
<1>20. HeaderFor(y, 24, m)
    BY <1>14, <1>17, <1>18, <1>19, Zenon DEF HeaderFor
<1> QED
    BY <1>15, <1>18, <1>20, Zenon

LEMMA OptionsCarries ==
    ASSUME ChecksumLaws,
           NEW w, NEW sp, NEW dp, NEW chk, NEW u, NEW s, Carries(w, 20, sp, dp, chk, u, s),
           ReadU16(w, 2) + 4 <= U16Max
    PROVE  Carries(WithIpOptions(w), 24, sp, dp, chk, u, s)
<1>1. PICK hl \in Nat : hl = 20
    BY SMT
<1>2. PICK n \in Nat : n = hl + 8 + Len(u) + Len(s)
    <2>1. Len(u) \in Nat /\ Len(s) \in Nat
        BY CarriesTypes, Zenon
    <2> QED
        BY <2>1, SMT
<1>3. PICK m \in Nat : m = n + 4
    BY SMT
<1>4. IpHeaderOf(w, hl, n) /\ UdpOf(w, hl, sp, dp, chk, u, s)
    BY <1>1, <1>2, Zenon DEF Carries
<1>5. /\ w \in Seq(Byte) /\ Len(u) \in Nat /\ Len(s) \in Nat /\ Len(w) \in Nat
    BY CarriesTypes, Zenon
<1>6. n <= Len(w) /\ ReadU16(w, 2) = n
    BY <1>4, Zenon DEF IpHeaderOf
<1>7. m \in U16
    <2>1. m <= 65535
        BY <1>3, <1>6, SMT DEF U16Max
    <2> QED
        BY <2>1, U16Has, SMT
<1> DEFINE z == LongHeader(w, m)
           h == Patch(z, 10, U16Bytes(InternetChecksum(z)))
           r == Slice(w, hl, Len(w))
           c == h \o r
<1>8. HeaderFor(z, 24, m) /\ z[11] = 0 /\ z[12] = 0
    BY ONLY <1>4, <1>7, LongHeaderIs, SMT
<1> HIDE DEF z
<1>9. HeaderFor(h, 24, m) /\ InternetChecksum(h) = 0
    BY ONLY ChecksumLaws, <1>8, HeaderFilled, SMT
<1>10. hl <= Len(w)
    BY <1>1, <1>2, <1>5, <1>6, SMT
<1>11. r \in Seq(Byte) /\ Len(r) = Len(w) - hl /\ \A i \in 1 .. Len(w) - hl : r[i] = w[hl + i]
    BY <1>5, <1>10, SliceFrom, Zenon
<1>12. WithIpOptions(w) = c
    BY <1>1, <1>3, <1>6, Zenon DEF WithIpOptions, LongHeader, z
<1> HIDE DEF h, r
<1>13. PICK k \in Nat : k = 24
    BY SMT
<1>14. k <= m /\ m <= k + Len(r)
    BY <1>1, <1>2, <1>3, <1>5, <1>6, <1>11, <1>13, SMT
<1>15. /\ IpHeaderOf(c, k, m)
       /\ \A i \in 1 .. Len(r) : c[k + i] = r[i]
    <2>1. HeaderFor(h, k, m) /\ InternetChecksum(h) = 0 /\ r \in Seq(Byte)
        BY <1>9, <1>11, <1>13, Zenon
    <2> QED
        BY ONLY <1>7, <1>14, <2>1, HeaderPlaced, SMT
<1> HIDE DEF c
<1>16. UdpOf(c, k, sp, dp, chk, u, s)
    <2>1. \A i \in 1 .. 8 + Len(u) + Len(s) : i \in 1 .. Len(w) - hl
        BY <1>2, <1>5, <1>6, SMT
    <2>2. \A i \in 1 .. 8 + Len(u) + Len(s) : c[k + i] = w[hl + i]
        BY <1>11, <1>15, <2>1, Zenon
    <2> QED
        BY ONLY <1>4, <2>2, hl \in Nat, k \in Nat, UdpMoved, SMT
<1>17. m = k + 8 + Len(u) + Len(s)
    BY <1>1, <1>2, <1>3, <1>5, <1>13, SMT
<1>18. Carries(c, k, sp, dp, chk, u, s)
    BY <1>15, <1>16, <1>17, Zenon DEF Carries
<1> QED
    BY <1>12, <1>13, <1>18, Zenon

-----------------------------------------------------------------------------
(* The receive disposition table *)

\* Until a byte of it is damaged, the datagram carries what was sent; IPv4 options move it.
SentInv ==
    /\ Assembled
    /\ pc \in {"build", "faults"} => faults = NoFaults /\ ~changed /\ damaged = "nothing"
    /\ pc \in {"path", "received"} =>
           /\ user \in UserData /\ body \in Bodies /\ faults \in Faults
           /\ FaultsPossible(faults, user, body)
           /\ damaged = "nothing" => \E hl \in {20, 24} :
                  (~changed => hl = 20) /\ Sent(wire, hl, faults, user, body)
    /\ pc = "received" => delivery = Disposition(wire)

LEMMA SentInvariant == ASSUME ChecksumLaws PROVE Spec => []SentInv
<1>1. Init => SentInv
    BY Zenon DEF Init, SentInv, Assembled
<1>2. SentInv /\ [Next]_vars => SentInv'
    <2> SUFFICES ASSUME SentInv, [Next]_vars PROVE SentInv'
        OBVIOUS
    <2>1. ASSUME NEW u \in UserData, NEW b \in Bodies, Assemble(u, b) PROVE SentInv'
        BY <2>1, Zenon DEF Assemble, SentInv, Assembled
    <2>2. ASSUME NEW f \in Faults, ApplyFaults(f) PROVE SentInv'
        <3>1. /\ pc = "faults" /\ ~FaultsRefused(f, wire) /\ wire' = Faulty(f, wire) /\ faults' = f
              /\ pc' = "path" /\ UNCHANGED <<user, body, changed, damaged, delivery>>
            BY <2>2, Zenon DEF ApplyFaults
        <3>2. user \in UserData /\ body \in Bodies /\ wire = AssembleDatagram(user, body)
            BY <3>1, Zenon DEF SentInv, Assembled
        <3>3. FaultsPossible(f, user, body) /\ Sent(Faulty(f, wire), 20, f, user, body)
            BY <3>1, <3>2, FaultySent, Zenon
        <3> QED
            BY <3>1, <3>2, <3>3, Zenon DEF SentInv, Assembled
    <2>3. ASSUME NEW f \in Faults, RefuseFaults(f) PROVE SentInv'
        BY <2>3, Zenon DEF RefuseFaults, SentInv, Assembled
    <2>4. CASE AddIpOptions
        <3>1. /\ pc = "path" /\ ~changed /\ damaged = "nothing" /\ ReadU16(wire, 2) + 4 <= U16Max
              /\ wire' = WithIpOptions(wire) /\ changed' = TRUE
              /\ UNCHANGED <<pc, user, body, faults, damaged, delivery>>
            BY <2>4, Zenon DEF AddIpOptions
        <3>2. /\ user \in UserData /\ body \in Bodies /\ faults \in Faults
              /\ FaultsPossible(faults, user, body) /\ Sent(wire, 20, faults, user, body)
            BY <3>1, Zenon DEF SentInv
        <3>3. Sent(WithIpOptions(wire), 24, faults, user, body)
            BY <3>1, <3>2, OptionsCarries, Zenon DEF Sent
        <3> QED
            BY <3>1, <3>2, <3>3, Zenon DEF SentInv, Assembled
    <2>5. CASE AddTrailer
        <3>1. /\ pc = "path" /\ ~changed /\ damaged = "nothing"
              /\ wire' = wire \o <<222, 173, 190>> /\ changed' = TRUE
              /\ UNCHANGED <<pc, user, body, faults, damaged, delivery>>
            BY <2>5, Zenon DEF AddTrailer
        <3>2. /\ user \in UserData /\ body \in Bodies /\ faults \in Faults
              /\ FaultsPossible(faults, user, body) /\ Sent(wire, 20, faults, user, body)
            BY <3>1, Zenon DEF SentInv
        <3> DEFINE t == <<222, 173, 190>>
        <3>3. t \in Seq(Byte)
            <4>1. 222 \in Byte /\ 173 \in Byte /\ 190 \in Byte
                BY SMT DEF Byte
            <4> QED
                BY <4>1, SMT
        <3>4. wire' = wire \o t
            BY <3>1, SMT
        <3> HIDE DEF t
        <3>5. Sent(wire \o t, 20, faults, user, body)
            BY <3>2, <3>3, TrailerCarries, Zenon DEF Sent
        <3>6. /\ pc = "path" /\ damaged = "nothing" /\ changed' = TRUE
              /\ UNCHANGED <<pc, user, body, faults, damaged, delivery>>
            BY <3>1, SMT
        <3> QED
            BY <3>2, <3>4, <3>5, <3>6, Zenon DEF SentInv, Assembled
    <2>6. ASSUME NEW i \in DOMAIN wire, DamageByte(i) PROVE SentInv'
        BY <2>6, Zenon DEF DamageByte, SentInv, Assembled
    <2>7. CASE Receive
        BY <2>7, Zenon DEF Receive, SentInv, Assembled
    <2>8. CASE UNCHANGED vars
        BY <2>8, Zenon DEF vars, SentInv, Assembled
    <2> QED
        BY <2>1, <2>2, <2>3, <2>4, <2>5, <2>6, <2>7, <2>8, Zenon DEF Next
<1> QED
    BY <1>1, <1>2, PTL DEF Spec

\* An OCS field of zero
LEMMA FieldZero ==
    ASSUME NEW g \in Seq(Byte), Len(g) = 2
    PROVE  Word(g[1], g[2]) = 0 <=> g = <<0, 0>>
<1>1. g[1] \in Byte /\ g[2] \in Byte
    <2>1. 1 \in 1 .. Len(g) /\ 2 \in 1 .. Len(g)
        BY SMT
    <2> QED
        BY <2>1, ByteAt, Zenon
<1>2. Word(g[1], g[2]) = 0 <=> g[1] = 0 /\ g[2] = 0
    BY ONLY <1>1, WordIs, Zenon
<1>3. g[1] = 0 /\ g[2] = 0 <=> g = <<0, 0>>
    <2>1. g = <<0, 0>> => g[1] = 0 /\ g[2] = 0
        BY SMT
    <2>2. ASSUME g[1] = 0, g[2] = 0 PROVE g = <<0, 0>>
        <3>1. <<0, 0>> \in Seq(Byte) /\ Len(<<0, 0>>) = 2 /\ <<0, 0>>[1] = 0 /\ <<0, 0>>[2] = 0
            BY SMT DEF Byte
        <3>2. \A i \in 1 .. 2 : i = 1 \/ i = 2
            BY SMT
        <3>3. \A i \in 1 .. Len(<<0, 0>>) : g[i] = <<0, 0>>[i]
            BY <2>2, <3>1, <3>2, Zenon
        <3> QED
            BY <3>1, <3>3, BytesEqual, Zenon
    <2> QED
        BY <2>1, <2>2, Zenon
<1> QED
    BY <1>2, <1>3, Zenon

LEMMA OcsRightIs ==
    ASSUME user \in Seq(Byte), body \in Seq(Byte), NEW g
    PROVE  OcsRight(g) <=> OcsFits(user, body, g)
<1>1. Len(user) \in Nat /\ Len(body) \in Nat
    BY SMT
<1>2. Len(body) + (IF Padded THEN 1 ELSE 0) = PadLen(user) + Len(body)
    BY <1>1, SMT DEF Padded, PadLen
<1> QED
    BY <1>2, Zenon DEF OcsRight, OcsFits

\* What check_pad and ocs::validate say of an area
LEMMA VerdictIs ==
    ASSUME ChecksumLaws,
           NEW s, NEW u \in Seq(Byte), NEW b, b # <<>>, NEW p, NEW g, AreaOf(s, u, b, p, g),
           Len(s) \in U16, NEW chk
    PROVE  Verdict(chk, u, s) =
               IF PadLen(u) = 1 /\ p # 0 THEN "Failed"
               ELSE IF g = <<0, 0>> THEN IF chk = 0 THEN "Unused" ELSE "InvalidZero"
               ELSE IF OcsFits(u, b, g) THEN "Valid"
               ELSE "Failed"
<1>law. OcsVerdicts
    BY Zenon DEF ChecksumLaws
<1> DEFINE q == Patch(b, 0, g)
<1>1. /\ g \in Seq(Byte) /\ Len(g) = 2 /\ Len(b) >= 2
      /\ Len(s) = PadLen(u) + Len(b) /\ (PadLen(u) = 1 => s[1] = p)
    BY Zenon DEF AreaOf
<1>2. Len(s) # 0
    <2>1. NoArea(s) <=> NoOptions(b)
        BY AreaFits, Zenon
    <2> QED
        BY <2>1, Zenon DEF NoArea, NoOptions
<1>3. /\ Slice(s, PadLen(u), Len(s)) = q /\ q \in Seq(Byte) /\ Len(q) = Len(b)
      /\ ReadU16(q, 0) = Word(g[1], g[2])
    <2>1. ~NoOptions(b)
        BY Zenon DEF NoOptions
    <2>2. Slice(s, PadLen(u), Len(s)) = q
        BY <2>1, AreaBody, SMT
    <2>3. q \in Seq(Byte) /\ Len(q) = Len(b)
        <3>1. b \in Seq(Byte)
            BY Zenon DEF AreaOf
        <3>2. 0 \in Nat /\ 0 + 2 <= Len(b)
            BY <1>1, <3>1, SMT
        <3> QED
            BY <1>1, <3>1, <3>2, FieldPatchIs, Zenon
    <2>4. ReadU16(q, 0) = Word(g[1], g[2])
        BY <2>1, AreaBody, Zenon
    <2> QED
        BY <2>2, <2>3, <2>4, Zenon
<1> HIDE DEF q
<1>4. ReadU16(q, 0) = 0 <=> g = <<0, 0>>
    BY <1>1, <1>3, FieldZero, Zenon
<1>5. Len(q) >= 2
    BY <1>1, <1>3, Zenon
<1>6. OcsValidate(q, Len(s), chk) =
          IF ReadU16(q, 0) = 0 THEN IF chk = 0 THEN "Unused" ELSE "InvalidZero"
          ELSE IF OnesComplementOf(Total(Append(Words(q), Len(s)))) = U16Max THEN "Valid"
          ELSE "Failed"
    BY <1>3, <1>5, <1>law, Zenon DEF OcsVerdicts
<1>7. OnesComplementOf(Total(Append(Words(q), Len(s)))) = U16Max <=> OcsFits(u, b, g)
    BY <1>1, Zenon DEF OcsFits, q
<1> HIDE DEF OcsFits
<1>8. Verdict(chk, u, s) = IF PadLen(u) = 1 /\ s[1] # 0 THEN "Failed" ELSE OcsValidate(q, Len(s), chk)
    BY <1>2, <1>3, Zenon DEF Verdict
<1>9. CASE PadLen(u) = 1 /\ p # 0
    BY <1>1, <1>8, <1>9, Zenon
<1>10. CASE ~(PadLen(u) = 1 /\ p # 0)
    BY <1>1, <1>4, <1>6, <1>7, <1>8, <1>10, Zenon
<1> QED
    BY <1>9, <1>10, Zenon

\* What a datagram was sent with is what the receiver makes of it.
LEMMA SentReceived ==
    ASSUME ChecksumLaws,
           NEW hl, NEW f \in Faults, NEW u \in Seq(Byte), NEW b, NEW w, Sent(w, hl, f, u, b)
    PROVE  \E s, g :
               /\ AreaOf(s, u, b, PadSent(f), g) /\ OcsSent(f, u, b, g) /\ Len(s) \in U16
               /\ Disposition(w) =
                      Payload(u, Verdict(ChecksumSent(f, u), u, s),
                              IF Verdict(ChecksumSent(f, u), u, s) \in {"Valid", "Unused"}
                              THEN Slice(s, PadLen(u) + 2, Len(s)) ELSE <<>>)
               /\ ChecksumSent(f, u) = 0 <=> f.zero_udp_checksum
<1>law. UdpStored
    BY Zenon DEF ChecksumLaws
<1>1. PICK s, g :
          /\ AreaOf(s, u, b, PadSent(f), g) /\ OcsSent(f, u, b, g)
          /\ Carries(w, hl, SrcPort, DstPort, ChecksumSent(f, u), u, s)
    BY Zenon DEF Sent
<1>2. Disposition(w) = Received(SrcPort, DstPort, ChecksumSent(f, u), u, s)
    <2>1. SurplusFits(u, s)
        BY <1>1, AreaFits, Zenon
    <2> QED
        BY <1>1, <2>1, DispositionIs, Zenon
<1>3. Len(s) \in U16 /\ 8 + Len(u) \in U16
    <2>1. /\ hl \in Nat /\ Len(u) \in Nat /\ Len(s) \in Nat
          /\ hl + 8 + Len(u) + Len(s) \in U16
        BY <1>1, CarriesTypes, Zenon
    <2>2. hl + 8 + Len(u) + Len(s) <= 65535
        BY <2>1, U16Bounds, SMT
    <2>3. Len(s) <= 65535 /\ 8 + Len(u) <= 65535 /\ 8 + Len(u) \in Nat
        BY <2>1, <2>2, SMT
    <2>4. Len(s) \in U16
        BY <2>1, <2>3, U16Has, SMT
    <2>5. 8 + Len(u) \in U16
        BY <2>1, <2>3, U16Has, SMT
    <2> QED
        BY <2>4, <2>5, Zenon
<1>4. UdpSum(SrcPort, DstPort, u) # 0
    <2>1. UdpHeaderLen + Len(u) \in U16
        BY <1>3, Zenon DEF UdpHeaderLen
    <2> QED
        BY <2>1, AddressesAssumption, <1>law, Zenon DEF UdpStored
<1>5. ChecksumSent(f, u) = 0 <=> f.zero_udp_checksum
    BY <1>4, Zenon DEF ChecksumSent
<1>6. ~(ChecksumSent(f, u) # 0 /\ UdpSum(SrcPort, DstPort, u) # ChecksumSent(f, u))
    BY Zenon DEF ChecksumSent
<1>7. Received(SrcPort, DstPort, ChecksumSent(f, u), u, s) =
          Payload(u, Verdict(ChecksumSent(f, u), u, s),
                  IF Verdict(ChecksumSent(f, u), u, s) \in {"Valid", "Unused"}
                  THEN Slice(s, PadLen(u) + 2, Len(s)) ELSE <<>>)
    BY <1>6, Zenon DEF Received
<1> QED
    BY <1>1, <1>2, <1>3, <1>5, <1>7, Zenon

\* The rows of the table: the status the receiver arrives at is the expected one.
LEMMA ExpectedIs ==
    ASSUME ChecksumLaws,
           user \in Seq(Byte), body \in Seq(Byte), faults \in Faults,
           FaultsPossible(faults, user, body), NEW s, NEW g,
           AreaOf(s, user, body, PadSent(faults), g), OcsSent(faults, user, body, g),
           Len(s) \in U16, NEW chk, chk = 0 <=> faults.zero_udp_checksum
    PROVE  Verdict(chk, user, s) = ExpectedStatus
<1>1. CASE body = <<>>
    <2>1. Len(s) = 0
        BY <1>1, Zenon DEF AreaOf
    <2> QED
        BY <1>1, <2>1, Zenon DEF Verdict, ExpectedStatus
<1>2. CASE body # <<>>
    <2> DEFINE fits == OcsFits(user, body, g)
    <2>1. Verdict(chk, user, s) =
              IF PadLen(user) = 1 /\ PadSent(faults) # 0 THEN "Failed"
              ELSE IF g = <<0, 0>> THEN IF chk = 0 THEN "Unused" ELSE "InvalidZero"
              ELSE IF fits THEN "Valid"
              ELSE "Failed"
        BY <1>2, VerdictIs, Zenon
    <2>2. PadLen(user) = 1 /\ PadSent(faults) # 0 <=> faults.pad \notin {None, 0}
        BY Zenon DEF FaultsPossible, PadSent
    <2>3. fits <=> OcsRight(g)
        BY OcsRightIs, Zenon
    <2>4. faults.ocs = None => g # <<0, 0>> /\ fits
        BY <1>2, Zenon DEF OcsSent
    <2>5. faults.ocs # None => g = faults.ocs
        BY Zenon DEF OcsSent
    <2> HIDE DEF fits
    <2>6. ExpectedStatus =
              IF faults.pad \notin {None, 0} THEN "Failed"
              ELSE IF faults.ocs = None THEN "Valid"
              ELSE IF faults.ocs = <<0, 0>> THEN IF faults.zero_udp_checksum THEN "Unused" ELSE "InvalidZero"
              ELSE IF OcsRight(faults.ocs) THEN "Valid"
              ELSE "Failed"
        BY <1>2, Zenon DEF ExpectedStatus
    <2>7. CASE faults.pad \notin {None, 0}
        BY <2>1, <2>2, <2>6, <2>7, Zenon
    <2>8. CASE faults.pad \in {None, 0} /\ faults.ocs = None
        BY <2>1, <2>2, <2>4, <2>6, <2>8, Zenon
    <2>9. CASE faults.pad \in {None, 0} /\ faults.ocs # None
        BY <2>1, <2>2, <2>3, <2>5, <2>6, <2>9, Zenon
    <2> QED
        BY <2>7, <2>8, <2>9, Zenon
<1> QED
    BY <1>1, <1>2, Zenon

\* What is delivered follows the table, by the laws.
LEMMA DispositionFollows == ASSUME ChecksumLaws PROVE Spec => []DispositionMatrix
<1>1. SentInv => DispositionMatrix
    <2> SUFFICES ASSUME SentInv, pc = "received", damaged = "nothing"
                 PROVE  delivery = Payload(user, ExpectedStatus,
                                           IF ExpectedStatus \in {"Valid", "Unused"} THEN OptionBytes
                                           ELSE <<>>)
        BY Zenon DEF DispositionMatrix
    <2>1. /\ user \in UserData /\ body \in Bodies /\ faults \in Faults
          /\ FaultsPossible(faults, user, body) /\ delivery = Disposition(wire)
        BY Zenon DEF SentInv
    <2>2. PICK hl \in {20, 24} : Sent(wire, hl, faults, user, body)
        BY Zenon DEF SentInv
    <2>3. user \in Seq(Byte) /\ body \in Seq(Byte)
        BY <2>1, DatagramsAssumption, Zenon
    <2> DEFINE chk == ChecksumSent(faults, user)
    <2>4. PICK s, g :
              /\ AreaOf(s, user, body, PadSent(faults), g) /\ OcsSent(faults, user, body, g)
              /\ Len(s) \in U16
              /\ Disposition(wire) =
                     Payload(user, Verdict(chk, user, s),
                             IF Verdict(chk, user, s) \in {"Valid", "Unused"}
                             THEN Slice(s, PadLen(user) + 2, Len(s)) ELSE <<>>)
              /\ chk = 0 <=> faults.zero_udp_checksum
        BY <2>1, <2>2, <2>3, SentReceived, ZenonT(40)
    <2> HIDE DEF chk
    <2>5. Verdict(chk, user, s) = ExpectedStatus
        BY <2>1, <2>3, <2>4, ExpectedIs, Zenon
    <2>6. ExpectedStatus \in {"Valid", "Unused"} => Slice(s, PadLen(user) + 2, Len(s)) = OptionBytes
        <3>1. ASSUME body # <<>> PROVE Slice(s, PadLen(user) + 2, Len(s)) = OptionBytes
            <4>1. ~NoOptions(body)
                BY <3>1, Zenon DEF NoOptions
            <4>2. Slice(s, PadLen(user) + 2, Len(s)) = Slice(body, 2, Len(body))
                BY <2>3, <2>4, <4>1, AreaBody, ZenonT(40)
            <4> QED
                BY <4>2, Zenon DEF OptionBytes, OcsLen
        <3>2. body = <<>> => ExpectedStatus = "Absent"
            BY Zenon DEF ExpectedStatus
        <3> QED
            BY <3>1, <3>2, Zenon
    <2> QED
        BY <2>1, <2>4, <2>5, <2>6, Zenon
<1> QED
    BY <1>1, SentInvariant, PTL

-----------------------------------------------------------------------------
(* One damaged byte *)

\* The datagrams differ in the byte i alone.
OneByte(w, c, i) ==
    /\ w \in Seq(Byte) /\ c \in Seq(Byte) /\ Len(c) = Len(w) /\ i \in 1 .. Len(w)
    /\ c[i] # w[i] /\ \A k \in 1 .. Len(w) : k # i => c[k] = w[k]

\* The datagram c is w with one byte damaged, but neither the length of its IPv4 header nor that
\* of its UDP header has become another.
Hurt(w, c, hl) ==
    /\ \E i \in 1 .. Len(w) : OneByte(w, c, i)
    /\ c[1] % 16 = w[1] % 16
    /\ ReadU16(c, hl + 4) = ReadU16(w, hl + 4)

\* What may be relied on in a delivery
Trusted(d, f, u, b) ==
    d.kind = "Payload" =>
        /\ ~f.zero_udp_checksum => d.data = u
        /\ (d.status = "Valid" /\ f.ocs = None /\ ~f.zero_udp_checksum) =>
               d.options = Slice(b, 2, Len(b))

LEMMA ErrTrusted ==
    ASSUME NEW d, d = Err, NEW f, NEW u, NEW b
    PROVE  Trusted(d, f, u, b)
<1>1. Err.kind # "Payload"
    BY Zenon DEF Err
<1> QED
    BY <1>1, Zenon DEF Trusted

LEMMA PayloadTrusted ==
    ASSUME NEW f, NEW u, NEW b, NEW status, NEW options,
           status = "Valid" /\ f.ocs = None => options = Slice(b, 2, Len(b))
    PROVE  Trusted(Payload(u, status, options), f, u, b)
<1> DEFINE d == [kind |-> "Payload", data |-> u, status |-> status, options |-> options]
<1>1. d.data = u /\ d.status = status /\ d.options = options
    BY Zenon
<1>2. d = Payload(u, status, options)
    BY Zenon DEF Payload
<1> HIDE DEF d
<1> QED
    BY <1>1, <1>2, Zenon DEF Trusted

\* A damaged byte of the IPv4 header: IpRepr::parse returns an error.
LEMMA HeaderHurt ==
    ASSUME ChecksumLaws,
           NEW w, NEW hl, NEW n, IpHeaderOf(w, hl, n), NEW c, NEW i \in 1 .. hl, OneByte(w, c, i),
           c[1] % 16 = w[1] % 16
    PROVE  Disposition(c) = Err
<1>law. HeaderChange
    BY Zenon DEF ChecksumLaws
<1>0. /\ c \in Seq(Byte) /\ Len(c) = Len(w) /\ c[i] # w[i]
      /\ \A k \in 1 .. Len(w) : k # i => c[k] = w[k]
    BY Zenon DEF OneByte
<1>1. /\ w \in Seq(Byte) /\ hl <= n /\ n <= Len(w) /\ InternetChecksum(Slice(w, 0, hl)) = 0
    BY Zenon DEF IpHeaderOf
<1>2. hl \in Nat /\ (hl = 20 \/ hl = 24) /\ n \in Nat /\ HeaderLen(IpRepr(w)) = hl
    BY HeaderParses, SMT
<1>3. HeaderLen(IpRepr(c)) = hl
    <2>1. IpRepr(c).ihl = c[1] % 16 /\ IpRepr(w).ihl = w[1] % 16
        BY Zenon DEF IpRepr
    <2> QED
        BY <1>2, <2>1, Zenon DEF HeaderLen
<1> DEFINE x == Slice(c, 0, hl)
           y == Slice(w, 0, hl)
<1>4. hl <= Len(w) /\ hl <= Len(c) /\ Len(w) \in Nat
    BY <1>0, <1>1, <1>2, SMT
<1>5. x \in Seq(Byte) /\ Len(x) = hl /\ \A k \in 1 .. hl : x[k] = c[k]
    BY <1>0, <1>2, <1>4, SliceTo, Zenon
<1>6. y \in Seq(Byte) /\ Len(y) = hl /\ \A k \in 1 .. hl : y[k] = w[k]
    BY <1>1, <1>2, <1>4, SliceTo, Zenon
<1>7. InternetChecksum(y) = 0
    BY <1>1, Zenon
<1> HIDE DEF x, y
<1>8. \A k \in 1 .. hl : k \in 1 .. Len(w)
    BY <1>2, <1>4, SMT
<1>9. /\ Len(x) = Len(y) /\ i \in 1 .. Len(x) /\ x[i] # y[i]
      /\ \A k \in 1 .. Len(x) : k # i => x[k] = y[k]
    BY <1>0, <1>5, <1>6, <1>8, Zenon
<1>10. InternetChecksum(x) # 0
    BY <1>5, <1>6, <1>7, <1>9, <1>law, Zenon DEF HeaderChange
<1>11. ~IpParses(c)
    BY <1>3, <1>10, Zenon DEF IpParses, x
<1> QED
    BY <1>11, Zenon DEF Disposition

\* A damaged byte of a 16-bit field gives the field a value the sums tell from the other.
LEMMA FieldHurt ==
    ASSUME NEW w, NEW c, NEW i, OneByte(w, c, i), NEW at \in Nat, at + 2 <= Len(w)
    PROVE  /\ i # at + 1 /\ i # at + 2 => ReadU16(c, at) = ReadU16(w, at)
           /\ i = at + 1 \/ i = at + 2 => /\ ReadU16(c, at) # ReadU16(w, at)
                                          /\ Apart(ReadU16(w, at), ReadU16(c, at))
<1>1. /\ w \in Seq(Byte) /\ c \in Seq(Byte) /\ Len(c) = Len(w) /\ i \in 1 .. Len(w)
      /\ c[i] # w[i] /\ \A k \in 1 .. Len(w) : k # i => c[k] = w[k]
    BY Zenon DEF OneByte
<1>2. /\ at + 1 \in 1 .. Len(w) /\ at + 2 \in 1 .. Len(w) /\ at + 1 # at + 2
      /\ at + 1 \in 1 .. Len(c) /\ at + 2 \in 1 .. Len(c)
    BY <1>1, SMT
<1>3. w[at + 1] \in Byte /\ w[at + 2] \in Byte /\ c[at + 1] \in Byte /\ c[at + 2] \in Byte
    BY <1>1, <1>2, ByteAt, Zenon
<1>4. ASSUME i # at + 1, i # at + 2 PROVE ReadU16(c, at) = ReadU16(w, at)
    BY <1>1, <1>2, <1>4, Zenon DEF ReadU16
<1>5. ASSUME i = at + 1 \/ i = at + 2
      PROVE  ReadU16(c, at) # ReadU16(w, at) /\ Apart(ReadU16(w, at), ReadU16(c, at))
    <2>1. \/ w[at + 1] # c[at + 1] /\ w[at + 2] = c[at + 2]
          \/ w[at + 1] = c[at + 1] /\ w[at + 2] # c[at + 2]
        <3>1. ASSUME i = at + 1 PROVE w[at + 1] # c[at + 1] /\ w[at + 2] = c[at + 2]
            BY <1>1, <1>2, <3>1, Zenon
        <3>2. ASSUME i = at + 2 PROVE w[at + 1] = c[at + 1] /\ w[at + 2] # c[at + 2]
            BY <1>1, <1>2, <3>2, Zenon
        <3> QED
            BY <1>5, <3>1, <3>2, Zenon
    <2>2. Apart(Word(w[at + 1], w[at + 2]), Word(c[at + 1], c[at + 2]))
        BY <1>3, <2>1, WordApart, Zenon
    <2> QED
        BY <2>2, Zenon DEF Apart, ReadU16
<1> QED
    BY <1>4, <1>5, Zenon

LEMMA ReceivedErr ==
    ASSUME NEW sp, NEW dp, NEW chk, NEW u, NEW s, chk # 0, UdpSum(sp, dp, u) # chk
    PROVE  Received(sp, dp, chk, u, s) = Err
BY Zenon DEF Received

\* The options found in the surplus area t are those sent when its OCS is valid.
AreaTrusted(chk, u, t, f, b) ==
    Verdict(chk, u, t) = "Valid" /\ f.ocs = None =>
        Slice(t, PadLen(u) + 2, Len(t)) = Slice(b, 2, Len(b))

LEMMA ReceivedTrusted ==
    ASSUME NEW sp, NEW dp, NEW chk, NEW u, NEW t, NEW f, NEW b, AreaTrusted(chk, u, t, f, b)
    PROVE  Trusted(Received(sp, dp, chk, u, t), f, u, b)
<1> DEFINE status == Verdict(chk, u, t)
           options == IF status \in {"Valid", "Unused"} THEN Slice(t, PadLen(u) + 2, Len(t))
                      ELSE <<>>
<1>1. status = "Valid" /\ f.ocs = None => options = Slice(b, 2, Len(b))
    BY Zenon DEF AreaTrusted
<1>2. Received(sp, dp, chk, u, t) = Err \/ Received(sp, dp, chk, u, t) = Payload(u, status, options)
    BY Zenon DEF Received
<1> HIDE DEF status, options
<1>3. Trusted(Payload(u, status, options), f, u, b)
    BY <1>1, PayloadTrusted, Zenon
<1> QED
    BY <1>2, <1>3, ErrTrusted, Zenon

\* A surplus area with at most one damaged byte: when its OCS is valid, what follows the OCS is
\* what was sent.
LEMMA TailHurt ==
    ASSUME ChecksumLaws,
           NEW s \in Seq(Byte), NEW t \in Seq(Byte), Len(t) = Len(s), Len(s) \in U16,
           \A j, k \in 1 .. Len(s) : t[j] # s[j] /\ k # j => t[k] = s[k],
           NEW m \in Nat, m + 2 <= Len(s), NEW chk,
           OnesComplementOf(Total(Append(Words(Slice(s, m, Len(s))), Len(s)))) = U16Max,
           OcsValidate(Slice(t, m, Len(t)), Len(t), chk) = "Valid"
    PROVE  Slice(t, m + 2, Len(t)) = Slice(s, m + 2, Len(s))
<1>law. OcsChange
    BY Zenon DEF ChecksumLaws
<1> DEFINE q == Slice(s, m, Len(s))
           x == Slice(t, m, Len(t))
           y == Slice(t, m + 2, Len(t))
           z == Slice(s, m + 2, Len(s))
<1>1. PICK n \in Nat : n = Len(s) - m
    BY SMT
<1>2. PICK l \in Nat : l = m + 2
    BY SMT
<1>3. /\ m <= Len(s) /\ m <= Len(t) /\ l <= Len(s) /\ l <= Len(t) /\ n >= 2
      /\ Len(s) - m = n /\ Len(t) - m = n /\ Len(s) - l = n - 2 /\ Len(t) - l = n - 2
    BY <1>1, <1>2, SMT
<1>4. q \in Seq(Byte) /\ Len(q) = n /\ \A i \in 1 .. n : q[i] = s[m + i]
    <2>1. m <= Len(s) /\ Len(s) - m = n
        BY <1>3, Zenon
    <2>2. /\ Slice(s, m, Len(s)) \in Seq(Byte)
          /\ Len(Slice(s, m, Len(s))) = Len(s) - m
          /\ \A i \in 1 .. Len(s) - m : Slice(s, m, Len(s))[i] = s[m + i]
        BY ONLY s \in Seq(Byte), m \in Nat, <2>1, SliceFrom, Zenon
    <2> QED
        BY ONLY <2>1, <2>2, Zenon
<1>5. x \in Seq(Byte) /\ Len(x) = n /\ \A i \in 1 .. n : x[i] = t[m + i]
    <2>1. m <= Len(t) /\ Len(t) - m = n
        BY <1>3, Zenon
    <2>2. /\ Slice(t, m, Len(t)) \in Seq(Byte)
          /\ Len(Slice(t, m, Len(t))) = Len(t) - m
          /\ \A i \in 1 .. Len(t) - m : Slice(t, m, Len(t))[i] = t[m + i]
        BY ONLY t \in Seq(Byte), m \in Nat, <2>1, SliceFrom, Zenon
    <2> QED
        BY ONLY <2>1, <2>2, Zenon
<1>6. /\ Slice(s, l, Len(s)) \in Seq(Byte) /\ Len(Slice(s, l, Len(s))) = n - 2
      /\ \A i \in 1 .. n - 2 : Slice(s, l, Len(s))[i] = s[l + i]
    <2>1. l <= Len(s) /\ Len(s) - l = n - 2
        BY <1>3, Zenon
    <2>2. /\ Slice(s, l, Len(s)) \in Seq(Byte)
          /\ Len(Slice(s, l, Len(s))) = Len(s) - l
          /\ \A i \in 1 .. Len(s) - l : Slice(s, l, Len(s))[i] = s[l + i]
        BY ONLY s \in Seq(Byte), l \in Nat, <2>1, SliceFrom, Zenon
    <2> QED
        BY ONLY <2>1, <2>2, Zenon
<1>7. /\ Slice(t, l, Len(t)) \in Seq(Byte) /\ Len(Slice(t, l, Len(t))) = n - 2
      /\ \A i \in 1 .. n - 2 : Slice(t, l, Len(t))[i] = t[l + i]
    <2>1. l <= Len(t) /\ Len(t) - l = n - 2
        BY <1>3, Zenon
    <2>2. /\ Slice(t, l, Len(t)) \in Seq(Byte)
          /\ Len(Slice(t, l, Len(t))) = Len(t) - l
          /\ \A i \in 1 .. Len(t) - l : Slice(t, l, Len(t))[i] = t[l + i]
        BY ONLY t \in Seq(Byte), l \in Nat, <2>1, SliceFrom, Zenon
    <2> QED
        BY ONLY <2>1, <2>2, Zenon
<1>8. y = Slice(t, l, Len(t)) /\ z = Slice(s, l, Len(s))
    BY <1>2, Zenon
<1>9. /\ OnesComplementOf(Total(Append(Words(q), Len(t)))) = U16Max
      /\ OcsValidate(x, Len(t), chk) = "Valid"
    BY Zenon
<1> HIDE DEF q, x, y, z
<1>10. \A i \in 1 .. n : t[m + i] = s[m + i]
    <2> SUFFICES ASSUME NEW j \in 1 .. n, t[m + j] # s[m + j] PROVE FALSE
        BY Zenon
    <2>1. m + j \in 1 .. Len(s)
        BY <1>1, SMT
    <2>2. \A i \in 1 .. n : i # j => m + i \in 1 .. Len(s) /\ m + i # m + j
        BY <1>1, SMT
    <2>3. x[j] # q[j] /\ \A i \in 1 .. n : i # j => x[i] = q[i]
        BY <1>4, <1>5, <2>1, <2>2, Zenon
    <2>4. Len(x) = Len(q) /\ Len(x) >= 2 /\ j \in 1 .. Len(x) /\ Len(t) \in U16
        BY <1>3, <1>4, <1>5, Zenon
    <2>5. OcsValidate(x, Len(t), chk) # "Valid"
        BY <1>4, <1>5, <1>9, <2>3, <2>4, <1>law, Zenon DEF OcsChange
    <2> QED
        BY <1>9, <2>5, Zenon
<1>11. \A i \in 1 .. n - 2 : 2 + i \in 1 .. n /\ l + i = m + (2 + i)
    BY <1>2, SMT
<1>12. \A i \in 1 .. n - 2 : t[l + i] = s[l + i]
    BY ONLY <1>10, <1>11, Zenon
<1>13. Slice(t, l, Len(t)) = Slice(s, l, Len(s))
    <2> DEFINE a == Slice(t, l, Len(t))
               d == Slice(s, l, Len(s))
    <2>1. a \in Seq(Byte) /\ d \in Seq(Byte) /\ Len(a) = Len(d)
        BY ONLY <1>6, <1>7, Zenon
    <2>2. \A i \in 1 .. Len(d) : a[i] = d[i]
        BY ONLY <1>6, <1>7, <1>12, Zenon
    <2> QED
        BY ONLY <2>1, <2>2, BytesEqual, Zenon
<1> QED
    BY <1>8, <1>13, Zenon DEF y, z

\* At most one byte of t is not that of s.
NearlySame(s, t) ==
    /\ t \in Seq(Byte) /\ Len(t) = Len(s)
    /\ \A j, k \in 1 .. Len(s) : t[j] # s[j] /\ k # j => t[k] = s[k]

\* When the OCS is valid, the options are those sent.
LEMMA AreaHurt ==
    ASSUME ChecksumLaws,
           NEW f, NEW u \in Seq(Byte), NEW b, NEW s, NEW p, NEW g, AreaOf(s, u, b, p, g),
           OcsSent(f, u, b, g), Len(s) \in U16, NEW t, NearlySame(s, t), NEW chk
    PROVE  AreaTrusted(chk, u, t, f, b)
<1> SUFFICES ASSUME Verdict(chk, u, t) = "Valid", f.ocs = None
             PROVE  Slice(t, PadLen(u) + 2, Len(t)) = Slice(b, 2, Len(b))
    BY Zenon DEF AreaTrusted
<1>1. Len(t) # 0 /\ OcsValidate(Slice(t, PadLen(u), Len(t)), Len(t), chk) = "Valid"
    BY Zenon DEF Verdict
<1>2. ~NoOptions(b)
    <2>1. NoArea(s) <=> NoOptions(b)
        BY AreaFits, Zenon
    <2> QED
        BY <1>1, <2>1, Zenon DEF NoArea, NearlySame
<1>3. PadLen(u) = 0 \/ PadLen(u) = 1
    BY AreaFits, Zenon
<1>4. s \in Seq(Byte) /\ b \in Seq(Byte) /\ Len(b) >= 2 /\ Len(s) = PadLen(u) + Len(b)
    BY <1>2, Zenon DEF AreaOf, NoOptions
<1>5. PadLen(u) \in Nat /\ PadLen(u) + 2 <= Len(s)
    BY <1>3, <1>4, SMT
<1>6. u \in Seq(Byte) /\ ~NoOptions(b) /\ AreaOf(s, u, b, p, g)
    BY <1>2, Zenon
<1>7. Slice(s, PadLen(u), Len(s)) = Patch(b, 0, g)
    BY ONLY <1>6, AreaBody, SMT
<1>8. Slice(s, PadLen(u) + 2, Len(s)) = Slice(b, 2, Len(b))
    BY ONLY <1>6, AreaBody, SMT
<1>9. OnesComplementOf(Total(Append(Words(Slice(s, PadLen(u), Len(s))), Len(s)))) = U16Max
    BY <1>2, <1>4, <1>7, Zenon DEF OcsSent, OcsFits, NoOptions
<1>10. Slice(t, PadLen(u) + 2, Len(t)) = Slice(s, PadLen(u) + 2, Len(s))
    <2>1. /\ t \in Seq(Byte) /\ Len(t) = Len(s)
          /\ \A j, k \in 1 .. Len(s) : t[j] # s[j] /\ k # j => t[k] = s[k]
        BY Zenon DEF NearlySame
    <2> QED
        BY <1>1, <1>4, <1>5, <1>9, <2>1, TailHurt, Zenon
<1> QED
    BY <1>8, <1>10, Zenon

\* The datagram c is refused, or the user data u and nearly the area s are received.
NearlyReceived(c, sp, dp, u, s) ==
    \/ Disposition(c) = Err
    \/ \E chk, t : NearlySame(s, t) /\ Disposition(c) = Received(sp, dp, chk, u, t)

\* A damaged byte after the IPv4 header of a datagram with a UDP checksum: process_datagram
\* returns an error, or delivers the user data that was sent.
LEMMA BodyHurt ==
    ASSUME ChecksumLaws,
           NEW w, NEW hl, NEW sp, NEW dp, NEW u, NEW s,
           Carries(w, hl, sp, dp, UdpSum(sp, dp, u), u, s), SurplusFits(u, s),
           UdpHeaderLen + Len(u) \in U16, UdpSum(sp, dp, u) # 0,
           NEW c, NEW i, OneByte(w, c, i), hl < i,
           ReadU16(c, hl + 4) = ReadU16(w, hl + 4)
    PROVE  NearlyReceived(c, sp, dp, u, s)
<1>UdpDataChange. UdpDataChange
    BY Zenon DEF ChecksumLaws
<1>UdpPortChange. UdpPortChange
    BY Zenon DEF ChecksumLaws
<1> DEFINE sq == ReadU16(c, hl)
           dq == ReadU16(c, hl + 2)
           chk == ReadU16(c, hl + 6)
           summed == UdpSum(sp, dp, u)
           n == hl + 8 + Len(u)
<1>0. /\ c \in Seq(Byte) /\ Len(c) = Len(w) /\ i \in 1 .. Len(w) /\ c[i] # w[i]
      /\ \A k \in 1 .. Len(w) : k # i => c[k] = w[k]
    BY Zenon DEF OneByte
<1>1. /\ w \in Seq(Byte) /\ u \in Seq(Byte) /\ s \in Seq(Byte) /\ sp \in U16 /\ dp \in U16
      /\ hl \in Nat /\ Len(u) \in Nat /\ Len(s) \in Nat /\ Len(w) \in Nat
      /\ n + Len(s) <= Len(w)
    BY CarriesTypes, Zenon
<1>2. \A k \in 1 .. hl : k \in 1 .. Len(w) /\ k # i
    BY <1>0, <1>1, SMT
<1>3. \A k \in 1 .. hl : c[k] = w[k]
    BY <1>0, <1>2, Zenon
<1>4. PICK v, t \in Seq(Byte) :
          /\ Len(v) = Len(u) /\ \A k \in 1 .. Len(u) : v[k] = c[hl + 8 + k]
          /\ Len(t) = Len(s) /\ \A k \in 1 .. Len(s) : t[k] = c[hl + 8 + Len(u) + k]
          /\ Carries(c, hl, sq, dq, chk, v, t)
    <2>1. PICK v, t : RestOf(c, hl, u, s, v, t)
        BY <1>0, <1>3, CarriesOther, Zenon
    <2> QED
        BY <2>1, Zenon DEF RestOf
<1>5. SurplusFits(v, t)
    BY <1>4, Zenon DEF SurplusFits, PadLen
<1>6. Disposition(c) = Received(sq, dq, chk, v, t)
    BY ONLY <1>4, <1>5, DispositionIs, Zenon
<1>7. ReadU16(w, hl) = sp /\ ReadU16(w, hl + 2) = dp /\ ReadU16(w, hl + 6) = summed
    BY Zenon DEF Carries, UdpOf
<1>8. /\ hl + 2 <= Len(w) /\ (hl + 2) + 2 <= Len(w) /\ (hl + 4) + 2 <= Len(w)
      /\ (hl + 6) + 2 <= Len(w) /\ hl + 2 \in Nat /\ hl + 4 \in Nat /\ hl + 6 \in Nat
    BY <1>1, SMT
<1>9. /\ i # hl + 1 /\ i # hl + 2 => sq = sp
      /\ i = hl + 1 \/ i = hl + 2 => Apart(sp, sq)
    <2>1. /\ i # hl + 1 /\ i # hl + 2 => ReadU16(c, hl) = ReadU16(w, hl)
          /\ i = hl + 1 \/ i = hl + 2 => /\ ReadU16(c, hl) # ReadU16(w, hl)
                                             /\ Apart(ReadU16(w, hl), ReadU16(c, hl))
        BY ONLY OneByte(w, c, i), <1>1, <1>8, FieldHurt, Zenon
    <2> QED
        BY <1>7, <2>1, Zenon
<1>10. /\ i # (hl + 2) + 1 /\ i # (hl + 2) + 2 => dq = dp
       /\ i = (hl + 2) + 1 \/ i = (hl + 2) + 2 => Apart(dp, dq)
    <2>1. /\ i # (hl + 2) + 1 /\ i # (hl + 2) + 2 => ReadU16(c, hl + 2) = ReadU16(w, hl + 2)
          /\ i = (hl + 2) + 1 \/ i = (hl + 2) + 2 => /\ ReadU16(c, hl + 2) # ReadU16(w, hl + 2)
                                             /\ Apart(ReadU16(w, hl + 2), ReadU16(c, hl + 2))
        BY ONLY OneByte(w, c, i), <1>1, <1>8, FieldHurt, Zenon
    <2> QED
        BY <1>7, <2>1, Zenon
<1>11. i # (hl + 4) + 1 /\ i # (hl + 4) + 2
    BY <1>1, <1>8, FieldHurt, Zenon
<1>12. /\ i # (hl + 6) + 1 /\ i # (hl + 6) + 2 => chk = summed
       /\ i = (hl + 6) + 1 \/ i = (hl + 6) + 2 => chk # summed
    <2>1. /\ i # (hl + 6) + 1 /\ i # (hl + 6) + 2 => ReadU16(c, hl + 6) = ReadU16(w, hl + 6)
          /\ i = (hl + 6) + 1 \/ i = (hl + 6) + 2 => /\ ReadU16(c, hl + 6) # ReadU16(w, hl + 6)
                                             /\ Apart(ReadU16(w, hl + 6), ReadU16(c, hl + 6))
        BY ONLY OneByte(w, c, i), <1>1, <1>8, FieldHurt, Zenon
    <2> QED
        BY <1>7, <2>1, Zenon
<1>13. sq \in U16 /\ dq \in U16
    BY <1>4, CarriesTypes, Zenon
<1> HIDE DEF sq, dq, chk, summed
<1>14. \A k \in 1 .. Len(u) : hl + 8 + k \in 1 .. Len(w)
    BY <1>1, SMT
<1>15. \A k \in 1 .. Len(s) : n + k \in 1 .. Len(w)
    BY <1>1, SMTT(30)
<1>16. v = u \/ \E j \in 1 .. Len(u) : i = hl + 8 + j
    <2> SUFFICES ASSUME ~ \E j \in 1 .. Len(u) : i = hl + 8 + j PROVE v = u
        BY Zenon
    <2>1. \A k \in 1 .. Len(u) : c[hl + 8 + k] = w[hl + 8 + k]
        BY <1>0, <1>14, Zenon
    <2> QED
        BY <1>4, <2>1, DataKept, SMT
<1>17. NearlySame(s, t)
    <2>1. \A k \in 1 .. Len(s) : w[n + k] = s[k] /\ t[k] = c[n + k]
        BY <1>4, Zenon DEF Carries, UdpOf
    <2>2. \A j, k \in 1 .. Len(s) : k # j => n + k # n + j
        BY <1>1, SMT
    <2>3. ASSUME NEW j \in 1 .. Len(s), NEW k \in 1 .. Len(s), t[j] # s[j], k # j
          PROVE  t[k] = s[k]
        <3>1. i = n + j
            BY <1>0, <1>15, <2>1, <2>3, Zenon
        <3>2. i # n + k
            BY <2>2, <2>3, <3>1, Zenon
        <3> QED
            BY <1>0, <1>15, <2>1, <3>2, Zenon
    <2> QED
        BY <1>4, <2>3, Zenon DEF NearlySame
<1>18. CASE i \in {hl + 1, hl + 2, hl + 3, hl + 4}
    <2>1. v = u /\ chk = summed
        BY <1>1, <1>12, <1>16, <1>18, SMT
    <2>2. (Apart(sp, sq) /\ dp = dq) \/ (sp = sq /\ Apart(dp, dq))
        BY <1>1, <1>9, <1>10, <1>18, SMT
    <2>3. UdpSum(sq, dq, u) # summed
        BY <1>1, <1>13, <2>2, <1>UdpPortChange, Zenon DEF summed, UdpPortChange
    <2> QED
        BY <1>6, <2>1, <2>3, ReceivedErr, Zenon DEF summed, NearlyReceived
<1>19. CASE \E j \in 1 .. Len(u) : i = hl + 8 + j
    <2>1. PICK j \in 1 .. Len(u) : i = hl + 8 + j
        BY <1>19, Zenon
    <2>2. sq = sp /\ dq = dp /\ chk = summed
        BY <1>1, <1>9, <1>10, <1>12, <2>1, SMT
    <2>3. \A k \in 1 .. Len(u) : w[hl + 8 + k] = u[k]
        BY Zenon DEF Carries, UdpOf
    <2>4. \A k \in 1 .. Len(u) : k # j => hl + 8 + k # i
        BY <1>1, <2>1, SMT
    <2>5. u[j] # v[j]
        BY <1>0, <1>4, <2>1, <2>3, Zenon
    <2>6. \A k \in 1 .. Len(u) : k # j => u[k] = v[k]
        BY <1>0, <1>4, <1>14, <2>3, <2>4, Zenon
    <2>7. UdpSum(sp, dp, u) # UdpSum(sp, dp, v)
        BY <1>1, <1>4, <2>5, <2>6, <1>UdpDataChange, Zenon DEF UdpDataChange
    <2> QED
        BY <1>6, <2>2, <2>7, ReceivedErr, Zenon DEF summed, NearlyReceived
<1>20. CASE i \notin {hl + 1, hl + 2, hl + 3, hl + 4} /\ ~ \E j \in 1 .. Len(u) : i = hl + 8 + j
    <2>1. sq = sp /\ dq = dp
        BY <1>1, <1>9, <1>10, <1>20, SMT
    <2> QED
        BY <1>6, <1>16, <1>17, <1>20, <2>1, Zenon DEF NearlyReceived
<1> QED
    BY <1>18, <1>19, <1>20, Zenon

\* One damaged byte that leaves the lengths as they were: what is delivered may be relied on.
LEMMA HurtTrusted ==
    ASSUME ChecksumLaws,
           NEW w, NEW hl, NEW f, NEW u \in Seq(Byte), NEW b, Sent(w, hl, f, u, b),
           NEW c, Hurt(w, c, hl)
    PROVE  Trusted(Disposition(c), f, u, b)
<1>law. UdpStored
    BY Zenon DEF ChecksumLaws
<1>1. CASE f.zero_udp_checksum
    BY <1>1, Zenon DEF Trusted
<1>2. CASE ~f.zero_udp_checksum
    <2>1. PICK s, g : /\ AreaOf(s, u, b, PadSent(f), g) /\ OcsSent(f, u, b, g)
                      /\ Carries(w, hl, SrcPort, DstPort, UdpSum(SrcPort, DstPort, u), u, s)
        BY <1>2, Zenon DEF Sent, ChecksumSent
    <2>2. PICK i \in 1 .. Len(w) : OneByte(w, c, i)
        BY Zenon DEF Hurt
    <2>3. c[1] % 16 = w[1] % 16 /\ ReadU16(c, hl + 4) = ReadU16(w, hl + 4)
        BY Zenon DEF Hurt
    <2>4. /\ hl \in Nat /\ Len(u) \in Nat /\ Len(s) \in Nat /\ Len(w) \in Nat
          /\ hl + 8 + Len(u) + Len(s) \in U16
        BY <2>1, CarriesTypes, Zenon
    <2>5. CASE i <= hl
        <3>1. i \in 1 .. hl
            BY <2>4, <2>5, SMT
        <3>2. IpHeaderOf(w, hl, hl + 8 + Len(u) + Len(s))
            BY <2>1, Zenon DEF Carries
        <3>3. Disposition(c) = Err
            BY ONLY ChecksumLaws, <2>2, <2>3, <3>1, <3>2, HeaderHurt, Zenon
        <3> QED
            BY <3>3, ErrTrusted, Zenon
    <2>6. CASE hl < i
        <3>1. hl + 8 + Len(u) + Len(s) <= 65535
            BY <2>4, U16Bounds, SMT
        <3>2. Len(s) <= 65535 /\ 8 + Len(u) <= 65535 /\ 8 + Len(u) \in Nat
            BY <2>4, <3>1, SMT
        <3>3. Len(s) \in U16
            BY <2>4, <3>2, U16Has, SMT
        <3>4. 8 + Len(u) \in U16
            BY <3>2, U16Has, SMT
        <3>5. UdpHeaderLen + Len(u) \in U16
            BY <3>4, Zenon DEF UdpHeaderLen
        <3>6. UdpSum(SrcPort, DstPort, u) # 0
            BY <3>5, AddressesAssumption, <1>law, Zenon DEF UdpStored
        <3>7. SurplusFits(u, s)
            BY <2>1, AreaFits, Zenon
        <3>8. NearlyReceived(c, SrcPort, DstPort, u, s)
            BY ONLY ChecksumLaws, <2>1, <2>2, <2>3, <2>6, <3>5, <3>6, <3>7, BodyHurt, Zenon
        <3>9. ASSUME NEW chk, NEW t, NearlySame(s, t)
              PROVE  Trusted(Received(SrcPort, DstPort, chk, u, t), f, u, b)
            <4>1. AreaTrusted(chk, u, t, f, b)
                BY ONLY ChecksumLaws, u \in Seq(Byte), <2>1, <3>3, <3>9, AreaHurt, Zenon
            <4> QED
                BY <4>1, ReceivedTrusted, Zenon
        <3> QED
            BY <3>8, <3>9, ErrTrusted, Zenon DEF NearlyReceived
    <2> QED
        BY <2>4, <2>5, <2>6, SMT
<1> QED
    BY <1>1, <1>2, Zenon

LEMMA ByteDamaged ==
    ASSUME NEW w \in Seq(Byte), NEW i \in DOMAIN w, NEW v \in Byte, v # w[i]
    PROVE  i \in 1 .. Len(w) /\ OneByte(w, [w EXCEPT ![i] = v], i)
<1> DEFINE c == [w EXCEPT ![i] = v]
<1>1. i \in 1 .. Len(w) /\ c \in Seq(Byte) /\ Len(c) = Len(w)
    BY SMT
<1>2. c[i] = v /\ \A k \in 1 .. Len(w) : k # i => c[k] = w[k]
    BY SMT
<1> HIDE DEF c
<1>3. OneByte(w, c, i)
    BY <1>1, <1>2, Zenon DEF OneByte
<1> QED
    BY <1>1, <1>3, Zenon DEF c

\* A damaged datagram is one that was sent, but for one byte.
DamagedInv ==
    /\ damaged \in {"nothing", "content", "length"}
    /\ pc \in {"path", "received"} /\ damaged = "content" =>
           \E w, hl : Sent(w, hl, faults, user, body) /\ Hurt(w, wire, hl)

LEMMA DamageStep ==
    ASSUME SentInv, NEW i \in DOMAIN wire, DamageByte(i)
    PROVE  DamagedInv'
<1>1. /\ pc = "path" /\ damaged = "nothing"
      /\ damaged' = IF SameLengths(wire, wire') THEN "content" ELSE "length"
      /\ UNCHANGED <<pc, user, body, faults, changed, delivery>>
    BY Zenon DEF DamageByte
<1>2. PICK v \in Damage(wire[i]) : v # wire[i] /\ wire' = [wire EXCEPT ![i] = v]
    BY Zenon DEF DamageByte
<1>3. PICK hl \in {20, 24} : Sent(wire, hl, faults, user, body)
    BY <1>1, Zenon DEF SentInv
<1>4. PICK s, chk : Carries(wire, hl, SrcPort, DstPort, chk, user, s)
    BY <1>3, Zenon DEF Sent
<1>5. wire \in Seq(Byte)
    BY <1>4, CarriesTypes, Zenon
<1>6. i \in 1 .. Len(wire)
    BY <1>5, SMT
<1>7. v \in Byte
    <2>1. wire[i] \in Byte
        BY <1>5, <1>6, ByteAt, Zenon
    <2> QED
        BY <1>2, <2>1, DamageAssumption, Zenon
<1>8. OneByte(wire, wire', i)
    BY <1>2, <1>5, <1>7, ByteDamaged, Zenon
<1>9. 4 * (wire[1] % 16) = hl
    <2>1. (hl = 20 /\ wire[1] = 69) \/ (hl = 24 /\ wire[1] = 70)
        BY <1>4, Zenon DEF Carries, IpHeaderOf
    <2> QED
        BY <2>1, SMT
<1>10. ASSUME SameLengths(wire, wire') PROVE Hurt(wire, wire', hl)
    <2>1. wire'[1] % 16 = wire[1] % 16 /\ ReadU16(wire', hl + 4) = ReadU16(wire, hl + 4)
        BY <1>9, <1>10, Zenon DEF SameLengths
    <2> QED
        BY <1>6, <1>8, <2>1, Zenon DEF Hurt
<1>11. Sent(wire, hl, faults', user', body')
    BY <1>1, <1>3, Zenon
<1>12. damaged' \in {"content", "length"} /\ (damaged' = "content" => SameLengths(wire, wire'))
    BY <1>1, SMT
<1> QED
    BY <1>10, <1>11, <1>12, Zenon DEF DamagedInv

\* A damaged byte is not trusted, by the laws.
LEMMA DamageFollows == ASSUME ChecksumLaws PROVE Spec => []DamageNotTrusted
<1>1. Init => DamagedInv
    BY Zenon DEF Init, DamagedInv
<1>2. SentInv /\ DamagedInv /\ [Next]_vars => DamagedInv'
    <2> SUFFICES ASSUME SentInv, DamagedInv, [Next]_vars PROVE DamagedInv'
        OBVIOUS
    <2>1. ASSUME NEW u \in UserData, NEW b \in Bodies, Assemble(u, b) PROVE DamagedInv'
        BY <2>1, Zenon DEF Assemble, DamagedInv
    <2>2. ASSUME NEW f \in Faults, ApplyFaults(f) PROVE DamagedInv'
        BY <2>2, Zenon DEF ApplyFaults, DamagedInv, SentInv
    <2>3. ASSUME NEW f \in Faults, RefuseFaults(f) PROVE DamagedInv'
        BY <2>3, Zenon DEF RefuseFaults, DamagedInv
    <2>4. ASSUME AddIpOptions PROVE DamagedInv'
        BY <2>4, Zenon DEF AddIpOptions, DamagedInv
    <2>5. ASSUME AddTrailer PROVE DamagedInv'
        BY <2>5, Zenon DEF AddTrailer, DamagedInv
    <2>6. ASSUME NEW i \in DOMAIN wire, DamageByte(i) PROVE DamagedInv'
        BY <2>6, DamageStep, Zenon
    <2>7. ASSUME Receive PROVE DamagedInv'
        BY <2>7, Zenon DEF Receive, DamagedInv
    <2>8. ASSUME UNCHANGED vars PROVE DamagedInv'
        BY <2>8, Zenon DEF vars, DamagedInv
    <2> QED
        BY <2>1, <2>2, <2>3, <2>4, <2>5, <2>6, <2>7, <2>8, Zenon DEF Next
<1>3. SentInv /\ DamagedInv /\ DispositionMatrix => DamageNotTrusted
    <2> SUFFICES ASSUME SentInv, DamagedInv, DispositionMatrix, pc = "received", damaged # "length"
                 PROVE  Trusted(delivery, faults, user, body)
        BY Zenon DEF DamageNotTrusted, Trusted, OptionBytes, OcsLen
    <2>1. CASE damaged = "nothing"
        <3> DEFINE options == IF ExpectedStatus \in {"Valid", "Unused"} THEN OptionBytes ELSE <<>>
        <3>1. delivery = Payload(user, ExpectedStatus, options)
            BY <2>1, Zenon DEF DispositionMatrix
        <3>2. ExpectedStatus = "Valid" => options = Slice(body, 2, Len(body))
            BY Zenon DEF OptionBytes, OcsLen
        <3> HIDE DEF options
        <3>3. Trusted(Payload(user, ExpectedStatus, options), faults, user, body)
            BY <3>2, PayloadTrusted, Zenon
        <3> QED
            BY <3>1, <3>3, Zenon
    <2>2. CASE damaged = "content"
        <3>1. delivery = Disposition(wire) /\ user \in UserData
            BY Zenon DEF SentInv
        <3>2. user \in Seq(Byte)
            BY <3>1, DatagramsAssumption, Zenon
        <3>3. PICK w, hl : Sent(w, hl, faults, user, body) /\ Hurt(w, wire, hl)
            BY <2>2, Zenon DEF DamagedInv
        <3> QED
            BY <3>1, <3>2, <3>3, HurtTrusted, Zenon
    <2> QED
        BY <2>1, <2>2, Zenon DEF DamagedInv
<1> QED
    BY <1>1, <1>2, <1>3, SentInvariant, DispositionFollows, PTL DEF Spec

=============================================================================
