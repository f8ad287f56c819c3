----------------------------- MODULE WireProofs -----------------------------
(***************************************************************************)
(* The checksums, for every content.  The checksum accumulator computes    *)
(* the ones' complement sum, so what compute(), fill() and                 *)
(* compute_checksum() store verifies, and a changed word does not; with    *)
(* that, the properties of the datagrams on the wire follow.               *)
(***************************************************************************)
EXTENDS DatagramProofs, Checksum, WellFoundedInduction

\* The accumulator is the total less a multiple of 0xffff, and is zero only with it.
Congruent(s, t) ==
    /\ s \in Nat /\ s <= 65536
    /\ \E k \in Nat : t = s + 65535 * k
    /\ s = 0 <=> t = 0

SumInv == TypeOK /\ Congruent(sum, total)

\* One end-around carry takes 0xffff off for every 0x10000.
LEMMA FoldTakesCarry ==
    ASSUME NEW x \in Nat
    PROVE  /\ x \div 65536 \in Nat
           /\ Fold(x) = x - 65535 * (x \div 65536)
           /\ x < 131072 => x \div 65536 < 2
           /\ x < 65536 => Fold(x) = x
           /\ Fold(x) <= 65535 + (x \div 65536)
<1>1. x = 65536 * (x \div 65536) + (x % 65536)
    BY SMT
<1>2. x % 65536 \in Nat /\ x % 65536 < 65536
    BY SMT
<1>3. x \div 65536 \in Nat
    BY SMT
<1>4. ASSUME NEW q \in Nat, NEW r \in Nat, x = 65536 * q + r
      PROVE  /\ x < 131072 => q < 2
             /\ x < 65536 => q = 0
             /\ r + q = x - 65535 * q
             /\ r < 65536 => r + q <= 65535 + q
    BY <1>4, SMT
<1>5. /\ x < 131072 => x \div 65536 < 2
      /\ x < 65536 => x \div 65536 = 0
      /\ (x % 65536) + (x \div 65536) = x - 65535 * (x \div 65536)
      /\ (x % 65536) + (x \div 65536) <= 65535 + (x \div 65536)
    BY <1>1, <1>2, <1>3, <1>4, SMT
<1> QED
    BY <1>2, <1>3, <1>5, SMT DEF Fold

\* The remainder of a division by 0xffff is the one below it.
LEMMA Remainder ==
    ASSUME NEW k \in Nat, NEW r \in Nat, r < 65535
    PROVE  (65535 * k + r) % 65535 = r
<1> DEFINE y == 65535 * k + r
<1>1. y \in Nat
    BY SMT
<1>2. ASSUME NEW q \in Nat, NEW p \in Nat, p < 65535, 65535 * k + r = 65535 * q + p
      PROVE  p = r
    BY <1>2, SMT
<1> HIDE DEF y
<1>3. y = 65535 * (y \div 65535) + (y % 65535)
    BY <1>1, SMT
<1>4. y % 65535 \in Nat /\ y % 65535 < 65535
    BY <1>1, SMT
<1>5. y \div 65535 \in Nat
    BY <1>1, SMT
<1>6. y = 65535 * k + r
    BY SMT DEF y
<1>7. y % 65535 = r
    BY <1>2, <1>3, <1>4, <1>5, <1>6, SMT
<1> QED
    BY <1>6, <1>7, SMT

\* One add_u16 keeps the accumulator congruent and within 65536.
LEMMA AddKeepsCongruent ==
    ASSUME NEW s \in Nat, NEW t \in Nat, NEW v \in Nat, v <= 65535, Congruent(s, t)
    PROVE  Congruent(AddU16(s, v), t + v)
<1>1. PICK k \in Nat : t = s + 65535 * k
    BY SMT DEF Congruent
<1>2. s <= 65536 /\ (s = 0 <=> t = 0)
    BY SMT DEF Congruent
<1> DEFINE q == (s + v) \div 65536
           a == AddU16(s, v)
<1>3. /\ q \in Nat /\ q < 2 /\ a = s + v - 65535 * q /\ a <= 65535 + q
      /\ s + v < 65536 => a = s + v
    <2>1. s + v \in Nat /\ s + v < 131072
        BY <1>2, SMT
    <2> QED
        BY <2>1, FoldTakesCarry, SMT DEF AddU16
<1> HIDE DEF q, a
<1>4. a \in Nat /\ a <= 65536 /\ (a = 0 <=> s + v = 0)
    <2>1. CASE s + v < 65536
        BY <2>1, <1>3, SMT
    <2>2. CASE s + v >= 65536 /\ q = 1
        BY <2>2, <1>2, <1>3, SMT
    <2>3. CASE s + v >= 65536 /\ q = 0
        BY <2>3, <1>2, <1>3, SMT
    <2> QED
        BY <1>3, <2>1, <2>2, <2>3, SMT
<1>5. k + q \in Nat /\ t + v = a + 65535 * (k + q)
    BY <1>1, <1>3, SMT
<1>6. a = 0 <=> t + v = 0
    BY <1>2, <1>4, SMT
<1> QED
    BY <1>4, <1>5, <1>6, SMT DEF Congruent, a

\* sum() of a congruent accumulator is the ones' complement sum of the total.
LEMMA CongruentSum ==
    ASSUME NEW s \in Nat, NEW t \in Nat, Congruent(s, t)
    PROVE  SumOf(s) = OnesComplementOf(t) /\ SumOf(s) = Fold(s)
<1>1. PICK k \in Nat : t = s + 65535 * k
    BY SMT DEF Congruent
<1>2. s <= 65536 /\ (s = 0 <=> t = 0)
    BY SMT DEF Congruent
<1>3. CASE s = 0
    BY <1>2, <1>3, FoldTakesCarry, SMT DEF SumOf, OnesComplementOf
<1>4. CASE s # 0 /\ s < 65536
    <2>1. Fold(s) = s /\ SumOf(s) = s
        BY <1>4, FoldTakesCarry, SMT DEF SumOf
    <2>2. s - 1 \in Nat /\ s - 1 < 65535 /\ t - 1 = 65535 * k + (s - 1)
        BY <1>1, <1>4, SMT
    <2>3. (t - 1) % 65535 = s - 1
        BY <2>2, Remainder, SMT
    <2> QED
        BY <1>2, <1>4, <2>1, <2>3, SMT DEF OnesComplementOf, U16Max
<1>5. CASE s = 65536
    <2>1. Fold(s) = 1 /\ SumOf(s) = 1
        <3>1. Fold(65536) = 1 /\ Fold(1) = 1
            BY SMT DEF Fold
        <3> QED
            BY <1>5, <3>1, SMT DEF SumOf
    <2>2. k + 1 \in Nat /\ t - 1 = 65535 * (k + 1) + 0
        BY <1>1, <1>5, SMT
    <2>3. (t - 1) % 65535 = 0
        BY <2>2, Remainder, SMT
    <2> QED
        BY <1>2, <1>5, <2>1, <2>3, SMT DEF OnesComplementOf, U16Max
<1> QED
    BY <1>2, <1>3, <1>4, <1>5, SMT

\* The byte slice being added stays a byte sequence, and its words are 16-bit values.
LEMMA SliceWords ==
    ASSUME NEW bs \in Seq(Byte)
    PROVE  /\ Len(bs) >= 2 => /\ Word(bs[1], bs[2]) \in Nat
                              /\ Word(bs[1], bs[2]) <= 65535
                              /\ SubSeq(bs, 3, Len(bs)) \in Seq(Byte)
           /\ Len(bs) = 1 => Word(bs[1], 0) \in Nat /\ Word(bs[1], 0) <= 65535
<1>1. \A hi, lo \in Byte : Word(hi, lo) \in Nat /\ Word(hi, lo) <= 65535
    BY SMT DEF Byte, Word
<1>2. Len(bs) >= 2 => bs[1] \in Byte /\ bs[2] \in Byte
    BY SMT
<1>3. Len(bs) = 1 => bs[1] \in Byte
    BY SMT
<1>4. Len(bs) >= 2 => SubSeq(bs, 3, Len(bs)) \in Seq(Byte)
    BY SMT
<1>5. 0 \in Byte
    BY SMT DEF Byte
<1>6. Len(bs) >= 2 => /\ Word(bs[1], bs[2]) \in Nat
                      /\ Word(bs[1], bs[2]) <= 65535
    <2> HAVE Len(bs) >= 2
    <2>1. PICK hi \in Byte, lo \in Byte : hi = bs[1] /\ lo = bs[2]
        BY <1>2, SMT
    <2>2. Word(hi, lo) \in Nat /\ Word(hi, lo) <= 65535
        BY <1>1, SMT
    <2> QED
        BY <2>1, <2>2, SMT
<1>7. Len(bs) = 1 => Word(bs[1], 0) \in Nat /\ Word(bs[1], 0) <= 65535
    BY <1>1, <1>3, <1>5, SMT
<1> QED
    BY <1>4, <1>6, <1>7, SMT

-----------------------------------------------------------------------------
\* The inductive invariant of the accumulator (Checksum of src/wire/checksum.rs), for all words
\* and slices.
THEOREM SumInvariance == ChecksumSpec => []SumInv
<1>1. ChecksumInit => SumInv
    BY SMT DEF ChecksumInit, SumInv, TypeOK, Congruent
<1>2. SumInv /\ [ChecksumNext]_checksum_vars => SumInv'
    <2> SUFFICES ASSUME SumInv, [ChecksumNext]_checksum_vars PROVE SumInv'
        BY SMT
    <2> USE DEF SumInv, TypeOK
    <2>1. ASSUME NEW v \in Nat, v <= 65535, Add(v), slice' \in Seq(Byte) PROVE SumInv'
        <3>1. Congruent(AddU16(sum, v), total + v)
            BY <2>1, AddKeepsCongruent, SMT
        <3>2. AddU16(sum, v) \in Nat
            BY <3>1, SMT DEF Congruent
        <3>3. TypeOK' /\ sum' = AddU16(sum, v) /\ total' = total + v
            BY <2>1, <3>2, SMT DEF Add
        <3> QED
            BY <3>1, <3>3, Zenon
    <2>2. CASE New
        BY <2>2, SMT DEF New, Congruent
    <2>3. ASSUME NEW v \in Scalars, AddScalar(v) PROVE SumInv'
        <3>1. v \in Nat /\ v <= 65535
            BY WordsAssumption, U16Bounds, SMT
        <3> QED
            BY <2>1, <2>3, <3>1, SMT DEF AddScalar
    <2>4. ASSUME NEW bs \in Slices, AddSlice(bs) PROVE SumInv'
        BY <2>4, WordsAssumption, SMT DEF AddSlice
    <2>5. CASE SliceWord
        BY <2>1, <2>5, SliceWords, SMT DEF SliceWord
    <2>6. CASE SliceLast
        BY <2>1, <2>6, SliceWords, SMT DEF SliceLast
    <2>7. CASE UNCHANGED checksum_vars
        BY <2>7, SMT DEF checksum_vars
    <2> QED
        BY <2>2, <2>3, <2>4, <2>5, <2>6, <2>7, SMTT(30) DEF ChecksumNext
<1> QED
    BY <1>1, <1>2, PTL DEF ChecksumSpec

\* The eagerly folded u32 stays below 2^17 and yields the ones' complement sum of everything
\* added, for every sequence of add_u16 and add_slice calls.
THEOREM SumCorrect == ChecksumSpec => []SumIsOnesComplement
<1>1. SumInv => SumIsOnesComplement
    BY CongruentSum, SMT DEF SumInv, TypeOK, Congruent, SumIsOnesComplement
<1> QED
    BY <1>1, SumInvariance, PTL

\* The value of the reference on a total split by 0xffff, and such a split of every total.
LEMMA OnesComplementIs ==
    ASSUME NEW k \in Nat, NEW r \in Nat, r < 65535
    PROVE  OnesComplementOf(65535 * k + r + 1) = r + 1
<1>1. 65535 * k + r + 1 # 0 /\ (65535 * k + r + 1) - 1 = 65535 * k + r
    BY SMT
<1>2. (65535 * k + r) % 65535 = r
    BY Remainder, SMT
<1> QED
    BY <1>1, <1>2, SMT DEF OnesComplementOf, U16Max

LEMMA SplitTotal ==
    ASSUME NEW t \in Nat, t # 0
    PROVE  \E k, r \in Nat : r < 65535 /\ t = 65535 * k + r + 1
<1> DEFINE y == t - 1
<1>1. y \in Nat /\ t = y + 1
    BY SMT
<1> HIDE DEF y
<1>2. y = 65535 * (y \div 65535) + (y % 65535)
    BY <1>1, SMT
<1>3. y % 65535 \in Nat /\ y % 65535 < 65535
    BY <1>1, SMT
<1>4. y \div 65535 \in Nat
    BY <1>1, SMT
<1> QED
    BY <1>1, <1>2, <1>3, <1>4, SMT

\* Only the multiples of 0xffff sum to 0xffff.
LEMMA AllOnesIsMultiple ==
    ASSUME NEW t \in Nat, OnesComplementOf(t) = U16Max
    PROVE  \E k \in Nat : t = 65535 * k
<1>1. t # 0
    BY SMT DEF OnesComplementOf, U16Max
<1>2. PICK k, r \in Nat : r < 65535 /\ t = 65535 * k + r + 1
    BY <1>1, SplitTotal, SMT
<1>3. r + 1 = 65535
    BY <1>2, OnesComplementIs, SMT DEF U16Max
<1>4. k + 1 \in Nat /\ t = 65535 * (k + 1)
    BY <1>2, <1>3, SMT
<1> QED
    BY <1>4, SMT

-----------------------------------------------------------------------------
\* What compute() stores as OCS and compute_checksum() as UDP checksum is never zero, and the data
\* with it sums to 0xffff, as validate() asks: whatever the data and its length.
THEOREM StoredVerifies ==
    ASSUME NEW t \in Nat
    PROVE  LET stored == NonZero(U16Max - OnesComplementOf(t))
           IN  stored \in U16 \ {0} /\ OnesComplementOf(t + stored) = U16Max
<1> DEFINE stored == NonZero(U16Max - OnesComplementOf(t))
<1>0. \A q \in Nat : OnesComplementOf(65535 * q + 65534 + 1) = 65535
    BY OnesComplementIs, SMT
<1>1. CASE t = 0
    <2>1. stored = 65535 /\ t + stored = 65535 * 0 + 65534 + 1
        BY <1>1, SMT DEF NonZero, OnesComplementOf, U16Max
    <2>2. OnesComplementOf(65535 * 0 + 65534 + 1) = 65535
        BY OnesComplementIs, SMT
    <2> QED
        BY <2>1, <2>2, U16Has, SMT DEF U16Max
<1>2. CASE t # 0
    <2>1. PICK k, r \in Nat : r < 65535 /\ t = 65535 * k + r + 1
        BY <1>2, SplitTotal, SMT
    <2>2. OnesComplementOf(t) = r + 1
        BY <2>1, OnesComplementIs, SMT
    <2>3. CASE r = 65534
        <3>1. stored = 65535
            BY <2>2, <2>3, SMT DEF NonZero, U16Max
        <3>2. PICK q \in Nat : q = k + 1
            BY SMT
        <3>3. t + stored = 65535 * q + 65534 + 1
            BY <2>1, <2>3, <3>1, <3>2, SMT
        <3>4. OnesComplementOf(65535 * q + 65534 + 1) = 65535
            BY <1>0, SMT
        <3> QED
            BY <3>1, <3>3, <3>4, U16Has, SMT DEF U16Max
    <2>4. CASE r # 65534
        <3>1. stored = 65534 - r /\ 65534 - r \in Nat /\ 65534 - r # 0
            BY <2>1, <2>2, <2>4, SMT DEF NonZero, U16Max
        <3>2. t + stored = 65535 * k + 65534 + 1
            BY <2>1, <3>1, SMT
        <3>3. OnesComplementOf(t + stored) = 65535
            BY <3>2, OnesComplementIs, SMT
        <3> QED
            BY <2>1, <3>1, <3>3, U16Has, SMT DEF U16Max
    <2> QED
        BY <2>3, <2>4, SMT
<1> QED
    BY <1>1, <1>2, SMT

\* Of two values of one word, in a sum that verifies, no other verifies too but 0 for 0xffff: any
\* other change of a single word is seen by validate().
THEOREM ChangeDetected ==
    ASSUME NEW t \in Nat, NEW old \in U16, NEW new \in U16,
           OnesComplementOf(t + old) = U16Max, OnesComplementOf(t + new) = U16Max
    PROVE  old = new \/ {old, new} = {0, U16Max}
<1>1. /\ old \in Nat /\ old <= 65535
      /\ new \in Nat /\ new <= 65535
    BY U16Bounds, SMT
<1>2. PICK a \in Nat : t + old = 65535 * a
    BY <1>1, AllOnesIsMultiple, SMT
<1>3. PICK b \in Nat : t + new = 65535 * b
    BY <1>1, AllOnesIsMultiple, SMT
<1>4. old = new \/ (old = 0 /\ new = 65535) \/ (new = 0 /\ old = 65535)
    BY <1>1, <1>2, <1>3, SMT
<1> QED
    BY <1>4, SMT DEF U16Max

-----------------------------------------------------------------------------
(* Sums over words *)

LEMMA WordsAppend ==
    ASSUME NEW ws \in Seq(U16), NEW n \in U16
    PROVE  Append(ws, n) \in Seq(U16) /\ Append(ws, n) = ws \o <<n>>
BY SMT

LEMMA WordsConcat ==
    ASSUME NEW vs \in Seq(U16), NEW ws \in Seq(U16)
    PROVE  vs \o ws \in Seq(U16)
BY SMT

\* A non-empty set of naturals has a least element.
LEMMA LeastNat ==
    ASSUME NEW T \in SUBSET Nat, T # {}
    PROVE  \E m \in T : \A n \in T : m <= n
<1>1. IsWellFoundedOn(OpToRel(<, Nat), Nat)
    BY NatLessThanWellFounded, Zenon
<1>2. PICK m \in T : \A n \in T : ~(<<n, m>> \in OpToRel(<, Nat))
    BY <1>1, WFMin, Zenon
<1>3. ASSUME NEW n \in T PROVE m <= n
    <2>1. ~(n < m)
        BY <1>2, Zenon DEF OpToRel
    <2> QED
        BY <2>1, SMT
<1> QED
    BY <1>3, Zenon

\* What holds of 0 and passes from i - 1 to i holds up to n: the induction the lemmas below use.
LEMMA UpTo ==
    ASSUME NEW n \in Nat, NEW T \in SUBSET Nat, 0 \in T, \A i \in 1 .. n : i - 1 \in T => i \in T
    PROVE  \A i \in 0 .. n : i \in T
<1> DEFINE U == (0 .. n) \ T
<1> SUFFICES ASSUME U # {} PROVE FALSE
    BY Zenon
<1>1. U \in SUBSET Nat
    BY SMT
<1>2. PICK m \in U : \A k \in U : m <= k
    <2> HIDE DEF U
    <2> QED
        BY <1>1, LeastNat, Zenon
<1>3. m \in 1 .. n /\ m - 1 \in 0 .. n /\ ~(m <= m - 1)
    BY SMT
<1>4. m - 1 \in T
    BY <1>2, <1>3, SMT
<1> QED
    BY <1>3, <1>4, SMT

\* The values of a recursion on 0 .. n.
Recurs(f, n, S, base, step) ==
    /\ f \in [0 .. n -> S] /\ f[0] = base
    /\ \A i \in 1 .. n : f[i] = step[i][f[i - 1]]

\* A recursion on 0 .. n has a solution.
LEMMA Recursion ==
    ASSUME NEW n \in Nat, NEW S, NEW base \in S, NEW step \in [1 .. n -> [S -> S]]
    PROVE  \E f : Recurs(f, n, S, base, step)
<1> DEFINE Solves(f, m) == Recurs(f, m, S, base, step)
           T == {m \in Nat : m <= n => \E f : Solves(f, m)}
<1>1. 0 \in T
    <2>1. Solves([i \in 0 .. 0 |-> base], 0)
        BY SMT DEF Recurs
    <2> QED
        BY <2>1, Zenon
<1>2. ASSUME NEW m \in 1 .. n, m - 1 \in T PROVE m \in T
    <2>1. PICK f : Solves(f, m - 1)
        BY <1>2, SMT
    <2> DEFINE g == [i \in 0 .. m |-> IF i = m THEN step[m][f[m - 1]] ELSE f[i]]
    <2>2. f[m - 1] \in S /\ step[m] \in [S -> S]
        BY <2>1, SMT DEF Recurs
    <2>3. step[m][f[m - 1]] \in S
        BY <2>2, SMT
    <2>4. g \in [0 .. m -> S] /\ g[0] = base
        BY <2>1, <2>3, SMT DEF Recurs
    <2>5. ASSUME NEW i \in 1 .. m PROVE g[i] = step[i][g[i - 1]]
        <3>1. i - 1 \in 0 .. m - 1 /\ i - 1 \in 0 .. m /\ i - 1 # m /\ i \in 0 .. m
            BY SMT
        <3>2. g[i - 1] = f[i - 1]
            BY <3>1, SMT
        <3>3. CASE i = m
            BY <3>1, <3>2, <3>3, SMT
        <3>4. CASE i # m
            <4>1. i \in 1 .. m - 1 /\ g[i] = f[i]
                BY <3>1, <3>4, SMT
            <4> QED
                BY <2>1, <3>2, <4>1, Zenon DEF Recurs
        <3> QED
            BY <3>3, <3>4, Zenon
    <2>6. Solves(g, m)
        BY <2>4, <2>5, Zenon DEF Recurs
    <2>7. m \in Nat
        BY SMT
    <2> QED
        BY <2>6, <2>7, Zenon
<1>3. T \in SUBSET Nat
    BY SMT
<1> HIDE DEF T
<1>4. n \in T
    <2>1. \A i \in 0 .. n : i \in T
        BY <1>1, <1>2, <1>3, UpTo, Zenon
    <2> QED
        BY <2>1, SMT
<1> QED
    BY <1>4, SMT DEF T

\* The members of a sequence of 16-bit words.
LEMMA WordOf ==
    ASSUME NEW ws \in Seq(U16)
    PROVE  /\ Len(ws) \in Nat
           /\ \A i \in 1 .. Len(ws) : ws[i] \in U16 /\ ws[i] \in Nat
<1>1. ASSUME NEW i \in 1 .. Len(ws) PROVE ws[i] \in U16
    BY SMT
<1> QED
    BY <1>1, U16Bounds, SMT

\* The two recursions over words.
LEMMA SumsUnfold ==
    ASSUME NEW ws \in Seq(U16)
    PROVE  /\ Sums(ws)[0] = 0
           /\ \A i \in 1 .. Len(ws) : Sums(ws)[i] = AddU16(Sums(ws)[i - 1], ws[i])
<1> DEFINE n == Len(ws)
           step == [i \in 1 .. n |-> [s \in Nat |-> AddU16(s, ws[i])]]
           Solves(g) == g = [i \in 0 .. n |-> IF i = 0 THEN 0 ELSE AddU16(g[i - 1], ws[i])]
<1>1. n \in Nat
    BY WordOf, Zenon
<1>2. \A i \in 1 .. n : ws[i] \in Nat
    BY WordOf, Zenon
<1>3. step \in [1 .. n -> [Nat -> Nat]]
    <2>1. \A s, v \in Nat : AddU16(s, v) \in Nat
        BY FoldTakesCarry, SMT DEF AddU16, Fold
    <2>2. \A i \in 1 .. n : [s \in Nat |-> AddU16(s, ws[i])] \in [Nat -> Nat]
        BY <1>2, <2>1, Zenon
    <2> QED
        BY <2>2, Zenon
<1>4. PICK f : Recurs(f, n, Nat, 0, step)
    <2> HIDE DEF step, n
    <2>1. 0 \in Nat
        BY SMT
    <2> QED
        BY <1>1, <1>3, <2>1, Recursion, Zenon
<1>5. Solves(f)
    <2>1. ASSUME NEW i \in 1 .. n PROVE f[i] = AddU16(f[i - 1], ws[i])
        <3>1. f[i - 1] \in Nat
            BY <1>1, <1>4, SMT DEF Recurs
        <3>2. \A s \in Nat : step[i][s] = AddU16(s, ws[i])
            BY Zenon
        <3>3. f[i] = step[i][f[i - 1]]
            BY <1>4, Zenon DEF Recurs
        <3> QED
            BY <3>1, <3>2, <3>3, Zenon
    <2> QED
        BY <1>1, <1>4, <2>1, SMT DEF Recurs
<1>6. Solves(Sums(ws))
    <2>1. Sums(ws) = CHOOSE g : Solves(g)
        BY Zenon DEF Sums
    <2> QED
        BY <1>5, <2>1, Zenon
<1> HIDE DEF n
<1>7. Sums(ws)[0] = 0 /\ \A i \in 1 .. n : Sums(ws)[i] = AddU16(Sums(ws)[i - 1], ws[i])
    BY <1>1, <1>6, SMT
<1> QED
    BY <1>7, Zenon DEF n

LEMMA TotalsUnfold ==
    ASSUME NEW ws \in Seq(U16)
    PROVE  /\ Totals(ws)[0] = 0
           /\ \A i \in 1 .. Len(ws) : Totals(ws)[i] = Totals(ws)[i - 1] + ws[i]
<1> DEFINE n == Len(ws)
           step == [i \in 1 .. n |-> [s \in Nat |-> s + ws[i]]]
           Solves(g) == g = [i \in 0 .. n |-> IF i = 0 THEN 0 ELSE g[i - 1] + ws[i]]
<1>1. n \in Nat
    BY WordOf, Zenon
<1>2. \A i \in 1 .. n : ws[i] \in Nat
    BY WordOf, Zenon
<1>3. step \in [1 .. n -> [Nat -> Nat]]
    <2>1. \A s, v \in Nat : s + v \in Nat
        BY SMT
    <2>2. \A i \in 1 .. n : [s \in Nat |-> s + ws[i]] \in [Nat -> Nat]
        BY <1>2, <2>1, Zenon
    <2> QED
        BY <2>2, Zenon
<1>4. PICK f : Recurs(f, n, Nat, 0, step)
    <2> HIDE DEF step, n
    <2>1. 0 \in Nat
        BY SMT
    <2> QED
        BY <1>1, <1>3, <2>1, Recursion, Zenon
<1>5. Solves(f)
    <2>1. ASSUME NEW i \in 1 .. n PROVE f[i] = f[i - 1] + ws[i]
        <3>1. f[i - 1] \in Nat
            BY <1>1, <1>4, SMT DEF Recurs
        <3>2. \A s \in Nat : step[i][s] = s + ws[i]
            BY Zenon
        <3>3. f[i] = step[i][f[i - 1]]
            BY <1>4, Zenon DEF Recurs
        <3> QED
            BY <3>1, <3>2, <3>3, Zenon
    <2> QED
        BY <1>1, <1>4, <2>1, SMT DEF Recurs
<1>6. Solves(Totals(ws))
    <2>1. Totals(ws) = CHOOSE g : Solves(g)
        BY Zenon DEF Totals
    <2> QED
        BY <1>5, <2>1, Zenon
<1> HIDE DEF n
<1>7. Totals(ws)[0] = 0 /\ \A i \in 1 .. n : Totals(ws)[i] = Totals(ws)[i - 1] + ws[i]
    BY <1>1, <1>6, SMT
<1> QED
    BY <1>7, Zenon DEF n

\* The accumulator runs along the total, and sum() returns its ones' complement sum.
LEMMA AccumulateSums ==
    ASSUME NEW ws \in Seq(U16)
    PROVE  /\ \A i \in 0 .. Len(ws) : Totals(ws)[i] \in Nat
           /\ Total(ws) \in Nat
           /\ SumOf(Accumulate(ws)) = OnesComplementOf(Total(ws))
<1> DEFINE n == Len(ws)
           T == {i \in Nat : i <= n => /\ Sums(ws)[i] \in Nat /\ Totals(ws)[i] \in Nat
                                      /\ Congruent(Sums(ws)[i], Totals(ws)[i])}
<1>1. n \in Nat /\ T \in SUBSET Nat
    BY WordOf, SMT
<1>2. 0 \in T
    <2>1. Congruent(0, 0)
        BY SMT DEF Congruent
    <2>2. Sums(ws)[0] = 0 /\ Totals(ws)[0] = 0
        BY SumsUnfold, TotalsUnfold, Zenon
    <2> QED
        BY <2>1, <2>2, SMT
<1>3. ASSUME NEW i \in 1 .. n, i - 1 \in T PROVE i \in T
    <2>1. /\ Sums(ws)[i - 1] \in Nat /\ Totals(ws)[i - 1] \in Nat
          /\ Congruent(Sums(ws)[i - 1], Totals(ws)[i - 1])
        BY <1>1, <1>3, SMT
    <2>2. ws[i] \in Nat /\ ws[i] <= 65535
        BY WordOf, U16Bounds, SMT
    <2>3. /\ Sums(ws)[i] = AddU16(Sums(ws)[i - 1], ws[i])
          /\ Totals(ws)[i] = Totals(ws)[i - 1] + ws[i]
        BY SumsUnfold, TotalsUnfold, Zenon
    <2>4. Congruent(Sums(ws)[i], Totals(ws)[i])
        BY <2>1, <2>2, <2>3, AddKeepsCongruent, SMT
    <2>5. Sums(ws)[i] \in Nat /\ Totals(ws)[i] \in Nat
        <3>1. Totals(ws)[i] \in Nat
            BY <2>1, <2>2, <2>3, SMT
        <3> QED
            BY <2>4, <3>1, SMT DEF Congruent
    <2>6. i \in Nat
        BY SMT
    <2> QED
        BY <2>4, <2>5, <2>6, Zenon
<1> HIDE DEF T
<1>4. \A i \in 0 .. n : i \in T
    BY <1>1, <1>2, <1>3, UpTo, Zenon
<1>5. \A i \in 0 .. n : /\ Sums(ws)[i] \in Nat /\ Totals(ws)[i] \in Nat
                         /\ Congruent(Sums(ws)[i], Totals(ws)[i])
    BY <1>4, SMT DEF T
<1>6. n \in 0 .. n
    BY <1>1, SMT
<1>7. SumOf(Sums(ws)[n]) = OnesComplementOf(Totals(ws)[n])
    BY <1>5, <1>6, CongruentSum, Zenon
<1> QED
    BY <1>5, <1>6, <1>7, Zenon DEF Accumulate, Total

LEMMA AddToBoth ==
    ASSUME NEW a \in Nat, NEW b \in Nat, NEW c \in Nat, NEW x \in Nat, NEW y \in Nat, a + x = b + y
    PROVE  (a + c) + x = (b + c) + y
BY SMT

\* Words that differ in one place have totals that differ by as much.
LEMMA TotalsDiffer ==
    ASSUME NEW vs \in Seq(U16), NEW ws \in Seq(U16), Len(vs) = Len(ws), NEW k \in 1 .. Len(ws),
           \A i \in 1 .. Len(ws) : i # k => vs[i] = ws[i]
    PROVE  Total(vs) + ws[k] = Total(ws) + vs[k]
<1> DEFINE n == Len(ws)
           T == {i \in Nat : i <= n =>
                    IF i < k THEN Totals(vs)[i] = Totals(ws)[i]
                    ELSE Totals(vs)[i] + ws[k] = Totals(ws)[i] + vs[k]}
<1>1. n \in Nat /\ T \in SUBSET Nat /\ k \in Nat /\ k # 0 /\ k <= n
    BY WordOf, SMT
<1>2. 0 \in T
    <2>1. Totals(vs)[0] = Totals(ws)[0]
        BY TotalsUnfold, Zenon
    <2> QED
        BY <1>1, <2>1, SMT
<1>3. ASSUME NEW i \in 1 .. n, i - 1 \in T PROVE i \in T
    <2>1. i - 1 \in 0 .. n /\ i \in Nat /\ n = Len(vs)
        BY <1>1, SMT
    <2>2. Totals(vs)[i - 1] \in Nat /\ Totals(ws)[i - 1] \in Nat
        BY <2>1, AccumulateSums, Zenon
    <2>3. /\ Totals(vs)[i] = Totals(vs)[i - 1] + vs[i]
          /\ Totals(ws)[i] = Totals(ws)[i - 1] + ws[i]
        BY <2>1, TotalsUnfold, Zenon
    <2>4. vs[i] \in Nat /\ ws[i] \in Nat /\ vs[k] \in Nat /\ ws[k] \in Nat
        BY <2>1, WordOf, Zenon
    <2>5. IF i - 1 < k THEN Totals(vs)[i - 1] = Totals(ws)[i - 1]
          ELSE Totals(vs)[i - 1] + ws[k] = Totals(ws)[i - 1] + vs[k]
        BY <1>3, <2>1, SMT
    <2>6. IF i < k THEN Totals(vs)[i] = Totals(ws)[i]
          ELSE Totals(vs)[i] + ws[k] = Totals(ws)[i] + vs[k]
        <3>1. CASE i = k
            BY <1>1, <2>2, <2>3, <2>4, <2>5, <3>1, SMTT(30)
        <3>2. CASE i # k
            <4>1. vs[i] = ws[i]
                BY <3>2
            <4>2. CASE i < k
                BY <1>1, <2>1, <2>2, <2>3, <2>4, <2>5, <4>1, <4>2, SMTT(30)
            <4>3. CASE ~(i < k)
                <5>1. ~(i - 1 < k)
                    BY <1>1, <2>1, <3>2, <4>3, SMTT(30)
                <5>2. Totals(vs)[i - 1] + ws[k] = Totals(ws)[i - 1] + vs[k]
                    BY <2>5, <5>1, Zenon
                <5>3. PICK a, b, c, x, y \in Nat : /\ a = Totals(vs)[i - 1] /\ b = Totals(ws)[i - 1]
                                                   /\ c = ws[i] /\ x = ws[k] /\ y = vs[k]
                    BY <2>2, <2>4, Zenon
                <5>4. Totals(vs)[i] + ws[k] = Totals(ws)[i] + vs[k]
                    <6>1. /\ Totals(vs)[i] = a + c /\ Totals(ws)[i] = b + c
                          /\ ws[k] = x /\ vs[k] = y /\ a + x = b + y
                        BY <2>3, <4>1, <5>2, <5>3, Zenon
                    <6>2. (a + c) + x = (b + c) + y
                        BY ONLY <6>1, a \in Nat, b \in Nat, c \in Nat, x \in Nat, y \in Nat, AddToBoth, SMTT(30)
                    <6> QED
                        BY <6>1, <6>2, Zenon
                <5> QED
                    BY <4>3, <5>4, Zenon
            <4> QED
                BY <4>2, <4>3
        <3> QED
            BY <3>1, <3>2, Zenon
    <2> QED
        BY <2>1, <2>6, Zenon
<1> HIDE DEF T
<1>4. n \in T
    <2>1. \A i \in 0 .. n : i \in T
        BY <1>1, <1>2, <1>3, UpTo, Zenon
    <2> QED
        BY <1>1, <2>1, SMT
<1> QED
    BY <1>1, <1>4, SMT DEF T, Total

\* add_slice cuts a slice into 16-bit words, a byte and its neighbour.
LEMMA WordsIs ==
    ASSUME NEW b \in Seq(Byte)
    PROVE  /\ Words(b) \in Seq(U16)
           /\ Len(Words(b)) = (Len(b) + 1) \div 2
           /\ \A i \in 1 .. Len(Words(b)) :
                  Words(b)[i] = Word(b[2 * i - 1], IF 2 * i <= Len(b) THEN b[2 * i] ELSE 0)
<1> DEFINE n == (Len(b) + 1) \div 2
           w(i) == Word(b[2 * i - 1], IF 2 * i <= Len(b) THEN b[2 * i] ELSE 0)
<1>1. n \in Nat /\ 2 * n <= Len(b) + 1
    <2>1. PICK l \in Nat : l = Len(b) + 1
        BY SMT
    <2>2. l \div 2 \in Nat /\ 2 * (l \div 2) <= l
        BY SMT
    <2> QED
        BY <2>1, <2>2, Zenon
<1>2. ASSUME NEW i \in 1 .. n PROVE w(i) \in U16
    <2> HIDE DEF n
    <2>1. 2 * i - 1 \in 1 .. Len(b) /\ (2 * i <= Len(b) => 2 * i \in 1 .. Len(b))
        BY <1>1, SMT
    <2>2. PICK hi \in Byte : hi = b[2 * i - 1]
        BY <2>1, SMT
    <2>3. 2 * i <= Len(b) => b[2 * i] \in Byte
        BY <2>1, SMT
    <2>4. 0 \in Byte
        BY SMT DEF Byte
    <2>5. PICK lo \in Byte : lo = IF 2 * i <= Len(b) THEN b[2 * i] ELSE 0
        BY <2>3, <2>4, Zenon
    <2>6. w(i) = Word(hi, lo)
        BY <2>2, <2>5, Zenon
    <2>7. Word(hi, lo) \in U16
        BY WordIs, Zenon
    <2> QED
        BY <2>6, <2>7, Zenon
<1> HIDE DEF n, w
<1>3. /\ [i \in 1 .. n |-> w(i)] \in Seq(U16)
      /\ Len([i \in 1 .. n |-> w(i)]) = n
    BY <1>1, <1>2, SMT
<1>4. Words(b) = [i \in 1 .. n |-> w(i)]
    BY Zenon DEF Words, n, w
<1>5. \A i \in 1 .. n : Words(b)[i] = w(i)
    BY <1>4, Zenon
<1>6. Words(b) \in Seq(U16) /\ Len(Words(b)) = n
    BY <1>3, <1>4, Zenon
<1> QED
    BY <1>5, <1>6, Zenon DEF n, w

-----------------------------------------------------------------------------
(* What a changed word does to a sum *)

\* The words vs and ws are the same but for one, x in vs and y in ws.
Replaces(vs, ws, x, y) ==
    /\ vs \in Seq(U16) /\ ws \in Seq(U16) /\ Len(vs) = Len(ws)
    /\ \E k \in 1 .. Len(ws) :
           /\ vs[k] = x /\ ws[k] = y
           /\ \A i \in 1 .. Len(ws) : i # k => vs[i] = ws[i]

LEMMA ReplacesTotal ==
    ASSUME NEW vs, NEW ws, NEW x, NEW y, Replaces(vs, ws, x, y)
    PROVE  /\ x \in U16 /\ y \in U16
           /\ Total(vs) \in Nat /\ Total(ws) \in Nat
           /\ Total(vs) + y = Total(ws) + x
<1>1. vs \in Seq(U16) /\ ws \in Seq(U16) /\ Len(vs) = Len(ws)
    BY Zenon DEF Replaces
<1>2. PICK k \in 1 .. Len(ws) : /\ vs[k] = x /\ ws[k] = y
                                /\ \A i \in 1 .. Len(ws) : i # k => vs[i] = ws[i]
    BY Zenon DEF Replaces
<1>3. Total(vs) + ws[k] = Total(ws) + vs[k]
    BY <1>1, <1>2, TotalsDiffer, Zenon
<1> QED
    BY <1>1, <1>2, <1>3, WordOf, AccumulateSums, Zenon

LEMMA ReplacesConcat ==
    ASSUME NEW vs, NEW ws, NEW x, NEW y, Replaces(vs, ws, x, y), NEW ps \in Seq(U16)
    PROVE  /\ Replaces(ps \o vs, ps \o ws, x, y)
           /\ Replaces(vs \o ps, ws \o ps, x, y)
<1>1. vs \in Seq(U16) /\ ws \in Seq(U16) /\ Len(vs) = Len(ws)
    BY Zenon DEF Replaces
<1>2. PICK k \in 1 .. Len(ws) : /\ vs[k] = x /\ ws[k] = y
                                /\ \A i \in 1 .. Len(ws) : i # k => vs[i] = ws[i]
    BY Zenon DEF Replaces
<1>3. /\ ps \o vs \in Seq(U16) /\ ps \o ws \in Seq(U16)
      /\ vs \o ps \in Seq(U16) /\ ws \o ps \in Seq(U16)
      /\ Len(ps \o vs) = Len(ps \o ws) /\ Len(vs \o ps) = Len(ws \o ps)
    BY <1>1, SMT
<1>4. /\ Len(ps) + k \in 1 .. Len(ps \o ws)
      /\ (ps \o vs)[Len(ps) + k] = x /\ (ps \o ws)[Len(ps) + k] = y
    BY <1>1, <1>2, SMT
<1>5. ASSUME NEW i \in 1 .. Len(ps \o ws), i # Len(ps) + k PROVE (ps \o vs)[i] = (ps \o ws)[i]
    <2>1. CASE i <= Len(ps)
        BY <1>1, <2>1, SMT
    <2>2. CASE i > Len(ps)
        <3>1. i - Len(ps) \in 1 .. Len(ws) /\ i - Len(ps) # k
            BY <1>1, <1>5, <2>2, SMT
        <3>2. vs[i - Len(ps)] = ws[i - Len(ps)]
            BY <1>2, <3>1, Zenon
        <3> QED
            BY <1>1, <2>2, <3>2, SMT
    <2> QED
        BY <1>1, <2>1, <2>2, SMT
<1>6. k \in 1 .. Len(ws \o ps) /\ (vs \o ps)[k] = x /\ (ws \o ps)[k] = y
    BY <1>1, <1>2, SMT
<1>7. ASSUME NEW i \in 1 .. Len(ws \o ps), i # k PROVE (vs \o ps)[i] = (ws \o ps)[i]
    <2>1. CASE i <= Len(ws)
        <3>1. vs[i] = ws[i]
            BY <1>1, <1>2, <1>7, <2>1, SMT
        <3> QED
            BY <1>1, <2>1, <3>1, SMT
    <2>2. CASE i > Len(ws)
        BY <1>1, <2>2, SMT
    <2> QED
        BY <1>1, <2>1, <2>2, SMT
<1>8. Replaces(ps \o vs, ps \o ws, x, y)
    BY <1>3, <1>4, <1>5, Zenon DEF Replaces
<1>9. Replaces(vs \o ps, ws \o ps, x, y)
    BY <1>3, <1>6, <1>7, Zenon DEF Replaces
<1> QED
    BY <1>8, <1>9, Zenon

\* Bytes that are the same but for those of one word
LEMMA ReplacesWords ==
    ASSUME NEW b \in Seq(Byte), NEW c \in Seq(Byte), Len(b) = Len(c), NEW k \in 1 .. Len(Words(b)),
           \A i \in 1 .. Len(b) : i # 2 * k - 1 /\ i # 2 * k => b[i] = c[i]
    PROVE  Replaces(Words(b), Words(c), Words(b)[k], Words(c)[k])
<1>1. /\ Words(b) \in Seq(U16) /\ Words(c) \in Seq(U16) /\ Len(Words(b)) = Len(Words(c))
      /\ Len(Words(b)) = (Len(b) + 1) \div 2
      /\ \A i \in 1 .. Len(Words(b)) :
             /\ Words(b)[i] = Word(b[2 * i - 1], IF 2 * i <= Len(b) THEN b[2 * i] ELSE 0)
             /\ Words(c)[i] = Word(c[2 * i - 1], IF 2 * i <= Len(b) THEN c[2 * i] ELSE 0)
    BY WordsIs, Zenon
<1>2. PICK n \in Nat : n = Len(Words(b)) /\ 2 * n <= Len(b) + 1
    <2>1. PICK l \in Nat : l = Len(b) + 1
        BY SMT
    <2>2. l \div 2 \in Nat /\ 2 * (l \div 2) <= l
        BY SMT
    <2> QED
        BY <1>1, <2>1, <2>2, Zenon
<1>3. ASSUME NEW i \in 1 .. Len(Words(c)), i # k PROVE Words(b)[i] = Words(c)[i]
    <2>1. i \in 1 .. n /\ k \in 1 .. n
        BY <1>1, <1>2, <1>3, Zenon
    <2>2. /\ 2 * i - 1 \in 1 .. Len(b) /\ 2 * i - 1 # 2 * k - 1 /\ 2 * i - 1 # 2 * k
          /\ 2 * i # 2 * k - 1 /\ 2 * i # 2 * k
          /\ 2 * i <= Len(b) => 2 * i \in 1 .. Len(b)
        BY <1>2, <1>3, <2>1, SMT
    <2>3. b[2 * i - 1] = c[2 * i - 1] /\ (2 * i <= Len(b) => b[2 * i] = c[2 * i])
        BY <2>2, Zenon
    <2> QED
        BY <1>1, <1>2, <2>1, <2>3, Zenon
<1>4. k \in 1 .. Len(Words(c))
    BY <1>1, Zenon
<1> QED
    BY <1>1, <1>3, <1>4, Zenon DEF Replaces

\* One changed byte changes one word, and not from 0 to 0xffff or back.
LEMMA ByteReplaces ==
    ASSUME NEW b \in Seq(Byte), NEW c \in Seq(Byte), Len(b) = Len(c), NEW j \in 1 .. Len(b),
           b[j] # c[j], \A i \in 1 .. Len(b) : i # j => b[i] = c[i]
    PROVE  \E x, y \in U16 : Apart(x, y) /\ Replaces(Words(b), Words(c), x, y)
<1>1. /\ Words(b) \in Seq(U16) /\ Words(c) \in Seq(U16) /\ Len(Words(b)) = Len(Words(c))
      /\ Len(Words(b)) = (Len(b) + 1) \div 2
      /\ \A i \in 1 .. Len(Words(b)) :
             /\ Words(b)[i] = Word(b[2 * i - 1], IF 2 * i <= Len(b) THEN b[2 * i] ELSE 0)
             /\ Words(c)[i] = Word(c[2 * i - 1], IF 2 * i <= Len(b) THEN c[2 * i] ELSE 0)
    BY WordsIs, Zenon
<1>2. PICK k \in 1 .. Len(Words(b)) : j = 2 * k - 1 \/ j = 2 * k
    <2>1. PICK l \in Nat : l = Len(b) + 1
        BY SMT
    <2>2. l \div 2 \in Nat /\ l <= 2 * (l \div 2) + 1
        BY SMT
    <2>3. PICK n \in Nat : n = Len(Words(b)) /\ Len(b) <= 2 * n
        BY <1>1, <2>1, <2>2, SMT
    <2>4. (j + 1) \div 2 \in Nat /\ (j = 2 * ((j + 1) \div 2) - 1 \/ j = 2 * ((j + 1) \div 2))
        BY SMT
    <2>5. PICK k \in Nat : j = 2 * k - 1 \/ j = 2 * k
        BY <2>4, Zenon
    <2>6. k \in 1 .. n
        BY <2>3, <2>5, SMT
    <2> QED
        BY <2>3, <2>5, <2>6, Zenon
<1>3. Replaces(Words(b), Words(c), Words(b)[k], Words(c)[k])
    BY <1>2, ReplacesWords, Zenon
<1>4. PICK n \in Nat : n = Len(Words(b)) /\ 2 * n <= Len(b) + 1
    <2>1. PICK l \in Nat : l = Len(b) + 1
        BY SMT
    <2>2. l \div 2 \in Nat /\ 2 * (l \div 2) <= l
        BY SMT
    <2> QED
        BY <1>1, <2>1, <2>2, Zenon
<1>5. 2 * k - 1 \in 1 .. Len(b) /\ (2 * k <= Len(b) => 2 * k \in 1 .. Len(b)) /\ 2 * k - 1 # 2 * k
    BY <1>4, SMT
<1>6. 0 \in Byte
    BY SMT DEF Byte
<1>7. PICK p, q, r, s \in Byte :
          /\ p = b[2 * k - 1] /\ q = IF 2 * k <= Len(b) THEN b[2 * k] ELSE 0
          /\ r = c[2 * k - 1] /\ s = IF 2 * k <= Len(b) THEN c[2 * k] ELSE 0
    <2>1. b[2 * k - 1] \in Byte /\ c[2 * k - 1] \in Byte
        BY <1>5, SMT
    <2>2. 2 * k <= Len(b) => b[2 * k] \in Byte /\ c[2 * k] \in Byte
        BY <1>5, SMT
    <2> QED
        BY <1>6, <2>1, <2>2, Zenon
<1>8. Words(b)[k] = Word(p, q) /\ Words(c)[k] = Word(r, s)
    BY <1>1, <1>7, Zenon
<1>9. (p # r /\ q = s) \/ (p = r /\ q # s)
    <2>1. CASE j = 2 * k - 1
        <3>1. p # r
            BY <1>7, <2>1, Zenon
        <3>2. 2 * k <= Len(b) => b[2 * k] = c[2 * k]
            BY <1>5, <2>1, Zenon
        <3> QED
            BY <1>7, <3>1, <3>2, Zenon
    <2>2. CASE j = 2 * k
        <3>1. 2 * k <= Len(b)
            BY <2>2, SMT
        <3>2. q # s
            BY <1>7, <2>2, <3>1, Zenon
        <3>3. b[2 * k - 1] = c[2 * k - 1]
            BY <1>5, <2>2, Zenon
        <3> QED
            BY <1>7, <3>2, <3>3, Zenon
    <2> QED
        BY <1>2, <2>1, <2>2, Zenon
<1>10. Apart(Word(p, q), Word(r, s))
    BY <1>9, WordApart, Zenon
<1>11. Word(p, q) \in U16 /\ Word(r, s) \in U16
    BY WordIs, Zenon
<1> QED
    BY <1>3, <1>8, <1>10, <1>11, Zenon

\* The ones' complement sum is a u16.
LEMMA OnesComplementType ==
    ASSUME NEW t \in Nat
    PROVE  /\ OnesComplementOf(t) \in U16 /\ U16Max - OnesComplementOf(t) \in U16
           /\ NonZero(U16Max - OnesComplementOf(t)) \in U16
           /\ NonZero(U16Max - OnesComplementOf(t)) # 0
<1>1. OnesComplementOf(t) \in Nat /\ OnesComplementOf(t) <= 65535
    <2>1. CASE t = 0
        BY <2>1, SMT DEF OnesComplementOf
    <2>2. CASE t # 0
        <3>1. PICK k, r \in Nat : r < 65535 /\ t = 65535 * k + r + 1
            BY <2>2, SplitTotal, SMT
        <3>2. OnesComplementOf(t) = r + 1
            BY <3>1, OnesComplementIs, SMT
        <3> QED
            BY <3>1, <3>2, SMTT(30)
    <2> QED
        BY <2>1, <2>2, SMT
<1>2. 65535 - OnesComplementOf(t) \in U16
    BY <1>1, U16Has, SMT
<1>3. OnesComplementOf(t) \in U16
    BY <1>1, U16Has, SMT
<1>4. 65535 \in U16
    BY U16Has, SMT
<1>5. U16Max = 65535
    BY SMT DEF U16Max
<1> QED
    BY <1>1, <1>2, <1>3, <1>4, <1>5, SMTT(30) DEF NonZero

\* A header with its checksum sums to 0xffff, if there is anything in it.
LEMMA HeaderVerifies ==
    ASSUME NEW t \in Nat, t # 0
    PROVE  OnesComplementOf(t + (U16Max - OnesComplementOf(t))) = U16Max
<1>1. PICK k, r \in Nat : r < 65535 /\ t = 65535 * k + r + 1
    BY SplitTotal, SMT
<1>2. OnesComplementOf(t) = r + 1
    BY <1>1, OnesComplementIs, SMT
<1>3. t + (65535 - (r + 1)) = 65535 * k + 65534 + 1
    BY <1>1, SMT
<1>4. OnesComplementOf(65535 * k + 65534 + 1) = 65535
    BY OnesComplementIs, SMT
<1> QED
    BY <1>2, <1>3, <1>4, SMT DEF U16Max

\* The multiples of 0xffff, which a ones' complement sum does not see.
Multiple(a) == \E k \in Nat : a = 65535 * k

\* Sums that differ in one word with a changed byte: not both verify, and they are stored as
\* different checksums.
LEMMA ApartDetected ==
    ASSUME NEW t \in Nat, NEW u \in Nat, NEW x \in U16, NEW y \in U16, Apart(x, y), t + y = u + x
    PROVE  /\ ~(OnesComplementOf(t) = U16Max /\ OnesComplementOf(u) = U16Max)
           /\ NonZero(U16Max - OnesComplementOf(t)) # NonZero(U16Max - OnesComplementOf(u))
<1>1. x \in Nat /\ x <= 65535 /\ y \in Nat /\ y <= 65535
    BY U16Bounds, SMT
<1>2. ASSUME NEW a \in Nat, NEW b \in Nat, t + a = u + b, Multiple(a), Multiple(b) PROVE FALSE
    <2>0. \A c : Multiple(c) => \E k \in Nat : c = 65535 * k
        BY ONLY SMT DEF Multiple
    <2>1. PICK k \in Nat : a = 65535 * k
        BY <1>2, <2>0, SMT
    <2>2. PICK l \in Nat : b = 65535 * l
        BY <1>2, <2>0, SMT
    <2>3. x + 65535 * k = y + 65535 * l
        BY <1>1, <1>2, <2>1, <2>2, SMTT(30)
    <2>4. x = y \/ (x = 0 /\ y = 65535) \/ (x = 65535 /\ y = 0)
        BY <1>1, <2>3, SMT
    <2> QED
        BY <2>4, SMT DEF Apart, U16Max
<1>2a. \A k \in Nat : \E a \in Nat : a = 65535 * k /\ Multiple(a)
    BY SMT DEF Multiple
<1>3. ~(OnesComplementOf(t) = U16Max /\ OnesComplementOf(u) = U16Max)
    <2> SUFFICES ASSUME OnesComplementOf(t) = U16Max, OnesComplementOf(u) = U16Max PROVE FALSE
        BY Zenon
    <2>1. PICK k \in Nat : t = 65535 * k
        BY AllOnesIsMultiple, SMT
    <2>2. PICK l \in Nat : u = 65535 * l
        BY AllOnesIsMultiple, SMT
    <2>3. PICK a \in Nat, b \in Nat : (a = 65535 * l /\ Multiple(a)) /\ (b = 65535 * k /\ Multiple(b))
        BY <1>2a, SMT
    <2>4. t + a = u + b /\ Multiple(a) /\ Multiple(b)
        BY <2>1, <2>2, <2>3, SMT
    <2> QED
        BY <1>2, <2>4, Zenon
<1>4. ASSUME NEW p \in Nat, p # 0
      PROVE  \E k \in Nat : p = 65535 * k + OnesComplementOf(p)
    <2>1. PICK k, r \in Nat : r < 65535 /\ p = 65535 * k + r + 1
        BY <1>4, SplitTotal, SMT
    <2>2. OnesComplementOf(p) = r + 1
        BY <2>1, OnesComplementIs, SMT
    <2> QED
        BY <2>1, <2>2, SMT
<1>5. ASSUME NonZero(U16Max - OnesComplementOf(t)) = NonZero(U16Max - OnesComplementOf(u))
      PROVE  FALSE
    <2>1. /\ OnesComplementOf(t) \in Nat /\ OnesComplementOf(t) <= 65535
          /\ OnesComplementOf(u) \in Nat /\ OnesComplementOf(u) <= 65535
        BY OnesComplementType, U16Bounds, SMT
    <2>2. \/ OnesComplementOf(t) = OnesComplementOf(u)
          \/ OnesComplementOf(t) = 0 /\ OnesComplementOf(u) = 65535
          \/ OnesComplementOf(t) = 65535 /\ OnesComplementOf(u) = 0
        BY <1>5, <2>1, SMT DEF NonZero, U16Max
    <2>3. PICK k \in Nat : t = 65535 * k + OnesComplementOf(t)
        <3>1. CASE t = 0
            BY <3>1, SMT DEF OnesComplementOf
        <3> QED
            BY <1>4, <3>1, SMT
    <2>4. PICK l \in Nat : u = 65535 * l + OnesComplementOf(u)
        <3>1. CASE u = 0
            BY <3>1, SMT DEF OnesComplementOf
        <3> QED
            BY <1>4, <3>1, SMT
    <2>5. PICK a \in Nat, b \in Nat : (a = 65535 * l /\ Multiple(a)) /\ (b = 65535 * k /\ Multiple(b))
        BY <1>2a, SMT
    <2>6. PICK c \in Nat, d \in Nat : /\ c = 65535 * (l + 1) /\ Multiple(c)
                                      /\ d = 65535 * (k + 1) /\ Multiple(d)
        <3>1. PICK e \in Nat, f \in Nat : e = l + 1 /\ f = k + 1
            BY SMT
        <3>2. PICK c \in Nat : c = 65535 * e /\ Multiple(c)
            BY <1>2a, SMT
        <3>3. PICK d \in Nat : d = 65535 * f /\ Multiple(d)
            BY <1>2a, SMT
        <3> QED
            BY <3>1, <3>2, <3>3, SMT
    <2>7. /\ Multiple(a) /\ Multiple(b) /\ Multiple(c) /\ Multiple(d)
          /\ t + a = u + b \/ t + c = u + b \/ t + a = u + d
        BY <2>1, <2>2, <2>3, <2>4, <2>5, <2>6, SMTT(30)
    <2> QED
        BY <1>2, <2>7, Zenon
<1> QED
    BY <1>3, <1>5, SMT

-----------------------------------------------------------------------------
(* The three checksums of a datagram *)

LEMMA FinishIs ==
    ASSUME NEW ws \in Seq(U16)
    PROVE  /\ Finish(Accumulate(ws)) = U16Max - OnesComplementOf(Total(ws))
           /\ Finish(Accumulate(ws)) \in U16
           /\ NonZero(Finish(Accumulate(ws))) \in U16 /\ NonZero(Finish(Accumulate(ws))) # 0
           /\ Finish(Accumulate(ws)) = 0 <=> OnesComplementOf(Total(ws)) = U16Max
<1>1. Total(ws) \in Nat /\ SumOf(Accumulate(ws)) = OnesComplementOf(Total(ws))
    BY AccumulateSums, Zenon
<1>2. Finish(Accumulate(ws)) = U16Max - OnesComplementOf(Total(ws))
    BY <1>1, Zenon DEF Finish
<1>3. OnesComplementOf(Total(ws)) \in Nat /\ U16Max \in Nat
    BY <1>1, OnesComplementType, U16Bounds, SMT DEF U16Max
<1>4. U16Max - OnesComplementOf(Total(ws)) = 0 <=> OnesComplementOf(Total(ws)) = U16Max
    BY <1>3, SMT
<1> QED
    BY <1>1, <1>2, <1>4, OnesComplementType, Zenon

\* IpRepr::write and IpRepr::parse: a header with its checksum back-patched verifies.
LEMMA HeaderChecksum ==
    ASSUME NEW z \in Seq(Byte), Len(z) >= 12, z[1] # 0, z[11] = 0, z[12] = 0,
           NEW h, h = Patch(z, 10, U16Bytes(InternetChecksum(z)))
    PROVE  /\ h \in Seq(Byte) /\ Len(h) = Len(z)
           /\ \A i \in 1 .. Len(z) : i # 11 /\ i # 12 => h[i] = z[i]
           /\ InternetChecksum(h) = 0
<1> DEFINE zs == Words(z)
           c == InternetChecksum(z)
           f == U16Bytes(c)
<1>1. zs \in Seq(U16) /\ c = Finish(Accumulate(zs)) /\ c \in U16
    BY WordsIs, FinishIs, Zenon DEF InternetChecksum
<1>2. /\ f \in Seq(Byte) /\ Len(f) = 2 /\ f[1] \in Byte /\ f[2] \in Byte
      /\ Word(f[1], f[2]) = c
    BY <1>1, U16BytesIs, Zenon
<1> HIDE DEF f, c, zs
<1>3. h = Patch(z, 10, f)
    BY Zenon DEF f, c
<1>4. PICK at \in Nat : at = 10 /\ at + 1 = 11 /\ at + 2 = 12 /\ at + 2 <= Len(z)
    BY SMT
<1>5. /\ h \in Seq(Byte) /\ Len(h) = Len(z)
      /\ h[at + 1] = f[1] /\ h[at + 2] = f[2]
      /\ \A i \in 1 .. Len(z) : i # at + 1 /\ i # at + 2 => h[i] = z[i]
    <2>1. at + 2 <= Len(z) /\ h = Patch(z, at, f)
        BY <1>3, <1>4, Zenon
    <2>2. LET g == Patch(z, at, f)
          IN  /\ g \in Seq(Byte) /\ Len(g) = Len(z)
              /\ g[at + 1] = f[1] /\ g[at + 2] = f[2]
              /\ \A i \in 1 .. Len(z) : i # at + 1 /\ i # at + 2 => g[i] = z[i]
        BY <1>2, <2>1, FieldPatchIs, Zenon
    <2> QED
        BY <2>1, <2>2, Zenon
<1>6. h[11] = f[1] /\ h[12] = f[2]
    BY <1>4, <1>5, Zenon
<1>7. \A i \in 1 .. Len(z) : i # 11 /\ i # 12 => h[i] = z[i]
    BY <1>4, <1>5, Zenon
<1>8. /\ Words(h) \in Seq(U16) /\ 6 \in 1 .. Len(Words(h)) /\ 1 \in 1 .. Len(zs)
      /\ Words(h)[6] = c /\ zs[6] = 0 /\ zs[1] # 0
    <2>1. /\ Len(zs) = (Len(z) + 1) \div 2 /\ Len(Words(h)) = (Len(z) + 1) \div 2
          /\ Words(h) \in Seq(U16)
        BY <1>5, WordsIs, Zenon DEF zs
    <2>2. 6 \in 1 .. Len(zs) /\ 6 \in 1 .. Len(Words(h)) /\ 1 \in 1 .. Len(zs)
        BY <2>1, SMT
    <2>3. /\ Words(h)[6] = Word(h[2 * 6 - 1], IF 2 * 6 <= Len(h) THEN h[2 * 6] ELSE 0)
          /\ zs[6] = Word(z[2 * 6 - 1], IF 2 * 6 <= Len(z) THEN z[2 * 6] ELSE 0)
          /\ zs[1] = Word(z[2 * 1 - 1], IF 2 * 1 <= Len(z) THEN z[2 * 1] ELSE 0)
        BY <1>5, <2>2, WordsIs, Zenon DEF zs
    <2>4. /\ 2 * 6 = 12 /\ 2 * 6 - 1 = 11 /\ 2 * 1 - 1 = 1 /\ 2 * 1 = 2
          /\ 12 <= Len(z) /\ 12 <= Len(h) /\ 2 <= Len(z)
        BY <1>5, SMT
    <2>5. Words(h)[6] = Word(h[11], h[12]) /\ zs[6] = Word(z[11], z[12]) /\ zs[1] = Word(z[1], z[2])
        BY <2>3, <2>4
    <2>6. z[1] \in Byte /\ z[2] \in Byte
        BY <2>4, SMT
    <2>7. 0 \in Byte
        BY SMT DEF Byte
    <2>8. Word(z[1], z[2]) # 0
        BY <2>6, WordIs, Zenon
    <2>9. Word(0, 0) = 0
        BY <2>7, WordIs, Zenon
    <2> QED
        BY <1>2, <1>6, <2>1, <2>2, <2>5, <2>8, <2>9, Zenon
<1>9. Replaces(Words(h), zs, c, 0)
    <2>1. \A i \in 1 .. Len(h) : i # 2 * 6 - 1 /\ i # 2 * 6 => h[i] = z[i]
        BY <1>5, <1>7, SMT
    <2>2. Replaces(Words(h), Words(z), Words(h)[6], Words(z)[6])
        BY <1>5, <1>8, <2>1, ReplacesWords, Zenon
    <2> QED
        BY <1>8, <2>2, Zenon DEF zs
<1>10. Total(zs) \in Nat /\ Total(Words(h)) = Total(zs) + c
    <2>1. Total(Words(h)) + 0 = Total(zs) + c /\ Total(Words(h)) \in Nat /\ Total(zs) \in Nat
        BY <1>9, ReplacesTotal, SMTT(30)
    <2> QED
        BY <2>1, SMT
<1>11. Total(zs) # 0
    <2> DEFINE ys == [zs EXCEPT ![1] = 0]
    <2>1. 0 \in U16
        BY U16Has, SMT
    <2>2. /\ ys \in Seq(U16) /\ Len(ys) = Len(zs)
          /\ ys[1] = 0 /\ \A i \in 1 .. Len(zs) : i # 1 => zs[i] = ys[i]
        BY <1>1, <1>8, <2>1, SMTT(30)
    <2> HIDE DEF ys
    <2>3. Replaces(zs, ys, zs[1], 0)
        BY <1>1, <1>8, <2>2, Zenon DEF Replaces
    <2>4. /\ Total(zs) \in Nat /\ Total(ys) \in Nat /\ zs[1] \in U16
          /\ Total(zs) + 0 = Total(ys) + zs[1]
        BY <2>3, ReplacesTotal, SMTT(30)
    <2>5. zs[1] \in Nat
        BY <2>4, U16Bounds, SMTT(30)
    <2>6. PICK p, q, r \in Nat : p = Total(zs) /\ q = Total(ys) /\ r = zs[1]
        BY <2>4, <2>5, Zenon
    <2>7. p + 0 = q + r /\ r # 0
        BY <1>8, <2>4, <2>6, Zenon
    <2>8. p # 0
        BY ONLY <2>7, p \in Nat, q \in Nat, r \in Nat, SMTT(30)
    <2> QED
        BY <2>6, <2>8, Zenon
<1>12. OnesComplementOf(Total(Words(h))) = U16Max
    <2>1. c = U16Max - OnesComplementOf(Total(zs))
        BY <1>1, FinishIs, Zenon
    <2> QED
        BY <1>10, <1>11, <2>1, HeaderVerifies, Zenon
<1>13. InternetChecksum(h) = 0
    BY <1>8, <1>12, FinishIs, Zenon DEF InternetChecksum
<1> QED
    BY <1>5, <1>7, <1>13, Zenon

\* A header that verifies does not with a changed byte.
LEMMA HeaderChangeSeen ==
    ASSUME NEW b \in Seq(Byte), NEW c \in Seq(Byte), Len(b) = Len(c), NEW j \in 1 .. Len(b),
           b[j] # c[j], \A i \in 1 .. Len(b) : i # j => b[i] = c[i], InternetChecksum(c) = 0
    PROVE  InternetChecksum(b) # 0
<1>1. PICK x, y \in U16 : Apart(x, y) /\ Replaces(Words(b), Words(c), x, y)
    BY ByteReplaces, Zenon
<1>2. /\ Total(Words(b)) \in Nat /\ Total(Words(c)) \in Nat
      /\ Total(Words(b)) + y = Total(Words(c)) + x
    BY <1>1, ReplacesTotal, SMTT(30)
<1>3. ~(OnesComplementOf(Total(Words(b))) = U16Max /\ OnesComplementOf(Total(Words(c))) = U16Max)
    BY <1>1, <1>2, ApartDetected, Zenon
<1> QED
    BY <1>3, WordsIs, FinishIs, Zenon DEF InternetChecksum

\* ocs::compute and ocs::validate: the field computed is not zero and makes the body sum to 0xffff.
LEMMA OcsStored ==
    ASSUME NEW b \in Seq(Byte), Len(b) >= 2, NEW n \in U16
    PROVE  \E f \in Seq(Byte) :
               /\ Len(f) = 2 /\ f # <<0, 0>>
               /\ OcsCompute(b, n) = Patch(b, 0, f)
               /\ OnesComplementOf(Total(Append(Words(Patch(b, 0, f)), n))) = U16Max
<1> DEFINE o == <<0, 0>>
           zs == Append(Words(Patch(b, 0, o)), n)
           c == NonZero(Finish(Accumulate(zs)))
           f == U16Bytes(c)
           fs == Append(Words(Patch(b, 0, f)), n)
<1>1. 0 \in Byte /\ o \in Seq(Byte) /\ Len(o) = 2 /\ o[1] = 0 /\ o[2] = 0
    BY SMT DEF Byte
<1>2. PICK at \in Nat : at = 0 /\ at + 1 = 1 /\ at + 2 = 2 /\ at + 2 <= Len(b)
    BY SMT
<1> HIDE DEF o
<1>3. LET g == Patch(b, at, o)
      IN  /\ g \in Seq(Byte) /\ Len(g) = Len(b) /\ g[at + 1] = o[1] /\ g[at + 2] = o[2]
          /\ \A i \in 1 .. Len(b) : i # at + 1 /\ i # at + 2 => g[i] = b[i]
    BY <1>1, <1>2, FieldPatchIs, Zenon
<1> DEFINE z == Patch(b, 0, o)
<1>4. /\ z \in Seq(Byte) /\ Len(z) = Len(b) /\ z[1] = 0 /\ z[2] = 0
      /\ \A i \in 1 .. Len(b) : i # 1 /\ i # 2 => z[i] = b[i]
    BY <1>1, <1>2, <1>3, Zenon
<1> HIDE DEF z
<1>5. Words(z) \in Seq(U16)
    BY <1>4, WordsIs, Zenon
<1>6. zs \in Seq(U16) /\ zs = Words(z) \o <<n>>
    BY <1>5, WordsAppend, Zenon DEF z
<1> HIDE DEF zs
<1>7. c \in U16 /\ c # 0 /\ Total(zs) \in Nat
    BY <1>6, FinishIs, AccumulateSums, Zenon
<1>8. OnesComplementOf(Total(zs) + c) = U16Max
    <2>1. c = NonZero(U16Max - OnesComplementOf(Total(zs)))
        BY <1>6, FinishIs, Zenon
    <2> QED
        BY <1>7, <2>1, StoredVerifies, Zenon
<1> HIDE DEF c
<1>9. /\ f \in Seq(Byte) /\ Len(f) = 2 /\ f[1] \in Byte /\ f[2] \in Byte
      /\ Word(f[1], f[2]) = c
    BY <1>7, U16BytesIs, Zenon
<1> HIDE DEF f
<1>10. LET g == Patch(b, at, f)
       IN  /\ g \in Seq(Byte) /\ Len(g) = Len(b) /\ g[at + 1] = f[1] /\ g[at + 2] = f[2]
           /\ \A i \in 1 .. Len(b) : i # at + 1 /\ i # at + 2 => g[i] = b[i]
    BY <1>2, <1>9, FieldPatchIs, Zenon
<1> DEFINE y == Patch(b, 0, f)
<1>11. /\ y \in Seq(Byte) /\ Len(y) = Len(b) /\ y[1] = f[1] /\ y[2] = f[2]
       /\ \A i \in 1 .. Len(b) : i # 1 /\ i # 2 => y[i] = b[i]
    BY <1>2, <1>10, Zenon
<1> HIDE DEF y
<1>12. /\ 1 \in 1 .. Len(Words(y)) /\ Words(y)[1] = c /\ Words(z)[1] = 0
    <2>1. Len(Words(y)) = (Len(b) + 1) \div 2 /\ Len(Words(z)) = (Len(b) + 1) \div 2
        BY <1>4, <1>11, WordsIs, Zenon
    <2>2. 1 \in 1 .. Len(Words(y)) /\ 1 \in 1 .. Len(Words(z))
        BY <2>1, SMT
    <2>3. /\ Words(y)[1] = Word(y[2 * 1 - 1], IF 2 * 1 <= Len(y) THEN y[2 * 1] ELSE 0)
          /\ Words(z)[1] = Word(z[2 * 1 - 1], IF 2 * 1 <= Len(z) THEN z[2 * 1] ELSE 0)
        BY <1>4, <1>11, <2>2, WordsIs, Zenon
    <2>4. 2 * 1 - 1 = 1 /\ 2 * 1 = 2 /\ 2 <= Len(y) /\ 2 <= Len(z)
        BY <1>4, <1>11, SMTT(30)
    <2>5. Words(y)[1] = Word(y[1], y[2]) /\ Words(z)[1] = Word(z[1], z[2])
        BY <2>3, <2>4
    <2>6. Word(0, 0) = 0
        BY <1>1, WordIs, Zenon
    <2> QED
        BY <1>4, <1>9, <1>11, <2>2, <2>5, <2>6, Zenon
<1>13. Replaces(Words(y), Words(z), c, 0)
    <2>1. \A i \in 1 .. Len(y) : i # 2 * 1 - 1 /\ i # 2 * 1 => y[i] = z[i]
        BY <1>4, <1>11, SMTT(30)
    <2>2. Replaces(Words(y), Words(z), Words(y)[1], Words(z)[1])
        BY <1>4, <1>11, <1>12, <2>1, ReplacesWords, Zenon
    <2> QED
        BY <1>12, <2>2, Zenon
<1>14. Words(y) \in Seq(U16) /\ <<n>> \in Seq(U16)
    BY <1>11, WordsIs, SMTT(30)
<1>15. fs = Words(y) \o <<n>>
    BY <1>14, WordsAppend, Zenon DEF y
<1>16. Replaces(fs, zs, c, 0)
    BY <1>6, <1>13, <1>14, <1>15, ReplacesConcat, Zenon
<1> HIDE DEF fs
<1>17. OnesComplementOf(Total(fs)) = U16Max
    <2>1. Total(fs) + 0 = Total(zs) + c /\ Total(fs) \in Nat /\ Total(zs) \in Nat
        BY <1>16, ReplacesTotal, SMT
    <2>2. Total(fs) = Total(zs) + c
        BY <2>1, SMT
    <2> QED
        BY <1>8, <2>2, Zenon
<1>18. OcsCompute(b, n) = Patch(b, 0, f)
    BY Zenon DEF OcsCompute, f, c, zs, o
<1>19. f # <<0, 0>>
    <2>1. Word(o[1], o[2]) = 0
        BY <1>1, WordIs, Zenon
    <2> QED
        BY <1>7, <1>9, <2>1, Zenon DEF o
<1> QED
    BY <1>9, <1>17, <1>18, <1>19, Zenon DEF fs

\* ocs::validate, by the definition of the ones' complement sum
LEMMA OcsVerdict ==
    ASSUME NEW b \in Seq(Byte), Len(b) >= 2, NEW n \in U16, NEW field
    PROVE  OcsValidate(b, n, field) =
               IF ReadU16(b, 0) = 0 THEN IF field = 0 THEN "Unused" ELSE "InvalidZero"
               ELSE IF OnesComplementOf(Total(Append(Words(b), n))) = U16Max THEN "Valid"
               ELSE "Failed"
<1>1. Append(Words(b), n) \in Seq(U16)
    BY WordsIs, WordsAppend, Zenon
<1>2. SumOf(Accumulate(Append(Words(b), n))) = OnesComplementOf(Total(Append(Words(b), n)))
    BY <1>1, AccumulateSums, Zenon
<1>3. ~(Len(b) < OcsLen)
    BY SMT DEF OcsLen
<1> QED
    BY <1>2, <1>3, Zenon DEF OcsValidate

\* One changed byte in a body that validates: it does not validate any more.
LEMMA OcsChangeSeen ==
    ASSUME NEW b \in Seq(Byte), NEW c \in Seq(Byte), Len(b) = Len(c), NEW j \in 1 .. Len(b),
           b[j] # c[j], \A i \in 1 .. Len(b) : i # j => b[i] = c[i], Len(b) >= 2, NEW n \in U16,
           OnesComplementOf(Total(Append(Words(c), n))) = U16Max, NEW field
    PROVE  OcsValidate(b, n, field) # "Valid"
<1>1. PICK x, y \in U16 : Apart(x, y) /\ Replaces(Words(b), Words(c), x, y)
    BY ByteReplaces, Zenon
<1>2. <<n>> \in Seq(U16) /\ Words(b) \in Seq(U16) /\ Words(c) \in Seq(U16)
    BY WordsIs, SMT
<1>3. Replaces(Append(Words(b), n), Append(Words(c), n), x, y)
    <2>1. Replaces(Words(b) \o <<n>>, Words(c) \o <<n>>, x, y)
        BY <1>1, <1>2, ReplacesConcat, Zenon
    <2> QED
        BY <1>2, <2>1, WordsAppend, Zenon
<1> DEFINE t == Total(Append(Words(b), n))
           u == Total(Append(Words(c), n))
<1>4. t \in Nat /\ u \in Nat /\ t + y = u + x
    BY <1>3, ReplacesTotal, SMT
<1> HIDE DEF t, u
<1>5. ~(OnesComplementOf(t) = U16Max /\ OnesComplementOf(u) = U16Max)
    BY <1>1, <1>4, ApartDetected, Zenon
<1>6. OnesComplementOf(t) # U16Max
    BY <1>5, Zenon DEF u
<1> QED
    BY <1>6, OcsVerdict, Zenon DEF t

\* The words it sums
UdpWords(sp, dp, len, u) == PseudoHeader([src |-> Src, dst |-> Dst], len) \o <<sp, dp, len>> \o Words(u)

LEMMA UdpWordsIs ==
    ASSUME NEW sp \in U16, NEW dp \in U16, NEW u \in Seq(Byte), NEW len \in U16,
           len = UdpHeaderLen + Len(u)
    PROVE  /\ UdpWords(sp, dp, len, u) \in Seq(U16)
           /\ UdpSum(sp, dp, u) = NonZero(U16Max - OnesComplementOf(Total(UdpWords(sp, dp, len, u))))
           /\ UdpSum(sp, dp, u) \in U16 /\ UdpSum(sp, dp, u) # 0
           /\ PseudoHeader([src |-> Src, dst |-> Dst], len) \in Seq(U16)
           /\ <<sp, dp, len>> \in Seq(U16) /\ Words(u) \in Seq(U16)
<1> DEFINE ip == [src |-> Src, dst |-> Dst]
<1>1. Words(Src) \in Seq(U16) /\ Words(Dst) \in Seq(U16) /\ Words(u) \in Seq(U16)
    BY AddressesAssumption, WordsIs, Zenon
<1>2. IpProtoUdp \in U16
    BY U16Has, SMT DEF IpProtoUdp
<1>3. <<IpProtoUdp, len>> \in Seq(U16) /\ <<sp, dp, len>> \in Seq(U16)
    BY <1>2, SMT
<1>4. PseudoHeader(ip, len) \in Seq(U16)
    <2>1. Words(Src) \o Words(Dst) \o <<IpProtoUdp, len>> \in Seq(U16)
        BY <1>1, <1>3, WordsConcat, Zenon
    <2> QED
        BY <2>1, Zenon DEF PseudoHeader
<1>5. UdpWords(sp, dp, len, u) \in Seq(U16)
    BY <1>1, <1>3, <1>4, WordsConcat, Zenon DEF UdpWords
<1>6. UdpSum(sp, dp, u) = NonZero(Finish(Accumulate(UdpWords(sp, dp, len, u))))
    BY Zenon DEF UdpSum, UdpWords, ComputeChecksum
<1> QED
    BY <1>1, <1>3, <1>4, <1>5, <1>6, FinishIs, Zenon

LEMMA WordsAssociative ==
    ASSUME NEW a \in Seq(U16), NEW b \in Seq(U16), NEW c \in Seq(U16)
    PROVE  (a \o b) \o c = a \o (b \o c)
BY SMT

\* A datagram with one changed word has another checksum.
LEMMA UdpChangeSeen ==
    ASSUME NEW sp \in U16, NEW dp \in U16, NEW u \in Seq(Byte), NEW len \in U16,
           len = UdpHeaderLen + Len(u),
           NEW sq \in U16, NEW dq \in U16, NEW v \in Seq(Byte), len = UdpHeaderLen + Len(v),
           NEW x \in U16, NEW y \in U16, Apart(x, y),
           Replaces(<<sp, dp, len>> \o Words(u), <<sq, dq, len>> \o Words(v), x, y)
    PROVE  UdpSum(sp, dp, u) # UdpSum(sq, dq, v)
<1> DEFINE ph == PseudoHeader([src |-> Src, dst |-> Dst], len)
           hv == <<sp, dp, len>>
           hw == <<sq, dq, len>>
<1>1. ph \in Seq(U16) /\ hv \in Seq(U16) /\ Words(u) \in Seq(U16)
    BY UdpWordsIs, Zenon
<1>2. hw \in Seq(U16) /\ Words(v) \in Seq(U16)
    BY UdpWordsIs, Zenon
<1> DEFINE vs == UdpWords(sp, dp, len, u)
           ws == UdpWords(sq, dq, len, v)
<1>3. vs = (ph \o hv) \o Words(u) /\ ws = (ph \o hw) \o Words(v)
    BY Zenon DEF UdpWords
<1>4. UdpSum(sp, dp, u) = NonZero(U16Max - OnesComplementOf(Total(vs)))
    BY ONLY sp \in U16, dp \in U16, u \in Seq(Byte), len \in U16, len = UdpHeaderLen + Len(u),
            UdpWordsIs, SMT
<1>5. UdpSum(sq, dq, v) = NonZero(U16Max - OnesComplementOf(Total(ws)))
    BY ONLY sq \in U16, dq \in U16, v \in Seq(Byte), len \in U16, len = UdpHeaderLen + Len(v),
            UdpWordsIs, SMT
<1>6. Replaces(hv \o Words(u), hw \o Words(v), x, y)
    BY Zenon
<1> HIDE DEF ph, hv, hw, vs, ws
<1>7. vs = ph \o (hv \o Words(u)) /\ ws = ph \o (hw \o Words(v))
    <2>2. (ph \o hv) \o Words(u) = ph \o (hv \o Words(u))
        BY <1>1, WordsAssociative, Zenon
    <2>3. (ph \o hw) \o Words(v) = ph \o (hw \o Words(v))
        BY <1>1, <1>2, WordsAssociative, ZenonT(40)
    <2> QED
        BY <1>3, <2>2, <2>3, Zenon
<1>8. Replaces(vs, ws, x, y)
    BY <1>1, <1>6, <1>7, ReplacesConcat, Zenon
<1>9. Total(vs) \in Nat /\ Total(ws) \in Nat /\ Total(vs) + y = Total(ws) + x
    BY <1>8, ReplacesTotal, SMT
<1> DEFINE t == Total(vs)
           r == Total(ws)
<1>10. t \in Nat /\ r \in Nat /\ t + y = r + x
    BY <1>9, Zenon
<1> HIDE DEF t, r
<1>11. NonZero(U16Max - OnesComplementOf(t)) # NonZero(U16Max - OnesComplementOf(r))
    BY <1>10, ApartDetected, Zenon
<1> QED
    BY <1>4, <1>5, <1>11, Zenon DEF t, r

LEMMA UdpDataChangeSeen ==
    ASSUME NEW sp \in U16, NEW dp \in U16, NEW u \in Seq(Byte), NEW v \in Seq(Byte),
           UdpHeaderLen + Len(u) \in U16, Len(u) = Len(v), NEW j \in 1 .. Len(u), u[j] # v[j],
           \A i \in 1 .. Len(u) : i # j => u[i] = v[i]
    PROVE  UdpSum(sp, dp, u) # UdpSum(sp, dp, v)
<1> DEFINE len == UdpHeaderLen + Len(u)
<1>1. len \in U16 /\ len = UdpHeaderLen + Len(u) /\ len = UdpHeaderLen + Len(v)
    BY Zenon
<1> HIDE DEF len
<1>2. PICK x, y \in U16 : Apart(x, y) /\ Replaces(Words(u), Words(v), x, y)
    BY ByteReplaces, Zenon
<1>3. <<sp, dp, len>> \in Seq(U16)
    BY <1>1, UdpWordsIs, Zenon
<1>4. Replaces(<<sp, dp, len>> \o Words(u), <<sp, dp, len>> \o Words(v), x, y)
    BY <1>2, <1>3, ReplacesConcat, Zenon
<1> QED
    BY <1>1, <1>2, <1>4, UdpChangeSeen, Zenon

LEMMA UdpPortChangeSeen ==
    ASSUME NEW sp \in U16, NEW dp \in U16, NEW sq \in U16, NEW dq \in U16, NEW u \in Seq(Byte),
           UdpHeaderLen + Len(u) \in U16,
           (Apart(sp, sq) /\ dp = dq) \/ (sp = sq /\ Apart(dp, dq))
    PROVE  UdpSum(sp, dp, u) # UdpSum(sq, dq, u)
<1> DEFINE len == UdpHeaderLen + Len(u)
<1>1. len \in U16 /\ len = UdpHeaderLen + Len(u)
    BY Zenon
<1> HIDE DEF len
<1>2. <<sp, dp, len>> \in Seq(U16) /\ <<sq, dq, len>> \in Seq(U16) /\ Words(u) \in Seq(U16)
    BY <1>1, UdpWordsIs, Zenon
<1>3. PICK x, y \in U16 : Apart(x, y) /\ Replaces(<<sp, dp, len>>, <<sq, dq, len>>, x, y)
    <2>1. CASE Apart(sp, sq) /\ dp = dq
        <3>1. Replaces(<<sp, dp, len>>, <<sq, dq, len>>, sp, sq)
            BY <1>2, <2>1, SMTT(30) DEF Replaces
        <3> QED
            BY <2>1, <3>1, Zenon
    <2>2. CASE sp = sq /\ Apart(dp, dq)
        <3>1. Replaces(<<sp, dp, len>>, <<sq, dq, len>>, dp, dq)
            BY <1>2, <2>2, SMT DEF Replaces
        <3> QED
            BY <2>2, <3>1, Zenon
    <2> QED
        BY <2>1, <2>2, Zenon
<1>4. Replaces(<<sp, dp, len>> \o Words(u), <<sq, dq, len>> \o Words(u), x, y)
    BY <1>2, <1>3, ReplacesConcat, Zenon
<1> QED
    BY <1>1, <1>3, <1>4, UdpChangeSeen, Zenon

-----------------------------------------------------------------------------
(* The datagrams *)

\* The checksums keep the laws that DatagramProofs is built on.
LEMMA LawsHold == ChecksumLaws
<1>1. HeaderStored
    BY HeaderChecksum, Zenon DEF HeaderStored
<1>2. HeaderChange
    BY HeaderChangeSeen, Zenon DEF HeaderChange
<1>3. OcsStores
    BY OcsStored, Zenon DEF OcsStores
<1>4. OcsVerdicts
    BY OcsVerdict, Zenon DEF OcsVerdicts
<1>5. OcsChange
    BY OcsChangeSeen, Zenon DEF OcsChange
<1>6. UdpStored
    BY UdpWordsIs, Zenon DEF UdpStored
<1>7. UdpDataChange
    BY UdpDataChangeSeen, Zenon DEF UdpDataChange
<1>8. UdpPortChange
    BY UdpPortChangeSeen, Zenon DEF UdpPortChange
<1> QED
    BY <1>1, <1>2, <1>3, <1>4, <1>5, <1>6, <1>7, <1>8, Zenon DEF ChecksumLaws

\* Whatever the user data and the options: the length that Outgoing measures with datagram_len is
\* the length assemble_datagram builds, and locate_surplus (src/wire/surplus.rs) and surplus_layout
\* (src/bin/udpopt-send.rs) both find the area there, with its OCS at an even offset.
THEOREM LayoutsCorrect == Spec => []LayoutsAgree
BY LawsHold, LayoutsFollow, Zenon

\* The receive disposition table (docs/requirements.md, FR-36) for every user data, every option
\* body and every fault of udpopt-send: process_datagram_inner delivers an undamaged datagram with
\* the status the table gives it, and with the bytes that were sent.
THEOREM DispositionCorrect == Spec => []DispositionMatrix
BY LawsHold, DispositionFollows, Zenon

\* However the contents and the damage are chosen: unless the byte damaged holds a length,
\* process_datagram delivers the user data that was sent or none, and the options of a valid OCS
\* are those that were sent.
THEOREM DamageSeen == Spec => []DamageNotTrusted
BY LawsHold, DamageFollows, Zenon

=============================================================================
