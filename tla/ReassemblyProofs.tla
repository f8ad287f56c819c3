-------------------------- MODULE ReassemblyProofs --------------------------
(***************************************************************************)
(* Proofs about the reassembly cache, for every set of keys, fragments and *)
(* byte strings and for every value of the limits.                         *)
(***************************************************************************)
EXTENDS Reassembly, TLAPS, FiniteSetTheorems, WellFoundedInduction

\* A non-empty set of naturals has a least element.
LEMMA LeastNat ==
    ASSUME NEW T \in SUBSET Nat, T # {}
    PROVE  \E m \in T : \A n \in T : m <= n
<1>1. IsWellFoundedOn(OpToRel(<, Nat), Nat)
  BY NatLessThanWellFounded, Zenon
<1>2. PICK m \in T : \A n \in T : ~(<<n, m>> \in OpToRel(<, Nat))
  BY <1>1, WFMin, Zenon
<1>3. ASSUME NEW n \in T PROVE m <= n
  <2>1. ~(n < m)
    BY <1>2, Zenon DEF OpToRel
  <2> QED BY <2>1
<1> QED BY <1>3

\* A non-empty set of naturals with an upper bound has a greatest element.
LEMMA GreatestNat ==
    ASSUME NEW T \in SUBSET Nat, T # {}, NEW b \in Nat, \A n \in T : n <= b
    PROVE  \E m \in T : \A n \in T : n <= m
<1> DEFINE U == {v \in Nat : \E n \in T : v = b - n}
<1>1. U \in SUBSET Nat /\ U # {}
  <2>1. PICK n \in T : TRUE
    BY Zenon
  <2>2. b - n \in U
    BY <2>1
  <2> QED BY <2>2, Zenon
<1>2. PICK u \in U : \A v \in U : u <= v
  <2> HIDE DEF U
  <2> QED BY <1>1, LeastNat
<1>3. PICK m \in T : u = b - m
  OBVIOUS
<1>4. ASSUME NEW n \in T PROVE n <= m
  <2>1. b - n \in U
    OBVIOUS
  <2>2. u <= b - n
    BY <1>2, <2>1, Zenon
  <2> QED BY <1>3, <2>2
<1> QED BY <1>4

-----------------------------------------------------------------------------
\* The walk of complete()

\* The extents of segments are naturals, and no segment is empty.
Extents(S) == \A s \in S : s.start \in Nat /\ s.end \in Nat /\ s.start < s.end

\* After a non-empty set of segments the cursor is at the end of one with the greatest start.
LEMMA CursorIsLastEnd ==
    ASSUME NEW S, Extents(S), S # {}, NEW b \in Nat, \A s \in S : s.start <= b
    PROVE  \E s \in S : (\A t \in S : t.start <= s.start) /\ CursorAfter(S) = s.end
<1> DEFINE T == {n \in Nat : \E s \in S : n = s.start}
<1>1. T \in SUBSET Nat /\ T # {} /\ \A n \in T : n <= b
  BY DEF Extents
<1>2. PICK m \in T : \A n \in T : n <= m
  <2> HIDE DEF T
  <2> QED BY <1>1, GreatestNat, Zenon
<1>3. \E s \in S : \A t \in S : t.start <= s.start
  BY <1>2 DEF Extents
<1> QED BY <1>3, Zenon DEF CursorAfter

\* The cursor is past no position that every visited segment stays below.
LEMMA CursorBound ==
    ASSUME NEW S, Extents(S), NEW i \in Nat, \A s \in S : s.start <= i /\ s.end <= i
    PROVE  CursorAfter(S) \in Nat /\ CursorAfter(S) <= i
<1>1. CASE S = {}
  BY <1>1 DEF CursorAfter
<1>2. CASE S # {}
  BY <1>2, CursorIsLastEnd DEF Extents
<1> QED BY <1>1, <1>2

\* When complete() returns the tail, its segments leave no position uncovered.
LEMMA CompleteCovers ==
    ASSUME NEW p, Extents(p.segments), CompleteResult(p) = "Complete",
           NEW i \in Nat, i < p.terminal_end
    PROVE  \E s \in p.segments : s.start <= i /\ i < s.end
<1> DEFINE S == p.segments
<1>1. Mismatches(S) = {} /\ CursorAfter(S) = p.terminal_end
  BY DEF CompleteResult
<1> SUFFICES ASSUME \A s \in S : ~(s.start <= i /\ i < s.end)
             PROVE  FALSE
  OBVIOUS
<1> DEFINE later == {n \in Nat : \E s \in S : n = s.start /\ i < n}
<1>2. \A s \in S : s.start \in Nat /\ s.end \in Nat /\ s.start < s.end
  BY DEF Extents
<1>3. CASE later = {}
  <2>1. \A s \in S : s.start <= i /\ s.end <= i
    BY <1>2, <1>3
  <2> QED BY <1>1, <2>1, CursorBound
<1>4. CASE later # {}
  <2>1. PICK n \in later : \A m \in later : n <= m
    <3>1. later \in SUBSET Nat
      OBVIOUS
    <3> HIDE DEF later
    <3> QED BY <1>4, <3>1, LeastNat
  <2>2. PICK s \in S : n = s.start /\ i < n
    BY <2>1
  <2>3. \A t \in Before(S, s) : t \in S /\ t.start <= i /\ t.end <= i
    BY <1>2, <2>1, <2>2 DEF Before
  <2>4. CursorAfter(Before(S, s)) <= i
    BY <2>3, CursorBound DEF Extents
  <2>5. s.start = CursorAfter(Before(S, s))
    BY <1>1 DEF Mismatches
  <2> QED BY <1>2, <2>2, <2>4, <2>5
<1> QED BY <1>3, <1>4

\* The branch of complete() that aborts on a segment below the cursor is never taken.
LEMMA WalkNeverAborts ==
    ASSUME NEW p \in PartialType, Consistent(p)
    PROVE  CompleteResult(p) \in {"Incomplete", "Complete"}
<1> DEFINE S == p.segments
<1> DEFINE M == Mismatches(S)
<1>1. /\ S \in SUBSET SegmentType
      /\ \A s \in S : s.start \in Nat /\ s.end \in Nat /\ s.start < s.end
  BY DEF PartialType, Consistent, SegmentType
<1>2. ASSUME NEW s \in M PROVE s.start > CursorAfter(Before(S, s))
  <2>1. s \in S /\ s.start # CursorAfter(Before(S, s))
    BY DEF Mismatches
  <2>2. \A t \in Before(S, s) : t.start <= s.start /\ t.end <= s.start
    BY <1>1, <2>1 DEF Before, Consistent, Disjoint
  <2>3. Extents(Before(S, s))
    BY <1>1 DEF Before, Extents
  <2>4. CursorAfter(Before(S, s)) \in Nat /\ CursorAfter(Before(S, s)) <= s.start
    BY <1>1, <2>1, <2>2, <2>3, CursorBound
  <2> QED BY <1>1, <2>1, <2>4
<1>3. CASE M = {}
  BY <1>3 DEF CompleteResult
<1>4. CASE M # {}
  <2> DEFINE T == {n \in Nat : \E s \in M : n = s.start}
  <2>1. T \in SUBSET Nat /\ T # {}
    BY <1>1, <1>4 DEF Mismatches
  <2>2. PICK n \in T : \A m \in T : n <= m
    <3> HIDE DEF T
    <3> QED BY <2>1, LeastNat
  <2>3. \E s \in M : \A t \in M : s.start <= t.start
    BY <1>1, <2>2 DEF Mismatches
  <2> DEFINE first == CHOOSE s \in M : \A t \in M : s.start <= t.start
  <2>4. first \in M
    BY <2>3
  <2>5. first.start > CursorAfter(Before(S, first))
    <3> HIDE DEF first
    <3> QED BY <1>2, <2>4
  <2> QED BY <1>4, <2>5 DEF CompleteResult
<1> QED BY <1>3, <1>4

-----------------------------------------------------------------------------
\* Partial::insert

LEMMA FragmentExtent ==
    ASSUME NEW f \in FragmentType, Normalizes(f)
    PROVE  /\ Len0(f) \in Nat /\ Start(f) \in Nat /\ End(f) \in Nat
           /\ End(f) = Start(f) + Len0(f)
           /\ Segment(f) \in SegmentType
<1>1. Len0(f) \in Nat
  BY DataAssumption DEF FragmentType, Len0
<1>2. Start(f) \in Nat
  BY DEF FragmentType, Normalizes, Start, UdpHeader
<1>3. End(f) \in Nat /\ End(f) = Start(f) + Len0(f)
  BY <1>1, <1>2 DEF End
<1> QED BY <1>1, <1>2, <1>3 DEF Segment, SegmentType, FragmentType

LEMMA NewPartialOK ==
    /\ NewPartial \in PartialType
    /\ Consistent(NewPartial)
    /\ CompleteResult(NewPartial) = "Incomplete"
<1>1. NoOptions \in OptionListType
  BY DEF NoOptions, OptionListType
<1>2. NewPartial \in PartialType
  BY <1>1 DEF NewPartial, PartialType, OcsObservations
<1> QED BY <1>2 DEF NewPartial, Consistent, CompleteResult

LEMMA ObserveOptionsType ==
    ASSUME NEW acc \in OptionListType, NEW o \in OptionLists
    PROVE  ObserveOptions(acc, o) \in OptionListType
BY OptionListsAssumption DEF OptionListType, ObserveOptions, MinOption, LastOption

\* A partial that takes an acceptable fragment is still a partial.
LEMMA AcceptType ==
    ASSUME NEW p \in PartialType, NEW f \in FragmentType, Normalizes(f)
    PROVE  Accept(p, f) \in PartialType
<1>1. ObserveOptions(p.fragment_options, f.options) \in OptionListType
  BY ObserveOptionsType DEF PartialType, FragmentType
<1>2. ObserveOcs(p.ocs, f.ocs) \in OcsObservations
  BY DEF PartialType, FragmentType, ObserveOcs, OcsObservations
<1>3. /\ Len0(f) \in Nat /\ End(f) \in Nat /\ Segment(f) \in SegmentType
      /\ p.segments \cup {Segment(f)} \in SUBSET SegmentType
  BY FragmentExtent DEF PartialType
<1>4. IsTerminal(f) => f.rdos \in Nat
  BY DEF IsTerminal, FragmentType
<1>5. /\ f.options \in OptionLists /\ f.failures \in SUBSET Kinds
      /\ p.option_failures \cup f.failures \in SUBSET Kinds
  BY DEF FragmentType, PartialType
<1>6. p.fragment_count + 1 \in Nat /\ p.byte_total + Len0(f) \in Nat
  BY <1>3 DEF PartialType
<1> QED BY <1>1, <1>2, <1>3, <1>4, <1>5, <1>6, ZenonT(60) DEF PartialType, Accept

\* The checks of Partial::insert are what keeps its segments apart and inside the terminal end.
LEMMA AcceptConsistent ==
    ASSUME NEW p \in PartialType, Consistent(p), NEW f \in FragmentType,
           Normalizes(f), ~Oversize(f), ~Conflicts(p, f)
    PROVE  Consistent(Accept(p, f))
<1> DEFINE q == Accept(p, f)
           x == Segment(f)
<1>1. /\ Len0(f) \in Nat /\ Start(f) \in Nat /\ End(f) \in Nat
      /\ End(f) = Start(f) + Len0(f)
      /\ x.start = Start(f) /\ x.end = End(f) /\ x.data = f.data
  BY FragmentExtent, Zenon DEF Segment
<1>2. \A s \in p.segments : s.start \in Nat /\ s.end \in Nat
  BY DEF PartialType, SegmentType
<1>3. /\ q.segments = IF Len0(f) = 0 THEN p.segments ELSE p.segments \cup {x}
      /\ q.terminal_end = IF IsTerminal(f) /\ p.terminal_end = None
                          THEN End(f) ELSE p.terminal_end
      /\ q.udp_length = IF IsTerminal(f) /\ p.terminal_end = None
                        THEN f.rdos ELSE p.udp_length
  BY DEF Accept, PartialType
<1>4. \A s \in q.segments : s \in p.segments \/ (s = x /\ Len0(f) > 0)
  BY <1>1, <1>3
<1> HIDE DEF q, x
<1>5. \A s \in q.segments : s.start < s.end /\ s.end = s.start + DataLen[s.data]
  BY <1>1, <1>4 DEF Consistent, Len0
<1>6. \A s, t \in q.segments : s = t \/ Disjoint(s, t)
  <2>1. Len0(f) > 0 => \A s \in p.segments : s.end <= Start(f) \/ End(f) <= s.start
    BY <1>1, <1>2 DEF Conflicts, Overlaps
  <2> QED BY <1>1, <1>4, <2>1 DEF Consistent, Disjoint
<1>7. q.terminal_end = None <=> q.udp_length = None
  BY <1>1, <1>3, NoneAssumption DEF Consistent, IsTerminal
<1>8. q.terminal_end # None =>
        /\ \A s \in q.segments : s.end <= q.terminal_end
        /\ UdpHeader + q.terminal_end <= MaxReassembledSize
        /\ UdpHeader <= q.udp_length
        /\ q.udp_length - UdpHeader <= q.terminal_end
  <2>1. CASE IsTerminal(f) /\ p.terminal_end = None
    <3>1. f.rdos \in Nat
      BY <2>1 DEF IsTerminal, FragmentType
    <3>2. /\ ~(f.rdos < UdpHeader) /\ ~(f.rdos - UdpHeader > End(f))
          /\ \A s \in p.segments : ~(s.end > End(f))
      BY <2>1 DEF Conflicts, TerminalConflict
    <3>3. UdpHeader + End(f) <= MaxReassembledSize
      BY <1>1, LimitsAssumption DEF Oversize, UdpHeader
    <3> QED BY <1>1, <1>2, <1>3, <1>4, <2>1, <3>1, <3>2, <3>3 DEF UdpHeader
  <2>2. CASE ~(IsTerminal(f) /\ p.terminal_end = None)
    <3> SUFFICES ASSUME p.terminal_end # None
                 PROVE  \A s \in q.segments : s.end <= p.terminal_end
      BY <1>3, <2>2 DEF Consistent
    <3>1. End(f) <= p.terminal_end
      BY <1>1 DEF Conflicts, PartialType
    <3> QED BY <1>1, <1>4, <3>1 DEF Consistent
  <2> QED BY <2>1, <2>2
<1> QED BY <1>5, <1>6, <1>7, <1>8 DEF Consistent, q

\* What Partial::insert guarantees, in whatever state the partial and the fragment are.
LEMMA InsertResultOK ==
    ASSUME NEW p \in PartialType, Consistent(p), CompleteResult(p) = "Incomplete",
           NEW f \in FragmentType, Normalizes(f), ~Oversize(f)
    PROVE  LET r == InsertResult(p, f) IN
           /\ r.partial \in PartialType
           /\ Consistent(r.partial)
           /\ r.kind \in {"Incomplete", "Complete", "LimitExceeded", "Overlap"}
           /\ r.kind \in {"Incomplete", "Complete"} => CompleteResult(r.partial) = r.kind
<1>1. CASE IsExactDuplicate(p, f)
  <2> DEFINE q == [p EXCEPT !.ocs = ObserveOcs(@, f.ocs)]
  <2>1. InsertResult(p, f) = [kind |-> "Incomplete", partial |-> q]
    BY <1>1 DEF InsertResult
  <2>2. ObserveOcs(p.ocs, f.ocs) \in OcsObservations
    BY DEF PartialType, FragmentType, ObserveOcs, OcsObservations
  <2>3. /\ q \in PartialType
        /\ q.segments = p.segments /\ q.terminal_end = p.terminal_end
        /\ q.udp_length = p.udp_length
    BY <2>2 DEF PartialType
  <2> HIDE DEF q
  <2>4. Consistent(q)
    BY <2>3 DEF Consistent
  <2>5. CompleteResult(q) = "Incomplete"
    BY <2>3 DEF CompleteResult
  <2> QED BY <2>1, <2>3, <2>4, <2>5
<1>2. CASE ~IsExactDuplicate(p, f) /\ (ExceedsLimit(p, f) \/ Conflicts(p, f))
  BY <1>2 DEF InsertResult
<1>3. CASE ~IsExactDuplicate(p, f) /\ ~ExceedsLimit(p, f) /\ ~Conflicts(p, f)
  <2> DEFINE q == Accept(p, f)
  <2>1. q \in PartialType /\ Consistent(q)
    BY <1>3, AcceptType, AcceptConsistent
  <2>2. CompleteResult(q) \in {"Incomplete", "Complete"}
    BY <2>1, WalkNeverAborts
  <2>3. InsertResult(p, f) = [kind |-> CompleteResult(q), partial |-> q]
    BY <1>3, <2>2 DEF InsertResult
  <2> HIDE DEF q
  <2> QED BY <2>1, <2>2, <2>3
<1> QED BY <1>1, <1>2, <1>3

LEMMA InsertResultKind ==
    ASSUME NEW p, NEW f
    PROVE  InsertResult(p, f).kind \in InsertKinds
BY DEF InsertResult, CompleteResult, InsertKinds

-----------------------------------------------------------------------------
\* The inductive invariant

HistoryType == Seq([frag : FragmentType, age : Nat])

\* The history h explains the partial p: each segment and the terminal end come from a fragment
\* of h, and none of those has been there longer than the partial.
Explains(h, p) ==
    /\ h \in HistoryType
    /\ \A s \in p.segments : \E i \in DOMAIN h : s = Segment(h[i].frag)
    /\ p.terminal_end # None =>
          \E i \in DOMAIN h : h[i].frag.rdos = p.udp_length /\ End(h[i].frag) = p.terminal_end
    /\ \A i \in DOMAIN h : h[i].age <= p.age

\* The option values, failures and OCS verdict of p sum up the fragments of h.
SumsUp(h, p) ==
    /\ Coalesced(h, p.fragment_options, p.option_failures)
    /\ \A i \in DOMAIN h : h[i].frag.ocs = "unobserved" => p.ocs = "unobserved"

\* A fragment of h that carries data or ends the datagram would be recognised if it came again.
Remembers(h, p) ==
    \A i \in DOMAIN h :
       /\ Normalizes(h[i].frag) /\ ~Oversize(h[i].frag)
       /\ IsTerminal(h[i].frag) \/ Len0(h[i].frag) > 0 => IsExactDuplicate(p, h[i].frag)

Accounts(h, p) == Explains(h, p) /\ SumsUp(h, p) /\ Remembers(h, p)

RetainedOK(p, h) ==
    /\ p \in PartialType
    /\ Consistent(p)
    /\ CompleteResult(p) = "Incomplete"
    /\ Accounts(h, p)

DomainsOK ==
    /\ DOMAIN partials \subseteq Keys
    /\ DOMAIN taken = DOMAIN partials
    /\ IsFiniteSet(DOMAIN partials)
    /\ PendingBounded

PartialsOK == \A k \in DOMAIN partials : RetainedOK(partials[k], taken[k])

DeliveredOK(o) ==
    o.kind = "Complete" =>
       /\ TilesTail(o) /\ TailTaken(o) /\ AllFresh(o)
       /\ Coalesced(o.from, o.options, o.failures)
       /\ \A i \in DOMAIN o.from : o.from[i].frag.ocs = "unobserved" => o.ocs = "unobserved"

\* The safety invariants of the cache, with the history that explains each partial.
IInv == DomainsOK /\ PartialsOK /\ DeliveredOK(outcome)

LEMMA HistoryElement ==
    ASSUME NEW h \in HistoryType, NEW i \in DOMAIN h
    PROVE  h[i].frag \in FragmentType /\ h[i].age \in Nat
<1> DEFINE E == [frag : FragmentType, age : Nat]
<1>1. h \in Seq(E)
  BY DEF HistoryType
<1>2. h[i] \in E
  <2> HIDE DEF E
  <2> QED BY <1>1
<1> QED BY <1>2

LEMMA EffectiveTimeoutNat == EffectiveTimeout \in Nat
BY LimitsAssumption DEF EffectiveTimeout

LEMMA LiveFinite ==
    ASSUME DomainsOK, NEW S \in SUBSET DOMAIN partials
    PROVE  IsFiniteSet(S) /\ Cardinality(S) \in Nat /\ Cardinality(S) <= MaxPendingPartials
<1>1. /\ IsFiniteSet(DOMAIN partials)
      /\ Cardinality(DOMAIN partials) <= MaxPendingPartials
  BY DEF DomainsOK, PendingBounded
<1>2. IsFiniteSet(S) /\ Cardinality(S) <= Cardinality(DOMAIN partials)
  BY <1>1, FS_Subset
<1>3. Cardinality(S) \in Nat /\ Cardinality(DOMAIN partials) \in Nat
  BY <1>1, <1>2, FS_CardinalityType
<1> QED BY <1>1, <1>2, <1>3, LimitsAssumption

\* Removing keys preserves what is retained.
LEMMA ShrinkOK ==
    ASSUME DomainsOK, PartialsOK, NEW S \in SUBSET DOMAIN partials,
           partials' = Restrict(partials, S), taken' = Restrict(taken, S)
    PROVE  DomainsOK' /\ PartialsOK'
<1>1. DOMAIN partials' = S /\ DOMAIN taken' = S
  BY DEF Restrict
<1>2. IsFiniteSet(S) /\ Cardinality(S) <= MaxPendingPartials
  BY LiveFinite
<1>3. DomainsOK'
  BY <1>1, <1>2 DEF DomainsOK, PendingBounded
<1>4. PartialsOK'
  BY <1>1 DEF PartialsOK, Restrict
<1> QED BY <1>3, <1>4

LEMMA LiveSubset == Live \in SUBSET DOMAIN partials
BY DEF Live

\* The partial an insert works on, retained or new, satisfies what is asked of a retained one.
LEMMA PartialForOK ==
    ASSUME PartialsOK, NEW k
    PROVE  RetainedOK(PartialFor(k), TakenFor(k))
<1>1. CASE k \in Live
  BY <1>1 DEF PartialFor, TakenFor, Live, PartialsOK
<1>2. CASE k \notin Live
  <2>1. PartialFor(k) = NewPartial /\ TakenFor(k) = <<>>
    BY <1>2 DEF PartialFor, TakenFor
  <2>2. Explains(<<>>, NewPartial)
    BY SMTT(30) DEF Explains, NewPartial, HistoryType
  <2>3. SumsUp(<<>>, NewPartial)
    <3>1. OptionsIn(<<>>) = {}
      BY DEF OptionsIn
    <3> QED BY <3>1 DEF SumsUp, Coalesced, IsLeast, NewPartial, NoOptions
  <2>4. Remembers(<<>>, NewPartial)
    BY DEF Remembers
  <2> QED BY <2>1, <2>2, <2>3, <2>4, NewPartialOK DEF RetainedOK, Accounts
<1> QED BY <1>1, <1>2

\* What the history of a partial holds once a fragment has been accepted.
LEMMA HistoryAppend ==
    ASSUME NEW h \in HistoryType, NEW f \in FragmentType
    PROVE  LET e == [frag |-> f, age |-> 0]
               g == Append(h, e)
           IN  /\ g \in HistoryType
               /\ \A i \in DOMAIN h : i \in DOMAIN g /\ g[i] = h[i]
               /\ Len(h) + 1 \in DOMAIN g /\ g[Len(h) + 1] = e
               /\ \A i \in DOMAIN g : i \in DOMAIN h \/ i = Len(h) + 1
<1> DEFINE e == [frag |-> f, age |-> 0]
           E == [frag : FragmentType, age : Nat]
<1>1. h \in Seq(E) /\ e \in E
  BY DEF HistoryType
<1> HIDE DEF e, E
<1>2. /\ Append(h, e) \in Seq(E)
      /\ DOMAIN h = 1 .. Len(h) /\ DOMAIN Append(h, e) = 1 .. (Len(h) + 1) /\ Len(h) \in Nat
      /\ \A i \in 1 .. Len(h) : Append(h, e)[i] = h[i]
      /\ Append(h, e)[Len(h) + 1] = e
  BY <1>1
<1> QED BY <1>2 DEF HistoryType, e, E

LEMMA AppendExplains ==
    ASSUME NEW p \in PartialType, NEW h, Explains(h, p), NEW f \in FragmentType
    PROVE  Explains(Append(h, [frag |-> f, age |-> 0]), Accept(p, f))
<1> DEFINE e == [frag |-> f, age |-> 0]
           g == Append(h, e)
           q == Accept(p, f)
<1>1. h \in HistoryType
  BY DEF Explains
<1>2. /\ g \in HistoryType
      /\ \A i \in DOMAIN h : i \in DOMAIN g /\ g[i] = h[i]
      /\ Len(h) + 1 \in DOMAIN g /\ g[Len(h) + 1] = e
      /\ \A i \in DOMAIN g : i \in DOMAIN h \/ i = Len(h) + 1
  BY <1>1, HistoryAppend
<1>3. /\ q.segments \subseteq p.segments \cup {Segment(f)}
      /\ \/ q.terminal_end = p.terminal_end /\ q.udp_length = p.udp_length
         \/ q.terminal_end = End(f) /\ q.udp_length = f.rdos
      /\ q.age = p.age
  <2> DEFINE first == IsTerminal(f) /\ p.terminal_end = None
  <2>1. /\ q.segments = IF Len0(f) = 0 THEN p.segments ELSE p.segments \cup {Segment(f)}
        /\ q.terminal_end = IF first THEN End(f) ELSE p.terminal_end
        /\ q.udp_length = IF first THEN f.rdos ELSE p.udp_length
        /\ q.age = p.age
    BY DEF Accept, PartialType
  <2> HIDE DEF q
  <2> QED BY <2>1
<1>4. e.frag = f /\ e.age = 0 /\ p.age \in Nat
  BY DEF PartialType
<1> HIDE DEF e, g, q
<1>5. \A s \in q.segments : \E i \in DOMAIN g : s = Segment(g[i].frag)
  BY <1>2, <1>3, <1>4 DEF Explains
<1>6. q.terminal_end # None =>
        \E i \in DOMAIN g : g[i].frag.rdos = q.udp_length /\ End(g[i].frag) = q.terminal_end
  BY <1>2, <1>3, <1>4 DEF Explains
<1>7. \A i \in DOMAIN g : g[i].age <= q.age
  BY <1>2, <1>3, <1>4 DEF Explains
<1> QED BY <1>2, <1>5, <1>6, <1>7 DEF Explains, e, g, q

\* Taking the minimum with one more value gives the least of all of them.
LEMMA LeastOfMore ==
    ASSUME NEW S \in SUBSET (Nat \cup {None}), NEW v, IsLeast(v, S), NEW w \in Nat \cup {None}
    PROVE  IsLeast(MinOption(v, w), S \cup {w})
<1>1. CASE w = None
  <2>1. (S \cup {w}) \ {None} = S \ {None} /\ MinOption(v, w) = v
    BY <1>1 DEF MinOption
  <2> QED BY <2>1 DEF IsLeast
<1>2. CASE w # None /\ S \ {None} = {}
  BY <1>2 DEF IsLeast, MinOption
<1>3. CASE w # None /\ S \ {None} # {}
  <2>1. /\ v \in S \ {None} /\ v \in Nat /\ w \in Nat
        /\ \A x \in S \ {None} : v <= x /\ x \in Nat
    BY <1>3, Zenon DEF IsLeast
  <2>2. MinOption(v, w) = IF v <= w THEN v ELSE w
    BY <1>3, <2>1 DEF MinOption
  <2> QED BY <1>3, <2>1, <2>2 DEF IsLeast
<1> QED BY <1>1, <1>2, <1>3

\* FragmentOptions::observe and FragmentOptionFailures keep the sums right as h grows by f.
LEMMA AppendSumsUp ==
    ASSUME NEW p \in PartialType, NEW h \in HistoryType, SumsUp(h, p), NEW f \in FragmentType
    PROVE  SumsUp(Append(h, [frag |-> f, age |-> 0]), Accept(p, f))
<1> DEFINE e == [frag |-> f, age |-> 0]
           g == Append(h, e)
           q == Accept(p, f)
           old == p.fragment_options
           new == q.fragment_options
<1>1. /\ \A i \in DOMAIN h : i \in DOMAIN g /\ g[i] = h[i]
      /\ Len(h) + 1 \in DOMAIN g /\ g[Len(h) + 1] = e
      /\ \A i \in DOMAIN g : i \in DOMAIN h \/ i = Len(h) + 1
  BY HistoryAppend
<1>2. /\ new = ObserveOptions(old, f.options)
      /\ q.option_failures = p.option_failures \cup f.failures
      /\ q.ocs = ObserveOcs(p.ocs, f.ocs)
  BY DEF Accept, PartialType
<1>3. e.frag = f
  OBVIOUS
<1> HIDE DEF e, g, q
<1>4. OptionsIn(g) = OptionsIn(h) \cup {f.options}
  BY <1>1, <1>3 DEF OptionsIn
<1>5. f.options \in OptionListType /\ OptionsIn(h) \subseteq OptionListType
  <2>1. \A i \in DOMAIN h : h[i].frag \in FragmentType
    BY HistoryElement
  <2> QED BY <2>1, OptionListsAssumption DEF OptionsIn, FragmentType
<1>6. IsLeast(new.mds, {o.mds : o \in OptionsIn(g)})
  <2> DEFINE S == {o.mds : o \in OptionsIn(h)}
             w == f.options.mds
  <2>1. {o.mds : o \in OptionsIn(g)} = S \cup {w}
    BY <1>4
  <2>2. S \in SUBSET (Nat \cup {None}) /\ w \in Nat \cup {None}
    BY <1>5 DEF OptionListType
  <2>3. IsLeast(old.mds, S)
    BY DEF SumsUp, Coalesced
  <2>4. new.mds = MinOption(old.mds, w)
    BY <1>2 DEF ObserveOptions
  <2> HIDE DEF S, w
  <2>5. IsLeast(MinOption(old.mds, w), S \cup {w})
    BY <2>2, <2>3, LeastOfMore
  <2> QED BY <2>1, <2>4, <2>5
<1>7. IsLeast(new.mrds_size, {o.mrds_size : o \in OptionsIn(g)})
  <2> DEFINE S == {o.mrds_size : o \in OptionsIn(h)}
             w == f.options.mrds_size
  <2>1. {o.mrds_size : o \in OptionsIn(g)} = S \cup {w}
    BY <1>4
  <2>2. S \in SUBSET (Nat \cup {None}) /\ w \in Nat \cup {None}
    BY <1>5 DEF OptionListType
  <2>3. IsLeast(old.mrds_size, S)
    BY DEF SumsUp, Coalesced
  <2>4. new.mrds_size = MinOption(old.mrds_size, w)
    BY <1>2 DEF ObserveOptions
  <2> HIDE DEF S, w
  <2>5. IsLeast(MinOption(old.mrds_size, w), S \cup {w})
    BY <2>2, <2>3, LeastOfMore
  <2> QED BY <2>1, <2>4, <2>5
<1>8. IsLeast(new.mrds_segments, {o.mrds_segments : o \in OptionsIn(g)})
  <2> DEFINE S == {o.mrds_segments : o \in OptionsIn(h)}
             w == f.options.mrds_segments
  <2>1. {o.mrds_segments : o \in OptionsIn(g)} = S \cup {w}
    BY <1>4
  <2>2. S \in SUBSET (Nat \cup {None}) /\ w \in Nat \cup {None}
    BY <1>5 DEF OptionListType
  <2>3. IsLeast(old.mrds_segments, S)
    BY DEF SumsUp, Coalesced
  <2>4. new.mrds_segments = MinOption(old.mrds_segments, w)
    BY <1>2 DEF ObserveOptions
  <2> HIDE DEF S, w
  <2>5. IsLeast(MinOption(old.mrds_segments, w), S \cup {w})
    BY <2>2, <2>3, LeastOfMore
  <2> QED BY <2>1, <2>4, <2>5, Zenon
<1>9. /\ new.req = None => \A o \in OptionsIn(g) : o.req = None
      /\ new.req # None => \E o \in OptionsIn(g) : o.req = new.req
      /\ new.res = None => \A o \in OptionsIn(g) : o.res = None
      /\ new.res # None => \E o \in OptionsIn(g) : o.res = new.res
  <2>1. /\ new.req = LastOption(old.req, f.options.req)
        /\ new.res = LastOption(old.res, f.options.res)
    BY <1>2 DEF ObserveOptions
  <2> QED BY <1>4, <2>1 DEF SumsUp, Coalesced, LastOption
<1>10. q.option_failures = UNION {g[i].frag.failures : i \in DOMAIN g}
  <2>1. {g[i].frag.failures : i \in DOMAIN g}
          = {h[i].frag.failures : i \in DOMAIN h} \cup {f.failures}
    BY <1>1, <1>3
  <2> QED BY <1>2, <2>1, Zenon DEF SumsUp, Coalesced
<1>11. \A i \in DOMAIN g : g[i].frag.ocs = "unobserved" => q.ocs = "unobserved"
  BY <1>1, <1>2, <1>3 DEF SumsUp, ObserveOcs
<1>12. Coalesced(g, new, q.option_failures)
  BY <1>6, <1>7, <1>8, <1>9, <1>10 DEF Coalesced
<1> QED BY <1>11, <1>12 DEF SumsUp, e, g, q

\* An accepted fragment with data or a terminal end is recognised when it comes again, and so
\* are the ones accepted before it: segments only grow and a known terminal end stays.
LEMMA AcceptRecognises ==
    ASSUME NEW p \in PartialType, Consistent(p),
           NEW f \in FragmentType, Normalizes(f), ~Conflicts(p, f)
    PROVE  /\ IsTerminal(f) \/ Len0(f) > 0 => IsExactDuplicate(Accept(p, f), f)
           /\ \A d \in FragmentType :
                 Normalizes(d) /\ IsExactDuplicate(p, d) => IsExactDuplicate(Accept(p, f), d)
<1> DEFINE q == Accept(p, f)
           first == IsTerminal(f) /\ p.terminal_end = None
<1>1. /\ q.segments = IF Len0(f) = 0 THEN p.segments ELSE p.segments \cup {Segment(f)}
      /\ q.terminal_end = IF first THEN End(f) ELSE p.terminal_end
      /\ q.udp_length = IF first THEN f.rdos ELSE p.udp_length
      /\ q.empty_terminal_options
            = IF first /\ Len0(f) = 0 THEN f.options ELSE p.empty_terminal_options
      /\ q.empty_terminal_failures
            = IF first /\ Len0(f) = 0 THEN f.failures ELSE p.empty_terminal_failures
  BY DEF Accept, PartialType
<1>2. Len0(f) \in Nat /\ End(f) \in Nat
  BY FragmentExtent
<1> HIDE DEF q
<1>3. ASSUME IsTerminal(f) \/ Len0(f) > 0 PROVE IsExactDuplicate(q, f)
  <2>1. IsTerminal(f) => q.udp_length = f.rdos /\ q.terminal_end = End(f)
    BY <1>1 DEF Conflicts, TerminalConflict
  <2>2. IsTerminal(f) /\ Len0(f) = 0 =>
           q.empty_terminal_options = f.options /\ q.empty_terminal_failures = f.failures
    BY <1>1 DEF Conflicts, TerminalConflict
  <2>3. Len0(f) # 0 => Segment(f) \in q.segments
    BY <1>1
  <2> QED BY <1>2, <1>3, <2>1, <2>2, <2>3 DEF IsExactDuplicate
<1>4. ASSUME NEW d \in FragmentType, Normalizes(d), IsExactDuplicate(p, d)
      PROVE  IsExactDuplicate(q, d)
  <2>1. End(d) \in Nat
    BY <1>4, FragmentExtent
  <2>2. IsTerminal(d) => ~first
    BY <1>4, <2>1, NoneAssumption DEF IsExactDuplicate
  <2>3. p.segments \subseteq q.segments
    BY <1>1
  <2> QED BY <1>1, <1>4, <2>2, <2>3 DEF IsExactDuplicate
<1> QED BY <1>3, <1>4 DEF q

LEMMA AppendRemembers ==
    ASSUME NEW p \in PartialType, Consistent(p), NEW h \in HistoryType, Remembers(h, p),
           NEW f \in FragmentType, Normalizes(f), ~Oversize(f), ~Conflicts(p, f)
    PROVE  Remembers(Append(h, [frag |-> f, age |-> 0]), Accept(p, f))
<1> DEFINE e == [frag |-> f, age |-> 0]
           g == Append(h, e)
           q == Accept(p, f)
<1>1. /\ \A i \in DOMAIN h : i \in DOMAIN g /\ g[i] = h[i]
      /\ g[Len(h) + 1] = e
      /\ \A i \in DOMAIN g : i \in DOMAIN h \/ i = Len(h) + 1
  BY HistoryAppend
<1>2. e.frag = f
  OBVIOUS
<1>3. \A i \in DOMAIN h : h[i].frag \in FragmentType
  BY HistoryElement
<1>4. /\ IsTerminal(f) \/ Len0(f) > 0 => IsExactDuplicate(q, f)
      /\ \A d \in FragmentType :
            Normalizes(d) /\ IsExactDuplicate(p, d) => IsExactDuplicate(q, d)
  BY AcceptRecognises
<1> HIDE DEF e, g, q
<1> QED BY <1>1, <1>2, <1>3, <1>4 DEF Remembers, e, g, q

\* Partial::insert and its history: Extended accounts for what is stored or completed.
LEMMA InsertAccounts ==
    ASSUME PartialsOK, NEW k, NEW f \in FragmentType, Normalizes(f), ~Oversize(f),
           InsertResult(PartialFor(k), f).kind \in {"Incomplete", "Complete"}
    PROVE  /\ Accounts(Extended(k, f), InsertResult(PartialFor(k), f).partial)
           /\ InsertResult(PartialFor(k), f).partial.age = PartialFor(k).age
<1> DEFINE p == PartialFor(k)
<1>1. p \in PartialType /\ Consistent(p) /\ Accounts(TakenFor(k), p)
  BY PartialForOK DEF RetainedOK
<1>2. CASE IsExactDuplicate(p, f)
  <2> DEFINE q == [p EXCEPT !.ocs = ObserveOcs(@, f.ocs)]
  <2>1. InsertResult(p, f).partial = q /\ Extended(k, f) = TakenFor(k)
    BY <1>2 DEF InsertResult, Extended
  <2>2. /\ q.segments = p.segments /\ q.terminal_end = p.terminal_end
        /\ q.udp_length = p.udp_length /\ q.age = p.age
        /\ q.fragment_options = p.fragment_options /\ q.option_failures = p.option_failures
        /\ q.empty_terminal_options = p.empty_terminal_options
        /\ q.empty_terminal_failures = p.empty_terminal_failures
        /\ q.ocs = ObserveOcs(p.ocs, f.ocs)
    BY <1>1 DEF PartialType
  <2> HIDE DEF p, q
  <2>3. Explains(TakenFor(k), q)
    BY <1>1, <2>2 DEF Accounts, Explains
  <2>4. SumsUp(TakenFor(k), q)
    BY <1>1, <2>2, SMTT(30) DEF Accounts, SumsUp, ObserveOcs
  <2>5. Remembers(TakenFor(k), q)
    BY <1>1, <2>2, SMTT(30) DEF Accounts, Remembers, IsExactDuplicate
  <2> QED BY <2>1, <2>2, <2>3, <2>4, <2>5 DEF Accounts, p
<1>3. CASE ~IsExactDuplicate(p, f)
  <2>1. InsertResult(p, f).partial = Accept(p, f) /\ ~Conflicts(p, f)
    BY <1>3 DEF InsertResult
  <2>2. Extended(k, f) = Append(TakenFor(k), [frag |-> f, age |-> 0])
    BY <1>3 DEF Extended
  <2>3. Accept(p, f).age = p.age
    BY <1>1 DEF Accept, PartialType
  <2>4. Explains(TakenFor(k), p) /\ TakenFor(k) \in HistoryType
    BY <1>1 DEF Accounts, Explains
  <2>5. SumsUp(TakenFor(k), p) /\ Remembers(TakenFor(k), p)
    BY <1>1 DEF Accounts
  <2> HIDE DEF p
  <2>6. Explains(Extended(k, f), Accept(p, f))
    BY <1>1, <2>2, <2>4, AppendExplains
  <2>7. SumsUp(Extended(k, f), Accept(p, f))
    BY <1>1, <2>2, <2>4, <2>5, AppendSumsUp
  <2>8. Remembers(Extended(k, f), Accept(p, f))
    BY <1>1, <2>1, <2>2, <2>4, <2>5, AppendRemembers
  <2> QED BY <2>1, <2>3, <2>6, <2>7, <2>8 DEF Accounts, p
<1> QED BY <1>2, <1>3

\* A history that an insert delivers is fresh, or is the single fragment just inserted.
LEMMA ExtendedFresh ==
    ASSUME PartialsOK, NEW k, NEW f \in FragmentType, Normalizes(f), ~Oversize(f),
           InsertResult(PartialFor(k), f).kind = "Complete",
           NEW o, o.from = Extended(k, f)
    PROVE  AllFresh(o)
<1>1. CASE k \in Live
  <2>1. PartialFor(k).age < EffectiveTimeout /\ PartialFor(k).age \in Nat
    <3>1. PartialFor(k) \in PartialType
      BY PartialForOK, SMTT(30) DEF RetainedOK
    <3> QED BY <1>1, <3>1, EffectiveTimeoutNat DEF Live, PartialFor, IsExpired, PartialType
  <2>2. Extended(k, f) \in HistoryType /\ \A i \in DOMAIN Extended(k, f) :
           Extended(k, f)[i].age <= PartialFor(k).age
    BY InsertAccounts DEF Accounts, Explains
  <2>3. \A i \in DOMAIN Extended(k, f) : Extended(k, f)[i].age \in Nat
    BY <2>2, HistoryElement
  <2> QED BY <2>1, <2>2, <2>3, EffectiveTimeoutNat DEF AllFresh
<1>2. CASE k \notin Live
  <2>1. PartialFor(k) = NewPartial /\ TakenFor(k) = <<>>
    BY <1>2 DEF PartialFor, TakenFor
  <2>2. ~IsExactDuplicate(NewPartial, f)
    BY DEF NewPartial, IsExactDuplicate, IsTerminal
  <2>3. Extended(k, f) = Append(<<>>, [frag |-> f, age |-> 0])
    BY <2>1, <2>2 DEF Extended
  <2>4. Len(Extended(k, f)) = 1
    BY <2>3, SMT
  <2> QED BY <2>4 DEF AllFresh
<1> QED BY <1>1, <1>2

\* What a completed partial delivers tiles the tail.
LEMMA CompletedTiles ==
    ASSUME NEW p \in PartialType, Consistent(p), CompleteResult(p) = "Complete", NEW k, NEW h
    PROVE  TilesTail(Completed(k, p, h))
<1> DEFINE o == Completed(k, p, h)
           Chunk(s) == [start |-> s.start, end |-> s.end, data |-> s.data]
<1>1. /\ o.tail = {Chunk(s) : s \in p.segments}
      /\ o.tail_len = p.terminal_end /\ o.udp_length = p.udp_length
  BY DEF Completed
<1>2. p.terminal_end \in Nat /\ p.udp_length \in Nat
  BY DEF CompleteResult, PartialType
<1>3. \A s \in p.segments : s.start \in Nat /\ s.end \in Nat
  BY DEF PartialType, SegmentType
<1>4. \A s \in p.segments :
        Chunk(s) \in o.tail /\ Chunk(s).start = s.start /\ Chunk(s).end = s.end
  BY <1>1
<1>5. \A c \in o.tail : \E s \in p.segments : c = Chunk(s)
  BY <1>1
<1> HIDE DEF o, Chunk
<1>6. \A i \in 0 .. (o.tail_len - 1) : \E c \in o.tail : i \in Positions(c)
  <2> SUFFICES ASSUME NEW i \in 0 .. (p.terminal_end - 1)
               PROVE  \E c \in o.tail : i \in Positions(c)
    BY <1>1
  <2>1. PICK s \in p.segments : s.start <= i /\ i < s.end
    <3>1. Extents(p.segments)
      BY <1>3 DEF Extents, Consistent
    <3> QED BY <1>2, <3>1, CompleteCovers
  <2>2. i \in Positions(Chunk(s))
    BY <1>2, <1>3, <1>4, <2>1 DEF Positions
  <2> QED BY <1>4, <2>2
<1>7. \A c, d \in o.tail : c = d \/ Positions(c) \cap Positions(d) = {}
  <2> SUFFICES ASSUME NEW s \in p.segments, NEW t \in p.segments, s # t
               PROVE  Positions(Chunk(s)) \cap Positions(Chunk(t)) = {}
    BY <1>5
  <2>1. Disjoint(s, t)
    BY DEF Consistent
  <2> QED BY <1>3, <1>4, <2>1 DEF Disjoint, Positions
<1>8. \A c \in o.tail : 0 <= c.start /\ c.end <= o.tail_len
  BY <1>1, <1>2, <1>3, <1>4, <1>5, NoneAssumption DEF Consistent
<1>9. UdpHeader + o.tail_len <= MaxReassembledSize
      /\ o.udp_length - UdpHeader \in 0 .. o.tail_len
  BY <1>1, <1>2, NoneAssumption, SMTT(30) DEF Consistent, UdpHeader
<1> QED BY <1>6, <1>7, <1>8, <1>9, SMTT(30) DEF TilesTail, o

LEMMA CompletedTaken ==
    ASSUME NEW p \in PartialType, NEW h, Explains(h, p), CompleteResult(p) = "Complete", NEW k
    PROVE  TailTaken(Completed(k, p, h))
<1> DEFINE o == Completed(k, p, h)
           Chunk(s) == [start |-> s.start, end |-> s.end, data |-> s.data]
<1>1. /\ o.tail = {Chunk(s) : s \in p.segments} /\ o.from = h
      /\ o.tail_len = p.terminal_end /\ o.udp_length = p.udp_length
  BY Zenon DEF Completed
<1>2. p.terminal_end # None
  BY DEF CompleteResult
<1>3. ASSUME NEW c \in o.tail
      PROVE  \E i \in DOMAIN h :
                c = [start |-> Start(h[i].frag), end |-> End(h[i].frag), data |-> h[i].frag.data]
  <2>1. PICK s \in p.segments : c = Chunk(s)
    BY <1>1
  <2>2. PICK i \in DOMAIN h : s = Segment(h[i].frag)
    BY SMTT(30) DEF Explains
  <2> QED BY <2>1, <2>2 DEF Segment
<1> HIDE DEF o
<1> QED BY <1>1, <1>2, <1>3, SMTT(40) DEF TailTaken, Explains, o

\* Whatever insert() reports as complete is a tiled tail of fresh, accepted fragments.
LEMMA CompletedOK ==
    ASSUME PartialsOK, NEW k, NEW f \in FragmentType, Normalizes(f), ~Oversize(f),
           InsertResult(PartialFor(k), f).kind = "Complete"
    PROVE  DeliveredOK(Completed(k, InsertResult(PartialFor(k), f).partial, Extended(k, f)))
<1> DEFINE q == InsertResult(PartialFor(k), f).partial
           h == Extended(k, f)
           o == Completed(k, q, h)
<1>1. RetainedOK(PartialFor(k), TakenFor(k))
  BY PartialForOK
<1>2. q \in PartialType /\ Consistent(q) /\ CompleteResult(q) = "Complete"
  BY <1>1, InsertResultOK DEF RetainedOK
<1>3. Explains(h, q) /\ SumsUp(h, q)
  BY InsertAccounts, SMTT(30) DEF Accounts
<1>4. /\ o.from = h /\ o.options = q.fragment_options
      /\ o.failures = q.option_failures /\ o.ocs = q.ocs
  BY Zenon DEF Completed
<1> HIDE DEF q, h, o
<1>5. TilesTail(o) /\ TailTaken(o)
  BY <1>2, <1>3, CompletedTiles, CompletedTaken DEF o
<1>6. AllFresh(o)
  BY <1>4, ExtendedFresh DEF h
<1>7. /\ Coalesced(o.from, o.options, o.failures)
      /\ \A i \in DOMAIN o.from : o.from[i].frag.ocs = "unobserved" => o.ocs = "unobserved"
  BY <1>3, <1>4 DEF SumsUp
<1> QED BY <1>5, <1>6, <1>7, Zenon DEF DeliveredOK, q, h, o

\* Storing an explained partial for one key preserves what is retained.
LEMMA StoreOK ==
    ASSUME DomainsOK, PartialsOK, NEW k \in Keys, HasRoom(k), NEW p, NEW h,
           RetainedOK(p, h), GcAndStore(k, p, h)
    PROVE  DomainsOK' /\ PartialsOK'
<1>1. /\ DOMAIN partials' = Live \cup {k} /\ DOMAIN taken' = Live \cup {k}
      /\ \A j \in Live \cup {k} : /\ partials'[j] = IF j = k THEN p ELSE partials[j]
                                  /\ taken'[j] = IF j = k THEN h ELSE taken[j]
  BY DEF GcAndStore
<1>2. Live \subseteq DOMAIN partials /\ Live \subseteq Keys
  BY DEF Live, DomainsOK
<1>3. /\ IsFiniteSet(Live) /\ Cardinality(Live) \in Nat
      /\ Cardinality(Live) <= MaxPendingPartials
  BY <1>2, LiveFinite
<1>4. IsFiniteSet(Live \cup {k}) /\ Cardinality(Live \cup {k}) <= MaxPendingPartials
  <2>1. CASE k \in Live
    <3>1. Live \cup {k} = Live
      BY <2>1
    <3> QED BY <1>3, <3>1
  <2>2. CASE k \notin Live
    <3>1. Cardinality(Live) < MaxPendingPartials
      BY <2>2 DEF HasRoom
    <3>2. /\ IsFiniteSet(Live \cup {k})
          /\ Cardinality(Live \cup {k}) = Cardinality(Live) + 1
      BY <1>3, <2>2, FS_AddElement
    <3> QED BY <1>3, <3>1, <3>2, LimitsAssumption
  <2> QED BY <2>1, <2>2
<1>5. DomainsOK'
  BY <1>1, <1>2, <1>4 DEF DomainsOK, PendingBounded
<1>6. PartialsOK'
  BY <1>1, <1>2 DEF PartialsOK
<1> QED BY <1>5, <1>6

LEMMA InsertStep ==
    ASSUME IInv, NEW k \in Keys, NEW f \in FragmentType, Insert(k, f)
    PROVE  IInv'
<1> DEFINE r == InsertResult(PartialFor(k), f)
<1>1. DomainsOK /\ PartialsOK
  BY DEF IInv
<1>2. Live \in SUBSET DOMAIN partials /\ Live \ {k} \in SUBSET DOMAIN partials
  BY DEF Live
<1>3. CASE InsertMalformed(k, f) \/ InsertOversize(k, f)
  <2>1. DomainsOK' /\ PartialsOK'
    BY <1>1, <1>2, <1>3, ShrinkOK DEF InsertMalformed, InsertOversize, GcAndRemove
  <2>2. DeliveredOK(outcome')
    BY <1>3 DEF InsertMalformed, InsertOversize, Returned, DeliveredOK
  <2> QED BY <2>1, <2>2 DEF IInv, DeliveredOK
<1>4. CASE InsertWithoutRetaining(k, f)
  <2>1. DomainsOK' /\ PartialsOK'
    BY <1>1, <1>2, <1>4, ShrinkOK DEF InsertWithoutRetaining, GcOnly
  <2>2. PartialFor(k) = NewPartial
    BY <1>4 DEF InsertWithoutRetaining, HasRoom, PartialFor
  <2>3. CASE r.kind = "Complete"
    <3>1. outcome' = Completed(k, r.partial, Extended(k, f))
      BY <1>4, <2>2, <2>3 DEF InsertWithoutRetaining
    <3>2. DeliveredOK(outcome')
      BY <1>1, <1>4, <2>3, <3>1, CompletedOK DEF InsertWithoutRetaining
    <3> QED BY <2>1, <3>2 DEF IInv, DeliveredOK
  <2>4. CASE r.kind # "Complete"
    <3>1. outcome' = Returned("LimitExceeded", k) \/ outcome' = Returned(r.kind, k)
      BY <1>4, <2>2, <2>4 DEF InsertWithoutRetaining
    <3>2. DeliveredOK(outcome')
      BY <2>4, <3>1 DEF Returned, DeliveredOK
    <3> QED BY <2>1, <3>2 DEF IInv, DeliveredOK
  <2> QED BY <2>3, <2>4
<1>5. CASE InsertRetaining(k, f)
  <2>0. Normalizes(f) /\ ~Oversize(f) /\ HasRoom(k)
    BY <1>5 DEF InsertRetaining
  <2>1. CASE r.kind = "Incomplete" /\ GcAndStore(k, r.partial, Extended(k, f))
             /\ outcome' = Returned("Incomplete", k)
    <3>1. RetainedOK(PartialFor(k), TakenFor(k))
      BY <1>1, PartialForOK
    <3>2. RetainedOK(r.partial, Extended(k, f))
      BY <1>1, <2>0, <2>1, <3>1, InsertResultOK, InsertAccounts DEF RetainedOK
    <3>3. DomainsOK' /\ PartialsOK'
      BY <1>1, <2>0, <2>1, <3>2, StoreOK, SMTT(30)
    <3>4. DeliveredOK(outcome')
      BY <2>1 DEF Returned, DeliveredOK
    <3> QED BY <3>3, <3>4 DEF IInv, DeliveredOK
  <2>2. CASE r.kind = "Complete" /\ GcAndRemove(k)
             /\ outcome' = Completed(k, r.partial, Extended(k, f))
    <3>1. DomainsOK' /\ PartialsOK'
      BY <1>1, <1>2, <2>2, ShrinkOK DEF GcAndRemove
    <3>2. DeliveredOK(outcome')
      BY <1>1, <2>0, <2>2, CompletedOK
    <3> QED BY <3>1, <3>2 DEF IInv, DeliveredOK
  <2>3. CASE r.kind \in {"LimitExceeded", "Overlap"} /\ GcAndRemove(k)
             /\ outcome' = Returned(r.kind, k)
    <3>1. DomainsOK' /\ PartialsOK'
      BY <1>1, <1>2, <2>3, ShrinkOK, SMTT(30) DEF GcAndRemove
    <3>2. DeliveredOK(outcome')
      BY <2>3 DEF Returned, DeliveredOK
    <3> QED BY <3>1, <3>2 DEF IInv, DeliveredOK
  <2> QED BY <1>5, <2>1, <2>2, <2>3 DEF InsertRetaining
<1> QED BY <1>3, <1>4, <1>5 DEF Insert

\* Growing older keeps a partial explained: Older is monotonic.
LEMMA OlderOK ==
    ASSUME NEW p, NEW h, RetainedOK(p, h)
    PROVE  RetainedOK([p EXCEPT !.age = Older(@)],
                      [i \in DOMAIN h |-> [h[i] EXCEPT !.age = Older(@)]])
<1> DEFINE q == [p EXCEPT !.age = Older(@)]
           g == [i \in DOMAIN h |-> [h[i] EXCEPT !.age = Older(@)]]
<1>1. /\ \A a \in Nat : Older(a) \in Nat
      /\ \A a, b \in Nat : a <= b => Older(a) <= Older(b)
  BY EffectiveTimeoutNat DEF Older
<1>2. p \in PartialType /\ h \in HistoryType /\ p.age \in Nat
  BY DEF RetainedOK, Accounts, Explains, PartialType
<1>3. /\ q \in PartialType
      /\ q.segments = p.segments /\ q.terminal_end = p.terminal_end
      /\ q.udp_length = p.udp_length /\ q.age = Older(p.age)
      /\ q.fragment_options = p.fragment_options /\ q.option_failures = p.option_failures
      /\ q.empty_terminal_options = p.empty_terminal_options
      /\ q.empty_terminal_failures = p.empty_terminal_failures
      /\ q.ocs = p.ocs
  BY <1>1, <1>2 DEF PartialType
<1>4. \A i \in DOMAIN h :
        /\ g[i] \in [frag : FragmentType, age : Nat]
        /\ g[i].frag = h[i].frag /\ g[i].age = Older(h[i].age)
  <2> TAKE i \in DOMAIN h
  <2>1. h[i] \in [frag : FragmentType, age : Nat]
    <3> DEFINE E == [frag : FragmentType, age : Nat]
    <3>1. h \in Seq(E)
      BY <1>2 DEF HistoryType
    <3> HIDE DEF E
    <3>2. h[i] \in E
      BY <3>1
    <3> QED BY <3>2 DEF E
  <2>2. g[i] = [h[i] EXCEPT !.age = Older(@)]
    OBVIOUS
  <2> HIDE DEF g
  <2> QED BY <1>1, <2>1, <2>2
<1>5. g \in HistoryType /\ DOMAIN g = DOMAIN h
  <2> DEFINE E == [frag : FragmentType, age : Nat]
  <2>1. DOMAIN g = DOMAIN h
    OBVIOUS
  <2>2. h \in Seq(E)
    BY <1>2 DEF HistoryType
  <2>3. \A i \in DOMAIN h : g[i] \in E
    BY <1>4, Zenon
  <2> HIDE DEF E
  <2>4. g \in Seq(E)
    BY <2>2, <2>3, SMTT(30)
  <2> QED BY <2>1, <2>4 DEF HistoryType, E
<1> HIDE DEF q, g
<1>6. Consistent(q) /\ CompleteResult(q) = "Incomplete"
  BY <1>3 DEF RetainedOK, Consistent, CompleteResult
<1>7. \A i \in DOMAIN g : g[i].age <= q.age
  <2>1. \A i \in DOMAIN h : h[i].age \in Nat /\ h[i].age <= p.age
    BY <1>2, HistoryElement DEF RetainedOK, Accounts, Explains
  <2> QED BY <1>1, <1>2, <1>3, <1>4, <1>5, <2>1
<1>8. Explains(g, q)
  BY <1>3, <1>4, <1>5, <1>7, SMTT(30) DEF RetainedOK, Accounts, Explains
<1>9. SumsUp(g, q)
  <2>1. /\ OptionsIn(g) = OptionsIn(h)
        /\ {g[i].frag.failures : i \in DOMAIN g} = {h[i].frag.failures : i \in DOMAIN h}
    BY <1>4, <1>5 DEF OptionsIn
  <2>2. Coalesced(g, q.fragment_options, q.option_failures)
    BY <1>3, <2>1, ZenonT(60) DEF RetainedOK, Accounts, SumsUp, Coalesced
  <2> QED BY <1>3, <1>4, <1>5, <2>2 DEF RetainedOK, Accounts, SumsUp
<1>10. Remembers(g, q)
  <2>1. \A d : IsExactDuplicate(p, d) => IsExactDuplicate(q, d)
    BY <1>3 DEF IsExactDuplicate
  <2> QED BY <1>4, <1>5, <2>1 DEF RetainedOK, Accounts, Remembers
<1> QED BY <1>3, <1>6, <1>8, <1>9, <1>10 DEF RetainedOK, Accounts, q, g

LEMMA TickStep ==
    ASSUME IInv, Tick
    PROVE  IInv'
<1>1. DOMAIN taken = DOMAIN partials
  BY DEF IInv, DomainsOK
<1>2. /\ DOMAIN partials' = DOMAIN partials /\ DOMAIN taken' = DOMAIN partials
      /\ \A k \in DOMAIN partials :
            /\ partials'[k] = [partials[k] EXCEPT !.age = Older(@)]
            /\ taken'[k] = [i \in DOMAIN taken[k] |-> [taken[k][i] EXCEPT !.age = Older(@)]]
  BY <1>1 DEF Tick
<1>3. DomainsOK'
  BY <1>2 DEF IInv, DomainsOK, PendingBounded
<1>4. PartialsOK'
  <2> SUFFICES ASSUME NEW k \in DOMAIN partials
               PROVE  RetainedOK(partials'[k], taken'[k])
    BY <1>2 DEF PartialsOK
  <2>1. RetainedOK(partials[k], taken[k])
    BY DEF IInv, PartialsOK
  <2> QED BY <1>2, <2>1, OlderOK
<1>5. DeliveredOK(outcome')
  BY DEF Tick, DeliveredOK
<1> QED BY <1>3, <1>4, <1>5 DEF IInv, DeliveredOK

\* Every step of the cache preserves the invariant.
LEMMA NextStep ==
    ASSUME IInv, [Next]_vars
    PROVE  IInv'
<1>1. CASE \E k \in Keys, f \in Fragments : Insert(k, f)
  BY <1>1, InsertStep, FragmentsAssumption
<1>2. ASSUME NEW k \in Keys, Discard(k) PROVE IInv'
  <2>1. DOMAIN partials \ {k} \in SUBSET DOMAIN partials
    OBVIOUS
  <2>2. DomainsOK' /\ PartialsOK'
    BY <1>2, <2>1, ShrinkOK DEF IInv, Discard
  <2>3. DeliveredOK(outcome')
    BY <1>2 DEF Discard, DeliveredOK
  <2> QED BY <2>2, <2>3 DEF IInv, DeliveredOK
<1>3. CASE Gc
  <2>1. DomainsOK' /\ PartialsOK'
    BY <1>3, LiveSubset, ShrinkOK DEF IInv, Gc, GcOnly
  <2>2. DeliveredOK(outcome')
    BY <1>3 DEF Gc, DeliveredOK
  <2> QED BY <2>1, <2>2 DEF IInv, DeliveredOK
<1>4. CASE Tick
  BY <1>4, TickStep
<1>5. CASE UNCHANGED vars
  <2>1. DomainsOK'
    BY <1>5 DEF vars, IInv, DomainsOK, PendingBounded
  <2>2. PartialsOK'
    BY <1>5 DEF vars, IInv, PartialsOK
  <2>3. DeliveredOK(outcome')
    BY <1>5 DEF vars, IInv
  <2> QED BY <2>1, <2>2, <2>3 DEF IInv, DeliveredOK
<1> QED BY <1>1, <1>2, <1>3, <1>4, <1>5 DEF Next

LEMMA InitOK ==
    ASSUME Init
    PROVE  IInv
<1>1. DOMAIN partials = {} /\ DOMAIN taken = {}
  BY DEF Init
<1>2. DomainsOK
  BY <1>1, FS_EmptySet, LimitsAssumption DEF DomainsOK, PendingBounded
<1> QED BY <1>1, <1>2 DEF IInv, PartialsOK, DeliveredOK, Init

\* A self-contained fragment completes a new partial by itself.
LEMMA AtomicCompletes ==
    ASSUME NEW f \in FragmentType, SelfContained(f), MaxSegments > 0
    PROVE  InsertResult(NewPartial, f).kind = "Complete"
<1> DEFINE q == Accept(NewPartial, f)
<1>1. /\ Len0(f) \in Nat /\ End(f) \in Nat /\ Start(f) = 0 /\ End(f) = Len0(f)
      /\ f.rdos \in Nat /\ UdpHeader <= f.rdos /\ f.rdos - UdpHeader <= End(f)
      /\ IsTerminal(f) /\ UdpHeader + End(f) <= MaxReassembledSize
  <2>1. Len0(f) \in Nat /\ Start(f) \in Nat /\ End(f) = Start(f) + Len0(f)
    BY FragmentExtent DEF SelfContained
  <2>2. f.rdos \in Nat
    BY DEF SelfContained, IsTerminal, FragmentType
  <2> QED BY <2>1, <2>2, LimitsAssumption DEF SelfContained, Oversize, UdpHeader
<1>2. ~IsExactDuplicate(NewPartial, f)
  BY <1>1 DEF IsExactDuplicate, NewPartial, IsTerminal
<1>3. ~ExceedsLimit(NewPartial, f)
  BY <1>1, LimitsAssumption DEF ExceedsLimit, NewPartial, UdpHeader
<1>4. ~Conflicts(NewPartial, f)
  BY <1>1 DEF Conflicts, Overlaps, TerminalConflict, NewPartial, UdpHeader
<1>5. /\ q.terminal_end = End(f) /\ q.udp_length = f.rdos
      /\ q.segments = IF Len0(f) = 0 THEN {} ELSE {Segment(f)}
  BY <1>1 DEF Accept, NewPartial
<1> HIDE DEF q
<1>6. Mismatches(q.segments) = {} /\ CursorAfter(q.segments) = q.terminal_end
  <2>1. CASE Len0(f) = 0
    BY <1>1, <1>5, <2>1 DEF Mismatches, CursorAfter
  <2>2. CASE Len0(f) # 0
    <3>1. Segment(f).start = 0 /\ Segment(f).end = End(f)
      BY <1>1 DEF Segment
    <3>2. q.segments = {Segment(f)}
      BY <1>5, <2>2
    <3>3. Before(q.segments, Segment(f)) = {}
      BY <3>1, <3>2 DEF Before
    <3>4. Mismatches(q.segments) = {}
      BY <3>1, <3>2, <3>3 DEF Mismatches, CursorAfter
    <3>5. (CHOOSE s \in q.segments : \A t \in q.segments : t.start <= s.start) = Segment(f)
      BY <3>1, <3>2
    <3> QED BY <1>5, <3>1, <3>2, <3>4, <3>5 DEF CursorAfter
  <2> QED BY <2>1, <2>2
<1>7. CompleteResult(q) = "Complete"
  BY <1>1, <1>5, <1>6, NoneAssumption, Zenon DEF CompleteResult
<1> QED BY <1>2, <1>3, <1>4, <1>7 DEF InsertResult, q

-----------------------------------------------------------------------------
\* Theorems

\* The inductive invariant holds in every reachable state of the cache.
THEOREM Invariance == Spec => []IInv
<1>1. Init => IInv
  BY InitOK
<1>2. IInv /\ [Next]_vars => IInv'
  BY NextStep
<1> QED BY <1>1, <1>2, PTL DEF Spec

\* Every partial of the cache is well formed, whatever is inserted in whatever order.
THEOREM TypeCorrect == Spec => []TypeOK
<1>1. IInv => TypeOK
  BY DEF IInv, DomainsOK, PartialsOK, RetainedOK, TypeOK
<1> QED BY <1>1, Invariance, PTL

\* Retained segments stay disjoint, inside the terminal end and within the size limit
\* (the checks of Partial::insert).
THEOREM RetainedConsistent == Spec => []SegmentsConsistent
<1>1. IInv => SegmentsConsistent
  BY DEF IInv, PartialsOK, RetainedOK, SegmentsConsistent
<1> QED BY <1>1, Invariance, PTL

\* A datagram is delivered by the insert that completes it: no complete partial is retained, so
\* the early return for duplicates never hides one.
THEOREM CompletionNotMissed == Spec => []NeverRetainsComplete
<1>1. IInv => NeverRetainsComplete
  BY DEF IInv, PartialsOK, RetainedOK, NeverRetainsComplete
<1> QED BY <1>1, Invariance, PTL

\* The number of retained partials never exceeds max_pending_partials.
THEOREM RetentionBounded == Spec => []PendingBounded
<1>1. IInv => PendingBounded
  BY DEF IInv, DomainsOK
<1> QED BY <1>1, Invariance, PTL

\* What complete() delivers has no gap, no overlap and no byte outside the announced tail.
THEOREM DeliveryTiles == Spec => []CompleteTilesTail
<1>1. IInv => CompleteTilesTail
  BY DEF IInv, DeliveredOK, CompleteTilesTail
<1> QED BY <1>1, Invariance, PTL

\* Every byte complete() delivers was in a fragment this partial accepted, at that offset.
THEOREM DeliveryFromTaken == Spec => []TailFromTakenFragments
<1>1. IInv => TailFromTakenFragments
  BY DEF IInv, DeliveredOK, TailFromTakenFragments
<1> QED BY <1>1, Invariance, PTL

\* No fragment of a delivered set of several has reached the timeout.
THEOREM DeliveryFresh == Spec => []ContributorsFresh
<1>1. IInv => ContributorsFresh
  BY DEF IInv, DeliveredOK, ContributorsFresh
<1> QED BY <1>1, Invariance, PTL

\* The option values and failures delivered with a datagram are the minima, tokens and union
\* over exactly the fragments it was made of (FragmentOptions::observe).
THEOREM DeliveryCoalesces == Spec => []OptionsCoalesced
<1>1. IInv => OptionsCoalesced
  BY DEF IInv, DeliveredOK, OptionsCoalesced
<1> QED BY <1>1, Invariance, PTL

\* A call about one key never costs another key's unexpired partial.
THEOREM KeysIndependent == Spec => OtherKeysUntouched
<1> DEFINE A == \A j \in DOMAIN partials : KeptOrConcerned(j)
<1>1. ASSUME NEW k \in Keys, NEW f \in Fragments, Insert(k, f), NEW j \in DOMAIN partials
      PROVE  KeptOrConcerned(j)
  <2> SUFFICES ASSUME j \in Live PROVE KeptOrConcerned(j)
    BY DEF Live, KeptOrConcerned
  <2>1. outcome'.key = k /\ outcome'.kind \in InsertKinds
    <3>1. CASE InsertMalformed(k, f) \/ InsertOversize(k, f)
      BY <3>1 DEF InsertMalformed, InsertOversize, Returned, InsertKinds
    <3>2. CASE InsertWithoutRetaining(k, f)
      <4> DEFINE r == InsertResult(NewPartial, f)
      <4>1. r.kind \in InsertKinds
        BY InsertResultKind
      <4>2. \/ outcome' = Completed(k, r.partial, Extended(k, f))
            \/ outcome' = Returned("LimitExceeded", k)
            \/ outcome' = Returned(r.kind, k)
        BY <3>2 DEF InsertWithoutRetaining
      <4> HIDE DEF r
      <4> QED BY <4>1, <4>2 DEF Completed, Returned, InsertKinds
    <3>3. CASE InsertRetaining(k, f)
      <4> DEFINE r == InsertResult(PartialFor(k), f)
      <4>1. \/ outcome' = Completed(k, r.partial, Extended(k, f))
            \/ outcome' = Returned("Incomplete", k)
            \/ outcome' = Returned(r.kind, k) /\ r.kind \in {"LimitExceeded", "Overlap"}
        BY <3>3, SMTT(30) DEF InsertRetaining
      <4> HIDE DEF r
      <4> QED BY <4>1 DEF Completed, Returned, InsertKinds
    <3> QED BY <1>1, <3>1, <3>2, <3>3 DEF Insert
  <2>2. j # k => j \in DOMAIN partials' /\ partials'[j] = partials[j]
    BY <1>1, Zenon DEF Insert, InsertMalformed, InsertOversize, InsertWithoutRetaining,
                InsertRetaining, GcOnly, GcAndRemove, GcAndStore, Restrict
  <2> QED BY <2>1, <2>2 DEF KeptOrConcerned
<1>2. Next => A
  <2>1. ASSUME NEW k \in Keys, Discard(k) PROVE A
    BY <2>1 DEF Discard, Restrict, KeptOrConcerned
  <2>2. CASE Gc
    BY <2>2 DEF Gc, GcOnly, Restrict, Live, KeptOrConcerned
  <2>3. CASE Tick
    BY <2>3 DEF Tick, KeptOrConcerned
  <2> QED BY <1>1, <2>1, <2>2, <2>3 DEF Next
<1>3. [Next]_vars => [A]_vars
  BY <1>2
<1> QED BY <1>3, PTL DEF Spec, OtherKeysUntouched

\* A fragment with data or a terminal end that comes again leaves its partial as it was, but for
\* the OCS verdict (the early return of Partial::insert for is_exact_duplicate).
THEOREM DuplicatesSuppressed == Spec => DataDuplicateIsNoOp
<1> DEFINE A == \A k \in Live : \A i \in DOMAIN taken[k] :
                   IsTerminal(taken[k][i].frag) \/ Len0(taken[k][i].frag) > 0
                      => LeavesPartial(k, taken[k][i].frag)
<1>1. IInv => A
  <2> SUFFICES ASSUME IInv, NEW k \in Live, NEW i \in DOMAIN taken[k],
                      IsTerminal(taken[k][i].frag) \/ Len0(taken[k][i].frag) > 0,
                      Insert(k, taken[k][i].frag)
               PROVE  /\ k \in DOMAIN partials'
                      /\ partials'[k] = [partials[k] EXCEPT !.ocs = partials'[k].ocs]
    BY DEF LeavesPartial
  <2> DEFINE f == taken[k][i].frag
             p == partials[k]
             q == [p EXCEPT !.ocs = ObserveOcs(@, f.ocs)]
  <2>1. RetainedOK(p, taken[k])
    BY SMTT(30) DEF Live, IInv, PartialsOK
  <2>2. Normalizes(f) /\ ~Oversize(f) /\ IsExactDuplicate(p, f)
    BY <2>1 DEF RetainedOK, Accounts, Remembers
  <2>3. PartialFor(k) = p /\ HasRoom(k)
    BY DEF PartialFor, HasRoom
  <2>4. InsertResult(p, f) = [kind |-> "Incomplete", partial |-> q]
    BY <2>2, SMTT(30) DEF InsertResult
  <2>5. InsertRetaining(k, f)
    BY <2>2, <2>3, Zenon DEF Insert, InsertMalformed, InsertOversize, InsertWithoutRetaining
  <2>6. GcAndStore(k, q, Extended(k, f))
    <3> HIDE DEF f, p, q
    <3> QED BY <2>3, <2>4, <2>5 DEF InsertRetaining
  <2>7. k \in DOMAIN partials' /\ partials'[k] = q
    <3> HIDE DEF q
    <3> QED BY <2>6 DEF GcAndStore
  <2>8. p \in PartialType
    BY <2>1 DEF RetainedOK
  <2>9. q = [p EXCEPT !.ocs = q.ocs]
    BY <2>8 DEF PartialType
  <2> QED BY <2>7, <2>9
<1>2. IInv /\ [Next]_vars => [A]_vars
  BY <1>1
<1> QED BY <1>2, Invariance, PTL DEF Spec, DataDuplicateIsNoOp

\* An atomic fragment of a key without a live partial is delivered at once, whether the cache has
\* room for another partial or not.
THEOREM AtomicDelivered == Spec => AtomicAlwaysCompletes
<1> DEFINE A == \A k \in Keys \ Live, f \in {g \in Fragments : SelfContained(g)} :
                   MaxSegments > 0 /\ Insert(k, f) => outcome'.kind = "Complete"
<1>1. A
  <2> SUFFICES ASSUME NEW k \in Keys \ Live, NEW f \in Fragments, SelfContained(f),
                      MaxSegments > 0, Insert(k, f)
               PROVE  outcome'.kind = "Complete"
    OBVIOUS
  <2>1. f \in FragmentType /\ Normalizes(f) /\ ~Oversize(f) /\ IsTerminal(f) /\ Start(f) = 0
    BY FragmentsAssumption DEF SelfContained
  <2>2. InsertResult(NewPartial, f).kind = "Complete"
    BY <2>1, AtomicCompletes
  <2>3. PartialFor(k) = NewPartial
    BY DEF PartialFor
  <2>4. InsertWithoutRetaining(k, f) \/ InsertRetaining(k, f)
    BY <2>1 DEF Insert, InsertMalformed, InsertOversize
  <2>5. \E p, h : outcome' = Completed(k, p, h)
    BY <2>2, <2>3, <2>4 DEF InsertWithoutRetaining, InsertRetaining
  <2> QED BY <2>5 DEF Completed
<1>2. [Next]_vars => [A]_vars
  BY <1>1
<1> QED BY <1>2, PTL DEF Spec, AtomicAlwaysCompletes

=============================================================================
