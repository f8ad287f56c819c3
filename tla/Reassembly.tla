----------------------------- MODULE Reassembly -----------------------------
(***************************************************************************)
(* The receive-side FRAG reassembly cache (src/frag/reassembly.rs).        *)
(*                                                                         *)
(* A cache maps a FragKey to the incomplete datagram (Partial) collected   *)
(* so far.  insert() first drops the expired partials, then checks the     *)
(* fragment, then feeds it to its partial, which stays, completes or       *)
(* aborts.  discard() and gc() are called by the receive pipeline and by   *)
(* the application.                                                        *)
(*                                                                         *)
(* Bytes are opaque: Data is a set of byte strings of which only equality  *)
(* and length are known.  A per-fragment option list is the record of the  *)
(* values it carries.  Time enters the code only as now - received_at, so  *)
(* a partial carries that difference, its age, up to the timeout.          *)
(***************************************************************************)
EXTENDS Integers, FiniteSets, Sequences, Functions

CONSTANTS
    Keys,                  \* FragKey: UDP 4-tuple and Identification
    Data, DataLen,         \* byte strings and their lengths
    OptionLists, Tokens,   \* per-fragment option lists and the REQ/RES tokens in them
    Kinds,                 \* option kinds that may be reported as failed
    Fragments,             \* the fragments callers may insert
    MaxReassembledSize,    \* ReassemblyLimits::max_reassembled_size
    MaxSegments,           \* ReassemblyLimits::max_segments
    MaxPendingPartials,    \* ReassemblyLimits::max_pending_partials
    Timeout,               \* ReassemblyLimits::timeout, in clock ticks
    TimeoutMax,            \* limits::REASSEMBLY_TIMEOUT_MAX, in clock ticks
    None                   \* Option::None

UdpHeader == 8

OcsObservations == {"valid", "unused", "unobserved"}

OptionListType ==
    [mds : Nat \cup {None}, mrds_size : Nat \cup {None}, mrds_segments : Nat \cup {None},
     req : Tokens \cup {None}, res : Tokens \cup {None}]

FragmentType ==
    [offset : Nat, rdos : Nat \cup {None}, data : Data, options : OptionLists,
     failures : SUBSET Kinds, ocs : OcsObservations]

ASSUME NoneAssumption == None \notin Nat
ASSUME DataAssumption == DataLen \in [Data -> Nat]
ASSUME OptionListsAssumption == OptionLists \subseteq OptionListType
ASSUME FragmentsAssumption == Fragments \subseteq FragmentType
ASSUME LimitsAssumption ==
    /\ MaxReassembledSize \in Nat
    /\ MaxSegments \in Nat
    /\ MaxPendingPartials \in Nat
    /\ Timeout \in Nat
    /\ TimeoutMax \in Nat

VARIABLES
    partials,   \* ReassemblyCache::partials
    outcome,    \* what the last call returned, and the key it was about
    taken       \* history: the fragments each partial has accepted, with ages

vars == <<partials, outcome, taken>>

-----------------------------------------------------------------------------
\* Fragments

Len0(f) == DataLen[f.data]

IsTerminal(f) == f.rdos # None

\* NormalizedFragment::new; offset zero is the atomic form of a terminal fragment.
Normalizes(f) == f.offset >= UdpHeader \/ (f.offset = 0 /\ IsTerminal(f))
Start(f) == IF f.offset = 0 THEN 0 ELSE f.offset - UdpHeader
End(f) == Start(f) + Len0(f)

\* The size checks insert() makes before it looks for a partial.
Oversize(f) ==
    \/ IsTerminal(f) /\ f.rdos > MaxReassembledSize
    \/ UdpHeader + End(f) > MaxReassembledSize

-----------------------------------------------------------------------------
\* Per-fragment options, coalesced over the fragments of a datagram

NoOptions == [mds |-> None, mrds_size |-> None, mrds_segments |-> None,
              req |-> None, res |-> None]

MinOption(a, b) ==
    IF a = None THEN b ELSE IF b = None THEN a ELSE IF a <= b THEN a ELSE b

LastOption(a, b) == IF b = None THEN a ELSE b

\* Slip: the last MDS wins instead of the smallest.
ObserveOptionsLastMds(acc, o) ==
    [mds           |-> LastOption(acc.mds, o.mds),
     mrds_size     |-> MinOption(acc.mrds_size, o.mrds_size),
     mrds_segments |-> MinOption(acc.mrds_segments, o.mrds_segments),
     req           |-> LastOption(acc.req, o.req),
     res           |-> LastOption(acc.res, o.res)]

\* FragmentOptions::observe
ObserveOptions(acc, o) ==
    [mds           |-> MinOption(acc.mds, o.mds),
     mrds_size     |-> MinOption(acc.mrds_size, o.mrds_size),
     mrds_segments |-> MinOption(acc.mrds_segments, o.mrds_segments),
     req           |-> LastOption(acc.req, o.req),
     res           |-> LastOption(acc.res, o.res)]

\* Partial::observe_fragment_ocs
ObserveOcs(acc, ocs) ==
    IF acc = "unobserved" \/ ocs = "unobserved" THEN "unobserved"
    ELSE IF acc = "valid" \/ ocs = "valid" THEN "valid"
    ELSE "unused"

-----------------------------------------------------------------------------
\* Partial

NewPartial ==
    [segments                |-> {},
     terminal_end            |-> None,
     udp_length              |-> None,
     fragment_count          |-> 0,
     byte_total              |-> 0,
     fragment_options        |-> NoOptions,
     option_failures         |-> {},
     ocs                     |-> "unused",
     empty_terminal_options  |-> None,
     empty_terminal_failures |-> None,
     age                     |-> 0]

Segment(f) == [start |-> Start(f), end |-> End(f), data |-> f.data,
               options |-> f.options, failures |-> f.failures]

EffectiveTimeout == IF Timeout <= TimeoutMax THEN Timeout ELSE TimeoutMax

IsExpired(p) == p.age >= EffectiveTimeout

\* Slip: a repeated terminal fragment is not recognised.
IsExactDuplicateNoTerminal(p, f) == ~IsTerminal(f) /\ Segment(f) \in p.segments

IsExactDuplicate(p, f) ==
    /\ IsTerminal(f) => p.udp_length = f.rdos /\ p.terminal_end = End(f)
    /\ IF IsTerminal(f) /\ Len0(f) = 0
       THEN /\ p.empty_terminal_options = f.options
            /\ p.empty_terminal_failures = f.failures
       ELSE Segment(f) \in p.segments

\* Slip: only a segment with the same start counts as an overlap.
OverlapsSameStart(p, f) ==
    Start(f) < End(f) /\ \E s \in p.segments : s.start = Start(f)

Overlaps(p, f) ==
    /\ Start(f) < End(f)
    /\ \E s \in p.segments : Start(f) < s.end /\ s.start < End(f)

\* The limits Partial::insert enforces on every fragment that is not a duplicate.
ExceedsLimit(p, f) ==
    \/ p.fragment_count + 1 > MaxSegments
    \/ p.byte_total + Len0(f) + UdpHeader > MaxReassembledSize

\* The checks on a terminal fragment, against its own data and the terminal known so far.
TerminalConflict(p, f) ==
    \/ f.rdos < UdpHeader
    \/ f.rdos - UdpHeader > End(f)
    \/ /\ p.terminal_end = None
       /\ \E s \in p.segments : s.end > End(f)
    \/ /\ p.terminal_end # None
       /\ \/ p.terminal_end # End(f)
          \/ p.udp_length # f.rdos
          \/ /\ Len0(f) = 0
             /\ \/ p.empty_terminal_options # f.options
                \/ p.empty_terminal_failures # f.failures

Conflicts(p, f) ==
    \/ Overlaps(p, f)
    \/ p.terminal_end # None /\ End(f) > p.terminal_end
    \/ IsTerminal(f) /\ TerminalConflict(p, f)

\* Slip: the UDP length is taken from the end of the terminal fragment instead of its RDOS.
AcceptLengthFromEnd(p, f) ==
    LET first == IsTerminal(f) /\ p.terminal_end = None IN
    [p EXCEPT
        !.segments = IF Len0(f) = 0 THEN @ ELSE @ \cup {Segment(f)},
        !.terminal_end = IF first THEN End(f) ELSE @,
        !.udp_length = IF first THEN End(f) + UdpHeader ELSE @,
        !.fragment_count = @ + 1,
        !.byte_total = @ + Len0(f)]

\* The assignments of Partial::insert once every check has passed.
Accept(p, f) ==
    LET first == IsTerminal(f) /\ p.terminal_end = None IN
    [p EXCEPT
        !.segments = IF Len0(f) = 0 THEN @ ELSE @ \cup {Segment(f)},
        !.terminal_end = IF first THEN End(f) ELSE @,
        !.udp_length = IF first THEN f.rdos ELSE @,
        !.fragment_count = @ + 1,
        !.byte_total = @ + Len0(f),
        !.fragment_options = ObserveOptions(@, f.options),
        !.option_failures = @ \cup f.failures,
        !.ocs = ObserveOcs(@, f.ocs),
        !.empty_terminal_options = IF first /\ Len0(f) = 0 THEN f.options ELSE @,
        !.empty_terminal_failures = IF first /\ Len0(f) = 0 THEN f.failures ELSE @]

\* Where the cursor of complete() stands after it has visited the segments S in start order.
CursorAfter(S) ==
    IF S = {} THEN 0
    ELSE (CHOOSE s \in S : \A t \in S : t.start <= s.start).end

Before(S, s) == {t \in S : t.start < s.start}

\* The segments at which the cursor is not where the segment starts.
Mismatches(S) == {s \in S : s.start # CursorAfter(Before(S, s))}

\* Slip: the walk compares only its final cursor, so gaps go unnoticed.
CompleteResultGapBlind(p) ==
    IF p.terminal_end # None /\ CursorAfter(p.segments) = p.terminal_end
    THEN "Complete" ELSE "Incomplete"

\* Partial::complete; the walk returns at its first mismatch.
CompleteResult(p) ==
    IF p.terminal_end = None \/ p.udp_length = None THEN "Incomplete"
    ELSE IF Mismatches(p.segments) # {}
         THEN LET first == CHOOSE s \in Mismatches(p.segments) :
                              \A t \in Mismatches(p.segments) : s.start <= t.start
              IN  IF first.start > CursorAfter(Before(p.segments, first))
                  THEN "Incomplete" ELSE "Abort"
    ELSE IF CursorAfter(p.segments) # p.terminal_end THEN "Incomplete"
    ELSE "Complete"

\* Slip: completion is judged before the new fragment is stored.
InsertResultLate(p, f) ==
    IF IsExactDuplicate(p, f) THEN [kind |-> "Incomplete", partial |-> p]
    ELSE IF ExceedsLimit(p, f) THEN [kind |-> "LimitExceeded", partial |-> p]
    ELSE IF Conflicts(p, f) THEN [kind |-> "Overlap", partial |-> p]
    ELSE [kind |-> CompleteResult(p), partial |-> Accept(p, f)]

\* Partial::insert: the InsertResult and the partial it leaves behind.
InsertResult(p, f) ==
    IF IsExactDuplicate(p, f)
    THEN [kind |-> "Incomplete", partial |-> [p EXCEPT !.ocs = ObserveOcs(@, f.ocs)]]
    ELSE IF ExceedsLimit(p, f) THEN [kind |-> "LimitExceeded", partial |-> p]
    ELSE IF Conflicts(p, f) THEN [kind |-> "Overlap", partial |-> p]
    ELSE LET q == Accept(p, f) IN
         [kind |-> IF CompleteResult(q) = "Abort" THEN "Overlap" ELSE CompleteResult(q),
          partial |-> q]

-----------------------------------------------------------------------------
\* ReassemblyCache

\* Slip: insert() leaves expiry to the caller's gc().
LiveWithoutGc == DOMAIN partials

Live == {k \in DOMAIN partials : ~IsExpired(partials[k])}

PartialFor(k) == IF k \in Live THEN partials[k] ELSE NewPartial
TakenFor(k) == IF k \in Live THEN taken[k] ELSE <<>>

\* The cache after gc(now) and after that without k.
GcOnly == /\ partials' = Restrict(partials, Live)
          /\ taken' = Restrict(taken, Live)

\* Slip: an abort or a completion clears the whole cache.
GcAndClear(k) == /\ partials' = Restrict(partials, Live \ Keys)
                 /\ taken' = Restrict(taken, Live \ Keys)

GcAndRemove(k) == /\ partials' = Restrict(partials, Live \ {k})
                  /\ taken' = Restrict(taken, Live \ {k})
GcAndStore(k, p, h) ==
    /\ partials' = [j \in Live \cup {k} |-> IF j = k THEN p ELSE partials[j]]
    /\ taken' = [j \in Live \cup {k} |-> IF j = k THEN h ELSE taken[j]]

Returned(kind, k) == [kind |-> kind, key |-> k]

\* ReassemblyOutcome::Complete; each chunk of the tail sits at its segment's start because
\* complete() returns the concatenation only when every segment starts where the last ended.
Completed(k, p, h) ==
    [kind |-> "Complete", key |-> k,
     tail |-> {[start |-> s.start, end |-> s.end, data |-> s.data] : s \in p.segments},
     tail_len |-> p.terminal_end, udp_length |-> p.udp_length,
     options |-> p.fragment_options, failures |-> p.option_failures, ocs |-> p.ocs,
     from |-> h]

\* The history of the partial of k once it has accepted f, or ignored it as a duplicate.
Extended(k, f) ==
    IF IsExactDuplicate(PartialFor(k), f) THEN TakenFor(k)
    ELSE Append(TakenFor(k), [frag |-> f, age |-> 0])

InsertMalformed(k, f) ==
    /\ ~Normalizes(f)
    /\ GcAndRemove(k)
    /\ outcome' = Returned("Overlap", k)

InsertOversize(k, f) ==
    /\ Normalizes(f)
    /\ Oversize(f)
    /\ GcAndRemove(k)
    /\ outcome' = Returned("LimitExceeded", k)

HasRoom(k) == k \in Live \/ Cardinality(Live) < MaxPendingPartials

\* Slip: a full cache refuses every new key.
InsertRefused(k, f) ==
    /\ Normalizes(f)
    /\ ~Oversize(f)
    /\ ~HasRoom(k)
    /\ GcOnly
    /\ outcome' = Returned("LimitExceeded", k)

\* insert_without_retaining: only a fragment that completes on its own is of use.
InsertWithoutRetaining(k, f) ==
    /\ Normalizes(f)
    /\ ~Oversize(f)
    /\ ~HasRoom(k)
    /\ GcOnly
    /\ LET r == InsertResult(NewPartial, f) IN
       outcome' = IF r.kind = "Complete" THEN Completed(k, r.partial, Extended(k, f))
                  ELSE IF r.kind = "Incomplete" THEN Returned("LimitExceeded", k)
                  ELSE Returned(r.kind, k)

InsertRetaining(k, f) ==
    /\ Normalizes(f)
    /\ ~Oversize(f)
    /\ HasRoom(k)
    /\ LET r == InsertResult(PartialFor(k), f) IN
       \/ /\ r.kind = "Incomplete"
          /\ GcAndStore(k, r.partial, Extended(k, f))
          /\ outcome' = Returned("Incomplete", k)
       \/ /\ r.kind = "Complete"
          /\ GcAndRemove(k)
          /\ outcome' = Completed(k, r.partial, Extended(k, f))
       \/ /\ r.kind \in {"LimitExceeded", "Overlap"}
          /\ GcAndRemove(k)
          /\ outcome' = Returned(r.kind, k)

\* insert_with_options_and_failures, reached from the pipeline and from insert().
Insert(k, f) ==
    \/ InsertMalformed(k, f)
    \/ InsertOversize(k, f)
    \/ InsertWithoutRetaining(k, f)
    \/ InsertRetaining(k, f)

\* discard(), which does not collect expired partials.
Discard(k) ==
    /\ partials' = Restrict(partials, DOMAIN partials \ {k})
    /\ taken' = Restrict(taken, DOMAIN partials \ {k})
    /\ outcome' = [kind |-> "Discarded", key |-> k]

\* Slip: gc() collects only once the cache is full.
GcWhenFull ==
    /\ IF Cardinality(DOMAIN partials) < MaxPendingPartials THEN UNCHANGED <<partials, taken>>
       ELSE GcOnly
    /\ outcome' = [kind |-> "Collected"]

Gc ==
    /\ GcOnly
    /\ outcome' = [kind |-> "Collected"]

Older(a) == IF a < EffectiveTimeout THEN a + 1 ELSE a

\* One tick of the caller's clock.
Tick ==
    /\ partials' = [k \in DOMAIN partials |-> [partials[k] EXCEPT !.age = Older(@)]]
    /\ taken' = [k \in DOMAIN taken |->
                   [i \in DOMAIN taken[k] |-> [taken[k][i] EXCEPT !.age = Older(@)]]]
    /\ outcome' = [kind |-> "Ticked"]

Init ==
    /\ partials = [k \in {} |-> NewPartial]
    /\ taken = [k \in {} |-> <<>>]
    /\ outcome = [kind |-> "Empty"]

Next ==
    \/ \E k \in Keys, f \in Fragments : Insert(k, f)
    \/ \E k \in Keys : Discard(k)
    \/ Gc
    \/ Tick

Spec == Init /\ [][Next]_vars

Fairness == WF_vars(Tick) /\ WF_vars(Gc)

FairSpec == Spec /\ Fairness

-----------------------------------------------------------------------------
\* Properties

SegmentType ==
    [start : Nat, end : Nat, data : Data, options : OptionLists, failures : SUBSET Kinds]

PartialType ==
    [segments : SUBSET SegmentType, terminal_end : Nat \cup {None},
     udp_length : Nat \cup {None}, fragment_count : Nat, byte_total : Nat,
     fragment_options : OptionListType,
     option_failures : SUBSET Kinds, ocs : OcsObservations,
     empty_terminal_options : OptionLists \cup {None},
     empty_terminal_failures : (SUBSET Kinds) \cup {None}, age : Nat]

\* Every partial of the cache is a well-formed Partial (lines 293-305): offsets, lengths and
\* counters are naturals, so no checked_sub of the code has gone below zero.
TypeOK ==
    /\ DOMAIN partials \subseteq Keys
    /\ DOMAIN taken = DOMAIN partials
    /\ \A k \in DOMAIN partials : partials[k] \in PartialType

Disjoint(s, t) == s.end <= t.start \/ t.end <= s.start

\* The segments of p are non-empty, pairwise disjoint and inside the terminal end once it is
\* known; the terminal end fits the size limit and holds the user data announced by RDOS.
Consistent(p) ==
    /\ \A s \in p.segments : s.start < s.end /\ s.end = s.start + DataLen[s.data]
    /\ \A s, t \in p.segments : s = t \/ Disjoint(s, t)
    /\ p.terminal_end = None <=> p.udp_length = None
    /\ p.terminal_end # None =>
          /\ \A s \in p.segments : s.end <= p.terminal_end
          /\ UdpHeader + p.terminal_end <= MaxReassembledSize
          /\ UdpHeader <= p.udp_length
          /\ p.udp_length - UdpHeader <= p.terminal_end

\* Every retained partial is consistent: the overlap, limit and terminal checks of insert() and
\* Partial::insert keep it so in whatever order fragments arrive.
SegmentsConsistent == \A k \in DOMAIN partials : Consistent(partials[k])

Positions(c) == c.start .. (c.end - 1)

\* The chunks of a tail cover each position up to its length exactly once, fit the size limit and
\* hold the user data RDOS announces.
TilesTail(o) ==
    /\ \A i \in 0 .. (o.tail_len - 1) : \E c \in o.tail : i \in Positions(c)
    /\ \A c, d \in o.tail : c = d \/ Positions(c) \cap Positions(d) = {}
    /\ \A c \in o.tail : 0 <= c.start /\ c.end <= o.tail_len
    /\ UdpHeader + o.tail_len <= MaxReassembledSize
    /\ o.udp_length - UdpHeader \in 0 .. o.tail_len

\* No gap, no overlap and no stray bytes are ever delivered in a completed tail, however its
\* fragments were reordered, repeated or interleaved (complete(), lines 463-494).
CompleteTilesTail == outcome.kind = "Complete" => TilesTail(outcome)

\* Each chunk of a tail is a fragment of the history, and so is the terminal fragment.
TailTaken(o) ==
    /\ \A c \in o.tail : \E i \in DOMAIN o.from :
          LET f == o.from[i].frag IN c = [start |-> Start(f), end |-> End(f), data |-> f.data]
    /\ \E i \in DOMAIN o.from :
          LET f == o.from[i].frag IN f.rdos = o.udp_length /\ End(f) = o.tail_len

\* Every byte of a completed tail comes from a fragment this datagram's partial accepted, at the
\* offset that fragment carried; nothing of an aborted, expired or discarded set survives in it.
TailFromTakenFragments == outcome.kind = "Complete" => TailTaken(outcome)

\* No partial in the cache is already complete.  The early return for an exact duplicate
\* (lines 337-340) reports Incomplete without looking, so a complete partial would be stuck.
NeverRetainsComplete ==
    \A k \in DOMAIN partials : CompleteResult(partials[k]) = "Incomplete"

\* The cache never retains more incomplete datagrams than max_pending_partials (lines 105-110).
PendingBounded == Cardinality(DOMAIN partials) <= MaxPendingPartials

\* No fragment of a set of several has reached the timeout.
AllFresh(o) ==
    Len(o.from) = 1 \/ \A i \in DOMAIN o.from : o.from[i].age < EffectiveTimeout

\* All fragments of a completed datagram arrived within one timeout of each other: a partial that
\* reached the timeout is never completed by a late fragment, even if gc() was never called.
ContributorsFresh == outcome.kind = "Complete" => AllFresh(outcome)

\* v is the least of the values in S, None standing for no value.
IsLeast(v, S) ==
    IF S \ {None} = {} THEN v = None
    ELSE v \in S \ {None} /\ \A w \in S \ {None} : v <= w

OptionsIn(h) == {h[i].frag.options : i \in DOMAIN h}

\* The option values and failures are those of the fragments of the history h, coalesced.
Coalesced(h, options, failures) ==
    /\ IsLeast(options.mds, {o.mds : o \in OptionsIn(h)})
    /\ IsLeast(options.mrds_size, {o.mrds_size : o \in OptionsIn(h)})
    /\ IsLeast(options.mrds_segments, {o.mrds_segments : o \in OptionsIn(h)})
    /\ options.req = None => \A o \in OptionsIn(h) : o.req = None
    /\ options.req # None => \E o \in OptionsIn(h) : o.req = options.req
    /\ options.res = None => \A o \in OptionsIn(h) : o.res = None
    /\ options.res # None => \E o \in OptionsIn(h) : o.res = options.res
    /\ failures = UNION {h[i].frag.failures : i \in DOMAIN h}

\* The option values reported for a fragment set are the minima over all its fragments (MDS and
\* both MRDS fields), REQ and RES tokens some fragment carried, and the union of their failures,
\* in whatever order the fragments came (FragmentOptions, FragmentOptionFailures).
OptionsCoalesced ==
    outcome.kind = "Complete" => Coalesced(outcome.from, outcome.options, outcome.failures)

InsertKinds == {"Incomplete", "Complete", "LimitExceeded", "Overlap"}

\* j keeps its partial, has expired, grows older, or is what the call was about.
KeptOrConcerned(j) ==
    \/ j \in DOMAIN partials' /\ partials'[j] = partials[j]
    \/ IsExpired(partials[j])
    \/ outcome'.kind = "Ticked"
    \/ outcome'.kind \in InsertKinds \cup {"Discarded"} /\ outcome'.key = j

\* A call about one key changes or removes the partial of another key only if that partial has
\* expired: aborts, completions and the pending cap never cost an unrelated datagram its state.
OtherKeysUntouched == [][\A j \in DOMAIN partials : KeptOrConcerned(j)]_vars

\* A fragment that is a whole datagram by itself and within the limits.
SelfContained(f) ==
    /\ Normalizes(f) /\ ~Oversize(f) /\ IsTerminal(f)
    /\ Start(f) = 0
    /\ UdpHeader <= f.rdos /\ f.rdos - UdpHeader <= End(f)

\* An atomic fragment whose key has no live partial is always delivered at once, also when the
\* cache is full: the pending cap limits retained state only (insert_without_retaining).
AtomicAlwaysCompletes ==
    [][\A k \in Keys \ Live, f \in {g \in Fragments : SelfContained(g)} :
          MaxSegments > 0 /\ Insert(k, f) => outcome'.kind = "Complete"]_vars

JustCreated(k) == partials[k].age = 0 /\ Len(taken[k]) = 1

\* Every partial leaves the cache in the end, for good or to make way for a new one of the same
\* key, even if fragments or duplicates for it keep arriving: received_at is never refreshed, so
\* it is enough that time passes and that the application keeps calling gc().
EventuallyReclaimed ==
    \A k \in Keys : k \in DOMAIN partials ~> (k \notin DOMAIN partials \/ JustCreated(k))

\* Feeding f to the live partial of k leaves all of it but the OCS verdict as it was.
LeavesPartial(k, f) ==
    Insert(k, f) => /\ k \in DOMAIN partials'
                    /\ partials'[k] = [partials[k] EXCEPT !.ocs = partials'[k].ocs]

\* A repeated terminal fragment, or a repeated fragment with data, is suppressed: it costs no
\* segment budget, moves no counter and aborts nothing (is_exact_duplicate, lines 337-340).
DataDuplicateIsNoOp ==
    [][\A k \in Live : \A i \in DOMAIN taken[k] :
          IsTerminal(taken[k][i].frag) \/ Len0(taken[k][i].frag) > 0
             => LeavesPartial(k, taken[k][i].frag)]_vars

\* What docs/requirements.md FR-32 says of every exact duplicate: "byte-identical fragments with
\* identical per-fragment options are treated as no-op packet duplicates".
DuplicateIsNoOp ==
    [][\A k \in Live : \A i \in DOMAIN taken[k] : LeavesPartial(k, taken[k][i].frag)]_vars

=============================================================================
