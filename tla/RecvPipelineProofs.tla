------------------------- MODULE RecvPipelineProofs -------------------------
(***************************************************************************)
(* Proofs about the receive path, for every set of datagrams, policies and *)
(* fragments, every limit and every content of a reassembled tail.         *)
(***************************************************************************)
EXTENDS RecvPipeline, TLAPS, WellFoundedInduction

\* A non-empty set of naturals has a least element.
LEMMA LeastOf ==
    ASSUME NEW T \in SUBSET Nat, T # {}
    PROVE  \E m \in T : \A n \in T : m <= n
<1>1. PICK m \in T : \A n \in T : ~(<<n, m>> \in OpToRel(<, Nat))
    BY NatLessThanWellFounded, WFMin, Zenon
<1>2. ASSUME NEW n \in T PROVE m <= n
    <2>1. ~(n < m)
        BY <1>1, Zenon DEF OpToRel
    <2> QED
        BY <2>1
<1> QED
    BY <1>2

-----------------------------------------------------------------------------
\* The loop of parse_options

\* The recursion of the loop is well founded: there is a function that satisfies it.
LEMMA TurnsUnfold ==
    ASSUME NEW options, NEW n \in Nat, NEW user_empty, NEW in_fragment
    PROVE  LET f == Turns(options, n, user_empty, in_fragment) IN
           /\ f[0] = Parsing
           /\ \A i \in 1 .. n :
                 f[i] = TakeOption(f[i - 1], options[i], user_empty, in_fragment)
<1> DEFINE Step(g, i) == IF i = 0 THEN Parsing
                         ELSE TakeOption(g[i - 1], options[i], user_empty, in_fragment)
           Solves(g, m) == g = [i \in 0 .. m |-> Step(g, i)]
           f == Turns(options, n, user_empty, in_fragment)
           T == {m \in Nat : ~\E g : Solves(g, m)}
<1>1. T = {}
    <2> SUFFICES ASSUME T # {} PROVE FALSE
        OBVIOUS
    <2>1. PICK m \in T : \A k \in T : m <= k
        <3>1. T \in SUBSET Nat
            OBVIOUS
        <3> HIDE DEF T
        <3> QED
            BY <3>1, LeastOf
    <2>2. m \in Nat /\ ~\E g : Solves(g, m)
        OBVIOUS
    <2>3. m # 0
        <3>1. Solves([i \in 0 .. 0 |-> Parsing], 0)
            OBVIOUS
        <3> QED
            BY <2>2, <3>1, Zenon
    <2>4. PICK g : Solves(g, m - 1)
        <3>1. m - 1 \in Nat /\ ~(m <= m - 1)
            BY <2>2, <2>3
        <3> QED
            BY <2>1, <3>1
    <2> DEFINE h == [i \in 0 .. m |-> Step(g, i)]
    <2>5. Solves(h, m)
        <3>1. ASSUME NEW i \in 0 .. m, i # 0 PROVE h[i - 1] = g[i - 1]
            <4>1. i - 1 \in 0 .. m - 1 /\ i - 1 \in 0 .. m
                BY <2>2, <3>1
            <4>2. g[i - 1] = Step(g, i - 1) /\ h[i - 1] = Step(g, i - 1)
                BY <2>4, <4>1
            <4> QED
                BY <4>2
        <3>2. \A i \in 0 .. m : Step(h, i) = Step(g, i)
            BY <3>1, ZenonT(60)
        <3> QED
            BY <3>2
    <2> QED
        BY <2>2, <2>5, Zenon
<1>2. Solves(f, n)
    <2>1. \E g : Solves(g, n)
        BY <1>1, Zenon
    <2> QED
        BY <2>1 DEF Turns
<1>3. f[0] = Parsing
    <2>1. 0 \in 0 .. n
        OBVIOUS
    <2> HIDE DEF f
    <2> QED
        BY <1>2, <2>1
<1>4. ASSUME NEW i \in 1 .. n
      PROVE  f[i] = TakeOption(f[i - 1], options[i], user_empty, in_fragment)
    <2>1. i \in 0 .. n /\ i # 0
        OBVIOUS
    <2> HIDE DEF f
    <2> QED
        BY <1>2, <2>1
<1> QED
    BY <1>3, <1>4

Fields == {"state", "options", "reports", "seen", "frag", "unsafe"}

UnsafeAt(o) == o.kind = "UNSAFE" \/ (o.kind = "FRAG" /\ o.form = "bad")

\* A decodable FRAG that no earlier option keeps from being found.
Leads(options, i) ==
    /\ options[i].kind = "FRAG" /\ options[i].form = "ok"
    /\ \A m \in 1 .. (i - 1) : ~EndsScan(options[m])

Exposed(reports, options) ==
    \A r \in reports : r.status = "Success" => \E o \in options : o.kind = r.kind

\* The state of the loop after i turns.
LoopOK(p, options, i, user_empty) ==
    /\ DOMAIN p = Fields
    /\ p.state = "failed" => p.frag # NoFrag /\ user_empty
    /\ p.state = "more" /\ "FRAG" \notin p.seen => \A m \in 1 .. i : ~EndsScan(options[m])
    /\ p.unsafe => \E m \in 1 .. i : UnsafeAt(options[m])
    /\ p.frag # NoFrag => \E m \in 1 .. i : Leads(options, m) /\ p.frag = options[m].value
    /\ Exposed(p.reports, p.options)

\* A turn that takes note of an option which neither ends the scan nor the loop.
LEMMA LoopNotes ==
    ASSUME NEW options, NEW i \in Nat \ {0}, NEW user_empty, NEW p, NEW q,
           LoopOK(p, options, i - 1, user_empty), DOMAIN q = Fields,
           q.state = p.state, q.frag = p.frag, q.unsafe = p.unsafe,
           p.state # "more" \/ ~EndsScan(options[i]), p.seen \subseteq q.seen,
           Exposed(q.reports, q.options)
    PROVE  LoopOK(q, options, i, user_empty)
<1>1. \A m \in 1 .. i : m \in 1 .. (i - 1) \/ m = i
    OBVIOUS
<1>2. \A m \in 1 .. (i - 1) : m \in 1 .. i
    OBVIOUS
<1> QED
    BY <1>1, <1>2 DEF LoopOK

\* A turn that fails.
LEMMA LoopFails ==
    ASSUME NEW options, NEW i \in Nat \ {0}, NEW user_empty, NEW p,
           LoopOK(p, options, i - 1, user_empty)
    PROVE  LoopOK(Fails(p, user_empty), options, i, user_empty)
<1> DEFINE q == Fails(p, user_empty)
<1>1. /\ DOMAIN q = Fields /\ q.frag = p.frag /\ q.unsafe = p.unsafe
      /\ q.reports = {} /\ q.options = {}
      /\ q.state = IF p.frag # NoFrag /\ user_empty THEN "failed" ELSE "error"
    BY DEF LoopOK, Fails, Fields
<1>2. \A m \in 1 .. (i - 1) : m \in 1 .. i
    OBVIOUS
<1> HIDE DEF q
<1>3. LoopOK(q, options, i, user_empty)
    BY <1>1, <1>2 DEF LoopOK, Exposed
<1> QED
    BY <1>3 DEF q

LEMMA ReportKeeps ==
    ASSUME NEW options, NEW i \in Nat \ {0}, NEW user_empty, NEW p, NEW o, NEW status,
           LoopOK(p, options, i - 1, user_empty), ~EndsScan(options[i]), status # "Success"
    PROVE  LoopOK(AddReport(p, o, status), options, i, user_empty)
<1> DEFINE q == AddReport(p, o, status)
<1>1. /\ DOMAIN q = Fields /\ q.frag = p.frag /\ q.unsafe = p.unsafe /\ q.state = p.state
      /\ q.seen = p.seen /\ q.options = p.options
      /\ q.reports = p.reports \cup {Report(o.kind, status)}
    BY DEF LoopOK, AddReport, Fields
<1>2. Report(o.kind, status).status # "Success"
    BY DEF Report
<1>3. Exposed(q.reports, q.options)
    BY <1>1, <1>2 DEF LoopOK, Exposed
<1> HIDE DEF q
<1>4. LoopOK(q, options, i, user_empty)
    BY <1>1, <1>3, LoopNotes, Zenon
<1> QED
    BY <1>4 DEF q

LEMMA TakeReportedKeeps ==
    ASSUME NEW options, NEW i \in Nat \ {0}, NEW user_empty, NEW p, NEW o,
           LoopOK(p, options, i - 1, user_empty), ~EndsScan(options[i])
    PROVE  LoopOK(TakeReported(p, o), options, i, user_empty)
<1>1. CASE o.kind \in p.seen
    BY <1>1, ReportKeeps DEF TakeReported
<1> DEFINE q == [p EXCEPT !.seen = @ \cup {o.kind}]
           r == TakeReported(p, o)
<1>2. /\ DOMAIN q = Fields /\ q.frag = p.frag /\ q.unsafe = p.unsafe /\ q.state = p.state
      /\ q.seen = p.seen \cup {o.kind} /\ q.options = p.options /\ q.reports = p.reports
    BY DEF LoopOK, Fields
<1>3. CASE o.kind \notin p.seen /\ o.form # "ok"
    <2>1. r = AddReport(q, o, "Failed")
        BY <1>3 DEF TakeReported
    <2> HIDE DEF q
    <2>2. /\ DOMAIN r = Fields /\ r.frag = p.frag /\ r.unsafe = p.unsafe /\ r.state = p.state
          /\ r.seen = p.seen \cup {o.kind} /\ r.options = p.options
          /\ r.reports = p.reports \cup {Report(o.kind, "Failed")}
        BY <1>2, <2>1 DEF AddReport, Fields
    <2>3. Exposed(r.reports, r.options)
        <3>1. Report(o.kind, "Failed").status = "Failed"
            BY DEF Report
        <3> QED
            BY <2>2, <3>1 DEF LoopOK, Exposed
    <2> HIDE DEF r
    <2>4. LoopOK(r, options, i, user_empty)
        BY <2>2, <2>3, LoopNotes
    <2> QED
        BY <2>4 DEF r
<1>4. CASE o.kind \notin p.seen /\ o.form = "ok"
    <2> DEFINE taken_option == [kind |-> o.kind, value |-> o.value]
    <2>1. r = [AddReport(q, o, "Success") EXCEPT !.options = @ \cup {taken_option}]
        BY <1>4 DEF TakeReported
    <2> HIDE DEF q
    <2>2. /\ DOMAIN r = Fields /\ r.frag = p.frag /\ r.unsafe = p.unsafe /\ r.state = p.state
          /\ r.seen = p.seen \cup {o.kind} /\ r.options = p.options \cup {taken_option}
          /\ r.reports = p.reports \cup {Report(o.kind, "Success")}
        BY <1>2, <2>1 DEF AddReport, Fields
    <2>3. Exposed(r.reports, r.options)
        <3>1. Report(o.kind, "Success").kind = taken_option.kind
            BY DEF Report
        <3> HIDE DEF taken_option
        <3> QED
            BY <2>2, <3>1 DEF LoopOK, Exposed
    <2> HIDE DEF r
    <2>4. LoopOK(r, options, i, user_empty)
        BY <2>2, <2>3, LoopNotes, Zenon
    <2> QED
        BY <2>4 DEF r
<1> QED
    BY <1>1, <1>3, <1>4

\* A turn that ends the loop.
LEMMA LoopEnds ==
    ASSUME NEW options, NEW i \in Nat \ {0}, NEW user_empty, NEW p, NEW q,
           LoopOK(p, options, i - 1, user_empty), DOMAIN q = Fields,
           q.state = "done", q.frag = p.frag, q.unsafe => p.unsafe \/ UnsafeAt(options[i]),
           Exposed(q.reports, q.options)
    PROVE  LoopOK(q, options, i, user_empty)
<1>1. i \in 1 .. i /\ \A m \in 1 .. (i - 1) : m \in 1 .. i
    OBVIOUS
<1> QED
    BY <1>1 DEF LoopOK

LEMMA TakeFragKeeps ==
    ASSUME NEW options, NEW i \in Nat \ {0}, NEW user_empty, NEW p, Yielded(options),
           LoopOK(p, options, i - 1, user_empty), i \in DOMAIN options, p.state = "more",
           options[i].kind = "FRAG", options[i].form \notin {"overrun", "short"}
    PROVE  LoopOK(TakeFrag(p, options[i], user_empty), options, i, user_empty)
<1> DEFINE o == options[i]
           q == TakeFrag(p, o, user_empty)
<1>1. CASE "FRAG" \in p.seen
    BY <1>1, LoopFails DEF TakeFrag
<1>2. CASE "FRAG" \notin p.seen /\ o.form = "ok"
    <2>1. /\ DOMAIN q = Fields /\ q.frag = o.value /\ q.unsafe = p.unsafe /\ q.state = p.state
          /\ q.seen = p.seen \cup {"FRAG"} /\ q.options = p.options /\ q.reports = p.reports
        BY <1>2 DEF LoopOK, Fields, TakeFrag
    <2>2. Leads(options, i)
        BY <1>2 DEF LoopOK, Leads
    <2>3. i \in 1 .. i /\ \A m \in 1 .. (i - 1) : m \in 1 .. i
        OBVIOUS
    <2> HIDE DEF q
    <2>4. LoopOK(q, options, i, user_empty)
        BY <2>1, <2>2, <2>3 DEF LoopOK
    <2> QED
        BY <2>4 DEF q
<1>3. CASE "FRAG" \notin p.seen /\ o.form # "ok"
    <2>1. /\ DOMAIN q = Fields /\ q.frag = p.frag /\ q.state = "done"
          /\ q.options = p.options /\ q.reports = p.reports
        BY <1>3 DEF LoopOK, Fields, TakeFrag
    <2>2. UnsafeAt(o)
        BY <1>3 DEF Yielded, Forms, UnsafeAt
    <2>3. Exposed(q.reports, q.options)
        BY <2>1 DEF LoopOK
    <2> HIDE DEF q
    <2>4. LoopOK(q, options, i, user_empty)
        BY <2>1, <2>2, <2>3, LoopEnds
    <2> QED
        BY <2>4 DEF q
<1> QED
    BY <1>1, <1>2, <1>3

\* One turn of the loop.
LEMMA TakeOptionKeeps ==
    ASSUME NEW options, NEW i \in Nat \ {0}, NEW user_empty, NEW in_fragment, NEW p,
           Yielded(options), LoopOK(p, options, i - 1, user_empty), i \in DOMAIN options
    PROVE  LoopOK(TakeOption(p, options[i], user_empty, in_fragment), options, i, user_empty)
<1> DEFINE o == options[i]
           q == TakeOption(p, o, user_empty, in_fragment)
<1>1. CASE p.state # "more"
    <2>1. q = p
        BY <1>1 DEF TakeOption
    <2>2. LoopOK(p, options, i, user_empty)
        BY <1>1, LoopNotes DEF LoopOK
    <2> QED
        BY <2>1, <2>2
<1>2. CASE p.state = "more" /\ o.form = "overrun"
    <2>1. q = Fails(p, user_empty)
        BY <1>2 DEF TakeOption
    <2> QED
        BY <2>1, LoopFails
<1>3. CASE p.state = "more" /\ o.form # "overrun" /\ o.kind = "APC" /\ in_fragment
    <2>1. q = AddReport(p, o, "Ignored") /\ ~EndsScan(o)
        BY <1>3 DEF TakeOption, EndsScan
    <2> QED
        BY <2>1, ReportKeeps
<1>4. CASE /\ p.state = "more" /\ o.form = "short"
           /\ ~(o.kind = "APC" /\ in_fragment)
    <2>1. q = Fails(p, user_empty)
        BY <1>4 DEF TakeOption
    <2> QED
        BY <2>1, LoopFails
<1>5. CASE /\ p.state = "more" /\ o.form \notin {"overrun", "short"}
           /\ ~(o.kind = "APC" /\ in_fragment)
    <2>1. o.kind \in OptionKinds
        BY DEF Yielded
    <2>2. CASE o.kind = "EOL"
        <3>1. q = [p EXCEPT !.state = "done"]
            BY <1>5, <2>2 DEF TakeOption, ReportedKinds
        <3>2. /\ DOMAIN q = Fields /\ q.frag = p.frag /\ q.state = "done" /\ q.unsafe = p.unsafe
              /\ q.options = p.options /\ q.reports = p.reports
            BY <3>1 DEF LoopOK, Fields
        <3>3. Exposed(q.reports, q.options)
            BY <3>2 DEF LoopOK
        <3> HIDE DEF q
        <3>4. LoopOK(q, options, i, user_empty)
            BY <3>2, <3>3, LoopEnds
        <3> QED
            BY <3>4 DEF q
    <2>3. CASE o.kind = "NOP"
        <3>1. q = p /\ ~EndsScan(o)
            BY <1>5, <2>3 DEF TakeOption, EndsScan, ReportedKinds
        <3>2. LoopOK(p, options, i, user_empty)
            BY <3>1, LoopNotes DEF LoopOK
        <3> QED
            BY <3>1, <3>2
    <2>4. CASE o.kind = "FRAG"
        <3>1. q = TakeFrag(p, o, user_empty)
            BY <1>5, <2>4 DEF TakeOption, ReportedKinds
        <3> QED
            BY <1>5, <2>4, <3>1, TakeFragKeeps
    <2>5. CASE o.kind \in ReportedKinds
        <3>1. q = TakeReported(p, o) /\ ~EndsScan(o)
            BY <1>5, <2>5 DEF TakeOption, EndsScan, ReportedKinds
        <3> QED
            BY <3>1, TakeReportedKeeps
    <2>6. CASE o.kind = "SAFE"
        <3>1. q = AddReport(p, o, "Ignored") /\ ~EndsScan(o)
            BY <1>5, <2>6 DEF TakeOption, EndsScan, ReportedKinds
        <3> QED
            BY <3>1, ReportKeeps
    <2>7. CASE o.kind = "UNSAFE"
        <3>1. q = [AddReport(p, o, "Failed") EXCEPT !.unsafe = TRUE, !.state = "done"]
            BY <1>5, <2>7 DEF TakeOption, ReportedKinds
        <3>2. /\ DOMAIN q = Fields /\ q.frag = p.frag /\ q.state = "done"
              /\ q.options = p.options /\ q.reports = p.reports \cup {Report(o.kind, "Failed")}
            BY <3>1 DEF LoopOK, Fields, AddReport
        <3>3. Exposed(q.reports, q.options)
            <4>1. Report(o.kind, "Failed").status = "Failed"
                BY DEF Report
            <4> QED
                BY <3>2, <4>1 DEF LoopOK, Exposed
        <3>4. UnsafeAt(o)
            BY <2>7 DEF UnsafeAt
        <3> HIDE DEF q
        <3>5. LoopOK(q, options, i, user_empty)
            BY <3>2, <3>3, <3>4, LoopEnds, Zenon
        <3> QED
            BY <3>5 DEF q
    <2> QED
        BY <2>1, <2>2, <2>3, <2>4, <2>5, <2>6, <2>7 DEF OptionKinds
<1> QED
    BY <1>1, <1>2, <1>3, <1>4, <1>5

\* The loop keeps its invariant, by the least turn that would not.
LEMMA LoopInvariant ==
    ASSUME NEW options, Yielded(options), NEW n \in 0 .. Len(options), NEW user_empty,
           NEW in_fragment
    PROVE  LoopOK(Turns(options, n, user_empty, in_fragment)[n], options, n, user_empty)
<1> DEFINE f == Turns(options, n, user_empty, in_fragment)
           T == {i \in 0 .. n : ~LoopOK(f[i], options, i, user_empty)}
<1>1. n \in Nat /\ DOMAIN options = 1 .. Len(options) /\ Len(options) \in Nat
    BY DEF Yielded
<1>2. f[0] = Parsing
    BY <1>1, TurnsUnfold
<1>3. \A i \in 1 .. n : f[i] = TakeOption(f[i - 1], options[i], user_empty, in_fragment)
    BY <1>1, TurnsUnfold
<1> HIDE DEF f
<1>4. LoopOK(f[0], options, 0, user_empty)
    BY <1>2 DEF LoopOK, Parsing, Fields, Exposed
<1>5. T = {}
    <2> SUFFICES ASSUME T # {} PROVE FALSE
        OBVIOUS
    <2>1. PICK i \in T : \A j \in T : i <= j
        <3>1. T \in SUBSET Nat
            BY <1>1
        <3> HIDE DEF T
        <3> QED
            BY <3>1, LeastOf
    <2>2. i \in 1 .. n /\ i - 1 \in 0 .. n /\ i \in Nat \ {0} /\ i \in DOMAIN options
        BY <1>1, <1>4
    <2>3. LoopOK(f[i - 1], options, i - 1, user_empty)
        BY <2>1, <2>2
    <2>4. LoopOK(f[i], options, i, user_empty)
        BY <1>3, <2>2, <2>3, TakeOptionKeeps
    <2> QED
        BY <2>4
<1>6. n \in 0 .. n
    BY <1>1
<1> QED
    BY <1>5, <1>6 DEF f

-----------------------------------------------------------------------------
\* fragment_option_limit and parse_options

LEMMA ScanStopFirst ==
    ASSUME NEW options, Yielded(options), ScanStop(options) # 0
    PROVE  /\ ScanStop(options) \in DOMAIN options
           /\ \A m \in 1 .. (ScanStop(options) - 1) : ~EndsScan(options[m])
<1> DEFINE stops == {i \in DOMAIN options : EndsScan(options[i])}
           first == CHOOSE i \in stops : \A j \in stops : i <= j
<1>1. DOMAIN options = 1 .. Len(options) /\ Len(options) \in Nat
    BY DEF Yielded
<1>2. ScanStop(options) = first /\ stops # {}
    BY DEF ScanStop
<1>3. stops \in SUBSET Nat
    BY <1>1
<1>4. \E i \in stops : \A j \in stops : i <= j
    <2> HIDE DEF stops
    <2> QED
        BY <1>2, <1>3, LeastOf
<1>5. first \in stops /\ \A j \in stops : first <= j
    <2> HIDE DEF stops
    <2> QED
        BY <1>4
<1> HIDE DEF first
<1>6. ASSUME NEW m \in 1 .. (first - 1) PROVE ~EndsScan(options[m])
    <2>1. m \in DOMAIN options /\ ~(first <= m)
        BY <1>1, <1>5
    <2> QED
        BY <1>5, <2>1
<1> QED
    BY <1>2, <1>5, <1>6

\* The limit is a place among the options, or there is a FRAG that leads them.
LEMMA LimitFacts ==
    ASSUME NEW options, Yielded(options), NEW user_empty
    PROVE  LET limit == FragmentOptionLimit(options, user_empty) IN
           /\ limit.kind # "Malformed" => limit.end \in 0 .. Len(options)
           /\ limit.kind = "Malformed" =>
                 /\ user_empty
                 /\ \E m \in DOMAIN options : Leads(options, m) /\ limit.frag = options[m].value
<1> DEFINE i == ScanStop(options)
           limit == FragmentOptionLimit(options, user_empty)
<1>1. Len(options) \in Nat /\ DOMAIN options = 1 .. Len(options)
    BY DEF Yielded
<1>2. CASE ~user_empty \/ i = 0 \/ options[i].kind # "FRAG" \/ options[i].form # "ok"
    <2>1. limit = Limit("Full", Len(options), NoFrag)
        BY <1>2 DEF FragmentOptionLimit
    <2> HIDE DEF limit
    <2> QED
        BY <1>1, <2>1 DEF Limit, limit
<1>3. CASE user_empty /\ i # 0 /\ options[i].kind = "FRAG" /\ options[i].form = "ok"
    <2>1. i \in DOMAIN options /\ Leads(options, i)
        BY <1>3, ScanStopFirst DEF Leads
    <2>2. CASE CutInside(options, i)
        <3>1. limit = Limit("End", options[i].value.cut, options[i].value)
            BY <1>3, <2>2 DEF FragmentOptionLimit
        <3>2. options[i].value.cut \in 0 .. Len(options)
            BY <1>1, <1>3, <2>1, <2>2 DEF Yielded, CutInside
        <3> HIDE DEF limit, i
        <3> QED
            BY <3>1, <3>2 DEF Limit, limit
    <2>3. CASE ~CutInside(options, i)
        <3>1. limit = Limit("Malformed", 0, options[i].value)
            BY <1>3, <2>3 DEF FragmentOptionLimit
        <3>2. limit.kind = "Malformed" /\ limit.frag = options[i].value
            BY <3>1 DEF Limit
        <3> QED
            BY <1>3, <2>1, <3>2, Zenon
    <2> QED
        BY <2>2, <2>3
<1> QED
    BY <1>2, <1>3

\* What parse_options returns: only a trusted FRAG fails on its own, FRAG is the one that leads,
\* and every option reported as a success is handed out.
LEMMA ParseFacts ==
    ASSUME NEW options, Yielded(options), NEW user_empty
    PROVE  LET p == ParseOptions(options, user_empty) IN
           /\ p.state = "failed" => p.frag # NoFrag /\ user_empty
           /\ p.unsafe /\ p.state # "failed" => \E m \in DOMAIN options : UnsafeAt(options[m])
           /\ p.frag # NoFrag =>
                 \E m \in DOMAIN options : Leads(options, m) /\ p.frag = options[m].value
           /\ Exposed(p.reports, p.options)
<1> DEFINE p == ParseOptions(options, user_empty)
           limit == FragmentOptionLimit(options, user_empty)
<1>1. /\ limit.kind # "Malformed" => limit.end \in 0 .. Len(options)
      /\ limit.kind = "Malformed" =>
            /\ user_empty
            /\ \E m \in DOMAIN options : Leads(options, m) /\ limit.frag = options[m].value
    BY LimitFacts
<1>2. CASE limit.kind = "Malformed"
    <2>1. p = [Parsing EXCEPT !.state = "failed", !.frag = limit.frag, !.unsafe = TRUE]
        BY <1>2 DEF ParseOptions
    <2> HIDE DEF limit
    <2>2. p.state = "failed" /\ p.frag = limit.frag /\ p.reports = {} /\ p.options = {}
        BY <2>1 DEF Parsing
    <2>3. PICK m \in DOMAIN options : Leads(options, m) /\ limit.frag = options[m].value
        BY <1>1, <1>2
    <2>4. limit.frag # NoFrag
        BY <2>3 DEF Yielded, Leads
    <2> HIDE DEF p
    <2> QED
        BY <1>1, <1>2, <2>2, <2>3, <2>4 DEF Exposed, p
<1>3. CASE limit.kind # "Malformed"
    <2>1. p = Turns(options, limit.end, user_empty, limit.kind = "End")[limit.end]
        BY <1>3 DEF ParseOptions
    <2>2. limit.end \in 0 .. Len(options)
        BY <1>1, <1>3
    <2>3. LoopOK(p, options, limit.end, user_empty)
        <3> HIDE DEF limit
        <3> QED
            BY <2>1, <2>2, LoopInvariant
    <2>4. \A m \in 1 .. limit.end : m \in DOMAIN options
        <3>1. Len(options) \in Nat /\ DOMAIN options = 1 .. Len(options)
            BY DEF Yielded
        <3> HIDE DEF limit
        <3> QED
            BY <2>2, <3>1
    <2> HIDE DEF p, limit
    <2> QED
        BY <2>3, <2>4 DEF LoopOK, p
<1> QED
    BY <1>2, <1>3

\* The FRAG that leads decides the key alone.
LEMMA LeadingKey ==
    ASSUME NEW d, DatagramOK(d), NEW m \in DOMAIN d.options, Leads(d.options, m)
    PROVE  KeysOf(d) = {d.options[m].value.key} /\ d.options[m].value.key \in Keys
<1>1. DOMAIN d.options = 1 .. Len(d.options) /\ Len(d.options) \in Nat
    BY DEF DatagramOK, Yielded
<1>2. KeysOf(d) = {d.options[i].value.key : i \in {j \in DOMAIN d.options : Leads(d.options, j)}}
    BY DEF KeysOf, Leads
<1>3. ASSUME NEW i \in DOMAIN d.options, Leads(d.options, i) PROVE i = m
    <2>1. EndsScan(d.options[i]) /\ EndsScan(d.options[m])
        BY <1>3 DEF Leads, EndsScan
    <2>2. ~(i \in 1 .. (m - 1)) /\ ~(m \in 1 .. (i - 1))
        BY <1>3, <2>1 DEF Leads
    <2> QED
        BY <1>1, <2>2
<1>4. d.options[m].value.key \in Keys
    BY DEF DatagramOK, Leads
<1> QED
    BY <1>2, <1>3, <1>4

-----------------------------------------------------------------------------
\* process_datagram_inner

LEMMA OcsStatusCases ==
    ASSUME NEW d, DatagramOK(d)
    PROVE  /\ OcsStatus(d) \in {"Absent", "Failed", "Unused", "InvalidZero", "Valid"}
           /\ OcsStatus(d) \in {"Valid", "Unused"} =>
                 /\ d.surplus = "ok"
                 /\ d.ocs = "good" \/ (d.ocs = "zero" /\ d.checksum = "zero")
BY DEF DatagramOK, OcsStatus

\* A payload shows the datagram's own OCS, and the user data unless an UNSAFE option withholds it.
PayloadOK(d, v) ==
    /\ DOMAIN v = {"kind", "data", "options", "reports", "option_bearing", "ocs_reports"}
    /\ v.ocs_reports = {OcsReport(OcsStatus(d), "Datagram")}
    /\ v.data = d.user \/ (v.data = Empty /\ HasUnsafe(d))
    /\ Exposed(v.reports, v.options) \/ (v.data = Empty /\ HasUnsafe(d))

\* A fragment that is handed to the cache or makes it discard.
FragmentOK(d, v) ==
    /\ d.user = Empty /\ OcsStatus(d) \in {"Valid", "Unused"}
    /\ KeysOf(d) = {v.key} /\ v.key \in Keys

ProcessOK(d, v, reassembly_allowed) ==
    \/ v.kind = "Err" /\ ~UdpValid(d)
    \/ v.kind = "Payload" /\ UdpValid(d) /\ PayloadOK(d, v)
    \/ v.kind = "Dropped" /\ UdpValid(d) /\ FragmentOK(d, v)
    \/ v.kind = "Dropped" /\ v.key = None /\ ~reassembly_allowed /\ d.user = Empty
    \/ v.kind = "Fragment" /\ UdpValid(d) /\ reassembly_allowed /\ FragmentOK(d, v)

LEMMA PayloadShape ==
    ASSUME NEW d, NEW data, NEW options, NEW reports,
           data = d.user \/ (data = Empty /\ HasUnsafe(d)),
           Exposed(reports, options) \/ (data = Empty /\ HasUnsafe(d))
    PROVE  /\ Payload(d, data, options, reports).kind = "Payload"
           /\ PayloadOK(d, Payload(d, data, options, reports))
<1> DEFINE v == Payload(d, data, options, reports)
<1>1. /\ v.kind = "Payload" /\ v.data = data /\ v.options = options /\ v.reports = reports
      /\ v.ocs_reports = {OcsReport(OcsStatus(d), "Datagram")}
      /\ DOMAIN v = {"kind", "data", "options", "reports", "option_bearing", "ocs_reports"}
    BY DEF Payload
<1> HIDE DEF v
<1>2. PayloadOK(d, v)
    BY <1>1 DEF PayloadOK
<1> QED
    BY <1>1, <1>2 DEF v

LEMMA ProcessFacts ==
    ASSUME NEW d, DatagramOK(d), NEW reassembly_allowed \in BOOLEAN
    PROVE  ProcessOK(d, Process(d, reassembly_allowed), reassembly_allowed)
<1> DEFINE v == Process(d, reassembly_allowed)
           user_empty == d.user = Empty
           p == ParseOptions(d.options, user_empty)
<1>1. CASE ~UdpValid(d)
    <2>1. v.kind = "Err"
        BY <1>1 DEF Process
    <2> QED
        BY <1>1, <2>1 DEF ProcessOK
<1>2. CASE UdpValid(d) /\ v = DeliverWithoutOptions(d)
    <2>1. v.kind = "Payload" /\ PayloadOK(d, v)
        <3>1. Exposed({}, {})
            BY DEF Exposed
        <3> QED
            BY <1>2, <3>1, PayloadShape DEF DeliverWithoutOptions
    <2> QED
        BY <1>2, <2>1 DEF ProcessOK
<1>3. CASE /\ UdpValid(d) /\ v # DeliverWithoutOptions(d)
    <2>1. /\ OcsStatus(d) \in {"Valid", "Unused"} /\ v = ProcessParsed(d, p, reassembly_allowed)
          /\ p.state # "error" /\ (p.frag # NoFrag => d.user = Empty)
        BY <1>3, ZenonT(60) DEF Process, ProcessParsed
    <2>2. /\ p.state = "failed" => p.frag # NoFrag /\ d.user = Empty
          /\ p.unsafe /\ p.state # "failed" => HasUnsafe(d)
          /\ p.frag # NoFrag =>
                \E m \in DOMAIN d.options : Leads(d.options, m) /\ p.frag = d.options[m].value
          /\ Exposed(p.reports, p.options)
        <3>1. Yielded(d.options)
            BY DEF DatagramOK
        <3>2. HasUnsafe(d) <=> \E m \in DOMAIN d.options : UnsafeAt(d.options[m])
            BY DEF HasUnsafe, UnsafeAt
        <3>3. /\ p.state = "failed" => p.frag # NoFrag /\ user_empty
              /\ p.unsafe /\ p.state # "failed" =>
                    \E m \in DOMAIN d.options : UnsafeAt(d.options[m])
              /\ p.frag # NoFrag =>
                    \E m \in DOMAIN d.options : Leads(d.options, m) /\ p.frag = d.options[m].value
              /\ Exposed(p.reports, p.options)
            <4> HIDE DEF user_empty
            <4> QED
                BY <3>1, ParseFacts
        <3> HIDE DEF p
        <3> QED
            BY <3>2, <3>3, SMTT(30)
    <2> HIDE DEF p
    <2>3. ASSUME p.frag # NoFrag
          PROVE  /\ d.user = Empty /\ KeysOf(d) = {p.frag.key} /\ p.frag.key \in Keys
        BY <2>1, <2>2, <2>3, LeadingKey
    <2>4. CASE p.state = "failed" \/ (p.frag # NoFrag /\ p.unsafe)
        <3>1. v = Dropped(p.frag.key) /\ p.frag # NoFrag
            BY <2>1, <2>2, <2>4 DEF ProcessParsed
        <3>2. v.kind = "Dropped" /\ v.key = p.frag.key
            BY <3>1 DEF Dropped
        <3> QED
            BY <1>3, <2>1, <2>3, <3>1, <3>2, SMTT(30) DEF ProcessOK, FragmentOK
    <2>5. CASE p.state # "failed" /\ p.frag = NoFrag /\ p.unsafe
        <3>1. v = Payload(d, Empty, {}, p.reports)
            BY <2>1, <2>5 DEF ProcessParsed
        <3>2. v.kind = "Payload" /\ PayloadOK(d, v)
            BY <2>2, <2>5, <3>1, PayloadShape
        <3> QED
            BY <1>3, <3>2 DEF ProcessOK
    <2>6. CASE p.state # "failed" /\ p.frag = NoFrag /\ ~p.unsafe
        <3>1. v = Payload(d, d.user, p.options, p.reports)
            BY <2>1, <2>6 DEF ProcessParsed
        <3>2. v.kind = "Payload" /\ PayloadOK(d, v)
            BY <2>2, <3>1, PayloadShape
        <3> QED
            BY <1>3, <3>2 DEF ProcessOK
    <2>7. CASE p.state # "failed" /\ p.frag # NoFrag /\ ~p.unsafe /\ reassembly_allowed
        <3>1. v = FragmentOf(d, p)
            BY <2>1, <2>7 DEF ProcessParsed
        <3>2. v.kind = "Fragment" /\ v.key = p.frag.key
            BY <3>1 DEF FragmentOf
        <3> QED
            BY <1>3, <2>1, <2>3, <2>7, <3>2, Zenon DEF ProcessOK, FragmentOK
    <2>8. CASE p.state # "failed" /\ p.frag # NoFrag /\ ~p.unsafe /\ ~reassembly_allowed
        <3>1. v = Dropped(None)
            BY <2>1, <2>8 DEF ProcessParsed
        <3>2. v.kind = "Dropped" /\ v.key = None
            BY <3>1 DEF Dropped
        <3> QED
            BY <2>3, <2>8, <3>2 DEF ProcessOK
    <2> QED
        BY <2>4, <2>5, <2>6, <2>7, <2>8, SMTT(30)
<1> QED
    BY <1>1, <1>2, <1>3

-----------------------------------------------------------------------------
\* The cache, as far as the policy depends on it

PartialFields == DOMAIN R!NewPartial

\* No failure and no unchecked fragment of the history h is forgotten.
Covers(h, failures, ocs) ==
    \A i \in DOMAIN h :
        /\ h[i].frag.failures \subseteq failures
        /\ h[i].frag.ocs = "unobserved" => ocs = "unobserved"

History(h) ==
    /\ h \in Seq(Range(h))
    /\ \A i \in DOMAIN h : DOMAIN h[i] = {"frag", "age"}

Noted(h, p) ==
    /\ History(h) /\ DOMAIN p = PartialFields
    /\ Covers(h, p.option_failures, p.ocs)

CacheOK ==
    /\ DOMAIN taken = DOMAIN partials
    /\ \A k \in DOMAIN partials : Noted(taken[k], partials[k])
    /\ outcome.kind = "Complete" => Covers(outcome.from, outcome.failures, outcome.ocs)

LEMMA SeqOfRange ==
    ASSUME NEW S, NEW h \in Seq(S)
    PROVE  h \in Seq(Range(h))
<1>1. \A i \in DOMAIN h : h[i] \in Range(h)
    BY DEF Range
<1> QED
    BY <1>1

LEMMA NewNoted == Noted(<<>>, R!NewPartial)
<1>1. <<>> \in Seq(Range(<<>>))
    <2>1. <<>> \in Seq({})
        OBVIOUS
    <2> QED
        BY <2>1, SeqOfRange
<1> QED
    BY <1>1 DEF Noted, History, Covers, PartialFields

\* A history that is one fragment longer.
LEMMA HistoryGrows ==
    ASSUME NEW h, History(h), NEW f
    PROVE  LET g == Append(h, [frag |-> f, age |-> 0]) IN
           /\ History(g)
           /\ \A i \in DOMAIN g : (i \in DOMAIN h /\ g[i] = h[i]) \/ g[i].frag = f
<1> DEFINE e == [frag |-> f, age |-> 0]
           g == Append(h, e)
<1>1. PICK S : h \in Seq(S)
    BY DEF History
<1> DEFINE S2 == S \cup {e}
<1>2. e \in S2 /\ DOMAIN e = {"frag", "age"} /\ e.frag = f
    OBVIOUS
<1> HIDE DEF e
<1>3. /\ h \in Seq(S2) /\ g \in Seq(S2)
      /\ \A i \in DOMAIN g : (i \in DOMAIN h /\ g[i] = h[i]) \/ g[i] = e
    <2>1. \A i \in DOMAIN h : h[i] \in S2
        BY <1>1
    <2>2. h \in Seq(S2)
        BY <1>1, <2>1
    <2> HIDE DEF S2
    <2> QED
        BY <1>2, <2>2
<1> HIDE DEF g, S2
<1>4. History(g) /\ \A i \in DOMAIN g : (i \in DOMAIN h /\ g[i] = h[i]) \/ g[i].frag = f
    BY <1>2, <1>3, SeqOfRange DEF History
<1> QED
    BY <1>4 DEF g, e

\* Partial::insert notes what the fragment brings, a duplicate's OCS included.
LEMMA InsertNotes ==
    ASSUME NEW h, NEW p, NEW f, Noted(h, p)
    PROVE  LET r == R!InsertResult(p, f)
               g == IF R!IsExactDuplicate(p, f) THEN h ELSE Append(h, [frag |-> f, age |-> 0])
           IN  r.kind \in {"Complete", "Incomplete"} => Noted(g, r.partial)
<1> DEFINE r == R!InsertResult(p, f)
           g == Append(h, [frag |-> f, age |-> 0])
<1>1. CASE R!IsExactDuplicate(p, f)
    <2> DEFINE q == [p EXCEPT !.ocs = R!ObserveOcs(@, f.ocs)]
    <2>1. r.partial = q
        BY <1>1 DEF R!InsertResult
    <2>2. /\ DOMAIN q = PartialFields /\ q.option_failures = p.option_failures
          /\ q.ocs = R!ObserveOcs(p.ocs, f.ocs)
        BY DEF Noted, PartialFields, R!NewPartial
    <2>3. p.ocs = "unobserved" => q.ocs = "unobserved"
        BY <2>2 DEF R!ObserveOcs
    <2>4. Noted(h, q)
        <3> HIDE DEF q
        <3> QED
            BY <2>2, <2>3 DEF Noted, Covers
    <2> QED
        BY <1>1, <2>1, <2>4
<1>2. CASE ~R!IsExactDuplicate(p, f) /\ r.kind \in {"Complete", "Incomplete"}
    <2> DEFINE q == R!Accept(p, f)
    <2>1. r.partial = q
        BY <1>2 DEF R!InsertResult
    <2>2. /\ DOMAIN q = PartialFields /\ q.option_failures = p.option_failures \cup f.failures
          /\ q.ocs = R!ObserveOcs(p.ocs, f.ocs)
        BY Zenon DEF Noted, PartialFields, R!NewPartial, R!Accept
    <2>3. p.ocs = "unobserved" \/ f.ocs = "unobserved" => q.ocs = "unobserved"
        BY <2>2 DEF R!ObserveOcs
    <2>4. Noted(g, q)
        <3>1. History(g) /\ \A i \in DOMAIN g : (i \in DOMAIN h /\ g[i] = h[i]) \/ g[i].frag = f
            BY HistoryGrows DEF Noted
        <3> HIDE DEF q, g
        <3> QED
            BY <2>2, <2>3, <3>1 DEF Noted, Covers
    <2> QED
        BY <1>2, <2>1, <2>4
<1> QED
    BY <1>1, <1>2

LEMMA LiveRetained == R!Live \subseteq DOMAIN partials
BY DEF R!Live

\* What is left when partials are removed.
LEMMA ShrinkKeeps ==
    ASSUME CacheOK, NEW S, S \subseteq DOMAIN partials,
           partials' = R!Restrict(partials, S), taken' = R!Restrict(taken, S),
           outcome'.kind = "Complete" => Covers(outcome'.from, outcome'.failures, outcome'.ocs)
    PROVE  CacheOK' /\ DOMAIN partials' = S
<1>1. /\ DOMAIN partials' = S /\ DOMAIN taken' = S
      /\ \A k \in S : partials'[k] = partials[k] /\ taken'[k] = taken[k]
    BY DEF R!Restrict
<1> QED
    BY <1>1 DEF CacheOK

\* insert_with_options_and_failures; whatever it returns but Incomplete, nothing is left of the key.
LEMMA InsertKeeps ==
    ASSUME CacheOK, NEW k, NEW f, R!Insert(k, f)
    PROVE  /\ CacheOK'
           /\ outcome'.kind # "Incomplete" => k \notin DOMAIN partials'
<1> DEFINE Live == R!Live
           P == R!PartialFor(k)
           H == R!TakenFor(k)
           X == R!Extended(k, f)
<1>1. Live \subseteq DOMAIN partials
    BY LiveRetained
<1>2. Noted(H, P)
    <2>1. CASE k \in Live
        BY <1>1, <2>1 DEF CacheOK, R!PartialFor, R!TakenFor
    <2>2. CASE k \notin Live
        BY <2>2, NewNoted DEF R!PartialFor, R!TakenFor
    <2> QED
        BY <2>1, <2>2
<1>3. LET r == R!InsertResult(P, f) IN
      r.kind \in {"Complete", "Incomplete"} => Noted(X, r.partial)
    <2>1. X = IF R!IsExactDuplicate(P, f) THEN H ELSE Append(H, [frag |-> f, age |-> 0])
        BY DEF R!Extended
    <2> HIDE DEF P, H, X
    <2> QED
        BY <1>2, <2>1, InsertNotes
<1>4. ASSUME NEW q, Noted(X, q), outcome' = R!Completed(k, q, X)
      PROVE  Covers(outcome'.from, outcome'.failures, outcome'.ocs)
    <2>1. outcome'.from = X /\ outcome'.failures = q.option_failures /\ outcome'.ocs = q.ocs
        BY <1>4 DEF R!Completed
    <2> QED
        BY <1>4, <2>1 DEF Noted
<1>5. CASE R!InsertMalformed(k, f) \/ R!InsertOversize(k, f)
    <2>1. /\ partials' = R!Restrict(partials, Live \ {k}) /\ taken' = R!Restrict(taken, Live \ {k})
          /\ outcome'.kind # "Complete"
        BY <1>5 DEF R!InsertMalformed, R!InsertOversize, R!GcAndRemove, R!Returned
    <2>2. Live \ {k} \subseteq DOMAIN partials
        BY <1>1
    <2>3. CacheOK' /\ DOMAIN partials' = Live \ {k}
        <3> DEFINE rest == Live \ {k}
        <3> HIDE DEF rest
        <3>1. /\ partials' = R!Restrict(partials, rest) /\ taken' = R!Restrict(taken, rest)
              /\ rest \subseteq DOMAIN partials
            BY <2>1, <2>2 DEF rest
        <3>2. CacheOK' /\ DOMAIN partials' = rest
            BY <2>1, <3>1, ShrinkKeeps, Zenon
        <3> QED
            BY <3>2 DEF rest
    <2> QED
        BY <2>3
<1>6. CASE R!InsertWithoutRetaining(k, f)
    <2> DEFINE r == R!InsertResult(R!NewPartial, f)
    <2>1. /\ partials' = R!Restrict(partials, Live) /\ taken' = R!Restrict(taken, Live)
          /\ k \notin Live
          /\ outcome' = IF r.kind = "Complete" THEN R!Completed(k, r.partial, X)
                        ELSE IF r.kind = "Incomplete" THEN R!Returned("LimitExceeded", k)
                        ELSE R!Returned(r.kind, k)
        BY <1>6 DEF R!InsertWithoutRetaining, R!GcOnly, R!HasRoom
    <2>2. P = R!NewPartial
        BY <2>1 DEF R!PartialFor
    <2>3. r.kind = "Complete" => Noted(X, r.partial)
        BY <1>3, <2>2
    <2>4. outcome'.kind = "Complete" => Covers(outcome'.from, outcome'.failures, outcome'.ocs)
        <3>1. CASE r.kind = "Complete"
            BY <1>4, <2>1, <2>3, <3>1
        <3>2. CASE r.kind # "Complete"
            BY <2>1, <3>2 DEF R!Returned
        <3> QED
            BY <3>1, <3>2
    <2> HIDE DEF Live
    <2> QED
        BY <1>1, <2>1, <2>4, ShrinkKeeps
<1>7. CASE R!InsertRetaining(k, f)
    <2> DEFINE r == R!InsertResult(P, f)
    <2>1. CASE /\ r.kind = "Incomplete" /\ R!GcAndStore(k, r.partial, X)
               /\ outcome' = R!Returned("Incomplete", k)
        <3>1. /\ DOMAIN partials' = Live \cup {k} /\ DOMAIN taken' = Live \cup {k}
              /\ partials'[k] = r.partial /\ taken'[k] = X
              /\ \A j \in Live : j # k => partials'[j] = partials[j] /\ taken'[j] = taken[j]
            BY <2>1 DEF R!GcAndStore
        <3>2. Noted(X, r.partial) /\ outcome'.kind = "Incomplete"
            BY <1>3, <2>1 DEF R!Returned
        <3> HIDE DEF Live, r, X
        <3> QED
            BY <1>1, <3>1, <3>2 DEF CacheOK
    <2>2. CASE /\ R!GcAndRemove(k)
               /\ \/ r.kind = "Complete" /\ outcome' = R!Completed(k, r.partial, X)
                  \/ /\ r.kind \in {"LimitExceeded", "Overlap"}
                     /\ outcome' = R!Returned(r.kind, k)
        <3>1. /\ partials' = R!Restrict(partials, Live \ {k})
              /\ taken' = R!Restrict(taken, Live \ {k})
            BY <2>2 DEF R!GcAndRemove
        <3>2. outcome'.kind = "Complete" => Covers(outcome'.from, outcome'.failures, outcome'.ocs)
            <4>1. CASE r.kind = "Complete"
                BY <1>3, <1>4, <2>2, <4>1
            <4>2. CASE r.kind # "Complete"
                BY <2>2, <4>2 DEF R!Returned
            <4> QED
                BY <4>1, <4>2
        <3>3. Live \ {k} \subseteq DOMAIN partials
            BY <1>1
        <3>4. CacheOK' /\ DOMAIN partials' = Live \ {k}
            <4> DEFINE rest == Live \ {k}
            <4> HIDE DEF rest
            <4>1. /\ partials' = R!Restrict(partials, rest) /\ taken' = R!Restrict(taken, rest)
                  /\ rest \subseteq DOMAIN partials
                BY <3>1, <3>3 DEF rest
            <4>2. CacheOK' /\ DOMAIN partials' = rest
                BY <3>2, <4>1, ShrinkKeeps
            <4> QED
                BY <4>2 DEF rest
        <3> QED
            BY <3>4
    <2> QED
        BY <1>7, <2>1, <2>2, SMTT(30) DEF R!InsertRetaining
<1> QED
    BY <1>5, <1>6, <1>7 DEF R!Insert

LEMMA DiscardKeeps ==
    ASSUME CacheOK, NEW k, R!Discard(k)
    PROVE  CacheOK' /\ DOMAIN partials' = DOMAIN partials \ {k}
<1>1. outcome'.kind # "Complete"
    BY DEF R!Discard
<1> QED
    BY <1>1, ShrinkKeeps DEF R!Discard

LEMMA CollectKeeps ==
    ASSUME CacheOK, R!Gc
    PROVE  CacheOK'
<1>1. outcome'.kind # "Complete"
    BY DEF R!Gc
<1> QED
    BY <1>1, ShrinkKeeps, LiveRetained DEF R!Gc, R!GcOnly

LEMMA TickKeeps ==
    ASSUME CacheOK, R!Tick
    PROVE  CacheOK'
<1>1. /\ DOMAIN partials' = DOMAIN partials /\ DOMAIN taken' = DOMAIN partials
      /\ outcome'.kind # "Complete"
      /\ \A k \in DOMAIN partials :
            /\ partials'[k] = [partials[k] EXCEPT !.age = R!Older(@)]
            /\ taken'[k] = [i \in DOMAIN taken[k] |-> [taken[k][i] EXCEPT !.age = R!Older(@)]]
    BY DEF CacheOK, R!Tick
<1>2. ASSUME NEW k \in DOMAIN partials PROVE Noted(taken'[k], partials'[k])
    <2> DEFINE h == taken[k]
               g == [i \in DOMAIN h |-> [h[i] EXCEPT !.age = R!Older(@)]]
               p == partials[k]
               q == [p EXCEPT !.age = R!Older(@)]
    <2>1. Noted(h, p)
        BY DEF CacheOK
    <2>2. DOMAIN q = PartialFields /\ q.option_failures = p.option_failures /\ q.ocs = p.ocs
        BY <2>1 DEF Noted, PartialFields, R!NewPartial
    <2>3. /\ DOMAIN g = DOMAIN h
          /\ \A i \in DOMAIN h : DOMAIN g[i] = {"frag", "age"} /\ g[i].frag = h[i].frag
        <3>1. DOMAIN g = DOMAIN h
            OBVIOUS
        <3>2. ASSUME NEW i \in DOMAIN h PROVE DOMAIN g[i] = {"frag", "age"} /\ g[i].frag = h[i].frag
            <4>1. g[i] = [h[i] EXCEPT !.age = R!Older(@)] /\ DOMAIN h[i] = {"frag", "age"}
                BY <2>1, <3>2 DEF Noted, History
            <4> HIDE DEF g, h
            <4> QED
                BY <4>1
        <3> QED
            BY <3>1, <3>2, Zenon
    <2>4. g \in Seq(Range(g))
        <3> DEFINE S == {g[i] : i \in DOMAIN h}
        <3>1. PICK n \in Nat : DOMAIN h = 1 .. n
            BY <2>1 DEF Noted, History
        <3>2. g \in [1 .. n -> S]
            BY <2>3, <3>1
        <3>3. g \in Seq(S)
            <4> HIDE DEF g, S
            <4> QED
                BY <3>2
        <3> HIDE DEF g, S
        <3> QED
            BY <3>3, SeqOfRange
    <2> HIDE DEF g, q
    <2>5. Noted(g, q)
        BY <2>1, <2>2, <2>3, <2>4 DEF Noted, History, Covers
    <2> QED
        BY <1>1, <2>5 DEF g, q
<1> QED
    BY <1>1, <1>2 DEF CacheOK

-----------------------------------------------------------------------------
\* The receive path

\* What a reassembled tail holds is read by the same checks, iterator and decoders as a datagram.
InsideOK ==
    \A tail, udp_length :
        DatagramOK(Reassembled(tail, udp_length)) /\ Reassembled(tail, udp_length) # None

\* The datagram that completed a set has passed every check, and its set is out of the cache.
NestedOK ==
    /\ delivery.kind = "None" /\ outcome.kind = "Complete"
    /\ arrived.user = Empty /\ OcsStatus(arrived) \in {"Valid", "Unused"}
    /\ KeysOf(arrived) \cap DOMAIN partials = {}
    /\ DatagramOK(inner) /\ inner # None

Kept ==
    /\ UserDataSurvives /\ DroppedLeavesNothing
    /\ FailedFragmentFailsRequirement /\ RequiredOcsHolds /\ RequiredOptionExposed

\* The inductive invariant.
IInv ==
    /\ pc \in {"idle", "nested"}
    /\ CacheOK
    /\ pc = "nested" => NestedOK
    /\ Kept

\* Nothing was returned.
LEMMA QuietKept ==
    ASSUME pc' # "idle" \/ delivery'.kind = "None"
    PROVE  Kept'
BY DEF Kept, Returned, UserDataSurvives, DroppedLeavesNothing, FailedFragmentFailsRequirement,
       RequiredOcsHolds, RequiredOptionExposed

\* Nothing was received, and no user data is at stake.
LEMMA NotReceivedKept ==
    ASSUME delivery'.kind # "Received",
           UdpValid(arrived') /\ arrived'.user # Empty => delivery'.kind = "Filtered",
           delivery'.kind = "Dropped" => KeysOf(arrived') \cap DOMAIN partials' = {}
    PROVE  Kept'
<1>1. KeysOf(arrived)' = KeysOf(arrived')
    BY DEF KeysOf
<1> QED
    BY <1>1 DEF Kept, Returned, CameFromFragments, UserDataSurvives, DroppedLeavesNothing,
           FailedFragmentFailsRequirement, RequiredOcsHolds, RequiredOptionExposed, UdpValid

LEMMA JudgedFacts ==
    ASSUME NEW p
    PROVE  \/ Judged(p).kind = "Filtered"
           \/ /\ Judged(p).kind = "Received" /\ ~FilteredPayload(p)
              /\ Judged(p).data = p.data /\ Judged(p).options = p.options
BY DEF Judged

\* What a payload that is not filtered guarantees.
LEMMA PassedPolicy ==
    ASSUME NEW p, ~FilteredPayload(p)
    PROVE  /\ \A k \in policy.required :
                 /\ [kind |-> k, status |-> "Failed", source |-> "FragmentSet"] \notin p.reports
                 /\ \E r \in p.reports : r.kind = k /\ r.status = "Success"
           /\ policy.ocs_required =>
                 /\ \A r \in p.ocs_reports : r.status \notin {"Failed", "InvalidZero", "Unobserved"}
                 /\ \E r \in p.ocs_reports : r.status \in {"Valid", "Unused"}
BY DEF FilteredPayload, MissingRequiredOption, OcsRequirementSatisfied

LEMMA FilteredStep ==
    ASSUME IInv, NEW d \in Datagrams, ReceiveFiltered(d)
    PROVE  IInv'
<1>1. delivery'.kind = "Filtered" /\ pc' = "idle" /\ UNCHANGED cache_vars
    BY DEF ReceiveFiltered, Receive
<1>2. Kept'
    BY <1>1, NotReceivedKept
<1>3. CacheOK'
    BY <1>1 DEF IInv, CacheOK, cache_vars
<1> QED
    BY <1>1, <1>2, <1>3 DEF IInv

LEMMA WholeStep ==
    ASSUME IInv, NEW d \in Datagrams, ReceiveWhole(d)
    PROVE  IInv'
<1> DEFINE v == Process(d, TRUE)
<1>1. /\ pc' = "idle" /\ arrived' = d /\ inner' = None /\ policy' = policy /\ UNCHANGED cache_vars
      /\ \/ v.kind = "Err" /\ delivery' = [kind |-> "Err"]
         \/ v.kind = "Payload" /\ delivery' = Judged(v)
    BY Zenon DEF ReceiveWhole, Receive
<1>2. ProcessOK(d, v, TRUE)
    BY ProcessFacts, DatagramsAssumption, Zenon
<1>3. CacheOK'
    BY <1>1 DEF IInv, CacheOK, cache_vars
<1> HIDE DEF v
<1>4. CASE v.kind = "Err"
    <2>1. ~UdpValid(d) /\ delivery'.kind = "Err"
        BY <1>1, <1>2, <1>4 DEF ProcessOK
    <2>2. Kept'
        BY <1>1, <2>1, NotReceivedKept
    <2> QED
        BY <1>1, <1>3, <2>2 DEF IInv
<1>5. CASE v.kind = "Payload" /\ delivery'.kind = "Filtered"
    <2>1. Kept'
        BY <1>5, NotReceivedKept
    <2> QED
        BY <1>1, <1>3, <2>1 DEF IInv
<1>6. CASE v.kind = "Payload" /\ delivery'.kind # "Filtered"
    <2>1. /\ delivery'.kind = "Received" /\ ~FilteredPayload(v)
          /\ delivery'.data = v.data /\ delivery'.options = v.options
        BY <1>1, <1>6, JudgedFacts
    <2>2. PayloadOK(d, v)
        BY <1>2, <1>6 DEF ProcessOK
    <2>3. ~CameFromFragments'
        BY <1>1 DEF CameFromFragments
    <2>4. UserDataSurvives'
        BY <1>1, <2>1, <2>2 DEF UserDataSurvives, PayloadOK, HasUnsafe
    <2>5. RequiredOcsHolds'
        <3>1. policy.ocs_required => OcsStatus(d) \in {"Valid", "Unused"}
            BY <2>1, <2>2, PassedPolicy DEF PayloadOK, OcsReport
        <3> QED
            BY <1>1, <2>3, <3>1, Zenon DEF RequiredOcsHolds, OcsStatus
    <2>6. RequiredOptionExposed'
        <3>1. ASSUME NEW k \in policy.required
              PROVE  (\E o \in v.options : o.kind = k) \/ (v.data = Empty /\ HasUnsafe(d))
            <4>1. PICK r \in v.reports : r.kind = k /\ r.status = "Success"
                BY <2>1, PassedPolicy, ZenonT(60)
            <4> QED
                BY <2>2, <4>1 DEF PayloadOK, Exposed
        <3> QED
            BY <1>1, <2>1, <2>3, <3>1 DEF RequiredOptionExposed, HasUnsafe
    <2>7. DroppedLeavesNothing' /\ FailedFragmentFailsRequirement'
        BY <2>1, <2>3 DEF DroppedLeavesNothing, FailedFragmentFailsRequirement
    <2> QED
        BY <1>1, <1>3, <2>4, <2>5, <2>6, <2>7 DEF IInv, Kept
<1> QED
    BY <1>1, <1>4, <1>5, <1>6

LEMMA DroppedStep ==
    ASSUME IInv, NEW d \in Datagrams, ReceiveDropped(d)
    PROVE  IInv'
<1> DEFINE v == Process(d, TRUE)
<1>1. /\ pc' = "idle" /\ arrived' = d /\ v.kind = "Dropped" /\ Discard(v.key)
      /\ delivery'.kind = "Dropped"
    BY Zenon DEF ReceiveDropped, Receive
<1>2. ProcessOK(d, v, TRUE)
    BY ProcessFacts, DatagramsAssumption, Zenon
<1> HIDE DEF v
<1>3. FragmentOK(d, v)
    BY <1>1, <1>2 DEF ProcessOK
<1>4. R!Discard(v.key)
    BY <1>1, <1>3, NoKeyAssumption DEF FragmentOK, Discard
<1>5. CacheOK' /\ DOMAIN partials' = DOMAIN partials \ {v.key}
    BY <1>4, DiscardKeeps DEF IInv
<1>6. Kept'
    BY <1>1, <1>3, <1>5, NotReceivedKept DEF FragmentOK
<1> QED
    BY <1>1, <1>5, <1>6 DEF IInv

LEMMA FragmentStep ==
    ASSUME IInv, InsideOK, NEW d \in Datagrams, ReceiveFragment(d)
    PROVE  IInv'
<1> DEFINE v == Process(d, TRUE)
<1>1. pc = "idle" /\ arrived' = d /\ v.kind = "Fragment" /\ R!Insert(v.key, v.fragment)
    BY Zenon DEF ReceiveFragment, Receive
<1>2. ProcessOK(d, v, TRUE)
    BY ProcessFacts, DatagramsAssumption, Zenon
<1> HIDE DEF v
<1>3. FragmentOK(d, v)
    BY <1>1, <1>2 DEF ProcessOK
<1>4. CacheOK' /\ (outcome'.kind # "Incomplete" => v.key \notin DOMAIN partials')
    BY <1>1, InsertKeeps DEF IInv
<1>5. CASE pc' = "idle" /\ delivery'.kind = "Buffered"
    <2>1. Kept'
        BY <1>1, <1>3, <1>5, NotReceivedKept DEF FragmentOK
    <2> QED
        BY <1>4, <1>5, <2>1 DEF IInv
<1>6. CASE pc' = "idle" /\ delivery'.kind = "Dropped" /\ outcome'.kind # "Incomplete"
    <2>1. Kept'
        BY <1>1, <1>3, <1>4, <1>6, NotReceivedKept, SMTT(30) DEF FragmentOK
    <2> QED
        BY <1>4, <1>6, <2>1 DEF IInv
<1>7. CASE /\ pc' = "nested" /\ delivery'.kind = "None" /\ outcome'.kind = "Complete"
           /\ inner' = Reassembled(outcome'.tail, outcome'.udp_length)
    <2>1. DatagramOK(inner') /\ inner' # None
        BY <1>7 DEF InsideOK
    <2>2. KeysOf(arrived') \cap DOMAIN partials' = {}
        BY <1>1, <1>3, <1>4, <1>7 DEF FragmentOK
    <2>3. NestedOK'
        <3>1. DatagramOK(inner)' = DatagramOK(inner')
            BY DEF DatagramOK
        <3>2. KeysOf(arrived)' = KeysOf(arrived') /\ OcsStatus(arrived)' = OcsStatus(arrived')
            BY DEF KeysOf, OcsStatus
        <3> QED
            BY <1>1, <1>3, <1>7, <2>1, <2>2, <3>1, <3>2 DEF NestedOK, FragmentOK
    <2>4. Kept'
        BY <1>7, QuietKept
    <2> QED
        BY <1>4, <1>7, <2>3, <2>4 DEF IInv
<1>8. \/ pc' = "idle" /\ delivery'.kind = "Buffered"
      \/ pc' = "idle" /\ delivery'.kind = "Dropped" /\ outcome'.kind # "Incomplete"
      \/ /\ pc' = "nested" /\ delivery'.kind = "None" /\ outcome'.kind = "Complete"
         /\ inner' = Reassembled(outcome'.tail, outcome'.udp_length)
    BY <1>1, SMTT(30) DEF ReceiveFragment
<1> QED
    BY <1>5, <1>6, <1>7, <1>8

\* What the fragments add to a payload.
LEMMA MergeFacts ==
    ASSUME NEW d, NEW v, PayloadOK(d, v), NEW c
    PROVE  LET m == MergeFragments(v, c)
               kept == {o \in RawOptions(c.options) : o.kind \notin c.failures}
           IN  /\ m.data = v.data /\ m.options = v.options \cup kept
               /\ m.reports = (v.reports \cup FromFragments(c.failures, "Failed"))
                                 \cup FromFragments({o.kind : o \in kept}, "Success")
               /\ v.ocs_reports \subseteq m.ocs_reports
               /\ c.ocs = "unobserved" => \E r \in m.ocs_reports : r.status = "Unobserved"
<1> DEFINE m == MergeFragments(v, c)
           kept == {o \in RawOptions(c.options) : o.kind \notin c.failures}
           status == CASE c.ocs = "valid"      -> "Valid"
                       [] c.ocs = "unused"     -> "Unused"
                       [] c.ocs = "unobserved" -> "Unobserved"
<1>1. m = [v EXCEPT !.options = @ \cup kept,
                    !.reports = @ \cup FromFragments(c.failures, "Failed")
                                  \cup FromFragments({o.kind : o \in kept}, "Success"),
                    !.ocs_reports = @ \cup {OcsReport(status, "FragmentSet")}]
    BY DEF MergeFragments
<1>2. c.ocs = "unobserved" => OcsReport(status, "FragmentSet").status = "Unobserved"
    BY DEF OcsReport
<1> HIDE DEF kept, status, m
<1>3. /\ m.data = v.data /\ m.options = v.options \cup kept
      /\ m.reports = (v.reports \cup FromFragments(c.failures, "Failed"))
                        \cup FromFragments({o.kind : o \in kept}, "Success")
      /\ m.ocs_reports = v.ocs_reports \cup {OcsReport(status, "FragmentSet")}
    BY <1>1 DEF PayloadOK
<1>4. /\ v.ocs_reports \subseteq m.ocs_reports
      /\ c.ocs = "unobserved" => \E r \in m.ocs_reports : r.status = "Unobserved"
    BY <1>2, <1>3
<1> QED
    BY <1>3, <1>4, Zenon DEF kept, m

\* A delivery of the nested pass that the policy lets through.
LEMMA MergedKept ==
    ASSUME IInv, pc = "nested", NEW v, PayloadOK(inner, v), pc' = "idle",
           delivery' = Judged(MergeFragments(v, outcome)), delivery'.kind = "Received",
           UNCHANGED <<policy, arrived, inner, cache_vars>>
    PROVE  Kept'
<1> DEFINE m == MergeFragments(v, outcome)
           kept == {o \in RawOptions(outcome.options) : o.kind \notin outcome.failures}
<1>1. /\ m.data = v.data /\ m.options = v.options \cup kept
      /\ m.reports = (v.reports \cup FromFragments(outcome.failures, "Failed"))
                        \cup FromFragments({o.kind : o \in kept}, "Success")
      /\ v.ocs_reports \subseteq m.ocs_reports
      /\ outcome.ocs = "unobserved" => \E r \in m.ocs_reports : r.status = "Unobserved"
    BY MergeFacts, Zenon
<1> HIDE DEF m, kept
<1>2. /\ ~FilteredPayload(m) /\ delivery'.data = v.data /\ delivery'.options = m.options
    BY <1>1, JudgedFacts DEF m
<1>3. NestedOK /\ Covers(outcome.from, outcome.failures, outcome.ocs)
    BY DEF IInv, CacheOK, NestedOK
<1>4. CameFromFragments'
    BY <1>3 DEF CameFromFragments, NestedOK
<1>5. \A k \in outcome.failures : k \notin policy.required
    <2> TAKE k \in outcome.failures
    <2>1. [kind |-> k, status |-> "Failed", source |-> "FragmentSet"] \in m.reports
        BY <1>1, SMTT(30) DEF FromFragments
    <2> QED
        BY <1>2, <2>1, PassedPolicy
<1>6. FailedFragmentFailsRequirement'
    BY <1>3, <1>5, SMTT(30) DEF FailedFragmentFailsRequirement, Covers, cache_vars
<1>7. RequiredOcsHolds'
    <2> SUFFICES ASSUME policy.ocs_required
                 PROVE  /\ OcsStatus(arrived) \in {"Valid", "Unused"}
                        /\ \A i \in DOMAIN outcome.from : outcome.from[i].frag.ocs # "unobserved"
                        /\ OcsStatus(inner) \in {"Absent", "Valid", "Unused"}
        BY ZenonT(60) DEF RequiredOcsHolds, OcsStatus, cache_vars
    <2>1. \A r \in m.ocs_reports : r.status \notin {"Failed", "InvalidZero", "Unobserved"}
        BY <1>2, PassedPolicy
    <2>2. outcome.ocs # "unobserved"
        BY <1>1, <2>1
    <2>3. OcsStatus(inner) \notin {"Failed", "InvalidZero"}
        <3>1. OcsReport(OcsStatus(inner), "Datagram") \in m.ocs_reports
            BY <1>1 DEF PayloadOK
        <3>2. OcsReport(OcsStatus(inner), "Datagram").status = OcsStatus(inner)
            BY DEF OcsReport
        <3> QED
            BY <2>1, <3>1, <3>2
    <2>4. OcsStatus(inner) \in {"Absent", "Valid", "Unused"}
        BY <1>3, <2>3, OcsStatusCases DEF NestedOK
    <2> QED
        BY <1>3, <2>2, <2>4 DEF NestedOK, Covers
<1>8. RequiredOptionExposed'
    <2>1. ASSUME NEW k \in policy.required
          PROVE  (\E o \in m.options : o.kind = k) \/ (v.data = Empty /\ HasUnsafe(inner))
        <3>1. PICK r \in m.reports : r.kind = k /\ r.status = "Success"
            BY <1>2, PassedPolicy, ZenonT(60)
        <3>2. CASE r \in v.reports
            BY <1>1, <3>1, <3>2 DEF PayloadOK, Exposed
        <3>3. CASE r \in FromFragments(outcome.failures, "Failed")
            BY <3>1, <3>3 DEF FromFragments
        <3>4. CASE r \in FromFragments({o.kind : o \in kept}, "Success")
            <4>1. k \in {o.kind : o \in kept}
                BY <3>1, <3>4, SMTT(30) DEF FromFragments
            <4> QED
                BY <1>1, <4>1
        <3> QED
            BY <1>1, <3>1, <3>2, <3>3, <3>4
    <2> QED
        BY <1>2, <1>4, <2>1, SMTT(30) DEF RequiredOptionExposed, HasUnsafe
<1>9. UserDataSurvives' /\ DroppedLeavesNothing'
    BY <1>3 DEF UserDataSurvives, DroppedLeavesNothing, NestedOK
<1> QED
    BY <1>6, <1>7, <1>8, <1>9, SMTT(30) DEF Kept

LEMMA NestedStep ==
    ASSUME IInv, ProcessReassembled
    PROVE  IInv'
<1> DEFINE v == Process(inner, FALSE)
<1>1. /\ pc = "nested" /\ pc' = "idle" /\ UNCHANGED <<policy, arrived, inner>>
      /\ \/ /\ v.kind = "Payload" /\ delivery' = Judged(MergeFragments(v, outcome))
            /\ UNCHANGED cache_vars
         \/ v.kind = "Dropped" /\ delivery' = [kind |-> "Dropped"] /\ Discard(v.key)
    BY Zenon DEF ProcessReassembled
<1>2. NestedOK /\ CacheOK
    BY <1>1 DEF IInv
<1>3. ProcessOK(inner, v, FALSE)
    BY <1>2, ProcessFacts, Zenon DEF NestedOK
<1> HIDE DEF v
<1>4. CASE v.kind = "Payload"
    <2>1. PayloadOK(inner, v)
        BY <1>3, <1>4 DEF ProcessOK
    <2>2. CacheOK'
        BY <1>1, <1>2, <1>4 DEF CacheOK, cache_vars
    <2>3. CASE delivery'.kind = "Received"
        BY <1>1, <1>4, <2>1, <2>2, <2>3, MergedKept DEF IInv
    <2>4. CASE delivery'.kind # "Received"
        <3>1. delivery'.kind = "Filtered"
            BY <1>1, <1>4, <2>4, JudgedFacts
        <3>2. Kept'
            BY <3>1, NotReceivedKept
        <3> QED
            BY <1>1, <2>2, <3>2 DEF IInv
    <2> QED
        BY <2>3, <2>4
<1>5. CASE v.kind = "Dropped"
    <2>1. CacheOK' /\ DOMAIN partials' \subseteq DOMAIN partials
        <3>1. CASE v.key = None
            BY <1>1, <1>2, <1>5, <3>1, SMTT(30) DEF Discard, CacheOK, cache_vars
        <3>2. CASE v.key # None
            BY <1>1, <1>2, <1>5, <3>2, DiscardKeeps, Zenon DEF Discard
        <3> QED
            BY <3>1, <3>2, SMTT(30)
    <2>2. delivery'.kind = "Dropped"
        BY <1>1, <1>5
    <2>3. Kept'
        BY <1>1, <1>2, <2>1, <2>2, NotReceivedKept DEF NestedOK
    <2> QED
        BY <1>1, <2>1, <2>3 DEF IInv
<1> QED
    BY <1>1, <1>4, <1>5

LEMMA OwnerStep ==
    ASSUME IInv, CacheStep
    PROVE  IInv'
<1>1. pc' = "idle" /\ delivery'.kind = "None"
    BY DEF CacheStep
<1>2. CacheOK'
    BY InsertKeeps, CollectKeeps, TickKeeps DEF CacheStep, IInv
<1> QED
    BY <1>1, <1>2, QuietKept DEF IInv

LEMMA InitOK == Init => IInv
<1> SUFFICES ASSUME Init PROVE IInv
    OBVIOUS
<1>1. CacheOK
    BY DEF Init, R!Init, CacheOK
<1>2. Kept
    BY DEF Init, Kept, Returned, UserDataSurvives, DroppedLeavesNothing,
           FailedFragmentFailsRequirement, RequiredOcsHolds, RequiredOptionExposed
<1> QED
    BY <1>1, <1>2 DEF Init, IInv

LEMMA NextOK ==
    ASSUME InsideOK, IInv, [Next]_vars
    PROVE  IInv'
<1>1. CASE UNCHANGED vars
    <2>1. CacheOK' /\ NestedOK' = NestedOK /\ Kept'
        BY <1>1, Zenon
           DEF vars, cache_vars, IInv, CacheOK, NestedOK, Kept, Returned, CameFromFragments,
               UserDataSurvives, DroppedLeavesNothing, FailedFragmentFailsRequirement,
               RequiredOcsHolds, RequiredOptionExposed
    <2> QED
        BY <1>1, <2>1, SMTT(30) DEF vars, IInv
<1> QED
    BY <1>1, FilteredStep, WholeStep, DroppedStep, FragmentStep, NestedStep, OwnerStep DEF Next

\* A fragment reaches the cache only past the checks.
LEMMA TrustedStep ==
    ASSUME NEW d \in Datagrams, ReceiveDropped(d) \/ ReceiveFragment(d)
    PROVE  /\ arrived' = d /\ d.user = Empty /\ d.surplus = "ok"
           /\ d.ocs = "good" \/ (d.ocs = "zero" /\ d.checksum = "zero")
           /\ ~policy.drop_all
<1> DEFINE v == Process(d, TRUE)
<1>1. arrived' = d /\ ~FilteredUnseen(d) /\ v.kind \in {"Dropped", "Fragment"}
    BY Zenon DEF ReceiveDropped, ReceiveFragment, Receive
<1>2. DatagramOK(d)
    BY DatagramsAssumption
<1>3. ProcessOK(d, v, TRUE)
    BY <1>2, ProcessFacts, Zenon
<1> HIDE DEF v
<1>4. UdpValid(d) /\ FragmentOK(d, v)
    BY <1>1, <1>3 DEF ProcessOK
<1>5. d.surplus = "ok" /\ (d.ocs = "good" \/ (d.ocs = "zero" /\ d.checksum = "zero"))
    BY <1>2, <1>4, OcsStatusCases DEF FragmentOK
<1> QED
    BY <1>1, <1>4, <1>5 DEF FragmentOK, FilteredUnseen

-----------------------------------------------------------------------------
\* IInv holds in every reachable state.
THEOREM Invariance == ASSUME InsideOK PROVE Spec => []IInv
<1>1. IInv /\ [Next]_vars => IInv'
    BY NextOK
<1> QED
    BY <1>1, InitOK, PTL DEF Spec

\* process_datagram neither drops nor buffers user data, whatever the surplus area holds.
THEOREM UserDataDelivered == ASSUME InsideOK PROVE Spec => []UserDataSurvives
<1>1. IInv => UserDataSurvives
    BY DEF IInv, Kept
<1> QED
    BY <1>1, Invariance, PTL

\* When process_datagram reports Dropped, reassembly.discard or insert has removed the whole set.
THEOREM DroppedDiscards == ASSUME InsideOK PROVE Spec => []DroppedLeavesNothing
<1>1. IInv => DroppedLeavesNothing
    BY DEF IInv, Kept
<1> QED
    BY <1>1, Invariance, PTL

\* The policy's required options hold for each fragment of what is received.
THEOREM FailuresNotForgotten == ASSUME InsideOK PROVE Spec => []FailedFragmentFailsRequirement
<1>1. IInv => FailedFragmentFailsRequirement
    BY DEF IInv, Kept
<1> QED
    BY <1>1, Invariance, PTL

\* require_ocs is satisfied only by checks on every level of the datagram.
THEOREM OcsRequirementHolds == ASSUME InsideOK PROVE Spec => []RequiredOcsHolds
<1>1. IInv => RequiredOcsHolds
    BY DEF IInv, Kept
<1> QED
    BY <1>1, Invariance, PTL

\* A required option is handed to the user with the datagram, or an UNSAFE option withheld both.
THEOREM RequirementExposed == ASSUME InsideOK PROVE Spec => []RequiredOptionExposed
<1>1. IInv => RequiredOptionExposed
    BY DEF IInv, Kept
<1> QED
    BY <1>1, Invariance, PTL

\* Nothing from the network touches the cache before the checks of process_datagram_inner and the
\* policy of decode_datagram.
THEOREM CacheBehindChecks == Spec => CacheTrustsChecks
<1> DEFINE A == pc = "idle" /\ ~CacheStep /\ cache_vars' # cache_vars =>
                   /\ arrived'.user = Empty
                   /\ arrived'.surplus = "ok"
                   /\ arrived'.ocs = "good" \/ (arrived'.ocs = "zero" /\ arrived'.checksum = "zero")
                   /\ ~policy.drop_all
<1>1. ASSUME Next, pc = "idle", ~CacheStep, cache_vars' # cache_vars
      PROVE  \E d \in Datagrams : ReceiveDropped(d) \/ ReceiveFragment(d)
    BY <1>1, Zenon DEF Next, ReceiveFiltered, ReceiveWhole, ProcessReassembled
<1>2. [Next]_vars => [A]_vars
    BY <1>1, TrustedStep
<1> QED
    BY <1>2, PTL DEF Spec, CacheTrustsChecks

\* The nested call of process_datagram_inner reassembles nothing.
THEOREM NestedAddsNothing == Spec => NestedOnlyRemoves
<1> DEFINE A == pc = "nested" => /\ DOMAIN partials' \subseteq DOMAIN partials
                                 /\ \A k \in DOMAIN partials' : partials'[k] = partials[k]
<1>1. ASSUME Next, pc = "nested"
      PROVE  (\E key : Discard(key)) \/ UNCHANGED cache_vars
    BY <1>1, Zenon
       DEF Next, ReceiveFiltered, ReceiveWhole, ReceiveDropped, ReceiveFragment, Receive,
           CacheStep, ProcessReassembled
<1>2. ASSUME NEW key, R!Discard(key) PROVE A
    <2>1. partials' = [k \in DOMAIN partials \ {key} |-> partials[k]]
        BY <1>2 DEF R!Discard, R!Restrict
    <2> QED
        BY <2>1
<1>3. [Next]_vars => [A]_vars
    BY <1>1, <1>2 DEF Discard, cache_vars
<1> QED
    BY <1>3, PTL DEF Spec, NestedOnlyRemoves

\* The receive path uses the cache as its callers may: every step is a call of insert() with one of
\* the fragments, of discard() with a key, of gc(), a tick, or leaves the cache alone.  So what
\* ReassemblyProofs shows of every use of the cache holds of this one.
THEOREM PipelineUsesCache == ASSUME InsideOK PROVE Spec => R!Spec
<1>1. Init => R!Init
    BY DEF Init
<1>2. ASSUME NEW key, key \in Keys \cup {None}, Discard(key) PROVE [R!Next]_cache_vars
    BY <1>2 DEF Discard, R!Next
<1>3. ASSUME NEW d \in Datagrams, ReceiveDropped(d) PROVE [R!Next]_cache_vars
    <2> DEFINE v == Process(d, TRUE)
    <2>1. v.kind = "Dropped" /\ Discard(v.key)
        BY <1>3, Zenon DEF ReceiveDropped
    <2>2. ProcessOK(d, v, TRUE)
        BY ProcessFacts, DatagramsAssumption, Zenon
    <2> HIDE DEF v
    <2> QED
        BY <1>2, <2>1, <2>2 DEF ProcessOK, FragmentOK
<1>4. ASSUME NEW d \in Datagrams, ReceiveFragment(d) PROVE R!Next
    <2> DEFINE v == Process(d, TRUE)
    <2>1. v.kind = "Fragment" /\ R!Insert(v.key, v.fragment)
        BY <1>4, Zenon DEF ReceiveFragment
    <2>2. ProcessOK(d, v, TRUE)
        BY ProcessFacts, DatagramsAssumption, Zenon
    <2>3. v.fragment \in CacheFragments
        BY <2>1, Zenon DEF CacheFragments
    <2> HIDE DEF v
    <2> QED
        BY <2>1, <2>2, <2>3 DEF ProcessOK, FragmentOK, R!Next
<1>5. ASSUME IInv, ProcessReassembled PROVE [R!Next]_cache_vars
    <2> DEFINE v == Process(inner, FALSE)
    <2>1. UNCHANGED cache_vars \/ (v.kind = "Dropped" /\ Discard(v.key))
        BY <1>5, Zenon DEF ProcessReassembled
    <2>2. ProcessOK(inner, v, FALSE)
        BY <1>5, ProcessFacts, Zenon DEF ProcessReassembled, IInv, NestedOK
    <2> HIDE DEF v
    <2> QED
        BY <1>2, <2>1, <2>2 DEF ProcessOK, FragmentOK
<1>6. ASSUME CacheStep PROVE R!Next
    BY <1>6, Zenon DEF CacheStep, R!Next, CacheFragments
<1>7. IInv /\ [Next]_vars => [R!Next]_cache_vars
    BY <1>3, <1>4, <1>5, <1>6, Zenon DEF Next, ReceiveFiltered, ReceiveWhole, vars
<1> QED
    BY <1>1, <1>7, Invariance, PTL DEF Spec, R!Spec, R!vars, cache_vars

=============================================================================
