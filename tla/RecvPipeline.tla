---------------------------- MODULE RecvPipeline ----------------------------
(***************************************************************************)
(* The receive path: decode_datagram of src/api/mod.rs with its policy,    *)
(* process_datagram of src/recv/pipeline.rs, and the reassembly cache.     *)
(*                                                                         *)
(* A datagram is known by what its headers, its surplus area and its       *)
(* options turn out to be.  A datagram that completes a fragment set makes *)
(* the pipeline process the reassembled one in a nested pass, which sees   *)
(* the cache but may not reassemble again.  The cache is shared with its   *)
(* owner, who may insert fragments directly.                               *)
(***************************************************************************)
EXTENDS OptionProcessing

CONSTANTS
    Datagrams,            \* the datagrams that may be received
    Policies,             \* the receive policies
    Inside(_, _),         \* what a reassembled tail holds, given the UDP length
    DirectFragments,      \* fragments the owner may insert with insert()
    Empty,                \* user data of length zero
    TotalLenMax,          \* stands for the largest IPv4 Total Length
    Keys, Data, DataLen, OptionLists, Tokens,
    MaxReassembledSize, MaxSegments, MaxPendingPartials, Timeout, TimeoutMax, None

\* What the checks, the iterator and the decoders may make of a datagram.
DatagramOK(d) ==
    /\ d.surplus \in {"none", "bad_pad", "ok"}
    /\ Yielded(d.options)
    /\ \A i \in DOMAIN d.options :
          d.options[i].kind = "FRAG" /\ d.options[i].form = "ok" => d.options[i].value.key \in Keys

ASSUME NoKeyAssumption == None \notin Keys
ASSUME DatagramsAssumption == \A d \in Datagrams : DatagramOK(d)

VARIABLES
    policy,      \* the policy the caller uses
    pc,          \* "idle", or "nested" while the reassembled datagram is processed
    arrived,     \* the datagram last received
    inner,       \* the datagram reassembled from it and earlier ones, or None
    delivery,    \* what decode_datagram returned
    partials, outcome, taken     \* the cache, see Reassembly

cache_vars == <<partials, outcome, taken>>
vars == <<policy, pc, arrived, inner, delivery, cache_vars>>

\* The kinds a fragment's own options may fail with; APC is ignored there.
FragmentKinds == ReportedKinds \ {"APC"}

-----------------------------------------------------------------------------
\* process_datagram_inner

Ipv4Header == 20
UdpHeader == 8

\* The header, length and UDP checksum checks that drop a datagram.
UdpValid(d) == d.udp = "ok" /\ d.checksum # "bad"

\* Slip: a zero OCS passes whatever the UDP checksum.
OcsStatusZeroPasses(d) ==
    CASE d.surplus = "none"    -> "Absent"
      [] d.surplus = "bad_pad" -> "Failed"
      [] d.surplus = "ok"      ->
         IF d.ocs = "zero" THEN "Unused" ELSE IF d.ocs = "good" THEN "Valid" ELSE "Failed"

OcsStatus(d) ==
    CASE d.surplus = "none"    -> "Absent"
      [] d.surplus = "bad_pad" -> "Failed"
      [] d.surplus = "ok"      ->
         IF d.ocs = "zero" THEN IF d.checksum = "zero" THEN "Unused" ELSE "InvalidZero"
         ELSE IF d.ocs = "good" THEN "Valid"
         ELSE "Failed"

OcsReport(status, source) == [status |-> status, source |-> source]

Payload(d, data, options, reports) ==
    [kind |-> "Payload", data |-> data, options |-> options, reports |-> reports,
     option_bearing |-> d.surplus # "none",
     ocs_reports |-> {OcsReport(OcsStatus(d), "Datagram")}]

DeliverWithoutOptions(d) == Payload(d, d.user, {}, {})

\* Delivery::Dropped, with the key whose partial is discarded on the way.
Dropped(key) == [kind |-> "Dropped", key |-> key]

\* fragment_option_failures
FailuresOf(p) == {k \in ReportedKinds : Report(k, "Failed") \in p.reports}

\* The value an option list has for one field of FragmentOptions.
ValueOf(options, kind) ==
    IF \E o \in options : o.kind = kind
    THEN (CHOOSE o \in options : o.kind = kind).value ELSE None

OptionList(options) ==
    LET mrds == ValueOf(options, "MRDS") IN
    [mds |-> ValueOf(options, "MDS"),
     mrds_size |-> IF mrds = None THEN None ELSE mrds.size,
     mrds_segments |-> IF mrds = None THEN None ELSE mrds.segments,
     req |-> ValueOf(options, "REQ"), res |-> ValueOf(options, "RES")]

\* The arguments of insert_with_options_and_failures.
FragmentOf(d, p) ==
    [kind |-> "Fragment", key |-> p.frag.key,
     fragment |-> [offset |-> p.frag.offset, rdos |-> p.frag.rdos, data |-> p.frag.data,
                   options |-> OptionList(p.options), failures |-> FailuresOf(p),
                   ocs |-> IF OcsStatus(d) = "Valid" THEN "valid" ELSE "unused"]]

\* Slip: a failure inside a fragment drops it but keeps what was collected.
ProcessParsedKeeping(d, p, reassembly_allowed) ==
    IF p.state = "error" \/ (p.frag # NoFrag /\ d.user # Empty) THEN DeliverWithoutOptions(d)
    ELSE IF p.state = "failed" \/ (p.frag # NoFrag /\ p.unsafe) THEN Dropped(None)
    ELSE IF p.unsafe THEN Payload(d, Empty, {}, p.reports)
    ELSE IF p.frag = NoFrag THEN Payload(d, d.user, p.options, p.reports)
    ELSE IF reassembly_allowed THEN FragmentOf(d, p)
    ELSE Dropped(None)

\* Slip: FRAG makes a fragment of any datagram.
ProcessParsedAnyFrag(d, p, reassembly_allowed) ==
    IF p.state = "error" THEN DeliverWithoutOptions(d)
    ELSE IF p.state = "failed" \/ (p.frag # NoFrag /\ p.unsafe)
         THEN Dropped(IF p.frag = NoFrag THEN None ELSE p.frag.key)
    ELSE IF p.unsafe THEN Payload(d, Empty, {}, p.reports)
    ELSE IF p.frag = NoFrag THEN Payload(d, d.user, p.options, p.reports)
    ELSE IF reassembly_allowed THEN FragmentOf(d, p)
    ELSE Dropped(None)

\* What process_datagram_inner does once parse_options has returned.
ProcessParsed(d, p, reassembly_allowed) ==
    IF p.state = "error" \/ (p.frag # NoFrag /\ d.user # Empty) THEN DeliverWithoutOptions(d)
    ELSE IF p.state = "failed" \/ (p.frag # NoFrag /\ p.unsafe)
         THEN Dropped(IF p.frag = NoFrag THEN None ELSE p.frag.key)
    ELSE IF p.unsafe THEN Payload(d, Empty, {}, p.reports)
    ELSE IF p.frag = NoFrag THEN Payload(d, d.user, p.options, p.reports)
    ELSE IF reassembly_allowed THEN FragmentOf(d, p)
    ELSE Dropped(None)

Process(d, reassembly_allowed) ==
    IF ~UdpValid(d) THEN [kind |-> "Err"]
    ELSE IF OcsStatus(d) \notin {"Valid", "Unused"} THEN DeliverWithoutOptions(d)
    ELSE ProcessParsed(d, ParseOptions(d.options, d.user = Empty), reassembly_allowed)

\* What reaches the cache: the fragments the pipeline makes of datagrams, and the owner's.
CacheFragments ==
    {Process(d, TRUE).fragment : d \in {e \in Datagrams : Process(e, TRUE).kind = "Fragment"}}
    \cup DirectFragments

R == INSTANCE Reassembly WITH Kinds <- FragmentKinds, Fragments <- CacheFragments

\* reassembled_datagram: the headers are new, without UDP checksum.
Reassembled(tail, udp_length) ==
    LET c == Inside(tail, udp_length) IN
    [udp |-> "ok", checksum |-> "zero", user |-> c.user, surplus |-> c.surplus,
     ocs |-> c.ocs, options |-> c.options]

TooLong(tail_len) == Ipv4Header + UdpHeader + tail_len > TotalLenMax

-----------------------------------------------------------------------------
\* What the fragments add to the delivery of the reassembled datagram

\* FragmentOptions::to_raw_options
RawOptions(list) ==
    LET raw(kind, value) == IF value = None THEN {} ELSE {[kind |-> kind, value |-> value]} IN
    raw("MDS", list.mds) \cup raw("REQ", list.req) \cup raw("RES", list.res)
    \cup IF list.mrds_size = None \/ list.mrds_segments = None THEN {}
         ELSE {[kind |-> "MRDS",
                value |-> [size |-> list.mrds_size, segments |-> list.mrds_segments]]}

FromFragments(kinds, status) ==
    {[kind |-> k, status |-> status, source |-> "FragmentSet"] : k \in kinds}

\* Slip: an option of the fragments is reported as a success although one of them failed it.
MergeFragmentsTrusting(delivered, complete) ==
    LET raw == RawOptions(complete.options) IN
    [delivered EXCEPT
        !.options = @ \cup {o \in raw : o.kind \notin complete.failures},
        !.reports = @ \cup FromFragments({o.kind : o \in raw}, "Success"),
        !.ocs_reports = @ \cup
            {OcsReport(CASE complete.ocs = "valid" -> "Valid" [] complete.ocs = "unused" -> "Unused"
                         [] complete.ocs = "unobserved" -> "Unobserved", "FragmentSet")}]

\* merge_fragment_options, merge_fragment_reports and the report on the OCS of the fragments.
MergeFragments(delivered, complete) ==
    LET raw == RawOptions(complete.options)
        kept == {o \in raw : o.kind \notin complete.failures}
    IN  [delivered EXCEPT
            !.options = @ \cup kept,
            !.reports = @ \cup FromFragments(complete.failures, "Failed")
                          \cup FromFragments({o.kind : o \in kept}, "Success"),
            !.ocs_reports = @ \cup
                {OcsReport(CASE complete.ocs = "valid"      -> "Valid"
                             [] complete.ocs = "unused"     -> "Unused"
                             [] complete.ocs = "unobserved" -> "Unobserved", "FragmentSet")}]

-----------------------------------------------------------------------------
\* The policy of decode_datagram

\* Slip: it is enough that a required option was there.
MissingRequiredOptionPresent(p) ==
    \E k \in policy.required :
        \/ [kind |-> k, status |-> "Failed", source |-> "FragmentSet"] \in p.reports
        \/ ~\E r \in p.reports : r.kind = k

MissingRequiredOption(p) ==
    \E k \in policy.required :
        \/ [kind |-> k, status |-> "Failed", source |-> "FragmentSet"] \in p.reports
        \/ ~\E r \in p.reports : r.kind = k /\ r.status = "Success"

\* Slip: a check that failed on one level does not outweigh a good one on the other.
OcsRequirementSatisfiedDespite(p) ==
    /\ ~\E r \in p.ocs_reports : r.status \in {"InvalidZero", "Unobserved"}
    /\ \E r \in p.ocs_reports : r.status \in {"Valid", "Unused"}

OcsRequirementSatisfied(p) ==
    /\ ~\E r \in p.ocs_reports : r.status \in {"Failed", "InvalidZero", "Unobserved"}
    /\ \E r \in p.ocs_reports : r.status \in {"Valid", "Unused"}

\* Judged before processing: wire_option_bearing under drop_all_option_bearing.
FilteredUnseen(d) == policy.drop_all /\ UdpValid(d) /\ d.surplus # "none"

FilteredPayload(p) ==
    \/ policy.drop_all /\ p.option_bearing
    \/ MissingRequiredOption(p)
    \/ policy.ocs_required /\ ~OcsRequirementSatisfied(p)

\* ApiDelivery for a Delivery::Payload.
Judged(p) ==
    IF FilteredPayload(p) THEN [kind |-> "Filtered"]
    ELSE [kind |-> "Received", data |-> p.data, options |-> p.options, reports |-> p.reports,
          ocs_reports |-> p.ocs_reports]

-----------------------------------------------------------------------------
\* Actions

Receive(d) ==
    /\ pc = "idle"
    /\ arrived' = d
    /\ UNCHANGED policy

ReceiveFiltered(d) ==
    /\ Receive(d)
    /\ FilteredUnseen(d)
    /\ delivery' = [kind |-> "Filtered"]
    /\ inner' = None
    /\ UNCHANGED <<pc, cache_vars>>

\* No fragment is involved: an error, which Peer::recv swallows, or a payload.
ReceiveWhole(d) ==
    /\ Receive(d)
    /\ ~FilteredUnseen(d)
    /\ LET v == Process(d, TRUE) IN
       \/ v.kind = "Err" /\ delivery' = [kind |-> "Err"]
       \/ v.kind = "Payload" /\ delivery' = Judged(v)
    /\ inner' = None
    /\ UNCHANGED <<pc, cache_vars>>

Discard(key) == IF key = None THEN UNCHANGED cache_vars ELSE R!Discard(key)

ReceiveDropped(d) ==
    /\ Receive(d)
    /\ ~FilteredUnseen(d)
    /\ LET v == Process(d, TRUE) IN v.kind = "Dropped" /\ Discard(v.key)
    /\ delivery' = [kind |-> "Dropped"]
    /\ inner' = None
    /\ UNCHANGED pc

ReceiveFragment(d) ==
    /\ Receive(d)
    /\ ~FilteredUnseen(d)
    /\ LET v == Process(d, TRUE) IN v.kind = "Fragment" /\ R!Insert(v.key, v.fragment)
    /\ \/ /\ outcome'.kind = "Incomplete"
          /\ delivery' = [kind |-> "Buffered"]
          /\ inner' = None
          /\ UNCHANGED pc
       \/ /\ \/ outcome'.kind \in {"Overlap", "LimitExceeded"}
             \/ outcome'.kind = "Complete" /\ TooLong(outcome'.tail_len)
          /\ delivery' = [kind |-> "Dropped"]
          /\ inner' = None
          /\ UNCHANGED pc
       \/ /\ outcome'.kind = "Complete"
          /\ ~TooLong(outcome'.tail_len)
          /\ inner' = Reassembled(outcome'.tail, outcome'.udp_length)
          /\ pc' = "nested"
          /\ delivery' = [kind |-> "None"]

\* Slip: the nested pass reassembles again.
ProcessReassembledAgain ==
    /\ pc = "nested"
    /\ pc' = "idle"
    /\ LET v == Process(inner, TRUE) IN
       \/ /\ v.kind = "Payload"
          /\ delivery' = Judged(MergeFragments(v, outcome))
          /\ UNCHANGED cache_vars
       \/ v.kind = "Dropped" /\ delivery' = [kind |-> "Dropped"] /\ Discard(v.key)
       \/ v.kind = "Fragment" /\ delivery' = [kind |-> "Buffered"] /\ R!Insert(v.key, v.fragment)
    /\ UNCHANGED <<policy, arrived, inner>>

\* The nested call of process_datagram_inner, with reassembly_allowed = false.
ProcessReassembled ==
    /\ pc = "nested"
    /\ pc' = "idle"
    /\ LET v == Process(inner, FALSE) IN
       \/ /\ v.kind = "Payload"
          /\ delivery' = Judged(MergeFragments(v, outcome))
          /\ UNCHANGED cache_vars
       \/ v.kind = "Dropped" /\ delivery' = [kind |-> "Dropped"] /\ Discard(v.key)
    /\ UNCHANGED <<policy, arrived, inner>>

\* The owner of the cache inserts a fragment, collects, or waits.
CacheStep ==
    /\ pc = "idle"
    /\ \/ \E k \in Keys, f \in DirectFragments : R!Insert(k, f)
       \/ R!Gc
       \/ R!Tick
    /\ delivery' = [kind |-> "None"]
    /\ UNCHANGED <<policy, pc, arrived, inner>>

Init ==
    /\ policy \in Policies
    /\ pc = "idle"
    /\ arrived = None
    /\ inner = None
    /\ delivery = [kind |-> "None"]
    /\ R!Init

Next ==
    \/ \E d \in Datagrams :
          ReceiveFiltered(d) \/ ReceiveWhole(d) \/ ReceiveDropped(d) \/ ReceiveFragment(d)
    \/ ProcessReassembled
    \/ CacheStep

Spec == Init /\ [][Next]_vars

-----------------------------------------------------------------------------
\* Properties

\* Returned by the pipeline for the datagram in arrived, not by a later use of the cache.
Returned == pc = "idle" /\ delivery.kind # "None"

\* What was received came out of a nested pass: the fragment that arrived completed its set.
CameFromFragments == delivery.kind = "Received" /\ inner # None

HasUnsafe(d) == \E i \in DOMAIN d.options :
    d.options[i].kind = "UNSAFE" \/ (d.options[i].kind = "FRAG" /\ d.options[i].form = "bad")

\* Whatever is in the surplus area, a datagram that passes the UDP checks and has user data is
\* neither buffered nor dropped; unless an UNSAFE option withholds it or the policy filters it,
\* it is delivered unchanged.
UserDataSurvives ==
    Returned /\ UdpValid(arrived) /\ arrived.user # Empty =>
        /\ delivery.kind \in {"Received", "Filtered"}
        /\ delivery.kind = "Received" =>
              delivery.data = arrived.user \/ (delivery.data = Empty /\ HasUnsafe(arrived))

\* The key of the FRAG option that fragment_option_limit finds in d, if it finds one.
KeysOf(d) ==
    {d.options[i].value.key : i \in {j \in DOMAIN d.options :
        /\ d.options[j].kind = "FRAG" /\ d.options[j].form = "ok"
        /\ \A m \in 1 .. (j - 1) : ~EndsScan(d.options[m])}}

\* A datagram reported as Dropped leaves no fragment of its set in the cache: neither a failing
\* option in one fragment nor a failure of the nested pass lets the set complete later.
DroppedLeavesNothing ==
    Returned /\ delivery.kind = "Dropped" => KeysOf(arrived) \cap DOMAIN partials = {}

\* Only what passed the pad and OCS checks, has no user data and is not ruled out by the policy
\* reaches the cache from the network.
CacheTrustsChecks ==
    [][pc = "idle" /\ ~CacheStep /\ cache_vars' # cache_vars =>
          /\ arrived'.user = Empty
          /\ arrived'.surplus = "ok"
          /\ arrived'.ocs = "good" \/ (arrived'.ocs = "zero" /\ arrived'.checksum = "zero")
          /\ ~policy.drop_all]_vars

\* The nested pass never adds to the cache: reassembly does not recurse.
NestedOnlyRemoves ==
    [][pc = "nested" =>
          /\ DOMAIN partials' \subseteq DOMAIN partials
          /\ \A k \in DOMAIN partials' : partials'[k] = partials[k]]_vars

\* A required option that failed in one of the fragments is never made good by the others, nor by
\* the reassembled datagram.
FailedFragmentFailsRequirement ==
    Returned /\ CameFromFragments =>
        \A i \in DOMAIN outcome.from :
            outcome.from[i].frag.failures \cap policy.required = {}

\* If a required OCS is said to be satisfied then every fragment of the set was checked by the
\* pipeline, and no level of the datagram failed its check.
RequiredOcsHolds ==
    Returned /\ delivery.kind = "Received" /\ policy.ocs_required =>
        /\ OcsStatus(arrived) \in {"Valid", "Unused"}
        /\ CameFromFragments =>
              /\ \A i \in DOMAIN outcome.from : outcome.from[i].frag.ocs # "unobserved"
              /\ OcsStatus(inner) \in {"Absent", "Valid", "Unused"}

\* A required option is among the options handed to the user, unless an UNSAFE option made the
\* pipeline withhold data and options.
RequiredOptionExposed ==
    Returned /\ delivery.kind = "Received" =>
        \A k \in policy.required :
            \/ \E o \in delivery.options : o.kind = k
            \/ delivery.data = Empty /\ HasUnsafe(IF CameFromFragments THEN inner ELSE arrived)

=============================================================================
