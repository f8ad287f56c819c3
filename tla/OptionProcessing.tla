-------------------------- MODULE OptionProcessing --------------------------
(***************************************************************************)
(* How the receive pipeline reads the options of one datagram              *)
(* (parse_options and fragment_option_limit of src/recv/pipeline.rs).      *)
(*                                                                         *)
(* An option is what the TLV iterator yields: its kind, its form and its   *)
(* value.  Form "overrun" is the item at which the iterator fails, "short" *)
(* a length below the kind's minimum, "bad" a value that does not decode   *)
(* or, for APC, does not match the user data.  The value of FRAG has the   *)
(* key, the FRAG fields, the fragment data and, as cut, the number of      *)
(* options that Frag. Start leaves before the fragment data.               *)
(***************************************************************************)
EXTENDS Integers, Sequences, Functions

CONSTANT NoFrag    \* no FRAG option was recognised

ReportedKinds == {"APC", "MDS", "MRDS", "REQ", "RES"}
OptionKinds == ReportedKinds \cup {"EOL", "NOP", "FRAG", "SAFE", "UNSAFE"}
Forms == {"ok", "bad", "short", "overrun"}

\* What the iterator may yield.
Yielded(options) ==
    /\ options \in Seq(Range(options))
    /\ \A i \in DOMAIN options :
          /\ options[i].kind \in OptionKinds /\ options[i].form \in Forms
          /\ options[i].kind = "FRAG" /\ options[i].form = "ok" =>
                options[i].value # NoFrag /\ options[i].value.cut \in Nat

\* FRAG's end lies between its own last byte and the end of the option bytes.
CutInside(options, i) == i <= options[i].value.cut /\ options[i].value.cut <= Len(options)

\* Where fragment_option_limit stops looking.
EndsScan(o) == o.form = "overrun" \/ o.kind \in {"EOL", "FRAG", "UNSAFE"}

\* The place where it stops, 0 if it does not.
ScanStop(options) ==
    LET stops == {i \in DOMAIN options : EndsScan(options[i])} IN
    IF stops = {} THEN 0 ELSE CHOOSE i \in stops : \A j \in stops : i <= j

Limit(kind, end, frag) == [kind |-> kind, end |-> end, frag |-> frag]

FragmentOptionLimit(options, user_empty) ==
    LET i == ScanStop(options)
        full == Limit("Full", Len(options), NoFrag)
    IN  IF ~user_empty \/ i = 0 THEN full
        ELSE IF options[i].kind # "FRAG" \/ options[i].form # "ok" THEN full
        ELSE IF CutInside(options, i)
             THEN Limit("End", options[i].value.cut, options[i].value)
             ELSE Limit("Malformed", 0, options[i].value)

Report(kind, status) == [kind |-> kind, status |-> status, source |-> "Datagram"]

\* The state of the loop: "more" while it runs, "done" when it ends, "error" when parse_options
\* returns Err, "failed" when it returns a fragment-local failure.
Parsing == [state |-> "more", options |-> {}, reports |-> {}, seen |-> {},
            frag |-> NoFrag, unsafe |-> FALSE]

\* A malformed option: a failure of the fragment once FRAG has been trusted, of the option area
\* otherwise.
Fails(p, user_empty) ==
    [p EXCEPT !.state = IF p.frag # NoFrag /\ user_empty THEN "failed" ELSE "error",
              !.options = {}, !.reports = {}]

AddReport(p, o, status) == [p EXCEPT !.reports = @ \cup {Report(o.kind, status)}]

\* APC, MDS, MRDS, REQ and RES: the first of its kind counts, valid or not.
TakeReported(p, o) ==
    IF o.kind \in p.seen THEN AddReport(p, o, "Ignored")
    ELSE LET q == [p EXCEPT !.seen = @ \cup {o.kind}] IN
         IF o.form # "ok" THEN AddReport(q, o, "Failed")
         ELSE [AddReport(q, o, "Success") EXCEPT
                  !.options = @ \cup {[kind |-> o.kind, value |-> o.value]}]

TakeFrag(p, o, user_empty) ==
    IF "FRAG" \in p.seen THEN Fails(p, user_empty)
    ELSE IF o.form = "ok" THEN [p EXCEPT !.seen = @ \cup {"FRAG"}, !.frag = o.value]
    ELSE [p EXCEPT !.unsafe = TRUE, !.state = "done"]

\* One turn of the loop of parse_options; in_fragment is fragment_option_context.
TakeOption(p, o, user_empty, in_fragment) ==
    CASE p.state # "more" -> p
      [] p.state = "more" /\ o.form = "overrun" -> Fails(p, user_empty)
      [] p.state = "more" /\ o.form # "overrun" ->
         IF o.kind = "APC" /\ in_fragment THEN AddReport(p, o, "Ignored")
         ELSE IF o.form = "short" THEN Fails(p, user_empty)
         ELSE CASE o.kind = "EOL" -> [p EXCEPT !.state = "done"]
                [] o.kind = "NOP" -> p
                [] o.kind = "FRAG" -> TakeFrag(p, o, user_empty)
                [] o.kind \in ReportedKinds -> TakeReported(p, o)
                [] o.kind = "SAFE" -> AddReport(p, o, "Ignored")
                [] o.kind = "UNSAFE" ->
                   [AddReport(p, o, "Failed") EXCEPT !.unsafe = TRUE, !.state = "done"]

\* The state after each turn, of which there are n.
Turns(options, n, user_empty, in_fragment) ==
    LET after[i \in 0 .. n] ==
            IF i = 0 THEN Parsing
            ELSE TakeOption(after[i - 1], options[i], user_empty, in_fragment)
    IN  after

ParseOptions(options, user_empty) ==
    LET limit == FragmentOptionLimit(options, user_empty) IN
    IF limit.kind = "Malformed"
    THEN [Parsing EXCEPT !.state = "failed", !.frag = limit.frag, !.unsafe = TRUE]
    ELSE Turns(options, limit.end, user_empty, limit.kind = "End")[limit.end]

=============================================================================
