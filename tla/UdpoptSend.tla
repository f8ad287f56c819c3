----------------------------- MODULE UdpoptSend -----------------------------
(***************************************************************************)
(* One run of the sender CLI (src/bin/udpopt-send.rs): count logical sends *)
(* are built, given their faults, put into the order asked for and written *)
(* to the raw socket, and each is then recorded in the manifest.           *)
(*                                                                         *)
(* What the command line makes of each step is part of the arguments.      *)
(***************************************************************************)
EXTENDS Naturals, Sequences, OptionType

CONSTANTS
    ArgSets,     \* command lines, see ArgType
    Seeds,       \* first Identification: --identification or random
    IdMax,       \* stands for u32::MAX
    SeqMax,      \* stands for u64::MAX
    MaxCount     \* bound on --count

\* build is what build_outgoing_datagrams does with the payload and the options: one datagram,
\* several under an Identification, or an error before or after one was taken.  Of raw options
\* raw_options_datagram makes one datagram, or an error if it is too large.
ArgType ==
    [count : 0 .. MaxCount, seq_start : 0 .. SeqMax,
     raw_options : BOOLEAN, builds_options : BOOLEAN,
     inputs_parse : BOOLEAN,      \* payload, tokens and raw options are valid hex
     faults : {"none", "applied", "refused", "malformed"},
     build : {"whole", "fragments", "error", "split_error"},
     pieces : Nat \ {0}, frag_emit : Seq(Nat) \cup {None}, manifest : BOOLEAN]

\* Where a send may fail to be built, and how a run ends.
Errors == {"sequence", "input", "build", "identification", "split", "faults", "emit_order"}
Exits == {"success", "failure", "permission", "killed"}

ASSUME ArgSetsAssumption == ArgSets \subseteq ArgType
ASSUME BoundsAssumption == IdMax \in Nat /\ SeqMax \in Nat /\ MaxCount \in Nat
ASSUME SeedsAssumption == Seeds \subseteq Nat
ASSUME NoneAssumption == None \notin Nat \cup Seq(Nat) \cup Errors \cup Exits

VARIABLES
    args,
    pc,          \* "start", "build", "emit" or "ended"
    index,       \* the logical send the loop is at
    next,        \* IdentificationGenerator::next
    id,          \* the Identification of this send, or None
    order,       \* datagrams of this send not yet written
    exit,        \* the exit status of main, None while running, "killed" after a crash
    wire,        \* history: the datagrams written, by send, index in it and Identification
    rows         \* the manifest

vars == <<args, pc, index, next, id, order, exit, wire, rows>>

\* emit_order: None is an error.
EmitOrder(requested, built) ==
    IF requested = None THEN [i \in 1 .. built |-> i - 1]
    ELSE IF requested = <<>> \/ \E i \in DOMAIN requested : requested[i] >= built THEN None
    ELSE requested

\* One datagram carries raw options, whatever the build would have done.
Whole == args.raw_options \/ args.build = "whole"
Built == IF Whole THEN 1 ELSE args.pieces

\* build_datagrams_for_send asks for an Identification.
TakesId == ~args.raw_options /\ args.build \in {"fragments", "split_error"}

Sequence(i) == args.seq_start + i

\* payload_for, send_options, or the hex of the raw options
InputRefused == ~args.inputs_parse

\* raw_options_datagram or build_outgoing_datagrams, before an Identification is taken
BuildRefused == args.build = "error"

\* The second call of build_outgoing_datagrams, which has an Identification
SplitRefused == ~args.raw_options /\ args.build = "split_error"

\* Slip: a fault that cannot be applied is passed over.
BuildErrorButFaults ==
    IF Sequence(index) > SeqMax THEN "sequence"
    ELSE IF InputRefused THEN "input"
    ELSE IF BuildRefused THEN "build"
    ELSE IF TakesId /\ next = None THEN "identification"
    ELSE IF SplitRefused THEN "split"
    ELSE IF EmitOrder(args.frag_emit, Built) = None THEN "emit_order"
    ELSE None

\* The errors in the order of the loop's body; those from "identification" on come behind the
\* request for an Identification.
BuildError ==
    IF Sequence(index) > SeqMax THEN "sequence"
    ELSE IF InputRefused THEN "input"
    ELSE IF BuildRefused THEN "build"
    ELSE IF TakesId /\ next = None THEN "identification"
    ELSE IF SplitRefused THEN "split"
    ELSE IF args.faults = "refused" THEN "faults"
    ELSE IF EmitOrder(args.frag_emit, Built) = None THEN "emit_order"
    ELSE None

\* IdentificationGenerator::next_id: None once u32::MAX has been handed out.
NextId == IF next = IdMax THEN None ELSE next + 1

\* parse_ocs_field or parse_pad_byte
FaultsMalformed == args.faults = "malformed"

\* The checks of run() before anything is opened.
ArgsRefused ==
    \/ args.count = 0
    \/ args.raw_options /\ args.builds_options
    \/ FaultsMalformed

End(status) == pc' = "ended" /\ exit' = status

-----------------------------------------------------------------------------
Init ==
    /\ args \in ArgSets
    /\ pc = "start"
    /\ index = 0
    /\ next \in Seeds
    /\ id = None
    /\ order = <<>>
    /\ exit = None
    /\ wire = <<>>
    /\ rows = <<>>

Start ==
    /\ pc = "start" /\ ~ArgsRefused
    /\ pc' = "build"
    /\ UNCHANGED <<args, index, next, id, order, exit, wire, rows>>

\* Refused arguments, no random seed, no raw socket, or no manifest.
StartFails(status) ==
    /\ pc = "start"
    /\ ArgsRefused => status = "failure"
    /\ End(status)
    /\ UNCHANGED <<args, index, next, id, order, wire, rows>>

Build ==
    /\ pc = "build" /\ index < args.count /\ BuildError = None
    /\ next' = IF TakesId THEN NextId ELSE next
    /\ id' = IF TakesId THEN next ELSE None
    /\ order' = EmitOrder(args.frag_emit, Built)
    /\ pc' = "emit"
    /\ UNCHANGED <<args, index, exit, wire, rows>>

\* The run ends at the first send that cannot be built; an Identification taken for it is gone.
BuildFails ==
    /\ pc = "build" /\ index < args.count /\ BuildError # None
    /\ next' = IF TakesId /\ next # None /\ BuildError \in {"split", "faults", "emit_order"}
               THEN NextId ELSE next
    /\ End("failure")
    /\ UNCHANGED <<args, index, id, order, wire, rows>>

\* Slip: the manifest row is written with the first datagram.
SendDatagramRecordsFirst ==
    /\ pc = "emit" /\ order # <<>>
    /\ wire' = Append(wire, [send |-> index, datagram |-> Head(order), id |-> id])
    /\ order' = Tail(order)
    /\ rows' = IF args.manifest /\ (wire = <<>> \/ wire[Len(wire)].send # index)
               THEN Append(rows, [seq |-> Sequence(index), id |-> id, datagrams |-> Len(order)])
               ELSE rows
    /\ UNCHANGED <<args, pc, index, next, id, exit>>

SendDatagram ==
    /\ pc = "emit" /\ order # <<>>
    /\ wire' = Append(wire, [send |-> index, datagram |-> Head(order), id |-> id])
    /\ order' = Tail(order)
    /\ UNCHANGED <<args, pc, index, next, id, exit, rows>>

\* The raw socket refuses a datagram.
SendFails(status) ==
    /\ pc = "emit" /\ order # <<>>
    /\ End(status)
    /\ UNCHANGED <<args, index, next, id, order, wire, rows>>

\* Every datagram of the send was written; the row, if there is a manifest, and the next send.
\* A kill inside the write may leave part of a line, which is no row.
Record ==
    /\ pc = "emit" /\ order = <<>>
    /\ rows' = IF args.manifest
               THEN Append(rows, [seq |-> Sequence(index), id |-> id,
                                  datagrams |-> Len(EmitOrder(args.frag_emit, Built))])
               ELSE rows
    /\ index' = index + 1
    /\ pc' = "build"
    /\ UNCHANGED <<args, next, id, order, exit, wire>>

RecordFails ==
    /\ pc = "emit" /\ order = <<>> /\ args.manifest
    /\ End("failure")
    /\ UNCHANGED <<args, index, next, id, order, wire, rows>>

Succeed ==
    /\ pc = "build" /\ index = args.count
    /\ End("success")
    /\ UNCHANGED <<args, index, next, id, order, wire, rows>>

Killed ==
    /\ pc # "ended"
    /\ End("killed")
    /\ UNCHANGED <<args, index, next, id, order, wire, rows>>

Next ==
    \/ Start
    \/ \E status \in {"failure", "permission"} : StartFails(status) \/ SendFails(status)
    \/ Build \/ BuildFails
    \/ SendDatagram
    \/ Record \/ RecordFails
    \/ Succeed
    \/ Killed

Spec == Init /\ [][Next]_vars

-----------------------------------------------------------------------------
\* Properties

\* What the command line asks to be written of every logical send, and whether it can be.
Asked == IF args.frag_emit = None THEN [i \in 1 .. Built |-> i - 1] ELSE args.frag_emit
Askable == Asked # <<>> /\ \A i \in DOMAIN Asked : Asked[i] < Built

\* The datagrams on the wire of one logical send are the ones asked for, in that order, with
\* none of another send between them.
WrittenAsAsked(send) ==
    \E at \in 0 .. Len(wire) :
       /\ {k \in DOMAIN wire : wire[k].send = send} = at + 1 .. at + Len(Asked)
       /\ \A j \in DOMAIN Asked : wire[at + j].datagram = Asked[j]

\* Every row of the manifest stands for a logical send that was written completely, in the order
\* asked for and under the Identification of the row; rows are in sequence, their Identifications
\* never repeat, and whatever ends the run, only the send it was at lacks its row.
ManifestHonest ==
    /\ \A i \in DOMAIN rows :
        /\ rows[i].seq = args.seq_start + i - 1 /\ rows[i].seq <= SeqMax
        /\ WrittenAsAsked(i - 1) /\ rows[i].datagrams = Len(Asked)
        /\ \A w \in {wire[k] : k \in DOMAIN wire} : w.send = i - 1 => w.id = rows[i].id
        /\ \A j \in DOMAIN rows : rows[i].id # None /\ rows[i].id = rows[j].id => i = j
    /\ args.manifest => \A k \in DOMAIN wire : wire[k].send <= Len(rows)

\* A successful exit means that every logical send was written as asked for, also without a
\* manifest; a run whose faults or emit order cannot be had has written nothing and fails.
ExitMeansSent ==
    /\ exit = "success" =>
        /\ \A send \in 0 .. args.count - 1 : WrittenAsAsked(send)
        /\ args.manifest => Len(rows) = args.count
    /\ args.faults = "refused" \/ ~Askable => wire = <<>> /\ exit # "success"

=============================================================================
