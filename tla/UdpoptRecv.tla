----------------------------- MODULE UdpoptRecv -----------------------------
(***************************************************************************)
(* One run of the receiver CLI (src/bin/udpopt-recv.rs) over a RawReceiver *)
(* whose socket may fail and whose host is never quiet: count datagrams    *)
(* are received, processed and printed, until the time of a call is up.    *)
(***************************************************************************)
EXTENDS RawReceiver, FiniteSets

CONSTANTS
    Counts,        \* --count
    Deliveries,    \* what process_datagram may return for a datagram, "error" included
    MaxMatching    \* bound on the matching datagrams that arrive

Exits == {"success", "failure", "permission"}

ASSUME CountsAssumption == Counts \subseteq Nat
ASSUME NoExitAssumption == None \notin Exits

VARIABLES
    args,              \* [count, timeout]
    phase,             \* "start", "loop", "receiving", "stopped" or "ended"
    received,
    processing_error,
    printed,           \* the lines of standard output: a datagram and its delivery
    exit,              \* the exit status of main, None while running
    arrived            \* history: the matching datagrams, in order of arrival

cli_vars == <<args, phase, received, processing_error, printed, exit>>
run_vars == <<cli_vars, arrived, vars>>

\* The arguments that decide when a run ends.  Ports and addresses are in the frames, and the
\* limits of the cache in the deliveries.
ArgType == [count : Counts, timeout : Timeouts]

End(status) == phase' = "ended" /\ exit' = status

\* print_text and print_json: one line, which has either the delivery or the error.
Line(datagram, delivery) == [datagram |-> datagram, delivery |-> delivery]

-----------------------------------------------------------------------------
RunInit ==
    /\ args \in ArgType
    /\ phase = "start"
    /\ received = 0
    /\ processing_error = FALSE
    /\ printed = <<>>
    /\ exit = None
    /\ arrived = <<>>
    /\ Init

\* bind and set_read_timeout
Start ==
    /\ phase = "start" /\ args.count > 0
    /\ SetReadTimeout(args.timeout)
    /\ phase' = "loop"
    /\ UNCHANGED <<args, received, processing_error, printed, exit, arrived>>

\* A count of zero, or one of the two calls fails.
StartFails(status) ==
    /\ phase = "start"
    /\ args.count = 0 => status = "failure"
    /\ End(status)
    /\ UNCHANGED <<args, received, processing_error, printed, arrived, vars>>

CallRecv ==
    /\ phase = "loop" /\ received < args.count
    /\ Recv \/ RecvFails
    /\ phase' = "receiving"
    /\ UNCHANGED <<args, received, processing_error, printed, exit, arrived>>

\* recv() has returned.
Returned == phase = "receiving" /\ pc = "idle"

SocketError(status) ==
    /\ Returned /\ result.kind = "Err"
    /\ End(status)
    /\ UNCHANGED <<args, received, processing_error, printed, arrived, vars>>

TimedOut ==
    /\ Returned /\ result = Value(None)
    /\ phase' = "stopped"
    /\ UNCHANGED <<args, received, processing_error, printed, exit, arrived, vars>>

\* Slip: the last datagram decides.
ProcessLastDecides(delivery) ==
    /\ Returned /\ result.kind = "Ok" /\ result # Value(None)
    /\ received' = received + 1
    /\ processing_error' = (delivery = "error")
    /\ printed' = Append(printed, Line(result.value, delivery))
    /\ phase' = "loop"
    /\ UNCHANGED <<args, exit, arrived, vars>>

\* Slip: a datagram that fails is not counted, and not printed.
ProcessSkipsErrors(delivery) ==
    /\ Returned /\ result.kind = "Ok" /\ result # Value(None)
    /\ received' = IF delivery = "error" THEN received ELSE received + 1
    /\ processing_error' = (processing_error \/ delivery = "error")
    /\ printed' = IF delivery = "error" THEN printed
                  ELSE Append(printed, Line(result.value, delivery))
    /\ phase' = "loop"
    /\ UNCHANGED <<args, exit, arrived, vars>>

\* The body of the loop.  summarize fails only on headers that the receiver's filter refuses, or
\* together with process_datagram.
Process(delivery) ==
    /\ Returned /\ result.kind = "Ok" /\ result # Value(None)
    /\ received' = received + 1
    /\ processing_error' = (processing_error \/ delivery = "error")
    /\ printed' = Append(printed, Line(result.value, delivery))
    /\ phase' = "loop"
    /\ UNCHANGED <<args, exit, arrived, vars>>

Finish ==
    /\ phase = "stopped" \/ (phase = "loop" /\ received >= args.count)
    /\ End(IF processing_error THEN "failure" ELSE "success")
    /\ UNCHANGED <<args, received, processing_error, printed, arrived, vars>>

SocketStep(A) ==
    /\ phase = "receiving" /\ A
    /\ UNCHANGED <<cli_vars, arrived>>

\* The socket is bound: datagrams are queued, whatever the program is at.
Reach(f) ==
    /\ phase \in {"loop", "receiving", "stopped"}
    /\ Arrive(f)
    /\ FilterDatagram(f) => Len(arrived) < MaxMatching
    /\ arrived' = IF FilterDatagram(f) THEN Append(arrived, f) ELSE arrived
    /\ UNCHANGED cli_vars

RunNext ==
    \/ Start
    \/ \E status \in {"failure", "permission"} : StartFails(status) \/ SocketError(status)
    \/ CallRecv
    \/ TimedOut
    \/ \E delivery \in Deliveries : Process(delivery)
    \/ Finish
    \/ SocketStep(Step)
    \/ SocketStep(Tick)
    \/ \E f \in Frames : Reach(f)

RunSpec == RunInit /\ [][RunNext]_run_vars

\* The program runs when it can, and time passes.  Nothing is assumed of arrivals: they may go on
\* forever and keep the loop busy.  Nor is any failure assumed to happen.
FairSpec ==
    /\ RunSpec
    /\ WF_run_vars(Start \/ StartFails("failure"))
    /\ WF_run_vars(CallRecv)
    /\ WF_run_vars(TimedOut \/ Finish \/ SocketError("failure")
               \/ \E delivery \in Deliveries : Process(delivery))
    /\ WF_run_vars(SocketStep(LoopDeadline \/ LoopArm))
    /\ WF_run_vars(SocketStep(ReadDatagram \/ ReadTimesOut))
    /\ WF_run_vars(SocketStep(Restore))
    /\ SF_run_vars(SocketStep(Tick))

-----------------------------------------------------------------------------
\* Properties

\* A matching datagram that recv() is about to return, or has returned and is not yet printed
InHand == IF phase = "receiving" /\ result.kind = "Ok" /\ result # Value(None)
          THEN <<result.value>> ELSE <<>>

\* How many of the first i datagrams in the kernel's queue match.
Queued(i) == Cardinality({j \in 1 .. i : FilterDatagram(inbox[j])})

\* The matching datagrams that were printed or are in hand.
Seen == Len(printed) + Len(InHand)

\* A socket call has failed, so that the run is about to end with a failure or has.
SocketFailed ==
    \/ exit \notin {None, "success"}
    \/ phase = "receiving" /\ pc \in {"restoring", "idle"} /\ result.kind = "Err"

\* Every matching datagram is printed once, in the order of arrival and with what became of it,
\* failed ones included: what is not yet printed is in hand or still queued behind the noise.
\* Only a failing socket loses one, and then the run does not succeed.
EveryMatchReported ==
    /\ received = Len(printed) /\ received <= args.count /\ received <= Len(arrived)
    /\ \A i \in DOMAIN printed : printed[i].datagram = arrived[i]
    /\ ~SocketFailed =>
          /\ Len(arrived) = Seen + Queued(Len(inbox))
          /\ \A i \in DOMAIN InHand : InHand[i] = arrived[Len(printed) + i]
          /\ \A i \in DOMAIN inbox :
                FilterDatagram(inbox[i]) => inbox[i] = arrived[Seen + Queued(i)]

\* The exit status tells a run whose datagrams were all processed from one with a failure; a run
\* that succeeds without its count has waited for the full time of its last call.
ExitHonest ==
    exit = "success" =>
        /\ \A i \in DOMAIN printed : printed[i].delivery # "error"
        /\ Len(printed) < args.count =>
               args.timeout # 0 /\ left \in 0 .. (Unit - 1) /\ result = Value(None)

\* A run with a timeout ends, also under unending noise.
RunEnds == args.timeout # 0 => <>(phase = "ended")

=============================================================================
