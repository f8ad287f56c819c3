----------------------------- MODULE RawReceiver -----------------------------
(***************************************************************************)
(* One blocking call of RawReceiver::recv (src/socket/recv.rs).            *)
(*                                                                         *)
(* The raw socket sees every UDP datagram of the host, so the call reads   *)
(* through noise until a datagram matches or the configured time is up.    *)
(* SO_RCVTIMEO serves both as the user's setting and, re-armed before each *)
(* read, as the time left of the call.                                     *)
(*                                                                         *)
(* Time is counted in ticks.  SO_RCVTIMEO is set in units of Unit ticks,   *)
(* what is below a unit is cut off, and zero means to block forever.       *)
(***************************************************************************)
EXTENDS Naturals, Sequences

CONSTANTS
    Frames,       \* the raw datagrams that may arrive
    OwnSrcSet,    \* whether own_src is Some
    SrcPortSet,   \* whether src_port is Some
    Timeouts,     \* the arguments of set_read_timeout: 0 for None, Some(0) and a timeout
                  \* too large for the clock, which all mean no deadline
    Unit,         \* granularity of SO_RCVTIMEO
    MinRead,      \* MIN_READ_TIMEOUT
    MaxInbox,     \* bound on the datagrams queued in the kernel
    None

FrameType ==
    [headers_ok : BOOLEAN, own : BOOLEAN, to_us : BOOLEAN, from_peer : BOOLEAN]

ASSUME FramesAssumption == Frames \subseteq FrameType
ASSUME SwitchesAssumption == OwnSrcSet \in BOOLEAN /\ SrcPortSet \in BOOLEAN
ASSUME TimesAssumption ==
    Timeouts \subseteq Nat /\ Unit \in Nat \ {0} /\ MinRead \in Nat /\ MinRead >= Unit
ASSUME NoneAssumption == None \notin Nat \cup Frames

VARIABLES
    wanted,     \* history: the timeout of the last successful set_read_timeout, as stored
    shrunk,     \* history: a restore has failed since then
    rcvtimeo,   \* SO_RCVTIMEO of the socket, 0 for none
    pc,         \* "idle", "loop", "reading" or "restoring"
    saved,      \* configured, read at the start of the call
    left,       \* time until the deadline, saturating; None without deadline
    waited,     \* how long the read has blocked
    over,       \* history: how long the call has been blocked behind its deadline
    inbox,      \* datagrams queued in the kernel
    result      \* what the loop has returned, then what the call has returned

vars == <<wanted, shrunk, rcvtimeo, pc, saved, left, waited, over, inbox, result>>

\* setsockopt(SO_RCVTIMEO): the stored value is a multiple of Unit.  The kernel then rounds it up to
\* a whole tick of its clock, so that a read may block up to a tick longer; this is left out.
Stored(t) == (t \div Unit) * Unit

\* filter_datagram gives Deliver.
FilterDatagram(f) ==
    /\ f.headers_ok
    /\ ~(OwnSrcSet /\ f.own)
    /\ f.to_us
    /\ SrcPortSet => f.from_peer

Value(v) == [kind |-> "Ok", value |-> v]
Failed(why) == [kind |-> "Err", why |-> why]

\* recv_with_deadline returns r; only a call with a deadline restores the timeout.
LoopReturns(r) ==
    /\ result' = r
    /\ pc' = IF left = None THEN "idle" ELSE "restoring"

-----------------------------------------------------------------------------
SetReadTimeout(t) ==
    /\ pc = "idle"
    /\ rcvtimeo' = Stored(t)
    /\ wanted' = Stored(t)
    /\ shrunk' = FALSE
    /\ UNCHANGED <<pc, saved, left, waited, over, inbox, result>>

Recv ==
    /\ pc = "idle"
    /\ saved' = rcvtimeo
    /\ left' = IF rcvtimeo = 0 THEN None ELSE rcvtimeo
    /\ over' = 0
    /\ result' = [kind |-> "None"]
    /\ pc' = "loop"
    /\ UNCHANGED <<wanted, shrunk, rcvtimeo, waited, inbox>>

\* getsockopt fails before anything was changed.
RecvFails ==
    /\ pc = "idle"
    /\ result' = Failed("getsockopt")
    /\ UNCHANGED <<wanted, shrunk, rcvtimeo, pc, saved, left, waited, over, inbox>>

\* Slip: the time left is armed as it is, however short.
ReArmedBare == Stored(left)

\* The per-read timeout: what is left, but never below MIN_READ_TIMEOUT.
ReArmed == Stored(IF left >= MinRead THEN left ELSE MinRead)

LoopDeadline ==
    /\ pc = "loop"
    /\ left = 0
    /\ LoopReturns(Value(None))
    /\ UNCHANGED <<wanted, shrunk, rcvtimeo, saved, left, waited, over, inbox>>

LoopArm ==
    /\ pc = "loop"
    /\ left # 0
    /\ rcvtimeo' = IF left = None THEN rcvtimeo ELSE ReArmed
    /\ waited' = 0
    /\ pc' = "reading"
    /\ UNCHANGED <<wanted, shrunk, saved, left, over, inbox, result>>

LoopArmFails ==
    /\ pc = "loop"
    /\ left \notin {0, None}
    /\ LoopReturns(Failed("arm"))
    /\ UNCHANGED <<wanted, shrunk, rcvtimeo, saved, left, waited, over, inbox>>

\* Slip: the deadline is taken anew in every turn of the loop.
ReadDatagramRenews ==
    /\ pc = "reading"
    /\ inbox # <<>>
    /\ inbox' = Tail(inbox)
    /\ IF FilterDatagram(Head(inbox))
       THEN LoopReturns(Value(Head(inbox))) /\ UNCHANGED <<left, over>>
       ELSE /\ pc' = "loop" /\ over' = 0
            /\ left' = IF left = None THEN None ELSE saved
            /\ UNCHANGED result
    /\ UNCHANGED <<wanted, shrunk, rcvtimeo, saved, waited>>

ReadDatagram ==
    /\ pc = "reading"
    /\ inbox # <<>>
    /\ inbox' = Tail(inbox)
    /\ IF FilterDatagram(Head(inbox))
       THEN LoopReturns(Value(Head(inbox)))
       ELSE pc' = "loop" /\ UNCHANGED result
    /\ UNCHANGED <<wanted, shrunk, rcvtimeo, saved, left, waited, over>>

\* WouldBlock or TimedOut.
ReadTimesOut ==
    /\ pc = "reading"
    /\ inbox = <<>>
    /\ rcvtimeo # 0
    /\ waited >= rcvtimeo
    /\ LoopReturns(Value(None))
    /\ UNCHANGED <<wanted, shrunk, rcvtimeo, saved, left, waited, over, inbox>>

ReadFails ==
    /\ pc = "reading"
    /\ LoopReturns(Failed("read"))
    /\ UNCHANGED <<wanted, shrunk, rcvtimeo, saved, left, waited, over, inbox>>

\* Slip: only a successful loop restores the timeout.
RestoreOnSuccess ==
    /\ pc = "restoring"
    /\ rcvtimeo' = IF result.kind = "Ok" THEN saved ELSE rcvtimeo
    /\ pc' = "idle"
    /\ UNCHANGED <<wanted, shrunk, saved, left, waited, over, inbox, result>>

Restore ==
    /\ pc = "restoring"
    /\ rcvtimeo' = saved
    /\ pc' = "idle"
    /\ UNCHANGED <<wanted, shrunk, saved, left, waited, over, inbox, result>>

\* A datagram the loop returned is lost with it.
RestoreFails ==
    /\ pc = "restoring"
    /\ shrunk' = TRUE
    /\ result' = IF result.kind = "Err" THEN result ELSE Failed("restore")
    /\ pc' = "idle"
    /\ UNCHANGED <<wanted, rcvtimeo, saved, left, waited, over, inbox>>

-----------------------------------------------------------------------------
\* The host

Arrive(f) ==
    /\ Len(inbox) < MaxInbox
    /\ inbox' = Append(inbox, f)
    /\ UNCHANGED <<wanted, shrunk, rcvtimeo, pc, saved, left, waited, over, result>>

\* A read is blocked while nothing is queued and its timeout has not come.
Blocked == pc = "reading" /\ inbox = <<>> /\ (rcvtimeo = 0 \/ waited < rcvtimeo)

\* One tick of the clock, while a read is blocked or while the loop is computing.
Tick ==
    /\ left # None
    /\ \/ Blocked /\ waited' = waited + 1 /\ over' = IF left = 0 THEN over + 1 ELSE over
       \/ pc = "loop" /\ left > 0 /\ UNCHANGED <<waited, over>>
    /\ left' = IF left = 0 THEN 0 ELSE left - 1
    /\ UNCHANGED <<wanted, shrunk, rcvtimeo, pc, saved, inbox, result>>

Init ==
    /\ wanted = 0
    /\ shrunk = FALSE
    /\ rcvtimeo = 0
    /\ pc = "idle"
    /\ saved = 0
    /\ left = None
    /\ waited = 0
    /\ over = 0
    /\ inbox = <<>>
    /\ result = [kind |-> "None"]

Step ==
    \/ LoopDeadline \/ LoopArm \/ LoopArmFails
    \/ ReadDatagram \/ ReadTimesOut \/ ReadFails
    \/ Restore \/ RestoreFails

Next ==
    \/ \E t \in Timeouts : SetReadTimeout(t)
    \/ Recv \/ RecvFails
    \/ Step
    \/ \E f \in Frames : Arrive(f)
    \/ Tick

Spec == Init /\ [][Next]_vars

-----------------------------------------------------------------------------
\* Properties

\* A call with a deadline is never blocked in the kernel longer than MIN_READ_TIMEOUT behind it,
\* however much noise it has read through.
WaitBounded == over < MinRead

\* Between calls the socket holds the timeout the user set, unless a restore has failed: no call,
\* also none that failed in the middle, leaves its shrunk timeout to the next one.
TimeoutSurvives == pc = "idle" /\ ~shrunk => rcvtimeo = wanted

=============================================================================
