-------------------------- MODULE UdpoptRecvProofs --------------------------
(***************************************************************************)
(* First the receiver by itself: the deadline of RawReceiver::recv and the *)
(* timeout it must leave behind, for every timeout, granularity and floor, *)
(* and for callers that go on after an error and set the timeout anew.     *)
(* Then a run of the receiver CLI over it, for every count and timeout and *)
(* whatever arrives or fails.                                              *)
(***************************************************************************)
EXTENDS UdpoptRecv, TLAPS, FiniteSetTheorems

-----------------------------------------------------------------------------
\* The receiver

TypeInv ==
    /\ wanted \in Nat /\ shrunk \in BOOLEAN /\ rcvtimeo \in Nat
    /\ pc \in {"idle", "loop", "reading", "restoring"}
    /\ saved \in Nat /\ left \in Nat \cup {None}
    /\ waited \in Nat /\ over \in Nat

\* While a call is under way the user's timeout is in saved, and a call without deadline leaves
\* the socket's own alone.
TimeoutKept ==
    /\ ~shrunk => IF pc = "idle" THEN rcvtimeo = wanted ELSE saved = wanted
    /\ pc \in {"loop", "reading"} /\ left = None => rcvtimeo = saved
    /\ pc = "restoring" => left # None

\* The time that was left when the read was armed.
ArmedWith == waited + left - over

\* A read is armed with what is left or with the floor, and never with zero; only the read in
\* which the deadline falls goes beyond it.
DeadlineKept ==
    /\ over < MinRead
    /\ pc = "loop" /\ left \notin {0, None} => over = 0
    /\ pc = "reading" /\ left # None =>
          /\ left > 0 => over = 0
          /\ over <= waited
          /\ waited <= rcvtimeo
          /\ rcvtimeo # 0
          /\ ArmedWith >= 1
          /\ rcvtimeo <= ArmedWith \/ rcvtimeo <= MinRead

Inv == TypeInv /\ TimeoutKept /\ DeadlineKept

-----------------------------------------------------------------------------
\* setsockopt never lengthens a timeout, and keeps one of at least a unit from becoming zero.
LEMMA StoredBounds ==
    ASSUME NEW t \in Nat
    PROVE  Stored(t) \in Nat /\ Stored(t) <= t /\ (t >= Unit => Stored(t) > 0)
<1>1. PICK u \in Nat, q \in Nat : u = Unit /\ u > 0 /\ q = t \div u
    BY TimesAssumption
<1>2. u * q <= t /\ t < u * (q + 1)
    BY <1>1
<1>3. t >= u => q >= 1
    BY <1>1, <1>2
<1>4. q >= 1 => q * u > 0
    BY <1>1
<1> QED
    BY <1>1, <1>2, <1>3, <1>4 DEF Stored

\* The timeout of a read under a deadline.
LEMMA ReArmedBounds ==
    ASSUME left \in Nat
    PROVE  ReArmed \in Nat /\ ReArmed > 0 /\ (ReArmed <= left \/ ReArmed <= MinRead)
<1>1. CASE left >= MinRead
    BY <1>1, StoredBounds, TimesAssumption DEF ReArmed
<1>2. CASE ~(left >= MinRead)
    BY <1>2, StoredBounds, TimesAssumption DEF ReArmed
<1> QED
    BY <1>1, <1>2

-----------------------------------------------------------------------------
\* A socket just bound has no timeout.
LEMMA InitInv == Init => Inv
<1> SUFFICES ASSUME Init PROVE Inv
    OBVIOUS
<1>1. TypeInv
    BY Zenon DEF Init, TypeInv
<1>2. TimeoutKept
    BY DEF Init, TimeoutKept
<1>3. DeadlineKept
    <2>1. 0 < MinRead
        BY TimesAssumption
    <2> QED
        BY <2>1 DEF Init, DeadlineKept
<1> QED
    BY <1>1, <1>2, <1>3 DEF Inv

\* Every step keeps the invariant.
LEMMA NextInv == Inv /\ [Next]_vars => Inv'
<1> SUFFICES ASSUME Inv, [Next]_vars PROVE Inv'
    OBVIOUS
<1> USE TimesAssumption, NoneAssumption DEF Inv, TypeInv, TimeoutKept, DeadlineKept, ArmedWith
<1>1. ASSUME NEW t \in Timeouts, SetReadTimeout(t) PROVE Inv'
    BY <1>1, StoredBounds, Zenon DEF SetReadTimeout
<1>2. CASE Recv
    BY <1>2 DEF Recv
<1>3. CASE RecvFails
    BY <1>3 DEF RecvFails
<1>4. CASE LoopDeadline
    BY <1>4 DEF LoopDeadline, LoopReturns
<1>5. CASE LoopArm
    <2>1. CASE left = None
        BY <1>5, <2>1 DEF LoopArm
    <2>2. CASE left # None
        BY <1>5, <2>2, ReArmedBounds DEF LoopArm
    <2> QED
        BY <2>1, <2>2
<1>6. CASE LoopArmFails
    BY <1>6 DEF LoopArmFails, LoopReturns
<1>7. CASE ReadDatagram
    <2>1. CASE FilterDatagram(Head(inbox))
        BY <1>7, <2>1 DEF ReadDatagram, LoopReturns
    <2>2. CASE ~FilterDatagram(Head(inbox))
        BY <1>7, <2>2 DEF ReadDatagram
    <2> QED
        BY <2>1, <2>2
<1>8. CASE ReadTimesOut
    BY <1>8 DEF ReadTimesOut, LoopReturns
<1>9. CASE ReadFails
    BY <1>9 DEF ReadFails, LoopReturns
<1>10. CASE Restore
    BY <1>10 DEF Restore
<1>11. CASE RestoreFails
    BY <1>11 DEF RestoreFails
<1>12. ASSUME NEW f \in Frames, Arrive(f) PROVE Inv'
    BY <1>12 DEF Arrive
<1>13. CASE Tick
    BY <1>13 DEF Tick, Blocked
<1>14. CASE UNCHANGED vars
    BY <1>14 DEF vars
<1> QED
    BY <1>1, <1>2, <1>3, <1>4, <1>5, <1>6, <1>7, <1>8, <1>9, <1>10, <1>11, <1>12, <1>13, <1>14
       DEF Next, Step

\* The inductive invariant of RawReceiver::recv (src/socket/recv.rs).
THEOREM Invariance == Spec => []Inv
BY InitInv, NextInv, PTL DEF Spec

\* No call is blocked MIN_READ_TIMEOUT or longer behind its deadline.
THEOREM DeadlineHolds == Spec => []WaitBounded
<1>1. Inv => WaitBounded
    BY DEF Inv, DeadlineKept, WaitBounded
<1> QED
    BY <1>1, Invariance, PTL

\* Between calls the socket has the user's timeout, unless a restore has failed.
THEOREM TimeoutRestored == Spec => []TimeoutSurvives
<1>1. Inv => TimeoutSurvives
    BY DEF Inv, TimeoutKept, TimeoutSurvives
<1> QED
    BY <1>1, Invariance, PTL

-----------------------------------------------------------------------------
\* The run

RunType ==
    /\ args \in ArgType
    /\ phase \in {"start", "loop", "receiving", "stopped", "ended"}
    /\ received \in Nat /\ processing_error \in BOOLEAN
    /\ printed \in Seq([datagram : Frames, delivery : Deliveries])
    /\ arrived \in Seq(Frames) /\ inbox \in Seq(Frames)

\* What recv() has returned, or is about to, and when a call is under way.
ResultOK ==
    /\ result.kind \in {"None", "Ok", "Err"}
    /\ result.kind = "Ok" => \E v \in Frames \cup {None} : result = Value(v)
    /\ pc # "idle" => phase = "receiving"
    /\ pc \in {"loop", "reading"} => result.kind = "None"
    /\ phase = "receiving" /\ pc \in {"restoring", "idle"} => result.kind # "None"
    /\ phase = "start" => inbox = <<>> /\ arrived = <<>> /\ printed = <<>>
    /\ exit = None <=> phase # "ended"

\* The timeout of the run is the one recv() works with.
CallTimeout ==
    /\ phase \notin {"start", "ended"} => wanted = Stored(args.timeout)
    /\ shrunk => phase = "ended" \/ (phase = "receiving" /\ pc = "idle" /\ result.kind = "Err")
    /\ pc # "idle" => (left = None <=> saved = 0)
    /\ pc = "reading" /\ left # None => rcvtimeo + Unit > ArmedWith

\* The call has used up its time, to within the unit of SO_RCVTIMEO.
WaitedOut == args.timeout # 0 /\ left \in 0 .. (Unit - 1) /\ result = Value(None)

StopOK ==
    /\ phase = "receiving" /\ pc \in {"restoring", "idle"} /\ result = Value(None) => WaitedOut
    /\ phase = "stopped" => WaitedOut
    /\ exit = "success" => ~processing_error /\ (received >= args.count \/ WaitedOut)

ErrorsOK ==
    \A i \in DOMAIN printed : printed[i].delivery = "error" => processing_error

CountOK == phase = "receiving" => received < args.count

\* The inductive invariant of the run.
RunInv ==
    Inv /\ RunType /\ ResultOK /\ CallTimeout /\ StopOK /\ ErrorsOK /\ CountOK
        /\ EveryMatchReported

\* The places of the matching datagrams among the first i of s.
Matching(s, i) == {j \in 1 .. i : FilterDatagram(s[j])}

LEMMA MatchingFinite ==
    ASSUME NEW s, NEW i \in Nat
    PROVE  IsFiniteSet(Matching(s, i)) /\ Cardinality(Matching(s, i)) \in Nat
<1>1. Matching(s, i) \in SUBSET (1 .. i) /\ IsFiniteSet(1 .. i)
    BY FS_Interval DEF Matching
<1>2. IsFiniteSet(Matching(s, i))
    BY <1>1, FS_Subset
<1> QED
    BY <1>2, FS_CardinalityType

LEMMA MatchingNone ==
    ASSUME NEW s
    PROVE  Cardinality(Matching(s, 0)) = 0
<1>1. Matching(s, 0) = {}
    BY DEF Matching
<1> QED
    BY <1>1, FS_EmptySet

\* A matching place counts itself, and counts never fall.
LEMMA MatchingGrows ==
    ASSUME NEW s, NEW n \in Nat, NEW i \in 1 .. n
    PROVE  /\ Cardinality(Matching(s, i)) <= Cardinality(Matching(s, n))
           /\ FilterDatagram(s[i]) => Cardinality(Matching(s, i)) > 0
<1>1. Matching(s, i) \subseteq Matching(s, n) /\ i \in Nat
    BY DEF Matching
<1>2. /\ IsFiniteSet(Matching(s, n)) /\ IsFiniteSet(Matching(s, i))
      /\ Cardinality(Matching(s, i)) \in Nat
    BY <1>1, MatchingFinite
<1>3. Cardinality(Matching(s, i)) <= Cardinality(Matching(s, n))
    BY <1>1, <1>2, FS_Subset
<1>4. ASSUME FilterDatagram(s[i]) PROVE Cardinality(Matching(s, i)) # 0
    <2>1. i \in Matching(s, i)
        BY <1>4 DEF Matching
    <2> QED
        BY <1>2, <2>1, FS_EmptySet
<1> QED
    BY <1>2, <1>3, <1>4

\* A datagram queued behind the others is counted last.
LEMMA MatchingAppend ==
    ASSUME NEW s \in Seq(Frames), NEW f \in Frames
    PROVE  /\ \A i \in 0 .. Len(s) : Matching(Append(s, f), i) = Matching(s, i)
           /\ Cardinality(Matching(Append(s, f), Len(s) + 1))
                 = Cardinality(Matching(s, Len(s))) + IF FilterDatagram(f) THEN 1 ELSE 0
<1> DEFINE n == Len(s)
           t == Append(s, f)
<1>1. n \in Nat /\ (\A j \in 1 .. n : t[j] = s[j]) /\ t[n + 1] = f
    OBVIOUS
<1> HIDE DEF n, t
<1>2. \A i \in 0 .. n : Matching(t, i) = Matching(s, i)
    BY <1>1 DEF Matching
<1>3. IsFiniteSet(Matching(s, n)) /\ Cardinality(Matching(s, n)) \in Nat
    BY <1>1, MatchingFinite
<1>4. CASE FilterDatagram(f)
    <2>1. Matching(t, n + 1) = Matching(s, n) \cup {n + 1}
        BY <1>1, <1>4 DEF Matching
    <2>2. n + 1 \notin Matching(s, n)
        BY <1>1 DEF Matching
    <2> QED
        BY <1>2, <1>3, <1>4, <2>1, <2>2, FS_AddElement DEF n, t
<1>5. CASE ~FilterDatagram(f)
    <2>1. Matching(t, n + 1) = Matching(s, n)
        BY <1>1, <1>5 DEF Matching
    <2> QED
        BY <1>2, <1>3, <1>5, <2>1 DEF n, t
<1> QED
    BY <1>4, <1>5

\* Taking the first datagram moves the others up by one.
LEMMA MatchingTail ==
    ASSUME NEW s \in Seq(Frames), s # <<>>, NEW i \in 0 .. Len(s) - 1
    PROVE  Cardinality(Matching(s, i + 1))
              = Cardinality(Matching(Tail(s), i)) + IF FilterDatagram(Head(s)) THEN 1 ELSE 0
<1> DEFINE t == Tail(s)
           M == Matching(t, i)
           N == {j \in 2 .. i + 1 : FilterDatagram(s[j])}
           up == [j \in M |-> j + 1]
<1>1. i \in Nat /\ Len(s) \in Nat /\ (\A j \in 1 .. i : t[j] = s[j + 1]) /\ Head(s) = s[1]
    OBVIOUS
<1> HIDE DEF t
<1>2. M \subseteq Nat /\ N \subseteq Nat /\ (\A j \in M : j + 1 \in N)
        /\ \A j \in N : j - 1 \in M
    BY <1>1 DEF Matching
<1>3. up \in [M -> N] /\ (\A j, k \in M : up[j] = up[k] => j = k)
        /\ \A k \in N : \E j \in M : up[j] = k
    <2>1. \A k \in N : k - 1 \in M /\ up[k - 1] = k
        BY <1>2
    <2> HIDE DEF M, N
    <2> QED
        BY <1>2, <2>1
<1>4. ExistsBijection(M, N)
    <2> HIDE DEF M, N, up
    <2>1. up \in Injection(M, N)
        BY <1>3, SMT DEF Injection, IsInjective
    <2>2. up \in Surjection(M, N)
        BY <1>3, Zenon DEF Surjection
    <2> QED
        BY <2>1, <2>2, Zenon DEF ExistsBijection, Bijection
<1>5. IsFiniteSet(M) /\ Cardinality(M) \in Nat
    BY <1>1, MatchingFinite
<1>6. IsFiniteSet(N) /\ Cardinality(N) = Cardinality(M)
    <2> HIDE DEF M, N
    <2> QED
        BY <1>4, <1>5, FS_Bijection
<1>7. CASE FilterDatagram(Head(s))
    <2>1. Matching(s, i + 1) = N \cup {1} /\ 1 \notin N
        BY <1>1, <1>7 DEF Matching
    <2> HIDE DEF M, N
    <2>2. Cardinality(N \cup {1}) = Cardinality(N) + 1
        BY <1>6, <2>1, FS_AddElement, Zenon
    <2> QED
        BY <1>6, <1>7, <2>1, <2>2, Zenon DEF M, t
<1>8. CASE ~FilterDatagram(Head(s))
    <2>1. Matching(s, i + 1) = N
        BY <1>1, <1>8 DEF Matching
    <2> HIDE DEF N
    <2> QED
        BY <1>5, <1>6, <1>8, <2>1 DEF t
<1> QED
    BY <1>7, <1>8

-----------------------------------------------------------------------------
\* A socket step within a call, by the function that takes it.
CallStep ==
    \/ LoopDeadline \/ LoopArm \/ LoopArmFails \/ ReadDatagram \/ ReadTimesOut \/ ReadFails
    \/ Restore \/ RestoreFails \/ Tick

\* The steps of a run, those of the socket under one name.
LEMMA RunCases ==
    ASSUME [RunNext]_run_vars
    PROVE  \/ Start
           \/ \E status \in {"failure", "permission"} : StartFails(status) \/ SocketError(status)
           \/ CallRecv
           \/ TimedOut
           \/ \E delivery \in Deliveries : Process(delivery)
           \/ Finish
           \/ phase = "receiving" /\ CallStep /\ UNCHANGED <<cli_vars, arrived>>
           \/ \E f \in Frames : Reach(f)
           \/ UNCHANGED run_vars
BY DEF RunNext, SocketStep, Step, CallStep

\* Every step of the run is a step of the receiver or leaves it alone.
LEMMA RunTakesReceiverSteps ==
    ASSUME RunType, [RunNext]_run_vars
    PROVE  [Next]_vars
<1>1. args.timeout \in Timeouts
    BY DEF RunType, ArgType
<1>2. CASE Start
    BY <1>1, <1>2 DEF Start, Next
<1>3. ASSUME NEW status, StartFails(status) \/ SocketError(status) PROVE UNCHANGED vars
    BY <1>3 DEF StartFails, SocketError
<1>4. CASE CallRecv
    BY <1>4 DEF CallRecv, Next
<1>5. CASE TimedOut
    BY <1>5 DEF TimedOut
<1>6. ASSUME NEW delivery, Process(delivery) PROVE UNCHANGED vars
    BY <1>6 DEF Process
<1>7. CASE Finish
    BY <1>7 DEF Finish
<1>8. CASE CallStep
    BY <1>8 DEF CallStep, Next, Step
<1>9. ASSUME NEW f \in Frames, Reach(f) PROVE Next
    BY <1>9 DEF Reach, Next
<1>10. CASE UNCHANGED run_vars
    BY <1>10 DEF run_vars
<1> QED
    BY <1>2, <1>3, <1>4, <1>5, <1>6, <1>7, <1>8, <1>9, <1>10, RunCases

LEMMA RunTypeStep ==
    ASSUME RunType, ResultOK, [RunNext]_run_vars
    PROVE  RunType'
<1> DEFINE L == [datagram : Frames, delivery : Deliveries]
<1>1. CASE Start
    BY <1>1 DEF Start, SetReadTimeout, RunType
<1>2. ASSUME NEW status, StartFails(status) \/ SocketError(status) PROVE RunType'
    BY <1>2 DEF StartFails, SocketError, End, vars, RunType
<1>3. CASE CallRecv
    BY <1>3 DEF CallRecv, Recv, RecvFails, RunType
<1>4. CASE TimedOut
    BY <1>4 DEF TimedOut, vars, RunType
<1>5. ASSUME NEW delivery \in Deliveries, Process(delivery) PROVE RunType'
    <2>1. PICK v \in Frames : result = Value(v)
        BY <1>5 DEF ResultOK, Process
    <2>2. result.value \in Frames
        BY <2>1 DEF Value
    <2>3. Line(result.value, delivery) \in L
        BY <2>2 DEF Line
    <2>4. printed' \in Seq(L)
        <3>1. printed \in Seq(L) /\ printed' = Append(printed, Line(result.value, delivery))
            BY <1>5 DEF Process, RunType
        <3> HIDE DEF L
        <3> QED
            BY <2>3, <3>1
    <2> QED
        BY <1>5, <2>4 DEF Process, vars, RunType
<1>6. CASE Finish
    BY <1>6 DEF Finish, End, vars, RunType
<1>7. CASE CallStep /\ UNCHANGED <<cli_vars, arrived>>
    <2>1. inbox' = inbox \/ (inbox # <<>> /\ inbox' = Tail(inbox))
        BY <1>7 DEF CallStep, LoopDeadline, LoopArm, LoopArmFails, ReadDatagram, ReadTimesOut,
                    ReadFails, Restore, RestoreFails, Tick
    <2>2. inbox' \in Seq(Frames)
        <3>1. inbox \in Seq(Frames)
            BY DEF RunType
        <3> QED
            BY <2>1, <3>1
    <2> QED
        BY <1>7, <2>2 DEF cli_vars, RunType
<1>8. ASSUME NEW f \in Frames, Reach(f) PROVE RunType'
    BY <1>8 DEF Reach, Arrive, cli_vars, RunType
<1>9. CASE UNCHANGED run_vars
    BY <1>9 DEF run_vars, cli_vars, vars, RunType
<1> QED
    BY <1>1, <1>2, <1>3, <1>4, <1>5, <1>6, <1>7, <1>8, <1>9, RunCases

LEMMA ResultStep ==
    ASSUME RunType, TypeInv, ResultOK, [RunNext]_run_vars
    PROVE  ResultOK'
<1> USE NoExitAssumption DEF Exits
<1>1. CASE Start
    BY <1>1 DEF Start, SetReadTimeout, ResultOK
<1>2. ASSUME NEW status \in {"failure", "permission"}, StartFails(status) \/ SocketError(status)
      PROVE  ResultOK'
    BY <1>2 DEF StartFails, SocketError, Returned, End, vars, ResultOK
<1>3. CASE CallRecv
    BY <1>3 DEF CallRecv, Recv, RecvFails, Failed, ResultOK
<1>4. CASE TimedOut
    BY <1>4 DEF TimedOut, Returned, vars, ResultOK
<1>5. ASSUME NEW delivery \in Deliveries, Process(delivery) PROVE ResultOK'
    BY <1>5 DEF Process, Returned, vars, ResultOK
<1>6. CASE Finish
    BY <1>6 DEF Finish, End, vars, ResultOK
<1>7. CASE phase = "receiving" /\ CallStep /\ UNCHANGED <<cli_vars, arrived>>
    <2> SUFFICES /\ result'.kind \in {"None", "Ok", "Err"}
                 /\ result'.kind = "Ok" => \E v \in Frames \cup {None} : result' = Value(v)
                 /\ pc' \in {"loop", "reading"} => result'.kind = "None"
                 /\ pc' \in {"restoring", "idle"} => result'.kind # "None"
        BY <1>7 DEF cli_vars, ResultOK
    <2>1. CASE LoopArm \/ Restore \/ Tick
        BY <1>7, <2>1 DEF LoopArm, Restore, Tick, TypeInv, ResultOK
    <2>2. CASE LoopDeadline \/ ReadTimesOut
        BY <2>2 DEF LoopDeadline, ReadTimesOut, LoopReturns, Value
    <2>3. CASE LoopArmFails \/ ReadFails
        BY <2>3 DEF LoopArmFails, ReadFails, LoopReturns, Failed
    <2>4. CASE ReadDatagram
        <3>1. Head(inbox) \in Frames
            BY <2>4 DEF ReadDatagram, RunType
        <3>2. CASE FilterDatagram(Head(inbox))
            BY <2>4, <3>1, <3>2 DEF ReadDatagram, LoopReturns, Value
        <3>3. CASE ~FilterDatagram(Head(inbox))
            BY <2>4, <3>3 DEF ReadDatagram, ResultOK
        <3> QED
            BY <3>2, <3>3
    <2>5. CASE RestoreFails
        BY <2>5 DEF RestoreFails, Failed
    <2> QED
        BY <1>7, <2>1, <2>2, <2>3, <2>4, <2>5 DEF CallStep
<1>8. ASSUME NEW f \in Frames, Reach(f) PROVE ResultOK'
    BY <1>8 DEF Reach, Arrive, cli_vars, ResultOK
<1>9. CASE UNCHANGED run_vars
    BY <1>9 DEF run_vars, cli_vars, vars, ResultOK
<1> QED
    BY <1>1, <1>2, <1>3, <1>4, <1>5, <1>6, <1>7, <1>8, <1>9, RunCases

\* setsockopt cuts off less than a unit.
LEMMA StoredAbove ==
    ASSUME NEW t \in Nat
    PROVE  Stored(t) + Unit > t
<1>1. PICK u \in Nat, q \in Nat : u = Unit /\ u > 0 /\ q = t \div u
    BY TimesAssumption
<1>2. t < u * (q + 1)
    BY <1>1
<1>3. u * (q + 1) = q * u + u
    BY <1>1
<1> QED
    BY <1>1, <1>2, <1>3 DEF Stored

LEMMA CallTimeoutStep ==
    ASSUME RunType, Inv, ResultOK, CallTimeout, [RunNext]_run_vars
    PROVE  CallTimeout'
<1>1. CASE Start
    BY <1>1 DEF Start, SetReadTimeout, CallTimeout, ResultOK, ArmedWith
<1>2. ASSUME NEW status, StartFails(status) \/ SocketError(status) PROVE CallTimeout'
    BY <1>2 DEF StartFails, SocketError, Returned, End, vars, CallTimeout, ResultOK, ArmedWith
<1>3. CASE CallRecv
    BY <1>3, NoneAssumption DEF CallRecv, Recv, RecvFails, CallTimeout, ArmedWith, Inv, TypeInv
<1>4. CASE TimedOut
    <2>1. result.kind = "Ok"
        BY <1>4 DEF TimedOut, Value
    <2> QED
        BY <1>4, <2>1 DEF TimedOut, Returned, vars, CallTimeout, ArmedWith
<1>5. ASSUME NEW delivery, Process(delivery) PROVE CallTimeout'
    BY <1>5 DEF Process, Returned, vars, CallTimeout, ArmedWith
<1>6. CASE Finish
    BY <1>6 DEF Finish, End, vars, CallTimeout, ArmedWith, ResultOK
<1>7. CASE phase = "receiving" /\ CallStep /\ UNCHANGED <<cli_vars, arrived>>
    <2>1. /\ wanted' = wanted /\ phase' = phase /\ args' = args /\ saved' = saved
          /\ pc # "idle" /\ ~shrunk
        BY <1>7 DEF CallStep, LoopDeadline, LoopArm, LoopArmFails, ReadDatagram, ReadTimesOut,
                    ReadFails, Restore, RestoreFails, Tick, Blocked, cli_vars, CallTimeout
    <2>2. (phase \notin {"start", "ended"} => wanted = Stored(args.timeout))'
        BY <2>1 DEF CallTimeout
    <2>3. shrunk' => pc' = "idle" /\ result'.kind = "Err" /\ phase' = "receiving"
        <3>1. CASE RestoreFails
            <4>1. /\ pc' = "idle"
                  /\ (result' = result /\ result.kind = "Err") \/ result' = Failed("restore")
                BY <3>1 DEF RestoreFails
            <4> QED
                BY <1>7, <2>1, <4>1 DEF Failed
        <3>2. CASE ~RestoreFails
            BY <1>7, <2>1, <3>2, Zenon DEF CallStep, LoopDeadline, LoopArm, LoopArmFails,
                   ReadDatagram, ReadTimesOut, ReadFails, Restore, Tick
        <3> QED
            BY <3>1, <3>2
    <2>4. pc' # "idle" => (left' = None <=> saved' = 0)
        <3>1. left' = None <=> left = None
            BY <1>7, NoneAssumption DEF CallStep, LoopDeadline, LoopArm, LoopArmFails,
                   ReadDatagram, ReadTimesOut, ReadFails, Restore, RestoreFails, Tick, Inv, TypeInv
        <3> QED
            BY <2>1, <3>1 DEF CallTimeout
    <2>5. pc' = "reading" /\ left' # None => rcvtimeo' + Unit > ArmedWith'
        <3> USE TimesAssumption, NoneAssumption DEF Inv, TypeInv, ArmedWith
        <3>1. CASE LoopArm
            <4>1. CASE left = None
                BY <3>1, <4>1 DEF LoopArm
            <4>2. CASE left \in Nat
                <5> DEFINE t == IF left >= MinRead THEN left ELSE MinRead
                <5>1. t \in Nat /\ t >= left /\ rcvtimeo' = Stored(t)
                    BY <3>1, <4>2 DEF LoopArm, ReArmed
                <5>2. Stored(t) \in Nat /\ Stored(t) + Unit > t
                    BY <5>1, StoredAbove, StoredBounds
                <5>3. left \in Nat \ {0} => over = 0
                    BY <3>1, <4>2 DEF LoopArm, DeadlineKept
                <5> HIDE DEF t
                <5> QED
                    BY <3>1, <4>2, <5>1, <5>2, <5>3 DEF LoopArm
            <4> QED
                BY <4>1, <4>2
        <3>2. CASE Tick
            <4>1. pc' = "reading" => Blocked
                BY <3>2 DEF Tick, Blocked
            <4> QED
                BY <3>2, <4>1 DEF Tick, Blocked, DeadlineKept, CallTimeout
        <3>3. CASE ~LoopArm /\ ~Tick
            BY <1>7, <3>3 DEF CallStep, LoopDeadline, LoopArmFails, ReadDatagram, ReadTimesOut,
                   ReadFails, Restore, RestoreFails, LoopReturns
        <3> QED
            BY <3>1, <3>2, <3>3
    <2> QED
        BY <2>2, <2>3, <2>4, <2>5 DEF CallTimeout
<1>8. ASSUME NEW f \in Frames, Reach(f) PROVE CallTimeout'
    BY <1>8 DEF Reach, Arrive, cli_vars, CallTimeout, ArmedWith
<1>9. CASE UNCHANGED run_vars
    BY <1>9 DEF run_vars, cli_vars, vars, CallTimeout, ArmedWith
<1> QED
    BY <1>1, <1>2, <1>3, <1>4, <1>5, <1>6, <1>7, <1>8, <1>9, RunCases

\* A call returns no datagram only when its time is used up.
LEMMA StopStep ==
    ASSUME RunType, Inv, ResultOK, CallTimeout, StopOK, [RunNext]_run_vars
    PROVE  StopOK'
<1> USE NoExitAssumption DEF Exits
<1>1. CASE Start
    BY <1>1 DEF Start, SetReadTimeout, StopOK, WaitedOut
<1>2. ASSUME NEW status \in {"failure", "permission"}, StartFails(status) \/ SocketError(status)
      PROVE  StopOK'
    BY <1>2 DEF StartFails, SocketError, End, vars, StopOK
<1>3. CASE CallRecv
    <2>1. exit # "success"
        BY <1>3 DEF CallRecv, ResultOK
    <2>2. phase' = "receiving" /\ exit' = exit /\ result' # Value(None)
        BY <1>3 DEF CallRecv, Recv, RecvFails, Failed, Value
    <2> QED
        BY <2>1, <2>2 DEF StopOK
<1>4. CASE TimedOut
    BY <1>4 DEF TimedOut, Returned, vars, StopOK, WaitedOut, ResultOK
<1>5. ASSUME NEW delivery, Process(delivery) PROVE StopOK'
    <2>1. exit # "success"
        BY <1>5 DEF Process, Returned, ResultOK
    <2> QED
        BY <1>5, <2>1 DEF Process, vars, StopOK
<1>6. CASE Finish
    <2>1. /\ phase' = "ended" /\ exit' = (IF processing_error THEN "failure" ELSE "success")
          /\ phase = "stopped" \/ received >= args.count
          /\ UNCHANGED <<args, received, processing_error, left, result>>
        BY <1>6 DEF Finish, End, vars
    <2>2. phase = "stopped" => WaitedOut'
        BY <2>1 DEF StopOK, WaitedOut
    <2> QED
        BY <2>1, <2>2 DEF StopOK
<1>7. CASE phase = "receiving" /\ CallStep /\ UNCHANGED <<cli_vars, arrived>>
    <2>1. /\ phase' = "receiving" /\ exit' = exit /\ args' = args /\ exit # "success"
          /\ pc # "idle"
        BY <1>7 DEF cli_vars, ResultOK, CallStep, LoopDeadline, LoopArm, LoopArmFails,
                    ReadDatagram, ReadTimesOut, ReadFails, Restore, RestoreFails, Tick, Blocked
    <2> SUFFICES ASSUME pc' \in {"restoring", "idle"}, result' = Value(None)
                 PROVE  args.timeout # 0 /\ left' \in 0 .. (Unit - 1)
        BY <2>1 DEF StopOK, WaitedOut
    <2>2. Value(None).kind = "Ok" /\ \A v \in Frames : Value(v) # Value(None)
        BY NoneAssumption DEF Value
    <2>3. saved # 0 => args.timeout # 0
        <3>1. ~shrunk /\ wanted = Stored(args.timeout) /\ saved = wanted
            BY <1>7, <2>1 DEF CallTimeout, Inv, TimeoutKept
        <3>2. Stored(0) <= 0 /\ Stored(0) \in Nat
            BY StoredBounds
        <3> QED
            BY <3>1, <3>2
    <2>4. CASE LoopDeadline
        <3>1. left' = 0 /\ left = 0
            BY <2>4 DEF LoopDeadline
        <3>2. saved # 0
            BY <2>1, <3>1, NoneAssumption DEF CallTimeout
        <3> QED
            BY <2>3, <3>1, <3>2, TimesAssumption
    <2>5. CASE ReadTimesOut
        <3>1. pc = "reading" /\ rcvtimeo # 0 /\ waited >= rcvtimeo /\ left' = left
            BY <2>5 DEF ReadTimesOut
        <3>2. saved # 0
            BY <3>1 DEF CallTimeout, Inv, TimeoutKept
        <3>3. left \in Nat
            BY <3>1, <3>2 DEF CallTimeout, Inv, TypeInv
        <3>4. left < Unit
            BY <3>1, <3>3, NoneAssumption, TimesAssumption
               DEF CallTimeout, Inv, TypeInv, DeadlineKept, ArmedWith
        <3> QED
            BY <2>3, <3>1, <3>2, <3>3, <3>4, TimesAssumption
    <2>6. CASE Restore
        <3>1. left' = left /\ result = Value(None) /\ pc = "restoring"
            BY <2>6 DEF Restore
        <3> QED
            BY <1>7, <3>1 DEF StopOK, WaitedOut
    <2>7. CASE ReadDatagram
        <3>1. CASE FilterDatagram(Head(inbox))
            <4>1. Head(inbox) \in Frames /\ result' = Value(Head(inbox))
                BY <2>7, <3>1 DEF ReadDatagram, LoopReturns, RunType
            <4> QED
                BY <2>2, <4>1
        <3>2. CASE ~FilterDatagram(Head(inbox))
            BY <2>7, <3>2 DEF ReadDatagram
        <3> QED
            BY <3>1, <3>2
    <2>8. CASE LoopArmFails \/ ReadFails \/ RestoreFails
        BY <2>2, <2>8 DEF LoopArmFails, ReadFails, RestoreFails, LoopReturns, Failed
    <2>9. CASE LoopArm \/ Tick
        BY <2>1, <2>9 DEF LoopArm, Tick, Blocked
    <2> QED
        BY <1>7, <2>4, <2>5, <2>6, <2>7, <2>8, <2>9, SMTT(30) DEF CallStep
<1>8. ASSUME NEW f \in Frames, Reach(f) PROVE StopOK'
    BY <1>8 DEF Reach, Arrive, cli_vars, StopOK, WaitedOut
<1>9. CASE UNCHANGED run_vars
    BY <1>9 DEF run_vars, cli_vars, vars, StopOK, WaitedOut
<1> QED
    BY <1>1, <1>2, <1>3, <1>4, <1>5, <1>6, <1>7, <1>8, <1>9, RunCases

LEMMA ErrorsStep ==
    ASSUME RunType, ErrorsOK, CountOK, [RunNext]_run_vars
    PROVE  ErrorsOK' /\ CountOK'
<1>1. ASSUME NEW delivery, Process(delivery) PROVE ErrorsOK' /\ CountOK'
    <2> DEFINE l == Line(result.value, delivery)
    <2>1. /\ phase' = "loop" /\ printed' = Append(printed, l)
          /\ processing_error' = (processing_error \/ delivery = "error")
        BY <1>1 DEF Process
    <2>2. l.delivery = delivery
        BY DEF Line
    <2> HIDE DEF l
    <2>3. \A i \in DOMAIN printed' : (i \in DOMAIN printed /\ printed'[i] = printed[i])
                                        \/ printed'[i] = l
        BY <2>1 DEF RunType
    <2> QED
        BY <2>1, <2>2, <2>3, Zenon DEF ErrorsOK, CountOK
<1>2. CASE CallRecv
    BY <1>2 DEF CallRecv, ErrorsOK, CountOK
<1>3. ASSUME ~CallRecv, \A delivery \in Deliveries : ~Process(delivery)
      PROVE  ErrorsOK' /\ CountOK'
    <2>1. UNCHANGED <<printed, processing_error, received, args>>
        BY <1>3, RunCases DEF Start, StartFails, SocketError, TimedOut, Finish, Reach,
                              cli_vars, run_vars
    <2>2. phase' = "receiving" => phase = "receiving"
        BY <1>3, RunCases DEF Start, StartFails, SocketError, TimedOut, Finish, Reach, End,
                              cli_vars, run_vars
    <2> QED
        BY <2>1, <2>2 DEF ErrorsOK, CountOK
<1> QED
    BY <1>1, <1>2, <1>3

\* What is in hand is at most one datagram, and a matching one.
LEMMA InHandFacts ==
    ASSUME RunType, ResultOK
    PROVE  /\ InHand \in Seq(Frames) /\ Len(InHand) \in {0, 1}
           /\ phase # "receiving" \/ result.kind # "Ok" \/ result = Value(None) => InHand = <<>>
<1>1. CASE phase = "receiving" /\ result.kind = "Ok" /\ result # Value(None)
    <2>1. PICK v \in Frames : result = Value(v)
        BY <1>1 DEF ResultOK
    <2>2. InHand = <<v>>
        BY <1>1, <2>1 DEF InHand, Value
    <2> QED
        BY <1>1, <2>2
<1>2. CASE ~(phase = "receiving" /\ result.kind = "Ok" /\ result # Value(None))
    <2>1. InHand = <<>>
        BY <1>2 DEF InHand
    <2> QED
        BY <2>1
<1> QED
    BY <1>1, <1>2

\* A step that moves no datagram keeps the account, unless the socket fails.
LEMMA MatchKept ==
    ASSUME EveryMatchReported, UNCHANGED <<args, received, printed, arrived, inbox>>,
           SocketFailed' \/ (~SocketFailed /\ InHand' = InHand)
    PROVE  EveryMatchReported'
<1>1. \A i : Queued(i)' = Queued(i)
    BY DEF Queued
<1>2. InHand' = InHand => Seen' = Seen
    BY DEF Seen
<1> QED
    BY <1>1, <1>2 DEF EveryMatchReported

LEMMA MatchProcess ==
    ASSUME RunType, ResultOK, CountOK, EveryMatchReported,
           NEW delivery \in Deliveries, Process(delivery)
    PROVE  EveryMatchReported'
<1> DEFINE l == Line(result.value, delivery)
           n == Len(printed)
<1>1. /\ printed' = Append(printed, l) /\ received' = received + 1
      /\ phase = "receiving" /\ result.kind = "Ok" /\ result # Value(None)
      /\ phase' = "loop" /\ exit' = exit
      /\ UNCHANGED <<args, arrived, inbox, result, pc>>
    BY DEF Process, Returned, vars
<1>2. l.datagram = result.value
    BY DEF Line
<1>3. InHand = <<result.value>> /\ InHand' = <<>>
    BY <1>1 DEF InHand
<1>4. ~SocketFailed
    BY <1>1 DEF SocketFailed, ResultOK
<1>5. n \in Nat /\ args.count \in Nat /\ Len(arrived) \in Nat /\ Len(inbox) \in Nat
    <2>1. args.count \in Nat
        BY CountsAssumption, Zenon DEF RunType, ArgType
    <2> QED
        BY <2>1 DEF RunType
<1>6. Len(InHand) = 1 /\ 1 \in DOMAIN InHand /\ InHand[1] = result.value /\ Len(InHand') = 0
    BY <1>3
<1> HIDE DEF l
<1>7. /\ Len(printed') = n + 1 /\ printed'[n + 1] = l
      /\ \A i \in DOMAIN printed' :
            (i \in DOMAIN printed /\ printed'[i] = printed[i]) \/ i = n + 1
    BY <1>1 DEF RunType
<1>8. Seen' = Seen /\ Seen = n + 1
    BY <1>5, <1>6, <1>7 DEF Seen
<1>9. \A i : Queued(i)' = Queued(i)
    BY <1>1 DEF Queued
<1>10. Queued(Len(inbox)) \in Nat
    BY <1>5, MatchingFinite, Zenon DEF Queued, Matching
<1>11. arrived[n + 1] = result.value /\ Len(arrived) = Seen + Queued(Len(inbox))
    BY <1>4, <1>6 DEF EveryMatchReported
<1>12. received' = Len(printed') /\ received' <= args.count /\ received' <= Len(arrived)
    BY <1>1, <1>5, <1>7, <1>8, <1>10, <1>11 DEF EveryMatchReported, CountOK
<1>13. \A i \in DOMAIN printed' : printed'[i].datagram = arrived[i]
    BY <1>2, <1>7, <1>11 DEF EveryMatchReported
<1>14. /\ Len(arrived') = Seen' + Queued(Len(inbox))'
       /\ \A i \in DOMAIN inbox' :
             FilterDatagram(inbox'[i]) => inbox'[i] = arrived'[Seen' + Queued(i)']
    BY <1>1, <1>4, <1>8, <1>9 DEF EveryMatchReported
<1>15. \A i \in DOMAIN InHand' : InHand'[i] = arrived'[Len(printed') + i]
    BY <1>3
<1> QED
    BY <1>1, <1>12, <1>13, <1>14, <1>15 DEF EveryMatchReported

\* recv_with_deadline takes the first queued datagram: a matching one is then in hand.
LEMMA MatchRead ==
    ASSUME RunType, ResultOK, ResultOK', RunType', EveryMatchReported, phase = "receiving",
           ReadDatagram, UNCHANGED <<cli_vars, arrived>>
    PROVE  EveryMatchReported'
<1> DEFINE hit == IF FilterDatagram(Head(inbox)) THEN 1 ELSE 0
           n == Len(printed)
<1>1. /\ inbox # <<>> /\ inbox' = Tail(inbox) /\ pc = "reading" /\ result.kind = "None"
      /\ UNCHANGED <<args, phase, received, printed, exit, arrived>>
    BY DEF ReadDatagram, cli_vars, ResultOK
<1>2. /\ n \in Nat /\ Len(arrived) \in Nat /\ inbox \in Seq(Frames) /\ Len(inbox) \in Nat \ {0}
      /\ Len(inbox') = Len(inbox) - 1 /\ Head(inbox) = inbox[1] /\ Head(inbox) \in Frames
      /\ DOMAIN inbox = 1 .. Len(inbox) /\ DOMAIN inbox' = 1 .. Len(inbox')
      /\ \A i \in DOMAIN inbox' : i + 1 \in DOMAIN inbox /\ inbox'[i] = inbox[i + 1]
    BY <1>1 DEF RunType
<1>3. InHand = <<>>
    BY <1>1 DEF InHand
<1>4. /\ FilterDatagram(Head(inbox)) => InHand' = <<Head(inbox)>>
      /\ ~FilterDatagram(Head(inbox)) => InHand' = <<>>
    <2>1. CASE FilterDatagram(Head(inbox))
        <3>1. result' = Value(Head(inbox)) /\ Value(Head(inbox)) # Value(None)
            BY <1>2, <2>1, NoneAssumption DEF ReadDatagram, LoopReturns, Value
        <3>2. result'.kind = "Ok" /\ result'.value = Head(inbox) /\ result' # Value(None)
            BY <3>1 DEF Value
        <3> QED
            BY <1>1, <2>1, <3>2 DEF InHand
    <2>2. CASE ~FilterDatagram(Head(inbox))
        <3>1. result' = result
            BY <2>2 DEF ReadDatagram
        <3> QED
            BY <1>1, <2>2, <3>1 DEF InHand
    <2> QED
        BY <2>1, <2>2
<1>5. Len(InHand) = 0 /\ Len(InHand') = hit /\ hit \in {0, 1}
    BY <1>3, <1>4
<1>6. Seen = n /\ Seen' = n + hit
    BY <1>1, <1>2, <1>5 DEF Seen
<1>7. \A i \in 0 .. Len(inbox') : /\ Queued(i + 1) = Queued(i)' + hit
                                  /\ Queued(i)' \in Nat
    <2> TAKE i \in 0 .. Len(inbox')
    <2>1. i \in 0 .. Len(inbox) - 1 /\ i \in Nat
        BY <1>2
    <2>2. Cardinality(Matching(inbox, i + 1)) = Cardinality(Matching(Tail(inbox), i)) + hit
        BY <1>1, <1>2, <2>1, MatchingTail
    <2>3. Queued(i)' = Cardinality(Matching(Tail(inbox), i))
        BY <1>1 DEF Queued, Matching
    <2>4. Queued(i + 1) = Cardinality(Matching(inbox, i + 1))
        BY DEF Queued, Matching
    <2> QED
        BY <2>1, <2>2, <2>3, <2>4, MatchingFinite
<1> HIDE DEF hit
<1>8. SocketFailed <=> exit \notin {None, "success"}
    BY <1>1 DEF SocketFailed
<1> SUFFICES ASSUME ~SocketFailed'
             PROVE  /\ Len(arrived') = Seen' + Queued(Len(inbox))'
                    /\ \A i \in DOMAIN InHand' : InHand'[i] = arrived'[Len(printed') + i]
                    /\ \A i \in DOMAIN inbox' :
                         FilterDatagram(inbox'[i]) => inbox'[i] = arrived'[Seen' + Queued(i)']
    BY <1>1 DEF EveryMatchReported
<1>9. ~SocketFailed
    BY <1>1, <1>8 DEF SocketFailed
<1>10. /\ Len(arrived) = n + Queued(Len(inbox))
       /\ \A i \in DOMAIN inbox : FilterDatagram(inbox[i]) => inbox[i] = arrived[n + Queued(i)]
    BY <1>6, <1>9 DEF EveryMatchReported
<1>11. Queued(Len(inbox)) = Queued(Len(inbox))' + hit
    <2>1. Len(inbox') \in 0 .. Len(inbox') /\ Len(inbox') + 1 = Len(inbox)
        BY <1>2
    <2>2. Queued(Len(inbox') + 1) = Cardinality(Matching(inbox', Len(inbox'))) + hit
        BY <1>7, <2>1 DEF Queued, Matching
    <2> QED
        BY <2>1, <2>2, Zenon DEF Queued, Matching
<1>12. Len(arrived') = Seen' + Queued(Len(inbox))'
    <2>1. Len(inbox') \in 0 .. Len(inbox')
        BY <1>2
    <2>2. Cardinality(Matching(inbox', Len(inbox'))) \in Nat
        BY <1>2, <2>1, MatchingFinite
    <2>3. Queued(Len(inbox))' \in Nat
        BY <2>2 DEF Queued, Matching
    <2> QED
        BY <1>1, <1>2, <1>5, <1>6, <1>10, <1>11, <2>3
<1>13. ASSUME NEW i \in DOMAIN inbox', FilterDatagram(inbox'[i])
       PROVE  inbox'[i] = arrived'[Seen' + Queued(i)']
    <2>1. i \in 0 .. Len(inbox') /\ i + 1 \in DOMAIN inbox /\ inbox'[i] = inbox[i + 1]
        BY <1>2
    <2>2. Queued(i + 1) = Queued(i)' + hit /\ Queued(i)' \in Nat
        BY <1>7, <2>1
    <2>3. n + Queued(i + 1) = Seen' + Queued(i)'
        BY <1>2, <1>5, <1>6, <2>2
    <2> QED
        BY <1>1, <1>10, <1>13, <2>1, <2>3
<1>14. \A i \in DOMAIN InHand' : InHand'[i] = arrived'[Len(printed') + i]
    <2>1. CASE FilterDatagram(Head(inbox))
        <3>1. InHand' = <<Head(inbox)>> /\ hit = 1
            BY <1>4, <2>1 DEF hit
        <3>2. Queued(1) = 1
            <4>1. 0 \in 0 .. Len(inbox') /\ 0 + 1 = 1
                BY <1>2
            <4>2. Queued(0)' = 0
                BY MatchingNone DEF Queued, Matching
            <4>3. Queued(0 + 1) = Queued(0)' + hit
                BY <1>7, <4>1
            <4> QED
                BY <3>1, <4>1, <4>2, <4>3
        <3>3. inbox[1] = arrived[n + 1]
            BY <1>2, <1>10, <2>1, <3>2
        <3> QED
            BY <1>1, <1>2, <3>1, <3>3
    <2>2. CASE ~FilterDatagram(Head(inbox))
        BY <1>4, <2>2
    <2> QED
        BY <2>1, <2>2
<1> QED
    BY <1>12, <1>13, <1>14

\* A datagram that matches is queued where the account expects it.
LEMMA MatchReach ==
    ASSUME RunType, ResultOK, EveryMatchReported, NEW f \in Frames, Reach(f)
    PROVE  EveryMatchReported'
<1> DEFINE hit == IF FilterDatagram(f) THEN 1 ELSE 0
<1>0. PICK n \in Nat : n = Len(inbox)
    BY DEF RunType
<1>1. /\ inbox' = Append(inbox, f)
      /\ arrived' = IF FilterDatagram(f) THEN Append(arrived, f) ELSE arrived
      /\ UNCHANGED <<args, phase, received, printed, exit, result, pc>>
    BY DEF Reach, Arrive, cli_vars
<1>2. InHand' = InHand /\ Seen' = Seen /\ SocketFailed' = SocketFailed
    BY <1>1 DEF InHand, Seen, SocketFailed
<1>3. /\ inbox \in Seq(Frames) /\ arrived \in Seq(Frames)
      /\ n = Len(inbox) /\ Len(arrived) \in Nat /\ DOMAIN arrived = 1 .. Len(arrived)
    BY <1>0 DEF RunType
<1>4. /\ Len(inbox') = n + 1 /\ inbox'[n + 1] = f /\ DOMAIN inbox = 1 .. n
      /\ \A i \in DOMAIN inbox' : (i \in DOMAIN inbox /\ inbox'[i] = inbox[i]) \/ i = n + 1
    BY <1>1, <1>3
<1>5. /\ Len(arrived') = Len(arrived) + hit
      /\ \A i \in DOMAIN arrived : arrived'[i] = arrived[i]
      /\ hit = 1 => arrived'[Len(arrived) + 1] = f
    BY <1>1, <1>3
<1>6. /\ \A i \in 0 .. n : Queued(i)' = Queued(i)
      /\ Queued(n + 1)' = Queued(n) + hit
      /\ \A i \in 0 .. n : Queued(i) \in Nat
    <2>1. \A i : /\ Queued(i) = Cardinality(Matching(inbox, i))
                 /\ Queued(i)' = Cardinality(Matching(Append(inbox, f), i))
        BY <1>1 DEF Queued, Matching
    <2>2. \A i \in 0 .. n : Cardinality(Matching(inbox, i)) \in Nat
        BY <1>3, MatchingFinite
    <2>3. \A i \in 0 .. n : Matching(Append(inbox, f), i) = Matching(inbox, i)
        BY <1>3, MatchingAppend
    <2>4. Cardinality(Matching(Append(inbox, f), n + 1)) = Cardinality(Matching(inbox, n)) + hit
        BY <1>3, MatchingAppend
    <2> HIDE DEF hit
    <2> QED
        BY <2>1, <2>2, <2>3, <2>4
<1>7. received <= Len(arrived') /\ \A i \in DOMAIN printed : printed[i].datagram = arrived'[i]
    <2>1. Len(printed) <= Len(arrived) /\ received = Len(printed) /\ received \in Nat
        BY DEF EveryMatchReported, RunType
    <2>2. \A i \in DOMAIN printed : i \in DOMAIN arrived
        BY <1>3, <2>1 DEF RunType
    <2> QED
        BY <1>3, <1>5, <2>1, <2>2 DEF EveryMatchReported
<1> SUFFICES ASSUME ~SocketFailed
             PROVE  /\ Len(arrived') = Seen' + Queued(Len(inbox))'
                    /\ \A i \in DOMAIN InHand' : InHand'[i] = arrived'[Len(printed') + i]
                    /\ \A i \in DOMAIN inbox' :
                         FilterDatagram(inbox'[i]) => inbox'[i] = arrived'[Seen' + Queued(i)']
    BY <1>1, <1>2, <1>7, Zenon DEF EveryMatchReported
<1>8. /\ Len(arrived) = Seen + Queued(n)
      /\ \A i \in DOMAIN InHand : InHand[i] = arrived[Len(printed) + i]
      /\ \A i \in DOMAIN inbox : FilterDatagram(inbox[i]) => inbox[i] = arrived[Seen + Queued(i)]
    BY <1>0 DEF EveryMatchReported
<1>9. /\ Seen \in Nat /\ Len(printed) \in Nat /\ Len(InHand) \in Nat
      /\ Seen = Len(printed) + Len(InHand) /\ DOMAIN InHand = 1 .. Len(InHand)
    <2>1. InHand \in Seq(Frames) /\ Len(printed) \in Nat
        BY InHandFacts DEF RunType
    <2> QED
        BY <2>1 DEF Seen
<1>10. n \in 0 .. n /\ Queued(n) \in Nat /\ hit \in {0, 1}
    BY <1>3, <1>6
<1>11. Len(arrived') = Seen' + Queued(Len(inbox))'
    <2>1. Queued(Len(inbox))' = Queued(n + 1)'
        BY <1>4 DEF Queued
    <2> QED
        BY <1>2, <1>5, <1>6, <1>8, <1>9, <1>10, <2>1, SMTT(30)
<1>12. ASSUME NEW i \in DOMAIN InHand' PROVE InHand'[i] = arrived'[Len(printed') + i]
    <2>1. i \in 1 .. Len(InHand) /\ Len(printed) + i \in DOMAIN arrived
        BY <1>2, <1>3, <1>8, <1>9, <1>10, SMTT(30)
    <2> QED
        BY <1>1, <1>2, <1>5, <1>8, <1>9, <2>1, SMTT(30)
<1>13. ASSUME NEW i \in DOMAIN inbox', FilterDatagram(inbox'[i])
       PROVE  inbox'[i] = arrived'[Seen' + Queued(i)']
    <2>1. CASE i \in DOMAIN inbox /\ inbox'[i] = inbox[i]
        <3>1. i \in 1 .. n /\ i \in 0 .. n /\ Queued(i)' = Queued(i) /\ Queued(i) \in Nat
            BY <1>3, <1>4, <1>6, <2>1
        <3>2. inbox'[i] = arrived[Seen + Queued(i)]
            BY <1>8, <1>13, <2>1
        <3>3. Queued(i) > 0 /\ Queued(i) <= Queued(n)
            BY <1>3, <1>13, <2>1, <3>1, MatchingGrows, ZenonT(60) DEF Queued, Matching
        <3>4. Seen + Queued(i) \in DOMAIN arrived
            BY <1>3, <1>8, <1>9, <1>10, <3>1, <3>3
        <3> QED
            BY <1>2, <1>5, <3>1, <3>2, <3>4, Zenon
    <2>2. CASE i = n + 1
        <3>1. inbox'[i] = f /\ hit = 1 /\ Queued(i)' = Queued(n + 1)'
            BY <1>4, <1>13, <2>2
        <3>2. Seen' + Queued(i)' = Len(arrived) + 1
            BY <1>2, <1>6, <1>8, <1>9, <1>10, <3>1
        <3> QED
            BY <1>5, <3>1, <3>2, SMTT(30)
    <2> QED
        BY <1>4, <1>13, <2>1, <2>2, SMTT(30)
<1> QED
    BY <1>11, <1>12, <1>13

\* Every step of the run keeps the account of the matching datagrams.
LEMMA MatchStep ==
    ASSUME RunInv, RunType', ResultOK', [RunNext]_run_vars
    PROVE  EveryMatchReported'
<1> USE NoExitAssumption DEF RunInv, Exits
<1>1. CASE Start
    BY <1>1, MatchKept DEF Start, SetReadTimeout, SocketFailed, InHand, ResultOK
<1>2. ASSUME NEW status \in {"failure", "permission"}, StartFails(status) \/ SocketError(status)
      PROVE  EveryMatchReported'
    <2>1. SocketFailed'
        BY <1>2 DEF StartFails, SocketError, End, SocketFailed
    <2> QED
        BY <1>2, <2>1, MatchKept DEF StartFails, SocketError, vars
<1>3. CASE CallRecv
    <2>1. CASE Recv
        <3>1. result'.kind = "None" /\ exit' = exit /\ phase = "loop"
            BY <1>3, <2>1 DEF CallRecv, Recv
        <3>2. InHand = <<>> /\ InHand' = <<>> /\ ~SocketFailed
            BY <3>1 DEF InHand, SocketFailed, ResultOK
        <3> QED
            BY <1>3, <2>1, <3>2, MatchKept DEF CallRecv, Recv
    <2>2. CASE RecvFails
        <3>1. SocketFailed'
            BY <1>3, <2>2 DEF CallRecv, RecvFails, Failed, SocketFailed
        <3> QED
            BY <1>3, <2>2, <3>1, MatchKept DEF CallRecv, RecvFails
    <2> QED
        BY <1>3, <2>1, <2>2 DEF CallRecv
<1>4. CASE TimedOut
    <2>1. InHand = <<>> /\ InHand' = <<>>
        BY <1>4 DEF TimedOut, InHand
    <2>2. ~SocketFailed
        BY <1>4 DEF TimedOut, Returned, SocketFailed, Value, ResultOK
    <2> QED
        BY <1>4, <2>1, <2>2, MatchKept DEF TimedOut, vars
<1>5. ASSUME NEW delivery \in Deliveries, Process(delivery) PROVE EveryMatchReported'
    BY <1>5, MatchProcess
<1>6. CASE Finish
    <2>1. ~SocketFailed /\ InHand = <<>> /\ InHand' = <<>>
        BY <1>6 DEF Finish, End, SocketFailed, InHand, ResultOK
    <2> QED
        BY <1>6, <2>1, MatchKept DEF Finish, vars
<1>7. CASE phase = "receiving" /\ CallStep /\ UNCHANGED <<cli_vars, arrived>>
    <2>1. CASE ReadDatagram
        BY <1>7, <2>1, MatchRead, SMTT(30)
    <2>2. CASE LoopArmFails \/ ReadFails
        <3>1. result'.kind = "Err" /\ pc' \in {"restoring", "idle"} /\ phase' = "receiving"
            BY <1>7, <2>2 DEF LoopArmFails, ReadFails, LoopReturns, Failed, cli_vars
        <3> QED
            BY <1>7, <2>2, <3>1, MatchKept, Zenon
               DEF LoopArmFails, ReadFails, SocketFailed, cli_vars
    <2>3. CASE RestoreFails
        <3>1. /\ pc' = "idle" /\ phase' = "receiving"
              /\ (result' = result /\ result.kind = "Err") \/ result' = Failed("restore")
            BY <1>7, <2>3 DEF RestoreFails, cli_vars
        <3>2. SocketFailed'
            BY <3>1 DEF SocketFailed, Failed
        <3> QED
            BY <1>7, <2>3, <3>2, MatchKept DEF RestoreFails, cli_vars
    <2>4. CASE LoopDeadline \/ ReadTimesOut
        <3>1. result' = Value(None) /\ result.kind = "None" /\ pc \in {"loop", "reading"}
            BY <2>4 DEF LoopDeadline, ReadTimesOut, LoopReturns, ResultOK
        <3>2. InHand = <<>> /\ InHand' = <<>>
            BY <3>1 DEF InHand
        <3>3. ~SocketFailed
            BY <1>7, <3>1 DEF SocketFailed, ResultOK
        <3> QED
            BY <1>7, <2>4, <3>2, <3>3, MatchKept, SMTT(30) DEF LoopDeadline, ReadTimesOut, cli_vars
    <2>5. CASE LoopArm \/ Restore \/ Tick
        <3>1. result' = result /\ inbox' = inbox /\ InHand' = InHand
            BY <1>7, <2>5 DEF LoopArm, Restore, Tick, InHand, cli_vars
        <3>2. SocketFailed => SocketFailed'
            BY <1>7, <2>5, <3>1 DEF LoopArm, Restore, Tick, Blocked, SocketFailed, cli_vars
        <3> QED
            BY <1>7, <3>1, <3>2, MatchKept DEF cli_vars
    <2> QED
        BY <1>7, <2>1, <2>2, <2>3, <2>4, <2>5 DEF CallStep
<1>8. ASSUME NEW f \in Frames, Reach(f) PROVE EveryMatchReported'
    BY <1>8, MatchReach
<1>9. CASE UNCHANGED run_vars
    <2>1. SocketFailed' = SocketFailed /\ InHand' = InHand
        BY <1>9 DEF run_vars, cli_vars, vars, SocketFailed, InHand
    <2> QED
        BY <1>9, <2>1, MatchKept DEF run_vars, cli_vars, vars
<1> QED
    BY <1>1, <1>2, <1>3, <1>4, <1>5, <1>6, <1>7, <1>8, <1>9, RunCases, SMTT(30)

LEMMA RunInitInv == RunInit => RunInv
<1> SUFFICES ASSUME RunInit PROVE RunInv
    OBVIOUS
<1> USE NoExitAssumption DEF RunInit
<1>1. Inv
    BY InitInv
<1>2. RunType
    <2> DEFINE L == [datagram : Frames, delivery : Deliveries]
    <2>1. printed \in Seq(L)
        <3> HIDE DEF L
        <3> QED
            OBVIOUS
    <2>2. processing_error \in BOOLEAN
        BY Zenon
    <2>3. /\ received \in Nat /\ arrived \in Seq(Frames) /\ inbox \in Seq(Frames)
          /\ args \in ArgType /\ phase = "start"
        BY DEF Init
    <2> QED
        BY <2>1, <2>2, <2>3, Zenon DEF RunType
<1>3. ErrorsOK /\ CountOK
    BY DEF ErrorsOK, CountOK
<1>4. ResultOK
    BY DEF Init, ResultOK, Exits
<1>5. CallTimeout /\ StopOK
    BY DEF Init, CallTimeout, StopOK, Exits
<1>6. EveryMatchReported
    <2>1. InHand = <<>> /\ Len(InHand) = 0 /\ Seen = 0
        BY DEF InHand, Seen
    <2>2. inbox = <<>> /\ Len(inbox) = 0 /\ arrived = <<>> /\ Queued(0) = 0
        BY MatchingNone DEF Init, Queued, Matching
    <2>3. args.count \in Nat
        BY CountsAssumption, Zenon DEF ArgType
    <2> QED
        BY <2>1, <2>2, <2>3 DEF EveryMatchReported
<1> QED
    BY <1>1, <1>2, <1>3, <1>4, <1>5, <1>6 DEF RunInv

LEMMA RunNextInv == RunInv /\ [RunNext]_run_vars => RunInv'
<1> SUFFICES ASSUME RunInv, [RunNext]_run_vars PROVE RunInv'
    OBVIOUS
<1>1. Inv'
    BY RunTakesReceiverSteps, NextInv DEF RunInv
<1>2. RunType' /\ ResultOK'
    BY RunTypeStep, ResultStep DEF RunInv, Inv
<1>3. CallTimeout' /\ StopOK' /\ ErrorsOK' /\ CountOK'
    BY CallTimeoutStep, StopStep, ErrorsStep DEF RunInv
<1>4. EveryMatchReported'
    BY <1>2, MatchStep
<1> QED
    BY <1>1, <1>2, <1>3, <1>4 DEF RunInv

-----------------------------------------------------------------------------
\* RunInv holds in every reachable state of a run of udpopt-recv.
THEOREM RunInvariance == RunSpec => []RunInv
BY RunInitInv, RunNextInv, PTL DEF RunSpec

\* A run of udpopt-recv uses its RawReceiver only as the receiver's own specification allows, so
\* that what is proved of the receiver holds in it.
THEOREM RunUsesReceiver == RunSpec => Spec
<1>1. RunInit => Init
    BY DEF RunInit
<1>2. RunInv /\ [RunNext]_run_vars => [Next]_vars
    BY RunTakesReceiverSteps DEF RunInv
<1> QED
    BY <1>1, <1>2, RunInvariance, PTL DEF RunSpec, Spec

\* udpopt-recv prints every matching datagram once and in the order of arrival, whatever becomes
\* of it; only a failing socket loses one.
THEOREM MatchesReported == RunSpec => []EveryMatchReported
<1>1. RunInv => EveryMatchReported
    BY DEF RunInv
<1> QED
    BY <1>1, RunInvariance, PTL

\* udpopt-recv succeeds only when no datagram failed, and stops short of its count only when the
\* time of its last call is used up.
THEOREM SuccessHonest == RunSpec => []ExitHonest
<1>1. RunInv => ExitHonest
    <2> SUFFICES ASSUME RunInv, exit = "success"
                 PROVE  /\ \A i \in DOMAIN printed : printed[i].delivery # "error"
                        /\ Len(printed) < args.count => WaitedOut
        BY DEF ExitHonest, WaitedOut
    <2>1. ~processing_error /\ (received >= args.count \/ WaitedOut)
        BY DEF RunInv, StopOK
    <2>2. received = Len(printed) /\ received \in Nat /\ args.count \in Nat
        BY CountsAssumption, Zenon DEF RunInv, EveryMatchReported, RunType, ArgType
    <2>3. \A i \in DOMAIN printed : printed[i].delivery # "error"
        BY <2>1 DEF RunInv, ErrorsOK
    <2> QED
        BY <2>1, <2>2, <2>3
<1> QED
    BY <1>1, RunInvariance, PTL

=============================================================================
