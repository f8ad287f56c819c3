---------------------------- MODULE SenderProofs ----------------------------
(***************************************************************************)
(* Proofs about a run of the sender CLI, for every command line, every     *)
(* first Identification and every value of the bounds; about the iterator  *)
(* over option bytes, for every content; and about the option serializer,  *)
(* for every sequence of options.                                          *)
(***************************************************************************)
EXTENDS OptionsBuilder, UdpoptSend, TLAPS

-----------------------------------------------------------------------------
(* udpopt-send *)


Datagram == [send : Nat, datagram : Nat, id : Nat \cup {None}]
Row == [seq : Nat, id : Nat \cup {None}, datagrams : Nat]

TypeInv ==
    /\ args \in ArgType
    /\ index \in Nat /\ index <= args.count
    /\ next \in Nat \cup {None} /\ id \in Nat \cup {None}
    /\ order \in Seq(Nat)
    /\ wire \in Seq(Datagram)
    /\ rows \in Seq(Row)

\* What the loop's checks establish holds from the first send that passed them.
Possible == Askable /\ args.faults # "refused"

ControlOK ==
    /\ pc = "start" => index = 0 /\ wire = <<>>
    /\ pc = "build" => args.count > 0
    /\ pc = "emit" => index < args.count /\ Sequence(index) <= SeqMax
    /\ exit = "success" => pc = "ended" /\ index = args.count /\ args.count > 0
    /\ wire # <<>> \/ index > 0 \/ pc = "emit" => Possible

\* The send being written: what is on the wire and what is left make up what was asked for.
Emitting ==
    LET sent == Len(Asked) - Len(order) IN
    /\ sent \in Nat /\ sent <= Len(wire)
    /\ {k \in DOMAIN wire : wire[k].send = index} = (Len(wire) - sent) + 1 .. Len(wire)
    /\ \A j \in 1 .. sent : wire[(Len(wire) - sent) + j].datagram = Asked[j]
    /\ \A j \in 1 .. Len(order) : order[j] = Asked[sent + j]

WireOK ==
    /\ \A send \in 0 .. index - 1 : WrittenAsAsked(send)
    /\ \A k \in DOMAIN wire : wire[k].send <= index
    /\ pc = "build" => \A k \in DOMAIN wire : wire[k].send < index
    /\ pc = "emit" => Emitting /\ \A k \in DOMAIN wire : wire[k].send = index => wire[k].id = id

\* Every send before this one has its row, if there is a manifest.
RowsOK ==
    /\ Len(rows) <= index
    /\ args.manifest => Len(rows) = index
    /\ \A i \in DOMAIN rows :
        /\ rows[i].seq = args.seq_start + i - 1 /\ rows[i].seq <= SeqMax
        /\ rows[i].datagrams = Len(Asked)
        /\ \A k \in DOMAIN wire : wire[k].send = i - 1 => wire[k].id = rows[i].id

\* Identifications are handed out in increasing order.
IdsOK ==
    /\ \A i, j \in DOMAIN rows :
          i < j /\ rows[i].id # None /\ rows[j].id # None => rows[i].id < rows[j].id
    /\ \A i \in DOMAIN rows : rows[i].id # None /\ next # None => rows[i].id < next
    /\ pc = "emit" /\ id # None =>
          /\ next # None => id < next
          /\ \A i \in DOMAIN rows : rows[i].id # None => rows[i].id < id

\* The inductive invariant of the run.
IInv == TypeInv /\ ControlOK /\ WireOK /\ RowsOK /\ IdsOK

-----------------------------------------------------------------------------
LEMMA ArgFacts ==
    ASSUME args \in ArgType
    PROVE  /\ args.count \in Nat /\ args.seq_start \in Nat /\ args.manifest \in BOOLEAN
           /\ Built \in Nat \ {0}
           /\ Asked \in Seq(Nat) /\ Len(Asked) \in Nat /\ DOMAIN Asked = 1 .. Len(Asked)
<1>1. /\ args.count \in Nat /\ args.seq_start \in Nat /\ args.manifest \in BOOLEAN
      /\ args.pieces \in Nat \ {0} /\ args.frag_emit \in Seq(Nat) \cup {None}
  BY BoundsAssumption DEF ArgType
<1>2. Built \in Nat \ {0}
  BY <1>1 DEF Built
<1>3. Asked \in Seq(Nat)
  <2>1. CASE args.frag_emit = None
    <3>1. Asked = [i \in 1 .. Built |-> i - 1]
      BY <2>1 DEF Asked
    <3> QED BY <1>2, <3>1
  <2>2. CASE args.frag_emit # None
    BY <1>1, <2>2 DEF Asked
  <2> QED BY <2>1, <2>2
<1> QED BY <1>1, <1>2, <1>3

LEMMA Elements ==
    ASSUME TypeInv
    PROVE  /\ \A k \in DOMAIN wire : wire[k].send \in Nat /\ wire[k].datagram \in Nat
           /\ \A i \in DOMAIN rows : rows[i].id # None => rows[i].id \in Nat
<1>1. /\ \A k \in DOMAIN wire : wire[k] \in Datagram
      /\ \A i \in DOMAIN rows : rows[i] \in Row
  BY DEF TypeInv
<1> QED BY <1>1 DEF Datagram, Row

\* The checks of the loop's body: a send that passes them is emitted in the order asked for.
LEMMA BuildPasses ==
    ASSUME args \in ArgType, index \in Nat, BuildError = None
    PROVE  /\ EmitOrder(args.frag_emit, Built) = Asked
           /\ Possible
           /\ Sequence(index) \in Nat /\ Sequence(index) <= SeqMax
           /\ TakesId => next # None
<1>1. /\ "sequence" # None /\ "input" # None /\ "build" # None /\ "identification" # None
      /\ "split" # None /\ "faults" # None /\ "emit_order" # None
  BY NoneAssumption DEF Errors
<1>2. /\ ~(Sequence(index) > SeqMax)
      /\ ~(TakesId /\ next = None)
      /\ args.faults # "refused"
      /\ EmitOrder(args.frag_emit, Built) # None
  BY <1>1 DEF BuildError
<1>3. Sequence(index) \in Nat /\ Sequence(index) <= SeqMax
  BY <1>2, ArgFacts, BoundsAssumption DEF Sequence
<1>4. EmitOrder(args.frag_emit, Built) = Asked /\ Askable
  <2>1. CASE args.frag_emit = None
    <3>1. /\ EmitOrder(args.frag_emit, Built) = [i \in 1 .. Built |-> i - 1]
          /\ Asked = [i \in 1 .. Built |-> i - 1]
      BY <2>1 DEF EmitOrder, Asked
    <3>2. Built \in Nat \ {0}
      BY ArgFacts
    <3>3. Asked # <<>> /\ \A i \in DOMAIN Asked : Asked[i] < Built
      BY <3>1, <3>2
    <3> QED BY <3>1, <3>3 DEF Askable
  <2>2. CASE args.frag_emit # None
    <3>1. Asked = args.frag_emit
      BY <2>2 DEF Asked
    <3>2. /\ ~(args.frag_emit = <<>> \/ \E i \in DOMAIN args.frag_emit :
                                           args.frag_emit[i] >= Built)
          /\ EmitOrder(args.frag_emit, Built) = args.frag_emit
      BY <1>2, <2>2 DEF EmitOrder
    <3>3. \A i \in DOMAIN Asked : Asked[i] < Built
      <4>1. Asked \in Seq(Nat) /\ Built \in Nat
        BY ArgFacts
      <4> QED BY <3>1, <3>2, <4>1
    <3> QED BY <3>1, <3>2, <3>3 DEF Askable
  <2> QED BY <2>1, <2>2
<1> QED BY <1>2, <1>3, <1>4 DEF Possible

\* What depends on the arguments alone stays the same when they do.
LEMMA ArgsKept ==
    ASSUME args' = args
    PROVE  Asked' = Asked /\ Askable' = Askable /\ Possible' = Possible
<1>1. Built' = Built
  BY DEF Built, Whole
<1>2. Asked' = Asked
  BY <1>1 DEF Asked
<1>3. Askable' = Askable
  BY <1>1, <1>2 DEF Askable
<1> QED BY <1>2, <1>3 DEF Possible

LEMMA InitOK ==
    ASSUME Init
    PROVE  IInv
<1>1. args \in ArgType /\ wire = <<>> /\ rows = <<>> /\ index = 0 /\ pc = "start"
  BY ArgSetsAssumption DEF Init
<1>2. TypeInv
  BY <1>1, ArgFacts, SeedsAssumption DEF Init, TypeInv
<1>3. ControlOK
  BY <1>1, NoneAssumption DEF Init, ControlOK, Exits
<1> QED BY <1>1, <1>2, <1>3 DEF IInv, WireOK, RowsOK, IdsOK

\* NextId is larger than the Identification just handed out, if there is one left.
LEMMA NextIdGrows ==
    ASSUME next \in Nat
    PROVE  NextId \in Nat \cup {None} /\ (NextId # None => next < NextId /\ NextId \in Nat)
BY DEF NextId

\* A step that ends the run leaves everything that was written and recorded.
LEMMA EndStep ==
    ASSUME IInv, pc' = "ended", UNCHANGED <<args, index, id, order, wire, rows>>,
           next' = next \/ (next # None /\ next' = NextId),
           exit' = "success" => index = args.count /\ args.count > 0
    PROVE  IInv'
<1>1. Asked' = Asked /\ Possible' = Possible
  BY ArgsKept
<1>2. next' \in Nat \cup {None}
  BY NextIdGrows DEF IInv, TypeInv
<1>3. TypeInv'
  BY <1>2 DEF IInv, TypeInv
<1>4. ControlOK'
  BY <1>1 DEF IInv, ControlOK
<1>5. WireOK'
  <2>1. \A send : WrittenAsAsked(send) => WrittenAsAsked(send)'
    BY <1>1 DEF WrittenAsAsked
  <2> QED BY <2>1 DEF IInv, WireOK
<1>6. RowsOK'
  BY <1>1 DEF IInv, RowsOK
<1>7. IdsOK'
  <2>1. ASSUME NEW i \in DOMAIN rows, rows[i].id # None, next' # None
        PROVE  rows[i].id < next'
    <3>1. rows[i].id \in Nat
      BY <2>1, Elements DEF IInv
    <3>2. next \in Nat /\ rows[i].id < next
      BY <2>1 DEF IInv, TypeInv, IdsOK
    <3> QED BY <2>1, <3>1, <3>2, NextIdGrows
  <2> QED BY <2>1 DEF IInv, IdsOK
<1> QED BY <1>3, <1>4, <1>5, <1>6, <1>7 DEF IInv

LEMMA StartStep ==
    ASSUME IInv, Start
    PROVE  IInv'
<1>1. /\ pc = "start" /\ pc' = "build" /\ args.count # 0
      /\ UNCHANGED <<args, index, next, id, order, exit, wire, rows>>
  BY DEF Start, ArgsRefused
<1>2. Asked' = Asked /\ Possible' = Possible
  BY <1>1, ArgsKept
<1>3. TypeInv'
  BY <1>1 DEF IInv, TypeInv
<1>4. args.count > 0 /\ index = 0 /\ wire = <<>>
  BY <1>1, ArgFacts DEF IInv, TypeInv, ControlOK
<1>5. ControlOK'
  BY <1>1, <1>2, <1>4 DEF IInv, ControlOK
<1>6. WireOK'
  BY <1>1, <1>4 DEF WireOK
<1>7. RowsOK' /\ IdsOK'
  BY <1>1, <1>2 DEF IInv, RowsOK, IdsOK
<1> QED BY <1>3, <1>5, <1>6, <1>7 DEF IInv

LEMMA BuildStep ==
    ASSUME IInv, Build
    PROVE  IInv'
<1>1. /\ pc = "build" /\ pc' = "emit" /\ index < args.count /\ BuildError = None
      /\ next' = (IF TakesId THEN NextId ELSE next) /\ id' = (IF TakesId THEN next ELSE None)
      /\ UNCHANGED <<args, index, exit, wire, rows>>
  BY DEF Build
<1>2. Asked' = Asked /\ Possible' = Possible
  BY <1>1, ArgsKept
<1>3. /\ order' = Asked /\ Possible
      /\ Sequence(index) <= SeqMax /\ (TakesId => next # None)
  BY <1>1, BuildPasses DEF IInv, TypeInv, Build
<1>4. Asked \in Seq(Nat) /\ Len(Asked) \in Nat /\ Len(wire) \in Nat
  BY ArgFacts DEF IInv, TypeInv
<1>5. /\ next' \in Nat \cup {None} /\ id' \in Nat \cup {None}
      /\ id' # None /\ next' # None => id' < next'
      /\ next' # None /\ next # None => next <= next'
      /\ next' # None => next # None
      /\ id' # None => next # None /\ id' = next
  BY <1>1, <1>3, NextIdGrows DEF IInv, TypeInv
<1>6. TypeInv'
  BY <1>1, <1>3, <1>4, <1>5 DEF IInv, TypeInv
<1>7. ControlOK'
  <2>1. Sequence(index)' = Sequence(index)
    BY <1>1 DEF Sequence
  <2> QED BY <1>1, <1>2, <1>3, <2>1 DEF IInv, ControlOK
<1>8. WireOK'
  <2>1. \A send : WrittenAsAsked(send) => WrittenAsAsked(send)'
    BY <1>1, <1>2 DEF WrittenAsAsked
  <2>2. \A k \in DOMAIN wire : wire[k].send < index /\ wire[k].send \in Nat
    BY <1>1, Elements DEF IInv, WireOK
  <2>3. \A k \in DOMAIN wire : wire[k].send # index
    BY <2>2 DEF IInv, TypeInv
  <2>4. Emitting'
    BY <1>1, <1>2, <1>3, <1>4, <2>3 DEF Emitting
  <2> QED BY <1>1, <2>1, <2>3, <2>4 DEF IInv, WireOK
<1>9. RowsOK'
  BY <1>1, <1>2 DEF IInv, RowsOK
<1>10. IdsOK'
  <2>1. ASSUME NEW i \in DOMAIN rows, rows[i].id # None
        PROVE  /\ next' # None => rows[i].id < next'
               /\ id' # None => rows[i].id < id'
    <3>1. rows[i].id \in Nat
      BY <2>1, Elements DEF IInv
    <3>2. next # None => next \in Nat /\ rows[i].id < next
      BY <2>1 DEF IInv, TypeInv, IdsOK
    <3> QED BY <1>5, <3>1, <3>2
  <2> QED BY <1>1, <1>5, <2>1 DEF IInv, IdsOK
<1> QED BY <1>6, <1>7, <1>8, <1>9, <1>10 DEF IInv

LEMMA AppendFacts ==
    ASSUME NEW S, NEW s \in Seq(S), NEW e \in S
    PROVE  /\ Append(s, e) \in Seq(S) /\ Append(s, e) # <<>>
           /\ Len(s) \in Nat /\ Len(Append(s, e)) = Len(s) + 1
           /\ DOMAIN s = 1 .. Len(s) /\ DOMAIN Append(s, e) = 1 .. (Len(s) + 1)
           /\ \A k \in 1 .. Len(s) : Append(s, e)[k] = s[k]
           /\ Append(s, e)[Len(s) + 1] = e
OBVIOUS

LEMMA SendDatagramStep ==
    ASSUME IInv, SendDatagram
    PROVE  IInv'
<1> DEFINE e == [send |-> index, datagram |-> Head(order), id |-> id]
           n == Len(wire)
           sent == Len(Asked) - Len(order)
<1>1. /\ pc = "emit" /\ order # <<>> /\ wire' = Append(wire, e) /\ order' = Tail(order)
      /\ UNCHANGED <<args, pc, index, next, id, exit, rows>>
  BY DEF SendDatagram
<1>2. Asked' = Asked /\ Possible' = Possible
  BY <1>1, ArgsKept
<1>3. /\ TypeInv /\ Emitting /\ args \in ArgType /\ index \in Nat /\ order \in Seq(Nat)
      /\ wire \in Seq(Datagram) /\ id \in Nat \cup {None}
  BY <1>1 DEF IInv, TypeInv, WireOK
<1>4. /\ Asked \in Seq(Nat) /\ Len(Asked) \in Nat /\ n \in Nat
      /\ Len(order) \in Nat \ {0} /\ Head(order) \in Nat
  BY <1>1, <1>3, ArgFacts
<1>5. e \in Datagram /\ e.send = index /\ e.datagram = Head(order) /\ e.id = id
  BY <1>3, <1>4 DEF Datagram
<1> HIDE DEF e
<1>6. /\ wire' \in Seq(Datagram) /\ Len(wire') = n + 1 /\ wire' # <<>>
      /\ DOMAIN wire = 1 .. n /\ DOMAIN wire' = 1 .. (n + 1)
      /\ \A k \in 1 .. n : wire'[k] = wire[k]
      /\ wire'[n + 1] = e
  BY <1>1, <1>3, <1>5, AppendFacts
<1>7. /\ order' \in Seq(Nat) /\ Len(order') = Len(order) - 1
      /\ \A j \in 1 .. Len(order') : order'[j] = order[j + 1]
      /\ Head(order) = order[1]
  BY <1>1, <1>3, <1>4
<1>8. TypeInv'
  BY <1>1, <1>6, <1>7 DEF IInv, TypeInv
<1>9. ControlOK'
  <2>1. Sequence(index)' = Sequence(index)
    BY <1>1 DEF Sequence
  <2> QED BY <1>1, <1>2, <2>1 DEF IInv, ControlOK
<1>10. ASSUME NEW send \in 0 .. index - 1 PROVE WrittenAsAsked(send)'
  <2>1. send # index
    BY <1>3
  <2>2. PICK at \in 0 .. n :
           /\ {k \in DOMAIN wire : wire[k].send = send} = at + 1 .. at + Len(Asked)
           /\ \A j \in DOMAIN Asked : wire[at + j].datagram = Asked[j]
    BY DEF IInv, WireOK, WrittenAsAsked
  <2>3. {k \in DOMAIN wire' : wire'[k].send = send} = {k \in DOMAIN wire : wire[k].send = send}
    BY <1>4, <1>5, <1>6, <2>1
  <2>4. \A j \in DOMAIN Asked : wire'[at + j].datagram = Asked[j]
    <3> TAKE j \in DOMAIN Asked
    <3>1. at + j \in at + 1 .. at + Len(Asked)
      BY <1>4
    <3>2. at + j \in 1 .. n
      BY <1>6, <2>2, <3>1
    <3> QED BY <1>6, <2>2, <3>2
  <2>5. at \in 0 .. Len(wire')
    BY <1>4, <1>6
  <2> QED BY <1>2, <2>2, <2>3, <2>4, <2>5 DEF WrittenAsAsked
<1>11. Emitting'
  <2>1. /\ sent \in Nat /\ sent <= n
        /\ {k \in DOMAIN wire : wire[k].send = index} = (n - sent) + 1 .. n
        /\ \A j \in 1 .. sent : wire[(n - sent) + j].datagram = Asked[j]
        /\ \A j \in 1 .. Len(order) : order[j] = Asked[sent + j]
    BY <1>3 DEF Emitting
  <2>2. Len(Asked') - Len(order') = sent + 1 /\ Len(wire') - (sent + 1) = n - sent
    BY <1>2, <1>4, <1>6, <1>7
  <2>3. {k \in DOMAIN wire' : wire'[k].send = index} = (n - sent) + 1 .. n + 1
    <3>1. \A k \in 1 .. n : wire'[k].send = index <=> k \in (n - sent) + 1 .. n
      BY <1>6, <2>1, SMTT(30)
    <3>2. wire'[n + 1].send = index
      BY <1>5, <1>6
    <3> HIDE DEF sent, n
    <3>3. \A k : k \in 1 .. (n + 1) /\ wire'[k].send = index <=> k \in (n - sent) + 1 .. n + 1
      <4>1. n \in Nat
        BY <1>4
      <4>2. \A k \in 1 .. (n + 1) : k \in 1 .. n \/ k = n + 1
        BY <4>1
      <4>3. \A k \in (n - sent) + 1 .. n + 1 :
               k \in 1 .. (n + 1) /\ (k \in (n - sent) + 1 .. n \/ k = n + 1)
        BY <2>1, <4>1
      <4>4. \A k \in (n - sent) + 1 .. n : k \in 1 .. n /\ k \in (n - sent) + 1 .. n + 1
        BY <2>1, <4>1
      <4>5. n + 1 \in 1 .. (n + 1) /\ n + 1 \in (n - sent) + 1 .. n + 1
        BY <2>1, <4>1
      <4> QED BY <3>1, <3>2, <4>2, <4>3, <4>4, <4>5, Zenon
    <3> QED BY <1>6, <3>3
  <2>4. \A j \in 1 .. sent + 1 : wire'[(n - sent) + j].datagram = Asked[j]
    <3> TAKE j \in 1 .. sent + 1
    <3>0. j \in 1 .. sent \/ j = sent + 1
      <4> HIDE DEF sent
      <4> QED BY <2>1
    <3>1. CASE j \in 1 .. sent
      <4>1. (n - sent) + j \in 1 .. n
        BY <1>4, <2>1, <3>1
      <4> QED BY <1>6, <2>1, <3>1, <4>1, SMTT(30)
    <3>2. CASE j = sent + 1
      <4>1. (n - sent) + j = n + 1
        BY <1>4, <2>1, <3>2
      <4>2. Head(order) = Asked[sent + 1]
        BY <1>4, <1>7, <2>1, SMTT(30)
      <4> QED BY <1>5, <1>6, <3>2, <4>1, <4>2
    <3> QED BY <3>0, <3>1, <3>2
  <2>5. \A j \in 1 .. Len(order') : order'[j] = Asked[(sent + 1) + j]
    <3> TAKE j \in 1 .. Len(order')
    <3>1. j + 1 \in 1 .. Len(order) /\ sent + (j + 1) = (sent + 1) + j
      BY <1>4, <1>7, <2>1
    <3> QED BY <1>7, <2>1, <3>1
  <2> HIDE DEF sent, n
  <2>6. sent + 1 \in Nat /\ sent + 1 <= n + 1 /\ Len(wire') = n + 1
    BY <1>4, <1>6, <2>1 DEF n
  <2>7. index' = index
    BY <1>1
  <2> QED BY <1>2, <2>2, <2>3, <2>4, <2>5, <2>6, <2>7, ZenonT(60) DEF Emitting
<1>12. \A k \in DOMAIN wire' : wire'[k].send <= index /\ (wire'[k].send = index => wire'[k].id = id)
  <2>1. \A k \in 1 .. n : wire[k].send <= index /\ (wire[k].send = index => wire[k].id = id)
    BY <1>1, <1>6 DEF IInv, WireOK
  <2>2. wire'[n + 1].send <= index /\ wire'[n + 1].id = id
    BY <1>3, <1>5, <1>6
  <2>3. \A k \in DOMAIN wire' : k \in 1 .. n \/ k = n + 1
    BY <1>4, <1>6
  <2> QED BY <1>6, <2>1, <2>2, <2>3
<1>13. WireOK'
  BY <1>1, <1>10, <1>11, <1>12 DEF WireOK
<1>14. RowsOK'
  <2>1. ASSUME NEW i \in DOMAIN rows, NEW k \in DOMAIN wire', wire'[k].send = i - 1
        PROVE  wire'[k].id = rows[i].id
    <3>1. i \in Nat /\ i <= Len(rows) /\ Len(rows) <= index /\ Len(rows) \in Nat
      BY DEF IInv, TypeInv, RowsOK
    <3>2. k # n + 1
      BY <1>3, <1>5, <1>6, <2>1, <3>1
    <3>3. k \in DOMAIN wire /\ wire'[k] = wire[k]
      BY <1>4, <1>6, <3>2
    <3> QED BY <2>1, <3>3 DEF IInv, RowsOK
  <2> QED BY <1>1, <1>2, <2>1 DEF IInv, RowsOK
<1>15. IdsOK'
  BY <1>1 DEF IInv, IdsOK
<1> QED BY <1>8, <1>9, <1>13, <1>14, <1>15 DEF IInv

LEMMA RecordStep ==
    ASSUME IInv, Record
    PROVE  IInv'
<1> DEFINE row == [seq |-> Sequence(index), id |-> id, datagrams |-> Len(Asked)]
           m == Len(rows)
<1>1. /\ pc = "emit" /\ order = <<>> /\ pc' = "build" /\ index' = index + 1
      /\ UNCHANGED <<args, next, id, order, exit, wire>>
  BY DEF Record
<1>2. Asked' = Asked /\ Possible' = Possible
  BY <1>1, ArgsKept
<1>3. /\ TypeInv /\ Emitting /\ Possible /\ args \in ArgType /\ index \in Nat
      /\ index < args.count /\ Sequence(index) <= SeqMax
      /\ rows \in Seq(Row) /\ id \in Nat \cup {None}
  BY <1>1 DEF IInv, TypeInv, ControlOK, WireOK
<1>4. /\ args.count \in Nat /\ args.seq_start \in Nat /\ args.manifest \in BOOLEAN
      /\ Len(Asked) \in Nat /\ m \in Nat /\ Len(wire) \in Nat
  BY <1>3, ArgFacts DEF TypeInv
<1>5. /\ row \in Row /\ row.seq = args.seq_start + index
      /\ row.id = id /\ row.datagrams = Len(Asked)
  BY <1>3, <1>4 DEF Row, Sequence
<1>6. rows' = IF args.manifest THEN Append(rows, row) ELSE rows
  <2>1. EmitOrder(args.frag_emit, Built) = Asked
    <3>1. Asked # <<>> /\ Asked \in Seq(Nat) /\ Built \in Nat
      BY <1>3, ArgFacts DEF Possible, Askable
    <3>2. \A i \in DOMAIN Asked : ~(Asked[i] >= Built)
      BY <1>3, <3>1 DEF Possible, Askable
    <3> QED BY <3>1, <3>2 DEF Asked, EmitOrder
  <2> QED BY <2>1 DEF Record
<1> HIDE DEF row
<1>7. /\ rows' \in Seq(Row) /\ m <= index /\ (args.manifest => m = index)
      /\ args.manifest => Len(rows') = m + 1 /\ rows'[m + 1] = row
      /\ ~args.manifest => Len(rows') = m
      /\ \A i \in DOMAIN rows' : \/ i \in DOMAIN rows /\ rows'[i] = rows[i]
                                 \/ args.manifest /\ i = m + 1
  BY <1>3, <1>4, <1>5, <1>6 DEF IInv, RowsOK
<1>8. TypeInv'
  BY <1>1, <1>3, <1>4, <1>7 DEF TypeInv
<1>9. ControlOK'
  BY <1>1, <1>2, <1>3, <1>4 DEF IInv, ControlOK
<1>10. WrittenAsAsked(index)
  <2>1. Len(order) = 0
    BY <1>1
  <2>2. /\ Len(Asked) <= Len(wire)
        /\ {k \in DOMAIN wire : wire[k].send = index}
              = (Len(wire) - Len(Asked)) + 1 .. Len(wire)
        /\ \A j \in 1 .. Len(Asked) : wire[(Len(wire) - Len(Asked)) + j].datagram = Asked[j]
    BY <1>3, <1>4, <2>1 DEF Emitting
  <2>3. DOMAIN Asked = 1 .. Len(Asked)
    BY <1>3, ArgFacts
  <2>4. /\ Len(wire) - Len(Asked) \in 0 .. Len(wire)
        /\ (Len(wire) - Len(Asked)) + Len(Asked) = Len(wire)
    BY <1>4, <2>2
  <2> QED BY <2>2, <2>3, <2>4, Zenon DEF WrittenAsAsked
<1>11. WireOK'
  <2>1. \A send : WrittenAsAsked(send) => WrittenAsAsked(send)'
    BY <1>1, <1>2, Zenon DEF WrittenAsAsked
  <2>2. \A send \in 0 .. index' - 1 : send \in 0 .. index - 1 \/ send = index
    BY <1>1, <1>3
  <2>3. \A k \in DOMAIN wire : wire[k].send \in Nat /\ wire[k].send <= index
    BY <1>3, Elements DEF IInv, WireOK
  <2>4. \A k \in DOMAIN wire : wire[k].send <= index' /\ wire[k].send < index'
    BY <1>1, <1>3, <2>3
  <2> QED BY <1>1, <1>10, <2>1, <2>2, <2>4 DEF IInv, WireOK
<1>12. RowsOK'
  <2>1. Len(rows') <= index' /\ (args.manifest => Len(rows') = index')
    BY <1>1, <1>3, <1>4, <1>7
  <2>2. ASSUME NEW i \in DOMAIN rows'
        PROVE  /\ rows'[i].seq = args.seq_start + i - 1 /\ rows'[i].seq <= SeqMax
               /\ rows'[i].datagrams = Len(Asked)
               /\ \A k \in DOMAIN wire : wire[k].send = i - 1 => wire[k].id = rows'[i].id
    <3>1. CASE i \in DOMAIN rows /\ rows'[i] = rows[i]
      BY <3>1 DEF IInv, RowsOK
    <3>2. CASE args.manifest /\ i = m + 1
      <4>1. rows'[i] = row /\ i - 1 = index /\ args.seq_start + i - 1 = args.seq_start + index
        BY <1>3, <1>4, <1>7, <3>2
      <4>2. \A k \in DOMAIN wire : wire[k].send = index => wire[k].id = id
        BY <1>1 DEF IInv, WireOK
      <4> QED BY <1>3, <1>5, <4>1, <4>2 DEF Sequence
    <3> QED BY <1>7, <3>1, <3>2
  <2> QED BY <1>1, <1>2, <2>1, <2>2 DEF RowsOK
<1>13. IdsOK'
  <2>1. \A i \in DOMAIN rows : i \in Nat /\ i < m + 1
    BY <1>3, <1>4
  <2>2. ASSUME NEW i \in DOMAIN rows', NEW j \in DOMAIN rows',
               i < j, rows'[i].id # None, rows'[j].id # None
        PROVE  rows'[i].id < rows'[j].id
    <3>1. CASE j \in DOMAIN rows /\ rows'[j] = rows[j]
      <4>1. i \in DOMAIN rows /\ rows'[i] = rows[i]
        BY <1>4, <1>7, <2>1, <2>2, <3>1
      <4> QED BY <2>2, <3>1, <4>1 DEF IInv, IdsOK
    <3>2. CASE args.manifest /\ j = m + 1
      <4>1. i \in DOMAIN rows /\ rows'[i] = rows[i]
        BY <1>4, <1>7, <2>2, <3>2
      <4>2. rows'[j].id = id
        BY <1>5, <1>7, <3>2
      <4> QED BY <1>1, <2>2, <4>1, <4>2 DEF IInv, IdsOK
    <3> QED BY <1>7, <3>1, <3>2
  <2>3. ASSUME NEW i \in DOMAIN rows', rows'[i].id # None, next # None
        PROVE  rows'[i].id < next
    <3>1. CASE i \in DOMAIN rows /\ rows'[i] = rows[i]
      BY <2>3, <3>1 DEF IInv, IdsOK
    <3>2. CASE args.manifest /\ i = m + 1
      BY <1>1, <1>5, <1>7, <2>3, <3>2 DEF IInv, IdsOK
    <3> QED BY <1>7, <3>1, <3>2
  <2> QED BY <1>1, <2>2, <2>3 DEF IdsOK
<1> QED BY <1>8, <1>9, <1>11, <1>12, <1>13 DEF IInv

LEMMA NextStep ==
    ASSUME IInv, [Next]_vars
    PROVE  IInv'
<1>0. args \in ArgType /\ args.count \in Nat
  BY ArgFacts DEF IInv, TypeInv
<1>1. CASE Start
  BY <1>1, StartStep
<1>2. ASSUME NEW status \in {"failure", "permission"}, StartFails(status) \/ SendFails(status)
      PROVE  IInv'
  BY <1>2, EndStep DEF StartFails, SendFails, End
<1>3. CASE Build
  BY <1>3, BuildStep
<1>4. CASE BuildFails
  BY <1>4, EndStep DEF BuildFails, End
<1>5. CASE SendDatagram
  BY <1>5, SendDatagramStep
<1>6. CASE Record
  BY <1>6, RecordStep
<1>7. CASE RecordFails
  BY <1>7, EndStep DEF RecordFails, End
<1>8. CASE Succeed
  <2>1. args.count > 0
    BY <1>8 DEF IInv, ControlOK, Succeed
  <2> QED BY <1>8, <2>1, EndStep DEF Succeed, End
<1>9. CASE Killed
  BY <1>9, EndStep DEF Killed, End
<1>10. CASE UNCHANGED vars
  <2>1. UNCHANGED <<args, pc, index, next, id, order, exit, wire, rows>>
    BY <1>10 DEF vars
  <2>2. Asked' = Asked /\ Possible' = Possible /\ Sequence(index)' = Sequence(index)
    BY <2>1, ArgsKept DEF Sequence
  <2>3. TypeInv' /\ ControlOK'
    BY <2>1, <2>2 DEF IInv, TypeInv, ControlOK
  <2>4. WireOK'
    <3>1. \A send : WrittenAsAsked(send) => WrittenAsAsked(send)'
      BY <2>1, <2>2 DEF WrittenAsAsked
    <3>2. Emitting => Emitting'
      BY <2>1, <2>2 DEF Emitting
    <3> QED BY <2>1, <3>1, <3>2 DEF IInv, WireOK
  <2>5. RowsOK' /\ IdsOK'
    BY <2>1, <2>2 DEF IInv, RowsOK, IdsOK
  <2> QED BY <2>3, <2>4, <2>5 DEF IInv
<1> QED
  BY <1>1, <1>2, <1>3, <1>4, <1>5, <1>6, <1>7, <1>8, <1>9, <1>10 DEF Next

-----------------------------------------------------------------------------
\* Theorems

\* The inductive invariant holds in every reachable state of a run.
THEOREM Invariance == Spec => []IInv
<1>1. Init => IInv
  BY InitOK
<1>2. IInv /\ [Next]_vars => IInv'
  BY NextStep
<1> QED BY <1>1, <1>2, PTL DEF Spec

\* Whatever ends the run and wherever, a manifest row stands for a logical send written completely,
\* in the order asked for, under an Identification no other row has, and only the send the run
\* was at lacks its row (the loop of run()).
THEOREM ManifestRecordsWritten == Spec => []ManifestHonest
<1>1. IInv => ManifestHonest
  <2> SUFFICES ASSUME IInv PROVE ManifestHonest
    OBVIOUS
  <2>1. /\ TypeInv /\ index \in Nat /\ rows \in Seq(Row) /\ Len(rows) \in Nat
        /\ DOMAIN rows = 1 .. Len(rows) /\ Len(rows) <= index
    BY DEF IInv, TypeInv, RowsOK
  <2>2. ASSUME NEW i \in DOMAIN rows
        PROVE  /\ rows[i].seq = args.seq_start + i - 1 /\ rows[i].seq <= SeqMax
               /\ rows[i].datagrams = Len(Asked)
               /\ \A k \in DOMAIN wire : wire[k].send = i - 1 => wire[k].id = rows[i].id
    BY DEF IInv, RowsOK
  <2>3. ASSUME NEW i \in DOMAIN rows PROVE WrittenAsAsked(i - 1)
    <3>1. i - 1 \in 0 .. index - 1
      BY <2>1
    <3> QED BY <3>1 DEF IInv, WireOK
  <2>4. ASSUME NEW i \in DOMAIN rows, NEW j \in DOMAIN rows,
               rows[i].id # None, rows[i].id = rows[j].id
        PROVE  i = j
    <3>1. rows[i].id \in Nat /\ ~(rows[i].id < rows[j].id) /\ ~(rows[j].id < rows[i].id)
      BY <2>1, <2>4, Elements
    <3>2. ~(i < j) /\ ~(j < i)
      BY <2>4, <3>1 DEF IInv, IdsOK
    <3> QED BY <2>1, <3>2
  <2>5. args.manifest => \A k \in DOMAIN wire : wire[k].send <= Len(rows)
    BY DEF IInv, WireOK, RowsOK
  <2> QED BY <2>2, <2>3, <2>4, <2>5 DEF ManifestHonest
<1> QED BY <1>1, Invariance, PTL

\* A run that exits with success has written every logical send as asked for; one whose faults or
\* emit order cannot be had writes nothing and does not succeed.
THEOREM SuccessMeansWritten == Spec => []ExitMeansSent
<1>1. IInv => ExitMeansSent
  <2> SUFFICES ASSUME IInv PROVE ExitMeansSent
    OBVIOUS
  <2>1. args.count \in Nat
    BY ArgFacts DEF IInv, TypeInv
  <2>2. ASSUME exit = "success"
        PROVE  /\ \A send \in 0 .. args.count - 1 : WrittenAsAsked(send)
               /\ args.manifest => Len(rows) = args.count
               /\ Possible
    BY <2>1, <2>2 DEF IInv, ControlOK, WireOK, RowsOK
  <2>3. wire # <<>> => Possible
    BY DEF IInv, ControlOK
  <2> QED BY <2>2, <2>3 DEF ExitMeansSent, Possible
<1> QED BY <1>1, Invariance, PTL

-----------------------------------------------------------------------------
(* The TLV iterator *)

ItemType == [kind : Byte, value : Seq(Byte), from : Nat, to : Nat]

IterTypeInv ==
    /\ bytes \in Seq(Byte)
    /\ pos \in Nat
    /\ done \in BOOLEAN
    /\ items \in Seq(ItemType)

IterInv == IterTypeInv /\ ItemsTile

-----------------------------------------------------------------------------
\* A byte is a natural number.
LEMMA ByteIsNat == \A b \in Byte : b \in Nat
BY DEF Byte

\* A part of a byte sequence is one.
LEMMA SubSeqOfBytes ==
    ASSUME NEW bs \in Seq(Byte), NEW a \in Nat \ {0}, NEW b \in Nat, b <= Len(bs)
    PROVE  SubSeq(bs, a, b) \in Seq(Byte)
BY SMTT(30)

\* An option that Framing accepts lies inside the bytes and is at least its header long.
LEMMA FramingInside ==
    ASSUME NEW bs \in Seq(Byte), NEW start \in Nat, start < Len(bs),
           Framing(bs, start).error = None
    PROVE  LET f == Framing(bs, start)
           IN  /\ f.start = start
               /\ f.header \in {2, 4}
               /\ f.total \in Nat /\ f.total >= 2
               /\ start + f.total <= Len(bs)
               /\ bs[start + 2] = ExtendedLengthMarker <=> f.header = 4
               /\ f.total = IF f.header = 4 THEN ReadU16(bs, start + 2) ELSE bs[start + 2]
<1> DEFINE have == Len(bs) - start
           extended == bs[start + 2] = ExtendedLengthMarker
           whole == IF extended THEN ReadU16(bs, start + 2) ELSE bs[start + 2]
           least == IF extended THEN ExtendedLengthMarker ELSE TlvHeaderLen
           f == Framing(bs, start)
<1>1. /\ have >= 2
      /\ ~(extended /\ have < 4)
      /\ ~(whole < least)
      /\ ~(whole > have)
      /\ f = Framed(start, IF extended THEN 4 ELSE 2, whole)
    BY ErrorsAssumption DEF Framing, Failure, Framed
<1>2. whole \in Nat
    <2>1. bs[start + 2] \in Byte
        BY <1>1
    <2>2. extended => bs[start + 3] \in Byte /\ bs[start + 4] \in Byte
        BY <1>1
    <2>3. extended => ReadU16(bs, start + 2) = bs[start + 3] * 256 + bs[start + 4]
        BY DEF ReadU16, Word
    <2>4. CASE extended
        <3>1. PICK hi \in Nat, lo \in Nat : hi = bs[start + 3] /\ lo = bs[start + 4]
            BY <2>2, <2>4, ByteIsNat
        <3>2. whole = hi * 256 + lo
            BY <2>3, <2>4, <3>1
        <3> HIDE DEF whole
        <3> QED
            BY <3>2
    <2>5. CASE ~extended
        BY <2>1, <2>5, ByteIsNat
    <2> QED
        BY <2>4, <2>5
<1>3. whole >= 2 /\ start + whole <= Len(bs)
    BY <1>1, <1>2 DEF TlvHeaderLen, ExtendedLengthMarker
<1> QED
    BY <1>1, <1>2, <1>3 DEF Framed

\* Appending a well-framed option at pos keeps the tiling.
LEMMA AppendKeepsTiling ==
    ASSUME IterInv, HasMore, bytes' = bytes, done' \in BOOLEAN,
           NEW item \in ItemType, items' = Append(items, item),
           item.from = pos, item.to = pos', pos' \in Nat, WellFramed(item),
           item.kind = EOL <=> done'
    PROVE  IterInv'
<1> USE DEF IterInv, IterTypeInv
<1>0. PICK n \in Nat : n = Len(items)
    OBVIOUS
<1>1. /\ items' \in Seq(ItemType) /\ Len(items') = n + 1
      /\ items'[n + 1] = item
      /\ \A i \in 1 .. n : items'[i] = items[i]
    BY <1>0
<1>2. IterTypeInv'
    BY <1>1
<1>3. pos' = EndOf(Len(items))' /\ pos' <= Len(bytes)'
    BY <1>1 DEF EndOf, WellFramed
<1>4. ASSUME NEW i \in 1 .. n
      PROVE  /\ items'[i].from = EndOf(i - 1)'
             /\ WellFramed(items[i])'
             /\ items'[i].kind # EOL
    <2>1. items[i].from = EndOf(i - 1) /\ WellFramed(items[i]) /\ items[i].kind # EOL
        BY <1>0 DEF ItemsTile, HasMore
    <2>2. EndOf(i - 1)' = EndOf(i - 1)
        BY <1>1 DEF EndOf
    <2>3. WellFramed(items[i])' = WellFramed(items[i])
        BY <1>1, Zenon DEF WellFramed
    <2> QED
        BY <1>1, <2>1, <2>2, <2>3
<1>5. /\ items'[n + 1].from = EndOf(n)'
      /\ WellFramed(items[n + 1])'
      /\ items'[n + 1].kind = EOL <=> done'
    <2>1. EndOf(n)' = EndOf(n) /\ EndOf(n) = pos
        BY <1>0, <1>1 DEF EndOf, ItemsTile
    <2>2. WellFramed(items[n + 1])' = WellFramed(item)
        BY <1>1, Zenon DEF WellFramed
    <2> QED
        BY <1>1, <2>1, <2>2
<1>6. ItemsTile'
    BY <1>1, <1>3, <1>4, <1>5, SMTT(30) DEF ItemsTile
<1> QED
    BY <1>2, <1>6

-----------------------------------------------------------------------------
\* One call of next() keeps it.
LEMMA IterStep ==
    ASSUME IterInv, [NextItem]_iterVars
    PROVE  IterInv'
<1> USE DEF IterInv, IterTypeInv
<1>0. HasMore => Kind \in Byte
    BY DEF HasMore, Kind
<1>1. CASE NextEol
    <2> DEFINE item == [kind |-> Kind, value |-> <<>>, from |-> pos, to |-> pos + 1]
    <2>1. item \in ItemType
        BY <1>0, <1>1 DEF NextEol, ItemType
    <2>2. WellFramed(item)
        BY <1>1 DEF NextEol, WellFramed, IsSingleByte, HasMore, Kind
    <2> QED
        BY <1>1, <2>1, <2>2, AppendKeepsTiling DEF NextEol, Yield
<1>2. CASE NextNop
    <2> DEFINE item == [kind |-> Kind, value |-> <<>>, from |-> pos, to |-> pos + 1]
    <2>1. item \in ItemType
        BY <1>0, <1>2 DEF NextNop, ItemType
    <2>2. WellFramed(item) /\ item.kind # EOL
        BY <1>2 DEF NextNop, WellFramed, IsSingleByte, HasMore, Kind, NOP, EOL
    <2>3. ~done'
        BY <1>2 DEF NextNop, HasMore
    <2> QED
        BY <1>2, <2>1, <2>2, <2>3, AppendKeepsTiling DEF NextNop, Yield
<1>3. CASE NextOption
    <2> DEFINE f == Framing(bytes, pos)
               item == [kind |-> Kind, value |-> ValueOf(bytes, f), from |-> pos,
                        to |-> pos + f.total]
    <2>1. /\ f.start = pos /\ f.header \in {2, 4} /\ f.total \in Nat /\ f.total >= 2
          /\ pos + f.total <= Len(bytes)
          /\ bytes[pos + 2] = ExtendedLengthMarker <=> f.header = 4
          /\ f.total = IF f.header = 4 THEN ReadU16(bytes, pos + 2) ELSE bytes[pos + 2]
        BY <1>3, FramingInside DEF NextOption, HasMore
    <2>2. ValueOf(bytes, f) = SubSeq(bytes, pos + f.header + 1, pos + f.total)
        BY <2>1 DEF ValueOf
    <2> HIDE DEF f
    <2>3. item \in ItemType
        <3>1. SubSeq(bytes, pos + f.header + 1, pos + f.total) \in Seq(Byte)
            <4>1. PICK a \in Nat \ {0}, b \in Nat :
                      a = pos + f.header + 1 /\ b = pos + f.total /\ b <= Len(bytes)
                BY <2>1
            <4> QED
                BY <4>1, SubSeqOfBytes
        <3>2. Kind \in Byte
            BY <1>0, <1>3 DEF NextOption
        <3>3. pos \in Nat /\ pos + f.total \in Nat
            BY <2>1
        <3> QED
            BY <2>2, <3>1, <3>2, <3>3, Zenon DEF ItemType
    <2>4. WellFramed(item) /\ item.kind # EOL
        <3>1. item.kind # EOL /\ ~IsSingleByte(item.kind) /\ item.kind = bytes[item.from + 1]
            BY <1>3 DEF NextOption, IsSingleByte, Kind
        <3>2. item.from < item.to /\ item.to <= Len(bytes) /\ item.to - item.from = f.total
            BY <2>1
        <3>3. item.value = SubSeq(bytes, item.from + f.header + 1, item.to)
            BY <2>2, Zenon
        <3> QED
            BY <2>1, <3>1, <3>2, <3>3, Zenon DEF WellFramed
    <2>5. ~done'
        BY <1>3 DEF NextOption, HasMore
    <2>6. pos' = pos + f.total /\ items' = Append(items, item) /\ bytes' = bytes
        BY <1>3 DEF NextOption, Yield, f
    <2>7. item.from = pos /\ item.to = pos'
        BY <2>6
    <2>8. HasMore /\ done' \in BOOLEAN /\ pos' \in Nat
        BY <1>3, <2>1, <2>6 DEF NextOption, HasMore
    <2>9. item.kind = EOL <=> done'
        BY <2>4, <2>5
    <2> HIDE DEF item, IterInv, IterTypeInv
    <2> QED
        BY <2>3, <2>4, <2>6, <2>7, <2>8, <2>9, AppendKeepsTiling
<1>4. CASE NextFails
    BY <1>4 DEF NextFails, ItemsTile, EndOf, WellFramed, HasMore
<1>5. CASE UNCHANGED iterVars
    BY <1>5 DEF iterVars, ItemsTile, EndOf, WellFramed
<1> QED
    BY <1>1, <1>2, <1>3, <1>4, <1>5 DEF NextItem

\* The inductive invariant of the iterator (OptionsIter of src/options/parse.rs).
THEOREM IterInvariance == ParseSpec => []IterInv
<1>1. ParseInit => IterInv
    <2> SUFFICES ASSUME ParseInit PROVE IterInv
        OBVIOUS
    <2>1. IterTypeInv
        <3>1. PICK bs \in Inputs : IterInit(bs)
            BY DEF ParseInit
        <3>2. bs \in Seq(Byte)
            BY InputsAssumption
        <3>3. <<>> \in Seq(ItemType)
            OBVIOUS
        <3> QED
            BY <3>1, <3>2, <3>3, Zenon DEF IterInit, IterTypeInv
    <2>2. items = <<>> /\ Len(items) = 0 /\ pos = 0 /\ done = FALSE
        BY DEF ParseInit, IterInit
    <2>3. Len(bytes) \in Nat
        BY <2>1 DEF IterTypeInv
    <2>4. ItemsTile
        BY <2>2, <2>3 DEF ItemsTile, EndOf
    <2> QED
        BY <2>1, <2>4 DEF IterInv
<1>2. IterInv /\ [NextItem]_iterVars => IterInv'
    BY IterStep, Zenon
<1> QED
    BY <1>1, <1>2, PTL DEF ParseSpec

\* For every byte sequence, the options the iterator yields tile what it has consumed and are
\* framed by their own bytes; it never reads behind the end.
THEOREM ParserTiles == ParseSpec => []ItemsTile
<1>1. IterInv => ItemsTile
    BY DEF IterInv
<1> QED
    BY <1>1, IterInvariance, PTL

-----------------------------------------------------------------------------
(* The option serializer *)

\* What the lemmas below use of the natural numbers and of the number of elements of a set.  These
\* are shown at the end of the module (LawsHold), behind the library theorems they follow from.
CountingLaws ==
    /\ \A T \in SUBSET Nat : T # {} => \E m \in T : \A n \in T : m <= n
    /\ \A n \in Nat : \A S \in SUBSET (1 .. n) :
           /\ Cardinality(S) \in 0 .. n /\ (Cardinality(S) = 0 => S = {})
           /\ \A T \in SUBSET S : /\ Cardinality(T) <= Cardinality(S)
                                  /\ Cardinality(T) = Cardinality(S) => T = S
    /\ \A n \in Nat : Injection(1 .. n, 1 .. n) \subseteq Surjection(1 .. n, 1 .. n)

\* A non-empty set of naturals has a least element.
LEMMA LeastNat ==
    ASSUME CountingLaws, NEW T \in SUBSET Nat, T # {}
    PROVE  \E m \in T : \A n \in T : m <= n
BY Zenon DEF CountingLaws

\* What holds of 0 and passes from i - 1 to i holds up to n: the induction the lemmas below use.
LEMMA UpTo ==
    ASSUME CountingLaws, NEW n \in Nat, NEW T \in SUBSET Nat, 0 \in T, \A i \in 1 .. n : i - 1 \in T => i \in T
    PROVE  \A i \in 0 .. n : i \in T
<1> DEFINE U == (0 .. n) \ T
<1> SUFFICES ASSUME U # {} PROVE FALSE
    BY Zenon
<1>1. U \in SUBSET Nat
    BY SMT
<1>2. PICK m \in U : \A k \in U : m <= k
    <2> HIDE DEF U
    <2> QED
        BY <1>1, LeastNat, Zenon
<1>3. m \in 1 .. n /\ m - 1 \in 0 .. n /\ ~(m <= m - 1)
    BY SMT
<1>4. m - 1 \in T
    BY <1>2, <1>3, SMT
<1> QED
    BY <1>3, <1>4, SMT

\* The values of a recursion on 0 .. n.
Recurs(f, n, S, base, step) ==
    /\ f \in [0 .. n -> S] /\ f[0] = base
    /\ \A i \in 1 .. n : f[i] = step[i][f[i - 1]]

\* A recursion on 0 .. n has a solution.
LEMMA Recursion ==
    ASSUME CountingLaws, NEW n \in Nat, NEW S, NEW base \in S, NEW step \in [1 .. n -> [S -> S]]
    PROVE  \E f : Recurs(f, n, S, base, step)
<1> DEFINE Solves(f, m) == Recurs(f, m, S, base, step)
           T == {m \in Nat : m <= n => \E f : Solves(f, m)}
<1>1. 0 \in T
    <2>1. Solves([i \in 0 .. 0 |-> base], 0)
        BY SMT DEF Recurs
    <2> QED
        BY <2>1, Zenon
<1>2. ASSUME NEW m \in 1 .. n, m - 1 \in T PROVE m \in T
    <2>1. PICK f : Solves(f, m - 1)
        BY <1>2, SMT
    <2> DEFINE g == [i \in 0 .. m |-> IF i = m THEN step[m][f[m - 1]] ELSE f[i]]
    <2>2. f[m - 1] \in S /\ step[m] \in [S -> S]
        BY <2>1, SMT DEF Recurs
    <2>3. step[m][f[m - 1]] \in S
        BY <2>2, SMT
    <2>4. g \in [0 .. m -> S] /\ g[0] = base
        BY <2>1, <2>3, SMT DEF Recurs
    <2>5. ASSUME NEW i \in 1 .. m PROVE g[i] = step[i][g[i - 1]]
        <3>1. i - 1 \in 0 .. m - 1 /\ i - 1 \in 0 .. m /\ i - 1 # m /\ i \in 0 .. m
            BY SMT
        <3>2. g[i - 1] = f[i - 1]
            BY <3>1, SMT
        <3>3. CASE i = m
            BY <3>1, <3>2, <3>3, SMT
        <3>4. CASE i # m
            <4>1. i \in 1 .. m - 1 /\ g[i] = f[i]
                BY <3>1, <3>4, SMT
            <4> QED
                BY <2>1, <3>2, <4>1, Zenon DEF Recurs
        <3> QED
            BY <3>3, <3>4, Zenon
    <2>6. Solves(g, m)
        BY <2>4, <2>5, Zenon DEF Recurs
    <2>7. m \in Nat
        BY SMT
    <2> QED
        BY <2>6, <2>7, Zenon
<1>3. T \in SUBSET Nat
    BY SMT
<1> HIDE DEF T
<1>4. n \in T
    <2>1. \A i \in 0 .. n : i \in T
        BY <1>1, <1>2, <1>3, UpTo, Zenon
    <2> QED
        BY <2>1, SMT
<1> QED
    BY <1>4, SMT DEF T

-----------------------------------------------------------------------------
\* An option finish() can encode: it has a Length, and 16 bits are enough for it.
Encodable == {o \in RawOptionType : /\ ~IsSingleByte(o.kind)
                                    /\ Len(o.value) <= ExtendedValueLenMax}

\* The option o lies at offset a of the bytes bs, as encode_option writes it.
EncodedAt(bs, a, o) ==
    /\ a + EncodedLen(Len(o.value)) <= Len(bs)
    /\ bs[a + 1] = o.kind
    /\ IF Len(o.value) <= DefaultValueLenMax
       THEN /\ bs[a + 2] = Len(o.value) + 2
            /\ \A i \in 1 .. Len(o.value) : bs[a + 2 + i] = o.value[i]
       ELSE /\ bs[a + 2] = ExtendedLengthMarker
            /\ bs[a + 3] = (Len(o.value) + 4) \div 256 /\ bs[a + 4] = (Len(o.value) + 4) % 256
            /\ \A i \in 1 .. Len(o.value) : bs[a + 4 + i] = o.value[i]

\* What an encodable option is made of.
LEMMA EncodableFacts ==
    ASSUME NEW o \in Encodable
    PROVE  /\ o \in RawOptionType /\ o.kind \in Byte /\ o.value \in Seq(Byte)
           /\ Len(o.value) \in Nat /\ Len(o.value) <= ExtendedValueLenMax /\ ~IsSingleByte(o.kind)
           /\ EncodedLen(Len(o.value)) \in Nat
<1>1. o \in RawOptionType /\ ~IsSingleByte(o.kind) /\ Len(o.value) <= ExtendedValueLenMax
    BY Zenon DEF Encodable
<1>2. o.kind \in Byte /\ o.value \in Seq(Byte)
    BY <1>1, SMT DEF RawOptionType
<1>3. Len(o.value) \in Nat
    BY <1>2, SMT
<1>4. EncodedLen(Len(o.value)) \in Nat
    BY <1>3, SMT DEF EncodedLen
<1> QED
    BY <1>1, <1>2, <1>3, <1>4, Zenon

\* Two bytes, what follows a header, and two times two bytes.
LEMMA Pair ==
    ASSUME NEW a \in Byte, NEW b \in Byte
    PROVE  <<a, b>> \in Seq(Byte) /\ Len(<<a, b>>) = 2 /\ <<a, b>>[1] = a /\ <<a, b>>[2] = b
BY SMT

LEMMA Behind ==
    ASSUME NEW h \in Seq(Byte), NEW v \in Seq(Byte)
    PROVE  /\ h \o v \in Seq(Byte) /\ Len(h \o v) = Len(h) + Len(v)
           /\ Len(h) \in Nat /\ Len(v) \in Nat
           /\ \A i \in 1 .. Len(h) : (h \o v)[i] = h[i]
           /\ \A i \in 1 .. Len(v) : (h \o v)[Len(h) + i] = v[i]
BY SMT

LEMMA BehindTwo ==
    ASSUME NEW h \in Seq(Byte), NEW v \in Seq(Byte), Len(h) = 2
    PROVE  /\ h \o v \in Seq(Byte) /\ Len(h \o v) = Len(v) + 2
           /\ (h \o v)[1] = h[1] /\ (h \o v)[2] = h[2]
           /\ \A i \in 1 .. Len(v) : (h \o v)[2 + i] = v[i]
<1>1. PICK e : e = h \o v
    BY Zenon
<1>2. /\ e \in Seq(Byte) /\ Len(e) = Len(h) + Len(v) /\ Len(v) \in Nat
      /\ \A i \in 1 .. Len(h) : e[i] = h[i]
      /\ \A i \in 1 .. Len(v) : e[Len(h) + i] = v[i]
    BY <1>1, Behind, Zenon
<1>3. /\ Len(e) = Len(v) + 2 /\ e[1] = h[1] /\ e[2] = h[2]
      /\ \A i \in 1 .. Len(v) : e[2 + i] = v[i]
    BY ONLY <1>2, Len(h) = 2, SMT
<1> QED
    BY <1>1, <1>2, <1>3, Zenon

LEMMA BehindFour ==
    ASSUME NEW h \in Seq(Byte), NEW v \in Seq(Byte), Len(h) = 4
    PROVE  /\ h \o v \in Seq(Byte) /\ Len(h \o v) = Len(v) + 4
           /\ (h \o v)[1] = h[1] /\ (h \o v)[2] = h[2] /\ (h \o v)[3] = h[3] /\ (h \o v)[4] = h[4]
           /\ \A i \in 1 .. Len(v) : (h \o v)[4 + i] = v[i]
<1>1. PICK e : e = h \o v
    BY Zenon
<1>2. /\ e \in Seq(Byte) /\ Len(e) = Len(h) + Len(v) /\ Len(v) \in Nat
      /\ \A i \in 1 .. Len(h) : e[i] = h[i]
      /\ \A i \in 1 .. Len(v) : e[Len(h) + i] = v[i]
    BY <1>1, Behind, Zenon
<1>3. /\ Len(e) = Len(v) + 4 /\ e[1] = h[1] /\ e[2] = h[2] /\ e[3] = h[3] /\ e[4] = h[4]
      /\ \A i \in 1 .. Len(v) : e[4 + i] = v[i]
    BY ONLY <1>2, Len(h) = 4, SMT
<1> QED
    BY <1>1, <1>2, <1>3, Zenon

LEMMA TwoPairs ==
    ASSUME NEW a \in Byte, NEW b \in Byte, NEW c \in Byte, NEW d \in Byte
    PROVE  LET h == <<a, b>> \o <<c, d>>
           IN  h \in Seq(Byte) /\ Len(h) = 4 /\ h[1] = a /\ h[2] = b /\ h[3] = c /\ h[4] = d
<1>0. PICK h : h = <<a, b>> \o <<c, d>>
    BY Zenon
<1>1. PICK p : p = <<a, b>>
    BY Zenon
<1>2. PICK q : q = <<c, d>>
    BY Zenon
<1>3. p \in Seq(Byte) /\ Len(p) = 2 /\ p[1] = a /\ p[2] = b
    BY <1>1, Pair, Zenon
<1>4. q \in Seq(Byte) /\ Len(q) = 2 /\ q[1] = c /\ q[2] = d
    BY <1>2, Pair, Zenon
<1>5. /\ h \in Seq(Byte) /\ Len(h) = Len(q) + 2 /\ h[1] = p[1] /\ h[2] = p[2]
      /\ \A i \in 1 .. Len(q) : h[2 + i] = q[i]
    BY <1>0, <1>1, <1>2, <1>3, <1>4, BehindTwo, ZenonT(30)
<1>6. Len(h) = 4 /\ h[3] = q[1] /\ h[4] = q[2]
    BY ONLY <1>4, <1>5, SMT
<1> QED
    BY <1>0, <1>3, <1>4, <1>5, <1>6, Zenon

\* A 16-bit number in two bytes, and back.
LEMMA U16Is == \A x : x \in U16 <=> x \in Nat /\ x <= U16Max
<1>1. U16Max \in Nat
    BY SMT DEF U16Max
<1> QED
    BY <1>1, SMT DEF U16

LEMMA U16InBytes ==
    ASSUME NEW x \in U16
    PROVE  /\ x \div 256 \in Byte /\ x % 256 \in Byte
           /\ Word(x \div 256, x % 256) = x
<1>1. x \in Nat /\ x <= 65535
    BY U16Is, SMT DEF U16Max
<1>2. x \div 256 \in Nat /\ x % 256 \in Nat /\ x % 256 <= 255 /\ x = 256 * (x \div 256) + (x % 256)
    BY <1>1, SMT
<1>3. \A q, r \in Nat : x = 256 * q + r => q <= 255 /\ q * 256 + r = x
    BY <1>1, SMT
<1>4. x \div 256 <= 255 /\ (x \div 256) * 256 + (x % 256) = x
    BY <1>2, <1>3, SMT
<1>5. x \div 256 \in Byte /\ x % 256 \in Byte
    <2>1. \A b \in Nat : b <= 255 => b \in Byte
        BY SMT DEF Byte
    <2>2. x \div 256 \in Nat /\ x \div 256 <= 255 /\ x % 256 \in Nat /\ x % 256 <= 255
        BY <1>2, <1>4, SMT
    <2> QED
        BY <2>1, <2>2, SMT
<1> QED
    BY <1>4, <1>5, SMT DEF Word

\* encode_option writes the option, in the length encoded_len has said.
LEMMA EncodeOptionWrites ==
    ASSUME NEW o \in Encodable
    PROVE  /\ EncodeOption(o) \in Seq(Byte)
           /\ Len(EncodeOption(o)) = EncodedLen(Len(o.value))
           /\ EncodedAt(EncodeOption(o), 0, o)
<1>1. PICK v : v = o.value
    BY Zenon
<1>2. PICK n : n = Len(v)
    BY Zenon
<1>3. PICK kind : kind = o.kind
    BY Zenon
<1>4. kind \in Byte /\ v \in Seq(Byte)
    BY <1>1, <1>3, EncodableFacts, Zenon
<1>5. n \in Nat /\ n <= ExtendedValueLenMax
    BY <1>1, <1>2, EncodableFacts, Zenon
<1>6. CASE n <= DefaultValueLenMax
    <2>1. PICK h : h = <<kind, n + 2>>
        BY Zenon
    <2>2. n + 2 \in Byte
        BY <1>5, <1>6, SMT DEF DefaultValueLenMax, Byte
    <2>3. h \in Seq(Byte) /\ Len(h) = 2 /\ h[1] = kind /\ h[2] = n + 2
        BY <1>4, <2>1, <2>2, Pair, Zenon
    <2>5. EncodeOption(o) = h \o v
        BY <1>1, <1>2, <1>3, <1>6, <2>1, Zenon DEF EncodeOption
    <2>6. EncodedLen(n) = n + 2
        BY <1>6, Zenon DEF EncodedLen
    <2>7. PICK e : e = h \o v
        BY Zenon
    <2>8. /\ e \in Seq(Byte) /\ Len(e) = n + 2 /\ e[1] = kind /\ e[2] = n + 2
          /\ \A i \in 1 .. n : e[2 + i] = v[i]
        BY <1>2, <1>4, <2>3, <2>7, BehindTwo, Zenon
    <2>9. EncodedAt(e, 0, o)
        <3>1. /\ 0 + (n + 2) = n + 2 /\ n + 2 <= n + 2 /\ 0 + 1 = 1 /\ 0 + 2 = 2
            BY <1>5, SMT
        <3> QED
            BY <1>1, <1>2, <1>3, <1>6, <2>6, <2>8, <3>1, Zenon DEF EncodedAt
    <2> QED
        BY <1>1, <1>2, <2>5, <2>6, <2>7, <2>8, <2>9, Zenon
<1>7. CASE ~(n <= DefaultValueLenMax)
    <2>1. PICK hi, lo : hi = (n + 4) \div 256 /\ lo = (n + 4) % 256
        BY Zenon
    <2>2. PICK h : h = <<kind, ExtendedLengthMarker>> \o <<hi, lo>>
        BY Zenon
    <2>3. hi \in Byte /\ lo \in Byte /\ ExtendedLengthMarker \in Byte
        <3>1. n + 4 \in U16
            BY <1>5, U16Is, SMT DEF ExtendedValueLenMax, U16Max
        <3>2. ExtendedLengthMarker \in Byte
            BY SMT DEF Byte, ExtendedLengthMarker
        <3> QED
            BY <2>1, <3>1, <3>2, U16InBytes, Zenon
    <2>4. /\ h \in Seq(Byte) /\ Len(h) = 4
          /\ h[1] = kind /\ h[2] = ExtendedLengthMarker /\ h[3] = hi /\ h[4] = lo
        <3>1. /\ (<<kind, ExtendedLengthMarker>> \o <<hi, lo>>) \in Seq(Byte)
              /\ Len(<<kind, ExtendedLengthMarker>> \o <<hi, lo>>) = 4
              /\ (<<kind, ExtendedLengthMarker>> \o <<hi, lo>>)[1] = kind
              /\ (<<kind, ExtendedLengthMarker>> \o <<hi, lo>>)[2] = ExtendedLengthMarker
              /\ (<<kind, ExtendedLengthMarker>> \o <<hi, lo>>)[3] = hi
              /\ (<<kind, ExtendedLengthMarker>> \o <<hi, lo>>)[4] = lo
            BY ONLY <1>4, <2>3, TwoPairs, SMT
        <3> QED
            BY <2>2, <3>1, Zenon
    <2>6. EncodeOption(o) = h \o v
        BY <1>1, <1>2, <1>3, <1>7, <2>1, <2>2, Zenon DEF EncodeOption, U16Bytes
    <2>7. EncodedLen(n) = n + 4
        BY <1>7, Zenon DEF EncodedLen
    <2>8. PICK e : e = h \o v
        BY Zenon
    <2>9. /\ e \in Seq(Byte) /\ Len(e) = n + 4
          /\ e[1] = kind /\ e[2] = ExtendedLengthMarker /\ e[3] = hi /\ e[4] = lo
          /\ \A i \in 1 .. n : e[4 + i] = v[i]
        BY <1>2, <1>4, <2>4, <2>8, BehindFour, Zenon
    <2>10. EncodedAt(e, 0, o)
        <3>1. /\ 0 + (n + 4) = n + 4 /\ n + 4 <= n + 4
              /\ 0 + 1 = 1 /\ 0 + 2 = 2 /\ 0 + 3 = 3 /\ 0 + 4 = 4
            BY <1>5, SMT
        <3> QED
            BY <1>1, <1>2, <1>3, <1>7, <2>1, <2>7, <2>9, <3>1, Zenon DEF EncodedAt
    <2> QED
        BY <1>1, <1>2, <2>6, <2>7, <2>8, <2>9, <2>10, Zenon
<1> QED
    BY <1>6, <1>7, Zenon

\* The sequence b begins with a.
Extends(a, b) == Len(a) <= Len(b) /\ \A x \in 1 .. Len(a) : b[x] = a[x]

LEMMA ExtendsTransitive ==
    ASSUME NEW a \in Seq(Byte), NEW b \in Seq(Byte), NEW c \in Seq(Byte),
           Extends(a, b), Extends(b, c)
    PROVE  Extends(a, c)
BY SMT DEF Extends

\* The NOP or the fill byte that an odd length gets.
LEMMA PaddedEven ==
    ASSUME NEW s \in Seq(Byte), NEW f \in Byte
    PROVE  /\ Padded(s, f) \in Seq(Byte)
           /\ Len(Padded(s, f)) = RoundUpEven(Len(s))
           /\ Extends(s, Padded(s, f))
           /\ Len(s) % 2 = 1 => Padded(s, f)[Len(s) + 1] = f
<1>1. Len(s) \in Nat /\ Len(s) % 2 \in {0, 1}
    BY SMT
<1>2. CASE Len(s) % 2 = 1
    <2>1. Padded(s, f) = Append(s, f)
        BY <1>2, Zenon DEF Padded
    <2> QED
        BY <1>1, <1>2, <2>1, SMT DEF Extends, RoundUpEven
<1>3. CASE Len(s) % 2 = 0
    <2>1. Padded(s, f) = s
        BY <1>3, SMT DEF Padded
    <2> QED
        BY <1>1, <1>3, <2>1, SMT DEF Extends, RoundUpEven
<1> QED
    BY <1>1, <1>2, <1>3, SMT

\* The recursions of serialized_body_len and of the encoding loop.
LEMMA MeasuredUnfold ==
    ASSUME CountingLaws, NEW opts \in Seq(Encodable)
    PROVE  LET m == MeasuredLen(opts)
           IN  /\ m[0] = 2
               /\ \A k \in 1 .. Len(opts) :
                      m[k] = RoundUpEven(m[k - 1]) + EncodedLen(Len(opts[k].value))
               /\ \A k \in 0 .. Len(opts) : m[k] \in Nat
<1> DEFINE n == Len(opts)
           e(k) == EncodedLen(Len(opts[k].value))
           step == [k \in 1 .. n |-> [s \in Nat |-> RoundUpEven(s) + e(k)]]
           Solves(g) == g = [k \in 0 .. n |-> IF k = 0 THEN OcsLen ELSE RoundUpEven(g[k - 1]) + e(k)]
<1>1. n \in Nat
    BY SMT
<1>2. \A k \in 1 .. n : e(k) \in Nat
    <2>1. \A k \in 1 .. n : opts[k] \in Encodable
        BY SMT
    <2> QED
        BY <2>1, EncodableFacts, Zenon
<1> HIDE DEF e
<1>3. step \in [1 .. n -> [Nat -> Nat]]
    <2>1. \A s, v \in Nat : RoundUpEven(s) + v \in Nat
        BY SMT DEF RoundUpEven
    <2>2. \A k \in 1 .. n : [s \in Nat |-> RoundUpEven(s) + e(k)] \in [Nat -> Nat]
        BY <1>2, <2>1, Zenon
    <2> QED
        BY <2>2, Zenon
<1>4. PICK f : Recurs(f, n, Nat, OcsLen, step)
    <2> HIDE DEF step, n
    <2>1. OcsLen \in Nat
        BY SMT DEF OcsLen
    <2> QED
        BY <1>1, <1>3, <2>1, Recursion, Zenon
<1>5. Solves(f)
    <2>1. ASSUME NEW k \in 1 .. n PROVE f[k] = RoundUpEven(f[k - 1]) + e(k)
        <3>1. f[k - 1] \in Nat
            BY <1>1, <1>4, SMT DEF Recurs
        <3>2. \A s \in Nat : step[k][s] = RoundUpEven(s) + e(k)
            BY Zenon
        <3>3. f[k] = step[k][f[k - 1]]
            BY <1>4, Zenon DEF Recurs
        <3> QED
            BY <3>1, <3>2, <3>3, Zenon
    <2> QED
        BY <1>1, <1>4, <2>1, SMT DEF Recurs
<1>6. Solves(MeasuredLen(opts))
    <2>1. MeasuredLen(opts) = CHOOSE g : Solves(g)
        BY Zenon DEF MeasuredLen, e
    <2> QED
        BY <1>5, <2>1, Zenon
<1> HIDE DEF n
<1> DEFINE m == MeasuredLen(opts)
<1>7. m[0] = 2 /\ \A k \in 1 .. n : m[k] = RoundUpEven(m[k - 1]) + e(k)
    BY <1>1, <1>6, SMT DEF OcsLen
<1>8. \A k \in 0 .. n : m[k] \in Nat
    <2> DEFINE T == {k \in Nat : k <= n => m[k] \in Nat}
    <2>1. T \in SUBSET Nat /\ 0 \in T
        BY <1>7, SMT
    <2>2. \A k \in 1 .. n : k - 1 \in T => k \in T
        BY <1>1, <1>2, <1>7, SMT DEF RoundUpEven
    <2>3. \A k \in 0 .. n : k \in T
        <3> HIDE DEF T
        <3> QED
            BY <1>1, <2>1, <2>2, UpTo, Zenon
    <2> QED
        BY <1>1, <2>3, SMT
<1> QED
    BY <1>7, <1>8, Zenon DEF n, e

LEMMA WrittenUnfold ==
    ASSUME CountingLaws, NEW opts \in Seq(Encodable)
    PROVE  LET w == Written(opts)
           IN  /\ w[0] = <<0, 0>>
               /\ \A k \in 1 .. Len(opts) :
                      w[k] = Padded(w[k - 1], NOP) \o EncodeOption(opts[k])
               /\ \A k \in 0 .. Len(opts) : w[k] \in Seq(Byte)
<1> DEFINE n == Len(opts)
           S == Seq(Byte)
           e(k) == EncodeOption(opts[k])
           step == [k \in 1 .. n |-> [s \in S |-> Padded(s, NOP) \o e(k)]]
           Solves(g) == g = [k \in 0 .. n |-> IF k = 0 THEN <<0, 0>> ELSE Padded(g[k - 1], NOP) \o e(k)]
<1>1. n \in Nat /\ <<0, 0>> \in S
    BY SMT DEF Byte
<1>2. \A k \in 1 .. n : e(k) \in S
    <2>1. \A k \in 1 .. n : opts[k] \in Encodable
        BY SMT
    <2> QED
        BY <2>1, EncodeOptionWrites, Zenon
<1> HIDE DEF e
<1>3. \A s, v \in S : Padded(s, NOP) \o v \in S
    <2>1. NOP \in Byte
        BY SMT DEF NOP, Byte
    <2>2. \A s \in S : Padded(s, NOP) \in S
        BY <2>1, PaddedEven, Zenon
    <2> QED
        BY <2>2, SMT
<1>4. step \in [1 .. n -> [S -> S]]
    <2>1. \A k \in 1 .. n : [s \in S |-> Padded(s, NOP) \o e(k)] \in [S -> S]
        BY <1>2, <1>3, Zenon
    <2> QED
        BY <2>1, Zenon
<1>5. PICK f : Recurs(f, n, S, <<0, 0>>, step)
    <2> HIDE DEF step, n, S
    <2> QED
        BY <1>1, <1>4, Recursion, Zenon
<1>6. Solves(f)
    <2>1. ASSUME NEW k \in 1 .. n PROVE f[k] = Padded(f[k - 1], NOP) \o e(k)
        <3>1. f[k - 1] \in S
            <4>1. k - 1 \in 0 .. n
                BY <1>1, SMT
            <4> QED
                BY <1>5, <4>1, Zenon DEF Recurs
        <3>2. \A s \in S : step[k][s] = Padded(s, NOP) \o e(k)
            BY Zenon
        <3>3. f[k] = step[k][f[k - 1]]
            BY <1>5, Zenon DEF Recurs
        <3> QED
            BY <3>1, <3>2, <3>3, Zenon
    <2>2. f[0] = <<0, 0>> /\ DOMAIN f = 0 .. n /\ f = [k \in 0 .. n |-> f[k]]
        BY <1>5, Zenon DEF Recurs
    <2> DEFINE c(k) == Padded(f[k - 1], NOP) \o e(k)
               b == <<0, 0>>
    <2> HIDE DEF S, c, b
    <2>3. \A k \in 0 .. n : f[k] = IF k = 0 THEN b ELSE c(k)
        <3>1. \A k \in 0 .. n : k = 0 \/ (k # 0 /\ k \in 1 .. n)
            BY <1>1, SMT
        <3> QED
            BY <2>1, <2>2, <3>1, Zenon DEF c, b
    <2>4. f = [k \in 0 .. n |-> IF k = 0 THEN b ELSE c(k)]
        BY <2>2, <2>3, Zenon
    <2> QED
        BY <2>4, Zenon DEF c, b
<1>7. Solves(Written(opts))
    <2>1. Written(opts) = CHOOSE g : Solves(g)
        BY Zenon DEF Written, e
    <2> QED
        BY <1>6, <2>1, Zenon
<1> DEFINE w == Written(opts)
<1>8. w[0] = <<0, 0>> /\ \A k \in 1 .. n : w[k] = Padded(w[k - 1], NOP) \o e(k)
    <2> DEFINE c(k) == Padded(w[k - 1], NOP) \o e(k)
               b == <<0, 0>>
    <2>1. w = [k \in 0 .. n |-> IF k = 0 THEN b ELSE c(k)]
        BY <1>7, Zenon
    <2> HIDE DEF w, c, b, n
    <2>2. w[0] = b /\ \A k \in 1 .. n : w[k] = c(k)
        BY <1>1, <2>1, SMT
    <2> QED
        BY <2>2, Zenon DEF c, b
<1>9. \A k \in 0 .. n : w[k] \in S
    <2> HIDE DEF w, n, S
    <2> DEFINE T == {k \in Nat : k <= n => w[k] \in S}
    <2>1. T \in SUBSET Nat /\ 0 \in T
        <3>1. 0 \in Nat
            BY SMT
        <3> QED
            BY <1>1, <1>8, <3>1, Zenon
    <2>2. ASSUME NEW k \in 1 .. n, k - 1 \in T PROVE k \in T
        <3>1. k \in Nat /\ k - 1 <= n
            BY <1>1, SMT
        <3>2. w[k - 1] \in S
            BY <2>2, <3>1, Zenon
        <3> QED
            BY <1>2, <1>3, <1>8, <3>1, <3>2, Zenon
    <2>3. \A k \in 0 .. n : k \in T
        <3> HIDE DEF T
        <3> QED
            BY <1>1, <2>1, <2>2, UpTo, Zenon
    <2> QED
        BY <1>1, <2>3, SMT
<1> QED
    BY <1>8, <1>9, Zenon DEF n, e, S

\* Rounding up to the next even number.
LEMMA RoundUp ==
    ASSUME NEW x \in Nat
    PROVE  /\ RoundUpEven(x) \in Nat /\ x <= RoundUpEven(x) /\ RoundUpEven(x) <= x + 1
           /\ RoundUpEven(x) % 2 = 0
           /\ x % 2 \in {0, 1}
           /\ x % 2 = 0 => RoundUpEven(x) = x
           /\ x % 2 = 1 => RoundUpEven(x) = x + 1
           /\ x >= 2 => x - 2 \in Nat /\ (x - 2) % 2 = x % 2 /\ RoundUpEven(x - 2) = RoundUpEven(x) - 2
<1>1. x % 2 \in {0, 1}
    BY SMT
<1>2. CASE x % 2 = 0
    BY <1>2, SMT DEF RoundUpEven
<1>3. CASE x % 2 = 1
    BY <1>3, SMT DEF RoundUpEven
<1> QED
    BY <1>1, <1>2, <1>3, SMT

\* The encoding loop has written what serialized_body_len has measured, and only ever appends.
LEMMA WrittenStep ==
    ASSUME CountingLaws, NEW opts \in Seq(Encodable), NEW k \in 1 .. Len(opts)
    PROVE  LET p == Padded(Written(opts)[k - 1], NOP)
               e == EncodeOption(opts[k])
           IN  /\ opts[k] \in Encodable
               /\ p \in Seq(Byte) /\ Len(p) = RoundUpEven(Len(Written(opts)[k - 1]))
               /\ e \in Seq(Byte) /\ Len(e) = EncodedLen(Len(opts[k].value))
               /\ Written(opts)[k] = p \o e
               /\ Extends(Written(opts)[k - 1], p)
               /\ Extends(p, Written(opts)[k])
               /\ Len(Written(opts)[k - 1]) % 2 = 1 => p[Len(Written(opts)[k - 1]) + 1] = NOP
<1>1. PICK w : w = Written(opts)[k - 1]
    BY Zenon
<1>2. PICK p : p = Padded(w, NOP)
    BY Zenon
<1>3. PICK e : e = EncodeOption(opts[k])
    BY Zenon
<1>4. opts[k] \in Encodable /\ k - 1 \in 0 .. Len(opts) /\ NOP \in Byte
    BY SMT DEF NOP, Byte
<1>5. w \in Seq(Byte) /\ Written(opts)[k] = p \o e
    BY <1>1, <1>2, <1>3, <1>4, WrittenUnfold, Zenon
<1>6. /\ p \in Seq(Byte) /\ Len(p) = RoundUpEven(Len(w)) /\ Extends(w, p)
      /\ Len(w) % 2 = 1 => p[Len(w) + 1] = NOP
    BY <1>2, <1>4, <1>5, PaddedEven, Zenon
<1>7. e \in Seq(Byte) /\ Len(e) = EncodedLen(Len(opts[k].value))
    BY <1>3, <1>4, EncodeOptionWrites, Zenon
<1>8. Extends(p, p \o e)
    BY <1>6, <1>7, Behind, SMT DEF Extends
<1> QED
    BY <1>1, <1>2, <1>3, <1>4, <1>5, <1>6, <1>7, <1>8, Zenon

LEMMA WrittenAsMeasured ==
    ASSUME CountingLaws, NEW opts \in Seq(Encodable)
    PROVE  \A k \in 0 .. Len(opts) : Len(Written(opts)[k]) = MeasuredLen(opts)[k]
<1>1. PICK w : w = Written(opts)
    BY Zenon
<1>2. PICK m : m = MeasuredLen(opts)
    BY Zenon
<1>3. PICK n : n = Len(opts)
    BY Zenon
<1>4. n \in Nat
    BY <1>3, SMT
<1> DEFINE T == {k \in Nat : k <= n => Len(w[k]) = m[k]}
<1>5. 0 \in T
    <2>1. w[0] = <<0, 0>> /\ m[0] = 2
        BY <1>1, <1>2, WrittenUnfold, MeasuredUnfold, Zenon
    <2>2. 0 \in Nat /\ 0 \in Byte
        BY SMT DEF Byte
    <2>3. Len(<<0, 0>>) = 2
        BY <2>2, Pair, Zenon
    <2> QED
        BY <2>1, <2>2, <2>3, Zenon
<1>6. ASSUME NEW k \in 1 .. n, k - 1 \in T PROVE k \in T
    <2>1. Len(w[k - 1]) = m[k - 1]
        BY <1>4, <1>6, SMT
    <2>2. PICK p : p = Padded(w[k - 1], NOP)
        BY Zenon
    <2>3. PICK e : e = EncodeOption(opts[k])
        BY Zenon
    <2>4. /\ p \in Seq(Byte) /\ Len(p) = RoundUpEven(m[k - 1])
          /\ e \in Seq(Byte) /\ Len(e) = EncodedLen(Len(opts[k].value))
          /\ w[k] = p \o e
        BY <1>1, <1>3, <2>1, <2>2, <2>3, WrittenStep, Zenon
    <2>5. Len(w[k]) = Len(p) + Len(e)
        BY <2>4, Behind, Zenon
    <2>6. m[k] = RoundUpEven(m[k - 1]) + EncodedLen(Len(opts[k].value))
        BY <1>2, <1>3, MeasuredUnfold, Zenon
    <2>7. k \in Nat
        BY SMT
    <2> QED
        BY <2>4, <2>5, <2>6, <2>7, Zenon
<1>7. \A k \in 0 .. n : k \in T
    <2>1. T \in SUBSET Nat
        BY Zenon
    <2> HIDE DEF T
    <2> QED
        BY <1>4, <1>5, <1>6, <2>1, UpTo, Zenon
<1>8. \A k \in 0 .. n : Len(w[k]) = m[k]
    BY <1>4, <1>7, SMT
<1> QED
    BY <1>1, <1>2, <1>3, <1>8, Zenon

LEMMA WrittenGrows ==
    ASSUME CountingLaws, NEW opts \in Seq(Encodable), NEW j \in 0 .. Len(opts)
    PROVE  \A k \in j .. Len(opts) : Extends(Written(opts)[j], Written(opts)[k])
<1>1. PICK w : w = Written(opts)
    BY Zenon
<1>2. PICK n : n = Len(opts)
    BY Zenon
<1>3. n \in Nat /\ j \in Nat
    BY <1>2, SMT
<1>4. \A k \in 0 .. n : w[k] \in Seq(Byte)
    BY <1>1, <1>2, WrittenUnfold, Zenon
<1> DEFINE T == {k \in Nat : j <= k /\ k <= n => Extends(w[j], w[k])}
<1>5. Extends(w[j], w[j])
    <2>1. w[j] \in Seq(Byte)
        BY <1>2, <1>4, Zenon
    <2> QED
        BY <2>1, SMT DEF Extends
<1>6. 0 \in T
    BY <1>3, <1>5, SMT
<1>7. ASSUME NEW k \in 1 .. n, k - 1 \in T PROVE k \in T
    <2>1. CASE j <= k - 1
        <3>1. k - 1 <= n /\ k \in Nat /\ k \in 0 .. n /\ k - 1 \in 0 .. n
            BY <1>3, SMT
        <3>2. Extends(w[j], w[k - 1])
            BY <1>7, <2>1, <3>1, Zenon
        <3>3. PICK p : p = Padded(w[k - 1], NOP)
            BY Zenon
        <3>4. p \in Seq(Byte) /\ Extends(w[k - 1], p) /\ Extends(p, w[k])
            BY <1>1, <1>2, <3>3, WrittenStep, Zenon
        <3>5. w[j] \in Seq(Byte) /\ w[k - 1] \in Seq(Byte) /\ w[k] \in Seq(Byte)
            BY <1>2, <1>4, <3>1, Zenon
        <3>6. Extends(w[j], p)
            BY <3>2, <3>4, <3>5, ExtendsTransitive, Zenon
        <3>7. Extends(w[j], w[k])
            BY <3>4, <3>5, <3>6, ExtendsTransitive, Zenon
        <3> QED
            BY <3>1, <3>7, Zenon
    <2>2. CASE ~(j <= k - 1)
        <3>1. k \in Nat /\ (j <= k => j = k)
            BY <1>3, <2>2, SMT
        <3> QED
            BY <1>5, <3>1, Zenon
    <2> QED
        BY <2>1, <2>2, Zenon
<1>8. \A k \in 0 .. n : k \in T
    <2>1. T \in SUBSET Nat
        BY Zenon
    <2> HIDE DEF T
    <2> QED
        BY <1>3, <1>6, <1>7, <2>1, UpTo, Zenon
<1>9. ASSUME NEW k \in j .. n PROVE Extends(w[j], w[k])
    <2>1. k \in 0 .. n /\ j <= k /\ k <= n
        BY <1>3, SMT
    <2> QED
        BY <1>8, <2>1, Zenon
<1> QED
    BY <1>1, <1>2, <1>9, Zenon

-----------------------------------------------------------------------------
\* The layout of a body behind its OCS: where each option ends, what stands between them and what
\* ends the list.
Laid(bs, opts, at) ==
    LET n == Len(opts)
    IN  /\ bs \in Seq(Byte)
        /\ \A k \in 0 .. n : at[k] \in Nat
        /\ at[0] = 0
        /\ \A k \in 1 .. n : at[k] = RoundUpEven(at[k - 1]) + EncodedLen(Len(opts[k].value))
        /\ \A j \in 0 .. n : \A k \in j .. n : at[j] <= at[k]
        /\ Len(bs) = RoundUpEven(at[n] + 1)
        /\ bs[at[n] + 1] = EOL
        /\ \A k \in 1 .. n : EncodedAt(bs, RoundUpEven(at[k - 1]), opts[k])
        /\ \A k \in 1 .. n : at[k - 1] % 2 = 1 => bs[at[k - 1] + 1] = NOP

\* An option lies where its encoding is copied.
LEMMA CopiedOption ==
    ASSUME NEW o \in Encodable, NEW e \in Seq(Byte), Len(e) = EncodedLen(Len(o.value)),
           EncodedAt(e, 0, o), NEW bs, NEW a \in Nat,
           a + Len(e) <= Len(bs), \A x \in 1 .. Len(e) : bs[a + x] = e[x]
    PROVE  EncodedAt(bs, a, o)
<1>1. PICK v : v = o.value
    BY Zenon
<1>2. PICK n : n = Len(v)
    BY Zenon
<1>3. n \in Nat
    BY <1>1, <1>2, EncodableFacts, Zenon
<1>4. a + EncodedLen(n) <= Len(bs)
    BY <1>1, <1>2, Zenon
<1>5. CASE n <= DefaultValueLenMax
    <2>1. Len(e) = n + 2
        BY <1>1, <1>2, <1>5, Zenon DEF EncodedLen
    <2>2. /\ e[0 + 1] = o.kind /\ e[0 + 2] = n + 2
          /\ \A i \in 1 .. n : e[0 + 2 + i] = v[i]
        BY <1>1, <1>2, <1>5, Zenon DEF EncodedAt
    <2>3. /\ e[1] = o.kind /\ e[2] = n + 2
          /\ \A i \in 1 .. n : e[2 + i] = v[i]
        BY ONLY <1>3, <2>2, SMT
    <2>4. /\ bs[a + 1] = e[1] /\ bs[a + 2] = e[2]
          /\ \A i \in 1 .. n : bs[a + 2 + i] = e[2 + i]
        <3>1. 1 \in 1 .. Len(e) /\ 2 \in 1 .. Len(e)
            BY ONLY <1>3, <2>1, SMT
        <3>2. ASSUME NEW i \in 1 .. n PROVE 2 + i \in 1 .. Len(e) /\ a + (2 + i) = a + 2 + i
            BY ONLY <1>3, <2>1, a \in Nat, i \in 1 .. n, SMT
        <3>3. \A i \in 1 .. n : bs[a + 2 + i] = e[2 + i]
            BY <3>2, Zenon
        <3> QED
            BY <3>1, <3>3, Zenon
    <2>5. \A i \in 1 .. n : bs[a + 2 + i] = v[i]
        BY <2>3, <2>4, Zenon
    <2> QED
        BY <1>1, <1>2, <1>4, <1>5, <2>3, <2>4, <2>5, Zenon DEF EncodedAt
<1>6. CASE ~(n <= DefaultValueLenMax)
    <2>1. Len(e) = n + 4
        BY <1>1, <1>2, <1>6, Zenon DEF EncodedLen
    <2>2. PICK hi, lo : hi = (n + 4) \div 256 /\ lo = (n + 4) % 256
        BY Zenon
    <2>3. /\ e[0 + 1] = o.kind /\ e[0 + 2] = ExtendedLengthMarker /\ e[0 + 3] = hi /\ e[0 + 4] = lo
          /\ \A i \in 1 .. n : e[0 + 4 + i] = v[i]
        BY <1>1, <1>2, <1>6, <2>2, Zenon DEF EncodedAt
    <2>4. /\ e[1] = o.kind /\ e[2] = ExtendedLengthMarker /\ e[3] = hi /\ e[4] = lo
          /\ \A i \in 1 .. n : e[4 + i] = v[i]
        BY ONLY <1>3, <2>3, SMT
    <2>5. /\ bs[a + 1] = e[1] /\ bs[a + 2] = e[2] /\ bs[a + 3] = e[3] /\ bs[a + 4] = e[4]
          /\ \A i \in 1 .. n : bs[a + 4 + i] = e[4 + i]
        <3>1. 1 \in 1 .. Len(e) /\ 2 \in 1 .. Len(e) /\ 3 \in 1 .. Len(e) /\ 4 \in 1 .. Len(e)
            BY ONLY <1>3, <2>1, SMT
        <3>2. ASSUME NEW i \in 1 .. n PROVE 4 + i \in 1 .. Len(e) /\ a + (4 + i) = a + 4 + i
            BY ONLY <1>3, <2>1, a \in Nat, i \in 1 .. n, SMT
        <3>3. \A i \in 1 .. n : bs[a + 4 + i] = e[4 + i]
            BY <3>2, Zenon
        <3> QED
            BY <3>1, <3>3, Zenon
    <2>6. \A i \in 1 .. n : bs[a + 4 + i] = v[i]
        BY <2>4, <2>5, Zenon
    <2> QED
        BY <1>1, <1>2, <1>4, <1>6, <2>2, <2>4, <2>5, <2>6, Zenon DEF EncodedAt
<1> QED
    BY <1>5, <1>6, Zenon

\* A part of a byte sequence, and what follows the OCS of a body.
LEMMA PartOfBytes ==
    ASSUME NEW b \in Seq(Byte), NEW from \in Nat, NEW to \in Nat, from <= to, to <= Len(b)
    PROVE  /\ SubSeq(b, from + 1, to) \in Seq(Byte)
           /\ Len(SubSeq(b, from + 1, to)) = to - from
           /\ \A i \in 1 .. to - from : SubSeq(b, from + 1, to)[i] = b[from + i]
<1>1. SubSeq(b, from + 1, to) \in Seq(Byte)
    <2>1. from + 1 \in Nat \ {0}
        BY SMT
    <2> QED
        BY <2>1, SubSeqOfBytes, Zenon
<1>2. Len(SubSeq(b, from + 1, to)) = to - from
    BY SMT
<1>3. ASSUME NEW i \in 1 .. to - from PROVE SubSeq(b, from + 1, to)[i] = b[from + i]
    BY SMT
<1> QED
    BY <1>1, <1>2, <1>3, Zenon

LEMMA BehindOcs ==
    ASSUME NEW b \in Seq(Byte), Len(b) >= 2
    PROVE  /\ SubSeq(b, OcsLen + 1, Len(b)) \in Seq(Byte)
           /\ Len(SubSeq(b, OcsLen + 1, Len(b))) = Len(b) - 2
           /\ \A i \in 1 .. Len(b) - 2 : SubSeq(b, OcsLen + 1, Len(b))[i] = b[2 + i]
<1>1. OcsLen \in Nat /\ OcsLen <= Len(b) /\ Len(b) \in Nat /\ Len(b) <= Len(b)
    BY SMT DEF OcsLen
<1>2. /\ SubSeq(b, OcsLen + 1, Len(b)) \in Seq(Byte)
      /\ Len(SubSeq(b, OcsLen + 1, Len(b))) = Len(b) - OcsLen
      /\ \A i \in 1 .. Len(b) - OcsLen : SubSeq(b, OcsLen + 1, Len(b))[i] = b[OcsLen + i]
    BY <1>1, PartOfBytes, Zenon
<1> QED
    BY <1>2, Zenon DEF OcsLen

\* finish() lays the options out, in the length measured before.
LEMMA BodyLaidOut ==
    ASSUME CountingLaws, NEW opts \in Seq(Encodable)
    PROVE  LET b == EncodeBody(opts)
           IN  /\ b \in Seq(Byte) /\ Len(b) = SerializedBodyLen(opts) /\ Len(b) % 2 = 0
               /\ Len(SubSeq(b, OcsLen + 1, Len(b))) = Len(b) - 2
               /\ \E at : Laid(SubSeq(b, OcsLen + 1, Len(b)), opts, at)
<1>1. PICK w : w = Written(opts)
    BY Zenon
<1>2. PICK m : m = MeasuredLen(opts)
    BY Zenon
<1>3. PICK n : n = Len(opts)
    BY Zenon
<1>4. n \in Nat /\ 0 \in 0 .. n /\ n \in 0 .. n
    BY <1>3, SMT
<1>5. \A k \in 0 .. n : w[k] \in Seq(Byte) /\ m[k] \in Nat /\ Len(w[k]) = m[k]
    BY <1>1, <1>2, <1>3, WrittenUnfold, MeasuredUnfold, WrittenAsMeasured, Zenon
<1>6. /\ m[0] = 2
      /\ \A k \in 1 .. n : m[k] = RoundUpEven(m[k - 1]) + EncodedLen(Len(opts[k].value))
    BY <1>2, <1>3, MeasuredUnfold, Zenon
<1>7. \A j \in 0 .. n : \A k \in j .. n : Extends(w[j], w[k])
    BY <1>1, <1>3, WrittenGrows, Zenon
<1>8. ASSUME NEW j \in 0 .. n, NEW k \in j .. n PROVE m[j] <= m[k]
    <2>1. k \in 0 .. n
        BY <1>4, SMT
    <2> QED
        BY <1>5, <1>7, <2>1, Zenon DEF Extends
<1>9. ASSUME NEW k \in 0 .. n PROVE m[k] >= 2
    <2>1. k \in 0 .. n /\ m[0] <= m[k] /\ m[k] \in Nat
        <3>1. k \in 0 .. k /\ k \in 0 .. n
            BY <1>4, SMT
        <3> QED
            BY <1>4, <1>5, <1>8, <3>1, Zenon
    <2> QED
        BY <1>6, <2>1, SMT
<1>10. PICK a : a = Append(w[n], EOL)
    BY Zenon
<1>11. /\ a \in Seq(Byte) /\ Len(a) = m[n] + 1 /\ a[m[n] + 1] = EOL
       /\ Extends(w[n], a)
    <2>1. PICK u : u = w[n]
        BY Zenon
    <2>2. u \in Seq(Byte) /\ Len(u) = m[n] /\ EOL \in Byte
        BY <1>4, <1>5, <2>1, SMT DEF EOL, Byte
    <2>3. /\ Append(u, EOL) \in Seq(Byte) /\ Len(Append(u, EOL)) = Len(u) + 1
          /\ Append(u, EOL)[Len(u) + 1] = EOL
          /\ Extends(u, Append(u, EOL))
        BY ONLY <2>2, SMT DEF Extends
    <2> QED
        BY <1>10, <2>1, <2>2, <2>3, Zenon
<1>12. PICK b : b = EncodeBody(opts)
    BY Zenon
<1>13. b = Padded(a, 0)
    BY <1>1, <1>3, <1>10, <1>12, Zenon DEF EncodeBody
<1>14. b \in Seq(Byte) /\ Len(b) = RoundUpEven(m[n] + 1) /\ Extends(a, b)
    <2>1. 0 \in Byte
        BY SMT DEF Byte
    <2> QED
        BY <1>11, <1>13, <2>1, PaddedEven, Zenon
<1>15. /\ m[n] + 1 <= Len(b) /\ b[m[n] + 1] = EOL
       /\ Len(b) >= 2 /\ Len(b) \in Nat /\ Len(b) % 2 = 0 /\ Len(b) = SerializedBodyLen(opts)
    <2>1. m[n] \in Nat /\ m[n] >= 2
        BY <1>4, <1>5, <1>9, Zenon
    <2>2. m[n] + 1 \in Nat /\ m[n] + 1 \in 1 .. m[n] + 1 /\ 1 + m[n] = m[n] + 1
        BY <2>1, SMT
    <2>3. Len(b) \in Nat /\ m[n] + 1 <= Len(b) /\ Len(b) % 2 = 0
        <3>1. PICK z : z = m[n] + 1
            BY Zenon
        <3>2. z \in Nat /\ Len(b) = RoundUpEven(z)
            BY <1>14, <2>2, <3>1, Zenon
        <3>3. Len(b) \in Nat /\ z <= Len(b) /\ Len(b) % 2 = 0
            BY <3>2, RoundUp, Zenon
        <3> QED
            BY <3>1, <3>3, Zenon
    <2>4. b[m[n] + 1] = EOL
        BY <1>11, <1>14, <2>2, Zenon DEF Extends
    <2>5. Len(b) = SerializedBodyLen(opts)
        BY <1>2, <1>3, <1>14, <2>2, Zenon DEF SerializedBodyLen
    <2>6. Len(b) >= 2
        BY <2>1, <2>3, SMT
    <2> QED
        BY <2>3, <2>4, <2>5, <2>6, Zenon
<1>16. ASSUME NEW k \in 0 .. n PROVE Extends(w[k], b)
    <2>1. n \in k .. n
        BY <1>4, SMT
    <2>2. Extends(w[k], w[n])
        BY <1>7, <2>1, Zenon
    <2>3. Extends(w[k], a)
        BY <1>4, <1>5, <1>11, <2>2, ExtendsTransitive, Zenon
    <2> QED
        BY <1>5, <1>11, <1>14, <2>3, ExtendsTransitive, Zenon
<1>17. PICK s : s = SubSeq(b, OcsLen + 1, Len(b))
    BY Zenon
<1>18. /\ s \in Seq(Byte) /\ Len(s) = Len(b) - 2
       /\ \A x \in 1 .. Len(b) - 2 : s[x] = b[2 + x]
    BY <1>14, <1>15, <1>17, BehindOcs, Zenon
<1> DEFINE at == [k \in 0 .. n |-> m[k] - 2]
<1>19. ASSUME NEW k \in 0 .. n
       PROVE  /\ at[k] \in Nat /\ at[k] = m[k] - 2 /\ at[k] % 2 = m[k] % 2
              /\ RoundUpEven(at[k]) = RoundUpEven(m[k]) - 2 /\ RoundUpEven(m[k]) \in Nat
    <2>1. at[k] = m[k] - 2
        BY Zenon
    <2>2. m[k] \in Nat /\ m[k] >= 2
        BY <1>5, <1>9, Zenon
    <2> QED
        BY <2>1, <2>2, RoundUp, Zenon
<1> HIDE DEF at
<1>20. at[0] = 0
    BY <1>4, <1>6, <1>19, SMT
<1>21. ASSUME NEW k \in 1 .. n PROVE k - 1 \in 0 .. n /\ k \in 0 .. n
    BY <1>4, SMT
<1>22. ASSUME NEW k \in 1 .. n
       PROVE  at[k] = RoundUpEven(at[k - 1]) + EncodedLen(Len(opts[k].value))
    <2>1. PICK e : e = EncodedLen(Len(opts[k].value))
        BY Zenon
    <2>2. e \in Nat
        <3>1. opts[k] \in Encodable
            BY <1>3, SMT
        <3> QED
            BY <2>1, <3>1, EncodableFacts, Zenon
    <2>3. m[k] = RoundUpEven(m[k - 1]) + e
        BY <1>6, <2>1, Zenon
    <2>4. /\ at[k] = m[k] - 2
          /\ RoundUpEven(at[k - 1]) = RoundUpEven(m[k - 1]) - 2 /\ RoundUpEven(m[k - 1]) \in Nat
        BY <1>19, <1>21, Zenon
    <2>5. at[k] = RoundUpEven(at[k - 1]) + e
        BY ONLY <2>2, <2>3, <2>4, SMT
    <2> QED
        BY <2>1, <2>5, Zenon
<1>23. ASSUME NEW j \in 0 .. n, NEW k \in j .. n PROVE at[j] <= at[k]
    <2>1. k \in 0 .. n
        BY <1>4, SMT
    <2>2. m[j] <= m[k] /\ m[j] \in Nat /\ m[k] \in Nat /\ at[j] = m[j] - 2 /\ at[k] = m[k] - 2
        BY <1>5, <1>8, <1>19, <2>1, Zenon
    <2> QED
        BY ONLY <2>2, SMT
<1>24. Len(s) = RoundUpEven(at[n] + 1) /\ s[at[n] + 1] = EOL
    <2>1. m[n] \in Nat /\ m[n] >= 2 /\ at[n] = m[n] - 2
        BY <1>4, <1>5, <1>9, <1>19, Zenon
    <2>2. m[n] + 1 \in Nat /\ m[n] + 1 >= 2 /\ (m[n] + 1) - 2 = at[n] + 1
        BY ONLY <2>1, SMT
    <2>3. RoundUpEven(at[n] + 1) = RoundUpEven(m[n] + 1) - 2
        BY <2>2, RoundUp, Zenon
    <2>4. at[n] + 1 \in 1 .. Len(b) - 2 /\ 2 + (at[n] + 1) = m[n] + 1
        BY ONLY <1>15, <2>1, SMT
    <2>5. s[at[n] + 1] = b[2 + (at[n] + 1)]
        BY <1>18, <2>4, Zenon
    <2>6. s[at[n] + 1] = EOL
        BY <1>15, <2>4, <2>5, Zenon
    <2> QED
        BY <1>14, <1>18, <2>3, <2>6, Zenon
<1>25. ASSUME NEW k \in 1 .. n
       PROVE  /\ EncodedAt(s, RoundUpEven(at[k - 1]), opts[k])
              /\ at[k - 1] % 2 = 1 => s[at[k - 1] + 1] = NOP
    <2>1. PICK p : p = Padded(w[k - 1], NOP)
        BY Zenon
    <2>2. PICK e : e = EncodeOption(opts[k])
        BY Zenon
    <2>3. /\ opts[k] \in Encodable /\ p \in Seq(Byte) /\ Len(p) = RoundUpEven(m[k - 1])
          /\ e \in Seq(Byte) /\ Len(e) = EncodedLen(Len(opts[k].value))
          /\ w[k] = p \o e /\ Extends(p, w[k])
          /\ m[k - 1] % 2 = 1 => p[m[k - 1] + 1] = NOP
        <3>1. Len(w[k - 1]) = m[k - 1]
            BY <1>5, <1>21, Zenon
        <3> QED
            BY <1>1, <1>3, <2>1, <2>2, <3>1, WrittenStep, Zenon
    <2>4. Extends(p, b) /\ Extends(w[k], b) /\ w[k] \in Seq(Byte)
        BY <1>5, <1>14, <1>16, <1>21, <2>3, ExtendsTransitive, Zenon
    <2>5. PICK r : r = RoundUpEven(at[k - 1])
        BY Zenon
    <2>6. m[k - 1] \in Nat /\ m[k - 1] >= 2 /\ at[k - 1] = m[k - 1] - 2
        BY <1>5, <1>9, <1>19, <1>21, Zenon
    <2>7. /\ r = Len(p) - 2 /\ r \in Nat /\ Len(p) \in Nat /\ Len(e) \in Nat
          /\ at[k - 1] % 2 = m[k - 1] % 2
          /\ (m[k - 1] % 2 = 1 => Len(p) = m[k - 1] + 1)
        <3>1. /\ m[k - 1] - 2 \in Nat /\ RoundUpEven(m[k - 1] - 2) \in Nat
              /\ RoundUpEven(m[k - 1] - 2) = RoundUpEven(m[k - 1]) - 2
              /\ (m[k - 1] - 2) % 2 = m[k - 1] % 2
              /\ RoundUpEven(m[k - 1]) \in Nat
              /\ m[k - 1] % 2 = 1 => RoundUpEven(m[k - 1]) = m[k - 1] + 1
            BY <2>6, RoundUp, Zenon
        <3>2. Len(e) \in Nat
            BY <2>3, SMT
        <3> QED
            BY <2>3, <2>5, <2>6, <3>1, <3>2, Zenon
    <2>8. /\ Len(p \o e) = Len(p) + Len(e)
          /\ \A x \in 1 .. Len(e) : (p \o e)[Len(p) + x] = e[x]
        BY <2>3, Behind, Zenon
    <2>9. /\ Len(p) + Len(e) <= Len(b)
          /\ \A x \in 1 .. Len(p) + Len(e) : b[x] = w[k][x]
        BY <2>3, <2>4, <2>8, Zenon DEF Extends
    <2>10. r + Len(e) <= Len(s)
        BY ONLY <1>15, <1>18, <2>7, <2>9, SMT
    <2>11. ASSUME NEW x \in 1 .. Len(e) PROVE s[r + x] = e[x]
        <3>1. /\ r + x \in 1 .. Len(b) - 2 /\ 2 + (r + x) = Len(p) + x
              /\ Len(p) + x \in 1 .. Len(p) + Len(e)
            BY ONLY <1>15, <2>7, <2>9, x \in 1 .. Len(e), SMT
        <3> QED
            BY <1>18, <2>3, <2>8, <2>9, <3>1, Zenon
    <2>12. EncodedAt(e, 0, opts[k])
        BY <2>2, <2>3, EncodeOptionWrites, Zenon
    <2>13. EncodedAt(s, r, opts[k])
        BY <2>3, <2>7, <2>10, <2>11, <2>12, CopiedOption, Zenon
    <2>14. ASSUME at[k - 1] % 2 = 1 PROVE s[at[k - 1] + 1] = NOP
        <3>1. m[k - 1] % 2 = 1
            BY <2>7, <2>14, Zenon
        <3>2. Len(p) = m[k - 1] + 1 /\ p[m[k - 1] + 1] = NOP
            BY <2>3, <2>7, <3>1, Zenon
        <3>3. /\ m[k - 1] + 1 \in 1 .. Len(p)
              /\ at[k - 1] + 1 \in 1 .. Len(b) - 2 /\ 2 + (at[k - 1] + 1) = m[k - 1] + 1
            <4>1. PICK z : z = m[k - 1]
                BY Zenon
            <4>2. PICK y : y = at[k - 1]
                BY Zenon
            <4>3. z \in Nat /\ z >= 2 /\ y = z - 2 /\ Len(p) = z + 1
                BY <2>6, <3>2, <4>1, <4>2, Zenon
            <4>4. Len(p) + Len(e) <= Len(b) /\ Len(e) \in Nat /\ Len(b) \in Nat
                BY <1>15, <2>7, <2>9, Zenon
            <4>5. /\ z + 1 \in 1 .. Len(p)
                  /\ y + 1 \in 1 .. Len(b) - 2 /\ 2 + (y + 1) = z + 1
                BY ONLY <4>3, <4>4, SMT
            <4> QED
                BY <4>1, <4>2, <4>5, Zenon
        <3>4. b[m[k - 1] + 1] = NOP
            BY <2>4, <3>2, <3>3, Zenon DEF Extends
        <3>5. s[at[k - 1] + 1] = b[2 + (at[k - 1] + 1)]
            BY <1>18, <3>3, Zenon
        <3> QED
            BY <3>3, <3>4, <3>5, Zenon
    <2> QED
        BY <2>5, <2>13, <2>14, Zenon
<1>26. Laid(s, opts, at)
    BY <1>3, <1>18, <1>19, <1>20, <1>22, <1>23, <1>24, <1>25, Zenon DEF Laid
<1> QED
    BY <1>12, <1>14, <1>15, <1>17, <1>18, <1>26, Zenon

-----------------------------------------------------------------------------
\* Byte sequences of the same length with the same bytes are the same.
LEMMA SameBytes ==
    ASSUME NEW s \in Seq(Byte), NEW t \in Seq(Byte), Len(s) = Len(t),
           \A i \in 1 .. Len(t) : s[i] = t[i]
    PROVE  s = t
BY SMT

\* next() frames an option that encode_option has written as what it was, in either form of Length.
LEMMA FramingReads ==
    ASSUME NEW o \in Encodable, NEW bs \in Seq(Byte), NEW a \in Nat, EncodedAt(bs, a, o)
    PROVE  /\ a < Len(bs) /\ bs[a + 1] = o.kind
           /\ Framing(bs, a).error = None
           /\ Framing(bs, a).total = EncodedLen(Len(o.value))
           /\ ValueOf(bs, Framing(bs, a)) = o.value
<1>1. PICK v : v = o.value
    BY Zenon
<1>2. PICK n : n = Len(v)
    BY Zenon
<1>3. v \in Seq(Byte) /\ n \in Nat /\ n <= ExtendedValueLenMax /\ Len(bs) \in Nat
    <2>1. Len(bs) \in Nat
        BY SMT
    <2> QED
        BY <1>1, <1>2, <2>1, EncodableFacts, Zenon
<1>4. bs[a + 1] = o.kind /\ a + EncodedLen(n) <= Len(bs)
    BY <1>1, <1>2, Zenon DEF EncodedAt
<1>5. ASSUME NEW h \in Nat, a + (n + h) <= Len(bs),
             \A i \in 1 .. n : bs[a + h + i] = v[i]
      PROVE  SubSeq(bs, a + h + 1, a + (n + h)) = v
    <2>1. PICK from, to : from = a + h /\ to = a + (n + h)
        BY Zenon
    <2>2. from \in Nat /\ to \in Nat /\ from <= to /\ to <= Len(bs) /\ to - from = n
        BY <1>3, <1>5, <2>1, SMT
    <2>3. /\ SubSeq(bs, from + 1, to) \in Seq(Byte)
          /\ Len(SubSeq(bs, from + 1, to)) = n
          /\ \A i \in 1 .. n : SubSeq(bs, from + 1, to)[i] = bs[from + i]
        BY <2>2, PartOfBytes, Zenon
    <2>4. SubSeq(bs, from + 1, to) = v
        BY <1>2, <1>3, <1>5, <2>1, <2>3, SameBytes, Zenon
    <2> QED
        BY <2>1, <2>4, Zenon
<1>6. CASE n <= DefaultValueLenMax
    <2>1. EncodedLen(n) = n + 2
        BY <1>6, Zenon DEF EncodedLen
    <2>2. bs[a + 2] = n + 2 /\ \A i \in 1 .. n : bs[a + 2 + i] = v[i]
        BY <1>1, <1>2, <1>6, Zenon DEF EncodedAt
    <2>3. /\ ~(Len(bs) - a < 2) /\ bs[a + 2] # ExtendedLengthMarker
          /\ ~(n + 2 < TlvHeaderLen) /\ ~(n + 2 > Len(bs) - a) /\ a < Len(bs)
        BY <1>3, <1>4, <1>6, <2>1, <2>2, SMT
        DEF DefaultValueLenMax, ExtendedLengthMarker, TlvHeaderLen
    <2>4. Framing(bs, a) = Framed(a, 2, n + 2)
        BY <2>2, <2>3, Zenon DEF Framing
    <2>5. PICK f : f = Framing(bs, a)
        BY Zenon
    <2>6. f.error = None /\ f.start = a /\ f.header = 2 /\ f.total = n + 2
        BY <2>4, <2>5, SMT DEF Framed
    <2>7. SubSeq(bs, a + 2 + 1, a + (n + 2)) = v
        <3>1. 2 \in Nat
            BY SMT
        <3> QED
            BY <1>4, <1>5, <2>1, <2>2, <3>1, Zenon
    <2>8. ValueOf(bs, f) = v
        BY <2>6, <2>7, Zenon DEF ValueOf
    <2> QED
        BY <1>1, <1>2, <1>4, <2>1, <2>3, <2>5, <2>6, <2>8, Zenon
<1>7. CASE ~(n <= DefaultValueLenMax)
    <2>1. EncodedLen(n) = n + 4
        BY <1>7, Zenon DEF EncodedLen
    <2>2. PICK hi, lo : hi = (n + 4) \div 256 /\ lo = (n + 4) % 256
        BY Zenon
    <2>3. /\ bs[a + 2] = ExtendedLengthMarker /\ bs[a + 3] = hi /\ bs[a + 4] = lo
          /\ \A i \in 1 .. n : bs[a + 4 + i] = v[i]
        BY <1>1, <1>2, <1>7, <2>2, Zenon DEF EncodedAt
    <2>4. Word(hi, lo) = n + 4
        <3>1. n + 4 \in U16
            BY <1>3, U16Is, SMT DEF ExtendedValueLenMax, U16Max
        <3> QED
            BY <2>2, <3>1, U16InBytes, Zenon
    <2>5. ReadU16(bs, a + 2) = n + 4
        <3>1. a + 2 + 1 = a + 3 /\ a + 2 + 2 = a + 4
            BY SMT
        <3> QED
            BY <2>3, <2>4, <3>1, Zenon DEF ReadU16
    <2>6. /\ ~(Len(bs) - a < 2) /\ ~(Len(bs) - a < 4) /\ a < Len(bs)
          /\ ~(n + 4 < ExtendedLengthMarker) /\ ~(n + 4 > Len(bs) - a)
        BY <1>3, <1>4, <1>7, <2>1, SMT DEF DefaultValueLenMax, ExtendedLengthMarker
    <2>7. Framing(bs, a) = Framed(a, 4, n + 4)
        BY <2>3, <2>5, <2>6, Zenon DEF Framing
    <2>8. PICK f : f = Framing(bs, a)
        BY Zenon
    <2>9. f.error = None /\ f.start = a /\ f.header = 4 /\ f.total = n + 4
        BY <2>7, <2>8, SMT DEF Framed
    <2>10. SubSeq(bs, a + 4 + 1, a + (n + 4)) = v
        <3>1. 4 \in Nat
            BY SMT
        <3> QED
            BY <1>4, <1>5, <2>1, <2>3, <3>1, Zenon
    <2>11. ValueOf(bs, f) = v
        BY <2>9, <2>10, Zenon DEF ValueOf
    <2> QED
        BY <1>1, <1>2, <1>4, <2>1, <2>6, <2>8, <2>9, <2>11, Zenon
<1> QED
    BY <1>6, <1>7, Zenon

\* The kinds with a fixed length.
LEMMA FixedLengths ==
    /\ FixedTlvLengths(APC) = {6} /\ FixedTlvLengths(REQ) = {6} /\ FixedTlvLengths(RES) = {6}
    /\ FixedTlvLengths(FRAG) = {10, 12}
    /\ FixedTlvLengths(MDS) = {4} /\ FixedTlvLengths(MRDS) = {5}
<1>1. /\ FRAG \notin {APC, REQ, RES} /\ MDS \notin {APC, REQ, RES} /\ MRDS \notin {APC, REQ, RES}
      /\ FRAG # MDS /\ FRAG # MRDS /\ MDS # MRDS
    BY SMT DEF FRAG, MDS, MRDS, APC, REQ, RES
<1>2. /\ FixedTlvLengths(APC) = {6} /\ FixedTlvLengths(REQ) = {6} /\ FixedTlvLengths(RES) = {6}
    BY <1>1, Zenon DEF FixedTlvLengths
<1>3. FixedTlvLengths(FRAG) = {10, 12}
    BY <1>1, Zenon DEF FixedTlvLengths
<1>4. FixedTlvLengths(MDS) = {4} /\ FixedTlvLengths(MRDS) = {5}
    BY <1>1, Zenon DEF FixedTlvLengths
<1> QED
    BY <1>2, <1>3, <1>4, Zenon

\* FRAG has one of its two lengths.
FragSized(o) == o.kind = FRAG => Len(o.value) + TlvHeaderLen \in FixedTlvLengths(FRAG)

\* What validated_options lets pass.
LEMMA ValidatedFacts ==
    ASSUME CountingLaws, NEW opts \in Seq(RawOptionType), Validate(opts) = None
    PROVE  /\ \A i \in 1 .. Len(opts) : opts[i] \in Encodable
           /\ \A i \in 1 .. Len(opts) : FragSized(opts[i])
           /\ \A i, j \in 1 .. Len(opts) : opts[i].kind = FRAG /\ opts[j].kind = FRAG => i = j
<1>1. DOMAIN opts = 1 .. Len(opts) /\ Len(opts) \in Nat
    BY SMT
<1>2. /\ None # "ReservedKind" /\ None # "ValueTooLong" /\ None # "DuplicateFrag"
      /\ None # "InvalidFixedValueLength" /\ None # "UnsafeKind" /\ None # "UnsupportedAssignedKind"
    BY OutcomesAssumption, Zenon DEF SerializeErrors
<1>3. \A i \in 1 .. Len(opts) : Verdict(opts, i) = None
    <2> DEFINE bad == {i \in DOMAIN opts : Verdict(opts, i) # None}
               first == CHOOSE i \in bad : \A j \in bad : i <= j
    <2>1. SUFFICES ASSUME bad # {} PROVE FALSE
        BY <1>1, Zenon
    <2>2. bad \in SUBSET Nat
        BY <1>1, SMT
    <2>3. \E m \in bad : \A j \in bad : m <= j
        <3> HIDE DEF bad
        <3> QED
            BY <2>1, <2>2, LeastNat, Zenon
    <2>4. first \in bad
        <3> HIDE DEF bad
        <3> QED
            BY <2>3, Zenon
    <2>5. Validate(opts) = Verdict(opts, first)
        BY <2>1, Zenon DEF Validate
    <2>6. Verdict(opts, first) # None
        <3> HIDE DEF first
        <3> QED
            BY <2>4, Zenon
    <2> QED
        BY <2>5, <2>6, Zenon
<1>4. ASSUME NEW i \in 1 .. Len(opts)
      PROVE  /\ ValidateOption(opts[i]) = None
             /\ ~(opts[i].kind = FRAG /\ \E j \in 1 .. i - 1 : opts[j].kind = FRAG)
    BY <1>2, <1>3, Zenon DEF Verdict
<1>5. ASSUME NEW o \in RawOptionType, ValidateOption(o) = None
      PROVE  /\ ~(o.kind \in {EOL, NOP}) /\ ~(Len(o.value) > ExtendedValueLenMax)
             /\ FixedTlvLengths(o.kind) = {} \/ Len(o.value) + TlvHeaderLen \in FixedTlvLengths(o.kind)
    BY <1>2, <1>5, Zenon DEF ValidateOption
<1>6. ASSUME NEW i \in 1 .. Len(opts)
      PROVE  /\ opts[i] \in Encodable
             /\ FragSized(opts[i])
    <2>1. PICK o \in RawOptionType : o = opts[i]
        BY SMT
    <2>2. /\ ~(o.kind \in {EOL, NOP}) /\ ~(Len(o.value) > ExtendedValueLenMax)
          /\ FixedTlvLengths(o.kind) = {} \/ Len(o.value) + TlvHeaderLen \in FixedTlvLengths(o.kind)
        BY <1>4, <1>5, <2>1, Zenon
    <2>3. Len(o.value) \in Nat /\ Len(o.value) <= ExtendedValueLenMax
        <3>1. Len(o.value) \in Nat
            BY SMT DEF RawOptionType
        <3>2. ExtendedValueLenMax \in Nat
            BY SMT DEF ExtendedValueLenMax, U16Max
        <3> QED
            BY <2>2, <3>1, <3>2, SMT
    <2>4. o \in Encodable
        BY <2>2, <2>3, Zenon DEF Encodable, IsSingleByte
    <2>5. FixedTlvLengths(FRAG) # {}
        BY FixedLengths, Zenon
    <2> QED
        BY <2>1, <2>2, <2>4, <2>5, Zenon DEF FragSized
<1>7. ASSUME NEW i \in 1 .. Len(opts), NEW j \in 1 .. Len(opts),
             opts[i].kind = FRAG, opts[j].kind = FRAG
      PROVE  i = j
    <2>1. ~(j \in 1 .. i - 1) /\ ~(i \in 1 .. j - 1)
        BY <1>4, <1>7, Zenon
    <2> QED
        BY <1>1, <2>1, SMT
<1> QED
    BY <1>6, <1>7, Zenon

-----------------------------------------------------------------------------
\* Only FRAG has rank zero, and no two kinds share a rank.
LEMMA RankFacts ==
    /\ \A kind \in Byte : CanonicalRank(kind) \in Nat
    /\ \A kind \in Byte : CanonicalRank(kind) = 0 => kind = FRAG
    /\ CanonicalRank(FRAG) = 0
<1>1. ASSUME NEW kind \in Byte
      PROVE  /\ CanonicalRank(kind) \in Nat
             /\ CanonicalRank(kind) = 0 => kind = FRAG
    BY SMT DEF CanonicalRank, FRAG, APC, MDS, MRDS, REQ, RES, Byte
<1>2. CanonicalRank(FRAG) = 0
    BY SMT DEF CanonicalRank, FRAG, APC, MDS, MRDS, REQ, RES
<1> QED
    BY <1>1, <1>2, Zenon

\* Canonical permutes the options into the order Precedes.
LEMMA CanonicalOrders ==
    ASSUME CountingLaws, NEW opts \in Seq(RawOptionType)
    PROVE  \E p \in Bijection(DOMAIN opts, DOMAIN opts) :
               /\ Canonical(opts) = [k \in DOMAIN opts |-> opts[p[k]]]
               /\ \A i, j \in DOMAIN opts : i < j => Precedes(opts, p[i], p[j])
<1>1. PICK n : n = Len(opts)
    BY Zenon
<1> DEFINE D == DOMAIN opts
<1>2. n \in Nat /\ D = 1 .. n
    BY <1>1, SMT
<1> DEFINE rank == [i \in D |-> CanonicalRank(opts[i].kind)]
<1>3. \A i \in D : rank[i] \in Nat /\ i \in Nat
    <2>1. ASSUME NEW i \in D PROVE opts[i].kind \in Byte /\ i \in Nat
        <3>1. PICK o \in RawOptionType : o = opts[i]
            BY <1>1, SMT
        <3>2. o.kind \in Byte
            BY SMT DEF RawOptionType
        <3>3. i \in Nat
            BY SMT
        <3> QED
            BY <3>1, <3>2, <3>3, Zenon
    <2> QED
        BY <2>1, RankFacts, Zenon
<1>4. \A i, j \in D : Precedes(opts, i, j) <=> rank[i] < rank[j] \/ (rank[i] = rank[j] /\ i < j)
    BY Zenon DEF Precedes
<1> HIDE DEF rank, D
<1>5. \A i \in D : ~Precedes(opts, i, i)
    BY <1>3, <1>4, SMT
<1>6. \A i, j, k \in D : Precedes(opts, i, j) /\ Precedes(opts, j, k) => Precedes(opts, i, k)
    BY <1>3, <1>4, SMT
<1>7. \A i, j \in D : i # j => Precedes(opts, i, j) \/ Precedes(opts, j, i)
    BY <1>3, <1>4, SMT
<1> DEFINE Upto(i) == {j \in D : j = i \/ Precedes(opts, j, i)}
<1>8. /\ \A S \in SUBSET D : /\ Cardinality(S) \in 0 .. n /\ (Cardinality(S) = 0 => S = {})
                             /\ \A T \in SUBSET S : /\ Cardinality(T) <= Cardinality(S)
                                                    /\ Cardinality(T) = Cardinality(S) => T = S
      /\ Injection(D, D) \subseteq Surjection(D, D)
    BY <1>2, Zenon DEF CountingLaws
<1>9. \A i \in D : Place(opts, i) = Cardinality(Upto(i))
    BY Zenon DEF Place, D
<1>10. ASSUME NEW i \in D
       PROVE  Cardinality(Upto(i)) \in D
    <2>1. Upto(i) \in SUBSET D /\ i \in Upto(i) /\ Upto(i) # {}
        BY Zenon
    <2>2. Cardinality(Upto(i)) \in 0 .. n /\ Cardinality(Upto(i)) # 0
        BY <1>8, <2>1, Zenon
    <2>3. Cardinality(Upto(i)) \in 1 .. n
        <3> HIDE DEF Upto
        <3> QED
            BY <1>2, <2>2, SMT
    <2> QED
        BY <1>2, <2>3, Zenon
<1>11. ASSUME NEW i \in D, NEW j \in D, Precedes(opts, i, j)
       PROVE  Place(opts, i) < Place(opts, j)
    <2>1. Upto(i) \in SUBSET Upto(j) /\ Upto(j) \in SUBSET D
        BY <1>6, <1>11, Zenon
    <2>2. j \in Upto(j) /\ j \notin Upto(i)
        BY <1>5, <1>6, <1>11, Zenon
    <2>3. Upto(j) # Upto(i)
        BY <2>2, Zenon
    <2> HIDE DEF Upto
    <2>4. /\ Cardinality(Upto(i)) <= Cardinality(Upto(j))
          /\ Cardinality(Upto(j)) # Cardinality(Upto(i))
        BY <1>8, <2>1, <2>3, Zenon
    <2>5. Cardinality(Upto(i)) \in D /\ Cardinality(Upto(j)) \in D
        BY <1>10, Zenon
    <2>6. Cardinality(Upto(i)) < Cardinality(Upto(j))
        BY <1>2, <2>4, <2>5, SMT
    <2> QED
        BY <1>9, <2>6, Zenon
<1> HIDE DEF Upto
<1>12. \A i \in D : Place(opts, i) \in D
    BY <1>9, <1>10, Zenon
<1>13. ASSUME NEW i \in D, NEW j \in D, Place(opts, i) = Place(opts, j) PROVE i = j
    <2>1. ~(Place(opts, i) < Place(opts, j)) /\ ~(Place(opts, j) < Place(opts, i))
        <3>1. Place(opts, i) \in D /\ Place(opts, j) \in D
            BY <1>12, Zenon
        <3> QED
            BY <1>2, <1>13, <3>1, SMT
    <2> QED
        BY <1>7, <1>11, <2>1, Zenon
<1> DEFINE f == [i \in D |-> Place(opts, i)]
<1>14. f \in Injection(D, D)
    BY <1>12, <1>13, Zenon DEF Injection, IsInjective
<1>15. f \in Surjection(D, D)
    <2> HIDE DEF f
    <2> QED
        BY <1>8, <1>14, Zenon
<1>16. \A k \in D : \E i \in D : Place(opts, i) = k
    BY <1>15, Zenon DEF Surjection
<1> DEFINE p == [k \in D |-> CHOOSE i \in D : Place(opts, i) = k]
<1>17. \A k \in D : p[k] \in D /\ Place(opts, p[k]) = k
    BY <1>16, Zenon
<1>18. Canonical(opts) = [k \in D |-> opts[p[k]]]
    <2> DEFINE c(k) == CHOOSE i \in D : Place(opts, i) = k
    <2>1. Canonical(opts) = [k \in D |-> opts[c(k)]]
        BY Zenon DEF Canonical, D
    <2>2. \A k \in D : p[k] = c(k)
        BY Zenon
    <2> HIDE DEF c, p
    <2> QED
        BY <2>1, <2>2, Zenon
<1>19. p \in [D -> D]
    BY <1>17, Zenon
<1> HIDE DEF p
<1>20. p \in Bijection(D, D)
    <2>1. \A k, l \in D : p[k] = p[l] => k = l
        BY <1>17, Zenon
    <2>2. \A i \in D : p[Place(opts, i)] = i
        BY <1>12, <1>13, <1>17, Zenon
    <2>3. DOMAIN p = D
        BY <1>19, Zenon
    <2>4. p \in Injection(D, D)
        BY <1>19, <2>1, <2>3, Zenon DEF Injection, IsInjective
    <2>5. p \in Surjection(D, D)
        BY <1>12, <1>19, <2>2, Zenon DEF Surjection
    <2> QED
        BY <2>4, <2>5, Zenon DEF Bijection
<1>21. ASSUME NEW i \in D, NEW j \in D, i < j PROVE Precedes(opts, p[i], p[j])
    <2>1. ~(j < i) /\ i # j
        BY <1>3, <1>21, SMT
    <2>2. p[i] \in D /\ p[j] \in D /\ Place(opts, p[i]) = i /\ Place(opts, p[j]) = j
        BY <1>17, Zenon
    <2>3. ~Precedes(opts, p[j], p[i])
        BY <1>11, <2>1, <2>2, Zenon
    <2>4. p[i] # p[j]
        BY <2>1, <2>2, Zenon
    <2> QED
        BY <1>7, <2>2, <2>3, <2>4, Zenon
<1>22. \E q \in Bijection(D, D) :
           /\ Canonical(opts) = [k \in D |-> opts[q[k]]]
           /\ \A i, j \in D : i < j => Precedes(opts, q[i], q[j])
    BY <1>18, <1>20, <1>21, Zenon
<1> QED
    BY <1>22, Zenon DEF D

\* patch_frag_start writes the first two bytes of FRAG's value and leaves the rest.
LEMMA PatchedValue ==
    ASSUME NEW v \in Seq(Byte), Len(v) >= 2, NEW start \in U16, NEW u,
           u = U16Bytes(start) \o SubSeq(v, 3, Len(v))
    PROVE  /\ u \in Seq(Byte) /\ Len(u) = Len(v)
           /\ \A i \in 3 .. Len(v) : u[i] = v[i]
           /\ SubSeq(u, 3, Len(u)) = SubSeq(v, 3, Len(v))
           /\ ReadU16(u, 0) = start
<1>1. PICK q, r : q = start \div 256 /\ r = start % 256
    BY Zenon
<1>2. q \in Byte /\ r \in Byte /\ Word(q, r) = start
    BY <1>1, U16InBytes, Zenon
<1>3. PICK h : h = <<q, r>>
    BY Zenon
<1>4. h \in Seq(Byte) /\ Len(h) = 2 /\ h[1] = q /\ h[2] = r
    BY <1>2, <1>3, Pair, Zenon
<1>5. PICK t : t = SubSeq(v, 3, Len(v))
    BY Zenon
<1>6. PICK two : two = 2
    BY Zenon
<1>7. /\ two \in Nat /\ Len(v) \in Nat /\ two <= Len(v) /\ Len(v) <= Len(v) /\ 3 = two + 1
    BY <1>6, SMT
<1>8. /\ t \in Seq(Byte) /\ Len(t) = Len(v) - two
      /\ \A i \in 1 .. Len(v) - two : t[i] = v[two + i]
    <2>1. t = SubSeq(v, two + 1, Len(v))
        BY <1>5, <1>7, Zenon
    <2> QED
        BY <1>7, <2>1, PartOfBytes, Zenon
<1>9. u = h \o t
    BY <1>1, <1>3, <1>5, Zenon DEF U16Bytes
<1>10. /\ u \in Seq(Byte) /\ Len(u) = Len(t) + 2 /\ u[1] = q /\ u[2] = r
       /\ \A i \in 1 .. Len(t) : u[2 + i] = t[i]
    <2>1. /\ u \in Seq(Byte) /\ Len(u) = Len(t) + 2 /\ u[1] = h[1] /\ u[2] = h[2]
          /\ \A i \in 1 .. Len(t) : u[2 + i] = t[i]
        BY ONLY <1>4, <1>8, <1>9, BehindTwo, Zenon
    <2> QED
        BY <1>4, <2>1, Zenon
<1>11. Len(u) = Len(v)
    BY ONLY <1>6, <1>7, <1>8, <1>10, SMT
<1>12. ASSUME NEW i \in 3 .. Len(v) PROVE u[i] = v[i]
    <2>1. i - 2 \in 1 .. Len(t) /\ i - 2 \in 1 .. Len(v) - two /\ 2 + (i - 2) = i /\ two + (i - 2) = i
        BY ONLY <1>6, <1>7, <1>8, i \in 3 .. Len(v), SMT
    <2>2. u[2 + (i - 2)] = t[i - 2] /\ t[i - 2] = v[two + (i - 2)]
        BY <1>8, <1>10, <2>1, Zenon
    <2> QED
        BY <2>1, <2>2, Zenon
<1>13. SubSeq(u, 3, Len(u)) = t
    <2>1. PICK x : x = SubSeq(u, two + 1, Len(u))
        BY Zenon
    <2>2. /\ x \in Seq(Byte) /\ Len(x) = Len(u) - two
          /\ \A i \in 1 .. Len(u) - two : x[i] = u[two + i]
        <3>1. two \in Nat /\ Len(u) \in Nat /\ two <= Len(u) /\ Len(u) <= Len(u)
            BY <1>7, <1>11, Zenon
        <3> QED
            BY <1>10, <2>1, <3>1, PartOfBytes, Zenon
    <2>3. Len(x) = Len(t) /\ \A i \in 1 .. Len(t) : x[i] = t[i]
        BY ONLY <1>6, <1>7, <1>8, <1>10, <1>11, <2>2, SMTT(60)
    <2>4. x = t
        BY <1>8, <2>2, <2>3, SameBytes, Zenon
    <2> QED
        BY <1>7, <2>1, <2>4, Zenon
<1>14. ReadU16(u, 0) = start
    <2>1. 0 + 1 = 1 /\ 0 + 2 = 2
        BY SMT
    <2> QED
        BY <1>2, <1>10, <2>1, Zenon DEF ReadU16
<1> QED
    BY <1>5, <1>10, <1>11, <1>12, <1>13, <1>14, Zenon

\* A patched option keeps its kind, its length and all of its value but FRAG's start.
Patch(o, start) ==
    IF o.kind # FRAG THEN o ELSE [o EXCEPT !.value = U16Bytes(start) \o SubSeq(@, 3, Len(@))]

LEMMA PatchedOption ==
    ASSUME NEW o \in Encodable, FragSized(o), NEW start \in U16
    PROVE  /\ Patch(o, start) \in Encodable /\ Patch(o, start).kind = o.kind
           /\ Len(Patch(o, start).value) = Len(o.value)
           /\ Content(Patch(o, start)) = Content(o)
           /\ o.kind # FRAG => Patch(o, start) = o
           /\ o.kind = FRAG =>
                 /\ Patch(o, start).value \in Seq(Byte)
                 /\ ReadU16(Patch(o, start).value, 0) = start
                 /\ \A i \in 3 .. Len(o.value) : Patch(o, start).value[i] = o.value[i]
<1>1. CASE o.kind # FRAG
    <2>1. Patch(o, start) = o
        BY <1>1, Zenon DEF Patch
    <2> QED
        BY <1>1, <2>1, Zenon
<1>2. CASE o.kind = FRAG
    <2>1. PICK v : v = o.value
        BY Zenon
    <2>2. PICK u : u = U16Bytes(start) \o SubSeq(v, 3, Len(v))
        BY Zenon
    <2>3. PICK q : q = Patch(o, start)
        BY Zenon
    <2>4. o \in [kind : Byte, value : Seq(Byte)] /\ ~IsSingleByte(o.kind) /\ Len(v) <= ExtendedValueLenMax
        BY <2>1, EncodableFacts, Zenon DEF RawOptionType
    <2>5. q = [o EXCEPT !.value = u]
        BY <1>2, <2>1, <2>2, <2>3, Zenon DEF Patch
    <2>6. q.kind = o.kind /\ q.value = u
        BY <2>4, <2>5, SMT
    <2>7. v \in Seq(Byte) /\ Len(v) \in Nat
        BY <1>2, <2>1, EncodableFacts, Zenon
    <2>8. Len(v) >= 2
        <3>1. Len(v) + TlvHeaderLen \in {10, 12}
            BY <1>2, <2>1, FixedLengths, Zenon DEF FragSized
        <3> QED
            BY <2>7, <3>1, SMT DEF TlvHeaderLen
    <2>9. /\ u \in Seq(Byte) /\ Len(u) = Len(v)
          /\ \A i \in 3 .. Len(v) : u[i] = v[i]
          /\ SubSeq(u, 3, Len(u)) = SubSeq(v, 3, Len(v))
          /\ ReadU16(u, 0) = start
        BY <2>2, <2>7, <2>8, PatchedValue, Zenon
    <2>10. q \in [kind : Byte, value : Seq(Byte)]
        BY <2>4, <2>5, <2>9, SMT
    <2>11. q \in Encodable
        BY <2>4, <2>6, <2>9, <2>10, Zenon DEF Encodable, RawOptionType
    <2>12. Content(q) = Content(o)
        BY <1>2, <2>1, <2>6, <2>9, Zenon DEF Content
    <2> QED
        BY <1>2, <2>1, <2>3, <2>6, <2>9, <2>11, <2>12, Zenon
<1> QED
    BY <1>1, <1>2, Zenon

\* The measured length depends on the lengths of the values only.
LEMMA SameMeasure ==
    ASSUME CountingLaws,
           NEW a \in Seq(Encodable), NEW b \in Seq(Encodable), Len(a) = Len(b),
           \A k \in 1 .. Len(a) : Len(a[k].value) = Len(b[k].value)
    PROVE  SerializedBodyLen(a) = SerializedBodyLen(b)
<1>1. PICK n : n = Len(a)
    BY Zenon
<1>2. PICK x : x = MeasuredLen(a)
    BY Zenon
<1>3. PICK y : y = MeasuredLen(b)
    BY Zenon
<1>4. n \in Nat /\ n \in 0 .. n
    BY <1>1, SMT
<1>5. /\ x[0] = y[0]
      /\ \A k \in 1 .. n : x[k] = RoundUpEven(x[k - 1]) + EncodedLen(Len(a[k].value))
      /\ \A k \in 1 .. n : y[k] = RoundUpEven(y[k - 1]) + EncodedLen(Len(b[k].value))
    BY <1>1, <1>2, <1>3, MeasuredUnfold, Zenon
<1> DEFINE T == {k \in Nat : k <= n => x[k] = y[k]}
<1>6. 0 \in T /\ T \in SUBSET Nat
    <2>1. 0 \in Nat
        BY SMT
    <2> QED
        BY <1>5, <2>1, Zenon
<1>7. ASSUME NEW k \in 1 .. n, k - 1 \in T PROVE k \in T
    <2>1. k \in Nat /\ k - 1 <= n
        BY <1>4, SMT
    <2>2. x[k - 1] = y[k - 1]
        BY <1>7, <2>1, Zenon
    <2>3. x[k] = y[k]
        BY <1>1, <1>5, <2>2, Zenon
    <2> QED
        BY <2>1, <2>3, Zenon
<1>8. \A k \in 0 .. n : k \in T
    <2> HIDE DEF T
    <2> QED
        BY <1>4, <1>6, <1>7, UpTo, Zenon
<1>9. n <= n
    BY <1>4, SMT
<1>10. x[n] = y[n]
    BY <1>4, <1>8, <1>9, Zenon
<1> QED
    BY <1>1, <1>2, <1>3, <1>10, Zenon DEF SerializedBodyLen

-----------------------------------------------------------------------------
\* A u16 as two bytes; a u32, the pair of its halves, as four.
LEMMA U16Written ==
    ASSUME NEW x \in U16
    PROVE  /\ U16Bytes(x) \in Seq(Byte) /\ Len(U16Bytes(x)) = 2
           /\ U16Bytes(x)[1] \in Byte /\ U16Bytes(x)[2] \in Byte
           /\ Word(U16Bytes(x)[1], U16Bytes(x)[2]) = x
<1>1. PICK q, r : q = x \div 256 /\ r = x % 256
    BY Zenon
<1>2. q \in Byte /\ r \in Byte /\ Word(q, r) = x
    BY <1>1, U16InBytes, Zenon
<1>3. U16Bytes(x) = <<q, r>>
    BY <1>1, Zenon DEF U16Bytes
<1>4. <<q, r>> \in Seq(Byte) /\ Len(<<q, r>>) = 2 /\ <<q, r>>[1] = q /\ <<q, r>>[2] = r
    BY <1>2, Pair, Zenon
<1> QED
    BY <1>2, <1>3, <1>4, Zenon

LEMMA U32Written ==
    ASSUME NEW x \in U32
    PROVE  /\ U32Bytes(x) \in Seq(Byte) /\ Len(U32Bytes(x)) = 4
           /\ x = <<Word(U32Bytes(x)[1], U32Bytes(x)[2]), Word(U32Bytes(x)[3], U32Bytes(x)[4])>>
<1>1. PICK a \in U16, b \in U16 : x = <<a, b>>
    BY SMT DEF U32
<1>2. x[1] = a /\ x[2] = b
    BY <1>1, SMT
<1>3. PICK p : p = U16Bytes(a)
    BY Zenon
<1>4. PICK q : q = U16Bytes(b)
    BY Zenon
<1>5. p \in Seq(Byte) /\ Len(p) = 2 /\ Word(p[1], p[2]) = a
    BY <1>3, U16Written, Zenon
<1>6. q \in Seq(Byte) /\ Len(q) = 2 /\ Word(q[1], q[2]) = b
    BY <1>4, U16Written, Zenon
<1>7. PICK u : u = U32Bytes(x)
    BY Zenon
<1>8. u = p \o q
    BY <1>2, <1>3, <1>4, <1>7, Zenon DEF U32Bytes
<1>9. /\ p \o q \in Seq(Byte) /\ Len(p \o q) = Len(q) + 2
      /\ (p \o q)[1] = p[1] /\ (p \o q)[2] = p[2]
      /\ \A i \in 1 .. Len(q) : (p \o q)[2 + i] = q[i]
    BY <1>5, <1>6, BehindTwo, Zenon
<1>10. /\ u \in Seq(Byte) /\ Len(u) = Len(q) + 2 /\ u[1] = p[1] /\ u[2] = p[2]
       /\ \A i \in 1 .. Len(q) : u[2 + i] = q[i]
    BY <1>8, <1>9, Zenon
<1>11. Len(u) = 4 /\ u[3] = q[1] /\ u[4] = q[2]
    BY ONLY <1>6, <1>10, SMT
<1> QED
    BY <1>1, <1>5, <1>6, <1>7, <1>10, <1>11, Zenon

\* The kinds of typed options.
LEMMA TypedKinds ==
    /\ APC \in Byte /\ FRAG \in Byte /\ MDS \in Byte /\ MRDS \in Byte /\ REQ \in Byte /\ RES \in Byte
    /\ ~IsSingleByte(APC) /\ ~IsSingleByte(FRAG) /\ ~IsSingleByte(MDS) /\ ~IsSingleByte(MRDS)
    /\ ~IsSingleByte(REQ) /\ ~IsSingleByte(RES)
    /\ APC \notin {FRAG, MDS, MRDS, REQ, RES} /\ FRAG \notin {APC, MDS, MRDS, REQ, RES}
    /\ MDS \notin {APC, FRAG, MRDS, REQ, RES} /\ MRDS \notin {APC, FRAG, MDS, REQ, RES}
    /\ REQ \notin {APC, FRAG, MDS, MRDS, RES} /\ RES \notin {APC, FRAG, MDS, MRDS, REQ}
<1>1. /\ APC \in Byte /\ FRAG \in Byte /\ MDS \in Byte
      /\ MRDS \in Byte /\ REQ \in Byte /\ RES \in Byte
    BY SMT DEF APC, FRAG, MDS, MRDS, REQ, RES, Byte
<1>2. /\ ~IsSingleByte(APC) /\ ~IsSingleByte(FRAG) /\ ~IsSingleByte(MDS) /\ ~IsSingleByte(MRDS)
      /\ ~IsSingleByte(REQ) /\ ~IsSingleByte(RES)
    BY SMT DEF APC, FRAG, MDS, MRDS, REQ, RES, IsSingleByte, EOL, NOP
<1>3. /\ APC \notin {FRAG, MDS, MRDS, REQ, RES} /\ FRAG \notin {APC, MDS, MRDS, REQ, RES}
      /\ MDS \notin {APC, FRAG, MRDS, REQ, RES} /\ MRDS \notin {APC, FRAG, MDS, REQ, RES}
      /\ REQ \notin {APC, FRAG, MDS, MRDS, RES} /\ RES \notin {APC, FRAG, MDS, MRDS, REQ}
    BY SMT DEF APC, FRAG, MDS, MRDS, REQ, RES
<1> QED
    BY <1>1, <1>2, <1>3, Zenon

\* What the wire form of a typed option must be like: it has the Length of its kind, and it decodes
\* to the option it was made from, whatever patch_frag_start writes into FRAG's start.
WireForm(t) ==
    /\ Fields(t) \in Seq(Byte)
    /\ Len(Fields(t)) + 2 = TypedLength(t) /\ TypedLength(t) \in FixedTlvLengths(t.kind)
    /\ TypedLength(t) <= 12
    /\ t.kind # FRAG => Decode(t.kind, Fields(t)) = t
    /\ t.kind = FRAG =>
          \A u \in Seq(Byte) : /\ Len(u) = Len(Fields(t))
                               /\ \A i \in 3 .. Len(Fields(t)) : u[i] = Fields(t)[i]
                               => [Decode(t.kind, u) EXCEPT !.frag_start = t.frag_start] = t

LEMMA ApcForm ==
    ASSUME NEW t \in [kind : {APC}, crc32c : U32]
    PROVE  WireForm(t)
<1>1. t.kind = APC /\ t.crc32c \in U32 /\ t = [kind |-> APC, crc32c |-> t.crc32c]
    BY SMT
<1>2. PICK v : v = Fields(t)
    BY Zenon
<1>3. v = U32Bytes(t.crc32c)
    BY <1>1, <1>2, TypedKinds, Zenon DEF Fields
<1>4. v \in Seq(Byte) /\ Len(v) = 4 /\ t.crc32c = <<Word(v[1], v[2]), Word(v[3], v[4])>>
    BY <1>1, <1>3, U32Written, Zenon
<1>5. TypedLength(t) = 6
    BY <1>1, FixedLengths, TypedKinds, Zenon DEF TypedLength
<1>6. /\ Len(v) + 2 = 6 /\ Len(v) + TlvHeaderLen = 6 /\ 6 <= 12 /\ 0 + 1 = 1 /\ 0 + 2 = 2
      /\ 2 + 1 = 3 /\ 2 + 2 = 4
    BY <1>4, SMT DEF TlvHeaderLen
<1>7. ReadU32(v, 0) = t.crc32c
    BY <1>4, <1>6, Zenon DEF ReadU32, ReadU16
<1>8. Decode(APC, v) = [kind |-> APC, crc32c |-> ReadU32(v, 0)]
    BY <1>6, FixedLengths, TypedKinds, Zenon DEF Decode
<1> QED
    BY <1>1, <1>2, <1>4, <1>5, <1>6, <1>7, <1>8, FixedLengths, TypedKinds, Zenon DEF WireForm

LEMMA MdsForm ==
    ASSUME NEW t \in [kind : {MDS}, max_datagram_size : U16]
    PROVE  WireForm(t)
<1>1. /\ t.kind = MDS /\ t.max_datagram_size \in U16
      /\ t = [kind |-> MDS, max_datagram_size |-> t.max_datagram_size]
    BY SMT
<1>2. PICK v : v = Fields(t)
    BY Zenon
<1>3. v = U16Bytes(t.max_datagram_size)
    BY <1>1, <1>2, TypedKinds, Zenon DEF Fields
<1>4. v \in Seq(Byte) /\ Len(v) = 2 /\ t.max_datagram_size = Word(v[1], v[2])
    BY <1>1, <1>3, U16Written, Zenon
<1>5. TypedLength(t) = 4
    BY <1>1, FixedLengths, TypedKinds, Zenon DEF TypedLength
<1>6. Len(v) + 2 = 4 /\ Len(v) + TlvHeaderLen = 4 /\ 4 <= 12 /\ 0 + 1 = 1 /\ 0 + 2 = 2
    BY <1>4, SMT DEF TlvHeaderLen
<1>7. ReadU16(v, 0) = t.max_datagram_size
    BY <1>4, <1>6, Zenon DEF ReadU16
<1>8. Decode(MDS, v) = [kind |-> MDS, max_datagram_size |-> ReadU16(v, 0)]
    BY <1>6, FixedLengths, TypedKinds, Zenon DEF Decode
<1> QED
    BY <1>1, <1>2, <1>4, <1>5, <1>6, <1>7, <1>8, FixedLengths, TypedKinds, Zenon DEF WireForm

LEMMA Appended ==
    ASSUME NEW h \in Seq(Byte), NEW b \in Byte
    PROVE  /\ Append(h, b) \in Seq(Byte) /\ Len(Append(h, b)) = Len(h) + 1
           /\ Append(h, b)[Len(h) + 1] = b
           /\ \A i \in 1 .. Len(h) : Append(h, b)[i] = h[i]
BY SMT

LEMMA MrdsForm ==
    ASSUME NEW t \in [kind : {MRDS}, max_reassembled_size : U16, max_segments : Byte]
    PROVE  WireForm(t)
<1>1. /\ t.kind = MRDS /\ t.max_reassembled_size \in U16 /\ t.max_segments \in Byte
      /\ t = [kind |-> MRDS, max_reassembled_size |-> t.max_reassembled_size,
              max_segments |-> t.max_segments]
    BY SMT
<1>2. PICK v : v = Fields(t)
    BY Zenon
<1>3. PICK h : h = U16Bytes(t.max_reassembled_size)
    BY Zenon
<1>4. v = Append(h, t.max_segments)
    BY <1>1, <1>2, <1>3, TypedKinds, Zenon DEF Fields
<1>5. h \in Seq(Byte) /\ Len(h) = 2 /\ t.max_reassembled_size = Word(h[1], h[2])
    BY <1>1, <1>3, U16Written, Zenon
<1>6. v \in Seq(Byte) /\ Len(v) = 3 /\ v[1] = h[1] /\ v[2] = h[2] /\ v[3] = t.max_segments
    <2>1. PICK b \in Byte : b = t.max_segments
        BY <1>1, Zenon
    <2>2. /\ Append(h, b) \in Seq(Byte) /\ Len(Append(h, b)) = Len(h) + 1
          /\ Append(h, b)[Len(h) + 1] = b
          /\ \A i \in 1 .. Len(h) : Append(h, b)[i] = h[i]
        BY <1>5, Appended, Zenon
    <2>3. PICK a : a = Append(h, b)
        BY Zenon
    <2>4. a \in Seq(Byte) /\ Len(a) = 3 /\ a[1] = h[1] /\ a[2] = h[2] /\ a[3] = b
        <3>1. /\ a \in Seq(Byte) /\ Len(a) = Len(h) + 1 /\ a[Len(h) + 1] = b
              /\ \A i \in 1 .. Len(h) : a[i] = h[i]
            BY <2>2, <2>3, Zenon
        <3> QED
            BY ONLY <1>5, <3>1, SMT
    <2> QED
        BY <1>4, <2>1, <2>3, <2>4, Zenon
<1>7. TypedLength(t) = 5
    BY <1>1, FixedLengths, TypedKinds, Zenon DEF TypedLength
<1>8. Len(v) + 2 = 5 /\ Len(v) + TlvHeaderLen = 5 /\ 5 <= 12 /\ 0 + 1 = 1 /\ 0 + 2 = 2
    BY <1>6, SMT DEF TlvHeaderLen
<1>9. ReadU16(v, 0) = t.max_reassembled_size
    BY <1>5, <1>6, <1>8, Zenon DEF ReadU16
<1>10. Decode(MRDS, v) = [kind |-> MRDS, max_reassembled_size |-> ReadU16(v, 0),
                          max_segments |-> v[3]]
    BY <1>8, FixedLengths, TypedKinds, Zenon DEF Decode
<1> QED
    BY <1>1, <1>2, <1>6, <1>7, <1>8, <1>9, <1>10, FixedLengths, TypedKinds, Zenon DEF WireForm

LEMMA TokenForm ==
    ASSUME NEW t \in [kind : {REQ, RES}, token : {s \in Seq(Byte) : Len(s) = 4}]
    PROVE  WireForm(t)
<1>1. /\ t.kind \in {REQ, RES} /\ t.token \in Seq(Byte) /\ Len(t.token) = 4
      /\ t = [kind |-> t.kind, token |-> t.token]
    BY SMT
<1>2. Fields(t) = t.token
    BY <1>1, TypedKinds, Zenon DEF Fields
<1>3. FixedTlvLengths(t.kind) = {6}
    BY <1>1, FixedLengths, Zenon
<1>4. TypedLength(t) = 6
    BY <1>1, <1>3, TypedKinds, Zenon DEF TypedLength
<1>5. Len(t.token) + 2 = 6 /\ Len(t.token) + TlvHeaderLen = 6 /\ 6 <= 12
    BY <1>1, SMT DEF TlvHeaderLen
<1>6. Decode(t.kind, t.token) = [kind |-> t.kind, token |-> t.token]
    BY <1>1, <1>3, <1>5, TypedKinds, Zenon DEF Decode
<1> QED
    BY <1>1, <1>2, <1>3, <1>4, <1>5, <1>6, TypedKinds, Zenon DEF WireForm

\* The fields of FRAG, and where each lies.
LEMMA FragForm ==
    ASSUME NEW t \in [kind : {FRAG}, frag_start : U16, identification : U32, frag_offset : U16,
                      rdos : U16 \cup {None}]
    PROVE  WireForm(t)
<1>1. /\ t.kind = FRAG /\ t.frag_start \in U16 /\ t.identification \in U32 /\ t.frag_offset \in U16
      /\ t.rdos \in U16 \cup {None}
    BY SMT
<1>2. PICK a : a = U16Bytes(t.frag_start)
    BY Zenon
<1>3. PICK b : b = U32Bytes(t.identification)
    BY Zenon
<1>4. PICK c : c = U16Bytes(t.frag_offset)
    BY Zenon
<1>5. PICK d : d = IF t.rdos = None THEN <<>> ELSE U16Bytes(t.rdos)
    BY Zenon
<1>6. a \in Seq(Byte) /\ Len(a) = 2
    BY <1>1, <1>2, U16Written, Zenon
<1>7. /\ b \in Seq(Byte) /\ Len(b) = 4
      /\ t.identification = <<Word(b[1], b[2]), Word(b[3], b[4])>>
    BY <1>1, <1>3, U32Written, Zenon
<1>8. c \in Seq(Byte) /\ Len(c) = 2 /\ t.frag_offset = Word(c[1], c[2])
    BY <1>1, <1>4, U16Written, Zenon
<1>9. /\ d \in Seq(Byte)
      /\ t.rdos = None => Len(d) = 0
      /\ t.rdos # None => Len(d) = 2 /\ t.rdos = Word(d[1], d[2])
    <2>1. CASE t.rdos = None
        <3>1. d = <<>>
            BY <1>5, <2>1, Zenon
        <3>2. <<>> \in Seq(Byte) /\ Len(<<>>) = 0
            BY SMT
        <3> QED
            BY <2>1, <3>1, <3>2, Zenon
    <2>2. CASE t.rdos # None
        <3>1. t.rdos \in U16 /\ d = U16Bytes(t.rdos)
            BY <1>1, <1>5, <2>2, Zenon
        <3>2. d \in Seq(Byte) /\ Len(d) = 2 /\ Word(d[1], d[2]) = t.rdos
            BY <3>1, U16Written, Zenon
        <3> QED
            BY <2>2, <3>2, Zenon
    <2> QED
        BY <2>1, <2>2, Zenon
<1>10. PICK v : v = Fields(t)
    BY Zenon
<1>11. v = ((a \o b) \o c) \o d
    BY <1>1, <1>2, <1>3, <1>4, <1>5, <1>10, TypedKinds, Zenon DEF Fields
<1>12. PICK ab : ab = a \o b
    BY Zenon
<1>13. PICK abc : abc = ab \o c
    BY Zenon
<1>14. /\ ab \in Seq(Byte) /\ Len(ab) = 6
       /\ ab[3] = b[1] /\ ab[4] = b[2] /\ ab[5] = b[3] /\ ab[6] = b[4]
    <2>1. /\ ab \in Seq(Byte) /\ Len(ab) = Len(b) + 2
          /\ \A i \in 1 .. Len(b) : ab[2 + i] = b[i]
        BY <1>6, <1>7, <1>12, BehindTwo, Zenon
    <2> QED
        BY ONLY <1>7, <2>1, SMT
<1>15. /\ abc \in Seq(Byte) /\ Len(abc) = 8
       /\ \A i \in 1 .. 6 : abc[i] = ab[i]
       /\ abc[7] = c[1] /\ abc[8] = c[2]
    <2>1. /\ abc \in Seq(Byte) /\ Len(abc) = Len(ab) + Len(c)
          /\ \A i \in 1 .. Len(ab) : abc[i] = ab[i]
          /\ \A i \in 1 .. Len(c) : abc[Len(ab) + i] = c[i]
        BY <1>8, <1>13, <1>14, Behind, Zenon
    <2> QED
        BY ONLY <1>8, <1>14, <2>1, SMT
<1>16. /\ v \in Seq(Byte) /\ Len(v) = 8 + Len(d)
       /\ \A i \in 1 .. 8 : v[i] = abc[i]
       /\ Len(d) = 2 => v[9] = d[1] /\ v[10] = d[2]
    <2>1. /\ v \in Seq(Byte) /\ Len(v) = Len(abc) + Len(d)
          /\ \A i \in 1 .. Len(abc) : v[i] = abc[i]
          /\ \A i \in 1 .. Len(d) : v[Len(abc) + i] = d[i]
        <3>1. v = abc \o d
            BY <1>11, <1>12, <1>13, Zenon
        <3> QED
            BY ONLY <1>9, <1>15, <3>1, Behind, Zenon
    <2>2. Len(d) = 2 => v[9] = d[1] /\ v[10] = d[2]
        BY ONLY <1>15, <2>1, SMT
    <2>3. Len(v) = 8 + Len(d) /\ \A i \in 1 .. 8 : v[i] = abc[i]
        BY <1>15, <2>1, Zenon
    <2> QED
        BY <2>1, <2>2, <2>3, Zenon
<1>17. /\ v[3] = b[1] /\ v[4] = b[2] /\ v[5] = b[3] /\ v[6] = b[4]
       /\ v[7] = c[1] /\ v[8] = c[2]
    BY ONLY <1>14, <1>15, <1>16, SMT
<1>18. TypedLength(t) = IF t.rdos = None THEN 10 ELSE 12
    BY <1>1, Zenon DEF TypedLength
<1>19. /\ Len(v) + 2 = TypedLength(t) /\ TypedLength(t) \in {10, 12} /\ TypedLength(t) <= 12
       /\ Len(v) + TlvHeaderLen \in {10, 12}
       /\ t.rdos = None => Len(v) = 8
       /\ t.rdos # None => Len(v) = 10
    <2>1. CASE t.rdos = None
        <3>1. Len(v) = 8 + 0 /\ TypedLength(t) = 10
            BY <1>9, <1>16, <1>18, <2>1, Zenon
        <3> QED
            BY <2>1, <3>1, SMT DEF TlvHeaderLen
    <2>2. CASE t.rdos # None
        <3>1. Len(v) = 8 + 2 /\ TypedLength(t) = 12
            BY <1>9, <1>16, <1>18, <2>2, Zenon
        <3> QED
            BY <2>2, <3>1, SMT DEF TlvHeaderLen
    <2> QED
        BY <2>1, <2>2, Zenon
<1>20. ASSUME NEW u \in Seq(Byte), Len(u) = Len(v), \A i \in 3 .. Len(v) : u[i] = v[i]
       PROVE  [Decode(FRAG, u) EXCEPT !.frag_start = t.frag_start] = t
    <2>1. /\ u[3] = v[3] /\ u[4] = v[4] /\ u[5] = v[5] /\ u[6] = v[6] /\ u[7] = v[7] /\ u[8] = v[8]
          /\ t.rdos # None => u[9] = v[9] /\ u[10] = v[10]
        <3>1. PICK n : n = Len(v)
            BY Zenon
        <3>2. /\ t.rdos = None => n = 8
              /\ t.rdos # None => n = 10
            BY <1>19, <3>1, Zenon
        <3>3. /\ n \in {8, 10} => /\ 3 \in 3 .. n /\ 4 \in 3 .. n /\ 5 \in 3 .. n
                                 /\ 6 \in 3 .. n /\ 7 \in 3 .. n /\ 8 \in 3 .. n
              /\ n = 10 => 9 \in 3 .. n /\ 10 \in 3 .. n
            BY ONLY SMT
        <3> QED
            BY <1>20, <3>1, <3>2, <3>3, Zenon
    <2>2. /\ 2 + 1 = 3 /\ 2 + 2 = 4 /\ 4 + 1 = 5 /\ 4 + 2 = 6 /\ 6 + 1 = 7 /\ 6 + 2 = 8
          /\ 8 + 1 = 9 /\ 8 + 2 = 10
        BY SMT
    <2>3. ReadU16(u, 2) = Word(b[1], b[2]) /\ ReadU16(u, 2 + 2) = Word(b[3], b[4])
        BY <1>17, <2>1, <2>2, Zenon DEF ReadU16
    <2>4. ReadU32(u, 2) = t.identification
        BY <1>7, <2>3, Zenon DEF ReadU32
    <2>5. ReadU16(u, 6) = t.frag_offset
        BY <1>8, <1>17, <2>1, <2>2, Zenon DEF ReadU16
    <2>6. (IF Len(u) = 10 THEN ReadU16(u, 8) ELSE None) = t.rdos
        <3>1. CASE t.rdos # None
            <4>1. Len(u) = 10
                BY <1>19, <1>20, <3>1, Zenon
            <4>2. u[9] = d[1] /\ u[10] = d[2] /\ t.rdos = Word(d[1], d[2])
                BY <1>9, <1>16, <2>1, <3>1, Zenon
            <4>3. ReadU16(u, 8) = Word(u[9], u[10])
                BY <2>2, Zenon DEF ReadU16
            <4>4. ReadU16(u, 8) = t.rdos
                BY <4>2, <4>3, Zenon
            <4> QED
                BY <4>1, <4>4, Zenon
        <3>2. CASE t.rdos = None
            <4>1. Len(u) = 8 /\ 8 # 10
                BY <1>19, <1>20, <3>2, SMT
            <4> QED
                BY <3>2, <4>1, Zenon
        <3> QED
            BY <3>1, <3>2, Zenon
    <2>7. PICK x : x = ReadU16(u, 0)
        BY Zenon
    <2>8. DecodeFrag(u) = [kind |-> FRAG, frag_start |-> x, identification |-> t.identification,
                           frag_offset |-> t.frag_offset, rdos |-> t.rdos]
        BY <2>4, <2>5, <2>6, <2>7, Zenon DEF DecodeFrag
    <2>9. Decode(FRAG, u) = DecodeFrag(u)
        <3>1. Len(u) + TlvHeaderLen \in FixedTlvLengths(FRAG)
            BY <1>19, <1>20, FixedLengths, Zenon
        <3> QED
            BY <3>1, TypedKinds, Zenon DEF Decode
    <2>10. [[kind |-> FRAG, frag_start |-> x, identification |-> t.identification,
             frag_offset |-> t.frag_offset, rdos |-> t.rdos] EXCEPT !.frag_start = t.frag_start] = t
        BY SMT
    <2> QED
        BY <2>8, <2>9, <2>10, Zenon
<1> QED
    BY <1>1, <1>10, <1>16, <1>19, <1>20, FixedLengths, Zenon DEF WireForm

\* Every typed option has its wire form, and raw_from_typed finds kind and value in it.
LEMMA TypedWireForm ==
    ASSUME NEW t \in TypedOptionType
    PROVE  WireForm(t) /\ t.kind \in Byte /\ ~IsSingleByte(t.kind)
<1>1. CASE t \in [kind : {APC}, crc32c : U32]
    <2>1. t.kind = APC
        BY <1>1, SMT
    <2> QED
        BY <1>1, <2>1, ApcForm, TypedKinds, Zenon
<1>2. CASE t \in [kind : {MDS}, max_datagram_size : U16]
    <2>1. t.kind = MDS
        BY <1>2, SMT
    <2> QED
        BY <1>2, <2>1, MdsForm, TypedKinds, Zenon
<1>3. CASE t \in [kind : {MRDS}, max_reassembled_size : U16, max_segments : Byte]
    <2>1. t.kind = MRDS
        BY <1>3, SMT
    <2> QED
        BY <1>3, <2>1, MrdsForm, TypedKinds, Zenon
<1>4. CASE t \in [kind : {REQ, RES}, token : {s \in Seq(Byte) : Len(s) = 4}]
    <2>1. t.kind \in {REQ, RES}
        BY <1>4, SMT
    <2> QED
        BY <1>4, <2>1, TokenForm, TypedKinds, Zenon
<1>5. CASE t \in [kind : {FRAG}, frag_start : U16, identification : U32, frag_offset : U16,
                  rdos : U16 \cup {None}]
    <2>1. t.kind = FRAG
        BY <1>5, SMT
    <2> QED
        BY <1>5, <2>1, FragForm, TypedKinds, Zenon
<1> QED
    BY <1>1, <1>2, <1>3, <1>4, <1>5, Zenon DEF TypedOptionType

LEMMA RawFromTypedIs ==
    ASSUME NEW t \in TypedOptionType
    PROVE  /\ RawFromTyped(t) = RawOption(t.kind, Fields(t))
           /\ RawFromTyped(t) \in Encodable
<1>1. PICK v : v = Fields(t)
    BY Zenon
<1>2. PICK o : o = RawOption(t.kind, v)
    BY Zenon
<1>3. /\ v \in Seq(Byte) /\ Len(v) + 2 = TypedLength(t) /\ TypedLength(t) <= 12
      /\ t.kind \in Byte /\ ~IsSingleByte(t.kind)
    BY <1>1, TypedWireForm, Zenon DEF WireForm
<1>4. o.kind = t.kind /\ o.value = v /\ o \in RawOptionType
    BY <1>2, <1>3, SMT DEF RawOption, RawOptionType
<1>5. PICK n : n = Len(v)
    BY Zenon
<1>6. n \in Nat
    BY <1>3, <1>5, SMT
<1>7. n <= DefaultValueLenMax /\ n <= ExtendedValueLenMax /\ n + 2 \in Byte
    <2>1. n <= 10
        BY <1>3, <1>5, <1>6, SMT
    <2> QED
        BY <1>6, <2>1, SMT DEF DefaultValueLenMax, ExtendedValueLenMax, U16Max, Byte
<1>8. o \in Encodable
    BY <1>3, <1>4, <1>5, <1>7, Zenon DEF Encodable
<1>9. PICK e : e = Encode(t)
    BY Zenon
<1>10. PICK h : h = <<t.kind, n + 2>>
    BY Zenon
<1>11. h \in Seq(Byte) /\ Len(h) = 2 /\ h[1] = t.kind /\ h[2] = n + 2
    BY <1>3, <1>7, <1>10, Pair, Zenon
<1>12. e = h \o v
    BY <1>1, <1>3, <1>5, <1>9, <1>10, Zenon DEF Encode
<1>13. /\ e \in Seq(Byte) /\ Len(e) = n + 2 /\ e[1] = h[1] /\ e[2] = h[2]
       /\ \A i \in 1 .. n : e[2 + i] = v[i]
    BY <1>3, <1>5, <1>11, <1>12, BehindTwo, Zenon
<1>14. EncodedAt(e, 0, o)
    <2>1. 0 + (n + 2) = n + 2 /\ n + 2 <= n + 2 /\ 0 + 1 = 1 /\ 0 + 2 = 2
        BY <1>6, SMT
    <2>2. EncodedLen(n) = n + 2
        BY <1>7, Zenon DEF EncodedLen
    <2> QED
        BY <1>4, <1>5, <1>7, <1>11, <1>13, <2>1, <2>2, Zenon DEF EncodedAt
<1>15. ValueOf(e, Framing(e, 0)) = v
    <2>1. 0 \in Nat
        BY SMT
    <2> QED
        BY <1>4, <1>8, <1>13, <1>14, <2>1, FramingReads, Zenon
<1>16. RawFromTyped(t) = RawOption(t.kind, v)
    BY <1>9, <1>11, <1>13, <1>15, Zenon DEF RawFromTyped
<1> QED
    BY <1>1, <1>2, <1>8, <1>16, Zenon

-----------------------------------------------------------------------------
\* The value decodes to the typed option t; FRAG's start is not the caller's.
DecodesTo(t, value) ==
    IF t.kind = FRAG THEN [Decode(t.kind, value) EXCEPT !.frag_start = t.frag_start] = t
    ELSE Decode(t.kind, value) = t

\* What finish() encodes of the options pushed, in the order in which it writes them, and how long
\* the body is.
SerializedAs(pushed, b, opts) ==
    /\ opts \in Seq(Encodable) /\ Len(opts) = Len(pushed)
    /\ Len(b) = SerializedBodyLen(Canonical(pushed)) /\ Len(b) % 2 = 0
    /\ \E p \in Bijection(DOMAIN pushed, DOMAIN pushed) :
           /\ \A k \in DOMAIN pushed : Content(opts[k]) = Content(pushed[p[k]])
           /\ \A i, j \in DOMAIN pushed : i < j /\ opts[i].kind = opts[j].kind => p[i] < p[j]
    /\ \A k \in DOMAIN pushed : opts[k].kind = FRAG =>
           k = 1 /\ ReadU16(opts[k].value, 0) = UdpHeaderLen + Len(b)
    /\ \A t \in Typed : RawFromTyped(t) \in Range(pushed) =>
           \E k \in DOMAIN pushed : opts[k].kind = t.kind /\ DecodesTo(t, opts[k].value)

\* A typed option decodes to itself from the value finish() encodes for it.
LEMMA TypedSurvives ==
    ASSUME NEW t \in TypedOptionType, NEW start \in U16
    PROVE  /\ Patch(RawFromTyped(t), start).kind = t.kind
           /\ DecodesTo(t, Patch(RawFromTyped(t), start).value)
<1>1. PICK v : v = Fields(t)
    BY Zenon
<1>2. PICK o : o = RawFromTyped(t)
    BY Zenon
<1>3. o \in Encodable /\ o = RawOption(t.kind, v)
    BY <1>1, <1>2, RawFromTypedIs, Zenon
<1>4. o.kind = t.kind /\ o.value = v
    BY <1>3, SMT DEF RawOption
<1>5. WireForm(t)
    BY TypedWireForm, Zenon
<1>6. CASE t.kind # FRAG
    <2>1. Patch(o, start) = o
        BY <1>4, <1>6, Zenon DEF Patch
    <2>2. Decode(t.kind, v) = t
        BY <1>1, <1>5, <1>6, Zenon DEF WireForm
    <2> QED
        BY <1>2, <1>4, <1>6, <2>1, <2>2, Zenon DEF DecodesTo
<1>7. CASE t.kind = FRAG
    <2>1. FragSized(o)
        BY <1>1, <1>4, <1>5, <1>7, Zenon DEF WireForm, FragSized, TlvHeaderLen
    <2>2. PICK u : u = Patch(o, start).value
        BY Zenon
    <2>3. /\ Patch(o, start).kind = o.kind /\ u \in Seq(Byte) /\ Len(u) = Len(v)
          /\ \A i \in 3 .. Len(v) : u[i] = v[i]
        <3>1. /\ Patch(o, start).kind = o.kind /\ Patch(o, start).value \in Seq(Byte)
              /\ Len(Patch(o, start).value) = Len(o.value)
              /\ \A i \in 3 .. Len(o.value) : Patch(o, start).value[i] = o.value[i]
            <4>1. o.kind = FRAG
                BY <1>4, <1>7, Zenon
            <4> QED
                BY <1>3, <2>1, <4>1, PatchedOption, Zenon
        <3> QED
            BY <1>4, <2>2, <3>1, Zenon
    <2>4. [Decode(t.kind, u) EXCEPT !.frag_start = t.frag_start] = t
        BY <1>1, <1>5, <1>7, <2>3, Zenon DEF WireForm
    <2> QED
        BY <1>2, <1>4, <1>7, <2>2, <2>3, <2>4, Zenon DEF DecodesTo
<1> QED
    BY <1>6, <1>7, Zenon

\* finish(): validated, sorted, measured, patched and encoded.
LEMMA FinishSerializes ==
    ASSUME CountingLaws, NEW pushed \in Seq(RawOptionType), Validate(pushed) = None,
           UdpHeaderLen + SerializedBodyLen(Canonical(pushed)) <= U16Max,
           NEW b, b = EncodeBody(PatchFragStart(Canonical(pushed),
                                 UdpHeaderLen + SerializedBodyLen(Canonical(pushed))))
    PROVE  \E opts, at : /\ SerializedAs(pushed, b, opts)
                         /\ Laid(SubSeq(b, OcsLen + 1, Len(b)), opts, at)
<1>1. PICK n : n = Len(pushed)
    BY Zenon
<1> DEFINE D == DOMAIN pushed
<1>2. n \in Nat /\ D = 1 .. n
    BY <1>1, SMT
<1>3. PICK c : c = Canonical(pushed)
    BY Zenon
<1>4. PICK p \in Bijection(D, D) :
          /\ c = [k \in D |-> pushed[p[k]]]
          /\ \A i, j \in D : i < j => Precedes(pushed, p[i], p[j])
    BY <1>3, CanonicalOrders, Zenon
<1>5. /\ \A k \in D : p[k] \in D
      /\ \A k, l \in D : p[k] = p[l] => k = l
      /\ \A x \in D : \E k \in D : p[k] = x
    <2>1. p \in [D -> D] /\ \A x \in D : \E k \in D : p[k] = x
        BY Zenon DEF Bijection, Surjection
    <2>2. DOMAIN p = D
        BY <2>1, Zenon
    <2>3. \A k, l \in D : p[k] = p[l] => k = l
        BY <2>2, Zenon DEF Bijection, Injection, IsInjective
    <2> QED
        BY <2>1, <2>3, Zenon
<1>6. /\ \A x \in D : pushed[x] \in Encodable
      /\ \A x \in D : FragSized(pushed[x])
      /\ \A x, y \in D : pushed[x].kind = FRAG /\ pushed[y].kind = FRAG => x = y
    BY <1>1, <1>2, ValidatedFacts, Zenon
<1> HIDE DEF D
<1>7. \A k \in D : c[k] = pushed[p[k]] /\ c[k] \in Encodable
    BY <1>4, <1>5, <1>6, Zenon
<1>8. DOMAIN c = D /\ c = [k \in D |-> c[k]]
    BY <1>4, Zenon
<1>9. c \in Seq(Encodable) /\ Len(c) = n
    BY <1>2, <1>7, <1>8, SMT
<1>10. PICK start : start = UdpHeaderLen + SerializedBodyLen(c)
    BY Zenon
<1>11. start \in U16
    <2>1. SerializedBodyLen(c) \in Nat
        <3>1. EncodeBody(c) \in Seq(Byte) /\ Len(EncodeBody(c)) = SerializedBodyLen(c)
            BY <1>9, BodyLaidOut, Zenon
        <3>2. \A s \in Seq(Byte) : Len(s) \in Nat
            BY SMT
        <3> QED
            BY <3>1, <3>2, Zenon
    <2>2. start \in Nat
        BY <1>10, <2>1, SMT DEF UdpHeaderLen
    <2>3. start <= U16Max
        BY <1>3, <1>10, Zenon
    <2> QED
        BY <2>2, <2>3, U16Is, Zenon
<1>12. PICK opts : opts = PatchFragStart(c, start)
    BY Zenon
<1>13. \A k \in D : opts[k] = Patch(c[k], start)
    BY <1>8, <1>12, Zenon DEF PatchFragStart, Patch
<1>14. ASSUME NEW k \in D
       PROVE  /\ opts[k] \in Encodable /\ opts[k].kind = c[k].kind
              /\ Len(opts[k].value) = Len(c[k].value)
              /\ Content(opts[k]) = Content(c[k])
              /\ opts[k].kind = FRAG => ReadU16(opts[k].value, 0) = start
    <2>1. c[k] \in Encodable /\ FragSized(c[k])
        BY <1>5, <1>6, <1>7, Zenon
    <2>2. PICK q : q = Patch(c[k], start)
        BY Zenon
    <2>3. /\ Patch(c[k], start) \in Encodable /\ Patch(c[k], start).kind = c[k].kind
          /\ Len(Patch(c[k], start).value) = Len(c[k].value)
          /\ Content(Patch(c[k], start)) = Content(c[k])
        BY <1>11, <2>1, PatchedOption, Zenon
    <2>4. c[k].kind = FRAG => ReadU16(Patch(c[k], start).value, 0) = start
        BY <1>11, <2>1, PatchedOption, Zenon
    <2>5. opts[k] = q
        BY <1>13, <2>2, Zenon
    <2> QED
        BY <2>2, <2>3, <2>4, <2>5, Zenon
<1>15. opts \in Seq(Encodable) /\ Len(opts) = n
    <2>1. DOMAIN opts = D /\ opts = [k \in D |-> opts[k]]
        BY <1>8, <1>12, Zenon DEF PatchFragStart
    <2>2. \A k \in D : opts[k] \in Encodable
        BY <1>14, Zenon
    <2> QED
        BY <1>2, <2>1, <2>2, SMT
<1>16. SerializedBodyLen(opts) = SerializedBodyLen(c)
    <2>1. \A k \in 1 .. Len(opts) : Len(opts[k].value) = Len(c[k].value)
        BY <1>2, <1>14, <1>15, Zenon
    <2> QED
        BY <1>9, <1>15, <2>1, SameMeasure, Zenon
<1>17. b = EncodeBody(opts)
    BY <1>3, <1>10, <1>12, Zenon
<1>18. /\ Len(b) = SerializedBodyLen(c) /\ Len(b) % 2 = 0
       /\ \E at : Laid(SubSeq(b, OcsLen + 1, Len(b)), opts, at)
    BY <1>15, <1>16, <1>17, BodyLaidOut, Zenon
<1>19. \A k \in D : Content(opts[k]) = Content(pushed[p[k]]) /\ opts[k].kind = pushed[p[k]].kind
    BY <1>7, <1>14, Zenon
<1>20. \A x \in D : CanonicalRank(pushed[x].kind) \in Nat /\ pushed[x].kind \in Byte
    BY <1>6, EncodableFacts, RankFacts, Zenon
<1>21. ASSUME NEW i \in D, NEW j \in D, i < j, opts[i].kind = opts[j].kind PROVE p[i] < p[j]
    <2>1. PICK r : r = CanonicalRank(pushed[p[i]].kind)
        BY Zenon
    <2>2. r \in Nat /\ CanonicalRank(pushed[p[j]].kind) = r
        BY <1>5, <1>19, <1>20, <1>21, <2>1, Zenon
    <2>3. ~(r < r)
        BY <2>2, SMT
    <2>4. Precedes(pushed, p[i], p[j])
        BY <1>4, <1>21, Zenon
    <2> QED
        BY <2>1, <2>2, <2>3, <2>4, Zenon DEF Precedes
<1>22. ASSUME NEW k \in D, opts[k].kind = FRAG
       PROVE  k = 1 /\ ReadU16(opts[k].value, 0) = UdpHeaderLen + Len(b)
    <2>1. ReadU16(opts[k].value, 0) = UdpHeaderLen + Len(b)
        BY <1>10, <1>14, <1>18, <1>22, Zenon
    <2>2. ASSUME k # 1 PROVE FALSE
        <3>1. 1 \in D /\ 1 < k
            BY <1>2, <2>2, SMT
        <3>2. Precedes(pushed, p[1], p[k])
            BY <1>4, <3>1, Zenon
        <3>3. pushed[p[k]].kind = FRAG /\ p[k] \in D /\ p[1] \in D
            BY <1>5, <1>19, <1>22, <3>1, Zenon
        <3>4. PICK r : r = CanonicalRank(pushed[p[1]].kind)
            BY Zenon
        <3>5. r \in Nat /\ CanonicalRank(pushed[p[k]].kind) = 0
            BY <1>20, <3>3, <3>4, RankFacts, Zenon
        <3>6. r < 0 \/ r = 0
            BY <3>2, <3>4, <3>5, Zenon DEF Precedes
        <3>7. r = 0
            BY <3>5, <3>6, SMT
        <3>8. pushed[p[1]].kind = FRAG
            BY <1>20, <3>3, <3>4, <3>7, RankFacts, Zenon
        <3>9. 1 = k
            BY <1>5, <1>6, <3>1, <3>3, <3>8, Zenon
        <3> QED
            BY <2>2, <3>9, Zenon
    <2> QED
        BY <2>1, <2>2, Zenon
<1>23. ASSUME NEW t \in Typed, RawFromTyped(t) \in Range(pushed)
       PROVE  \E k \in D : opts[k].kind = t.kind /\ DecodesTo(t, opts[k].value)
    <2>1. PICK x \in D : pushed[x] = RawFromTyped(t)
        BY <1>23, Zenon DEF Range, D
    <2>2. PICK k \in D : p[k] = x
        BY <1>5, Zenon
    <2>3. opts[k] = Patch(RawFromTyped(t), start)
        BY <1>7, <1>13, <2>1, <2>2, Zenon
    <2>4. t \in TypedOptionType
        BY TypedAssumption, Zenon
    <2> QED
        BY <1>11, <2>3, <2>4, TypedSurvives, Zenon
<1>24. SerializedAs(pushed, b, opts)
    BY <1>1, <1>3, <1>15, <1>18, <1>19, <1>21, <1>22, <1>23, Zenon DEF SerializedAs, D
<1> QED
    BY <1>18, <1>24, Zenon

-----------------------------------------------------------------------------
\* The items lie one behind the other, before pos.
Ordered ==
    \A i, j \in DOMAIN items :
        items[i].from < pos /\ (i < j => items[i].from < items[j].from)

\* Where the k-th of the options laid out with the ends at begins.
StartOf(at, k) == RoundUpEven(at[k - 1])

\* The iterator has yielded the first k of the options, and no other.
Yielded(opts, at, k) ==
    /\ \A i \in Read : \E j \in 1 .. k :
           /\ items[i].kind = opts[j].kind /\ items[i].value = opts[j].value
           /\ items[i].from = StartOf(at, j)
    /\ \A j \in 1 .. k : \E i \in Read : items[i].from = StartOf(at, j)

\* It stands behind the k-th option, behind the NOP that follows it, or behind EOL.
Stands(opts, at, k) ==
    \/ ~done /\ pos = at[k] /\ current_nop_run = 0
    \/ ~done /\ pos = at[k] + 1 /\ at[k] % 2 = 1 /\ k < Len(opts) /\ current_nop_run = 1
    \/ done /\ pos = at[k] + 1 /\ k = Len(opts)

Reading(opts, at) ==
    /\ items \in Seq(ItemType) /\ pos \in Nat /\ Ordered
    /\ error = None /\ max_nop_run \in {0, 1}
    /\ \E k \in 0 .. Len(opts) : Yielded(opts, at, k) /\ Stands(opts, at, k)

\* The inductive invariant: nothing is read before finish(), and what finish() has returned is read
\* as it was laid out.
CodecInv ==
    /\ options \in Seq(RawOptionType)
    /\ outcome = None => IterInit(bytes)
    /\ outcome = "Ok" => \E opts, at : /\ SerializedAs(options, body, opts)
                                       /\ Laid(bytes, opts, at)
                                       /\ Reading(opts, at)

\* Where things lie in a body.
LEMMA LaidFacts ==
    ASSUME NEW bs, NEW at, NEW opts \in Seq(Encodable), Laid(bs, opts, at)
    PROVE  /\ Len(opts) \in Nat /\ Len(bs) \in Nat
           /\ \A k \in 0 .. Len(opts) : at[k] \in Nat /\ at[k] < Len(bs)
           /\ Len(bs) - (at[Len(opts)] + 1) \in {0, 1}
           /\ \A k \in 1 .. Len(opts) : /\ StartOf(at, k) \in Nat /\ StartOf(at, k) % 2 = 0
                                        /\ StartOf(at, k) < at[k]
           /\ \A j, k \in 1 .. Len(opts) : j < k => StartOf(at, j) < StartOf(at, k)
<1>1. PICK n : n = Len(opts)
    BY Zenon
<1>2. n \in Nat /\ n \in 0 .. n
    BY <1>1, SMT
<1>3. /\ \A k \in 0 .. n : at[k] \in Nat
      /\ \A k \in 1 .. n : at[k] = RoundUpEven(at[k - 1]) + EncodedLen(Len(opts[k].value))
      /\ \A j \in 0 .. n : \A k \in j .. n : at[j] <= at[k]
      /\ Len(bs) = RoundUpEven(at[n] + 1)
    BY <1>1, Zenon DEF Laid
<1>4. Len(bs) \in Nat /\ at[n] + 1 <= Len(bs) /\ Len(bs) <= at[n] + 1 + 1 /\ at[n] \in Nat
    <2>1. at[n] \in Nat
        BY <1>2, <1>3, Zenon
    <2>2. PICK x : x = at[n] + 1
        BY Zenon
    <2>3. x \in Nat
        BY <2>1, <2>2, SMT
    <2>4. RoundUpEven(x) \in Nat /\ x <= RoundUpEven(x) /\ RoundUpEven(x) <= x + 1
        BY <2>3, RoundUp, Zenon
    <2> QED
        BY <1>3, <2>1, <2>2, <2>4, Zenon
<1>5. ASSUME NEW k \in 0 .. n PROVE at[k] \in Nat /\ at[k] < Len(bs)
    <2>1. n \in k .. n
        BY <1>2, SMT
    <2>2. at[k] <= at[n] /\ at[k] \in Nat
        BY <1>3, <2>1, Zenon
    <2> QED
        BY <1>4, <2>2, SMT
<1>6. ASSUME NEW k \in 1 .. n
      PROVE  /\ k - 1 \in 0 .. n /\ k \in 0 .. n
             /\ StartOf(at, k) \in Nat /\ StartOf(at, k) % 2 = 0 /\ StartOf(at, k) < at[k]
             /\ at[k - 1] <= StartOf(at, k)
    <2>1. k - 1 \in 0 .. n /\ k \in 0 .. n
        BY <1>2, SMT
    <2>2. PICK s : s = StartOf(at, k)
        BY Zenon
    <2>3. at[k - 1] \in Nat /\ s = RoundUpEven(at[k - 1])
        BY <1>3, <2>1, <2>2, Zenon DEF StartOf
    <2>4. s \in Nat /\ s % 2 = 0 /\ at[k - 1] <= s
        BY <2>3, RoundUp, Zenon
    <2>5. PICK e : e = EncodedLen(Len(opts[k].value))
        BY Zenon
    <2>6. e \in Nat /\ e # 0
        <3>1. PICK o \in Encodable : o = opts[k]
            BY <1>1, SMT
        <3>2. Len(o.value) \in Nat
            BY EncodableFacts, Zenon
        <3>3. EncodedLen(Len(o.value)) \in Nat /\ EncodedLen(Len(o.value)) # 0
            BY <3>2, SMT DEF EncodedLen
        <3> QED
            BY <2>5, <3>1, <3>3, Zenon
    <2>7. at[k] = s + e
        BY <1>3, <2>3, <2>5, Zenon
    <2>8. s < at[k]
        BY ONLY <2>4, <2>6, <2>7, SMT
    <2> QED
        BY <2>1, <2>2, <2>4, <2>8, Zenon
<1>7. ASSUME NEW j \in 1 .. n, NEW k \in 1 .. n, j < k PROVE StartOf(at, j) < StartOf(at, k)
    <2>1. j \in 0 .. n /\ k - 1 \in j .. n /\ k - 1 \in 0 .. n
        BY <1>2, <1>7, SMT
    <2>2. at[j] <= at[k - 1] /\ at[j] \in Nat /\ at[k - 1] \in Nat
        BY <1>3, <2>1, Zenon
    <2>3. /\ StartOf(at, j) < at[j] /\ at[k - 1] <= StartOf(at, k)
          /\ StartOf(at, j) \in Nat /\ StartOf(at, k) \in Nat
        BY <1>6, Zenon
    <2> QED
        BY ONLY <2>2, <2>3, SMT
<1>8. Len(bs) - (at[n] + 1) \in {0, 1}
    BY <1>4, SMT
<1> QED
    BY <1>1, <1>2, <1>4, <1>5, <1>6, <1>7, <1>8, Zenon

\* What yielding an item changes.
LEMMA YieldFacts ==
    ASSUME items \in Seq(ItemType), pos \in Nat, pos' \in Nat, pos < pos', Ordered,
           NEW it \in ItemType, it.from = pos, items' = Append(items, it)
    PROVE  /\ items' \in Seq(ItemType) /\ Ordered'
           /\ \A i \in Read : i \in DOMAIN items /\ items'[i] = items[i]
           /\ items'[Len(items) + 1] = it
           /\ IsSingleByte(it.kind) => Read' = Read
           /\ ~IsSingleByte(it.kind) => Read' = Read \cup {Len(items) + 1}
<1>1. PICK m : m = Len(items)
    BY Zenon
<1>2. m \in Nat /\ DOMAIN items = 1 .. m
    BY <1>1, SMT
<1>3. PICK x : x = Append(items, it)
    BY Zenon
<1>4. /\ x \in Seq(ItemType) /\ DOMAIN x = 1 .. m + 1
      /\ \A i \in 1 .. m : x[i] = items[i]
      /\ x[m + 1] = it
    BY <1>1, <1>3, SMT
<1>5. items' = x
    BY <1>3, Zenon
<1>6. \A i \in 1 .. m : items[i].from \in Nat
    <2>1. \A i \in 1 .. m : items[i] \in ItemType
        BY <1>1, SMT
    <2>2. \A y \in ItemType : y.from \in Nat
        BY SMT DEF ItemType
    <2> QED
        BY <2>1, <2>2, Zenon
<1>7. ASSUME NEW i \in 1 .. m + 1, NEW j \in 1 .. m + 1
      PROVE  x[i].from < pos' /\ (i < j => x[i].from < x[j].from)
    <2>1. CASE i \in 1 .. m
        <3>1. x[i] = items[i] /\ items[i].from \in Nat /\ items[i].from < pos
            BY <1>2, <1>4, <1>6, <2>1, Zenon DEF Ordered
        <3>2. x[i].from < pos'
            BY <3>1, SMT
        <3>3. CASE j \in 1 .. m
            BY <1>2, <1>4, <2>1, <3>2, <3>3, Zenon DEF Ordered
        <3>4. CASE j = m + 1
            BY <1>4, <3>1, <3>2, <3>4, Zenon
        <3>5. j \in 1 .. m \/ j = m + 1
            BY <1>2, SMT
        <3> QED
            BY <3>3, <3>4, <3>5, Zenon
    <2>2. CASE i = m + 1
        <3>1. ~(i < j)
            BY <1>2, <2>2, SMT
        <3> QED
            BY <1>4, <2>2, <3>1, Zenon
    <2>3. i \in 1 .. m \/ i = m + 1
        BY <1>2, SMT
    <2> QED
        BY <2>1, <2>2, <2>3, Zenon
<1>8. Ordered'
    BY <1>4, <1>5, <1>7, Zenon DEF Ordered
<1>9. \A i \in Read : i \in 1 .. m /\ items'[i] = items[i]
    BY <1>2, <1>4, <1>5, Zenon DEF Read
<1>10. 1 .. m + 1 = (1 .. m) \cup {m + 1} /\ m + 1 \notin 1 .. m
    BY <1>2, SMT
<1>11. IsSingleByte(it.kind) => Read' = Read
    BY <1>2, <1>4, <1>5, <1>10, Zenon DEF Read
<1>12. ~IsSingleByte(it.kind) => Read' = Read \cup {m + 1}
    BY <1>2, <1>4, <1>5, <1>10, Zenon DEF Read
<1> QED
    BY <1>1, <1>2, <1>4, <1>5, <1>8, <1>9, <1>11, <1>12, Zenon

\* A single byte is not one of the options.
LEMMA KeepsYielded ==
    ASSUME NEW opts, NEW at, NEW k, Yielded(opts, at, k),
           Read' = Read, \A i \in Read : items'[i] = items[i]
    PROVE  Yielded(opts, at, k)'
<1>1. \A i \in Read' : \E j \in 1 .. k :
          /\ items'[i].kind = opts[j].kind /\ items'[i].value = opts[j].value
          /\ items'[i].from = StartOf(at, j)
    BY ZenonT(30) DEF Yielded
<1>2. \A j \in 1 .. k : \E i \in Read' : items'[i].from = StartOf(at, j)
    BY Zenon DEF Yielded
<1> QED
    BY <1>1, <1>2, Zenon DEF Yielded

LEMMA SingleBytes == EOL # NOP /\ IsSingleByte(EOL) /\ IsSingleByte(NOP) /\ EOL \in Byte /\ NOP \in Byte
    BY SMT DEF EOL, NOP, IsSingleByte, Byte

\* Where the options end, the iterator yields EOL and is done.
LEMMA ReadsEol ==
    ASSUME NEW opts \in Seq(Encodable), NEW at, Laid(bytes, opts, at), Reading(opts, at),
           Yielded(opts, at, Len(opts)), ~done, pos = at[Len(opts)], NextItem
    PROVE  Reading(opts, at)'
<1>1. items \in Seq(ItemType) /\ pos \in Nat /\ Ordered /\ error = None /\ max_nop_run \in {0, 1}
    BY Zenon DEF Reading
<1>2. Kind = EOL
    BY Zenon DEF Laid, Kind
<1>3. NextEol
    BY <1>2, SingleBytes, Zenon DEF NextItem, NextNop, NextOption, NextFails
<1>4. PICK it : it = [kind |-> EOL, value |-> <<>>, from |-> pos, to |-> pos + 1]
    BY Zenon
<1>5. it \in ItemType /\ it.from = pos /\ it.kind = EOL
    BY <1>1, <1>4, SingleBytes, SMT DEF ItemType
<1>6. /\ items' = Append(items, it) /\ pos' = pos + 1 /\ done' = TRUE
      /\ error' = error /\ max_nop_run' = max_nop_run
    BY <1>2, <1>3, <1>4, Zenon DEF NextEol, Yield
<1>7. pos' \in Nat /\ pos < pos'
    BY <1>1, <1>6, SMT
<1>8. /\ items' \in Seq(ItemType) /\ Ordered'
      /\ Read' = Read /\ \A i \in Read : items'[i] = items[i]
    BY <1>1, <1>5, <1>6, <1>7, YieldFacts, SingleBytes, Zenon
<1>9. Yielded(opts, at, Len(opts))'
    BY <1>8, KeepsYielded, Zenon
<1>10. Stands(opts, at, Len(opts))'
    BY <1>6, Zenon DEF Stands
<1>11. Len(opts) \in 0 .. Len(opts)
    BY SMT
<1> QED
    BY <1>1, <1>6, <1>7, <1>8, <1>9, <1>10, <1>11, Zenon DEF Reading

\* Behind an option that ends at an odd offset, it yields a NOP.
LEMMA ReadsNop ==
    ASSUME NEW opts \in Seq(Encodable), NEW at, Laid(bytes, opts, at), Reading(opts, at),
           NEW k \in 0 .. Len(opts), k < Len(opts), at[k] % 2 = 1,
           Yielded(opts, at, k), ~done, pos = at[k], current_nop_run = 0, NextItem
    PROVE  Reading(opts, at)'
<1>1. items \in Seq(ItemType) /\ pos \in Nat /\ Ordered /\ error = None /\ max_nop_run \in {0, 1}
    BY Zenon DEF Reading
<1>2. PICK j : j = k + 1
    BY Zenon
<1>3. j \in 1 .. Len(opts) /\ j - 1 = k
    BY <1>2, SMT
<1>4. Kind = NOP
    BY <1>3, Zenon DEF Laid, Kind
<1>5. NextNop
    BY <1>4, SingleBytes, Zenon DEF NextItem, NextEol, NextOption, NextFails
<1>6. PICK it : it = [kind |-> NOP, value |-> <<>>, from |-> pos, to |-> pos + 1]
    BY Zenon
<1>7. it \in ItemType /\ it.from = pos /\ it.kind = NOP
    BY <1>1, <1>6, SingleBytes, SMT DEF ItemType
<1>8. /\ items' = Append(items, it) /\ pos' = pos + 1 /\ done' = done /\ error' = error
      /\ current_nop_run' = current_nop_run + 1
      /\ max_nop_run' = IF current_nop_run' > max_nop_run THEN current_nop_run' ELSE max_nop_run
    BY <1>4, <1>5, <1>6, Zenon DEF NextNop, Yield
<1>9. /\ pos' \in Nat /\ pos < pos' /\ current_nop_run' = 1 /\ max_nop_run' \in {0, 1}
    BY <1>1, <1>8, SMT
<1>10. /\ items' \in Seq(ItemType) /\ Ordered'
       /\ Read' = Read /\ \A i \in Read : items'[i] = items[i]
    BY <1>1, <1>7, <1>8, <1>9, YieldFacts, SingleBytes, Zenon
<1>11. Yielded(opts, at, k)'
    BY <1>10, KeepsYielded, Zenon
<1>12. Stands(opts, at, k)'
    BY <1>8, <1>9, Zenon DEF Stands
<1> QED
    BY <1>1, <1>8, <1>9, <1>10, <1>11, <1>12, Zenon DEF Reading

\* Where an option begins, it yields that option.
LEMMA ReadsOption ==
    ASSUME NEW opts \in Seq(Encodable), NEW at, Laid(bytes, opts, at), Reading(opts, at),
           NEW k \in 0 .. Len(opts), k < Len(opts),
           Yielded(opts, at, k), ~done, pos = RoundUpEven(at[k]), NextItem
    PROVE  Reading(opts, at)'
<1>1. items \in Seq(ItemType) /\ pos \in Nat /\ Ordered /\ error = None /\ max_nop_run \in {0, 1}
    BY Zenon DEF Reading
<1>2. PICK j : j = k + 1
    BY Zenon
<1>3. /\ j \in 1 .. Len(opts) /\ j - 1 = k /\ j \in 0 .. Len(opts)
      /\ 1 .. j = (1 .. k) \cup {j} /\ j \in 1 .. j
    BY <1>2, SMT
<1>4. PICK o \in Encodable : o = opts[j]
    BY <1>3, SMT
<1>5. PICK e : e = EncodedLen(Len(o.value))
    BY Zenon
<1>6. /\ bytes \in Seq(Byte) /\ EncodedAt(bytes, pos, o) /\ at[j] = pos + e
      /\ pos = StartOf(at, j)
    BY <1>3, <1>4, <1>5, Zenon DEF Laid, StartOf
<1>7. PICK f : f = Framing(bytes, pos)
    BY Zenon
<1>8. bytes[pos + 1] = o.kind /\ f.error = None /\ f.total = e /\ ValueOf(bytes, f) = o.value
    BY <1>1, <1>4, <1>5, <1>6, <1>7, FramingReads, Zenon
<1>9. /\ o.kind \in Byte /\ o.value \in Seq(Byte) /\ ~IsSingleByte(o.kind) /\ e \in Nat
      /\ Kind = o.kind
    BY <1>4, <1>5, <1>8, EncodableFacts, Zenon DEF Kind
<1>10. NextOption
    BY <1>7, <1>8, <1>9, SingleBytes, Zenon DEF NextItem, NextEol, NextNop, NextFails
<1>11. PICK it : it = [kind |-> o.kind, value |-> o.value, from |-> pos, to |-> pos + e]
    BY Zenon
<1>12. it \in ItemType /\ it.from = pos /\ it.kind = o.kind /\ it.value = o.value
    BY <1>1, <1>9, <1>11, SMT DEF ItemType
<1>13. /\ items' = Append(items, it) /\ pos' = pos + e /\ done' = done /\ error' = error
       /\ current_nop_run' = 0 /\ max_nop_run' = max_nop_run
    BY <1>7, <1>8, <1>9, <1>10, <1>11, Zenon DEF NextOption, Yield
<1>14. pos' \in Nat /\ pos < pos'
    <2>1. StartOf(at, j) < at[j] /\ at[j] \in Nat
        BY <1>3, LaidFacts, Zenon
    <2> QED
        BY <1>6, <1>13, <2>1, Zenon
<1>15. PICK last : last = Len(items) + 1
    BY Zenon
<1>16. /\ items' \in Seq(ItemType) /\ Ordered'
       /\ \A i \in Read : items'[i] = items[i]
       /\ Read' = Read \cup {last} /\ items'[last] = it
    BY <1>1, <1>9, <1>12, <1>13, <1>14, <1>15, YieldFacts, Zenon
<1>17. Yielded(opts, at, j)'
    <2>1. ASSUME NEW i \in Read'
          PROVE  \E h \in 1 .. j :
                     /\ items'[i].kind = opts[h].kind /\ items'[i].value = opts[h].value
                     /\ items'[i].from = StartOf(at, h)
        <3>1. CASE i \in Read
            <4>1. PICK h \in 1 .. k :
                      /\ items[i].kind = opts[h].kind /\ items[i].value = opts[h].value
                      /\ items[i].from = StartOf(at, h)
                BY <3>1, Zenon DEF Yielded
            <4>2. h \in 1 .. j
                BY <1>3, Zenon
            <4>3. items'[i] = items[i]
                BY <1>16, <3>1, Zenon
            <4> QED
                BY ONLY <4>1, <4>2, <4>3, Zenon
        <3>2. CASE i = last
            BY <1>3, <1>4, <1>6, <1>12, <1>16, <3>2, Zenon
        <3> QED
            BY <1>16, <3>1, <3>2, Zenon
    <2>2. ASSUME NEW h \in 1 .. j PROVE \E i \in Read' : items'[i].from = StartOf(at, h)
        <3>1. CASE h \in 1 .. k
            BY <1>16, <3>1, Zenon DEF Yielded
        <3>2. CASE h = j
            BY <1>6, <1>12, <1>16, <3>2, Zenon
        <3> QED
            BY <1>3, <3>1, <3>2, Zenon
    <2> QED
        BY <2>1, <2>2, Zenon DEF Yielded
<1>18. Stands(opts, at, j)'
    BY <1>6, <1>13, Zenon DEF Stands
<1> QED
    BY <1>1, <1>3, <1>13, <1>14, <1>16, <1>17, <1>18, Zenon DEF Reading

\* So next() reads a body as it was laid out.
LEMMA ReadsOn ==
    ASSUME NEW opts \in Seq(Encodable), NEW at, Laid(bytes, opts, at), Reading(opts, at), NextItem
    PROVE  Reading(opts, at)'
<1>1. PICK k \in 0 .. Len(opts) : Yielded(opts, at, k) /\ Stands(opts, at, k)
    BY Zenon DEF Reading
<1>2. ~done
    BY Zenon DEF NextItem, NextEol, NextNop, NextOption, NextFails, HasMore
<1>3. k = Len(opts) \/ k < Len(opts)
    BY SMT
<1>4. at[k] \in Nat
    BY LaidFacts, Zenon
<1>5. /\ at[k] % 2 \in {0, 1}
      /\ at[k] % 2 = 0 => RoundUpEven(at[k]) = at[k]
      /\ at[k] % 2 = 1 => RoundUpEven(at[k]) = at[k] + 1
    BY <1>4, RoundUp, Zenon
<1>6. CASE pos = at[k] /\ current_nop_run = 0
    <2>1. CASE k = Len(opts)
        BY <1>1, <1>2, <1>6, <2>1, ReadsEol, Zenon
    <2>2. CASE k < Len(opts) /\ at[k] % 2 = 1
        BY <1>1, <1>2, <1>6, <2>2, ReadsNop, Zenon
    <2>3. CASE k < Len(opts) /\ at[k] % 2 = 0
        BY <1>1, <1>2, <1>5, <1>6, <2>3, ReadsOption, Zenon
    <2>4. at[k] % 2 = 0 \/ at[k] % 2 = 1
        BY ONLY <1>5, SMT
    <2> QED
        BY <1>3, <2>1, <2>2, <2>3, <2>4, Zenon
<1>7. CASE pos = at[k] + 1 /\ at[k] % 2 = 1 /\ k < Len(opts)
    BY <1>1, <1>2, <1>5, <1>7, ReadsOption, Zenon
<1> QED
    BY <1>1, <1>2, <1>6, <1>7, Zenon DEF Stands

\* Once all of them are yielded, the options read are the options laid out, in their order.
LEMMA AllYielded ==
    ASSUME NEW opts \in Seq(Encodable), NEW at, Laid(bytes, opts, at), Reading(opts, at),
           Yielded(opts, at, Len(opts))
    PROVE  \E place \in Bijection(Read, 1 .. Len(opts)) :
               /\ \A i \in Read : /\ items[i].kind = opts[place[i]].kind
                                  /\ items[i].value = opts[place[i]].value
                                  /\ items[i].from = StartOf(at, place[i])
               /\ \A i, j \in Read : i < j => place[i] < place[j]
<1>1. PICK D : D = 1 .. Len(opts)
    BY Zenon
<1> DEFINE Match(i, j) == /\ items[i].kind = opts[j].kind /\ items[i].value = opts[j].value
                          /\ items[i].from = StartOf(at, j)
           place == [i \in Read |-> CHOOSE j \in D : Match(i, j)]
<1>2. \A i \in Read : \E j \in D : Match(i, j)
    BY <1>1, Zenon DEF Yielded
<1>3. \A i \in Read : place[i] \in D /\ Match(i, place[i])
    BY <1>2, Zenon
<1> HIDE DEF place
<1>4. \A i \in Read : items[i].from = StartOf(at, place[i])
    BY <1>3, Zenon
<1>5. \A i \in D : i \in Nat /\ StartOf(at, i) \in Nat
    <2>1. \A i \in D : i \in Nat
        BY <1>1, SMT
    <2> QED
        BY <1>1, <2>1, LaidFacts, Zenon
<1>6. \A i, j \in D : i < j => StartOf(at, i) < StartOf(at, j)
    BY <1>1, LaidFacts, Zenon
<1>7. \A i, j \in D : StartOf(at, i) = StartOf(at, j) => i = j
    <2> SUFFICES ASSUME NEW i \in D, NEW j \in D, StartOf(at, i) = StartOf(at, j) PROVE i = j
        BY Zenon
    <2>1. ~(i < j) /\ ~(j < i)
        <3>1. ~(StartOf(at, i) < StartOf(at, j)) /\ ~(StartOf(at, j) < StartOf(at, i))
            BY <1>5, SMT
        <3> QED
            BY <1>6, <3>1, Zenon
    <2>2. i \in Nat /\ j \in Nat
        BY <1>5, Zenon
    <2> QED
        BY ONLY <2>1, <2>2, SMT
<1>8. ASSUME NEW i \in Read, NEW j \in Read, i < j PROVE place[i] < place[j]
    <2>1. PICK x \in D : x = place[i]
        BY <1>3, Zenon
    <2>2. PICK y \in D : y = place[j]
        BY <1>3, Zenon
    <2>3. items[i].from < items[j].from
        BY <1>8, Zenon DEF Reading, Ordered, Read
    <2>4. StartOf(at, x) < StartOf(at, y)
        BY <1>4, <2>1, <2>2, <2>3, Zenon
    <2>5. x # y /\ ~(y < x)
        <3>1. ~(StartOf(at, y) < StartOf(at, x)) /\ StartOf(at, x) # StartOf(at, y)
            BY <1>5, <2>4, SMT
        <3> QED
            BY <1>6, <3>1, Zenon
    <2>6. x \in Nat /\ y \in Nat
        BY <1>5, Zenon
    <2>7. x < y
        BY ONLY <2>5, <2>6, SMT
    <2> QED
        BY <2>1, <2>2, <2>7, Zenon
<1>9. \A i, j \in Read : place[i] = place[j] => i = j
    <2> SUFFICES ASSUME NEW i \in Read, NEW j \in Read, place[i] = place[j] PROVE i = j
        BY Zenon
    <2>1. ~(place[i] < place[j]) /\ ~(place[j] < place[i])
        <3>1. place[i] \in Nat
            BY <1>3, <1>5, Zenon
        <3> QED
            BY <3>1, SMT
    <2>2. ~(i < j) /\ ~(j < i)
        BY <1>8, <2>1, Zenon
    <2>3. i \in Nat /\ j \in Nat
        <3>1. i \in DOMAIN items /\ j \in DOMAIN items /\ items \in Seq(ItemType)
            BY Zenon DEF Read, Reading
        <3> QED
            BY <3>1, SMT
    <2> QED
        BY ONLY <2>2, <2>3, SMT
<1>10. \A j \in D : \E i \in Read : place[i] = j
    <2> SUFFICES ASSUME NEW j \in D PROVE \E i \in Read : place[i] = j
        BY Zenon
    <2>1. PICK i \in Read : items[i].from = StartOf(at, j)
        BY <1>1, Zenon DEF Yielded
    <2>2. place[i] \in D /\ StartOf(at, place[i]) = StartOf(at, j)
        BY <1>3, <1>4, <2>1, Zenon
    <2>3. place[i] = j
        BY ONLY <1>7, <2>2, Zenon
    <2> QED
        BY <2>3, Zenon
<1>11. place \in [Read -> D]
    BY <1>3, Zenon DEF place
<1>12. place \in Bijection(Read, D)
    BY <1>9, <1>10, <1>11, Zenon DEF Bijection, Injection, Surjection, IsInjective
<1> QED
    BY <1>1, <1>3, <1>8, <1>12, Zenon

\* A body that is read to its end is read by an iterator that is done.
LEMMA ReadToEndIsDone ==
    ASSUME NEW opts \in Seq(Encodable), NEW at, Laid(bytes, opts, at), Reading(opts, at), ReadToEnd
    PROVE  /\ Yielded(opts, at, Len(opts)) /\ done
           /\ Len(bytes) - pos \in {0, 1}
<1>1. PICK k \in 0 .. Len(opts) : Yielded(opts, at, k) /\ Stands(opts, at, k)
    BY Zenon DEF Reading
<1>2. done
    <2> SUFFICES ASSUME ~done PROVE FALSE
        BY Zenon
    <2>1. pos = Len(bytes) /\ Len(bytes) \in Nat
        BY LaidFacts, Zenon DEF ReadToEnd
    <2>2. at[k] \in Nat /\ at[k] < Len(bytes)
        BY LaidFacts, Zenon
    <2>3. pos # at[k]
        BY <2>1, <2>2, SMT
    <2>4. pos = at[k] + 1 /\ at[k] % 2 = 1 /\ k < Len(opts)
        BY <1>1, <2>3, Zenon DEF Stands
    <2>5. PICK j : j = k + 1
        BY Zenon
    <2>6. j \in 1 .. Len(opts) /\ j - 1 = k /\ j \in 0 .. Len(opts)
        BY <2>4, <2>5, SMT
    <2>7. StartOf(at, j) = pos
        BY <2>2, <2>4, <2>6, RoundUp, Zenon DEF StartOf
    <2>8. pos < at[j] /\ at[j] < Len(bytes) /\ at[j] \in Nat
        BY <2>6, <2>7, LaidFacts, Zenon
    <2> QED
        BY <2>1, <2>8, SMT
<1>3. k = Len(opts) /\ pos = at[k] + 1
    BY <1>1, <1>2, Zenon DEF Stands
<1> QED
    BY <1>1, <1>2, <1>3, LaidFacts, Zenon

LEMMA Composed ==
    ASSUME NEW S, NEW T, NEW U, NEW f \in Bijection(S, T), NEW g \in Bijection(T, U)
    PROVE  [x \in S |-> g[f[x]]] \in Bijection(S, U)
<1>1. /\ f \in [S -> T] /\ g \in [T -> U]
      /\ \A x, y \in S : f[x] = f[y] => x = y
      /\ \A x, y \in T : g[x] = g[y] => x = y
      /\ \A y \in T : \E x \in S : f[x] = y
      /\ \A y \in U : \E x \in T : g[x] = y
    BY Zenon DEF Bijection, Injection, Surjection, IsInjective
<1>2. PICK h : h = [x \in S |-> g[f[x]]]
    BY Zenon
<1>3. \A x \in S : f[x] \in T /\ h[x] = g[f[x]] /\ g[f[x]] \in U
    BY <1>1, <1>2, Zenon
<1>4. h \in [S -> U]
    BY ONLY <1>2, <1>3, Zenon
<1>5. ASSUME NEW x \in S, NEW y \in S, h[x] = h[y] PROVE x = y
    <2>1. g[f[x]] = g[f[y]] /\ f[x] \in T /\ f[y] \in T
        BY <1>3, <1>5, Zenon
    <2>2. f[x] = f[y]
        BY <1>1, <2>1, Zenon
    <2> QED
        BY <1>1, <2>2, Zenon
<1>6. ASSUME NEW y \in U PROVE \E x \in S : h[x] = y
    <2>1. PICK z \in T : g[z] = y
        BY <1>1, Zenon
    <2>2. PICK x \in S : f[x] = z
        BY <1>1, Zenon
    <2> QED
        BY <1>3, <2>1, <2>2, Zenon
<1>7. h \in Bijection(S, U)
    BY <1>4, <1>5, <1>6, Zenon DEF Bijection, Injection, Surjection, IsInjective
<1> QED
    BY <1>2, <1>7, Zenon

\* The inductive invariant says what RoundTrip asks for.
LEMMA InvariantGivesRoundTrip ==
    ASSUME CodecInv
    PROVE  RoundTrip
<1> SUFFICES ASSUME ReadToEnd PROVE RoundTrip
    BY Zenon DEF RoundTrip
<1>1. PICK opts, at : SerializedAs(options, body, opts) /\ Laid(bytes, opts, at) /\ Reading(opts, at)
    BY Zenon DEF CodecInv, ReadToEnd
<1>2. opts \in Seq(Encodable) /\ Len(opts) = Len(options) /\ options \in Seq(RawOptionType)
    BY <1>1, Zenon DEF SerializedAs, CodecInv
<1>3. PICK D : D = DOMAIN options
    BY Zenon
<1>4. D = 1 .. Len(opts)
    BY <1>2, <1>3, SMT
<1>5. Yielded(opts, at, Len(opts)) /\ done /\ Len(bytes) - pos \in {0, 1}
    BY <1>1, <1>2, ReadToEndIsDone, Zenon
<1>6. error = None /\ max_nop_run <= 1
    <2>1. error = None /\ max_nop_run \in {0, 1}
        BY <1>1, Zenon DEF Reading
    <2> QED
        BY <2>1, SMT
<1>7. Len(body) = SerializedBodyLen(Canonical(options)) /\ Len(body) % 2 = 0
    BY <1>1, Zenon DEF SerializedAs
<1>8. PICK place \in Bijection(Read, D) :
          /\ \A i \in Read : /\ items[i].kind = opts[place[i]].kind
                             /\ items[i].value = opts[place[i]].value
                             /\ items[i].from = StartOf(at, place[i])
          /\ \A i, j \in Read : i < j => place[i] < place[j]
    BY <1>1, <1>2, <1>4, <1>5, AllYielded, ZenonT(30)
<1>9. /\ \A i \in Read : place[i] \in D
      /\ \A j \in D : \E i \in Read : place[i] = j
    BY <1>8, Zenon DEF Bijection, Injection, Surjection
<1>10. PICK p \in Bijection(D, D) :
           /\ \A k \in D : Content(opts[k]) = Content(options[p[k]])
           /\ \A i, j \in D : i < j /\ opts[i].kind = opts[j].kind => p[i] < p[j]
    BY <1>1, <1>3, Zenon DEF SerializedAs
<1>11. \E pushed \in Bijection(Read, D) :
           /\ \A i \in Read : Content(items[i]) = Content(options[pushed[i]])
           /\ \A i, j \in Read : i < j /\ items[i].kind = items[j].kind => pushed[i] < pushed[j]
    <2>1. PICK q : q = [i \in Read |-> p[place[i]]]
        BY Zenon
    <2>2. q \in Bijection(Read, D)
        BY <1>8, <1>10, <2>1, Composed, Zenon
    <2>3. \A i \in Read : q[i] = p[place[i]]
        BY <2>1, Zenon
    <2>4. \A i \in Read : Content(items[i]) = Content(opts[place[i]])
        BY <1>8, Zenon DEF Content
    <2>5. \A i \in Read : Content(items[i]) = Content(options[q[i]])
        BY <1>9, <1>10, <2>3, <2>4, Zenon
    <2>6. ASSUME NEW i \in Read, NEW j \in Read, i < j, items[i].kind = items[j].kind
          PROVE  q[i] < q[j]
        <3>1. place[i] < place[j] /\ place[i] \in D /\ place[j] \in D
            BY <1>8, <1>9, <2>6, Zenon
        <3>2. opts[place[i]].kind = opts[place[j]].kind
            BY <1>8, <2>6, Zenon
        <3>3. p[place[i]] < p[place[j]]
            BY <1>10, <3>1, <3>2, Zenon
        <3> QED
            BY <2>3, <3>3, Zenon
    <2> QED
        BY <2>2, <2>5, <2>6, Zenon
<1>12. \A i \in Read : items[i].from % 2 = 0
    <2>1. \A k \in D : StartOf(at, k) % 2 = 0
        BY <1>1, <1>2, <1>4, LaidFacts, Zenon
    <2> TAKE i \in Read
    <2>2. StartOf(at, place[i]) % 2 = 0
        BY <1>9, <2>1, Zenon
    <2>3. items[i].from = StartOf(at, place[i])
        BY <1>8, Zenon
    <2> QED
        BY ONLY <2>2, <2>3, SMT
<1>13. ASSUME NEW i \in Read, items[i].kind = FRAG
       PROVE  /\ \A j \in Read : i <= j
              /\ ReadU16(items[i].value, 0) = UdpHeaderLen + Len(body)
    <2>1. place[i] = 1 /\ ReadU16(opts[place[i]].value, 0) = UdpHeaderLen + Len(body)
        BY <1>1, <1>3, <1>8, <1>9, <1>13, Zenon DEF SerializedAs
    <2>2. ASSUME NEW j \in Read PROVE i <= j
        <3>1. place[j] \in D
            BY <1>9, Zenon
        <3>2. ~(place[j] < 1)
            BY <1>2, <1>4, <3>1, SMT
        <3>3. ~(j < i)
            BY <1>8, <2>1, <3>2, Zenon
        <3>4. i \in DOMAIN items /\ j \in DOMAIN items /\ items \in Seq(ItemType)
            BY <1>1, Zenon DEF Read, Reading
        <3> QED
            BY ONLY <3>3, <3>4, SMT
    <2> QED
        BY <1>8, <2>1, <2>2, Zenon
<1>14. ASSUME NEW t \in Typed, RawFromTyped(t) \in Range(options)
       PROVE  \E i \in Read :
                  /\ items[i].kind = t.kind
                  /\ LET back == Decode(t.kind, items[i].value)
                     IN  IF t.kind = FRAG THEN [back EXCEPT !.frag_start = t.frag_start] = t
                         ELSE back = t
    <2>1. PICK k \in D : opts[k].kind = t.kind /\ DecodesTo(t, opts[k].value)
        BY <1>1, <1>3, <1>14, Zenon DEF SerializedAs
    <2>2. PICK i \in Read : place[i] = k
        BY <1>9, Zenon
    <2>3. items[i].kind = t.kind /\ DecodesTo(t, items[i].value)
        BY <1>8, <2>1, <2>2, Zenon
    <2> QED
        BY <2>3, Zenon DEF DecodesTo
<1> QED
    BY <1>3, <1>5, <1>6, <1>7, <1>11, <1>12, <1>13, <1>14, Zenon DEF RoundTrip

\* Every step keeps the inductive invariant.
LEMMA CodecStep ==
    ASSUME CountingLaws, CodecInv, [CodecNext]_codecVars
    PROVE  CodecInv'
<1>1. ASSUME NEW o \in RawOptionType, Push(o) PROVE CodecInv'
    <2>1. options \in Seq(RawOptionType)
        BY Zenon DEF CodecInv
    <2>2. PICK x : x = Append(options, o)
        BY Zenon
    <2>3. x \in Seq(RawOptionType)
        BY <2>1, <2>2, SMT
    <2>4. options' = x /\ outcome = None /\ UNCHANGED <<outcome, body, iterVars>>
        BY <1>1, <2>2, Zenon DEF Push, CanPush
    <2>5. outcome' = None /\ None # "Ok"
        BY <2>4, OutcomesAssumption, Zenon
    <2>6. IterInit(bytes)'
        BY <2>4, Zenon DEF CodecInv, IterInit, iterVars
    <2> QED
        BY <2>3, <2>4, <2>5, <2>6, Zenon DEF CodecInv
<1>2. CASE \E t \in Typed : PushTyped(t)
    <2>1. PICK t \in Typed : Push(RawFromTyped(t))
        BY <1>2, Zenon DEF PushTyped
    <2>2. t \in TypedOptionType
        BY TypedAssumption, Zenon
    <2>3. RawFromTyped(t) \in RawOptionType
        BY <2>2, RawFromTypedIs, EncodableFacts, Zenon
    <2> QED
        BY <1>1, <2>1, <2>3, Zenon
<1>3. CASE \E o \in Raw : Push(o)
    BY <1>1, <1>3, RawAssumption, Zenon
<1>4. CASE FinishFails
    <2>1. outcome' # None /\ outcome' # "Ok" /\ options' = options
        <3>1. Validate(options) # "Ok"
            <4>1. None # "Ok"
                BY OutcomesAssumption, Zenon
            <4>2. \A o : ValidateOption(o) # "Ok"
                BY <4>1, SMT DEF ValidateOption
            <4>3. \A i : Verdict(options, i) # "Ok"
                BY <4>1, <4>2, SMT DEF Verdict
            <4> QED
                BY <4>1, <4>3, Zenon DEF Validate
        <3> QED
            BY <1>4, <3>1, SMT DEF FinishFails
    <2> QED
        BY <2>1, Zenon DEF CodecInv
<1>5. CASE Finish
    <2>1. options \in Seq(RawOptionType) /\ IterInit(bytes)
        BY <1>5, Zenon DEF CodecInv, Finish
    <2>2. PICK b : b = body'
        BY Zenon
    <2>3. /\ Validate(options) = None
          /\ UdpHeaderLen + SerializedBodyLen(Canonical(options)) <= U16Max
          /\ b = EncodeBody(PatchFragStart(Canonical(options),
                            UdpHeaderLen + SerializedBodyLen(Canonical(options))))
          /\ bytes' = SubSeq(b, OcsLen + 1, Len(b))
          /\ outcome' = "Ok" /\ options' = options
          /\ UNCHANGED <<pos, done, error, current_nop_run, max_nop_run, items>>
        BY <1>5, <2>2, Zenon DEF Finish
    <2>4. PICK opts, at : SerializedAs(options, b, opts) /\ Laid(bytes', opts, at)
        BY <2>1, <2>3, FinishSerializes, Zenon
    <2>5. /\ pos' = 0 /\ done' = FALSE /\ error' = None /\ current_nop_run' = 0
          /\ max_nop_run' = 0 /\ items' = <<>>
        BY <2>1, <2>3, Zenon DEF IterInit
    <2>6. /\ items' \in Seq(ItemType) /\ pos' \in Nat /\ DOMAIN items' = {}
          /\ max_nop_run' \in {0, 1}
        BY <2>5, SMT
    <2>7. Read' = {}
        BY <2>6, Zenon DEF Read
    <2>8. Ordered'
        BY <2>6, Zenon DEF Ordered
    <2>9. 0 \in 0 .. Len(opts) /\ 1 .. 0 = {}
        <3>1. opts \in Seq(Encodable)
            BY <2>4, Zenon DEF SerializedAs
        <3> QED
            BY <3>1, SMT
    <2>10. Yielded(opts, at, 0)'
        BY <2>7, <2>9, Zenon DEF Yielded
    <2>11. at[0] = 0
        BY <2>4, Zenon DEF Laid
    <2>12. Stands(opts, at, 0)'
        BY <2>5, <2>11, Zenon DEF Stands
    <2>13. Reading(opts, at)'
        BY <2>5, <2>6, <2>8, <2>9, <2>10, <2>12, Zenon DEF Reading
    <2>14. SerializedAs(options', body', opts)
        BY <2>2, <2>3, <2>4, Zenon
    <2>15. outcome' # None
        BY <2>3, OutcomesAssumption, Zenon
    <2> QED
        BY <2>1, <2>3, <2>4, <2>13, <2>14, <2>15, Zenon DEF CodecInv
<1>6. CASE \E bs \in Inputs : Receive(bs)
    <2>1. options' = options /\ outcome' = "Foreign"
        BY <1>6, Zenon DEF Receive
    <2>2. outcome' # None /\ outcome' # "Ok"
        <3>1. "Foreign" # "Ok"
            BY SMT
        <3> QED
            BY <2>1, <3>1, OutcomesAssumption, Zenon
    <2> QED
        BY <2>1, <2>2, Zenon DEF CodecInv
<1>7. CASE Iterate
    <2>1. /\ outcome \in {"Ok", "Foreign"} /\ NextItem
          /\ options' = options /\ outcome' = outcome /\ body' = body
        BY <1>7, Zenon DEF Iterate, builderVars
    <2>2. outcome' # None
        BY <2>1, OutcomesAssumption, Zenon
    <2>3. bytes' = bytes
        BY <2>1, Zenon DEF NextItem, NextEol, NextNop, NextOption, NextFails
    <2>4. ASSUME outcome = "Ok"
          PROVE  \E opts, at : /\ SerializedAs(options', body', opts)
                               /\ Laid(bytes', opts, at)
                               /\ Reading(opts, at)'
        <3>1. PICK opts, at : /\ SerializedAs(options, body, opts)
                              /\ Laid(bytes, opts, at)
                              /\ Reading(opts, at)
            BY <2>4, Zenon DEF CodecInv
        <3>2. opts \in Seq(Encodable)
            BY <3>1, Zenon DEF SerializedAs
        <3>3. Reading(opts, at)'
            BY <2>1, <3>1, <3>2, ReadsOn, Zenon
        <3>4. SerializedAs(options', body', opts) /\ Laid(bytes', opts, at)
            BY <2>1, <2>3, <3>1, Zenon
        <3> QED
            BY <3>3, <3>4, Zenon
    <2> QED
        BY <2>1, <2>2, <2>4, Zenon DEF CodecInv
<1>8. CASE UNCHANGED codecVars
    <2>1. /\ options' = options /\ outcome' = outcome /\ body' = body /\ bytes' = bytes /\ pos' = pos
          /\ done' = done /\ error' = error /\ current_nop_run' = current_nop_run
          /\ max_nop_run' = max_nop_run /\ items' = items
        BY <1>8, Zenon DEF codecVars, builderVars, iterVars
    <2>2. outcome' = None => IterInit(bytes)'
        BY <2>1, Zenon DEF CodecInv, IterInit
    <2>3. \A opts, at : Reading(opts, at) => Reading(opts, at)'
        <3>1. Read' = Read /\ (Ordered => Ordered')
            BY <2>1, Zenon DEF Read, Ordered
        <3>2. \A opts, at, k : Stands(opts, at, k) => Stands(opts, at, k)'
            BY <2>1, Zenon DEF Stands
        <3>3. \A opts, at, k : Yielded(opts, at, k) => Yielded(opts, at, k)'
            BY <2>1, <3>1, KeepsYielded, Zenon
        <3> QED
            BY <2>1, <3>1, <3>2, <3>3, Zenon DEF Reading
    <2> QED
        BY <2>1, <2>2, <2>3, Zenon DEF CodecInv
<1> QED
    BY <1>2, <1>3, <1>4, <1>5, <1>6, <1>7, <1>8, Zenon DEF CodecNext

\* It holds before anything is pushed.
LEMMA CodecStart ==
    ASSUME CodecInit
    PROVE  CodecInv
<1>1. options = <<>> /\ outcome = None /\ IterInit(<<>>) /\ None # "Ok"
    BY OutcomesAssumption, Zenon DEF CodecInit
<1>2. options \in Seq(RawOptionType)
    BY <1>1, SMT
<1>3. IterInit(bytes)
    BY <1>1, Zenon DEF IterInit
<1> QED
    BY <1>1, <1>2, <1>3, Zenon DEF CodecInv

-----------------------------------------------------------------------------
\* A new iterator tiles what it has consumed, which is nothing.
LEMMA NewIterTiles ==
    ASSUME bytes' \in Seq(Byte), pos' = 0, done' = FALSE, items' = <<>>
    PROVE  IterInv'
<1>1. <<>> \in Seq(ItemType) /\ Len(items') = 0 /\ Len(bytes') \in Nat
    BY SMT
<1>2. IterTypeInv'
    <2>1. 0 \in Nat
        BY SMT
    <2> QED
        BY <1>1, <2>1, Zenon DEF IterTypeInv
<1>3. ItemsTile'
    BY <1>1, SMT DEF ItemsTile, EndOf
<1> QED
    BY <1>2, <1>3, Zenon DEF IterInv

\* And so does that of a builder to which nothing was pushed.
LEMMA TilesStart ==
    ASSUME CodecInit
    PROVE  CodecInv /\ IterInv
<1>1. bytes = <<>> /\ pos = 0 /\ done = FALSE /\ items = <<>>
    BY Zenon DEF CodecInit, IterInit
<1>2. IterTypeInv
    <2>1. 0 \in Nat /\ <<>> \in Seq(Byte) /\ <<>> \in Seq(ItemType)
        BY SMT
    <2> QED
        BY <1>1, <2>1, Zenon DEF IterTypeInv
<1>3. ItemsTile
    BY <1>1, SMT DEF ItemsTile, EndOf
<1> QED
    BY <1>2, <1>3, CodecStart, Zenon DEF IterInv

\* Every step of the codec keeps the tiling.
LEMMA TilesStep ==
    ASSUME CountingLaws, CodecInv, IterInv, [CodecNext]_codecVars
    PROVE  CodecInv' /\ IterInv'
<1>1. CodecInv'
    BY CodecStep, Zenon
<1>2. CASE UNCHANGED iterVars \/ Iterate
    <2>1. [NextItem]_iterVars
        BY <1>2, Zenon DEF Iterate
    <2> QED
        BY <1>1, <2>1, IterStep, Zenon
<1>3. ASSUME outcome = None, bytes' \in Seq(Byte), pos' = pos, done' = done, items' = items
      PROVE  IterInv'
    BY <1>3, NewIterTiles, Zenon DEF CodecInv, IterInit
<1>4. CASE Finish
    <2>1. /\ outcome' = "Ok" /\ outcome = None
          /\ pos' = pos /\ done' = done /\ items' = items
        BY <1>4, Zenon DEF Finish
    <2>2. PICK opts, at : Laid(bytes', opts, at)
        BY <1>1, <2>1, Zenon DEF CodecInv
    <2>3. bytes' \in Seq(Byte)
        BY <2>2, Zenon DEF Laid
    <2> QED
        BY <1>1, <1>3, <2>1, <2>3, Zenon
<1>5. CASE \E bs \in Inputs : Receive(bs)
    <2>1. /\ outcome = None /\ bytes' \in Inputs
          /\ pos' = pos /\ done' = done /\ items' = items
        BY <1>5, Zenon DEF Receive
    <2>2. bytes' \in Seq(Byte)
        BY <2>1, InputsAssumption, Zenon
    <2> QED
        BY <1>1, <1>3, <2>1, <2>2, Zenon
<1>6. UNCHANGED iterVars \/ Iterate \/ Finish \/ \E bs \in Inputs : Receive(bs)
    BY Zenon DEF CodecNext, PushTyped, Push, FinishFails, codecVars
<1> QED
    BY <1>1, <1>2, <1>4, <1>5, <1>6, Zenon

-----------------------------------------------------------------------------
(* The laws, and what follows from them *)

INSTANCE FiniteSetTheorems

\* Well-foundedness of the naturals, and the library's facts about finite sets.
LEMMA LawsHold == CountingLaws
<1>1. ASSUME NEW T \in SUBSET Nat, T # {}
      PROVE  \E m \in T : \A n \in T : m <= n
    <2>1. IsWellFoundedOn(OpToRel(<, Nat), Nat)
        BY NatLessThanWellFounded, Zenon
    <2>2. PICK m \in T : \A n \in T : ~(<<n, m>> \in OpToRel(<, Nat))
        BY <1>1, <2>1, WFMin, Zenon
    <2>3. ASSUME NEW n \in T PROVE m <= n
        <3>1. ~(n < m)
            BY <2>2, Zenon DEF OpToRel
        <3> QED
            BY <3>1, SMT
    <2> QED
        BY <2>3, Zenon
<1>2. ASSUME NEW n \in Nat
      PROVE  IsFiniteSet(1 .. n) /\ Cardinality(1 .. n) = n
    <2>1. 1 \in Int /\ n \in Int
        BY SMT
    <2>2. IsFiniteSet(1 .. n) /\ Cardinality(1 .. n) = IF 1 > n THEN 0 ELSE n - 1 + 1
        BY <2>1, FS_Interval, Zenon
    <2>3. (IF 1 > n THEN 0 ELSE n - 1 + 1) = n
        BY SMT
    <2> QED
        BY <2>2, <2>3, SMT
<1>3. ASSUME NEW n \in Nat, NEW S \in SUBSET (1 .. n)
      PROVE  /\ Cardinality(S) \in 0 .. n /\ (Cardinality(S) = 0 => S = {})
             /\ \A T \in SUBSET S : /\ Cardinality(T) <= Cardinality(S)
                                    /\ Cardinality(T) = Cardinality(S) => T = S
    <2>1. IsFiniteSet(S) /\ Cardinality(S) <= n
        <3>1. PICK D : D = 1 .. n
            BY Zenon
        <3>2. IsFiniteSet(D) /\ Cardinality(D) = n /\ S \in SUBSET D
            BY <1>2, <3>1, Zenon
        <3> QED
            BY <3>2, FS_Subset, Zenon
    <2>2. Cardinality(S) \in Nat /\ (Cardinality(S) = 0 => S = {})
        BY <2>1, FS_CardinalityType, FS_EmptySet, Zenon
    <2>3. Cardinality(S) \in 0 .. n
        BY <2>1, <2>2, SMT
    <2>4. \A T \in SUBSET S : /\ Cardinality(T) <= Cardinality(S)
                              /\ Cardinality(T) = Cardinality(S) => T = S
        BY <2>1, FS_Subset, Zenon
    <2> QED
        BY <2>2, <2>3, <2>4, Zenon
<1>4. ASSUME NEW n \in Nat
      PROVE  Injection(1 .. n, 1 .. n) \subseteq Surjection(1 .. n, 1 .. n)
    BY <1>2, FS_Injection, Zenon
<1> QED
    BY <1>1, <1>3, <1>4, Zenon DEF CountingLaws

\* Whatever options are pushed, in whatever order, a body that finish() returns is read back by the
\* iterator as those options.
THEOREM RoundTripHolds == CodecSpec => []RoundTrip
<1>1. CodecInit => CodecInv
    BY CodecStart, Zenon
<1>2. CodecInv /\ [CodecNext]_codecVars => CodecInv'
    BY CodecStep, LawsHold, Zenon
<1>3. CodecInv => RoundTrip
    BY InvariantGivesRoundTrip, Zenon
<1> QED
    BY <1>1, <1>2, <1>3, PTL DEF CodecSpec

\* The options the iterator yields tile what it has consumed, behind a builder too.
THEOREM CodecTiles == CodecSpec => []ItemsTile
<1>1. CodecInit => CodecInv /\ IterInv
    BY TilesStart, Zenon
<1>2. CodecInv /\ IterInv /\ [CodecNext]_codecVars => CodecInv' /\ IterInv'
    BY TilesStep, LawsHold, Zenon
<1>3. IterInv => ItemsTile
    BY Zenon DEF IterInv
<1> QED
    BY <1>1, <1>2, <1>3, PTL DEF CodecSpec

=============================================================================
