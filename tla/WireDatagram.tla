---------------------------- MODULE WireDatagram ----------------------------
(***************************************************************************)
(* One datagram from assemble_datagram to process_datagram, byte by byte:  *)
(* udpopt-send may put deliberate faults into it (WireFaults of            *)
(* src/bin/udpopt-send.rs), the path may add IPv4 options or trailing      *)
(* bytes and may damage one byte.                                          *)
(***************************************************************************)
EXTENDS WireFormat

CONSTANTS
    UserData,           \* user data: sequences of bytes
    Bodies,             \* OCS-led option bodies; <<>> for a plain datagram
    Faults,             \* faults: [ocs, pad, zero_udp_checksum]
    Damage(_)           \* what a damaged byte may become

\* What assemble_datagram does not panic on, and what the command line of udpopt-send can ask for.
ASSUME DatagramsAssumption ==
    /\ UserData \subseteq Seq(Byte) /\ Bodies \subseteq Seq(Byte)
    /\ \A b \in Bodies : b = <<>> \/ Len(b) >= OcsLen
    /\ \A u \in UserData, b \in Bodies : DatagramLen(Len(u), Len(b)) <= U16Max
ASSUME FaultsAssumption ==
    \A f \in Faults :
        /\ f.ocs = None \/ (f.ocs \in Seq(Byte) /\ Len(f.ocs) = OcsLen)
        /\ f.pad = None \/ f.pad \in Byte
        /\ f.zero_udp_checksum \in BOOLEAN
ASSUME DamageAssumption == \A byte \in Byte : Damage(byte) \subseteq Byte
ASSUME NoneAssumption ==
    /\ None \notin Byte /\ None \notin Seq(Byte)
    /\ None \notin [starts_at : Nat, needs_pad : BOOLEAN, len : Nat]
    /\ None \notin [starts_at : Nat, needs_pad : BOOLEAN]

VARIABLES
    pc,           \* "build", "faults", "path", "received", or "refused" by the faults
    user, body,   \* what the application handed over
    faults,       \* the faults applied
    wire,         \* the datagram
    changed,      \* IPv4 options or trailing bytes were added on the path
    damaged,      \* history: what the path has damaged: "nothing", "content" or "length"
    delivery      \* what the receiver made of it

vars == <<pc, user, body, faults, wire, changed, damaged, delivery>>

NoFaults == [ocs |-> None, pad |-> None, zero_udp_checksum |-> FALSE]

\* surplus_layout of udpopt-send
CliSurplusLayout(datagram) ==
    LET starts_at == Ipv4HeaderLen + ReadU16(datagram, 24)
    IN  IF Len(datagram) < Ipv4HeaderLen + UdpHeaderLen \/ starts_at >= Len(datagram) THEN None
        ELSE [starts_at |-> starts_at, needs_pad |-> starts_at % 2 # 0]

\* WireFaults::apply refuses
FaultsRefused(f, datagram) ==
    /\ f.ocs # None \/ f.pad # None
    /\ LET layout == CliSurplusLayout(datagram)
       IN  layout # None => f.pad # None /\ ~layout.needs_pad

\* WireFaults::apply
Faulty(f, datagram) ==
    LET zeroed == IF f.zero_udp_checksum THEN Patch(datagram, 26, <<0, 0>>) ELSE datagram
        layout == CliSurplusLayout(datagram)
        padded == IF f.pad = None THEN zeroed ELSE Patch(zeroed, layout.starts_at, <<f.pad>>)
    IN  IF f.ocs = None THEN padded ELSE Patch(padded, OcsAt(layout), f.ocs)

\* The datagram with four bytes of IPv4 options and a new header checksum
WithIpOptions(b) ==
    LET header == <<70, 0>> \o U16Bytes(ReadU16(b, 2) + 4) \o Slice(b, 4, 10) \o <<0, 0>>
                  \o Slice(b, 12, 20) \o <<1, 1, 1, 1>>
    IN  Patch(header, 10, U16Bytes(InternetChecksum(header))) \o Slice(b, 20, Len(b))

-----------------------------------------------------------------------------
Init ==
    /\ pc = "build"
    /\ user = <<>> /\ body = <<>> /\ wire = <<>>
    /\ faults = NoFaults
    /\ changed = FALSE /\ damaged = "nothing"
    /\ delivery = None

Assemble(u, b) ==
    /\ pc = "build"
    /\ user' = u /\ body' = b
    /\ wire' = AssembleDatagram(u, b)
    /\ pc' = "faults"
    /\ UNCHANGED <<faults, changed, damaged, delivery>>

ApplyFaults(f) ==
    /\ pc = "faults"
    /\ ~FaultsRefused(f, wire)
    /\ wire' = Faulty(f, wire)
    /\ faults' = f
    /\ pc' = "path"
    /\ UNCHANGED <<user, body, changed, damaged, delivery>>

RefuseFaults(f) ==
    /\ pc = "faults"
    /\ FaultsRefused(f, wire)
    /\ pc' = "refused"
    /\ UNCHANGED <<user, body, faults, wire, changed, damaged, delivery>>

AddIpOptions ==
    /\ pc = "path" /\ ~changed /\ damaged = "nothing"
    /\ ReadU16(wire, 2) + 4 <= U16Max
    /\ wire' = WithIpOptions(wire)
    /\ changed' = TRUE
    /\ UNCHANGED <<pc, user, body, faults, damaged, delivery>>

AddTrailer ==
    /\ pc = "path" /\ ~changed /\ damaged = "nothing"
    /\ wire' = wire \o <<222, 173, 190>>
    /\ changed' = TRUE
    /\ UNCHANGED <<pc, user, body, faults, damaged, delivery>>

\* The datagrams b and c have the same IPv4 header length and the same UDP length.
SameLengths(b, c) ==
    LET udp_length(d) == ReadU16(d, 4 * (b[1] % 16) + 4)
    IN  b[1] % 16 = c[1] % 16 /\ udp_length(b) = udp_length(c)

DamageByte(i) ==
    /\ pc = "path" /\ damaged = "nothing"
    /\ \E v \in Damage(wire[i]) : v # wire[i] /\ wire' = [wire EXCEPT ![i] = v]
    /\ damaged' = IF SameLengths(wire, wire') THEN "content" ELSE "length"
    /\ UNCHANGED <<pc, user, body, faults, changed, delivery>>

Receive ==
    /\ pc = "path"
    /\ delivery' = Disposition(wire)
    /\ pc' = "received"
    /\ UNCHANGED <<user, body, faults, wire, changed, damaged>>

Next ==
    \/ \E u \in UserData, b \in Bodies : Assemble(u, b)
    \/ \E f \in Faults : ApplyFaults(f) \/ RefuseFaults(f)
    \/ AddIpOptions \/ AddTrailer
    \/ \E i \in DOMAIN wire : DamageByte(i)
    \/ Receive

Spec == Init /\ [][Next]_vars

-----------------------------------------------------------------------------
\* Properties

\* The surplus area has a pad byte: it begins at an odd offset.
Padded == Len(user) % 2 = 1

OptionBytes == Slice(body, OcsLen, Len(body))

\* By the definition of the ones' complement sum, this OCS field is right for the body.
OcsRight(field) ==
    LET words == Append(Words(Patch(body, 0, field)), Len(body) + (IF Padded THEN 1 ELSE 0))
    IN  OnesComplementOf(Total(words)) = U16Max

\* The rows of the receive disposition table (docs/requirements.md, FR-36) for what the sender
\* emitted.  The OCS is what was asked for, else the one computed, which is right and not zero.
ExpectedStatus ==
    IF body = <<>> THEN "Absent"
    ELSE IF faults.pad \notin {None, 0} THEN "Failed"
    ELSE IF faults.ocs = None THEN "Valid"
    ELSE IF faults.ocs = <<0, 0>> THEN IF faults.zero_udp_checksum THEN "Unused" ELSE "InvalidZero"
    ELSE IF OcsRight(faults.ocs) THEN "Valid"
    ELSE "Failed"

\* An undamaged datagram is received as the disposition table says, whatever its parity, its
\* IPv4 options, its trailing bytes and the faults asked for: the user data is always delivered
\* as it was sent, and the options are, to the byte, those sent or none.
DispositionMatrix ==
    (pc = "received" /\ damaged = "nothing") =>
        delivery = Payload(user, ExpectedStatus,
                           IF ExpectedStatus \in {"Valid", "Unused"} THEN OptionBytes ELSE <<>>)

\* One damaged byte, which may be any but one that says how long the IPv4 header or the UDP datagram
\* is: user data under a UDP checksum is delivered only as it was sent, and options that an OCS
\* vouches for are those that were sent.  With another length other bytes are summed, and the sums
\* may agree: <<255, 251>> under a UDP length damaged from 10 to 8 is delivered as no data.
DamageNotTrusted ==
    (pc = "received" /\ damaged # "length" /\ delivery.kind = "Payload") =>
        /\ ~faults.zero_udp_checksum => delivery.data = user
        /\ (delivery.status = "Valid" /\ faults.ocs = None /\ ~faults.zero_udp_checksum) =>
               delivery.options = OptionBytes

\* The places that compute the layout of the surplus area agree: what is assembled has the length
\* measured by datagram_len, and the receiver's locate_surplus and the one udpopt-send writes its
\* faults with find the area where assemble_datagram has put it.
LayoutsAgree ==
    pc = "faults" =>
        LET found == LocateSurplus(IpRepr(wire), UdpRepr(Slice(wire, 20, Len(wire))))
            cli == CliSurplusLayout(wire)
        IN  /\ Len(wire) = DatagramLen(Len(user), Len(body))
            /\ found = None <=> body = <<>>
            /\ cli = None <=> body = <<>>
            /\ body # <<>> =>
                   /\ found.starts_at = cli.starts_at /\ found.needs_pad = cli.needs_pad
                   /\ found.starts_at + found.len = Len(wire)
                   /\ OcsAt(found) % 2 = 0
                   /\ Slice(wire, OcsAt(found) + OcsLen, Len(wire)) = OptionBytes

=============================================================================
