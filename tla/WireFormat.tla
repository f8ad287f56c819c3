----------------------------- MODULE WireFormat -----------------------------
(***************************************************************************)
(* The bytes of an IPv4 datagram with a surplus area: what the sender      *)
(* writes (src/socket/send.rs, src/wire, src/options/ocs.rs) and what the  *)
(* receiver makes of them up to the options (process_datagram_inner).      *)
(*                                                                         *)
(* A datagram is a sequence of bytes; offsets count from zero as in the    *)
(* code, so the byte at offset n is b[n + 1].                              *)
(***************************************************************************)
EXTENDS OnesComplement

CONSTANTS Src, Dst,         \* addresses: four bytes each
          SrcPort, DstPort,
          None

ASSUME AddressesAssumption ==
    /\ Src \in Seq(Byte) /\ Len(Src) = 4
    /\ Dst \in Seq(Byte) /\ Len(Dst) = 4
    /\ SrcPort \in U16 /\ DstPort \in U16

Ipv4HeaderLen == 20
UdpHeaderLen == 8
OcsLen == 2
IpProtoUdp == 17
DefaultTtl == 64

\* A slice b[from..to] and a slice replaced in place
Slice(b, from, to) == SubSeq(b, from + 1, to)
Patch(b, at, bytes) == Slice(b, 0, at) \o bytes \o Slice(b, at + Len(bytes), Len(b))

InternetChecksum(bytes) == Finish(Accumulate(Words(bytes)))

-----------------------------------------------------------------------------
\* The sender

\* IpRepr::write, the checksum back-patched into bytes of zero
IpHeader(total_len) ==
    LET zeroed == <<69, 0>> \o U16Bytes(total_len) \o <<0, 0, 0, 0, DefaultTtl, IpProtoUdp, 0, 0>>
                  \o Src \o Dst
    IN  Patch(zeroed, 10, U16Bytes(InternetChecksum(zeroed)))

\* IpRepr::pseudo_header_sum
PseudoHeader(ip, udp_len) == Words(ip.src) \o Words(ip.dst) \o <<IpProtoUdp, udp_len>>

\* UdpHeader::compute_checksum
ComputeChecksum(ip, udp, data) ==
    NonZero(Finish(Accumulate(
        PseudoHeader(ip, udp.length) \o <<udp.src_port, udp.dst_port, udp.length>> \o Words(data))))

\* UdpHeader::write
UdpHeader(udp) ==
    U16Bytes(udp.src_port) \o U16Bytes(udp.dst_port) \o U16Bytes(udp.length)
    \o U16Bytes(udp.checksum)

\* Slip: a computed zero is stored as it is.
OcsComputeZero(body, surplus_len) ==
    LET zeroed == Patch(body, 0, <<0, 0>>)
    IN  Patch(body, 0, U16Bytes(Finish(Accumulate(Append(Words(zeroed), surplus_len)))))

\* ocs::compute
OcsCompute(body, surplus_len) ==
    LET zeroed == Patch(body, 0, <<0, 0>>)
    IN  Patch(body, 0, U16Bytes(NonZero(Finish(Accumulate(Append(Words(zeroed), surplus_len))))))

\* assemble_datagram
AssembleDatagram(user_data, options_body) ==
    LET udp_len == UdpHeaderLen + Len(user_data)
        natural_start == UdpHeaderLen + 20 + Len(user_data)
        pad == IF options_body # <<>> /\ natural_start % 2 = 1 THEN <<0>> ELSE <<>>
        surplus_len == IF options_body = <<>> THEN 0 ELSE Len(pad) + Len(options_body)
        ip == [src |-> Src, dst |-> Dst]
        udp == [src_port |-> SrcPort, dst_port |-> DstPort, length |-> udp_len, checksum |-> 0]
    IN  IpHeader(20 + udp_len + surplus_len)
        \o UdpHeader([udp EXCEPT !.checksum = ComputeChecksum(ip, udp, user_data)])
        \o user_data
        \o (IF options_body = <<>> THEN <<>> ELSE pad \o OcsCompute(options_body, surplus_len))

\* datagram_len of src/api/mod.rs, which measures what assemble_datagram will build
DatagramLen(payload_len, options_body_len) ==
    LET natural_start == Ipv4HeaderLen + UdpHeaderLen + payload_len
    IN  IF options_body_len = 0 THEN natural_start
        ELSE natural_start + (natural_start % 2) + options_body_len

-----------------------------------------------------------------------------
\* The receiver

\* The fields of IpRepr in bytes that IpParses accepts
IpRepr(b) ==
    [ihl |-> b[1] % 16, total_len |-> ReadU16(b, 2), src |-> Slice(b, 12, 16),
     dst |-> Slice(b, 16, 20)]

HeaderLen(ip) == ip.ihl * 4

TransportPayloadLen(ip) == IF ip.total_len < HeaderLen(ip) THEN 0 ELSE ip.total_len - HeaderLen(ip)

\* IpRepr::parse returns Ok: the checks in their order
IpParses(b) ==
    /\ b # <<>> /\ b[1] \div 16 = 4
    /\ Len(b) >= Ipv4HeaderLen
    /\ IpRepr(b).ihl >= 5
    /\ Len(b) >= HeaderLen(IpRepr(b))
    /\ HeaderLen(IpRepr(b)) <= IpRepr(b).total_len /\ IpRepr(b).total_len <= Len(b)
    /\ b[10] = IpProtoUdp
    /\ InternetChecksum(Slice(b, 0, HeaderLen(IpRepr(b)))) = 0

\* UdpHeader::parse
UdpRepr(b) ==
    [src_port |-> ReadU16(b, 0), dst_port |-> ReadU16(b, 2), length |-> ReadU16(b, 4),
     checksum |-> ReadU16(b, 6)]

UdpParses(b) == Len(b) >= UdpHeaderLen /\ UdpRepr(b).length >= UdpHeaderLen

\* Slip: no pad byte is expected.
LocateSurplusNoPad(ip, udp) ==
    LET surplus == TransportPayloadLen(ip) - udp.length
    IN  IF surplus < OcsLen THEN None
        ELSE [starts_at |-> HeaderLen(ip) + udp.length, needs_pad |-> FALSE, len |-> surplus]

\* locate_surplus of src/wire/surplus.rs, for a UDP length within the transport payload
LocateSurplus(ip, udp) ==
    LET surplus == TransportPayloadLen(ip) - udp.length
        natural_start == HeaderLen(ip) + udp.length
        needs_pad == natural_start % 2 = 1
    IN  IF surplus = 0 \/ surplus < (IF needs_pad THEN 1 ELSE 0) + OcsLen THEN None
        ELSE [starts_at |-> natural_start, needs_pad |-> needs_pad, len |-> surplus]

OcsAt(layout) == layout.starts_at + (IF layout.needs_pad THEN 1 ELSE 0)

\* ocs::validate
OcsValidate(body, surplus_len, udp_checksum_field) ==
    IF Len(body) < OcsLen THEN "Failed"
    ELSE IF ReadU16(body, 0) = 0
         THEN IF udp_checksum_field = 0 THEN "Unused" ELSE "InvalidZero"
    ELSE IF SumOf(Accumulate(Append(Words(body), surplus_len))) = U16Max THEN "Valid"
    ELSE "Failed"

Err == [kind |-> "Err"]
Payload(data, status, options) ==
    [kind |-> "Payload", data |-> data, status |-> status, options |-> options]

\* Slip: the UDP checksum is left to others.
UdpChecksumUnverified(ip, udp, user_data) == TRUE

\* The UDP checksum does not speak against the datagram.
UdpChecksumPasses(ip, udp, user_data) ==
    udp.checksum # 0 => ComputeChecksum(ip, udp, user_data) = udp.checksum

\* check_pad and ocs::validate: the OcsStatus of a datagram with a surplus area
SurplusStatus(datagram, layout, udp) ==
    IF layout.needs_pad /\ datagram[layout.starts_at + 1] # 0 THEN "Failed"
    ELSE OcsValidate(Slice(datagram, OcsAt(layout), Len(datagram)), layout.len, udp.checksum)

\* process_datagram_inner up to parse_options: the options are the bytes it is given.
Disposition(b) ==
    IF ~IpParses(b) THEN Err
    ELSE LET ip == IpRepr(b)
             udp_at == HeaderLen(ip)
             datagram == Slice(b, 0, HeaderLen(ip) + TransportPayloadLen(ip))
             segment == Slice(datagram, udp_at, Len(datagram))
         IN  IF ~UdpParses(segment) THEN Err
             ELSE LET udp == UdpRepr(segment)
                      user_data == Slice(segment, UdpHeaderLen, udp.length)
                      layout == LocateSurplus(ip, udp)
                      status == SurplusStatus(datagram, layout, udp)
                  IN  IF udp.length > TransportPayloadLen(ip) THEN Err
                      ELSE IF ~UdpChecksumPasses(ip, udp, user_data) THEN Err
                      ELSE IF layout = None THEN Payload(user_data, "Absent", <<>>)
                      ELSE IF status \notin {"Valid", "Unused"}
                           THEN Payload(user_data, status, <<>>)
                      ELSE Payload(user_data, status,
                                   Slice(datagram, OcsAt(layout) + OcsLen, Len(datagram)))

=============================================================================
