-------------------------------- MODULE Icmp6 --------------------------------
(***************************************************************************)
(* The IPv6 and ICMPv6 libraries of the two ends (IPv6.c of the end device *)
(* and of the gateway): the packets they build in a buffer that is used    *)
(* again, the checksum, and what the other end reads from the packet.      *)
(*                                                                         *)
(* A buffer is a sequence of bytes, as in the code, but a byte is 0..B-1,  *)
(* an address is two bytes and a link-layer address two; version, traffic  *)
(* class and flow label are one byte.  A packet travels as send_raw_package*)
(* sends it: its header and as many bytes as the payload length says.  The *)
(* codec that it crosses on its way to a device is in SchcCodec.           *)
(***************************************************************************)
EXTENDS Integers, Sequences, SequencesExt, Bitwise

CONSTANTS
  B,            (* 256: the values of a byte                               *)
  Size,         (* bytes of a buffer                                       *)
  Addresses,    (* addresses of the two ends and of targets                *)
  Macs,         (* link-layer addresses                                    *)
  Datas,        (* data of an echo request                                 *)
  Garbage,      (* what the device's buffer, a local variable, may hold    *)
  MaxPackets    (* bound: packets made                                     *)

W == B * B
Byte == 0..(B - 1)

ASSUME SizeAssumption ==
  /\ B \in Nat /\ B > 16 /\ {Size, MaxPackets} \subseteq Nat
  /\ Addresses \subseteq Byte \X Byte /\ Macs \subseteq Byte \X Byte
  /\ Datas \subseteq Seq(Byte) /\ Garbage \subseteq [1..Size -> Byte]

VARIABLES
  buffer,   (* of each end: Size bytes                                     *)
  wire,     (* the packet on its way, <<>> when there is none              *)
  turn,     (* <<step, end>>: "idle"; "built" in the end's buffer, "sent"  *)
            (* by it, "arrived" in its buffer                              *)
  meant,    (* history: what the packet was to say                         *)
  made      (* packets made                                                *)

vars == <<buffer, wire, turn, meant, made>>

Ends == {"device", "gateway"}
Other(e) == IF e = "device" THEN "gateway" ELSE "device"

(* Places in a buffer, from 1: version, length (2), next header, hop limit,*)
(* source, destination, and the message.                                   *)
Source == 6
Destination == 8
Header == 9             (* 40: the bytes of the IPv6 header                *)
Type == Header + 1
Sum == Header + 3
Options == Header + 5   (* 44: the fields that depend on the type          *)

Echo == 0   Reply == 1   RS == 5   RA == 6   NS == 7   NA == 8   Redirect == 9
ICMPv6 == 10            (* 58, the next header of ICMPv6                   *)

AllNodes == <<B - 1, 1>>
AllRouters == <<B - 1, 2>>
Zero == <<0, 0>>

Put(b, at, bytes) ==
  [i \in 1..Len(b) |-> IF i \in at..(at + Len(bytes) - 1) THEN bytes[i - at + 1] ELSE b[i]]
Take(b, at, n) == SubSeq(b, at, at + n - 1)
Length(b) == b[2] * B + b[3]
TwoBytes(n) == <<(n \div B) % B, n % B>>

(***************************************************************************)
(* checksum, checksum_icmpv6                                               *)
(***************************************************************************)
Fold[s \in Nat] == IF s < W THEN s ELSE Fold[(s % W) + (s \div W)]

(* Mutant: an odd last byte is added as the high byte of its word. *)
checksumOddHigh(bytes) ==
  LET word(i) == IF 2 * i <= Len(bytes) THEN bytes[2 * i - 1] + B * bytes[2 * i] ELSE B * bytes[2 * i - 1]
      sum == Fold[FoldLeft(+, 0, [i \in 1..((Len(bytes) + 1) \div 2) |-> word(i)])]
  IN  (W - 1) - ((sum % B) * B + (sum \div B))

(* Words are read in the byte order of the machine, low byte first; the    *)
(* bytes of the folded sum are swapped and complemented.                   *)
checksum(bytes) ==
  LET word(i) == bytes[2 * i - 1] + (IF 2 * i <= Len(bytes) THEN B * bytes[2 * i] ELSE 0)
      sum == Fold[FoldLeft(+, 0, [i \in 1..((Len(bytes) + 1) \div 2) |-> word(i)])]
  IN  (W - 1) - ((sum % B) * B + (sum \div B))

(* The pseudo header, with the length in one byte (aux), then the message  *)
(* up to length with its checksum field zero.                              *)
PseudoHeader(b) ==
  LET aux == Length(b) % B
  IN  Take(b, Source, 4) \o <<0, 0>> \o <<aux \div B, aux % B>> \o <<0, 0, 0, ICMPv6>>
checksum_icmpv6(b, length) ==
  checksum(PseudoHeader(b)
               \o Take(b, Type, 2) \o Take(b, Options, 4) \o <<0, 0>>
               \o SubSeq(b, Options + 4, length))

(* The end of every builder: the length up to offset and the checksum.     *)
Finish(b, offset) ==
  LET c == Put(b, 2, TwoBytes(offset - Header))
  IN  Put(c, Sum, TwoBytes(checksum_icmpv6(c, offset)))

(***************************************************************************)
(* The builders.  They write a prefix of the buffer they are given.        *)
(***************************************************************************)
IPv6Header(b, hop, src, dst) ==
  Put(b, 1, <<6>> \o Take(b, 2, 2) \o <<ICMPv6, hop>> \o src \o dst)
SourceMac(mac) == <<1, 1>> \o mac
Message(b, type, fields) ==
  Finish(Put(Put(b, Type, <<type, 0>>), Options, fields), Options + Len(fields) - 1)

(* Mutant: the device's takes the first bytes of what it is given, as the  *)
(* gateway's does.                                                         *)
router_solicitationFirstBytes(b, src, eui) ==
  Message(IPv6Header(b, B - 1, src, AllRouters), RS, <<0, 0, 0, 0>> \o SourceMac(Take(eui, 1, 2)))

(* The device's takes the EUI: its last bytes are the link-layer address.  *)
router_solicitation(b, src, eui) ==
  Message(IPv6Header(b, B - 1, src, AllRouters), RS, <<0, 0, 0, 0>> \o SourceMac(Take(eui, 3, 2)))

(* The two times and the lifetime are combined with what is in the buffer, *)
(* and the eight bytes before the addresses are left as they are.          *)
RouterTimes == <<B - 3, 8>> \o <<0, 0, 7, 5>> \o <<0, 0, 1, 24>>
router_advertisement(b, src, mac) ==
  LET times == [i \in 1..Len(RouterTimes) |-> b[Options + 1 + i] | RouterTimes[i]]
  IN  Message(Put(Put(b, Source, src), Destination, AllNodes), RA,
              <<0, 0>> \o times \o SourceMac(mac))

neighbor_solicitation(b, src, dst, target, mac) ==
  Message(IPv6Header(b, B - 1, src, dst), NS, <<0, 0, 0, 0>> \o target \o SourceMac(mac))

(* The solicited flag is set; there is no option.                          *)
neighbor_advertisement(b, src, dst, target) ==
  Message(IPv6Header(b, B - 1, src, dst), NA, <<B \div 4, 0, 0, 0>> \o target)

redirect(b, src, dst, target, mac) ==
  Message(IPv6Header(b, 1, src, dst), Redirect, <<0, 0, 0, 0>> \o target \o dst \o SourceMac(mac))

(* The echo request in the buffer becomes its reply: the addresses swapped *)
(* with src in place of the old destination, the type, the checksum.       *)
icmp_reply(b, src) ==
  LET c == Put(Put(Put(b, Source, src), Destination, Take(b, Source, 2)), Type, <<Reply>>)
  IN  Put(c, Sum, TwoBytes(checksum_icmpv6(c, Length(b) + Header)))

(***************************************************************************)
(* What an end reads from a packet                                         *)
(***************************************************************************)
get_IPv6_data_by_raw_package(b) ==
  [payload_length |-> Length(b), next_h |-> b[4], h_limit |-> b[5],
   src |-> Take(b, Source, 2), dst |-> Take(b, Destination, 2)]

HasTarget(type) == type \in {NS, NA}
OptionAt(type) ==
  CASE type = RS -> Options + 4
    [] type = RA -> Options + 12
    [] HasTarget(type) -> Options + 6
    [] OTHER -> 0

(* The first option is read if it is a source link-layer address (1) of    *)
(* eight bytes (1); how long the packet is does not matter.                *)
get_ICMP6_data_by_raw_payload(b) ==
  LET type == b[Type]
      at == OptionAt(type)
  IN  [type |-> type, checksum |-> Take(b, Sum, 2),
       target |-> IF HasTarget(type) THEN Take(b, Options + 4, 2) ELSE Zero,
       mac |-> IF at # 0 /\ Take(b, at, 2) = <<1, 1>> THEN Take(b, at + 2, 2) ELSE Zero]

(***************************************************************************)
(* Actions of one end                                                      *)
(***************************************************************************)
Meant(type, src, dst, target, mac) ==
  [type |-> type, src |-> src, dst |-> dst, target |-> target, mac |-> mac, data |-> <<>>]

Another == made < MaxPackets /\ made' = made + 1

Built(e, b, what) ==
  /\ turn[1] \in {"idle", "arrived"}
  /\ Another
  /\ buffer' = [buffer EXCEPT ![e] = b]
  /\ turn' = <<"built", e>>
  /\ meant' = what
  /\ UNCHANGED wire

Eui(mac) == <<2, 2>> \o mac

DeviceSolicits(src, mac) ==
  Built("device", router_solicitation(buffer["device"], src, Eui(mac)),
        Meant(RS, src, AllRouters, Zero, mac))
DeviceAsks(src, dst, target, mac) ==
  Built("device", neighbor_solicitation(buffer["device"], src, dst, target, mac),
        Meant(NS, src, dst, target, mac))
DeviceAnswers(src, dst, target) ==
  Built("device", neighbor_advertisement(buffer["device"], src, dst, target),
        Meant(NA, src, dst, target, Zero))

(* The gateway's library: its own copies of the builders.                  *)
GatewaySolicits(src, mac) ==
  Built("gateway",
        Message(IPv6Header(buffer["gateway"], B - 1, src, AllRouters), RS, <<0, 0, 0, 0>> \o SourceMac(mac)),
        Meant(RS, src, AllRouters, Zero, mac))

(* It solicits the target at the target's own address.                     *)
GatewayAsks(src, dst, mac) ==
  Built("gateway", neighbor_solicitation(buffer["gateway"], src, dst, dst, mac),
        Meant(NS, src, dst, dst, mac))
GatewayAnswers(src, dst, target) ==
  Built("gateway", neighbor_advertisement(buffer["gateway"], src, dst, target),
        Meant(NA, src, dst, target, Zero))

(* An advertisement is made in a buffer that holds a packet: it keeps the  *)
(* version, the next header and the hop limit.                             *)
Advertises(e, src, mac) ==
  /\ buffer[e][4] = ICMPv6
  /\ Built(e, router_advertisement(buffer[e], src, mac), Meant(RA, src, AllNodes, Zero, mac))
DeviceAdvertises(src, mac) == Advertises("device", src, mac)
GatewayAdvertises(src, mac) == Advertises("gateway", src, mac)

DeviceRedirects(src, dst, target, mac) ==
  Built("device", redirect(buffer["device"], src, dst, target, mac),
        Meant(Redirect, src, dst, Zero, Zero))
GatewayRedirects(src, dst, target, mac) ==
  Built("gateway", redirect(buffer["gateway"], src, dst, target, mac),
        Meant(Redirect, src, dst, Zero, Zero))

(* The end that received an echo request answers it in place.              *)
Replies(e, src) ==
  /\ turn = <<"arrived", e>> /\ meant.type = Echo
  /\ Another
  /\ buffer' = [buffer EXCEPT ![e] = icmp_reply(buffer[e], src)]
  /\ turn' = <<"built", e>>
  /\ meant' = [meant EXCEPT !.type = Reply, !.src = src, !.dst = meant.src]
  /\ UNCHANGED wire
DeviceReplies(src) == Replies("device", src)
GatewayReplies(src) == Replies("gateway", src)

(* A station of either side sends an echo request, which no function of    *)
(* the libraries builds.                                                   *)
Request(src, dst, data) ==
  Message(IPv6Header([i \in 1..Size |-> 0], B - 1, src, dst), Echo, <<0, 1, 0, 2>> \o data)
StationRequests(e, src, dst, data) ==
  /\ turn[1] \in {"idle", "arrived"}
  /\ Another
  /\ wire' = Take(Request(src, dst, data), 1, Header + 8 + Len(data))
  /\ turn' = <<"sent", Other(e)>>
  /\ meant' = [Meant(Echo, src, dst, Zero, Zero) EXCEPT !.data = data]
  /\ UNCHANGED buffer

(* send_raw_package: as many bytes as the payload length says, after the   *)
(* Ethernet header.                                                        *)
send_raw_package(e) ==
  /\ turn = <<"built", e>>
  /\ wire' = Take(buffer[e], 1, Header + Length(buffer[e]))
  /\ turn' = <<"sent", e>>
  /\ UNCHANGED <<buffer, meant, made>>

(* Mutant: the buffer is not cleared. *)
recive_raw_package_by_interfaceKeeps ==
  /\ turn = <<"sent", "device">>
  /\ buffer' = [buffer EXCEPT !["gateway"] = Put(buffer["gateway"], 1, wire)]
  /\ turn' = <<"arrived", "gateway">>
  /\ wire' = <<>>
  /\ UNCHANGED <<meant, made>>

(* The gateway clears its buffer first, then copies the packet.            *)
recive_raw_package_by_interface ==
  /\ turn = <<"sent", "device">>
  /\ buffer' = [buffer EXCEPT !["gateway"] = Put([i \in 1..Size |-> 0], 1, wire)]
  /\ turn' = <<"arrived", "gateway">>
  /\ wire' = <<>>
  /\ UNCHANGED <<meant, made>>

(* The device writes the packet into a buffer it does not clear.           *)
DeviceReceives ==
  /\ turn = <<"sent", "gateway">>
  /\ buffer' = [buffer EXCEPT !["device"] = Put(buffer["device"], 1, wire)]
  /\ turn' = <<"arrived", "device">>
  /\ wire' = <<>>
  /\ UNCHANGED <<meant, made>>

(***************************************************************************)
(* Specification                                                           *)
(***************************************************************************)
Init ==
  /\ \E g \in Garbage : buffer = [e \in Ends |-> IF e = "device" THEN g ELSE [i \in 1..Size |-> 0]]
  /\ wire = <<>>
  /\ turn = <<"idle", "gateway">>
  /\ meant = Meant(RS, Zero, Zero, Zero, Zero)
  /\ made = 0

Next ==
  \/ \E src \in Addresses, mac \in Macs :
       DeviceSolicits(src, mac) \/ GatewaySolicits(src, mac)
       \/ DeviceAdvertises(src, mac) \/ GatewayAdvertises(src, mac)
  \/ \E src, dst, target \in Addresses :
       DeviceAnswers(src, dst, target) \/ GatewayAnswers(src, dst, target)
  \/ \E src, dst, target \in Addresses, mac \in Macs :
       DeviceAsks(src, dst, target, mac)
       \/ DeviceRedirects(src, dst, target, mac) \/ GatewayRedirects(src, dst, target, mac)
  \/ \E src, dst \in Addresses, mac \in Macs : GatewayAsks(src, dst, mac)
  \/ \E src \in Addresses : DeviceReplies(src) \/ GatewayReplies(src)
  \/ \E e \in Ends, src, dst \in Addresses, data \in Datas : StationRequests(e, src, dst, data)
  \/ \E e \in Ends : send_raw_package(e)
  \/ recive_raw_package_by_interface
  \/ DeviceReceives

Spec == Init /\ [][Next]_vars

(***************************************************************************)
(* Properties                                                              *)
(***************************************************************************)
TypeOK ==
  /\ buffer \in [Ends -> [1..Size -> Byte]]
  /\ wire \in Seq(Byte)
  /\ turn \in {"idle", "built", "sent", "arrived"} \X Ends
  /\ meant.type \in Byte /\ made \in 0..MaxPackets

(* RFC 1071: the words, high byte first, of the pseudo header (addresses,  *)
(* length in two words, next header) and of the message with its checksum  *)
(* add up to -0 in one's complement.                                       *)
BigEndian(bytes) ==
  FoldLeft(+, 0, [i \in 1..((Len(bytes) + 1) \div 2) |->
    B * bytes[2 * i - 1] + (IF 2 * i <= Len(bytes) THEN bytes[2 * i] ELSE 0)])
Verifies(packet) ==
  (BigEndian(Take(packet, Source, 4)) + Length(packet) + ICMPv6
   + BigEndian(SubSeq(packet, Type, Len(packet)))) % (W - 1) = 0

(* Every packet on the wire has as many bytes as it says, and a checksum   *)
(* that a receiver verifies, whatever was in the buffer it was built in:   *)
(* the code adds the words in the order of the machine and swaps the sum,  *)
(* folds the carries in a loop, and takes an odd last byte as a low byte.  *)
ChecksumVerifies ==
  turn[1] = "sent" => Len(wire) = Header + Length(wire) /\ Verifies(wire)

(* What an end reads from a packet is what the other end meant: addresses, *)
(* type, target, link-layer address, data of an echo.  The link-layer      *)
(* address of a packet without the option is zero at the gateway; at the   *)
(* device it may be left from an earlier packet of the buffer.             *)
UnderstoodBy(e) ==
  LET ip == get_IPv6_data_by_raw_package(buffer[e])
      icmp == get_ICMP6_data_by_raw_payload(buffer[e])
  IN  /\ ip.src = meant.src /\ ip.dst = meant.dst /\ ip.next_h = ICMPv6
      /\ icmp.type = meant.type /\ icmp.target = meant.target
      /\ (e = "gateway" \/ meant.mac # Zero) => icmp.mac = meant.mac
      /\ meant.type \in {Echo, Reply} =>
           Take(buffer[e], Options + 4, ip.payload_length - 8) = meant.data

Understood == turn[1] = "arrived" => UnderstoodBy(turn[2])
=============================================================================
