----------------------------- MODULE SchcCodec ------------------------------
(***************************************************************************)
(* The header compression: SCHC.c of the gateway (libstack_ipv6) and of    *)
(* the end device (end-device/src/lmic/libstack_ipv6), the ICMPv6 packets  *)
(* the sketch builds, and the bytes listening_mode of ping.ino reads.      *)
(*                                                                         *)
(* Frames and fields are sequences of bytes, a byte being the pair of the  *)
(* field it comes from and its place there.  A packet is a record of the   *)
(* fields that are not constants of the protocol; checksum and length are  *)
(* computed again by the receiver and left out.                            *)
(***************************************************************************)
EXTENDS Integers, SequencesExt

Bytes(field, n) == [i \in 1..n |-> <<field, i>>]
Zeros(n) == [i \in 1..n |-> <<"zero", 0>>]

(* IPv6_address                                                            *)
LocalNet == Bytes("fe80", 8)
IPv6_address(iid, type) == (IF type = 0 THEN LocalNet ELSE Bytes("aaaa", 8)) \o Bytes(iid, 8)
IsLocal(address) == SubSeq(address, 1, 8) = LocalNet
Iid(address) == SubSeq(address, 9, 16)
MulticastNet == Bytes("ff02", 8)
AllRouters == MulticastNet \o Zeros(7) \o <<<<"two", 1>>>>
MacOf(iid) == SubSeq(Bytes(iid, 8), 3, 8)

Kinds == <<"request", "reply", "RS", "RA", "NS", "NA", "redirect">>
TypeOf(kind) == (CHOOSE i \in DOMAIN Kinds : Kinds[i] = kind) - 1

(* body: identifier, sequence number and data of an echo packet.           *)
Packet(kind, src, dst, target, mac, body) ==
  [kind |-> kind, src |-> src, dst |-> dst, target |-> target, mac |-> mac, body |-> body]
-----------------------------------------------------------------------------
(* schc_compression: the rule byte, then the fields that are sent.         *)
Bit(b) == IF b THEN 1 ELSE 0

Rule(p) ==
  64 * Bit(~IsLocal(p.src)) + 4 * TypeOf(p.kind)
    + 2 * Bit(p.kind \in {"NS", "NA"} /\ ~IsLocal(p.target))

(* Mutant: the prefix is sent instead of the interface identifier.         *)
ShortenedPrefix(address) == IF IsLocal(address) THEN SubSeq(address, 1, 8) ELSE address

Shortened(address) == IF IsLocal(address) THEN Iid(address) ELSE address

(* The two programs differ in the source of a router solicitation.  (The   *)
(* branch for a redirect tests a byte of the reserved field and is never   *)
(* taken: only the rule is sent.)  paylength is a uint8_t.                 *)
CompressedFields(p, sourceOfRS) ==
  CASE p.kind \in {"request", "reply"} ->
         LET paylength == (4 + Len(p.body)) % 256 IN SubSeq(p.body, 1, paylength - 4)
    [] p.kind = "RS" -> sourceOfRS
    [] p.kind = "RA" -> Shortened(p.src)
    [] p.kind = "NS" -> Shortened(p.src) \o Shortened(p.target)
    [] p.kind = "NA" -> Shortened(p.target)
    [] OTHER -> <<>>

Frame(rule, fields) == [rule |-> rule, fields |-> fields]
GatewayCompress(p) == Frame(Rule(p), CompressedFields(p, <<>>))
(* Mutant: the device elides the source, as the gateway does.              *)
DeviceCompressElides(p) == Frame(Rule(p), CompressedFields(p, <<>>))
DeviceCompress(p) == Frame(Rule(p), CompressedFields(p, Iid(p.src)))

TypeBits(rule) == (rule \div 4) % 8
SourceBit(rule) == (rule \div 64) % 2
TargetBit(rule) == (rule \div 2) % 2

(* n bytes at an offset of a buffer with zeros, or with other bytes,       *)
(* behind the frame.                                                       *)
Read(f, offset, n, behind) ==
  [i \in 1..n |-> IF offset + i <= Len(f.fields) THEN f.fields[offset + i] ELSE behind]
ReadZero(f, offset, n) == Read(f, offset, n, <<"zero", 0>>)
Rest(f, offset) == SubSeq(f.fields, offset + 1, Len(f.fields))

(* schc_decompression of the gateway.  The caller passes the addresses it  *)
(* knows, and NULL (<<>>) for the others.  A solicitation carries the      *)
(* interface identifier of its source, or the whole of it.                 *)
Prefix(f, src) ==
  CASE src # <<>> -> SubSeq(src, 1, 8)
    [] SourceBit(f.rule) = 0 -> LocalNet
    [] OTHER -> Zeros(8)

SourceField(f, src) ==
  LET type == TypeBits(f.rule)
  IN  CASE type = 2 \/ (type = 4 /\ SourceBit(f.rule) = 0) -> Prefix(f, src) \o ReadZero(f, 0, 8)
        [] type = 4 /\ SourceBit(f.rule) = 1 -> ReadZero(f, 0, 16)
        [] src # <<>> -> src
        [] OTHER -> Prefix(f, src) \o Zeros(8)

DestinationField(f, dst) ==
  CASE TypeBits(f.rule) = 2 -> AllRouters
    [] dst # <<>> -> dst
    [] OTHER -> Zeros(16)

(* The target of a solicitation is behind its source, that of an           *)
(* advertisement comes first.                                              *)
TargetField(f) ==
  LET at == IF TypeBits(f.rule) = 5 THEN 0 ELSE IF SourceBit(f.rule) = 0 THEN 8 ELSE 16
  IN  IF TargetBit(f.rule) = 0 THEN LocalNet \o ReadZero(f, at, 8) ELSE ReadZero(f, at, 16)

(* icmp_decompression of the gateway; mac is that of the station.          *)
GatewayDecompress(f, src, dst, mac) ==
  LET type == TypeBits(f.rule)
      Made(kind, target, option, body) ==
        Packet(kind, SourceField(f, src), DestinationField(f, dst), target, option, body)
  IN  CASE type \in {0, 1} -> Made(Kinds[type + 1], <<>>, <<>>, f.fields)
        [] type = 2 -> Made("RS", <<>>, mac, <<>>)
        [] type = 3 -> Made("RA", <<>>, ReadZero(f, 1, 6), <<>>)
        [] type = 4 -> Made("NS", TargetField(f), mac, <<>>)
        [] type = 5 -> Made("NA", TargetField(f), <<>>, <<>>)
        [] type = 6 -> Made("redirect", ReadZero(f, 0, 16), ReadZero(f, 17, 6), <<>>)
        [] OTHER -> Made("none", <<>>, <<>>, <<>>)

(* schc_decompression of the end device: it takes a destination out of the *)
(* frame, by two other bits of the rule.  Nothing calls it.                *)
DeviceRead(f, offset, n) == Read(f, offset, n, <<"behind", 0>>)
SourceLength(f) == IF SourceBit(f.rule) = 0 THEN 8 ELSE 16

DeviceSource(f) ==
  IF SourceBit(f.rule) = 0 THEN LocalNet \o DeviceRead(f, 0, 8) ELSE DeviceRead(f, 0, 16)

DeviceDestination(f) ==
  LET at == SourceLength(f)
  IN  CASE (f.rule \div 32) % 2 = 0 -> MulticastNet \o DeviceRead(f, at, 8)
        [] (f.rule \div 16) % 4 = 2 -> LocalNet \o DeviceRead(f, at, 8)
        [] OTHER -> DeviceRead(f, at, 16)

AddressesLength(f) == SourceLength(f) + IF (f.rule \div 16) % 4 = 3 THEN 16 ELSE 8

(* icmp_decompression of the end device.                                   *)
DeviceDecompress(f) ==
  LET icmp == f.rule % 16
      at == AddressesLength(f)
      Made(kind, target, option, body) ==
        Packet(kind, DeviceSource(f), DeviceDestination(f), target, option, body)
  IN  CASE icmp = 0 -> Made("request", <<>>, <<>>, Rest(f, at))
        [] icmp = 2 -> Made("reply", <<>>, <<>>, Rest(f, at))
        [] icmp = 4 -> Made("RS", <<>>, <<>>, <<>>)
        [] icmp = 6 -> Made("RA", <<>>, DeviceRead(f, at + 1, 6), <<>>)
        [] icmp = 8 -> Made("NS", DeviceDestination(f), DeviceRead(f, at + 1, 6), <<>>)
        [] icmp = 9 -> Made("NS", DeviceRead(f, at, 16), DeviceRead(f, at + 17, 6), <<>>)
        [] icmp \in {10, 11} -> Made("NA", <<>>, <<>>, <<>>)
        [] icmp = 12 -> Made("redirect", DeviceRead(f, at, 16), DeviceRead(f, at + 17, 6), <<>>)
        [] OTHER -> Made("none", <<>>, <<>>, <<>>)

(* Mutant: LMIC.frame[8] |= (1 << 3)                                       *)
AsReplyWrongBit(f) == [f EXCEPT !.rule = @ + 8]

(* Echo_replay: LMIC.frame[8] |= (1 << 2)                                  *)
AsReply(f) == [f EXCEPT !.rule = IF TypeBits(@) % 2 = 0 THEN @ + 4 ELSE @]

(* listening_mode: the link-local addresses it takes from LMIC.frame, in   *)
(* which the bytes of earlier frames are left behind the last one.         *)
Heard(f, offset) == LocalNet \o Read(f, offset, 8, <<"stale", 0>>)

Learns(f) ==
  LET local == SourceBit(f.rule) = 0 /\ TargetBit(f.rule) = 0
  IN  CASE TypeBits(f.rule) = 3 -> [source |-> Heard(f, 0)]
        [] TypeBits(f.rule) = 4 /\ local -> [source |-> Heard(f, 0), target |-> Heard(f, 8)]
        [] TypeBits(f.rule) = 4 /\ ~local -> [source |-> Zeros(16), target |-> Zeros(16)]
        [] TypeBits(f.rule) = 5 /\ local -> [target |-> Heard(f, 0)]
        [] OTHER -> [nothing |-> TRUE]
=============================================================================
