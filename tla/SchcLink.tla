------------------------------ MODULE SchcLink ------------------------------
(***************************************************************************)
(* One LoRa link: the gateway compresses a packet from Ethernet and the    *)
(* device reads the frame, the device builds or echoes a packet and the    *)
(* gateway decompresses the frame.  What each end remembers between frames *)
(* is part of the state, because the frame leaves it out: the gateway the  *)
(* pair of addresses of the last echo request, the device the source it    *)
(* last heard.  One packet is under way at a time.                         *)
(***************************************************************************)
EXTENDS SchcCodec

CONSTANTS
  Device, RouterId, Host,   (* the interface identifiers of three stations *)
  DataLengths               (* bytes of data of an echo request; a frame   *)
                            (* fits the 64 bytes of SCHC_data              *)

ASSUME DataLengthsAssumption == DataLengths \subseteq 0..51

VARIABLES
  stage,     (* "idle", "down" and "up" (a frame is on the air), "heard",  *)
             (* "delivered"                                                *)
  packet,    (* the packet that was compressed last                        *)
  frame,     (* the frame on the air, or received last                     *)
  result,    (* what the receiver made of it                               *)
  saved,     (* Saved_addr of the device                                   *)
  src_NS     (* of the sketch                                              *)

vars == <<stage, packet, frame, result, saved, src_NS>>

Nothing == [nothing |-> TRUE]
RouterMac == MacOf(RouterId)

(* The packets that reach the gateway for the device: echo requests from   *)
(* the link and from elsewhere, and the router's neighbor discovery.       *)
Body(n) == Bytes("echo", 4 + n)
Own(type) == IPv6_address(Device, type)
RouterLocal == IPv6_address(RouterId, 0)

Requests ==
  {Packet("request", s, Own(1), <<>>, <<>>, Body(n)) :
     s \in {IPv6_address(Host, 1), IPv6_address(RouterId, 1)}, n \in DataLengths} \union
  {Packet("request", RouterLocal, Own(0), <<>>, <<>>, Body(n)) : n \in DataLengths}

Advertisements ==
  {Packet("RA", RouterLocal, Own(0), <<>>, RouterMac, <<>>)} \union
  {Packet("NA", s, Own(0), t, <<>>, <<>>) :
     s \in {IPv6_address(RouterId, type) : type \in {0, 1}},
     t \in {IPv6_address(RouterId, type) : type \in {0, 1}}}

Solicitations ==
  {Packet("NS", s, Own(0), t, RouterMac, <<>>) :
     s \in {RouterLocal, IPv6_address(Host, 1)}, t \in {Own(0), Own(1), RouterLocal}}

Downlink == Requests \union Advertisements \union Solicitations

GatewaySends(p) ==
  /\ stage \in {"idle", "heard", "delivered"}
  /\ stage' = "down"
  /\ packet' = p
  /\ frame' = GatewayCompress(p)
  /\ saved' = IF p.kind = "request" THEN [src |-> p.src, dst |-> p.dst] ELSE saved
  /\ result' = Nothing
  /\ UNCHANGED src_NS

DeviceHears ==
  /\ stage = "down"
  /\ stage' = "heard"
  /\ result' = Learns(frame)
  /\ src_NS' = IF "source" \in DOMAIN result' THEN result'.source ELSE src_NS
  /\ UNCHANGED <<packet, frame, saved>>

(* Echo_replay: LMIC.frame is sent back.                                   *)
DeviceEchoes ==
  /\ stage = "heard"
  /\ packet.kind = "request"
  /\ stage' = "up"
  /\ frame' = AsReply(frame)
  /\ UNCHANGED <<packet, result, saved, src_NS>>

(* Router_Solicitation and Neighbor_Solicitation                           *)
Uplink ==
  {Packet("RS", Own(0), AllRouters, <<>>, MacOf(Device), <<>>),
   Packet("NS", Own(1), src_NS, src_NS, MacOf(Device), <<>>)}

DeviceSends(p) ==
  /\ stage \in {"idle", "heard", "delivered"}
  /\ stage' = "up"
  /\ packet' = p
  /\ frame' = DeviceCompress(p)
  /\ result' = Nothing
  /\ UNCHANGED <<saved, src_NS>>

(* recive_package: the addresses it passes depend on the type; the router  *)
(* is in the list once it has advertised.                                  *)
GatewayHears ==
  /\ stage = "up"
  /\ stage' = "delivered"
  /\ result' =
       CASE TypeBits(frame.rule) = 1 ->
              GatewayDecompress(frame, saved.dst, saved.src, MacOf(Device))
         [] TypeBits(frame.rule) = 2 -> GatewayDecompress(frame, <<>>, <<>>, MacOf(Device))
         [] TypeBits(frame.rule) = 4 ->
              GatewayDecompress(frame, <<>>, RouterLocal, MacOf(Device))
         [] OTHER -> Nothing
  /\ UNCHANGED <<packet, frame, saved, src_NS>>

Init ==
  /\ stage = "idle"
  /\ packet = Nothing
  /\ frame = Nothing
  /\ result = Nothing
  /\ saved = [src |-> <<>>, dst |-> <<>>]
  /\ src_NS = Zeros(16)

Next ==
  \/ \E p \in Downlink : GatewaySends(p)
  \/ \E p \in Uplink : DeviceSends(p)
  \/ DeviceHears
  \/ DeviceEchoes
  \/ GatewayHears

Spec == Init /\ [][Next]_vars
-----------------------------------------------------------------------------
(* What a host receives from a device that echoes in place, with one bit   *)
(* of the rule set and no address in the frame, is the reply to what it    *)
(* sent: same identifier, sequence number and data, source and destination *)
(* exchanged.                                                              *)
EchoRoundTrip ==
  (stage = "delivered" /\ packet.kind = "request") =>
     result = Packet("reply", packet.dst, packet.src, <<>>, <<>>, packet.body)

(* The router receives the solicitation the sketch built, with the         *)
(* device's MAC, though the frame holds neither the prefix of the source,  *)
(* nor the destination, nor the MAC.                                       *)
SolicitationRoundTrip ==
  (stage = "delivered" /\ packet.kind \in {"RS", "NS"}) =>
     result = [packet EXCEPT !.dst = IF packet.kind = "NS" THEN RouterLocal ELSE @]

(* The device reads the addresses of the packet, at the offsets at which   *)
(* the gateway has put them, and never bytes an earlier frame left behind. *)
DownlinkUnderstood ==
  stage = "heard" =>
    /\ packet.kind = "RA" => result = [source |-> packet.src]
    /\ packet.kind = "NS" /\ IsLocal(packet.src) /\ IsLocal(packet.target)
         => result = [source |-> packet.src, target |-> packet.target]
    /\ packet.kind = "NA" /\ IsLocal(packet.src) /\ IsLocal(packet.target)
         => result = [target |-> packet.target]
    /\ packet.kind = "request" => result = Nothing /\ TypeBits(frame.rule) = 0

(* schc_decompression of the end device's library turns a frame of the     *)
(* same library into a packet of the kind that was compressed.             *)
DeviceRoundTrip ==
  (stage = "up" /\ packet.kind \in {"RS", "NS"}) =>
     DeviceDecompress(frame).kind = packet.kind
=============================================================================
