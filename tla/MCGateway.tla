----------------------------- MODULE MCGateway ------------------------------
(* Gateway with the packets and frames of a few stations.                  *)
EXTENDS Gateway

Stations == Permutations(Devices) \union Permutations(Hosts)

Requests == {Packet("request", Global(h), Global(d), Zero, h) : h \in Hosts, d \in Devices}
FromRouter(kind, Target(_)) ==
  {Packet(kind, LinkLocal(Router), LinkLocal(d), Target(d), "none") : d \in Devices}
NoTarget(d) == Zero

(* The packets of two hosts and the router.                                *)
MCPackets ==
  Requests \union FromRouter("RA", NoTarget) \union FromRouter("NS", LinkLocal)

(* The router's packets of every kind, for the run of the liveness         *)
(* properties.                                                             *)
MCMorePackets ==
  Requests \union FromRouter("RA", NoTarget) \union FromRouter("NA", NoTarget)
           \union FromRouter("NS", Global)

MCFrames ==
  {Frame(d, "reply", Zero, h) : d \in Devices, h \in Hosts} \union
  {Frame(d, "RS", LinkLocal(d), "none") : d \in Devices} \union
  {Frame(d, "NS", Global(d), "none") : d \in Devices} \union
  {Frame(d, "NA", Zero, "none") : d \in Devices}
=============================================================================
