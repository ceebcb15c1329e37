----------------------------- MODULE MCPingNode -----------------------------
(* PingNode with one frame of every kind that listening_mode tells apart.  *)
EXTENDS PingNode

Frame(type, srcGlobal, targetGlobal, src, target, id) ==
  [mine |-> TRUE, type |-> type, srcGlobal |-> srcGlobal,
   targetGlobal |-> targetGlobal, src |-> src, target |-> target, id |-> id]

EchoRequest == Frame(0, FALSE, FALSE, "router", "none", 1)
RouterAdvertisement == Frame(3, FALSE, FALSE, "router", "none", 0)
SolicitationForMe == Frame(4, FALSE, FALSE, "router", "own", 0)
SolicitationGlobal == Frame(4, TRUE, FALSE, "router", "own", 0)
AdvertisementOfMe == Frame(5, FALSE, FALSE, "router", "own", 0)
AdvertisementOfRouter == Frame(5, FALSE, FALSE, "router", "router", 0)

MCFrames == {EchoRequest, RouterAdvertisement, SolicitationForMe,
             SolicitationGlobal, AdvertisementOfMe, AdvertisementOfRouter, Noise}

MCFewFrames == {EchoRequest, RouterAdvertisement, SolicitationForMe}
=============================================================================
