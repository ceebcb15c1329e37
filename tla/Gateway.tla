------------------------------ MODULE Gateway -------------------------------
(***************************************************************************)
(* The gateway program project_ipv6.c: the thread send_package ("tx",      *)
(* Ethernet to LoRa) and the thread recive_package ("rx", LoRa to          *)
(* Ethernet).  They share the list of stations, the table of saved         *)
(* addresses, the router's MAC and one mutex.  Lists and table are written *)
(* with the mutex held and read without it.                                *)
(*                                                                         *)
(* A step is the code between two accesses to shared state that another    *)
(* thread can see apart.                                                   *)
(***************************************************************************)
EXTENDS NodeList

CONSTANTS
  Devices,     (* the end devices, by EUI                                  *)
  Hosts,       (* stations behind the router that send echo requests       *)
  Packets,     (* what arrives from Ethernet                               *)
  Frames,      (* what arrives from LoRa                                   *)
  MaxBurst     (* bound: packets one lgw_receive returns                   *)

VARIABLES
  list,      (* NodeList *list                                             *)
  S_addr,    (* Saved_addr *S_addr: by EUI, the addresses of a request     *)
  ETH_mac,
  lock,      (* the thread that holds the mutex, or "free"                 *)
  tx, rx,    (* where a thread is, and its local variables                 *)
  sent,      (* history: <<device, host>> of the echo requests sent        *)
  out,       (* what the step gave to lgw_send or send_raw_package         *)
  crashed    (* the program dereferenced NULL or a wild pointer            *)

shared == <<list, S_addr, ETH_mac>>
vars == <<shared, lock, tx, rx, sent, out, crashed>>

Router == "router"
NotSaved == [src |-> Zero, dst |-> Zero]

(* A packet on Ethernet; id stands for the identifier, the sequence number *)
(* and the data of an echo request and its reply.  The buffer recive_-     *)
(* package starts with is all zero.                                        *)
Packet(kind, src, dst, target, id) ==
  [kind |-> kind, src |-> src, dst |-> dst, target |-> target, id |-> id]
ZeroPacket == Packet("zero", Zero, Zero, Zero, "none")

(* A frame on LoRa: the EUI of the device, and the compressed packet.      *)
Frame(eui, kind, src, id) == [eui |-> eui, kind |-> kind, src |-> src, id |-> id]

AllRouters == [net |-> "ff02", iid |-> "routers"]

Nothing == [link |-> "none"]
ToLoRa(eui, kind, dst) == [link |-> "lora", eui |-> eui, kind |-> kind, dst |-> dst]
ToEthernet(p, mac) == [link |-> "ethernet", packet |-> p, from |-> mac, to |-> ETH_mac]
Silent == out' = Nothing

(* A thread that waits for input has no live local variables.              *)
TxIdle == [pc |-> "read", p |-> ZeroPacket, node |-> NULL, tail |-> 0]
RxIdle == [pc |-> "receive", p |-> Frame("none", "none", Zero, "none"), left |-> 0,
           node |-> NULL, tail |-> 0, packet |-> ZeroPacket]

At(thread, pc) == thread.pc = pc /\ ~crashed
Acquire(t) == lock = "free" /\ lock' = t
Release == lock' = "free"

(* The condition on the mutex of a critical section that is one step.      *)
Locked == lock = "free" /\ UNCHANGED lock
-----------------------------------------------------------------------------
(* send_package                                                            *)

(* recive_raw_package_by_interface and get_IPv6_data_by_raw_package        *)
ReceivePacket(p) ==
  /\ At(tx, "read")
  /\ tx' = [tx EXCEPT !.pc = "scan", !.p = p]
  /\ UNCHANGED <<shared, lock, rx, sent, crashed>>
  /\ Silent

(* A packet to an address that is not in the list is dropped.              *)
Scan ==
  /\ At(tx, "scan")
  /\ tx' = IF ~Known(list, tx.p.dst) THEN TxIdle
           ELSE [tx EXCEPT !.pc = CASE tx.p.kind = "RA" -> "learn"
                                    [] tx.p.kind = "NS" -> "target"
                                    [] OTHER -> "lookup"]
  /\ UNCHANGED <<shared, lock, rx, sent, crashed>>
  /\ Silent

(* aux_info = get_info_by_IPv6(list, IPv6_dst), without the mutex.  Only   *)
(* the echo request is not dropped when there is no such node.             *)
Lookup ==
  LET node == ByIPv6(list, tx.p.dst)
  IN  /\ At(tx, "lookup")
      /\ tx' = IF node = NULL /\ tx.p.kind \in {"RA", "NA"} THEN TxIdle
               ELSE [tx EXCEPT !.node = node,
                               !.pc = IF tx.p.kind = "request" THEN "save"
                                      ELSE IF node # NULL THEN "send" ELSE "answer"]
      /\ UNCHANGED <<shared, lock, rx, sent, crashed>>
      /\ Silent

(* input_addr(aux_info->eui, ...): the pair of addresses is written byte   *)
(* by byte; recive_package may read it meanwhile.                          *)
BeginSave ==
  /\ At(tx, "save")
  /\ Acquire("tx")
  /\ IF tx.node = NULL THEN crashed' = TRUE /\ UNCHANGED tx
     ELSE tx' = [tx EXCEPT !.pc = "saving"] /\ UNCHANGED crashed
  /\ UNCHANGED <<shared, rx, sent>>
  /\ Silent

Pair == [src |-> tx.p.src, dst |-> tx.p.dst]

(* Mutant: the mutex is kept.                                              *)
EndSaveKeepsLock ==
  /\ At(tx, "saving")
  /\ S_addr' = [S_addr EXCEPT ![list[tx.node].eui] = Pair]
  /\ tx' = [tx EXCEPT !.pc = "send"]
  /\ UNCHANGED <<list, ETH_mac, lock, rx, sent, crashed>>
  /\ Silent

EndSave ==
  /\ At(tx, "saving")
  /\ S_addr' = [S_addr EXCEPT ![list[tx.node].eui] = Pair]
  /\ Release
  /\ tx' = [tx EXCEPT !.pc = "send"]
  /\ UNCHANGED <<list, ETH_mac, rx, sent, crashed>>
  /\ Silent

(* lgw_send: with the mutex, but for echo requests.                        *)
Send ==
  /\ At(tx, "send")
  /\ IF tx.p.kind = "request"
     THEN sent' = sent \union {<<list[tx.node].eui, tx.p.id>>} /\ UNCHANGED lock
     ELSE Locked /\ UNCHANGED sent
  /\ tx' = IF tx.p.kind = "NS" THEN [tx EXCEPT !.pc = "answer"] ELSE TxIdle
  /\ out' = ToLoRa(list[tx.node].eui, tx.p.kind, tx.p.dst)
  /\ UNCHANGED <<shared, rx, crashed>>

(* A router advertisement: ETH_mac is written before the mutex is taken;   *)
(* then add_MAC_node walks to the MAC or to the end of the list ...        *)
SetEthMac ==
  /\ At(tx, "learn")
  /\ ETH_mac' = Router
  /\ tx' = [tx EXCEPT !.pc = "addMac"]
  /\ UNCHANGED <<list, S_addr, lock, rx, sent, crashed>>
  /\ Silent

(* Mutant: add_MAC_node is called without the mutex.                       *)
WalkMacUnlocked ==
  /\ At(tx, "addMac")
  /\ tx' = [tx EXCEPT !.pc = IF ByMac(list, Router) = NULL THEN "linkMac" ELSE "addAddress",
                      !.tail = Len(list)]
  /\ UNCHANGED <<shared, lock, rx, sent, crashed>>
  /\ Silent

WalkMac ==
  /\ At(tx, "addMac")
  /\ Acquire("tx")
  /\ tx' = [tx EXCEPT !.pc = IF ByMac(list, Router) = NULL THEN "linkMac" ELSE "addAddress",
                      !.tail = Len(list)]
  /\ UNCHANGED <<shared, rx, sent, crashed>>
  /\ Silent

(* ... adds it there ...                                                   *)
LinkMac ==
  /\ At(tx, "linkMac")
  /\ list' = WithMac(list, tx.tail, Router)
  /\ tx' = [tx EXCEPT !.pc = "addAddress"]
  /\ UNCHANGED <<S_addr, ETH_mac, lock, rx, sent, crashed>>
  /\ Silent

(* ... and add_IPv6_node stores the router's address.                      *)
AddRouterAddress ==
  /\ At(tx, "addAddress")
  /\ list' = WithAddress(list, tx.p.src, Router)
  /\ Release
  /\ tx' = [tx EXCEPT !.pc = "lookup"]
  /\ UNCHANGED <<S_addr, ETH_mac, rx, sent, crashed>>
  /\ Silent

(* A neighbor solicitation for a node of the list.  It is sent on to the   *)
(* node when the target is link-local, and answered in any case.           *)
LookupTarget ==
  LET node == ByIPv6(list, tx.p.target)
  IN  /\ At(tx, "target")
      /\ tx' = IF node = NULL THEN TxIdle
               ELSE [tx EXCEPT !.node = node,
                               !.pc = IF tx.p.target.net = "fe80" THEN "lookup"
                                      ELSE "answer"]
      /\ UNCHANGED <<shared, lock, rx, sent, crashed>>
      /\ Silent

AnswerSolicitation ==
  /\ At(tx, "answer")
  /\ Locked
  /\ IF tx.node = NULL
     THEN crashed' = TRUE /\ Silent /\ UNCHANGED tx
     ELSE /\ out' = ToEthernet(Packet("NA", list[tx.node].ll, tx.p.src, tx.p.target, "none"),
                               list[tx.node].mac)
          /\ tx' = TxIdle
          /\ UNCHANGED crashed
  /\ UNCHANGED <<shared, rx, sent>>
-----------------------------------------------------------------------------
(* recive_package                                                          *)

(* lgw_receive returned n packets; the loop handles rxpkt[0] n times.  A   *)
(* device answers only the echo requests that were sent to it.             *)
ReceiveFrames(f, n) ==
  /\ At(rx, "receive")
  /\ f.kind = "reply" => <<f.eui, f.id>> \in sent
  /\ rx' = [rx EXCEPT !.pc = "addEui", !.p = f, !.left = n]
  /\ UNCHANGED <<shared, lock, tx, sent, crashed>>
  /\ Silent

(* Mutants: add_EUI_node does not look for the device; add_EUI_node is     *)
(* called without the mutex.                                               *)
WalkEuiAlways ==
  /\ At(rx, "addEui")
  /\ rx' = [rx EXCEPT !.pc = IF list = <<>> THEN "find" ELSE "linkEui", !.tail = Len(list)]
  /\ list' = IF list = <<>> THEN <<FirstEuiNode(rx.p.eui)>> ELSE list
  /\ IF list = <<>> THEN Locked ELSE Acquire("rx")
  /\ UNCHANGED <<S_addr, ETH_mac, tx, sent, crashed>>
  /\ Silent

WalkEuiUnlocked ==
  /\ At(rx, "addEui")
  /\ rx' = [rx EXCEPT !.pc = IF list = <<>> \/ ByMac(list, rx.p.eui) # NULL
                             THEN "find" ELSE "linkEui",
                      !.tail = Len(list)]
  /\ list' = IF list = <<>> THEN <<FirstEuiNode(rx.p.eui)>> ELSE list
  /\ UNCHANGED <<S_addr, ETH_mac, lock, tx, sent, crashed>>
  /\ Silent

(* add_EUI_node compares the MAC.  An element for an empty list is filled  *)
(* before it is linked.                                                    *)
WalkEui ==
  /\ At(rx, "addEui")
  /\ IF list = <<>>
     THEN /\ list' = <<FirstEuiNode(rx.p.eui)>>
          /\ rx' = [rx EXCEPT !.pc = "find"]
          /\ Locked
     ELSE IF ByMac(list, rx.p.eui) # NULL
     THEN rx' = [rx EXCEPT !.pc = "find"] /\ Locked /\ UNCHANGED list
     ELSE /\ rx' = [rx EXCEPT !.pc = "linkEui", !.tail = Len(list)]
          /\ Acquire("rx")
          /\ UNCHANGED list
  /\ UNCHANGED <<S_addr, ETH_mac, tx, sent, crashed>>
  /\ Silent

(* Mutant: the mutex is kept.                                              *)
LinkEuiKeepsLock ==
  /\ At(rx, "linkEui")
  /\ list' = WithEui(list, rx.tail, rx.p.eui)
  /\ rx' = [rx EXCEPT !.pc = "find"]
  /\ UNCHANGED <<S_addr, ETH_mac, lock, tx, sent, crashed>>
  /\ Silent

LinkEui ==
  /\ At(rx, "linkEui")
  /\ list' = WithEui(list, rx.tail, rx.p.eui)
  /\ Release
  /\ rx' = [rx EXCEPT !.pc = "find"]
  /\ UNCHANGED <<S_addr, ETH_mac, tx, sent, crashed>>
  /\ Silent

(* aux_list = get_info_by_eui(list, EUI_node), without the mutex           *)
Find ==
  /\ At(rx, "find")
  /\ rx' = [rx EXCEPT !.pc = "decompress", !.node = ByEui(list, rx.p.eui)]
  /\ UNCHANGED <<shared, lock, tx, sent, crashed>>
  /\ Silent

(* output_addr and the copies of the two addresses, without the mutex: of  *)
(* an entry that send_package is writing, each address reads as the old    *)
(* one, the new one or bytes of both.  An entry that is being added may or *)
(* may not be found yet; the first of the table is filled before.          *)
Saving == tx.pc = "saving" /\ list[tx.node].eui = rx.p.eui

Either(old, new) == IF old = new THEN {old} ELSE {old, new, Junk}

(* Mutant: the first pair of the table is taken, whatever the EUI.         *)
output_addrAny ==
  LET used == {S_addr[d] : d \in {e \in Devices : S_addr[e] # NotSaved}}
  IN  IF used = {} THEN {NotSaved} ELSE used

output_addr ==
  LET old == S_addr[rx.p.eui]
  IN  IF Saving /\ \E d \in Devices : S_addr[d] # NotSaved
      THEN {old} \union [src : Either(old.src, Pair.src), dst : Either(old.dst, Pair.dst)]
      ELSE {old}

(* What schc_decompression makes of the frame, if it is called.            *)
Decompressed ==
  CASE rx.p.kind = "reply" ->
         {IF entry = NotSaved THEN ZeroPacket
          ELSE Packet("reply", entry.dst, entry.src, Zero, rx.p.id) : entry \in output_addr}
    [] rx.p.kind = "RS" -> {Packet("RS", rx.p.src, AllRouters, Zero, "none")}
    [] rx.p.kind = "NS" ->
         LET router == ByRouter(list)
         IN  IF router = NULL THEN {ZeroPacket}
             ELSE {Packet("NS", rx.p.src, list[router].ll, Zero, "none")}
    [] OTHER -> {ZeroPacket}

(* A neighbor advertisement is sent back over LoRa, without the mutex; its *)
(* addresses are looked up under a type that is never saved.               *)
Decompress ==
  /\ At(rx, "decompress")
  /\ \E packet \in Decompressed :
       rx' = [rx EXCEPT !.pc = "learn", !.packet = packet]
  /\ IF rx.p.kind = "NA" THEN out' = ToLoRa(rx.p.eui, "NA", Zero) ELSE Silent
  /\ UNCHANGED <<shared, lock, tx, sent, crashed>>

(* Mutant: list->mac instead of aux_list->mac.                             *)
LearnAtHead ==
  /\ At(rx, "learn")
  /\ Locked
  /\ list' = WithAddress(list, rx.packet.src, list[1].mac)
  /\ rx' = [rx EXCEPT !.pc = "forward"]
  /\ Silent
  /\ UNCHANGED <<S_addr, ETH_mac, tx, sent, crashed>>

(* add_IPv6_node(list, src_addr, aux_list->mac), whatever src_addr is.     *)
Learn ==
  /\ At(rx, "learn")
  /\ Locked
  /\ IF rx.node = NULL
     THEN crashed' = TRUE /\ UNCHANGED <<list, rx>>
     ELSE /\ list' = WithAddress(list, rx.packet.src, list[rx.node].mac)
          /\ rx' = [rx EXCEPT !.pc = "forward"]
          /\ UNCHANGED crashed
  /\ Silent
  /\ UNCHANGED <<S_addr, ETH_mac, tx, sent>>

(* send_raw_package(buffer, ...), whatever is in the buffer.               *)
Forward ==
  /\ At(rx, "forward")
  /\ Locked
  /\ out' = ToEthernet(rx.packet, list[ByEui(list, rx.p.eui)].mac)
  /\ rx' = IF rx.left = 1 THEN RxIdle
           ELSE [RxIdle EXCEPT !.pc = "addEui", !.p = rx.p, !.left = rx.left - 1]
  /\ UNCHANGED <<shared, tx, sent, crashed>>
-----------------------------------------------------------------------------
(* An element that is being linked, to the list or to the table, has no    *)
(* next pointer yet, and the other thread may walk past it without the     *)
(* mutex.                                                                  *)
WalkPastEnd ==
  /\ \/ At(rx, "linkEui") /\ tx.pc \in {"scan", "lookup", "target"}
     \/ At(tx, "linkMac") /\ rx.pc \in {"find", "decompress"}
     \/ /\ At(tx, "saving") /\ S_addr[list[tx.node].eui] = NotSaved
        /\ \E d \in Devices : S_addr[d] # NotSaved
        /\ At(rx, "decompress") /\ rx.p.kind \in {"reply", "NA"}
  /\ crashed' = TRUE
  /\ Silent
  /\ UNCHANGED <<shared, lock, tx, rx, sent>>

Init ==
  /\ list = <<>>
  /\ S_addr = [d \in Devices |-> NotSaved]
  /\ ETH_mac = "allRouters"
  /\ lock = "free"
  /\ tx = TxIdle
  /\ rx = RxIdle
  /\ sent = {}
  /\ out = Nothing
  /\ crashed = FALSE

Transmitter ==
  \/ Scan
  \/ Lookup
  \/ BeginSave
  \/ EndSave
  \/ Send
  \/ SetEthMac
  \/ WalkMac
  \/ LinkMac
  \/ AddRouterAddress
  \/ LookupTarget
  \/ AnswerSolicitation

Receiver ==
  \/ WalkEui
  \/ LinkEui
  \/ Find
  \/ Decompress
  \/ Learn
  \/ Forward

Next ==
  \/ Transmitter
  \/ Receiver
  \/ WalkPastEnd
  \/ \E p \in Packets : ReceivePacket(p)
  \/ \E f \in Frames, n \in 1..MaxBurst : ReceiveFrames(f, n)

Spec == Init /\ [][Next]_vars

(* The two threads run; nothing makes a packet or a frame arrive.          *)
Fairness == WF_vars(Transmitter) /\ WF_vars(Receiver)
FairSpec == Spec /\ Fairness
-----------------------------------------------------------------------------
Addresses ==
  {LinkLocal(x) : x \in Devices \union {Router}} \union
  {Global(x) : x \in Devices \union Hosts} \union {Zero, Junk, AllRouters}

(* The router is no device, and the EUI of its element is none's.           *)
ASSUME StationsAssumption == Router \notin Devices /\ NoEui \notin Devices

(* Packets are for devices; a host asks from its global address, the       *)
(* router advertises itself from its link-local one.                       *)
ASSUME PacketsAssumption ==
  \A p \in Packets :
    /\ p \in [kind : {"request", "RA", "NA", "NS"}, src : Addresses,
              dst : [net : {"fe80", "aaaa"}, iid : Devices],
              target : Addresses, id : Hosts \union {"none"}]
    /\ p.kind = "request" => p.id \in Hosts /\ p.src = Global(p.id)
    /\ p.kind = "RA" => p.src = LinkLocal(Router)

(* A device sends from its own addresses, which it makes of its EUI.       *)
ASSUME FramesAssumption ==
  \A f \in Frames :
    /\ f \in [eui : Devices, kind : {"reply", "RS", "NS", "NA"}, src : Addresses,
              id : Hosts \union {"none"}]
    /\ f.kind \in {"RS", "NS"} => f.src.iid = f.eui

ASSUME MaxBurstAssumption == MaxBurst \in Nat

TypeOK ==
  /\ list \in Seq([mac : Devices \union {Router}, eui : Devices \union {NoEui},
                   ll : Addresses, glob : Addresses, type : {0, 1}])
  /\ S_addr \in [Devices -> [src : Addresses, dst : Addresses]]
  /\ ETH_mac \in {"allRouters", Router}
  /\ lock \in {"free", "tx", "rx"}
  /\ tx.pc \in {"read", "scan", "lookup", "save", "saving", "send", "learn", "addMac",
                "linkMac", "addAddress", "target", "answer"}
  /\ rx.pc \in {"receive", "addEui", "linkEui", "find", "decompress", "learn", "forward"}
  /\ tx.node \in {NULL} \union DOMAIN list
  /\ rx.node \in {NULL} \union DOMAIN list
  /\ sent \subseteq Devices \X Hosts
  /\ crashed \in BOOLEAN

(* A station is in the list once, though both threads add stations: the    *)
(* functions of IPv6.c find only the first element.                        *)
OneEntryPerMac ==
  \A i, k \in DOMAIN list : list[i].mac = list[k].mac => i = k

(* Every element of l is in m at its place and of the same station.        *)
Kept(l, m) ==
  \A i \in DOMAIN l : i \in DOMAIN m /\ m[i].mac = l[i].mac /\ m[i].eui = l[i].eui

(* Both threads keep pointers to elements when they release the mutex: an  *)
(* element stays in the list and stays that of its station.                *)
EntriesKept == [][Kept(list, list')]_vars

(* aux_list, which recive_package dereferences after it released the       *)
(* mutex, is the element of the device it heard.                           *)
HeardIsListed ==
  rx.pc \in {"decompress", "learn", "forward"} =>
     rx.node # NULL /\ list[rx.node].eui = rx.p.eui /\ list[rx.node].mac = rx.p.eui

(* send_package walks the list by its own test and then looks the node up  *)
(* again, and dereferences the result for an echo request: both find the   *)
(* address in the same states.  (It crashes when recive_package changes    *)
(* the list in between.)                                                   *)
LookupsAgree ==
  \A p \in Packets : Known(list, p.dst) => ByIPv6(list, p.dst) # NULL

(* What is sent over LoRa goes to the device that has the destination      *)
(* address; what is sent on Ethernet comes from the MAC of the device that *)
(* has the source address.                                                 *)
DevicesNotConfused ==
  /\ out.link = "lora" => out.dst = Zero \/ out.dst.iid = out.eui
  /\ out.link = "ethernet" =>
       out.packet.src \in {Zero, Junk} \/ out.packet.src.iid = out.from

(* An echo reply goes to a host that did send a request to that device, or *)
(* to an address that was overwritten while it was read.                   *)
ReplyHasRequest ==
  (out.link = "ethernet" /\ out.packet.kind = "reply") =>
     \/ out.packet.dst \in {Zero, Junk}
     \/ <<out.from, out.packet.dst.iid>> \in sent
     \/ tx.p.kind = "request" /\ tx.p.src = out.packet.dst

(* The reply to a request goes to the host that sent the request.          *)
RepliesReachTheirHost ==
  (out.link = "ethernet" /\ out.packet.kind = "reply") =>
     out.packet.dst = Global(out.packet.id)

(* No thread keeps the mutex.                                              *)
LockReleased == (lock # "free") ~> (lock = "free" \/ crashed)

(* A frame is processed to its end, whatever send_package does, as long as *)
(* packets do not keep coming: the mutex is not fair.                      *)
FrameFinished ==
  \/ []<><<\E p \in Packets : ReceivePacket(p)>>_vars
  \/ (rx.pc # "receive") ~> (rx.pc = "receive" \/ crashed)
=============================================================================
