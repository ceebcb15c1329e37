--------------------------- MODULE GatewayProofs ----------------------------
(* Proofs about Gateway: two threads share the list of stations, the table *)
(* of saved addresses and one mutex.                                       *)
EXTENDS Gateway, TLAPS, SequenceTheorems, WellFoundedInduction

Entry == [mac : Devices \union {Router}, eui : Devices \union {NoEui},
          ll : Addresses, glob : Addresses, type : {0, 1}]

TxType == [pc : {"read", "scan", "lookup", "save", "saving", "send", "learn", "addMac",
                 "linkMac", "addAddress", "target", "answer"},
           p : Packets \union {ZeroPacket}, node : Nat, tail : Nat]

RxType == [pc : {"receive", "addEui", "linkEui", "find", "decompress", "learn", "forward"},
           p : Frames \union {RxIdle.p}, left : Int, node : Nat, tail : Nat,
           packet : [kind : {"zero", "reply", "RS", "NS"}, src : Addresses,
                     dst : Addresses, target : Addresses, id : Hosts \union {"none"}]]

ThreadInv ==
  /\ tx \in TxType
  /\ rx \in RxType

(* An address of the station x, or none.                                   *)
Own(a, x) == a \in {Zero, Junk} \/ a.iid = x

(* The element of the router, or of a device, with addresses of its own    *)
(* where the functions of IPv6.c look for them.                            *)
EntryOK(e) ==
  /\ e \in Entry
  /\ e.eui = IF e.mac = Router THEN NoEui ELSE e.mac
  /\ Own(e.ll, e.mac) /\ Own(e.glob, e.mac)
  /\ e.ll \in {Zero, Junk} \/ e.ll.net = "fe80"
  /\ e.glob.net # "fe80"

ListOK(l) ==
  /\ l \in Seq(Entry)
  /\ \A i \in DOMAIN l : EntryOK(l[i])
  /\ \A i, k \in DOMAIN l : l[i].mac = l[k].mac => i = k

(* Two threads are never in critical sections at once.                     *)
LockInv ==
  /\ lock \in {"free", "tx", "rx"}
  /\ tx.pc \in {"saving", "linkMac", "addAddress"} => lock = "tx"
  /\ rx.pc = "linkEui" => lock = "rx"

(* While a thread links an element, the list ends where its walk ended and *)
(* the station is still missing.                                           *)
TailInv ==
  /\ tx.pc = "linkMac" =>
       tx.tail = Len(list) /\ \A i \in DOMAIN list : list[i].mac # Router
  /\ rx.pc = "linkEui" =>
       /\ rx.tail = Len(list) /\ list # <<>>
       /\ \A i \in DOMAIN list : list[i].mac # rx.p.eui

(* What send_package keeps about its packet and about aux_info.            *)
TxInv ==
  /\ tx.pc # "read" => tx.p \in Packets
  /\ tx.node \in {NULL} \union DOMAIN list
  /\ tx.pc \in {"save", "saving"} => tx.p.kind = "request"
  /\ tx.pc \in {"learn", "addMac", "linkMac", "addAddress"} => tx.p.kind = "RA"
  /\ tx.pc \in {"saving", "send"} => tx.node # NULL
  /\ tx.pc \in {"save", "saving", "send"} /\ tx.node # NULL
       => list[tx.node].eui = tx.p.dst.iid

(* The host of address a has asked the device d; or its request is just    *)
(* being saved and sent.                                                   *)
Asked(d, a) ==
  \/ a \in {Zero, Junk}
  \/ <<d, a.iid>> \in sent
  \/ /\ tx.pc \in {"saving", "send"} /\ tx.p.kind = "request"
     /\ list[tx.node].eui = d
     /\ tx.p.src = a

SavedInv ==
  /\ S_addr \in [Devices -> [src : Addresses, dst : Addresses]]
  /\ sent \subseteq Devices \X Hosts
  /\ \A d \in Devices : Own(S_addr[d].dst, d) /\ Asked(d, S_addr[d].src)

(* What recive_package keeps about its frame and about aux_list.           *)
RxInv ==
  /\ rx.pc # "receive" => rx.p \in Frames
  /\ rx.node \in {NULL} \union DOMAIN list
  /\ rx.pc \in {"find", "decompress", "learn", "forward"} =>
       \E i \in DOMAIN list : list[i].eui = rx.p.eui
  /\ HeardIsListed
  /\ rx.pc \in {"learn", "forward"} =>
       /\ Own(rx.packet.src, rx.p.eui)
       /\ rx.packet.kind = "reply" => Asked(rx.p.eui, rx.packet.dst)

OutInv == DevicesNotConfused /\ ReplyHasRequest

IInv ==
  /\ ThreadInv /\ ETH_mac \in {"allRouters", Router} /\ crashed \in BOOLEAN
  /\ ListOK(list) /\ LockInv /\ TailInv /\ TxInv /\ SavedInv /\ RxInv
  /\ OutInv

-----------------------------------------------------------------------------
(* The walks of IPv6.c over the list.                                      *)

(* A non-empty set of naturals has a least element.                        *)
LEMMA LeastNatural ==
  ASSUME NEW T \in SUBSET Nat, T # {}
  PROVE  \E x \in T : \A y \in T : x <= y
<1>1. IsWellFoundedOn(OpToRel(<, Nat), Nat)
  BY NatLessThanWellFounded
<1>2. PICK x \in T : \A y \in T : ~ (<<y, x>> \in OpToRel(<, Nat))
  BY <1>1, WFMin
<1>3. \A y \in T : ~ (y < x)
  BY <1>2 DEF OpToRel
<1>4. QED BY <1>3

(* A walk ends at an element of interest, and at NULL only without one.    *)
LEMMA FirstOfFound ==
  ASSUME NEW n \in Nat, NEW found \in SUBSET (1..n)
  PROVE  /\ found = {} => FirstOf(found) = NULL
         /\ found # {} => FirstOf(found) \in found
         /\ FirstOf(found) = NULL => found = {}
<1>1. CASE found = {}
  BY <1>1 DEF FirstOf
<1>2. CASE found # {}
  <2>1. \E i \in found : \A k \in found : i <= k
    BY <1>2, LeastNatural
  <2>2. FirstOf(found) \in found
    BY <1>2, <2>1 DEF FirstOf
  <2>3. FirstOf(found) \in 1..n
    BY <2>2
  <2>4. FirstOf(found) # NULL
    BY <2>3 DEF NULL
  <2>5. QED BY <1>2, <2>2, <2>4
<1>3. QED BY <1>1, <1>2

(* What a walk by MAC, EUI, address or type returns.                       *)
LEMMA WalkResult ==
  ASSUME NEW l \in Seq(Entry)
  PROVE  /\ \A mac : \/ ByMac(l, mac) = NULL /\ \A i \in DOMAIN l : l[i].mac # mac
                     \/ ByMac(l, mac) \in DOMAIN l /\ l[ByMac(l, mac)].mac = mac
         /\ \A eui : \/ ByEui(l, eui) = NULL /\ \A i \in DOMAIN l : l[i].eui # eui
                     \/ ByEui(l, eui) \in DOMAIN l /\ l[ByEui(l, eui)].eui = eui
         /\ ByRouter(l) \in {NULL} \union DOMAIN l
<1>1. Len(l) \in Nat /\ DOMAIN l = 1..Len(l)
  BY LenProperties
<1>2. ASSUME NEW mac
      PROVE  \/ ByMac(l, mac) = NULL /\ \A i \in DOMAIN l : l[i].mac # mac
             \/ ByMac(l, mac) \in DOMAIN l /\ l[ByMac(l, mac)].mac = mac
  <2> DEFINE found == {i \in DOMAIN l : l[i].mac = mac}
  <2>1. found \in SUBSET (1..Len(l))
    BY <1>1
  <2>2. (FirstOf(found) = NULL /\ found = {}) \/ FirstOf(found) \in found
    BY <1>1, <2>1, FirstOfFound
  <2>3. QED BY <2>2 DEF ByMac
<1>3. ASSUME NEW eui
      PROVE  \/ ByEui(l, eui) = NULL /\ \A i \in DOMAIN l : l[i].eui # eui
             \/ ByEui(l, eui) \in DOMAIN l /\ l[ByEui(l, eui)].eui = eui
  <2> DEFINE found == {i \in DOMAIN l : l[i].eui = eui}
  <2>1. found \in SUBSET (1..Len(l))
    BY <1>1
  <2>2. (FirstOf(found) = NULL /\ found = {}) \/ FirstOf(found) \in found
    BY <1>1, <2>1, FirstOfFound
  <2>3. QED BY <2>2 DEF ByEui
<1>4. ByRouter(l) \in {NULL} \union DOMAIN l
  <2> DEFINE found == {i \in DOMAIN l : l[i].type = 1}
  <2>1. found \in SUBSET (1..Len(l))
    BY <1>1
  <2>2. FirstOf(found) = NULL \/ FirstOf(found) \in found
    BY <1>1, <2>1, FirstOfFound
  <2>3. QED BY <2>2 DEF ByRouter
<1>5. QED BY <1>2, <1>3, <1>4

(* The lookup by address, for the address of a device: it finds the        *)
(* element the walk of send_package has found, and that is the device's.   *)
LEMMA LookupResult ==
  ASSUME NEW l, ListOK(l), NEW a \in Addresses, a \notin {Zero, Junk}
  PROVE  /\ Known(l, a) => ByIPv6(l, a) # NULL
         /\ ByIPv6(l, a) # NULL =>
              ByIPv6(l, a) \in DOMAIN l /\ l[ByIPv6(l, a)].mac = a.iid
<1>1. l \in Seq(Entry) /\ Len(l) \in Nat /\ DOMAIN l = 1..Len(l)
  BY LenProperties DEF ListOK
<1> DEFINE found == {i \in DOMAIN l : IF a.net = "fe80" THEN l[i].ll = a
                                     ELSE l[i].glob = a}
<1>2. found \in SUBSET (1..Len(l))
  BY <1>1
<1>3. (FirstOf(found) = NULL /\ found = {}) \/ FirstOf(found) \in found
  BY <1>1, <1>2, FirstOfFound
<1>4. ByIPv6(l, a) = FirstOf(found)
  BY DEF ByIPv6
<1>5. \A i \in found : l[i].mac = a.iid
  BY DEF ListOK, EntryOK, Own
<1>6. ASSUME Known(l, a) PROVE found # {}
  <2>1. PICK i \in DOMAIN l : l[i].ll = a \/ l[i].glob = a
    BY <1>6 DEF Known
  <2>2. EntryOK(l[i])
    BY DEF ListOK
  <2>3. i \in found
    BY <2>1, <2>2 DEF EntryOK
  <2>4. QED BY <2>3
<1>7. ASSUME found # {} PROVE FirstOf(found) # NULL
  BY <1>1, <1>2, <1>7, FirstOfFound
<1>8. QED BY <1>3, <1>4, <1>5, <1>6, <1>7

-----------------------------------------------------------------------------
(* The writes of IPv6.c keep the list in order, and every element that of  *)
(* its station.                                                            *)

(* The kinds of address.                                                   *)
LEMMA AddressKinds ==
  /\ \A a \in Addresses : a \in {Zero, Junk} \/ a.net \in {"fe80", "aaaa", "ff02"}
  /\ Zero.net # "fe80" /\ Junk.net # "fe80"
  /\ {Zero, Junk, AllRouters} \subseteq Addresses
  /\ \A x : LinkLocal(x).net = "fe80" /\ LinkLocal(x).iid = x
  /\ \A x : Global(x).net = "aaaa" /\ Global(x).iid = x
  /\ LinkLocal(Router) \in Addresses
  /\ \A d \in Devices : LinkLocal(d) \in Addresses /\ Global(d) \in Addresses
  /\ \A h \in Hosts : Global(h) \in Addresses
<1> USE DEF Zero, Junk, LinkLocal, Global, AllRouters
<1>1. \A a \in Addresses : a \in {Zero, Junk} \/ a.net \in {"fe80", "aaaa", "ff02"}
  <2> TAKE a \in Addresses
  <2>1. CASE a \in {LinkLocal(x) : x \in Devices \union {Router}}
    BY <2>1
  <2>2. CASE a \in {Global(x) : x \in Devices \union Hosts}
    BY <2>2
  <2>3. CASE a \in {Zero, Junk, AllRouters}
    BY <2>3
  <2>4. QED BY <2>1, <2>2, <2>3 DEF Addresses
<1>2. /\ Zero.net # "fe80" /\ Junk.net # "fe80"
      /\ \A x : LinkLocal(x).net = "fe80" /\ LinkLocal(x).iid = x
      /\ \A x : Global(x).net = "aaaa" /\ Global(x).iid = x
  OBVIOUS
<1> HIDE DEF Zero, Junk, LinkLocal, Global, AllRouters
<1>3. /\ {Zero, Junk, AllRouters} \subseteq Addresses
      /\ LinkLocal(Router) \in Addresses
      /\ \A d \in Devices : LinkLocal(d) \in Addresses /\ Global(d) \in Addresses
      /\ \A h \in Hosts : Global(h) \in Addresses
  BY DEF Addresses
<1>4. QED BY <1>1, <1>2, <1>3

(* The elements add_MAC_node and add_EUI_node make.                        *)
LEMMA NewEntries ==
  /\ EntryOK(MacNode(Router)) /\ MacNode(Router).mac = Router
  /\ \A d \in Devices :
       /\ EntryOK(FirstEuiNode(d)) /\ FirstEuiNode(d).mac = d /\ FirstEuiNode(d).eui = d
       /\ EntryOK(EuiNode(d)) /\ EuiNode(d).mac = d /\ EuiNode(d).eui = d
<1> USE AddressKinds, StationsAssumption
<1>1. EntryOK(MacNode(Router)) /\ MacNode(Router).mac = Router
  BY DEF EntryOK, Entry, MacNode, Own
<1>2. ASSUME NEW d \in Devices
      PROVE  /\ EntryOK(FirstEuiNode(d)) /\ FirstEuiNode(d).mac = d
             /\ FirstEuiNode(d).eui = d
  BY DEF EntryOK, Entry, FirstEuiNode, Own
<1>3. ASSUME NEW d \in Devices
      PROVE  EntryOK(EuiNode(d)) /\ EuiNode(d).mac = d /\ EuiNode(d).eui = d
  BY DEF EntryOK, Entry, FirstEuiNode, EuiNode, Own
<1>4. QED BY <1>1, <1>2, <1>3

(* An element may be changed as long as it stays that of its station.      *)
LEMMA ChangedEntry ==
  ASSUME NEW l, ListOK(l), NEW i \in DOMAIN l, NEW e, EntryOK(e),
         e.mac = l[i].mac
  PROVE  /\ ListOK([l EXCEPT ![i] = e]) /\ Kept(l, [l EXCEPT ![i] = e])
         /\ Len([l EXCEPT ![i] = e]) = Len(l)
<1> DEFINE m == [l EXCEPT ![i] = e]
<1>1. l \in Seq(Entry) /\ Len(l) \in Nat /\ DOMAIN l = 1..Len(l)
  BY LenProperties DEF ListOK
<1>2. m \in Seq(Entry) /\ Len(m) = Len(l) /\ DOMAIN m = DOMAIN l
  BY <1>1, ExceptSeq DEF EntryOK
<1>3. \A j \in DOMAIN l : m[j] = IF j = i THEN e ELSE l[j]
  BY <1>1
<1>4. \A j \in DOMAIN l : EntryOK(m[j]) /\ m[j].mac = l[j].mac
  BY <1>3 DEF ListOK
<1>5. e.eui = l[i].eui
  BY DEF ListOK, EntryOK
<1>6. \A j \in DOMAIN l : m[j].eui = l[j].eui
  BY <1>3, <1>5
<1>7. ListOK(m)
  BY <1>2, <1>4 DEF ListOK
<1>8. Kept(l, m)
  BY <1>2, <1>4, <1>6 DEF Kept
<1>9. QED BY <1>2, <1>7, <1>8

(* An element is added at the end, for a station that is missing.          *)
LEMMA AddedEntry ==
  ASSUME NEW l, ListOK(l), NEW e, EntryOK(e),
         \A i \in DOMAIN l : l[i].mac # e.mac
  PROVE  /\ ListOK(LinkAfter(l, Len(l), e)) /\ Kept(l, LinkAfter(l, Len(l), e))
         /\ Len(l) + 1 \in DOMAIN LinkAfter(l, Len(l), e)
         /\ LinkAfter(l, Len(l), e)[Len(l) + 1] = e
<1> DEFINE m == Append(l, e)
<1>1. l \in Seq(Entry) /\ Len(l) \in Nat /\ DOMAIN l = 1..Len(l) /\ e \in Entry
  BY LenProperties DEF ListOK, EntryOK
<1>2. LinkAfter(l, Len(l), e) = m
  BY <1>1, SubSeqFull DEF LinkAfter
<1>3. /\ m \in Seq(Entry) /\ Len(m) = Len(l) + 1
      /\ \A i \in 1..Len(l) : m[i] = l[i]
      /\ m[Len(l) + 1] = e
  BY <1>1, AppendProperties
<1>4. DOMAIN m = 1..(Len(l) + 1)
  BY <1>3, LenProperties
<1>5. \A i \in DOMAIN m : i \in DOMAIN l \/ i = Len(l) + 1
  BY <1>1, <1>4
<1>6. ListOK(m)
  <2>1. \A i \in DOMAIN m : EntryOK(m[i])
    BY <1>1, <1>3, <1>5 DEF ListOK
  <2>2. ASSUME NEW i \in DOMAIN m, NEW k \in DOMAIN m, m[i].mac = m[k].mac
        PROVE  i = k
    BY <1>1, <1>3, <1>5, <2>2 DEF ListOK
  <2>3. QED BY <1>3, <2>1, <2>2 DEF ListOK
<1>7. Kept(l, m)
  BY <1>1, <1>3, <1>4 DEF Kept
<1>8. QED BY <1>1, <1>2, <1>3, <1>4, <1>6, <1>7

(* add_IPv6_node, with an address of the station.                          *)
LEMMA WithAddressKeeps ==
  ASSUME NEW l, ListOK(l), NEW a \in Addresses, NEW mac, Own(a, mac)
  PROVE  /\ ListOK(WithAddress(l, a, mac)) /\ Kept(l, WithAddress(l, a, mac))
         /\ Len(WithAddress(l, a, mac)) = Len(l)
<1> DEFINE i == ByMac(l, mac)
<1>1. CASE i = NULL
  BY <1>1 DEF WithAddress, Kept
<1>2. CASE i # NULL
  <2>1. l \in Seq(Entry) /\ i \in DOMAIN l /\ l[i].mac = mac
    BY <1>2, WalkResult DEF ListOK
  <2>2. EntryOK(l[i]) /\ l[i] \in Entry
    BY <2>1 DEF ListOK, EntryOK
  <2>3. CASE a.net = "fe80"
    <3> DEFINE e == [l[i] EXCEPT !.ll = a]
    <3>1. EntryOK(e) /\ e.mac = l[i].mac
      BY <2>1, <2>2, <2>3 DEF EntryOK, Entry
    <3>2. WithAddress(l, a, mac) = [l EXCEPT ![i] = e]
      BY <1>2, <2>1, <2>3 DEF WithAddress
    <3> HIDE DEF e, i
    <3>3. /\ ListOK([l EXCEPT ![i] = e]) /\ Kept(l, [l EXCEPT ![i] = e])
          /\ Len([l EXCEPT ![i] = e]) = Len(l)
      BY <2>1, <3>1, ChangedEntry
    <3>4. QED BY <3>2, <3>3
  <2>4. CASE a.net # "fe80"
    <3> DEFINE e == [l[i] EXCEPT !.glob = a]
    <3>1. EntryOK(e) /\ e.mac = l[i].mac
      BY <2>1, <2>2, <2>4 DEF EntryOK, Entry
    <3>2. WithAddress(l, a, mac) = [l EXCEPT ![i] = e]
      BY <1>2, <2>1, <2>4 DEF WithAddress
    <3> HIDE DEF e, i
    <3>3. /\ ListOK([l EXCEPT ![i] = e]) /\ Kept(l, [l EXCEPT ![i] = e])
          /\ Len([l EXCEPT ![i] = e]) = Len(l)
      BY <2>1, <3>1, ChangedEntry
    <3>4. QED BY <3>2, <3>3
  <2>5. QED BY <2>3, <2>4
<1>3. QED BY <1>1, <1>2

(* add_EUI_node, for a device that is missing; it clears the addresses of  *)
(* the last element.                                                       *)
LEMMA WithEuiKeeps ==
  ASSUME NEW l, ListOK(l), l # <<>>, NEW d \in Devices,
         \A i \in DOMAIN l : l[i].mac # d
  PROVE  /\ ListOK(WithEui(l, Len(l), d)) /\ Kept(l, WithEui(l, Len(l), d))
         /\ \E i \in DOMAIN WithEui(l, Len(l), d) : WithEui(l, Len(l), d)[i].eui = d
<1> DEFINE n == Len(l)
           e == [l[n] EXCEPT !.ll = Zero, !.glob = Zero]
           m == [l EXCEPT ![n] = e]
<1>1. l \in Seq(Entry) /\ n \in Nat \ {0} /\ DOMAIN l = 1..n /\ n \in DOMAIN l
  BY LenProperties, EmptySeq DEF ListOK
<1>2. EntryOK(l[n]) /\ l[n] \in Entry
  BY <1>1 DEF ListOK, EntryOK
<1>3. EntryOK(e) /\ e.mac = l[n].mac
  BY <1>2, AddressKinds DEF EntryOK, Entry, Own
<1>4. ListOK(m) /\ Kept(l, m) /\ Len(m) = n
  <2> HIDE DEF e
  <2>1. QED BY <1>1, <1>3, ChangedEntry
<1>5. [l EXCEPT ![n].ll = Zero, ![n].glob = Zero] = m
  BY <1>1, <1>2 DEF Entry
<1>6. WithEui(l, n, d) = LinkAfter(m, Len(m), EuiNode(d))
  BY <1>4, <1>5 DEF WithEui
<1>7. EntryOK(EuiNode(d)) /\ EuiNode(d).mac = d /\ EuiNode(d).eui = d
  BY NewEntries
<1>8. \A i \in DOMAIN m : m[i].mac # d
  <2> HIDE DEF m
  <2>1. DOMAIN m = DOMAIN l
    BY <1>1, <1>4, LenProperties DEF ListOK
  <2>2. QED BY <1>4, <2>1 DEF Kept
<1> HIDE DEF m, e
<1>9. /\ ListOK(WithEui(l, n, d)) /\ Kept(m, WithEui(l, n, d))
      /\ Len(m) + 1 \in DOMAIN WithEui(l, n, d)
      /\ WithEui(l, n, d)[Len(m) + 1] = EuiNode(d)
  BY <1>4, <1>6, <1>7, <1>8, AddedEntry
<1>10. Kept(l, WithEui(l, n, d))
  BY <1>4, <1>9 DEF Kept
<1>11. QED BY <1>7, <1>9, <1>10

-----------------------------------------------------------------------------
(* The invariant holds when the program starts.                            *)
LEMMA InitInv == Init => IInv
<1> SUFFICES ASSUME Init PROVE IInv
  OBVIOUS
<1> USE DEF Init
<1>1. ThreadInv
  BY AddressKinds DEF ThreadInv, TxType, RxType, TxIdle, RxIdle, ZeroPacket, Packet, NULL
<1>2. <<>> \in Seq(Entry) /\ DOMAIN <<>> = {}
  BY EmptySeq
<1>3. ListOK(list)
  BY <1>2 DEF ListOK
<1>4. LockInv /\ TailInv
  BY DEF LockInv, TailInv, TxIdle, RxIdle
<1>5. TxInv /\ RxInv
  BY DEF TxInv, RxInv, HeardIsListed, TxIdle, RxIdle
<1>6. SavedInv
  BY AddressKinds DEF SavedInv, NotSaved, Own, Asked
<1>7. OutInv
  BY DEF OutInv, DevicesNotConfused, ReplyHasRequest, Nothing
<1>8. QED BY <1>1, <1>3, <1>4, <1>5, <1>6, <1>7 DEF IInv

(* What comes from outside.                                                *)
LEMMA Inputs ==
  /\ \A p \in Packets :
       /\ p.kind \in {"request", "RA", "NA", "NS"}
       /\ p.src \in Addresses /\ p.dst \in Addresses /\ p.target \in Addresses
       /\ p.dst \notin {Zero, Junk} /\ p.dst.iid \in Devices
       /\ p.kind = "request" => p.id \in Hosts /\ p.src.iid = p.id
       /\ p.kind = "RA" => p.src.iid = Router
  /\ \A f \in Frames :
       /\ f.eui \in Devices /\ f.kind \in {"reply", "RS", "NS", "NA"}
       /\ f.src \in Addresses /\ f.id \in Hosts \union {"none"}
       /\ f.kind \in {"RS", "NS"} => f.src.iid = f.eui
<1>1. ASSUME NEW p \in Packets
      PROVE  /\ p.kind \in {"request", "RA", "NA", "NS"}
             /\ p.src \in Addresses /\ p.target \in Addresses
             /\ p.dst \in [net : {"fe80", "aaaa"}, iid : Devices]
             /\ p.kind = "request" => p.id \in Hosts /\ p.src.iid = p.id
             /\ p.kind = "RA" => p.src.iid = Router
  BY PacketsAssumption, AddressKinds
<1>2. ASSUME NEW a \in [net : {"fe80", "aaaa"}, iid : Devices]
      PROVE  a \in Addresses /\ a \notin {Zero, Junk} /\ a.iid \in Devices
  <2>1. a = [net |-> a.net, iid |-> a.iid] /\ a.net \in {"fe80", "aaaa"}
        /\ a.iid \in Devices
    OBVIOUS
  <2>2. a = LinkLocal(a.iid) \/ a = Global(a.iid)
    BY <2>1 DEF LinkLocal, Global
  <2>3. a \in Addresses
    BY <2>1, <2>2, AddressKinds
  <2>4. QED BY <2>1, <2>3 DEF Zero, Junk
<1>3. QED BY <1>1, <1>2, FramesAssumption

(* In a step the list stays in order, and its elements where they are.     *)
(* Only a step of a critical section, or one with the mutex free, changes  *)
(* the list.                                                               *)
LEMMA ListStep ==
  ASSUME IInv, Next
  PROVE  ListOK(list') /\ Kept(list, list')
<1> USE DEF IInv
<1>0. ASSUME UNCHANGED list
      PROVE  ListOK(list') /\ Kept(list, list')
  BY <1>0 DEF Kept
<1>1. CASE \/ Scan \/ Lookup \/ BeginSave \/ EndSave \/ Send \/ SetEthMac \/ WalkMac
           \/ LookupTarget \/ AnswerSolicitation \/ Find \/ Decompress \/ Forward
           \/ WalkPastEnd
           \/ \E p \in Packets : ReceivePacket(p)
           \/ \E f \in Frames, n \in 1..MaxBurst : ReceiveFrames(f, n)
  <2>1. UNCHANGED list
    BY <1>1 DEF Scan, Lookup, BeginSave, EndSave, Send, SetEthMac, WalkMac, LookupTarget,
       AnswerSolicitation, Find, Decompress, Forward, WalkPastEnd, ReceivePacket,
       ReceiveFrames, shared
  <2>2. QED BY <1>0, <2>1, Zenon
<1>2. CASE LinkMac
  <2>1. /\ list' = LinkAfter(list, Len(list), MacNode(Router))
        /\ \A i \in DOMAIN list : list[i].mac # Router
    BY <1>2 DEF LinkMac, At, TailInv, WithMac
  <2>2. QED BY <2>1, NewEntries, AddedEntry
<1>3. CASE AddRouterAddress
  <2>1. tx.p.src \in Addresses /\ Own(tx.p.src, Router)
    BY <1>3, Inputs DEF AddRouterAddress, At, TxInv, Own
  <2>2. QED BY <1>3, <2>1, WithAddressKeeps DEF AddRouterAddress
<1>4. CASE WalkEui
  <2>1. rx.p.eui \in Devices
    BY <1>4, Inputs DEF WalkEui, At, RxInv
  <2>2. CASE list = <<>>
    <3> DEFINE e == FirstEuiNode(rx.p.eui)
    <3>1. list' = <<e>> /\ EntryOK(e)
      BY <1>4, <2>1, <2>2, NewEntries DEF WalkEui
    <3>2. <<e>> \in Seq(Entry) /\ DOMAIN <<e>> = {1} /\ <<e>>[1] = e
      BY <3>1 DEF EntryOK
    <3>3. DOMAIN list = {}
      BY <2>2
    <3> HIDE DEF e
    <3>4. QED BY <3>1, <3>2, <3>3 DEF ListOK, Kept
  <2>3. CASE list # <<>>
    BY <1>0, <1>4, <2>3 DEF WalkEui
  <2>4. QED BY <2>2, <2>3
<1>5. CASE LinkEui
  <2>1. /\ list' = WithEui(list, Len(list), rx.p.eui) /\ list # <<>>
        /\ \A i \in DOMAIN list : list[i].mac # rx.p.eui
    BY <1>5 DEF LinkEui, At, TailInv
  <2>2. rx.p.eui \in Devices
    BY <1>5, Inputs DEF LinkEui, At, RxInv
  <2>3. QED BY <2>1, <2>2, WithEuiKeeps
<1>6. CASE Learn
  <2>1. CASE rx.node = NULL
    BY <1>0, <1>6, <2>1 DEF Learn
  <2>2. CASE rx.node # NULL
    <3>1. list[rx.node].mac = rx.p.eui /\ Own(rx.packet.src, rx.p.eui)
          /\ rx.packet.src \in Addresses
      BY <1>6 DEF Learn, At, RxInv, HeardIsListed, ThreadInv, RxType
    <3>2. list' = WithAddress(list, rx.packet.src, rx.p.eui)
      BY <1>6, <2>2, <3>1 DEF Learn
    <3>3. QED BY <3>1, <3>2, WithAddressKeeps
  <2>3. QED BY <2>1, <2>2
<1>7. QED BY <1>1, <1>2, <1>3, <1>4, <1>5, <1>6 DEF Next, Transmitter, Receiver

(* What recive_package finds in the buffer after schc_decompression.       *)
LEMMA DecompressedPacket ==
  ASSUME IInv, rx.pc = "decompress", NEW packet \in Decompressed
  PROVE  /\ packet \in [kind : {"zero", "reply", "RS", "NS"}, src : Addresses,
                        dst : Addresses, target : Addresses, id : Hosts \union {"none"}]
         /\ Own(packet.src, rx.p.eui)
         /\ packet.kind = "reply" => Asked(rx.p.eui, packet.dst)
<1> DEFINE Good(p) ==
      /\ p \in [kind : {"zero", "reply", "RS", "NS"}, src : Addresses,
                dst : Addresses, target : Addresses, id : Hosts \union {"none"}]
      /\ Own(p.src, rx.p.eui)
      /\ p.kind = "reply" => Asked(rx.p.eui, p.dst)
<1> SUFFICES Good(packet)
  OBVIOUS
<1>1. /\ rx.p \in Frames /\ rx.p.eui \in Devices /\ rx.p.src \in Addresses
      /\ rx.p.id \in Hosts \union {"none"}
      /\ rx.p.kind \in {"RS", "NS"} => rx.p.src.iid = rx.p.eui
  BY Inputs DEF IInv, RxInv
<1>2. Good(ZeroPacket)
  BY AddressKinds DEF ZeroPacket, Packet, Own
<1>3. CASE rx.p.kind = "reply"
  <2> DEFINE old == S_addr[rx.p.eui]
  <2>1. old \in [src : Addresses, dst : Addresses]
    BY <1>1 DEF IInv, SavedInv
  <2>2. Own(old.dst, rx.p.eui) /\ Asked(rx.p.eui, old.src)
    BY <1>1 DEF IInv, SavedInv
  <2>3. PICK entry \in output_addr :
          packet = IF entry = NotSaved THEN ZeroPacket
                   ELSE Packet("reply", entry.dst, entry.src, Zero, rx.p.id)
    BY <1>3 DEF Decompressed
  <2>4. /\ entry.src \in Addresses /\ entry.dst \in Addresses
        /\ Own(entry.dst, rx.p.eui) /\ Asked(rx.p.eui, entry.src)
    <3>1. CASE entry = old
      BY <2>1, <2>2, <3>1
    <3>2. CASE entry # old
      <4>1. Saving /\ entry \in [src : Either(old.src, Pair.src), dst : Either(old.dst, Pair.dst)]
        BY <2>3, <3>2 DEF output_addr
      <4>2. /\ entry.src \in {old.src, Pair.src, Junk}
            /\ entry.dst \in {old.dst, Pair.dst, Junk}
        BY <4>1 DEF Either
      <4>3. Pair.src = tx.p.src /\ Pair.dst = tx.p.dst
        BY DEF Pair
      <4>4. tx.pc = "saving" /\ list[tx.node].eui = rx.p.eui
        BY <4>1 DEF Saving
      <4>5. /\ tx.p \in Packets /\ tx.p.kind = "request"
            /\ list[tx.node].eui = tx.p.dst.iid
        BY <4>4 DEF IInv, TxInv
      <4>6. /\ tx.p.src \in Addresses /\ tx.p.dst \in Addresses
            /\ Own(tx.p.dst, rx.p.eui) /\ Asked(rx.p.eui, tx.p.src)
        BY <4>4, <4>5, Inputs DEF Own, Asked
      <4>7. Junk \in Addresses /\ Own(Junk, rx.p.eui) /\ Asked(rx.p.eui, Junk)
        BY AddressKinds DEF Own, Asked
      <4>8. QED BY <2>1, <2>2, <4>2, <4>3, <4>6, <4>7
    <3>3. QED BY <3>1, <3>2
  <2>5. Good(Packet("reply", entry.dst, entry.src, Zero, rx.p.id))
    BY <1>1, <2>4, AddressKinds DEF Packet
  <2>6. QED BY <1>2, <2>3, <2>5
<1>4. CASE rx.p.kind = "RS"
  <2>1. packet = Packet("RS", rx.p.src, AllRouters, Zero, "none")
    BY <1>4 DEF Decompressed
  <2>2. QED BY <1>1, <1>4, <2>1, AddressKinds DEF Packet, Own
<1>5. CASE rx.p.kind = "NS"
  <2>1. CASE ByRouter(list) = NULL
    BY <1>2, <1>5, <2>1 DEF Decompressed
  <2>2. CASE ByRouter(list) # NULL
    <3>1. ByRouter(list) \in DOMAIN list
      BY <2>2, WalkResult DEF IInv, ListOK
    <3>2. list[ByRouter(list)].ll \in Addresses
      BY <3>1 DEF IInv, ListOK, EntryOK, Entry
    <3>3. packet = Packet("NS", rx.p.src, list[ByRouter(list)].ll, Zero, "none")
      BY <1>5, <2>2 DEF Decompressed
    <3>4. QED BY <1>1, <1>5, <3>2, <3>3, AddressKinds DEF Packet, Own
  <2>3. QED BY <2>1, <2>2
<1>6. CASE rx.p.kind \notin {"reply", "RS", "NS"}
  BY <1>2, <1>6 DEF Decompressed
<1>7. QED BY <1>3, <1>4, <1>5, <1>6

(* The lookup of a node by the destination or the target of the packet.    *)
LEMMA LookupNode ==
  ASSUME IInv, NEW a
  PROVE  ByIPv6(list, a) \in {NULL} \union DOMAIN list
<1>1. list \in Seq(Entry) /\ Len(list) \in Nat /\ DOMAIN list = 1..Len(list)
  BY LenProperties DEF IInv, ListOK
<1> DEFINE found == {i \in DOMAIN list : IF a.net = "fe80" THEN list[i].ll = a
                                        ELSE list[i].glob = a}
<1>2. FirstOf(found) \in {NULL} \union found
  BY <1>1, FirstOfFound
<1>3. QED BY <1>2 DEF ByIPv6

(* The threads' program counters and local variables keep their types.     *)
LEMMA ThreadStep ==
  ASSUME IInv, Next
  PROVE  ThreadInv' /\ (ETH_mac \in {"allRouters", Router} /\ crashed \in BOOLEAN)'
<1> USE DEF ThreadInv
<1>1. tx \in TxType /\ rx \in RxType /\ ETH_mac \in {"allRouters", Router}
      /\ crashed \in BOOLEAN /\ Len(list) \in Nat /\ DOMAIN list = 1..Len(list)
  BY LenProperties DEF IInv, ListOK
<1>2. TxIdle \in TxType /\ RxIdle \in RxType
  BY AddressKinds DEF TxType, RxType, TxIdle, RxIdle, ZeroPacket, Packet, NULL
<1>3. \A a : ByIPv6(list, a) \in Nat
  BY <1>1, LookupNode DEF NULL
<1>4. ByEui(list, rx.p.eui) \in Nat
  BY <1>1, WalkResult DEF IInv, ListOK, NULL
<1>5. CASE Scan \/ Lookup \/ BeginSave \/ EndSave \/ Send \/ LookupTarget \/ AnswerSolicitation
  <2>1. CASE Scan
    BY <1>1, <1>2, <2>1 DEF Scan, TxType, shared
  <2>2. CASE Lookup
    BY <1>1, <1>2, <1>3, <2>2 DEF Lookup, TxType, shared
  <2>3. CASE BeginSave \/ EndSave \/ Send \/ AnswerSolicitation
    BY <1>1, <1>2, <2>3 DEF BeginSave, EndSave, Send, AnswerSolicitation, TxType, shared
  <2>4. CASE LookupTarget
    BY <1>1, <1>2, <1>3, <2>4 DEF LookupTarget, TxType, shared
  <2>5. QED BY <1>5, <2>1, <2>2, <2>3, <2>4
<1>6. CASE SetEthMac \/ WalkMac \/ LinkMac \/ AddRouterAddress
  BY <1>1, <1>6 DEF SetEthMac, WalkMac, LinkMac, AddRouterAddress, TxType, shared
<1>7. ASSUME NEW p \in Packets, ReceivePacket(p)
      PROVE  ThreadInv' /\ (ETH_mac \in {"allRouters", Router} /\ crashed \in BOOLEAN)'
  BY <1>1, <1>7 DEF ReceivePacket, TxType, shared
<1>8. ASSUME NEW f \in Frames, NEW n \in 1..MaxBurst, ReceiveFrames(f, n)
      PROVE  ThreadInv' /\ (ETH_mac \in {"allRouters", Router} /\ crashed \in BOOLEAN)'
  <2>1. n \in Int
    BY MaxBurstAssumption
  <2>2. rx' = [rx EXCEPT !.pc = "addEui", !.p = f, !.left = n]
    BY <1>8 DEF ReceiveFrames
  <2>3. rx' \in RxType
    BY <1>1, <2>1, <2>2 DEF RxType
  <2>4. QED BY <1>1, <1>8, <2>3 DEF ReceiveFrames, shared
<1>9. CASE WalkEui \/ LinkEui \/ Find \/ Learn \/ WalkPastEnd
  <2>1. CASE WalkEui \/ LinkEui
    BY <1>1, <2>1 DEF WalkEui, LinkEui, RxType, shared
  <2>2. CASE Find \/ Learn \/ WalkPastEnd
    BY <1>1, <1>4, <2>2 DEF Find, Learn, WalkPastEnd, RxType, shared
  <2>3. QED BY <1>9, <2>1, <2>2
<1>10. CASE Decompress
  <2>1. PICK packet \in Decompressed : rx' = [rx EXCEPT !.pc = "learn", !.packet = packet]
    BY <1>10 DEF Decompress
  <2>2. packet \in [kind : {"zero", "reply", "RS", "NS"}, src : Addresses,
                    dst : Addresses, target : Addresses, id : Hosts \union {"none"}]
    BY <1>10, DecompressedPacket DEF Decompress, At
  <2>3. rx' \in RxType
    BY <1>1, <2>1, <2>2 DEF RxType
  <2>4. QED BY <1>1, <1>10, <2>3 DEF Decompress, shared
<1>11. CASE Forward
  <2>1. rx.p \in Frames \union {RxIdle.p} /\ rx.left - 1 \in Int
    BY <1>1 DEF RxType
  <2>2. [RxIdle EXCEPT !.pc = "addEui", !.p = rx.p, !.left = rx.left - 1] \in RxType
    BY <1>2, <2>1 DEF RxType
  <2>3. rx' \in RxType
    BY <1>2, <1>11, <2>2 DEF Forward
  <2>4. QED BY <1>1, <1>11, <2>3 DEF Forward, shared
<1>12. QED
  BY <1>5, <1>6, <1>7, <1>8, <1>9, <1>10, <1>11 DEF Next, Transmitter, Receiver

(* The mutex: a thread in a critical section holds it.                     *)
LEMMA LockStep ==
  ASSUME IInv, Next
  PROVE  LockInv'
<1>1. tx \in TxType /\ rx \in RxType /\ LockInv
  BY DEF IInv, ThreadInv
<1> USE DEF LockInv, At
<1>2. CASE Scan \/ Lookup \/ BeginSave \/ EndSave \/ Send \/ LookupTarget \/ AnswerSolicitation
  <2>1. TxIdle.pc = "read"
    BY DEF TxIdle
  <2>2. CASE Scan
    BY <1>1, <2>1, <2>2 DEF Scan, TxType
  <2>3. CASE Lookup \/ LookupTarget
    BY <1>1, <2>1, <2>3 DEF Lookup, LookupTarget, TxType
  <2>4. CASE BeginSave \/ EndSave
    BY <1>1, <2>4 DEF BeginSave, EndSave, TxType, Acquire, Release
  <2>5. CASE Send \/ AnswerSolicitation
    BY <1>1, <2>1, <2>5 DEF Send, AnswerSolicitation, TxType, Locked
  <2>6. QED BY <1>2, <2>2, <2>3, <2>4, <2>5
<1>3. CASE SetEthMac \/ WalkMac \/ LinkMac \/ AddRouterAddress
  BY <1>1, <1>3 DEF SetEthMac, WalkMac, LinkMac, AddRouterAddress, TxType, Acquire, Release
<1>4. ASSUME NEW p \in Packets, ReceivePacket(p)
      PROVE  LockInv'
  BY <1>1, <1>4 DEF ReceivePacket, TxType
<1>5. ASSUME NEW f \in Frames, NEW n \in 1..MaxBurst, ReceiveFrames(f, n)
      PROVE  LockInv'
  BY <1>1, <1>5 DEF ReceiveFrames, RxType
<1>6. CASE WalkEui \/ LinkEui \/ Find \/ Learn \/ WalkPastEnd
  BY <1>1, <1>6 DEF WalkEui, LinkEui, Find, Learn, WalkPastEnd, RxType, Acquire,
     Release, Locked
<1>7. CASE Decompress \/ Forward
  <2>1. RxIdle.pc = "receive" /\ \A p, n : [RxIdle EXCEPT !.pc = "addEui", !.p = p, !.left = n].pc = "addEui"
    BY DEF RxIdle
  <2>2. CASE Decompress
    BY <1>1, <2>2 DEF Decompress, RxType
  <2>3. CASE Forward
    BY <1>1, <2>1, <2>3 DEF Forward, Locked
  <2>4. QED BY <1>7, <2>2, <2>3
<1>8. QED
  BY <1>2, <1>3, <1>4, <1>5, <1>6, <1>7 DEF Next, Transmitter, Receiver

(* Nothing is linked behind the back of a thread that has walked to the    *)
(* end of the list.                                                        *)
LEMMA TailStep ==
  ASSUME IInv, Next
  PROVE  TailInv'
<1>1. tx \in TxType /\ rx \in RxType /\ LockInv /\ TailInv /\ list \in Seq(Entry)
  BY DEF IInv, ThreadInv, ListOK
<1>2. TxIdle.pc = "read"
  BY DEF TxIdle
<1> USE DEF TailInv, At
<1>3. CASE Scan \/ Lookup \/ BeginSave \/ EndSave \/ Send \/ LookupTarget \/ AnswerSolicitation
  <2>1. CASE Scan
    BY <1>1, <1>2, <2>1 DEF Scan, TxType, shared
  <2>2. CASE Lookup \/ LookupTarget
    BY <1>1, <1>2, <2>2 DEF Lookup, LookupTarget, TxType, shared
  <2>3. CASE BeginSave \/ EndSave
    BY <1>1, <2>3 DEF BeginSave, EndSave, TxType, shared
  <2>4. CASE Send \/ AnswerSolicitation
    BY <1>1, <1>2, <2>4 DEF Send, AnswerSolicitation, TxType, shared
  <2>5. QED BY <1>3, <2>1, <2>2, <2>3, <2>4
<1>4. CASE SetEthMac \/ \E p \in Packets : ReceivePacket(p)
  BY <1>1, <1>4 DEF SetEthMac, ReceivePacket, TxType, shared
<1>5. CASE WalkMac
  <2>1. tx'.tail = Len(list) /\ UNCHANGED <<list, rx>>
    BY <1>1, <1>5 DEF WalkMac, TxType, shared
  <2>2. tx'.pc = "linkMac" => \A i \in DOMAIN list : list[i].mac # Router
    <3>1. tx'.pc = "linkMac" => ByMac(list, Router) = NULL
      BY <1>1, <1>5 DEF WalkMac, TxType
    <3>2. ByMac(list, Router) = NULL => \A i \in DOMAIN list : list[i].mac # Router
      BY <1>1, WalkResult DEF NULL
    <3>3. QED BY <3>1, <3>2
  <2>3. QED BY <1>1, <2>1, <2>2
<1>6. CASE LinkMac \/ AddRouterAddress
  <2>1. tx'.pc \notin {"linkMac"} /\ UNCHANGED rx
    BY <1>1, <1>6 DEF LinkMac, AddRouterAddress, TxType
  <2>2. rx.pc # "linkEui"
    BY <1>1, <1>6 DEF LinkMac, AddRouterAddress, LockInv
  <2>3. QED BY <2>1, <2>2
<1>7. CASE WalkEui
  <2>1. CASE list = <<>>
    <3>1. tx.pc # "linkMac" /\ rx'.pc = "find" /\ UNCHANGED tx
      BY <1>1, <1>7, <2>1 DEF WalkEui, Locked, LockInv, RxType
    <3>2. QED BY <3>1
  <2>2. CASE list # <<>>
    <3>1. UNCHANGED <<list, tx>>
      BY <1>7, <2>2 DEF WalkEui
    <3>2. rx'.pc = "linkEui" =>
            /\ rx'.tail = Len(list) /\ rx'.p = rx.p /\ ByMac(list, rx.p.eui) = NULL
      BY <1>1, <1>7, <2>2 DEF WalkEui, RxType
    <3>3. ByMac(list, rx.p.eui) = NULL => \A i \in DOMAIN list : list[i].mac # rx.p.eui
      BY <1>1, WalkResult DEF NULL
    <3>4. QED BY <1>1, <2>2, <3>1, <3>2, <3>3
  <2>3. QED BY <2>1, <2>2
<1>8. CASE LinkEui
  BY <1>1, <1>8 DEF LinkEui, LockInv, RxType
<1>9. CASE Learn
  <2>1. tx.pc # "linkMac" /\ rx'.pc # "linkEui" /\ UNCHANGED tx
    BY <1>1, <1>9 DEF Learn, Locked, LockInv, RxType
  <2>2. QED BY <2>1
<1>10. CASE Find \/ Decompress \/ WalkPastEnd
  BY <1>1, <1>10 DEF Find, Decompress, WalkPastEnd, RxType, shared
<1>11. CASE Forward
  <2>1. RxIdle.pc = "receive"
        /\ \A p, n : [RxIdle EXCEPT !.pc = "addEui", !.p = p, !.left = n].pc = "addEui"
    BY DEF RxIdle
  <2>2. QED BY <1>1, <1>11, <2>1 DEF Forward, shared
<1>12. ASSUME NEW f \in Frames, NEW n \in 1..MaxBurst, ReceiveFrames(f, n)
       PROVE  TailInv'
  BY <1>1, <1>12 DEF ReceiveFrames, RxType, shared
<1>13. QED
  BY <1>3, <1>4, <1>5, <1>6, <1>7, <1>8, <1>9, <1>10, <1>11, <1>12
  DEF Next, Transmitter, Receiver

(* Receiving a frame leaves send_package alone.                            *)
LEMMA TxUnchanged ==
  ASSUME IInv, Next,
         \/ Receiver \/ WalkPastEnd
         \/ \E f \in Frames, n \in 1..MaxBurst : ReceiveFrames(f, n)
  PROVE  UNCHANGED <<tx, sent, S_addr>>
BY DEF Receiver, WalkEui, LinkEui, Find, Decompress, Learn, Forward, WalkPastEnd,
   ReceiveFrames, shared

(* aux_info stays the element of the destination.                          *)
LEMMA TxStep ==
  ASSUME IInv, Next
  PROVE  TxInv'
<1>1. tx \in TxType /\ TxInv /\ ListOK(list) /\ Kept(list, list')
  BY ListStep DEF IInv, ThreadInv
<1>2. TxIdle.pc = "read" /\ TxIdle.node = NULL
  BY DEF TxIdle
<1>3. /\ \A i \in DOMAIN list : i \in DOMAIN list' /\ list'[i].eui = list[i].eui
      /\ 0 \notin DOMAIN list
  BY <1>1, LenProperties DEF Kept, ListOK
<1> USE DEF TxInv, At, NULL
<1>4. CASE UNCHANGED tx
  BY <1>1, <1>3, <1>4
<1>5. CASE Scan
  BY <1>1, <1>2, <1>3, <1>5, Inputs DEF Scan, TxType
<1>6. CASE Lookup
  <2> DEFINE node == ByIPv6(list, tx.p.dst)
  <2>1. tx.p \in Packets
    BY <1>1, <1>6 DEF Lookup
  <2>2. /\ tx.p.dst \in Addresses /\ tx.p.dst \notin {Zero, Junk}
        /\ tx.p.dst.iid \in Devices /\ tx.p.kind \in {"request", "RA", "NA", "NS"}
    BY <2>1, Inputs
  <2>3. node \in {NULL} \union DOMAIN list
    BY LookupNode
  <2>4. node # NULL => node \in DOMAIN list /\ list[node].mac = tx.p.dst.iid
    BY <1>1, <2>2, LookupResult
  <2>5. node # NULL => list[node].eui = tx.p.dst.iid
    BY <1>1, <2>2, <2>4, StationsAssumption DEF ListOK, EntryOK
  <2> HIDE DEF node
  <2>6. \/ tx' = TxIdle
        \/ /\ tx'.p = tx.p /\ tx'.node = node
           /\ tx'.pc \in {"save", "send", "answer"}
           /\ tx'.pc = "save" => tx.p.kind = "request"
           /\ tx'.pc = "send" => node # NULL
    BY <1>1, <1>6 DEF Lookup, TxType, node
  <2>7. CASE tx' = TxIdle
    BY <1>2, <2>7
  <2>8. CASE tx' # TxIdle
    BY <1>3, <2>1, <2>3, <2>5, <2>6, <2>8
  <2>9. QED BY <2>7, <2>8
<1>7. CASE BeginSave \/ EndSave
  BY <1>1, <1>3, <1>7 DEF BeginSave, EndSave, TxType
<1>8. CASE Send
  BY <1>1, <1>2, <1>3, <1>8 DEF Send, TxType
<1>9. CASE SetEthMac \/ WalkMac \/ LinkMac \/ AddRouterAddress
  BY <1>1, <1>3, <1>9 DEF SetEthMac, WalkMac, LinkMac, AddRouterAddress, TxType
<1>10. CASE LookupTarget
  <2>1. ByIPv6(list, tx.p.target) \in {NULL} \union DOMAIN list
    BY LookupNode
  <2>2. QED BY <1>1, <1>2, <1>3, <1>10, <2>1 DEF LookupTarget, TxType
<1>11. CASE AnswerSolicitation
  BY <1>1, <1>2, <1>3, <1>4, <1>11 DEF AnswerSolicitation
<1>12. CASE \E p \in Packets : ReceivePacket(p)
  BY <1>1, <1>3, <1>12 DEF ReceivePacket, TxType
<1>13. CASE \/ Receiver \/ WalkPastEnd
            \/ \E f \in Frames, n \in 1..MaxBurst : ReceiveFrames(f, n)
  BY <1>4, <1>13, TxUnchanged
<1>14. QED
  BY <1>5, <1>6, <1>7, <1>8, <1>9, <1>10, <1>11, <1>12, <1>13 DEF Next, Transmitter

(* A host that has asked a device has asked it for ever.                   *)
LEMMA AskedStays ==
  ASSUME IInv, Next, NEW d, NEW a, Asked(d, a)
  PROVE  Asked(d, a)'
<1>1. tx \in TxType /\ TxInv /\ Kept(list, list')
  BY ListStep DEF IInv, ThreadInv
<1>2. CASE a \in {Zero, Junk}
  BY <1>2 DEF Asked
<1>3. CASE <<d, a.iid>> \in sent
  <2>1. sent \subseteq sent'
    BY DEF Next, Transmitter, Receiver, Scan, Lookup, BeginSave, EndSave, Send, SetEthMac,
       WalkMac, LinkMac, AddRouterAddress, LookupTarget, AnswerSolicitation, WalkEui,
       LinkEui, Find, Decompress, Learn, Forward, WalkPastEnd, ReceivePacket, ReceiveFrames
  <2>2. QED BY <1>3, <2>1, Zenon DEF Asked
<1>4. CASE /\ tx.pc \in {"saving", "send"} /\ tx.p.kind = "request"
           /\ list[tx.node].eui = d
           /\ tx.p.src = a
  <2>1. list'[tx.node].eui = d
    BY <1>1, <1>4 DEF TxInv, Kept
  <2>2. CASE UNCHANGED tx
    BY <1>4, <2>1, <2>2 DEF Asked
  <2>3. CASE EndSave
    BY <1>1, <1>4, <2>1, <2>3 DEF EndSave, TxType, Asked
  <2>4. CASE Send
    <3>1. tx.p \in Packets
      BY <1>1, <1>4 DEF TxInv
    <3>2. a.iid = tx.p.id
      BY <1>4, <3>1, Inputs
    <3>3. <<d, a.iid>> \in sent'
      BY <1>4, <2>4, <3>2 DEF Send
    <3>4. QED BY <3>3 DEF Asked
  <2>5. CASE Transmitter /\ ~EndSave /\ ~Send
    BY <1>4, <2>5 DEF Transmitter, At, Scan, Lookup, BeginSave, SetEthMac, WalkMac,
       LinkMac, AddRouterAddress, LookupTarget, AnswerSolicitation
  <2>6. CASE \E p \in Packets : ReceivePacket(p)
    BY <1>4, <2>6 DEF ReceivePacket, At
  <2>7. CASE \/ Receiver \/ WalkPastEnd
             \/ \E f \in Frames, n \in 1..MaxBurst : ReceiveFrames(f, n)
    BY <2>2, <2>7, TxUnchanged
  <2>8. QED BY <2>3, <2>4, <2>5, <2>6, <2>7 DEF Next
<1>5. QED BY <1>2, <1>3, <1>4 DEF Asked

(* The table of saved addresses keeps, for each device, the pair of a      *)
(* request to that device.                                                 *)
LEMMA SavedStep ==
  ASSUME IInv, Next
  PROVE  SavedInv'
<1>1. SavedInv /\ TxInv /\ tx \in TxType
  BY DEF IInv, ThreadInv
<1>2. \A d, a : Asked(d, a) => Asked(d, a)'
  BY AskedStays
<1>3. CASE UNCHANGED <<S_addr, sent>>
  BY <1>1, <1>2, <1>3 DEF SavedInv
<1>4. CASE EndSave
  <2> DEFINE eui == list[tx.node].eui
  <2>1. tx.p \in Packets /\ tx.p.kind = "request" /\ eui = tx.p.dst.iid
    BY <1>1, <1>4 DEF EndSave, At, TxInv
  <2>2. eui \in Devices /\ tx.p.src \in Addresses /\ tx.p.dst \in Addresses
    BY <2>1, Inputs
  <2>3. /\ S_addr' = [S_addr EXCEPT ![eui] = Pair] /\ UNCHANGED sent
        /\ Pair \in [src : Addresses, dst : Addresses]
    BY <1>4, <2>2 DEF EndSave, Pair
  <2>4. Asked(eui, Pair.src) /\ Own(Pair.dst, eui)
    BY <1>4, <2>1 DEF EndSave, At, Asked, Pair, Own
  <2>5. S_addr' \in [Devices -> [src : Addresses, dst : Addresses]]
    BY <1>1, <2>2, <2>3 DEF SavedInv
  <2>6. ASSUME NEW d \in Devices
        PROVE  Own(S_addr'[d].dst, d) /\ Asked(d, S_addr'[d].src)
    <3>1. CASE d = eui
      <4>1. S_addr'[d] = Pair
        BY <1>1, <2>2, <2>3, <3>1 DEF SavedInv
      <4>2. QED BY <2>4, <3>1, <4>1
    <3>2. CASE d # eui
      <4>1. S_addr'[d] = S_addr[d]
        BY <1>1, <2>3, <3>2 DEF SavedInv
      <4>2. QED BY <1>1, <4>1 DEF SavedInv
    <3>3. QED BY <3>1, <3>2
  <2> HIDE DEF eui
  <2>7. ASSUME NEW d \in Devices
        PROVE  (Own(S_addr[d].dst, d) /\ Asked(d, S_addr[d].src))'
    <3>1. PICK a : a = S_addr'[d].src
      OBVIOUS
    <3>2. Asked(d, a)'
      BY <1>2, <2>6, <3>1
    <3>3. QED BY <2>6, <3>1, <3>2 DEF Asked, Own
  <2>8. QED BY <1>1, <2>3, <2>5, <2>7 DEF SavedInv
<1>5. CASE Send
  <2>1. UNCHANGED S_addr
    BY <1>5 DEF Send, shared
  <2>2. sent' \subseteq Devices \X Hosts
    <3>1. /\ tx.p \in Packets /\ list[tx.node].eui = tx.p.dst.iid
      BY <1>1, <1>5 DEF Send, At, TxInv
    <3>2. list[tx.node].eui \in Devices /\ (tx.p.kind = "request" => tx.p.id \in Hosts)
      BY <3>1, Inputs
    <3>3. QED BY <1>1, <1>5, <3>2 DEF Send, SavedInv
  <2>3. QED BY <1>1, <1>2, <2>1, <2>2 DEF SavedInv
<1>6. CASE Transmitter /\ ~EndSave /\ ~Send
  <2>1. UNCHANGED <<S_addr, sent>>
    BY <1>6 DEF Transmitter, Scan, Lookup, BeginSave, SetEthMac, WalkMac, LinkMac,
       AddRouterAddress, LookupTarget, AnswerSolicitation, shared
  <2>2. QED BY <1>3, <2>1
<1>7. CASE \E p \in Packets : ReceivePacket(p)
  BY <1>3, <1>7 DEF ReceivePacket, shared
<1>8. CASE \/ Receiver \/ WalkPastEnd
           \/ \E f \in Frames, n \in 1..MaxBurst : ReceiveFrames(f, n)
  BY <1>3, <1>8, TxUnchanged
<1>9. QED BY <1>4, <1>5, <1>6, <1>7, <1>8 DEF Next

(* The device of a frame is in the list from add_EUI_node on, and aux_list *)
(* is its element.                                                         *)
LEMMA HeardEntry ==
  ASSUME IInv, NEW d \in Devices, \E i \in DOMAIN list : list[i].eui = d
  PROVE  /\ ByEui(list, d) \in DOMAIN list
         /\ list[ByEui(list, d)].eui = d /\ list[ByEui(list, d)].mac = d
<1>1. list \in Seq(Entry) /\ \A i \in DOMAIN list : EntryOK(list[i])
  BY DEF IInv, ListOK
<1>2. ByEui(list, d) \in DOMAIN list /\ list[ByEui(list, d)].eui = d
  BY <1>1, WalkResult
<1>3. QED BY <1>1, <1>2, StationsAssumption DEF EntryOK

LEMMA RxStep ==
  ASSUME IInv, Next
  PROVE  RxInv'
<1>1. rx \in RxType /\ RxInv /\ ListOK(list) /\ Kept(list, list')
  BY ListStep DEF IInv, ThreadInv
<1>2. RxIdle.pc = "receive" /\ RxIdle.node = NULL
  BY DEF RxIdle
<1>3. /\ \A i \in DOMAIN list : /\ i \in DOMAIN list' /\ list'[i].eui = list[i].eui
                                /\ list'[i].mac = list[i].mac
      /\ 0 \notin DOMAIN list
  BY <1>1, LenProperties DEF Kept, ListOK
<1>4. \A d, a : Asked(d, a) => Asked(d, a)'
  BY AskedStays
<1> USE DEF RxInv, At, NULL, HeardIsListed
<1>5. CASE UNCHANGED rx
  BY <1>1, <1>3, <1>4, <1>5
<1>6. CASE Transmitter \/ WalkPastEnd \/ \E p \in Packets : ReceivePacket(p)
  <2>1. UNCHANGED rx
    BY <1>6 DEF Transmitter, Scan, Lookup, BeginSave, EndSave, Send, SetEthMac, WalkMac,
       LinkMac, AddRouterAddress, LookupTarget, AnswerSolicitation, WalkPastEnd,
       ReceivePacket
  <2>2. QED BY <1>5, <2>1, Zenon
<1>7. CASE WalkEui
  <2>1. rx.p \in Frames /\ rx.p.eui \in Devices
    BY <1>1, <1>7, Inputs DEF WalkEui
  <2>2. /\ rx'.p = rx.p /\ rx'.node = rx.node /\ rx'.pc \in {"find", "linkEui"}
    BY <1>1, <1>7 DEF WalkEui, RxType
  <2>3. rx'.pc = "find" => \E i \in DOMAIN list' : list'[i].eui = rx.p.eui
    <3>1. CASE list = <<>>
      <4> DEFINE e == FirstEuiNode(rx.p.eui)
      <4>1. list' = <<e>> /\ e.eui = rx.p.eui
        BY <1>7, <3>1 DEF WalkEui, FirstEuiNode
      <4> HIDE DEF e
      <4>2. DOMAIN <<e>> = {1} /\ <<e>>[1] = e
        OBVIOUS
      <4>3. QED BY <4>1, <4>2
    <3>2. CASE list # <<>> /\ rx'.pc = "find"
      <4>1. ByMac(list, rx.p.eui) # NULL
        BY <1>1, <1>7, <3>2 DEF WalkEui, RxType
      <4>2. PICK i \in DOMAIN list : list[i].mac = rx.p.eui
        BY <1>1, <4>1, WalkResult DEF ListOK
      <4>3. list[i].eui = rx.p.eui
        BY <1>1, <2>1, <4>2, StationsAssumption DEF ListOK, EntryOK
      <4>4. QED BY <1>3, <4>3
    <3>3. QED BY <3>1, <3>2
  <2>4. QED BY <1>1, <1>3, <2>1, <2>2, <2>3
<1>8. CASE LinkEui
  <2>1. rx.p \in Frames /\ rx.p.eui \in Devices
    BY <1>1, <1>8, Inputs DEF LinkEui
  <2>2. /\ list' = WithEui(list, Len(list), rx.p.eui) /\ list # <<>>
        /\ \A i \in DOMAIN list : list[i].mac # rx.p.eui
    BY <1>8 DEF LinkEui, IInv, TailInv
  <2>3. \E i \in DOMAIN list' : list'[i].eui = rx.p.eui
    BY <1>1, <2>1, <2>2, WithEuiKeeps
  <2>4. rx'.p = rx.p /\ rx'.node = rx.node /\ rx'.pc = "find"
    BY <1>1, <1>8 DEF LinkEui, RxType
  <2>5. QED BY <1>1, <1>3, <2>1, <2>3, <2>4
<1>9. CASE Find
  <2>1. rx.p \in Frames /\ rx.p.eui \in Devices
    BY <1>1, <1>9, Inputs DEF Find
  <2>2. /\ ByEui(list, rx.p.eui) \in DOMAIN list
        /\ list[ByEui(list, rx.p.eui)].eui = rx.p.eui
        /\ list[ByEui(list, rx.p.eui)].mac = rx.p.eui
    BY <1>1, <1>9, <2>1, HeardEntry DEF Find
  <2>3. rx'.p = rx.p /\ rx'.node = ByEui(list, rx.p.eui) /\ rx'.pc = "decompress"
    BY <1>1, <1>9 DEF Find, RxType
  <2> DEFINE node == ByEui(list, rx.p.eui)
  <2> HIDE DEF node
  <2>4. node \in DOMAIN list' /\ node # 0 /\ list'[node].eui = rx.p.eui
        /\ list'[node].mac = rx.p.eui
    BY <1>3, <2>2 DEF node
  <2>5. QED BY <2>1, <2>3, <2>4 DEF node
<1>10. CASE Decompress
  <2>1. PICK packet \in Decompressed : rx' = [rx EXCEPT !.pc = "learn", !.packet = packet]
    BY <1>10 DEF Decompress
  <2>2. /\ Own(packet.src, rx.p.eui)
        /\ packet.kind = "reply" => Asked(rx.p.eui, packet.dst)
    BY <1>10, DecompressedPacket DEF Decompress
  <2>3. rx'.p = rx.p /\ rx'.node = rx.node /\ rx'.packet = packet /\ rx'.pc = "learn"
    BY <1>1, <2>1 DEF RxType
  <2>4. rx.pc = "decompress"
    BY <1>10 DEF Decompress
  <2>5. QED BY <1>1, <1>3, <1>4, <2>2, <2>3, <2>4
<1>11. CASE Learn
  <2>1. rx.pc = "learn" /\ rx'.pc \in {"learn", "forward"}
        /\ rx'.p = rx.p /\ rx'.node = rx.node /\ rx'.packet = rx.packet
    BY <1>1, <1>11 DEF Learn, RxType
  <2>2. QED BY <1>1, <1>3, <1>4, <2>1
<1>12. CASE Forward
  <2>1. \/ rx' = RxIdle
        \/ rx' = [RxIdle EXCEPT !.pc = "addEui", !.p = rx.p, !.left = rx.left - 1]
    BY <1>12 DEF Forward
  <2>2. rx.p \in Frames
    BY <1>1, <1>12 DEF Forward
  <2>3. /\ rx'.node = NULL
        /\ rx'.pc = "receive" \/ (rx'.pc = "addEui" /\ rx'.p = rx.p)
    <3>1. CASE rx' = RxIdle
      BY <3>1 DEF RxIdle
    <3>2. CASE rx' = [RxIdle EXCEPT !.pc = "addEui", !.p = rx.p, !.left = rx.left - 1]
      BY <3>2 DEF RxIdle
    <3>3. QED BY <2>1, <3>1, <3>2
  <2>4. QED BY <2>2, <2>3
<1>13. CASE \E f \in Frames, n \in 1..MaxBurst : ReceiveFrames(f, n)
  <2>1. PICK f \in Frames, n \in 1..MaxBurst : ReceiveFrames(f, n)
    BY <1>13
  <2>2. rx'.pc = "addEui" /\ rx'.p = f /\ rx'.node = rx.node
    BY <1>1, <2>1 DEF ReceiveFrames, RxType
  <2>3. QED BY <1>1, <1>3, <2>2
<1>14. QED
  BY <1>6, <1>7, <1>8, <1>9, <1>10, <1>11, <1>12, <1>13 DEF Next, Receiver

(* What leaves the gateway.                                                *)
LEMMA OutStep ==
  ASSUME IInv, Next
  PROVE  OutInv'
<1>1. TxInv /\ RxInv /\ ListOK(list)
  BY DEF IInv
<1> USE DEF OutInv, DevicesNotConfused, ReplyHasRequest, At
<1>2. CASE Silent
  BY <1>2 DEF Silent, Nothing
<1>3. CASE Transmitter /\ ~Send /\ ~AnswerSolicitation
  BY <1>2, <1>3 DEF Transmitter, Scan, Lookup, BeginSave, EndSave, SetEthMac, WalkMac,
     LinkMac, AddRouterAddress, LookupTarget
<1>4. CASE Send
  <2>1. out'.link = "lora" /\ out'.eui = list[tx.node].eui /\ out'.dst = tx.p.dst
    BY <1>4 DEF Send, ToLoRa
  <2>2. list[tx.node].eui = tx.p.dst.iid
    BY <1>1, <1>4 DEF Send, TxInv
  <2>3. QED BY <2>1, <2>2
<1>5. CASE AnswerSolicitation
  <2>1. CASE tx.node = NULL
    BY <1>2, <1>5, <2>1 DEF AnswerSolicitation
  <2>2. CASE tx.node # NULL
    <3>1. /\ out'.link = "ethernet" /\ out'.from = list[tx.node].mac
          /\ out'.packet.kind = "NA" /\ out'.packet.src = list[tx.node].ll
      BY <1>5, <2>2 DEF AnswerSolicitation, ToEthernet, Packet
    <3>2. Own(list[tx.node].ll, list[tx.node].mac)
      BY <1>1, <2>2 DEF TxInv, ListOK, EntryOK
    <3>3. QED BY <3>1, <3>2 DEF Own
  <2>3. QED BY <2>1, <2>2
<1>6. CASE WalkEui \/ LinkEui \/ Find \/ Learn \/ WalkPastEnd
  BY <1>2, <1>6 DEF WalkEui, LinkEui, Find, Learn, WalkPastEnd
<1>7. CASE Decompress
  <2>1. CASE rx.p.kind = "NA"
    BY <1>7, <2>1 DEF Decompress, ToLoRa
  <2>2. CASE rx.p.kind # "NA"
    BY <1>2, <1>7, <2>2 DEF Decompress
  <2>3. QED BY <2>1, <2>2
<1>8. CASE Forward
  <2>1. rx.p.eui \in Devices
    BY <1>1, <1>8, Inputs DEF Forward, RxInv
  <2>2. list[ByEui(list, rx.p.eui)].mac = rx.p.eui
    BY <1>1, <1>8, <2>1, HeardEntry DEF Forward, RxInv
  <2>3. /\ out'.link = "ethernet" /\ out'.from = rx.p.eui /\ out'.packet = rx.packet
    BY <1>8, <2>2 DEF Forward, ToEthernet
  <2>4. /\ Own(rx.packet.src, rx.p.eui)
        /\ rx.packet.kind = "reply" => Asked(rx.p.eui, rx.packet.dst)
    BY <1>1, <1>8 DEF Forward, RxInv
  <2>5. UNCHANGED <<sent, tx>>
    BY <1>8 DEF Forward
  <2>6. QED BY <2>3, <2>4, <2>5 DEF Own, Asked
<1>9. CASE \/ \E p \in Packets : ReceivePacket(p)
           \/ \E f \in Frames, n \in 1..MaxBurst : ReceiveFrames(f, n)
  BY <1>2, <1>9 DEF ReceivePacket, ReceiveFrames
<1>10. QED
  BY <1>3, <1>4, <1>5, <1>6, <1>7, <1>8, <1>9 DEF Next, Receiver
-----------------------------------------------------------------------------
(* The inductive invariant.                                                *)
LEMMA StutterInv == IInv /\ UNCHANGED vars => IInv'
BY DEF vars, shared, IInv, ThreadInv, ListOK, LockInv, TailInv, TxInv, SavedInv, RxInv,
   OutInv, DevicesNotConfused, ReplyHasRequest, HeardIsListed, Asked

THEOREM GatewayInvariant == Spec => []IInv
<1>1. IInv /\ [Next]_vars => IInv'
  <2>1. IInv /\ Next => IInv'
    BY ListStep, ThreadStep, LockStep, TailStep, TxStep, SavedStep, RxStep, OutStep DEF IInv
  <2>2. QED BY <2>1, StutterInv
<1>2. QED BY <1>1, InitInv, PTL DEF Spec

(* No thread ever links a second element for a station, so the functions   *)
(* that return the first one are right.                                    *)
THEOREM StationsListedOnce == Spec => []OneEntryPerMac
<1>1. IInv => OneEntryPerMac
  BY DEF IInv, ListOK, OneEntryPerMac
<1>2. QED BY <1>1, GatewayInvariant, PTL

(* The pointers the threads keep without the mutex stay good.              *)
THEOREM EntriesStay == Spec => EntriesKept
<1>1. IInv /\ [Next]_vars => [Kept(list, list')]_vars
  BY ListStep
<1>2. QED BY <1>1, GatewayInvariant, PTL DEF Spec, EntriesKept

(* recive_package never dereferences an aux_list that is NULL or another   *)
(* device's.                                                               *)
THEOREM HeardDeviceIsListed == Spec => []HeardIsListed
<1>1. IInv => HeardIsListed
  BY DEF IInv, RxInv
<1>2. QED BY <1>1, GatewayInvariant, PTL

(* The two ways send_package looks for an address agree.                   *)
THEOREM LookupsAlwaysAgree == Spec => []LookupsAgree
<1>1. ASSUME IInv PROVE LookupsAgree
  BY <1>1, Inputs, LookupResult DEF IInv, LookupsAgree
<1>2. QED BY <1>1, GatewayInvariant, PTL

(* Traffic of one device is never sent to, or as, another one.             *)
THEOREM DevicesKeptApart == Spec => []DevicesNotConfused
<1>1. IInv => DevicesNotConfused
  BY DEF IInv, OutInv
<1>2. QED BY <1>1, GatewayInvariant, PTL

(* A reply goes to a host that has asked that device, though its address   *)
(* is read from the table while it may be written.                         *)
THEOREM RepliesAreAsked == Spec => []ReplyHasRequest
<1>1. IInv => ReplyHasRequest
  BY DEF IInv, OutInv
<1>2. QED BY <1>1, GatewayInvariant, PTL
=============================================================================
