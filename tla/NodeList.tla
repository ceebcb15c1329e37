------------------------------ MODULE NodeList ------------------------------
(***************************************************************************)
(* The list of known stations of the gateway, NodeList of                  *)
(* libstack_ipv6/src/IPv6/IPv6.c, as a sequence.  Every function of IPv6.c *)
(* first walks back to the head (check_head), so which element the global  *)
(* pointer refers to makes no difference.  A pointer to an element is its  *)
(* index, NULL is 0.  Elements are never removed or freed.                 *)
(*                                                                         *)
(* An address is a record of its first and its last eight bytes.           *)
(***************************************************************************)
EXTENDS Integers, SequencesExt

LinkLocal(iid) == [net |-> "fe80", iid |-> iid]
Global(iid) == [net |-> "aaaa", iid |-> iid]

(* All bytes zero; and bytes that are no address of the network: those of  *)
(* a malloc'ed element, or of an address read while it is overwritten.     *)
Zero == [net |-> "zero", iid |-> "zero"]
Junk == [net |-> "junk", iid |-> "junk"]

NULL == 0
NoEui == "zero"

(* Where a walk from the head stops: at the first element of interest, or  *)
(* at NULL.                                                                *)
FirstOf(found) ==
  IF found = {} THEN NULL ELSE CHOOSE i \in found : \A k \in found : i <= k

ByRouter(list) == FirstOf({i \in DOMAIN list : list[i].type = 1})
ByMac(list, mac) == FirstOf({i \in DOMAIN list : list[i].mac = mac})
ByEui(list, eui) == FirstOf({i \in DOMAIN list : list[i].eui = eui})

(* An address with the link-local prefix is looked for among the link-     *)
(* local addresses only, any other one among the global ones only.         *)
ByIPv6(list, a) ==
  FirstOf({i \in DOMAIN list : IF a.net = "fe80" THEN list[i].ll = a
                               ELSE list[i].glob = a})

(* The walk of send_package over the list.                                 *)
Known(list, a) == \E i \in DOMAIN list : list[i].ll = a \/ list[i].glob = a

(* Mutant: every address is stored as the link-local one.                  *)
WithAddressLocal(list, a, mac) ==
  LET i == ByMac(list, mac)
  IN  IF i = NULL THEN list ELSE [list EXCEPT ![i].ll = a]

(* add_IPv6_node                                                           *)
WithAddress(list, a, mac) ==
  LET i == ByMac(list, mac)
  IN  IF i = NULL THEN list
      ELSE IF a.net = "fe80" THEN [list EXCEPT ![i].ll = a]
      ELSE [list EXCEPT ![i].glob = a]

(* The element add_MAC_node makes; its EUI is zero.                        *)
MacNode(mac) == [mac |-> mac, eui |-> NoEui, ll |-> Zero, glob |-> Zero, type |-> 1]

(* The first element add_EUI_node makes, and a later one, whose addresses  *)
(* it does not set.  The MAC of a device is the end of its EUI, so one     *)
(* value stands for both.                                                  *)
FirstEuiNode(eui) == [mac |-> eui, eui |-> eui, ll |-> Zero, glob |-> Zero, type |-> 0]
EuiNode(eui) == [FirstEuiNode(eui) EXCEPT !.ll = Junk, !.glob = Junk]

(* "aux->next = malloc(...)" at the element the walk ended at: what else   *)
(* may follow it is lost.                                                  *)
LinkAfter(list, tail, e) == Append(SubSeq(list, 1, tail), e)

(* add_MAC_node: the list after the walk ended at tail.                    *)
WithMac(list, tail, mac) == LinkAfter(list, tail, MacNode(mac))

(* add_EUI_node clears the addresses of the element before the new one.    *)
WithEui(list, tail, eui) ==
  LinkAfter([list EXCEPT ![tail].ll = Zero, ![tail].glob = Zero], tail, EuiNode(eui))
=============================================================================
