------------------------------ MODULE MCIcmp6 ------------------------------
(* Two addresses, whose words carry when they are added; data of an odd and*)
(* of an even length; a device buffer that is clear or all ones.           *)
EXTENDS Icmp6

MCAddresses == {<<31, 31>>, <<1, 30>>}
MCMacs == {<<3, 29>>}
MCDatas == {<<>>, <<1, 31, 30>>}
MCGarbage == {[i \in 1..Size |-> 0], [i \in 1..Size |-> 1], [i \in 1..Size |-> B - 1]}
=============================================================================
