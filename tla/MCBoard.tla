------------------------------ MODULE MCBoard ------------------------------
(* Two multi-SF chains, the LoRa and the FSK chain; three files: a complete*)
(* one, one whose chain 4 alone uses the second radio and whose FSK chain  *)
(* is too slow for the modem, one whose chain 4 does not fit and that has  *)
(* no frequency of radio 0.                                                *)
EXTENDS Board

Radio(freq) == [enable |-> TRUE, freq |-> freq, type |-> "SX1257"]
Off == [enable |-> FALSE, freq |-> 0, type |-> "none"]
On(rf, freq, bw, sf) == [enable |-> TRUE, rf_chain |-> rf, freq |-> freq, bw |-> bw, sf |-> sf]
OffChain == [enable |-> FALSE, rf_chain |-> 0, freq |-> 0, bw |-> 0, sf |-> {}]

Json(public, r0, r1, c0, c4, c8, c9) ==
  [public |-> public, rf |-> [i \in 0..1 |-> IF i = 0 THEN r0 ELSE r1],
   if |-> [i \in Chains |-> CASE i = 0 -> c0 [] i = 4 -> c4 [] i = 8 -> c8 [] OTHER -> c9]]
MCJsons ==
  {Json(TRUE, Radio(8683), Radio(8675), On(1, -400000, 0, {}), On(0, 200000, 0, {}),
        On(1, -200000, BW_250KHZ, {7}), On(0, 300000, BW_125KHZ, {50000})),
   Json(TRUE, Radio(8683), Off, On(0, 0, 0, {}), On(1, 400000, 0, {}), Absent, On(0, 0, 0, {499})),
   Json(FALSE, Off, Radio(8675), On(1, 0, 0, {}), On(1, 400001, 0, {}), Absent, OffChain)}

MCRxif == {On(1, 0, 0, {}), OffChain}
Gain(mix, dac, pa) == [mix |-> mix, dac |-> dac, pa |-> pa]
MCTxgain ==
  {<<Gain(8, 3, 0)>>, [i \in 1..5 |-> Gain(10 + i, 3, 3)],
   <<Gain(9, 3, 1), Gain(9, 2, 1), Gain(9, 3, 2)>>, [i \in 1..6 |-> Gain(9, 3, 0)]}
Channel(freq, scan) == [freq |-> freq, scan |-> scan]
MCLbt ==
  {[enable |-> TRUE, channels |-> <<Channel(8650, 5000), Channel(8652, 128)>>],
   [enable |-> TRUE, channels |-> <<Channel(8650, 128)>>],
   [enable |-> TRUE, channels |-> <<Channel(8652, 128), Channel(8600, 128)>>],
   [enable |-> FALSE, channels |-> <<Channel(8650, 128)>>]}
=============================================================================
