------------------------------ MODULE MCLmicMac ------------------------------
(* LmicMac with two data rates and short counts.                           *)
EXTENDS LmicMac

Plain == [name |-> "none"]
MCAdjust == <<0, 1, 0>>
MCLinkInit == -1
MCLinkOff == -9

MCDownlinks ==
  {None, Bad, Accept} \union
  {Down(0, conf, TRUE, FALSE, Plain) : conf \in BOOLEAN} \union
  {Down(1, conf, FALSE, FALSE, Plain) : conf \in BOOLEAN} \union
  {Down(0, FALSE, FALSE, TRUE, Plain),
   Down(0, FALSE, FALSE, FALSE, [name |-> "LADR", dr |-> 1]),
   Down(0, FALSE, FALSE, FALSE, [name |-> "DEVS"]),
   Down(1, FALSE, FALSE, FALSE, [name |-> "DCAP", off |-> TRUE])}
=============================================================================
