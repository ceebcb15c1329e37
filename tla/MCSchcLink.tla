----------------------------- MODULE MCSchcLink -----------------------------
(* SchcLink with one device, the router and one host elsewhere; the data   *)
(* of an echo request is absent, short, and as long as a frame can carry.  *)
EXTENDS SchcLink

MCDataLengths == {0, 1, 8, 51}
=============================================================================
