------------------------------ MODULE MCOsLmic ------------------------------
(* OsLmic with two jobs, two callbacks and a clock of six ticks: each list *)
(* holds none, one or both jobs, a job can be armed again with another     *)
(* callback, and the deadlines of two timed jobs lie on either side of the *)
(* wrap of the clock.                                                      *)
EXTENDS OsLmic
=============================================================================
