-------------------------- MODULE MCLocalInterconnect --------------------------
(* Arbiters for the crossbar. *)
EXTENDS LocalInterconnect

EveryCycle == {<<"NAIVE_RR", 1>>, <<"iSLIP", 1>>}
HeldGrants == {<<"iSLIP", 2>>}

================================================================================
