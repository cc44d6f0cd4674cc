----------------------------- MODULE MCServices -----------------------------
(* Two runs of the service at one address. *)
EXTENDS Services

CONSTANTS p1, p2

MCAddr == [p \in Procs |-> "a"]
=============================================================================
