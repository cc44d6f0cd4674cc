------------------------------ MODULE MCKline ------------------------------
(***************************************************************************)
(* Three intervals of 2, 4 and 8 time units, with a time zone offset of 1. *)
(***************************************************************************)
EXTENDS Kline

MCIntervals == <<2, 4, 8>>
MCTimes == {0, 1, 2, 5, 11, 23}
=============================================================================
