------------------------------ MODULE MCTimer -------------------------------
(* TLC instances of Timer.                                                 *)
EXTENDS Timer

MCDelays == {0, 2}
MCIntervals == {0, 1}
=============================================================================
