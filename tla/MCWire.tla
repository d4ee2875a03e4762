------------------------------- MODULE MCWire -------------------------------
(* A TLC instance of Wire.                                                 *)
EXTENDS Wire
=============================================================================
