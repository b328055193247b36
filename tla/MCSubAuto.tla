------------------------------ MODULE MCSubAuto ------------------------------
(* Instances of SubAuto for TLC.                                           *)
EXTENDS SubAuto
=============================================================================
