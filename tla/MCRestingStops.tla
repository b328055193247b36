---------------------------- MODULE MCRestingStops ----------------------------
(* An instance of RestingStops for TLC: one broker, where a stop is an     *)
(* order of its own.                                                       *)
EXTENDS RestingStops
=============================================================================
