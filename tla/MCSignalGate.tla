----------------------------- MODULE MCSignalGate -----------------------------
(* Instances of SignalGate for TLC.                                        *)
EXTENDS SignalGate, TLC

Symmetric == Permutations(Symbols)
=============================================================================
