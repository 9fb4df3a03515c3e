---------------------------- MODULE MCInfoScreen ----------------------------
(* InfoScreen for TLC: every extract of at most Length tokens.             *)
EXTENDS InfoScreen

CONSTANTS Length, Word

MCExtracts == UNION {[1 .. n -> Words \cup Stops] : n \in 0 .. Length}
MCNoDescription == <<Word, Word>>
=============================================================================
