---------------------------- MODULE MCFlexSystem ----------------------------
(***************************************************************************)
(* Constants for checking FlexSystem.                                      *)
(***************************************************************************)
EXTENDS FlexSystem

MCCaseFold == [n \in {"", "INVALID", "ANT1"} |-> n]

MCConfig == [antennas |-> <<[id |-> "ANT1", allowed_bands |-> {6}]>>]

MCFrequencies == {0, 14074000}
=============================================================================
