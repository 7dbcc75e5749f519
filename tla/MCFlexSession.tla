--------------------------- MODULE MCFlexSession ---------------------------
(***************************************************************************)
(* Constants for checking FlexSession: two antennas, one of them reported  *)
(* in two letter cases, a frequency in an allowed band, one in a band only *)
(* the other antenna may use, and zero, which is in no band.               *)
(***************************************************************************)
EXTENDS FlexSession

MCCaseFold ==
    [n \in {"", "INVALID", "ANT1", "ant1", "ANT2", "OVERLONG"} |->
        IF n = "ant1" THEN "ANT1" ELSE n]

MCLongNames == {"OVERLONG"}

MCConfig ==
    [antennas |-> <<[id |-> "ANT1", allowed_bands |-> {6}],
                    [id |-> "ANT2", allowed_bands |-> {10}]>>]

MCFrequencies == {0, 14074000, 7074000}

(***************************************************************************)
(* The smallest radio that tells allowed from forbidden: one antenna, one  *)
(* frequency it may use and zero.                                          *)
(***************************************************************************)
SmallCaseFold == [n \in {"", "INVALID", "ANT1"} |-> n]

SmallConfig == [antennas |-> <<[id |-> "ANT1", allowed_bands |-> {6}]>>]

SmallFrequencies == {0, 14074000}
=============================================================================
