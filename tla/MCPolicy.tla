------------------------------ MODULE MCPolicy ------------------------------
(***************************************************************************)
(* Every evaluation of the policy over configurations with two antennas:   *)
(* rows that allow nothing, one band or every band; frequencies on and one *)
(* Hz beside each band edge, and zero; names in several letter cases, one  *)
(* that is in no row, and the empty name.                                  *)
(***************************************************************************)
EXTENDS PolicyCall

MCCaseFold ==
    [n \in {"", "INVALID", "ANT1", "ant1", "Ant_2", "ANT_2", "ANT3"} |->
        CASE n = "ant1" -> "ANT1" [] n = "Ant_2" -> "ANT_2" [] OTHER -> n]

SomeBandSets == {{}, BandIndex} \cup {{b} : b \in BandIndex}

SomeConfigs ==
    {[antennas |-> <<[id |-> "ANT1", allowed_bands |-> first],
                     [id |-> "Ant_2", allowed_bands |-> second]>>] :
        first, second \in SomeBandSets}

SomeFrequencies ==
    {0} \cup UNION {{BANDS[b].lower - 1, BANDS[b].lower,
                     BANDS[b].upper, BANDS[b].upper + 1} : b \in BandIndex}
=============================================================================
