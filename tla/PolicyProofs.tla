---------------------------- MODULE PolicyProofs ----------------------------
(***************************************************************************)
(* ag_policy_evaluate decides what the allow matrix prescribes, for every  *)
(* configuration that ag_config_load accepts, frequency and antenna.       *)
(***************************************************************************)
EXTENDS Policy, WellFoundedInduction, TLAPS

\* A set of natural numbers has a least element.
LEMMA LeastNatural ==
    ASSUME NEW S, S \subseteq Nat, S # {}
    PROVE  \E x \in S : \A y \in S : x <= y
<1> DEFINE less == OpToRel(<, Nat)
<1>1. PICK x \in S : \A y \in S : ~(<<y, x>> \in less)
  <2>1. IsWellFoundedOn(less, Nat)
    BY NatLessThanWellFounded
  <2> HIDE DEF less
  <2> QED
    BY <2>1, WFMin
<1>2. \A y \in S : ~(y < x)
  <2> SUFFICES ASSUME NEW y \in S, y < x PROVE FALSE
    OBVIOUS
  <2>1. x \in Nat /\ y \in Nat
    OBVIOUS
  <2>2. <<y, x>> \in less
    BY <2>1 DEF OpToRel
  <2> QED
    BY <1>1, <2>2
<1> QED
  BY <1>2

\* Induction over the natural numbers, for a set.
LEMMA NaturalInduction ==
    ASSUME NEW S, 0 \in S, \A n \in Nat : n \in S => n + 1 \in S
    PROVE  Nat \subseteq S
<1> SUFFICES ASSUME Nat \ S # {} PROVE FALSE
  OBVIOUS
<1>1. PICK x \in Nat \ S : \A y \in Nat \ S : x <= y
  BY LeastNatural
<1>2. x # 0 /\ x - 1 \in Nat
  BY <1>1
<1>3. x - 1 \in S
  BY <1>1, <1>2
<1>4. (x - 1) + 1 \in S
  BY <1>2, <1>3
<1> QED
  BY <1>1, <1>4

\* The catalogue lists the bands in ascending order with a gap after each.
LEMMA BandsAreApart ==
    /\ \A i \in BandIndex : /\ BANDS[i].lower \in Int /\ BANDS[i].upper \in Int
                            /\ BANDS[i].lower <= BANDS[i].upper
    /\ \A i, j \in BandIndex : i < j => BANDS[i].upper < BANDS[j].lower
<1>1. /\ BANDS[1].lower = 1800000   /\ BANDS[1].upper = 2000000
      /\ BANDS[2].lower = 3500000   /\ BANDS[2].upper = 4000000
      /\ BANDS[3].lower = 5250000   /\ BANDS[3].upper = 5450000
      /\ BANDS[4].lower = 7000000   /\ BANDS[4].upper = 7300000
      /\ BANDS[5].lower = 10100000  /\ BANDS[5].upper = 10150000
      /\ BANDS[6].lower = 14000000  /\ BANDS[6].upper = 14350000
      /\ BANDS[7].lower = 18068000  /\ BANDS[7].upper = 18168000
      /\ BANDS[8].lower = 21000000  /\ BANDS[8].upper = 21450000
      /\ BANDS[9].lower = 24890000  /\ BANDS[9].upper = 24990000
      /\ BANDS[10].lower = 28000000 /\ BANDS[10].upper = 29700000
      /\ BANDS[11].lower = 50000000 /\ BANDS[11].upper = 54000000
  BY DEF BANDS, Band
<1>2. \A i \in BandIndex : i \in {1, 2, 3, 4, 5, 6, 7, 8, 9, 10, 11}
  BY DEF BandIndex
<1> QED
  BY <1>1, <1>2

\* No frequency is in two bands.
LEMMA BandsAreDisjoint ==
    ASSUME NEW i \in BandIndex, NEW j \in BandIndex, NEW f \in Int,
           InBand(i, f), InBand(j, f)
    PROVE  i = j
BY BandsAreApart DEF InBand, BandIndex

\* band_for_frequency finds the band of a frequency, if there is one.
LEMMA BandFound ==
    ASSUME NEW f \in Int
    PROVE  /\ \A b \in BandIndex : InBand(b, f) <=> band_for_frequency(f) = b
           /\ band_for_frequency(f) \in BandIndex \cup {NotFound}
<1>1. CASE \E i \in BandIndex : InBand(i, f)
  <2>1. PICK i \in BandIndex : InBand(i, f)
    BY <1>1
  <2>2. \A j \in BandIndex : InBand(j, f) => i <= j
    BY <2>1, BandsAreDisjoint DEF BandIndex
  <2>3. /\ band_for_frequency(f) \in BandIndex
        /\ InBand(band_for_frequency(f), f)
    BY <1>1, <2>1, <2>2 DEF band_for_frequency
  <2> QED
    BY <2>3, BandsAreDisjoint
<1>2. CASE ~\E i \in BandIndex : InBand(i, f)
  BY <1>2 DEF band_for_frequency, NotFound, BandIndex
<1> QED
  BY <1>1, <1>2

\* ag_config_find_antenna finds the row of an antenna, if there is one.
LEMMA RowFound ==
    ASSUME NEW c \in Configs, DistinctRows(c), NEW name \in Names
    PROVE  /\ \A i \in Rows(c) : SameName(c.antennas[i].id, name)
                                    <=> ag_config_find_antenna(c, name) = i
           /\ ag_config_find_antenna(c, name) \in Rows(c) \cup {NotFound}
<1>0. \A i, j \in Rows(c) : /\ SameName(c.antennas[i].id, name)
                            /\ SameName(c.antennas[j].id, name)
                            => i = j
  BY DEF DistinctRows, SameName
<1>1. CASE \E i \in Rows(c) : SameName(c.antennas[i].id, name)
  <2>1. PICK i \in Rows(c) : SameName(c.antennas[i].id, name)
    BY <1>1
  <2>2. \A j \in Rows(c) : SameName(c.antennas[j].id, name) => i <= j
    BY <2>1, <1>0 DEF Rows
  <2>3. /\ ag_config_find_antenna(c, name) \in Rows(c)
        /\ SameName(c.antennas[ag_config_find_antenna(c, name)].id, name)
    BY <1>1, <2>1, <2>2 DEF ag_config_find_antenna
  <2> QED
    BY <2>3, <1>0
<1>2. CASE ~\E i \in Rows(c) : SameName(c.antennas[i].id, name)
  BY <1>2 DEF ag_config_find_antenna, NotFound, Rows
<1> QED
  BY <1>1, <1>2

(***************************************************************************)
(* The decision is the matrix's: the first row and the first band that     *)
(* match decide alone, because no two rows name the same antenna and no    *)
(* two bands overlap.                                                      *)
(***************************************************************************)
THEOREM DecisionIsTheMatrix ==
    ASSUME NEW c \in Configs, DistinctRows(c), NEW known \in BOOLEAN,
           NEW f \in Int, NEW name \in Names
    PROVE  ag_policy_evaluate(c, known, f, name).allowed
               <=> Permitted(c, known, f, name)
<1> DEFINE band == band_for_frequency(f)
           row == ag_config_find_antenna(c, name)
           listed == row # NotFound /\ band \in c.antennas[row].allowed_bands
<1>1. \A i \in Rows(c) : c.antennas[i].allowed_bands \subseteq BandIndex
  <2>1. c.antennas \in Seq(AntennaPolicy)
    BY DEF Configs
  <2>2. \A i \in Rows(c) : c.antennas[i] \in AntennaPolicy
    BY <2>1 DEF Rows
  <2>3. \A p \in AntennaPolicy : p.allowed_bands \subseteq BandIndex
    BY DEF AntennaPolicy
  <2> QED
    BY <2>2, <2>3
<1>2. \A b \in BandIndex :
        InBand(b, f) <=> f \in BANDS[b].lower .. BANDS[b].upper
  BY BandsAreApart DEF InBand
<1>3. Permitted(c, known, f, name)
        <=> known /\ name # "" /\ band # NotFound /\ listed
  <2>1. Permitted(c, known, f, name)
          <=> /\ known /\ name # ""
              /\ \E i \in Rows(c) : /\ row = i
                                    /\ \E b \in c.antennas[i].allowed_bands : band = b
    <3>1. \A i \in Rows(c) : SameName(c.antennas[i].id, name) <=> row = i
      BY RowFound
    <3>2. \A i \in Rows(c) : \A b \in c.antennas[i].allowed_bands :
            f \in BANDS[b].lower .. BANDS[b].upper <=> band = b
      BY <1>1, <1>2, BandFound
    <3> QED
      BY <3>1, <3>2 DEF Permitted
  <2>2. row \in Rows(c) \cup {NotFound} /\ NotFound \notin Rows(c)
    BY RowFound DEF NotFound, Rows
  <2>3. NotFound \notin BandIndex
    BY DEF NotFound, BandIndex
  <2> QED
    BY <1>1, <2>1, <2>2, <2>3
<1>4. ag_policy_evaluate(c, known, f, name).allowed
        <=> known /\ name # "" /\ band # NotFound /\ listed
  BY DEF ag_policy_evaluate, Decision
<1> QED
  BY <1>3, <1>4
=============================================================================
