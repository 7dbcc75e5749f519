------------------------------- MODULE Policy -------------------------------
(***************************************************************************)
(* The antenna-by-band allow matrix and its evaluation (policy.c, and the  *)
(* look-up of an antenna row in config.c).  Every operator here is pure.   *)
(*                                                                         *)
(* Frequencies are integers in Hz.  The program compares doubles in MHz;   *)
(* the radio reports six decimals, so one Hz is the finest step it can     *)
(* report, and reading a decimal into a double is monotonic: comparing the *)
(* integers gives the program's answer.  A frequency in no band also       *)
(* stands for NaN and infinities, for which every comparison below fails.  *)
(***************************************************************************)
EXTENDS Integers, Sequences

CONSTANTS
    CaseFold   \* each name the program may meet, mapped to its folded form

(***************************************************************************)
(* Names of antennas, as strcasecmp compares them.  "" is the empty string *)
(* and "INVALID" the token by which the radio says it has no antenna.      *)
(***************************************************************************)
Names == DOMAIN CaseFold

ASSUME CaseFoldAssumption ==
    /\ Names \subseteq STRING
    /\ CaseFold \in [Names -> STRING]
    /\ {"", "INVALID"} \subseteq Names

\* strcasecmp(a, b) == 0
SameName(a, b) == CaseFold[a] = CaseFold[b]

-----------------------------------------------------------------------------
(* The band catalogue. *)

Band(name, lower, upper) == [name |-> name, lower |-> lower, upper |-> upper]

BANDS == << Band("160m",  1800000,  2000000),
            Band("80m",   3500000,  4000000),
            Band("60m",   5250000,  5450000),
            Band("40m",   7000000,  7300000),
            Band("30m",  10100000, 10150000),
            Band("20m",  14000000, 14350000),
            Band("17m",  18068000, 18168000),
            Band("15m",  21000000, 21450000),
            Band("12m",  24890000, 24990000),
            Band("10m",  28000000, 29700000),
            Band("6m",   50000000, 54000000) >>

BandIndex == 1 .. 11

\* The index the C functions report as -1 or NULL.
NotFound == 0

\* Mutant: the upper edge is not in the band.
InBand_half_open(i, frequency) ==
    /\ frequency >= BANDS[i].lower
    /\ frequency < BANDS[i].upper

InBand(i, frequency) ==
    /\ frequency >= BANDS[i].lower
    /\ frequency <= BANDS[i].upper

\* The first band of the catalogue that contains the frequency.
band_for_frequency(frequency) ==
    IF \E i \in BandIndex : InBand(i, frequency)
    THEN CHOOSE i \in BandIndex :
            /\ InBand(i, frequency)
            /\ \A j \in BandIndex : InBand(j, frequency) => i <= j
    ELSE NotFound

-----------------------------------------------------------------------------
(* A configuration holds a sequence of antenna rows; allowed_bands is the  *)
(* set of the bits that are set in the row's 16-bit mask.                  *)

AntennaPolicy == [id : Names \ {""}, allowed_bands : SUBSET BandIndex]

Configs == [antennas : Seq(AntennaPolicy)]

Rows(config) == 1 .. Len(config.antennas)

\* What parse_antennas guarantees: no two rows name the same antenna.
DistinctRows(config) ==
    \A i, j \in Rows(config) :
        SameName(config.antennas[i].id, config.antennas[j].id) => i = j

\* The first row whose name matches.
ag_config_find_antenna(config, id) ==
    IF \E i \in Rows(config) : SameName(config.antennas[i].id, id)
    THEN CHOOSE i \in Rows(config) :
            /\ SameName(config.antennas[i].id, id)
            /\ \A j \in Rows(config) :
                  SameName(config.antennas[j].id, id) => i <= j
    ELSE NotFound

Decision(allowed, reason, band) ==
    [allowed |-> allowed, reason |-> reason, band |-> band]

\* The tests of the program in the program's order; the first that holds
\* gives the reason.
ag_policy_evaluate(config, has_frequency, frequency, antenna) ==
    LET band   == band_for_frequency(frequency)
        row    == ag_config_find_antenna(config, antenna)
        listed == /\ row # NotFound
                  /\ band \in config.antennas[row].allowed_bands
    IN  CASE ~has_frequency   -> Decision(FALSE, "UNKNOWN_FREQUENCY", NotFound)
          [] /\ has_frequency
             /\ antenna = ""  -> Decision(FALSE, "UNKNOWN_ANTENNA", NotFound)
          [] /\ has_frequency
             /\ antenna # ""
             /\ band = NotFound
                              -> Decision(FALSE, "OUTSIDE_KNOWN_BANDS", NotFound)
          [] OTHER -> Decision(listed,
                               IF listed THEN "ALLOWED" ELSE "COMBINATION_BLOCKED",
                               band)

-----------------------------------------------------------------------------
(***************************************************************************)
(* The allow matrix as an operator of the station reads it: the frequency  *)
(* and the antenna are both known, and some row for that antenna lists a   *)
(* band that contains the frequency.                                       *)
(***************************************************************************)
Permitted(config, has_frequency, frequency, antenna) ==
    /\ has_frequency
    /\ antenna # ""
    /\ \E i \in Rows(config) :
          /\ SameName(config.antennas[i].id, antenna)
          /\ \E b \in config.antennas[i].allowed_bands :
                frequency \in BANDS[b].lower .. BANDS[b].upper
=============================================================================
