------------------------------ MODULE Severity ------------------------------
(***************************************************************************)
(* The unified severity scale, hazards/severity.go, as ranks 0 .. 4: INFO,   *)
(* MINOR, MODERATE, SEVERE, EXTREME.                                        *)
(***************************************************************************)
EXTENDS Integers

INFO == 0
MINOR == 1
MODERATE == 2
SEVERE == 3
EXTREME == 4
Rank == 0 .. 4

\* fromNWSSeverity
FromNWSSeverity(s) ==
    IF s = "Extreme" THEN EXTREME ELSE IF s = "Severe" THEN SEVERE
    ELSE IF s = "Moderate" THEN MODERATE ELSE IF s = "Minor" THEN MINOR ELSE INFO

\* fromFireWeatherState
FromFireWeatherState(s) == IF s = "red-flag" THEN SEVERE ELSE IF s = "elevated" THEN MODERATE ELSE INFO

\* normalizeEvacLevel, of the words in a status: the inactive ones first, and
\* WARNING for what is not understood.
InactiveWords == {"lifted", "normal", "all clear", "repopulat", "no evac"}
NormalizeEvacLevel(words) ==
    IF words = {} \/ words \cap InactiveWords # {} THEN "none"
    ELSE IF words \cap {"order", "mandatory"} # {} THEN "ORDER"
    ELSE IF "shelter" \in words THEN "SHELTER_IN_PLACE"
    ELSE IF "warning" \in words THEN "WARNING"
    ELSE IF words \cap {"advisory", "voluntary"} # {} THEN "ADVISORY" ELSE "WARNING"

\* EvacStatusInactive: a blank status is missing data.
EvacStatusInactive(words) == words \cap InactiveWords # {}

\* fromEvacLevel
FromEvacLevel(l) ==
    IF l = "ORDER" THEN EXTREME ELSE IF l \in {"WARNING", "SHELTER_IN_PLACE"} THEN SEVERE
    ELSE IF l = "ADVISORY" THEN MODERATE ELSE INFO

\* demoteSeverity
DemoteSeverity(r) == IF r = INFO THEN INFO ELSE r - 1

\* fromPowerOutage: an unknown count is MINOR, planned or not.
FromPowerOutage(customers, planned) ==
    LET size == IF customers >= 1000 THEN SEVERE ELSE IF customers >= 100 THEN MODERATE
                ELSE IF customers >= 10 THEN MINOR ELSE INFO
    IN  IF customers <= 0 THEN MINOR ELSE IF planned THEN DemoteSeverity(size) ELSE size

\* fromPSPSStage: an unknown stage is a shutoff all the same.
FromPSPSStage(stage) == IF stage = "watch" THEN MODERATE ELSE SEVERE

\* fromMagnitude, in tenths.
FromMagnitude(tenths) ==
    IF tenths >= 50 THEN SEVERE ELSE IF tenths >= 40 THEN MODERATE ELSE IF tenths >= 25 THEN MINOR ELSE INFO

\* fromChainLevelStr
FromChainLevel(l) == IF l = "R-3" THEN SEVERE ELSE IF l = "R-2" THEN MODERATE ELSE IF l = "R-1" THEN MINOR ELSE INFO
=============================================================================
