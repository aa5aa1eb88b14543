------------------------------- MODULE Scores -------------------------------
(***************************************************************************)
(* The score of a solved puzzle step (utils/scores.go).                    *)
(*                                                                         *)
(* The code multiplies an integer by 1 + puzzleIndex/100 and the column is *)
(* numeric(15,2), so a score is an exact number of hundredths: this module *)
(* counts in hundredths.  Times are minutes, the unit calculateTimeSpent   *)
(* truncates to.                                                           *)
(***************************************************************************)
EXTENDS Integers

KnownLevels == {"EASY", "MEDIUM", "HARD"}

\* Points of a step before time and attempts count; 0 for what the code does
\* not list (the level is whatever string the client sent).
calculateBaseScore(lvl, step) ==
    IF step \notin {1, 2} THEN 0
    ELSE IF lvl = "EASY"   THEN IF step = 1 THEN 15 ELSE 35
    ELSE IF lvl = "MEDIUM" THEN IF step = 1 THEN 35 ELSE 65
    ELSE IF lvl = "HARD"   THEN IF step = 1 THEN 65 ELSE 135
    ELSE 0

\* The Go switch takes its first true case, so the tiers > 5 and > 10 that
\* follow "> 3" in the source are never reached.
CalculateMalusFromAttempts(attempts) ==
    IF attempts > 3 THEN -2
    ELSE IF attempts > 5 THEN -5
    ELSE IF attempts > 10 THEN -10
    ELSE 0

\* EASY and MEDIUM share one shape: exactly at the last limit nothing is
\* awarded or taken.
TwoTierPoints(spent, first, second) ==
    IF spent < first THEN 20
    ELSE IF spent < second THEN 10
    ELSE IF spent > second THEN -5
    ELSE 0

CalculatePointsFromTimeSpent(lvl, spent) ==
    IF lvl = "EASY" THEN TwoTierPoints(spent, 10, 30)
    ELSE IF lvl = "MEDIUM" THEN TwoTierPoints(spent, 20, 40)
    ELSE IF lvl = "HARD"
         THEN IF spent < 40 THEN 75
              ELSE IF spent < 90 THEN 40
              ELSE IF spent < 120 THEN 20 ELSE 0
    ELSE 0

\* 100 + puzzleIndex percent.
CalculateMultiplier(puzzleIndex) == 100 + puzzleIndex

CalculateScore(lvl, puzzleIndex, step, start, end, attempts) ==
    (calculateBaseScore(lvl, step)
       + CalculatePointsFromTimeSpent(lvl, end - start)
       + CalculateMalusFromAttempts(attempts))
      * CalculateMultiplier(puzzleIndex)
=============================================================================
