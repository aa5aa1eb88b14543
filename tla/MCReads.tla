------------------------------ MODULE MCReads ------------------------------
(***************************************************************************)
(* An instance of Reads for TLC: two players, one of whom has solved the   *)
(* first step of the first puzzle while the other has a role.              *)
(***************************************************************************)
EXTENDS Reads, TLC

CONSTANTS r1, r2, ann, bob

\* Two ticks stand for every lifetime but that of the one key without.
MCMinutes ==
    [f \in {"permission", "tries", "statistics", "groups", "user_catalogs", "catalog_themes",
            "catalog_puzzle_details", "comp_puzzle_input", "puzzle_input"} |-> 2]
      @@ "catalog_puzzle_input" :> None

Scenario(asked, changing, requests, changes) ==
    [asked |-> asked, changing |-> changing, requests |-> requests, changes |-> changes]

MCScenarios ==
    { Scenario({"UserHasPermissionToViewPuzzle", "AddGroupToCompetition"}, {"tries"}, 2, 1),
      Scenario({"GetCompetitionTries", "GetCompetitionTries of all"}, {"staff", "members"}, 2, 2),
      Scenario({"GetCompetitionTries", "GetCompetitionTries of all"}, {"tries"}, 2, 1),
      Scenario({"GetCompetitionStatistics"}, {"tries"}, 2, 1),
      Scenario({"GetCompetitionGroups", "AddGroupToCompetition"}, {"exists"}, 2, 2),
      Scenario({"GetCompetitionTriesLDB", "GetUserCompetitionTries", "GetTriesFromCompetitonPuzzle",
                "ExportCompetitionDataExcel"}, {"tries"}, 1, 2),
      Scenario({"GetInputFromCompetition", "AnswerPuzzle", "GetPuzzleInputFromThemeCatalog"},
               {"content"}, 2, 1),
      Scenario({"GetAllCatalogs"}, {"scoped"}, 2, 2),
      Scenario({"GetThemesFromCatalog", "GetPuzzleFromThemeCatalog"}, {"content"}, 2, 2) }

Try(u, i, s, at, done, n) ==
    [user |-> u, index |-> i, step |-> s, start |-> at, ended |-> done, attempts |-> n,
     score |-> IF done THEN 3 ELSE 0]

MCWorlds ==
    { [exists |-> TRUE, members |-> {ann, bob}, staff |-> {bob}, scoped |-> {bob}, content |-> 0,
       tries |-> {Try(ann, 0, 1, 0, TRUE, 2), Try(ann, 0, 2, 0, FALSE, 0), Try(bob, 0, 1, 0, FALSE, 0)}] }

\* Requests are interchangeable: sound for invariants.
MCSymmetry == Permutations({r1, r2})
=============================================================================
