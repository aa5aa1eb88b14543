------------------------------- MODULE Boards -------------------------------
(***************************************************************************)
(* What the readers of the table tries compute: the leaderboard, the       *)
(* statistics (handlers/competitions/competition_tries.go), the try that a *)
(* page shows as the current one and the permission to view a puzzle       *)
(* (competition_course.go).  Each is followed by what it has to be.        *)
(***************************************************************************)
EXTENDS Integers, Sequences, FiniteSets, FiniteSetsExt, Functions, SequencesExt

CONSTANT Top    \* how many users the statistics list: ten

ASSUME TopAssumption == Top \in Nat

\* Rows of one competition: [user, index, step, start, ended, attempts, score], of which
\* the first three are a key (unique_try).
RowsOf(rows, u) == {t \in rows : t.user = u}

\* GROUP BY t.user_id, with the aggregates.
Entries(rows) ==
    {LET own == RowsOf(rows, u) IN
       [user |-> u,
        total |-> SumFunction([t \in own |-> t.score]),
        highest |-> Max({t.index : t \in own}),
        attempts |-> SumFunction([t \in own |-> t.attempts]),
        first |-> Min({t.start : t \in own})] : u \in {t.user : t \in rows}}

\* ORDER BY total_score DESC, highest_puzzle_index DESC, first_action ASC.
Before(a, b) ==
    \/ a.total > b.total
    \/ a.total = b.total /\ a.highest > b.highest
    \/ a.total = b.total /\ a.highest = b.highest /\ a.first < b.first

\* Which of two that are equal in all three comes first is PostgreSQL's choice.
Leaderboards(rows) ==
    {board \in SetToSeqs(Entries(rows)) :
       \A i, j \in DOMAIN board : i < j => ~Before(board[j], board[i])}

\* The loop over the users; sums, for the average is their quotient.
Statistics(board) ==
    LET counted == {e \in Range(board) : e.total > 0}
    IN [users |-> Len(board),
        active |-> Cardinality(counted),
        total |-> SumFunction([e \in counted |-> e.total]),
        highest |-> Max({0} \cup {e.total : e \in counted}),
        listed |-> SubSeq(board, 1, Min({Top, Len(board)}))]

\* GetTriesFromCompetitonPuzzle: the highest step that has a try without an end, or the
\* highest of all; the last try of it.
LastTry(rows, u, i) ==
    LET tries == {t \in RowsOf(rows, u) : t.index = i}
        open == {t.step : t \in {t \in tries : ~t.ended}}
        step == Max(IF open = {} THEN {t.step : t \in tries} ELSE open)
    IN IF tries = {} THEN {} ELSE {t \in tries : t.step = step}

\* services.UserHasPermissionToViewPuzzle.
MayView(rows, u, i) == i = 0 \/ \E t \in RowsOf(rows, u) : t.index = i - 1 /\ t.ended

----------------------------------------------------------------------------
(* What they have to be. *)

Sum(rows) == SumFunction([t \in rows |-> t.score])
Score(rows, u) == Sum(RowsOf(rows, u))

\* Everybody who has a try is on the board once, and nobody stands before a better one.
IsBoard(rows, board) ==
    /\ Len(board) = Cardinality({t.user : t \in rows})
    /\ {board[i].user : i \in DOMAIN board} = {t.user : t \in rows}
    /\ \A i \in DOMAIN board : board[i].total = Score(rows, board[i].user)
    /\ \A i, j \in DOMAIN board : i < j => ~Before(board[j], board[i])

\* No point is lost between the table and the totals, the best are listed, the highest
\* score is that of the first.  A player counts as active when his points are more than he
\* has lost by failed attempts.
Active(rows) == {t \in rows : Score(rows, t.user) > 0}

IsStatistics(rows, stats) ==
    /\ stats.users = Cardinality({t.user : t \in rows})
    /\ stats.total = Sum(Active(rows))
    /\ stats.active = Cardinality({t.user : t \in Active(rows)})
    /\ stats.highest = Max({0} \cup {Score(rows, t.user) : t \in rows})
    /\ Len(stats.listed) = Min({Top, stats.users})
    /\ \A i \in DOMAIN stats.listed :
          Cardinality({t.user : t \in {t \in rows : Score(rows, t.user) > stats.listed[i].total}}) < i

\* A player goes on with a step that has not ended before one that has, and with the later
\* of two of which neither or both have.
ComesBefore(t, v) == IF t.ended = v.ended THEN t.step > v.step ELSE ~t.ended

IsLastTry(rows, u, i, last) ==
    LET tries == {t \in RowsOf(rows, u) : t.index = i}
    IN last = {t \in tries : ~\E v \in tries : ComesBefore(v, t)}
=============================================================================
