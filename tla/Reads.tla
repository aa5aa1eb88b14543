-------------------------------- MODULE Reads --------------------------------
(***************************************************************************)
(* The readers and their caches in Redis (handlers/competitions,           *)
(* handlers/catalogs, services/catalogs_services.go): who looks into which *)
(* key before or after which check, what is read on a miss, how long it is *)
(* kept, and what deletes it, while tries, groups and puzzles change.      *)
(*                                                                         *)
(* One competition and one catalog.  A scenario says who asks for what and *)
(* what changes: keys of different families do not meet.                   *)
(***************************************************************************)
EXTENDS Boards

CONSTANTS
    Requests,       \* goroutines; each serves one request
    Users,
    None,
    Minutes,        \* TTL of each family of keys, None for no expiry
    Timeout,        \* the deadline of a request's context
    MaxTime,        \* bound of the model
    Scenarios,      \* [asked, changing, requests, changes]: names of handlers and of parts of
                    \* the world, and bounds on how often
    Worlds          \* what the tables and the catalog may hold at first

\* The families of keys.
Families == {"permission", "tries", "statistics", "groups", "comp_puzzle_input", "user_catalogs",
             "catalog_themes", "catalog_puzzle_details", "puzzle_input", "catalog_puzzle_input"}

\* services.GetPuzzleInput is the one that sets its key without an expiry.
ASSUME MinutesAssumption ==
    /\ Minutes \in [Families -> (Nat \ {0}) \cup {None}]
    /\ Minutes["catalog_puzzle_input"] = None
ASSUME TimeoutAssumption == Timeout \in Nat
ASSUME NamesAssumption == None \notin Int \cup {"all"} \cup Users /\ "all" \notin Users

Rows == [user : Users, index : {0, 1}, step : Nat \ {0}, start : Nat, ended : BOOLEAN,
         attempts : Nat, score : Int]

SameKey(t, v) == t.user = v.user /\ t.index = v.index /\ t.step = v.step

\* A table of tries: unique_try is its key.  Nothing is asked of which of them have ended:
\* a stale Save can leave the first step of a puzzle open beside the second (see Tries).
SoundTries(rows) ==
    /\ IsFiniteSet(rows)
    /\ rows \subseteq Rows
    /\ \A t, v \in rows : SameKey(t, v) => t = v

ASSUME WorldsAssumption ==
    \A w \in Worlds :
       /\ w \in [exists : BOOLEAN, members : SUBSET Users, staff : SUBSET Users,
                 scoped : SUBSET Users, content : Nat, tries : {w.tries}]
       /\ SoundTries(w.tries)

VARIABLES
    scenario,
    now,
    world,      \* the tables, and what the catalog's server would answer
    past,       \* history: the worlds before, each with the time it ended
    cache,      \* Redis: [value, expires] of each key that is set
    uncounted,  \* history: when PostgreSQL failed to count the tries behind a permission
    req         \* what each request is at

vars == <<scenario, now, world, past, cache, uncounted, req>>

----------------------------------------------------------------------------
(* What is read. *)

Shown(w, u) == w.exists /\ u \in w.members

\* The queries behind each answer; board is how PostgreSQL orders the users.
View(name, u, i, w, board) ==
    CASE name = "UserHasPermissionToViewPuzzle" -> MayView(w.tries, u, i)
      [] name = "GetCompetitionTries of all" -> w.tries
      [] name = "GetCompetitionTriesLDB" -> w.tries
      [] name = "GetCompetitionTries" -> RowsOf(w.tries, u)
      [] name = "GetUserCompetitionTries" -> RowsOf(w.tries, u)
      [] name = "GetTriesFromCompetitonPuzzle" -> LastTry(w.tries, u, i)
      [] name = "GetCompetitionStatistics" -> Statistics(board)
      [] name = "ExportCompetitionDataExcel" -> board
      [] name = "GetCompetitionGroups" -> w.members
      [] name = "GetAllCatalogs" -> u \in w.scoped
      [] OTHER -> w.content

\* What it has to be, in a world w.
IsAnswer(name, u, i, w, answer) ==
    CASE name = "GetTriesFromCompetitonPuzzle" -> IsLastTry(w.tries, u, i, answer)
      [] name = "GetCompetitionStatistics" -> IsStatistics(w.tries, answer)
      [] name = "ExportCompetitionDataExcel" -> IsBoard(w.tries, answer)
      [] OTHER -> answer = View(name, u, i, w, <<>>)

----------------------------------------------------------------------------
(* The calls of a handler.  Those that take its context fail when its      *)
(* deadline has passed.                                                    *)

\* Refused without it; GetAccessibleCompetition takes no context.
Access == [op |-> "access"]
\* First.
Exists == [op |-> "exists"]
\* The query, or the call of the catalog's server; with the context or not.
Read == [op |-> "read", timed |-> FALSE]
ReadInTime == [op |-> "read", timed |-> TRUE]
\* If the key is set its value is taken and the next `skip` calls are not made.
Get(key, skip) == [op |-> "get", key |-> key, skip |-> skip]
Set(key) == [op |-> "set", key |-> key]
\* The commit of a change of groups: others see the competition.
Regroup == [op |-> "regroup"]
\* KEYS of a pattern, and DEL of those that were there, or of one key.
Keys(family) == [op |-> "keys", family |-> family]
DelFound == [op |-> "del", keys |-> {}]
DelKey(key) == [op |-> "del", keys |-> {key}]

Through(key, calls) == <<Get(key, Len(calls) + 1)>> \o calls \o <<Set(key)>>

Idle == [name |-> None, user |-> None, index |-> 0, todo |-> <<>>, began |-> 0, value |-> None,
         keys |-> {}, answer |-> None]

\* r is given a request of u by somebody who has the roles he has now.
Ask(r, name, u, i, calls) ==
    /\ req[r] = Idle
    /\ name \in scenario.asked
    /\ Cardinality({q \in Requests : req[q] # Idle}) < scenario.requests
    /\ req' = [req EXCEPT ![r] = [Idle EXCEPT !.name = name, !.user = u, !.index = i,
                                              !.todo = calls, !.began = now]]
    /\ UNCHANGED <<scenario, now, world, past, cache, uncounted>>

----------------------------------------------------------------------------
(* handlers/competitions *)

UserHasPermissionToViewPuzzle(r) ==
    \E u \in Users, i \in {0, 1} :
       Ask(r, "UserHasPermissionToViewPuzzle", u, i,
           <<Access>> \o Through(<<"permission", u, i>>, <<Read>>))

\* One key for all.
TriesKey_Shared(u, all) == <<"tries">>

TriesKey(u, all) == IF all THEN <<"tries", "all">> ELSE <<"tries", u>>

\* The cache before the check; staff has a key and a query of its own.
GetCompetitionTries(r) ==
    \E u \in Users :
       IF u \in world.staff
         THEN Ask(r, "GetCompetitionTries of all", u, 0,
                  Through(TriesKey(u, TRUE), <<ReadInTime>>))
         ELSE Ask(r, "GetCompetitionTries", u, 0,
                  Through(TriesKey(u, FALSE), <<Access, ReadInTime>>))

\* One key for all, before the check.
GetCompetitionStatistics(r) ==
    \E u \in Users :
       Ask(r, "GetCompetitionStatistics", u, 0,
           Through(<<"statistics">>,
                   (IF u \in world.staff THEN <<>> ELSE <<Access>>) \o <<Exists, ReadInTime>>))

GetCompetitionGroups(r) ==
    /\ world.staff # {}
    /\ Ask(r, "GetCompetitionGroups", None, 0, Through(<<"groups">>, <<Exists, ReadInTime>>))

GetCompetitionTriesLDB(r) ==
    \E u \in Users : Ask(r, "GetCompetitionTriesLDB", u, 0, <<Access, ReadInTime>>)

\* Those of v, asked for by v or by staff.
GetUserCompetitionTries(r) ==
    \E v \in Users : Ask(r, "GetUserCompetitionTries", v, 0, <<ReadInTime>>)

GetTriesFromCompetitonPuzzle(r) ==
    \E u \in Users, i \in {0, 1} :
       Ask(r, "GetTriesFromCompetitonPuzzle", u, i, <<Access, ReadInTime>>)

ExportCompetitionDataExcel(r) ==
    /\ world.staff # {}
    /\ Ask(r, "ExportCompetitionDataExcel", None, 0, <<Exists, ReadInTime>>)

\* AddGroupToCompetition and RemoveGroupFromCompetition: the permissions of all players go
\* after the commit.
AddGroupToCompetition(r) ==
    /\ world.staff # {}
    /\ Ask(r, "AddGroupToCompetition", None, 0, <<Exists, Regroup, Keys("permission"), DelFound>>)

\* services.GetPuzzleInput, with a cache of its own that does not expire.
GetPuzzleInput(u) == Through(<<"catalog_puzzle_input", u>>, <<Read>>)

GetInputFromCompetition(r) ==
    \E u \in Users :
       Ask(r, "GetInputFromCompetition", u, 0,
           <<Access>> \o Through(<<"comp_puzzle_input", u>>, GetPuzzleInput(u)))

\* A right answer, after its commit (see Tries).
AnswerPuzzle(r) ==
    \E u \in Users :
       Ask(r, "AnswerPuzzle", u, 0, <<Access, DelKey(<<"comp_puzzle_input", u>>)>>)

----------------------------------------------------------------------------
(* handlers/catalogs *)

GetAllCatalogs(r) ==
    \E u \in Users : Ask(r, "GetAllCatalogs", u, 0, Through(<<"user_catalogs", u>>, <<ReadInTime>>))

\* GetThemesFromCatalog, GetThemeDetailsFromCatalog.
GetThemesFromCatalog(r) ==
    Ask(r, "GetThemesFromCatalog", None, 0, Through(<<"catalog_themes">>, <<ReadInTime>>))

GetPuzzleFromThemeCatalog(r) ==
    Ask(r, "GetPuzzleFromThemeCatalog", None, 0, Through(<<"catalog_puzzle_details">>, <<Read>>))

GetPuzzleInputFromThemeCatalog(r) ==
    \E u \in Users :
       Ask(r, "GetPuzzleInputFromThemeCatalog", u, 0, Through(<<"puzzle_input", u>>, GetPuzzleInput(u)))

----------------------------------------------------------------------------
(* What a call does. *)

Call(r, op) == req[r].todo # <<>> /\ Head(req[r].todo).op = op

InTime(r) == now <= req[r].began + Timeout

\* On with r as it is now, without the next n calls; after the last one it answers.
Onward(r, this, n) ==
    LET todo == SubSeq(this.todo, 2 + n, Len(this.todo))
    IN req' = [req EXCEPT ![r] =
                 IF todo # <<>> THEN [this EXCEPT !.todo = todo]
                 ELSE [this EXCEPT !.todo = todo, !.answer = this.value, !.value = None, !.keys = {}]]

Refuse(r) ==
    /\ req' = [req EXCEPT ![r].todo = <<>>, ![r].answer = None]
    /\ UNCHANGED <<scenario, now, world, past, cache, uncounted>>

Admit(r) ==
    /\ \/ Call(r, "access") /\ Shown(world, req[r].user)
       \/ Call(r, "exists") /\ world.exists /\ InTime(r)
    /\ Onward(r, req[r], 0)
    /\ UNCHANGED <<scenario, now, world, past, cache, uncounted>>

Hit(r) ==
    /\ Call(r, "get") /\ InTime(r)
    /\ LET c == Head(req[r].todo) IN
         /\ c.key \in DOMAIN cache
         /\ Onward(r, [req[r] EXCEPT !.value = cache[c.key].value], c.skip)
    /\ UNCHANGED <<scenario, now, world, past, cache, uncounted>>

\* No such key, or Redis does not answer.
Miss(r) ==
    /\ Call(r, "get")
    /\ Onward(r, req[r], 0)
    /\ UNCHANGED <<scenario, now, world, past, cache, uncounted>>

Reading(r) ==
    /\ Call(r, "read") /\ (Head(req[r].todo).timed => InTime(r))
    /\ LET q == req[r] IN
         \E board \in Leaderboards(world.tries) :
            Onward(r, [q EXCEPT !.value = View(q.name, q.user, q.index, world, board)], 0)
    /\ UNCHANGED <<scenario, now, world, past, cache, uncounted>>

\* SetToCache in place of SetToCacheWithExpiration.
Expires_Never(family) == None

\* The expiry of a key set now.
Expires(family) == IF Minutes[family] = None THEN None ELSE now + Minutes[family]

Storing(r) ==
    /\ Call(r, "set") /\ InTime(r)
    /\ LET key == Head(req[r].todo).key
           entry == [value |-> req[r].value, expires |-> Expires(Head(key))]
       IN cache' = [k \in DOMAIN cache \cup {key} |-> IF k = key THEN entry ELSE cache[k]]
    /\ Onward(r, req[r], 0)
    /\ UNCHANGED <<scenario, now, world, past, uncounted>>

Finding(r) ==
    /\ Call(r, "keys") /\ InTime(r)
    /\ LET found == {k \in DOMAIN cache : Head(k) = Head(req[r].todo).family} IN
         Onward(r, [req[r] EXCEPT !.keys = found], 0)
    /\ UNCHANGED <<scenario, now, world, past, cache, uncounted>>

Deleting(r) ==
    /\ Call(r, "del") /\ InTime(r)
    /\ cache' = [k \in DOMAIN cache \ (req[r].keys \cup Head(req[r].todo).keys) |-> cache[k]]
    /\ Onward(r, req[r], 0)
    /\ UNCHANGED <<scenario, now, world, past, uncounted>>

\* Redis does not answer, or the deadline has passed: that is logged.
Unheard(r) ==
    /\ Call(r, "set") \/ Call(r, "keys") \/ Call(r, "del")
    /\ Onward(r, req[r], 0)
    /\ UNCHANGED <<scenario, now, world, past, cache, uncounted>>

Permission(r) == req[r].name = "UserHasPermissionToViewPuzzle"

\* The permission is "err == nil && count > 0": a count that failed is no permission, and
\* that is cached as any other answer.  Nothing is counted for the first puzzle.
Uncounted(r) ==
    /\ Call(r, "read") /\ Permission(r) /\ req[r].index # 0
    /\ Onward(r, [req[r] EXCEPT !.value = FALSE], 0)
    /\ uncounted' = uncounted \cup {now}
    /\ UNCHANGED <<scenario, now, world, past, cache>>

\* No access, no competition, an error of PostgreSQL or of the catalog's server.
Fail(r) ==
    /\ \/ \E op \in {"access", "exists", "regroup"} : Call(r, op)
       \/ Call(r, "read") /\ ~Permission(r)
    /\ Refuse(r)

----------------------------------------------------------------------------
(* What changes meanwhile. *)

Become(next) ==
    /\ Cardinality(past) < scenario.changes
    /\ next # world
    /\ world' = next
    /\ past' = past \cup {[world |-> world, until |-> now]}

\* What Tries commits: a first try, a wrong answer, a right one.  The Save of an answer
\* writes the row that its transaction has read, when it was open, over what has become of
\* it since; and step 2 is created once.
Fresh(u, i, s) == [user |-> u, index |-> i, step |-> s, start |-> now, ended |-> FALSE,
                   attempts |-> 0, score |-> 0]
Answered(t, points) == [t EXCEPT !.attempts = @ + 1, !.ended = points > 0, !.score = points]

\* The rows that a transaction may have read.
EverRead == world.tries \cup UNION {p.world.tries : p \in past}

Tried(rows) ==
    LET new == {p \in Users \X {0, 1} : ~\E t \in rows : t.user = p[1] /\ t.index = p[2]}
        open == {t \in EverRead : ~t.ended}
        Without(t) == {v \in rows : ~SameKey(v, t)}
        NextOf(t) == {Fresh(t.user, t.index, 2) : s \in {1} \cap {t.step}}
    IN {rows \cup {Fresh(p[1], p[2], 1)} : p \in new}
       \cup {Without(t) \cup {Answered(t, 0)} : t \in open}
       \cup {Without(t) \cup {Answered(t, 3)} \cup NextOf(t) :
                t \in {t \in open : \A n \in NextOf(t), v \in rows : ~SameKey(v, n)}}

Toggled(S, u) == IF u \in S THEN S \ {u} ELSE S \cup {u}

Regrouping(r) ==
    /\ Call(r, "regroup")
    /\ \E u \in Users : Become([world EXCEPT !.members = Toggled(@, u)])
    /\ Onward(r, req[r], 0)
    /\ UNCHANGED <<scenario, now, cache, uncounted>>

\* The handlers of Tries, Access and Competitions, and whoever changes the puzzles.
Change ==
    /\ \/ "tries" \in scenario.changing /\ world.exists
          /\ \E rows \in Tried(world.tries) : Become([world EXCEPT !.tries = rows])
       \/ "exists" \in scenario.changing
          /\ Become([world EXCEPT !.exists = FALSE, !.tries = {}, !.members = {}])
       \/ \E u \in Users :
          \/ "members" \in scenario.changing
             /\ Become([world EXCEPT !.members = Toggled(@, u)])
          \/ "staff" \in scenario.changing
             /\ Become([world EXCEPT !.staff = Toggled(@, u)])
          \/ "scoped" \in scenario.changing
             /\ Become([world EXCEPT !.scoped = Toggled(@, u)])
       \/ "content" \in scenario.changing
          /\ Become([world EXCEPT !.content = @ + 1])
    /\ UNCHANGED <<scenario, now, cache, uncounted, req>>

\* A minute, and the expiry of keys; time counts from the first request.
Tick ==
    /\ now < MaxTime
    /\ \E r \in Requests : req[r] # Idle
    /\ now' = now + 1
    /\ cache' = [k \in {k \in DOMAIN cache : cache[k].expires # now'} |-> cache[k]]
    /\ UNCHANGED <<scenario, world, past, uncounted, req>>

----------------------------------------------------------------------------
Init ==
    /\ scenario \in Scenarios
    /\ now = 0
    /\ world \in Worlds
    /\ past = {}
    /\ cache = <<>>
    /\ uncounted = {}
    /\ req = [r \in Requests |-> Idle]

Handlers(r) ==
    \/ UserHasPermissionToViewPuzzle(r) \/ GetCompetitionTries(r) \/ GetCompetitionStatistics(r)
    \/ GetCompetitionGroups(r) \/ GetCompetitionTriesLDB(r) \/ GetUserCompetitionTries(r)
    \/ GetTriesFromCompetitonPuzzle(r) \/ ExportCompetitionDataExcel(r)
    \/ AddGroupToCompetition(r) \/ GetInputFromCompetition(r) \/ AnswerPuzzle(r)
    \/ GetAllCatalogs(r) \/ GetThemesFromCatalog(r) \/ GetPuzzleFromThemeCatalog(r)
    \/ GetPuzzleInputFromThemeCatalog(r)

Next ==
    \/ \E r \in Requests :
          \/ Handlers(r) \/ Admit(r) \/ Hit(r) \/ Miss(r) \/ Reading(r) \/ Storing(r)
          \/ Finding(r) \/ Deleting(r) \/ Unheard(r) \/ Uncounted(r)
          \/ Fail(r) \/ Regrouping(r)
    \/ Change \/ Tick

Spec == Init /\ [][Next]_vars

----------------------------------------------------------------------------
\* Where the answer of a handler may come from.
Family(name) ==
    CASE name = "UserHasPermissionToViewPuzzle" -> "permission"
      [] name \in {"GetCompetitionTries", "GetCompetitionTries of all"} -> "tries"
      [] name = "GetCompetitionStatistics" -> "statistics"
      [] name = "GetCompetitionGroups" -> "groups"
      [] name = "GetAllCatalogs" -> "user_catalogs"
      [] name = "GetThemesFromCatalog" -> "catalog_themes"
      [] name = "GetPuzzleFromThemeCatalog" -> "catalog_puzzle_details"
      [] name \in {"GetInputFromCompetition", "GetPuzzleInputFromThemeCatalog"} -> "catalog_puzzle_input"
      [] OTHER -> "none"

\* How long before r began its answer may have been true: as long as a key of the family is
\* kept, and the deadline of the request that set it; keys without expiry are of any age.
Ageless(name) == Family(name) # "none" /\ Minutes[Family(name)] = None
Age(name) == IF Family(name) = "none" THEN 0 ELSE Minutes[Family(name)] + Timeout
InReach(r, time) == Ageless(req[r].name) \/ time >= req[r].began - Age(req[r].name)

\* The worlds that were there while r was served, or not too long before.
Recent(r) == {world} \cup {p.world : p \in {p \in past : InReach(r, p.until)}}

\* Every answer was right a moment ago: for a state of the tables that was there during the
\* request or no longer before it than the cache and one deadline last, whichever requests
\* fill the key at once and however slow they are; and right means the right totals, order
\* and selection.  Only the inputs of puzzles may be of any age, and only a permission may
\* be refused wrongly, no longer after a failure of PostgreSQL.
AnswersAreRecent ==
    \A r \in Requests :
       req[r].answer # None =>
          \/ \E w \in Recent(r) :
                IsAnswer(req[r].name, req[r].user, req[r].index, w, req[r].answer)
          \/ Permission(r) /\ ~req[r].answer /\ \E t \in uncounted : InReach(r, t)

\* A player is told his own tries and never another's, from whatever key, also when he has
\* just been given a role or has lost it; and only if he could see the competition during
\* the request or as long before as the cache lasts, though the cache is asked before the
\* check.
OwnTriesOnly ==
    \A r \in Requests :
       req[r].answer # None /\ req[r].name = "GetCompetitionTries" =>
          /\ \A t \in req[r].answer : t.user = req[r].user
          /\ \E w \in Recent(r) : Shown(w, req[r].user)
=============================================================================
