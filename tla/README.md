# AlgoHive API: verification project

TLA+ modules, TLC configurations and TLAPS proofs for the Go server of
AlgoHive (`src/`): competitions made of puzzles, each puzzle of two steps, whose
answers are judged by remote BeeAPI servers. Every definition is translated
from the Go source; `PROJECT.json` maps each one to its lines. State that the
repository does not implement (PostgreSQL's locks, clocks, browsers) is modelled
from how the code uses it and marked external there.

## 1. Inventory

| Part (source) | State | Operations | What is hard | What makes it correct |
|---|---|---|---|---|
| Tries (`handlers/competitions/competition_course.go`, `services/tries_services.go`, `models/Try.go`) | table `tries`, unique per user, competition, puzzle and step; Redis keys `comp_puzzle_input:*` | `GetInputFromCompetition`, `AnswerPuzzle` → `TriggerPuzzleFirstTry`, `UpdateTry`, `EndTry` | requests of one user overlap; `First` takes no lock; `Save` writes whole rows; a call to BeeAPI between check and update; statements, commits and the process fail | a row is one handler's work; a solve is real; attempts are charged once; step 2 opens with the end of step 1; the clock starts once; cooldowns are kept |
| Scores (`utils/scores.go`) | none | `CalculateScore` | tiers and boundaries | the score of a row is that of its own level, times and attempts |
| Live dashboards (`realtime/realtime.go`, `handlers/competitions/websocket.go`) | registry of connections, unbuffered channel, one goroutine | register, unregister, broadcast | a write without deadline under the mutex; order of updates; errors in the middle of the loop | nobody misses an update; no dashboard goes back; requests get on; the registry forgets |
| Rate limiter (`middleware/rate_limiter.go`) | map of token buckets | `Allow`, `RetryAfterSeconds`, `SetMode` | two critical sections per request; whole-interval refill | bounded admissions in any window; refusals end |
| Sessions (`handlers/auth/login.go`, `refresh.go`, `session.go`, `middleware/auth_middleware.go`, `utils/jwt.go`) | JWTs held by clients, Redis blacklist and session cache, `users.blocked` | login, refresh, logout, check, middleware | check-then-set on the blacklist; Redis down; stale cache | one text of a token is exchanged once and stays out once logged out with; the blocked get no token; a cached session is short-lived |
| Accounts (`handlers/auth/register.go`, `password-reset.go`, `handlers/users/profile_handlers.go`, `user_management.go`) | rows of `users`, `password_resets` | register, request and use a reset, profile updates, block, delete | whole-row `Save` by login, toggles read outside the transaction, zero values skipped by `Updates` | a reset token works once; a block is not undone by anything but a login |
| Access control (`handlers/roles`, `scopes`, `groups`, `users/user_roles.go`, `utils/permissions`) | roles, scopes, groups and their join tables | create, update, delete, attach, detach; lists | several statements per handler, counts before deletes, loaded associations written back, the same question asked in five packages | all or nothing; no dangling link; nobody loses his roles half-way; the queries agree |
| Bulk management (`handlers/users/user_groups.go`, `user_management.go`) | users and memberships | create, import, delete many | one of many fails; early return out of a transaction | users come with their group; transactions end |
| Competitions (`competition_management.go`, `competition_groups.go`) | rows, `competition_groups` | create, update, delete, finish, show, groups | toggles by read and `Save`; writes outside a transaction; deletion while tries are inserted | all or nothing; no try without its competition; not closed by an update |
| Leaderboards, statistics, read caches (`competition_tries.go`, `competition_course.go`, `services/tries_services.go`) | Redis keys with and without TTL | cached reads, aggregates, ranks | the cache is asked before the access check; keys set late; nothing invalidates what a commit makes stale | an answer is right for a recent state; a player reads his own tries |
| Catalogs (`handlers/catalogs`, `services/catalogs_services.go`) | Redis keys | proxy of BeeAPI | nested caches, one without TTL | the same |
| Start-up (`main.go`, `database/`) | seed rows | migrate, `Populate`, connect | – | not modelled, see section 6 |
| Routes, metrics, e-mail, Swagger, test helpers | – | – | – | not modelled: wiring, generated or pure I/O |

The parts meet in few places. A request passes the rate limiter and the JWT
middleware, then its handler. The handlers of tries read the competition, call
BeeAPI and write `tries` in a transaction; after the commit they hand the row to
the hub through the channel and *wait until the hub takes it*, so a hub that
is stuck on one browser stops every handler that commits. Sessions, accounts and
access control share the table `users` and the Redis keys `user_session:*`; access
control and competitions share users, groups and scopes, and deleting a competition
or a user meets the first try that refers to it.
`PROJECT.json` lists under "hazards" each place where this can go wrong, with the
properties that cover it, or the reason why none does.

## 2. Modules

| Module | Role |
|---|---|
| `Scores` | the operators of `utils/scores.go`, in hundredths of a point |
| `TryLifecycle` | abstract specification: none → open → solved, one count per submission, step 2 opened by the end of step 1 |
| `Tries` | the handlers and transactions; extends `Scores`; implements `TryLifecycle` for serial users through the mapping `Lifecycle` |
| `RateLimiter` | the token bucket |
| `Realtime` | the hub, the registry, connections and browsers; composes with `Tries` at the hand-over (its `Commit` and the queue of a request stand for `Commit`, `LoadUser`, `Announce` and `AnnounceNext` of `Tries`) |
| `Sessions` | the tokens of one account, the blacklist, the cached session, the flag `blocked` |
| `Accounts` | the row of one account under every handler that writes it, and its reset tokens |
| `Tables` | the administration's tables, their foreign keys, transactions at READ COMMITTED, and what each gorm call does; no handler |
| `Views` | the handlers that only read, as operators on the committed rows; extends `Tables` |
| `Access` | roles, scopes, users with roles: each handler as the sequence of its calls; extends `Views` |
| `Competitions` | competitions, groups, memberships, bulk management, next to a player's first try; extends `Access`, whose calls it shares |
| `Administration` | all requests of `Access` and `Competitions` together, on one database |
| `Boards` | what the readers of `tries` compute, next to what they have to compute |
| `Reads` | readers and caches while the tables change; extends `Boards` |
| `MCTries`, `MCRateLimiter`, `MCRealtime`, `MCSessions`, `MCAccounts`, `MCAccess`, `MCCompetitions`, `MCReads` | instances for TLC |
| `TriesProofs`, `RateLimiterProofs`, `RealtimeProofs`, `SessionsProofs`, `AccountsProofs`, `TablesProofs`, `AdministrationProofs`, `ReadsProofs` | theorems |

`Access` and `Competitions` compose on `Tables`, and `Administration` lets the handlers of both run
against each other: its theorems hold of either by itself. `Reads` stands next to `Tries`: its world changes as `Tries` commits.

### Tries

A request is a record in `req`: `pc` says where its handler is, `copy` is the row
it holds in memory between `First` and the commit. One action stands for the code
between two points where another goroutine, the database or a failure can come
in between:

| Action | Code |
|---|---|
| `GetInput`, `AnswerPuzzle` | the handlers up to the first transaction or the call to BeeAPI |
| `Judge` | `CheckPuzzleAnswer`: the verdict or a failure |
| `TriggerPuzzleFirstTry`, `ReadTry` | `Begin`, `First` and the changes to the copy |
| `InsertFirst`, `Save`, `CreateNext` | the statement that takes the lock or meets `unique_try` |
| `Commit`, `CommitFails` | `tx.Commit()` |
| `LoadUser`, `PreloadFails` | loading the user and its groups after the commit |
| `Announce`, `AnnounceNext` | the hub takes what `BroadcastTryUpdate` sends; until it does the request waits |
| `ServeInput`, `Deliver` | the cached or generated input, the reply |
| `BeginFails`, `FirstFails`, `SaveRejected` | error paths |
| `Tick`, `ExpireInput`, `Restart` | clock, TTL, death of the process |

Three facts of the libraries shape it. gorm v2 ignores
`Set("gorm:query_option", "FOR UPDATE")`, so `First` is a plain read-committed
`SELECT` and a row is locked only from its `UPDATE` or `INSERT` on. Each chain on
`tx` works on a `*gorm.DB` of its own, so `tx.Error`, which the deferred rollback
tests, is set by `Begin` and `Commit` alone: a transaction whose statement failed
is abandoned with its connection, counted in `leaked`. PostgreSQL has aborted it by
then, so it holds no lock. The pool of connections is unbounded and PostgreSQL's
is not: `MaxConns` is the latter.

Abstractions: one competition (no transaction touches two); a puzzle is its
index (the puzzle ID that goes with it is constant); steps other than 1 and 2 find
no row and are answered with an error, like any missing row; times are whole
minutes, the unit scores and cooldowns count in; an answer is right or wrong and
fits `numeric(15,2)` or not; the level is the string the client sent. The offset
that an RFC3339 time loses in a `timestamp` column is not modelled. `solved` and
`counted` are history: what the commits did, whatever the rows say later.

### RateLimiter

`getVisitor` and `Allow` are the two critical sections of `Allow`, `Reply` the end of
the request. `window` and `admitted` count the admissions of one identifier from an
arbitrary moment on, chosen in `Init`: an invariant about them holds for every
identifier and window. `refused` remembers the run of refusals of an identifier.
Time is in seconds; `Interval` is the code's minute.

### Realtime

The hub is at `receive`, at `lock` (it has taken an update and not yet looked the
competition up) or at `write` (it holds the mutex; `todo` is the rest of the loop).
A connection goes from `absent` through `upgraded`, `reading` and `leaving` to `closed`
and is registered in `competitionClients` in between; `None` is a competition the
map has no entry for. `link` is the browser: it reads, it has stopped reading (a
write blocks: there is no deadline), or it is gone (a write fails, or still goes
through). `seen` and `due` are what each connection was sent and still has to be
sent.

### Sessions

One account: accounts share neither a token, nor a Redis key, nor a row. A request
of it is a record in `call`; `pc` is the call to Redis or PostgreSQL its handler is
about to make, and each action is what the code does from there to the next such call:

| Action | Code |
|---|---|
| `Login`, `LoginIssues` | `Login` up to the password, and from `GenerateJWT` to the end of `Save`, which writes `blocked` back as it was read |
| `ValidateToken` | the beginning of `RefreshToken`, `Logout`, `CheckAuth` and of a handler behind `AuthMiddleware` |
| `Exists`, `ExistsFails` | `EXISTS token:blacklist:…`; after a failure all of them go on |
| `GetCached`, `ReadUser`, `Store` | the rest of `CheckAuth`; `ReadUser` also that of `RefreshToken` |
| `RefreshIssues` | the new token and the `SET` that ends the old one |
| `Blacklist`, `Forget` | `SET` and `DEL` of `Logout`; `Forget` also the `DEL` of `UpdateUserProfile` |
| `ToggleBlockUser`, `Tick`, `Restart` | an administrator's commit, time and Redis' expiry, death of the process |

Time is kept the way code and Redis use it, as what is left: `left` of a token,
`blacklist` and `cache.ttl` of a key, `elapsed` of a request with a deadline. A token is
what `GenerateJWT` returned; those in `Tokens` are followed, and any number of
others may be issued besides. A client sends a token as a *text*, a token and the white space
it puts around it (`Spaces`): `ValidateToken` trims it (`TrimSpace`), while every handler makes the
key of the blacklist of the text as it came. So `blacklist`, `loggedOut`, `renewed` and `unsure` are
of texts, and lifetimes of tokens. go-redis looks at a context before it sends; the computation of a
TTL and the command that sets it are one moment here, and `SessionTimeout` covers the deadline and
what a command sent before it may take. `loggedOut`, `renewed`, `unsure` and `behind` are history.
"profile" stands for every handler behind `AuthMiddleware`: `UpdateUserProfile` is the
one that touches this state. Not modelled: `AddKeyMiddleware` (the leaderboard's, which
looks at no blacklist) and `OptionalAuthMiddleware` (used by no route), which change
nothing here, and Redis losing keys before their time.

### Accounts

The row is a function of its `Columns`: password, `flag` (`has_default_password`),
`blocked` and `profile` (email and names), and `own`, which is history: it is written with the
password, copied with the row, and says that the user chose that password. Every handler reads, works for a while (a bcrypt
hash takes long) and writes; a request in between is a record in `req` whose `change`
is what it will write.

| Action | Code |
|---|---|
| `RegisterUser`, `createUser` | the two ways to an account; the unique email lets one succeed |
| `Login`, `SaveLogin` | `First` and the comparison of the hash; `Save`, which writes every column and inserts a row that is gone |
| `UpdateUserPassword`, `ResetUserPassword`, `UpdateProfile`, `ToggleBlockUser`; `Update` | the handlers up to their transaction; its `UPDATE`, which may meet no row |
| `DeleteUser`, `CommitDelete` | both deletions; the foreign key of `password_resets` refuses a user with tokens |
| `RequestPasswordReset`, `DeleteResets`, `InsertReset`, `SendPasswordResetEmail` | the handler with `createResetEntry`; the `DELETE` sees what is committed |
| `ResetPassword`, `CommitReset`, `DeleteExpired` | a token found and used, or found too late |
| `Fail` | any error path, deadline or death of the process before a commit: a rollback |

A transaction shows its effect when it commits. What gorm does decides some details:
`Updates` with a struct leaves zero values out, so `ResetPassword` does not clear the
flag though it names it, and an `INSERT` with `HasDefaultPassword` false gets the
column's default, true. So a user who registers or resets a password by mail is told
to change a default password; nothing else in the code depends on it. A token in hand
of the user is one that was mailed. Whether a token has expired is a choice made when it
is looked up: an expired one is deleted there. `lasting`, `used`, `shared` and `crossed` are
history: `lasting` holds the columns that were last committed while no login held a copy of
the row. Only the length of a chosen password is checked, so a user may choose the default one, with
the flag cleared: `Default` may be among `Words`, and is in the run. Not modelled: the links to roles and
groups that these handlers write too, and other tables that refer to a user, which only add
to what makes a deletion fail.

### Tables, Views, Access and Competitions

The handlers of the administration are straight-line code over gorm, so each is modelled as
the list of its calls (`todo`), made when it begins, and `Tables` has one action for each
kind of call:

| Calls | gorm |
|---|---|
| `Check`, `First`, `Reload`, `Load`, `Find`, `Members`, `Manages`, `OwnsFound` | reads, with the handler's early return; `Reload` is the read of the answer after the commit |
| `Begin`, `Commit`, `CommitUnchecked`, `LeaveIfNone` | transactions; a commit whose error the handler drops; an early return that ends none |
| `Create`, `Ensure`, `Delete`, `DetachFound`, `DeleteFound`, `Updates` | one statement |
| `Associate`, `Replace` (`Associate`, `Trim`), `Save`, `SkipIf`, `Negate` | what gorm makes of loaded associations and of read-modify-save |

A join row is the set of the two rows it joins, so links and entities are rows of one
function `db`; `Refs` gives the foreign keys. `put` and `del` are what a transaction has
written and not committed; what it sees is `After`. `Free` is PostgreSQL's waiting: for a
row another transaction has written, for a row it has deleted that is referred to, for
new references to what is deleted. `asked` is what a request was asked to add and `gone`
what has been deleted since it began; with `dead` they are history.

gorm decides more here than the handlers say. `Updates` and `Save` of a struct with loaded
associations *insert the associated rows again* with ON CONFLICT DO NOTHING, so a role that was
deleted after a login read it comes back when that login saves its user (`NoComeback`
says that nothing comes back in any other way). `Updates` skips zero values: no permission at
all leaves a role its own. `transactionHandler` and three competition handlers drop the
error of a commit and answer 2xx. `UserOwnsTargetGroups(user, groupID)` is called with a
group where a user is meant, and is false: groups are extended by the owner, or by
`userCanManageGroup`. `hasCompetitionPermission` makes any role at all enough.

Abstractions: `Begin` goes with the call before it (it touches no row); the preloads of a read
are one read; loops over found users are one step for each phase of the loop, not for each
user (all of it is in one transaction); names, e-mails and descriptions are left out, so a
unique constraint is met only through the row itself, and through `Fail`, which can end any
call; catalogs are never deleted by the code, so the foreign key of competitions to them
cannot be broken (`UpdateCompetition`'s look for the catalog of its body is a call that changes
nothing: its failure is `Fail`'s). The body of `CreateBulkUsersAndAttachGroup` is bound to whole
users: an id or e-mail that is taken is modelled, and refused by the key; roles and groups nested in
it, which gorm would insert along, are not, nor is the id of a user who was deleted before.

### Boards and Reads

A request of `Reads` is again a list of calls, now to Redis and to the tables: `Through(key,
calls)` is the pattern of every cached reader (get, else the calls, else set). `world` is
what the queries would read, `past` the worlds before it with the time each ended, so that
"recent" can be stated; `now` counts units of time, `Minutes` is a family's lifetime, None for
the one key set without. A request has a deadline (`Timeout`) in its context, which the calls
marked so respect. `Boards` has the aggregates as folds and sorts, `IsBoard`, `IsStatistics` and
`IsLastTry` what they must be, stated without either. What is asked of a table of tries is
its key alone (`SoundTries`), since `Tries` leaves no more: `Tried` lets a submission save a row read at any
moment (`EverRead`) over what is there, so step 1 may be open again beside step 2, as
`tries_resubmit` shows, and `GetTriesFromCompetitonPuzzle` is then asked to show step 1 again.

What the code does that the properties leave room for: tries and statistics are
answered from the cache before access is checked, statistics from one key for all; the
permission to view a puzzle is cached for five minutes and invalidated when groups change, on
which it does not depend, and not by the solve, on which it does; a count that
PostgreSQL fails is cached as a refusal (`uncounted`); the DEL of `comp_puzzle_input` after a
right answer is undone by the inner key `catalog_puzzle_input`, which has no TTL. The field
`Firstname` of the statistics is bound to a column the query does not select, and stays empty:
wording, and so not modelled.

## 3. Runs

| Run | Question | Instance and why it is enough |
|---|---|---|
| `tries_overlap` | What survives when two requests of one user overlap in every way? `TypeOK`, `RowsCoherent`, `NoPhantomSolve`, `NeverOvercharged`, `SecondStepFollowsFirst`, `StartNeverMoves` | two goroutines, two connections, both steps of one puzzle, answers right, wrong and not numeric, two counted submissions per step, one passage of 11 minutes across a tier of the score; failures and restarts anywhere. Rows of different puzzles and users never meet in the code. 1.18 million states |
| `tries_serial` | What does a user get who waits for each reply? `NoSubmissionLost`, `ImplementsLifecycle`, `CooldownRespected` | six submissions, so that both cooldowns (after 3 and 5 attempts, the values of `config/puzzle-rate-limiter.go`) are reached; one connection, so that one abandoned transaction exhausts the database until a restart |
| `tries_progress` | Is every accepted request answered, if the hub takes what it waits for? `EveryRequestAnswered` | two goroutines in contention for one row, `FairSpec`, which does not make the hub take anything. 70 000 states |
| `limiter_window` | Does anybody get more than his rate, or less? `TypeOK`, `BurstPlusRate`, `NobodyLockedOut` | two identifiers, two goroutines, three intervals, burst above rate |
| `realtime` | Does every dashboard get every update, and do requests get on? `TypeOK`, `NothingLost`, `NeverGoesBack`, `EveryRequestGetsOn`, `RegistryForgets` | two dashboards, two requests, two commits of each row, so that an older version can arrive after a newer one; `FairSpec`. 72 000 states |
| `sessions` | What do the blacklist, the rotation and the block guarantee? `TypeOK`, `LoggedOutIsOut`, `OneSuccessor`, `BlockedGetsNoToken`, `StaleOnlyWithoutTTL` | two goroutines, so that any two requests interleave in every way; one token that is followed among any number, in two texts; a token lives 3 units, a cached session and a deadline 1: a token outlasts both together, and a key can expire before, with and after its token. 3.7 million states |
| `accounts` | Who can undo what on a user's row, and how often does a reset token work? `TypeOK`, `ChangesLast`, `UnflaggedIsOwn`, `OneUse`, `RequestEndsOthers` | two goroutines, so that any two handlers overlap in every way (each writes in one statement or transaction); two passwords to choose, one of them the default, two profiles, two tokens, so that a token can replace another. 2.8 million states |
| `access` | May a handler leave half a change, may two queries disagree, who waits for whom? `ErrorChangedNothing`, `QueriesAgree`, `OnlyRowAgainstLinks`, `NoComeback`, `NeverStripped` | two requests of anybody, every pair of the 17 handlers in every interleaving of their calls, each of which may fail; an owner, a member of staff with a group, a user, a role and a scope to be made; a shown and a hidden competition. Conflicts are between two requests on one row each, and each kind of row is there once with a second of those kinds that links are replaced by. 181 000 states |
| `competitions` | The same of competitions, groups and bulk changes: `ForeignKeys`, `OnlyUpdateIsPartial`, `OnlyEmptyGroupStaysOpen`, `NeverClosedByUpdate`, `UsersComeWithGroup` | two requests, any two of the 18 handlers, lists of up to two rows, so that one of a list can fail or name the same user twice; two groups and a third, a second competition and two users to be made. 477 000 states |
| `reads` | How old may an answer be, and whose? `AnswersAreRecent`, `OwnTriesOnly` | nine scenarios, one for each set of keys that meet; two requests (a writer of a key and a reader, or two writers), up to two changes, four units of time with a lifetime of two and a deadline of one: a key can be set late, expire and be set again; among the tables reached is one with step 1 reopened beside step 2. 1.6 million states |
| `tries_resubmit` | finding: `SolvedStaysSolved` is violated | two overlapping submissions |
| `tries_abandoned` | finding: `NoTransactionAbandoned` is violated | one request |

What they show. Without the lock the comments promise, a committed row is
still always *one* handler's row, never invents a solve, never charges too much,
and its start never moves. What is lost is a later commit: a wrong submission
read before the right one was committed writes `end_time` NULL and score 0 over it
(`tries_resubmit`), and since the row of step 2 is then there, step 1 can never be
solved again. A user who waits for each reply gets exactly `TryLifecycle`, whatever
fails. The hub loses nothing and forgets what it must, provided that no browser
stalls for ever; the limiter keeps its bound. (Its `Retry-After` is a minute divided by
the rate, though a bucket is refilled a whole minute after its last refill:
`NobodyLockedOut` states the wait that suffices.) A wrong answer that is not a number
fails in `Save`, is not counted, and abandons its transaction (`tries_abandoned`).
Every request is answered, provided that the hub takes in the end what it is sent: nothing in the
transactions makes a request wait for ever, but one stuck browser does. That premise of
`EveryRequestAnswered` is what `EveryRequestGetsOn` of `realtime` concludes from its own, that no browser
stalls for ever. The two are checked apart, so that they fit together is an argument, not a check.

The text of a token that was logged out with stays out wherever Redis answers, and a blocked user's new
requests get no token. Four things the sessions do not give, and the properties say so: the blacklist
covers the text that was sent and not the *token*, which in other white space is validated all the same
(`LoggedOutIsOut` and `OneSuccessor` are of texts, and neither holds of tokens); two refreshes with one text that overlap each get a new token; one refresh that Redis fails leaves both valid (`unsure`); and
a login whose `Save` comes after a block lifts it again (`behind` is emptied). `StaleOnlyWithoutTTL` names the one
cached session that stays: the token expired while `CheckAuth` was at work, the TTL came out
as zero, and go-redis takes that for none. On a user's row every handler but login keeps to
its columns; login takes back what was committed since it read. A password that is not flagged is one
that its user chose (`UnflaggedIsOwn`), though he may have chosen the default one, which nothing
forbids. A reset token works once unless two
requests held it at once, and ends the others unless two requests for one crossed.

The administration keeps its foreign keys, and its queries do not contradict each other: who manages a
user or group and who may open a competition is decided alike wherever it is. What they decide is not always
what the documents say: `hasCompetitionPermission` lets in whoever has a role at all, whatever it
permits, and `GetAllCompetitions` shows him every competition, hidden ones too, where its documentation and
the comment of `GetUserCompetitions` ask for the permission COMPETITIONS or the owner
(`competition_management.go:23` and `:76`). `QueriesAgree` asks only that whoever is answered is
answered alike, so code that kept to those documents would satisfy it too. (`GetRoleScopes` is
documented as "only accessible to users with the SCOPES permission" and is content with any role in the
same way.) A request that is
told "error" has changed nothing, except that `UpdateCompetition` replaces the groups before
and outside its transaction; two of those that overlap delete each other's groups
(`NeverClosedByUpdate` has to allow it). An update of a user's roles replaces them in
one transaction and yet can strip him: it finds the new link already there, another request takes that
link away, and the commit takes the old ones (`NeverStripped` has to allow it; this takes three
requests, and was found in looking for the proof). `DeleteAllUsersFromGroup` of an empty group is the one
handler that keeps its transaction, and with it a connection. Users, roles and scopes are
updated row first and deleted links first, so an update and a deletion of one row can deadlock, which
PostgreSQL ends by failing one of them. There is one more way, which takes three requests:
`UpdateTargetUserProfile` adds roles before it deletes the others, so when somebody attaches a role in
between, it can wait for another exchange of the same roles that waits for it. `OnlyRowAgainstLinks`
names these pairs, and says that requests that wait for one another in a circle, two or more, have such a
pair among them. (It did not name the last until its proof was tried for any number of requests; two, as in
the run, never get there.) One more kind of circle has to be allowed: two `DeleteRole` that each wait for the
link to their role that one `UpdateTargetUserProfile` has added, which waits for the link of its own user that
the other `DeleteRole` has deleted. TLC reaches it with four such requests on two users and two roles and two
that attach the roles in between. Deleting a user
who has a try always fails, on the foreign key. A cached answer is right for a state that was
there no longer ago than a lifetime and a deadline, whoever set the key and how late; inputs of
puzzles, which have no TTL, are excepted, and a permission refused because a count failed.

Each property of a passing run has a mutant, an operator next to the definition it
would replace: a plausible slip in that code that makes TLC find the property violated.

### Fairness

`Tries!FairSpec`: strong fairness of each goroutine's handler. Go runs every
goroutine, the call to BeeAPI has a timeout, and PostgreSQL queues those who wait
for a row, so a step enabled again and again is taken. The hand-over to the hub
(`HubTakes`) is left out: the send has no buffer, and the hub writes to browsers without a deadline and
with the mutex held, so nothing in the code makes it take another update. Nothing is assumed of
requests to come, of the clock or of restarts. `Realtime!FairSpec`: strong
fairness of the hand-over, of the mutex and of writes (waiters are served in
turn), weak fairness of the hub's own steps. Nothing is assumed of browsers:
its two liveness properties carry their condition, "no browser stalls for ever", and
`EveryRequestAnswered` its own, "the hub takes what it is sent", as explicit premises, because the
code guarantees nothing without them.

### Bounds

`Sessions` has no liveness property and needs no bound: what is left of a lifetime only
falls, `renewed` counts to 2 and the age of a cached session to `MaxAge + 1`, one more
than the properties allow. In the other modules `MaxSubmissions`, `MaxTime` and `Delays` (Tries), `MaxTime` (RateLimiter), `MaxVersion`
(Realtime) bound counters that the code leaves unbounded; they occur in the guards of
`AnswerPuzzle`, `Tick` and `Commit` only, and the theorems hold for every value of them.
`Accounts` is finite as it is: tokens are used up, and `used` counts to 2. In `Access`,
`Competitions` and `Reads` a goroutine serves one request, so a behaviour is two requests long;
what takes three is out of these runs' reach (a proof found one such case, in `NeverStripped`), and the
theorems hold for any number. `MaxAsked` bounds how many rows one request
names, `Scenario.requests` and `Scenario.changes` what happens in one scenario, `MaxTime` the clock
of `Reads`. Symmetry is used between goroutines, in `sessions` between the texts of a token and in `accounts` between tokens and between profiles (in `realtime` not at all, for the sake of its
liveness properties). Deadlock is not checked in `realtime`, where bounded commits and
connections come to an end, in `accounts`, where a deleted account is the end, and in `access`,
`competitions` and `reads`, where every request has been answered in the end; in every other
passing run it is.

## 4. Proofs

For every set of users, puzzles, levels, answers and goroutines and every value
of the thresholds and bounds, from the assumptions named in `Tries`
(`TriesAssumption`, `NoneAssumption`, `BoundsAssumption`):

- `TypeCorrect`: `TypeOK`. The invariant is `TypeInv`: types, and what the place of a
  handler says about the fields of its request (`WellFormed`), for example that a
  handler in a transaction holds a row.
- `RowsAlwaysCoherent`, `NoSolveIsInvented`, `NobodyIsOvercharged`: the invariant
  `SafeInv`. `RowSound` is about the table; it is not inductive alone, since `Save` writes
  a copy read long before. `RequestSound` says what stays true of that copy while
  others commit: it is coherent by itself, its start and level are still those of the
  row, and it counts at most one attempt more than were committed. `LocksHeld` is
  needed for the insertions: `InsertFirst` and `CreateNext` saw no row, and only the
  lock keeps it so until their commit.
- `ClockStartsOnce`, `SecondStepOpensInOrder`: action properties, from `SafeInv` and the
  lemmas that only `Commit` writes rows and what it writes.

For every set of identifiers and goroutines, every rate, burst and interval
(`RateAssumption`, `LimiterNoneAssumption`, `MaxTimeAssumption` of `RateLimiter`):

- `LimiterTypes`, `WindowBound`, `RefusalsEnd`, from the invariant `LimiterInv`. Its core,
  `WindowPaid`, charges each admission in the window to the initial burst or to a
  refill noted in the window, so that tokens left plus admissions are bounded by
  `Burst` plus `Rate` times the intervals up to the last refill; `NotRefilled` ties a run
  of refusals to the time of the last refill.

For every set of tokens and goroutines and all lifetimes and deadlines
(`DurationsAssumption`, `SessionsNoneAssumption` of `Sessions`):

- `SessionsTypes`, `LogoutIsFinal`, `RotationIsSerial`, `BlockStopsTokens`,
  `StalenessIsBounded`, from the invariant `SessionsInv`, for any white space around tokens. The second
  and third are about texts, as their properties are; of a token in any text neither would hold.
  `LoggedOutIsOut` is not inductive: it needs that the key of a text that was logged out with lasts as
  long as its token (`LoggedOutEnded`), which needs that the TTL Logout has computed is never less than
  what is left (`TTLs`). `Rotation` says of a text without overlap or failure that
  one refresh with it at most is under way, and that once it is exchanged its key lasts and no
  refresh with it is past `EXISTS`. `CacheOK` trades the age of a cached session against its TTL.
  The lemma `Advance` covers every step of one goroutine that leaves the tokens alone,
  `IssueKeeps` those that issue one.

For every set of goroutines, passwords, profiles and tokens, the default password among those that users
choose or not (`AccountsNoneAssumption` of `Accounts`):

- `AccountsTypes`, `CommitsLast`, `GivenIsFlagged`, `TokensWorkOnce`,
  `RequestsEndOthers`, from the invariant `AccountsInv`. `ChangesLast` needs `Copies`: what a
  login holds agrees with `lasting`, so that its `Save` undoes nothing that is in there.
  `Flagged` says of every row *and* of every change under way that a password which its user did not
  choose comes with the flag. `Once` counts a token's uses against those who still hold it, and
  `Crossings` says that a `DELETE` no other request came across has found every token.
  `RecordsFacts` is the step of every `UPDATE`, `Advance` that of every handler that has not
  written yet.

- `NothingIsLost`, `CooldownsAreKept`, `HandlersImplementLifecycle` of `TriesProofs`, from
  `SerialInv`: a user in `Serial` has one request under way (`OneAtATime`), so its copy is the
  row plus one attempt while it is in a transaction, and the cooldown that `AnswerPuzzle` found
  over is over for what is written (`SerialSound`). The refinement maps `Stage` and
  `Tried` to the variables of `TryLifecycle`: each commit is one of its steps, everything else
  a stutter.

For every set of connections, requests and tries (`WatchesAssumption`, `RegistryNoneAssumption`,
`TriesOfAssumption`, `VersionAssumption` of `Realtime`):

- `RegistryTypes`, `EveryUpdateArrives`, `DashboardsFollow`. `NothingLost` speaks of the moment the
  hub waits again; the invariant says where an update that is owed is before
  (`Owed`: in the rest of the loop), that the loop's rest is in the map (`LoopSound`: the mutex
  protects it) and that a connection is in the map of its own competition (`RegistrySound`).
  `InOrder` bounds what dashboards have by what the hub holds, and that by the last
  commit. It needs that a serial user's queued updates are those of his last commit.

For every number of requests, every set of rows and every initial database whose foreign keys
hold (`MaxAskedAssumption`, `ScopeAssumption`, `DistinctAssumption`, `KindsAssumption`, `DatabasesAssumption`
of `Tables`, `NothingAssumption` of `Views`):

- `AdministrationKeepsForeignKeys`. A key is checked against what one
  transaction sees, and others commit before it does. The invariant of `TablesProofs` has what
  makes the check last: open transactions are pairwise `Apart` (neither touches the other's rows,
  nor refers to what the other has deleted: this is what `Free`, PostgreSQL's waiting, gives), and
  what each of them sees is `Consistent`. Then a commit of one leaves what every other
  sees consistent. The proof is about the calls, whatever their order: the handlers
  only add how they begin. It is stated of `Administration`, where any number of requests of
  `Access` and of `Competitions` overlap; TLC's runs have two of one kind.
- `ForeignKeysMakeQueriesAgree` is about the queries and not about the handlers: in any table whose
  foreign keys hold, `QueriesAgree`. A query that joins through a table and one that goes
  from association to association differ exactly where a link has lost an end; that none has is
  `AdministrationKeepsForeignKeys`.

- `ErrorsChangeNothing`, `OthersChangeAllOrNothing`, `OthersEndTheirTransaction` follow the order
  of each handler's calls. `Shaped` says what a good order is: a list has one place where the
  transaction begins, one commit (or one call outside a transaction) after which others see a change,
  and only looks before the first and only reads of the answer after the second. The invariant
  `InOrder` says that what is left of every request is such a list. Every call, with each of its
  outcomes, leaves the tail of one (`Sound` is what it may do to the request), and every handler enters with a
  whole one: one step for each of the 34. The lists of `CreateEach` are of any length. Two handlers
  depart from it, and `Shaped` names them: `UpdateCompetition` may write before its transaction,
  `DeleteAllUsersFromGroup` may leave its own. They are the exceptions in the properties.

- `NothingComesBack`, `UsersJoinTheirGroup`, `CompetitionsStayOpen`, `UsersKeepRoles` are about what a request does with
  what it has read, so `InOrder` and the invariant of the foreign keys are joined by what a request
  may still do given what it holds. `Rightful` (for `NoComeback`): what a request
  has put and what its calls will still put is in the tables, was asked for, or was deleted since it
  began (`gone`); an `append` adds what the last look before it finds, and only that (`Feeds`), so
  it adds nothing older than the request. `Grouped` (for `UsersComeWithGroup`): in the lists of the
  three handlers that create members every creation is followed, in the same transaction, by the
  append to a group that was found and has been known since, and no other handler is asked for
  users. `Opened` (for `NeverClosedByUpdate`): of all requests that do not mean to, only
  `UpdateCompetition` deletes groups of a competition, outside its transaction and right after the
  append of what it has found, so what it just gave is there or in `gone`; everything else deletes
  other links, which needs that kinds do not share identifiers (`KindsAssumption`). `Kept` (for
  `NeverStripped`): roles are exchanged in one transaction, by a call that deletes them right
  before, or trims them right after, the append of those that a look has found; so a request that
  has deleted roles of a user either adds others next or has one of his in sight or in `gone`. A proof with
  `gone` left out failed on the case the property now allows. Each of the
  four is kept by every call (one lemma for what a call leaves, whichever it is) and
  established by every handler, whose list of calls is looked at one by one, those of `CreateEach` by
  the form its elements have.

- `DeadlocksAreKnown`: `OnlyRowAgainstLinks` needs to know what a request holds when it waits. A handler
  is about one row, its own, and that row's links to one or two other kinds (`Own`, `FirstKind`,
  `SecondKind`). `Script` says in which order it may write those: an update its row first,
  a deletion its links kind by kind and its row last (`Apt` is what each call may be, `Follows` which may
  come after which). `Plays` says that what a request has written is what the calls it has made so far
  could write, and that it adds rows and links only where they were not (`Stands`); `AllPlay`, that every request
  with a write to come is at a place of such a script. Both of two updates of the same roles
  cannot have deleted some of them (`AllLone`): the second waits for the first. These three are inductive; from
  them comes what a request that waits can hold (`Stance`), and from two such stances who can wait
  for whom. Requests about different kinds of rows wait one way only, users for roles and roles for
  scopes (`AcrossKinds`, `OneKind`); within a kind, whoever waits for an update waits for
  its row (a deletion) or for the links it has deleted or added (`WithinKind`), and of the pairs this
  leaves all but those that the property names go one way: `Rank` gives a request a number, by its handler and
  by how far it has come, that is less than the number of whoever it waits for (`Rises`). In a circle one
  would be the highest (`SomeIsLast`), so a circle, however long, has one of the named pairs in it. `Rank`
  would fail if `UpdateTargetUserProfile` put back, with a user's groups, one that has been deleted since it
  was found: that row refers to a scope. No handler of `Access` deletes a group, so none comes back
  (`AllSpared`, inductive too). Of these
  definitions, `Script`, `Apt`, `Follows`, `Stands`, `Plays`, `Stance` and what follows from two stances are in
  `TablesProofs`, where every handler of the two modules can use them.

For every number of readers, users, families' lifetimes, changes and minutes, and for every finite set
of tries (`TopAssumption` of `Boards`; `MinutesAssumption`, `TimeoutAssumption`, `NamesAssumption`,
`WorldsAssumption` of `Reads`):

- `ReadsKeepInvariant`, `ReadsAnswerRecently`, `ReadsShowOwnTries`. The properties are about answers;
  the invariant is about every place a value passes on its way to one, and says of each how old it may
  be there (`Right` since a time): the entry under a key was right no earlier than its `Source`, which
  is its expiry less its lifetime and a deadline (`EntrySound`); what a request holds was right since it
  began, as long as it still has the key to set (`Holding`), because no `set` comes before a `read`
  (`ReadFirst`); what it answers, since the two together (`Answering`). `Goes` says how the history may
  change: time passes, and what was recent stays in `past`. Nothing that was right since a time ceases
  to be (`RightLasts`), so a step has to be looked at for the one value it moves. For `OwnTriesOnly` the
  check must still be to come in a request that has read no key yet (`AccessFirst`), and the entry of a
  user's key remembers that he was shown the competition. Every handler enters with its calls in
  that order (`HandlersPlan`), whatever keys it has.
- That what is read is right is a fact about the queries, for any finite set of tries:
  `LeaderboardIsBoard`, `StatisticsAreRight`, `LastTryIsRight`. The statistics are computed from the ranks
  and required of the tries, so points counted by user must be those counted by try (`PointsByUser`).
  Sums are the library's folds. Its induction theorems cannot be used here, so each fact about
  sums of all finite sets takes a least set that it fails for (`LeastSet`, from the well-foundedness
  of strict inclusion) and refutes it by the sets within. They need that one key has one row, which `Tried`
  keeps whatever stale rows it writes, and not which tries are open.

Model-checked only: liveness (`EveryRequestAnswered`, `EveryRequestGetsOn`, `RegistryForgets`), because
fairness is outside the prover's reach. Every other property that a passing run checks is also a theorem
(`QueriesAgree` of any table that keeps its keys).

## 5. Plan

Written in this order: what users' results depend on (`Tries`, `TryLifecycle`, `Scores`,
`RateLimiter`, `Realtime`), who users are (`Sessions`, `Accounts`), who may do what (`Tables`, `Views`,
`Access`, `Competitions`), what they read (`Boards`, `Reads`); each with its proofs where the
prover reaches. What could still be added:

1. An abstract specification for `Sessions`: a token is live until it is exchanged, logged out or
   expired.
2. One module of `Tries` and `Realtime` together at the hand-over; today `Realtime` has the commits
   and queues of `Tries` in itself.

## 6. Not modelled

- Start-up: migrations, `Populate` and the clients run in sequence, once, before the first
  request, and nothing interleaves with them. (Read for its constraints. `Populate` drops errors of
  `Create` and makes the owner's role and the owner in two inserts, so a process that dies in between
  leaves a database in which the role is counted, and the owner is never made.)
- Routes and the plumbing of requests: wiring and formatting without state.
- Metrics and e-mail: counters nobody reads back, and output.
- The generated API documentation, and the fixtures of tests.
- Within modelled parts: the cells of spreadsheets, the wording of answers, bcrypt, signatures of
  tokens, the zone that a `timestamp` column drops.
