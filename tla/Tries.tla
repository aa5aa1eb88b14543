-------------------------------- MODULE Tries --------------------------------
(***************************************************************************)
(* The life of a try: one row of the table "tries" per user, puzzle and    *)
(* step of a competition (models/Try.go), and the two HTTP handlers that   *)
(* write it, GetInputFromCompetition and AnswerPuzzle                      *)
(* (handlers/competitions/competition_course.go), down to the transactions *)
(* of services/tries_services.go.                                          *)
(*                                                                         *)
(* Every request runs in a goroutine of its own and the database is read   *)
(* committed.  tx.Set("gorm:query_option", "FOR UPDATE") is ignored by     *)
(* gorm v2, so First takes no lock: a row is locked from the UPDATE or     *)
(* INSERT that writes it to the end of its transaction.  Save writes every *)
(* column of the row as it was read.                                       *)
(*                                                                         *)
(* The deferred rollback tests tx.Error, which a failed First, Save or     *)
(* Create never sets (each chain works on its own *gorm.DB): a transaction *)
(* whose statement fails is neither committed nor rolled back.  It writes  *)
(* nothing and holds no lock, but keeps its connection: "leaked".          *)
(***************************************************************************)
EXTENDS Integers, FiniteSets, Scores

CONSTANTS
    Users,
    Puzzles,            \* a puzzle is its index in the competition
    Levels,             \* difficulties a client may send with its first request
    Answers,
    RightAnswers,       \* those BeeAPI judges right
    NumericAnswers,     \* those the column last_answer, numeric(15,2), takes
    Requests,           \* the goroutines serving requests
    Serial,             \* users who wait for a reply before they send again
    MaxConns,           \* connections the database grants
    AttemptsThreshold1, CooldownDuration1,
    AttemptsThreshold2, CooldownDuration2,
    None                \* SQL's NULL, a row that is not there, no value

CONSTANTS               \* bounds of the model
    Delays,             \* minutes the clock may advance by at once
    MaxTime,            \* the clock stops there
    MaxSubmissions      \* no answer is sent for a row with that many counted

Key == [user: Users, puzzle: Puzzles, step: {1, 2}]

\* Columns of a try.  end, lastAnswer and lastMove are nullable.
Row == [lvl: Levels, start: Nat, end: Nat \cup {None}, attempts: Nat,
        lastAnswer: Answers \cup {None}, lastMove: Nat \cup {None}, score: Int]

ASSUME TriesAssumption ==
    /\ Serial \subseteq Users
    /\ Puzzles \subseteq Nat
    /\ RightAnswers \subseteq Answers
    /\ NumericAnswers \subseteq Answers
    /\ AttemptsThreshold1 \in Nat /\ CooldownDuration1 \in Nat
    /\ AttemptsThreshold2 \in Nat /\ CooldownDuration2 \in Nat

ASSUME NoneAssumption ==
    None \notin Key /\ None \notin Row /\ None \notin Nat /\ None \notin Answers

ASSUME BoundsAssumption ==
    Delays \subseteq Nat /\ MaxConns \in Nat /\ MaxTime \in Nat /\ MaxSubmissions \in Nat

VARIABLES
    now,        \* the wall clock, in minutes
    rows,       \* the committed table, None where there is no row
    req,        \* what each goroutine is at
    leaked,     \* connections held by abandoned transactions
    inputCache, \* the keys comp_puzzle_input:* in Redis
    solved,     \* history: tries that some commit has ended
    counted     \* history: committed submissions per try

vars == <<now, rows, req, leaked, inputCache, solved, counted>>

----------------------------------------------------------------------------
(* A request.  pc is where its handler is; an outcome is a reply that the  *)
(* client has not read yet.  copy is the row its transaction will write.   *)

Outcomes == {"error", "wrong", "right", "already", "limited", "input"}

InTransaction == {"write", "next", "commit"}

Pcs == {"idle", "judge", "begin", "load", "announce", "announceNext", "serve"}
         \cup InTransaction \cup Outcomes

Request == [pc: Pcs, key: Key \cup {None}, answer: Answers \cup {None},
            copy: Row \cup {None}]

Idle == [pc |-> "idle", key |-> None, answer |-> None, copy |-> None]

Accept(r, key, answer, pc) ==
    req' = [req EXCEPT ![r] = [pc |-> pc, key |-> key, answer |-> answer, copy |-> None]]

GoTo(r, pc) == req' = [req EXCEPT ![r].pc = pc]

WillWrite(r, row) == req' = [req EXCEPT ![r].pc = "write", ![r].copy = row]

\* A request without an answer is one of GetInputFromCompetition.
AsksInput(r) == req[r].answer = None

IsRight(r) == req[r].answer \in RightAnswers

MayCall(u) ==
    u \in Serial => \A q \in Requests : req[q].key # None => req[q].key.user # u

\* A failed TriggerPuzzleFirstTry is logged and the input served anyway; a
\* failed UpdateTry or EndTry is answered 500.
Fail(r) == GoTo(r, IF AsksInput(r) THEN "serve" ELSE "error")

ConnectionFree ==
    Cardinality({r \in Requests : req[r].pc \in InTransaction}) + leaked < MaxConns

----------------------------------------------------------------------------
(* Rows *)

NewTry(lvl, start) ==
    [lvl |-> lvl, start |-> start, end |-> None, attempts |-> 0,
     lastAnswer |-> None, lastMove |-> None, score |-> 0]

\* Mutant of IsSolved: nobody looks at end_time.
IsSolved_Ignored(try) == FALSE

IsSolved(try) == try.end # None

\* Mutant of CheckRateLimit: the lower threshold is tested first.
CheckRateLimit_LowTierFirst(try) ==
    /\ try.lastMove # None
    /\ \/ /\ try.attempts >= AttemptsThreshold1
          /\ now < try.lastMove + CooldownDuration1
       \/ /\ try.attempts < AttemptsThreshold1
          /\ try.attempts >= AttemptsThreshold2
          /\ now < try.lastMove + CooldownDuration2

\* CheckRateLimit on a try whose last move is known.
CheckRateLimit(try) ==
    /\ try.lastMove # None
    /\ \/ /\ try.attempts >= AttemptsThreshold2
          /\ now < try.lastMove + CooldownDuration2
       \/ /\ try.attempts < AttemptsThreshold2
          /\ try.attempts >= AttemptsThreshold1
          /\ now < try.lastMove + CooldownDuration1

\* Mutant of Updated: counts down.
Updated_CountsDown(try, answer) ==
    [try EXCEPT !.lastMove = now, !.lastAnswer = answer, !.attempts = @ - 1]

\* What UpdateTry makes of the row it read.
Updated(try, answer) ==
    [try EXCEPT !.lastMove = now, !.lastAnswer = answer, !.attempts = @ + 1]

\* Mutants of Ended: the handler counts the attempt too; nobody counts it.
Ended_CountsTwice(try, key, answer) ==
    [try EXCEPT !.lastMove = now, !.lastAnswer = answer, !.attempts = @ + 2,
                !.end = now,
                !.score = CalculateScore(try.lvl, key.puzzle + 1, key.step,
                                         try.start, now, try.attempts + 2)]

Ended_Uncounted(try, key, answer) ==
    [try EXCEPT !.lastMove = now, !.lastAnswer = answer, !.end = now,
                !.score = CalculateScore(try.lvl, key.puzzle + 1, key.step,
                                         try.start, now, try.attempts)]

\* What EndTry makes of it.
Ended(try, key, answer) ==
    [try EXCEPT !.lastMove = now, !.lastAnswer = answer, !.attempts = @ + 1,
                !.end = now,
                !.score = CalculateScore(try.lvl, key.puzzle + 1, key.step,
                                         try.start, now, try.attempts + 1)]

NextStep(key) == [key EXCEPT !.step = 2]

\* Mutant of OpensNext: UpdateTry does it as well.
OpensNext_OnAnyAnswer(r) == ~AsksInput(r) /\ req[r].key.step = 1

\* EndTry of step 1 also creates the row of step 2.
OpensNext(r) == IsRight(r) /\ req[r].key.step = 1

\* The row of step 2 that the transaction of r creates.
NextTry(r) == NewTry(req[r].copy.lvl, req[r].copy.end)

\* Mutant of Written: Updates with a struct, which leaves zero values out.
Written_SkipsZeroFields(r) ==
    [k \in Key |-> IF k = req[r].key
                   THEN IF rows[k] # None /\ req[r].copy.end = None
                        THEN [req[r].copy EXCEPT !.end = rows[k].end, !.score = rows[k].score]
                        ELSE req[r].copy
                   ELSE IF OpensNext(r) /\ k = NextStep(req[r].key) THEN NextTry(r)
                   ELSE rows[k]]

\* Save and Create write whole rows.
Written(r) ==
    [k \in Key |-> IF k = req[r].key THEN req[r].copy
                   ELSE IF OpensNext(r) /\ k = NextStep(req[r].key) THEN NextTry(r)
                   ELSE rows[k]]

\* A row some other transaction has written and not ended.
Locked(key) == \E q \in Requests : req[q].pc \in {"next", "commit"} /\ req[q].key = key

----------------------------------------------------------------------------
Init ==
    /\ now = 0
    /\ rows = [k \in Key |-> None]
    /\ req = [r \in Requests |-> Idle]
    /\ leaked = 0
    /\ inputCache = {}
    /\ solved = {}
    /\ counted = [k \in Key |-> 0]

\* GetInputFromCompetition by a user whom GetAccessibleCompetition lets in (one
\* it turns away changes nothing); that query too needs a connection.
GetInput(r, key) ==
    /\ req[r] = Idle
    /\ key.step = 1
    /\ MayCall(key.user)
    /\ Accept(r, key, None, IF ConnectionFree THEN "begin" ELSE "error")
    /\ UNCHANGED <<now, rows, leaked, inputCache, solved, counted>>

\* AnswerPuzzle up to GetPuzzleTry and CheckRateLimit, on the committed row.
AnswerPuzzle(r, key, answer) ==
    LET try == rows[key]
        pc  == IF ~ConnectionFree \/ try = None THEN "error"
               ELSE IF IsSolved(try) THEN "already"
               ELSE IF CheckRateLimit(try) THEN "limited"
               ELSE "judge"
    IN  /\ req[r] = Idle
        /\ MayCall(key.user)
        /\ counted[key] < MaxSubmissions
        /\ Accept(r, key, answer, pc)
        /\ UNCHANGED <<now, rows, leaked, inputCache, solved, counted>>

\* CheckPuzzleAnswer: the verdict of BeeAPI, or its failure (the HTTP client
\* gives up after 30 seconds).
Judge(r) ==
    /\ req[r].pc = "judge"
    /\ \/ GoTo(r, "begin")
       \/ GoTo(r, "error")
    /\ UNCHANGED <<now, rows, leaked, inputCache, solved, counted>>

----------------------------------------------------------------------------
(* The transactions *)

BeginFails(r) ==
    /\ req[r].pc = "begin"
    /\ ~ConnectionFree
    /\ Fail(r)
    /\ UNCHANGED <<now, rows, leaked, inputCache, solved, counted>>

\* First returns an error other than "record not found".
FirstFails(r) ==
    /\ req[r].pc = "begin"
    /\ ConnectionFree
    /\ Fail(r)
    /\ leaked' = leaked + 1
    /\ UNCHANGED <<now, rows, inputCache, solved, counted>>

\* TriggerPuzzleFirstTry: Begin and First.
TriggerPuzzleFirstTry(r, lvl) ==
    /\ req[r].pc = "begin"
    /\ ConnectionFree
    /\ AsksInput(r)
    /\ IF rows[req[r].key] = None
       THEN WillWrite(r, NewTry(lvl, now))
       ELSE GoTo(r, "serve")
    /\ UNCHANGED <<now, rows, leaked, inputCache, solved, counted>>

\* UpdateTry and EndTry: Begin, First and the changes to the row in memory.
\* A try found ended is rolled back explicitly; a try not found is leaked.
ReadTry(r) ==
    LET key == req[r].key
        try == rows[key]
    IN  /\ req[r].pc = "begin"
        /\ ConnectionFree
        /\ ~AsksInput(r)
        /\ \/ /\ try = None
              /\ Fail(r)
              /\ leaked' = leaked + 1
           \/ /\ try # None
              /\ IsSolved(try)
              /\ Fail(r)
              /\ UNCHANGED leaked
           \/ /\ try # None
              /\ ~IsSolved(try)
              /\ WillWrite(r, IF IsRight(r) THEN Ended(try, key, req[r].answer)
                              ELSE Updated(try, req[r].answer))
              /\ UNCHANGED leaked
        /\ UNCHANGED <<now, rows, inputCache, solved, counted>>

\* Mutant of InsertFirst: an upsert in place of the insert.
InsertFirst_Upserts(r) ==
    /\ req[r].pc = "write"
    /\ AsksInput(r)
    /\ ~Locked(req[r].key)
    /\ GoTo(r, "commit")
    /\ UNCHANGED <<now, rows, leaked, inputCache, solved, counted>>

\* Create in TriggerPuzzleFirstTry: waits for a concurrent insert of the same
\* key, then the index unique_try refuses a second row.
InsertFirst(r) ==
    /\ req[r].pc = "write"
    /\ AsksInput(r)
    /\ ~Locked(req[r].key)
    /\ \/ /\ rows[req[r].key] = None
          /\ GoTo(r, "commit")
          /\ UNCHANGED leaked
       \/ /\ rows[req[r].key] # None
          /\ Fail(r)
          /\ leaked' = leaked + 1
    /\ UNCHANGED <<now, rows, inputCache, solved, counted>>

\* Save in UpdateTry and EndTry: waits for the row, then overwrites it.
Save(r) ==
    /\ req[r].pc = "write"
    /\ ~AsksInput(r)
    /\ req[r].answer \in NumericAnswers
    /\ ~Locked(req[r].key)
    /\ GoTo(r, IF OpensNext(r) THEN "next" ELSE "commit")
    /\ UNCHANGED <<now, rows, leaked, inputCache, solved, counted>>

\* Save of an answer that the column last_answer does not take.
SaveRejected(r) ==
    /\ req[r].pc = "write"
    /\ ~AsksInput(r)
    /\ req[r].answer \notin NumericAnswers
    /\ Fail(r)
    /\ leaked' = leaked + 1
    /\ UNCHANGED <<now, rows, inputCache, solved, counted>>

\* Mutant of CreateNext: retries for as long as the row is there.
CreateNext_Retries(r) ==
    /\ req[r].pc = "next"
    /\ rows[NextStep(req[r].key)] = None
    /\ GoTo(r, "commit")
    /\ UNCHANGED <<now, rows, leaked, inputCache, solved, counted>>

\* Create of the row of step 2 in EndTry, refused by unique_try if it is there
\* (the lock on step 1 excludes a concurrent one).
CreateNext(r) ==
    /\ req[r].pc = "next"
    /\ \/ /\ rows[NextStep(req[r].key)] = None
          /\ GoTo(r, "commit")
          /\ UNCHANGED leaked
       \/ /\ rows[NextStep(req[r].key)] # None
          /\ Fail(r)
          /\ leaked' = leaked + 1
    /\ UNCHANGED <<now, rows, inputCache, solved, counted>>

Commit(r) ==
    LET key == req[r].key
    IN  /\ req[r].pc = "commit"
        /\ rows' = Written(r)
        /\ GoTo(r, "load")
        /\ solved' = IF IsRight(r) THEN solved \cup {key} ELSE solved
        /\ counted' = IF AsksInput(r) THEN counted
                      ELSE [counted EXCEPT ![key] = @ + 1]
        /\ UNCHANGED <<now, leaked, inputCache>>

\* Mutant of CommitFails: the error is dropped.
CommitFails_Unnoticed(r) ==
    /\ req[r].pc = "commit"
    /\ GoTo(r, "load")
    /\ UNCHANGED <<now, rows, leaked, inputCache, solved, counted>>

\* Commit does set tx.Error, so here the deferred rollback runs.
CommitFails(r) ==
    /\ req[r].pc = "commit"
    /\ Fail(r)
    /\ UNCHANGED <<now, rows, leaked, inputCache, solved, counted>>

----------------------------------------------------------------------------
(* After the commit *)

\* The key comp_puzzle_input:* is deleted when a step is solved; a failure of
\* Redis is only logged.
ReplyRight(r) ==
    /\ GoTo(r, "right")
    /\ inputCache' \in {inputCache,
                        inputCache \ {<<req[r].key.user, req[r].key.puzzle>>}}

\* The user is loaded with its groups.
LoadUser(r) ==
    /\ req[r].pc = "load"
    /\ GoTo(r, "announce")
    /\ UNCHANGED <<now, rows, leaked, inputCache, solved, counted>>

\* Loading the user fails: the commit stands, nothing is broadcast and the
\* caller is told of an error.
PreloadFails(r) ==
    /\ req[r].pc = "load"
    /\ Fail(r)
    /\ UNCHANGED <<now, rows, leaked, inputCache, solved, counted>>

\* BroadcastTryUpdate is a send on a channel without a buffer: the request is
\* here until the hub takes the row, and gets on when it does.
Announce(r) ==
    /\ req[r].pc = "announce"
    /\ \/ /\ AsksInput(r)
          /\ GoTo(r, "serve")
          /\ UNCHANGED inputCache
       \/ /\ ~AsksInput(r)
          /\ ~IsRight(r)
          /\ GoTo(r, "wrong")
          /\ UNCHANGED inputCache
       \/ /\ OpensNext(r)
          /\ GoTo(r, "announceNext")
          /\ UNCHANGED inputCache
       \/ /\ IsRight(r)
          /\ ~OpensNext(r)
          /\ ReplyRight(r)
    /\ UNCHANGED <<now, rows, leaked, solved, counted>>

\* The second send, of the row of step 2.
AnnounceNext(r) ==
    /\ req[r].pc = "announceNext"
    /\ ReplyRight(r)
    /\ UNCHANGED <<now, rows, leaked, solved, counted>>

\* The rest of GetInputFromCompetition: the cached input, or BeeAPI's, which is
\* then cached unless Redis fails.  A cached input that Redis does not give, or
\* that does not parse, is asked of BeeAPI too, which may fail.
ServeInput(r) ==
    LET cacheKey == <<req[r].key.user, req[r].key.puzzle>>
    IN  /\ req[r].pc = "serve"
        /\ \/ /\ GoTo(r, "input")
              /\ inputCache' \in {inputCache, inputCache \cup {cacheKey}}
           \/ /\ GoTo(r, "error")
              /\ UNCHANGED inputCache
        /\ UNCHANGED <<now, rows, leaked, solved, counted>>

Deliver(r) ==
    /\ req[r].pc \in Outcomes
    /\ req' = [req EXCEPT ![r] = Idle]
    /\ UNCHANGED <<now, rows, leaked, inputCache, solved, counted>>

----------------------------------------------------------------------------
(* The environment *)

Tick ==
    /\ \E d \in Delays : now + d <= MaxTime /\ now' = now + d
    /\ UNCHANGED <<rows, req, leaked, inputCache, solved, counted>>

\* PuzzleInputCacheDuration has passed.
ExpireInput ==
    /\ \E c \in inputCache : inputCache' = inputCache \ {c}
    /\ UNCHANGED <<now, rows, req, leaked, solved, counted>>

\* The API process dies and is started again: the database rolls its open
\* transactions back and takes its connections back.
Restart ==
    /\ req' = [r \in Requests |-> Idle]
    /\ leaked' = 0
    /\ UNCHANGED <<now, rows, inputCache, solved, counted>>

----------------------------------------------------------------------------
\* Steps of the goroutine of r once its request has been accepted, those apart
\* for which it waits for the hub.
Handle(r) ==
    \/ Judge(r)
    \/ BeginFails(r) \/ FirstFails(r)
    \/ \E lvl \in Levels : TriggerPuzzleFirstTry(r, lvl)
    \/ ReadTry(r)
    \/ InsertFirst(r) \/ Save(r) \/ SaveRejected(r) \/ CreateNext(r)
    \/ Commit(r) \/ CommitFails(r)
    \/ LoadUser(r) \/ PreloadFails(r)
    \/ ServeInput(r)
    \/ Deliver(r)

\* The hub takes an update of r.
HubTakes(r) == Announce(r) \/ AnnounceNext(r)

Next ==
    \/ \E r \in Requests :
          \/ \E key \in Key : GetInput(r, key)
          \/ \E key \in Key, answer \in Answers : AnswerPuzzle(r, key, answer)
          \/ Handle(r)
          \/ HubTakes(r)
    \/ Tick \/ ExpireInput \/ Restart

Spec == Init /\ [][Next]_vars

\* The Go scheduler runs every goroutine, every call a handler waits for
\* returns (BeeAPI's client has a timeout), and the database grants a row lock
\* to those who wait for it in turn: hence strong fairness.  There is none for
\* HubTakes: the hub writes to browsers without a deadline, and one that stops
\* reading keeps it from ever taking another update.
FairSpec == Spec /\ \A r \in Requests : SF_vars(Handle(r))

----------------------------------------------------------------------------
(* Properties *)

SerialKey == {k \in Key : k.user \in Serial}

Exists(k) == rows[k] # None

\* The variables hold values of their types.
TypeOK ==
    /\ now \in Nat
    /\ rows \in [Key -> Row \cup {None}]
    /\ req \in [Requests -> Request]
    /\ leaked \in Nat
    /\ inputCache \subseteq Users \X Puzzles
    /\ solved \subseteq Key
    /\ counted \in [Key -> Nat]

\* A row whose columns belong together: one ended by EndTry has the score of
\* its own level, times and attempts, and a right answer; any other has none.
Coherent(row, key) ==
    /\ row.attempts = 0 <=> row.lastMove = None
    /\ row.lastMove = None <=> row.lastAnswer = None
    /\ row.end = None => row.score = 0 /\ row.lastAnswer \notin RightAnswers
    /\ row.end # None =>
         /\ row.lastAnswer \in RightAnswers
         /\ row.lastMove = row.end
         /\ row.score = CalculateScore(row.lvl, key.puzzle + 1, key.step,
                                       row.start, row.end, row.attempts)

\* However the transactions of UpdateTry and EndTry overlap, a committed row is
\* one that a single handler computed: never the score or the end of one
\* submission with the attempts or the answer of another.
RowsCoherent == \A k \in Key : Exists(k) => Coherent(rows[k], k)

\* The row of step 2 appears only in a commit that ends step 1 (EndTry), with
\* the level of step 1 and starting when step 1 ended.
SecondStepFollowsFirst ==
    [][\A k \in Key :
         k.step = 1 /\ rows[NextStep(k)] = None /\ rows'[NextStep(k)] # None
           => /\ rows[k] # None /\ ~IsSolved(rows[k])
              /\ IsSolved(rows'[k])
              /\ rows'[NextStep(k)].start = rows'[k].end
              /\ rows'[NextStep(k)].lvl = rows'[k].lvl]_rows

\* The clock of a try runs from the first request for its input: no later
\* request, transaction or overlap of them moves its start or its level, or
\* removes the row (TriggerPuzzleFirstTry, Save).
StartNeverMoves ==
    [][\A k \in Key :
         Exists(k) => /\ rows'[k] # None
                      /\ rows'[k].start = rows[k].start
                      /\ rows'[k].lvl = rows[k].lvl]_rows

\* Nobody is told of a solve that did not happen: not the client (is_correct),
\* not the dashboards (BroadcastTryUpdate), not a reader of the table.
NoPhantomSolve ==
    /\ \A r \in Requests :
          req[r].pc \in {"load", "announce", "announceNext", "right"} /\ IsRight(r)
            => req[r].key \in solved
    /\ \A r \in Requests : req[r].pc = "already" => req[r].key \in solved
    /\ \A k \in Key : Exists(k) /\ IsSolved(rows[k]) => k \in solved

\* Attempts lower the score: a try is never charged more of them than
\* submissions committed for it, whatever is lost when transactions overlap.
NeverOvercharged == \A k \in Key : Exists(k) => rows[k].attempts <= counted[k]

AwaitsHub(r) == req[r].pc \in {"announce", "announceNext"}

\* As long as the hub takes in the end what it is sent, every accepted request
\* is answered: no transaction waits for a row lock for ever, whatever fails
\* around it.  Without the premise none need be: a request whose commit is done
\* stays in BroadcastTryUpdate.
EveryRequestAnswered ==
    (\A r \in Requests : AwaitsHub(r) ~> ~AwaitsHub(r))
      => \A r \in Requests : req[r].pc # "idle" ~> req[r].pc = "idle"

\* What a row says of a try of a serial user.
Stage == [k \in SerialKey |-> IF ~Exists(k) THEN "none"
                              ELSE IF IsSolved(rows[k]) THEN "solved" ELSE "open"]
Tried == [k \in SerialKey |-> IF Exists(k) THEN rows[k].attempts ELSE 0]

Lifecycle == INSTANCE TryLifecycle WITH
    TryKeys <- SerialKey, stage <- Stage, tried <- Tried

\* For a user who sends one request at a time, the code implements the abstract
\* life of a try, however the requests of others interleave, and whatever fails.
ImplementsLifecycle == Lifecycle!Spec

\* For such a user every committed submission is charged: Attempts++ loses none.
NoSubmissionLost == \A k \in SerialKey : Exists(k) => rows[k].attempts = counted[k]

\* For such a user two counted submissions of one try are as far apart as the
\* cooldown that the first of them caused (CheckRateLimit).
CooldownRespected ==
    [][\A k \in SerialKey :
         Exists(k) /\ rows'[k].attempts # rows[k].attempts /\ rows[k].lastMove # None
           => LET waited == rows'[k].lastMove - rows[k].lastMove
              IN  /\ rows[k].attempts >= AttemptsThreshold2 => waited >= CooldownDuration2
                  /\ rows[k].attempts \in AttemptsThreshold1 .. AttemptsThreshold2 - 1
                       => waited >= CooldownDuration1]_rows

----------------------------------------------------------------------------
(* What the comments and tests of the code say, and the code does not do.  *)

\* "resubmitting for a puzzle step that was already solved must not touch the
\* score" (TestSubmitDuplicateCorrect), for every user: a try that a commit has
\* ended stays ended.
SolvedStaysSolved == \A k \in solved : Exists(k) /\ IsSolved(rows[k])

\* "No need to explicitly rollback here as it'll be handled by defer"
\* (TriggerPuzzleFirstTry): no transaction is abandoned.
NoTransactionAbandoned == leaked = 0
=============================================================================
