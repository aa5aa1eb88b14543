----------------------------- MODULE TriesProofs -----------------------------
(***************************************************************************)
(* Proofs about Tries, for every set of users, puzzles, answers and        *)
(* goroutines and every value of the thresholds.                           *)
(***************************************************************************)
EXTENDS Tries, TLAPS

\* A score is an integer number of hundredths, whatever level a client sent.
LEMMA ScoreIsInteger ==
    ASSUME NEW lvl, NEW idx \in Int, NEW step, NEW start \in Int, NEW end \in Int,
           NEW attempts \in Int
    PROVE  CalculateScore(lvl, idx, step, start, end, attempts) \in Int
<1>1. calculateBaseScore(lvl, step) \in Int
  BY DEF calculateBaseScore
<1>2. CalculatePointsFromTimeSpent(lvl, end - start) \in Int
  BY DEF CalculatePointsFromTimeSpent, TwoTierPoints
<1>3. CalculateMalusFromAttempts(attempts) \in Int
  BY DEF CalculateMalusFromAttempts
<1>4. CalculateMultiplier(idx) \in Int
  BY DEF CalculateMultiplier
<1> QED BY <1>1, <1>2, <1>3, <1>4 DEF CalculateScore

\* A new try is a row.
LEMMA NewTryType ==
    ASSUME NEW lvl \in Levels, NEW start \in Nat
    PROVE  NewTry(lvl, start) \in Row
BY DEF NewTry, Row

\* UpdateTry makes a row of a row.
LEMMA UpdatedType ==
    ASSUME NEW try \in Row, NEW answer \in Answers, now \in Nat
    PROVE  Updated(try, answer) \in Row
<1>1. /\ try.lvl \in Levels /\ try.start \in Nat /\ try.end \in Nat \cup {None}
      /\ try.attempts + 1 \in Nat /\ try.score \in Int
  BY DEF Row
<1> QED BY <1>1 DEF Updated, Row

\* EndTry makes a row of a row.
LEMMA EndedType ==
    ASSUME NEW try \in Row, NEW key \in Key, NEW answer \in Answers, now \in Nat
    PROVE  Ended(try, key, answer) \in Row
<1>. key.puzzle \in Nat
  BY TriesAssumption DEF Key
<1>0. /\ key.puzzle + 1 \in Int /\ try.start \in Int /\ now \in Int
      /\ try.attempts + 1 \in Int
  BY DEF Row
<1>1. CalculateScore(try.lvl, key.puzzle + 1, key.step, try.start, now, try.attempts + 1) \in Int
  BY <1>0, ScoreIsInteger
<1>2. try.lvl \in Levels /\ try.start \in Nat /\ try.attempts + 1 \in Nat
  BY DEF Row
<1> QED BY <1>1, <1>2 DEF Ended, Row

\* The key of step 2 is a key.
LEMMA NextStepType ==
    ASSUME NEW k \in Key
    PROVE  NextStep(k) \in Key /\ NextStep(k).step = 2
BY DEF NextStep, Key

----------------------------------------------------------------------------
(* The types *)

\* The types of one request, field by field.
LEMMA RequestFields ==
    ASSUME TypeOK, NEW r \in Requests
    PROVE  /\ req[r].pc \in Pcs
           /\ req[r].key \in Key \cup {None}
           /\ req[r].answer \in Answers \cup {None}
           /\ req[r].copy \in Row \cup {None}
BY DEF TypeOK, Request

\* Only the goroutine of r has moved, and its request is still well typed.
Moves(r) ==
    /\ req' \in [Requests -> Request]
    /\ \A q \in Requests \ {r} : req'[q] = req[q]

\* An accepted call replaces its request by a fresh one, which holds no row yet.
LEMMA AcceptFields ==
    ASSUME TypeOK, NEW r \in Requests, NEW key \in Key, NEW answer \in Answers \cup {None},
           NEW pc \in Pcs, Accept(r, key, answer, pc)
    PROVE  /\ Moves(r)
           /\ req'[r] = [pc |-> pc, key |-> key, answer |-> answer, copy |-> None]
BY DEF Accept, Moves, TypeOK, Request

\* A goroutine that goes on keeps its key, its answer and the row it read.
LEMMA GoToFields ==
    ASSUME TypeOK, NEW r \in Requests, NEW pc \in Pcs, GoTo(r, pc)
    PROVE  /\ Moves(r)
           /\ req'[r].pc = pc
           /\ req'[r].key = req[r].key
           /\ req'[r].answer = req[r].answer
           /\ req'[r].copy = req[r].copy
<1>1. [req[r] EXCEPT !.pc = pc] \in Request
  BY RequestFields DEF Request, TypeOK
<1>2. req'[r] = [req[r] EXCEPT !.pc = pc] /\ req[r] \in Request
  BY DEF GoTo, TypeOK
<1>3. Moves(r)
  BY <1>1 DEF GoTo, TypeOK, Moves
<1> QED BY <1>2, <1>3 DEF Request

\* A goroutine about to write keeps its key and its answer and holds the new row.
LEMMA WillWriteFields ==
    ASSUME TypeOK, NEW r \in Requests, NEW row \in Row, WillWrite(r, row)
    PROVE  /\ Moves(r)
           /\ req'[r].pc = "write"
           /\ req'[r].key = req[r].key
           /\ req'[r].answer = req[r].answer
           /\ req'[r].copy = row
<1>1. [[req[r] EXCEPT !.pc = "write"] EXCEPT !.copy = row] \in Request
  BY RequestFields DEF Request, TypeOK, Pcs, InTransaction
<1>2. req'[r] = [[req[r] EXCEPT !.pc = "write"] EXCEPT !.copy = row] /\ req[r] \in Request
  BY DEF WillWrite, TypeOK
<1>3. Moves(r)
  BY <1>1 DEF WillWrite, TypeOK, Moves
<1> QED BY <1>2, <1>3 DEF Request

\* A failed transaction keeps the request and only changes its control point:
\* a fetch of the input serves the page all the same, an answer is an error.
LEMMA FailFields ==
    ASSUME TypeOK, NEW r \in Requests, Fail(r)
    PROVE  /\ Moves(r)
           /\ req'[r].pc = IF req[r].answer = None THEN "serve" ELSE "error"
           /\ req'[r].key = req[r].key
           /\ req'[r].answer = req[r].answer
           /\ req'[r].copy = req[r].copy
<1>1. {"serve", "error"} \subseteq Pcs
  BY DEF Pcs, Outcomes
<1> QED BY <1>1, GoToFields DEF Fail, AsksInput

\* From the read of its row to the last broadcast a request holds that row.
Holding == {"write", "next", "commit", "load", "announce", "announceNext"}

\* A request is at a control point that suits its handler, and the row it holds
\* is ended exactly if its answer is right.
WellFormed(x) ==
    /\ x.pc = "idle" <=> x.key = None
    /\ x.pc # "idle" /\ x.answer = None => x.key.step = 1
    /\ x.pc \in {"judge", "next", "announceNext"} => x.answer # None
    /\ x.pc \in {"next", "announceNext"} => x.answer \in RightAnswers /\ x.key.step = 1
    /\ x.pc \in {"serve", "input"} => x.answer = None
    /\ x.pc \in Holding => x.copy # None /\ (x.copy.end # None <=> x.answer \in RightAnswers)

TypeInv == TypeOK /\ \A r \in Requests : WellFormed(req[r])

\* It is enough to look at the request that moves.
LEMMA TypeFrame ==
    ASSUME TypeInv, NEW r \in Requests, Moves(r), WellFormed(req'[r]),
           now' \in Nat, rows' \in [Key -> Row \cup {None}], leaked' \in Nat,
           inputCache' \subseteq Users \X Puzzles, solved' \subseteq Key,
           counted' \in [Key -> Nat]
    PROVE  TypeInv'
<1>1. TypeOK'
  BY DEF TypeOK, Moves
<1>2. ASSUME NEW q \in Requests
      PROVE  WellFormed(req[q])'
  <2>1. CASE q = r
    BY <2>1
  <2>2. CASE q # r
    BY <2>2 DEF Moves, TypeInv, WellFormed, Holding
  <2> QED BY <2>1, <2>2
<1> QED BY <1>1, <1>2 DEF TypeInv

\* A request that fails while it owns a key is still well formed.
LEMMA FailKeeps ==
    ASSUME TypeInv, NEW r \in Requests, Fail(r), req[r].key # None,
           req[r].pc \notin {"serve", "input"}
    PROVE  Moves(r) /\ WellFormed(req'[r])
<1>1. WellFormed(req[r]) /\ Fail(r) /\ TypeOK
  BY DEF TypeInv
<1> QED BY <1>1, FailFields DEF WellFormed, Holding

\* The handler of GET input keeps the types and the request well formed.
LEMMA TypeGetInput ==
    ASSUME TypeInv, NEW r \in Requests, NEW key \in Key, GetInput(r, key)
    PROVE  TypeInv'
<1>. DEFINE pc == IF ConnectionFree THEN "begin" ELSE "error"
<1>1. TypeOK /\ pc \in Pcs /\ Accept(r, key, None, pc)
  BY DEF TypeInv, Pcs, Outcomes, GetInput
<1>2. Moves(r) /\ req'[r] = [pc |-> pc, key |-> key, answer |-> None, copy |-> None]
  BY <1>1, AcceptFields
<1>3. WellFormed(req'[r])
  BY <1>2, NoneAssumption DEF WellFormed, Holding, GetInput
<1> QED BY <1>2, <1>3, TypeFrame DEF GetInput, TypeInv, TypeOK

\* So does the first part of AnswerPuzzle.
LEMMA TypeAnswerPuzzle ==
    ASSUME TypeInv, NEW r \in Requests, NEW key \in Key, NEW answer \in Answers,
           AnswerPuzzle(r, key, answer)
    PROVE  TypeInv'
<1>1. PICK pc \in {"error", "already", "limited", "judge"} : Accept(r, key, answer, pc)
  BY DEF AnswerPuzzle
<1>2. TypeOK /\ pc \in Pcs
  BY DEF TypeInv, Pcs, Outcomes
<1>3. Moves(r) /\ req'[r] = [pc |-> pc, key |-> key, answer |-> answer, copy |-> None]
  BY <1>1, <1>2, AcceptFields
<1>4. WellFormed(req'[r])
  BY <1>3, NoneAssumption DEF WellFormed, Holding
<1> QED BY <1>3, <1>4, TypeFrame DEF AnswerPuzzle, TypeInv, TypeOK

\* Steps that only move the request, leaving the database as it is.
LEMMA TypeMove ==
    ASSUME TypeInv, NEW r \in Requests,
           UNCHANGED <<now, rows, solved, counted>>, leaked' \in Nat,
           inputCache' \subseteq Users \X Puzzles,
           Moves(r), WellFormed(req'[r])
    PROVE  TypeInv'
BY TypeFrame DEF TypeInv, TypeOK

\* So does the verdict of BeeAPI.
LEMMA TypeJudge ==
    ASSUME TypeInv, NEW r \in Requests, Judge(r)
    PROVE  TypeInv'
<1>1. PICK pc \in {"begin", "error"} : GoTo(r, pc)
  BY DEF Judge
<1>2. TypeOK /\ pc \in Pcs /\ WellFormed(req[r]) /\ req[r].pc = "judge"
  BY DEF TypeInv, Pcs, Outcomes, Judge
<1>3. Moves(r) /\ WellFormed(req'[r])
  BY <1>1, <1>2, GoToFields DEF WellFormed, Holding
<1> QED BY <1>3, TypeMove DEF Judge, TypeInv, TypeOK

\* So do the statements that fail.
LEMMA TypeFailures ==
    ASSUME TypeInv, NEW r \in Requests, BeginFails(r) \/ FirstFails(r) \/ SaveRejected(r)
                                          \/ CommitFails(r) \/ PreloadFails(r)
    PROVE  TypeInv'
<1>1. WellFormed(req[r]) /\ Fail(r) /\ req[r].pc \in {"begin", "write", "commit", "load"}
  BY DEF TypeInv, BeginFails, FirstFails, SaveRejected, CommitFails, PreloadFails
<1>2. Moves(r) /\ WellFormed(req'[r])
  BY <1>1, FailKeeps DEF WellFormed
<1>3. leaked' \in Nat /\ UNCHANGED <<now, rows, inputCache, solved, counted>>
  BY DEF BeginFails, FirstFails, SaveRejected, CommitFails, PreloadFails, TypeInv, TypeOK
<1> QED BY <1>2, <1>3, TypeMove DEF TypeInv, TypeOK

\* So does the transaction of the first request for an input.
LEMMA TypeTrigger ==
    ASSUME TypeInv, NEW r \in Requests, NEW lvl \in Levels, TriggerPuzzleFirstTry(r, lvl)
    PROVE  TypeInv'
<1>1. TypeOK /\ WellFormed(req[r]) /\ req[r].pc = "begin" /\ req[r].answer = None
  BY DEF TypeInv, TriggerPuzzleFirstTry, AsksInput
<1>2. NewTry(lvl, now) \in Row /\ NewTry(lvl, now).end = None
  BY <1>1, NewTryType DEF TypeOK, NewTry
<1>3. "serve" \in Pcs
  BY DEF Pcs
<1>4. CASE WillWrite(r, NewTry(lvl, now))
  <2>1. Moves(r) /\ WellFormed(req'[r])
    BY <1>1, <1>2, <1>4, WillWriteFields, NoneAssumption, TriesAssumption DEF WellFormed, Holding
  <2> QED BY <2>1, TypeMove DEF TriggerPuzzleFirstTry, TypeInv, TypeOK
<1>5. CASE GoTo(r, "serve")
  <2>1. Moves(r) /\ WellFormed(req'[r])
    BY <1>1, <1>3, <1>5, GoToFields DEF WellFormed, Holding
  <2> QED BY <2>1, TypeMove DEF TriggerPuzzleFirstTry, TypeInv, TypeOK
<1> QED BY <1>4, <1>5 DEF TriggerPuzzleFirstTry

\* So do UpdateTry and EndTry up to the row in memory.
LEMMA TypeReadTry ==
    ASSUME TypeInv, NEW r \in Requests, ReadTry(r)
    PROVE  TypeInv'
<1>. DEFINE key == req[r].key
            try == rows[key]
            row == IF IsRight(r) THEN Ended(try, key, req[r].answer)
                   ELSE Updated(try, req[r].answer)
<1>1. /\ TypeOK /\ WellFormed(req[r]) /\ req[r].pc = "begin"
      /\ req[r].answer \in Answers /\ key \in Key /\ now \in Nat
  BY RequestFields DEF TypeInv, ReadTry, AsksInput, WellFormed, TypeOK
<1>2. leaked' \in Nat /\ UNCHANGED <<now, rows, inputCache, solved, counted>>
  BY DEF ReadTry, TypeInv, TypeOK
<1>3. CASE Fail(r)
  <2>1. Moves(r) /\ WellFormed(req'[r])
    BY <1>1, <1>3, FailKeeps DEF WellFormed
  <2> QED BY <1>2, <2>1, TypeMove DEF TypeInv, TypeOK
<1>4. CASE try # None /\ ~IsSolved(try) /\ WillWrite(r, row)
  <2>1. try \in Row
    BY <1>1, <1>4 DEF TypeOK
  <2>2. row \in Row
    BY <1>1, <2>1, UpdatedType, EndedType
  <2>3. row.end # None <=> req[r].answer \in RightAnswers
    <3>1. try.end = None /\ now # None
      BY <1>1, <1>4, NoneAssumption DEF IsSolved
    <3>2. Updated(try, req[r].answer).end = try.end
      BY <2>1 DEF Updated, Row
    <3>3. Ended(try, key, req[r].answer).end = now
      BY <2>1 DEF Ended, Row
    <3> QED BY <3>1, <3>2, <3>3 DEF IsRight
  <2>4. WillWrite(r, row)
    BY <1>4
  <2>. HIDE DEF row
  <2>5. Moves(r) /\ WellFormed(req'[r])
    BY <1>1, <2>2, <2>3, <2>4, WillWriteFields, NoneAssumption, TriesAssumption
    DEF WellFormed, Holding
  <2> QED BY <1>2, <2>5, TypeMove DEF TypeInv, TypeOK
<1> QED BY <1>3, <1>4 DEF ReadTry

\* So do the statements that write and succeed.
LEMMA TypeWrites ==
    ASSUME TypeInv, NEW r \in Requests, InsertFirst(r) \/ Save(r) \/ CreateNext(r)
    PROVE  TypeInv'
<1>1. TypeOK /\ WellFormed(req[r]) /\ req[r].pc \in {"write", "next"}
  BY DEF TypeInv, InsertFirst, Save, CreateNext
<1>2. leaked' \in Nat /\ UNCHANGED <<now, rows, inputCache, solved, counted>>
  BY DEF InsertFirst, Save, CreateNext, TypeInv, TypeOK
<1>3. "commit" \in Pcs /\ "next" \in Pcs
  BY DEF Pcs, InTransaction
<1>4. CASE Fail(r)
  <2>1. Moves(r) /\ WellFormed(req'[r])
    BY <1>1, <1>4, FailKeeps DEF WellFormed
  <2> QED BY <1>2, <2>1, TypeMove DEF TypeInv, TypeOK
<1>5. CASE GoTo(r, "commit")
  <2>1. Moves(r) /\ WellFormed(req'[r])
    BY <1>1, <1>3, <1>5, GoToFields DEF WellFormed, Holding
  <2> QED BY <1>2, <2>1, TypeMove DEF TypeInv, TypeOK
<1>6. CASE ~AsksInput(r) /\ OpensNext(r) /\ GoTo(r, "next")
  <2>1. req[r].answer # None /\ req[r].answer \in RightAnswers /\ req[r].key.step = 1
    BY <1>6 DEF AsksInput, OpensNext, IsRight
  <2>2. Moves(r) /\ WellFormed(req'[r])
    BY <1>1, <1>3, <1>6, <2>1, GoToFields DEF WellFormed, Holding
  <2> QED BY <1>2, <2>2, TypeMove DEF TypeInv, TypeOK
<1> QED BY <1>4, <1>5, <1>6 DEF InsertFirst, Save, CreateNext

\* The table after a commit is a table.
LEMMA WrittenType ==
    ASSUME TypeInv, NEW r \in Requests, req[r].pc = "commit"
    PROVE  Written(r) \in [Key -> Row \cup {None}]
<1>1. WellFormed(req[r]) /\ req[r].copy \in Row /\ TypeOK
  BY RequestFields DEF TypeInv, WellFormed, Holding
<1>2. ASSUME OpensNext(r)
      PROVE  NextTry(r) \in Row
  <2>1. req[r].copy.end \in Nat
    BY <1>1, <1>2 DEF WellFormed, Holding, OpensNext, IsRight, Row
  <2>2. req[r].copy.lvl \in Levels
    BY <1>1 DEF Row
  <2> QED BY <2>1, <2>2, NewTryType DEF NextTry
<1> QED BY <1>1, <1>2 DEF Written, TypeOK

\* A commit keeps the types and the request well formed.
LEMMA TypeCommit ==
    ASSUME TypeInv, NEW r \in Requests, Commit(r)
    PROVE  TypeInv'
<1>1. /\ TypeOK /\ WellFormed(req[r]) /\ req[r].pc = "commit" /\ GoTo(r, "load")
      /\ req[r].key \in Key
  BY RequestFields DEF TypeInv, Commit, WellFormed
<1>2. "load" \in Pcs
  BY DEF Pcs
<1>3. Moves(r) /\ WellFormed(req'[r])
  BY <1>1, <1>2, GoToFields DEF WellFormed, Holding
<1>4. rows' \in [Key -> Row \cup {None}]
  BY <1>1, WrittenType DEF Commit
<1>5. now' \in Nat /\ leaked' \in Nat /\ inputCache' \subseteq Users \X Puzzles
  BY <1>1 DEF Commit, TypeOK
<1>6. solved' \subseteq Key /\ counted' \in [Key -> Nat]
  BY <1>1 DEF Commit, TypeOK
<1> QED BY <1>3, <1>4, <1>5, <1>6, TypeFrame

\* Deleting the cached input leaves a set of user-puzzle pairs.
LEMMA ReplyRightFields ==
    ASSUME TypeOK, NEW r \in Requests, ReplyRight(r)
    PROVE  GoTo(r, "right") /\ inputCache' \subseteq Users \X Puzzles
BY DEF ReplyRight, TypeOK

\* So do the steps between a commit and the reply.
LEMMA TypeAnnounce ==
    ASSUME TypeInv, NEW r \in Requests, LoadUser(r) \/ HubTakes(r)
    PROVE  TypeInv'
<1>1. TypeOK /\ WellFormed(req[r]) /\ req[r].pc \in {"load", "announce", "announceNext"}
  BY DEF TypeInv, LoadUser, HubTakes, Announce, AnnounceNext
<1>2. {"serve", "wrong", "right", "announce", "announceNext"} \subseteq Pcs
  BY DEF Pcs, Outcomes
<1>3. UNCHANGED <<now, rows, leaked, solved, counted>>
  BY DEF LoadUser, HubTakes, Announce, AnnounceNext
<1>4. CASE AsksInput(r) /\ GoTo(r, "serve") /\ UNCHANGED inputCache
  <2>1. Moves(r) /\ WellFormed(req'[r])
    BY <1>1, <1>2, <1>4, GoToFields DEF WellFormed, Holding, AsksInput
  <2> QED BY <1>3, <1>4, <2>1, TypeMove DEF TypeInv, TypeOK
<1>5. CASE GoTo(r, "wrong") /\ UNCHANGED inputCache
  <2>1. Moves(r) /\ WellFormed(req'[r])
    BY <1>1, <1>2, <1>5, GoToFields DEF WellFormed, Holding
  <2> QED BY <1>3, <1>5, <2>1, TypeMove DEF TypeInv, TypeOK
<1>6. CASE OpensNext(r) /\ GoTo(r, "announceNext") /\ UNCHANGED inputCache
  <2>1. req[r].answer # None /\ req[r].answer \in RightAnswers /\ req[r].key.step = 1
    BY <1>6, NoneAssumption, TriesAssumption DEF OpensNext, IsRight
  <2>2. Moves(r) /\ WellFormed(req'[r])
    BY <1>1, <1>2, <1>6, <2>1, GoToFields DEF WellFormed, Holding
  <2> QED BY <1>3, <1>6, <2>2, TypeMove DEF TypeInv, TypeOK
<1>7. CASE ReplyRight(r)
  <2>1. GoTo(r, "right") /\ inputCache' \subseteq Users \X Puzzles
    BY <1>1, <1>7, ReplyRightFields
  <2>2. Moves(r) /\ WellFormed(req'[r])
    BY <1>1, <1>2, <2>1, GoToFields DEF WellFormed, Holding
  <2> QED BY <1>3, <2>1, <2>2, TypeMove DEF TypeInv, TypeOK
<1>8. CASE LoadUser(r)
  <2>1. Moves(r) /\ WellFormed(req'[r])
    BY <1>1, <1>2, <1>8, GoToFields DEF LoadUser, WellFormed, Holding
  <2> QED BY <1>8, <2>1, TypeMove DEF LoadUser, TypeInv, TypeOK
<1> QED BY <1>4, <1>5, <1>6, <1>7, <1>8 DEF HubTakes, Announce, AnnounceNext

\* So does the input, cached or fetched.
LEMMA TypeServeInput ==
    ASSUME TypeInv, NEW r \in Requests, ServeInput(r)
    PROVE  TypeInv'
<1>1. /\ TypeOK /\ WellFormed(req[r]) /\ req[r].pc = "serve" /\ req[r].key \in Key
  BY RequestFields DEF TypeInv, ServeInput, WellFormed
<1>2. inputCache' \subseteq Users \X Puzzles
  <2>1. <<req[r].key.user, req[r].key.puzzle>> \in Users \X Puzzles
    BY <1>1 DEF Key
  <2> QED BY <1>1, <2>1 DEF ServeInput, TypeOK
<1>3. PICK pc \in {"input", "error"} : GoTo(r, pc)
  BY DEF ServeInput
<1>4. pc \in Pcs
  BY DEF Pcs, Outcomes
<1>5. Moves(r) /\ WellFormed(req'[r])
  BY <1>1, <1>3, <1>4, GoToFields DEF WellFormed, Holding
<1> QED BY <1>2, <1>5, TypeMove DEF ServeInput, TypeInv, TypeOK

\* A goroutine that has nothing to do is well formed.
LEMMA IdleFields == Idle \in Request /\ WellFormed(Idle)
BY NoneAssumption DEF Idle, Request, Pcs, WellFormed, Holding

\* So does a reply read by its client.
LEMMA TypeDeliver ==
    ASSUME TypeInv, NEW r \in Requests, Deliver(r)
    PROVE  TypeInv'
<1>1. Moves(r) /\ req'[r] = Idle
  BY IdleFields DEF Deliver, Moves, TypeInv, TypeOK
<1> QED BY <1>1, IdleFields, TypeMove DEF Deliver, TypeInv, TypeOK

\* So does whatever happens outside the handlers.
LEMMA TypeEnvironment ==
    ASSUME TypeInv, Tick \/ ExpireInput \/ Restart \/ UNCHANGED vars
    PROVE  TypeInv'
<1>1. CASE Tick
  <2>1. now' \in Nat
    BY <1>1, BoundsAssumption DEF Tick, TypeInv, TypeOK
  <2> QED BY <1>1, <2>1 DEF Tick, TypeInv, TypeOK, WellFormed, Holding
<1>2. CASE ExpireInput
  BY <1>2 DEF ExpireInput, TypeInv, TypeOK, WellFormed, Holding
<1>3. CASE Restart
  <2>1. req' = [r \in Requests |-> Idle] /\ leaked' = 0
    BY <1>3 DEF Restart
  <2>2. TypeOK'
    BY <1>3, <2>1, IdleFields DEF Restart, TypeInv, TypeOK
  <2>3. \A r \in Requests : WellFormed(req[r])'
    BY <2>1, IdleFields DEF WellFormed, Holding
  <2> QED BY <2>2, <2>3 DEF TypeInv
<1>4. CASE UNCHANGED vars
  BY <1>4 DEF vars, TypeInv, TypeOK, WellFormed, Holding
<1> QED BY <1>1, <1>2, <1>3, <1>4

\* Every step keeps the types and the requests well formed.
LEMMA TypeStep == TypeInv /\ [Next]_vars => TypeInv'
<1> SUFFICES ASSUME TypeInv, [Next]_vars
             PROVE  TypeInv'
  OBVIOUS
<1>1. ASSUME NEW r \in Requests, Handle(r) \/ HubTakes(r)
      PROVE  TypeInv'
  BY <1>1, TypeJudge, TypeFailures, TypeTrigger, TypeReadTry, TypeWrites, TypeCommit,
     TypeAnnounce, TypeServeInput, TypeDeliver DEF Handle
<1>2. ASSUME NEW r \in Requests, NEW key \in Key, GetInput(r, key)
      PROVE  TypeInv'
  BY <1>2, TypeGetInput
<1>3. ASSUME NEW r \in Requests, NEW key \in Key, NEW answer \in Answers,
             AnswerPuzzle(r, key, answer)
      PROVE  TypeInv'
  BY <1>3, TypeAnswerPuzzle
<1> QED BY <1>1, <1>2, <1>3, TypeEnvironment DEF Next

\* They hold to begin with.
LEMMA TypeInit == Init => TypeInv
<1> SUFFICES ASSUME Init
             PROVE  TypeInv
  OBVIOUS
<1>1. TypeOK
  BY IdleFields DEF Init, TypeOK
<1>2. \A r \in Requests : WellFormed(req[r])
  BY IdleFields DEF Init
<1> QED BY <1>1, <1>2 DEF TypeInv

\* In every state each request is at a control point of its own handler and
\* holds a row whenever it needs one.
LEMMA WellTyped == Spec => []TypeInv
BY TypeInit, TypeStep, PTL DEF Spec

\* In every state the variables have their types.
THEOREM TypeCorrect == Spec => []TypeOK
<1>1. TypeInv => TypeOK
  BY DEF TypeInv
<1> QED BY <1>1, WellTyped, PTL

----------------------------------------------------------------------------
(* Overlapping transactions *)

\* A committed row is coherent, solved only by a commit, charged for no more
\* than was submitted, and opens step 2 if it is a solved step 1.
RowSound(k) ==
    Exists(k) =>
      /\ Coherent(rows[k], k)
      /\ IsSolved(rows[k]) => k \in solved
      /\ rows[k].attempts <= counted[k]
      /\ k.step = 1 /\ IsSolved(rows[k]) => Exists(NextStep(k))

\* The row a transaction will write is one that its handler computed from a row
\* that is still there with the same start and level, or that no row precedes;
\* and an outcome that speaks of a solve has one behind it.
RequestSound(x) ==
    /\ x.pc \in InTransaction =>
         /\ Coherent(x.copy, x.key)
         /\ x.answer = None => x.copy.attempts = 0
         /\ x.answer # None =>
              /\ Exists(x.key)
              /\ x.copy.start = rows[x.key].start
              /\ x.copy.lvl = rows[x.key].lvl
              /\ x.copy.attempts <= counted[x.key] + 1
    /\ x.pc = "commit" /\ x.answer = None => ~Exists(x.key)
    /\ x.pc = "commit" /\ x.answer \in RightAnswers /\ x.key.step = 1
         => ~Exists(NextStep(x.key))
    /\ x.pc \in {"load", "announce", "announceNext", "right"} /\ x.answer \in RightAnswers
         => x.key \in solved
    /\ x.pc = "already" => x.key \in solved

\* Two transactions never hold the lock of one row.
LocksHeld ==
    \A q, r \in Requests :
       q # r /\ req[q].pc \in {"next", "commit"} /\ req[r].pc \in {"next", "commit"}
         => req[q].key # req[r].key

SafeInv ==
    /\ TypeInv
    /\ \A k \in Key : RowSound(k)
    /\ \A r \in Requests : RequestSound(req[r])
    /\ LocksHeld

\* A new try is coherent: no attempt, no answer, no score.
LEMMA NewTryCoherent ==
    ASSUME NEW lvl \in Levels, NEW start \in Nat, NEW k \in Key
    PROVE  Coherent(NewTry(lvl, start), k)
BY NoneAssumption, TriesAssumption DEF Coherent, NewTry

\* UpdateTry keeps an open row coherent if the answer is wrong.
LEMMA UpdatedCoherent ==
    ASSUME NEW try \in Row, NEW k \in Key, NEW answer \in Answers \ RightAnswers,
           now \in Nat, try.end = None, Coherent(try, k)
    PROVE  Coherent(Updated(try, answer), k)
<1>. DEFINE row == Updated(try, answer)
<1>1. /\ row.end = try.end /\ row.score = try.score /\ row.attempts = try.attempts + 1
      /\ row.lastMove = now /\ row.lastAnswer = answer
  BY DEF Updated, Row
<1>2. try.score = 0 /\ try.attempts + 1 # 0
  BY DEF Coherent, Row
<1>. HIDE DEF row
<1>3. Coherent(row, k)
  BY <1>1, <1>2, NoneAssumption DEF Coherent
<1> QED BY <1>3 DEF row

\* EndTry makes a coherent row if the answer is right.
LEMMA EndedCoherent ==
    ASSUME NEW try \in Row, NEW k \in Key, NEW answer \in RightAnswers, now \in Nat
    PROVE  Coherent(Ended(try, k, answer), k)
<1>. DEFINE row == Ended(try, k, answer)
<1>1. /\ row.end = now /\ row.attempts = try.attempts + 1 /\ row.start = try.start
      /\ row.lastMove = now /\ row.lastAnswer = answer /\ row.lvl = try.lvl
      /\ row.score = CalculateScore(try.lvl, k.puzzle + 1, k.step, try.start, now,
                                    try.attempts + 1)
  BY DEF Ended, Row
<1>2. try.attempts + 1 # 0
  BY DEF Row
<1>. HIDE DEF row
<1>3. Coherent(row, k)
  BY <1>1, <1>2, NoneAssumption, TriesAssumption DEF Coherent
<1> QED BY <1>3 DEF row

\* A step of one goroutine that changes neither the table nor its history keeps
\* the invariant if its own request stays sound and it takes no lock that
\* another transaction holds.
LEMMA SafeMove ==
    ASSUME SafeInv, TypeInv', NEW r \in Requests, UNCHANGED <<rows, solved, counted>>,
           Moves(r), RequestSound(req'[r]),
           req'[r].pc \in {"next", "commit"} =>
              /\ req'[r].key = req[r].key
              /\ req[r].pc \in {"next", "commit"} \/ ~Locked(req[r].key)
    PROVE  SafeInv'
<1>1. \A k \in Key : RowSound(k)'
  BY DEF SafeInv, RowSound, Exists, Coherent, IsSolved
<1>2. ASSUME NEW q \in Requests
      PROVE  RequestSound(req[q])'
  <2>1. RequestSound(req'[q])
    BY DEF Moves, SafeInv
  <2> QED BY <2>1 DEF RequestSound, Exists, Coherent
<1>3. LocksHeld'
  BY DEF SafeInv, LocksHeld, Moves, Locked
<1> QED BY <1>1, <1>2, <1>3 DEF SafeInv

\* Control points at which a request claims nothing about the table.
Silent == {"idle", "judge", "begin", "serve", "error", "wrong", "limited", "input"}

\* A request that gets there keeps the invariant.
LEMMA SafeSilent ==
    ASSUME SafeInv, TypeInv', NEW r \in Requests, UNCHANGED <<rows, solved, counted>>,
           Moves(r), req'[r].pc \in Silent
    PROVE  SafeInv'
<1>1. RequestSound(req'[r]) /\ req'[r].pc \notin {"next", "commit"}
  BY DEF Silent, RequestSound, InTransaction
<1> QED BY <1>1, SafeMove

\* So does one that fails.
LEMMA SafeFail ==
    ASSUME SafeInv, TypeInv', NEW r \in Requests, UNCHANGED <<rows, solved, counted>>, Fail(r)
    PROVE  SafeInv'
<1>1. Moves(r) /\ req'[r].pc \in {"serve", "error"}
  BY FailFields DEF SafeInv, TypeInv
<1> QED BY <1>1, SafeSilent DEF Silent

\* A request for an input has just been accepted.
LEMMA SafeGetInput ==
    ASSUME SafeInv, TypeInv', NEW r \in Requests, NEW key \in Key, GetInput(r, key)
    PROVE  SafeInv'
<1>1. PICK pc \in {"begin", "error"} : Accept(r, key, None, pc)
  BY DEF GetInput
<1>2. TypeOK /\ pc \in Pcs /\ pc \in Silent
  BY DEF Pcs, Outcomes, Silent, SafeInv, TypeInv
<1>3. Moves(r) /\ req'[r] = [pc |-> pc, key |-> key, answer |-> None, copy |-> None]
  BY <1>1, <1>2, AcceptFields
<1> QED BY <1>2, <1>3, SafeSilent DEF GetInput

\* So has a submission: "already" is answered for rows that are solved.
LEMMA SafeAnswerPuzzle ==
    ASSUME SafeInv, TypeInv', NEW r \in Requests, NEW key \in Key, NEW answer \in Answers,
           AnswerPuzzle(r, key, answer)
    PROVE  SafeInv'
<1>1. PICK pc \in {"error", "already", "limited", "judge"} :
        /\ Accept(r, key, answer, pc)
        /\ pc = "already" => Exists(key) /\ IsSolved(rows[key])
  BY DEF AnswerPuzzle, Exists
<1>2. TypeOK /\ pc \in Pcs
  BY DEF Pcs, Outcomes, SafeInv, TypeInv
<1>3. Moves(r) /\ req'[r] = [pc |-> pc, key |-> key, answer |-> answer, copy |-> None]
  BY <1>1, <1>2, AcceptFields
<1>4. pc = "already" => key \in solved
  BY <1>1 DEF SafeInv, RowSound
<1>5. RequestSound(req'[r]) /\ req'[r].pc \notin {"next", "commit"}
  BY <1>3, <1>4 DEF RequestSound, InTransaction
<1> QED BY <1>3, <1>5, SafeMove DEF AnswerPuzzle

\* Steps that lead to a control point that claims nothing, or that fail.
LEMMA SafeQuiet ==
    ASSUME SafeInv, TypeInv', NEW r \in Requests,
           \/ Judge(r) \/ BeginFails(r) \/ FirstFails(r) \/ SaveRejected(r)
           \/ CommitFails(r) \/ PreloadFails(r) \/ ServeInput(r) \/ Deliver(r)
    PROVE  SafeInv'
<1>. TypeOK
  BY DEF SafeInv, TypeInv
<1>1. UNCHANGED <<rows, solved, counted>>
  BY DEF Judge, BeginFails, FirstFails, SaveRejected, CommitFails, PreloadFails,
         ServeInput, Deliver
<1>2. CASE Fail(r)
  BY <1>1, <1>2, SafeFail
<1>3. CASE \E pc \in {"begin", "error", "input"} : GoTo(r, pc)
  <2>1. PICK pc \in {"begin", "error", "input"} : GoTo(r, pc)
    BY <1>3
  <2>2. pc \in Pcs /\ pc \in Silent
    BY DEF Pcs, Outcomes, Silent
  <2>3. Moves(r) /\ req'[r].pc \in Silent
    BY <2>1, <2>2, GoToFields
  <2> QED BY <1>1, <2>3, SafeSilent
<1>4. CASE Deliver(r)
  <2>1. Moves(r) /\ req'[r].pc \in Silent
    BY <1>4, IdleFields DEF Deliver, Moves, TypeOK, Idle, Silent
  <2> QED BY <1>1, <2>1, SafeSilent
<1> QED BY <1>2, <1>3, <1>4 DEF Judge, BeginFails, FirstFails, SaveRejected, CommitFails,
                               PreloadFails, ServeInput

\* The row in memory of a first request for an input.
LEMMA SafeTrigger ==
    ASSUME SafeInv, TypeInv', NEW r \in Requests, NEW lvl \in Levels,
           TriggerPuzzleFirstTry(r, lvl)
    PROVE  SafeInv'
<1>. TypeOK
  BY DEF SafeInv, TypeInv
<1>1. UNCHANGED <<rows, solved, counted>> /\ req[r].answer = None
  BY DEF TriggerPuzzleFirstTry, AsksInput
<1>2. CASE WillWrite(r, NewTry(lvl, now))
  <2>1. NewTry(lvl, now) \in Row /\ NewTry(lvl, now).attempts = 0
    BY NewTryType DEF TypeOK, NewTry
  <2>2. req[r].key \in Key
    BY RequestFields DEF TriggerPuzzleFirstTry, SafeInv, TypeInv, WellFormed
  <2>3. Coherent(NewTry(lvl, now), req[r].key)
    BY <2>2, NewTryCoherent DEF TypeOK
  <2>4. /\ Moves(r) /\ req'[r].pc = "write" /\ req'[r].key = req[r].key
        /\ req'[r].answer = None /\ req'[r].copy = NewTry(lvl, now)
    BY <1>1, <1>2, <2>1, WillWriteFields
  <2>5. RequestSound(req'[r])
    BY <2>1, <2>3, <2>4, NoneAssumption, TriesAssumption DEF RequestSound
  <2> QED BY <1>1, <2>4, <2>5, SafeMove
<1>3. CASE GoTo(r, "serve")
  <2>1. "serve" \in Pcs /\ "serve" \in Silent
    BY DEF Pcs, Silent
  <2>2. Moves(r) /\ req'[r].pc \in Silent
    BY <1>3, <2>1, GoToFields
  <2> QED BY <1>1, <2>2, SafeSilent
<1> QED BY <1>2, <1>3 DEF TriggerPuzzleFirstTry

\* The row in memory of a submission.
LEMMA SafeReadTry ==
    ASSUME SafeInv, TypeInv', NEW r \in Requests, ReadTry(r)
    PROVE  SafeInv'
<1>. DEFINE key == req[r].key
            try == rows[key]
            row == IF IsRight(r) THEN Ended(try, key, req[r].answer)
                   ELSE Updated(try, req[r].answer)
<1>1. /\ TypeOK /\ key \in Key /\ req[r].answer \in Answers /\ now \in Nat
      /\ UNCHANGED <<rows, solved, counted>>
  BY RequestFields DEF SafeInv, TypeInv, WellFormed, ReadTry, AsksInput, TypeOK
<1>2. CASE Fail(r)
  BY <1>1, <1>2, SafeFail
<1>3. CASE try # None /\ ~IsSolved(try) /\ WillWrite(r, row)
  <2>1. /\ try \in Row /\ try.end = None /\ Coherent(try, key)
        /\ try.attempts <= counted[key]
    BY <1>1, <1>3 DEF TypeOK, IsSolved, SafeInv, RowSound, Exists
  <2>2. row \in Row
    BY <1>1, <2>1, UpdatedType, EndedType
  <2>3. Coherent(row, key)
    BY <1>1, <2>1, UpdatedCoherent, EndedCoherent DEF IsRight
  <2>4. /\ row.start = try.start /\ row.lvl = try.lvl
        /\ row.attempts = try.attempts + 1
    BY <2>1 DEF Updated, Ended, Row
  <2>5. row.attempts <= counted[key] + 1
    BY <1>1, <2>1, <2>4 DEF TypeOK, Row
  <2>6. WillWrite(r, row)
    BY <1>3
  <2>. HIDE DEF row
  <2>7. /\ Moves(r) /\ req'[r].pc = "write" /\ req'[r].key = key
        /\ req'[r].answer = req[r].answer /\ req'[r].copy = row
    BY <1>1, <2>2, <2>6, WillWriteFields
  <2>8. RequestSound(req'[r])
    BY <1>1, <1>3, <2>3, <2>4, <2>5, <2>7, NoneAssumption DEF RequestSound, Exists
  <2> QED BY <1>1, <2>7, <2>8, SafeMove
<1> QED BY <1>2, <1>3 DEF ReadTry

\* The statements that write take the lock of the row, once no other
\* transaction holds it.
LEMMA SafeWrites ==
    ASSUME SafeInv, TypeInv', NEW r \in Requests, InsertFirst(r) \/ Save(r) \/ CreateNext(r)
    PROVE  SafeInv'
<1>1. TypeOK /\ WellFormed(req[r]) /\ RequestSound(req[r])
  BY DEF SafeInv, TypeInv
<1>2. UNCHANGED <<rows, solved, counted>>
  BY DEF InsertFirst, Save, CreateNext
<1>3. "commit" \in Pcs /\ "next" \in Pcs
  BY DEF Pcs, InTransaction
<1>4. CASE Fail(r)
  BY <1>2, <1>4, SafeFail
<1>5. CASE InsertFirst(r) /\ ~Fail(r)
  <2>1. /\ GoTo(r, "commit") /\ req[r].pc = "write" /\ ~Locked(req[r].key)
        /\ ~Exists(req[r].key) /\ req[r].answer = None
    BY <1>5 DEF InsertFirst, Exists, AsksInput
  <2>2. /\ Moves(r) /\ req'[r].pc = "commit" /\ req'[r].key = req[r].key
        /\ req'[r].answer = req[r].answer /\ req'[r].copy = req[r].copy
    BY <1>1, <1>3, <2>1, GoToFields
  <2>3. RequestSound(req'[r])
    BY <1>1, <2>1, <2>2, NoneAssumption, TriesAssumption DEF RequestSound, InTransaction
  <2> QED BY <1>2, <2>1, <2>2, <2>3, SafeMove
<1>6. CASE Save(r) /\ ~Fail(r)
  <2>1. PICK pc \in {"next", "commit"} : GoTo(r, pc) /\ (pc = "commit" => ~OpensNext(r))
    BY <1>6 DEF Save
  <2>2. req[r].pc = "write" /\ ~Locked(req[r].key) /\ req[r].answer # None
    BY <1>6 DEF Save, AsksInput
  <2>3. /\ Moves(r) /\ req'[r].pc = pc /\ req'[r].key = req[r].key
        /\ req'[r].answer = req[r].answer /\ req'[r].copy = req[r].copy
    BY <1>1, <1>3, <2>1, GoToFields
  <2>4. RequestSound(req'[r])
    BY <1>1, <2>1, <2>2, <2>3 DEF RequestSound, InTransaction, OpensNext, IsRight
  <2> QED BY <1>2, <2>2, <2>3, <2>4, SafeMove
<1>7. CASE CreateNext(r) /\ ~Fail(r)
  <2>1. /\ GoTo(r, "commit") /\ req[r].pc = "next" /\ ~Exists(NextStep(req[r].key))
    BY <1>7 DEF CreateNext, Exists
  <2>2. req[r].answer # None
    BY <1>1, <2>1 DEF WellFormed
  <2>3. /\ Moves(r) /\ req'[r].pc = "commit" /\ req'[r].key = req[r].key
        /\ req'[r].answer = req[r].answer /\ req'[r].copy = req[r].copy
    BY <1>1, <1>3, <2>1, GoToFields
  <2>4. RequestSound(req'[r])
    BY <1>1, <2>1, <2>2, <2>3 DEF RequestSound, InTransaction
  <2> QED BY <1>2, <2>1, <2>3, <2>4, SafeMove
<1> QED BY <1>4, <1>5, <1>6, <1>7

\* Between a commit and its reply the solve stays on record.
LEMMA SafeAnnounce ==
    ASSUME SafeInv, TypeInv', NEW r \in Requests, LoadUser(r) \/ HubTakes(r)
    PROVE  SafeInv'
<1>1. /\ TypeOK /\ RequestSound(req[r]) /\ WellFormed(req[r])
      /\ req[r].pc \in {"load", "announce", "announceNext"}
      /\ UNCHANGED <<rows, solved, counted>>
  BY DEF SafeInv, TypeInv, LoadUser, HubTakes, Announce, AnnounceNext
<1>2. PICK pc \in {"announce", "serve", "wrong", "announceNext", "right"} : GoTo(r, pc)
  BY DEF LoadUser, HubTakes, Announce, AnnounceNext, ReplyRight
<1>3. pc \in Pcs
  BY DEF Pcs, Outcomes
<1>4. /\ Moves(r) /\ req'[r].pc = pc /\ req'[r].key = req[r].key
      /\ req'[r].answer = req[r].answer
  BY <1>1, <1>2, <1>3, GoToFields
<1>5. RequestSound(req'[r])
  BY <1>1, <1>4 DEF RequestSound, InTransaction
<1> QED BY <1>1, <1>4, <1>5, SafeMove

\* What a commit does to the table: its own row, the row of step 2 if it ends
\* step 1, and no other; and it removes none.
LEMMA CommitRows ==
    ASSUME SafeInv, NEW r \in Requests, Commit(r)
    PROVE  /\ req[r].key \in Key /\ req[r].copy \in Row
           /\ rows'[req[r].key] = req[r].copy
           /\ OpensNext(r) => /\ NextStep(req[r].key) \in Key
                              /\ NextStep(req[r].key) # req[r].key
                              /\ rows'[NextStep(req[r].key)] = NextTry(r)
                              /\ NextTry(r) \in Row
                              /\ NextTry(r).attempts = 0 /\ NextTry(r).end = None
                              /\ NextTry(r).lvl = req[r].copy.lvl
                              /\ NextTry(r).start = req[r].copy.end
                              /\ Coherent(NextTry(r), NextStep(req[r].key))
                              /\ ~Exists(NextStep(req[r].key))
           /\ \A k \in Key : k # req[r].key /\ ~(OpensNext(r) /\ k = NextStep(req[r].key))
                              => rows'[k] = rows[k]
           /\ \A k \in Key : Exists(k) => rows'[k] # None
<1>. DEFINE key == req[r].key
            copy == req[r].copy
<1>1. /\ TypeInv /\ TypeOK /\ WellFormed(req[r]) /\ RequestSound(req[r])
      /\ req[r].pc = "commit" /\ rows' = Written(r)
  BY DEF SafeInv, TypeInv, Commit
<1>2. key \in Key /\ copy \in Row
  BY <1>1, RequestFields DEF WellFormed, Holding
<1>3. rows'[key] = copy
  BY <1>1, <1>2 DEF Written
<1>4. ASSUME OpensNext(r)
      PROVE  /\ NextStep(key) \in Key
             /\ NextStep(key) # key
             /\ rows'[NextStep(key)] = NextTry(r)
             /\ NextTry(r) \in Row
             /\ NextTry(r).attempts = 0 /\ NextTry(r).end = None
             /\ NextTry(r).lvl = copy.lvl
             /\ NextTry(r).start = copy.end
             /\ Coherent(NextTry(r), NextStep(key))
             /\ ~Exists(NextStep(key))
  <2>1. key.step = 1 /\ req[r].answer \in RightAnswers
    BY <1>4 DEF OpensNext, IsRight
  <2>2. NextStep(key) \in Key /\ NextStep(key) # key
    BY <1>2, <2>1, NextStepType
  <2>3. copy.end \in Nat /\ copy.lvl \in Levels
    BY <1>1, <1>2, <2>1 DEF WellFormed, Holding, Row
  <2>4. NextTry(r) \in Row /\ Coherent(NextTry(r), NextStep(key))
    BY <2>2, <2>3, NewTryType, NewTryCoherent DEF NextTry
  <2>5. /\ NextTry(r).attempts = 0 /\ NextTry(r).end = None
        /\ NextTry(r).lvl = copy.lvl /\ NextTry(r).start = copy.end
    BY DEF NextTry, NewTry
  <2>6. ~Exists(NextStep(key))
    BY <1>1, <2>1 DEF RequestSound
  <2>7. rows'[NextStep(key)] = NextTry(r)
    BY <1>1, <1>4, <2>2 DEF Written
  <2> QED BY <2>2, <2>4, <2>5, <2>6, <2>7
<1>5. ASSUME NEW k \in Key, k # key, ~(OpensNext(r) /\ k = NextStep(key))
      PROVE  rows'[k] = rows[k]
  BY <1>1, <1>5 DEF Written
<1>6. ASSUME NEW k \in Key, Exists(k)
      PROVE  rows'[k] # None
  BY <1>2, <1>3, <1>4, <1>5, <1>6, NoneAssumption DEF Exists
<1> QED BY <1>2, <1>3, <1>4, <1>5, <1>6

\* After a commit every row is sound.
LEMMA CommitRowsSound ==
    ASSUME SafeInv, NEW r \in Requests, Commit(r), NEW k \in Key
    PROVE  RowSound(k)'
<1>. DEFINE key == req[r].key
            copy == req[r].copy
<1>1. /\ TypeOK /\ WellFormed(req[r]) /\ RequestSound(req[r]) /\ RowSound(k)
      /\ req[r].pc = "commit"
  BY DEF SafeInv, TypeInv, Commit
<1>2. key \in Key /\ copy \in Row /\ rows'[key] = copy
  BY CommitRows
<1>3. /\ solved' = IF IsRight(r) THEN solved \cup {key} ELSE solved
      /\ counted' = IF AsksInput(r) THEN counted ELSE [counted EXCEPT ![key] = @ + 1]
  BY DEF Commit
<1>4. CASE k = key
  <2>1. Coherent(rows'[k], k)
    BY <1>1, <1>2, <1>4 DEF RequestSound, InTransaction
  <2>2. rows'[k].end # None => IsRight(r)
    BY <1>1, <1>2, <1>4 DEF WellFormed, Holding, IsRight
  <2>3. rows'[k].attempts <= counted'[k]
    BY <1>1, <1>2, <1>3, <1>4 DEF RequestSound, InTransaction, TypeOK, AsksInput, Row
  <2>4. k.step = 1 /\ rows'[k].end # None => rows'[NextStep(k)] # None
    <3>1. ASSUME k.step = 1, rows'[k].end # None
          PROVE  rows'[NextStep(k)] \in Row
      BY <1>4, <2>2, <3>1, CommitRows DEF OpensNext
    <3> QED BY <3>1, NoneAssumption
  <2> QED BY <1>3, <1>4, <2>1, <2>2, <2>3, <2>4 DEF RowSound, Exists, IsSolved, Coherent
<1>5. CASE OpensNext(r) /\ k = NextStep(key)
  <2>1. /\ rows'[k] = NextTry(r) /\ NextTry(r).attempts = 0 /\ NextTry(r).end = None
        /\ Coherent(NextTry(r), k)
    BY <1>5, CommitRows
  <2>2. counted'[k] \in Nat
    BY <1>1, <1>3 DEF TypeOK
  <2> QED BY <2>1, <2>2 DEF RowSound, Exists, IsSolved, Coherent
<1>6. CASE k # key /\ ~(OpensNext(r) /\ k = NextStep(key))
  <2>1. rows'[k] = rows[k]
    BY <1>6, CommitRows
  <2>2. counted'[k] = counted[k] /\ (k \in solved => k \in solved')
    BY <1>1, <1>3, <1>6 DEF TypeOK
  <2>3. Exists(NextStep(k)) => rows'[NextStep(k)] # None
    BY NextStepType, CommitRows
  <2> QED BY <1>1, <2>1, <2>2, <2>3 DEF RowSound, Exists, IsSolved, Coherent
<1> QED BY <1>4, <1>5, <1>6

\* Keys of step 1 with the same step 2 are one key.
LEMMA NextStepInjective ==
    ASSUME NEW k \in Key, NEW l \in Key, k.step = 1, l.step = 1, NextStep(k) = NextStep(l)
    PROVE  k = l
<1>1. k.user = l.user /\ k.puzzle = l.puzzle
  BY DEF NextStep, Key
<1> QED BY <1>1 DEF Key

\* A commit of one transaction does not take the ground from under another: a
\* row that the other has read is still there with its start and level, and a
\* row that the other has found missing is still missing.
LEMMA CommitRequestsSound ==
    ASSUME SafeInv, NEW r \in Requests, Commit(r), NEW q \in Requests
    PROVE  RequestSound(req[q])'
<1>. DEFINE key == req[r].key
            x == req[q]
<1>1. /\ TypeOK /\ WellFormed(req[r]) /\ RequestSound(req[r]) /\ req[r].pc = "commit"
      /\ WellFormed(x) /\ RequestSound(x) /\ GoTo(r, "load")
  BY DEF SafeInv, TypeInv, Commit
<1>2. key \in Key /\ req[r].copy \in Row /\ rows'[key] = req[r].copy
  BY CommitRows
<1>3. /\ solved' = IF IsRight(r) THEN solved \cup {key} ELSE solved
      /\ counted' = IF AsksInput(r) THEN counted ELSE [counted EXCEPT ![key] = @ + 1]
  BY DEF Commit
<1>4. "load" \in Pcs
  BY DEF Pcs
<1>5. /\ Moves(r) /\ req'[r].pc = "load" /\ req'[r].key = key
      /\ req'[r].answer = req[r].answer
  BY <1>1, <1>4, GoToFields
<1>6. CASE q = r
  BY <1>3, <1>5, <1>6 DEF RequestSound, InTransaction, IsRight
<1>7. CASE q # r
  <2>1. req'[q] = x
    BY <1>5, <1>7 DEF Moves
  <2>2. ASSUME x.pc \in InTransaction, x.answer # None
        PROVE  /\ rows'[x.key] # None
               /\ x.copy.start = rows'[x.key].start
               /\ x.copy.lvl = rows'[x.key].lvl
               /\ x.copy.attempts <= counted'[x.key] + 1
    <3>1. x.key \in Key /\ x.copy \in Row
      BY <1>1, <2>2, RequestFields DEF WellFormed, InTransaction, Holding
    <3>2. /\ Exists(x.key) /\ x.copy.start = rows[x.key].start
          /\ x.copy.lvl = rows[x.key].lvl /\ x.copy.attempts <= counted[x.key] + 1
      BY <1>1, <2>2 DEF RequestSound
    <3>3. rows'[x.key] # None
      BY <3>1, <3>2, CommitRows
    <3>4. rows'[x.key].start = rows[x.key].start /\ rows'[x.key].lvl = rows[x.key].lvl
      <4>1. CASE x.key = key
        <5>1. req[r].answer # None
          BY <1>1, <3>2, <4>1 DEF RequestSound
        <5> QED BY <1>1, <1>2, <4>1, <5>1 DEF RequestSound, InTransaction
      <4>2. CASE x.key # key
        <5>1. ~(OpensNext(r) /\ x.key = NextStep(key))
          BY <3>2, CommitRows
        <5>2. rows'[x.key] = rows[x.key]
          BY <3>1, <4>2, <5>1, CommitRows
        <5> QED BY <5>2
      <4> QED BY <4>1, <4>2
    <3>5. x.copy.attempts <= counted'[x.key] + 1
      BY <1>1, <1>2, <1>3, <3>1, <3>2 DEF TypeOK, Row
    <3> QED BY <3>2, <3>3, <3>4, <3>5
  <2>3. ASSUME x.pc = "commit", x.answer = None
        PROVE  rows'[x.key] = None
    <3>1. x.key \in Key /\ x.key.step = 1 /\ ~Exists(x.key)
      BY <1>1, <2>3, RequestFields DEF WellFormed, RequestSound
    <3>2. x.key # key
      BY <1>1, <1>7, <2>3 DEF SafeInv, LocksHeld
    <3>3. ~(OpensNext(r) /\ x.key = NextStep(key))
      BY <1>2, <3>1, NextStepType
    <3>4. rows'[x.key] = rows[x.key]
      BY <3>1, <3>2, <3>3, CommitRows
    <3> QED BY <3>1, <3>4 DEF Exists
  <2>4. ASSUME x.pc = "commit", x.answer \in RightAnswers, x.key.step = 1
        PROVE  rows'[NextStep(x.key)] = None
    <3>1. x.key \in Key /\ ~Exists(NextStep(x.key)) /\ NextStep(x.key) \in Key
      BY <1>1, <2>4, RequestFields, NextStepType DEF WellFormed, RequestSound
    <3>2. NextStep(x.key) # key
      <4>1. SUFFICES ASSUME NextStep(x.key) = key
                     PROVE  FALSE
        OBVIOUS
      <4>2. key.step = 2
        BY <3>1, <4>1, NextStepType
      <4>3. req[r].answer # None
        BY <1>1, <4>2 DEF WellFormed
      <4>4. Exists(key)
        BY <1>1, <4>3 DEF RequestSound, InTransaction
      <4> QED BY <3>1, <4>1, <4>4
    <3>3. ~(OpensNext(r) /\ NextStep(x.key) = NextStep(key))
      <4>1. SUFFICES ASSUME OpensNext(r), NextStep(x.key) = NextStep(key)
                     PROVE  FALSE
        OBVIOUS
      <4>2. x.key = key
        BY <1>2, <2>4, <3>1, <4>1, NextStepInjective DEF OpensNext
      <4> QED BY <1>1, <1>7, <2>4, <4>2 DEF SafeInv, LocksHeld
    <3>4. rows'[NextStep(x.key)] = rows[NextStep(x.key)]
      BY <3>1, <3>2, <3>3, CommitRows
    <3> QED BY <3>1, <3>4 DEF Exists
  <2>5. solved \subseteq solved'
    BY <1>3
  <2> QED BY <1>1, <2>1, <2>2, <2>3, <2>4, <2>5 DEF RequestSound, Exists, Coherent, NextStep
<1> QED BY <1>6, <1>7

\* So a commit keeps the invariant.
LEMMA SafeCommit ==
    ASSUME SafeInv, TypeInv', NEW r \in Requests, Commit(r)
    PROVE  SafeInv'
<1>1. \A k \in Key : RowSound(k)'
  BY CommitRowsSound
<1>2. \A q \in Requests : RequestSound(req[q])'
  BY CommitRequestsSound
<1>3. LocksHeld'
  <2>1. TypeOK /\ GoTo(r, "load") /\ "load" \in Pcs
    BY DEF SafeInv, TypeInv, Commit, Pcs
  <2>2. Moves(r) /\ req'[r].pc = "load"
    BY <2>1, GoToFields
  <2> QED BY <2>2 DEF SafeInv, LocksHeld, Moves
<1> QED BY <1>1, <1>2, <1>3 DEF SafeInv

\* The clock, the cache and a restart keep it.
LEMMA SafeEnvironment ==
    ASSUME SafeInv, TypeInv', Tick \/ ExpireInput \/ Restart \/ UNCHANGED vars
    PROVE  SafeInv'
<1>1. UNCHANGED <<rows, solved, counted>>
  BY DEF Tick, ExpireInput, Restart, vars
<1>2. \A k \in Key : RowSound(k)'
  BY <1>1 DEF SafeInv, RowSound, Exists, Coherent, IsSolved
<1>3. CASE UNCHANGED req
  <2>1. \A r \in Requests : RequestSound(req[r])'
    BY <1>1, <1>3 DEF SafeInv, RequestSound, Exists, Coherent
  <2>2. LocksHeld'
    BY <1>3 DEF SafeInv, LocksHeld
  <2> QED BY <1>2, <2>1, <2>2 DEF SafeInv
<1>4. CASE Restart
  <2>1. \A r \in Requests : req'[r] = Idle
    BY <1>4 DEF Restart
  <2>2. \A r \in Requests : RequestSound(req[r])'
    BY <2>1 DEF Idle, RequestSound, InTransaction
  <2>3. LocksHeld'
    BY <2>1 DEF Idle, LocksHeld
  <2> QED BY <1>2, <2>2, <2>3 DEF SafeInv
<1> QED BY <1>3, <1>4 DEF Tick, ExpireInput, vars

\* Every step keeps the invariant.
LEMMA SafeStep == SafeInv /\ [Next]_vars => SafeInv'
<1> SUFFICES ASSUME SafeInv, [Next]_vars
             PROVE  SafeInv'
  OBVIOUS
<1>1. TypeInv'
  BY TypeStep DEF SafeInv
<1>2. ASSUME NEW r \in Requests, Handle(r) \/ HubTakes(r)
      PROVE  SafeInv'
  BY <1>1, <1>2, SafeQuiet, SafeTrigger, SafeReadTry, SafeWrites, SafeCommit, SafeAnnounce
  DEF Handle
<1>3. ASSUME NEW r \in Requests, NEW key \in Key, GetInput(r, key)
      PROVE  SafeInv'
  BY <1>1, <1>3, SafeGetInput
<1>4. ASSUME NEW r \in Requests, NEW key \in Key, NEW answer \in Answers,
             AnswerPuzzle(r, key, answer)
      PROVE  SafeInv'
  BY <1>1, <1>4, SafeAnswerPuzzle
<1> QED BY <1>1, <1>2, <1>3, <1>4, SafeEnvironment DEF Next

\* It holds to begin with: there are no rows and no requests.
LEMMA SafeInit == Init => SafeInv
<1> SUFFICES ASSUME Init
             PROVE  SafeInv
  OBVIOUS
<1>1. TypeInv
  BY TypeInit
<1>2. \A k \in Key : RowSound(k)
  BY DEF Init, RowSound, Exists
<1>3. (\A r \in Requests : RequestSound(req[r])) /\ LocksHeld
  BY DEF Init, Idle, RequestSound, InTransaction, LocksHeld
<1> QED BY <1>1, <1>2, <1>3 DEF SafeInv

\* In every state the rows and the requests are sound.
LEMMA Safe == Spec => []SafeInv
BY SafeInit, SafeStep, PTL DEF Spec

----------------------------------------------------------------------------
(* What overlapping transactions cannot break *)

\* A committed row is never put together from two submissions (Save writes
\* every column of a row that one handler computed).
THEOREM RowsAlwaysCoherent == Spec => []RowsCoherent
<1>1. SafeInv => RowsCoherent
  BY DEF SafeInv, RowSound, RowsCoherent
<1> QED BY <1>1, Safe, PTL

\* No reply, no broadcast and no row speaks of a solve that was not committed.
THEOREM NoSolveIsInvented == Spec => []NoPhantomSolve
<1>1. SafeInv => NoPhantomSolve
  BY DEF SafeInv, RowSound, RequestSound, NoPhantomSolve, IsRight
<1> QED BY <1>1, Safe, PTL

\* Lost updates only ever favour the user: no try is charged for more attempts
\* than were committed for it.
THEOREM NobodyIsOvercharged == Spec => []NeverOvercharged
<1>1. SafeInv => NeverOvercharged
  BY DEF SafeInv, RowSound, NeverOvercharged
<1> QED BY <1>1, Safe, PTL

\* Only a commit changes the table.
LEMMA OnlyCommitWrites ==
    ASSUME [Next]_vars, rows' # rows
    PROVE  \E r \in Requests : Commit(r)
<1>1. ASSUME NEW r \in Requests, Handle(r) \/ HubTakes(r), ~Commit(r)
      PROVE  rows' = rows
  BY <1>1 DEF Handle, Judge, BeginFails, FirstFails, TriggerPuzzleFirstTry, ReadTry,
              InsertFirst, Save, SaveRejected, CreateNext, CommitFails, LoadUser,
              PreloadFails, HubTakes, Announce, AnnounceNext, ServeInput, Deliver
<1>2. ASSUME NEW r \in Requests, NEW key \in Key, GetInput(r, key)
      PROVE  rows' = rows
  BY <1>2 DEF GetInput
<1>3. ASSUME NEW r \in Requests, NEW key \in Key, NEW answer \in Answers,
             AnswerPuzzle(r, key, answer)
      PROVE  rows' = rows
  BY <1>3 DEF AnswerPuzzle
<1>4. ASSUME Tick \/ ExpireInput \/ Restart \/ UNCHANGED vars
      PROVE  rows' = rows
  BY <1>4 DEF Tick, ExpireInput, Restart, vars
<1> QED BY <1>1, <1>2, <1>3, <1>4 DEF Next

\* A commit of a row that is there writes it with its start and level.
LEMMA CommitKeepsStart ==
    ASSUME SafeInv, NEW r \in Requests, Commit(r), NEW k \in Key, Exists(k)
    PROVE  rows'[k] # None /\ rows'[k].start = rows[k].start /\ rows'[k].lvl = rows[k].lvl
<1>1. RequestSound(req[r]) /\ req[r].pc = "commit"
  BY DEF SafeInv, Commit
<1>2. rows'[k] # None
  BY CommitRows
<1>3. CASE k = req[r].key
  <2>1. req[r].answer # None
    BY <1>1, <1>3 DEF RequestSound
  <2> QED BY <1>1, <1>2, <1>3, <2>1, CommitRows DEF RequestSound, InTransaction
<1>4. CASE k # req[r].key
  <2>1. ~(OpensNext(r) /\ k = NextStep(req[r].key))
    BY CommitRows
  <2> QED BY <1>2, <1>4, <2>1, CommitRows
<1> QED BY <1>3, <1>4

\* The clock of a try is started once (TriggerPuzzleFirstTry, EndTry for step
\* 2) and no overlap of transactions restarts it.
THEOREM ClockStartsOnce == Spec => StartNeverMoves
<1>1. SafeInv /\ [Next]_vars
        => [\A k \in Key :
              Exists(k) => /\ rows'[k] # None
                           /\ rows'[k].start = rows[k].start
                           /\ rows'[k].lvl = rows[k].lvl]_rows
  BY OnlyCommitWrites, CommitKeepsStart
<1> QED BY <1>1, Safe, PTL DEF Spec, StartNeverMoves

\* A commit after which a row of step 2 is there, and was not before, is one of
\* EndTry for step 1.
LEMMA CommitOpensNext ==
    ASSUME SafeInv, NEW r \in Requests, Commit(r), NEW k \in Key, k.step = 1,
           rows[NextStep(k)] = None, rows'[NextStep(k)] # None
    PROVE  /\ rows[k] # None /\ ~IsSolved(rows[k])
           /\ IsSolved(rows'[k])
           /\ rows'[NextStep(k)].start = rows'[k].end
           /\ rows'[NextStep(k)].lvl = rows'[k].lvl
<1>1. /\ RequestSound(req[r]) /\ WellFormed(req[r]) /\ req[r].pc = "commit" /\ RowSound(k)
  BY DEF SafeInv, TypeInv, Commit
<1>2. NextStep(k) \in Key /\ NextStep(k).step = 2
  BY NextStepType
<1>3. NextStep(k) # req[r].key
  <2>1. SUFFICES ASSUME NextStep(k) = req[r].key
                 PROVE  FALSE
    OBVIOUS
  <2>2. req[r].answer # None
    BY <1>1, <1>2, <2>1 DEF WellFormed
  <2> QED BY <1>1, <2>1, <2>2 DEF RequestSound, InTransaction, Exists
<1>4. OpensNext(r) /\ NextStep(k) = NextStep(req[r].key)
  BY <1>2, <1>3, CommitRows
<1>5. k = req[r].key
  BY <1>4, CommitRows, NextStepInjective DEF OpensNext
<1>6. req[r].answer \in RightAnswers /\ req[r].answer # None
  BY <1>4, NoneAssumption, TriesAssumption DEF OpensNext, IsRight
<1>7. rows[k] # None /\ ~IsSolved(rows[k])
  BY <1>1, <1>5, <1>6 DEF RequestSound, InTransaction, RowSound, Exists
<1>8. rows'[k] = req[r].copy /\ req[r].copy.end # None
  BY <1>1, <1>5, <1>6, CommitRows DEF WellFormed, Holding
<1>9. rows'[NextStep(k)] = NextTry(r) /\ NextTry(r).start = req[r].copy.end
        /\ NextTry(r).lvl = req[r].copy.lvl
  BY <1>4, CommitRows
<1> QED BY <1>7, <1>8, <1>9 DEF IsSolved

\* Step 2 of a puzzle opens only in the transaction that ends step 1.
THEOREM SecondStepOpensInOrder == Spec => SecondStepFollowsFirst
<1>1. SafeInv /\ [Next]_vars
        => [\A k \in Key :
              k.step = 1 /\ rows[NextStep(k)] = None /\ rows'[NextStep(k)] # None
                => /\ rows[k] # None /\ ~IsSolved(rows[k])
                   /\ IsSolved(rows'[k])
                   /\ rows'[NextStep(k)].start = rows'[k].end
                   /\ rows'[NextStep(k)].lvl = rows'[k].lvl]_rows
  BY OnlyCommitWrites, CommitOpensNext
<1> QED BY <1>1, Safe, PTL DEF Spec, SecondStepFollowsFirst

----------------------------------------------------------------------------
(* Users who wait for each reply *)

\* The cooldown that a row has caused is over at a moment (CheckRateLimit).
Waited(row, moment) ==
    row.lastMove # None =>
      /\ row.attempts >= AttemptsThreshold2
           => moment - row.lastMove >= CooldownDuration2
      /\ row.attempts \in AttemptsThreshold1 .. AttemptsThreshold2 - 1
           => moment - row.lastMove >= CooldownDuration1

\* A serial user has one request under way.
OneAtATime ==
    \A q, r \in Requests :
       /\ req[q].key # None /\ req[r].key # None
       /\ req[q].key.user = req[r].key.user /\ req[r].key.user \in Serial
       => q = r

\* The table holds what was counted.
CountedInFull == \A k \in SerialKey : Tried[k] = counted[k]

\* A submission of a serial user is made when the cooldown is over, on the row
\* that is still there when it writes: open, and one attempt behind.
SerialSound(x) ==
    x.key # None /\ x.answer # None /\ x.key.user \in Serial =>
      /\ x.pc \in {"judge", "begin"} => Exists(x.key) /\ Waited(rows[x.key], now)
      /\ x.pc \in InTransaction =>
           /\ ~IsSolved(rows[x.key])
           /\ x.copy.attempts = rows[x.key].attempts + 1
           /\ x.copy.lastMove \in Nat
           /\ Waited(rows[x.key], x.copy.lastMove)

SerialInv ==
    /\ SafeInv
    /\ OneAtATime
    /\ CountedInFull
    /\ \A r \in Requests : SerialSound(req[r])

\* A cooldown that is over stays over.
LEMMA WaitedLater ==
    ASSUME NEW row \in Row, NEW m \in Nat, NEW n \in Nat, m <= n, Waited(row, m)
    PROVE  Waited(row, n)
<1>1. row.lastMove = None \/ row.lastMove \in Nat
  BY DEF Row
<1>2. row.lastMove \in Nat => n - row.lastMove >= m - row.lastMove /\ row.attempts \in Nat
  BY DEF Row
<1>3. CooldownDuration1 \in Nat /\ CooldownDuration2 \in Nat
  BY TriesAssumption
<1>4. ASSUME row.lastMove \in Nat
      PROVE  /\ n - row.lastMove \in Int /\ m - row.lastMove \in Int
             /\ n - row.lastMove >= m - row.lastMove
  BY <1>4
<1> QED BY <1>1, <1>3, <1>4 DEF Waited

\* CheckRateLimit lets a submission pass when the cooldown is over.
LEMMA PassedIsWaited ==
    ASSUME NEW row \in Row, now \in Nat, ~CheckRateLimit(row)
    PROVE  Waited(row, now)
<1>. SUFFICES ASSUME row.lastMove # None
              PROVE  /\ row.attempts >= AttemptsThreshold2
                          => now - row.lastMove >= CooldownDuration2
                     /\ row.attempts \in AttemptsThreshold1 .. AttemptsThreshold2 - 1
                          => now - row.lastMove >= CooldownDuration1
  BY DEF Waited
<1>1. row.lastMove \in Nat /\ row.attempts \in Nat
  BY DEF Row
<1>2. /\ AttemptsThreshold1 \in Nat /\ AttemptsThreshold2 \in Nat
      /\ CooldownDuration1 \in Nat /\ CooldownDuration2 \in Nat
  BY TriesAssumption
<1> QED BY <1>1, <1>2 DEF CheckRateLimit

\* A step of one goroutine that leaves the table alone.
LEMMA SerialMove ==
    ASSUME SerialInv, SafeInv', NEW r \in Requests, UNCHANGED <<now, rows, counted>>,
           Moves(r), SerialSound(req'[r]),
           \/ req'[r].key \in {None, req[r].key}
           \/ req'[r].key # None /\ MayCall(req'[r].key.user)
    PROVE  SerialInv'
<1>1. ASSUME NEW q \in Requests, NEW p \in Requests,
             req'[q].key # None, req'[p].key # None,
             req'[q].key.user = req'[p].key.user, req'[p].key.user \in Serial
      PROVE  q = p
  <2>1. CASE req'[r].key \in {None, req[r].key}
    BY <1>1, <2>1 DEF SerialInv, OneAtATime, Moves
  <2>2. CASE req'[r].key # None /\ MayCall(req'[r].key.user)
    BY <1>1, <2>2 DEF SerialInv, OneAtATime, Moves, MayCall
  <2> QED BY <2>1, <2>2
<1>2. OneAtATime'
  BY <1>1 DEF OneAtATime
<1>3. CountedInFull'
  BY DEF SerialInv, CountedInFull, Tried, Exists
<1>4. ASSUME NEW q \in Requests
      PROVE  SerialSound(req[q])'
  <2>1. SerialSound(req'[q])
    BY DEF Moves, SerialInv
  <2> QED BY <2>1 DEF SerialSound, Exists, IsSolved, Waited
<1> QED BY <1>2, <1>3, <1>4 DEF SerialInv

\* One that goes on with what it holds, and neither starts a submission nor
\* enters a transaction.
LEMMA SerialGoOn ==
    ASSUME SerialInv, SafeInv', NEW r \in Requests, UNCHANGED <<now, rows, counted>>,
           Moves(r), req'[r].key = req[r].key, req'[r].answer = req[r].answer,
           req'[r].copy = req[r].copy,
           req'[r].pc \in {"judge", "begin"} => req[r].pc \in {"judge", "begin"},
           req'[r].pc \in InTransaction => req[r].pc \in InTransaction
    PROVE  SerialInv'
<1>1. SerialSound(req'[r])
  BY DEF SerialInv, SerialSound
<1> QED BY <1>1, SerialMove

\* Steps of a handler that neither accept, nor read, nor commit.
LEMMA SerialQuiet ==
    ASSUME SerialInv, SafeInv', NEW r \in Requests,
           \/ Judge(r) \/ BeginFails(r) \/ FirstFails(r) \/ SaveRejected(r)
           \/ CommitFails(r) \/ PreloadFails(r) \/ ServeInput(r)
           \/ InsertFirst(r) \/ Save(r) \/ CreateNext(r) \/ LoadUser(r) \/ HubTakes(r)
    PROVE  SerialInv'
<1>. TypeOK
  BY DEF SerialInv, SafeInv, TypeInv
<1>1. UNCHANGED <<now, rows, counted>>
  BY DEF Judge, BeginFails, FirstFails, SaveRejected, CommitFails, PreloadFails,
         ServeInput, InsertFirst, Save, CreateNext, LoadUser, HubTakes, Announce, AnnounceNext
<1>2. CASE Fail(r)
  <2>1. /\ Moves(r) /\ req'[r].key = req[r].key /\ req'[r].answer = req[r].answer
        /\ req'[r].copy = req[r].copy /\ req'[r].pc \in {"serve", "error"}
    BY <1>2, FailFields
  <2> QED BY <1>1, <2>1, SerialGoOn DEF InTransaction
<1>3. CASE \E pc \in {"begin", "next", "commit"} :
             /\ GoTo(r, pc)
             /\ pc = "begin" => req[r].pc = "judge"
             /\ pc \in {"next", "commit"} => req[r].pc \in {"write", "next"}
  <2>1. PICK pc \in {"begin", "next", "commit"} :
             /\ GoTo(r, pc)
             /\ pc = "begin" => req[r].pc = "judge"
             /\ pc \in {"next", "commit"} => req[r].pc \in {"write", "next"}
    BY <1>3
  <2>2. pc \in Pcs
    BY DEF Pcs, InTransaction
  <2>3. /\ Moves(r) /\ req'[r].key = req[r].key /\ req'[r].answer = req[r].answer
        /\ req'[r].copy = req[r].copy /\ req'[r].pc = pc
    BY <2>1, <2>2, GoToFields
  <2> QED BY <1>1, <2>1, <2>3, SerialGoOn DEF InTransaction
<1>4. CASE \E pc \in {"error", "input", "announce", "serve", "wrong", "announceNext", "right"} : GoTo(r, pc)
  <2>1. PICK pc \in {"error", "input", "announce", "serve", "wrong", "announceNext", "right"} : GoTo(r, pc)
    BY <1>4
  <2>2. pc \in Pcs
    BY DEF Pcs, Outcomes
  <2>3. /\ Moves(r) /\ req'[r].key = req[r].key /\ req'[r].answer = req[r].answer
        /\ req'[r].copy = req[r].copy /\ req'[r].pc = pc
    BY <2>1, <2>2, GoToFields
  <2> QED BY <1>1, <2>3, SerialGoOn DEF InTransaction
<1> QED BY <1>2, <1>3, <1>4 DEF Judge, BeginFails, FirstFails, SaveRejected, CommitFails,
                               PreloadFails, ServeInput, InsertFirst, Save, CreateNext,
                               LoadUser, HubTakes, Announce, AnnounceNext, ReplyRight

LEMMA SerialDeliver ==
    ASSUME SerialInv, SafeInv', NEW r \in Requests, Deliver(r)
    PROVE  SerialInv'
<1>1. Moves(r) /\ req'[r] = Idle
  BY IdleFields DEF Deliver, Moves, SerialInv, SafeInv, TypeInv, TypeOK
<1>2. SerialSound(req'[r]) /\ req'[r].key = None
  BY <1>1 DEF SerialSound, Idle
<1> QED BY <1>1, <1>2, SerialMove DEF Deliver

LEMMA SerialGetInput ==
    ASSUME SerialInv, SafeInv', NEW r \in Requests, NEW key \in Key, GetInput(r, key)
    PROVE  SerialInv'
<1>1. PICK pc \in {"begin", "error"} : Accept(r, key, None, pc)
  BY DEF GetInput
<1>2. TypeOK /\ pc \in Pcs
  BY DEF Pcs, Outcomes, SerialInv, SafeInv, TypeInv
<1>3. Moves(r) /\ req'[r] = [pc |-> pc, key |-> key, answer |-> None, copy |-> None]
  BY <1>1, <1>2, AcceptFields
<1>4. SerialSound(req'[r]) /\ req'[r].key = key /\ key # None
  BY <1>3, NoneAssumption DEF SerialSound
<1> QED BY <1>3, <1>4, SerialMove DEF GetInput

LEMMA SerialAnswerPuzzle ==
    ASSUME SerialInv, SafeInv', NEW r \in Requests, NEW key \in Key, NEW answer \in Answers,
           AnswerPuzzle(r, key, answer)
    PROVE  SerialInv'
<1>1. PICK pc \in {"error", "already", "limited", "judge"} :
        /\ Accept(r, key, answer, pc)
        /\ pc = "judge" => Exists(key) /\ ~CheckRateLimit(rows[key])
  BY DEF AnswerPuzzle, Exists
<1>2. TypeOK /\ pc \in Pcs
  BY DEF Pcs, Outcomes, SerialInv, SafeInv, TypeInv
<1>3. Moves(r) /\ req'[r] = [pc |-> pc, key |-> key, answer |-> answer, copy |-> None]
  BY <1>1, <1>2, AcceptFields
<1>4. ASSUME pc = "judge"
      PROVE  Exists(key) /\ Waited(rows[key], now)
  <2>1. rows[key] \in Row /\ now \in Nat
    BY <1>1, <1>2, <1>4 DEF TypeOK, Exists
  <2> QED BY <1>1, <1>4, <2>1, PassedIsWaited
<1>5. SerialSound(req'[r]) /\ req'[r].key = key /\ key # None
  BY <1>3, <1>4, NoneAssumption DEF SerialSound, InTransaction
<1> QED BY <1>3, <1>5, SerialMove DEF AnswerPuzzle

LEMMA SerialTrigger ==
    ASSUME SerialInv, SafeInv', NEW r \in Requests, NEW lvl \in Levels,
           TriggerPuzzleFirstTry(r, lvl)
    PROVE  SerialInv'
<1>. TypeOK
  BY DEF SerialInv, SafeInv, TypeInv
<1>1. UNCHANGED <<now, rows, counted>> /\ req[r].answer = None
  BY DEF TriggerPuzzleFirstTry, AsksInput
<1>2. CASE WillWrite(r, NewTry(lvl, now))
  <2>1. NewTry(lvl, now) \in Row
    BY NewTryType DEF TypeOK
  <2>2. Moves(r) /\ req'[r].key = req[r].key /\ req'[r].answer = None
    BY <1>1, <1>2, <2>1, WillWriteFields
  <2>3. SerialSound(req'[r])
    BY <2>2 DEF SerialSound
  <2> QED BY <1>1, <2>2, <2>3, SerialMove
<1>3. CASE GoTo(r, "serve")
  <2>1. "serve" \in Pcs
    BY DEF Pcs
  <2>2. Moves(r) /\ req'[r].key = req[r].key /\ req'[r].answer = None
    BY <1>1, <1>3, <2>1, GoToFields
  <2>3. SerialSound(req'[r])
    BY <2>2 DEF SerialSound
  <2> QED BY <1>1, <2>2, <2>3, SerialMove
<1> QED BY <1>2, <1>3 DEF TriggerPuzzleFirstTry

\* UpdateTry and EndTry read the row that the cooldown was checked on.
LEMMA SerialReadTry ==
    ASSUME SerialInv, SafeInv', NEW r \in Requests, ReadTry(r)
    PROVE  SerialInv'
<1>. DEFINE key == req[r].key
            try == rows[key]
            row == IF IsRight(r) THEN Ended(try, key, req[r].answer)
                   ELSE Updated(try, req[r].answer)
<1>1. /\ TypeOK /\ key \in Key /\ req[r].answer \in Answers /\ now \in Nat
      /\ UNCHANGED <<now, rows, counted>> /\ req[r].pc = "begin"
  BY RequestFields DEF SerialInv, SafeInv, TypeInv, WellFormed, ReadTry, AsksInput, TypeOK
<1>2. CASE Fail(r)
  <2>1. /\ Moves(r) /\ req'[r].key = key /\ req'[r].answer = req[r].answer
        /\ req'[r].copy = req[r].copy /\ req'[r].pc \in {"serve", "error"}
    BY <1>1, <1>2, FailFields
  <2> QED BY <1>1, <2>1, SerialGoOn DEF InTransaction
<1>3. CASE try # None /\ ~IsSolved(try) /\ WillWrite(r, row)
  <2>1. try \in Row
    BY <1>1, <1>3 DEF TypeOK
  <2>2. row \in Row
    BY <1>1, <2>1, UpdatedType, EndedType
  <2>3. row.attempts = try.attempts + 1 /\ row.lastMove = now
    BY <2>1 DEF Updated, Ended, Row
  <2>4. WillWrite(r, row)
    BY <1>3
  <2>. HIDE DEF row
  <2>5. /\ Moves(r) /\ req'[r].pc = "write" /\ req'[r].key = key
        /\ req'[r].answer = req[r].answer /\ req'[r].copy = row
    BY <1>1, <2>2, <2>4, WillWriteFields
  <2>6. key # None /\ req[r].answer # None
    BY <1>1, NoneAssumption
  <2>7. key.user \in Serial => Waited(try, now)
    BY <1>1, <2>6 DEF SerialInv, SerialSound
  <2>8. SerialSound(req'[r])
    BY <1>1, <1>3, <2>3, <2>5, <2>7 DEF SerialSound
  <2> QED BY <1>1, <2>5, <2>8, SerialMove
<1> QED BY <1>2, <1>3 DEF ReadTry

\* A commit for a serial user: his one request writes the open row it read, one
\* attempt on, and no other request of his is there to be disturbed.
LEMMA SerialCommit ==
    ASSUME SerialInv, SafeInv', NEW r \in Requests, Commit(r)
    PROVE  SerialInv'
<1>. DEFINE key == req[r].key
<1>1. /\ SafeInv /\ TypeOK /\ WellFormed(req[r]) /\ RequestSound(req[r]) /\ SerialSound(req[r])
      /\ req[r].pc = "commit" /\ GoTo(r, "load") /\ now' = now
  BY DEF SerialInv, SafeInv, TypeInv, Commit
<1>2. key \in Key /\ req[r].copy \in Row /\ rows'[key] = req[r].copy /\ key # None
  BY <1>1, CommitRows DEF WellFormed
<1>3. counted' = IF AsksInput(r) THEN counted ELSE [counted EXCEPT ![key] = @ + 1]
  BY DEF Commit
<1>4. "load" \in Pcs
  BY DEF Pcs
<1>5. /\ Moves(r) /\ req'[r].pc = "load" /\ req'[r].key = key
      /\ req'[r].answer = req[r].answer
  BY <1>1, <1>4, GoToFields
<1>6. OneAtATime'
  BY <1>5 DEF SerialInv, OneAtATime, Moves
<1>7. ASSUME NEW k \in SerialKey
      PROVE  (IF rows'[k] # None THEN rows'[k].attempts ELSE 0) = counted'[k]
  <2>0. k \in Key /\ k.user \in Serial /\ Tried[k] = counted[k] /\ counted[k] \in Nat
    BY <1>1, <1>7 DEF SerialKey, SerialInv, CountedInFull, TypeOK
  <2>1. Tried[k] = IF Exists(k) THEN rows[k].attempts ELSE 0
    BY <1>7 DEF Tried
  <2>2. CASE k = key /\ AsksInput(r)
    <3>1. rows'[k].attempts = 0 /\ ~Exists(k)
      BY <1>1, <1>2, <2>2 DEF RequestSound, InTransaction, AsksInput
    <3> QED BY <1>3, <2>0, <2>1, <2>2, <3>1
  <2>3. CASE k = key /\ ~AsksInput(r)
    <3>1. rows'[k].attempts = rows[k].attempts + 1 /\ Exists(k)
      BY <1>1, <1>2, <2>0, <2>3 DEF SerialSound, RequestSound, InTransaction, AsksInput
    <3>2. rows'[k] # None
      BY <1>2, <2>3, NoneAssumption
    <3>3. counted'[k] = counted[k] + 1
      BY <1>1, <1>3, <2>0, <2>3 DEF TypeOK
    <3> QED BY <2>0, <2>1, <3>1, <3>2, <3>3
  <2>4. CASE k # key
    <3>1. counted'[k] = counted[k]
      BY <1>1, <1>3, <2>0, <2>4 DEF TypeOK
    <3>2. CASE OpensNext(r) /\ k = NextStep(key)
      <4>1. rows'[k] = NextTry(r) /\ NextTry(r).attempts = 0 /\ ~Exists(k)
        BY <1>1, <3>2, CommitRows
      <4> QED BY <2>0, <2>1, <3>1, <4>1
    <3>3. CASE ~(OpensNext(r) /\ k = NextStep(key))
      <4>1. rows'[k] = rows[k]
        BY <1>1, <2>0, <2>4, <3>3, CommitRows
      <4> QED BY <2>0, <2>1, <3>1, <4>1 DEF Exists
    <3> QED BY <3>2, <3>3
  <2> QED BY <2>2, <2>3, <2>4
<1>8. CountedInFull'
  BY <1>7 DEF CountedInFull, Tried, Exists
<1>9. ASSUME NEW q \in Requests
      PROVE  SerialSound(req[q])'
  <2>1. CASE q = r
    BY <1>5, <2>1 DEF SerialSound, InTransaction
  <2>2. CASE q # r
    <3>. DEFINE x == req[q]
    <3>1. req'[q] = x /\ SerialSound(x) /\ WellFormed(x)
      BY <1>5, <2>2 DEF Moves, SerialInv, SafeInv, TypeInv
    <3>2. ASSUME x.key # None, x.key.user \in Serial
          PROVE  rows'[x.key] = rows[x.key]
      <4>1. x.key \in Key
        BY <1>1, <3>2, RequestFields
      <4>2. x.key.user # key.user
        BY <1>2, <2>2, <3>2 DEF SerialInv, OneAtATime
      <4>3. x.key # key /\ NextStep(key).user = key.user
        BY <1>2, <4>2 DEF NextStep, Key
      <4> QED BY <1>1, <4>1, <4>2, <4>3, CommitRows
    <3> QED BY <1>1, <3>1, <3>2 DEF SerialSound, Exists, IsSolved, Waited
  <2> QED BY <2>1, <2>2
<1> QED BY <1>6, <1>8, <1>9 DEF SerialInv

\* Time only takes a cooldown further back.
LEMMA SerialEnvironment ==
    ASSUME SerialInv, SafeInv', Tick \/ ExpireInput \/ Restart \/ UNCHANGED vars
    PROVE  SerialInv'
<1>1. UNCHANGED <<rows, counted>>
  BY DEF Tick, ExpireInput, Restart, vars
<1>2. CountedInFull'
  BY <1>1 DEF SerialInv, CountedInFull, Tried, Exists
<1>3. CASE UNCHANGED req
  <2>1. now \in Nat /\ now' \in Nat /\ now <= now'
    BY <1>3, BoundsAssumption DEF Tick, ExpireInput, Restart, vars, SerialInv, SafeInv, TypeInv,
                                  TypeOK
  <2>2. OneAtATime'
    BY <1>3 DEF SerialInv, OneAtATime
  <2>3. ASSUME NEW r \in Requests
        PROVE  SerialSound(req[r])'
    <3>1. SerialSound(req[r]) /\ req'[r] = req[r]
      BY <1>3 DEF SerialInv
    <3>2. ASSUME req[r].key # None, Exists(req[r].key), Waited(rows[req[r].key], now)
          PROVE  Waited(rows[req[r].key], now')
      <4>1. rows[req[r].key] \in Row
        BY <3>2, RequestFields DEF SerialInv, SafeInv, TypeInv, TypeOK, Exists
      <4> QED BY <2>1, <3>2, <4>1, WaitedLater
    <3> QED BY <1>1, <3>1, <3>2 DEF SerialSound, Exists, IsSolved, Waited
  <2> QED BY <1>2, <2>2, <2>3 DEF SerialInv
<1>4. CASE Restart
  <2>1. \A r \in Requests : req'[r] = Idle
    BY <1>4 DEF Restart
  <2>2. OneAtATime' /\ \A r \in Requests : SerialSound(req[r])'
    BY <2>1 DEF OneAtATime, SerialSound, Idle
  <2> QED BY <1>2, <2>2 DEF SerialInv
<1> QED BY <1>3, <1>4 DEF Tick, ExpireInput, vars

LEMMA SerialStep == SerialInv /\ [Next]_vars => SerialInv'
<1> SUFFICES ASSUME SerialInv, [Next]_vars
             PROVE  SerialInv'
  OBVIOUS
<1>1. SafeInv'
  BY SafeStep DEF SerialInv
<1>2. ASSUME NEW r \in Requests, Handle(r) \/ HubTakes(r)
      PROVE  SerialInv'
  BY <1>1, <1>2, SerialQuiet, SerialDeliver, SerialTrigger, SerialReadTry, SerialCommit
  DEF Handle
<1>3. ASSUME NEW r \in Requests, NEW key \in Key, GetInput(r, key)
      PROVE  SerialInv'
  BY <1>1, <1>3, SerialGetInput
<1>4. ASSUME NEW r \in Requests, NEW key \in Key, NEW answer \in Answers,
             AnswerPuzzle(r, key, answer)
      PROVE  SerialInv'
  BY <1>1, <1>4, SerialAnswerPuzzle
<1> QED BY <1>1, <1>2, <1>3, <1>4, SerialEnvironment DEF Next

LEMMA SerialInit == Init => SerialInv
<1> SUFFICES ASSUME Init
             PROVE  SerialInv
  OBVIOUS
<1>1. SafeInv
  BY SafeInit
<1>2. OneAtATime /\ \A r \in Requests : SerialSound(req[r])
  BY DEF Init, Idle, OneAtATime, SerialSound
<1>3. CountedInFull
  BY DEF Init, CountedInFull, Tried, Exists, SerialKey
<1> QED BY <1>1, <1>2, <1>3 DEF SerialInv

LEMMA SerialSafe == Spec => []SerialInv
BY SerialInit, SerialStep, PTL DEF Spec

\* A user who waits for each reply loses no submission, whatever other users'
\* requests and failures come in between (Attempts++ of UpdateTry and EndTry).
THEOREM NothingIsLost == Spec => []NoSubmissionLost
<1>1. SerialInv => NoSubmissionLost
  BY DEF SerialInv, CountedInFull, Tried, NoSubmissionLost
<1> QED BY <1>1, SerialSafe, PTL

\* What a commit does to the row of a serial user that it writes.
LEMMA SerialCommitRow ==
    ASSUME SerialInv, NEW r \in Requests, Commit(r), req[r].key \in SerialKey, ~AsksInput(r)
    PROVE  /\ Exists(req[r].key) /\ ~IsSolved(rows[req[r].key])
           /\ rows'[req[r].key].attempts = rows[req[r].key].attempts + 1
           /\ Waited(rows[req[r].key], rows'[req[r].key].lastMove)
<1>1. SafeInv /\ SerialSound(req[r]) /\ RequestSound(req[r]) /\ req[r].pc = "commit"
  BY DEF SerialInv, SafeInv, Commit
<1>2. rows'[req[r].key] = req[r].copy /\ req[r].key # None
  BY <1>1, CommitRows, NoneAssumption DEF SerialKey
<1> QED BY <1>1, <1>2 DEF SerialSound, RequestSound, InTransaction, AsksInput, SerialKey

\* The cooldown checked before the call to BeeAPI and the transaction still
\* holds when a serial user's submission is committed (CheckRateLimit).
THEOREM CooldownsAreKept == Spec => CooldownRespected
<1>1. ASSUME SerialInv, NEW r \in Requests, Commit(r), NEW k \in SerialKey, Exists(k),
             rows'[k].attempts # rows[k].attempts
      PROVE  Waited(rows[k], rows'[k].lastMove)
  <2>1. SafeInv /\ RequestSound(req[r]) /\ k \in Key /\ req[r].pc = "commit"
    BY <1>1 DEF SerialInv, SafeInv, SerialKey, Commit
  <2>2. rows'[k] # rows[k]
    BY <1>1
  <2>3. ~(OpensNext(r) /\ k = NextStep(req[r].key))
    BY <1>1, <2>1, CommitRows
  <2>4. k = req[r].key
    BY <1>1, <2>1, <2>2, <2>3, CommitRows
  <2>5. ~AsksInput(r)
    BY <1>1, <2>1, <2>4 DEF RequestSound, AsksInput
  <2> QED BY <1>1, <2>4, <2>5, SerialCommitRow
<1>2. SerialInv /\ [Next]_vars
        => [\A k \in SerialKey :
              Exists(k) /\ rows'[k].attempts # rows[k].attempts /\ rows[k].lastMove # None
                => LET waited == rows'[k].lastMove - rows[k].lastMove
                   IN  /\ rows[k].attempts >= AttemptsThreshold2 => waited >= CooldownDuration2
                       /\ rows[k].attempts \in AttemptsThreshold1 .. AttemptsThreshold2 - 1
                            => waited >= CooldownDuration1]_rows
  BY <1>1, OnlyCommitWrites DEF Waited
<1> QED BY <1>2, SerialSafe, PTL DEF Spec, CooldownRespected

----------------------------------------------------------------------------
(* The refinement *)

\* A commit for a serial user is one step of the abstract life of a try.
LEMMA CommitRefines ==
    ASSUME SerialInv, NEW r \in Requests, Commit(r)
    PROVE  [Lifecycle!Next]_(Lifecycle!vars)
<1>. DEFINE key == req[r].key
<1>1. /\ SafeInv /\ TypeOK /\ WellFormed(req[r]) /\ RequestSound(req[r])
      /\ req[r].pc = "commit"
  BY DEF SerialInv, SafeInv, TypeInv, Commit
<1>2. key \in Key /\ req[r].copy \in Row /\ rows'[key] = req[r].copy /\ rows'[key] # None
  BY <1>1, CommitRows, NoneAssumption
<1>3. /\ NextStep(key).user = key.user /\ NextStep(key) \in Key
      /\ \A k \in Key : k # key /\ ~(OpensNext(r) /\ k = NextStep(key)) => rows'[k] = rows[k]
  BY <1>1, <1>2, CommitRows, NextStepType DEF NextStep, Key
<1>4. CASE key \notin SerialKey
  <2>1. \A k \in SerialKey : rows'[k] = rows[k]
    BY <1>2, <1>3, <1>4 DEF SerialKey
  <2>2. Stage' = Stage /\ Tried' = Tried
    BY <2>1 DEF Stage, Tried, Exists, IsSolved
  <2> QED BY <2>2 DEF Lifecycle!vars
<1>5. CASE key \in SerialKey
  <2>1. ASSUME NEW k \in SerialKey, k # key, ~(OpensNext(r) /\ k = NextStep(key))
        PROVE  Stage'[k] = Stage[k] /\ Tried'[k] = Tried[k]
    <3>1. rows'[k] = rows[k]
      BY <1>3, <2>1 DEF SerialKey
    <3> QED BY <2>1, <3>1 DEF Stage, Tried, Exists, IsSolved
  <2>2. /\ Stage'[key] = IF rows'[key].end # None THEN "solved" ELSE "open"
        /\ Tried'[key] = rows'[key].attempts
    BY <1>2, <1>5 DEF Stage, Tried, Exists, IsSolved
  <2>3. /\ Stage = [k \in SerialKey |-> Stage[k]] /\ Stage' = [k \in SerialKey |-> Stage'[k]]
        /\ Tried = [k \in SerialKey |-> Tried[k]] /\ Tried' = [k \in SerialKey |-> Tried'[k]]
    BY DEF Stage, Tried
  <2>4. rows'[key].end # None <=> IsRight(r)
    BY <1>1, <1>2 DEF WellFormed, Holding, IsRight
  <2>5. CASE AsksInput(r)
    <3>1. ~IsRight(r) /\ key.step = 1 /\ ~Exists(key) /\ rows'[key].attempts = 0
      BY <1>1, <1>2, <2>5, NoneAssumption, TriesAssumption
      DEF AsksInput, IsRight, WellFormed, RequestSound, InTransaction
    <3>2. Stage[key] = "none" /\ Tried[key] = 0
      BY <1>5, <3>1 DEF Stage, Tried
    <3>3. ~OpensNext(r)
      BY <3>1 DEF OpensNext
    <3>4. Stage' = [Stage EXCEPT ![key] = "open"]
      BY <1>5, <2>1, <2>2, <2>3, <2>4, <3>1, <3>3
    <3>5. Tried' = Tried
      BY <1>5, <2>1, <2>2, <2>3, <3>1, <3>2, <3>3
    <3>6. Lifecycle!Open(key)
      BY <3>1, <3>2, <3>4, <3>5 DEF Lifecycle!Open
    <3> QED BY <1>5, <3>6 DEF Lifecycle!Next
  <2>6. CASE ~AsksInput(r)
    <3>1. /\ Exists(key) /\ ~IsSolved(rows[key])
          /\ rows'[key].attempts = rows[key].attempts + 1
      BY <1>5, <2>6, SerialCommitRow
    <3>2. Stage[key] = "open" /\ Tried'[key] = Tried[key] + 1
      BY <1>5, <2>2, <3>1 DEF Stage, Tried
    <3>3. ASSUME OpensNext(r)
          PROVE  /\ NextStep(key) \in SerialKey /\ NextStep(key) # key
                 /\ Stage[NextStep(key)] = "none" /\ Stage'[NextStep(key)] = "open"
                 /\ Tried[NextStep(key)] = 0 /\ Tried'[NextStep(key)] = 0
      <4>1. NextStep(key) \in SerialKey
        BY <1>3, <1>5 DEF SerialKey
      <4>2. /\ NextStep(key) # key /\ rows'[NextStep(key)] = NextTry(r)
            /\ NextTry(r) \in Row
            /\ NextTry(r).attempts = 0 /\ NextTry(r).end = None /\ ~Exists(NextStep(key))
        BY <1>1, <3>3, CommitRows
      <4>3. rows'[NextStep(key)] # None
        BY <4>2, NoneAssumption
      <4> QED BY <4>1, <4>2, <4>3 DEF Stage, Tried, Exists, IsSolved
    <3>4. Tried' = [Tried EXCEPT ![key] = @ + 1]
      BY <1>5, <2>1, <2>3, <3>2, <3>3
    <3>5. CASE ~IsRight(r)
      <4>1. Stage' = Stage
        BY <1>5, <2>1, <2>2, <2>3, <2>4, <3>2, <3>5 DEF OpensNext
      <4>2. Lifecycle!Miss(key)
        BY <3>2, <3>4, <4>1 DEF Lifecycle!Miss
      <4> QED BY <1>5, <4>2 DEF Lifecycle!Next
    <3>6. CASE OpensNext(r)
      <4>1. IsRight(r) /\ key.step = 1
        BY <3>6 DEF OpensNext
      <4>2. Stage' = [[Stage EXCEPT ![key] = "solved"] EXCEPT ![NextStep(key)] = "open"]
        BY <1>5, <2>1, <2>2, <2>3, <2>4, <3>3, <3>6, <4>1
      <4>3. Lifecycle!SecondStep(key) = NextStep(key)
        BY DEF Lifecycle!SecondStep, NextStep
      <4>4. Lifecycle!Solve(key)
        BY <3>2, <3>3, <3>4, <3>6, <4>1, <4>2, <4>3 DEF Lifecycle!Solve
      <4> QED BY <1>5, <4>4 DEF Lifecycle!Next
    <3>7. CASE IsRight(r) /\ ~OpensNext(r)
      <4>1. key.step = 2
        BY <1>2, <3>7 DEF OpensNext, Key
      <4>2. Stage' = [Stage EXCEPT ![key] = "solved"]
        BY <1>5, <2>1, <2>2, <2>3, <2>4, <3>7
      <4>3. Lifecycle!Solve(key)
        BY <3>2, <3>4, <4>1, <4>2 DEF Lifecycle!Solve
      <4> QED BY <1>5, <4>3 DEF Lifecycle!Next
    <3> QED BY <3>5, <3>6, <3>7
  <2> QED BY <2>5, <2>6
<1> QED BY <1>4, <1>5

\* For users who wait for each reply the handlers, their transactions and all
\* that can fail in them implement the abstract life of a try.
THEOREM HandlersImplementLifecycle == Spec => ImplementsLifecycle
<1>1. Init => Lifecycle!Init
  <2>1. ASSUME Init
        PROVE  /\ Stage = [k \in SerialKey |-> "none"]
               /\ Tried = [k \in SerialKey |-> 0]
    BY <2>1 DEF Init, Stage, Tried, Exists, SerialKey
  <2> QED BY <2>1 DEF Lifecycle!Init
<1>2. SerialInv /\ [Next]_vars => [Lifecycle!Next]_(Lifecycle!vars)
  <2>1. ASSUME UNCHANGED rows
        PROVE  UNCHANGED Lifecycle!vars
    BY <2>1 DEF Lifecycle!vars, Stage, Tried, Exists, IsSolved
  <2> QED BY <2>1, OnlyCommitWrites, CommitRefines
<1> QED BY <1>1, <1>2, SerialSafe, PTL DEF Spec, ImplementsLifecycle, Lifecycle!Spec
=============================================================================
