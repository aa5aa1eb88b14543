---------------------------- MODULE SessionsProofs ----------------------------
(***************************************************************************)
(* What Sessions keeps for every set of tokens and goroutines and every    *)
(* lifetime and deadline: its types, that the text logged out with stays   *)
(* out, that a text is exchanged once, that the blocked get no token, and  *)
(* how old a cached session can be.                                        *)
(***************************************************************************)
EXTENDS Sessions, TLAPS

----------------------------------------------------------------------------
(* The inductive invariant *)

\* A request is at a call that its handler makes, with a token that was issued.
CallOK(x) ==
    /\ x.pc = "idle" => x.op = None
    /\ x.op = None => x.pc = "idle"
    /\ x.op = "login" => x.pc = "issue"
    /\ x.op = "refresh" => x.pc \in {"exists", "user", "issue"}
    /\ x.op = "logout" => x.pc \in {"set", "del"}
    /\ x.op = "check" => x.pc \in {"exists", "get", "user", "store"}
    /\ x.op = "profile" => x.pc \in {"exists", "del"}
    /\ x.op \notin {None, "login"} => x.text \in Texts
    /\ x.op \in {None, "login"} => ~x.out

Issued == \A r \in Requests : call[r].text # None => left[TrimSpace(call[r].text)] # None

\* The TTL of Logout is not shorter than what is left.
TTLs == \A r \in Requests : call[r].pc = "set" => call[r].remaining >= left[TrimSpace(call[r].text)]

CallsOK == \A r \in Requests : CallOK(call[r])

\* The key of a token that must not be used lives as long as the token.
Ended(s) == blacklist[s] >= left[TrimSpace(s)]

LoggedOutEnded == \A s \in loggedOut : left[TrimSpace(s)] # 0 => Ended(s)

\* A request with a token that was logged out before it began waits for an answer
\* to EXISTS, or is Logout again, or the token has expired.
OutCalls ==
    \A r \in Requests : call[r].out =>
      \/ left[TrimSpace(call[r].text)] = 0
      \/ call[r].text \in loggedOut /\ (call[r].pc = "exists" \/ call[r].op = "logout")

IsRefreshing(r, s) == call[r].op = "refresh" /\ call[r].text = s

\* Of a token whose refreshes neither overlapped nor failed, one at most is under
\* way; once it is exchanged its key lives on and no refresh is past it.
Rotation(s) ==
    /\ renewed[s] <= 1
    /\ renewed[s] = 1 => left[TrimSpace(s)] \notin {None, 0} /\ Ended(s)
    /\ renewed[s] = 1 => \A r \in Requests : IsRefreshing(r, s) => call[r].pc = "exists"
    /\ left[TrimSpace(s)] # 0 => \A r, q \in Requests :
                        IsRefreshing(r, s) /\ IsRefreshing(q, s) => r = q

Rotations == \A s \in Texts \ unsure : Rotation(s)

\* Nobody is behind an account that is not blocked.
Behind == (behind # {} => blocked) /\ BlockedGetsNoToken

CacheOK ==
    cache # None /\ cache.ttl # None => cache.ttl >= 1 /\ cache.age + cache.ttl <= MaxAge

SessionsInv ==
    /\ TypeOK
    /\ CallsOK
    /\ Issued
    /\ TTLs
    /\ LoggedOutEnded
    /\ OutCalls
    /\ Rotations
    /\ Behind
    /\ CacheOK

----------------------------------------------------------------------------
(* Single steps *)

\* What is left of a text is a token.
LEMMA TrimmedToken == \A s \in Texts : TrimSpace(s) \in Tokens
BY DEF Texts, TrimSpace

\* An idle goroutine serves nobody.
LEMMA IdleFacts ==
    /\ Idle \in Call /\ CallOK(Idle)
    /\ Idle.op = None /\ Idle.pc = "idle" /\ Idle.text = None /\ ~Idle.out
BY DurationsAssumption, SessionsNoneAssumption DEF Idle, Call, Pcs, Ops, CallOK

\* No token, no key and no request to begin with.
LEMMA SessionsInit == Init => SessionsInv
<1> SUFFICES ASSUME Init
             PROVE  SessionsInv
  OBVIOUS
<1>1. TypeOK
  <2>1. 0 \in 0 .. JWTExpiration /\ 0 \in 0 .. 2
    BY DurationsAssumption
  <2>2. left \in [Tokens -> 0 .. JWTExpiration \cup {None}]
    BY DEF Init
  <2>3. blacklist \in [Texts -> 0 .. JWTExpiration] /\ renewed \in [Texts -> 0 .. 2]
    BY <2>1 DEF Init
  <2>4. call \in [Requests -> Call]
    BY IdleFacts DEF Init
  <2>5. \A s \in Texts : blacklist[s] = 0 /\ s \notin loggedOut
    BY DEF Init
  <2> QED BY <2>2, <2>3, <2>4, <2>5 DEF Init, TypeOK
<1>2. \A r \in Requests : call[r] = Idle
  BY DEF Init
<1>3. CallsOK /\ Issued /\ TTLs /\ OutCalls
  BY <1>2, IdleFacts DEF CallsOK, Issued, TTLs, OutCalls
<1>4. LoggedOutEnded /\ Behind /\ CacheOK
  BY DEF Init, LoggedOutEnded, Behind, BlockedGetsNoToken, CacheOK
<1>5. \A r \in Requests, s \in Texts : ~IsRefreshing(r, s)
  BY <1>2, IdleFacts, SessionsNoneAssumption DEF IsRefreshing, Ops
<1>6. \A s \in Texts : renewed[s] = 0
  BY DEF Init
<1>7. Rotations
  BY <1>5, <1>6 DEF Rotations, Rotation
<1> QED BY <1>1, <1>3, <1>4, <1>7 DEF SessionsInv

\* The tokens and their keys stay as they are; more of the history may be unsure.
SameTokens ==
    /\ UNCHANGED <<left, blacklist, loggedOut, renewed>>
    /\ unsure \subseteq unsure' /\ unsure' \subseteq Texts

\* Only the goroutine of r has moved.
Moves(r) ==
    /\ call' \in [Requests -> Call]
    /\ \A q \in Requests \ {r} : call'[q] = call[q]

\* A goroutine that goes on keeps its request.
LEMMA GotoFields ==
    ASSUME TypeOK, NEW r \in Requests, NEW pc \in Pcs, Goto(r, pc)
    PROVE  /\ Moves(r) /\ behind' = behind
           /\ call'[r].pc = pc /\ call'[r].op = call[r].op /\ call'[r].text = call[r].text
           /\ call'[r].elapsed = call[r].elapsed /\ call'[r].out = call[r].out
           /\ call'[r].remaining = call[r].remaining
<1>1. [call[r] EXCEPT !.pc = pc] \in Call
  BY DEF TypeOK, Call
<1>2. call' = [call EXCEPT ![r] = [call[r] EXCEPT !.pc = pc]] /\ behind' = behind
  BY DEF Goto
<1>3. call'[r] = [call[r] EXCEPT !.pc = pc] /\ call[r] \in Call
  BY <1>2 DEF TypeOK
<1>4. Moves(r)
  BY <1>1, <1>2 DEF Moves, TypeOK
<1> QED BY <1>2, <1>3, <1>4 DEF Call

\* A request that ends leaves an idle goroutine.
LEMMA FinishFields ==
    ASSUME TypeOK, NEW r \in Requests, Finish(r)
    PROVE  Moves(r) /\ call'[r] = Idle /\ behind' = behind \ {r}
BY IdleFacts DEF Finish, Moves, TypeOK

\* A request begins at the call it is given.
LEMMA StartFields ==
    ASSUME TypeOK, NEW r \in Requests, NEW op \in Ops, NEW pc \in Pcs,
           NEW s \in Texts \cup {None},
           op = "logout" => left[TrimSpace(s)] \in 0 .. JWTExpiration,
           Start(r, op, pc, s)
    PROVE  /\ Moves(r)
           /\ call'[r].pc = pc /\ call'[r].op = op /\ call'[r].text = s
           /\ call'[r].out = (s \in loggedOut)
           /\ op = "logout" => call'[r].remaining = left[TrimSpace(s)]
           /\ behind' = IF blocked THEN behind \cup {r} ELSE behind
<1> DEFINE x == [op |-> op, pc |-> pc, text |-> s, elapsed |-> 0,
                 remaining |-> IF op = "logout" THEN left[TrimSpace(s)] ELSE 0,
                 out |-> s \in loggedOut]
<1>1. 0 \in 0 .. SessionTimeout + 1 /\ 0 \in 0 .. JWTExpiration
  BY DurationsAssumption
<1>2. x \in Call
  BY <1>1 DEF Call
<1>3. call' = [call EXCEPT ![r] = x]
  BY DEF Start
<1>4. call'[r] = x
  BY <1>3 DEF TypeOK
<1>5. Moves(r)
  BY <1>2, <1>3 DEF Moves, TypeOK
<1> QED BY <1>4, <1>5 DEF Start

\* A goroutine that is at a call serves the request that makes it.
LEMMA AtCall ==
    ASSUME SessionsInv, NEW r \in Requests
    PROVE  /\ call[r] \in Call /\ CallOK(call[r])
           /\ call[r].op \in Ops \cup {None} /\ call[r].pc \in Pcs
           /\ call[r].text # None => call[r].text \in Texts /\ left[TrimSpace(call[r].text)] # None
<1>1. call[r] \in Call /\ CallOK(call[r])
  BY DEF SessionsInv, TypeOK, CallsOK
<1> QED BY <1>1 DEF SessionsInv, Issued, Call

\* What a step of one goroutine has to keep when it leaves the tokens alone.
LEMMA Advance ==
    ASSUME SessionsInv, NEW r \in Requests, Moves(r), SameTokens, UNCHANGED blocked,
           behind' \subseteq behind \cup {r},
           r \in behind' => blocked /\ call'[r].pc \notin {"issue", "store"},
           CallOK(call'[r]),
           call'[r].text # None => left[TrimSpace(call'[r].text)] # None,
           call'[r].pc = "set" => call'[r].remaining >= left[TrimSpace(call'[r].text)],
           call'[r].out =>
             \/ left[TrimSpace(call'[r].text)] = 0
             \/ /\ call'[r].text \in loggedOut
                /\ call'[r].pc = "exists" \/ call'[r].op = "logout",
           \A s \in Texts \ unsure' : IsRefreshing(r, s)' =>
             /\ left[TrimSpace(s)] # 0 => \A q \in Requests : IsRefreshing(q, s) => q = r
             /\ renewed[s] = 1 => call'[r].pc = "exists",
           cache' \in CachedSession \cup {None}, CacheOK'
    PROVE  SessionsInv'
<1>1. TypeOK'
  BY DEF SessionsInv, TypeOK, SameTokens, Moves
<1>2. CallsOK'
  BY DEF SessionsInv, CallsOK, Moves
<1>3. Issued' /\ TTLs'
  BY DEF SessionsInv, Issued, TTLs, Moves, SameTokens
<1>4. LoggedOutEnded'
  BY DEF SessionsInv, LoggedOutEnded, Ended, SameTokens
<1>5. OutCalls'
  BY DEF SessionsInv, OutCalls, Moves, SameTokens
<1>6. Rotations'
  <2> SUFFICES ASSUME NEW s \in Texts \ unsure'
               PROVE  Rotation(s)'
    BY DEF Rotations
  <2>1. Rotation(s)
    BY DEF SessionsInv, Rotations, SameTokens
  <2>2. \A q \in Requests \ {r} : call'[q] = call[q] /\ (IsRefreshing(q, s)' <=> IsRefreshing(q, s))
    BY DEF IsRefreshing, Moves
  <2>3. renewed[s] = 1 => \A q \in Requests : IsRefreshing(q, s)' => call'[q].pc = "exists"
    BY <2>1, <2>2 DEF Rotation
  <2>4. left[TrimSpace(s)] # 0 => \A p, q \in Requests :
                         IsRefreshing(p, s)' /\ IsRefreshing(q, s)' => p = q
    BY <2>1, <2>2 DEF Rotation
  <2>5. renewed'[s] = renewed[s] /\ left'[TrimSpace(s)] = left[TrimSpace(s)] /\ blacklist'[s] = blacklist[s]
    BY DEF SameTokens
  <2> QED BY <2>1, <2>3, <2>4, <2>5 DEF Rotation, Ended
<1>7. Behind'
  <2>1. ASSUME NEW q \in behind'
        PROVE  blocked' /\ call'[q].pc \notin {"issue", "store"}
    <3>1. CASE q = r
      BY <3>1
    <3>2. CASE q # r
      <4>1. q \in behind /\ q \in Requests
        BY <3>2 DEF SessionsInv, TypeOK
      <4>2. call'[q] = call[q]
        BY <3>2, <4>1 DEF Moves
      <4>3. blocked /\ call[q].pc \notin {"issue", "store"}
        BY <4>1 DEF SessionsInv, Behind, BlockedGetsNoToken
      <4> QED BY <4>2, <4>3
    <3> QED BY <3>1, <3>2
  <2> QED BY <2>1 DEF Behind, BlockedGetsNoToken
<1> QED BY <1>1, <1>2, <1>3, <1>4, <1>5, <1>6, <1>7 DEF SessionsInv
----------------------------------------------------------------------------
(* Steps that leave the tokens alone *)

\* A goroutine that ends its request keeps the invariant, whatever becomes of the
\* cached session and of what is known of the history.
LEMMA FinishKeeps ==
    ASSUME SessionsInv, NEW r \in Requests, Finish(r), SameTokens, UNCHANGED blocked,
           cache' \in CachedSession \cup {None}, CacheOK'
    PROVE  SessionsInv'
<1>1. Moves(r) /\ call'[r] = Idle /\ behind' = behind \ {r}
  BY FinishFields DEF SessionsInv
<1>2. \A s \in Texts : ~IsRefreshing(r, s)'
  BY <1>1, IdleFacts, SessionsNoneAssumption DEF IsRefreshing, Ops
<1> QED BY <1>1, <1>2, IdleFacts, Advance

\* A goroutine that goes on to a later call of its handler keeps the invariant if
\* its token is not out: past EXISTS only Logout serves such a one, until it expires.
LEMMA GotoKeeps ==
    ASSUME SessionsInv, NEW r \in Requests, NEW pc \in Pcs \ {"set", "idle", "exists"},
           Goto(r, pc), SameTokens, UNCHANGED blocked,
           r \in behind => pc \notin {"issue", "store"},
           CallOK(call'[r]),
           call[r].out => left[TrimSpace(call[r].text)] = 0 \/ call[r].op = "logout",
           \A s \in Texts \ unsure' : IsRefreshing(r, s) => renewed[s] # 1,
           cache' \in CachedSession \cup {None}, CacheOK'
    PROVE  SessionsInv'
<1>1. /\ Moves(r) /\ behind' = behind
      /\ call'[r].pc = pc /\ call'[r].op = call[r].op /\ call'[r].text = call[r].text
      /\ call'[r].out = call[r].out
  BY GotoFields DEF SessionsInv
<1>2. \A s \in Texts : IsRefreshing(r, s)' <=> IsRefreshing(r, s)
  BY <1>1 DEF IsRefreshing
<1>3. r \in behind => blocked
  BY DEF SessionsInv, Behind
<1>4. call'[r].text # None => left[TrimSpace(call'[r].text)] # None
  BY <1>1 DEF SessionsInv, Issued
<1>5. call'[r].out =>
        \/ left[TrimSpace(call'[r].text)] = 0
        \/ /\ call'[r].text \in loggedOut
           /\ call'[r].pc = "exists" \/ call'[r].op = "logout"
  BY <1>1 DEF SessionsInv, OutCalls
<1>6. ASSUME NEW s \in Texts \ unsure', IsRefreshing(r, s)'
      PROVE  /\ left[TrimSpace(s)] # 0 => \A q \in Requests : IsRefreshing(q, s) => q = r
             /\ renewed[s] = 1 => call'[r].pc = "exists"
  <2>1. IsRefreshing(r, s) /\ renewed[s] # 1
    BY <1>2, <1>6
  <2>2. Rotation(s)
    BY DEF SessionsInv, Rotations, SameTokens
  <2> QED BY <2>1, <2>2 DEF Rotation
<1> QED BY <1>1, <1>3, <1>4, <1>5, <1>6, Advance

\* Login begins.
LEMMA LoginKeeps ==
    ASSUME SessionsInv, NEW r \in Requests, Login(r)
    PROVE  SessionsInv'
<1>1. "login" \in Ops /\ "issue" \in Pcs
  BY DEF Ops, Pcs
<1>2. Start(r, "login", "issue", None) /\ ~blocked
  BY DEF Login
<1>3. /\ Moves(r) /\ behind' = behind
      /\ call'[r].pc = "issue" /\ call'[r].op = "login" /\ call'[r].text = None
      /\ call'[r].out = (None \in loggedOut)
  BY <1>1, <1>2, StartFields DEF SessionsInv
<1>4. ~call'[r].out
  BY <1>3, SessionsNoneAssumption DEF SessionsInv, TypeOK
<1>5. CallOK(call'[r])
  BY <1>3, <1>4, <1>1, SessionsNoneAssumption DEF CallOK
<1>6. r \notin behind'
  BY <1>2, <1>3 DEF SessionsInv, Behind
<1>7. SameTokens /\ UNCHANGED <<blocked, cache>>
  BY DEF Login, SameTokens, SessionsInv, TypeOK
<1>8. cache' \in CachedSession \cup {None} /\ CacheOK'
  BY <1>7 DEF SessionsInv, TypeOK, CacheOK
<1>9. \A s \in Texts : ~IsRefreshing(r, s)'
  BY <1>3 DEF IsRefreshing
<1> QED BY <1>3, <1>4, <1>5, <1>6, <1>7, <1>8, <1>9, Advance

\* A request is validated: a second refresh of its token makes it unsure.
LEMMA ValidateTokenKeeps ==
    ASSUME SessionsInv, NEW r \in Requests, NEW op \in Ops \ {"login"}, NEW s \in Texts,
           ValidateToken(r, op, s)
    PROVE  SessionsInv'
<1> DEFINE pc == IF op = "logout" THEN "set" ELSE "exists"
<1>1. pc \in Pcs /\ pc \in {"set", "exists"} /\ (pc = "set" <=> op = "logout")
  BY DEF Pcs
<1>2. left[TrimSpace(s)] \in 0 .. JWTExpiration /\ left[TrimSpace(s)] # None /\ left[TrimSpace(s)] \in Nat
  BY TrimmedToken DEF ValidateToken, SessionsInv, TypeOK
<1>3. Start(r, op, pc, s)
  BY DEF ValidateToken
<1> HIDE DEF pc
<1>4. /\ Moves(r)
      /\ call'[r].pc = pc /\ call'[r].op = op /\ call'[r].text = s
      /\ call'[r].out = (s \in loggedOut)
      /\ op = "logout" => call'[r].remaining = left[TrimSpace(s)]
      /\ behind' = IF blocked THEN behind \cup {r} ELSE behind
  BY <1>1, <1>2, <1>3, StartFields DEF SessionsInv
<1>5. op # None
  BY SessionsNoneAssumption
<1>6. CallOK(call'[r])
  BY <1>1, <1>4, <1>5 DEF CallOK, Ops
<1>7. behind' \subseteq behind \cup {r} /\ (r \in behind' => blocked)
  BY <1>4 DEF SessionsInv, Behind
<1>8. SameTokens /\ UNCHANGED <<blocked, cache>>
  BY DEF ValidateToken, SameTokens, SessionsInv, TypeOK
<1>9. cache' \in CachedSession \cup {None} /\ CacheOK'
  BY <1>8 DEF SessionsInv, TypeOK, CacheOK
<1>10. call'[r].out => call'[r].text \in loggedOut /\ (call'[r].pc = "exists" \/ call'[r].op = "logout")
  BY <1>1, <1>4
<1>11. call'[r].pc = "set" => call'[r].remaining >= left[TrimSpace(call'[r].text)]
  BY <1>1, <1>2, <1>4
<1>12. ASSUME NEW u \in Texts \ unsure', IsRefreshing(r, u)'
       PROVE  /\ left[TrimSpace(u)] # 0 => \A q \in Requests : IsRefreshing(q, u) => q = r
              /\ renewed[u] = 1 => call'[r].pc = "exists"
  <2>1. op = "refresh" /\ u = s
    BY <1>4, <1>12 DEF IsRefreshing
  <2>2. Refreshing(s) = {}
    BY <2>1 DEF ValidateToken
  <2>3. \A q \in Requests : ~IsRefreshing(q, s)
    BY <2>2 DEF Refreshing, IsRefreshing
  <2> QED BY <2>1, <2>3, <1>1, <1>4
<1> QED BY <1>1, <1>2, <1>4, <1>6, <1>7, <1>8, <1>9, <1>10, <1>11, <1>12, Advance

\* EXISTS answers: past it the token is not on the blacklist, so it was neither
\* logged out nor exchanged, or has expired.
LEMMA ExistsKeeps ==
    ASSUME SessionsInv, NEW r \in Requests, Exists(r)
    PROVE  SessionsInv'
<1> DEFINE s == call[r].text
           op == call[r].op
<1>1. SameTokens /\ UNCHANGED <<blocked, cache>>
  BY DEF Exists, SameTokens, SessionsInv, TypeOK
<1>2. cache' \in CachedSession \cup {None} /\ CacheOK'
  BY <1>1 DEF SessionsInv, TypeOK, CacheOK
<1>3. CASE Finish(r)
  BY <1>1, <1>2, <1>3, FinishKeeps
<1>4. CASE ~Blacklisted(s) /\ Goto(r, AfterExists(op))
  <2>1. op \in {"refresh", "check", "profile"} /\ s \in Texts /\ call[r].pc = "exists"
    BY AtCall, SessionsNoneAssumption DEF Exists, CallOK, Ops
  <2>2. left[TrimSpace(s)] \in 0 .. JWTExpiration \cup {None} /\ blacklist[s] \in 0 .. JWTExpiration
    BY TrimmedToken, <2>1 DEF SessionsInv, TypeOK
  <2>3. blacklist[s] = 0 /\ left[TrimSpace(s)] # None
    BY <1>4, <2>1, <2>2, AtCall, SessionsNoneAssumption DEF Blacklisted
  <2>4. Ended(s) => left[TrimSpace(s)] = 0
    BY <2>2, <2>3 DEF Ended
  <2>5. call[r].out => left[TrimSpace(s)] = 0
    BY <2>1, <2>4 DEF SessionsInv, OutCalls, LoggedOutEnded
  <2>6. ASSUME NEW u \in Texts \ unsure', IsRefreshing(r, u)
        PROVE  renewed[u] # 1
    <3>1. Rotation(u) /\ u = s
      BY <1>1, <2>6 DEF SessionsInv, Rotations, SameTokens, IsRefreshing
    <3> QED BY <3>1, <2>4 DEF Rotation
  <2>7. AfterExists(op) \in Pcs \ {"set", "idle", "exists", "issue", "store"}
    BY <2>1 DEF AfterExists, Pcs
  <2>8. /\ call'[r].pc = AfterExists(op) /\ call'[r].op = op /\ call'[r].text = s
        /\ call'[r].out = call[r].out
    BY <1>4, <2>7, GotoFields DEF SessionsInv
  <2>9. CallOK(call'[r])
    BY <2>1, <2>8, SessionsNoneAssumption DEF CallOK, AfterExists, Ops
  <2> QED BY <1>1, <1>2, <1>4, <2>5, <2>6, <2>7, <2>9, GotoKeeps
<1> QED BY <1>3, <1>4 DEF Exists

\* EXISTS fails: the request says no more that its token was out, and a refresh
\* makes the history of its token unsure.
LEMMA ExistsFailsKeeps ==
    ASSUME SessionsInv, NEW r \in Requests, ExistsFails(r)
    PROVE  SessionsInv'
<1> DEFINE s == call[r].text
           op == call[r].op
           x == [call[r] EXCEPT !.pc = AfterExists(op), !.out = FALSE]
<1>1. op \in {"refresh", "check", "profile"} /\ s \in Texts /\ left[TrimSpace(s)] # None /\ call[r] \in Call
  BY AtCall, SessionsNoneAssumption DEF ExistsFails, CallOK, Ops
<1>2. AfterExists(op) \in Pcs \ {"set", "idle", "exists", "issue", "store"}
  BY <1>1 DEF AfterExists, Pcs
<1>3. call' = [call EXCEPT ![r] = x] /\ behind' = behind
  BY DEF ExistsFails
<1>4. x \in Call
  BY <1>1, <1>2 DEF Call
<1>5. /\ x.pc = AfterExists(op) /\ x.op = op /\ x.text = s /\ x.out = FALSE
  BY <1>1 DEF Call
<1>6. Moves(r) /\ call'[r] = x
  BY <1>3, <1>4 DEF Moves, SessionsInv, TypeOK
<1> HIDE DEF x
<1>7. CallOK(call'[r])
  BY <1>1, <1>5, <1>6, SessionsNoneAssumption DEF CallOK, AfterExists, Ops
<1>8. SameTokens /\ UNCHANGED <<blocked, cache>>
  BY <1>1 DEF ExistsFails, SameTokens, SessionsInv, TypeOK
<1>9. cache' \in CachedSession \cup {None} /\ CacheOK'
  BY <1>8 DEF SessionsInv, TypeOK, CacheOK
<1>10. \A u \in Texts \ unsure' : ~IsRefreshing(r, u)'
  BY <1>5, <1>6 DEF IsRefreshing, ExistsFails
<1>11. r \in behind' => blocked /\ call'[r].pc \notin {"issue", "store"}
  BY <1>2, <1>3, <1>5, <1>6 DEF SessionsInv, Behind
<1> QED BY <1>1, <1>2, <1>3, <1>5, <1>6, <1>7, <1>8, <1>9, <1>10, <1>11, Advance

\* Past EXISTS a refresh is not of a token that was exchanged, and nobody serves
\* a token that was out.
LEMMA PastExists ==
    ASSUME SessionsInv, NEW r \in Requests, call[r].pc # "exists"
    PROVE  /\ call[r].out => left[TrimSpace(call[r].text)] = 0 \/ call[r].op = "logout"
           /\ \A s \in Texts \ unsure : IsRefreshing(r, s) => renewed[s] # 1
BY DEF SessionsInv, OutCalls, Rotations, Rotation

\* CheckAuth asks for the cached session.
LEMMA GetCachedKeeps ==
    ASSUME SessionsInv, NEW r \in Requests, GetCached(r)
    PROVE  SessionsInv'
<1>1. SameTokens /\ UNCHANGED <<blocked, cache>> /\ unsure' = unsure
  BY DEF GetCached, SameTokens, SessionsInv, TypeOK
<1>2. cache' \in CachedSession \cup {None} /\ CacheOK'
  BY <1>1 DEF SessionsInv, TypeOK, CacheOK
<1>3. CASE Finish(r)
  BY <1>1, <1>2, <1>3, FinishKeeps
<1>4. CASE Goto(r, "user")
  <2>1. call[r].pc = "get" /\ call[r].op = "check" /\ call[r].text \in Texts
    BY AtCall, SessionsNoneAssumption DEF GetCached, CallOK, Ops
  <2>2. "user" \in Pcs \ {"set", "idle", "exists"}
    BY DEF Pcs
  <2>3. /\ call'[r].pc = "user" /\ call'[r].op = "check" /\ call'[r].text \in Texts
    BY <1>4, <2>1, <2>2, GotoFields DEF SessionsInv
  <2>4. CallOK(call'[r])
    BY <2>3, SessionsNoneAssumption DEF CallOK, Ops
  <2> QED BY <1>1, <1>2, <1>4, <2>1, <2>2, <2>4, PastExists, GotoKeeps
<1> QED BY <1>3, <1>4 DEF GetCached

\* The row is read: who goes on is not behind a blocked account.
LEMMA ReadUserKeeps ==
    ASSUME SessionsInv, NEW r \in Requests, ReadUser(r)
    PROVE  SessionsInv'
<1> DEFINE pc == IF call[r].op = "refresh" THEN "issue" ELSE "store"
<1>1. SameTokens /\ UNCHANGED <<blocked, cache>> /\ unsure' = unsure
  BY DEF ReadUser, SameTokens, SessionsInv, TypeOK
<1>2. cache' \in CachedSession \cup {None} /\ CacheOK'
  BY <1>1 DEF SessionsInv, TypeOK, CacheOK
<1>3. CASE Finish(r)
  BY <1>1, <1>2, <1>3, FinishKeeps
<1>4. CASE ~blocked /\ Goto(r, pc)
  <2>1. /\ call[r].pc = "user" /\ call[r].op \in {"refresh", "check"} /\ call[r].text \in Texts
    BY AtCall, SessionsNoneAssumption DEF ReadUser, CallOK, Ops
  <2>2. pc \in Pcs \ {"set", "idle", "exists"}
    BY DEF Pcs
  <2>3. call'[r].pc = pc /\ call'[r].op = call[r].op /\ call'[r].text \in Texts
    BY <1>4, <2>1, <2>2, GotoFields DEF SessionsInv
  <2>4. CallOK(call'[r])
    BY <2>1, <2>3, SessionsNoneAssumption DEF CallOK, Ops
  <2>5. r \notin behind
    BY <1>4 DEF SessionsInv, Behind
  <2> HIDE DEF pc
  <2> QED BY <1>1, <1>2, <1>4, <2>1, <2>2, <2>4, <2>5, PastExists, GotoKeeps
<1> QED BY <1>3, <1>4 DEF ReadUser

\* A session is cached no older than the deadline lets it be, for UserCacheDuration
\* at most, or without a TTL.
LEMMA StoreKeeps ==
    ASSUME SessionsInv, NEW r \in Requests, Store(r)
    PROVE  SessionsInv'
<1> DEFINE s == call[r].text
<1>1. SameTokens /\ UNCHANGED blocked /\ Finish(r)
  BY DEF Store, SameTokens, SessionsInv, TypeOK
<1>2. CASE UNCHANGED cache
  <2>1. cache' \in CachedSession \cup {None} /\ CacheOK'
    BY <1>2 DEF SessionsInv, TypeOK, CacheOK
  <2> QED BY <1>1, <2>1, FinishKeeps
<1>3. CASE InTime(r) /\ cache' = [age |-> call[r].elapsed, ttl |-> CacheTTL(TrimSpace(s))]
  <2>1. call[r].op = "check" /\ s \in Texts /\ left[TrimSpace(s)] # None /\ call[r] \in Call
    BY AtCall, SessionsNoneAssumption DEF Store, CallOK, Ops
  <2>2. left[TrimSpace(s)] \in 0 .. JWTExpiration
    BY TrimmedToken, <2>1 DEF SessionsInv, TypeOK
  <2>3. CacheTTL(TrimSpace(s)) = None \/ CacheTTL(TrimSpace(s)) \in 1 .. UserCacheDuration
    BY <2>2, DurationsAssumption DEF CacheTTL
  <2>4. call[r].elapsed \in 0 .. SessionTimeout
    BY <1>3, <2>1, DurationsAssumption DEF InTime, Call
  <2>5. cache' \in CachedSession
    BY <1>3, <2>3, <2>4 DEF CachedSession
  <2>6. cache'.age = call[r].elapsed /\ cache'.ttl = CacheTTL(TrimSpace(s))
    BY <1>3
  <2> HIDE DEF s
  <2>7. cache'.ttl # None => cache'.ttl >= 1 /\ cache'.age + cache'.ttl <= MaxAge
    BY <2>3, <2>4, <2>6, DurationsAssumption DEF MaxAge
  <2>8. CacheOK'
    BY <2>7 DEF CacheOK
  <2> QED BY <1>1, <2>5, <2>8, FinishKeeps
<1> QED BY <1>2, <1>3 DEF Store

\* The cached session is deleted.
LEMMA ForgetKeeps ==
    ASSUME SessionsInv, NEW r \in Requests, Forget(r)
    PROVE  SessionsInv'
<1>1. SameTokens /\ UNCHANGED blocked /\ Finish(r)
  BY DEF Forget, SameTokens, SessionsInv, TypeOK
<1>2. cache' = None \/ cache' = cache
  BY DEF Forget
<1>3. cache' \in CachedSession \cup {None} /\ CacheOK'
  BY <1>2 DEF SessionsInv, TypeOK, CacheOK
<1> QED BY <1>1, <1>3, FinishKeeps

----------------------------------------------------------------------------
(* Steps that change a token or its key *)

\* A token that is issued is nobody's yet, and has no key and no history.
LEMMA GenerateJWTFacts ==
    ASSUME SessionsInv, GenerateJWT
    PROVE  /\ left' \in [Tokens -> 0 .. JWTExpiration \cup {None}]
           /\ \A s \in Texts : left[TrimSpace(s)] # None => left'[TrimSpace(s)] = left[TrimSpace(s)]
           /\ \A s \in Texts : left[TrimSpace(s)] = None =>
                /\ left'[TrimSpace(s)] \in {None, JWTExpiration}
                /\ blacklist[s] = 0 /\ s \notin loggedOut
                /\ \A r \in Requests : call[r].text # s
<1>1. JWTExpiration \in 0 .. JWTExpiration
  BY DurationsAssumption
<1>2. left' \in [Tokens -> 0 .. JWTExpiration \cup {None}]
  BY <1>1 DEF GenerateJWT, SessionsInv, TypeOK
<1>3. \A s \in Texts : left[TrimSpace(s)] # None => left'[TrimSpace(s)] = left[TrimSpace(s)]
  BY TrimmedToken DEF GenerateJWT, SessionsInv, TypeOK
<1>4. \A s \in Texts : left[TrimSpace(s)] = None => left'[TrimSpace(s)] \in {None, JWTExpiration}
  BY TrimmedToken DEF GenerateJWT, SessionsInv, TypeOK
<1>5. \A s \in Texts : left[TrimSpace(s)] = None =>
        /\ blacklist[s] = 0 /\ s \notin loggedOut
        /\ \A r \in Requests : call[r].text # s
  BY SessionsNoneAssumption DEF SessionsInv, TypeOK, Issued
<1> QED BY <1>2, <1>3, <1>4, <1>5

\* A token is issued by a request that ends, whatever key and history it leaves
\* to its own token.
LEMMA IssueKeeps ==
    ASSUME SessionsInv, NEW r \in Requests, GenerateJWT, Moves(r), call'[r] = Idle,
           behind' \subseteq behind, blocked' \in BOOLEAN, behind' # {} => blocked',
           UNCHANGED <<cache, loggedOut>>,
           blacklist' \in [Texts -> 0 .. JWTExpiration],
           renewed' \in [Texts -> 0 .. 2],
           unsure \subseteq unsure', unsure' \subseteq Texts,
           \A s \in Texts : left[TrimSpace(s)] = None => blacklist'[s] = blacklist[s] /\ renewed'[s] = renewed[s],
           \A s \in Texts : Ended(s) /\ left[TrimSpace(s)] # None => blacklist'[s] >= left[TrimSpace(s)],
           \A s \in Texts \ unsure' : left[TrimSpace(s)] # None =>
             \/ renewed'[s] = renewed[s]
             \/ /\ renewed'[s] = 1 /\ left[TrimSpace(s)] # 0 /\ blacklist'[s] >= left[TrimSpace(s)]
                /\ \A q \in Requests : IsRefreshing(q, s) => q = r
    PROVE  SessionsInv'
<1>1. \A q \in Requests : call'[q] = call[q] \/ call'[q] = Idle
  BY DEF Moves
<1>2. TypeOK'
  <2>1. \A s \in Texts : left'[TrimSpace(s)] = None => blacklist'[s] = 0 /\ s \notin loggedOut'
    BY GenerateJWTFacts
  <2> QED BY <2>1, GenerateJWTFacts DEF SessionsInv, TypeOK, Moves
<1>3. CallsOK'
  BY <1>1, IdleFacts DEF SessionsInv, CallsOK
<1>4. \A q \in Requests : call'[q].text # None =>
        /\ call'[q] = call[q] /\ call[q].text \in Texts
        /\ left'[TrimSpace(call[q].text)] = left[TrimSpace(call[q].text)] /\ left[TrimSpace(call[q].text)] # None
  BY <1>1, IdleFacts, AtCall, GenerateJWTFacts
<1>5. Issued'
  BY <1>4 DEF Issued
<1>6. TTLs'
  <2> SUFFICES ASSUME NEW q \in Requests, call'[q].pc = "set"
               PROVE  call'[q].remaining >= left'[TrimSpace(call'[q].text)]
    BY DEF TTLs
  <2>1. call'[q] = call[q]
    BY <1>1, IdleFacts
  <2>2. call[q].text # None
    BY <2>1, AtCall, SessionsNoneAssumption DEF CallOK, Ops
  <2> QED BY <2>1, <2>2, <1>4 DEF SessionsInv, TTLs
<1>7. LoggedOutEnded'
  <2> SUFFICES ASSUME NEW s \in loggedOut, left'[TrimSpace(s)] # 0
               PROVE  blacklist'[s] >= left'[TrimSpace(s)]
    BY DEF LoggedOutEnded, Ended
  <2>1. s \in Texts /\ left[TrimSpace(s)] # None /\ left'[TrimSpace(s)] = left[TrimSpace(s)]
    BY GenerateJWTFacts DEF SessionsInv, TypeOK
  <2> QED BY <2>1 DEF SessionsInv, LoggedOutEnded
<1>8. OutCalls'
  <2> SUFFICES ASSUME NEW q \in Requests, call'[q].out
               PROVE  \/ left'[TrimSpace(call'[q].text)] = 0
                      \/ /\ call'[q].text \in loggedOut'
                         /\ call'[q].pc = "exists" \/ call'[q].op = "logout"
    BY DEF OutCalls
  <2>1. call'[q] = call[q] /\ call[q].op \notin {None, "login"}
    BY <1>1, IdleFacts, AtCall DEF CallOK
  <2>2. call'[q].text # None
    BY <2>1, AtCall, SessionsNoneAssumption DEF CallOK
  <2> QED BY <2>1, <2>2, <1>4 DEF SessionsInv, OutCalls
<1>9. Rotations'
  <2> SUFFICES ASSUME NEW s \in Texts \ unsure'
               PROVE  Rotation(s)'
    BY DEF Rotations
  <2>1. Rotation(s)
    BY DEF SessionsInv, Rotations
  <2>2. \A q \in Requests : IsRefreshing(q, s)' =>
          q # r /\ IsRefreshing(q, s) /\ call'[q] = call[q]
    <3>1. ~IsRefreshing(r, s)'
      BY IdleFacts, SessionsNoneAssumption DEF IsRefreshing
    <3> QED BY <3>1 DEF IsRefreshing, Moves
  <2>3. CASE left[TrimSpace(s)] = None
    <3>1. renewed'[s] = 0 /\ \A q \in Requests : ~IsRefreshing(q, s)'
      <4>1. renewed[s] \in 0 .. 2 /\ renewed[s] <= 1 /\ renewed[s] # 1
        BY <2>1, <2>3 DEF SessionsInv, TypeOK, Rotation
      <4>2. renewed[s] = 0
        BY <4>1
      <4>3. \A q \in Requests : ~IsRefreshing(q, s)
        BY <2>3, GenerateJWTFacts DEF IsRefreshing
      <4> QED BY <4>2, <4>3, <2>2, <2>3
    <3> QED BY <3>1 DEF Rotation
  <2>4. CASE left[TrimSpace(s)] # None
    <3>1. left'[TrimSpace(s)] = left[TrimSpace(s)]
      BY <2>4, GenerateJWTFacts
    <3>2. left[TrimSpace(s)] # 0 => \A p, q \in Requests :
                           IsRefreshing(p, s)' /\ IsRefreshing(q, s)' => p = q
      BY <2>1, <2>2 DEF Rotation
    <3>3. CASE renewed'[s] = renewed[s]
      <4>1. renewed[s] = 1 => blacklist'[s] >= left[TrimSpace(s)]
        BY <2>1, <2>4 DEF Rotation
      <4>2. renewed[s] = 1 => \A q \in Requests : IsRefreshing(q, s)' => call'[q].pc = "exists"
        BY <2>1, <2>2 DEF Rotation
      <4> QED BY <2>1, <2>4, <3>1, <3>2, <3>3, <4>1, <4>2 DEF Rotation, Ended
    <3>4. CASE /\ renewed'[s] = 1 /\ left[TrimSpace(s)] # 0 /\ blacklist'[s] >= left[TrimSpace(s)]
               /\ \A q \in Requests : IsRefreshing(q, s) => q = r
      <4>1. \A q \in Requests : ~IsRefreshing(q, s)'
        BY <2>2, <3>4
      <4> QED BY <2>4, <3>1, <3>4, <4>1 DEF Rotation, Ended
    <3> QED BY <2>4, <3>3, <3>4
  <2> QED BY <2>3, <2>4
<1>10. Behind'
  <2>1. \A q \in behind' : call'[q].pc \notin {"issue", "store"}
    BY <1>1, IdleFacts DEF SessionsInv, TypeOK, Behind, BlockedGetsNoToken
  <2> QED BY <2>1 DEF Behind, BlockedGetsNoToken
<1>11. CacheOK'
  BY DEF SessionsInv, CacheOK
<1> QED BY <1>2, <1>3, <1>5, <1>6, <1>7, <1>8, <1>9, <1>10, <1>11 DEF SessionsInv

\* The end of Login: Save may have lifted the block.
LEMMA LoginIssuesKeeps ==
    ASSUME SessionsInv, NEW r \in Requests, LoginIssues(r)
    PROVE  SessionsInv'
<1>1. call' = [call EXCEPT ![r] = Idle]
  BY DEF LoginIssues
<1>2. Moves(r) /\ call'[r] = Idle
  BY <1>1, IdleFacts DEF Moves, SessionsInv, TypeOK
<1>3. behind' \subseteq behind /\ blocked' \in BOOLEAN /\ (behind' # {} => blocked')
  <2>1. CASE blocked' = FALSE /\ behind' = {}
    BY <2>1
  <2>2. CASE blocked' = blocked /\ behind' = behind \ {r}
    <3>1. behind' \subseteq behind
      BY <2>2
    <3>2. blocked' \in BOOLEAN /\ (behind # {} => blocked')
      BY <2>2 DEF SessionsInv, TypeOK, Behind
    <3> QED BY <3>1, <3>2
  <2> QED BY <2>1, <2>2 DEF LoginIssues
<1>4. /\ GenerateJWT
      /\ UNCHANGED <<blacklist, cache, loggedOut, renewed, unsure>>
  BY DEF LoginIssues
<1>5. /\ blacklist' \in [Texts -> 0 .. JWTExpiration] /\ renewed' \in [Texts -> 0 .. 2]
      /\ unsure' \subseteq Texts
  BY <1>4 DEF SessionsInv, TypeOK
<1>6. \A s \in Texts : Ended(s) => blacklist'[s] >= left[TrimSpace(s)]
  BY <1>4 DEF Ended
<1> QED BY <1>2, <1>3, <1>4, <1>5, <1>6, IssueKeeps

\* The end of RefreshToken: the token is exchanged, and its key lives as long as it,
\* unless Redis failed.
LEMMA RefreshIssuesKeeps ==
    ASSUME SessionsInv, NEW r \in Requests, RefreshIssues(r)
    PROVE  SessionsInv'
<1> DEFINE s == call[r].text
<1>1. Finish(r) /\ GenerateJWT /\ UNCHANGED <<cache, blocked, loggedOut>>
  BY DEF RefreshIssues
<1>2. Moves(r) /\ call'[r] = Idle /\ behind' = behind \ {r}
  BY <1>1, FinishFields DEF SessionsInv
<1>3. behind' \subseteq behind /\ blocked' \in BOOLEAN /\ (behind' # {} => blocked')
  BY <1>1, <1>2 DEF SessionsInv, TypeOK, Behind
<1>4. IsRefreshing(r, s) /\ s \in Texts /\ left[TrimSpace(s)] \in 0 .. JWTExpiration /\ left[TrimSpace(s)] # None
  <2>1. call[r].op = "refresh" /\ s \in Texts /\ left[TrimSpace(s)] # None
    BY AtCall, SessionsNoneAssumption DEF RefreshIssues, CallOK, Ops
  <2> QED BY TrimmedToken, <2>1 DEF IsRefreshing, SessionsInv, TypeOK
<1>5. CASE UNCHANGED <<renewed, blacklist, unsure>>
  <2>1. /\ blacklist' \in [Texts -> 0 .. JWTExpiration] /\ renewed' \in [Texts -> 0 .. 2]
        /\ unsure' \subseteq Texts
    BY <1>5 DEF SessionsInv, TypeOK
  <2>2. \A u \in Texts : Ended(u) => blacklist'[u] >= left[TrimSpace(u)]
    BY <1>5 DEF Ended
  <2> HIDE DEF s
  <2> QED BY <1>1, <1>2, <1>3, <1>5, <2>1, <2>2, IssueKeeps
<1>6. CASE left[TrimSpace(s)] > 0 /\ renewed' = [renewed EXCEPT ![s] = UpTo(@, 2)]
  <2>1. renewed' \in [Texts -> 0 .. 2]
    <3>1. \A x \in 0 .. 2 : UpTo(x, 2) \in 0 .. 2
      BY DEF UpTo
    <3> QED BY <3>1, <1>6 DEF SessionsInv, TypeOK
  <2>2. \A u \in Texts \ {s} : renewed'[u] = renewed[u]
    BY <1>6 DEF SessionsInv, TypeOK
  <2>3. CASE UNCHANGED blacklist /\ unsure' = unsure \cup {s}
    <3>1. blacklist' \in [Texts -> 0 .. JWTExpiration] /\ unsure' \subseteq Texts
      BY <1>4, <2>3 DEF SessionsInv, TypeOK
    <3>2. \A u \in Texts : Ended(u) => blacklist'[u] >= left[TrimSpace(u)]
      BY <2>3 DEF Ended
    <3>3. \A u \in Texts : left[TrimSpace(u)] = None => blacklist'[u] = blacklist[u] /\ renewed'[u] = renewed[u]
      BY <1>4, <2>2, <2>3
    <3>4. \A u \in Texts \ unsure' : renewed'[u] = renewed[u]
      BY <2>2, <2>3
    <3>5. unsure \subseteq unsure'
      BY <2>3
    <3> HIDE DEF s
    <3> QED BY <1>1, <1>2, <1>3, <2>1, <3>1, <3>2, <3>3, <3>4, <3>5, IssueKeeps
  <2>4. CASE blacklist' = [blacklist EXCEPT ![s] = left[TrimSpace(s)]] /\ UNCHANGED unsure
    <3>1. blacklist' \in [Texts -> 0 .. JWTExpiration] /\ unsure' \subseteq Texts
      BY <1>4, <2>4 DEF SessionsInv, TypeOK
    <3>2. blacklist'[s] = left[TrimSpace(s)] /\ \A u \in Texts \ {s} : blacklist'[u] = blacklist[u]
      BY <1>4, <2>4 DEF SessionsInv, TypeOK
    <3>3. \A u \in Texts : Ended(u) /\ left[TrimSpace(u)] # None => blacklist'[u] >= left[TrimSpace(u)]
      BY <1>4, <3>2 DEF Ended
    <3>4. \A u \in Texts : left[TrimSpace(u)] = None => blacklist'[u] = blacklist[u] /\ renewed'[u] = renewed[u]
      BY <1>4, <2>2, <3>2
    <3>5. s \notin unsure => renewed'[s] = 1 /\ \A q \in Requests : IsRefreshing(q, s) => q = r
      <4> SUFFICES ASSUME s \notin unsure
                   PROVE  renewed'[s] = 1 /\ \A q \in Requests : IsRefreshing(q, s) => q = r
        OBVIOUS
      <4>1. Rotation(s)
        BY <1>4 DEF SessionsInv, Rotations
      <4>2. renewed[s] # 1
        BY <1>4, <4>1 DEF Rotation, RefreshIssues
      <4>3. renewed[s] = 0
        BY <1>4, <4>1, <4>2 DEF Rotation, SessionsInv, TypeOK
      <4>4. renewed'[s] = 1
        BY <1>4, <1>6, <4>3 DEF SessionsInv, TypeOK, UpTo
      <4> QED BY <1>4, <1>6, <4>1, <4>4 DEF Rotation
    <3>6. \A u \in Texts \ unsure' : left[TrimSpace(u)] # None =>
            \/ renewed'[u] = renewed[u]
            \/ /\ renewed'[u] = 1 /\ left[TrimSpace(u)] # 0 /\ blacklist'[u] >= left[TrimSpace(u)]
               /\ \A q \in Requests : IsRefreshing(q, u) => q = r
      <4> SUFFICES ASSUME NEW u \in Texts \ unsure'
                   PROVE  \/ renewed'[u] = renewed[u]
                          \/ /\ renewed'[u] = 1 /\ left[TrimSpace(u)] # 0 /\ blacklist'[u] >= left[TrimSpace(u)]
                             /\ \A q \in Requests : IsRefreshing(q, u) => q = r
        OBVIOUS
      <4>1. CASE u = s
        BY <1>4, <1>6, <2>4, <3>2, <3>5, <4>1
      <4>2. CASE u # s
        BY <2>2, <4>2
      <4> QED BY <4>1, <4>2
    <3>7. unsure \subseteq unsure'
      BY <2>4
    <3> HIDE DEF s
    <3> QED BY <1>1, <1>2, <1>3, <2>1, <3>1, <3>3, <3>4, <3>6, <3>7, IssueKeeps
  <2> QED BY <1>6, <2>3, <2>4, <1>5 DEF RefreshIssues
<1> QED BY <1>5, <1>6 DEF RefreshIssues

\* Logout puts its token on the blacklist for no less than what is left of it.
LEMMA BlacklistKeeps ==
    ASSUME SessionsInv, NEW r \in Requests, Blacklist(r)
    PROVE  SessionsInv'
<1> DEFINE s == call[r].text
<1>1. /\ call[r].pc = "set" /\ call[r].op = "logout" /\ s \in Texts /\ call[r] \in Call
      /\ left[TrimSpace(s)] \in 0 .. JWTExpiration /\ left[TrimSpace(s)] # None
  <2>1. call[r].pc = "set" /\ call[r].op = "logout" /\ s \in Texts /\ left[TrimSpace(s)] # None /\ call[r] \in Call
    BY AtCall, SessionsNoneAssumption DEF Blacklist, CallOK, Ops
  <2> QED BY TrimmedToken, <2>1 DEF SessionsInv, TypeOK
<1>2. UNCHANGED <<left, cache, blocked, renewed, unsure>>
  BY DEF Blacklist
<1>3. CASE Finish(r) /\ UNCHANGED <<blacklist, loggedOut>>
  <2>1. SameTokens /\ UNCHANGED blocked
    BY <1>2, <1>3 DEF SameTokens, SessionsInv, TypeOK
  <2>2. cache' \in CachedSession \cup {None} /\ CacheOK'
    BY <1>2 DEF SessionsInv, TypeOK, CacheOK
  <2> QED BY <1>3, <2>1, <2>2, FinishKeeps
<1>4. CASE /\ blacklist' = [blacklist EXCEPT ![s] = LogoutTTL(r)]
           /\ loggedOut' = loggedOut \cup {s}
           /\ Goto(r, "del")
  <2>1. "del" \in Pcs
    BY DEF Pcs
  <2>2. /\ Moves(r) /\ behind' = behind
        /\ call'[r].pc = "del" /\ call'[r].op = "logout" /\ call'[r].text = s
        /\ call'[r].out = call[r].out
    BY <1>1, <1>4, <2>1, GotoFields DEF SessionsInv
  <2>3. LogoutTTL(r) \in 0 .. JWTExpiration /\ LogoutTTL(r) >= left[TrimSpace(s)]
    BY <1>1 DEF LogoutTTL, SessionsInv, TTLs, Call
  <2>4. blacklist' \in [Texts -> 0 .. JWTExpiration]
    BY <1>1, <1>4, <2>3 DEF SessionsInv, TypeOK
  <2>5. blacklist'[s] >= left[TrimSpace(s)] /\ \A u \in Texts \ {s} : blacklist'[u] = blacklist[u]
    BY <1>1, <1>4, <2>3 DEF SessionsInv, TypeOK
  <2>6. TypeOK'
    BY <1>1, <1>2, <1>4, <2>2, <2>4, <2>5 DEF SessionsInv, TypeOK, Moves
  <2>7. CallsOK'
    <3>1. CallOK(call'[r])
      BY <1>1, <2>2, SessionsNoneAssumption DEF CallOK, Ops
    <3> QED BY <3>1, <2>2 DEF SessionsInv, CallsOK, Moves
  <2>8. Issued' /\ TTLs'
    BY <1>1, <1>2, <2>2 DEF SessionsInv, Issued, TTLs, Moves
  <2>9. \A u \in Texts : Ended(u) => blacklist'[u] >= left[TrimSpace(u)]
    BY <2>5 DEF Ended
  <2>10. LoggedOutEnded'
    BY <1>2, <1>4, <2>5, <2>9 DEF SessionsInv, TypeOK, LoggedOutEnded, Ended
  <2>11. OutCalls'
    BY <1>2, <1>4, <2>2 DEF SessionsInv, OutCalls, Moves
  <2>12. Rotations'
    <3> SUFFICES ASSUME NEW u \in Texts \ unsure
                 PROVE  Rotation(u)'
      BY <1>2 DEF Rotations
    <3>1. Rotation(u)
      BY DEF SessionsInv, Rotations
    <3>2. \A q \in Requests : IsRefreshing(q, u)' => IsRefreshing(q, u) /\ call'[q] = call[q]
      BY <2>2 DEF IsRefreshing, Moves
    <3>3. renewed'[u] = renewed[u] /\ left'[TrimSpace(u)] = left[TrimSpace(u)]
      BY <1>2
    <3> QED BY <2>9, <3>1, <3>2, <3>3 DEF Rotation, Ended
  <2>13. Behind'
    <3>1. \A q \in behind' : call'[q].pc \notin {"issue", "store"}
      <4> SUFFICES ASSUME NEW q \in behind'
                   PROVE  call'[q].pc \notin {"issue", "store"}
        OBVIOUS
      <4>1. q \in behind /\ q \in Requests
        BY <2>2 DEF SessionsInv, TypeOK
      <4> QED BY <2>2, <4>1 DEF SessionsInv, Behind, BlockedGetsNoToken, Moves
    <3> QED BY <1>2, <2>2, <3>1 DEF SessionsInv, Behind, BlockedGetsNoToken
  <2>14. CacheOK'
    BY <1>2 DEF SessionsInv, CacheOK
  <2> QED BY <2>6, <2>7, <2>8, <2>10, <2>11, <2>12, <2>13, <2>14 DEF SessionsInv
<1> QED BY <1>3, <1>4 DEF Blacklist

\* An administrator's step leaves nobody behind.
LEMMA ToggleBlockUserKeeps ==
    ASSUME SessionsInv, ToggleBlockUser
    PROVE  SessionsInv'
<1>1. UNCHANGED <<left, blacklist, cache, call, loggedOut, renewed, unsure>> /\ behind' = {}
  BY DEF ToggleBlockUser
<1>2. blocked' \in BOOLEAN
  BY DEF ToggleBlockUser
<1>3. TypeOK'
  BY <1>1, <1>2 DEF SessionsInv, TypeOK
<1>4. CallsOK' /\ Issued' /\ TTLs' /\ OutCalls'
  BY <1>1 DEF SessionsInv, CallsOK, Issued, TTLs, OutCalls
<1>5. LoggedOutEnded' /\ CacheOK'
  BY <1>1 DEF SessionsInv, LoggedOutEnded, Ended, CacheOK
<1>6. Rotations'
  BY <1>1 DEF SessionsInv, Rotations, Rotation, Ended, IsRefreshing
<1>7. Behind'
  BY <1>1 DEF Behind, BlockedGetsNoToken
<1> QED BY <1>3, <1>4, <1>5, <1>6, <1>7 DEF SessionsInv

\* Without the process nobody is served; tokens, keys and history outlive it.
LEMMA RestartKeeps ==
    ASSUME SessionsInv, Restart
    PROVE  SessionsInv'
<1>1. UNCHANGED <<left, blacklist, cache, blocked, loggedOut, renewed, unsure>> /\ behind' = {}
  BY DEF Restart
<1>2. call' = [r \in Requests |-> Idle]
  BY DEF Restart
<1>3. \A r \in Requests : call'[r] = Idle
  BY <1>2
<1>4. TypeOK'
  BY <1>1, <1>2, IdleFacts DEF SessionsInv, TypeOK
<1>5. CallsOK' /\ Issued' /\ TTLs' /\ OutCalls'
  BY <1>3, IdleFacts DEF CallsOK, Issued, TTLs, OutCalls
<1>6. LoggedOutEnded' /\ CacheOK'
  BY <1>1 DEF SessionsInv, LoggedOutEnded, Ended, CacheOK
<1>7. \A r \in Requests, s \in Texts : ~IsRefreshing(r, s)'
  BY <1>3, IdleFacts, SessionsNoneAssumption DEF IsRefreshing
<1>8. Rotations'
  BY <1>1, <1>7 DEF SessionsInv, Rotations, Rotation, Ended
<1>9. Behind'
  BY <1>1 DEF Behind, BlockedGetsNoToken
<1> QED BY <1>4, <1>5, <1>6, <1>8, <1>9 DEF SessionsInv

\* Time passes for a token and for its key alike.
LEMMA TickKeeps ==
    ASSUME SessionsInv, Tick
    PROVE  SessionsInv'
<1> DEFINE Live == {s \in Texts : left[TrimSpace(s)] # None /\ left[TrimSpace(s)] > 1}
<1>1. /\ left' = [t \in Tokens |-> IF left[t] = None THEN None
                                   ELSE IF left[t] > 0 THEN left[t] - 1 ELSE 0]
      /\ blacklist' = [s \in Texts |-> IF blacklist[s] > 0 THEN blacklist[s] - 1 ELSE 0]
      /\ loggedOut' = loggedOut \cap Live
      /\ renewed' = [s \in Texts |-> IF s \in Live THEN renewed[s] ELSE 0]
      /\ unsure' = unsure \cap Live
      /\ UNCHANGED <<blocked, behind>>
      /\ cache' = Aged
  BY DEF Tick
<1>2. \A s \in Texts : left[TrimSpace(s)] \in 0 .. JWTExpiration \cup {None} /\ blacklist[s] \in 0 .. JWTExpiration
  BY TrimmedToken DEF SessionsInv, TypeOK
<1>3. \A s \in Texts :
        /\ left[TrimSpace(s)] = None => left'[TrimSpace(s)] = None
        /\ left[TrimSpace(s)] # None => left'[TrimSpace(s)] # None /\ left'[TrimSpace(s)] \in 0 .. JWTExpiration
                               /\ left'[TrimSpace(s)] = IF left[TrimSpace(s)] > 0 THEN left[TrimSpace(s)] - 1 ELSE 0
        /\ blacklist'[s] = IF blacklist[s] > 0 THEN blacklist[s] - 1 ELSE 0
  BY TrimmedToken, <1>1, <1>2, DurationsAssumption, SessionsNoneAssumption
<1>4. \A s \in Texts : Ended(s) /\ left[TrimSpace(s)] # None => Ended(s)'
  BY <1>2, <1>3 DEF Ended
<1>5. \A r \in Requests :
        /\ call'[r] \in Call
        /\ call'[r].op = call[r].op /\ call'[r].pc = call[r].pc /\ call'[r].text = call[r].text
        /\ call'[r].out = call[r].out /\ call'[r].remaining = call[r].remaining
  <2> SUFFICES ASSUME NEW r \in Requests
               PROVE  /\ call'[r] \in Call
                      /\ call'[r].op = call[r].op /\ call'[r].pc = call[r].pc
                      /\ call'[r].text = call[r].text
                      /\ call'[r].out = call[r].out /\ call'[r].remaining = call[r].remaining
    OBVIOUS
  <2>1. call[r] \in Call
    BY DEF SessionsInv, TypeOK
  <2>2. call'[r] = IF HasDeadline(call[r])
                   THEN [call[r] EXCEPT !.elapsed = UpTo(@, SessionTimeout + 1)]
                   ELSE call[r]
    BY DEF Tick
  <2>3. UpTo(call[r].elapsed, SessionTimeout + 1) \in 0 .. SessionTimeout + 1
    BY <2>1, DurationsAssumption DEF UpTo, Call
  <2> QED BY <2>1, <2>2, <2>3 DEF Call
<1>6. TypeOK'
  <2>1. left' \in [Tokens -> 0 .. JWTExpiration \cup {None}]
    <3>1. \A t \in Tokens : left[t] \in 0 .. JWTExpiration \cup {None}
      BY DEF SessionsInv, TypeOK
    <3>2. \A t \in Tokens : (IF left[t] = None THEN None
                            ELSE IF left[t] > 0 THEN left[t] - 1 ELSE 0)
                             \in 0 .. JWTExpiration \cup {None}
      BY <3>1, DurationsAssumption, SessionsNoneAssumption
    <3> QED BY <1>1, <3>2
  <2>2. blacklist' \in [Texts -> 0 .. JWTExpiration]
    BY <1>1, <1>2, DurationsAssumption
  <2>3. cache' \in CachedSession \cup {None}
    <3>1. CASE cache = None
      BY <1>1, <3>1 DEF Aged
    <3>2. CASE cache # None
      <4>1. cache \in CachedSession
        BY <3>2 DEF SessionsInv, TypeOK
      <4>2. MaxAge + 1 \in Nat
        BY DurationsAssumption DEF MaxAge
      <4>3. UpTo(cache.age, MaxAge + 1) \in Nat
        BY <4>1, <4>2 DEF UpTo, CachedSession
      <4>4. CASE cache.ttl = None
        <5>1. cache' = [cache EXCEPT !.age = UpTo(@, MaxAge + 1)]
          BY <1>1, <3>2, <4>4 DEF Aged
        <5> QED BY <4>1, <4>3, <5>1 DEF CachedSession
      <4>5. CASE cache.ttl # None
        <5>1. cache.ttl \in Nat /\ cache.ttl >= 1
          BY <3>2, <4>1, <4>5 DEF SessionsInv, CacheOK, CachedSession
        <5>2. cache.ttl # 1 => cache' = [age |-> UpTo(cache.age, MaxAge + 1), ttl |-> cache.ttl - 1]
          BY <1>1, <3>2, <4>5 DEF Aged
        <5>3. cache.ttl = 1 => cache' = None
          BY <1>1, <3>2, <4>5 DEF Aged
        <5> QED BY <4>3, <5>1, <5>2, <5>3 DEF CachedSession
      <4> QED BY <4>4, <4>5
    <3> QED BY <3>1, <3>2
  <2>4. call' \in [Requests -> Call]
    BY <1>5 DEF Tick
  <2>5. renewed' \in [Texts -> 0 .. 2]
    BY <1>1 DEF SessionsInv, TypeOK
  <2>6. loggedOut' \subseteq Texts /\ unsure' \subseteq Texts /\ behind' \subseteq Requests
    BY <1>1 DEF SessionsInv, TypeOK
  <2>7. blocked' \in BOOLEAN
    BY <1>1 DEF SessionsInv, TypeOK
  <2>8. \A s \in Texts : left'[TrimSpace(s)] = None => blacklist'[s] = 0 /\ s \notin loggedOut'
    <3> SUFFICES ASSUME NEW s \in Texts, left'[TrimSpace(s)] = None
                 PROVE  blacklist'[s] = 0 /\ s \notin loggedOut'
      OBVIOUS
    <3>1. left[TrimSpace(s)] = None
      BY <1>3
    <3>2. blacklist[s] = 0 /\ s \notin loggedOut
      BY <3>1 DEF SessionsInv, TypeOK
    <3> QED BY <1>1, <1>3, <3>2
  <2> QED BY <2>1, <2>2, <2>3, <2>4, <2>5, <2>6, <2>7, <2>8 DEF TypeOK
<1>7. CallsOK'
  BY <1>5 DEF SessionsInv, CallsOK, CallOK
<1>8. \A r \in Requests : call[r].text # None => call[r].text \in Texts /\ left[TrimSpace(call[r].text)] # None
  BY AtCall
<1>9. Issued'
  BY <1>3, <1>5, <1>8 DEF Issued
<1>10. TTLs'
  <2> SUFFICES ASSUME NEW r \in Requests, call[r].pc = "set"
               PROVE  call[r].remaining >= left'[TrimSpace(call[r].text)]
    BY <1>5 DEF TTLs
  <2>1. call[r].text \in Texts /\ left[TrimSpace(call[r].text)] # None
    BY AtCall, SessionsNoneAssumption DEF CallOK, Ops
  <2>2. call[r].remaining >= left[TrimSpace(call[r].text)] /\ call[r].remaining \in 0 .. JWTExpiration
    BY DEF SessionsInv, TTLs, TypeOK, Call
  <2> QED BY <1>2, <1>3, <2>1, <2>2
<1>11. LoggedOutEnded'
  <2>1. \A s \in loggedOut' : s \in loggedOut /\ s \in Texts /\ left[TrimSpace(s)] # None /\ left[TrimSpace(s)] > 1
    BY <1>1
  <2>2. \A s \in loggedOut' : Ended(s) /\ left[TrimSpace(s)] # None /\ s \in Texts
    BY <2>1, <1>2 DEF SessionsInv, LoggedOutEnded
  <2> QED BY <2>2, <1>4 DEF LoggedOutEnded
<1>12. OutCalls'
  <2> SUFFICES ASSUME NEW r \in Requests, call[r].out
               PROVE  \/ left'[TrimSpace(call[r].text)] = 0
                      \/ /\ call[r].text \in loggedOut'
                         /\ call[r].pc = "exists" \/ call[r].op = "logout"
    BY <1>5 DEF OutCalls
  <2>1. call[r].text \in Texts /\ left[TrimSpace(call[r].text)] # None
    BY AtCall, SessionsNoneAssumption DEF CallOK, Ops
  <2>2. CASE left[TrimSpace(call[r].text)] > 1
    <3>1. call[r].text \in Live /\ left[TrimSpace(call[r].text)] # 0
      BY <2>1, <2>2, <1>2
    <3> QED BY <1>1, <3>1 DEF SessionsInv, OutCalls
  <2>3. CASE ~(left[TrimSpace(call[r].text)] > 1)
    BY <1>2, <1>3, <2>1, <2>3
  <2> QED BY <2>2, <2>3
<1>13. Rotations'
  <2> SUFFICES ASSUME NEW s \in Texts \ unsure'
               PROVE  Rotation(s)'
    BY DEF Rotations
  <2>1. \A r \in Requests : IsRefreshing(r, s)' <=> IsRefreshing(r, s)
    BY <1>5 DEF IsRefreshing
  <2>2. CASE s \in Live
    <3>1. s \notin unsure /\ renewed'[s] = renewed[s] /\ left[TrimSpace(s)] # None /\ left[TrimSpace(s)] > 1
      BY <1>1, <2>2
    <3>2. Rotation(s)
      BY <3>1 DEF SessionsInv, Rotations
    <3>3. left'[TrimSpace(s)] # None /\ left'[TrimSpace(s)] # 0 /\ left[TrimSpace(s)] # 0
      BY <1>2, <1>3, <3>1
    <3>4. renewed[s] = 1 => Ended(s)'
      BY <1>4, <3>1, <3>2 DEF Rotation
    <3> QED BY <1>5, <2>1, <3>1, <3>2, <3>3, <3>4 DEF Rotation
  <2>3. CASE s \notin Live
    <3>1. renewed'[s] = 0
      BY <1>1, <2>3
    <3>2. left'[TrimSpace(s)] = 0 \/ left[TrimSpace(s)] = None
      BY <1>2, <1>3, <2>3
    <3>3. left[TrimSpace(s)] = None => \A r \in Requests : ~IsRefreshing(r, s)
      BY <1>8, SessionsNoneAssumption DEF IsRefreshing
    <3> QED BY <2>1, <3>1, <3>2, <3>3 DEF Rotation
  <2> QED BY <2>2, <2>3
<1>14. Behind'
  <2>1. \A r \in behind' : call'[r].pc \notin {"issue", "store"}
    BY <1>1, <1>5 DEF SessionsInv, TypeOK, Behind, BlockedGetsNoToken
  <2> QED BY <1>1, <2>1 DEF SessionsInv, Behind, BlockedGetsNoToken
<1>15. CacheOK'
  <2> SUFFICES ASSUME cache' # None, cache'.ttl # None
               PROVE  cache'.ttl >= 1 /\ cache'.age + cache'.ttl <= MaxAge
    BY DEF CacheOK, MaxAge
  <2>1. cache # None /\ cache \in CachedSession
    BY <1>1 DEF Aged, SessionsInv, TypeOK
  <2>2. cache.ttl # None
    BY <1>1, <2>1 DEF Aged, CachedSession
  <2>3. cache.ttl \in Nat /\ cache.age \in Nat /\ cache.ttl >= 1 /\ cache.age + cache.ttl <= MaxAge
    BY <2>1, <2>2 DEF SessionsInv, CacheOK, CachedSession
  <2>4. cache.ttl # 1 /\ cache' = [age |-> UpTo(cache.age, MaxAge + 1), ttl |-> cache.ttl - 1]
    BY <1>1, <2>1, <2>2 DEF Aged
  <2>5. MaxAge \in Nat
    BY DurationsAssumption DEF MaxAge
  <2>6. UpTo(cache.age, MaxAge + 1) = cache.age + 1
    BY <2>3, <2>5 DEF UpTo
  <2> QED BY <2>3, <2>4, <2>5, <2>6
<1> QED BY <1>6, <1>7, <1>9, <1>10, <1>11, <1>12, <1>13, <1>14, <1>15 DEF SessionsInv

----------------------------------------------------------------------------
(* Every step, and the theorems *)

\* The invariant is inductive.
LEMMA SessionsStep == SessionsInv /\ [Next]_vars => SessionsInv'
<1> SUFFICES ASSUME SessionsInv, [Next]_vars
             PROVE  SessionsInv'
  OBVIOUS
<1>1. ASSUME NEW r \in Requests, Login(r)
      PROVE  SessionsInv'
  BY <1>1, LoginKeeps
<1>2. ASSUME NEW r \in Requests, NEW op \in Ops \ {"login"}, NEW s \in Texts,
             ValidateToken(r, op, s)
      PROVE  SessionsInv'
  BY <1>2, ValidateTokenKeeps
<1>3. ASSUME NEW r \in Requests, LoginIssues(r) \/ RefreshIssues(r)
      PROVE  SessionsInv'
  BY <1>3, LoginIssuesKeeps, RefreshIssuesKeeps
<1>4. ASSUME NEW r \in Requests, Exists(r) \/ ExistsFails(r)
      PROVE  SessionsInv'
  BY <1>4, ExistsKeeps, ExistsFailsKeeps
<1>5. ASSUME NEW r \in Requests, GetCached(r) \/ ReadUser(r) \/ Store(r)
      PROVE  SessionsInv'
  BY <1>5, GetCachedKeeps, ReadUserKeeps, StoreKeeps
<1>6. ASSUME NEW r \in Requests, Blacklist(r) \/ Forget(r)
      PROVE  SessionsInv'
  BY <1>6, BlacklistKeeps, ForgetKeeps
<1>7. CASE ToggleBlockUser \/ Tick \/ Restart
  BY <1>7, ToggleBlockUserKeeps, TickKeeps, RestartKeeps
<1>8. CASE UNCHANGED vars
  <2>1. TypeOK' /\ CallsOK' /\ Issued' /\ TTLs'
    BY <1>8 DEF vars, SessionsInv, TypeOK, CallsOK, Issued, TTLs
  <2>2. LoggedOutEnded' /\ OutCalls' /\ CacheOK'
    BY <1>8 DEF vars, SessionsInv, LoggedOutEnded, Ended, OutCalls, CacheOK
  <2>3. Rotations'
    BY <1>8 DEF vars, SessionsInv, Rotations, Rotation, Ended, IsRefreshing
  <2>4. Behind'
    BY <1>8 DEF vars, SessionsInv, Behind, BlockedGetsNoToken
  <2> QED BY <2>1, <2>2, <2>3, <2>4 DEF SessionsInv
<1> QED BY <1>1, <1>2, <1>3, <1>4, <1>5, <1>6, <1>7, <1>8 DEF Next

\* The invariant holds throughout.
THEOREM SessionsInvariant == Spec => []SessionsInv
BY SessionsInit, SessionsStep, PTL DEF Spec

\* The variables keep their types, and no key of the blacklist outlives a token.
THEOREM SessionsTypes == Spec => []TypeOK
<1>1. SessionsInv => TypeOK
  BY DEF SessionsInv
<1> QED BY <1>1, SessionsInvariant, PTL

\* The very text that was logged out with before a request came gets it past no check
\* of the blacklist that Redis answers.  Nothing is said of the token in other white
\* space: ValidateToken trims it away, the key of the blacklist keeps it.
THEOREM LogoutIsFinal == Spec => []LoggedOutIsOut
<1>1. SessionsInv => LoggedOutIsOut
  BY DEF SessionsInv, OutCalls, LoggedOutIsOut
<1> QED BY <1>1, SessionsInvariant, PTL

\* With one text, a token is exchanged for one other at most, if Redis answers and the
\* refreshes with that text do not overlap.  With another text it is exchanged again.
THEOREM RotationIsSerial == Spec => []OneSuccessor
<1>1. SessionsInv => OneSuccessor
  BY DEF SessionsInv, Rotations, Rotation, OneSuccessor
<1> QED BY <1>1, SessionsInvariant, PTL

\* A request that comes after the user was blocked gets no token and caches no
\* session.
THEOREM BlockStopsTokens == Spec => []BlockedGetsNoToken
<1>1. SessionsInv => BlockedGetsNoToken
  BY DEF SessionsInv, Behind
<1> QED BY <1>1, SessionsInvariant, PTL

\* A cached session with a TTL is no older than UserCacheDuration and the deadline
\* of CheckAuth together.
THEOREM StalenessIsBounded == Spec => []StaleOnlyWithoutTTL
<1>1. SessionsInv => StaleOnlyWithoutTTL
  <2> SUFFICES ASSUME SessionsInv, cache # None, cache.ttl # None
               PROVE  cache.age <= MaxAge
    BY DEF StaleOnlyWithoutTTL
  <2>1. cache.ttl \in Nat /\ cache.age \in Nat /\ cache.age + cache.ttl <= MaxAge
    BY DEF SessionsInv, TypeOK, CachedSession, CacheOK
  <2>2. MaxAge \in Nat
    BY DurationsAssumption DEF MaxAge
  <2> QED BY <2>1, <2>2
<1> QED BY <1>1, SessionsInvariant, PTL
=============================================================================
