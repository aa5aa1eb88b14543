--------------------------- MODULE AccountsProofs ---------------------------
(***************************************************************************)
(* The properties of Accounts for every set of goroutines, passwords,      *)
(* profiles and tokens.                                                    *)
(***************************************************************************)
EXTENDS Accounts, TLAPS

----------------------------------------------------------------------------
(* The invariant *)

\* Whoever gives a password sets the flag, and nobody sets the flag alone.
Flagged(f) ==
    /\ "flag" \in DOMAIN f => "own" \in DOMAIN f
    /\ "own" \in DOMAIN f /\ f["own"] = FALSE
         => "flag" \in DOMAIN f /\ f["flag"] = TRUE

\* What the place of a handler says about its request.
Shape(x) ==
    /\ x.pc = "save" => x.change \in Row
    /\ x.pc \in {"mail", "reset"} => x.token \in Tokens
    /\ Flagged(x.change)

Shapes == \A r \in Requests : Shape(req[r])

\* The copies that logins hold agree with what is to last.
Copies ==
    \A r \in At("save") :
      lasting # None /\ \A c \in DOMAIN lasting : req[r].change[c] = lasting[c]

BeforeCreation == ~created => user = None /\ lasting = None

RowFlagged == user # None => Flagged(user)

\* A request that has found the token and not yet committed.
Holds(r, t) == r \in At("reset") /\ req[r].token = t

\* A token that is not shared has one holder at most, and none once it was used.
Once ==
    /\ \A t \in Tokens : stage[t] = "new" => used[t] = 0 /\ \A r \in Requests : ~Holds(r, t)
    /\ \A t \in Tokens \ shared :
         /\ used[t] <= 1
         /\ used[t] = 1 => t \notin resets /\ \A r \in Requests : ~Holds(r, t)
         /\ \A q, r \in Requests : Holds(q, t) /\ Holds(r, t) => q = r

\* Requests for a token that meet between DELETE and COMMIT are crossed; the DELETE of
\* any other has found all there is.
Crossings ==
    \A r \in At("insert") :
      /\ r \notin crossed => resets \subseteq req[r].doomed
      /\ \A q \in At("insert") : q # r => r \in crossed

AccountsInv ==
    /\ TypeOK /\ Shapes
    /\ ChangesLast /\ Copies /\ BeforeCreation /\ RowFlagged
    /\ Once /\ Crossings

----------------------------------------------------------------------------
(* Rows and changes *)

\* What a change is made of.
LEMMA ChangeElim ==
    ASSUME NEW f \in Changes
    PROVE  /\ DOMAIN f \subseteq Columns
           /\ \A c \in DOMAIN f : f[c] \in Values(c)
           /\ f \in [DOMAIN f -> AnyValue]
  <1>1. PICK S \in SUBSET Columns : f \in [S -> AnyValue]
    BY DEF Changes
  <1> QED
    BY <1>1 DEF Changes

LEMMA ChangeIntro ==
    ASSUME NEW S \in SUBSET Columns, NEW f \in [S -> AnyValue],
           \A c \in S : f[c] \in Values(c)
    PROVE  f \in Changes
  BY DEF Changes

LEMMA ValuesAny ==
    ASSUME NEW c \in Columns
    PROVE  Values(c) \subseteq AnyValue
  BY DEF AnyValue

LEMMA RowElim ==
    ASSUME NEW f \in Row
    PROVE  f \in Changes /\ DOMAIN f = Columns
  BY DEF Row

LEMMA OverFacts ==
    ASSUME NEW f \in Changes, NEW g \in Changes
    PROVE  /\ Over(f, g) \in Changes
           /\ DOMAIN Over(f, g) = DOMAIN f \cup DOMAIN g
           /\ \A c \in DOMAIN f : Over(f, g)[c] = f[c]
           /\ \A c \in DOMAIN g \ DOMAIN f : Over(f, g)[c] = g[c]
  <1> DEFINE h == Over(f, g)
             S == DOMAIN f \cup DOMAIN g
  <1>1. /\ DOMAIN h = S
        /\ \A c \in DOMAIN f : h[c] = f[c]
        /\ \A c \in DOMAIN g \ DOMAIN f : h[c] = g[c]
    BY DEF Over
  <1>2. S \in SUBSET Columns
    BY ChangeElim
  <1>3. h \in [S -> AnyValue]
    BY ChangeElim DEF Over
  <1>4. \A c \in S : h[c] \in Values(c)
    BY <1>1, ChangeElim
  <1> QED
    BY <1>1, <1>2, <1>3, <1>4, ChangeIntro

LEMMA OverRow ==
    ASSUME NEW f \in Changes, NEW g \in Row
    PROVE  Over(f, g) \in Row
  <1>1. g \in Changes /\ DOMAIN g = Columns
    BY RowElim
  <1>2. DOMAIN f \subseteq Columns
    BY ChangeElim
  <1> QED
    BY <1>1, <1>2, OverFacts DEF Row

LEMMA RestFacts ==
    ASSUME NEW f \in Changes, NEW S
    PROVE  LET g == [c \in DOMAIN f \ S |-> f[c]]
           IN  /\ g \in Changes /\ DOMAIN g = DOMAIN f \ S
               /\ \A c \in DOMAIN g : g[c] = f[c]
  <1> DEFINE T == DOMAIN f \ S
             g == [c \in T |-> f[c]]
  <1>1. T \in SUBSET Columns /\ g \in [T -> AnyValue] /\ \A c \in T : g[c] \in Values(c)
    BY ChangeElim
  <1>2. g \in Changes
    BY <1>1, ChangeIntro
  <1> QED
    BY <1>2

\* No column at all.
LEMMA EmptyFacts == <<>> \in Changes /\ DOMAIN <<>> = {} /\ Flagged(<<>>)
  <1>1. DOMAIN <<>> = {} /\ <<>> \in [{} -> AnyValue]
    OBVIOUS
  <1> QED
    BY <1>1, ChangeIntro DEF Flagged

LEMMA OnlyFacts ==
    ASSUME NEW c \in Columns, NEW v \in Values(c)
    PROVE  Only(c, v) \in Changes /\ DOMAIN Only(c, v) = {c} /\ Only(c, v)[c] = v
  <1>1. Only(c, v) \in [{c} -> AnyValue] /\ Only(c, v)[c] = v
    BY ValuesAny DEF Only
  <1> QED
    BY <1>1, ChangeIntro DEF Only

\* A change of the password and of who chose it, with the flag or without.
LEMMA PasswordFacts ==
    ASSUME NEW w \in Words \cup {Default}, NEW own \in BOOLEAN
    PROVE  LET f == Password(w, own)
           IN  f \in Changes /\ DOMAIN f = {"password", "own"} /\ f["own"] = own
  <1> DEFINE S == {"password", "own"}
             f == Password(w, own)
  <1>1. DOMAIN f = S /\ f["password"] = w /\ f["own"] = own
    BY DEF Password
  <1>2. \A c \in S : f[c] \in Values(c)
    BY <1>1 DEF Values
  <1>3. S \in SUBSET Columns
    BY DEF Columns
  <1>4. f \in [S -> AnyValue]
    <2>1. \A c \in S : f[c] \in AnyValue
      <3> HIDE DEF f
      <3> QED
        BY <1>2, <1>3, ValuesAny
    <2> QED
      BY <2>1, Zenon DEF Password
  <1> HIDE DEF f
  <1>5. f \in Changes
    BY <1>2, <1>3, <1>4, ChangeIntro
  <1> QED
    BY <1>1, <1>5 DEF f

LEMMA PasswordAndFlagFacts ==
    ASSUME NEW w \in Words \cup {Default}, NEW own \in BOOLEAN, NEW flag \in BOOLEAN
    PROVE  LET f == PasswordAndFlag(w, own, flag)
           IN  /\ f \in Changes /\ DOMAIN f = {"password", "own", "flag"}
               /\ f["own"] = own /\ f["flag"] = flag
  <1> DEFINE S == {"password", "own", "flag"}
             f == PasswordAndFlag(w, own, flag)
  <1>1. DOMAIN f = S /\ f["password"] = w /\ f["own"] = own /\ f["flag"] = flag
    BY DEF PasswordAndFlag
  <1>2. \A c \in S : f[c] \in Values(c)
    BY <1>1 DEF Values
  <1>3. S \in SUBSET Columns
    BY DEF Columns
  <1>4. f \in [S -> AnyValue]
    <2>1. \A c \in S : f[c] \in AnyValue
      <3> HIDE DEF f
      <3> QED
        BY <1>2, <1>3, ValuesAny
    <2> QED
      BY <2>1, Zenon DEF PasswordAndFlag
  <1> HIDE DEF f
  <1>5. f \in Changes
    BY <1>2, <1>3, <1>4, ChangeIntro
  <1> QED
    BY <1>1, <1>5 DEF f

LEMMA OnlyFlagged ==
    ASSUME NEW c \in Columns \ {"own", "flag"}, NEW v \in Values(c)
    PROVE  Only(c, v) \in Changes /\ Flagged(Only(c, v))
  <1> DEFINE f == Only(c, v)
  <1>1. f \in Changes /\ DOMAIN f = {c}
    BY OnlyFacts
  <1> HIDE DEF f
  <1>2. Flagged(f)
    BY <1>1 DEF Flagged
  <1> QED
    BY <1>1, <1>2 DEF f

LEMMA FlaggedOver ==
    ASSUME NEW f \in Changes, NEW g \in Changes, Flagged(f), Flagged(g)
    PROVE  Flagged(Over(f, g))
  <1> DEFINE h == Over(f, g)
  <1>1. /\ DOMAIN h = DOMAIN f \cup DOMAIN g
        /\ \A c \in DOMAIN f : h[c] = f[c]
        /\ \A c \in DOMAIN g \ DOMAIN f : h[c] = g[c]
    BY OverFacts
  <1> HIDE DEF h
  <1>2. Flagged(h)
    BY <1>1 DEF Flagged
  <1> QED
    BY <1>2 DEF h

----------------------------------------------------------------------------
(* Single steps *)

\* A goroutine that serves nobody.
LEMMA IdleFacts == Idle \in Request /\ Idle.pc = "idle" /\ Shape(Idle)
  <1>1. /\ Idle.pc = "idle" /\ Idle.token = None /\ Idle.doomed = {}
        /\ Idle.change = <<>>
    BY DEF Idle
  <1>2. <<>> \in Changes /\ Flagged(<<>>)
    BY EmptyFacts
  <1>3. Shape(Idle)
    BY <1>1, <1>2 DEF Shape
  <1>4. Idle \in Request
    BY <1>2 DEF Idle, Request
  <1> QED
    BY <1>1, <1>3, <1>4

\* A step of one goroutine to a place where it holds neither a copy of the row nor a
\* token, and that leaves everything else alone.
LEMMA Advance ==
    ASSUME AccountsInv, NEW r \in Requests, NEW x \in Request, Shape(x),
           x.pc \in {"idle", "update", "delete", "request"},
           req' = [req EXCEPT ![r] = x],
           UNCHANGED <<user, created, resets, stage, lasting, used, shared, crossed>>
    PROVE  AccountsInv'
  <1>1. /\ req \in [Requests -> Request] /\ req' \in [Requests -> Request]
        /\ req'[r] = x /\ \A q \in Requests \ {r} : req'[q] = req[q]
    BY DEF AccountsInv, TypeOK
  <1>2. TypeOK'
    BY <1>1 DEF AccountsInv, TypeOK
  <1>3. Shapes'
    BY <1>1 DEF AccountsInv, Shapes
  <1>4. ChangesLast' /\ BeforeCreation' /\ RowFlagged'
    BY DEF AccountsInv, ChangesLast, BeforeCreation, RowFlagged
  <1>5. \A q \in Requests : q \in At("save")' => q \in At("save") /\ req'[q] = req[q]
    BY <1>1 DEF At
  <1>6. Copies'
    BY <1>5 DEF AccountsInv, Copies, At
  <1>7. \A q \in Requests, t \in Tokens : Holds(q, t)' => Holds(q, t)
    BY <1>1 DEF Holds, At
  <1>8. Once'
    BY <1>7 DEF AccountsInv, Once
  <1>9. \A q \in Requests : q \in At("insert")' => q \in At("insert") /\ req'[q] = req[q]
    BY <1>1 DEF At
  <1>10. Crossings'
    BY <1>9 DEF AccountsInv, Crossings, At
  <1> QED
    BY <1>2, <1>3, <1>4, <1>6, <1>8, <1>10 DEF AccountsInv

\* The deferred rollback, and handlers that end without a change.
LEMMA FailKeeps ==
    ASSUME AccountsInv, NEW r \in Requests, Fail(r)
    PROVE  AccountsInv'
  BY IdleFacts, Advance DEF Fail, Finish

LEMMA StartKeeps ==
    ASSUME AccountsInv, NEW r \in Requests, NEW pc \in {"delete", "request"},
           Start(r, [Idle EXCEPT !.pc = pc]),
           UNCHANGED <<user, created, resets, stage, lasting, used, shared, crossed>>
    PROVE  AccountsInv'
  <1> DEFINE x == [Idle EXCEPT !.pc = pc]
  <1>1. /\ x.pc = pc /\ x.token = Idle.token /\ x.doomed = Idle.doomed
        /\ x.change = Idle.change
    BY DEF Idle
  <1>2. x \in Request
    BY IdleFacts DEF Request
  <1>3. Shape(x)
    BY <1>1, IdleFacts DEF Shape
  <1>4. req' = [req EXCEPT ![r] = x]
    BY DEF Start
  <1> HIDE DEF x
  <1> QED
    BY <1>1, <1>2, <1>3, <1>4, Advance

LEMMA ChangeKeeps ==
    ASSUME AccountsInv, NEW r \in Requests, NEW f \in Changes, Flagged(f), Change(r, f)
    PROVE  AccountsInv'
  <1> DEFINE x == [Idle EXCEPT !.pc = "update", !.change = f]
  <1>1. /\ x.pc = "update" /\ x.token = Idle.token /\ x.doomed = Idle.doomed
        /\ x.change = f
    BY DEF Idle
  <1>2. x \in Request
    BY IdleFacts DEF Request
  <1>3. Shape(x)
    BY <1>1 DEF Shape
  <1>4. /\ req' = [req EXCEPT ![r] = x]
        /\ UNCHANGED <<user, created, resets, stage, lasting, used, shared, crossed>>
    BY DEF Change, Start
  <1> HIDE DEF x
  <1> QED
    BY <1>1, <1>2, <1>3, <1>4, Advance

----------------------------------------------------------------------------
(* Requests to change the row *)

LEMMA UpdateUserPasswordKeeps ==
    ASSUME AccountsInv, NEW r \in Requests, NEW old, NEW new \in Words,
           UpdateUserPassword(r, old, new)
    PROVE  AccountsInv'
  <1> DEFINE f == PasswordAndFlag(new, TRUE, FALSE)
  <1>1. f \in Changes /\ DOMAIN f = {"password", "own", "flag"} /\ f["own"] = TRUE
    BY PasswordAndFlagFacts
  <1>2. Change(r, f)
    BY DEF UpdateUserPassword
  <1> HIDE DEF f
  <1>3. Flagged(f)
    BY <1>1 DEF Flagged
  <1> QED
    BY <1>1, <1>2, <1>3, ChangeKeeps

LEMMA ResetUserPasswordKeeps ==
    ASSUME AccountsInv, NEW r \in Requests, ResetUserPassword(r)
    PROVE  AccountsInv'
  <1> DEFINE f == PasswordAndFlag(Default, FALSE, TRUE)
  <1>1. f \in Changes /\ DOMAIN f = {"password", "own", "flag"} /\ f["flag"] = TRUE
    BY PasswordAndFlagFacts
  <1>2. Change(r, f)
    BY DEF ResetUserPassword
  <1> HIDE DEF f
  <1>3. Flagged(f)
    BY <1>1 DEF Flagged
  <1> QED
    BY <1>1, <1>2, <1>3, ChangeKeeps

LEMMA UpdateProfileKeeps ==
    ASSUME AccountsInv, NEW r \in Requests, NEW p \in Profiles, UpdateProfile(r, p)
    PROVE  AccountsInv'
  <1>1. "profile" \in Columns \ {"own", "flag"} /\ p \in Values("profile")
    BY DEF Columns, Values
  <1>2. Only("profile", p) \in Changes /\ Flagged(Only("profile", p))
    BY <1>1, OnlyFlagged
  <1> QED
    BY <1>2, ChangeKeeps DEF UpdateProfile

LEMMA ToggleBlockUserKeeps ==
    ASSUME AccountsInv, NEW r \in Requests, ToggleBlockUser(r)
    PROVE  AccountsInv'
  <1> DEFINE v == ~user["blocked"]
  <1>1. "blocked" \in Columns \ {"own", "flag"} /\ v \in Values("blocked")
    BY DEF Columns, Values
  <1> HIDE DEF v
  <1>2. Only("blocked", v) \in Changes /\ Flagged(Only("blocked", v))
    BY <1>1, OnlyFlagged
  <1>3. Change(r, Only("blocked", v))
    BY DEF ToggleBlockUser, v
  <1> QED
    BY <1>2, <1>3, ChangeKeeps

LEMMA DeleteUserKeeps ==
    ASSUME AccountsInv, NEW r \in Requests, DeleteUser(r) \/ RequestPasswordReset(r)
    PROVE  AccountsInv'
  BY StartKeeps DEF DeleteUser, RequestPasswordReset

----------------------------------------------------------------------------
(* Steps that write the row *)

\* Requests that end hold nothing and are at no statement.
LEMMA FinishFacts ==
    ASSUME AccountsInv, NEW r \in Requests, Finish(r)
    PROVE  /\ req' \in [Requests -> Request] /\ Shapes'
           /\ req'[r] = Idle /\ \A q \in Requests \ {r} : req'[q] = req[q]
           /\ \A q \in Requests : q \in At("save")' => q \in At("save") /\ q # r
           /\ \A q \in Requests : q \in At("insert")' => q \in At("insert") /\ q # r
           /\ \A q \in Requests, t \in Tokens : Holds(q, t)' => Holds(q, t) /\ q # r
  <1>1. /\ req \in [Requests -> Request] /\ req' \in [Requests -> Request]
        /\ req'[r] = Idle /\ \A q \in Requests \ {r} : req'[q] = req[q]
    BY IdleFacts DEF AccountsInv, TypeOK, Finish
  <1>2. Shapes'
    BY <1>1, IdleFacts DEF AccountsInv, Shapes
  <1> QED
    BY <1>1, <1>2, IdleFacts DEF At, Holds

\* What a commit of a change of other columns leaves of lasting.
LEMMA RecordsFacts ==
    ASSUME AccountsInv, NEW f \in Changes, user # None, Records(f), user' = Over(f, user),
           Flagged(f)
    PROVE  /\ lasting' \in Changes /\ user' \in Row
           /\ ChangesLast' /\ RowFlagged'
           /\ \A c \in DOMAIN lasting' : At("save") # {} => c \in DOMAIN lasting /\ lasting'[c] = lasting[c]
  <1>1. user \in Row /\ lasting \in Changes
    BY DEF AccountsInv, TypeOK, ChangesLast
  <1>2. user \in Changes /\ DOMAIN user = Columns
    BY <1>1, RowElim
  <1>3. /\ user' \in Row
        /\ \A c \in DOMAIN f : user'[c] = f[c]
        /\ \A c \in DOMAIN user \ DOMAIN f : user'[c] = user[c]
    BY <1>1, <1>2, OverRow, OverFacts
  <1>4. \A c \in DOMAIN lasting : c \in DOMAIN user /\ user[c] = lasting[c]
    BY <1>1, <1>2, ChangeElim, AccountsNoneAssumption DEF AccountsInv, ChangesLast
  <1>5. RowFlagged'
    BY <1>2, FlaggedOver DEF AccountsInv, RowFlagged
  <1>6. user' # None
    BY <1>3, RowElim, AccountsNoneAssumption
  <1>7. CASE At("save") = {}
    <2>1. lasting' = Over(f, lasting)
      BY <1>7 DEF Records
    <2>2. /\ lasting' \in Changes /\ DOMAIN lasting' = DOMAIN f \cup DOMAIN lasting
          /\ \A c \in DOMAIN f : lasting'[c] = f[c]
          /\ \A c \in DOMAIN lasting \ DOMAIN f : lasting'[c] = lasting[c]
      BY <1>1, <2>1, OverFacts
    <2>3. ChangesLast'
      BY <2>2, <1>3, <1>4, <1>6, AccountsNoneAssumption DEF ChangesLast
    <2> QED
      BY <2>2, <2>3, <1>3, <1>5, <1>7
  <1>8. CASE At("save") # {}
    <2>1. lasting' = [c \in DOMAIN lasting \ DOMAIN f |-> lasting[c]]
      BY <1>8 DEF Records
    <2>2. /\ lasting' \in Changes /\ DOMAIN lasting' = DOMAIN lasting \ DOMAIN f
          /\ \A c \in DOMAIN lasting' : lasting'[c] = lasting[c]
      BY <1>1, <2>1, RestFacts
    <2>3. ChangesLast'
      BY <2>2, <1>3, <1>4, <1>6, AccountsNoneAssumption DEF ChangesLast
    <2> QED
      BY <2>2, <2>3, <1>3, <1>5
  <1> QED
    BY <1>7, <1>8

\* A request that ends without touching tokens keeps what is said of them.
LEMMA FinishTokens ==
    ASSUME AccountsInv, NEW r \in Requests, Finish(r), UNCHANGED <<resets, stage, used, shared, crossed>>
    PROVE  Once' /\ Crossings'
  <1>1. Once'
    BY FinishFacts DEF AccountsInv, Once
  <1>2. Crossings'
    <2>1. \A q \in Requests : q \in At("insert")' => q \in At("insert") /\ req'[q] = req[q]
      BY FinishFacts
    <2> QED
      BY <2>1 DEF AccountsInv, Crossings, At
  <1> QED
    BY <1>1, <1>2

\* What a commit of a change leaves of the copies that logins hold.
LEMMA RecordsCopies ==
    ASSUME AccountsInv, NEW r \in Requests, Finish(r),
           NEW f \in Changes, user # None, Records(f), user' = Over(f, user), Flagged(f)
    PROVE  Copies'
  <1>1. \A q \in Requests : q \in At("save")' => q \in At("save") /\ req'[q] = req[q]
    BY FinishFacts
  <1>2. lasting' \in Changes
    BY RecordsFacts
  <1>3. lasting' # None
    BY <1>2, AccountsNoneAssumption
  <1>4. \A q \in At("save") : \A c \in DOMAIN lasting' : req[q].change[c] = lasting'[c]
    BY RecordsFacts DEF AccountsInv, Copies
  <1> QED
    BY <1>1, <1>3, <1>4 DEF Copies, At

LEMMA LoginKeeps ==
    ASSUME AccountsInv, NEW r \in Requests, NEW word, Login(r, word)
    PROVE  AccountsInv'
  <1> DEFINE x == [Idle EXCEPT !.pc = "save", !.change = user]
  <1>1. /\ x.pc = "save" /\ x.token = Idle.token /\ x.doomed = Idle.doomed
        /\ x.change = user
    BY DEF Idle
  <1>2. user \in Row /\ user \in Changes /\ user # None
    BY RowElim DEF AccountsInv, TypeOK, Login
  <1>3. x \in Request
    BY <1>2, IdleFacts DEF Request
  <1>4. Shape(x)
    BY <1>1, <1>2 DEF Shape, AccountsInv, RowFlagged
  <1>5. /\ req' = [req EXCEPT ![r] = x] /\ r \in At("idle")
        /\ UNCHANGED <<user, created, resets, stage, lasting, used, shared, crossed>>
    BY DEF Login, Start
  <1> HIDE DEF x
  <1>6. /\ req \in [Requests -> Request] /\ req' \in [Requests -> Request]
        /\ req'[r] = x /\ \A q \in Requests \ {r} : req'[q] = req[q]
    BY <1>3, <1>5 DEF AccountsInv, TypeOK
  <1>7. TypeOK'
    BY <1>5, <1>6 DEF AccountsInv, TypeOK
  <1>8. Shapes'
    BY <1>4, <1>6 DEF AccountsInv, Shapes
  <1>9. ChangesLast' /\ BeforeCreation' /\ RowFlagged'
    BY <1>5 DEF AccountsInv, ChangesLast, BeforeCreation, RowFlagged
  <1>10. lasting # None /\ \A c \in DOMAIN lasting : user[c] = lasting[c]
    BY <1>2 DEF AccountsInv, ChangesLast
  <1>11. Copies'
    <2>1. \A q \in Requests : q \in At("save")' => q = r \/ (q \in At("save") /\ req'[q] = req[q])
      BY <1>6 DEF At
    <2> QED
      BY <2>1, <1>1, <1>5, <1>6, <1>10 DEF AccountsInv, Copies, At
  <1>12. \A q \in Requests, t \in Tokens : Holds(q, t)' => Holds(q, t)
    BY <1>1, <1>6 DEF Holds, At
  <1>13. Once'
    BY <1>5, <1>12 DEF AccountsInv, Once
  <1>14. \A q \in Requests : q \in At("insert")' => q \in At("insert") /\ req'[q] = req[q]
    BY <1>1, <1>6 DEF At
  <1>15. Crossings'
    BY <1>5, <1>14 DEF AccountsInv, Crossings, At
  <1> QED
    BY <1>7, <1>8, <1>9, <1>11, <1>13, <1>15 DEF AccountsInv

LEMMA SaveLoginKeeps ==
    ASSUME AccountsInv, NEW r \in Requests, SaveLogin(r)
    PROVE  AccountsInv'
  <1> DEFINE f == req[r].change
  <1>1. /\ r \in At("save") /\ Finish(r)
        /\ UNCHANGED <<created, resets, stage, lasting, used, shared, crossed>>
    BY DEF SaveLogin
  <1>2. f \in Row /\ Flagged(f)
    BY <1>1 DEF AccountsInv, Shapes, Shape, At
  <1>3. f \in Changes /\ DOMAIN f = Columns
    BY <1>2, RowElim
  <1>4. lasting # None /\ \A c \in DOMAIN lasting : f[c] = lasting[c]
    BY <1>1 DEF AccountsInv, Copies
  <1>5. lasting \in Changes
    BY <1>4 DEF AccountsInv, TypeOK
  <1> DEFINE g == [f EXCEPT !["flag"] = TRUE]
  <1>6. "flag" \in Columns /\ TRUE \in Values("flag")
    BY DEF Columns, Values
  <1>7. g \in Row /\ Flagged(g)
    <2>1. f \in [Columns -> AnyValue] /\ \A c \in Columns : f[c] \in Values(c)
      BY <1>3, ChangeElim
    <2>2. /\ DOMAIN g = Columns /\ g["flag"] = TRUE
          /\ \A c \in Columns \ {"flag"} : g[c] = f[c]
      BY <1>3, <1>6
    <2>3. \A c \in Columns : g[c] \in Values(c)
      BY <2>1, <2>2, <1>6
    <2>4. g \in [Columns -> AnyValue]
      BY <2>1, <1>6, ValuesAny
    <2>5. g \in Changes
      BY <2>3, <2>4, ChangeIntro
    <2>6. Flagged(g)
      BY <1>2, <1>3, <2>2 DEF Flagged
    <2> QED
      BY <2>2, <2>5, <2>6 DEF Row
  <1>8. user' = IF user = None THEN g ELSE f
    BY DEF SaveLogin
  <1> HIDE DEF f, g
  <1>9. user' \in Row /\ Flagged(user')
    BY <1>2, <1>7, <1>8
  <1>10. user' # None
    BY <1>9, RowElim, AccountsNoneAssumption
  <1>11. TypeOK'
    BY <1>1, <1>9, <1>10, FinishFacts DEF AccountsInv, TypeOK
  <1>12. ChangesLast'
    BY <1>1, <1>4, <1>8, <1>10 DEF AccountsInv, ChangesLast
  <1>13. BeforeCreation'
    BY <1>1, <1>4 DEF AccountsInv, BeforeCreation
  <1>14. RowFlagged'
    BY <1>9 DEF RowFlagged
  <1>15. \A q \in Requests : q \in At("save")' => q \in At("save") /\ req'[q] = req[q]
    BY <1>1, FinishFacts
  <1>16. Copies'
    BY <1>1, <1>15 DEF AccountsInv, Copies, At
  <1> QED
    BY <1>1, <1>11, <1>12, <1>13, <1>14, <1>16, FinishFacts, FinishTokens DEF AccountsInv

LEMMA UpdateKeeps ==
    ASSUME AccountsInv, NEW r \in Requests, Update(r)
    PROVE  AccountsInv'
  <1> DEFINE f == req[r].change
  <1>1. /\ Finish(r) /\ UNCHANGED <<created, resets, stage, used, shared, crossed>>
    BY DEF Update
  <1>2. f \in Changes /\ Flagged(f)
    BY DEF AccountsInv, TypeOK, Request, Shapes, Shape
  <1>3. CASE user = None
    <2>1. UNCHANGED <<user, lasting>>
      BY <1>3 DEF Update
    <2>2. \A q \in Requests : q \in At("save")' => q \in At("save") /\ req'[q] = req[q]
      BY <1>1, FinishFacts
    <2>3. TypeOK'
      BY <1>1, <2>1, FinishFacts DEF AccountsInv, TypeOK
    <2>4. ChangesLast' /\ BeforeCreation' /\ RowFlagged'
      BY <1>1, <2>1 DEF AccountsInv, ChangesLast, BeforeCreation, RowFlagged
    <2>5. Copies'
      BY <2>1, <2>2 DEF AccountsInv, Copies, At
    <2> QED
      BY <1>1, <2>3, <2>4, <2>5, FinishFacts, FinishTokens DEF AccountsInv
  <1>4. CASE user # None
    <2>1. user' = Over(f, user) /\ Records(f)
      BY <1>4 DEF Update
    <2> HIDE DEF f
    <2>2. /\ lasting' \in Changes /\ user' \in Row /\ ChangesLast' /\ RowFlagged'
      BY <1>2, <1>4, <2>1, RecordsFacts
    <2>3. user' # None
      BY <2>2, RowElim, AccountsNoneAssumption
    <2>4. TypeOK'
      BY <1>1, <2>2, <2>3, FinishFacts DEF AccountsInv, TypeOK
    <2>5. BeforeCreation'
      BY <1>1, <1>4 DEF AccountsInv, BeforeCreation
    <2>6. Copies'
      BY <1>1, <1>2, <1>4, <2>1, RecordsCopies
    <2> QED
      BY <1>1, <2>2, <2>4, <2>5, <2>6, FinishFacts, FinishTokens DEF AccountsInv
  <1> QED
    BY <1>3, <1>4

LEMMA CommitDeleteKeeps ==
    ASSUME AccountsInv, NEW r \in Requests, CommitDelete(r)
    PROVE  AccountsInv'
  <1>1. /\ Finish(r) /\ UNCHANGED <<created, resets, stage, used, shared, crossed>>
        /\ resets = {} /\ user' = None
        /\ lasting' = IF At("save") = {} THEN None ELSE <<>>
    BY DEF CommitDelete, RecordsDeletion
  <1>2. lasting' \in Changes \cup {None}
    BY <1>1, EmptyFacts
  <1>3. TypeOK'
    BY <1>1, <1>2, FinishFacts DEF AccountsInv, TypeOK
  <1>4. ChangesLast'
    BY <1>1, EmptyFacts DEF ChangesLast
  <1>5. RowFlagged'
    BY <1>1 DEF RowFlagged
  <1>6. BeforeCreation'
    <2>1. ~created => At("save") = {}
      BY DEF AccountsInv, BeforeCreation, Copies
    <2> QED
      BY <1>1, <2>1 DEF BeforeCreation
  <1>7. Copies'
    <2>1. \A q \in Requests : q \in At("save")' => q \in At("save")
      BY <1>1, FinishFacts
    <2>2. <<>> # None
      BY EmptyFacts, AccountsNoneAssumption
    <2> QED
      BY <1>1, <2>1, <2>2, EmptyFacts DEF Copies, At
  <1> QED
    BY <1>1, <1>3, <1>4, <1>5, <1>6, <1>7, FinishFacts, FinishTokens DEF AccountsInv

LEMMA CreateKeeps ==
    ASSUME AccountsInv, NEW w \in Words \cup {Default}, NEW own \in BOOLEAN,
           NEW p \in Profiles, Create(w, own, p)
    PROVE  AccountsInv'
  <1> DEFINE f == NewRow(w, own, p)
  <1>1. /\ DOMAIN f = Columns
        /\ f["password"] = w /\ f["own"] = own /\ f["profile"] = p /\ f["flag"] = TRUE /\ f["blocked"] = FALSE
    BY DEF NewRow, Columns
  <1>2. \A c \in Columns : f[c] \in Values(c)
    BY <1>1 DEF Columns, Values
  <1>3. f \in [Columns -> AnyValue]
    <2>1. \A c \in Columns : f[c] \in AnyValue
      <3> HIDE DEF f
      <3> QED
        BY <1>2, ValuesAny
    <2> QED
      BY <2>1, Zenon DEF NewRow
  <1>4. /\ user' = f /\ lasting' = f /\ created' = TRUE /\ ~created
        /\ UNCHANGED <<resets, stage, req, used, shared, crossed>>
    BY DEF Create
  <1> HIDE DEF f
  <1>5. f \in Changes
    BY <1>2, <1>3, ChangeIntro
  <1>6. f \in Row /\ f # None
    BY <1>1, <1>5, AccountsNoneAssumption DEF Row
  <1>7. TypeOK'
    BY <1>4, <1>5, <1>6 DEF AccountsInv, TypeOK
  <1>8. ChangesLast' /\ BeforeCreation'
    BY <1>4, <1>6 DEF ChangesLast, BeforeCreation
  <1>9. RowFlagged'
    BY <1>1, <1>4 DEF RowFlagged, Flagged, Columns
  <1>10. At("save")' = {}
    BY <1>4 DEF AccountsInv, BeforeCreation, Copies, At
  <1>11. Shapes' /\ Once' /\ Crossings'
    BY <1>4 DEF AccountsInv, Shapes, Once, Holds, Crossings, At
  <1>12. Copies'
    BY <1>10 DEF Copies
  <1> QED
    BY <1>7, <1>8, <1>9, <1>11, <1>12 DEF AccountsInv

----------------------------------------------------------------------------
(* Reset tokens *)

\* A step that leaves the row and what is to last, and starts no login.
LEMMA RowKept ==
    ASSUME AccountsInv, UNCHANGED <<user, created, lasting>>,
           \A q \in Requests : q \in At("save")' => q \in At("save") /\ req'[q] = req[q]
    PROVE  ChangesLast' /\ Copies' /\ BeforeCreation' /\ RowFlagged'
  <1>1. Copies'
    BY DEF AccountsInv, Copies, At
  <1> QED
    BY <1>1 DEF AccountsInv, ChangesLast, BeforeCreation, RowFlagged

LEMMA DeleteResetsKeeps ==
    ASSUME AccountsInv, NEW r \in Requests, DeleteResets(r)
    PROVE  AccountsInv'
  <1> DEFINE x == [req[r] EXCEPT !.pc = "insert", !.doomed = resets]
  <1>1. /\ r \in At("request") /\ req' = [req EXCEPT ![r] = x]
        /\ UNCHANGED <<user, created, resets, stage, lasting, used, shared>>
        /\ crossed' = IF At("insert") = {} THEN crossed \ {r}
                      ELSE crossed \cup At("insert") \cup {r}
    BY DEF DeleteResets
  <1>2. req[r] \in Request /\ resets \subseteq Tokens /\ req \in [Requests -> Request]
    BY DEF AccountsInv, TypeOK
  <1>3. /\ x \in Request /\ x.pc = "insert" /\ x.doomed = resets
        /\ x.change = req[r].change /\ x.token = req[r].token
    BY <1>2 DEF Request
  <1> HIDE DEF x
  <1>4. /\ req' \in [Requests -> Request] /\ req'[r] = x
        /\ \A q \in Requests \ {r} : req'[q] = req[q]
    BY <1>1, <1>2, <1>3
  <1>5. TypeOK'
    BY <1>1, <1>4 DEF AccountsInv, TypeOK, At
  <1>6. Shapes'
    BY <1>3, <1>4 DEF AccountsInv, Shapes, Shape
  <1>7. ChangesLast' /\ Copies' /\ BeforeCreation' /\ RowFlagged'
    <2>1. \A q \in Requests : q \in At("save")' => q \in At("save") /\ req'[q] = req[q]
      BY <1>3, <1>4 DEF At
    <2> QED
      BY <1>1, <2>1, RowKept
  <1>8. \A q \in Requests, t \in Tokens : Holds(q, t)' => Holds(q, t)
    BY <1>3, <1>4 DEF Holds, At
  <1>9. Once'
    BY <1>1, <1>8 DEF AccountsInv, Once
  <1>10. \A q \in Requests : q \in At("insert")' =>
            q = r \/ (q \in At("insert") /\ req'[q] = req[q])
    BY <1>4 DEF At
  <1>11. Crossings'
    <2>1. At("insert") \subseteq Requests /\ At("insert")' \subseteq Requests
      BY DEF At
    <2>2. CASE At("insert") = {}
      <3>1. At("insert")' \subseteq {r}
        BY <1>10, <2>1, <2>2
      <3> QED
        BY <3>1, <1>1, <1>3, <1>4 DEF Crossings
    <2>3. CASE At("insert") # {}
      <3>1. At("insert")' \subseteq crossed'
        BY <1>1, <1>10, <2>1, <2>3
      <3> QED
        BY <3>1 DEF Crossings
    <2> QED
      BY <2>2, <2>3
  <1> QED
    BY <1>5, <1>6, <1>7, <1>9, <1>11 DEF AccountsInv

LEMMA InsertResetKeeps ==
    ASSUME AccountsInv, NEW r \in Requests, InsertReset(r)
    PROVE  AccountsInv'
  <1>1. PICK t \in Tokens :
          /\ stage[t] = "new"
          /\ stage' = [stage EXCEPT ![t] = "saved"]
          /\ resets' = (resets \ req[r].doomed) \cup {t}
          /\ req' = [req EXCEPT ![r] = [Idle EXCEPT !.pc = "mail", !.token = t]]
    BY DEF InsertReset
  <1> DEFINE x == [Idle EXCEPT !.pc = "mail", !.token = t]
  <1>2. /\ r \in At("insert") /\ user # None /\ req' = [req EXCEPT ![r] = x]
        /\ UNCHANGED <<user, created, lasting, used, shared, crossed>>
    BY <1>1 DEF InsertReset
  <1>3. x \in Request
    BY IdleFacts DEF Request
  <1>4. x.pc = "mail" /\ x.token = t /\ x.change = Idle.change
    BY DEF Idle
  <1> HIDE DEF x
  <1>5. /\ req \in [Requests -> Request] /\ req' \in [Requests -> Request]
        /\ req'[r] = x /\ \A q \in Requests \ {r} : req'[q] = req[q]
    BY <1>2, <1>3 DEF AccountsInv, TypeOK
  <1>6. /\ stage' \in [Tokens -> {"new", "saved", "mailed"}]
        /\ stage'[t] = "saved" /\ \A u \in Tokens \ {t} : stage'[u] = stage[u]
    BY <1>1 DEF AccountsInv, TypeOK
  <1>7. TypeOK'
    BY <1>1, <1>2, <1>5, <1>6 DEF AccountsInv, TypeOK
  <1>8. Shapes'
    BY <1>4, <1>5, IdleFacts DEF AccountsInv, Shapes, Shape
  <1>9. ChangesLast' /\ Copies' /\ BeforeCreation' /\ RowFlagged'
    <2>1. \A q \in Requests : q \in At("save")' => q \in At("save") /\ req'[q] = req[q]
      BY <1>4, <1>5 DEF At
    <2> QED
      BY <1>2, <2>1, RowKept
  <1>10. \A q \in Requests, u \in Tokens : Holds(q, u)' => Holds(q, u)
    BY <1>4, <1>5 DEF Holds, At
  <1>11. used[t] = 0 /\ \A q \in Requests : ~Holds(q, t)
    BY <1>1 DEF AccountsInv, Once
  <1>12. Once'
    <2>1. \A u \in Tokens : stage'[u] = "new" => stage[u] = "new"
      BY <1>6
    <2>2. \A u \in Tokens : used[u] = 1 /\ u \notin resets => u \notin resets'
      BY <1>1, <1>11
    <2> QED
      BY <2>1, <2>2, <1>2, <1>10 DEF AccountsInv, Once
  <1>13. \A q \in Requests : q \in At("insert")' =>
            q # r /\ q \in At("insert") /\ req'[q] = req[q]
    BY <1>4, <1>5 DEF At
  <1>14. Crossings'
    \* Whoever is still at INSERT met r there.
    <2>1. At("insert")' \subseteq crossed
      BY <1>2, <1>13 DEF AccountsInv, Crossings, At
    <2> QED
      BY <2>1, <1>2 DEF Crossings
  <1> QED
    BY <1>7, <1>8, <1>9, <1>12, <1>14 DEF AccountsInv

LEMMA SendPasswordResetEmailKeeps ==
    ASSUME AccountsInv, NEW r \in Requests, SendPasswordResetEmail(r)
    PROVE  AccountsInv'
  <1> DEFINE t == req[r].token
  <1>1. /\ r \in At("mail") /\ stage' = [stage EXCEPT ![t] = "mailed"] /\ Finish(r)
        /\ UNCHANGED <<user, created, resets, lasting, used, shared, crossed>>
    BY DEF SendPasswordResetEmail
  <1>2. t \in Tokens
    BY <1>1 DEF AccountsInv, Shapes, Shape, At
  <1> HIDE DEF t
  <1>3. /\ stage' \in [Tokens -> {"new", "saved", "mailed"}]
        /\ \A u \in Tokens : stage'[u] = "new" => stage[u] = "new"
    BY <1>1, <1>2 DEF AccountsInv, TypeOK
  <1>4. TypeOK'
    BY <1>1, <1>3, FinishFacts DEF AccountsInv, TypeOK
  <1>5. ChangesLast' /\ Copies' /\ BeforeCreation' /\ RowFlagged'
    BY <1>1, FinishFacts, RowKept
  <1>6. Once'
    BY <1>1, <1>3, FinishFacts DEF AccountsInv, Once
  <1>7. Crossings'
    <2>1. \A q \in Requests : q \in At("insert")' => q \in At("insert") /\ req'[q] = req[q]
      BY <1>1, FinishFacts
    <2> QED
      BY <1>1, <2>1 DEF AccountsInv, Crossings, At
  <1> QED
    BY <1>1, <1>4, <1>5, <1>6, <1>7, FinishFacts DEF AccountsInv

LEMMA ResetPasswordKeeps ==
    ASSUME AccountsInv, NEW r \in Requests, NEW t \in Tokens, NEW w \in Words,
           ResetPassword(r, t, w)
    PROVE  AccountsInv'
  <1> DEFINE f == Password(w, TRUE)
             x == [Idle EXCEPT !.pc = "reset", !.token = t, !.change = f]
  <1>1. /\ stage[t] = "mailed" /\ t \in resets /\ r \in At("idle")
        /\ req' = [req EXCEPT ![r] = x]
        /\ shared' = IF \E q \in At("reset") : req[q].token = t THEN shared \cup {t} ELSE shared
        /\ UNCHANGED <<user, created, resets, stage, lasting, used, crossed>>
    BY DEF ResetPassword, Start
  <1>2. f \in Changes /\ DOMAIN f = {"password", "own"} /\ f["own"] = TRUE
    BY PasswordFacts
  <1> HIDE DEF f
  <1>3. Flagged(f)
    BY <1>2 DEF Flagged
  <1>4. x \in Request
    BY <1>2, IdleFacts DEF Request
  <1>5. x.pc = "reset" /\ x.token = t /\ x.change = f
    BY DEF Idle
  <1> HIDE DEF x
  <1>6. /\ req \in [Requests -> Request] /\ req' \in [Requests -> Request]
        /\ req'[r] = x /\ \A q \in Requests \ {r} : req'[q] = req[q]
    BY <1>1, <1>4 DEF AccountsInv, TypeOK
  <1>7. TypeOK'
    BY <1>1, <1>6 DEF AccountsInv, TypeOK
  <1>8. Shapes'
    BY <1>3, <1>5, <1>6 DEF AccountsInv, Shapes, Shape
  <1>9. ChangesLast' /\ Copies' /\ BeforeCreation' /\ RowFlagged'
    <2>1. \A q \in Requests : q \in At("save")' => q \in At("save") /\ req'[q] = req[q]
      BY <1>5, <1>6 DEF At
    <2> QED
      BY <1>1, <2>1, RowKept
  <1>10. \A q \in Requests, u \in Tokens :
           Holds(q, u)' => Holds(q, u) \/ (q = r /\ u = t)
    BY <1>5, <1>6 DEF Holds, At
  <1>11. t \notin shared' => \A q \in Requests : ~Holds(q, t)
    BY <1>1 DEF Holds
  <1>12. shared \subseteq shared'
    BY <1>1
  <1>13. Once'
    <2>1. \A u \in Tokens : stage'[u] = "new" => used'[u] = 0 /\ \A q \in Requests : ~Holds(q, u)'
      BY <1>1, <1>10 DEF AccountsInv, Once
    <2>2. ASSUME NEW u \in Tokens \ shared'
          PROVE  /\ used'[u] <= 1
                 /\ used'[u] = 1 => u \notin resets' /\ \A q \in Requests : ~Holds(q, u)'
                 /\ \A q, s \in Requests : Holds(q, u)' /\ Holds(s, u)' => q = s
      <3>1. /\ used[u] <= 1
            /\ used[u] = 1 => u \notin resets /\ \A q \in Requests : ~Holds(q, u)
            /\ \A q, s \in Requests : Holds(q, u) /\ Holds(s, u) => q = s
        BY <2>2, <1>12 DEF AccountsInv, Once
      <3>2. CASE u = t
        BY <3>1, <3>2, <2>2, <1>1, <1>10, <1>11
      <3>3. CASE u # t
        BY <3>1, <3>3, <1>1, <1>10
      <3> QED
        BY <3>2, <3>3
    <2> QED
      BY <2>1, <2>2 DEF Once
  <1>14. \A q \in Requests : q \in At("insert")' => q \in At("insert") /\ req'[q] = req[q]
    BY <1>5, <1>6 DEF At
  <1>15. Crossings'
    BY <1>1, <1>14 DEF AccountsInv, Crossings, At
  <1> QED
    BY <1>7, <1>8, <1>9, <1>13, <1>15 DEF AccountsInv

LEMMA DeleteExpiredKeeps ==
    ASSUME AccountsInv, NEW r \in Requests, NEW t \in Tokens, DeleteExpired(r, t)
    PROVE  AccountsInv'
  <1>1. /\ resets' = resets \ {t}
        /\ UNCHANGED <<user, created, stage, req, lasting, used, shared, crossed>>
    BY DEF DeleteExpired
  <1>2. TypeOK' /\ Shapes'
    BY <1>1 DEF AccountsInv, TypeOK, Shapes
  <1>3. ChangesLast' /\ Copies' /\ BeforeCreation' /\ RowFlagged'
    BY <1>1, RowKept DEF At
  <1>4. Once'
    BY <1>1 DEF AccountsInv, Once, Holds, At
  <1>5. Crossings'
    BY <1>1 DEF AccountsInv, Crossings, At
  <1> QED
    BY <1>2, <1>3, <1>4, <1>5 DEF AccountsInv

LEMMA CommitResetKeeps ==
    ASSUME AccountsInv, NEW r \in Requests, CommitReset(r)
    PROVE  AccountsInv'
  <1> DEFINE t == req[r].token
             f == req[r].change
  <1>1. /\ r \in At("reset") /\ resets' = resets \ {t} /\ Finish(r)
        /\ UNCHANGED <<created, stage, shared, crossed>>
    BY DEF CommitReset
  <1>2. t \in Tokens /\ f \in Changes /\ Flagged(f) /\ Holds(r, t)
    BY <1>1 DEF AccountsInv, TypeOK, Request, Shapes, Shape, At, Holds
  <1>3. \/ UNCHANGED <<user, used, lasting>>
        \/ /\ user # None /\ user' = Over(f, user) /\ Records(f)
           /\ used' = [used EXCEPT ![t] = IF @ < 2 THEN @ + 1 ELSE @]
    BY DEF CommitReset
  <1> HIDE DEF t, f
  <1>4. used \in [Tokens -> 0 .. 2] /\ resets \subseteq Tokens
    BY DEF AccountsInv, TypeOK
  <1>5. /\ used' \in [Tokens -> 0 .. 2]
        /\ \A u \in Tokens \ {t} : used'[u] = used[u]
        /\ used[t] = 0 => used'[t] <= 1
    BY <1>2, <1>3, <1>4
  <1>6. Once'
    <2>1. \A q \in Requests, u \in Tokens : Holds(q, u)' => Holds(q, u) /\ q # r
      BY <1>1, FinishFacts
    <2>2. stage[t] # "new"
      BY <1>2 DEF AccountsInv, Once
    <2>3. \A u \in Tokens : stage'[u] = "new" => used'[u] = 0 /\ \A q \in Requests : ~Holds(q, u)'
      BY <2>1, <2>2, <1>1, <1>5 DEF AccountsInv, Once
    <2>4. ASSUME NEW u \in Tokens \ shared'
          PROVE  /\ used'[u] <= 1
                 /\ used'[u] = 1 => u \notin resets' /\ \A q \in Requests : ~Holds(q, u)'
                 /\ \A q, s \in Requests : Holds(q, u)' /\ Holds(s, u)' => q = s
      <3>1. /\ used[u] <= 1
            /\ used[u] = 1 => u \notin resets /\ \A q \in Requests : ~Holds(q, u)
            /\ \A q, s \in Requests : Holds(q, u) /\ Holds(s, u) => q = s
        BY <2>4, <1>1 DEF AccountsInv, Once
      <3>2. CASE u = t
        \* r holds the token: it was not used, and nobody else holds it.
        <4>1. used[u] = 0
          BY <3>1, <3>2, <1>2, <1>4
        <4>2. \A q \in Requests : ~Holds(q, u)'
          BY <3>1, <3>2, <1>2, <2>1
        <4> QED
          BY <4>1, <4>2, <3>2, <1>1, <1>5
      <3>3. CASE u # t
        BY <3>1, <3>3, <1>1, <1>5, <2>1
      <3> QED
        BY <3>2, <3>3
    <2> QED
      BY <2>3, <2>4 DEF Once
  <1>7. Crossings'
    <2>1. \A q \in Requests : q \in At("insert")' => q \in At("insert") /\ req'[q] = req[q]
      BY <1>1, FinishFacts
    <2> QED
      BY <1>1, <2>1 DEF AccountsInv, Crossings, At
  <1>8. CASE UNCHANGED <<user, lasting>>
    <2>1. TypeOK'
      BY <1>1, <1>5, <1>8, FinishFacts DEF AccountsInv, TypeOK
    <2>2. ChangesLast' /\ Copies' /\ BeforeCreation' /\ RowFlagged'
      BY <1>1, <1>8, FinishFacts, RowKept
    <2> QED
      BY <1>1, <1>6, <1>7, <2>1, <2>2, FinishFacts DEF AccountsInv
  <1>9. CASE user # None /\ user' = Over(f, user) /\ Records(f)
    <2>1. lasting' \in Changes /\ user' \in Row /\ ChangesLast' /\ RowFlagged'
      BY <1>2, <1>9, RecordsFacts
    <2>2. user' # None
      BY <2>1, RowElim, AccountsNoneAssumption
    <2>3. TypeOK'
      BY <1>1, <1>5, <2>1, <2>2, FinishFacts DEF AccountsInv, TypeOK
    <2>4. BeforeCreation'
      BY <1>1, <1>9 DEF AccountsInv, BeforeCreation
    <2>5. Copies'
      BY <1>1, <1>2, <1>9, RecordsCopies
    <2> QED
      BY <1>1, <1>6, <1>7, <2>1, <2>3, <2>4, <2>5, FinishFacts DEF AccountsInv
  <1> QED
    BY <1>3, <1>8, <1>9

----------------------------------------------------------------------------
(* Theorems *)

LEMMA InitHolds ==
    ASSUME Init
    PROVE  AccountsInv
  <1>1. \A r \in Requests : req[r] = Idle
    BY DEF Init
  <1>2. At("save") = {} /\ At("insert") = {} /\ At("reset") = {}
    BY <1>1, IdleFacts DEF At
  <1>3. TypeOK
    <2>1. req \in [Requests -> Request]
      BY IdleFacts, Zenon DEF Init
    <2>2. stage \in [Tokens -> {"new", "saved", "mailed"}] /\ used \in [Tokens -> 0 .. 2]
      BY DEF Init
    <2>3. created \in BOOLEAN
      BY DEF Init
    <2>4. /\ user = None /\ lasting = None /\ resets = {} /\ shared = {} /\ crossed = {}
      BY DEF Init
    <2> QED
      BY <2>1, <2>2, <2>3, <2>4 DEF TypeOK
  <1>4. Shapes
    BY <1>1, IdleFacts DEF Shapes
  <1>5. ChangesLast /\ Copies /\ BeforeCreation /\ RowFlagged
    BY <1>2 DEF Init, ChangesLast, Copies, BeforeCreation, RowFlagged
  <1>6. Once
    BY <1>2 DEF Init, Once, Holds
  <1>7. Crossings
    BY <1>2 DEF Crossings
  <1> QED
    BY <1>3, <1>4, <1>5, <1>6, <1>7 DEF AccountsInv

LEMMA NextKeeps ==
    ASSUME AccountsInv, [Next]_vars
    PROVE  AccountsInv'
  <1>1. CASE RegisterUser \/ createUser
    BY <1>1, CreateKeeps DEF RegisterUser, createUser
  <1>2. ASSUME NEW r \in Requests, NEW word, Login(r, word)
        PROVE  AccountsInv'
    BY <1>2, LoginKeeps
  <1>3. ASSUME NEW r \in Requests, NEW old, NEW new \in Words, UpdateUserPassword(r, old, new)
        PROVE  AccountsInv'
    BY <1>3, UpdateUserPasswordKeeps
  <1>4. ASSUME NEW r \in Requests, NEW p \in Profiles, UpdateProfile(r, p)
        PROVE  AccountsInv'
    BY <1>4, UpdateProfileKeeps
  <1>5. ASSUME NEW r \in Requests, NEW t \in Tokens, NEW word \in Words, ResetPassword(r, t, word)
        PROVE  AccountsInv'
    BY <1>5, ResetPasswordKeeps
  <1>6. ASSUME NEW r \in Requests, NEW t \in Tokens, DeleteExpired(r, t)
        PROVE  AccountsInv'
    BY <1>6, DeleteExpiredKeeps
  <1>7. ASSUME NEW r \in Requests,
               \/ ResetUserPassword(r) \/ ToggleBlockUser(r) \/ DeleteUser(r)
               \/ RequestPasswordReset(r)
        PROVE  AccountsInv'
    BY <1>7, ResetUserPasswordKeeps, ToggleBlockUserKeeps, DeleteUserKeeps
  <1>8. ASSUME NEW r \in Requests,
               SaveLogin(r) \/ Update(r) \/ CommitDelete(r) \/ Fail(r)
        PROVE  AccountsInv'
    BY <1>8, SaveLoginKeeps, UpdateKeeps, CommitDeleteKeeps, FailKeeps
  <1>9. ASSUME NEW r \in Requests,
               \/ DeleteResets(r) \/ InsertReset(r) \/ SendPasswordResetEmail(r)
               \/ CommitReset(r)
        PROVE  AccountsInv'
    BY <1>9, DeleteResetsKeeps, InsertResetKeeps, SendPasswordResetEmailKeeps, CommitResetKeeps
  <1>10. CASE UNCHANGED vars
    BY <1>10 DEF vars, AccountsInv, TypeOK, Shapes, ChangesLast, Copies, BeforeCreation,
                 RowFlagged, Once, Holds, Crossings, At
  <1> QED
    BY <1>1, <1>2, <1>3, <1>4, <1>5, <1>6, <1>7, <1>8, <1>9, <1>10 DEF Next

\* The invariant holds in every reachable state.
THEOREM AccountsInvariant == Spec => []AccountsInv
  <1>1. Init => AccountsInv
    BY InitHolds
  <1>2. AccountsInv /\ [Next]_vars => AccountsInv'
    BY NextKeeps
  <1> QED
    BY <1>1, <1>2, PTL DEF Spec

\* The variables keep their types, and no reset token loses its user.
THEOREM AccountsTypes == Spec => []TypeOK
  <1>1. AccountsInv => TypeOK
    BY DEF AccountsInv
  <1> QED
    BY <1>1, AccountsInvariant, PTL

\* No handler but login undoes what another one has committed.
THEOREM CommitsLast == Spec => []ChangesLast
  <1>1. AccountsInv => ChangesLast
    BY DEF AccountsInv
  <1> QED
    BY <1>1, AccountsInvariant, PTL

\* Whoever is not told to change the password has chosen it himself.
THEOREM GivenIsFlagged == Spec => []UnflaggedIsOwn
  <1>1. AccountsInv => UnflaggedIsOwn
    <2> SUFFICES ASSUME AccountsInv, user # None, ~user["flag"]
                 PROVE  user["own"]
      BY DEF UnflaggedIsOwn
    <2>1. user \in Row /\ Flagged(user)
      BY DEF AccountsInv, TypeOK, RowFlagged
    <2>2. DOMAIN user = Columns /\ user["own"] \in BOOLEAN
      BY <2>1, RowElim, ChangeElim DEF Columns, Values
    <2> QED
      BY <2>1, <2>2 DEF Flagged, Columns
  <1> QED
    BY <1>1, AccountsInvariant, PTL

\* A reset token that no two requests held at once sets one password at most.
THEOREM TokensWorkOnce == Spec => []OneUse
  <1>1. AccountsInv => OneUse
    BY DEF AccountsInv, Once, OneUse
  <1> QED
    BY <1>1, AccountsInvariant, PTL

\* Only its own INSERT takes a request for a token to the mail.
LEMMA OnlyInsertMails ==
    ASSUME AccountsInv, [Next]_vars, NEW r \in Requests, r \in At("insert"), req'[r].pc = "mail"
    PROVE  InsertReset(r)
  <1>1. /\ req \in [Requests -> Request] /\ req[r].pc = "insert"
    BY DEF AccountsInv, TypeOK, At
  <1>2. ASSUME UNCHANGED req PROVE FALSE
    BY <1>1, <1>2
  <1>3. ASSUME NEW q \in Requests, NEW x, req' = [req EXCEPT ![q] = x], q = r => x.pc # "mail"
        PROVE  FALSE
    BY <1>1, <1>3
  <1>4. ASSUME NEW q \in Requests, Finish(q) PROVE FALSE
    BY <1>3, <1>4, IdleFacts DEF Finish
  <1>5. ASSUME NEW q \in Requests, NEW x, Start(q, x) PROVE FALSE
    BY <1>1, <1>3, <1>5 DEF Start, At
  <1>6. ASSUME NEW q \in Requests, DeleteResets(q) PROVE FALSE
    BY <1>1, <1>6 DEF DeleteResets, At
  <1>7. ASSUME NEW q \in Requests, InsertReset(q) PROVE q = r
    BY <1>1, <1>7 DEF InsertReset
  <1>8. CASE UNCHANGED vars
    BY <1>2, <1>8 DEF vars
  <1>9. CASE RegisterUser \/ createUser
    BY <1>2, <1>9 DEF RegisterUser, createUser, Create
  <1>10. ASSUME NEW q \in Requests,
                \/ \E word \in Words \cup {Default} : Login(q, word)
                \/ \E old \in Words \cup {Default}, new \in Words : UpdateUserPassword(q, old, new)
                \/ \E p \in Profiles : UpdateProfile(q, p)
                \/ \E t \in Tokens, word \in Words : ResetPassword(q, t, word)
                \/ ResetUserPassword(q) \/ ToggleBlockUser(q) \/ DeleteUser(q)
                \/ RequestPasswordReset(q)
         PROVE  FALSE
    BY <1>5, <1>10 DEF Login, UpdateUserPassword, UpdateProfile, ResetPassword,
         ResetUserPassword, ToggleBlockUser, DeleteUser, RequestPasswordReset, Change
  <1>11. ASSUME NEW q \in Requests, NEW t, DeleteExpired(q, t) PROVE FALSE
    BY <1>2, <1>11 DEF DeleteExpired
  <1>12. ASSUME NEW q \in Requests,
                \/ SaveLogin(q) \/ Update(q) \/ CommitDelete(q) \/ SendPasswordResetEmail(q)
                \/ CommitReset(q) \/ Fail(q)
         PROVE  FALSE
    BY <1>4, <1>12 DEF SaveLogin, Update, CommitDelete, SendPasswordResetEmail, CommitReset, Fail
  <1> QED
    BY <1>6, <1>7, <1>8, <1>9, <1>10, <1>11, <1>12 DEF Next

\* A request for a token that met no other one between DELETE and COMMIT leaves its
\* own token alone in the table.
THEOREM RequestsEndOthers == Spec => RequestEndsOthers
  <1>1. ASSUME AccountsInv, [Next]_vars, NEW r \in Requests \ crossed,
               r \in At("insert"), req'[r].pc = "mail"
        PROVE  resets' = {req'[r].token}
    <2>1. InsertReset(r)
      BY <1>1, OnlyInsertMails
    <2>2. resets \subseteq req[r].doomed
      BY <1>1 DEF AccountsInv, Crossings
    <2>3. PICK t \in Tokens :
            /\ resets' = (resets \ req[r].doomed) \cup {t}
            /\ req' = [req EXCEPT ![r] = [Idle EXCEPT !.pc = "mail", !.token = t]]
      BY <2>1 DEF InsertReset
    <2>4. req'[r].token = t
      BY <1>1, <2>3 DEF AccountsInv, TypeOK, Idle
    <2> QED
      BY <2>2, <2>3, <2>4
  <1>2. AccountsInv /\ [Next]_vars
          => [\A r \in Requests \ crossed :
                r \in At("insert") /\ req'[r].pc = "mail" => resets' = {req'[r].token}]_vars
    BY <1>1
  <1> QED
    BY <1>2, AccountsInvariant, PTL DEF Spec, RequestEndsOthers
=============================================================================
