------------------------------ MODULE Accounts ------------------------------
(***************************************************************************)
(* One account: its row of the table users and its rows of                 *)
(* password_resets, as the handlers of auth and users write them           *)
(* (handlers/auth/login.go, register.go, password-reset.go and             *)
(* handlers/users/profile_handlers.go, user_management.go).                *)
(*                                                                         *)
(* Every handler reads, works (hashing a password takes about a second)    *)
(* and then writes, so that others can come in between.  Most write the    *)
(* columns they are about; Login saves the whole row it has read.  A       *)
(* transaction changes the tables when it commits: what it does between    *)
(* its first write and that is hidden from the others, and who writes the  *)
(* same rows waits for it.                                                 *)
(***************************************************************************)
EXTENDS Integers

CONSTANTS
    Requests,   \* the goroutines serving requests
    Words,      \* passwords that users choose, the default one perhaps among them
    Default,    \* config.DefaultPassword
    Profiles,   \* what email and names can be
    Tokens,     \* reset tokens; generateResetToken makes each a new one
    None

VARIABLES
    user,       \* the row: a value for each column; None if there is none
    created,    \* the account was created
    resets,     \* password_resets: the tokens of this account
    stage,      \* of each token: "new", "saved" once it was generated, "mailed"
    req,        \* what each goroutine is at
    lasting,    \* history: the columns that were last changed while no login held a
                \* copy of the row, and what to; None before the account was created,
                \* and after it was deleted while no login held a copy
    used,       \* history: how often each token has set a password, up to twice
    shared,     \* history: tokens that two requests held at once
    crossed     \* history: requests for a token between whose DELETE and COMMIT
                \* another one's was

vars == <<user, created, resets, stage, req, lasting, used, shared, crossed>>

----------------------------------------------------------------------------
\* flag is has_default_password.  own is none of the table's: it is history, written
\* with the password and copied with the row, and says that the user chose it.
Columns == {"password", "own", "flag", "blocked", "profile"}

Values(c) ==
    CASE c = "password" -> Words \cup {Default}
      [] c \in {"own", "flag", "blocked"} -> BOOLEAN
      [] c = "profile" -> Profiles

AnyValue == UNION {Values(c) : c \in Columns}

\* What an UPDATE sets, and a row, which has every column.
Changes ==
    {f \in UNION {[cols -> AnyValue] : cols \in SUBSET Columns} :
       \A c \in DOMAIN f : f[c] \in Values(c)}

Row == {f \in Changes : DOMAIN f = Columns}

ASSUME AccountsNoneAssumption == None \notin Changes

\* The INSERT of a user: false is the zero value, so has_default_password gets the
\* column's default, true, whatever the handler asks for.
NewRow(password, own, profile) ==
    [c \in Columns |-> CASE c = "password" -> password [] c = "profile" -> profile
                         [] c = "own" -> own [] c = "flag" -> TRUE [] c = "blocked" -> FALSE]

Over(f, g) ==
    [c \in DOMAIN f \cup DOMAIN g |-> IF c \in DOMAIN f THEN f[c] ELSE g[c]]

Only(c, v) == [d \in {c} |-> v]

Password(word, own) ==
    [c \in {"password", "own"} |-> IF c = "password" THEN word ELSE own]

PasswordAndFlag(word, own, flag) ==
    [c \in {"password", "own", "flag"} |->
       CASE c = "password" -> word [] c = "own" -> own [] c = "flag" -> flag]

----------------------------------------------------------------------------
(* A request.  change is what its UPDATE will set; doomed are the tokens   *)
(* that the DELETE of createResetEntry has found.                          *)

Request == [pc : {"idle", "save", "update", "delete", "request", "insert", "mail", "reset"},
            change : Changes, token : Tokens \cup {None}, doomed : SUBSET Tokens]

Idle == [pc |-> "idle", change |-> <<>>, token |-> None, doomed |-> {}]

At(pc) == {q \in Requests : req[q].pc = pc}

Start(r, x) ==
    /\ r \in At("idle")
    /\ req' = [req EXCEPT ![r] = x]

Finish(r) == req' = [req EXCEPT ![r] = Idle]

\* A request to change columns of the row that was read.
Change(r, change) ==
    /\ user # None
    /\ Start(r, [Idle EXCEPT !.pc = "update", !.change = change])
    /\ UNCHANGED <<user, created, resets, stage, lasting, used, shared, crossed>>

\* A commit that is about these columns.
Records(change) ==
    lasting' = IF At("save") = {} THEN Over(change, lasting)
               ELSE [c \in DOMAIN lasting \ DOMAIN change |-> lasting[c]]

\* A commit that is about the row.
RecordsDeletion == lasting' = IF At("save") = {} THEN None ELSE <<>>

----------------------------------------------------------------------------
Init ==
    /\ user = None /\ created = FALSE
    /\ resets = {}
    /\ stage = [t \in Tokens |-> "new"]
    /\ req = [r \in Requests |-> Idle]
    /\ lasting = None
    /\ used = [t \in Tokens |-> 0]
    /\ shared = {} /\ crossed = {}

\* RegisterUser and createUser: the unique email lets one of them create the account.
Create(password, own, profile) ==
    /\ ~created
    /\ created' = TRUE
    /\ user' = NewRow(password, own, profile)
    /\ lasting' = user'
    /\ UNCHANGED <<resets, stage, req, used, shared, crossed>>

RegisterUser == \E w \in Words, p \in Profiles : Create(w, TRUE, p)

createUser == \E p \in Profiles : Create(Default, FALSE, p)

\* Login up to Save: the row is read, the password compared.
Login(r, word) ==
    /\ user # None
    /\ ~user["blocked"] /\ user["password"] = word
    /\ Start(r, [Idle EXCEPT !.pc = "save", !.change = user])
    /\ UNCHANGED <<user, created, resets, stage, lasting, used, shared, crossed>>

\* Save: every column, and if that meets no row an INSERT.
SaveLogin(r) ==
    /\ r \in At("save")
    /\ user' = IF user = None
               THEN [req[r].change EXCEPT !["flag"] = TRUE]
               ELSE req[r].change
    /\ Finish(r)
    /\ UNCHANGED <<created, resets, stage, lasting, used, shared, crossed>>

\* UpdateUserPassword: the old password is compared with the one read.  Of the new one
\* only the length is checked: it may be the default one.
UpdateUserPassword(r, old, new) ==
    /\ user # None /\ user["password"] = old
    /\ Change(r, PasswordAndFlag(new, TRUE, FALSE))

\* Mutant of ResetUserPassword: the flag is left as it is.
ResetUserPassword_PasswordOnly(r) == Change(r, Password(Default, FALSE))

\* ResetUserPassword, by who may: the password becomes the default.
ResetUserPassword(r) == Change(r, PasswordAndFlag(Default, FALSE, TRUE))

\* UpdateUserProfile and, by who may, UpdateTargetUserProfile.
UpdateProfile(r, p) == Change(r, Only("profile", p))

\* ToggleBlockUser: the flag is read before the transaction.
ToggleBlockUser(r) == user # None /\ Change(r, Only("blocked", ~user["blocked"]))

\* The UPDATE of one of these, committed.  It may meet no row.
Update(r) ==
    LET change == req[r].change
    IN  /\ r \in At("update")
        /\ \/ /\ user # None
              /\ user' = Over(change, user)
              /\ Records(change)
           \/ /\ user = None
              /\ UNCHANGED <<user, lasting>>
        /\ Finish(r)
        /\ UNCHANGED <<created, resets, stage, used, shared, crossed>>

\* DeleteUser and BulkDeleteUsers: found, and permitted.
DeleteUser(r) ==
    /\ user # None
    /\ Start(r, [Idle EXCEPT !.pc = "delete"])
    /\ UNCHANGED <<user, created, resets, stage, lasting, used, shared, crossed>>

\* Mutant of CommitDelete: the schema keeps no reset tokens from losing their user.
CommitDelete_Unconstrained(r) ==
    /\ r \in At("delete")
    /\ user' = None
    /\ RecordsDeletion
    /\ Finish(r)
    /\ UNCHANGED <<created, resets, stage, used, shared, crossed>>

\* The deletion, committed: the foreign key of password_resets forbids it while
\* there are tokens.
CommitDelete(r) ==
    /\ r \in At("delete")
    /\ resets = {}
    /\ user' = None
    /\ RecordsDeletion
    /\ Finish(r)
    /\ UNCHANGED <<created, resets, stage, used, shared, crossed>>

----------------------------------------------------------------------------
(* Reset tokens *)

RequestPasswordReset(r) ==
    /\ user # None
    /\ Start(r, [Idle EXCEPT !.pc = "request"])
    /\ UNCHANGED <<user, created, resets, stage, lasting, used, shared, crossed>>

\* Mutant of DeleteResets: nothing is deleted.
DeleteResets_Skipped(r) ==
    /\ r \in At("request")
    /\ req' = [req EXCEPT ![r].pc = "insert"]
    /\ crossed' = IF At("insert") = {} THEN crossed \ {r} ELSE crossed \cup At("insert") \cup {r}
    /\ UNCHANGED <<user, created, resets, stage, lasting, used, shared>>

\* The DELETE of createResetEntry, which sees what is committed.
DeleteResets(r) ==
    /\ r \in At("request")
    /\ req' = [req EXCEPT ![r].pc = "insert", ![r].doomed = resets]
    /\ crossed' = IF At("insert") = {} THEN crossed \ {r} ELSE crossed \cup At("insert") \cup {r}
    /\ UNCHANGED <<user, created, resets, stage, lasting, used, shared>>

\* INSERT and COMMIT: the foreign key wants the user.
InsertReset(r) ==
    /\ r \in At("insert")
    /\ user # None
    /\ \E t \in Tokens :
         /\ stage[t] = "new"
         /\ stage' = [stage EXCEPT ![t] = "saved"]
         /\ resets' = (resets \ req[r].doomed) \cup {t}
         /\ req' = [req EXCEPT ![r] = [Idle EXCEPT !.pc = "mail", !.token = t]]
    /\ UNCHANGED <<user, created, lasting, used, shared, crossed>>

SendPasswordResetEmail(r) ==
    /\ r \in At("mail")
    /\ stage' = [stage EXCEPT ![req[r].token] = "mailed"]
    /\ Finish(r)
    /\ UNCHANGED <<user, created, resets, lasting, used, shared, crossed>>

\* ResetPassword up to the new hash: the token is found; if it has expired it is
\* deleted.  HasDefaultPassword is false, its zero value, which Updates leaves out.
ResetPassword(r, t, word) ==
    /\ stage[t] = "mailed" /\ t \in resets
    /\ Start(r, [Idle EXCEPT !.pc = "reset", !.token = t, !.change = Password(word, TRUE)])
    /\ shared' = IF \E q \in At("reset") : req[q].token = t THEN shared \cup {t} ELSE shared
    /\ UNCHANGED <<user, created, resets, stage, lasting, used, crossed>>

DeleteExpired(r, t) ==
    /\ r \in At("idle")
    /\ stage[t] = "mailed" /\ t \in resets
    /\ resets' = resets \ {t}
    /\ UNCHANGED <<user, created, stage, req, lasting, used, shared, crossed>>

\* Mutant of CommitReset: the token is not deleted.
CommitReset_KeepsToken(r) ==
    LET t == req[r].token change == req[r].change
    IN  /\ r \in At("reset")
        /\ user # None
        /\ user' = Over(change, user)
        /\ Records(change)
        /\ used' = [used EXCEPT ![t] = IF @ < 2 THEN @ + 1 ELSE @]
        /\ Finish(r)
        /\ UNCHANGED <<created, resets, stage, shared, crossed>>

\* Mutant of CommitReset: the user is saved with the zero values of other columns.
CommitReset_Unblocks(r) ==
    LET t == req[r].token change == req[r].change
    IN  /\ r \in At("reset")
        /\ user # None
        /\ user' = [Over(change, user) EXCEPT !["blocked"] = FALSE]
        /\ used' = [used EXCEPT ![t] = IF @ < 2 THEN @ + 1 ELSE @]
        /\ Records(change)
        /\ resets' = resets \ {t}
        /\ Finish(r)
        /\ UNCHANGED <<created, stage, shared, crossed>>

\* The UPDATE of the password and the DELETE of the token, committed.  Either may
\* meet no row.
CommitReset(r) ==
    LET t == req[r].token change == req[r].change
    IN  /\ r \in At("reset")
        /\ \/ /\ user # None
              /\ user' = Over(change, user)
              /\ used' = [used EXCEPT ![t] = IF @ < 2 THEN @ + 1 ELSE @]
              /\ Records(change)
           \/ /\ user = None
              /\ UNCHANGED <<user, used, lasting>>
        /\ resets' = resets \ {t}
        /\ Finish(r)
        /\ UNCHANGED <<created, stage, shared, crossed>>

\* A statement fails, a deadline passes or the process dies: the transaction is
\* rolled back.
Fail(r) ==
    /\ r \notin At("idle")
    /\ Finish(r)
    /\ UNCHANGED <<user, created, resets, stage, lasting, used, shared, crossed>>

Next ==
    \/ RegisterUser \/ createUser
    \/ \E r \in Requests :
         \/ \E word \in Words \cup {Default} : Login(r, word)
         \/ \E old \in Words \cup {Default}, new \in Words : UpdateUserPassword(r, old, new)
         \/ \E p \in Profiles : UpdateProfile(r, p)
         \/ \E t \in Tokens, word \in Words : ResetPassword(r, t, word)
         \/ \E t \in Tokens : DeleteExpired(r, t)
         \/ ResetUserPassword(r) \/ ToggleBlockUser(r) \/ DeleteUser(r)
         \/ RequestPasswordReset(r)
         \/ SaveLogin(r) \/ Update(r) \/ CommitDelete(r)
         \/ DeleteResets(r) \/ InsertReset(r) \/ SendPasswordResetEmail(r) \/ CommitReset(r)
         \/ Fail(r)

Spec == Init /\ [][Next]_vars

----------------------------------------------------------------------------
(* Properties *)

\* The variables hold values of their types; every token in the table was generated,
\* and has a user.
TypeOK ==
    /\ user \in Row \cup {None}
    /\ created \in BOOLEAN
    /\ resets \subseteq Tokens
    /\ stage \in [Tokens -> {"new", "saved", "mailed"}]
    /\ req \in [Requests -> Request]
    /\ lasting \in Changes \cup {None}
    /\ used \in [Tokens -> 0 .. 2]
    /\ shared \subseteq Tokens /\ crossed \subseteq Requests
    /\ resets # {} => user # None
    /\ \A t \in resets : stage[t] # "new"

\* A change lasts until the next one of the same column, and a deletion for good,
\* unless a login held a copy of the row when it was committed: no other handler
\* undoes what others have done.
ChangesLast ==
    IF lasting = None THEN user = None
    ELSE \A c \in DOMAIN lasting : user # None /\ user[c] = lasting[c]

\* A user who is not told to change the password has chosen it: one that createUser or
\* ResetUserPassword gave stays flagged for as long as it is there, however resets,
\* changes and logins overlap.  Who chooses the default password himself is not told.
UnflaggedIsOwn == user # None /\ ~user["flag"] => user["own"]

\* A reset token sets one password, unless two requests held it at once.
OneUse == \A t \in Tokens \ shared : used[t] <= 1

\* A request for a token ends all others, unless it met another such request in its
\* transaction.
RequestEndsOthers ==
    [][\A r \in Requests \ crossed :
         r \in At("insert") /\ req'[r].pc = "mail" => resets' = {req'[r].token}]_vars
=============================================================================
