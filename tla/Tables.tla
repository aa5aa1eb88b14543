------------------------------- MODULE Tables -------------------------------
(***************************************************************************)
(* The tables behind the administration of the platform, with their        *)
(* foreign keys (models/*.go), and the requests that read and write them   *)
(* through gorm.  A handler is the sequence of the database calls it       *)
(* makes; Access and Competitions say which.  This module says what each   *)
(* call does: gorm on PostgreSQL at READ COMMITTED, seen from the code.    *)
(*                                                                         *)
(* A call reads the rows that are committed and those its own transaction  *)
(* has written.  It waits while another transaction holds a row it writes, *)
(* refers to or deletes.  A DELETE is one look at the table, after the     *)
(* wait: rows added during the wait, which PostgreSQL would leave, and     *)
(* over which the handler then fails, are left to Fail.                    *)
(***************************************************************************)
EXTENDS Integers, Sequences, FiniteSets

CONSTANTS
    Requests,                                      \* goroutines; each serves one request
    Users, Roles, Scopes, Groups, Catalogs, Competitions,
    ScopeOf,                                       \* of a group: its column scope_id
    MaxAsked,                                      \* how many rows a request may name
    Databases                                      \* what the tables may hold at first

Entities == Users \cup Roles \cup Scopes \cup Groups \cup Catalogs \cup Competitions

Pairs(A, B) == {{a, b} : a \in A, b \in B}

\* The row of a join table is the set of the two rows it joins.  The tries of a
\* user in a competition refer to both just the same.
Links ==
    Pairs(Users, Roles) \cup Pairs(Users, Groups) \cup Pairs(Roles, Scopes)
      \cup Pairs(Scopes, Catalogs) \cup Pairs(Groups, Competitions)
      \cup Pairs(Users, Competitions)

ASSUME MaxAskedAssumption == MaxAsked \in Nat
ASSUME ScopeAssumption == ScopeOf \in [Groups -> Scopes]
ASSUME DistinctAssumption == Entities \cap Links = {}

\* Each kind has a table of its own, and identifiers are generated.
ASSUME KindsAssumption ==
    LET kind == <<Users, Roles, Scopes, Groups, Catalogs, Competitions>>
    IN \A i, j \in 1 .. 6 : i # j => kind[i] \cap kind[j] = {}

LinksOf(x, Y) == {{x, y} : y \in Y}

\* Foreign keys: what a row refers to.
Refs(x) ==
    CASE x \in Links -> x
      [] x \in Groups -> {ScopeOf[x]}
      [] OTHER -> {}

VARIABLES
    db,     \* the committed rows, with the columns that matter
    req,    \* what each request is at
    dead    \* history: rows that were there and were deleted

vars == <<db, req, dead>>

----------------------------------------------------------------------------
(* The calls.  Every one may fail; what the client is told then is "else". *)

\* First, Count: go on if (there is one of X) = want.
Check(X, want, else) == [op |-> "check", rows |-> X, want |-> want, else |-> else]
First(x) == Check({x}, TRUE, "error")
\* The read of the answer once all is committed.
Reload(x) == Check({x}, TRUE, "unread")
\* First, into the struct that is saved later.
Load(x) == [op |-> "load", row |-> x, else |-> "error"]
\* Find, followed by the handler's check of how many were found: "all", "some" or "any";
\* "count" is the check alone.
Find(X, need) == [op |-> "find", rows |-> X, need |-> need, of |-> {}, else |-> "error"]
\* Association("Users").Find.
Members(g) == [Find(Users, "any") EXCEPT !.of = {g}]
Begin == [op |-> "begin", else |-> "error"]
\* Commit, whose error the handler checks or not.
Commit == [op |-> "commit", else |-> "error"]
CommitUnchecked == [op |-> "commit", else |-> "ok"]
\* Create, or a plain INSERT.
Create(X, val) == [op |-> "create", rows |-> X, val |-> val, else |-> "error"]
\* INSERT ... ON CONFLICT DO NOTHING.
Ensure(X) == [op |-> "ensure", rows |-> X, else |-> "error"]
\* Association(...).Append, and what Updates and Save do with the associations that
\* were loaded: INSERT the rows that were found, in case they are gone, and x's links to
\* them, ON CONFLICT DO NOTHING.
Associate(x) == [op |-> "append", row |-> x, else |-> "error"]
\* Count, and skip the next call if there is one.
SkipIf(X) == [op |-> "skip", rows |-> X, else |-> "error"]
\* What Association(...).Replace does next: delete x's links to the others of Y.
Trim(x, Y) == [op |-> "trim", row |-> x, rows |-> Y, else |-> "error"]
Replace(x, Y) == <<Associate(x), Trim(x, Y)>>
\* Delete, Association(...).Clear or Delete, DELETE ... WHERE.
Delete(X) == [op |-> "delete", rows |-> X, else |-> "error"]
\* For each of the rows found: Clear its links to Y, or Delete it.
DetachFound(Y) == [op |-> "detach", rows |-> Y, else |-> "error"]
DeleteFound == [op |-> "deletefound", else |-> "error"]
\* Updates: columns of x, if it is there.  With associations loaded into x, in a
\* transaction, Associate follows.
Updates(x, set) == [op |-> "updates", row |-> x, set |-> set, else |-> "error"]
\* Save: every column of the copy that was loaded, likewise; without associations the
\* row is inserted if it is gone.
Save(x) == [op |-> "save", row |-> x, else |-> "error"]
\* Return if nothing was found, with the transaction as it is.
LeaveIfNone == [op |-> "leave", else |-> "ok"]
\* In Go, on the copy: negate one of its columns.
Negate(c) == [op |-> "negate", col |-> c, else |-> "error"]
\* Queries of their own: whether u manages the group, or one of each user's that was found.
Manages(u, g) == [op |-> "manages", by |-> u, row |-> g, else |-> "error"]
OwnsFound(u) == [op |-> "owns", by |-> u, else |-> "error"]

Nothing == <<>>                     \* no row; also the columns of a row without any

Idle == [name |-> "none", todo |-> <<>>, copy |-> Nothing, got |-> Nothing, put |-> Nothing,
         del |-> {}, open |-> FALSE, asked |-> {}, gone |-> {}, wrote |-> FALSE,
         answer |-> "none"]

----------------------------------------------------------------------------
(* What a request sees, and what the others make it wait for. *)

Running(r) == req[r].todo # <<>>

Call(r, op) == Running(r) /\ Head(req[r].todo).op = op

\* The rows of f, over those of g.
Over(f, g) ==
    [x \in DOMAIN f \cup DOMAIN g |-> IF x \in DOMAIN f THEN f[x] ELSE g[x]]

Without(f, X) == [x \in DOMAIN f \ X |-> f[x]]

After(r) == Over(req[r].put, Without(db, req[r].del))
Seen(r) == DOMAIN After(r)

Added(put) == DOMAIN put \ DOMAIN db

\* The open transaction of q holds one of the rows of `touched`, has deleted what one of
\* those that are new refers to, or has added a row that refers to one of `out`.
Blocks(q, touched, new, out) ==
    \/ touched \cap (DOMAIN req[q].put \cup req[q].del) # {}
    \/ \E x \in new : Refs(x) \cap req[q].del # {}
    \/ \E x \in Added(req[q].put) : Refs(x) \cap out # {}

Free(r, touched, new, out) ==
    \A q \in Requests \ {r} : ~Blocks(q, touched, Added(new), out)

\* The foreign keys hold for what r would see.
Consistent(rows) == \A x \in rows : Refs(x) \subseteq rows

ASSUME DatabasesAssumption == \A d \in Databases : Consistent(DOMAIN d)

\* Who may manage what, by the links in rows.
ManagesIn(rows, u, g) ==
    \E o \in Roles : {u, o} \in rows /\ {o, ScopeOf[g]} \in rows

OwnsIn(rows, u, target) ==
    \E g \in Groups : {target, g} \in rows /\ g \in rows /\ ManagesIn(rows, u, g)

----------------------------------------------------------------------------
(* Ways a call can end. *)

Answered(r, answer, open) ==
    [Idle EXCEPT !.answer = answer, !.open = open, !.wrote = req[r].wrote]

\* Roll back, if a transaction is open, and answer.
Refuse(r, answer) ==
    /\ req' = [req EXCEPT ![r] = Answered(r, answer, FALSE)]
    /\ UNCHANGED <<db, dead>>

\* Begin touches no row: it goes with the call before it, and its failure is that of the
\* call after it.
Begun(now) ==
    IF Head(now.todo).op = "begin" THEN [now EXCEPT !.todo = Tail(@), !.open = TRUE] ELSE now

\* On to the next call; after the last one the handler answers 2xx.
Advance(r, now) ==
    IF Tail(now.todo) = <<>>
      THEN [Idle EXCEPT !.answer = "ok", !.open = now.open, !.wrote = now.wrote]
      ELSE Begun([now EXCEPT !.todo = Tail(@)])

Proceed(r, now) ==
    /\ req' = [req EXCEPT ![r] = Advance(r, now)]
    /\ UNCHANGED <<db, dead>>

\* The rows put and del become those of everybody, and the requests under way have
\* seen the tables before.
Publish(r, put, del) ==
    LET rows == Over(put, Without(db, del))
        lost == DOMAIN db \ DOMAIN rows
        now == [req[r] EXCEPT !.put = Nothing, !.del = {}, !.open = FALSE,
                              !.wrote = @ \/ put # Nothing \/ del # {}]
    IN /\ db' = rows
       /\ dead' = (dead \cup lost) \ DOMAIN rows
       /\ req' = [q \in Requests |->
                    IF q = r THEN Advance(r, now)
                    ELSE IF Running(q) THEN [req[q] EXCEPT !.gone = @ \cup lost]
                    ELSE req[q]]

\* The join tables and groups.scope_id without their foreign keys.
Write_NoForeignKeys(r, touched, new, out) ==
    LET put == Over(new, Without(req[r].put, out))
        del == req[r].del \cup (out \cap DOMAIN db)
    IN /\ Free(r, touched, new, out)
       /\ IF req[r].open THEN Proceed(r, [req[r] EXCEPT !.put = put, !.del = del])
          ELSE Publish(r, put, del)

\* A call that looks at the rows of `touched`, sets those of new, deletes those of out.
Write(r, touched, new, out) ==
    LET put == Over(new, Without(req[r].put, out))
        del == req[r].del \cup (out \cap DOMAIN db)
        mine == [req[r] EXCEPT !.put = put, !.del = del]
        rows == (Seen(r) \ out) \cup DOMAIN new
    IN /\ Free(r, touched, new, out)
       /\ IF ~Consistent(rows) THEN Refuse(r, "error")
          ELSE IF req[r].open THEN Proceed(r, mine)
          ELSE Publish(r, put, del)

\* ON CONFLICT DO NOTHING.
InsertMissing(r, rows) == Write(r, DOMAIN rows, Without(rows, Seen(r)), {})

Put(r, new) == Write(r, DOMAIN new, new, {})

RemoveRows(r, rows) == Write(r, rows \cap Seen(r), Nothing, rows \cap Seen(r))

----------------------------------------------------------------------------
(* One action for each call. *)

Query(r) ==
    /\ Call(r, "check")
    /\ LET c == Head(req[r].todo) IN
         IF (c.rows \cap Seen(r) # {}) = c.want THEN Proceed(r, req[r])
                                                ELSE Refuse(r, c.else)

Loading(r) ==
    /\ Call(r, "load")
    /\ LET c == Head(req[r].todo) IN
         IF c.row \in Seen(r) THEN Proceed(r, [req[r] EXCEPT !.copy = After(r)[c.row]])
                              ELSE Refuse(r, "error")

Finding(r) ==
    /\ Call(r, "find")
    /\ LET c == Head(req[r].todo)
           linked == {x \in c.rows \cap Seen(r) : \A y \in c.of : {x, y} \in Seen(r)}
           found == [x \in linked |-> After(r)[x]]
       IN IF \/ c.need \in {"all", "count"} /\ DOMAIN found # c.rows
             \/ c.need = "some" /\ found = Nothing
            THEN Refuse(r, "error")
            ELSE Proceed(r, [req[r] EXCEPT !.got = IF c.need = "count" THEN @ ELSE found])

Skipping(r) ==
    /\ Call(r, "skip")
    /\ Proceed(r, [req[r] EXCEPT !.todo = IF Head(@).rows \cap Seen(r) = {} THEN @ ELSE Tail(@)])

Committing(r) ==
    /\ Call(r, "commit")
    /\ Publish(r, req[r].put, req[r].del)

Creating(r) ==
    /\ Call(r, "create")
    /\ LET c == Head(req[r].todo) IN
         IF c.rows \cap Seen(r) = {} THEN Put(r, [x \in c.rows |-> c.val])
                                    ELSE Refuse(r, "error")

Ensuring(r) ==
    /\ Call(r, "ensure")
    /\ InsertMissing(r, [x \in Head(req[r].todo).rows |-> Nothing])

Associating(r) ==
    /\ Call(r, "append")
    /\ LET links == LinksOf(Head(req[r].todo).row, DOMAIN req[r].got) IN
         InsertMissing(r, Over(req[r].got, [x \in links |-> Nothing]))

Trimming(r) ==
    /\ Call(r, "trim")
    /\ LET c == Head(req[r].todo) IN RemoveRows(r, LinksOf(c.row, c.rows \ DOMAIN req[r].got))

Deleting(r) ==
    /\ Call(r, "delete")
    /\ RemoveRows(r, Head(req[r].todo).rows)

DetachingFound(r) ==
    /\ Call(r, "detach")
    /\ RemoveRows(r, UNION {LinksOf(x, Head(req[r].todo).rows) : x \in DOMAIN req[r].got})

DeletingFound(r) ==
    /\ Call(r, "deletefound")
    /\ RemoveRows(r, DOMAIN req[r].got)

Updating(r) ==
    /\ Call(r, "updates")
    /\ LET c == Head(req[r].todo) IN
         Put(r, [x \in {c.row} \cap Seen(r) |-> Over(c.set, After(r)[x])])

Saving(r) ==
    /\ Call(r, "save")
    /\ LET c == Head(req[r].todo) IN
         IF req[r].got = Nothing THEN Put(r, [x \in {c.row} |-> req[r].copy])
         ELSE Put(r, [x \in {c.row} \cap Seen(r) |-> req[r].copy])

Negating(r) ==
    /\ Call(r, "negate")
    /\ Proceed(r, [req[r] EXCEPT !.copy[Head(req[r].todo).col] = ~@])

Leaving(r) ==
    /\ Call(r, "leave")
    /\ IF req[r].got # Nothing THEN Proceed(r, req[r])
       ELSE /\ req' = [req EXCEPT ![r] = Answered(r, "ok", req[r].open)]
            /\ UNCHANGED <<db, dead>>

Allowing(r) ==
    /\ Call(r, "manages") \/ Call(r, "owns")
    /\ LET c == Head(req[r].todo) IN
         IF \/ c.op = "manages" /\ ManagesIn(Seen(r), c.by, c.row)
            \/ c.op = "owns" /\ \A v \in DOMAIN req[r].got : OwnsIn(Seen(r), c.by, v)
           THEN Proceed(r, req[r])
           ELSE Refuse(r, "error")

\* The rows that the next call of r writes, there or not, and those that it deletes.
Wanted(r) ==
    LET c == Head(req[r].todo)
        got == DOMAIN req[r].got
    IN CASE c.op = "create" /\ c.rows \cap Seen(r) = {} -> c.rows
         [] c.op = "ensure" -> c.rows
         [] c.op = "append" -> got \cup LinksOf(c.row, got)
         [] c.op = "save" /\ got = {} -> {c.row}
         [] c.op \in {"updates", "save"} -> {c.row} \cap Seen(r)
         [] OTHER -> {}

Unwanted(r) ==
    LET c == Head(req[r].todo)
        got == DOMAIN req[r].got
        rows == CASE c.op = "trim" -> LinksOf(c.row, c.rows \ got)
                  [] c.op = "delete" -> c.rows
                  [] c.op = "detach" -> UNION {LinksOf(x, c.rows) : x \in got}
                  [] c.op = "deletefound" -> got
                  [] OTHER -> {}
    IN rows \cap Seen(r)

\* r waits for q.
Awaits(r, q) ==
    Running(r) /\ Blocks(q, Wanted(r) \cup Unwanted(r), Wanted(r) \ DOMAIN db, Unwanted(r))

\* The call fails: the connection, its deadline, a constraint that is not modelled.
Fail(r) ==
    /\ Running(r)
    /\ Head(req[r].todo).op \notin {"negate", "leave"}
    /\ Refuse(r, Head(req[r].todo).else)

Steps(r) ==
    \/ Query(r) \/ Loading(r) \/ Finding(r) \/ Skipping(r) \/ Committing(r)
    \/ Creating(r) \/ Ensuring(r) \/ Associating(r) \/ Trimming(r) \/ Deleting(r)
    \/ DetachingFound(r) \/ DeletingFound(r) \/ Updating(r) \/ Saving(r) \/ Negating(r) \/ Leaving(r)
    \/ Allowing(r)

----------------------------------------------------------------------------
(* How a handler begins: GetUserFromRequest has read the user and his roles, *)
(* from which the handler decides.                                           *)

\* permissions.RolesHavePermission and IsStaff.
RolesOf(u) == {o \in Roles : {u, o} \in DOMAIN db}
Has(u, bit) == \E o \in RolesOf(u) : bit \in db[o].permissions
IsStaff(u) == RolesOf(u) # {}

\* r has not been given a request yet.
Unserved(r) == req[r] = Idle

\* r serves the handler `name` for somebody who may, or not; `calls` are the calls it
\* makes, of which the new links and rows it was asked for.
Serve(r, name, may, asked, calls) ==
    /\ req' = [req EXCEPT ![r] =
                 IF may THEN Begun([Idle EXCEPT !.name = name, !.todo = calls, !.asked = asked])
                        ELSE [Idle EXCEPT !.answer = "error"]]
    /\ UNCHANGED <<db, dead>>

\* The same with associations loaded by then.
ServeWith(r, name, got, calls) ==
    /\ req' = [req EXCEPT ![r] =
                 Begun([Idle EXCEPT !.name = name, !.todo = calls,
                                    !.got = [x \in got |-> db[x]]])]
    /\ UNCHANGED <<db, dead>>

\* What a request may name of X, and the lists it may hold.
Some(X) == {S \in SUBSET X : Cardinality(S) <= MaxAsked}
Lists(X) == UNION {[1 .. n -> X] : n \in 1 .. MaxAsked}

\* Identifiers are generated: nobody has had them, and nobody is about to.  Names and
\* e-mails, which are unique, may be asked for twice.
Unused(X) == X \ (DOMAIN db \cup dead)
New(X) == Unused(X) \ UNION {req[q].asked : q \in Requests}

Init ==
    /\ db \in Databases
    /\ req = [r \in Requests |-> Idle]
    /\ dead = {}

----------------------------------------------------------------------------
(* Properties of every set of handlers.                                    *)

\* No step of any request, nor any order of the steps of several, with their transactions
\* open at once, leaves a link whose ends are not there, or a group without its scope; and
\* what is there is not deleted.
ForeignKeys == Consistent(DOMAIN db) /\ dead \cap DOMAIN db = {}

\* Nobody is told "error" whose request has changed something: wherever a call fails, and
\* whichever the others have committed meanwhile, the handler leaves the tables alone.
ErrorChangedNothing == \A r \in Requests : req[r].answer = "error" => ~req[r].wrote

\* What was deleted comes back in one way only: through a request that was asked to add
\* it or that had read it before it was deleted, for gorm inserts loaded associations
\* again.  Never through one that began later.
NoComeback ==
    [][\A x \in dead \cap DOMAIN db' :
         \E r \in Requests : req'[r].todo # req[r].todo /\ x \in req[r].asked \cup req[r].gone]_vars
=============================================================================
