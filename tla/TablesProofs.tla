---------------------------- MODULE TablesProofs ----------------------------
(***************************************************************************)
(* The foreign keys of Tables hold for whatever calls the handlers make.   *)
(*                                                                         *)
(* PostgreSQL checks a key against what the transaction sees, and others   *)
(* commit before it does.  What makes the check last is the waiting, here  *)
(* Free: no two open transactions write or delete the same row, and none   *)
(* adds a row that refers to one another has deleted.                      *)
(*                                                                         *)
(* The order of the calls is what makes errors harmless.  The second half  *)
(* says which orders are good (Shaped), that the calls that remain always  *)
(* are in one (InOrder), and what a step can then do to a request (Sound). *)
(*                                                                         *)
(* Who waits for whom comes last: which calls a handler that writes more   *)
(* than once makes, by its name (Script), what it then holds (Stance), and *)
(* what it can wait for while another holds that (Waits).                  *)
(***************************************************************************)
EXTENDS Tables, SequenceTheorems, TLAPS

Fields == {"name", "todo", "copy", "got", "put", "del", "open", "asked", "gone", "wrote", "answer"}

\* What a transaction that has put A and deleted B sees of the rows D.
Sees(A, B, D) == A \cup (D \ B)

\* Two open transactions do not get in each other's way.
Apart(A, B, Q, Y, D) ==
    /\ (A \cup B) \cap (Q \cup Y) = {}
    /\ \A x \in A \ D : Refs(x) \cap Y = {}
    /\ \A x \in Q \ D : Refs(x) \cap B = {}

PutRows(r) == DOMAIN req[r].put
DelRows(r) == req[r].del

Shape == DOMAIN req = Requests /\ \A r \in Requests : DOMAIN req[r] = Fields
OnlyOpenWrites == \A r \in Requests : ~req[r].open => PutRows(r) = {} /\ DelRows(r) = {}
AllApart == \A r, q \in Requests : r # q => Apart(PutRows(r), DelRows(r), PutRows(q), DelRows(q), DOMAIN db)
EachConsistent == \A r \in Requests : Consistent(Sees(PutRows(r), DelRows(r), DOMAIN db))

IInv == Shape /\ OnlyOpenWrites /\ AllApart /\ EachConsistent /\ ForeignKeys

----------------------------------------------------------------------------
LEMMA OverDomain ==
    ASSUME NEW f, NEW g
    PROVE  DOMAIN Over(f, g) = DOMAIN f \cup DOMAIN g
  BY DEF Over

LEMMA WithoutDomain ==
    ASSUME NEW f, NEW S
    PROVE  DOMAIN Without(f, S) = DOMAIN f \ S
  BY DEF Without

LEMMA NothingDomain == DOMAIN Nothing = {}
  BY DEF Nothing

LEMMA SeenIs ==
    ASSUME NEW r
    PROVE  Seen(r) = Sees(PutRows(r), DelRows(r), DOMAIN db)
<1>1. DOMAIN After(r) = DOMAIN req[r].put \cup DOMAIN Without(db, req[r].del)
  BY OverDomain DEF After
<1>2. QED
  BY <1>1, WithoutDomain DEF Seen, Sees, PutRows, DelRows

LEMMA IdleFields ==
    /\ DOMAIN Idle = Fields
    /\ DOMAIN Idle.put = {} /\ Idle.del = {} /\ Idle.open = FALSE
  BY NothingDomain DEF Idle, Fields

----------------------------------------------------------------------------
(* Sets of rows. *)

\* A commit of one leaves what another sees consistent.
LEMMA CommitKeepsOthers ==
    ASSUME NEW A, NEW B, NEW Q, NEW Y, NEW D,
           Apart(A, B, Q, Y, D), Consistent(D),
           Consistent(Sees(A, B, D)), Consistent(Sees(Q, Y, D))
    PROVE  Consistent(Sees(Q, Y, Sees(A, B, D)))
<1>1. SUFFICES ASSUME NEW x \in Sees(Q, Y, Sees(A, B, D)), NEW y \in Refs(x)
               PROVE  y \in Sees(Q, Y, Sees(A, B, D))
  BY DEF Consistent
<1>2. CASE x \in Q \ D
  <2>1. y \in Sees(Q, Y, D)
    BY <1>2 DEF Consistent, Sees
  <2>2. y \notin B
    BY <1>2 DEF Apart
  <2>3. QED
    BY <2>1, <2>2 DEF Sees
<1>3. CASE x \in Q \cap D
  <2>1. y \in Sees(Q, Y, D)
    BY <1>3 DEF Consistent, Sees
  <2>2. x \in Sees(A, B, D)
    BY <1>3 DEF Apart, Sees
  <2>3. y \in Sees(A, B, D)
    BY <2>2 DEF Consistent
  <2>4. QED
    BY <2>1, <2>3 DEF Sees
<1>4. CASE x \notin Q /\ x \in D
  <2>1. x \in Sees(A, B, D) /\ x \in Sees(Q, Y, D)
    BY <1>4 DEF Sees
  <2>2. y \in Sees(A, B, D) /\ y \in Sees(Q, Y, D)
    BY <2>1 DEF Consistent
  <2>3. y \in D
    BY <1>4 DEF Consistent
  <2>4. QED
    BY <2>2, <2>3 DEF Sees
<1>5. CASE x \notin Q /\ x \notin D
  <2>1. x \in A \ D
    BY <1>5 DEF Sees
  <2>2. y \in Sees(A, B, D)
    BY <2>1 DEF Consistent, Sees
  <2>3. y \notin Y
    BY <2>1 DEF Apart
  <2>4. QED
    BY <2>2, <2>3 DEF Sees
<1>6. QED
  BY <1>2, <1>3, <1>4, <1>5

\* Those that were apart stay so when a third commits.
LEMMA CommitKeepsApart ==
    ASSUME NEW A, NEW B, NEW Q, NEW Y, NEW R, NEW Z, NEW D,
           Apart(Q, Y, R, Z, D), Apart(A, B, Q, Y, D), Apart(A, B, R, Z, D)
    PROVE  Apart(Q, Y, R, Z, Sees(A, B, D))
<1>1. Q \ Sees(A, B, D) \subseteq Q \ D /\ R \ Sees(A, B, D) \subseteq R \ D
  BY DEF Apart, Sees
<1>2. QED
  BY <1>1 DEF Apart

LEMMA ApartSymmetric ==
    ASSUME NEW A, NEW B, NEW Q, NEW Y, NEW D, Apart(A, B, Q, Y, D)
    PROVE  Apart(Q, Y, A, B, D)
  BY DEF Apart

LEMMA NoneApart ==
    ASSUME NEW Q, NEW Y, NEW D
    PROVE  Apart({}, {}, Q, Y, D)
  BY DEF Apart

----------------------------------------------------------------------------
(* What a step may leave in the records of the requests. *)

\* r is left with the rows A put and B deleted, and the others are as they were.
Left(r, A, B) ==
    /\ DOMAIN req' = Requests
    /\ DOMAIN req'[r] = Fields
    /\ ~req'[r].open => DOMAIN req'[r].put = {} /\ req'[r].del = {}
    /\ \/ DOMAIN req'[r].put = A /\ req'[r].del = B
       \/ DOMAIN req'[r].put = {} /\ req'[r].del = {}
    /\ \A q \in Requests \ {r} :
          /\ DOMAIN req'[q] = Fields
          /\ DOMAIN req'[q].put = PutRows(q) /\ req'[q].del = DelRows(q)
          /\ req'[q].open = req[q].open

LEMMA BegunKeeps ==
    ASSUME NEW now, DOMAIN now = Fields
    PROVE  /\ DOMAIN Begun(now) = Fields
           /\ Begun(now).put = now.put /\ Begun(now).del = now.del
           /\ Begun(now).open = now.open \/ Begun(now).open = TRUE
  BY DEF Begun, Fields

LEMMA AdvanceKeeps ==
    ASSUME NEW r, NEW now, DOMAIN now = Fields
    PROVE  /\ DOMAIN Advance(r, now) = Fields
           /\ \/ Advance(r, now).put = now.put /\ Advance(r, now).del = now.del
              \/ DOMAIN Advance(r, now).put = {} /\ Advance(r, now).del = {}
           /\ \/ Advance(r, now).open = now.open
              \/ Advance(r, now).open = TRUE
<1>1. CASE Tail(now.todo) = <<>>
  <2>1. Advance(r, now) = [Idle EXCEPT !.answer = "ok", !.open = now.open, !.wrote = now.wrote]
    BY <1>1 DEF Advance
  <2>2. QED
    BY <2>1, IdleFields DEF Fields
<1>2. CASE Tail(now.todo) # <<>>
  <2> DEFINE next == [now EXCEPT !.todo = Tail(@)]
  <2>1. Advance(r, now) = Begun(next)
    BY <1>2 DEF Advance
  <2>2. DOMAIN next = Fields /\ next.put = now.put /\ next.del = now.del /\ next.open = now.open
    BY DEF Fields
  <2> HIDE DEF next
  <2>3. QED
    BY <2>1, <2>2, BegunKeeps
<1>3. QED
  BY <1>1, <1>2

LEMMA LeftKeeps ==
    ASSUME IInv, NEW r \in Requests, NEW A, NEW B,
           Left(r, A, B), UNCHANGED <<db, dead>>,
           \A q \in Requests \ {r} : Apart(A, B, PutRows(q), DelRows(q), DOMAIN db),
           Consistent(Sees(A, B, DOMAIN db))
    PROVE  IInv'
<1> DEFINE D == DOMAIN db
<1>1. D' = D
  OBVIOUS
<1>2. \/ PutRows(r)' = A /\ DelRows(r)' = B
      \/ PutRows(r)' = {} /\ DelRows(r)' = {}
  BY DEF Left, PutRows, DelRows
<1>3. \A q \in Requests \ {r} : PutRows(q)' = PutRows(q) /\ DelRows(q)' = DelRows(q)
  BY DEF Left, PutRows, DelRows
<1>4. Shape'
  BY DEF Left, Shape
<1>5. OnlyOpenWrites'
  BY DEF IInv, Left, OnlyOpenWrites, PutRows, DelRows
<1>6. ForeignKeys'
  BY DEF IInv, ForeignKeys
<1> HIDE DEF D
<1>7. EachConsistent'
  <2>1. SUFFICES ASSUME NEW q \in Requests
                 PROVE  Consistent(Sees(PutRows(q)', DelRows(q)', D))
    BY <1>1 DEF EachConsistent, D
  <2>2. CASE q # r
    BY <2>2, <1>3 DEF IInv, EachConsistent, D
  <2>3. CASE q = r /\ PutRows(r)' = A /\ DelRows(r)' = B
    BY <2>3 DEF D
  <2>4. CASE q = r /\ PutRows(r)' = {} /\ DelRows(r)' = {}
    <3>1. Sees({}, {}, D) = D
      BY DEF Sees
    <3>2. QED
      BY <2>4, <3>1 DEF IInv, ForeignKeys, D
  <2>5. QED
    BY <2>2, <2>3, <2>4, <1>2
<1>8. \A q \in Requests \ {r} : Apart(PutRows(r)', DelRows(r)', PutRows(q)', DelRows(q)', D)
  <2>1. TAKE q \in Requests \ {r}
  <2>2. CASE PutRows(r)' = A /\ DelRows(r)' = B
    BY <2>2, <1>3 DEF D
  <2>3. CASE PutRows(r)' = {} /\ DelRows(r)' = {}
    BY <2>3, NoneApart
  <2>4. QED
    BY <2>2, <2>3, <1>2
<1>9. AllApart'
  <2>1. SUFFICES ASSUME NEW p \in Requests, NEW q \in Requests, p # q
                 PROVE  Apart(PutRows(p)', DelRows(p)', PutRows(q)', DelRows(q)', D)
    BY <1>1 DEF AllApart, D
  <2>2. CASE p = r
    BY <2>1, <2>2, <1>8
  <2>3. CASE q = r
    BY <2>1, <2>3, <1>8, ApartSymmetric
  <2>4. CASE p # r /\ q # r
    BY <2>1, <2>4, <1>3 DEF IInv, AllApart, D
  <2>5. QED
    BY <2>2, <2>3, <2>4
<1>10. QED
  BY <1>4, <1>5, <1>6, <1>7, <1>9 DEF IInv

LEMMA PublishKeeps ==
    ASSUME IInv, NEW r \in Requests, NEW put, NEW del, Publish(r, put, del),
           \A q \in Requests \ {r} : Apart(DOMAIN put, del, PutRows(q), DelRows(q), DOMAIN db),
           Consistent(Sees(DOMAIN put, del, DOMAIN db))
    PROVE  IInv'
<1> DEFINE D == DOMAIN db
           A == DOMAIN put
           lost == D \ DOMAIN Over(put, Without(db, del))
           now == [req[r] EXCEPT !.put = Nothing, !.del = {}, !.open = FALSE,
                                 !.wrote = @ \/ put # Nothing \/ del # {}]
<1>1. D' = Sees(A, del, D)
  <2>1. db' = Over(put, Without(db, del))
    BY DEF Publish
  <2>2. D' = A \cup DOMAIN Without(db, del)
    BY <2>1, OverDomain
  <2>3. QED
    BY <2>2, WithoutDomain DEF Sees
<1>2. DOMAIN now = Fields /\ DOMAIN now.put = {} /\ now.del = {}
  BY NothingDomain DEF IInv, Shape, Fields
<1>3. /\ DOMAIN req' = Requests
      /\ req'[r] = Advance(r, now)
  BY DEF Publish
<1>4. \A q \in Requests \ {r} : req'[q] \in {req[q], [req[q] EXCEPT !.gone = @ \cup lost]}
  BY DEF Publish
<1>5. dead' \cap DOMAIN db' = {}
  BY DEF Publish
<1> HIDE DEF now, lost
<1>6. DOMAIN req'[r] = Fields /\ PutRows(r)' = {} /\ DelRows(r)' = {}
  BY <1>2, <1>3, AdvanceKeeps DEF PutRows, DelRows
<1>7. \A q \in Requests \ {r} :
         /\ DOMAIN req'[q] = Fields /\ req'[q].open = req[q].open
         /\ PutRows(q)' = PutRows(q) /\ DelRows(q)' = DelRows(q)
  <2>1. TAKE q \in Requests \ {r}
  <2>2. DOMAIN req[q] = Fields
    BY DEF IInv, Shape
  <2>3. CASE req'[q] = req[q]
    BY <2>2, <2>3 DEF PutRows, DelRows
  <2>4. CASE req'[q] = [req[q] EXCEPT !.gone = @ \cup lost]
    BY <2>2, <2>4 DEF PutRows, DelRows, Fields
  <2>5. QED
    BY <2>3, <2>4, <1>4
<1>8. Shape'
  BY <1>3, <1>6, <1>7 DEF Shape
<1>9. OnlyOpenWrites'
  BY <1>6, <1>7 DEF IInv, OnlyOpenWrites
<1> HIDE DEF D, A
<1>10. ForeignKeys'
  BY <1>1, <1>5 DEF ForeignKeys, D, A
<1>11. EachConsistent'
  <2>1. SUFFICES ASSUME NEW q \in Requests
                 PROVE  Consistent(Sees(PutRows(q)', DelRows(q)', D'))
    BY DEF EachConsistent, D
  <2>2. CASE q = r
    <3>1. Sees({}, {}, D') = D'
      BY DEF Sees
    <3>2. QED
      BY <2>2, <3>1, <1>6, <1>10 DEF ForeignKeys, D
  <2>3. CASE q # r
    <3>1. Consistent(D) /\ Consistent(Sees(PutRows(q), DelRows(q), D))
      BY DEF IInv, ForeignKeys, EachConsistent, D
    <3>2. Consistent(Sees(PutRows(q), DelRows(q), Sees(A, del, D)))
      BY <2>3, <3>1, CommitKeepsOthers DEF D, A
    <3>3. QED
      BY <2>3, <3>2, <1>1, <1>7
  <2>4. QED
    BY <2>2, <2>3
<1>12. AllApart'
  <2>1. SUFFICES ASSUME NEW p \in Requests, NEW q \in Requests, p # q
                 PROVE  Apart(PutRows(p)', DelRows(p)', PutRows(q)', DelRows(q)', D')
    BY DEF AllApart, D
  <2>2. CASE p = r
    BY <2>2, <1>6, NoneApart
  <2>3. CASE q = r
    BY <2>3, <1>6, NoneApart, ApartSymmetric
  <2>4. CASE p # r /\ q # r
    <3>1. Apart(PutRows(p), DelRows(p), PutRows(q), DelRows(q), D)
      BY <2>1 DEF IInv, AllApart, D
    <3>2. /\ Apart(A, del, PutRows(p), DelRows(p), D)
          /\ Apart(A, del, PutRows(q), DelRows(q), D)
      BY <2>4 DEF D, A
    <3>3. Apart(PutRows(p), DelRows(p), PutRows(q), DelRows(q), Sees(A, del, D))
      BY <3>1, <3>2, CommitKeepsApart
    <3>4. QED
      BY <2>4, <3>3, <1>1, <1>7
  <2>5. QED
    BY <2>2, <2>3, <2>4
<1>13. QED
  BY <1>8, <1>9, <1>10, <1>11, <1>12 DEF IInv

LEMMA RefuseKeeps ==
    ASSUME IInv, NEW r \in Requests, NEW answer, Refuse(r, answer)
    PROVE  IInv'
<1> DEFINE now == Answered(r, answer, FALSE)
<1>1. DOMAIN now = Fields /\ DOMAIN now.put = {} /\ now.del = {}
  BY IdleFields DEF Answered, Fields
<1>2. req' = [req EXCEPT ![r] = now] /\ UNCHANGED <<db, dead>>
  BY DEF Refuse
<1> HIDE DEF now
<1>3. Left(r, {}, {})
  BY <1>1, <1>2 DEF Left, IInv, Shape, PutRows, DelRows
<1>4. Consistent(Sees({}, {}, DOMAIN db))
  BY DEF IInv, ForeignKeys, Sees
<1>5. QED
  BY <1>2, <1>3, <1>4, LeftKeeps, NoneApart

\* A step of r that goes on with the record now.
LEMMA ProceedKeeps ==
    ASSUME IInv, NEW r \in Requests, NEW now, Proceed(r, now),
           DOMAIN now = Fields, now.open = req[r].open,
           req[r].open \/ (DOMAIN now.put = {} /\ now.del = {}),
           \A q \in Requests \ {r} :
              Apart(DOMAIN now.put, now.del, PutRows(q), DelRows(q), DOMAIN db),
           Consistent(Sees(DOMAIN now.put, now.del, DOMAIN db))
    PROVE  IInv'
<1>1. req' = [req EXCEPT ![r] = Advance(r, now)] /\ UNCHANGED <<db, dead>>
  BY DEF Proceed
<1>2. /\ DOMAIN Advance(r, now) = Fields
      /\ \/ Advance(r, now).put = now.put /\ Advance(r, now).del = now.del
         \/ DOMAIN Advance(r, now).put = {} /\ Advance(r, now).del = {}
      /\ Advance(r, now).open = now.open \/ Advance(r, now).open = TRUE
  BY AdvanceKeeps
<1>3. DOMAIN req' = Requests /\ req'[r] = Advance(r, now)
  BY <1>1 DEF IInv, Shape
<1>4. \A q \in Requests \ {r} : req'[q] = req[q] /\ DOMAIN req[q] = Fields
  BY <1>1 DEF IInv, Shape
<1>5. ~req'[r].open => DOMAIN req'[r].put = {} /\ req'[r].del = {}
  BY <1>2, <1>3
<1>6. Left(r, DOMAIN now.put, now.del)
  BY <1>2, <1>3, <1>4, <1>5 DEF Left, PutRows, DelRows
<1>7. QED
  BY <1>1, <1>6, LeftKeeps

\* A call that writes nothing.
LEMMA ReadingKeeps ==
    ASSUME IInv, NEW r \in Requests, NEW now, Proceed(r, now),
           DOMAIN now = Fields, now.open = req[r].open,
           now.put = req[r].put, now.del = req[r].del
    PROVE  IInv'
<1>1. req[r].open \/ (DOMAIN now.put = {} /\ now.del = {})
  <2>1. SUFFICES ASSUME ~req[r].open
                 PROVE  DOMAIN now.put = {} /\ now.del = {}
    OBVIOUS
  <2>2. PutRows(r) = {} /\ DelRows(r) = {}
    BY <2>1 DEF IInv, OnlyOpenWrites
  <2>3. QED
    BY <2>2 DEF PutRows, DelRows
<1>2. \A q \in Requests \ {r} :
         Apart(DOMAIN now.put, now.del, PutRows(q), DelRows(q), DOMAIN db)
  BY DEF IInv, AllApart, PutRows, DelRows
<1>3. Consistent(Sees(DOMAIN now.put, now.del, DOMAIN db))
  BY DEF IInv, EachConsistent, PutRows, DelRows
<1>4. QED
  BY <1>1, <1>2, <1>3, ProceedKeeps

\* What a write leaves r with is apart from what the others have.
LEMMA WriteApart ==
    ASSUME IInv, NEW r \in Requests, NEW touched, NEW new, NEW out,
           DOMAIN new \subseteq touched, out \subseteq touched,
           Free(r, touched, new, out), NEW q \in Requests \ {r}
    PROVE  Apart(DOMAIN new \cup (PutRows(r) \ out), DelRows(r) \cup (out \cap DOMAIN db),
                 PutRows(q), DelRows(q), DOMAIN db)
<1> DEFINE D == DOMAIN db
           A == DOMAIN new \cup (PutRows(r) \ out)
           B == DelRows(r) \cup (out \cap D)
<1>1. /\ Apart(PutRows(r), DelRows(r), PutRows(q), DelRows(q), D)
      /\ touched \cap (PutRows(q) \cup DelRows(q)) = {}
  BY DEF IInv, AllApart, Free, Blocks, PutRows, DelRows
<1>2. \A x \in DOMAIN new \ D : Refs(x) \cap DelRows(q) = {}
  BY DEF Free, Blocks, Added, DelRows
<1>3. \A x \in PutRows(q) \ D : Refs(x) \cap out = {}
  BY DEF Free, Blocks, Added, PutRows
<1> HIDE DEF D
<1>4. (A \cup B) \cap (PutRows(q) \cup DelRows(q)) = {}
  BY <1>1 DEF Apart
<1>5. \A x \in A \ D : Refs(x) \cap DelRows(q) = {}
  BY <1>1, <1>2 DEF Apart
<1>6. \A x \in PutRows(q) \ D : Refs(x) \cap B = {}
  BY <1>1, <1>3 DEF Apart
<1>7. Apart(A, B, PutRows(q), DelRows(q), D)
  BY <1>4, <1>5, <1>6 DEF Apart
<1>8. QED
  BY <1>7 DEF D

LEMMA WriteKeeps ==
    ASSUME IInv, NEW r \in Requests, NEW touched, NEW new, NEW out,
           DOMAIN new \subseteq touched, out \subseteq touched,
           Write(r, touched, new, out)
    PROVE  IInv'
<1> DEFINE D == DOMAIN db
           put == Over(new, Without(req[r].put, out))
           del == req[r].del \cup (out \cap DOMAIN db)
           mine == [req[r] EXCEPT !.put = put, !.del = del]
           rows == (Seen(r) \ out) \cup DOMAIN new
<1>1. Free(r, touched, new, out)
  BY DEF Write
<1>2. \/ Refuse(r, "error")
      \/ Consistent(rows) /\ req[r].open /\ Proceed(r, mine)
      \/ Consistent(rows) /\ Publish(r, put, del)
  BY DEF Write
<1>3. DOMAIN put = DOMAIN new \cup (PutRows(r) \ out)
  <2>1. DOMAIN put = DOMAIN new \cup DOMAIN Without(req[r].put, out)
    BY OverDomain
  <2>2. QED
    BY <2>1, WithoutDomain DEF PutRows
<1>4. del = DelRows(r) \cup (out \cap D)
  BY DEF DelRows
<1>5. rows = Sees(DOMAIN put, del, D)
  <2>1. rows = (Sees(PutRows(r), DelRows(r), D) \ out) \cup DOMAIN new
    BY SeenIs
  <2> HIDE DEF rows, put, del, D
  <2>2. QED
    BY <2>1, <1>3, <1>4 DEF Sees
<1>6. /\ DOMAIN mine = Fields /\ mine.open = req[r].open
      /\ mine.put = put /\ mine.del = del
  BY DEF IInv, Shape, Fields
<1> HIDE DEF put, del, mine, rows
<1>7. ASSUME NEW q \in Requests \ {r}
      PROVE  Apart(DOMAIN put, del, PutRows(q), DelRows(q), D)
  BY <1>1, <1>3, <1>4, WriteApart
<1>8. CASE Refuse(r, "error")
  BY <1>8, RefuseKeeps
<1>9. CASE Consistent(rows) /\ req[r].open /\ Proceed(r, mine)
  <2>1. Consistent(Sees(DOMAIN mine.put, mine.del, D))
    BY <1>9, <1>5, <1>6
  <2>2. \A q \in Requests \ {r} : Apart(DOMAIN mine.put, mine.del, PutRows(q), DelRows(q), D)
    BY <1>6, <1>7
  <2>3. QED
    BY <1>9, <1>6, <2>1, <2>2, ProceedKeeps
<1>10. CASE Consistent(rows) /\ Publish(r, put, del)
  BY <1>10, <1>5, <1>7, PublishKeeps
<1>11. QED
  BY <1>2, <1>8, <1>9, <1>10

LEMMA PutKeeps ==
    ASSUME IInv, NEW r \in Requests, NEW new, Put(r, new)
    PROVE  IInv'
  BY WriteKeeps DEF Put

LEMMA InsertMissingKeeps ==
    ASSUME IInv, NEW r \in Requests, NEW rows, InsertMissing(r, rows)
    PROVE  IInv'
<1>1. DOMAIN Without(rows, Seen(r)) \subseteq DOMAIN rows
  BY DEF Without
<1>2. QED
  BY <1>1, WriteKeeps DEF InsertMissing

LEMMA RemoveRowsKeeps ==
    ASSUME IInv, NEW r \in Requests, NEW rows, RemoveRows(r, rows)
    PROVE  IInv'
<1>1. DOMAIN Nothing \subseteq rows \cap Seen(r)
  BY NothingDomain
<1>2. QED
  BY <1>1, WriteKeeps DEF RemoveRows

----------------------------------------------------------------------------
(* The calls. *)

LEMMA StepsKeep ==
    ASSUME IInv, NEW r \in Requests, Steps(r)
    PROVE  IInv'
<1>0. DOMAIN req[r] = Fields
  BY DEF IInv, Shape
<1>1. CASE Query(r)
  <2>1. Proceed(r, req[r]) \/ \E answer : Refuse(r, answer)
    BY <1>1 DEF Query
  <2>2. QED
    BY <2>1, <1>0, ReadingKeeps, RefuseKeeps
<1>2. CASE Loading(r)
  <2> DEFINE now == [req[r] EXCEPT !.copy = After(r)[Head(req[r].todo).row]]
  <2>1. Proceed(r, now) \/ Refuse(r, "error")
    BY <1>2 DEF Loading
  <2>2. /\ DOMAIN now = Fields /\ now.open = req[r].open
        /\ now.put = req[r].put /\ now.del = req[r].del
    BY <1>0 DEF Fields
  <2> HIDE DEF now
  <2>3. QED
    BY <2>1, <2>2, ReadingKeeps, RefuseKeeps
<1>3. CASE Finding(r)
  <2>1. Refuse(r, "error") \/ \E found : Proceed(r, [req[r] EXCEPT !.got = found])
    BY <1>3 DEF Finding
  <2>2. ASSUME NEW found, Proceed(r, [req[r] EXCEPT !.got = found])
        PROVE  IInv'
    <3> DEFINE now == [req[r] EXCEPT !.got = found]
    <3>1. /\ DOMAIN now = Fields /\ now.open = req[r].open
          /\ now.put = req[r].put /\ now.del = req[r].del
      BY <1>0 DEF Fields
    <3>2. Proceed(r, now)
      BY <2>2
    <3> HIDE DEF now
    <3>3. QED
      BY <3>1, <3>2, ReadingKeeps
  <2>3. QED
    BY <2>1, <2>2, RefuseKeeps
<1>4. CASE Skipping(r)
  <2>1. PICK todo : Proceed(r, [req[r] EXCEPT !.todo = todo])
    BY <1>4 DEF Skipping
  <2> DEFINE now == [req[r] EXCEPT !.todo = todo]
  <2>2. /\ DOMAIN now = Fields /\ now.open = req[r].open
        /\ now.put = req[r].put /\ now.del = req[r].del
    BY <1>0 DEF Fields
  <2>3. Proceed(r, now)
    BY <2>1
  <2> HIDE DEF now
  <2>4. QED
    BY <2>2, <2>3, ReadingKeeps
<1>5. CASE Committing(r)
  <2>1. \A q \in Requests \ {r} :
           Apart(DOMAIN req[r].put, req[r].del, PutRows(q), DelRows(q), DOMAIN db)
    BY DEF IInv, AllApart, PutRows, DelRows
  <2>2. Consistent(Sees(DOMAIN req[r].put, req[r].del, DOMAIN db))
    BY DEF IInv, EachConsistent, PutRows, DelRows
  <2>3. QED
    BY <1>5, <2>1, <2>2, PublishKeeps DEF Committing
<1>6. CASE Creating(r)
  <2>1. Refuse(r, "error") \/ \E new : Put(r, new)
    BY <1>6 DEF Creating
  <2>2. QED
    BY <2>1, PutKeeps, RefuseKeeps
<1>7. CASE Ensuring(r) \/ Associating(r)
  <2>1. \E rows : InsertMissing(r, rows)
    BY <1>7 DEF Ensuring, Associating
  <2>2. QED
    BY <2>1, InsertMissingKeeps
<1>8. CASE Trimming(r) \/ Deleting(r) \/ DetachingFound(r) \/ DeletingFound(r)
  <2>1. \E rows : RemoveRows(r, rows)
    BY <1>8 DEF Trimming, Deleting, DetachingFound, DeletingFound
  <2>2. QED
    BY <2>1, RemoveRowsKeeps
<1>9. CASE Updating(r) \/ Saving(r)
  <2>1. \E new : Put(r, new)
    BY <1>9 DEF Updating, Saving
  <2>2. QED
    BY <2>1, PutKeeps
<1>10. CASE Negating(r)
  <2>1. PICK copy : Proceed(r, [req[r] EXCEPT !.copy = copy])
    BY <1>10 DEF Negating
  <2> DEFINE now == [req[r] EXCEPT !.copy = copy]
  <2>2. /\ DOMAIN now = Fields /\ now.open = req[r].open
        /\ now.put = req[r].put /\ now.del = req[r].del
    BY <1>0 DEF Fields
  <2>3. Proceed(r, now)
    BY <2>1
  <2> HIDE DEF now
  <2>4. QED
    BY <2>2, <2>3, ReadingKeeps
<1>11. CASE Leaving(r)
  <2> DEFINE now == Answered(r, "ok", req[r].open)
  <2>1. \/ Proceed(r, req[r])
        \/ req' = [req EXCEPT ![r] = now] /\ UNCHANGED <<db, dead>>
    BY <1>11 DEF Leaving
  <2>2. DOMAIN now = Fields /\ DOMAIN now.put = {} /\ now.del = {}
    BY IdleFields DEF Answered, Fields
  <2> HIDE DEF now
  <2>3. CASE req' = [req EXCEPT ![r] = now] /\ UNCHANGED <<db, dead>>
    <3>1. Left(r, {}, {})
      BY <2>2, <2>3 DEF Left, IInv, Shape, PutRows, DelRows
    <3>2. Consistent(Sees({}, {}, DOMAIN db))
      BY DEF IInv, ForeignKeys, Sees
    <3>3. QED
      BY <2>3, <3>1, <3>2, LeftKeeps, NoneApart
  <2>4. QED
    BY <2>1, <2>3, <1>0, ReadingKeeps
<1>12. CASE Allowing(r)
  <2>1. Proceed(r, req[r]) \/ Refuse(r, "error")
    BY <1>12 DEF Allowing
  <2>2. QED
    BY <2>1, <1>0, ReadingKeeps, RefuseKeeps
<1>13. QED
  BY <1>1, <1>2, <1>3, <1>4, <1>5, <1>6, <1>7, <1>8, <1>9, <1>10, <1>11, <1>12 DEF Steps

LEMMA FailKeeps ==
    ASSUME IInv, NEW r \in Requests, Fail(r)
    PROVE  IInv'
  BY RefuseKeeps DEF Fail

----------------------------------------------------------------------------
(* How the handlers begin, and the specifications made of them. *)

\* The handler of r has been entered: nothing is written yet.
Entered(r) ==
    /\ UNCHANGED <<db, dead>>
    /\ \E now : /\ req' = [req EXCEPT ![r] = now]
                /\ DOMAIN now = Fields /\ DOMAIN now.put = {} /\ now.del = {}

LEMMA EnteredKeeps ==
    ASSUME IInv, NEW r \in Requests, Entered(r)
    PROVE  IInv'
<1>1. PICK now : /\ req' = [req EXCEPT ![r] = now]
                 /\ DOMAIN now = Fields /\ DOMAIN now.put = {} /\ now.del = {}
  BY DEF Entered
<1>2. Left(r, {}, {})
  BY <1>1 DEF Left, IInv, Shape, PutRows, DelRows
<1>3. Consistent(Sees({}, {}, DOMAIN db))
  BY DEF IInv, ForeignKeys, Sees
<1>4. QED
  BY <1>2, <1>3, LeftKeeps, NoneApart DEF Entered

LEMMA ServeEnters ==
    ASSUME NEW r, NEW name, NEW may, NEW asked, NEW calls, Serve(r, name, may, asked, calls)
    PROVE  Entered(r)
<1> DEFINE first == [Idle EXCEPT !.name = name, !.todo = calls, !.asked = asked]
           refused == [Idle EXCEPT !.answer = "error"]
<1>1. req' = [req EXCEPT ![r] = Begun(first)] \/ req' = [req EXCEPT ![r] = refused]
  BY DEF Serve
<1>2. /\ DOMAIN first = Fields /\ DOMAIN first.put = {} /\ first.del = {}
      /\ DOMAIN refused = Fields /\ DOMAIN refused.put = {} /\ refused.del = {}
  BY IdleFields DEF Fields
<1>3. UNCHANGED <<db, dead>>
  BY DEF Serve
<1> HIDE DEF first, refused
<1>4. DOMAIN Begun(first) = Fields /\ DOMAIN Begun(first).put = {} /\ Begun(first).del = {}
  BY <1>2, BegunKeeps
<1>5. QED
  BY <1>1, <1>2, <1>3, <1>4 DEF Entered

LEMMA ServeWithEnters ==
    ASSUME NEW r, NEW name, NEW got, NEW calls, ServeWith(r, name, got, calls)
    PROVE  Entered(r)
<1> DEFINE first == [Idle EXCEPT !.name = name, !.todo = calls, !.got = [x \in got |-> db[x]]]
<1>1. req' = [req EXCEPT ![r] = Begun(first)] /\ UNCHANGED <<db, dead>>
  BY DEF ServeWith
<1>2. DOMAIN first = Fields /\ DOMAIN first.put = {} /\ first.del = {}
  BY IdleFields DEF Fields
<1> HIDE DEF first
<1>3. DOMAIN Begun(first) = Fields /\ DOMAIN Begun(first).put = {} /\ Begun(first).del = {}
  BY <1>2, BegunKeeps
<1>4. QED
  BY <1>1, <1>3 DEF Entered

LEMMA InitHolds == Init => IInv
<1> SUFFICES ASSUME Init PROVE IInv
  OBVIOUS
<1>1. \A r \in Requests : PutRows(r) = {} /\ DelRows(r) = {}
  BY IdleFields DEF Init, PutRows, DelRows
<1>2. Shape
  BY IdleFields DEF Init, Shape
<1>3. ForeignKeys
  BY DatabasesAssumption DEF Init, ForeignKeys
<1>4. \A D : Sees({}, {}, D) = D
  BY DEF Sees
<1>5. EachConsistent
  BY <1>1, <1>3, <1>4 DEF EachConsistent, ForeignKeys
<1>6. AllApart
  BY <1>1, NoneApart DEF AllApart
<1>7. QED
  BY <1>1, <1>2, <1>3, <1>5, <1>6 DEF IInv, OnlyOpenWrites

LEMMA StutteringKeeps ==
    ASSUME IInv, UNCHANGED vars
    PROVE  IInv'
  BY DEF vars, IInv, Shape, OnlyOpenWrites, AllApart, EachConsistent, ForeignKeys, PutRows,
         DelRows

----------------------------------------------------------------------------
(* The order of the calls. *)

Looks == {"check", "load", "find", "negate", "leave", "manages", "owns"}

\* Handlers that are known to write before their transaction, and to leave it.
Untied == "UpdateCompetition"
Leaver == "DeleteAllUsersFromGroup"

\* The calls s of a handler that has a transaction (open) or not, and has committed
\* something (wrote) or not: call b begins the transaction, n is the only one after which
\* others see a change, and behind it is nothing but reads of the answer.
Shaped(s, name, open, wrote, b, n) ==
    /\ b <= n
    /\ open <=> b = 0 /\ n > 0
    /\ wrote => n = 0 \/ name = Untied
    /\ b < n => n <= Len(s) /\ s[n].op = "commit"
    /\ \A i \in 1 .. Len(s) :
          /\ i < b => \/ s[i].op \in Looks
                      \/ name = Untied /\ s[i].op \notin {"begin", "commit", "skip"}
          /\ i = b /\ b < n => s[i].op = "begin"
          /\ i = b /\ b = n => s[i].op \notin {"begin", "commit", "skip"}
          /\ b < i /\ i < n => /\ s[i].op \notin {"begin", "commit"}
                               /\ s[i].op = "skip" => i + 1 < n
          /\ n < i => s[i].op = "check" /\ s[i].else = "unread"
          /\ s[i].op = "leave" => name = Leaver

Tidy(s, name, open, wrote) == \E b, n \in Nat : Shaped(s, name, open, wrote, b, n)

Calls(s) == \E S : s \in Seq(S)

LEMMA LenOfNone == Len(<<>>) = 0
  OBVIOUS

LEMMA TailIs ==
    ASSUME NEW s, Calls(s), s # <<>>
    PROVE  /\ Calls(Tail(s)) /\ Len(s) \in Nat /\ Len(s) > 0
           /\ Len(Tail(s)) = Len(s) - 1
           /\ Head(s) = s[1]
           /\ \A i \in 1 .. Len(Tail(s)) : Tail(s)[i] = s[i + 1] /\ i + 1 \in 1 .. Len(s)
           /\ Tail(s) # <<>> => Len(Tail(s)) > 0 /\ Head(Tail(s)) = Tail(s)[1]
<1>1. PICK S : s \in Seq(S)
  BY DEF Calls
<1>2. Tail(s) \in Seq(S)
  BY <1>1
<1>3. /\ Len(s) \in Nat /\ Len(s) > 0 /\ Len(Tail(s)) = Len(s) - 1 /\ Head(s) = s[1]
      /\ \A i \in 1 .. Len(Tail(s)) : Tail(s)[i] = s[i + 1]
  BY <1>1
<1>4. Tail(s) # <<>> => Len(Tail(s)) > 0 /\ Head(Tail(s)) = Tail(s)[1]
  BY <1>2
<1>5. \A i \in 1 .. Len(Tail(s)) : i + 1 \in 1 .. Len(s)
  BY <1>3
<1>6. QED
  BY <1>2, <1>3, <1>4, <1>5 DEF Calls

\* The first call is made and changes nothing that others see.
LEMMA ShapedTail ==
    ASSUME NEW s, NEW name, NEW open \in BOOLEAN, NEW wrote \in BOOLEAN,
           NEW b \in Nat, NEW n \in Nat, Calls(s), s # <<>>, Shaped(s, name, open, wrote, b, n),
           s[1].op \notin {"begin", "commit"}
    PROVE  Shaped(Tail(s), name, open, wrote,
                  IF b = 0 THEN 0 ELSE b - 1, IF n = 0 THEN 0 ELSE n - 1)
<1> DEFINE t == Tail(s)
           c == IF b = 0 THEN 0 ELSE b - 1
           m == IF n = 0 THEN 0 ELSE n - 1
<1>1. /\ Len(s) \in Nat /\ Len(s) > 0 /\ Len(t) = Len(s) - 1
      /\ \A i \in 1 .. Len(t) : t[i] = s[i + 1] /\ i + 1 \in 1 .. Len(s)
  BY TailIs
<1> HIDE DEF t
<1>2. 1 \in 1 .. Len(s)
  BY <1>1
<1>3. b = 1 => n = 1
  BY <1>2 DEF Shaped
<1>4. b = 0 => n # 1
  BY <1>1, <1>2 DEF Shaped
<1>5. c \in Nat /\ m \in Nat /\ c <= m
  BY <1>3 DEF Shaped
<1>6. open <=> c = 0 /\ m > 0
  BY <1>3, <1>4 DEF Shaped
<1>7. wrote => m = 0 \/ name = Untied
  BY DEF Shaped
<1>8. c < m => m <= Len(t) /\ t[m].op = "commit"
  <2>1. SUFFICES ASSUME c < m PROVE m <= Len(t) /\ t[m].op = "commit"
    OBVIOUS
  <2>2. b < n /\ n = m + 1 /\ m > 0
    BY <2>1
  <2>3. n <= Len(s) /\ s[n].op = "commit"
    BY <2>2 DEF Shaped
  <2>4. QED
    BY <2>2, <2>3, <1>1
<1>9. ASSUME NEW i \in 1 .. Len(t)
      PROVE  /\ i < c => \/ t[i].op \in Looks
                         \/ name = Untied /\ t[i].op \notin {"begin", "commit", "skip"}
             /\ i = c /\ c < m => t[i].op = "begin"
             /\ i = c /\ c = m => t[i].op \notin {"begin", "commit", "skip"}
             /\ c < i /\ i < m => /\ t[i].op \notin {"begin", "commit"}
                                  /\ t[i].op = "skip" => i + 1 < m
             /\ m < i => t[i].op = "check" /\ t[i].else = "unread"
             /\ t[i].op = "leave" => name = Leaver
  <2> DEFINE j == i + 1
  <2>1. t[i] = s[j] /\ j \in 1 .. Len(s) /\ i \in Nat /\ i > 0
    BY <1>1
  <2>2. /\ j < b => \/ s[j].op \in Looks
                    \/ name = Untied /\ s[j].op \notin {"begin", "commit", "skip"}
        /\ j = b /\ b < n => s[j].op = "begin"
        /\ j = b /\ b = n => s[j].op \notin {"begin", "commit", "skip"}
        /\ b < j /\ j < n => /\ s[j].op \notin {"begin", "commit"}
                             /\ s[j].op = "skip" => j + 1 < n
        /\ n < j => s[j].op = "check" /\ s[j].else = "unread"
        /\ s[j].op = "leave" => name = Leaver
    BY <2>1 DEF Shaped
  <2>3. /\ i < c => j < b
        /\ i = c => j = b
        /\ c < m => b < n
        /\ c = m /\ i = c => b = n
        /\ c < i => b < j
        /\ i < m => j < n
        /\ m < i => n < j
        /\ j + 1 < n => i + 1 < m
    BY <2>1, <1>3, <1>4, <1>5
  <2> HIDE DEF j, c, m
  <2>4. QED
    BY <2>1, <2>2, <2>3
<1> HIDE DEF c, m
<1>10. Shaped(t, name, open, wrote, c, m)
  BY <1>5, <1>6, <1>7, <1>8, <1>9 DEF Shaped
<1>11. QED
  BY <1>10 DEF c, m, t

LEMMA LookTail ==
    ASSUME NEW s, NEW name, NEW open \in BOOLEAN, NEW wrote \in BOOLEAN,
           Calls(s), s # <<>>, Tidy(s, name, open, wrote), s[1].op \notin {"begin", "commit"}
    PROVE  Tidy(Tail(s), name, open, wrote)
<1>1. PICK b \in Nat, n \in Nat : Shaped(s, name, open, wrote, b, n)
  BY DEF Tidy
<1> DEFINE c == IF b = 0 THEN 0 ELSE b - 1
           m == IF n = 0 THEN 0 ELSE n - 1
<1>2. Shaped(Tail(s), name, open, wrote, c, m)
  BY <1>1, ShapedTail
<1>3. c \in Nat /\ m \in Nat
  OBVIOUS
<1> HIDE DEF c, m
<1>4. QED
  BY <1>2, <1>3 DEF Tidy

LEMMA SkipTail ==
    ASSUME NEW s, NEW name, NEW open \in BOOLEAN, NEW wrote \in BOOLEAN,
           Calls(s), s # <<>>, Tidy(s, name, open, wrote), s[1].op = "skip"
    PROVE  Tail(s) # <<>> /\ Tail(s)[1].op \notin {"begin", "commit"}
<1>1. PICK b \in Nat, n \in Nat : Shaped(s, name, open, wrote, b, n)
  BY DEF Tidy
<1>2. /\ Len(s) \in Nat /\ Len(s) > 0 /\ Len(Tail(s)) = Len(s) - 1
      /\ \A i \in 1 .. Len(Tail(s)) : Tail(s)[i] = s[i + 1]
  BY TailIs
<1>3. 1 \in 1 .. Len(s) /\ "skip" \notin Looks
  BY <1>2 DEF Looks
<1>4. ~(1 < b) /\ 1 # b
  BY <1>1, <1>3 DEF Shaped
<1>5. b = 0 /\ n # 0 /\ n # 1
  BY <1>1, <1>3, <1>4 DEF Shaped
<1>6. 2 < n /\ n <= Len(s)
  BY <1>1, <1>3, <1>5 DEF Shaped
<1>7. 2 \in 1 .. Len(s) /\ s[2].op \notin {"begin", "commit"}
  BY <1>1, <1>2, <1>5, <1>6 DEF Shaped
<1>8. Len(Tail(s)) > 0 /\ Tail(s)[1] = s[2]
  BY <1>2, <1>6
<1>9. Len(Tail(s)) # 0
  BY <1>2, <1>8
<1>10. Tail(s) # <<>>
  BY <1>9, LenOfNone, Zenon
<1>11. QED
  BY <1>7, <1>8, <1>10

LEMMA CommitTail ==
    ASSUME NEW s, NEW name, NEW open \in BOOLEAN, NEW wrote \in BOOLEAN, NEW w \in BOOLEAN,
           Calls(s), s # <<>>, Tidy(s, name, open, wrote), s[1].op = "commit"
    PROVE  Tidy(Tail(s), name, FALSE, w)
<1>1. PICK b \in Nat, n \in Nat : Shaped(s, name, open, wrote, b, n)
  BY DEF Tidy
<1>2. /\ Len(s) \in Nat /\ Len(s) > 0 /\ Len(Tail(s)) = Len(s) - 1
      /\ \A i \in 1 .. Len(Tail(s)) : Tail(s)[i] = s[i + 1] /\ i + 1 \in 1 .. Len(s)
  BY TailIs
<1>3. 1 \in 1 .. Len(s) /\ "commit" \notin Looks
  BY <1>2 DEF Looks
<1>4. b = 0 /\ n = 1
  BY <1>1, <1>3 DEF Shaped
<1>5. \A i \in 1 .. Len(Tail(s)) :
         Tail(s)[i].op = "check" /\ Tail(s)[i].else = "unread"
  BY <1>1, <1>2, <1>4 DEF Shaped
<1>6. Shaped(Tail(s), name, FALSE, w, 0, 0)
  BY <1>2, <1>5 DEF Shaped
<1>7. QED
  BY <1>6 DEF Tidy

Changes ==
    {"create", "ensure", "append", "trim", "delete", "detach", "deletefound", "updates", "save"}

LEMMA ChangeTail ==
    ASSUME NEW s, NEW name, NEW wrote \in BOOLEAN, NEW w \in BOOLEAN,
           Calls(s), s # <<>>, Tidy(s, name, FALSE, wrote), s[1].op \in Changes
    PROVE  Tidy(Tail(s), name, FALSE, w)
<1>1. PICK b \in Nat, n \in Nat : Shaped(s, name, FALSE, wrote, b, n)
  BY DEF Tidy
<1>2. /\ Len(s) \in Nat /\ Len(s) > 0 /\ Len(Tail(s)) = Len(s) - 1
      /\ \A i \in 1 .. Len(Tail(s)) : Tail(s)[i] = s[i + 1] /\ i + 1 \in 1 .. Len(s)
  BY TailIs
<1>3. 1 \in 1 .. Len(s)
  BY <1>2
<1>4. s[1].op \notin Looks /\ s[1].op \notin {"begin", "commit", "check"}
  BY DEF Looks, Changes
<1>5. (b = 1 /\ n = 1) \/ (b > 1 /\ name = Untied)
  BY <1>1, <1>3, <1>4 DEF Shaped
<1>6. CASE b = 1 /\ n = 1
  <2>1. \A i \in 1 .. Len(Tail(s)) :
           Tail(s)[i].op = "check" /\ Tail(s)[i].else = "unread"
    BY <1>1, <1>2, <1>6 DEF Shaped
  <2>2. Shaped(Tail(s), name, FALSE, w, 0, 0)
    BY <1>2, <2>1 DEF Shaped
  <2>3. QED
    BY <2>2 DEF Tidy
<1>7. CASE b > 1 /\ name = Untied
  <2>1. b <= n /\ ~(b = 0 /\ n > 0)
    BY <1>1 DEF Shaped
  <2>2. Shaped(s, name, FALSE, w, b, n)
    BY <1>1, <1>7, <2>1 DEF Shaped
  <2>3. Tidy(s, name, FALSE, w)
    BY <2>2 DEF Tidy
  <2>4. QED
    BY <2>3, <1>4, LookTail
<1>8. QED
  BY <1>5, <1>6, <1>7

LEMMA ShapedOpen ==
    ASSUME NEW t, NEW name, NEW wrote \in BOOLEAN, NEW m \in Nat, m > 0, wrote => name = Untied,
           m <= Len(t), t[m].op = "commit",
           \A i \in 1 .. Len(t) :
              /\ i < m => t[i].op \notin {"begin", "commit"} /\ (t[i].op = "skip" => i + 1 < m)
              /\ m < i => t[i].op = "check" /\ t[i].else = "unread"
              /\ t[i].op = "leave" => name = Leaver
    PROVE  Shaped(t, name, TRUE, wrote, 0, m)
<1>1. \A i \in 1 .. Len(t) : ~(i < 0) /\ i # 0 /\ i > 0
  OBVIOUS
<1>2. QED
  BY <1>1 DEF Shaped

\* The transaction begins.
LEMMA BeginTail ==
    ASSUME NEW s, NEW name, NEW open \in BOOLEAN, NEW wrote \in BOOLEAN,
           Calls(s), s # <<>>, Tidy(s, name, open, wrote), s[1].op = "begin"
    PROVE  Tidy(Tail(s), name, TRUE, wrote) /\ Tail(s) # <<>> /\ Tail(s)[1].op # "begin"
<1>1. PICK b \in Nat, n \in Nat : Shaped(s, name, open, wrote, b, n)
  BY DEF Tidy
<1>2. /\ Len(s) \in Nat /\ Len(s) > 0 /\ Len(Tail(s)) = Len(s) - 1
      /\ \A i \in 1 .. Len(Tail(s)) : Tail(s)[i] = s[i + 1] /\ i + 1 \in 1 .. Len(s)
  BY TailIs
<1>3. 1 \in 1 .. Len(s) /\ "begin" \notin Looks
  BY <1>2 DEF Looks
<1>4. b # 0
  BY <1>1, <1>3 DEF Shaped
<1>5. b = 1 /\ n > 1
  BY <1>1, <1>3, <1>4 DEF Shaped
<1>6. n <= Len(s) /\ s[n].op = "commit"
  BY <1>1, <1>5 DEF Shaped
<1>7. Len(Tail(s)) > 0 /\ Tail(s)[1] = s[2] /\ 2 \in 1 .. Len(s)
  BY <1>2, <1>5, <1>6
<1>8. s[2].op # "begin"
  BY <1>1, <1>5, <1>6, <1>7 DEF Shaped
<1>9. Shaped(Tail(s), name, TRUE, wrote, 0, n - 1)
  <2> DEFINE t == Tail(s)
             m == n - 1
  <2>1. wrote => name = Untied
    BY <1>1, <1>5 DEF Shaped
  <2>2. m \in Nat /\ m > 0 /\ m <= Len(t) /\ t[m].op = "commit"
    BY <1>2, <1>5, <1>6
  <2>3. ASSUME NEW i \in 1 .. Len(t)
        PROVE  /\ i < m => t[i].op \notin {"begin", "commit"} /\ (t[i].op = "skip" => i + 1 < m)
               /\ m < i => t[i].op = "check" /\ t[i].else = "unread"
               /\ t[i].op = "leave" => name = Leaver
    BY <1>1, <1>2, <1>5 DEF Shaped
  <2> HIDE DEF t, m
  <2>4. Shaped(t, name, TRUE, wrote, 0, m)
    BY <2>1, <2>2, <2>3, ShapedOpen
  <2>5. QED
    BY <2>4 DEF t, m
<1>10. Tidy(Tail(s), name, TRUE, wrote)
  <2>1. n - 1 \in Nat
    BY <1>5
  <2>2. QED
    BY <2>1, <1>9 DEF Tidy
<1>11. Len(Tail(s)) # 0
  BY <1>2, <1>7
<1>12. Tail(s) # <<>>
  BY <1>11, LenOfNone, Zenon
<1>13. QED
  BY <1>7, <1>8, <1>10, <1>12

\* Whoever has changed something has nothing to do but to read the answer, and whoever
\* has a transaction has a commit to come.
LEMMA OnlyReloads ==
    ASSUME NEW s, NEW name, NEW open \in BOOLEAN, NEW wrote \in BOOLEAN,
           Calls(s), s # <<>>, Tidy(s, name, open, wrote)
    PROVE  /\ wrote /\ name # Untied => s[1].op = "check" /\ s[1].else = "unread"
           /\ s[1].op = "leave" => name = Leaver
<1>1. PICK b \in Nat, n \in Nat : Shaped(s, name, open, wrote, b, n)
  BY DEF Tidy
<1>2. 1 \in 1 .. Len(s)
  BY TailIs
<1>3. QED
  BY <1>1, <1>2 DEF Shaped

LEMMA OpenGoesOn ==
    ASSUME NEW name, NEW wrote \in BOOLEAN
    PROVE  ~Tidy(<<>>, name, TRUE, wrote)
  BY LenOfNone DEF Tidy, Shaped

\* A request whose calls are in order, or that has none left.
Going(x) ==
    /\ DOMAIN x = Fields
    /\ x.open \in BOOLEAN /\ x.wrote \in BOOLEAN
    /\ x.todo # <<>> =>
         /\ Calls(x.todo) /\ Tidy(x.todo, x.name, x.open, x.wrote)
         /\ x.todo[1].op # "begin" /\ x.answer = "none"

InOrder == DOMAIN req = Requests /\ \A r \in Requests : Going(req[r])

LEMMA BegunGoes ==
    ASSUME NEW y, DOMAIN y = Fields, y.open \in BOOLEAN, y.wrote \in BOOLEAN,
           y.answer = "none", Calls(y.todo), y.todo # <<>>, Tidy(y.todo, y.name, y.open, y.wrote)
    PROVE  /\ Going(Begun(y)) /\ Begun(y).answer = "none"
           /\ Begun(y).name = y.name /\ Begun(y).wrote = y.wrote
<1>1. Head(y.todo) = y.todo[1]
  BY TailIs
<1>2. CASE y.todo[1].op = "begin"
  <2> DEFINE z == [y EXCEPT !.todo = Tail(@), !.open = TRUE]
  <2>1. Begun(y) = z
    BY <1>1, <1>2 DEF Begun
  <2>2. /\ DOMAIN z = Fields /\ z.todo = Tail(y.todo) /\ z.open = TRUE
        /\ z.wrote = y.wrote /\ z.name = y.name /\ z.answer = "none"
    BY DEF Fields
  <2> HIDE DEF z
  <2>3. /\ Tidy(Tail(y.todo), y.name, TRUE, y.wrote)
        /\ Tail(y.todo) # <<>> /\ Tail(y.todo)[1].op # "begin"
    BY <1>2, BeginTail
  <2>4. Calls(Tail(y.todo))
    BY TailIs
  <2>5. Going(z)
    BY <2>2, <2>3, <2>4 DEF Going
  <2>6. QED
    BY <2>1, <2>2, <2>5
<1>3. CASE y.todo[1].op # "begin"
  <2>1. Begun(y) = y
    BY <1>1, <1>3 DEF Begun
  <2>2. QED
    BY <1>3, <2>1 DEF Going
<1>4. QED
  BY <1>2, <1>3

LEMMA AdvanceGoes ==
    ASSUME NEW r, NEW y, DOMAIN y = Fields, y.open \in BOOLEAN, y.wrote \in BOOLEAN,
           y.answer = "none", Calls(y.todo), y.todo # <<>>, Tidy(Tail(y.todo), y.name, y.open, y.wrote)
    PROVE  /\ Going(Advance(r, y))
           /\ Advance(r, y).answer # "error" /\ Advance(r, y).name \in {y.name, "none"}
           /\ Advance(r, y).answer # "none" => ~Advance(r, y).open
           /\ Advance(r, y).wrote = y.wrote
<1>1. CASE Tail(y.todo) = <<>>
  <2> DEFINE z == [Idle EXCEPT !.answer = "ok", !.open = y.open, !.wrote = y.wrote]
  <2>1. Advance(r, y) = z
    BY <1>1 DEF Advance
  <2>2. /\ DOMAIN z = Fields /\ z.todo = <<>> /\ z.open = y.open /\ z.wrote = y.wrote
        /\ z.answer = "ok" /\ z.name = "none"
    BY DEF Idle, Fields
  <2> HIDE DEF z
  <2>3. ~y.open
    BY <1>1, OpenGoesOn
  <2>4. QED
    BY <2>1, <2>2, <2>3 DEF Going
<1>2. CASE Tail(y.todo) # <<>>
  <2> DEFINE z == [y EXCEPT !.todo = Tail(@)]
  <2>1. Advance(r, y) = Begun(z)
    BY <1>2 DEF Advance
  <2>2. /\ DOMAIN z = Fields /\ z.todo = Tail(y.todo) /\ z.open = y.open
        /\ z.wrote = y.wrote /\ z.name = y.name /\ z.answer = "none"
    BY DEF Fields
  <2>3. Calls(Tail(y.todo))
    BY TailIs
  <2> HIDE DEF z
  <2>4. /\ Going(Begun(z)) /\ Begun(z).answer = "none" /\ Begun(z).name = z.name
        /\ Begun(z).wrote = z.wrote
    BY <1>2, <2>2, <2>3, BegunGoes
  <2>5. QED
    BY <2>1, <2>2, <2>4
<1>3. QED
  BY <1>1, <1>2

\* What a step makes of the request x: it goes on in order, it is told "error" only before
\* it has changed anything, and when it is answered its transaction has ended; but for the
\* two exceptions.
Sound(x, y) ==
    /\ Going(y) /\ y.name \in {x.name, "none"} /\ (x.wrote => y.wrote)
    /\ y.answer = "error" => ~y.wrote \/ x.name = Untied
    /\ y.answer # "none" /\ y.open => x.open /\ x.name = Leaver

\* What it makes of the others.
Untouched(r) ==
    \A q \in Requests \ {r} :
       req'[q] = req[q] \/ \E gone : req'[q] = [req[q] EXCEPT !.gone = gone]

StepSound(r) == DOMAIN req' = Requests /\ Untouched(r) /\ Sound(req[r], req'[r])

LEMMA RefuseIsSound ==
    ASSUME InOrder, NEW r \in Requests, Running(r), NEW answer, Refuse(r, answer),
           answer = "error" => ~(req[r].todo[1].op = "check" /\ req[r].todo[1].else = "unread")
    PROVE  StepSound(r)
<1> DEFINE x == req[r]
           y == Answered(r, answer, FALSE)
<1>1. /\ DOMAIN y = Fields /\ y.todo = <<>> /\ y.open = FALSE /\ y.wrote = x.wrote
      /\ y.answer = answer /\ y.name = "none"
  BY DEF Answered, Idle, Fields
<1>2. Going(x) /\ x.todo # <<>>
  BY DEF InOrder, Running
<1>3. req' = [req EXCEPT ![r] = y]
  BY DEF Refuse
<1>4. answer = "error" => ~x.wrote \/ x.name = Untied
  <2> HIDE DEF y
  <2>1. QED
    BY <1>2, OnlyReloads DEF Going
<1> HIDE DEF y
<1>5. Sound(x, y)
  BY <1>1, <1>2, <1>4 DEF Sound, Going
<1>6. DOMAIN req' = Requests /\ req'[r] = y /\ \A q \in Requests \ {r} : req'[q] = req[q]
  BY <1>3 DEF InOrder
<1>7. QED
  BY <1>5, <1>6 DEF StepSound, Untouched

\* On to the next call, with nothing changed in how the request stands.
LEMMA ProceedIsSound ==
    ASSUME InOrder, NEW r \in Requests, NEW y, Proceed(r, y),
           DOMAIN y = Fields, y.name = req[r].name, y.open = req[r].open, y.wrote = req[r].wrote,
           y.answer = "none", Calls(y.todo), y.todo # <<>>,
           Tidy(Tail(y.todo), y.name, y.open, y.wrote)
    PROVE  StepSound(r)
<1>1. req' = [req EXCEPT ![r] = Advance(r, y)]
  BY DEF Proceed
<1>2. y.open \in BOOLEAN /\ y.wrote \in BOOLEAN
  BY DEF InOrder, Going
<1>3. /\ Going(Advance(r, y)) /\ Advance(r, y).answer # "error"
      /\ Advance(r, y).name \in {y.name, "none"}
      /\ Advance(r, y).answer # "none" => ~Advance(r, y).open
      /\ Advance(r, y).wrote = y.wrote
  BY <1>2, AdvanceGoes
<1>4. Sound(req[r], Advance(r, y))
  BY <1>3 DEF Sound
<1>5. DOMAIN req' = Requests /\ req'[r] = Advance(r, y) /\ \A q \in Requests \ {r} : req'[q] = req[q]
  BY <1>1 DEF InOrder
<1>6. QED
  BY <1>4, <1>5 DEF StepSound, Untouched

LEMMA PublishIsSound ==
    ASSUME InOrder, NEW r \in Requests, Running(r), NEW put, NEW del, Publish(r, put, del),
           \A w \in BOOLEAN : Tidy(Tail(req[r].todo), req[r].name, FALSE, w)
    PROVE  StepSound(r)
<1> DEFINE now == [req[r] EXCEPT !.put = Nothing, !.del = {}, !.open = FALSE,
                                 !.wrote = @ \/ put # Nothing \/ del # {}]
           lost == DOMAIN db \ DOMAIN Over(put, Without(db, del))
<1>1. req' = [q \in Requests |->
                IF q = r THEN Advance(r, now)
                ELSE IF Running(q) THEN [req[q] EXCEPT !.gone = @ \cup lost]
                ELSE req[q]]
  BY DEF Publish
<1>2. Going(req[r]) /\ req[r].todo # <<>>
  BY DEF InOrder, Running
<1>3. /\ DOMAIN now = Fields /\ now.open = FALSE /\ now.todo = req[r].todo
      /\ now.name = req[r].name /\ now.answer = req[r].answer
  BY <1>2 DEF Going, Fields
<1>4. now.wrote \in BOOLEAN
  BY <1>2 DEF Going, Fields
<1>5. req[r].wrote => now.wrote
  BY <1>2 DEF Going, Fields
<1> HIDE DEF now, lost
<1>6. /\ Going(Advance(r, now)) /\ Advance(r, now).answer # "error"
      /\ Advance(r, now).name \in {now.name, "none"}
      /\ Advance(r, now).answer # "none" => ~Advance(r, now).open
      /\ Advance(r, now).wrote = now.wrote
  <2>1. Calls(now.todo) /\ now.todo # <<>> /\ now.answer = "none"
    BY <1>2, <1>3 DEF Going
  <2>2. Tidy(Tail(now.todo), now.name, now.open, now.wrote)
    BY <1>3, <1>4
  <2>3. now.open \in BOOLEAN
    BY <1>3
  <2>4. QED
    BY <1>3, <1>4, <2>1, <2>2, <2>3, AdvanceGoes
<1>7. Sound(req[r], Advance(r, now))
  BY <1>3, <1>5, <1>6 DEF Sound
<1>8. Untouched(r)
  BY <1>1 DEF Untouched
<1>9. DOMAIN req' = Requests /\ req'[r] = Advance(r, now)
  BY <1>1
<1>10. QED
  BY <1>7, <1>8, <1>9 DEF StepSound

\* The first call of r, which is there.
LEMMA HeadFacts ==
    ASSUME InOrder, NEW r \in Requests, Running(r)
    PROVE  /\ Going(req[r]) /\ req[r].todo # <<>> /\ Calls(req[r].todo)
           /\ Head(req[r].todo) = req[r].todo[1]
           /\ Tidy(req[r].todo, req[r].name, req[r].open, req[r].wrote)
           /\ req[r].open \in BOOLEAN /\ req[r].wrote \in BOOLEAN
           /\ req[r].answer = "none" /\ DOMAIN req[r] = Fields
<1>1. Going(req[r]) /\ req[r].todo # <<>>
  BY DEF InOrder, Running
<1>2. Calls(req[r].todo)
  BY <1>1 DEF Going
<1>3. QED
  BY <1>1, <1>2, TailIs DEF Going

\* A call that looks, with y what the request is after it.
LEMMA LookIsSound ==
    ASSUME InOrder, NEW r \in Requests, Running(r), NEW y, Proceed(r, y),
           DOMAIN y = Fields, y.name = req[r].name, y.open = req[r].open, y.wrote = req[r].wrote,
           y.answer = req[r].answer, y.todo = req[r].todo,
           Head(req[r].todo).op \notin {"begin", "commit"}
    PROVE  StepSound(r)
<1>1. Tidy(Tail(req[r].todo), req[r].name, req[r].open, req[r].wrote)
  BY HeadFacts, LookTail
<1>2. QED
  BY <1>1, HeadFacts, ProceedIsSound

LEMMA WriteIsSound ==
    ASSUME InOrder, NEW r \in Requests, Running(r), NEW touched, NEW new, NEW out,
           Head(req[r].todo).op \in Changes, Write(r, touched, new, out)
    PROVE  StepSound(r)
<1> DEFINE put == Over(new, Without(req[r].put, out))
           del == req[r].del \cup (out \cap DOMAIN db)
           mine == [req[r] EXCEPT !.put = put, !.del = del]
<1>1. \/ Refuse(r, "error")
      \/ req[r].open /\ Proceed(r, mine)
      \/ ~req[r].open /\ Publish(r, put, del)
  BY DEF Write
<1>2. Head(req[r].todo).op \notin {"begin", "commit", "check"} /\ Head(req[r].todo) = req[r].todo[1]
  BY HeadFacts DEF Changes
<1>3. /\ DOMAIN mine = Fields /\ mine.name = req[r].name /\ mine.open = req[r].open
      /\ mine.wrote = req[r].wrote /\ mine.answer = req[r].answer /\ mine.todo = req[r].todo
  BY HeadFacts DEF Fields
<1> HIDE DEF put, del, mine
<1>4. CASE Refuse(r, "error")
  BY <1>2, <1>4, RefuseIsSound
<1>5. CASE req[r].open /\ Proceed(r, mine)
  BY <1>2, <1>3, <1>5, LookIsSound
<1>6. CASE ~req[r].open /\ Publish(r, put, del)
  <2>1. req[r].open = FALSE
    BY <1>6, HeadFacts
  <2>2. Tidy(req[r].todo, req[r].name, FALSE, req[r].wrote)
    BY <2>1, HeadFacts
  <2>3. \A w \in BOOLEAN : Tidy(Tail(req[r].todo), req[r].name, FALSE, w)
    BY <1>2, <2>2, HeadFacts, ChangeTail
  <2>4. QED
    BY <1>6, <2>3, PublishIsSound
<1>7. QED
  BY <1>1, <1>4, <1>5, <1>6

LEMMA StepsAreSound ==
    ASSUME InOrder, NEW r \in Requests, Steps(r)
    PROVE  StepSound(r)
<1>0. ASSUME Running(r)
      PROVE  /\ Head(req[r].todo) = req[r].todo[1] /\ DOMAIN req[r] = Fields
             /\ req[r].name = req[r].name
  BY <1>0, HeadFacts
<1>1. CASE Query(r)
  <2>1. Running(r) /\ Head(req[r].todo).op = "check"
    BY <1>1 DEF Query, Call
  <2>2. Proceed(r, req[r]) \/ Refuse(r, Head(req[r].todo).else)
    BY <1>1 DEF Query
  <2>3. CASE Proceed(r, req[r])
    BY <2>1, <2>3, <1>0, LookIsSound
  <2>4. CASE Refuse(r, Head(req[r].todo).else)
    <3> DEFINE answer == Head(req[r].todo).else
    <3>1. answer = "error" => req[r].todo[1].else # "unread"
      BY <2>1, <1>0
    <3>2. Refuse(r, answer)
      BY <2>4
    <3> HIDE DEF answer
    <3>3. QED
      BY <3>1, <3>2, <2>1, RefuseIsSound
  <2>5. QED
    BY <2>2, <2>3, <2>4
<1>2. CASE Loading(r)
  <2> DEFINE now == [req[r] EXCEPT !.copy = After(r)[Head(req[r].todo).row]]
  <2>1. Running(r) /\ Head(req[r].todo).op = "load"
    BY <1>2 DEF Loading, Call
  <2>2. Proceed(r, now) \/ Refuse(r, "error")
    BY <1>2 DEF Loading
  <2>3. /\ DOMAIN now = Fields /\ now.name = req[r].name /\ now.open = req[r].open
        /\ now.wrote = req[r].wrote /\ now.answer = req[r].answer /\ now.todo = req[r].todo
    BY <2>1, <1>0 DEF Fields
  <2> HIDE DEF now
  <2>4. QED
    BY <2>1, <2>2, <2>3, <1>0, LookIsSound, RefuseIsSound
<1>3. CASE Finding(r)
  <2>1. Running(r) /\ Head(req[r].todo).op = "find"
    BY <1>3 DEF Finding, Call
  <2>2. Refuse(r, "error") \/ \E found : Proceed(r, [req[r] EXCEPT !.got = found])
    BY <1>3 DEF Finding
  <2>3. ASSUME NEW found, Proceed(r, [req[r] EXCEPT !.got = found])
        PROVE  StepSound(r)
    <3> DEFINE now == [req[r] EXCEPT !.got = found]
    <3>1. /\ DOMAIN now = Fields /\ now.name = req[r].name /\ now.open = req[r].open
          /\ now.wrote = req[r].wrote /\ now.answer = req[r].answer /\ now.todo = req[r].todo
      BY <2>1, <1>0 DEF Fields
    <3>2. Proceed(r, now)
      BY <2>3
    <3> HIDE DEF now
    <3>3. QED
      BY <3>1, <3>2, <2>1, LookIsSound
  <2>4. QED
    BY <2>1, <2>2, <2>3, <1>0, RefuseIsSound
<1>4. CASE Skipping(r)
  <2>1. Running(r) /\ Head(req[r].todo).op = "skip"
    BY <1>4 DEF Skipping, Call
  <2>2. \/ Proceed(r, [req[r] EXCEPT !.todo = req[r].todo])
        \/ Proceed(r, [req[r] EXCEPT !.todo = Tail(req[r].todo)])
    BY <1>4 DEF Skipping
  <2>3. CASE Proceed(r, [req[r] EXCEPT !.todo = req[r].todo])
    <3> DEFINE now == [req[r] EXCEPT !.todo = req[r].todo]
    <3>1. /\ DOMAIN now = Fields /\ now.name = req[r].name /\ now.open = req[r].open
          /\ now.wrote = req[r].wrote /\ now.answer = req[r].answer /\ now.todo = req[r].todo
      BY <2>1, <1>0 DEF Fields
    <3>2. Proceed(r, now)
      BY <2>3
    <3> HIDE DEF now
    <3>3. QED
      BY <3>1, <3>2, <2>1, LookIsSound
  <2>4. CASE Proceed(r, [req[r] EXCEPT !.todo = Tail(req[r].todo)])
    <3> DEFINE s == Tail(req[r].todo)
               now == [req[r] EXCEPT !.todo = s]
    <3>1. /\ DOMAIN now = Fields /\ now.name = req[r].name /\ now.open = req[r].open
          /\ now.wrote = req[r].wrote /\ now.answer = req[r].answer /\ now.todo = s
      BY <2>1, <1>0 DEF Fields
    <3>2. Proceed(r, now)
      BY <2>4
    <3> HIDE DEF now
    <3>3. /\ Tidy(s, req[r].name, req[r].open, req[r].wrote)
          /\ s # <<>> /\ s[1].op \notin {"begin", "commit"} /\ Calls(s)
      BY <2>1, HeadFacts, LookTail, SkipTail, TailIs
    <3> HIDE DEF s
    <3>4. Tidy(Tail(s), req[r].name, req[r].open, req[r].wrote)
      BY <3>3, <2>1, HeadFacts, LookTail
    <3>5. QED
      BY <3>1, <3>2, <3>3, <3>4, <2>1, HeadFacts, ProceedIsSound
  <2>5. QED
    BY <2>2, <2>3, <2>4
<1>5. CASE Committing(r)
  <2>1. Running(r) /\ Head(req[r].todo).op = "commit"
    BY <1>5 DEF Committing, Call
  <2>2. \A w \in BOOLEAN : Tidy(Tail(req[r].todo), req[r].name, FALSE, w)
    BY <2>1, HeadFacts, CommitTail
  <2>3. Publish(r, req[r].put, req[r].del)
    BY <1>5 DEF Committing
  <2>4. QED
    BY <2>1, <2>2, <2>3, PublishIsSound
<1>6. CASE Creating(r)
  <2>1. Running(r) /\ Head(req[r].todo).op = "create"
    BY <1>6 DEF Creating, Call
  <2>2. Refuse(r, "error") \/ \E touched, new, out : Write(r, touched, new, out)
    BY <1>6 DEF Creating, Put
  <2>3. Head(req[r].todo).op \in Changes
    BY <2>1 DEF Changes
  <2>4. QED
    BY <2>1, <2>2, <2>3, <1>0, WriteIsSound, RefuseIsSound
<1>7. CASE Ensuring(r) \/ Associating(r)
  <2>1. Running(r) /\ Head(req[r].todo).op \in Changes
    BY <1>7 DEF Ensuring, Associating, Call, Changes
  <2>2. \E touched, new, out : Write(r, touched, new, out)
    BY <1>7 DEF Ensuring, Associating, InsertMissing
  <2>3. QED
    BY <2>1, <2>2, WriteIsSound
<1>8. CASE Trimming(r) \/ Deleting(r) \/ DetachingFound(r) \/ DeletingFound(r)
  <2>1. Running(r) /\ Head(req[r].todo).op \in Changes
    BY <1>8 DEF Trimming, Deleting, DetachingFound, DeletingFound, Call, Changes
  <2>2. \E touched, new, out : Write(r, touched, new, out)
    BY <1>8 DEF Trimming, Deleting, DetachingFound, DeletingFound, RemoveRows
  <2>3. QED
    BY <2>1, <2>2, WriteIsSound
<1>9. CASE Updating(r) \/ Saving(r)
  <2>1. Running(r) /\ Head(req[r].todo).op \in Changes
    BY <1>9 DEF Updating, Saving, Call, Changes
  <2>2. \E touched, new, out : Write(r, touched, new, out)
    BY <1>9 DEF Updating, Saving, Put
  <2>3. QED
    BY <2>1, <2>2, WriteIsSound
<1>10. CASE Negating(r)
  <2>1. Running(r) /\ Head(req[r].todo).op = "negate"
    BY <1>10 DEF Negating, Call
  <2>2. PICK copy : Proceed(r, [req[r] EXCEPT !.copy = copy])
    BY <1>10 DEF Negating
  <2> DEFINE now == [req[r] EXCEPT !.copy = copy]
  <2>3. /\ DOMAIN now = Fields /\ now.name = req[r].name /\ now.open = req[r].open
        /\ now.wrote = req[r].wrote /\ now.answer = req[r].answer /\ now.todo = req[r].todo
    BY <2>1, <1>0 DEF Fields
  <2>4. Proceed(r, now)
    BY <2>2
  <2> HIDE DEF now
  <2>5. QED
    BY <2>1, <2>3, <2>4, LookIsSound
<1>11. CASE Leaving(r)
  <2> DEFINE now == Answered(r, "ok", req[r].open)
  <2>1. Running(r) /\ Head(req[r].todo).op = "leave"
    BY <1>11 DEF Leaving, Call
  <2>2. \/ Proceed(r, req[r])
        \/ req' = [req EXCEPT ![r] = now] /\ UNCHANGED <<db, dead>>
    BY <1>11 DEF Leaving
  <2>3. /\ DOMAIN now = Fields /\ now.todo = <<>> /\ now.open = req[r].open
        /\ now.wrote = req[r].wrote /\ now.answer = "ok" /\ now.name = "none"
    BY DEF Answered, Idle, Fields
  <2> HIDE DEF now
  <2>4. CASE Proceed(r, req[r])
    BY <2>1, <2>4, <1>0, LookIsSound
  <2>5. CASE req' = [req EXCEPT ![r] = now] /\ UNCHANGED <<db, dead>>
    <3>1. req[r].name = Leaver
      BY <2>1, HeadFacts, OnlyReloads
    <3>2. Sound(req[r], now)
      BY <3>1, <2>1, <2>3, HeadFacts DEF Sound, Going
    <3>3. DOMAIN req' = Requests /\ req'[r] = now /\ \A q \in Requests \ {r} : req'[q] = req[q]
      BY <2>5 DEF InOrder
    <3>4. QED
      BY <3>2, <3>3 DEF StepSound, Untouched
  <2>6. QED
    BY <2>2, <2>4, <2>5
<1>12. CASE Allowing(r)
  <2>1. Running(r) /\ Head(req[r].todo).op \in {"manages", "owns"}
    BY <1>12 DEF Allowing, Call
  <2>2. Proceed(r, req[r]) \/ Refuse(r, "error")
    BY <1>12 DEF Allowing
  <2>3. Head(req[r].todo).op \notin {"begin", "commit", "check"}
    BY <2>1
  <2>4. QED
    BY <2>1, <2>2, <2>3, <1>0, LookIsSound, RefuseIsSound
<1>13. QED
  BY <1>1, <1>2, <1>3, <1>4, <1>5, <1>6, <1>7, <1>8, <1>9, <1>10, <1>11, <1>12 DEF Steps

LEMMA FailIsSound ==
    ASSUME InOrder, NEW r \in Requests, Fail(r)
    PROVE  StepSound(r)
<1> DEFINE answer == Head(req[r].todo).else
<1>1. Running(r) /\ Refuse(r, answer)
  BY DEF Fail
<1>2. answer = req[r].todo[1].else
  BY <1>1, HeadFacts
<1> HIDE DEF answer
<1>3. QED
  BY <1>1, <1>2, RefuseIsSound

----------------------------------------------------------------------------
(* The handlers. *)

LEMMA Kinds ==
    /\ \A X, want, else : Check(X, want, else).op = "check" /\ Check(X, want, else).else = else
    /\ \A x : First(x).op = "check"
    /\ \A x : Reload(x).op = "check" /\ Reload(x).else = "unread"
    /\ \A x : Load(x).op = "load"
    /\ \A X, need : Find(X, need).op = "find"
    /\ \A g : Members(g).op = "find"
    /\ Begin.op = "begin" /\ Commit.op = "commit" /\ CommitUnchecked.op = "commit"
    /\ \A X, val : Create(X, val).op = "create"
    /\ \A X : Ensure(X).op = "ensure"
    /\ \A x : Associate(x).op = "append"
    /\ \A X : SkipIf(X).op = "skip"
    /\ \A x, Y : Trim(x, Y).op = "trim"
    /\ \A X : Delete(X).op = "delete"
    /\ \A Y : DetachFound(Y).op = "detach"
    /\ DeleteFound.op = "deletefound"
    /\ \A x, set : Updates(x, set).op = "updates"
    /\ \A x : Save(x).op = "save"
    /\ LeaveIfNone.op = "leave"
    /\ \A c : Negate(c).op = "negate"
    /\ \A u, g : Manages(u, g).op = "manages"
    /\ \A u : OwnsFound(u).op = "owns"
  BY DEF Check, First, Reload, Load, Find, Members, Begin, Commit, CommitUnchecked, Create, Ensure,
         Associate, SkipIf, Trim, Delete, DetachFound, DeleteFound, Updates, Save, LeaveIfNone,
         Negate, Manages, OwnsFound


\* The calls before the transaction, in it, and after its commit.
Looking(s, name) ==
    /\ Calls(s)
    /\ \A i \in 1 .. Len(s) :
          /\ \/ s[i].op \in Looks
             \/ name = Untied /\ s[i].op \notin {"begin", "commit", "skip"}
          /\ s[i].op = "leave" => name = Leaver

Working(s, name) ==
    /\ Calls(s)
    /\ \A i \in 1 .. Len(s) :
          /\ s[i].op \notin {"begin", "commit"}
          /\ s[i].op = "skip" => i < Len(s)
          /\ s[i].op = "leave" => name = Leaver

\* The calls up to somewhere in the transaction, and from there on.
Opens(s, name, b) ==
    /\ Calls(s) /\ b \in 1 .. Len(s) /\ s[b].op = "begin"
    /\ \A i \in 1 .. Len(s) :
          /\ i < b => \/ s[i].op \in Looks
                      \/ name = Untied /\ s[i].op \notin {"begin", "commit", "skip"}
          /\ b < i => /\ s[i].op \notin {"begin", "commit"}
                      /\ s[i].op = "skip" => i < Len(s)
          /\ s[i].op = "leave" => name = Leaver

Ends(s, name, n) ==
    /\ Calls(s) /\ n \in 1 .. Len(s) /\ s[n].op = "commit"
    /\ \A i \in 1 .. Len(s) :
          /\ i < n => s[i].op \notin {"begin", "commit", "skip"}
          /\ n < i => s[i].op = "check" /\ s[i].else = "unread"
          /\ s[i].op = "leave" => name = Leaver

LEMMA CallsIf ==
    ASSUME NEW n \in Nat, NEW f
    PROVE  Calls([i \in 1 .. n |-> f[i]])
<1> DEFINE S == {f[i] : i \in 1 .. n}
<1>1. [i \in 1 .. n |-> f[i]] \in Seq(S)
  OBVIOUS
<1>2. QED
  BY <1>1 DEF Calls

LEMMA Concatenation ==
    ASSUME NEW s, NEW t, Calls(s), Calls(t)
    PROVE  /\ Calls(s \o t) /\ Len(s) \in Nat /\ Len(t) \in Nat /\ Len(s \o t) = Len(s) + Len(t)
           /\ \A i \in 1 .. Len(s) : (s \o t)[i] = s[i]
           /\ \A i \in 1 .. Len(t) : (s \o t)[Len(s) + i] = t[i]
           /\ \A i \in 1 .. Len(s \o t) :
                 \/ i \in 1 .. Len(s) /\ (s \o t)[i] = s[i]
                 \/ \E j \in 1 .. Len(t) : i = Len(s) + j /\ (s \o t)[i] = t[j]
           /\ t # <<>> => s \o t # <<>>
<1>1. PICK S, T : s \in Seq(S) /\ t \in Seq(T)
  BY DEF Calls
<1>2. s \in Seq(S \cup T) /\ t \in Seq(S \cup T)
  BY <1>1
<1> DEFINE U == S \cup T
           st == s \o t
<1>3. s \in Seq(U) /\ t \in Seq(U)
  BY <1>2
<1> HIDE DEF U
<1>4. st \in Seq(U) /\ Len(s) \in Nat /\ Len(t) \in Nat /\ Len(st) = Len(s) + Len(t)
  BY <1>3
<1>5. \A i \in 1 .. Len(s) : st[i] = s[i]
  BY <1>3
<1>6. \A i \in 1 .. Len(t) : st[Len(s) + i] = t[i]
  BY <1>3
<1>7. t # <<>> => Len(t) # 0
  BY <1>3
<1>8. t # <<>> => Len(st) # 0
  BY <1>4, <1>7
<1>9. t # <<>> => st # <<>>
  BY <1>8, LenOfNone, Zenon
<1> HIDE DEF st
<1>10. \A i \in 1 .. Len(st) :
         \/ i \in 1 .. Len(s) /\ st[i] = s[i]
         \/ \E j \in 1 .. Len(t) : i = Len(s) + j /\ st[i] = t[j]
  <2> TAKE i \in 1 .. Len(st)
  <2>1. CASE i \in 1 .. Len(s)
    BY <2>1, <1>5
  <2>2. CASE i \notin 1 .. Len(s)
    <3>1. i - Len(s) \in 1 .. Len(t) /\ i = Len(s) + (i - Len(s))
      BY <2>2, <1>4
    <3>2. QED
      BY <3>1, <1>6
  <2>3. QED
    BY <2>1, <2>2
<1>11. QED
  BY <1>4, <1>5, <1>6, <1>9, <1>10 DEF Calls, st

\* The calls of a request that begin a transaction, or make one change, at call b.
Whole(s, name) ==
    Calls(s) /\ s # <<>> /\ \E b, n \in Nat : b > 0 /\ Shaped(s, name, FALSE, FALSE, b, n)

LEMMA NoCalls == Calls(<<>>) /\ \A name : Looking(<<>>, name) /\ Working(<<>>, name)
<1>1. <<>> \in Seq({})
  OBVIOUS
<1>2. QED
  BY <1>1, LenOfNone DEF Calls, Looking, Working

LEMMA LookingOn ==
    ASSUME NEW s, NEW t, NEW name, Looking(s, name), Looking(t, name)
    PROVE  Looking(s \o t, name)
<1>1. Calls(s) /\ Calls(t)
  BY DEF Looking
<1> DEFINE st == s \o t
<1>2. /\ Calls(st)
      /\ \A i \in 1 .. Len(st) :
            \/ i \in 1 .. Len(s) /\ st[i] = s[i]
            \/ \E j \in 1 .. Len(t) : i = Len(s) + j /\ st[i] = t[j]
  BY <1>1, Concatenation
<1> HIDE DEF st
<1>3. Looking(st, name)
  BY <1>2 DEF Looking
<1>4. QED
  BY <1>3 DEF st

LEMMA WorkingOn ==
    ASSUME NEW s, NEW t, NEW name, Working(s, name), Working(t, name)
    PROVE  Working(s \o t, name)
<1>1. Calls(s) /\ Calls(t)
  BY DEF Working
<1> DEFINE st == s \o t
<1>2. /\ Calls(st) /\ Len(s) \in Nat /\ Len(t) \in Nat /\ Len(st) = Len(s) + Len(t)
      /\ \A i \in 1 .. Len(st) :
            \/ i \in 1 .. Len(s) /\ st[i] = s[i]
            \/ \E j \in 1 .. Len(t) : i = Len(s) + j /\ st[i] = t[j]
  BY <1>1, Concatenation
<1> HIDE DEF st
<1>3. ASSUME NEW i \in 1 .. Len(st)
      PROVE  /\ st[i].op \notin {"begin", "commit"}
             /\ st[i].op = "skip" => i < Len(st)
             /\ st[i].op = "leave" => name = Leaver
  <2>1. CASE i \in 1 .. Len(s) /\ st[i] = s[i]
    BY <2>1, <1>2 DEF Working
  <2>2. ASSUME NEW j \in 1 .. Len(t), i = Len(s) + j, st[i] = t[j]
        PROVE  /\ st[i].op \notin {"begin", "commit"}
               /\ st[i].op = "skip" => i < Len(st)
               /\ st[i].op = "leave" => name = Leaver
    BY <2>2, <1>2 DEF Working
  <2>3. QED
    BY <1>2, <2>1, <2>2
<1>4. Working(st, name)
  BY <1>2, <1>3 DEF Working
<1>5. QED
  BY <1>4 DEF st

LEMMA OpensOn ==
    ASSUME NEW s, NEW t, NEW name, NEW b, Opens(s, name, b), Working(t, name)
    PROVE  Opens(s \o t, name, b)
<1>1. Calls(s) /\ Calls(t)
  BY DEF Working, Opens
<1> DEFINE st == s \o t
<1>2. /\ Calls(st) /\ Len(s) \in Nat /\ Len(t) \in Nat /\ Len(st) = Len(s) + Len(t)
      /\ \A i \in 1 .. Len(s) : st[i] = s[i]
      /\ \A i \in 1 .. Len(st) :
            \/ i \in 1 .. Len(s) /\ st[i] = s[i]
            \/ \E j \in 1 .. Len(t) : i = Len(s) + j /\ st[i] = t[j]
  BY <1>1, Concatenation
<1> HIDE DEF st
<1>3. b \in 1 .. Len(s) /\ b \in 1 .. Len(st) /\ st[b].op = "begin"
  BY <1>2 DEF Opens
<1>4. ASSUME NEW i \in 1 .. Len(st)
      PROVE  /\ i < b => \/ st[i].op \in Looks
                         \/ name = Untied /\ st[i].op \notin {"begin", "commit", "skip"}
             /\ b < i => /\ st[i].op \notin {"begin", "commit"}
                         /\ st[i].op = "skip" => i < Len(st)
             /\ st[i].op = "leave" => name = Leaver
  <2>1. CASE i \in 1 .. Len(s) /\ st[i] = s[i]
    BY <2>1, <1>2 DEF Opens
  <2>2. ASSUME NEW j \in 1 .. Len(t), i = Len(s) + j, st[i] = t[j]
        PROVE  /\ ~(i < b)
               /\ st[i].op \notin {"begin", "commit"}
               /\ st[i].op = "skip" => i < Len(st)
               /\ st[i].op = "leave" => name = Leaver
    BY <2>2, <1>2, <1>3 DEF Working
  <2>3. QED
    BY <1>2, <2>1, <2>2
<1>5. Opens(st, name, b)
  BY <1>2, <1>3, <1>4 DEF Opens
<1>6. QED
  BY <1>5 DEF st

LEMMA LookingOpens ==
    ASSUME NEW s, NEW t, NEW name, NEW b, Looking(s, name), Opens(t, name, b)
    PROVE  Opens(s \o t, name, Len(s) + b)
<1>1. Calls(s) /\ Calls(t)
  BY DEF Looking, Opens
<1> DEFINE st == s \o t
           c == Len(s) + b
<1>2. /\ Calls(st) /\ Len(s) \in Nat /\ Len(t) \in Nat /\ Len(st) = Len(s) + Len(t)
      /\ \A i \in 1 .. Len(t) : st[Len(s) + i] = t[i]
      /\ \A i \in 1 .. Len(st) :
            \/ i \in 1 .. Len(s) /\ st[i] = s[i]
            \/ \E j \in 1 .. Len(t) : i = Len(s) + j /\ st[i] = t[j]
  BY <1>1, Concatenation
<1> HIDE DEF st
<1>3. b \in 1 .. Len(t) /\ c \in 1 .. Len(st) /\ st[c].op = "begin"
  BY <1>2 DEF Opens
<1>4. ASSUME NEW i \in 1 .. Len(st)
      PROVE  /\ i < c => \/ st[i].op \in Looks
                         \/ name = Untied /\ st[i].op \notin {"begin", "commit", "skip"}
             /\ c < i => /\ st[i].op \notin {"begin", "commit"}
                         /\ st[i].op = "skip" => i < Len(st)
             /\ st[i].op = "leave" => name = Leaver
  <2>1. CASE i \in 1 .. Len(s) /\ st[i] = s[i]
    BY <2>1, <1>2, <1>3 DEF Looking
  <2>2. ASSUME NEW j \in 1 .. Len(t), i = Len(s) + j, st[i] = t[j]
        PROVE  /\ i < c => \/ st[i].op \in Looks
                           \/ name = Untied /\ st[i].op \notin {"begin", "commit", "skip"}
               /\ c < i => /\ st[i].op \notin {"begin", "commit"}
                           /\ st[i].op = "skip" => i < Len(st)
               /\ st[i].op = "leave" => name = Leaver
    <3>1. /\ j < b => \/ t[j].op \in Looks
                      \/ name = Untied /\ t[j].op \notin {"begin", "commit", "skip"}
          /\ b < j => /\ t[j].op \notin {"begin", "commit"}
                      /\ t[j].op = "skip" => j < Len(t)
          /\ t[j].op = "leave" => name = Leaver
      BY DEF Opens
    <3>2. (i < c => j < b) /\ (c < i => b < j) /\ (j < Len(t) => i < Len(st))
      BY <2>2, <1>2, <1>3
    <3> HIDE DEF c
    <3>3. QED
      BY <2>2, <3>1, <3>2
  <2>3. QED
    BY <1>2, <2>1, <2>2
<1> HIDE DEF c
<1>5. Opens(st, name, c)
  BY <1>2, <1>3, <1>4 DEF Opens
<1>6. QED
  BY <1>5 DEF st, c

LEMMA OpensEnds ==
    ASSUME NEW s, NEW t, NEW name, NEW b, NEW n, Opens(s, name, b), Ends(t, name, n)
    PROVE  Whole(s \o t, name)
<1>1. Calls(s) /\ Calls(t)
  BY DEF Ends, Opens
<1> DEFINE st == s \o t
           m == Len(s) + n
<1>2. /\ Calls(st) /\ Len(s) \in Nat /\ Len(t) \in Nat /\ Len(st) = Len(s) + Len(t)
      /\ \A i \in 1 .. Len(s) : st[i] = s[i]
      /\ \A i \in 1 .. Len(t) : st[Len(s) + i] = t[i]
      /\ \A i \in 1 .. Len(st) :
            \/ i \in 1 .. Len(s) /\ st[i] = s[i]
            \/ \E j \in 1 .. Len(t) : i = Len(s) + j /\ st[i] = t[j]
  BY <1>1, Concatenation
<1> HIDE DEF st
<1>3. b \in 1 .. Len(s) /\ n \in 1 .. Len(t)
  BY DEF Opens, Ends
<1>4. /\ b \in Nat /\ m \in Nat /\ b > 0 /\ b < m /\ m <= Len(st)
      /\ st[b].op = "begin" /\ st[m].op = "commit"
  BY <1>2, <1>3 DEF Opens, Ends
<1>5. ASSUME NEW i \in 1 .. Len(st)
      PROVE  /\ i < b => \/ st[i].op \in Looks
                         \/ name = Untied /\ st[i].op \notin {"begin", "commit", "skip"}
             /\ b < i /\ i < m => /\ st[i].op \notin {"begin", "commit"}
                                  /\ st[i].op = "skip" => i + 1 < m
             /\ m < i => st[i].op = "check" /\ st[i].else = "unread"
             /\ st[i].op = "leave" => name = Leaver
  <2>1. CASE i \in 1 .. Len(s) /\ st[i] = s[i]
    <3>1. ~(m < i) /\ (i < Len(s) => i + 1 < m)
      BY <2>1, <1>2, <1>3
    <3>2. QED
      BY <2>1, <3>1 DEF Opens
  <2>2. ASSUME NEW j \in 1 .. Len(t), i = Len(s) + j, st[i] = t[j]
        PROVE  /\ ~(i < b)
               /\ b < i /\ i < m => st[i].op \notin {"begin", "commit", "skip"}
               /\ m < i => st[i].op = "check" /\ st[i].else = "unread"
               /\ st[i].op = "leave" => name = Leaver
    <3>1. ~(i < b) /\ (i < m => j < n) /\ (m < i => n < j)
      BY <2>2, <1>2, <1>3
    <3> HIDE DEF m
    <3>2. QED
      BY <2>2, <3>1 DEF Ends
  <2>3. QED
    BY <1>2, <2>1, <2>2
<1> HIDE DEF m
<1>6. Shaped(st, name, FALSE, FALSE, b, m)
  BY <1>4, <1>5 DEF Shaped
<1>7. Len(st) # 0
  BY <1>2, <1>3
<1>8. st # <<>>
  BY <1>7, LenOfNone, Zenon
<1>9. Whole(st, name)
  BY <1>2, <1>4, <1>6, <1>8 DEF Whole
<1>10. QED
  BY <1>9 DEF st

LEMMA LookingWhole ==
    ASSUME NEW s, NEW t, NEW name, Looking(s, name), Whole(t, name)
    PROVE  Whole(s \o t, name)
<1>1. Calls(s) /\ Calls(t)
  BY DEF Looking, Whole
<1>2. PICK b \in Nat, n \in Nat : b > 0 /\ Shaped(t, name, FALSE, FALSE, b, n)
  BY DEF Whole
<1> DEFINE st == s \o t
           c == Len(s) + b
           m == Len(s) + n
<1>3. /\ Calls(st) /\ Len(s) \in Nat /\ Len(t) \in Nat /\ Len(st) = Len(s) + Len(t)
      /\ \A i \in 1 .. Len(t) : st[Len(s) + i] = t[i]
      /\ \A i \in 1 .. Len(st) :
            \/ i \in 1 .. Len(s) /\ st[i] = s[i]
            \/ \E j \in 1 .. Len(t) : i = Len(s) + j /\ st[i] = t[j]
      /\ st # <<>>
  BY <1>1, Concatenation DEF Whole
<1> HIDE DEF st
<1>4. b <= n /\ c \in Nat /\ m \in Nat /\ c > 0 /\ c <= m /\ (c < m <=> b < n) /\ (c = m <=> b = n)
  <2>1. b <= n
    BY <1>2 DEF Shaped
  <2>2. b > 0 /\ Len(s) \in Nat
    BY <1>2, <1>3
  <2>3. QED
    BY <2>1, <2>2
<1>5. c < m => m <= Len(st) /\ st[m].op = "commit"
  <2>1. SUFFICES ASSUME b < n PROVE m <= Len(st) /\ st[m].op = "commit"
    BY <1>4
  <2>2. n <= Len(t) /\ t[n].op = "commit"
    BY <1>2, <2>1 DEF Shaped
  <2>3. QED
    BY <1>3, <2>1, <2>2
<1>6. ASSUME NEW i \in 1 .. Len(st)
      PROVE  /\ i < c => \/ st[i].op \in Looks
                         \/ name = Untied /\ st[i].op \notin {"begin", "commit", "skip"}
             /\ i = c /\ c < m => st[i].op = "begin"
             /\ i = c /\ c = m => st[i].op \notin {"begin", "commit", "skip"}
             /\ c < i /\ i < m => /\ st[i].op \notin {"begin", "commit"}
                                  /\ st[i].op = "skip" => i + 1 < m
             /\ m < i => st[i].op = "check" /\ st[i].else = "unread"
             /\ st[i].op = "leave" => name = Leaver
  <2>1. CASE i \in 1 .. Len(s) /\ st[i] = s[i]
    <3>1. i < c /\ ~(i = c) /\ ~(c < i) /\ ~(m < i)
      BY <2>1, <1>2, <1>3, <1>4
    <3>2. QED
      BY <2>1, <3>1 DEF Looking
  <2>2. ASSUME NEW j \in 1 .. Len(t), i = Len(s) + j, st[i] = t[j]
        PROVE  /\ i < c => \/ st[i].op \in Looks
                           \/ name = Untied /\ st[i].op \notin {"begin", "commit", "skip"}
               /\ i = c /\ c < m => st[i].op = "begin"
               /\ i = c /\ c = m => st[i].op \notin {"begin", "commit", "skip"}
               /\ c < i /\ i < m => /\ st[i].op \notin {"begin", "commit"}
                                    /\ st[i].op = "skip" => i + 1 < m
               /\ m < i => st[i].op = "check" /\ st[i].else = "unread"
               /\ st[i].op = "leave" => name = Leaver
    <3>1. /\ i < c => j < b
          /\ i = c => j = b
          /\ c < i => b < j
          /\ i < m => j < n
          /\ m < i => n < j
          /\ j + 1 < n => i + 1 < m
      BY <2>2, <1>3
    <3>2. /\ j < b => \/ t[j].op \in Looks
                      \/ name = Untied /\ t[j].op \notin {"begin", "commit", "skip"}
          /\ j = b /\ b < n => t[j].op = "begin"
          /\ j = b /\ b = n => t[j].op \notin {"begin", "commit", "skip"}
          /\ b < j /\ j < n => /\ t[j].op \notin {"begin", "commit"}
                               /\ t[j].op = "skip" => j + 1 < n
          /\ n < j => t[j].op = "check" /\ t[j].else = "unread"
          /\ t[j].op = "leave" => name = Leaver
      BY <1>2 DEF Shaped
    <3> HIDE DEF c, m
    <3>3. QED
      BY <2>2, <3>1, <3>2, <1>4
  <2>3. QED
    BY <1>3, <2>1, <2>2
<1> HIDE DEF c, m
<1>7. Shaped(st, name, FALSE, FALSE, c, m)
  BY <1>4, <1>5, <1>6 DEF Shaped
<1>8. Whole(st, name)
  BY <1>3, <1>4, <1>7 DEF Whole
<1>9. QED
  BY <1>8 DEF st

\* How a request is when its handler has been entered.
Fresh(y, name) ==
    /\ Going(y) /\ y.name \in {name, "none"} /\ ~y.wrote
    /\ y.answer # "none" => ~y.open

EnteredAs(r, name) ==
    /\ DOMAIN req' = Requests
    /\ \A q \in Requests \ {r} : req'[q] = req[q]
    /\ Fresh(req'[r], name)

LEMMA ServeGoes ==
    ASSUME InOrder, NEW r \in Requests, NEW name, NEW may, NEW asked, NEW calls,
           Serve(r, name, may, asked, calls), Whole(calls, name)
    PROVE  EnteredAs(r, name)
<1> DEFINE first == [Idle EXCEPT !.name = name, !.todo = calls, !.asked = asked]
           refused == [Idle EXCEPT !.answer = "error"]
<1>1. req' = [req EXCEPT ![r] = Begun(first)] \/ req' = [req EXCEPT ![r] = refused]
  BY DEF Serve
<1>2. /\ DOMAIN first = Fields /\ first.open = FALSE /\ first.wrote = FALSE /\ first.answer = "none"
      /\ first.todo = calls /\ first.name = name
      /\ DOMAIN refused = Fields /\ refused.open = FALSE /\ refused.wrote = FALSE
      /\ refused.todo = <<>> /\ refused.name = "none"
  BY DEF Idle, Fields
<1> HIDE DEF first, refused
<1>3. Tidy(calls, name, FALSE, FALSE) /\ Calls(calls) /\ calls # <<>>
  BY DEF Whole, Tidy
<1>4. /\ Going(Begun(first)) /\ Begun(first).answer = "none" /\ Begun(first).name = name
      /\ Begun(first).wrote = FALSE
  BY <1>2, <1>3, BegunGoes
<1>5. Fresh(Begun(first), name) /\ Fresh(refused, name)
  BY <1>2, <1>4 DEF Fresh, Going
<1>6. QED
  BY <1>1, <1>5 DEF EnteredAs, InOrder

LEMMA ServeWithGoes ==
    ASSUME InOrder, NEW r \in Requests, NEW name, NEW got, NEW calls,
           ServeWith(r, name, got, calls), Whole(calls, name)
    PROVE  EnteredAs(r, name)
<1> DEFINE first == [Idle EXCEPT !.name = name, !.todo = calls, !.got = [x \in got |-> db[x]]]
<1>1. req' = [req EXCEPT ![r] = Begun(first)]
  BY DEF ServeWith
<1>2. /\ DOMAIN first = Fields /\ first.open = FALSE /\ first.wrote = FALSE /\ first.answer = "none"
      /\ first.todo = calls /\ first.name = name
  BY DEF Idle, Fields
<1> HIDE DEF first
<1>3. Tidy(calls, name, FALSE, FALSE) /\ Calls(calls) /\ calls # <<>>
  BY DEF Whole, Tidy
<1>4. /\ Going(Begun(first)) /\ Begun(first).answer = "none" /\ Begun(first).name = name
      /\ Begun(first).wrote = FALSE
  BY <1>2, <1>3, BegunGoes
<1>5. Fresh(Begun(first), name)
  BY <1>4 DEF Fresh
<1>6. QED
  BY <1>1, <1>5 DEF EnteredAs, InOrder

\* s lists k calls.
Tuple(s, k) == s = [i \in 1 .. k |-> s[i]]

LEMMA TupleIs ==
    ASSUME NEW s, NEW k \in Nat, Tuple(s, k)
    PROVE  Calls(s) /\ Len(s) = k
<1>1. s = [i \in 1 .. k |-> s[i]]
  BY DEF Tuple
<1>2. Calls(s)
  BY <1>1, CallsIf
<1>3. Len(s) = k
  BY <1>1
<1>4. QED
  BY <1>2, <1>3

\* The change is call b, or commits with call n what began with b.
Listed(s, name, k, b, n) == Tuple(s, k) /\ Shaped(s, name, FALSE, FALSE, b, n)

LEMMA ListedIsWhole ==
    ASSUME NEW s, NEW name, NEW k \in Nat \ {0}, NEW b \in Nat \ {0}, NEW n \in Nat,
           Listed(s, name, k, b, n)
    PROVE  Whole(s, name)
<1>1. Tuple(s, k) /\ Shaped(s, name, FALSE, FALSE, b, n)
  BY DEF Listed
<1>2. Calls(s) /\ Len(s) # 0
  BY <1>1, TupleIs
<1>3. s # <<>>
  BY <1>2, LenOfNone, Zenon
<1>4. b \in Nat /\ b > 0
  OBVIOUS
<1>5. \E c, m \in Nat : c > 0 /\ Shaped(s, name, FALSE, FALSE, c, m)
  BY <1>1, <1>4
<1>6. QED
  BY <1>2, <1>3, <1>5 DEF Whole

\* Serving such a list, whatever it is.
Serves(r, k, b, n) ==
    \A name, may, asked, calls :
       Serve(r, name, may, asked, calls) /\ Listed(calls, name, k, b, n) => EnteredAs(r, name)

LEMMA ServeListed ==
    ASSUME InOrder, NEW r \in Requests, NEW k \in Nat \ {0}, NEW b \in Nat \ {0}, NEW n \in Nat
    PROVE  Serves(r, k, b, n)
  BY ListedIsWhole, ServeGoes DEF Serves


LEMMA ReplaceWorks ==
    ASSUME NEW x, NEW Y, NEW name
    PROVE  Working(Replace(x, Y), name)
<1>1. Tuple(Replace(x, Y), 2)
  BY DEF Tuple, Replace
<1>2. QED
  BY <1>1, TupleIs, Kinds DEF Replace, Working


\* The others are as before, but for what they may have seen disappear.
LEMMA OthersStay ==
    ASSUME InOrder, NEW r \in Requests, StepSound(r), NEW q \in Requests \ {r}
    PROVE  /\ Going(req'[q]) /\ req'[q].name = req[q].name /\ req'[q].answer = req[q].answer
           /\ req'[q].open = req[q].open /\ req'[q].wrote = req[q].wrote
<1>1. Going(req[q])
  BY DEF InOrder
<1>2. CASE req'[q] = req[q]
  BY <1>1, <1>2
<1>3. ASSUME NEW gone, req'[q] = [req[q] EXCEPT !.gone = gone]
      PROVE  /\ Going(req'[q]) /\ req'[q].name = req[q].name /\ req'[q].answer = req[q].answer
             /\ req'[q].open = req[q].open /\ req'[q].wrote = req[q].wrote
  <2> DEFINE y == [req[q] EXCEPT !.gone = gone]
  <2>1. /\ DOMAIN y = Fields /\ y.name = req[q].name /\ y.answer = req[q].answer
        /\ y.open = req[q].open /\ y.wrote = req[q].wrote /\ y.todo = req[q].todo
    BY <1>1 DEF Going, Fields
  <2> HIDE DEF y
  <2>2. Going(y)
    BY <1>1, <2>1 DEF Going
  <2>3. QED
    BY <1>3, <2>1, <2>2 DEF y
<1>4. QED
  BY <1>2, <1>3 DEF StepSound, Untouched

LEMMA SoundStaysInOrder ==
    ASSUME InOrder, NEW r \in Requests, StepSound(r)
    PROVE  InOrder'
<1>1. Going(req'[r])
  BY DEF StepSound, Sound
<1>2. \A q \in Requests \ {r} : Going(req'[q])
  BY OthersStay
<1>3. \A q \in Requests : Going(req'[q])
  BY <1>1, <1>2
<1>4. DOMAIN req' = Requests
  BY DEF StepSound
<1>5. QED
  BY <1>3, <1>4 DEF InOrder, Going

LEMMA EnteredInOrder ==
    ASSUME InOrder, NEW r \in Requests, NEW name, EnteredAs(r, name)
    PROVE  InOrder'
<1>1. \A q \in Requests : Going(req'[q])
  BY DEF EnteredAs, Fresh, InOrder
<1>2. QED
  BY <1>1 DEF InOrder, Going, EnteredAs

LEMMA InitInOrder ==
    ASSUME Init
    PROVE  InOrder /\ \A r \in Requests : ~req[r].wrote /\ req[r].name # Untied
<1>1. /\ DOMAIN Idle = Fields /\ Idle.open = FALSE /\ Idle.wrote = FALSE /\ Idle.todo = <<>>
      /\ Idle.name = "none"
  BY DEF Idle, Fields
<1>2. Going(Idle)
  BY <1>1 DEF Going
<1>3. QED
  BY <1>1, <1>2 DEF InOrder, Init, Untied

----------------------------------------------------------------------------
(* What a step writes and what is left to do.                               *)

Real(c) == c.op = "find" /\ c.need # "count"

\* The rows that the first call of r writes, and those it deletes.
Makes(r, new, out) ==
    LET c == Head(req[r].todo)
        got == DOMAIN req[r].got
    IN \/ new = {} /\ out = {} /\ c.op = "commit"
       \/ out = {} /\ c.op = "create" /\ new = c.rows /\ new \cap Seen(r) = {}
       \/ out = {} /\ c.op = "ensure" /\ new = c.rows \ Seen(r)
       \/ out = {} /\ c.op = "append" /\ new = (got \cup LinksOf(c.row, got)) \ Seen(r)
       \/ out = {} /\ c.op = "updates" /\ new = {c.row} \cap Seen(r)
       \/ /\ out = {} /\ c.op = "save" /\ new \subseteq {c.row}
          /\ req[r].got = Nothing => new = {c.row}
       \/ new = {} /\ c.op = "trim" /\ out = LinksOf(c.row, c.rows \ got) \cap Seen(r)
       \/ new = {} /\ c.op = "delete" /\ out = c.rows \cap Seen(r)
       \/ new = {} /\ c.op = "detach" /\ out = (UNION {LinksOf(x, c.rows) : x \in got}) \cap Seen(r)
       \/ new = {} /\ c.op = "deletefound" /\ out = got \cap Seen(r)

\* What the call c finds.
Found(r, c, got) ==
    /\ DOMAIN got \subseteq c.rows \cap Seen(r)
    /\ got = [x \in DOMAIN got |-> got[x]]
    /\ c.need = "some" => DOMAIN got # {}
    /\ c.need = "all" => DOMAIN got = c.rows

\* y has the calls left that x has, but for the first and those that went with it.
Onward(x, y) ==
    /\ y.name = x.name /\ y.asked = x.asked /\ y.gone = x.gone
    /\ \E d \in 1 .. 3 :
          /\ Len(y.todo) = Len(x.todo) - d
          /\ \A j \in 1 .. Len(y.todo) : y.todo[j] = x.todo[j + d]
          /\ \A i \in 2 .. d : x.todo[i].op = "begin" \/ (i = 2 /\ x.todo[1].op = "skip")
          /\ y.open => x.open \/ \E i \in 2 .. d : x.todo[i].op = "begin"

Ended(r) == req'[r].todo = <<>>

\* The three ways a step ends: nothing is written, it is written in the transaction, or it is
\* there for everybody.
Quiet(r) ==
    /\ UNCHANGED <<db, dead>>
    /\ \A q \in Requests \ {r} : req'[q] = req[q]
    /\ \/ Ended(r)
       \/ LET c == Head(req[r].todo) IN
          /\ Onward(req[r], req'[r]) /\ c.op \notin Changes \cup {"commit"}
          /\ PutRows(r)' = PutRows(r) /\ DelRows(r)' = DelRows(r)
          /\ IF Real(c) THEN Found(r, c, req'[r].got) ELSE req'[r].got = req[r].got
          /\ c.op = "load" => c.row \in Seen(r)

Held(r, new, out) ==
    /\ UNCHANGED <<db, dead>> /\ req[r].open /\ Head(req[r].todo).op \in Changes
    /\ \A q \in Requests \ {r} : req'[q] = req[q]
    /\ \/ Ended(r)
       \/ /\ Onward(req[r], req'[r]) /\ req'[r].got = req[r].got
          /\ PutRows(r)' = new \cup (PutRows(r) \ out)
          /\ DelRows(r)' = DelRows(r) \cup (out \cap DOMAIN db)

Published(r, new, out) ==
    /\ \/ Head(req[r].todo).op = "commit" /\ new = {} /\ out = {}
       \/ Head(req[r].todo).op \in Changes /\ ~req[r].open
    /\ DOMAIN db' = Sees(new \cup (PutRows(r) \ out), DelRows(r) \cup (out \cap DOMAIN db), DOMAIN db)
    /\ dead' = (dead \cup (DOMAIN db \ DOMAIN db')) \ DOMAIN db'
    /\ \A q \in Requests \ {r} :
          req'[q] = IF Running(q) THEN [req[q] EXCEPT !.gone = @ \cup (DOMAIN db \ DOMAIN db')]
                    ELSE req[q]
    /\ \/ Ended(r)
       \/ /\ Onward(req[r], req'[r]) /\ req'[r].got = req[r].got
          /\ PutRows(r)' = {} /\ DelRows(r)' = {}
          /\ Head(req[r].todo).op = "commit" \/ req[r].name # Untied =>
                \A i \in 1 .. Len(req'[r].todo) : req'[r].todo[i].op = "check"

Outcome(r, new, out) == Quiet(r) \/ Held(r, new, out) \/ Published(r, new, out)

LEMMA AfterPublish ==
    ASSUME NEW s, NEW name, NEW open \in BOOLEAN, NEW wrote \in BOOLEAN,
           Calls(s), s # <<>>, Tidy(s, name, open, wrote),
           s[1].op = "commit" \/ (s[1].op \in Changes /\ open = FALSE /\ name # Untied)
    PROVE  \A i \in 2 .. Len(s) : s[i].op = "check"
<1>1. PICK b \in Nat, n \in Nat : Shaped(s, name, open, wrote, b, n)
  BY DEF Tidy
<1>2. Len(s) \in Nat /\ 1 \in 1 .. Len(s)
  BY TailIs
<1>3. CASE s[1].op = "commit"
  <2>1. b = 0 /\ n = 1
    BY <1>1, <1>2, <1>3 DEF Shaped, Looks
  <2>2. QED
    BY <1>1, <1>2, <2>1 DEF Shaped
<1>4. CASE s[1].op \in Changes /\ open = FALSE /\ name # Untied
  <2>1. s[1].op \notin Looks /\ s[1].op \notin {"begin", "commit", "check"}
    BY <1>4 DEF Looks, Changes
  <2>2. n <= 1
    BY <1>1, <1>2, <1>4, <2>1 DEF Shaped
  <2>3. QED
    BY <1>1, <1>2, <2>2 DEF Shaped
<1>5. QED
  BY <1>3, <1>4

\* What Advance leaves of y.
Remains(z, y) ==
    \/ z.todo = <<>>
    \/ /\ z.name = y.name /\ z.asked = y.asked /\ z.gone = y.gone /\ z.got = y.got
       /\ z.put = y.put /\ z.del = y.del /\ Len(z.todo) \in Nat
       /\ \E e \in 1 .. 2 :
             /\ Len(z.todo) = Len(y.todo) - e
             /\ \A j \in 1 .. Len(z.todo) : z.todo[j] = y.todo[j + e]
             /\ e = 2 => y.todo[2].op = "begin"
             /\ z.open => y.open \/ e = 2

LEMMA AdvanceGoesOn ==
    ASSUME NEW r, NEW y, DOMAIN y = Fields, Calls(y.todo), y.todo # <<>>
    PROVE  Remains(Advance(r, y), y)
<1> DEFINE z == Advance(r, y)
<1>1. CASE Tail(y.todo) = <<>>
  <2>1. z = [Idle EXCEPT !.answer = "ok", !.open = y.open, !.wrote = y.wrote]
    BY <1>1 DEF Advance
  <2>2. z.todo = <<>>
    BY <2>1 DEF Idle
  <2>3. QED
    BY <2>2 DEF Remains
<1>2. CASE Tail(y.todo) # <<>>
  <2> DEFINE t == Tail(y.todo)
             w == [y EXCEPT !.todo = Tail(@)]
  <2>1. z = Begun(w)
    BY <1>2 DEF Advance
  <2>2. /\ DOMAIN w = Fields /\ w.name = y.name /\ w.asked = y.asked /\ w.gone = y.gone
        /\ w.got = y.got /\ w.put = y.put /\ w.del = y.del /\ w.open = y.open /\ w.todo = t
    BY DEF Fields
  <2>3. /\ Calls(t) /\ Len(t) = Len(y.todo) - 1 /\ Head(t) = t[1] /\ Len(t) > 0
        /\ Len(t) \in Nat /\ \A j \in 1 .. Len(t) : t[j] = y.todo[j + 1]
    BY <1>2, TailIs
  <2> HIDE DEF w, t, z
  <2>4. CASE t[1].op = "begin"
    <3> DEFINE v == [w EXCEPT !.todo = Tail(@), !.open = TRUE]
    <3>1. z = v
      BY <2>1, <2>2, <2>3, <2>4 DEF Begun
    <3>2. /\ v.name = y.name /\ v.asked = y.asked /\ v.gone = y.gone
          /\ v.got = y.got /\ v.put = y.put /\ v.del = y.del /\ v.todo = Tail(t)
      BY <2>2 DEF Fields
    <3> HIDE DEF v
    <3>3. t # <<>>
      BY <1>2 DEF t
    <3>4. Len(Tail(t)) = Len(t) - 1 /\ \A j \in 1 .. Len(Tail(t)) : Tail(t)[j] = t[j + 1] /\ j + 1 \in 1 .. Len(t)
      BY <2>3, <3>3, TailIs
    <3>5. Len(z.todo) = Len(y.todo) - 2 /\ y.todo[2].op = "begin" /\ Len(z.todo) \in Nat
      <4>1. 1 \in 1 .. Len(t)
        BY <2>3
      <4>2. t[1] = y.todo[2]
        BY <4>1, <2>3
      <4>3. QED
        BY <3>1, <3>2, <3>4, <2>3, <2>4, <4>2
    <3>6. \A j \in 1 .. Len(z.todo) : z.todo[j] = y.todo[j + 2]
      <4> TAKE j \in 1 .. Len(z.todo)
      <4>1. z.todo[j] = t[j + 1] /\ j + 1 \in 1 .. Len(t)
        BY <3>1, <3>2, <3>4
      <4>2. t[j + 1] = y.todo[(j + 1) + 1]
        BY <4>1, <2>3
      <4>3. QED
        BY <4>1, <4>2
    <3>7. QED
      BY <3>1, <3>2, <3>5, <3>6 DEF z, Remains
  <2>5. CASE t[1].op # "begin"
    <3>1. z = w
      BY <2>1, <2>2, <2>3, <2>5 DEF Begun
    <3>2. QED
      BY <3>1, <2>2, <2>3 DEF z, Remains
  <2>6. QED
    BY <2>4, <2>5
<1>3. QED
  BY <1>1, <1>2

\* Where a step leaves r and the others, when r goes on with y.
LEMMA ProceedGoesOn ==
    ASSUME InOrder, NEW r \in Requests, Running(r), NEW y, Proceed(r, y),
           DOMAIN y = Fields, y.name = req[r].name, y.asked = req[r].asked, y.gone = req[r].gone,
           y.open = req[r].open, y.todo = req[r].todo
    PROVE  /\ UNCHANGED <<db, dead>> /\ \A q \in Requests \ {r} : req'[q] = req[q]
           /\ \/ Ended(r)
              \/ /\ Onward(req[r], req'[r]) /\ req'[r].got = y.got
                 /\ PutRows(r)' = DOMAIN y.put /\ DelRows(r)' = y.del
<1> DEFINE z == Advance(r, y)
           x == req[r]
<1>1. req' = [req EXCEPT ![r] = z] /\ UNCHANGED <<db, dead>>
  BY DEF Proceed
<1>2. DOMAIN req = Requests
  BY DEF InOrder
<1>3. req'[r] = z /\ \A q \in Requests \ {r} : req'[q] = req[q]
  BY <1>1, <1>2
<1>4. Calls(y.todo) /\ y.todo # <<>>
  BY HeadFacts
<1> HIDE DEF z
<1>5. Remains(z, y)
  BY <1>4, AdvanceGoesOn DEF z
<1>6. CASE z.todo = <<>>
  BY <1>1, <1>3, <1>6 DEF Ended
<1>7. ASSUME z.name = y.name, z.asked = y.asked, z.gone = y.gone, z.got = y.got,
             z.put = y.put, z.del = y.del, NEW e \in 1 .. 2,
             Len(z.todo) = Len(y.todo) - e,
             \A j \in 1 .. Len(z.todo) : z.todo[j] = y.todo[j + e],
             e = 2 => y.todo[2].op = "begin",
             z.open => y.open \/ e = 2
      PROVE  Onward(x, z)
  <2>1. e \in 1 .. 3
    OBVIOUS
  <2>2. \A i \in 2 .. e : x.todo[i].op = "begin"
    BY <1>7
  <2>3. z.open => x.open \/ \E i \in 2 .. e : x.todo[i].op = "begin"
    BY <1>7
  <2>4. QED
    BY <1>7, <2>1, <2>2, <2>3 DEF Onward
<1>8. z.todo = <<>> \/ (Onward(x, z) /\ z.got = y.got /\ z.put = y.put /\ z.del = y.del)
  BY <1>5, <1>7 DEF Remains
<1>9. QED
  BY <1>1, <1>3, <1>6, <1>8 DEF PutRows, DelRows

\* The same when the next call is skipped.
LEMMA SkipGoesOn ==
    ASSUME InOrder, NEW r \in Requests, Running(r), NEW y, Proceed(r, y),
           DOMAIN y = Fields, y.name = req[r].name, y.asked = req[r].asked, y.gone = req[r].gone,
           y.open = req[r].open, y.todo = Tail(req[r].todo), req[r].todo[1].op = "skip"
    PROVE  /\ UNCHANGED <<db, dead>> /\ \A q \in Requests \ {r} : req'[q] = req[q]
           /\ \/ Ended(r)
              \/ /\ Onward(req[r], req'[r]) /\ req'[r].got = y.got
                 /\ PutRows(r)' = DOMAIN y.put /\ DelRows(r)' = y.del
<1> DEFINE z == Advance(r, y)
           x == req[r]
           s == req[r].todo
<1>1. req' = [req EXCEPT ![r] = z] /\ UNCHANGED <<db, dead>>
  BY DEF Proceed
<1>2. DOMAIN req = Requests
  BY DEF InOrder
<1>3. req'[r] = z /\ \A q \in Requests \ {r} : req'[q] = req[q]
  BY <1>1, <1>2
<1>4. Calls(s) /\ s # <<>> /\ Tail(s) # <<>>
  BY HeadFacts, SkipTail
<1>5. /\ Calls(Tail(s)) /\ Len(Tail(s)) = Len(s) - 1 /\ Len(s) \in Nat
      /\ \A j \in 1 .. Len(Tail(s)) : Tail(s)[j] = s[j + 1]
      /\ Len(Tail(s)) > 0
  BY <1>4, TailIs
<1> HIDE DEF z, s
<1>6. Remains(z, y)
  BY <1>4, <1>5, AdvanceGoesOn DEF z, s
<1>7. ASSUME z.name = y.name, z.asked = y.asked, z.gone = y.gone, NEW e \in 1 .. 2,
             Len(z.todo) = Len(y.todo) - e,
             \A j \in 1 .. Len(z.todo) : z.todo[j] = y.todo[j + e],
             e = 2 => y.todo[2].op = "begin",
             z.open => y.open \/ e = 2, Len(z.todo) \in Nat
      PROVE  Onward(x, z)
  <2> DEFINE d == e + 1
  <2>0. y.todo = Tail(s) /\ x.todo = s /\ s[1].op = "skip"
    BY DEF s
  <2>1. d \in 1 .. 3 /\ Len(z.todo) = Len(s) - d
    <3>1. Len(y.todo) = Len(s) - 1
      BY <1>5, <2>0
    <3>2. QED
      BY <3>1, <1>5, <1>7
  <2>2. Len(z.todo) \in Int
    BY <1>5, <1>7, <2>0
  <2>3. \A j \in 1 .. Len(z.todo) : z.todo[j] = s[j + d]
    <3> TAKE j \in 1 .. Len(z.todo)
    <3>1. z.todo[j] = y.todo[j + e]
      BY <1>7
    <3>2. j + e \in 1 .. Len(Tail(s))
      BY <1>7, <2>0, <1>5
    <3>3. Tail(s)[j + e] = s[(j + e) + 1]
      BY <3>2, <1>5
    <3>4. (j + e) + 1 = j + d
      BY <1>7
    <3>5. QED
      BY <3>1, <3>3, <3>4, <2>0
  <2>4. e = 2 => s[3].op = "begin"
    <3> SUFFICES ASSUME e = 2 PROVE s[3].op = "begin"
      OBVIOUS
    <3>1. y.todo[2].op = "begin"
      BY <1>7
    <3>2. CASE Len(Tail(s)) >= 2
      <4>1. Tail(s)[2] = s[3]
        BY <3>2, <1>5
      <4>2. QED
        BY <3>1, <4>1, <2>0
    <3>3. CASE Len(Tail(s)) < 2
      BY <3>3, <1>5, <1>7, <2>0
    <3>4. QED
      BY <3>2, <3>3, <1>5
  <2>5. \A i \in 2 .. d : s[i].op = "begin" \/ (i = 2 /\ s[1].op = "skip")
    BY <2>0, <2>4
  <2>6. z.open => x.open \/ \E i \in 2 .. d : x.todo[i].op = "begin"
    BY <1>7, <2>0, <2>4
  <2> HIDE DEF d
  <2>7. z.name = x.name /\ z.asked = x.asked /\ z.gone = x.gone
    BY <1>7
  <2>8. QED
    BY <2>0, <2>1, <2>3, <2>5, <2>6, <2>7 DEF Onward
<1>8. z.todo = <<>> \/ (Onward(x, z) /\ z.got = y.got /\ z.put = y.put /\ z.del = y.del)
  BY <1>6, <1>7 DEF Remains
<1>9. QED
  BY <1>1, <1>3, <1>8 DEF PutRows, DelRows, Ended

LEMMA RefuseIsQuiet ==
    ASSUME InOrder, NEW r \in Requests, NEW answer, Refuse(r, answer)
    PROVE  Quiet(r)
<1> DEFINE z == Answered(r, answer, FALSE)
<1>1. z.todo = <<>>
  BY DEF Answered, Idle
<1>2. req' = [req EXCEPT ![r] = z] /\ UNCHANGED <<db, dead>>
  BY DEF Refuse
<1> HIDE DEF z
<1>3. QED
  BY <1>1, <1>2 DEF Quiet, Ended, InOrder

LEMMA PublishGoesOn ==
    ASSUME InOrder, NEW r \in Requests, Running(r), NEW put, NEW del, Publish(r, put, del),
           NEW new, NEW out,
           DOMAIN put = new \cup (PutRows(r) \ out), del = DelRows(r) \cup (out \cap DOMAIN db),
           \/ Head(req[r].todo).op = "commit" /\ new = {} /\ out = {}
           \/ Head(req[r].todo).op \in Changes /\ ~req[r].open
    PROVE  Published(r, new, out)
<1> DEFINE lost == DOMAIN db \ DOMAIN Over(put, Without(db, del))
           now == [req[r] EXCEPT !.put = Nothing, !.del = {}, !.open = FALSE,
                                 !.wrote = @ \/ put # Nothing \/ del # {}]
           x == req[r]
           z == Advance(r, now)
<1>1. /\ db' = Over(put, Without(db, del))
      /\ dead' = (dead \cup lost) \ DOMAIN Over(put, Without(db, del))
      /\ req' = [q \in Requests |->
                   IF q = r THEN z
                   ELSE IF Running(q) THEN [req[q] EXCEPT !.gone = @ \cup lost]
                   ELSE req[q]]
  BY DEF Publish
<1>2. DOMAIN Over(put, Without(db, del)) = DOMAIN put \cup (DOMAIN db \ del)
  <2>1. DOMAIN Over(put, Without(db, del)) = DOMAIN put \cup DOMAIN Without(db, del)
    BY OverDomain
  <2>2. QED
    BY <2>1, WithoutDomain
<1>3. DOMAIN db' = Sees(DOMAIN put, del, DOMAIN db)
  BY <1>1, <1>2 DEF Sees
<1>4. lost = DOMAIN db \ DOMAIN db'
  BY <1>1
<1>5. /\ DOMAIN now = Fields /\ now.open = FALSE /\ now.todo = x.todo /\ now.name = x.name
      /\ now.asked = x.asked /\ now.gone = x.gone /\ now.got = x.got
      /\ now.put = Nothing /\ now.del = {}
  BY HeadFacts DEF Fields
<1>6. Calls(x.todo) /\ x.todo # <<>> /\ Head(x.todo) = x.todo[1]
  BY HeadFacts
<1> HIDE DEF now, lost
<1>7. Remains(z, now)
  BY <1>5, <1>6, AdvanceGoesOn
<1>8. req'[r] = z
  BY <1>1
<1> HIDE DEF z
<1>9. \A q \in Requests \ {r} :
         req'[q] = IF Running(q) THEN [req[q] EXCEPT !.gone = @ \cup (DOMAIN db \ DOMAIN db')]
                   ELSE req[q]
  BY <1>1, <1>4
<1>10. dead' = (dead \cup (DOMAIN db \ DOMAIN db')) \ DOMAIN db'
  BY <1>1, <1>4
<1>11. ASSUME z.name = now.name, z.asked = now.asked, z.gone = now.gone, NEW e \in 1 .. 2,
             Len(z.todo) \in Nat, Len(z.todo) = Len(now.todo) - e,
             \A j \in 1 .. Len(z.todo) : z.todo[j] = now.todo[j + e],
             e = 2 => now.todo[2].op = "begin",
             z.open => now.open \/ e = 2
      PROVE  /\ Onward(x, z)
             /\ Head(x.todo).op = "commit" \/ x.name # Untied =>
                  \A i \in 1 .. Len(z.todo) : z.todo[i].op = "check"
  <2>0. now.todo = x.todo /\ Len(x.todo) \in Nat
    BY <1>5, <1>6, TailIs
  <2>1. e \in 1 .. 3
    OBVIOUS
  <2>2. \A i \in 2 .. e : x.todo[i].op = "begin"
    BY <1>11, <2>0
  <2>3. z.open => x.open \/ \E i \in 2 .. e : x.todo[i].op = "begin"
    BY <1>11, <1>5, <2>0
  <2>4. Onward(x, z)
    BY <1>5, <1>11, <2>0, <2>1, <2>2, <2>3 DEF Onward
  <2>5. SUFFICES ASSUME Head(x.todo).op = "commit" \/ x.name # Untied, NEW i \in 1 .. Len(z.todo)
                 PROVE  z.todo[i].op = "check"
    BY <2>4
  <2>6. x.todo[1].op = "commit" \/ (x.todo[1].op \in Changes /\ x.open = FALSE /\ x.name # Untied)
    BY <1>6, <2>5, HeadFacts DEF Changes
  <2>7. \A k \in 2 .. Len(x.todo) : x.todo[k].op = "check"
    BY <2>6, HeadFacts, AfterPublish
  <2>8. z.todo[i] = x.todo[i + e] /\ i + e \in 2 .. Len(x.todo)
    BY <1>11, <2>0, <2>5
  <2>9. QED
    BY <2>7, <2>8
<1>12. \/ z.todo = <<>>
       \/ /\ Onward(x, z) /\ z.got = x.got /\ z.put = Nothing /\ z.del = {}
          /\ Head(x.todo).op = "commit" \/ x.name # Untied =>
                \A i \in 1 .. Len(z.todo) : z.todo[i].op = "check"
  <2>1. CASE z.todo = <<>>
    BY <2>1
  <2>2. CASE z.todo # <<>>
    <3>1. /\ z.name = now.name /\ z.asked = now.asked /\ z.gone = now.gone /\ z.got = now.got
          /\ z.put = now.put /\ z.del = now.del /\ Len(z.todo) \in Nat
      BY <1>7, <2>2 DEF Remains
    <3>2. PICK e \in 1 .. 2 :
             /\ Len(z.todo) = Len(now.todo) - e
             /\ \A j \in 1 .. Len(z.todo) : z.todo[j] = now.todo[j + e]
             /\ e = 2 => now.todo[2].op = "begin"
             /\ z.open => now.open \/ e = 2
      BY <1>7, <2>2 DEF Remains
    <3>3. QED
      BY <3>1, <3>2, <1>5, <1>11
  <2>3. QED
    BY <2>1, <2>2
<1>13. z.todo = <<>> \/ (Onward(x, z) /\ z.got = x.got /\ DOMAIN z.put = {} /\ z.del = {}
          /\ (Head(x.todo).op = "commit" \/ x.name # Untied =>
                \A i \in 1 .. Len(z.todo) : z.todo[i].op = "check"))
  BY <1>12, NothingDomain
<1>14. QED
  BY <1>3, <1>8, <1>9, <1>10, <1>13 DEF Published, Ended, PutRows, DelRows

LEMMA WriteGoesOn ==
    ASSUME InOrder, NEW r \in Requests, Running(r), NEW touched, NEW new, NEW out,
           Head(req[r].todo).op \in Changes, Write(r, touched, new, out)
    PROVE  Outcome(r, DOMAIN new, out)
<1> DEFINE put == Over(new, Without(req[r].put, out))
           del == req[r].del \cup (out \cap DOMAIN db)
           mine == [req[r] EXCEPT !.put = put, !.del = del]
<1>1. \/ Refuse(r, "error")
      \/ req[r].open /\ Proceed(r, mine)
      \/ ~req[r].open /\ Publish(r, put, del)
  BY DEF Write
<1>2. /\ DOMAIN mine = Fields /\ mine.name = req[r].name /\ mine.open = req[r].open
      /\ mine.asked = req[r].asked /\ mine.gone = req[r].gone /\ mine.todo = req[r].todo
      /\ mine.got = req[r].got /\ mine.put = put /\ mine.del = del
  BY HeadFacts DEF Fields
<1>3. DOMAIN put = DOMAIN new \cup (PutRows(r) \ out)
  <2>1. DOMAIN put = DOMAIN new \cup DOMAIN Without(req[r].put, out)
    BY OverDomain
  <2>2. QED
    BY <2>1, WithoutDomain DEF PutRows
<1>4. del = DelRows(r) \cup (out \cap DOMAIN db)
  BY DEF DelRows
<1> HIDE DEF put, del, mine
<1>5. CASE Refuse(r, "error")
  BY <1>5, RefuseIsQuiet DEF Outcome
<1>6. CASE req[r].open /\ Proceed(r, mine)
  <2>1. /\ UNCHANGED <<db, dead>> /\ \A q \in Requests \ {r} : req'[q] = req[q]
        /\ \/ Ended(r)
           \/ /\ Onward(req[r], req'[r]) /\ req'[r].got = mine.got
              /\ PutRows(r)' = DOMAIN mine.put /\ DelRows(r)' = mine.del
    BY <1>2, <1>6, ProceedGoesOn
  <2>2. Held(r, DOMAIN new, out)
    BY <1>2, <1>3, <1>4, <1>6, <2>1 DEF Held
  <2>3. QED
    BY <2>2 DEF Outcome
<1>7. CASE ~req[r].open /\ Publish(r, put, del)
  <2>1. Published(r, DOMAIN new, out)
    BY <1>3, <1>4, <1>7, PublishGoesOn
  <2>2. QED
    BY <2>1 DEF Outcome
<1>8. QED
  BY <1>1, <1>5, <1>6, <1>7

LEMMA NoneIsNothing ==
    ASSUME NEW f, f = [x \in DOMAIN f |-> f[x]], DOMAIN f = {}
    PROVE  f = Nothing
<1>1. f = [x \in {} |-> f[x]]
  OBVIOUS
<1>2. [x \in {} |-> f[x]] = <<>>
  OBVIOUS
<1>3. QED
  BY <1>1, <1>2 DEF Nothing

\* How a call that changes rows ends.
Changed(r) == Quiet(r) \/ \E new, out : Makes(r, new, out) /\ (Held(r, new, out) \/ Published(r, new, out))

LEMMA WriteChanges ==
    ASSUME InOrder, NEW r \in Requests, Running(r), NEW touched, NEW new, NEW out,
           Head(req[r].todo).op \in Changes, Write(r, touched, new, out), Makes(r, DOMAIN new, out)
    PROVE  Changed(r)
<1>1. Outcome(r, DOMAIN new, out)
  BY WriteGoesOn
<1>2. QED
  BY <1>1 DEF Outcome, Changed

\* A look ends with nothing written.
LEMMA LookIsQuiet ==
    ASSUME InOrder, NEW r \in Requests, Running(r), NEW y, Proceed(r, y),
           DOMAIN y = Fields, y.name = req[r].name, y.asked = req[r].asked, y.gone = req[r].gone,
           y.open = req[r].open, y.todo = req[r].todo, y.got = req[r].got, y.put = req[r].put,
           y.del = req[r].del,
           Head(req[r].todo).op \in Looks \cup {"skip"}, ~Real(Head(req[r].todo)),
           Head(req[r].todo).op = "load" => Head(req[r].todo).row \in Seen(r)
    PROVE  Quiet(r)
<1>1. /\ UNCHANGED <<db, dead>> /\ \A q \in Requests \ {r} : req'[q] = req[q]
      /\ \/ Ended(r)
         \/ /\ Onward(req[r], req'[r]) /\ req'[r].got = y.got
            /\ PutRows(r)' = DOMAIN y.put /\ DelRows(r)' = y.del
  BY ProceedGoesOn
<1>2. Head(req[r].todo).op \notin Changes \cup {"commit"}
  BY DEF Looks, Changes
<1>3. PutRows(r) = DOMAIN y.put /\ DelRows(r) = y.del
  BY DEF PutRows, DelRows
<1>4. QED
  BY <1>1, <1>2, <1>3 DEF Quiet

LEMMA StepGoesOn ==
    ASSUME InOrder, NEW r \in Requests, Steps(r)
    PROVE  Running(r) /\ Changed(r)
<1> DEFINE c == Head(req[r].todo)
<1>0. /\ Refuse(r, "error") => Changed(r)
      /\ \A answer : Refuse(r, answer) => Changed(r)
      /\ Quiet(r) => Changed(r)
  BY RefuseIsQuiet DEF Changed
<1>00. Running(r) => DOMAIN req[r] = Fields
  BY HeadFacts
<1>1. CASE Query(r)
  <2>1. Running(r) /\ c.op = "check"
    BY <1>1 DEF Query, Call
  <2>2. Proceed(r, req[r]) \/ Refuse(r, c.else)
    BY <1>1 DEF Query
  <2>3. c.op \in Looks \cup {"skip"} /\ ~Real(c) /\ c.op # "load"
    BY <2>1 DEF Looks, Real
  <2>4. QED
    BY <2>1, <2>2, <2>3, <1>0, <1>00, LookIsQuiet
<1>2. CASE Loading(r)
  <2> DEFINE now == [req[r] EXCEPT !.copy = After(r)[c.row]]
  <2>1. Running(r) /\ c.op = "load"
    BY <1>2 DEF Loading, Call
  <2>2. (c.row \in Seen(r) /\ Proceed(r, now)) \/ Refuse(r, "error")
    BY <1>2 DEF Loading
  <2>3. /\ DOMAIN now = Fields /\ now.name = req[r].name /\ now.open = req[r].open
        /\ now.asked = req[r].asked /\ now.gone = req[r].gone /\ now.todo = req[r].todo
        /\ now.got = req[r].got /\ now.put = req[r].put /\ now.del = req[r].del
    BY <2>1, <1>00 DEF Fields
  <2>4. c.op \in Looks \cup {"skip"} /\ ~Real(c)
    BY <2>1 DEF Looks, Real
  <2> HIDE DEF now
  <2>5. QED
    BY <2>1, <2>2, <2>3, <2>4, <1>0, LookIsQuiet
<1>3. CASE Finding(r)
  <2> DEFINE linked == {x \in c.rows \cap Seen(r) : \A y \in c.of : {x, y} \in Seen(r)}
             found == [x \in linked |-> After(r)[x]]
             got == IF c.need = "count" THEN req[r].got ELSE found
             now == [req[r] EXCEPT !.got = got]
  <2>1. Running(r) /\ c.op = "find"
    BY <1>3 DEF Finding, Call
  <2>2. \/ Refuse(r, "error")
        \/ /\ Proceed(r, now)
           /\ c.need = "all" => DOMAIN found = c.rows
           /\ c.need = "some" => found # Nothing
    BY <1>3 DEF Finding
  <2>3. /\ DOMAIN now = Fields /\ now.name = req[r].name /\ now.open = req[r].open
        /\ now.asked = req[r].asked /\ now.gone = req[r].gone /\ now.todo = req[r].todo
        /\ now.got = got /\ now.put = req[r].put /\ now.del = req[r].del
    BY <2>1, <1>00 DEF Fields
  <2>4. DOMAIN found \subseteq c.rows \cap Seen(r) /\ found = [x \in DOMAIN found |-> found[x]]
    OBVIOUS
  <2>5. c.op \notin Changes \cup {"commit"} /\ c.op # "load" /\ c.op \in Looks \cup {"skip"}
    BY <2>1 DEF Changes, Looks
  <2> HIDE DEF now, found
  <2>6. ASSUME Proceed(r, now), c.need = "all" => DOMAIN found = c.rows,
               c.need = "some" => found # Nothing
        PROVE  Quiet(r)
    <3>1. CASE c.need = "count"
      <4>1. ~Real(c) /\ now.got = req[r].got
        BY <3>1, <2>3 DEF Real
      <4>2. QED
        BY <4>1, <2>1, <2>3, <2>5, <2>6, LookIsQuiet
    <3>2. CASE c.need # "count"
      <4>1. Real(c) /\ now.got = found
        BY <2>1, <2>3, <3>2 DEF Real
      <4>2. DOMAIN found = {} => found = Nothing
        BY <2>4, NoneIsNothing
      <4>3. Found(r, c, found)
        BY <2>4, <2>6, <4>2 DEF Found
      <4>4. /\ UNCHANGED <<db, dead>> /\ \A q \in Requests \ {r} : req'[q] = req[q]
            /\ \/ Ended(r)
               \/ /\ Onward(req[r], req'[r]) /\ req'[r].got = now.got
                  /\ PutRows(r)' = DOMAIN now.put /\ DelRows(r)' = now.del
        BY <2>1, <2>3, <2>6, ProceedGoesOn
      <4>5. PutRows(r) = DOMAIN now.put /\ DelRows(r) = now.del
        BY <2>3 DEF PutRows, DelRows
      <4>6. QED
        BY <4>1, <4>3, <4>4, <4>5, <2>5 DEF Quiet
    <3>3. QED
      BY <3>1, <3>2
  <2>7. QED
    BY <2>1, <2>2, <2>6, <1>0
<1>4. CASE Skipping(r)
  <2>1. Running(r) /\ c.op = "skip"
    BY <1>4 DEF Skipping, Call
  <2>2. \/ Proceed(r, [req[r] EXCEPT !.todo = req[r].todo])
        \/ Proceed(r, [req[r] EXCEPT !.todo = Tail(req[r].todo)])
    BY <1>4 DEF Skipping
  <2>3. CASE Proceed(r, [req[r] EXCEPT !.todo = req[r].todo])
    <3> DEFINE now == [req[r] EXCEPT !.todo = req[r].todo]
    <3>1. /\ DOMAIN now = Fields /\ now.name = req[r].name /\ now.open = req[r].open
          /\ now.asked = req[r].asked /\ now.gone = req[r].gone /\ now.todo = req[r].todo
          /\ now.got = req[r].got /\ now.put = req[r].put /\ now.del = req[r].del
      BY <2>1, <1>00 DEF Fields
    <3>2. Proceed(r, now)
      BY <2>3
    <3>3. c.op \in Looks \cup {"skip"} /\ ~Real(c) /\ c.op # "load"
      BY <2>1 DEF Looks, Real
    <3> HIDE DEF now
    <3>4. QED
      BY <3>1, <3>2, <3>3, <2>1, <1>0, LookIsQuiet
  <2>4. CASE Proceed(r, [req[r] EXCEPT !.todo = Tail(req[r].todo)])
    <3> DEFINE now == [req[r] EXCEPT !.todo = Tail(req[r].todo)]
    <3>1. /\ DOMAIN now = Fields /\ now.name = req[r].name /\ now.open = req[r].open
          /\ now.asked = req[r].asked /\ now.gone = req[r].gone /\ now.todo = Tail(req[r].todo)
          /\ now.got = req[r].got /\ now.put = req[r].put /\ now.del = req[r].del
      BY <2>1, <1>00 DEF Fields
    <3>2. Proceed(r, now)
      BY <2>4
    <3>3. ~Real(c) /\ c.op # "load" /\ c.op \notin Changes \cup {"commit"}
      BY <2>1 DEF Changes, Real
    <3>4. PutRows(r) = DOMAIN now.put /\ DelRows(r) = now.del
      BY <3>1 DEF PutRows, DelRows
    <3>5. req[r].todo[1].op = "skip"
      BY <2>1, HeadFacts
    <3> HIDE DEF now
    <3>6. /\ UNCHANGED <<db, dead>> /\ \A q \in Requests \ {r} : req'[q] = req[q]
          /\ \/ Ended(r)
             \/ /\ Onward(req[r], req'[r]) /\ req'[r].got = now.got
                /\ PutRows(r)' = DOMAIN now.put /\ DelRows(r)' = now.del
      BY <3>1, <3>2, <3>5, <2>1, SkipGoesOn
    <3>7. Quiet(r)
      BY <3>1, <3>3, <3>4, <3>6 DEF Quiet
    <3>8. QED
      BY <3>7, <2>1, <1>0
  <2>5. QED
    BY <2>2, <2>3, <2>4
<1>5. CASE Committing(r)
  <2>1. Running(r) /\ c.op = "commit"
    BY <1>5 DEF Committing, Call
  <2>2. Publish(r, req[r].put, req[r].del)
    BY <1>5 DEF Committing
  <2>3. DOMAIN req[r].put = {} \cup (PutRows(r) \ {}) /\ req[r].del = DelRows(r) \cup ({} \cap DOMAIN db)
    BY DEF PutRows, DelRows
  <2>4. Published(r, {}, {})
    BY <2>1, <2>2, <2>3, PublishGoesOn
  <2>5. Makes(r, {}, {})
    BY <2>1 DEF Makes
  <2>6. QED
    BY <2>1, <2>4, <2>5 DEF Changed
<1>6. CASE Creating(r)
  <2> DEFINE new == [x \in c.rows |-> c.val]
  <2>1. Running(r) /\ c.op = "create" /\ c.op \in Changes
    BY <1>6 DEF Creating, Call, Changes
  <2>2. Refuse(r, "error") \/ (Write(r, DOMAIN new, new, {}) /\ c.rows \cap Seen(r) = {})
    BY <1>6 DEF Creating, Put
  <2>3. c.rows \cap Seen(r) = {} => Makes(r, DOMAIN new, {})
    BY <2>1 DEF Makes
  <2> HIDE DEF new
  <2>4. QED
    BY <2>1, <2>2, <2>3, <1>0, WriteChanges
<1>7. CASE Ensuring(r)
  <2> DEFINE rows == [x \in c.rows |-> Nothing]
             new == Without(rows, Seen(r))
  <2>1. Running(r) /\ c.op = "ensure" /\ c.op \in Changes
    BY <1>7 DEF Ensuring, Call, Changes
  <2>2. Write(r, DOMAIN rows, new, {})
    BY <1>7 DEF Ensuring, InsertMissing
  <2>3. DOMAIN new = c.rows \ Seen(r)
    BY WithoutDomain
  <2> HIDE DEF new
  <2>4. Makes(r, DOMAIN new, {})
    BY <2>1, <2>3 DEF Makes
  <2>5. QED
    BY <2>1, <2>2, <2>4, WriteChanges
<1>8. CASE Associating(r)
  <2> DEFINE got == req[r].got
             links == LinksOf(c.row, DOMAIN got)
             tied == [x \in links |-> Nothing]
             rows == Over(got, tied)
             new == Without(rows, Seen(r))
  <2>1. Running(r) /\ c.op = "append" /\ c.op \in Changes
    BY <1>8 DEF Associating, Call, Changes
  <2>2. Write(r, DOMAIN rows, new, {})
    BY <1>8 DEF Associating, InsertMissing
  <2>3. DOMAIN rows = DOMAIN got \cup links
    <3>1. DOMAIN rows = DOMAIN got \cup DOMAIN tied
      BY OverDomain
    <3>2. QED
      BY <3>1
  <2> HIDE DEF rows
  <2>4. DOMAIN new = (DOMAIN got \cup links) \ Seen(r)
    BY <2>3, WithoutDomain
  <2> HIDE DEF new
  <2>5. Makes(r, DOMAIN new, {})
    BY <2>1, <2>4 DEF Makes
  <2>6. QED
    BY <2>1, <2>2, <2>5, WriteChanges
<1>9. CASE Trimming(r)
  <2> DEFINE out == LinksOf(c.row, c.rows \ DOMAIN req[r].got) \cap Seen(r)
  <2>1. Running(r) /\ c.op = "trim" /\ c.op \in Changes
    BY <1>9 DEF Trimming, Call, Changes
  <2>2. Write(r, out, Nothing, out)
    BY <1>9 DEF Trimming, RemoveRows
  <2>3. Makes(r, DOMAIN Nothing, out)
    BY <2>1, NothingDomain DEF Makes
  <2> HIDE DEF out
  <2>4. QED
    BY <2>1, <2>2, <2>3, WriteChanges
<1>10. CASE Deleting(r)
  <2> DEFINE out == c.rows \cap Seen(r)
  <2>1. Running(r) /\ c.op = "delete" /\ c.op \in Changes
    BY <1>10 DEF Deleting, Call, Changes
  <2>2. Write(r, out, Nothing, out)
    BY <1>10 DEF Deleting, RemoveRows
  <2>3. Makes(r, DOMAIN Nothing, out)
    <3>1. DOMAIN Nothing = {} /\ c.op = "delete" /\ out = c.rows \cap Seen(r)
      BY <2>1, NothingDomain
    <3> HIDE DEF out
    <3>2. QED
      BY <3>1 DEF Makes
  <2> HIDE DEF out
  <2>4. QED
    BY <2>1, <2>2, <2>3, WriteChanges
<1>11. CASE DetachingFound(r)
  <2> DEFINE out == (UNION {LinksOf(x, c.rows) : x \in DOMAIN req[r].got}) \cap Seen(r)
  <2>1. Running(r) /\ c.op = "detach" /\ c.op \in Changes
    BY <1>11 DEF DetachingFound, Call, Changes
  <2>2. Write(r, out, Nothing, out)
    BY <1>11 DEF DetachingFound, RemoveRows
  <2>3. Makes(r, DOMAIN Nothing, out)
    BY <2>1, NothingDomain DEF Makes
  <2> HIDE DEF out
  <2>4. QED
    BY <2>1, <2>2, <2>3, WriteChanges
<1>12. CASE DeletingFound(r)
  <2> DEFINE out == DOMAIN req[r].got \cap Seen(r)
  <2>1. Running(r) /\ c.op = "deletefound" /\ c.op \in Changes
    BY <1>12 DEF DeletingFound, Call, Changes
  <2>2. Write(r, out, Nothing, out)
    BY <1>12 DEF DeletingFound, RemoveRows
  <2>3. Makes(r, DOMAIN Nothing, out)
    BY <2>1, NothingDomain DEF Makes
  <2> HIDE DEF out
  <2>4. QED
    BY <2>1, <2>2, <2>3, WriteChanges
<1>13. CASE Updating(r)
  <2> DEFINE new == [x \in {c.row} \cap Seen(r) |-> Over(c.set, After(r)[x])]
  <2>1. Running(r) /\ c.op = "updates" /\ c.op \in Changes
    BY <1>13 DEF Updating, Call, Changes
  <2>2. Write(r, DOMAIN new, new, {})
    BY <1>13 DEF Updating, Put
  <2>3. Makes(r, DOMAIN new, {})
    BY <2>1 DEF Makes
  <2> HIDE DEF new
  <2>4. QED
    BY <2>1, <2>2, <2>3, WriteChanges
<1>14. CASE Saving(r)
  <2>1. Running(r) /\ c.op = "save" /\ c.op \in Changes
    BY <1>14 DEF Saving, Call, Changes
  <2>2. \E new : /\ Write(r, DOMAIN new, new, {}) /\ DOMAIN new \subseteq {c.row}
                 /\ req[r].got = Nothing => DOMAIN new = {c.row}
    <3> DEFINE one == [x \in {c.row} |-> req[r].copy]
               some == [x \in {c.row} \cap Seen(r) |-> req[r].copy]
    <3>1. Write(r, DOMAIN one, one, {}) \/ (req[r].got # Nothing /\ Write(r, DOMAIN some, some, {}))
      BY <1>14 DEF Saving, Put
    <3>2. DOMAIN one = {c.row} /\ DOMAIN some \subseteq {c.row}
      OBVIOUS
    <3> HIDE DEF one, some
    <3>3. QED
      BY <3>1, <3>2
  <2>3. PICK new : /\ Write(r, DOMAIN new, new, {}) /\ DOMAIN new \subseteq {c.row}
                   /\ req[r].got = Nothing => DOMAIN new = {c.row}
    BY <2>2
  <2>4. Makes(r, DOMAIN new, {})
    BY <2>1, <2>3 DEF Makes
  <2>5. QED
    BY <2>1, <2>3, <2>4, WriteChanges
<1>15. CASE Negating(r)
  <2>1. Running(r) /\ c.op = "negate"
    BY <1>15 DEF Negating, Call
  <2>2. PICK copy : Proceed(r, [req[r] EXCEPT !.copy = copy])
    BY <1>15 DEF Negating
  <2> DEFINE now == [req[r] EXCEPT !.copy = copy]
  <2>3. /\ DOMAIN now = Fields /\ now.name = req[r].name /\ now.open = req[r].open
        /\ now.asked = req[r].asked /\ now.gone = req[r].gone /\ now.todo = req[r].todo
        /\ now.got = req[r].got /\ now.put = req[r].put /\ now.del = req[r].del
    BY <2>1, <1>00 DEF Fields
  <2>4. Proceed(r, now)
    BY <2>2
  <2>5. c.op \in Looks \cup {"skip"} /\ ~Real(c) /\ c.op # "load"
    BY <2>1 DEF Looks, Real
  <2> HIDE DEF now
  <2>6. QED
    BY <2>1, <2>3, <2>4, <2>5, <1>0, LookIsQuiet
<1>16. CASE Leaving(r)
  <2> DEFINE now == Answered(r, "ok", req[r].open)
  <2>1. Running(r) /\ c.op = "leave"
    BY <1>16 DEF Leaving, Call
  <2>2. \/ Proceed(r, req[r])
        \/ req' = [req EXCEPT ![r] = now] /\ UNCHANGED <<db, dead>>
    BY <1>16 DEF Leaving
  <2>3. now.todo = <<>>
    BY DEF Answered, Idle
  <2>4. c.op \in Looks \cup {"skip"} /\ ~Real(c) /\ c.op # "load"
    BY <2>1 DEF Looks, Real
  <2> HIDE DEF now
  <2>5. CASE Proceed(r, req[r])
    BY <2>1, <2>4, <2>5, <1>0, <1>00, LookIsQuiet
  <2>6. CASE req' = [req EXCEPT ![r] = now] /\ UNCHANGED <<db, dead>>
    <3>1. Quiet(r)
      BY <2>3, <2>6 DEF Quiet, Ended, InOrder
    <3>2. QED
      BY <3>1, <2>1, <1>0
  <2>7. QED
    BY <2>2, <2>5, <2>6
<1>17. CASE Allowing(r)
  <2>1. Running(r) /\ c.op \in {"manages", "owns"}
    BY <1>17 DEF Allowing, Call
  <2>2. Proceed(r, req[r]) \/ Refuse(r, "error")
    BY <1>17 DEF Allowing
  <2>3. c.op \in Looks \cup {"skip"} /\ ~Real(c) /\ c.op # "load"
    BY <2>1 DEF Looks, Real
  <2>4. QED
    BY <2>1, <2>2, <2>3, <1>0, <1>00, LookIsQuiet
<1>18. QED
  BY <1>1, <1>2, <1>3, <1>4, <1>5, <1>6, <1>7, <1>8, <1>9, <1>10, <1>11, <1>12, <1>13, <1>14,
     <1>15, <1>16, <1>17 DEF Steps

LEMMA FailGoesOn ==
    ASSUME InOrder, NEW r \in Requests, Fail(r)
    PROVE  Running(r) /\ Changed(r)
  BY RefuseIsQuiet DEF Fail, Changed

----------------------------------------------------------------------------
(* Which look an append adds the rows of. *)

\* Call j of s adds what call k finds.
Feeds(s, k, j) == k < j /\ Real(s[k]) /\ \A i \in k + 1 .. j - 1 : ~Real(s[i])

\* Call j adds what was found before s.
Unfed(s, j) == \A i \in 1 .. j - 1 : ~Real(s[i])

\* t is s without its first d calls.
Drops(s, t, d) ==
    /\ d \in 1 .. 3 /\ Len(s) \in Nat /\ Len(t) \in Nat /\ Len(t) = Len(s) - d
    /\ \A j \in 1 .. Len(t) : t[j] = s[j + d]

LEMMA FeedsBefore ==
    ASSUME NEW s, NEW t, NEW d, Drops(s, t, d), NEW k \in 1 .. Len(t), NEW j \in 1 .. Len(t),
           Feeds(t, k, j)
    PROVE  k + d \in 1 .. Len(s) /\ j + d \in 1 .. Len(s) /\ Feeds(s, k + d, j + d)
<1>1. d \in 1 .. 3 /\ Len(s) \in Nat /\ Len(t) \in Nat /\ Len(t) = Len(s) - d
  BY DEF Drops
<1>2. k + d \in 1 .. Len(s) /\ j + d \in 1 .. Len(s) /\ k + d < j + d
  BY <1>1 DEF Feeds
<1>3. t[k] = s[k + d]
  BY DEF Drops
<1>4. \A i \in (k + d) + 1 .. (j + d) - 1 : ~Real(s[i])
  <2> TAKE i \in (k + d) + 1 .. (j + d) - 1
  <2>1. i - d \in k + 1 .. j - 1 /\ i - d \in 1 .. Len(t)
    BY <1>1
  <2>2. ~Real(t[i - d])
    BY <2>1 DEF Feeds
  <2>3. t[i - d] = s[(i - d) + d]
    BY <2>1 DEF Drops
  <2>4. (i - d) + d = i
    BY <1>1
  <2>5. QED
    BY <2>2, <2>3, <2>4
<1>5. Real(s[k + d])
  BY <1>3 DEF Feeds
<1>6. QED
  BY <1>2, <1>4, <1>5, Zenon DEF Feeds

LEMMA UnfedBefore ==
    ASSUME NEW s, NEW t, NEW d, Drops(s, t, d), \A i \in 2 .. d : ~Real(s[i]),
           NEW j \in 1 .. Len(t), Unfed(t, j)
    PROVE  /\ j + d \in 1 .. Len(s) /\ t[j] = s[j + d]
           /\ Real(s[1]) => Feeds(s, 1, j + d)
           /\ ~Real(s[1]) => Unfed(s, j + d)
<1>1. d \in 1 .. 3 /\ Len(s) \in Nat /\ Len(t) \in Nat /\ Len(t) = Len(s) - d
  BY DEF Drops
<1>2. j + d \in 1 .. Len(s) /\ 1 < j + d /\ t[j] = s[j + d]
  BY <1>1 DEF Drops
<1>3. \A i \in 2 .. (j + d) - 1 : ~Real(s[i])
  <2> TAKE i \in 2 .. (j + d) - 1
  <2>1. CASE i <= d
    BY <2>1, <1>1
  <2>2. CASE i > d
    <3>1. i - d \in 1 .. j - 1 /\ i - d \in 1 .. Len(t) /\ (i - d) + d = i
      BY <2>2, <1>1
    <3>2. ~Real(t[i - d])
      BY <3>1 DEF Unfed
    <3>3. t[i - d] = s[(i - d) + d]
      BY <3>1 DEF Drops
    <3>4. QED
      BY <3>1, <3>2, <3>3
  <2>3. QED
    BY <2>1, <2>2, <1>1
<1>4. Real(s[1]) => Feeds(s, 1, j + d)
  <2>1. \A i \in 1 + 1 .. (j + d) - 1 : ~Real(s[i])
    BY <1>3
  <2>2. QED
    BY <1>2, <2>1, Zenon DEF Feeds
<1>5. ASSUME ~Real(s[1]) PROVE Unfed(s, j + d)
  <2>1. \A i \in 1 .. (j + d) - 1 : i = 1 \/ i \in 2 .. (j + d) - 1
    BY <1>1
  <2>2. QED
    BY <2>1, <1>3, <1>5, Zenon DEF Unfed
<1>6. QED
  BY <1>2, <1>4, <1>5

----------------------------------------------------------------------------
(* Nothing comes back but what was asked for, or was read before it was deleted. *)

\* What the calls s may add.
Given(s, name, asked) ==
    \A i \in 1 .. Len(s) :
       /\ s[i].op \in {"create", "ensure"} => s[i].rows \subseteq asked
       /\ s[i].op = "skip" => i + 1 \in 1 .. Len(s) /\ s[i + 1].op = "append"
       /\ s[i].op = "append" =>
             \A k \in 1 .. Len(s) : Feeds(s, k, i) => LinksOf(s[i].row, s[k].rows) \subseteq asked
       /\ name = Untied =>
             /\ s[i].op \notin {"skip", "delete", "detach", "deletefound", "save"}
             /\ s[i].op = "trim" => LinksOf(s[i].row, s[i].rows) \subseteq Links
             /\ Real(s[i]) => s[i].rows \subseteq Entities

Ok(x, D) == x.asked \cup x.gone \cup D

\* What x has found is there, or was.
Appends(x, D) ==
    \A i \in 1 .. Len(x.todo) :
       x.todo[i].op = "append" /\ Unfed(x.todo, i) =>
          /\ DOMAIN x.got \subseteq Ok(x, D)
          /\ LinksOf(x.todo[i].row, DOMAIN x.got) \subseteq Ok(x, D)
          /\ x.name = Untied =>
                /\ DOMAIN x.got \subseteq Entities
                /\ LinksOf(x.todo[i].row, DOMAIN x.got) \subseteq x.asked

\* And so is what it saves, or else it will be read first.
Saves(x, D) ==
    \A i \in 1 .. Len(x.todo) :
       x.todo[i].op = "save" =>
          \/ x.todo[i].row \in Ok(x, D)
          \/ \E k \in 1 .. i - 1 : x.todo[k].op = "load" /\ x.todo[k].row = x.todo[i].row

Rightful(x, D) ==
    /\ Given(x.todo, x.name, x.asked) /\ DOMAIN x.put \subseteq Ok(x, D)
    /\ Appends(x, D) /\ Saves(x, D)

AllRightful == \A r \in Requests : Running(r) => Rightful(req[r], DOMAIN db)

LEMMA LinksOfPart ==
    ASSUME NEW x, NEW X, NEW Y, X \subseteq Y
    PROVE  LinksOf(x, X) \subseteq LinksOf(x, Y)
  BY DEF LinksOf

LEMMA GivenOnward ==
    ASSUME NEW s, NEW t, NEW d, Drops(s, t, d), NEW name, NEW asked, Given(s, name, asked)
    PROVE  Given(t, name, asked)
<1>1. d \in 1 .. 3 /\ Len(s) \in Nat /\ Len(t) \in Nat /\ Len(t) = Len(s) - d
  BY DEF Drops
<1>2. SUFFICES ASSUME NEW i \in 1 .. Len(t)
               PROVE  /\ t[i].op \in {"create", "ensure"} => t[i].rows \subseteq asked
                      /\ t[i].op = "skip" => i + 1 \in 1 .. Len(t) /\ t[i + 1].op = "append"
                      /\ t[i].op = "append" =>
                           \A k \in 1 .. Len(t) :
                              Feeds(t, k, i) => LinksOf(t[i].row, t[k].rows) \subseteq asked
                      /\ name = Untied =>
                         /\ t[i].op \notin {"skip", "delete", "detach", "deletefound", "save"}
                         /\ t[i].op = "trim" => LinksOf(t[i].row, t[i].rows) \subseteq Links
                         /\ Real(t[i]) => t[i].rows \subseteq Entities
  BY DEF Given
<1> DEFINE j == i + d
<1>3. j \in 1 .. Len(s) /\ t[i] = s[j]
  BY <1>1 DEF Drops
<1>4. t[i].op = "skip" => i + 1 \in 1 .. Len(t) /\ t[i + 1].op = "append"
  <2> SUFFICES ASSUME t[i].op = "skip" PROVE i + 1 \in 1 .. Len(t) /\ t[i + 1].op = "append"
    OBVIOUS
  <2>1. j + 1 \in 1 .. Len(s) /\ s[j + 1].op = "append"
    BY <1>3 DEF Given
  <2>2. i + 1 \in 1 .. Len(t) /\ (i + 1) + d = j + 1
    BY <2>1, <1>1
  <2>3. t[i + 1] = s[(i + 1) + d]
    BY <2>2 DEF Drops
  <2>4. QED
    BY <2>1, <2>2, <2>3
<1>5. ASSUME t[i].op = "append", NEW k \in 1 .. Len(t), Feeds(t, k, i)
      PROVE  LinksOf(t[i].row, t[k].rows) \subseteq asked
  <2>1. k + d \in 1 .. Len(s) /\ Feeds(s, k + d, j)
    BY <1>5, FeedsBefore
  <2>2. t[k] = s[k + d]
    BY DEF Drops
  <2>3. LinksOf(s[j].row, s[k + d].rows) \subseteq asked
    BY <1>3, <1>5, <2>1 DEF Given
  <2>4. QED
    BY <1>3, <2>2, <2>3
<1> HIDE DEF j
<1>6. /\ t[i].op \in {"create", "ensure"} => t[i].rows \subseteq asked
      /\ name = Untied =>
           /\ t[i].op \notin {"skip", "delete", "detach", "deletefound", "save"}
           /\ t[i].op = "trim" => LinksOf(t[i].row, t[i].rows) \subseteq Links
           /\ Real(t[i]) => t[i].rows \subseteq Entities
  BY <1>3 DEF Given
<1>7. QED
  BY <1>4, <1>5, <1>6

\* What the next call adds.
LEMMA NewIsRight ==
    ASSUME InOrder, NEW r \in Requests, Running(r), Rightful(req[r], DOMAIN db),
           NEW new, NEW out, Makes(r, new, out)
    PROVE  new \subseteq Ok(req[r], DOMAIN db) /\ Seen(r) \subseteq Ok(req[r], DOMAIN db)
<1> DEFINE x == req[r]
           s == x.todo
           D == DOMAIN db
           c == Head(s)
           got == DOMAIN x.got
<1>1. c = s[1] /\ 1 \in 1 .. Len(s)
  BY HeadFacts, TailIs
<1>2. Seen(r) \subseteq Ok(x, D)
  <2>1. Seen(r) = Sees(PutRows(r), DelRows(r), D)
    BY SeenIs
  <2>2. PutRows(r) \subseteq Ok(x, D) /\ D \subseteq Ok(x, D)
    BY DEF Rightful, Ok, PutRows
  <2>3. QED
    BY <2>1, <2>2 DEF Sees
<1>3. \/ new = {} \/ (c.op \in {"create", "ensure"} /\ new \subseteq c.rows)
      \/ c.op = "append" /\ new \subseteq got \cup LinksOf(c.row, got)
      \/ new \subseteq Seen(r)
      \/ c.op = "save" /\ new \subseteq {c.row}
  <2>1. /\ c.rows \ Seen(r) \subseteq c.rows /\ {c.row} \cap Seen(r) \subseteq Seen(r)
        /\ (got \cup LinksOf(c.row, got)) \ Seen(r) \subseteq got \cup LinksOf(c.row, got)
    OBVIOUS
  <2>2. QED
    BY <2>1 DEF Makes
<1>4. CASE c.op \in {"create", "ensure"} /\ new \subseteq c.rows
  <2>1. s[1].rows \subseteq x.asked
    BY <1>1, <1>4 DEF Rightful, Given
  <2>2. QED
    BY <1>1, <1>2, <1>4, <2>1 DEF Ok
<1>5. CASE c.op = "append" /\ new \subseteq got \cup LinksOf(c.row, got)
  <2>1. Unfed(s, 1)
    BY DEF Unfed
  <2>2. got \subseteq Ok(x, D) /\ LinksOf(s[1].row, got) \subseteq Ok(x, D)
    BY <1>1, <1>5, <2>1 DEF Rightful, Appends
  <2>3. QED
    BY <1>1, <1>2, <1>5, <2>2
<1>6. CASE c.op = "save" /\ new \subseteq {c.row}
  <2>1. s[1].row \in Ok(x, D)
    BY <1>1, <1>6 DEF Rightful, Saves
  <2>2. QED
    BY <1>1, <1>2, <1>6, <2>1
<1>7. QED
  BY <1>2, <1>3, <1>4, <1>5, <1>6

\* Of what is dropped, only the first call may look for rows or load one.
LEMMA OnwardDrops ==
    ASSUME NEW x, NEW y, Calls(x.todo), x.todo # <<>>, Calls(y.todo), y.todo # <<>>, Onward(x, y),
           Given(x.todo, x.name, x.asked)
    PROVE  \E d : /\ Drops(x.todo, y.todo, d)
                  /\ \A i \in 2 .. d : ~Real(x.todo[i]) /\ x.todo[i].op # "load"
<1>1. Len(x.todo) \in Nat /\ Len(x.todo) > 0 /\ Len(y.todo) \in Nat
  BY TailIs
<1>2. PICK d \in 1 .. 3 :
          /\ Len(y.todo) = Len(x.todo) - d
          /\ \A j \in 1 .. Len(y.todo) : y.todo[j] = x.todo[j + d]
          /\ \A i \in 2 .. d : x.todo[i].op = "begin" \/ (i = 2 /\ x.todo[1].op = "skip")
  BY DEF Onward
<1>3. Drops(x.todo, y.todo, d)
  BY <1>1, <1>2 DEF Drops
<1>4. x.todo[1].op = "skip" => x.todo[2].op = "append"
  <2>1. 1 \in 1 .. Len(x.todo)
    BY <1>1
  <2>2. x.todo[1].op = "skip" => x.todo[1 + 1].op = "append"
    BY <2>1 DEF Given
  <2>3. QED
    BY <2>2
<1>5. \A i \in 2 .. d : x.todo[i].op \in {"begin", "append"}
  BY <1>2, <1>4
<1>6. \A i \in 2 .. d : ~Real(x.todo[i]) /\ x.todo[i].op # "load"
  BY <1>5 DEF Real
<1>7. QED
  BY <1>3, <1>6

\* What r may add when it goes on.  An update of a competition deletes links in between, but
\* none that it adds again.
LEMMA RightfulOn ==
    ASSUME NEW x, NEW y, NEW D, NEW E, NEW d, Drops(x.todo, y.todo, d),
           \A i \in 2 .. d : ~Real(x.todo[i]) /\ x.todo[i].op # "load",
           y.name = x.name, y.asked = x.asked, y.gone = x.gone,
           Given(x.todo, x.name, x.asked), Appends(x, D), Saves(x, D),
           DOMAIN y.put \subseteq Ok(y, E),
           \/ Ok(x, D) \subseteq Ok(y, E)
           \/ x.name = Untied /\ Ok(x, D) \ Links \subseteq Ok(y, E) /\ ~Real(x.todo[1]),
           x.todo[1].op = "load" => x.todo[1].row \in Ok(y, E),
           IF Real(x.todo[1]) THEN DOMAIN y.got \subseteq x.todo[1].rows \cap Ok(y, E)
                              ELSE y.got = x.got
    PROVE  Rightful(y, E)
<1> DEFINE s == x.todo
           t == y.todo
<1>1. d \in 1 .. 3 /\ Len(s) \in Nat /\ Len(t) \in Nat /\ Len(t) = Len(s) - d
  BY DEF Drops
<1>2. Given(t, y.name, y.asked)
  BY GivenOnward
<1>3. ASSUME NEW i \in 1 .. Len(t), t[i].op = "append", Unfed(t, i)
      PROVE  /\ DOMAIN y.got \subseteq Ok(y, E)
             /\ LinksOf(t[i].row, DOMAIN y.got) \subseteq Ok(y, E)
             /\ y.name = Untied =>
                  /\ DOMAIN y.got \subseteq Entities
                  /\ LinksOf(t[i].row, DOMAIN y.got) \subseteq y.asked
  <2> DEFINE j == i + d
  <2>0. (\A k \in 2 .. d : ~Real(s[k])) /\ 1 \in 1 .. Len(s)
    BY <1>1
  <2>1. /\ j \in 1 .. Len(s) /\ t[i] = s[j] /\ 1 \in 1 .. Len(s)
        /\ Real(s[1]) => Feeds(s, 1, j)
        /\ ~Real(s[1]) => Unfed(s, j)
    <3> HIDE DEF s, t
    <3>1. Drops(s, t, d)
      BY DEF s, t
    <3>2. QED
      BY <1>3, <2>0, <3>1, UnfedBefore
  <2> HIDE DEF j
  <2>2. CASE Real(s[1])
    <3>1. LinksOf(t[i].row, s[1].rows) \subseteq x.asked
      BY <1>3, <2>1, <2>2 DEF Given
    <3>2. DOMAIN y.got \subseteq s[1].rows /\ DOMAIN y.got \subseteq Ok(y, E)
      BY <2>2
    <3>3. LinksOf(t[i].row, DOMAIN y.got) \subseteq x.asked
      BY <3>1, <3>2, LinksOfPart
    <3>4. x.name = Untied => s[1].rows \subseteq Entities
      BY <2>1, <2>2 DEF Given
    <3>5. QED
      BY <3>2, <3>3, <3>4 DEF Ok
  <2>3. CASE ~Real(s[1])
    <3>1. y.got = x.got /\ Unfed(s, j) /\ s[j].op = "append"
      BY <1>3, <2>1, <2>3
    <3>2. /\ DOMAIN x.got \subseteq Ok(x, D)
          /\ LinksOf(t[i].row, DOMAIN x.got) \subseteq Ok(x, D)
          /\ x.name = Untied =>
                /\ DOMAIN x.got \subseteq Entities
                /\ LinksOf(t[i].row, DOMAIN x.got) \subseteq x.asked
      BY <2>1, <3>1 DEF Appends
    <3>3. CASE Ok(x, D) \subseteq Ok(y, E)
      BY <3>1, <3>2, <3>3
    <3>4. CASE x.name = Untied /\ Ok(x, D) \ Links \subseteq Ok(y, E)
      <4>1. DOMAIN x.got \subseteq Ok(y, E)
        BY <3>2, <3>4, DistinctAssumption
      <4>2. x.asked \subseteq Ok(y, E)
        BY DEF Ok
      <4>3. QED
        BY <3>1, <3>2, <3>4, <4>1, <4>2
    <3>5. QED
      BY <3>3, <3>4
  <2>4. QED
    BY <2>2, <2>3
<1>4. Appends(y, E)
  BY <1>3 DEF Appends
<1>5. ASSUME NEW i \in 1 .. Len(t), t[i].op = "save"
      PROVE  \/ t[i].row \in Ok(y, E)
             \/ \E k \in 1 .. i - 1 : t[k].op = "load" /\ t[k].row = t[i].row
  <2> DEFINE j == i + d
  <2>1. j \in 1 .. Len(s) /\ t[i] = s[j]
    BY <1>1 DEF Drops
  <2>2. Ok(x, D) \subseteq Ok(y, E)
    BY <1>5, <2>1 DEF Given
  <2>3. \/ s[j].row \in Ok(x, D)
        \/ \E k \in 1 .. j - 1 : s[k].op = "load" /\ s[k].row = s[j].row
    BY <1>5, <2>1 DEF Saves
  <2>4. ASSUME NEW k \in 1 .. j - 1, s[k].op = "load", s[k].row = s[j].row
        PROVE  \/ t[i].row \in Ok(y, E)
               \/ \E m \in 1 .. i - 1 : t[m].op = "load" /\ t[m].row = t[i].row
    <3>1. CASE k = 1
      BY <2>1, <2>4, <3>1
    <3>2. CASE k > d
      <4> DEFINE m == k - d
      <4>1. m \in 1 .. i - 1 /\ m \in 1 .. Len(t) /\ m + d = k
        BY <1>1, <3>2
      <4>2. t[m] = s[m + d]
        BY <4>1 DEF Drops
      <4>3. t[m].op = "load" /\ t[m].row = t[i].row
        BY <2>1, <2>4, <4>1, <4>2
      <4>4. QED
        BY <4>1, <4>3
    <3>3. CASE k \in 2 .. d
      BY <2>4, <3>3
    <3>4. QED
      BY <3>1, <3>2, <3>3, <1>1
  <2>5. QED
    BY <2>1, <2>2, <2>3, <2>4
<1>6. Saves(y, E)
  BY <1>5 DEF Saves
<1>7. QED
  BY <1>2, <1>4, <1>6 DEF Rightful

\* Reads of the answer add nothing.
LEMMA OnlyChecksRightful ==
    ASSUME NEW y, NEW E, DOMAIN y.put = {}, \A i \in 1 .. Len(y.todo) : y.todo[i].op = "check"
    PROVE  Rightful(y, E)
<1>1. \A i \in 1 .. Len(y.todo) : ~Real(y.todo[i])
  BY DEF Real
<1>2. Given(y.todo, y.name, y.asked)
  BY <1>1 DEF Given
<1>3. Appends(y, E) /\ Saves(y, E)
  BY DEF Appends, Saves
<1>4. QED
  BY <1>2, <1>3 DEF Rightful

LEMMA StepIsRightful ==
    ASSUME InOrder, InOrder', IInv, AllRightful, NEW r \in Requests, Running(r), Changed(r)
    PROVE  AllRightful'
<1> DEFINE x == req[r]
           y == req'[r]
           D == DOMAIN db
           E == DOMAIN db'
<1>1. Rightful(x, D)
  BY DEF AllRightful
<1>2. /\ Calls(x.todo) /\ x.todo # <<>> /\ Head(x.todo) = x.todo[1] /\ Len(x.todo) \in Nat
      /\ 1 \in 1 .. Len(x.todo)
  BY HeadFacts, TailIs
<1>3. Given(x.todo, x.name, x.asked) /\ Appends(x, D) /\ Saves(x, D) /\ PutRows(r) \subseteq Ok(x, D)
  BY <1>1 DEF Rightful, PutRows
<1>4. y.todo # <<>> => Calls(y.todo)
  BY DEF InOrder, Going
<1>5. ASSUME Onward(x, y), ~Ended(r)
      PROVE  /\ y.name = x.name /\ y.asked = x.asked /\ y.gone = x.gone
             /\ \E d : /\ Drops(x.todo, y.todo, d)
                       /\ \A i \in 2 .. d : ~Real(x.todo[i]) /\ x.todo[i].op # "load"
  <2>1. y.name = x.name /\ y.asked = x.asked /\ y.gone = x.gone
    BY <1>5 DEF Onward
  <2>2. QED
    BY <1>2, <1>3, <1>4, <1>5, <2>1, OnwardDrops DEF Ended
<1>6. ASSUME \A q \in Requests \ {r} : req'[q] = req[q], E = D,
             ~Ended(r) => Rightful(y, E)
      PROVE  AllRightful'
  BY <1>6 DEF AllRightful, Running, Ended
<1>7. CASE Quiet(r)
  <2>1. E = D /\ \A q \in Requests \ {r} : req'[q] = req[q]
    BY <1>7 DEF Quiet
  <2>2. ASSUME ~Ended(r) PROVE Rightful(y, E)
    <3>1. /\ Onward(x, y) /\ PutRows(r)' = PutRows(r)
          /\ IF Real(x.todo[1]) THEN Found(r, x.todo[1], y.got) ELSE y.got = x.got
          /\ x.todo[1].op = "load" => x.todo[1].row \in Seen(r)
      BY <1>2, <1>7, <2>2 DEF Quiet
    <3>2. /\ y.name = x.name /\ y.asked = x.asked /\ y.gone = x.gone
          /\ \E d : /\ Drops(x.todo, y.todo, d)
                    /\ \A i \in 2 .. d : ~Real(x.todo[i]) /\ x.todo[i].op # "load"
      BY <1>5, <2>2, <3>1
    <3>3. PICK d : /\ Drops(x.todo, y.todo, d)
                   /\ \A i \in 2 .. d : ~Real(x.todo[i]) /\ x.todo[i].op # "load"
      BY <3>2
    <3>4. Ok(y, E) = Ok(x, D)
      BY <2>1, <3>2 DEF Ok
    <3>5. Seen(r) \subseteq Ok(x, D)
      <4>1. Seen(r) = Sees(PutRows(r), DelRows(r), D)
        BY SeenIs
      <4>2. QED
        BY <1>3, <4>1 DEF Sees, Ok
    <3>6. Real(x.todo[1]) => DOMAIN y.got \subseteq x.todo[1].rows \cap Ok(y, E)
      BY <3>1, <3>4, <3>5 DEF Found
    <3>7. DOMAIN y.put \subseteq Ok(y, E)
      BY <1>3, <3>1, <3>4 DEF PutRows
    <3>8. IF Real(x.todo[1]) THEN DOMAIN y.got \subseteq x.todo[1].rows \cap Ok(y, E)
                             ELSE y.got = x.got
      BY <3>1, <3>6
    <3>9. x.todo[1].op = "load" => x.todo[1].row \in Ok(y, E)
      BY <3>1, <3>4, <3>5
    <3> HIDE DEF x, y, D, E
    <3>10. QED
      BY <1>3, <3>2, <3>3, <3>4, <3>7, <3>8, <3>9, RightfulOn
  <2>3. QED
    BY <1>6, <2>1, <2>2
<1>8. ASSUME NEW new, NEW out, Makes(r, new, out), Held(r, new, out)
      PROVE  AllRightful'
  <2>1. E = D /\ \A q \in Requests \ {r} : req'[q] = req[q]
    BY <1>8 DEF Held
  <2>2. ASSUME ~Ended(r) PROVE Rightful(y, E)
    <3>1. /\ Onward(x, y) /\ PutRows(r)' = new \cup (PutRows(r) \ out)
          /\ y.got = x.got /\ x.todo[1].op \in Changes
      BY <1>2, <1>8, <2>2 DEF Held
    <3>2. /\ y.name = x.name /\ y.asked = x.asked /\ y.gone = x.gone
          /\ \E d : /\ Drops(x.todo, y.todo, d)
                    /\ \A i \in 2 .. d : ~Real(x.todo[i]) /\ x.todo[i].op # "load"
      BY <1>5, <2>2, <3>1
    <3>3. PICK d : /\ Drops(x.todo, y.todo, d)
                   /\ \A i \in 2 .. d : ~Real(x.todo[i]) /\ x.todo[i].op # "load"
      BY <3>2
    <3>4. Ok(y, E) = Ok(x, D)
      BY <2>1, <3>2 DEF Ok
    <3>5. new \subseteq Ok(x, D)
      BY <1>1, <1>8, NewIsRight
    <3>6. DOMAIN y.put \subseteq Ok(y, E)
      BY <1>3, <3>1, <3>4, <3>5 DEF PutRows
    <3>7. ~Real(x.todo[1]) /\ x.todo[1].op # "load"
      BY <3>1 DEF Real, Changes
    <3> HIDE DEF x, y, D, E
    <3>8. QED
      BY <1>3, <3>1, <3>2, <3>3, <3>4, <3>6, <3>7, RightfulOn
  <2>3. QED
    BY <1>6, <2>1, <2>2
<1>9. ASSUME NEW new, NEW out, Makes(r, new, out), Published(r, new, out)
      PROVE  AllRightful'
  <2>1. ASSUME NEW q \in Requests \ {r}, Running(q)'
        PROVE  Rightful(req'[q], E)
    <3> DEFINE p == req[q]
               z == [p EXCEPT !.gone = @ \cup (D \ E)]
    <3>0. req'[q] = IF Running(q) THEN z ELSE p
      BY <1>9 DEF Published
    <3>1. Running(q)
      BY <2>1, <3>0 DEF Running
    <3>2. req'[q] = z
      BY <3>0, <3>1
    <3>3. DOMAIN p = Fields
      BY DEF InOrder, Going
    <3>4. /\ z.todo = p.todo /\ z.name = p.name /\ z.asked = p.asked /\ z.got = p.got
          /\ z.put = p.put /\ z.gone = p.gone \cup (D \ E)
      BY <3>3 DEF Fields
    <3> HIDE DEF z
    <3>5. Rightful(p, D)
      BY <3>1 DEF AllRightful
    <3>6. Ok(p, D) \subseteq Ok(z, E)
      BY <3>4 DEF Ok
    <3> HIDE DEF D, E, p
    <3>7. Appends(z, E)
      BY <3>4, <3>5, <3>6 DEF Rightful, Appends
    <3>8. Saves(z, E)
      BY <3>4, <3>5, <3>6 DEF Rightful, Saves
    <3>9. Rightful(z, E)
      BY <3>4, <3>5, <3>6, <3>7, <3>8 DEF Rightful
    <3>10. QED
      BY <3>2, <3>9
  <2>2. ASSUME ~Ended(r) PROVE Rightful(y, E)
    <3>1. /\ Onward(x, y) /\ y.got = x.got /\ PutRows(r)' = {}
          /\ (x.todo[1].op = "commit" \/ x.name # Untied =>
                 \A i \in 1 .. Len(y.todo) : y.todo[i].op = "check")
          /\ x.todo[1].op = "commit" \/ (x.todo[1].op \in Changes /\ ~x.open)
      BY <1>2, <1>9, <2>2 DEF Published
    <3>2. CASE x.todo[1].op = "commit" \/ x.name # Untied
      BY <3>1, <3>2, OnlyChecksRightful DEF PutRows
    <3>3. CASE x.todo[1].op # "commit" /\ x.name = Untied
      <4>1. /\ y.name = x.name /\ y.asked = x.asked /\ y.gone = x.gone
            /\ \E d : /\ Drops(x.todo, y.todo, d)
                      /\ \A i \in 2 .. d : ~Real(x.todo[i]) /\ x.todo[i].op # "load"
        BY <1>5, <2>2, <3>1
      <4>2. PICK d : /\ Drops(x.todo, y.todo, d)
                     /\ \A i \in 2 .. d : ~Real(x.todo[i]) /\ x.todo[i].op # "load"
        BY <4>1
      <4>3. DelRows(r) = {} /\ PutRows(r) = {}
        BY <3>1, <3>3 DEF IInv, OnlyOpenWrites
      <4>4. E = Sees(new \cup (PutRows(r) \ out), DelRows(r) \cup (out \cap D), D)
        BY <1>9 DEF Published
      <4>5. D \ out \subseteq E
        BY <4>3, <4>4 DEF Sees
      <4>6. out \subseteq Links
        <5>1. /\ x.todo[1].op \notin {"delete", "detach", "deletefound"}
              /\ x.todo[1].op = "trim" => LinksOf(x.todo[1].row, x.todo[1].rows) \subseteq Links
          BY <1>2, <1>3, <3>3 DEF Given
        <5>2. \/ out = {}
              \/ /\ x.todo[1].op = "trim"
                 /\ out = LinksOf(x.todo[1].row, x.todo[1].rows \ DOMAIN x.got) \cap Seen(r)
          BY <1>2, <1>9, <5>1 DEF Makes
        <5>3. LinksOf(x.todo[1].row, x.todo[1].rows \ DOMAIN x.got)
                \subseteq LinksOf(x.todo[1].row, x.todo[1].rows)
          BY LinksOfPart
        <5>4. QED
          BY <5>1, <5>2, <5>3
      <4>7. Ok(x, D) \ Links \subseteq Ok(y, E)
        BY <4>1, <4>5, <4>6 DEF Ok
      <4>8. ~Real(x.todo[1]) /\ x.todo[1].op # "load"
        BY <3>1 DEF Real, Changes
      <4>9. DOMAIN y.put \subseteq Ok(y, E)
        BY <3>1 DEF PutRows
      <4> HIDE DEF x, y, D, E
      <4>10. QED
        BY <1>3, <3>1, <3>3, <4>1, <4>2, <4>7, <4>8, <4>9, RightfulOn
    <3>4. QED
      BY <3>2, <3>3
  <2>3. QED
    BY <2>1, <2>2 DEF AllRightful, Running, Ended
<1>10. QED
  BY <1>7, <1>8, <1>9 DEF Changed

\* What a step brings back.
LEMMA StepBrings ==
    ASSUME InOrder, IInv, AllRightful, NEW r \in Requests, Running(r), Changed(r),
           NEW x \in dead \cap DOMAIN db'
    PROVE  req'[r].todo # req[r].todo /\ x \in req[r].asked \cup req[r].gone
<1>1. x \notin DOMAIN db
  BY DEF IInv, ForeignKeys
<1>2. PICK new, out : Makes(r, new, out) /\ Published(r, new, out)
  BY <1>1 DEF Changed, Quiet, Held
<1>3. DOMAIN db' = Sees(new \cup (PutRows(r) \ out), DelRows(r) \cup (out \cap DOMAIN db), DOMAIN db)
  BY <1>2 DEF Published
<1>4. x \in new \cup PutRows(r)
  BY <1>1, <1>3 DEF Sees
<1>5. Rightful(req[r], DOMAIN db)
  BY DEF AllRightful
<1>6. new \subseteq Ok(req[r], DOMAIN db) /\ PutRows(r) \subseteq Ok(req[r], DOMAIN db)
  BY <1>2, <1>5, NewIsRight DEF Rightful, PutRows
<1>7. x \in req[r].asked \cup req[r].gone
  BY <1>1, <1>4, <1>6 DEF Ok
<1>8. Ended(r) \/ Onward(req[r], req'[r])
  BY <1>2 DEF Published
<1>9. Onward(req[r], req'[r]) => Len(req'[r].todo) # Len(req[r].todo)
  <2>1. Len(req[r].todo) \in Nat
    BY HeadFacts, TailIs
  <2>2. QED
    BY <2>1 DEF Onward
<1>10. req'[r].todo # req[r].todo
  BY <1>8, <1>9 DEF Ended, Running
<1>11. QED
  BY <1>7, <1>10

----------------------------------------------------------------------------
(* Handlers that add nothing but what they were asked for. *)

\* The call c, where the rows F are looked for and V are saved.
Fair(c, asked, F, V) ==
    /\ c.op \in {"create", "ensure"} => c.rows \subseteq asked
    /\ c.op = "append" => LinksOf(c.row, F) \subseteq asked
    /\ Real(c) => c.rows \subseteq F
    /\ c.op = "save" => c.row \in V
    /\ c.op # "skip"

AllFair(s, asked, F, V) == Calls(s) /\ \A i \in 1 .. Len(s) : Fair(s[i], asked, F, V)

LEMMA RowKinds ==
    /\ \A X, need : Find(X, need).rows = X /\ Find(X, need).need = need
    /\ \A g : Members(g).rows = Users
    /\ \A X, val : Create(X, val).rows = X
    /\ \A X : Ensure(X).rows = X
    /\ \A x : Associate(x).row = x
    /\ \A x : Save(x).row = x
  BY DEF Find, Members, Create, Ensure, Associate, Save

LEMMA NoneFair ==
    ASSUME NEW asked, NEW F, NEW V
    PROVE  AllFair(<<>>, asked, F, V)
  BY NoCalls, LenOfNone DEF AllFair

LEMMA FairOn ==
    ASSUME NEW s, NEW t, NEW asked, NEW F, NEW V,
           AllFair(s, asked, F, V), AllFair(t, asked, F, V)
    PROVE  AllFair(s \o t, asked, F, V) /\ (t # <<>> => s \o t # <<>>)
<1> DEFINE st == s \o t
<1>1. Calls(s) /\ Calls(t)
  BY DEF AllFair
<1>2. /\ Calls(st) /\ (t # <<>> => st # <<>>)
      /\ \A i \in 1 .. Len(st) :
            \/ i \in 1 .. Len(s) /\ st[i] = s[i]
            \/ \E j \in 1 .. Len(t) : i = Len(s) + j /\ st[i] = t[j]
  BY <1>1, Concatenation
<1> HIDE DEF st
<1>3. \A i \in 1 .. Len(st) : Fair(st[i], asked, F, V)
  BY <1>2, Zenon DEF AllFair
<1>4. QED
  BY <1>2, <1>3 DEF AllFair, st

LEMMA TupleSome ==
    ASSUME NEW s, NEW k \in Nat \ {0}, Tuple(s, k)
    PROVE  Calls(s) /\ Len(s) = k /\ s # <<>>
<1>1. Calls(s) /\ Len(s) = k
  BY TupleIs
<1>2. s # <<>>
  BY <1>1, LenOfNone, Zenon
<1>3. QED
  BY <1>1, <1>2

\* k calls in a tuple.
LEMMA TupleFair ==
    ASSUME NEW s, NEW k \in Nat \ {0}, Tuple(s, k), NEW asked, NEW F, NEW V,
           \A i \in 1 .. k : Fair(s[i], asked, F, V)
    PROVE  AllFair(s, asked, F, V) /\ s # <<>>
<1>1. Calls(s) /\ Len(s) = k /\ s # <<>>
  BY TupleSome
<1>2. QED
  BY <1>1 DEF AllFair

LEMMA FairGiven ==
    ASSUME NEW s, NEW name, name # Untied, NEW asked, NEW F, NEW V, AllFair(s, asked, F, V)
    PROVE  Given(s, name, asked)
<1>1. SUFFICES ASSUME NEW i \in 1 .. Len(s)
               PROVE  /\ s[i].op \in {"create", "ensure"} => s[i].rows \subseteq asked
                      /\ s[i].op # "skip"
                      /\ s[i].op = "append" =>
                           \A k \in 1 .. Len(s) :
                              Feeds(s, k, i) => LinksOf(s[i].row, s[k].rows) \subseteq asked
  BY DEF Given
<1>2. Fair(s[i], asked, F, V)
  BY DEF AllFair
<1>3. ASSUME s[i].op = "append", NEW k \in 1 .. Len(s), Feeds(s, k, i)
      PROVE  LinksOf(s[i].row, s[k].rows) \subseteq asked
  <2>1. Fair(s[k], asked, F, V) /\ Real(s[k])
    BY <1>3 DEF AllFair, Feeds
  <2>2. s[k].rows \subseteq F
    BY <2>1 DEF Fair
  <2>3. LinksOf(s[i].row, s[k].rows) \subseteq LinksOf(s[i].row, F)
    BY <2>2, LinksOfPart
  <2>4. QED
    BY <1>2, <1>3, <2>3 DEF Fair
<1>4. QED
  BY <1>2, <1>3 DEF Fair

\* Every append has a look of its own before it.
SelfFed(s) ==
    \A i \in 1 .. Len(s) : s[i].op = "append" => \E k \in 1 .. i - 1 : Real(s[k])

LEMMA SelfFedOn ==
    ASSUME NEW s, NEW t, Calls(s), Calls(t), SelfFed(s), SelfFed(t)
    PROVE  SelfFed(s \o t)
<1> DEFINE st == s \o t
<1>1. /\ Len(s) \in Nat /\ Len(t) \in Nat /\ Len(st) = Len(s) + Len(t)
      /\ \A i \in 1 .. Len(s) : st[i] = s[i]
      /\ \A i \in 1 .. Len(t) : st[Len(s) + i] = t[i]
      /\ \A i \in 1 .. Len(st) :
            \/ i \in 1 .. Len(s) /\ st[i] = s[i]
            \/ \E j \in 1 .. Len(t) : i = Len(s) + j /\ st[i] = t[j]
  BY Concatenation
<1> HIDE DEF st
<1>2. SUFFICES ASSUME NEW i \in 1 .. Len(st), st[i].op = "append"
               PROVE  \E k \in 1 .. i - 1 : Real(st[k])
  BY DEF SelfFed, st
<1>3. CASE i \in 1 .. Len(s)
  <2>1. s[i].op = "append"
    BY <1>1, <1>2, <1>3
  <2>2. PICK k \in 1 .. i - 1 : Real(s[k])
    BY <1>3, <2>1 DEF SelfFed
  <2>3. k \in 1 .. Len(s)
    BY <1>1, <1>3
  <2>4. st[k] = s[k]
    BY <1>1, <2>3
  <2>5. QED
    BY <2>2, <2>4
<1>4. ASSUME NEW j \in 1 .. Len(t), i = Len(s) + j, st[i] = t[j]
      PROVE  \E k \in 1 .. i - 1 : Real(st[k])
  <2>1. PICK k \in 1 .. j - 1 : Real(t[k])
    BY <1>2, <1>4 DEF SelfFed
  <2>2. k \in 1 .. Len(t) /\ Len(s) + k \in 1 .. i - 1
    BY <1>1, <1>4
  <2>3. st[Len(s) + k] = t[k]
    BY <1>1, <2>2
  <2>4. Real(st[Len(s) + k])
    BY <2>1, <2>3
  <2>5. QED
    BY <2>2, <2>4
<1>5. QED
  BY <1>1, <1>3, <1>4

\* What is found before such calls p is not for them.
LEMMA PrefixGiven ==
    ASSUME NEW p, NEW m, NEW name, name # Untied, NEW asked, NEW F, NEW V, NEW P, NEW U,
           AllFair(p, {}, P, U), \A i \in 1 .. Len(p) : p[i].op # "append",
           AllFair(m, asked, F, V), SelfFed(m)
    PROVE  Given(p \o m, name, asked)
<1> DEFINE s == p \o m
           l == Len(p)
<1>0. Calls(p) /\ Calls(m)
  BY DEF AllFair
<1>1. /\ l \in Nat /\ Len(m) \in Nat /\ Len(s) = l + Len(m)
      /\ \A i \in 1 .. l : s[i] = p[i]
      /\ \A i \in 1 .. Len(m) : s[l + i] = m[i]
      /\ \A i \in 1 .. Len(s) :
            \/ i \in 1 .. l /\ s[i] = p[i]
            \/ \E j \in 1 .. Len(m) : i = l + j /\ s[i] = m[j]
  BY <1>0, Concatenation
<1> HIDE DEF s
<1>2. SUFFICES ASSUME NEW i \in 1 .. Len(s)
               PROVE  /\ s[i].op \in {"create", "ensure"} => s[i].rows \subseteq asked
                      /\ s[i].op # "skip"
                      /\ s[i].op = "append" =>
                           \A k \in 1 .. Len(s) :
                              Feeds(s, k, i) => LinksOf(s[i].row, s[k].rows) \subseteq asked
  BY DEF Given, s
<1>3. CASE i \in 1 .. l /\ s[i] = p[i]
  <2>1. Fair(p[i], {}, P, U) /\ p[i].op # "append"
    BY <1>3 DEF AllFair
  <2>2. QED
    BY <1>3, <2>1 DEF Fair
<1>4. ASSUME NEW j \in 1 .. Len(m), i = l + j, s[i] = m[j]
      PROVE  /\ s[i].op \in {"create", "ensure"} => s[i].rows \subseteq asked
             /\ s[i].op # "skip"
             /\ s[i].op = "append" =>
                  \A k \in 1 .. Len(s) :
                     Feeds(s, k, i) => LinksOf(s[i].row, s[k].rows) \subseteq asked
  <2>1. Fair(m[j], asked, F, V)
    BY DEF AllFair
  <2>2. ASSUME s[i].op = "append", NEW k \in 1 .. Len(s), Feeds(s, k, i)
        PROVE  LinksOf(s[i].row, s[k].rows) \subseteq asked
    <3>1. PICK n \in 1 .. j - 1 : Real(m[n])
      BY <1>4, <2>2 DEF SelfFed
    <3>2. Real(s[l + n]) /\ l + n \in 1 .. i - 1
      <4>1. n \in 1 .. Len(m)
        BY <1>1
      <4>2. s[l + n] = m[n]
        BY <1>1, <4>1
      <4>3. QED
        BY <1>1, <1>4, <3>1, <4>2
    <3>3. k \notin 1 .. l
      <4> SUFFICES ASSUME k \in 1 .. l PROVE FALSE
        OBVIOUS
      <4>1. l + n \in k + 1 .. i - 1
        BY <1>1, <3>2
      <4>2. QED
        BY <2>2, <3>2, <4>1 DEF Feeds
    <3>4. PICK h \in 1 .. Len(m) : s[k] = m[h]
      BY <1>1, <3>3
    <3>5. Fair(m[h], asked, F, V) /\ Real(m[h])
      BY <2>2, <3>4 DEF AllFair, Feeds
    <3>6. s[k].rows \subseteq F
      BY <3>4, <3>5 DEF Fair
    <3>7. LinksOf(s[i].row, s[k].rows) \subseteq LinksOf(s[i].row, F)
      BY <3>6, LinksOfPart
    <3>8. QED
      BY <1>4, <2>1, <2>2, <3>7 DEF Fair
  <2>3. QED
    BY <1>4, <2>1, <2>2 DEF Fair
<1>5. QED
  BY <1>1, <1>3, <1>4

----------------------------------------------------------------------------
(* How they begin. *)

LEMMA BegunRightful ==
    ASSUME NEW x, NEW D, DOMAIN x = Fields, Calls(x.todo), x.todo # <<>>, Rightful(x, D)
    PROVE  Rightful(Begun(x), D)
<1> DEFINE y == [x EXCEPT !.todo = Tail(@), !.open = TRUE]
           s == x.todo
<1>1. Begun(x) = IF Head(s).op = "begin" THEN y ELSE x
  BY DEF Begun
<1>2. /\ y.todo = Tail(s) /\ y.name = x.name /\ y.asked = x.asked /\ y.gone = x.gone
      /\ y.got = x.got /\ y.put = x.put
  BY DEF Fields
<1>3. /\ Head(s) = s[1] /\ Len(s) \in Nat /\ Len(s) > 0 /\ Calls(Tail(s)) /\ Len(Tail(s)) = Len(s) - 1
      /\ \A j \in 1 .. Len(Tail(s)) : Tail(s)[j] = s[j + 1]
  BY TailIs
<1> HIDE DEF y
<1>4. CASE s[1].op = "begin"
  <2>1. Drops(s, y.todo, 1)
    BY <1>2, <1>3 DEF Drops
  <2>2. \A i \in 2 .. 1 : ~Real(s[i]) /\ s[i].op # "load"
    OBVIOUS
  <2>3. ~Real(s[1]) /\ s[1].op # "load"
    BY <1>4 DEF Real
  <2>4. Given(s, x.name, x.asked) /\ Appends(x, D) /\ Saves(x, D) /\ DOMAIN x.put \subseteq Ok(x, D)
    BY DEF Rightful
  <2>5. Ok(y, D) = Ok(x, D)
    BY <1>2 DEF Ok
  <2>6. Rightful(y, D)
    BY <1>2, <2>1, <2>2, <2>3, <2>4, <2>5, RightfulOn
  <2>7. QED
    BY <1>1, <1>3, <1>4, <2>6
<1>5. CASE s[1].op # "begin"
  BY <1>1, <1>3, <1>5
<1>6. QED
  BY <1>4, <1>5

\* What is saved is there, or is read first.
Loads(s, D) ==
    \A i \in 1 .. Len(s) : s[i].op = "save" =>
       s[i].row \in D \/ (i > 1 /\ s[1].op = "load" /\ s[1].row = s[i].row)

LEMMA ServeRightful ==
    ASSUME InOrder, AllRightful, NEW r \in Requests, NEW name, NEW may, NEW asked, NEW calls,
           Serve(r, name, may, asked, calls), Calls(calls), calls # <<>>,
           Given(calls, name, asked), Loads(calls, DOMAIN db)
    PROVE  AllRightful'
<1> DEFINE first == [Idle EXCEPT !.name = name, !.todo = calls, !.asked = asked]
           refused == [Idle EXCEPT !.answer = "error"]
           D == DOMAIN db
<1>1. req' = [req EXCEPT ![r] = Begun(first)] \/ req' = [req EXCEPT ![r] = refused]
  BY DEF Serve
<1>2. /\ DOMAIN first = Fields /\ first.todo = calls /\ first.name = name /\ first.asked = asked
      /\ first.gone = {} /\ first.put = Nothing /\ first.got = Nothing
      /\ refused.todo = <<>>
  BY DEF Idle, Fields
<1> HIDE DEF first, refused
<1>3. DOMAIN first.got = {} /\ DOMAIN first.put = {} /\ \A x : LinksOf(x, {}) = {}
  BY <1>2, NothingDomain DEF LinksOf
<1>4. Appends(first, D)
  BY <1>3 DEF Appends
<1>5. Saves(first, D)
  <2>1. \A i \in 1 .. Len(calls) : i > 1 => 1 \in 1 .. i - 1
    OBVIOUS
  <2>2. D \subseteq Ok(first, D)
    BY DEF Ok
  <2>3. QED
    BY <1>2, <2>1, <2>2 DEF Loads, Saves
<1>6. Rightful(first, D)
  BY <1>2, <1>3, <1>4, <1>5 DEF Rightful
<1>7. Rightful(Begun(first), D)
  BY <1>2, <1>6, BegunRightful
<1>8. db' = db
  BY DEF Serve
<1>9. DOMAIN req = Requests
  BY DEF InOrder
<1>10. req'[r] = Begun(first) \/ req'[r].todo = <<>>
  BY <1>1, <1>2, <1>9
<1>11. \A q \in Requests \ {r} : req'[q] = req[q]
  BY <1>1, <1>9
<1>12. QED
  BY <1>7, <1>8, <1>10, <1>11 DEF AllRightful, Running

LEMMA ServeFair ==
    ASSUME InOrder, AllRightful, NEW r \in Requests, NEW name, NEW may, NEW asked, NEW calls,
           NEW F, NEW V, Serve(r, name, may, asked, calls), name # Untied,
           AllFair(calls, asked, F, V), calls # <<>>,
           \A x \in V : x \in DOMAIN db \/ (calls[1].op = "load" /\ calls[1].row = x)
    PROVE  AllRightful'
<1>1. Calls(calls) /\ Given(calls, name, asked)
  BY FairGiven DEF AllFair
<1>2. Loads(calls, DOMAIN db)
  <2>1. SUFFICES ASSUME NEW i \in 1 .. Len(calls), calls[i].op = "save"
                 PROVE  \/ calls[i].row \in DOMAIN db
                        \/ i > 1 /\ calls[1].op = "load" /\ calls[1].row = calls[i].row
    BY DEF Loads
  <2>2. calls[i].row \in V
    BY <2>1 DEF AllFair, Fair
  <2>3. calls[1].op = "load" => i # 1
    BY <2>1
  <2>4. QED
    BY <2>2, <2>3
<1>3. QED
  BY <1>1, <1>2, ServeRightful

\* As most handlers do, who save nothing.
LEMMA ServeUnsaved ==
    ASSUME InOrder, AllRightful, NEW r \in Requests, NEW name, NEW may, NEW asked, NEW calls,
           NEW F, Serve(r, name, may, asked, calls), name # Untied,
           AllFair(calls, asked, F, {}), calls # <<>>
    PROVE  AllRightful'
<1>1. \A x \in {} : x \in DOMAIN db \/ (calls[1].op = "load" /\ calls[1].row = x)
  OBVIOUS
<1>2. QED
  BY <1>1, ServeFair

LEMMA ServeWithFair ==
    ASSUME InOrder, AllRightful, NEW r \in Requests, NEW name, NEW got, NEW calls,
           NEW V, ServeWith(r, name, got, calls), name # Untied,
           Calls(calls), calls # <<>>,
           \A i \in 1 .. Len(calls) :
              /\ calls[i].op \notin {"create", "ensure", "skip"} /\ ~Real(calls[i])
              /\ calls[i].op = "save" => calls[i].row \in DOMAIN db
              /\ calls[i].op = "append" => LinksOf(calls[i].row, got) \subseteq DOMAIN db,
           got \subseteq DOMAIN db
    PROVE  AllRightful'
<1> DEFINE have == [x \in got |-> db[x]]
           first == [Idle EXCEPT !.name = name, !.todo = calls, !.got = have]
           D == DOMAIN db
<1>1. req' = [req EXCEPT ![r] = Begun(first)]
  BY DEF ServeWith
<1>2. /\ DOMAIN first = Fields /\ first.todo = calls /\ first.name = name
      /\ first.gone = {} /\ first.asked = {} /\ first.put = Nothing /\ first.got = have
  BY DEF Idle, Fields
<1>3. DOMAIN have = got
  OBVIOUS
<1> HIDE DEF first, have
<1>4. Ok(first, D) = D
  BY <1>2 DEF Ok
<1>5. Appends(first, D)
  BY <1>2, <1>3, <1>4 DEF Appends
<1>6. Saves(first, D)
  BY <1>2, <1>4 DEF Saves
<1>7. Given(calls, name, {})
  BY DEF Given, Feeds
<1>8. Rightful(first, D)
  BY <1>2, <1>5, <1>6, <1>7, NothingDomain DEF Rightful
<1>9. Rightful(Begun(first), D)
  BY <1>2, <1>8, BegunRightful
<1>10. db' = db
  BY DEF ServeWith
<1>11. DOMAIN req = Requests
  BY DEF InOrder
<1>12. req'[r] = Begun(first) /\ \A q \in Requests \ {r} : req'[q] = req[q]
  BY <1>1, <1>11
<1>13. QED
  BY <1>9, <1>10, <1>12 DEF AllRightful, Running

----------------------------------------------------------------------------
(* What is published leaves alone the rows that the others hold. *)

Respectful(r) ==
    \/ db' = db
    \/ \E A, B : /\ DOMAIN db' = Sees(A, B, DOMAIN db)
                 /\ \A q \in Requests \ {r} : Apart(A, B, PutRows(q), DelRows(q), DOMAIN db)

LEMMA PublishRespects ==
    ASSUME NEW r \in Requests, NEW put, NEW del, Publish(r, put, del),
           \A q \in Requests \ {r} : Apart(DOMAIN put, del, PutRows(q), DelRows(q), DOMAIN db)
    PROVE  Respectful(r)
<1>1. db' = Over(put, Without(db, del))
  BY DEF Publish
<1>2. DOMAIN db' = DOMAIN put \cup DOMAIN Without(db, del)
  BY <1>1, OverDomain
<1>3. DOMAIN db' = Sees(DOMAIN put, del, DOMAIN db)
  BY <1>2, WithoutDomain DEF Sees
<1>4. QED
  BY <1>3 DEF Respectful

LEMMA WriteRespects ==
    ASSUME IInv, NEW r \in Requests, NEW touched, NEW new, NEW out,
           DOMAIN new \subseteq touched, out \subseteq touched, Write(r, touched, new, out)
    PROVE  Respectful(r)
<1> DEFINE put == Over(new, Without(req[r].put, out))
           del == req[r].del \cup (out \cap DOMAIN db)
<1>1. Free(r, touched, new, out)
  BY DEF Write
<1>2. db' = db \/ Publish(r, put, del)
  BY DEF Write, Refuse, Proceed
<1>3. DOMAIN put = DOMAIN new \cup (PutRows(r) \ out)
  <2>1. DOMAIN put = DOMAIN new \cup DOMAIN Without(req[r].put, out)
    BY OverDomain
  <2>2. QED
    BY <2>1, WithoutDomain DEF PutRows
<1>4. del = DelRows(r) \cup (out \cap DOMAIN db)
  BY DEF DelRows
<1> HIDE DEF put, del
<1>5. \A q \in Requests \ {r} : Apart(DOMAIN put, del, PutRows(q), DelRows(q), DOMAIN db)
  BY <1>1, <1>3, <1>4, WriteApart
<1>6. QED
  BY <1>2, <1>5, PublishRespects DEF Respectful

LEMMA StepsRespect ==
    ASSUME IInv, NEW r \in Requests, Steps(r) \/ Fail(r)
    PROVE  Respectful(r)
<1>1. CASE \/ Query(r) \/ Loading(r) \/ Finding(r) \/ Skipping(r) \/ Negating(r) \/ Leaving(r)
           \/ Allowing(r) \/ Fail(r)
  <2>1. db' = db
    BY <1>1 DEF Query, Loading, Finding, Skipping, Negating, Leaving, Allowing, Fail, Proceed, Refuse
  <2>2. QED
    BY <2>1 DEF Respectful
<1>2. CASE Committing(r)
  <2>1. \A q \in Requests \ {r} :
           Apart(DOMAIN req[r].put, req[r].del, PutRows(q), DelRows(q), DOMAIN db)
    BY DEF IInv, AllApart, PutRows, DelRows
  <2>2. QED
    BY <1>2, <2>1, PublishRespects DEF Committing
<1>3. CASE Creating(r) \/ Updating(r) \/ Saving(r)
  <2>1. db' = db \/ \E new : Write(r, DOMAIN new, new, {})
    BY <1>3 DEF Creating, Updating, Saving, Put, Refuse
  <2>2. QED
    BY <2>1, WriteRespects DEF Respectful
<1>4. CASE Ensuring(r) \/ Associating(r)
  <2>1. PICK rows : Write(r, DOMAIN rows, Without(rows, Seen(r)), {})
    BY <1>4 DEF Ensuring, Associating, InsertMissing
  <2>2. DOMAIN Without(rows, Seen(r)) \subseteq DOMAIN rows
    BY DEF Without
  <2>3. QED
    BY <2>1, <2>2, WriteRespects
<1>5. CASE Trimming(r) \/ Deleting(r) \/ DetachingFound(r) \/ DeletingFound(r)
  <2>1. PICK rows : Write(r, rows \cap Seen(r), Nothing, rows \cap Seen(r))
    BY <1>5 DEF Trimming, Deleting, DetachingFound, DeletingFound, RemoveRows
  <2>2. DOMAIN Nothing \subseteq rows \cap Seen(r)
    BY NothingDomain
  <2>3. QED
    BY <2>1, <2>2, WriteRespects
<1>6. QED
  BY <1>1, <1>2, <1>3, <1>4, <1>5 DEF Steps

LEMMA RowsRespected ==
    ASSUME NEW r, Respectful(r), NEW q \in Requests \ {r}
    PROVE  /\ PutRows(q) \cap DOMAIN db' \subseteq DOMAIN db
           /\ DelRows(q) \cap DOMAIN db \subseteq DOMAIN db'
<1>1. CASE db' = db
  BY <1>1
<1>2. ASSUME NEW A, NEW B, DOMAIN db' = Sees(A, B, DOMAIN db),
             Apart(A, B, PutRows(q), DelRows(q), DOMAIN db)
      PROVE  /\ PutRows(q) \cap DOMAIN db' \subseteq DOMAIN db
             /\ DelRows(q) \cap DOMAIN db \subseteq DOMAIN db'
  BY <1>2 DEF Sees, Apart
<1>3. QED
  BY <1>1, <1>2 DEF Respectful

----------------------------------------------------------------------------
(* Who waits for whom.  A handler is about one row, its own, and about the *)
(* links of that row to others.  What r holds while a call that writes is  *)
(* still to come is what the calls before that one wrote.                  *)

Singles == {"AttachRoleToUser", "DetachRoleFromUser", "AttachScopeToRole", "DetachScopeFromRole",
            "CreateGroup"}
Makers == {"CreateRole", "CreateScope", "CreateUserAndAttachRoles"}
Setters == {"UpdateUserProfile", "Login"}
Deleters == {"DeleteRole", "DeleteScope", "DeleteUser"}
Changers == {"UpdateRoleByID", "UpdateUserRoles", "UpdateScope", "UpdateTargetUserProfile"}
Replacers == {"UpdateScope", "UpdateTargetUserProfile"}
Exchangers == {"UpdateRoleByID", "UpdateUserRoles"}
Writers == Makers \cup Setters \cup Deleters \cup Changers

OfRoles == {"CreateRole", "UpdateRoleByID", "DeleteRole"}
OfScopes == {"CreateScope", "UpdateScope", "DeleteScope"}

\* The rows of which a handler's own is one.
Own(name) == IF name \in OfRoles THEN Roles ELSE IF name \in OfScopes THEN Scopes ELSE Users

\* Those that it links its own to, or cuts it from.
FirstKind(name) ==
    IF name = "DeleteRole" THEN Users
    ELSE IF name \in OfRoles THEN Scopes
    ELSE IF name \in OfScopes THEN Catalogs
    ELSE Roles

SecondKind(name) ==
    IF name \in OfRoles THEN Scopes
    ELSE IF name \in {"CreateScope", "UpdateScope"} THEN Catalogs
    ELSE IF name \in {"UpdateTargetUserProfile", "Login", "DeleteUser"} THEN Groups
    ELSE Roles

Others(name) == FirstKind(name) \cup SecondKind(name)

\* The rows that nobody else knows of where such a handler adds them.
Newcomers(name, e) == IF name \in Makers THEN {e} ELSE Others(name)

\* A call that the handler whose own row is e makes.
Apt(c, name, e) ==
    /\ c.op \notin {"ensure", "detach", "deletefound"}
    /\ name \in Singles => c.op # "trim" /\ (c.op = "delete" => c.rows \subseteq Links)
    /\ name \notin Singles =>
          /\ c.op # "skip"
          /\ c.op = "create" => name \in Makers /\ c.rows = {e}
          /\ c.op \in {"updates", "save"} =>
                name \in Setters \cup (Changers \ {"UpdateUserRoles"}) /\ c.row = e
          /\ c.op = "append" => name \notin Deleters /\ c.row = e
          /\ c.op = "trim" => name \in Replacers /\ c.row = e /\ c.rows \subseteq Others(name)
          /\ c.op = "delete" =>
                \/ /\ name \in Deleters \cup (Changers \ {"UpdateScope"})
                   /\ c.rows \in {LinksOf(e, FirstKind(name)), LinksOf(e, SecondKind(name))}
                \/ name \in Deleters /\ c.rows = {e}

\* c comes before d, and both write.
Follows(c, d, name, e) ==
    /\ name \notin Singles /\ d.op \notin {"create", "updates", "save"}
    /\ name \notin Replacers => c.op # "append"
    /\ name = "UpdateScope" => c.op # "trim" /\ (d.op = "append" => c.op = "save")
    /\ name \in Deleters =>
          \/ c.rows = LinksOf(e, FirstKind(name)) /\ d.rows \in {LinksOf(e, SecondKind(name)), {e}}
          \/ c.rows = LinksOf(e, SecondKind(name)) /\ d.rows = {e}

\* The calls of the handler, from the first.
Script(s, name, e) ==
    /\ Calls(s) /\ name \in Singles \cup Writers /\ e \in Own(name)
    /\ \A i \in 1 .. Len(s) : Apt(s[i], name, e)
    /\ \A i, j \in 1 .. Len(s) :
          i < j /\ s[i].op \in Changes /\ s[j].op \in Changes => Follows(s[i], s[j], name, e)
    /\ \A i, j \in 1 .. Len(s) : s[j].op = "append" /\ Feeds(s, i, j) => s[i].rows \subseteq Others(name)
    /\ \A i \in 2 .. Len(s) : s[i - 1].op = "skip" => ~Real(s[i])
    /\ name = "UpdateScope" =>
          \E b \in 1 .. Len(s) :
             /\ s[b].op = "save"
             /\ \A i \in 1 .. Len(s) : s[i].op \in Changes \/ Real(s[i]) => b <= i

\* What a call may add, where the rows of `all` may have been found, and what it may delete.
Offers(c, all) ==
    IF c.op = "create" THEN c.rows
    ELSE IF c.op \in {"updates", "save"} THEN {c.row}
    ELSE IF c.op = "append" THEN all \cup LinksOf(c.row, all)
    ELSE {}

Takes(c) ==
    IF c.op = "delete" THEN c.rows
    ELSE IF c.op = "trim" THEN LinksOf(c.row, c.rows)
    ELSE {}

\* x has made the first k of the calls s.
Played(x, s, k) ==
    /\ k \in Nat /\ k <= Len(s) /\ Len(x.todo) = Len(s) - k
    /\ \A j \in 1 .. Len(x.todo) : x.todo[j] = s[j + k]
    /\ \A y \in DOMAIN x.put : \E i \in 1 .. k : y \in Offers(s[i], Others(x.name))
    /\ \A y \in x.del : \E i \in 1 .. k : y \in Takes(s[i])
    /\ \/ DOMAIN x.got \subseteq Others(x.name)
       \/ \E i \in 1 .. k : /\ Real(s[i]) /\ DOMAIN x.got \subseteq s[i].rows
                            /\ \A m \in i + 1 .. k : ~Real(s[m])

\* How x stands to the rows D.
Stands(x, s, k, e, D) ==
    /\ DOMAIN x.put \cap Newcomers(x.name, e) \cap D = {}
    /\ x.del \subseteq D
    /\ x.name = "UpdateScope" =>
          \A b \in 1 .. Len(s) : s[b].op = "save" =>
             (b <= k => e \in DOMAIN x.put) /\ (k < b => x.got = Nothing)

Plays(x, D) ==
    \E s, k, e : Script(s, x.name, e) /\ Played(x, s, k) /\ Stands(x, s, k, e, D)

\* A call that writes is still to come.
Unfinished(r) == \E i \in 1 .. Len(req[r].todo) : req[r].todo[i].op \in Changes

AllPlay == \A r \in Requests : Unfinished(r) => Plays(req[r], DOMAIN db)

\* Only one request at a time has deleted the links of a row to give it others.
Lone(r, q) ==
    req[r].name = req[q].name /\ req[r].name \in Exchangers =>
       \A e \in Own(req[r].name) :
          \/ LinksOf(e, SecondKind(req[r].name)) \cap DelRows(r) = {}
          \/ LinksOf(e, SecondKind(req[r].name)) \cap DelRows(q) = {}

AllLone == \A r, q \in Requests : r # q /\ Unfinished(r) /\ Unfinished(q) => Lone(r, q)

LEMMA KindsApart ==
    /\ Users \cap Roles = {} /\ Users \cap Scopes = {} /\ Users \cap Groups = {} /\ Users \cap Catalogs = {}
    /\ Roles \cap Scopes = {} /\ Roles \cap Groups = {} /\ Roles \cap Catalogs = {}
    /\ Scopes \cap Groups = {} /\ Scopes \cap Catalogs = {} /\ Groups \cap Catalogs = {}
<1>1. \A i, j \in 1 .. 6 :
         i # j => <<Users, Roles, Scopes, Groups, Catalogs, Competitions>>[i]
                    \cap <<Users, Roles, Scopes, Groups, Catalogs, Competitions>>[j] = {}
  BY KindsAssumption
<1>2. Users \cap Roles = {} /\ Users \cap Scopes = {}
  BY <1>1
<1>3. Users \cap Groups = {} /\ Users \cap Catalogs = {}
  BY <1>1
<1>4. Roles \cap Scopes = {} /\ Roles \cap Groups = {}
  BY <1>1
<1>5. Roles \cap Catalogs = {} /\ Scopes \cap Groups = {}
  BY <1>1
<1>6. Scopes \cap Catalogs = {} /\ Groups \cap Catalogs = {}
  BY <1>1
<1>7. QED
  BY <1>2, <1>3, <1>4, <1>5, <1>6

\* The links of a handler's own row to the others are links.
LEMMA OwnLinks ==
    ASSUME NEW name, NEW e \in Own(name), name \in Singles \cup Writers
    PROVE  /\ LinksOf(e, FirstKind(name)) \subseteq Links /\ LinksOf(e, SecondKind(name)) \subseteq Links
           /\ LinksOf(e, Others(name)) \subseteq Links
           /\ e \in Entities /\ Others(name) \subseteq Entities /\ e \notin Others(name)
           /\ \A X : X \subseteq Others(name) => LinksOf(e, X) \subseteq LinksOf(e, Others(name))
<1>1. \A a \in Users : LinksOf(a, Roles) \subseteq Links /\ LinksOf(a, Groups) \subseteq Links
  BY DEF LinksOf, Links, Pairs
<1>2. \A a \in Scopes : LinksOf(a, Catalogs) \subseteq Links
  BY DEF LinksOf, Links, Pairs
<1>3. \A a \in Scopes : LinksOf(a, Roles) \subseteq Links
  <2>1. \A a \in Scopes, b \in Roles : {a, b} = {b, a}
    OBVIOUS
  <2>2. QED
    BY <2>1 DEF LinksOf, Links, Pairs
<1>4. \A a \in Roles : LinksOf(a, Scopes) \subseteq Links
  BY DEF LinksOf, Links, Pairs
<1>5. \A a \in Roles : LinksOf(a, Users) \subseteq Links
  <2>1. \A a \in Roles, b \in Users : {a, b} = {b, a}
    OBVIOUS
  <2>2. QED
    BY <2>1 DEF LinksOf, Links, Pairs
<1>6. LinksOf(e, FirstKind(name)) \subseteq Links /\ LinksOf(e, SecondKind(name)) \subseteq Links
  <2>1. CASE name \in OfRoles
    BY <2>1, <1>4, <1>5 DEF Own, FirstKind, SecondKind
  <2>2. CASE name \in OfScopes
    BY <2>2, <1>2, <1>3 DEF Own, FirstKind, SecondKind, OfScopes, OfRoles
  <2>3. CASE name \notin OfRoles \cup OfScopes
    BY <2>3, <1>1 DEF Own, FirstKind, SecondKind, OfScopes, OfRoles
  <2>4. QED
    BY <2>1, <2>2, <2>3
<1>7. LinksOf(e, Others(name)) \subseteq Links
  BY <1>6 DEF Others, LinksOf
<1>8. e \in Entities /\ Others(name) \subseteq Entities
  BY DEF Own, Others, FirstKind, SecondKind, Entities
<1>9. e \notin Others(name)
  <2>1. CASE name \in OfRoles
    BY <2>1, KindsApart DEF Own, Others, FirstKind, SecondKind
  <2>2. CASE name \in OfScopes
    BY <2>2, KindsApart DEF Own, Others, FirstKind, SecondKind, OfScopes, OfRoles
  <2>3. CASE name \notin OfRoles \cup OfScopes
    BY <2>3, KindsApart DEF Own, Others, FirstKind, SecondKind, OfScopes, OfRoles
  <2>4. QED
    BY <2>1, <2>2, <2>3
<1>10. \A X : X \subseteq Others(name) => LinksOf(e, X) \subseteq LinksOf(e, Others(name))
  BY LinksOfPart
<1>11. QED
  BY <1>6, <1>7, <1>8, <1>9, <1>10

\* What the next call may add, and what it may delete.
LEMMA NextOffers ==
    ASSUME NEW x, NEW s, NEW k, NEW e, Script(s, x.name, e), Played(x, s, k), Len(x.todo) > 0,
           x.name \notin Singles
    PROVE  LET c == x.todo[1]
               got == DOMAIN x.got
           IN /\ k + 1 \in 1 .. Len(s) /\ c = s[k + 1] /\ Apt(c, x.name, e)
              /\ c.op = "append" =>
                    got \subseteq Others(x.name) /\ got \cup LinksOf(c.row, got) \subseteq Offers(c, Others(x.name))
<1> DEFINE c == x.todo[1]
           got == DOMAIN x.got
           all == Others(x.name)
<1>1. Len(s) \in Nat
  BY TailIs DEF Script
<1>2. k + 1 \in 1 .. Len(s) /\ 1 \in 1 .. Len(x.todo)
  BY <1>1 DEF Played
<1>3. c = s[k + 1] /\ Apt(c, x.name, e)
  <2>1. c = s[1 + k]
    BY <1>2 DEF Played
  <2>2. 1 + k = k + 1
    BY DEF Played
  <2>3. QED
    BY <2>1, <2>2, <1>2 DEF Script
<1>4. ASSUME c.op = "append" PROVE got \subseteq all
  <2>1. ASSUME NEW i \in 1 .. k, Real(s[i]), got \subseteq s[i].rows, \A m \in i + 1 .. k : ~Real(s[m])
        PROVE  got \subseteq all
    <3>1. i \in 1 .. Len(s) /\ i < k + 1 /\ (k + 1) - 1 = k
      BY <1>1, <1>2 DEF Played
    <3>2. Feeds(s, i, k + 1)
      BY <2>1, <3>1 DEF Feeds
    <3>3. s[i].rows \subseteq all
      BY <1>2, <1>3, <1>4, <3>1, <3>2 DEF Script
    <3>4. QED
      BY <2>1, <3>3
  <2>2. QED
    BY <2>1 DEF Played
<1>5. ASSUME c.op = "append" PROVE got \cup LinksOf(c.row, got) \subseteq Offers(c, all)
  <2>1. LinksOf(c.row, got) \subseteq LinksOf(c.row, all)
    BY <1>4, <1>5, LinksOfPart
  <2>2. Offers(c, all) = all \cup LinksOf(c.row, all)
    BY <1>5 DEF Offers
  <2>3. QED
    BY <1>4, <1>5, <2>1, <2>2
<1>6. QED
  BY <1>2, <1>3, <1>4, <1>5

\* Nobody deletes what newcomers are made of.
LEMMA TakesAreOld ==
    ASSUME NEW c, NEW name \in Writers, NEW e \in Own(name), Apt(c, name, e)
    PROVE  /\ Takes(c) \cap Others(name) = {} /\ (name \notin Deleters => e \notin Takes(c))
           /\ Takes(c) \cap Newcomers(name, e) = {}
<1>1. /\ LinksOf(e, FirstKind(name)) \subseteq Links /\ LinksOf(e, SecondKind(name)) \subseteq Links
      /\ LinksOf(e, Others(name)) \subseteq Links
      /\ e \in Entities /\ Others(name) \subseteq Entities /\ e \notin Others(name)
      /\ \A X : X \subseteq Others(name) => LinksOf(e, X) \subseteq LinksOf(e, Others(name))
  BY OwnLinks
<1>2. Entities \cap Links = {}
  BY DistinctAssumption
<1>3. name \notin Singles
  BY DEF Writers, Singles, Makers, Setters, Deleters, Changers
<1>4. Takes(c) \subseteq Links \/ (name \in Deleters /\ Takes(c) = {e})
  <2>1. CASE c.op = "delete"
    BY <2>1, <1>1, <1>3 DEF Apt, Takes
  <2>2. CASE c.op = "trim"
    BY <2>2, <1>1, <1>3 DEF Apt, Takes
  <2>3. QED
    BY <2>1, <2>2 DEF Takes
<1>5. name \in Deleters => name \notin Makers
  BY DEF Deleters, Makers
<1>6. QED
  BY <1>1, <1>2, <1>4, <1>5 DEF Newcomers

\* The calls that a step drops with the first are no looks.
LEMMA DroppedAreBlind ==
    ASSUME NEW x, NEW s, NEW k, NEW d \in 1 .. 3, Played(x, s, k), Len(s) \in Nat, d <= Len(x.todo),
           \A i \in 2 .. d : ~Real(x.todo[i])
    PROVE  \A m \in k + 2 .. k + d : ~Real(s[m])
<1> TAKE m \in k + 2 .. k + d
<1>1. k \in Nat /\ Len(x.todo) = Len(s) - k
  BY DEF Played
<1>2. m - k \in 2 .. d /\ m - k \in 1 .. Len(x.todo) /\ (m - k) + k = m
  BY <1>1
<1>3. x.todo[m - k] = s[(m - k) + k]
  BY <1>2 DEF Played
<1>4. QED
  BY <1>2, <1>3

\* On to the calls that are left: the way to them, and what was found.
LEMMA PlayedOn ==
    ASSUME NEW x, NEW y, NEW s, NEW k, NEW d \in 1 .. 3, Played(x, s, k), Len(s) \in Nat, y.name = x.name,
           Len(y.todo) = Len(x.todo) - d, d <= Len(x.todo),
           \A j \in 1 .. Len(y.todo) : y.todo[j] = x.todo[j + d],
           \A i \in 2 .. d : ~Real(x.todo[i]),
           IF Real(x.todo[1]) THEN DOMAIN y.got \subseteq x.todo[1].rows ELSE y.got = x.got,
           \A z \in DOMAIN y.put : z \in DOMAIN x.put \/ z \in Offers(x.todo[1], Others(x.name)),
           \A z \in y.del : z \in x.del \/ z \in Takes(x.todo[1])
    PROVE  Played(y, s, k + d)
<1> DEFINE all == Others(x.name)
<1>1. k \in Nat /\ k <= Len(s) /\ Len(x.todo) = Len(s) - k
  BY DEF Played
<1>2. k + d \in Nat /\ k + d <= Len(s) /\ Len(y.todo) = Len(s) - (k + d)
  BY <1>1
<1>3. \A j \in 1 .. Len(y.todo) : y.todo[j] = s[j + (k + d)]
  <2> TAKE j \in 1 .. Len(y.todo)
  <2>1. j + d \in 1 .. Len(x.todo) /\ (j + d) + k = j + (k + d)
    BY <1>1
  <2>2. x.todo[j + d] = s[(j + d) + k]
    BY <2>1 DEF Played
  <2>3. QED
    BY <2>1, <2>2
<1>4. k + 1 \in 1 .. k + d /\ x.todo[1] = s[k + 1]
  <2>1. 1 \in 1 .. Len(x.todo) /\ 1 + k = k + 1
    BY <1>1
  <2>2. x.todo[1] = s[1 + k]
    BY <2>1 DEF Played
  <2>3. QED
    BY <1>1, <2>1, <2>2
<1>5. \A i \in 1 .. k : i \in 1 .. k + d
  BY <1>1
<1>6. \A z \in DOMAIN y.put : \E i \in 1 .. k + d : z \in Offers(s[i], all)
  BY <1>4, <1>5 DEF Played
<1>7. \A z \in y.del : \E i \in 1 .. k + d : z \in Takes(s[i])
  BY <1>4, <1>5 DEF Played
<1>8. \A m \in k + 2 .. k + d : ~Real(s[m])
  BY DroppedAreBlind
<1>9. \/ DOMAIN y.got \subseteq all
      \/ \E i \in 1 .. k + d : /\ Real(s[i]) /\ DOMAIN y.got \subseteq s[i].rows
                               /\ \A m \in i + 1 .. k + d : ~Real(s[m])
  <2>1. CASE Real(x.todo[1])
    <3>1. \A m \in (k + 1) + 1 .. k + d : ~Real(s[m])
      BY <1>1, <1>8
    <3>2. Real(s[k + 1]) /\ DOMAIN y.got \subseteq s[k + 1].rows
      BY <2>1, <1>4
    <3>3. QED
      BY <3>1, <3>2, <1>4, Zenon
  <2>2. CASE ~Real(x.todo[1])
    <3>1. y.got = x.got
      BY <2>2
    <3>2. ASSUME NEW i \in 1 .. k, Real(s[i]), DOMAIN x.got \subseteq s[i].rows,
                 \A m \in i + 1 .. k : ~Real(s[m])
          PROVE  \E j \in 1 .. k + d : /\ Real(s[j]) /\ DOMAIN y.got \subseteq s[j].rows
                                       /\ \A m \in j + 1 .. k + d : ~Real(s[m])
      <4>1. \A m \in i + 1 .. k + d : m \in i + 1 .. k \/ m = k + 1 \/ m \in k + 2 .. k + d
        BY <1>1
      <4>2. \A m \in i + 1 .. k + d : ~Real(s[m])
        BY <4>1, <3>2, <1>4, <1>8, <2>2
      <4>3. QED
        BY <1>5, <3>1, <3>2, <4>2
    <3>3. QED
      BY <3>1, <3>2 DEF Played
  <2>3. QED
    BY <2>1, <2>2
<1>10. QED
  BY <1>2, <1>3, <1>6, <1>7, <1>9 DEF Played

\* What r makes is what its next call offers and takes.
LEMMA MakesOffered ==
    ASSUME NEW r, NEW s, NEW k, NEW e, Script(s, req[r].name, e), Played(req[r], s, k),
           Len(req[r].todo) > 0, Head(req[r].todo) = req[r].todo[1], req[r].name \notin Singles,
           NEW new, NEW out, Makes(r, new, out)
    PROVE  LET c == req[r].todo[1]
           IN /\ new \subseteq Offers(c, Others(req[r].name)) /\ out \subseteq Takes(c)
              /\ new \cap Seen(r) = {} \/ (c.op \in {"updates", "save"} /\ new \subseteq {e})
              /\ c.op = "save" /\ req[r].got = Nothing => new = {e}
<1> DEFINE c == req[r].todo[1]
           got == DOMAIN req[r].got
           name == req[r].name
           all == Others(name)
<1>1. /\ Apt(c, name, e)
      /\ c.op = "append" =>
            got \subseteq all /\ got \cup LinksOf(c.row, got) \subseteq Offers(c, all)
  BY NextOffers
<1>2. c.op \notin {"ensure", "detach", "deletefound"}
  BY <1>1 DEF Apt
<1>3. CASE new = {} /\ out = {}
  <2>1. c.op # "save" \/ req[r].got # Nothing
    BY <1>3 DEF Makes
  <2>2. QED
    BY <1>3, <2>1
<1>4. CASE c.op = "create" /\ out = {} /\ new = c.rows /\ new \cap Seen(r) = {}
  BY <1>4 DEF Offers
<1>5. CASE c.op = "append" /\ out = {} /\ new = (got \cup LinksOf(c.row, got)) \ Seen(r)
  BY <1>1, <1>5
<1>6. CASE c.op = "updates" /\ out = {} /\ new = {c.row} \cap Seen(r)
  BY <1>1, <1>6 DEF Offers, Apt
<1>7. CASE c.op = "save" /\ out = {} /\ new \subseteq {c.row} /\ (req[r].got = Nothing => new = {c.row})
  BY <1>1, <1>7 DEF Offers, Apt
<1>8. CASE c.op = "trim" /\ new = {} /\ out = LinksOf(c.row, c.rows \ got) \cap Seen(r)
  <2>1. LinksOf(c.row, c.rows \ got) \subseteq LinksOf(c.row, c.rows)
    BY LinksOfPart
  <2>2. QED
    BY <1>8, <2>1 DEF Takes
<1>9. CASE c.op = "delete" /\ new = {} /\ out = c.rows \cap Seen(r)
  BY <1>9 DEF Takes
<1>10. QED
  BY <1>2, <1>3, <1>4, <1>5, <1>6, <1>7, <1>8, <1>9 DEF Makes

\* The save of UpdateScope is its first write, before it looks for what it links.
LEMMA SaveIsFirst ==
    ASSUME NEW s, NEW e, Script(s, "UpdateScope", e), NEW b \in 1 .. Len(s), s[b].op = "save",
           NEW i \in 1 .. Len(s), s[i].op \in Changes \/ Real(s[i])
    PROVE  b <= i
<1>1. PICK a \in 1 .. Len(s) : /\ s[a].op = "save"
                               /\ \A j \in 1 .. Len(s) : s[j].op \in Changes \/ Real(s[j]) => a <= j
  BY DEF Script
<1>2. s[a].op \in Changes /\ s[b].op \in Changes
  BY <1>1 DEF Changes
<1>3. ~(a < b)
  <2>1. SUFFICES ASSUME a < b PROVE FALSE
    OBVIOUS
  <2>2. Follows(s[a], s[b], "UpdateScope", e)
    BY <1>2, <2>1 DEF Script
  <2>3. QED
    BY <2>2 DEF Follows
<1>4. a <= b /\ a <= i
  BY <1>1, <1>2
<1>5. QED
  BY <1>3, <1>4

LEMMA StepPlays ==
    ASSUME InOrder, NEW r \in Requests, Running(r), Changed(r), Plays(req[r], DOMAIN db),
           Unfinished(r)'
    PROVE  Plays(req'[r], DOMAIN db')
<1> DEFINE x == req[r]
           y == req'[r]
           c == x.todo[1]
           D == DOMAIN db
           name == x.name
           all == Others(name)
<1>1. PICK s, k, e : Script(s, name, e) /\ Played(x, s, k) /\ Stands(x, s, k, e, D)
  BY DEF Plays
<1>2. Head(x.todo) = c /\ Len(x.todo) \in Nat /\ Len(x.todo) > 0 /\ 1 \in 1 .. Len(x.todo)
  BY HeadFacts, TailIs
<1>3. Len(s) \in Nat /\ k \in Nat /\ k + 1 \in 1 .. Len(s) /\ c = s[k + 1]
  <2>1. Len(s) \in Nat
    BY <1>1, TailIs DEF Script
  <2>2. k \in Nat /\ k + 1 \in 1 .. Len(s) /\ c = s[1 + k] /\ 1 + k = k + 1
    BY <1>1, <1>2, <2>1 DEF Played
  <2>3. QED
    BY <2>1, <2>2
<1>4. name # Untied /\ name \in Singles \cup Writers
  BY <1>1 DEF Script, Singles, Writers, Makers, Setters, Deleters, Changers, Untied
<1>5. PICK n \in 1 .. Len(y.todo) : y.todo[n].op \in Changes
  BY DEF Unfinished
<1>6. ~Ended(r)
  BY <1>5, LenOfNone DEF Ended
<1>7. \A new, out : ~Published(r, new, out)
  <2>1. SUFFICES ASSUME NEW new, NEW out, Published(r, new, out) PROVE FALSE
    OBVIOUS
  <2>2. \A i \in 1 .. Len(y.todo) : y.todo[i].op = "check"
    BY <2>1, <1>4, <1>6 DEF Published
  <2>3. QED
    BY <2>2, <1>5 DEF Changes
<1>8. Quiet(r) \/ \E new, out : Makes(r, new, out) /\ Held(r, new, out)
  BY <1>7 DEF Changed
<1>9. Onward(x, y) /\ db' = db
  BY <1>6, <1>8 DEF Quiet, Held
<1>10. y.name = name
  BY <1>9 DEF Onward
<1>11. PICK d \in 1 .. 3 :
          /\ Len(y.todo) = Len(x.todo) - d
          /\ \A j \in 1 .. Len(y.todo) : y.todo[j] = x.todo[j + d]
          /\ \A i \in 2 .. d : x.todo[i].op = "begin" \/ (i = 2 /\ x.todo[1].op = "skip")
  BY <1>9 DEF Onward
<1>12. d <= Len(x.todo)
  BY <1>2, <1>5, <1>11
<1>13. \A i \in 2 .. d : ~Real(x.todo[i])
  <2> TAKE i \in 2 .. d
  <2>1. CASE x.todo[i].op = "begin"
    BY <2>1 DEF Real
  <2>2. CASE i = 2 /\ c.op = "skip"
    <3>1. 2 \in 1 .. Len(x.todo) /\ 2 + k \in 2 .. Len(s) /\ (2 + k) - 1 = k + 1
      BY <1>1, <1>2, <1>3, <1>12, <2>2 DEF Played
    <3>2. x.todo[2] = s[2 + k] /\ s[(2 + k) - 1].op = "skip"
      BY <1>1, <1>3, <2>2, <3>1 DEF Played
    <3>3. ~Real(s[2 + k])
      BY <1>1, <3>1, <3>2 DEF Script
    <3>4. QED
      BY <2>2, <3>2, <3>3
  <2>3. QED
    BY <1>11, <2>1, <2>2
<1>14. n + (k + d) \in 1 .. Len(s) /\ k + 1 < n + (k + d) /\ s[n + (k + d)].op \in Changes
  <2>1. n + d \in 1 .. Len(x.todo) /\ (n + d) + k = n + (k + d)
    BY <1>1, <1>2, <1>3, <1>11 DEF Played
  <2>2. y.todo[n] = s[(n + d) + k]
    BY <1>1, <1>11, <2>1 DEF Played
  <2>3. n + (k + d) \in 1 .. Len(s) /\ k + 1 < n + (k + d)
    BY <1>1, <1>3, <2>1 DEF Played
  <2>4. QED
    BY <1>5, <2>1, <2>2, <2>3
<1> HIDE DEF x, y, c, name, all, D
<1>15. CASE Quiet(r)
  <2>1. /\ c.op \notin Changes /\ DOMAIN y.put = DOMAIN x.put /\ y.del = x.del
        /\ IF Real(c) THEN DOMAIN y.got \subseteq c.rows ELSE y.got = x.got
    BY <1>2, <1>6, <1>15 DEF Quiet, Found, PutRows, DelRows, x, y, c
  <2>2. Played(y, s, k + d)
    BY <1>1, <1>3, <1>10, <1>11, <1>12, <1>13, <2>1, PlayedOn DEF c, name
  <2>3. Stands(y, s, k + d, e, D)
    <3>1. ASSUME name = "UpdateScope", NEW b \in 1 .. Len(s), s[b].op = "save"
          PROVE  (b <= k + d => e \in DOMAIN y.put) /\ (k + d < b => y.got = Nothing)
      <4>1. (b <= k => e \in DOMAIN x.put) /\ (k < b => x.got = Nothing)
        BY <1>1, <3>1 DEF Stands, name
      <4>2. b \in Nat /\ b # k + 1 /\ (b > k => b > k + d)
        <5>1. b # k + 1
          BY <1>3, <2>1, <3>1 DEF Changes
        <5>2. ASSUME b > k, b <= k + d PROVE FALSE
          <6>1. b - k \in 2 .. d /\ b - k \in 1 .. Len(x.todo) /\ (b - k) + k = b
            BY <1>3, <1>12, <5>1, <5>2
          <6>2. x.todo[b - k].op = "save"
            BY <1>1, <3>1, <6>1 DEF Played
          <6>3. x.todo[1].op # "skip"
            <7>1. Apt(s[k + 1], "UpdateScope", e)
              BY <1>1, <1>3, <3>1 DEF Script
            <7>2. QED
              BY <1>3, <7>1 DEF Apt, Singles, c
          <6>4. QED
            BY <1>11, <6>1, <6>2, <6>3
        <5>3. QED
          BY <1>3, <5>1, <5>2
      <4>3. Real(c) => b <= k
        <5>1. ASSUME Real(c) PROVE b <= k + 1
          BY <1>1, <1>3, <3>1, <5>1, SaveIsFirst
        <5>2. QED
          BY <1>3, <4>2, <5>1
      <4>4. QED
        BY <1>3, <2>1, <4>1, <4>2, <4>3
    <3>2. QED
      BY <1>1, <1>10, <2>1, <3>1 DEF Stands, name
  <2>4. QED
    BY <1>1, <1>9, <1>10, <2>2, <2>3 DEF Plays, D, x, y
<1>16. ASSUME NEW new, NEW out, Makes(r, new, out), Held(r, new, out)
       PROVE  Plays(req'[r], DOMAIN db')
  <2>1. /\ c.op \in Changes /\ y.got = x.got
        /\ DOMAIN y.put = new \cup (DOMAIN x.put \ out) /\ y.del = x.del \cup (out \cap D)
    BY <1>2, <1>6, <1>16 DEF Held, PutRows, DelRows, x, y, c, D
  <2>2. Follows(s[k + 1], s[n + (k + d)], name, e)
    BY <1>1, <1>3, <1>14, <2>1 DEF Script
  <2>3. name \notin Singles /\ name \in Writers /\ e \in Own(name) /\ Apt(c, name, e)
    BY <1>1, <1>3, <1>4, <2>2 DEF Follows, Script
  <2>4. /\ new \subseteq Offers(c, all) /\ out \subseteq Takes(c)
        /\ new \cap Seen(r) = {} \/ (c.op \in {"updates", "save"} /\ new \subseteq {e})
        /\ c.op = "save" /\ x.got = Nothing => new = {e}
    BY <1>1, <1>2, <1>16, <2>3, MakesOffered DEF x, c, name, all
  <2>5. ~Real(c)
    BY <2>1 DEF Real, Changes
  <2>6. /\ \A z \in DOMAIN y.put : z \in DOMAIN x.put \/ z \in Offers(c, all)
        /\ \A z \in y.del : z \in x.del \/ z \in Takes(c)
    BY <2>1, <2>4
  <2>7. Played(y, s, k + d)
    BY <1>1, <1>3, <1>10, <1>11, <1>12, <1>13, <2>1, <2>5, <2>6, PlayedOn DEF c, name, all
  <2>8. Takes(c) \cap Newcomers(name, e) = {} /\ (name \notin Deleters => e \notin Takes(c))
    BY <2>3, TakesAreOld
  <2>9. x.del \cap Newcomers(name, e) = {}
    <3>1. \A i \in 1 .. k : Takes(s[i]) \cap Newcomers(name, e) = {}
      <4> TAKE i \in 1 .. k
      <4>1. i \in 1 .. Len(s)
        BY <1>3
      <4>2. Apt(s[i], name, e)
        BY <1>1, <4>1 DEF Script
      <4>3. QED
        BY <2>3, <4>2, TakesAreOld
    <3>2. QED
      BY <1>1, <3>1 DEF Played
  <2>10. DOMAIN y.put \cap Newcomers(name, e) \cap D = {}
    <3>1. new \cap Newcomers(name, e) \cap D = {}
      <4>1. CASE new \cap Seen(r) = {}
        <5>1. D \ x.del \subseteq Seen(r)
          BY SeenIs DEF Sees, DelRows, x, D
        <5>2. QED
          BY <4>1, <5>1, <2>9
      <4>2. CASE c.op \in {"updates", "save"} /\ new \subseteq {e}
        <5>1. name \notin Makers
          BY <4>2, <2>3 DEF Apt, Makers, Setters, Changers
        <5>2. e \notin Others(name)
          BY <1>4, <2>3, OwnLinks
        <5>3. QED
          BY <4>2, <5>1, <5>2 DEF Newcomers
      <4>3. QED
        BY <2>4, <4>1, <4>2
    <3>2. DOMAIN x.put \cap Newcomers(name, e) \cap D = {}
      BY <1>1 DEF Stands, name
    <3>3. QED
      BY <2>1, <3>1, <3>2
  <2>11. y.del \subseteq D
    BY <1>1, <2>1 DEF Stands
  <2>12. ASSUME name = "UpdateScope", NEW b \in 1 .. Len(s), s[b].op = "save"
         PROVE  (b <= k + d => e \in DOMAIN y.put) /\ (k + d < b => y.got = Nothing)
    <3>1. (b <= k => e \in DOMAIN x.put) /\ (k < b => x.got = Nothing)
      BY <1>1, <2>12 DEF Stands, name
    <3>2. b <= k + 1
      BY <1>1, <1>3, <2>1, <2>12, SaveIsFirst
    <3>3. CASE b = k + 1
      <4>1. c.op = "save" /\ x.got = Nothing
        BY <1>3, <2>12, <3>1, <3>3
      <4>2. QED
        BY <1>3, <2>1, <2>4, <3>2, <4>1
    <3>4. CASE b # k + 1
      <4>1. b <= k
        BY <1>3, <3>2, <3>4
      <4>2. e \in DOMAIN x.put /\ e \notin out
        BY <2>4, <2>8, <2>12, <3>1, <4>1 DEF Deleters
      <4>3. QED
        BY <1>3, <2>1, <4>1, <4>2
    <3>5. QED
      BY <3>3, <3>4
  <2>13. Stands(y, s, k + d, e, D)
    BY <1>10, <2>10, <2>11, <2>12 DEF Stands
  <2>14. QED
    BY <1>1, <1>9, <1>10, <2>7, <2>13 DEF Plays, D, x, y
<1>17. QED
  BY <1>8, <1>15, <1>16

\* The others are where they were.
LEMMA OthersPlay ==
    ASSUME InOrder, NEW r \in Requests, NEW q \in Requests \ {r}, Respectful(r), Untouched(r),
           Plays(req[q], DOMAIN db)
    PROVE  Plays(req'[q], DOMAIN db')
<1> DEFINE x == req[q]
           y == req'[q]
           D == DOMAIN db
           E == DOMAIN db'
<1>1. PICK s, k, e : Script(s, x.name, e) /\ Played(x, s, k) /\ Stands(x, s, k, e, D)
  BY DEF Plays
<1>2. DOMAIN x = Fields
  BY DEF InOrder, Going
<1>3. y.name = x.name /\ y.todo = x.todo /\ y.put = x.put /\ y.del = x.del /\ y.got = x.got
  <2>1. y = x \/ \E gone : y = [x EXCEPT !.gone = gone]
    BY DEF Untouched
  <2>2. QED
    BY <1>2, <2>1 DEF Fields
<1>4. DOMAIN x.put \cap E \subseteq D /\ x.del \cap D \subseteq E
  BY RowsRespected DEF PutRows, DelRows
<1> HIDE DEF x, y, D, E
<1>5. Played(y, s, k)
  BY <1>1, <1>3 DEF Played
<1>6. Stands(y, s, k, e, E)
  BY <1>1, <1>3, <1>4 DEF Stands
<1>7. QED
  BY <1>1, <1>3, <1>5, <1>6 DEF Plays, y, E

LEMMA UnfinishedLater ==
    ASSUME InOrder, NEW r \in Requests, NEW q \in Requests \ {r}, Untouched(r)
    PROVE  /\ req'[q].name = req[q].name /\ req'[q].todo = req[q].todo
           /\ Unfinished(q)' <=> Unfinished(q)
           /\ PutRows(q)' = PutRows(q) /\ DelRows(q)' = DelRows(q)
<1>1. DOMAIN req[q] = Fields
  BY DEF InOrder, Going
<1>2. req'[q] = req[q] \/ \E gone : req'[q] = [req[q] EXCEPT !.gone = gone]
  BY DEF Untouched
<1>3. /\ req'[q].name = req[q].name /\ req'[q].todo = req[q].todo
      /\ req'[q].put = req[q].put /\ req'[q].del = req[q].del
  BY <1>1, <1>2 DEF Fields
<1>4. QED
  BY <1>3 DEF Unfinished, PutRows, DelRows

\* A request that has a write to come had one before the step as well.
LEMMA UnfinishedBefore ==
    ASSUME InOrder, NEW r \in Requests, Running(r), Changed(r), Unfinished(r)'
    PROVE  Unfinished(r) /\ ~Ended(r) /\ Onward(req[r], req'[r])
<1>1. ~Ended(r)
  BY LenOfNone DEF Unfinished, Ended
<1>2. Onward(req[r], req'[r])
  BY <1>1 DEF Changed, Quiet, Held, Published
<1>3. PICK n \in 1 .. Len(req'[r].todo) : req'[r].todo[n].op \in Changes
  BY DEF Unfinished
<1>4. PICK d \in 1 .. 3 : /\ Len(req'[r].todo) = Len(req[r].todo) - d
                          /\ req'[r].todo[n] = req[r].todo[n + d]
  BY <1>2 DEF Onward
<1>5. Len(req[r].todo) \in Nat
  BY HeadFacts, TailIs
<1>6. n + d \in 1 .. Len(req[r].todo)
  BY <1>4, <1>5
<1>7. QED
  BY <1>1, <1>2, <1>3, <1>4, <1>6 DEF Unfinished

LEMMA StepKeepsPlays ==
    ASSUME InOrder, IInv, AllPlay, NEW r \in Requests, Steps(r) \/ Fail(r)
    PROVE  AllPlay'
<1>1. Running(r) /\ Changed(r) /\ Respectful(r)
  BY StepGoesOn, FailGoesOn, StepsRespect
<1>2. Untouched(r)
  BY StepsAreSound, FailIsSound DEF StepSound
<1>3. ASSUME Unfinished(r)' PROVE Plays(req'[r], DOMAIN db')
  <2>1. Plays(req[r], DOMAIN db)
    BY <1>1, <1>3, UnfinishedBefore DEF AllPlay
  <2>2. QED
    BY <1>1, <1>3, <2>1, StepPlays
<1>4. ASSUME NEW q \in Requests \ {r}, Unfinished(q)' PROVE Plays(req'[q], DOMAIN db')
  <2>1. Plays(req[q], DOMAIN db)
    BY <1>2, <1>4, UnfinishedLater DEF AllPlay
  <2>2. QED
    BY <1>1, <1>2, <2>1, OthersPlay
<1>5. QED
  BY <1>3, <1>4 DEF AllPlay

\* Two rows of one kind have no link in common.
LEMMA LinksDiffer ==
    ASSUME NEW name \in Writers, NEW e \in Own(name), NEW f \in Own(name), e # f
    PROVE  LinksOf(e, Others(name)) \cap LinksOf(f, Others(name)) = {}
<1>1. e \notin Others(name) /\ f \notin Others(name)
  BY OwnLinks
<1>2. QED
  BY <1>1 DEF LinksOf

LEMMA LoneSymmetric ==
    ASSUME NEW r, NEW q, Lone(r, q)
    PROVE  Lone(q, r)
  BY DEF Lone

\* The second to delete the links of a row waits for the first.
LEMMA StepLone ==
    ASSUME InOrder, IInv, IInv', AllPlay, NEW r \in Requests, Running(r), Changed(r), Untouched(r),
           NEW q \in Requests \ {r}, Unfinished(r)', Unfinished(q), Lone(r, q)
    PROVE  Lone(r, q)'
<1> DEFINE x == req[r]
           c == x.todo[1]
           name == x.name
           D == DOMAIN db
<1>1. Unfinished(r) /\ ~Ended(r) /\ Onward(x, req'[r]) /\ req'[r].name = name
  BY UnfinishedBefore DEF Onward
<1>2. req'[q].name = req[q].name /\ DelRows(q)' = DelRows(q)
  BY UnfinishedLater
<1>3. SUFFICES ASSUME name = req[q].name, name \in Exchangers, NEW f \in Own(name)
               PROVE  \/ LinksOf(f, SecondKind(name)) \cap DelRows(r)' = {}
                      \/ LinksOf(f, SecondKind(name)) \cap DelRows(q) = {}
  BY <1>1, <1>2 DEF Lone
<1>4. \/ LinksOf(f, SecondKind(name)) \cap DelRows(r) = {}
      \/ LinksOf(f, SecondKind(name)) \cap DelRows(q) = {}
  BY <1>3 DEF Lone
<1>5. name \in Writers /\ name \notin Singles /\ name \notin Deleters /\ name \notin Replacers /\ name # Untied
  BY <1>3 DEF Exchangers, Writers, Changers, Singles, Deleters, Replacers, Untied
<1>6. FirstKind(name) = SecondKind(name) /\ Others(name) = SecondKind(name)
  BY <1>3 DEF Exchangers, FirstKind, SecondKind, Others, OfRoles, OfScopes
<1>7. PICK s, k, e : Script(s, name, e) /\ Played(x, s, k) /\ Stands(x, s, k, e, D)
  BY <1>1 DEF AllPlay, Plays
<1>8. Head(x.todo) = c /\ Len(x.todo) > 0
  BY HeadFacts, TailIs
<1>9. Apt(c, name, e) /\ e \in Own(name)
  BY <1>5, <1>7, <1>8, NextOffers DEF Script
<1>10. \A new, out : ~Published(r, new, out)
  <2>1. SUFFICES ASSUME NEW new, NEW out, Published(r, new, out) PROVE FALSE
    OBVIOUS
  <2>2. \A i \in 1 .. Len(req'[r].todo) : req'[r].todo[i].op = "check"
    BY <1>1, <1>5, <2>1 DEF Published
  <2>3. QED
    BY <2>2 DEF Changes, Unfinished
<1>11. CASE Quiet(r)
  BY <1>1, <1>4, <1>11 DEF Quiet
<1>12. ASSUME NEW new, NEW out, Makes(r, new, out), Held(r, new, out)
       PROVE  \/ LinksOf(f, SecondKind(name)) \cap DelRows(r)' = {}
              \/ LinksOf(f, SecondKind(name)) \cap DelRows(q) = {}
  <2>1. DelRows(r)' = DelRows(r) \cup (out \cap D)
    BY <1>1, <1>12 DEF Held
  <2>2. CASE c.op # "delete"
    <3>1. out \subseteq Takes(c)
      BY <1>5, <1>7, <1>8, <1>12, MakesOffered
    <3>2. Takes(c) = {}
      BY <1>5, <1>9, <2>2 DEF Takes, Apt
    <3>3. QED
      BY <1>4, <2>1, <3>1, <3>2
  <2>3. CASE c.op = "delete"
    <3>1. out = LinksOf(e, SecondKind(name)) \cap Seen(r)
      <4>1. c.rows = LinksOf(e, SecondKind(name))
        BY <1>5, <1>6, <1>9, <2>3 DEF Apt
      <4>2. out = c.rows \cap Seen(r)
        BY <1>8, <1>12, <2>3 DEF Makes
      <4>3. QED
        BY <4>1, <4>2
    <3>2. CASE f # e
      <4>1. LinksOf(f, SecondKind(name)) \cap LinksOf(e, SecondKind(name)) = {}
        BY <1>5, <1>6, <1>9, <3>2, LinksDiffer
      <4>2. QED
        BY <1>4, <2>1, <3>1, <4>1
    <3>3. CASE f = e
      <4>1. SUFFICES ASSUME NEW z \in LinksOf(e, SecondKind(name)), z \in DelRows(q) PROVE FALSE
        BY <3>3
      <4>2. z \in D
        BY <4>1 DEF AllPlay, Plays, Stands, DelRows
      <4>3. z \notin DelRows(r)
        BY <4>1 DEF IInv, AllApart, Apart
      <4>4. z \in Seen(r)
        BY <4>2, <4>3, SeenIs DEF Sees
      <4>5. z \in DelRows(r)' /\ z \in DelRows(q)'
        BY <1>2, <2>1, <3>1, <4>1, <4>2, <4>4
      <4>6. QED
        BY <4>5 DEF IInv, AllApart, Apart
    <3>4. QED
      BY <3>2, <3>3
  <2>4. QED
    BY <2>2, <2>3
<1>13. QED
  BY <1>10, <1>11, <1>12 DEF Changed

LEMMA StepKeepsLone ==
    ASSUME InOrder, IInv, IInv', AllPlay, AllLone, NEW r \in Requests, Steps(r) \/ Fail(r)
    PROVE  AllLone'
<1>1. Running(r) /\ Changed(r) /\ Untouched(r)
  BY StepGoesOn, FailGoesOn, StepsAreSound, FailIsSound DEF StepSound
<1>2. Unfinished(r)' => Unfinished(r)
  BY <1>1, UnfinishedBefore
<1>3. \A p \in Requests \ {r} :
         (Unfinished(p)' <=> Unfinished(p)) /\ req'[p].name = req[p].name /\ DelRows(p)' = DelRows(p)
  BY <1>1, UnfinishedLater
<1>4. ASSUME NEW q \in Requests \ {r}, Unfinished(r)', Unfinished(q)'
      PROVE  Lone(r, q)' /\ Lone(q, r)'
  <2>1. Unfinished(q) /\ Lone(r, q)
    BY <1>2, <1>3, <1>4 DEF AllLone
  <2>2. Lone(r, q)'
    BY <1>1, <1>4, <2>1, StepLone
  <2>3. QED
    BY <2>2 DEF Lone
<1>5. ASSUME NEW p \in Requests \ {r}, NEW q \in Requests \ {r}, p # q, Unfinished(p)', Unfinished(q)'
      PROVE  Lone(p, q)'
  <2>1. Lone(p, q)
    BY <1>3, <1>5 DEF AllLone
  <2>2. QED
    BY <1>3, <2>1 DEF Lone
<1>6. QED
  BY <1>4, <1>5 DEF AllLone

----------------------------------------------------------------------------
(* The calls of every handler are such. *)

LEMMA WriteKinds ==
    /\ \A x, set : Updates(x, set).row = x
    /\ \A x, Y : Trim(x, Y).row = x /\ Trim(x, Y).rows = Y
    /\ \A X : Delete(X).rows = X
  BY DEF Updates, Trim, Delete

LEMMA ClassesApart ==
    \A name :
       /\ name \in Singles => name \notin Writers
       /\ name \in Writers <=> name \in Makers \cup Setters \cup Deleters \cup Changers
       /\ name \in Makers => name \notin Setters \cup Deleters \cup Changers
       /\ name \in Setters => name \notin Deleters \cup Changers
       /\ name \in Deleters => name \notin Changers
       /\ name \in Changers <=> name \in Replacers \cup Exchangers
       /\ name \in Replacers => name \notin Exchangers
  BY DEF Singles, Writers, Makers, Setters, Deleters, Changers, Replacers, Exchangers

LEMMA AptCalls ==
    ASSUME NEW name, NEW e
    PROVE  /\ \A c : c.op \in Looks \cup {"begin", "commit"} => Apt(c, name, e)
           /\ name \in Makers => \A c : c.op = "create" /\ c.rows = {e} => Apt(c, name, e)
           /\ name \in Setters \cup (Changers \ {"UpdateUserRoles"}) =>
                 (\A set : Apt(Updates(e, set), name, e)) /\ Apt(Save(e), name, e)
           /\ name \notin Deleters => Apt(Associate(e), name, e)
           /\ name \in Replacers => \A Y \in SUBSET Others(name) : Apt(Trim(e, Y), name, e)
           /\ name \in Deleters \cup (Changers \ {"UpdateScope"}) =>
                 /\ Apt(Delete(LinksOf(e, FirstKind(name))), name, e)
                 /\ Apt(Delete(LinksOf(e, SecondKind(name))), name, e)
           /\ name \in Deleters => Apt(Delete({e}), name, e)
<1>1. \A c : c.op \in Looks \cup {"begin", "commit"} => Apt(c, name, e)
  BY DEF Apt, Looks
<1>2. name \in Makers => \A c : c.op = "create" /\ c.rows = {e} => Apt(c, name, e)
  BY DEF Apt
<1>3. name \in Setters \cup (Changers \ {"UpdateUserRoles"}) =>
         (\A set : Apt(Updates(e, set), name, e)) /\ Apt(Save(e), name, e)
  BY Kinds, RowKinds, WriteKinds DEF Apt
<1>4. name \notin Deleters => Apt(Associate(e), name, e)
  BY Kinds, RowKinds DEF Apt
<1>5. name \in Replacers => \A Y \in SUBSET Others(name) : Apt(Trim(e, Y), name, e)
  BY Kinds, WriteKinds, ClassesApart DEF Apt
<1>6. name \in Deleters \cup (Changers \ {"UpdateScope"}) =>
         /\ Apt(Delete(LinksOf(e, FirstKind(name))), name, e)
         /\ Apt(Delete(LinksOf(e, SecondKind(name))), name, e)
  BY Kinds, WriteKinds, ClassesApart DEF Apt
<1>7. name \in Deleters => Apt(Delete({e}), name, e)
  BY Kinds, WriteKinds, ClassesApart DEF Apt
<1>8. QED
  BY <1>1, <1>2, <1>3, <1>4, <1>5, <1>6, <1>7

\* k calls in a tuple.
LEMMA TupleScript ==
    ASSUME NEW s, NEW k \in Nat \ {0}, Tuple(s, k), NEW name \in Singles \cup Writers, NEW e \in Own(name),
           \A i \in 1 .. k : Apt(s[i], name, e) /\ (Real(s[i]) => s[i].rows \subseteq Others(name)),
           \A i, j \in 1 .. k : i < j /\ s[i].op \in Changes /\ s[j].op \in Changes => Follows(s[i], s[j], name, e),
           \A i \in 2 .. k : s[i - 1].op = "skip" => ~Real(s[i]),
           name = "UpdateScope" =>
              \E b \in 1 .. k : /\ s[b].op = "save"
                                /\ \A i \in 1 .. k : s[i].op \in Changes \/ Real(s[i]) => b <= i
    PROVE  Script(s, name, e) /\ s # <<>>
<1>1. Calls(s) /\ Len(s) = k /\ s # <<>>
  BY TupleSome
<1>2. \A i, j \in 1 .. Len(s) : Feeds(s, i, j) => s[i].rows \subseteq Others(name)
  BY <1>1 DEF Feeds
<1>3. \A i \in 1 .. Len(s) : Apt(s[i], name, e)
  BY <1>1
<1>4. \A i, j \in 1 .. Len(s) :
         i < j /\ s[i].op \in Changes /\ s[j].op \in Changes => Follows(s[i], s[j], name, e)
  BY <1>1
<1>5. \A i \in 2 .. Len(s) : s[i - 1].op = "skip" => ~Real(s[i])
  BY <1>1
<1>6. name = "UpdateScope" =>
         \E b \in 1 .. Len(s) :
            /\ s[b].op = "save"
            /\ \A i \in 1 .. Len(s) : s[i].op \in Changes \/ Real(s[i]) => b <= i
  BY <1>1
<1>7. QED
  BY <1>1, <1>2, <1>3, <1>4, <1>5, <1>6 DEF Script

\* Calls that go together.
Part(s, name, e) ==
    /\ Calls(s) /\ SelfFed(s)
    /\ \A i \in 1 .. Len(s) : Apt(s[i], name, e) /\ s[i].op # "skip"
    /\ \A i, j \in 1 .. Len(s) :
          i < j /\ s[i].op \in Changes /\ s[j].op \in Changes => Follows(s[i], s[j], name, e)
    /\ \A i, j \in 1 .. Len(s) : s[j].op = "append" /\ Feeds(s, i, j) => s[i].rows \subseteq Others(name)

LEMMA PartScript ==
    ASSUME NEW s, NEW name \in Singles \cup Writers, NEW e \in Own(name), name # "UpdateScope",
           Part(s, name, e)
    PROVE  Script(s, name, e)
<1>1. \A i \in 2 .. Len(s) : s[i - 1].op # "skip"
  <2> TAKE i \in 2 .. Len(s)
  <2>1. i - 1 \in 1 .. Len(s)
    BY TailIs DEF Part
  <2>2. QED
    BY <2>1 DEF Part
<1>2. QED
  BY <1>1 DEF Part, Script

LEMMA TuplePart ==
    ASSUME NEW s, NEW k \in Nat, Tuple(s, k), NEW name, NEW e, SelfFed(s),
           \A i \in 1 .. k : /\ Apt(s[i], name, e) /\ s[i].op # "skip"
                             /\ Real(s[i]) => s[i].rows \subseteq Others(name),
           \A i, j \in 1 .. k : i < j /\ s[i].op \in Changes /\ s[j].op \in Changes => Follows(s[i], s[j], name, e)
    PROVE  Part(s, name, e)
<1>1. Calls(s) /\ Len(s) = k
  BY TupleIs
<1>2. QED
  BY <1>1 DEF Part, Feeds

LEMMA LooksPart ==
    ASSUME NEW s, NEW name, NEW e, Calls(s), \A i \in 1 .. Len(s) : s[i].op \in Looks \cup {"begin", "commit"}
    PROVE  Part(s, name, e) /\ \A i \in 1 .. Len(s) : s[i].op \notin Changes
<1>1. \A c : c.op \in Looks \cup {"begin", "commit"} => c.op \notin Changes \cup {"append", "skip"}
  BY DEF Looks, Changes
<1>2. \A i \in 1 .. Len(s) : s[i].op \notin Changes \cup {"append", "skip"} /\ Apt(s[i], name, e)
  BY <1>1, AptCalls
<1>3. QED
  BY <1>2 DEF Part, SelfFed

LEMMA PartOn ==
    ASSUME NEW s, NEW t, NEW name, NEW e, Part(s, name, e), Part(t, name, e),
           \A i \in 1 .. Len(s), j \in 1 .. Len(t) :
              s[i].op \in Changes /\ t[j].op \in Changes => Follows(s[i], t[j], name, e)
    PROVE  Part(s \o t, name, e)
<1> DEFINE st == s \o t
           l == Len(s)
<1>1. Calls(s) /\ Calls(t)
  BY DEF Part
<1>2. /\ Calls(st) /\ l \in Nat /\ Len(t) \in Nat /\ Len(st) = l + Len(t)
      /\ \A i \in 1 .. l : st[i] = s[i]
      /\ \A i \in 1 .. Len(t) : st[l + i] = t[i]
      /\ \A i \in 1 .. Len(st) :
            \/ i \in 1 .. l /\ st[i] = s[i]
            \/ \E j \in 1 .. Len(t) : i = l + j /\ st[i] = t[j]
  BY <1>1, Concatenation
<1>3. SelfFed(st)
  BY <1>1, SelfFedOn DEF Part
<1> HIDE DEF st, l
<1>4. \A i \in 1 .. Len(st) : Apt(st[i], name, e) /\ st[i].op # "skip"
  BY <1>2 DEF Part, l
<1>5. ASSUME NEW i \in 1 .. Len(st), NEW j \in 1 .. Len(st), i < j, st[i].op \in Changes, st[j].op \in Changes
      PROVE  Follows(st[i], st[j], name, e)
  <2>1. CASE j \in 1 .. l
    <3>1. i \in 1 .. l /\ st[i] = s[i] /\ st[j] = s[j]
      BY <1>2, <1>5, <2>1
    <3>2. QED
      BY <1>5, <2>1, <3>1 DEF Part, l
  <2>2. ASSUME NEW b \in 1 .. Len(t), j = l + b, st[j] = t[b] PROVE Follows(st[i], st[j], name, e)
    <3>1. CASE i \in 1 .. l
      BY <1>2, <1>5, <2>2, <3>1 DEF l
    <3>2. ASSUME NEW a \in 1 .. Len(t), i = l + a, st[i] = t[a] PROVE Follows(st[i], st[j], name, e)
      <4>1. a < b
        BY <1>2, <1>5, <2>2, <3>2
      <4>2. QED
        BY <1>5, <2>2, <3>2, <4>1 DEF Part
    <3>3. QED
      BY <1>2, <3>1, <3>2
  <2>3. QED
    BY <1>2, <2>1, <2>2
<1>6. ASSUME NEW i \in 1 .. Len(st), NEW j \in 1 .. Len(st), st[j].op = "append", Feeds(st, i, j)
      PROVE  st[i].rows \subseteq Others(name)
  <2>1. i < j /\ Real(st[i]) /\ \A m \in i + 1 .. j - 1 : ~Real(st[m])
    BY <1>6 DEF Feeds
  <2>2. CASE j \in 1 .. l
    <3>0. i \in 1 .. l /\ \A m \in i + 1 .. j - 1 : m \in 1 .. l
      BY <1>2, <2>1, <2>2
    <3>1. i \in 1 .. l /\ st[i] = s[i] /\ st[j] = s[j] /\ \A m \in i + 1 .. j - 1 : st[m] = s[m]
      BY <1>2, <2>2, <3>0
    <3>2. Feeds(s, i, j)
      BY <2>1, <3>1 DEF Feeds
    <3>3. QED
      BY <1>6, <2>2, <3>1, <3>2 DEF Part, l
  <2>3. ASSUME NEW b \in 1 .. Len(t), j = l + b, st[j] = t[b] PROVE st[i].rows \subseteq Others(name)
    <3>1. PICK n \in 1 .. b - 1 : Real(t[n])
      BY <1>6, <2>3 DEF Part, SelfFed
    <3>2. n \in 1 .. Len(t) /\ st[l + n] = t[n] /\ l + n \in 1 .. j - 1
      BY <1>2, <2>3
    <3>3. l + n <= i
      <4>1. i \in Int /\ j \in Int /\ l + n \in Int
        BY <1>2, <2>3
      <4>2. SUFFICES ASSUME i < l + n PROVE FALSE
        BY <4>1
      <4>3. l + n \in i + 1 .. j - 1
        BY <3>2, <4>1, <4>2
      <4>4. ~Real(st[l + n])
        BY <2>1, <4>3
      <4>5. QED
        BY <3>1, <3>2, <4>4
    <3>4. i \notin 1 .. l
      BY <1>2, <3>2, <3>3
    <3>5. PICK a \in 1 .. Len(t) : i = l + a /\ st[i] = t[a]
      BY <1>2, <3>4
    <3>6. \A m \in a + 1 .. b - 1 : ~Real(t[m])
      <4> TAKE m \in a + 1 .. b - 1
      <4>1. m \in 1 .. Len(t) /\ l + m \in i + 1 .. j - 1
        <5>1. a \in Nat /\ b \in Nat /\ l \in Nat /\ b <= Len(t) /\ Len(t) \in Nat /\ i = l + a /\ j = l + b /\ a >= 1
          BY <1>2, <2>3, <3>5
        <5>2. QED
          BY <5>1
      <4>2. st[l + m] = t[m]
        BY <1>2, <4>1
      <4>3. QED
        BY <2>1, <4>1, <4>2
    <3>7. a < b
      BY <1>2, <2>1, <2>3, <3>5
    <3>8. Feeds(t, a, b)
      BY <2>1, <3>5, <3>6, <3>7 DEF Feeds
    <3>9. QED
      BY <1>6, <2>3, <3>5, <3>8 DEF Part
  <2>4. QED
    BY <1>2, <2>2, <2>3
<1>7. QED
  BY <1>2, <1>3, <1>4, <1>5, <1>6 DEF Part, st

\* How a request begins its part.
LEMMA BegunPlays ==
    ASSUME NEW x, DOMAIN x = Fields, NEW e, NEW D, Script(x.todo, x.name, e), x.todo # <<>>, x.put = Nothing,
           x.del = {}, DOMAIN x.got \subseteq Others(x.name), x.name = "UpdateScope" => x.got = Nothing
    PROVE  Plays(Begun(x), D) /\ Begun(x).del = {}
<1> DEFINE y == [x EXCEPT !.todo = Tail(@), !.open = TRUE]
           s == x.todo
<1>1. Begun(x) = IF Head(s).op = "begin" THEN y ELSE x
  BY DEF Begun
<1>2. /\ y.todo = Tail(s) /\ y.name = x.name /\ y.got = x.got /\ y.put = x.put /\ y.del = x.del
  BY DEF Fields
<1>3. /\ Head(s) = s[1] /\ Len(s) \in Nat /\ Len(s) > 0 /\ Len(Tail(s)) = Len(s) - 1
      /\ \A j \in 1 .. Len(Tail(s)) : Tail(s)[j] = s[j + 1]
  BY TailIs DEF Script
<1> HIDE DEF y, s
<1>4. DOMAIN x.put = {}
  BY NothingDomain
<1>5. CASE s[1].op = "begin"
  <2>1. Played(y, s, 1)
    BY <1>2, <1>3, <1>4 DEF Played
  <2>2. \A b \in 1 .. Len(s) : s[b].op = "save" => ~(b <= 1)
    BY <1>5
  <2>3. Stands(y, s, 1, e, D)
    BY <1>2, <1>4, <2>2 DEF Stands
  <2>4. QED
    BY <1>1, <1>2, <1>3, <1>5, <2>1, <2>3 DEF Plays, s
<1>6. CASE s[1].op # "begin"
  <2>1. Played(x, s, 0)
    BY <1>3, <1>4 DEF Played, s
  <2>2. Stands(x, s, 0, e, D)
    BY <1>4 DEF Stands
  <2>3. QED
    BY <1>1, <1>3, <1>6, <2>1, <2>2 DEF Plays, s
<1>7. QED
  BY <1>5, <1>6

LEMMA EntersPlay ==
    ASSUME AllPlay, AllLone, NEW r \in Requests, db' = db, \A q \in Requests \ {r} : req'[q] = req[q],
           req'[r].todo = <<>> \/ (Plays(req'[r], DOMAIN db) /\ req'[r].del = {})
    PROVE  AllPlay' /\ AllLone'
<1>1. ASSUME Unfinished(r)' PROVE Plays(req'[r], DOMAIN db') /\ DelRows(r)' = {}
  <2>1. req'[r].todo # <<>>
    BY <1>1, LenOfNone DEF Unfinished
  <2>2. QED
    BY <2>1 DEF DelRows
<1>2. \A q \in Requests \ {r} : Unfinished(q)' => Unfinished(q) /\ req'[q] = req[q]
  BY DEF Unfinished
<1>3. AllPlay'
  BY <1>1, <1>2 DEF AllPlay
<1>4. ASSUME NEW p \in Requests, NEW q \in Requests, p # q, Unfinished(p)', Unfinished(q)'
      PROVE  Lone(p, q)'
  <2>1. CASE p = r \/ q = r
    BY <1>1, <1>4, <2>1 DEF Lone
  <2>2. CASE p # r /\ q # r
    <3>1. Lone(p, q)
      BY <1>2, <1>4, <2>2 DEF AllLone
    <3>2. QED
      BY <1>2, <2>2, <3>1 DEF Lone, DelRows
  <2>3. QED
    BY <2>1, <2>2
<1>5. QED
  BY <1>3, <1>4 DEF AllLone

LEMMA ServePlays ==
    ASSUME InOrder, AllPlay, AllLone, NEW r \in Requests, NEW name, NEW may, NEW asked, NEW calls,
           Serve(r, name, may, asked, calls), NEW e, Script(calls, name, e), calls # <<>>
    PROVE  AllPlay' /\ AllLone'
<1> DEFINE first == [Idle EXCEPT !.name = name, !.todo = calls, !.asked = asked]
           refused == [Idle EXCEPT !.answer = "error"]
<1>1. req' = [req EXCEPT ![r] = Begun(first)] \/ req' = [req EXCEPT ![r] = refused]
  BY DEF Serve
<1>2. /\ DOMAIN first = Fields /\ first.todo = calls /\ first.name = name
      /\ first.put = Nothing /\ first.got = Nothing /\ first.del = {}
      /\ refused.todo = <<>>
  BY DEF Idle, Fields
<1> HIDE DEF first, refused
<1>3. Plays(Begun(first), DOMAIN db) /\ Begun(first).del = {}
  BY <1>2, BegunPlays, NothingDomain
<1>4. db' = db /\ DOMAIN req = Requests
  BY DEF Serve, InOrder
<1>5. (req'[r] = Begun(first) \/ req'[r].todo = <<>>) /\ \A q \in Requests \ {r} : req'[q] = req[q]
  BY <1>1, <1>2, <1>4
<1>6. QED
  BY <1>3, <1>4, <1>5, EntersPlay

LEMMA ServeWithPlays ==
    ASSUME InOrder, AllPlay, AllLone, NEW r \in Requests, NEW name, NEW got, NEW calls,
           ServeWith(r, name, got, calls), NEW e, Script(calls, name, e), calls # <<>>,
           got \subseteq Others(name), name # "UpdateScope"
    PROVE  AllPlay' /\ AllLone'
<1> DEFINE have == [x \in got |-> db[x]]
           first == [Idle EXCEPT !.name = name, !.todo = calls, !.got = have]
<1>1. req' = [req EXCEPT ![r] = Begun(first)]
  BY DEF ServeWith
<1>2. /\ DOMAIN first = Fields /\ first.todo = calls /\ first.name = name
      /\ first.put = Nothing /\ first.got = have /\ first.del = {}
  BY DEF Idle, Fields
<1>3. DOMAIN have = got
  OBVIOUS
<1> HIDE DEF first, have
<1>4. Plays(Begun(first), DOMAIN db) /\ Begun(first).del = {}
  BY <1>2, <1>3, BegunPlays
<1>5. db' = db /\ DOMAIN req = Requests
  BY DEF ServeWith, InOrder
<1>6. req'[r] = Begun(first) /\ \A q \in Requests \ {r} : req'[q] = req[q]
  BY <1>1, <1>5
<1>7. QED
  BY <1>4, <1>5, <1>6, EntersPlay

LEMMA FollowsIf ==
    ASSUME NEW name, NEW e, NEW c, NEW d, d.op \notin {"create", "updates", "save"},
           \/ name \in Makers \cup Setters \cup Exchangers /\ c.op # "append"
           \/ name = "UpdateTargetUserProfile"
           \/ /\ name \in Deleters /\ c.op # "append"
              /\ \/ c.rows = LinksOf(e, FirstKind(name)) /\ d.rows \in {LinksOf(e, SecondKind(name)), {e}}
                 \/ c.rows = LinksOf(e, SecondKind(name)) /\ d.rows = {e}
    PROVE  Follows(c, d, name, e)
<1>1. name \in Replacers => name \in {"UpdateScope", "UpdateTargetUserProfile"}
  BY DEF Replacers
<1>2. name \notin Singles /\ name # "UpdateScope" /\ (name \in Deleters => name # "UpdateTargetUserProfile")
  BY DEF Singles, Makers, Setters, Exchangers, Deleters
<1>3. name \in Makers \cup Setters \cup Exchangers => name \notin Replacers \cup Deleters
  BY ClassesApart
<1>4. name \in Deleters => name \notin Replacers
  BY ClassesApart
<1>5. name \notin Replacers => c.op # "append"
  BY <1>1, <1>2, <1>3, <1>4 DEF Replacers
<1>6. name \in Deleters =>
         \/ c.rows = LinksOf(e, FirstKind(name)) /\ d.rows \in {LinksOf(e, SecondKind(name)), {e}}
         \/ c.rows = LinksOf(e, SecondKind(name)) /\ d.rows = {e}
  BY <1>2, <1>3
<1>7. QED
  BY <1>2, <1>5, <1>6 DEF Follows

\* Of every handler.
LEMMA KindsOf ==
    /\ \A name \in {"CreateRole", "UpdateRoleByID"} :
          Own(name) = Roles /\ FirstKind(name) = Scopes /\ SecondKind(name) = Scopes /\ Others(name) = Scopes
    /\ \A name \in {"CreateScope", "UpdateScope"} :
          Own(name) = Scopes /\ FirstKind(name) = Catalogs /\ SecondKind(name) = Catalogs
          /\ Others(name) = Catalogs
    /\ Own("DeleteRole") = Roles /\ FirstKind("DeleteRole") = Users /\ SecondKind("DeleteRole") = Scopes
    /\ Own("DeleteScope") = Scopes /\ FirstKind("DeleteScope") = Catalogs /\ SecondKind("DeleteScope") = Roles
    /\ \A name \in {"UpdateTargetUserProfile", "Login", "DeleteUser"} :
          Own(name) = Users /\ FirstKind(name) = Roles /\ SecondKind(name) = Groups
          /\ Others(name) = Roles \cup Groups
    /\ \A name \in Singles \cup {"CreateUserAndAttachRoles", "UpdateUserRoles", "UpdateUserProfile"} :
          Own(name) = Users /\ FirstKind(name) = Roles /\ SecondKind(name) = Roles /\ Others(name) = Roles
<1>1. /\ Own("DeleteRole") = Roles /\ FirstKind("DeleteRole") = Users /\ SecondKind("DeleteRole") = Scopes
      /\ Own("DeleteScope") = Scopes /\ FirstKind("DeleteScope") = Catalogs /\ SecondKind("DeleteScope") = Roles
  BY DEF Own, FirstKind, SecondKind, OfRoles, OfScopes
<1>2. \A name \in {"CreateRole", "UpdateRoleByID"} :
         Own(name) = Roles /\ FirstKind(name) = Scopes /\ SecondKind(name) = Scopes
  BY DEF Own, FirstKind, SecondKind, OfRoles, OfScopes
<1>3. \A name \in {"CreateScope", "UpdateScope"} :
         Own(name) = Scopes /\ FirstKind(name) = Catalogs /\ SecondKind(name) = Catalogs
  BY DEF Own, FirstKind, SecondKind, OfRoles, OfScopes
<1>4. \A name \in {"UpdateTargetUserProfile", "Login", "DeleteUser"} :
         Own(name) = Users /\ FirstKind(name) = Roles /\ SecondKind(name) = Groups
  BY DEF Own, FirstKind, SecondKind, OfRoles, OfScopes
<1>5. \A name \in Singles \cup {"CreateUserAndAttachRoles", "UpdateUserRoles", "UpdateUserProfile"} :
         Own(name) = Users /\ FirstKind(name) = Roles /\ SecondKind(name) = Roles
  BY DEF Own, FirstKind, SecondKind, OfRoles, OfScopes, Singles
<1>6. QED
  BY <1>1, <1>2, <1>3, <1>4, <1>5 DEF Others

LEMMA RefsOfLinks == \A x \in Links : Refs(x) = x
<1>1. \A x \in Links : x \notin Groups
  BY DistinctAssumption DEF Entities
<1>2. QED
  BY <1>1 DEF Refs

\* What r, whose own row is e, holds when its next call writes and it has written before.
Stance(r, e) ==
    LET c == Head(req[r].todo)
        name == req[r].name
        P == PutRows(r)
        B == DelRows(r)
        D == DOMAIN db
    IN /\ name \in Writers /\ e \in Own(name)
       /\ Apt(c, name, e) /\ c.op \in Changes \ {"create", "updates", "save"}
       /\ P \subseteq {e} \cup Others(name) \cup LinksOf(e, Others(name))
       /\ name \notin Replacers => P \subseteq {e}
       /\ name \in Deleters \cup {"UpdateUserRoles"} => P = {}
       /\ P \cap Newcomers(name, e) \cap D = {}
       /\ B \subseteq LinksOf(e, FirstKind(name)) \cup LinksOf(e, SecondKind(name)) /\ B \subseteq D
       /\ name \in Makers \cup Setters \cup {"UpdateScope"} => B = {}
       /\ name \in Deleters =>
             \/ c.rows = {e}
             \/ c.rows = LinksOf(e, SecondKind(name)) /\ B \subseteq LinksOf(e, FirstKind(name))
       /\ name = "UpdateScope" => e \in P /\ (c.op = "append" => P \subseteq {e})
       /\ c.op = "append" => DOMAIN req[r].got \subseteq Others(name)

\* What an earlier call may have added or deleted.
LEMMA EarlierCalls ==
    ASSUME NEW name \in Writers, NEW e \in Own(name), NEW c, NEW d, Apt(c, name, e), Follows(c, d, name, e)
    PROVE  /\ Offers(c, Others(name)) \subseteq {e} \cup Others(name) \cup LinksOf(e, Others(name))
           /\ name \notin Replacers => Offers(c, Others(name)) \subseteq {e}
           /\ name \in Deleters \cup {"UpdateUserRoles"} => Offers(c, Others(name)) = {}
           /\ Takes(c) \subseteq LinksOf(e, FirstKind(name)) \cup LinksOf(e, SecondKind(name))
           /\ name \in Makers \cup Setters \cup {"UpdateScope"} => Takes(c) = {}
           /\ name \in Deleters =>
                 \/ d.rows = {e}
                 \/ d.rows = LinksOf(e, SecondKind(name)) /\ Takes(c) \subseteq LinksOf(e, FirstKind(name))
           /\ name = "UpdateScope" /\ d.op = "append" => Offers(c, Others(name)) \subseteq {e}
<1>1. /\ name \notin Singles
      /\ name \in Makers => name \notin Setters \cup Deleters \cup Changers
      /\ name \in Setters => name \notin Deleters \cup Changers
      /\ name \in Deleters => name \notin Changers
      /\ name \in Changers <=> name \in Replacers \cup Exchangers
      /\ name \in Replacers => name \notin Exchangers
  BY ClassesApart
<1>2. "UpdateUserRoles" \in Exchangers /\ "UpdateScope" \in Replacers
  BY DEF Exchangers, Replacers
<1>3. CASE c.op = "create"
  <2>1. Offers(c, Others(name)) = {e} /\ Takes(c) = {} /\ name \in Makers
    BY <1>1, <1>3 DEF Offers, Takes, Apt
  <2>2. QED
    BY <1>1, <1>2, <2>1
<1>4. CASE c.op \in {"updates", "save"}
  <2>1. Offers(c, Others(name)) = {e} /\ Takes(c) = {} /\ name \in Setters \cup (Changers \ {"UpdateUserRoles"})
    BY <1>1, <1>4 DEF Offers, Takes, Apt
  <2>2. QED
    BY <1>1, <1>2, <2>1
<1>5. CASE c.op = "append"
  <2>1. /\ Offers(c, Others(name)) = Others(name) \cup LinksOf(e, Others(name)) /\ Takes(c) = {}
        /\ name \in Replacers /\ ~(name = "UpdateScope" /\ d.op = "append")
    BY <1>1, <1>5 DEF Offers, Takes, Apt, Follows
  <2>2. QED
    BY <1>1, <1>2, <2>1
<1>6. CASE c.op = "trim"
  <2>1. /\ Offers(c, Others(name)) = {} /\ Takes(c) = LinksOf(e, c.rows) /\ c.rows \subseteq Others(name)
        /\ name \in Replacers /\ name # "UpdateScope"
    BY <1>1, <1>6 DEF Offers, Takes, Apt, Follows
  <2>2. Takes(c) \subseteq LinksOf(e, FirstKind(name)) \cup LinksOf(e, SecondKind(name))
    BY <2>1 DEF LinksOf, Others
  <2>3. QED
    BY <1>1, <1>2, <2>1, <2>2
<1>7. CASE c.op = "delete"
  <2>1. Offers(c, Others(name)) = {} /\ Takes(c) = c.rows
    BY <1>7 DEF Offers, Takes
  <2>2. CASE name \in Deleters
    BY <1>1, <1>2, <2>1, <2>2 DEF Follows
  <2>3. CASE name \notin Deleters
    <3>1. /\ name \in Changers \ {"UpdateScope"}
          /\ c.rows \in {LinksOf(e, FirstKind(name)), LinksOf(e, SecondKind(name))}
      BY <1>1, <1>7, <2>3 DEF Apt
    <3>2. QED
      BY <1>1, <2>1, <2>3, <3>1
  <2>4. QED
    BY <2>2, <2>3
<1>8. CASE c.op \notin {"create", "updates", "save", "append", "trim", "delete"}
  <2>1. Offers(c, Others(name)) = {} /\ Takes(c) = {}
    BY <1>8 DEF Offers, Takes
  <2>2. QED
    BY <1>1, <2>1 DEF Follows
<1>9. QED
  BY <1>3, <1>4, <1>5, <1>6, <1>7, <1>8

LEMMA TakesStance ==
    ASSUME InOrder, AllPlay, NEW r \in Requests, Running(r), Head(req[r].todo).op \in Changes,
           PutRows(r) \cup DelRows(r) # {}
    PROVE  \E e \in Own(req[r].name) : Stance(r, e)
<1> DEFINE x == req[r]
           c == Head(x.todo)
           name == x.name
           all == Others(name)
           D == DOMAIN db
<1>1. c = x.todo[1] /\ Len(x.todo) \in Nat /\ Len(x.todo) > 0 /\ 1 \in 1 .. Len(x.todo)
  BY HeadFacts, TailIs
<1>2. Plays(x, D)
  BY <1>1 DEF AllPlay, Unfinished
<1>3. PICK s, k, e : Script(s, name, e) /\ Played(x, s, k) /\ Stands(x, s, k, e, D)
  BY <1>2 DEF Plays
<1>4. Len(s) \in Nat /\ k \in Nat /\ k + 1 \in 1 .. Len(s) /\ c = s[k + 1] /\ \A i \in 1 .. k : i < k + 1
  <2>1. Len(s) \in Nat
    BY <1>3, TailIs DEF Script
  <2>2. k \in Nat /\ k + 1 \in 1 .. Len(s) /\ c = s[1 + k] /\ 1 + k = k + 1
    BY <1>1, <1>3, <2>1 DEF Played
  <2>3. QED
    BY <2>1, <2>2
<1>5. \A i \in 1 .. k : /\ i \in 1 .. Len(s) /\ Apt(s[i], name, e)
                        /\ s[i].op \in Changes => Follows(s[i], c, name, e)
  <2> TAKE i \in 1 .. k
  <2>1. i \in 1 .. Len(s) /\ i < k + 1
    BY <1>4
  <2>2. QED
    BY <1>1, <1>3, <1>4, <2>1 DEF Script
<1>6. \A i \in 1 .. k : s[i].op \notin Changes => Offers(s[i], all) = {} /\ Takes(s[i]) = {}
  BY DEF Changes, Offers, Takes
<1>7. /\ \A z \in PutRows(r) : \E i \in 1 .. k : z \in Offers(s[i], all) /\ s[i].op \in Changes
      /\ \A z \in DelRows(r) : \E i \in 1 .. k : z \in Takes(s[i]) /\ s[i].op \in Changes
  BY <1>3, <1>6 DEF Played, PutRows, DelRows
<1>8. PICK a \in 1 .. k : s[a].op \in Changes
  BY <1>7
<1>9. Follows(s[a], c, name, e)
  BY <1>5, <1>8
<1>10. name \notin Singles /\ name \in Writers /\ e \in Own(name) /\ c.op \notin {"create", "updates", "save"}
  BY <1>3, <1>9 DEF Script, Follows
<1>11. Apt(c, name, e) /\ (c.op = "append" => DOMAIN x.got \subseteq all)
  BY <1>1, <1>3, <1>10, NextOffers
<1>12. \A i \in 1 .. k : s[i].op \in Changes =>
          /\ Offers(s[i], all) \subseteq {e} \cup all \cup LinksOf(e, all)
          /\ name \notin Replacers => Offers(s[i], all) \subseteq {e}
          /\ name \in Deleters \cup {"UpdateUserRoles"} => Offers(s[i], all) = {}
          /\ Takes(s[i]) \subseteq LinksOf(e, FirstKind(name)) \cup LinksOf(e, SecondKind(name))
          /\ name \in Makers \cup Setters \cup {"UpdateScope"} => Takes(s[i]) = {}
          /\ name \in Deleters =>
                \/ c.rows = {e}
                \/ c.rows = LinksOf(e, SecondKind(name)) /\ Takes(s[i]) \subseteq LinksOf(e, FirstKind(name))
          /\ name = "UpdateScope" /\ c.op = "append" => Offers(s[i], all) \subseteq {e}
  <2> TAKE i \in 1 .. k
  <2> SUFFICES ASSUME s[i].op \in Changes
               PROVE  /\ Offers(s[i], all) \subseteq {e} \cup all \cup LinksOf(e, all)
                      /\ name \notin Replacers => Offers(s[i], all) \subseteq {e}
                      /\ name \in Deleters \cup {"UpdateUserRoles"} => Offers(s[i], all) = {}
                      /\ Takes(s[i]) \subseteq LinksOf(e, FirstKind(name)) \cup LinksOf(e, SecondKind(name))
                      /\ name \in Makers \cup Setters \cup {"UpdateScope"} => Takes(s[i]) = {}
                      /\ name \in Deleters =>
                            \/ c.rows = {e}
                            \/ /\ c.rows = LinksOf(e, SecondKind(name))
                               /\ Takes(s[i]) \subseteq LinksOf(e, FirstKind(name))
                      /\ name = "UpdateScope" /\ c.op = "append" => Offers(s[i], all) \subseteq {e}
    OBVIOUS
  <2>1. Apt(s[i], name, e) /\ Follows(s[i], c, name, e)
    BY <1>5
  <2>2. QED
    BY <1>10, <2>1, EarlierCalls
<1> HIDE DEF c, name, all, D
<1>13. /\ PutRows(r) \subseteq {e} \cup all \cup LinksOf(e, all)
       /\ name \notin Replacers => PutRows(r) \subseteq {e}
       /\ name \in Deleters \cup {"UpdateUserRoles"} => PutRows(r) = {}
       /\ name = "UpdateScope" /\ c.op = "append" => PutRows(r) \subseteq {e}
  BY <1>7, <1>12
<1>14. /\ DelRows(r) \subseteq LinksOf(e, FirstKind(name)) \cup LinksOf(e, SecondKind(name))
       /\ name \in Makers \cup Setters \cup {"UpdateScope"} => DelRows(r) = {}
       /\ name \in Deleters =>
             \/ c.rows = {e}
             \/ c.rows = LinksOf(e, SecondKind(name)) /\ DelRows(r) \subseteq LinksOf(e, FirstKind(name))
  <2>1. name \in Deleters /\ c.rows # {e} =>
           c.rows = LinksOf(e, SecondKind(name)) /\ DelRows(r) \subseteq LinksOf(e, FirstKind(name))
    BY <1>7, <1>8, <1>12
  <2>2. QED
    BY <1>7, <1>12, <2>1
<1>15. PutRows(r) \cap Newcomers(name, e) \cap D = {} /\ DelRows(r) \subseteq D
  BY <1>3 DEF Stands, PutRows, DelRows, name, D
<1>16. name = "UpdateScope" => e \in PutRows(r)
  <2>1. SUFFICES ASSUME name = "UpdateScope" PROVE e \in PutRows(r)
    OBVIOUS
  <2>2. PICK b \in 1 .. Len(s) : /\ s[b].op = "save"
                                 /\ \A i \in 1 .. Len(s) : s[i].op \in Changes \/ Real(s[i]) => b <= i
    BY <1>3, <2>1 DEF Script, name
  <2>3. b <= a
    BY <1>5, <1>8, <2>2
  <2>4. b <= k
    BY <1>4, <2>3
  <2>5. QED
    BY <1>3, <2>1, <2>2, <2>4 DEF Stands, PutRows, name
<1>17. Stance(r, e)
  BY <1>10, <1>11, <1>13, <1>14, <1>15, <1>16 DEF Stance, x, c, name, all, D
<1>18. QED
  BY <1>10, <1>17 DEF name, x

----------------------------------------------------------------------------
(* r, whose own row is e, waits for q: because it deletes that row, because *)
(* of a row that its links lead to, or of a link that q has written.        *)

DropsRow(r, e, q) ==
    /\ req[r].name \in Deleters /\ Head(req[r].todo).rows = {e} /\ e \in DOMAIN db
    /\ e \in PutRows(q) \/ \E x \in PutRows(q) \ DOMAIN db : e \in Refs(x)

MeetsRow(r, q) ==
    /\ req[r].name \notin Deleters /\ Head(req[r].todo).op = "append"
    /\ Others(req[r].name) \cap PutRows(q) # {}

MeetsLink(r, e, q) ==
    LET name == req[r].name
    IN \E x \in LinksOf(e, Others(name)) \cap (PutRows(q) \cup DelRows(q)) :
          name \in Deleters =>
             /\ Head(req[r].todo).rows = LinksOf(e, SecondKind(name)) /\ x \in LinksOf(e, SecondKind(name))
             /\ DelRows(r) \subseteq LinksOf(e, FirstKind(name))

LEMMA RefsAreEntities == \A x : Refs(x) \subseteq Entities
<1>1. \A x \in Links : Refs(x) \subseteq Entities
  <2>1. \A x \in Links : x \subseteq Entities
    BY DEF Links, Pairs, Entities
  <2>2. QED
    BY <2>1, RefsOfLinks
<1>2. \A x : x \notin Links => Refs(x) \subseteq Entities
  BY ScopeAssumption DEF Refs, Entities
<1>3. QED
  BY <1>1, <1>2

\* What the next call of r wants.
LEMMA Wants ==
    ASSUME NEW r, NEW e, Stance(r, e)
    PROVE  LET c == Head(req[r].todo)
               name == req[r].name
           IN \/ /\ c.op = "append" /\ name \notin Deleters /\ Unwanted(r) = {}
                 /\ Wanted(r) \subseteq Others(name) \cup LinksOf(e, Others(name))
              \/ /\ name \notin Deleters /\ Wanted(r) = {} /\ Unwanted(r) \subseteq LinksOf(e, Others(name))
              \/ /\ name \in Deleters /\ c.rows = {e} /\ Wanted(r) = {} /\ Unwanted(r) \subseteq {e} \cap DOMAIN db
              \/ /\ name \in Deleters /\ c.rows = LinksOf(e, SecondKind(name)) /\ Wanted(r) = {}
                 /\ Unwanted(r) \subseteq LinksOf(e, SecondKind(name))
                 /\ DelRows(r) \subseteq LinksOf(e, FirstKind(name))
<1> DEFINE c == Head(req[r].todo)
           name == req[r].name
           got == DOMAIN req[r].got
<1>1. /\ name \in Writers /\ e \in Own(name) /\ Apt(c, name, e) /\ name \notin Singles
      /\ c.op \in Changes \ {"create", "updates", "save", "ensure", "detach", "deletefound"}
  <2>1. name \in Writers /\ Apt(c, name, e) /\ c.op \in Changes \ {"create", "updates", "save"}
    BY DEF Stance
  <2>2. QED
    BY <2>1, ClassesApart DEF Apt, Stance
<1>2. c.op \in {"append", "trim", "delete"}
  BY <1>1 DEF Changes
<1>3. CASE c.op = "append"
  <2>1. name \notin Deleters /\ c.row = e /\ got \subseteq Others(name)
    BY <1>1, <1>3 DEF Apt, Stance
  <2>2. Wanted(r) = got \cup LinksOf(c.row, got) /\ Unwanted(r) = {}
    BY <1>3 DEF Wanted, Unwanted
  <2>3. LinksOf(e, got) \subseteq LinksOf(e, Others(name))
    BY <2>1, LinksOfPart
  <2>4. QED
    BY <1>3, <2>1, <2>2, <2>3
<1>4. CASE c.op = "trim"
  <2>1. name \in Replacers /\ name \notin Deleters /\ c.row = e /\ c.rows \subseteq Others(name)
    BY <1>1, <1>4, ClassesApart DEF Apt
  <2>2. Wanted(r) = {} /\ Unwanted(r) \subseteq LinksOf(c.row, c.rows \ got)
    BY <1>4 DEF Wanted, Unwanted
  <2>3. LinksOf(e, c.rows \ got) \subseteq LinksOf(e, Others(name))
    BY <2>1, LinksOfPart
  <2>4. QED
    BY <2>1, <2>2, <2>3
<1>5. CASE c.op = "delete"
  <2>1. Wanted(r) = {} /\ Unwanted(r) = c.rows \cap Seen(r)
    BY <1>5 DEF Wanted, Unwanted
  <2>2. CASE name \notin Deleters
    <3>1. c.rows \in {LinksOf(e, FirstKind(name)), LinksOf(e, SecondKind(name))}
      BY <1>1, <1>5, <2>2 DEF Apt
    <3>2. c.rows \subseteq LinksOf(e, Others(name))
      BY <3>1, LinksOfPart DEF Others
    <3>3. QED
      BY <2>1, <2>2, <3>2
  <2>3. CASE name \in Deleters
    <3>1. PutRows(r) = {}
      BY <2>3 DEF Stance
    <3>2. Seen(r) \subseteq DOMAIN db
      BY <3>1, SeenIs DEF Sees
    <3>3. \/ c.rows = {e}
          \/ c.rows = LinksOf(e, SecondKind(name)) /\ DelRows(r) \subseteq LinksOf(e, FirstKind(name))
      BY <2>3 DEF Stance
    <3>4. QED
      BY <2>1, <2>3, <3>2, <3>3
  <2>4. QED
    BY <2>2, <2>3
<1>6. QED
  BY <1>2, <1>3, <1>4, <1>5

LEMMA HowItWaits ==
    ASSUME NEW r, NEW q, NEW e, NEW f, Stance(r, e), Stance(q, f), Awaits(r, q)
    PROVE  DropsRow(r, e, q) \/ MeetsRow(r, q) \/ MeetsLink(r, e, q)
<1> DEFINE c == Head(req[r].todo)
           name == req[r].name
           P == PutRows(q)
           B == DelRows(q)
           D == DOMAIN db
<1>1. name \in Writers /\ e \in Own(name)
  BY DEF Stance
<1>2. B \subseteq Links
  <2>1. req[q].name \in Writers /\ f \in Own(req[q].name)
    BY DEF Stance
  <2>2. /\ LinksOf(f, FirstKind(req[q].name)) \subseteq Links
        /\ LinksOf(f, SecondKind(req[q].name)) \subseteq Links
    BY <2>1, OwnLinks
  <2>3. QED
    BY <2>2 DEF Stance
<1>3. LinksOf(e, Others(name)) \subseteq Links /\ e \in Entities /\ Others(name) \subseteq Entities
  BY <1>1, OwnLinks
<1>4. Entities \cap Links = {}
  BY DistinctAssumption
<1>5. \A x : Refs(x) \cap B = {}
  BY <1>2, <1>4, RefsAreEntities
<1>6. LinksOf(e, SecondKind(name)) \subseteq LinksOf(e, Others(name))
  BY LinksOfPart DEF Others
<1>7. \/ (Wanted(r) \cup Unwanted(r)) \cap (P \cup B) # {}
      \/ \E x \in P \ D : Refs(x) \cap Unwanted(r) # {}
  BY <1>5 DEF Awaits, Blocks, Added, PutRows, DelRows
<1>8. \A x : Refs(x) \cap LinksOf(e, Others(name)) = {}
  BY <1>3, <1>4, RefsAreEntities
<1>9. CASE /\ c.op = "append" /\ name \notin Deleters /\ Unwanted(r) = {}
           /\ Wanted(r) \subseteq Others(name) \cup LinksOf(e, Others(name))
  <2>1. PICK x \in Wanted(r) : x \in P \cup B
    BY <1>7, <1>9
  <2>2. CASE x \in Others(name)
    BY <1>2, <1>3, <1>4, <1>9, <2>1, <2>2 DEF MeetsRow
  <2>3. CASE x \in LinksOf(e, Others(name))
    BY <1>9, <2>1, <2>3 DEF MeetsLink
  <2>4. QED
    BY <1>9, <2>1, <2>2, <2>3
<1>10. CASE name \notin Deleters /\ Wanted(r) = {} /\ Unwanted(r) \subseteq LinksOf(e, Others(name))
  <2>1. PICK x \in LinksOf(e, Others(name)) : x \in P \cup B
    BY <1>7, <1>8, <1>10
  <2>2. QED
    BY <1>10, <2>1 DEF MeetsLink
<1>11. CASE /\ name \in Deleters /\ c.rows = {e} /\ Wanted(r) = {}
            /\ Unwanted(r) \subseteq {e} \cap D
  <2>1. e \in D /\ (e \in P \cup B \/ \E x \in P \ D : e \in Refs(x))
    BY <1>7, <1>11
  <2>2. e \notin B
    BY <1>2, <1>3, <1>4
  <2>3. QED
    BY <1>11, <2>1, <2>2 DEF DropsRow
<1>12. CASE /\ name \in Deleters /\ c.rows = LinksOf(e, SecondKind(name)) /\ Wanted(r) = {}
            /\ Unwanted(r) \subseteq LinksOf(e, SecondKind(name))
            /\ DelRows(r) \subseteq LinksOf(e, FirstKind(name))
  <2>1. PICK x \in LinksOf(e, SecondKind(name)) : x \in P \cup B
    BY <1>6, <1>7, <1>8, <1>12
  <2>2. QED
    BY <1>6, <1>12, <2>1 DEF MeetsLink
<1>13. QED
  BY <1>9, <1>10, <1>11, <1>12, Wants

\* Every handler that writes more than once, and whose rows it is about.
LEMMA WritersAre ==
    ASSUME NEW name \in Writers
    PROVE  \/ name \in {"CreateRole", "UpdateRoleByID", "DeleteRole"}
           \/ name \in {"CreateScope", "UpdateScope", "DeleteScope"}
           \/ name \in {"CreateUserAndAttachRoles", "UpdateUserRoles", "UpdateUserProfile"}
           \/ name \in {"UpdateTargetUserProfile", "Login", "DeleteUser"}
  BY DEF Writers, Makers, Setters, Deleters, Changers

LEMMA OwnersAre ==
    ASSUME NEW name \in Writers
    PROVE  \/ /\ Own(name) = Users /\ Others(name) \subseteq Roles \cup Groups
           \/ /\ Own(name) = Roles /\ Others(name) \subseteq Users \cup Scopes
              /\ name # "DeleteRole" => Others(name) = Scopes
           \/ /\ Own(name) = Scopes /\ Others(name) \subseteq Catalogs \cup Roles
              /\ name # "DeleteScope" => Others(name) = Catalogs
<1>1. CASE name \in {"CreateRole", "UpdateRoleByID"}
  BY <1>1, KindsOf
<1>2. CASE name = "DeleteRole"
  <2>1. Own(name) = Roles /\ FirstKind(name) = Users /\ SecondKind(name) = Scopes
    BY <1>2, KindsOf
  <2>2. QED
    BY <1>2, <2>1 DEF Others
<1>3. CASE name \in {"CreateScope", "UpdateScope"}
  BY <1>3, KindsOf
<1>4. CASE name = "DeleteScope"
  <2>1. Own(name) = Scopes /\ FirstKind(name) = Catalogs /\ SecondKind(name) = Roles
    BY <1>4, KindsOf
  <2>2. QED
    BY <1>4, <2>1 DEF Others
<1>5. CASE name \in {"CreateUserAndAttachRoles", "UpdateUserRoles", "UpdateUserProfile"}
  BY <1>5, KindsOf
<1>6. CASE name \in {"UpdateTargetUserProfile", "Login", "DeleteUser"}
  BY <1>6, KindsOf
<1>7. QED
  BY <1>1, <1>2, <1>3, <1>4, <1>5, <1>6, WritersAre

\* What q has written lies around its own row.
LEMMA Around ==
    ASSUME NEW q, NEW f, Stance(q, f)
    PROVE  LET name == req[q].name
           IN /\ PutRows(q) \subseteq {f} \cup Others(name) \cup LinksOf(f, Others(name))
              /\ name \notin Replacers => PutRows(q) \subseteq {f}
              /\ DelRows(q) \subseteq LinksOf(f, Others(name)) /\ DelRows(q) \subseteq DOMAIN db
              /\ PutRows(q) \cap Newcomers(name, f) \cap DOMAIN db = {}
              /\ f \in Entities /\ Others(name) \subseteq Entities /\ f \notin Others(name)
              /\ LinksOf(f, Others(name)) \subseteq Links
              /\ name \in Writers /\ f \in Own(name)
<1> DEFINE name == req[q].name
<1>1. /\ PutRows(q) \subseteq {f} \cup Others(name) \cup LinksOf(f, Others(name))
      /\ name \notin Replacers => PutRows(q) \subseteq {f}
      /\ DelRows(q) \subseteq LinksOf(f, FirstKind(name)) \cup LinksOf(f, SecondKind(name))
      /\ DelRows(q) \subseteq DOMAIN db /\ PutRows(q) \cap Newcomers(name, f) \cap DOMAIN db = {}
      /\ name \in Writers /\ f \in Own(name)
  BY DEF Stance
<1>2. LinksOf(f, FirstKind(name)) \cup LinksOf(f, SecondKind(name)) \subseteq LinksOf(f, Others(name))
  BY LinksOfPart DEF Others
<1>3. /\ f \in Entities /\ Others(name) \subseteq Entities /\ f \notin Others(name)
      /\ LinksOf(f, Others(name)) \subseteq Links
  BY <1>1, OwnLinks
<1>4. QED
  BY <1>1, <1>2, <1>3

\* A link that both are about joins their own rows, or those are one.
LEMMA LinkOfBoth ==
    ASSUME NEW e, NEW X, NEW f, NEW Y, NEW x \in LinksOf(e, X) \cap LinksOf(f, Y), e \notin X
    PROVE  \/ e = f /\ x \in LinksOf(e, X \cap Y)
           \/ e # f /\ x = {e, f} /\ e \in Y /\ f \in X
<1>1. PICK a \in X : x = {e, a}
  BY DEF LinksOf
<1>2. PICK b \in Y : x = {f, b}
  BY DEF LinksOf
<1>3. CASE e = f
  <2>1. a = b
    BY <1>1, <1>2, <1>3
  <2>2. QED
    BY <1>1, <1>2, <1>3, <2>1 DEF LinksOf
<1>4. CASE e # f
  <2>1. e = b /\ f = a
    BY <1>1, <1>2, <1>4
  <2>2. QED
    BY <1>1, <1>2, <1>4, <2>1
<1>5. QED
  BY <1>3, <1>4

\* What a row of these kinds refers to.
LEMMA RefsByKind ==
    /\ \A x \in Users \cup Roles \cup Scopes \cup Catalogs : Refs(x) = {}
    /\ \A x \in Groups : Refs(x) \subseteq Scopes
<1>1. \A x \in Users \cup Roles \cup Scopes \cup Catalogs \cup Groups : x \notin Links
  BY DistinctAssumption DEF Entities
<1>2. \A x \in Users \cup Roles \cup Scopes \cup Catalogs : x \notin Groups
  BY KindsApart
<1>3. QED
  BY <1>1, <1>2, ScopeAssumption DEF Refs

Waits(r, e, q) == DropsRow(r, e, q) \/ MeetsRow(r, q) \/ MeetsLink(r, e, q)

\* Whom a request waits for, when they are about rows of two kinds.
LEMMA AcrossKinds ==
    ASSUME NEW r, NEW q, NEW e, NEW f, Stance(r, e), Stance(q, f), Waits(r, e, q)
    PROVE  LET name == req[r].name
               other == Own(req[q].name)
           IN \/ Own(name) = other
              \/ Own(name) = Users /\ other = Roles
              \/ Own(name) = Roles /\ other = Scopes
              \/ /\ name = "DeleteRole" /\ req[q].name = "UpdateTargetUserProfile" /\ other = Users
                 /\ {e, f} \in PutRows(q) \ DOMAIN db
              \/ name = "DeleteScope" /\ other = Roles /\ DelRows(r) \subseteq LinksOf(e, Catalogs)
              \/ /\ name = "DeleteScope" /\ req[q].name = "UpdateTargetUserProfile" /\ other = Users
                 /\ (Groups \cap PutRows(q)) \ DOMAIN db # {}
<1> DEFINE n == req[r].name
           m == req[q].name
           P == PutRows(q)
           B == DelRows(q)
           D == DOMAIN db
<1>1. /\ P \subseteq {f} \cup Others(m) \cup LinksOf(f, Others(m))
      /\ m \notin Replacers => P \subseteq {f}
      /\ B \subseteq LinksOf(f, Others(m)) /\ P \cap Newcomers(m, f) \cap D = {}
      /\ f \in Entities /\ Others(m) \subseteq Entities /\ f \notin Others(m)
      /\ LinksOf(f, Others(m)) \subseteq Links /\ m \in Writers /\ f \in Own(m)
  BY Around
<1>2. /\ e \in Entities /\ Others(n) \subseteq Entities /\ e \notin Others(n)
      /\ LinksOf(e, Others(n)) \subseteq Links /\ n \in Writers /\ e \in Own(n)
  BY Around
<1>3. Entities \cap Links = {}
  BY DistinctAssumption
<1>4. \/ /\ Own(n) = Users /\ Others(n) \subseteq Roles \cup Groups
      \/ /\ Own(n) = Roles /\ Others(n) \subseteq Users \cup Scopes /\ (n # "DeleteRole" => Others(n) = Scopes)
      \/ /\ Own(n) = Scopes /\ Others(n) \subseteq Catalogs \cup Roles
         /\ n # "DeleteScope" => Others(n) = Catalogs
  BY <1>2, OwnersAre
<1>5. \/ /\ Own(m) = Users /\ Others(m) \subseteq Roles \cup Groups
      \/ /\ Own(m) = Roles /\ Others(m) \subseteq Users \cup Scopes /\ (m # "DeleteRole" => Others(m) = Scopes)
      \/ /\ Own(m) = Scopes /\ Others(m) \subseteq Catalogs \cup Roles
         /\ m # "DeleteScope" => Others(m) = Catalogs
  BY <1>1, OwnersAre
<1>6. m \in Replacers => \/ m = "UpdateScope" /\ Own(m) = Scopes /\ Others(m) = Catalogs
                         \/ m = "UpdateTargetUserProfile" /\ Own(m) = Users /\ Others(m) = Roles \cup Groups
  BY KindsOf DEF Replacers
<1>7. n \in Deleters => /\ Own(n) = Roles => n = "DeleteRole"
                        /\ Own(n) = Scopes => n = "DeleteScope"
  <2>1. Own("DeleteUser") = Users /\ Own("DeleteRole") = Roles /\ Own("DeleteScope") = Scopes
    BY KindsOf
  <2>2. CASE n = "DeleteUser"
    BY <1>2, <2>1, <2>2, KindsApart
  <2>3. CASE n = "DeleteRole"
    BY <1>2, <2>1, <2>3, KindsApart
  <2>4. CASE n = "DeleteScope"
    BY <1>2, <2>1, <2>4, KindsApart
  <2>5. QED
    BY <2>2, <2>3, <2>4 DEF Deleters
<1>8. n \notin Deleters => n # "DeleteRole" /\ n # "DeleteScope"
  BY DEF Deleters
<1>9. m \in Replacers => Newcomers(m, f) = Others(m)
  BY DEF Replacers, Makers, Newcomers
<1> HIDE DEF n, m, P, B, D
<1>10. e = f => Own(n) = Own(m)
  BY <1>1, <1>2, <1>4, <1>5, KindsApart
<1>11. ASSUME DropsRow(r, e, q), e # f
       PROVE  \/ /\ n = "DeleteRole" /\ m = "UpdateTargetUserProfile" /\ Own(m) = Users
                 /\ {e, f} \in P \ D
              \/ /\ n = "DeleteScope" /\ m = "UpdateTargetUserProfile" /\ Own(m) = Users
                 /\ (Groups \cap P) \ D # {}
  <2>1. n \in Deleters /\ e \in D /\ (e \in P \/ \E x \in P \ D : e \in Refs(x))
    BY <1>11 DEF DropsRow, n, P, D
  <2>2. e \notin P
    <3>1. SUFFICES ASSUME e \in P PROVE FALSE
      OBVIOUS
    <3>2. e \in Others(m) /\ m \in Replacers
      BY <1>1, <1>2, <1>3, <1>11, <3>1
    <3>3. QED
      BY <1>1, <1>9, <2>1, <3>1, <3>2
  <2>3. PICK x \in P \ D : e \in Refs(x)
    BY <2>1, <2>2
  <2>4. x # f
    <3>1. f \in Users \cup Roles \cup Scopes \cup Catalogs
      BY <1>1, <1>5
    <3>2. QED
      BY <2>3, <3>1, RefsByKind
  <2>5. m \in Replacers
    BY <1>1, <2>3, <2>4
  <2>6. CASE x \in Others(m)
    <3>1. x \notin Users \cup Roles \cup Scopes \cup Catalogs
      BY <2>3, RefsByKind
    <3>2. x \in Groups /\ m = "UpdateTargetUserProfile" /\ Own(m) = Users
      BY <1>6, <2>5, <2>6, <3>1
    <3>3. e \in Scopes
      BY <2>3, <3>2, RefsByKind
    <3>4. n = "DeleteScope"
      BY <1>2, <1>4, <1>7, <2>1, <3>3, KindsApart
    <3>5. QED
      BY <2>3, <3>2, <3>4
  <2>7. CASE x \in LinksOf(f, Others(m))
    <3>1. PICK b \in Others(m) : x = {f, b}
      BY <2>7 DEF LinksOf
    <3>2. Refs(x) = x
      BY <1>1, <2>7, RefsOfLinks
    <3>3. e = b
      BY <1>11, <2>3, <3>1, <3>2
    <3>4. x = {e, f}
      BY <3>1, <3>3
    <3>5. e \notin Catalogs /\ e \notin Groups
      BY <1>2, <1>4, KindsApart
    <3>6. m = "UpdateTargetUserProfile" /\ Own(m) = Users /\ e \in Roles
      BY <1>6, <2>5, <3>1, <3>3, <3>5
    <3>7. n = "DeleteRole"
      BY <1>2, <1>4, <1>7, <2>1, <3>6, KindsApart
    <3>8. QED
      BY <2>3, <3>4, <3>6, <3>7
  <2>8. QED
    BY <1>1, <2>3, <2>4, <2>6, <2>7
<1>12. ASSUME MeetsRow(r, q)
       PROVE  \/ Own(n) = Own(m)
              \/ Own(n) = Users /\ Own(m) = Roles
              \/ Own(n) = Roles /\ Own(m) = Scopes
  <2>1. PICK y \in Others(n) : y \in P
    BY <1>12 DEF MeetsRow, n, P
  <2>2. /\ Own(n) = Roles => Others(n) = Scopes
        /\ Own(n) = Scopes => Others(n) = Catalogs
    <3>1. n # "DeleteRole" /\ n # "DeleteScope"
      BY <1>8, <1>12 DEF MeetsRow, n
    <3>2. QED
      BY <1>2, <1>4, <3>1, KindsApart
  <2>3. CASE y = f
    BY <1>1, <1>4, <1>5, <2>1, <2>2, <2>3, KindsApart
  <2>4. CASE y # f
    <3>1. y \in Others(m) /\ m \in Replacers
      BY <1>1, <1>2, <1>3, <2>1, <2>4
    <3>2. QED
      BY <1>4, <1>6, <2>1, <2>2, <3>1, KindsApart
  <2>5. QED
    BY <2>3, <2>4
<1>13. ASSUME MeetsLink(r, e, q), e # f
       PROVE  \/ Own(n) = Users /\ Own(m) = Roles
              \/ Own(n) = Roles /\ Own(m) = Scopes
              \/ n = "DeleteScope" /\ Own(m) = Roles /\ DelRows(r) \subseteq LinksOf(e, Catalogs)
  <2>1. PICK x \in LinksOf(e, Others(n)) \cap (P \cup B) :
           n \in Deleters => x \in LinksOf(e, SecondKind(n)) /\ DelRows(r) \subseteq LinksOf(e, FirstKind(n))
    BY <1>13 DEF MeetsLink, n, P, B
  <2>2. x \in LinksOf(f, Others(m))
    BY <1>1, <1>2, <1>3, <2>1
  <2>3. x = {e, f} /\ e \in Others(m) /\ f \in Others(n)
    BY <1>2, <1>13, <2>1, <2>2, LinkOfBoth
  <2>4. CASE Own(n) = Users
    BY <1>1, <1>2, <1>4, <1>5, <2>3, <2>4, KindsApart
  <2>5. CASE Own(n) = Roles
    <3>1. ~(n = "DeleteRole" /\ f \in Users)
      <4>1. SUFFICES ASSUME n = "DeleteRole", f \in Users PROVE FALSE
        OBVIOUS
      <4>2. x \in LinksOf(e, Scopes)
        BY <2>1, <4>1, KindsOf DEF Deleters
      <4>3. PICK b \in Scopes : x = {e, b}
        BY <4>2 DEF LinksOf
      <4>4. f = b
        BY <1>13, <2>3, <4>3
      <4>5. QED
        BY <4>1, <4>3, <4>4, KindsApart
    <3>2. f \in Scopes
      BY <1>2, <1>4, <2>3, <2>5, <3>1, KindsApart
    <3>3. QED
      BY <1>1, <1>5, <2>5, <3>2, KindsApart
  <2>6. CASE Own(n) = Scopes
    <3>1. f \in Roles /\ n = "DeleteScope"
      BY <1>1, <1>2, <1>4, <1>5, <2>3, <2>6, KindsApart
    <3>2. Own(m) = Roles
      BY <1>1, <1>5, <3>1, KindsApart
    <3>3. DelRows(r) \subseteq LinksOf(e, Catalogs)
      BY <2>1, <3>1, KindsOf DEF Deleters
    <3>4. QED
      BY <3>1, <3>2, <3>3
  <2>7. QED
    BY <1>4, <2>4, <2>5, <2>6
<1>14. QED
  BY <1>10, <1>11, <1>12, <1>13 DEF Waits, n, m, P, D

\* Two requests that are about rows of different kinds never wait for each other.
LEMMA UserBeforeRole ==
    ASSUME NEW r, NEW q, NEW e, NEW f, Stance(r, e), Stance(q, f), Waits(r, e, q),
           Own(req[r].name) = Users, req[q].name = "DeleteRole", {e, f} \notin DOMAIN db
    PROVE  FALSE
<1>1. PutRows(q) = {}
  BY DEF Stance, Deleters
<1>2. PICK x \in LinksOf(e, Others(req[r].name)) : x \in DelRows(q)
  BY <1>1 DEF Waits, DropsRow, MeetsRow, MeetsLink
<1>3. DelRows(q) \subseteq LinksOf(f, Others("DeleteRole")) /\ DelRows(q) \subseteq DOMAIN db /\ f \in Own("DeleteRole")
  BY Around
<1>4. e \in Users /\ e \notin Others(req[r].name)
  BY Around
<1>5. f \in Roles
  BY <1>3, KindsOf
<1>6. e # f
  BY <1>4, <1>5, KindsApart
<1>7. x = {e, f}
  <2> DEFINE X == Others(req[r].name)
             Y == Others("DeleteRole")
  <2>1. x \in LinksOf(e, X) \cap LinksOf(f, Y) /\ e \notin X
    BY <1>2, <1>3, <1>4
  <2> HIDE DEF X, Y
  <2>2. \/ e = f /\ x \in LinksOf(e, X \cap Y)
        \/ e # f /\ x = {e, f} /\ e \in Y /\ f \in X
    BY <2>1, LinkOfBoth
  <2>3. QED
    BY <1>6, <2>2
<1>8. QED
  BY <1>2, <1>3, <1>7

LEMMA RoleBeforeScope ==
    ASSUME NEW r, NEW q, NEW e, NEW f, Stance(r, e), Stance(q, f), Waits(r, e, q),
           Own(req[r].name) = Roles, req[q].name = "DeleteScope", DelRows(q) \subseteq LinksOf(f, Catalogs)
    PROVE  FALSE
<1>1. PutRows(q) = {}
  BY DEF Stance, Deleters
<1>2. PICK x \in LinksOf(e, Others(req[r].name)) : x \in LinksOf(f, Catalogs)
  BY <1>1 DEF Waits, DropsRow, MeetsRow, MeetsLink
<1>3. e \in Roles /\ e \notin Others(req[r].name)
  BY Around
<1>4. f \in Scopes
  BY KindsOf DEF Stance
<1>5. e \in Catalogs
  <2> DEFINE X == Others(req[r].name)
  <2>1. x \in LinksOf(e, X) \cap LinksOf(f, Catalogs) /\ e # f /\ e \notin X
    BY <1>2, <1>3, <1>4, KindsApart
  <2> HIDE DEF X
  <2>2. QED
    BY <2>1, LinkOfBoth
<1>6. QED
  BY <1>3, <1>5, KindsApart

LEMMA OneKind ==
    ASSUME NEW r, NEW q, NEW e, NEW f, Stance(r, e), Stance(q, f), Waits(r, e, q), Waits(q, f, r)
    PROVE  Own(req[r].name) = Own(req[q].name)
<1> DEFINE n == req[r].name
           m == req[q].name
<1>1. SUFFICES ASSUME Own(n) # Own(m) PROVE FALSE
  OBVIOUS
<1>2. \/ Own(n) = Users /\ Own(m) = Roles
      \/ Own(n) = Roles /\ Own(m) = Scopes
      \/ /\ n = "DeleteRole" /\ m = "UpdateTargetUserProfile" /\ Own(m) = Users
         /\ {e, f} \in PutRows(q) \ DOMAIN db
      \/ n = "DeleteScope" /\ Own(m) = Roles /\ DelRows(r) \subseteq LinksOf(e, Catalogs)
      \/ /\ n = "DeleteScope" /\ m = "UpdateTargetUserProfile" /\ Own(m) = Users
         /\ (Groups \cap PutRows(q)) \ DOMAIN db # {}
  BY <1>1, AcrossKinds
<1>3. \/ Own(m) = Users /\ Own(n) = Roles
      \/ Own(m) = Roles /\ Own(n) = Scopes
      \/ /\ m = "DeleteRole" /\ n = "UpdateTargetUserProfile" /\ Own(n) = Users
         /\ {f, e} \in PutRows(r) \ DOMAIN db
      \/ m = "DeleteScope" /\ Own(n) = Roles /\ DelRows(q) \subseteq LinksOf(f, Catalogs)
      \/ /\ m = "DeleteScope" /\ n = "UpdateTargetUserProfile" /\ Own(n) = Users
         /\ (Groups \cap PutRows(r)) \ DOMAIN db # {}
  BY <1>1, AcrossKinds
<1>4. Own("DeleteRole") = Roles /\ Own("DeleteScope") = Scopes
  BY KindsOf
<1>5. {e, f} = {f, e} /\ e \in Own(n) /\ f \in Own(m)
  BY DEF Stance
<1>6. ~(m = "DeleteRole" /\ Own(n) = Users /\ {e, f} \notin DOMAIN db)
  BY UserBeforeRole
<1>7. ~(n = "DeleteRole" /\ Own(m) = Users /\ {e, f} \notin DOMAIN db)
  BY <1>5, UserBeforeRole
<1>8. ~(m = "DeleteScope" /\ Own(n) = Roles /\ DelRows(q) \subseteq LinksOf(f, Catalogs))
  BY RoleBeforeScope
<1>9. ~(n = "DeleteScope" /\ Own(m) = Roles /\ DelRows(r) \subseteq LinksOf(e, Catalogs))
  BY RoleBeforeScope
<1>10. Users \cap Roles = {} /\ Users \cap Scopes = {} /\ Roles \cap Scopes = {}
  BY KindsApart
<1> HIDE DEF n, m
<1>11. QED
  BY <1>2, <1>3, <1>4, <1>5, <1>6, <1>7, <1>8, <1>9, <1>10

\* How a request waits for another that is about a row of the same kind.
LEMMA WithinKind ==
    ASSUME NEW r, NEW q, NEW e, NEW f, Stance(r, e), Stance(q, f), Waits(r, e, q),
           Own(req[r].name) = Own(req[q].name)
    PROVE  LET n == req[r].name
               m == req[q].name
           IN \/ n \in Deleters /\ e = f /\ m \notin Makers /\ PutRows(q) # {}
              \/ /\ n \notin Deleters /\ m \in Replacers /\ ~(PutRows(q) \subseteq {f})
                 /\ Head(req[r].todo).op = "append"
              \/ /\ e = f /\ m \notin Makers \cup Setters
                 /\ \E x \in PutRows(q) \cup DelRows(q) :
                       /\ x \in LinksOf(e, Others(n) \cap Others(m))
                       /\ n \in Deleters =>
                             x \in LinksOf(e, SecondKind(n)) /\ DelRows(r) \subseteq LinksOf(e, FirstKind(n))
<1> DEFINE n == req[r].name
           m == req[q].name
           P == PutRows(q)
           B == DelRows(q)
           D == DOMAIN db
<1>1. /\ P \subseteq {f} \cup Others(m) \cup LinksOf(f, Others(m))
      /\ m \notin Replacers => P \subseteq {f}
      /\ B \subseteq LinksOf(f, Others(m)) /\ P \cap Newcomers(m, f) \cap D = {}
      /\ f \in Entities /\ Others(m) \subseteq Entities /\ f \notin Others(m)
      /\ LinksOf(f, Others(m)) \subseteq Links /\ m \in Writers /\ f \in Own(m)
  BY Around
<1>2. /\ e \in Entities /\ Others(n) \subseteq Entities /\ e \notin Others(n)
      /\ LinksOf(e, Others(n)) \subseteq Links /\ n \in Writers /\ e \in Own(n)
  BY Around
<1>3. Entities \cap Links = {}
  BY DistinctAssumption
<1>4. e \notin Others(m) /\ f \notin Others(n)
  <2>1. e \in Own(m) /\ f \in Own(n)
    BY <1>1, <1>2
  <2>2. QED
    BY <1>1, <1>2, <2>1, OwnLinks
<1>5. m \in Makers \cup Setters => m \notin Replacers /\ B = {}
  BY ClassesApart DEF Stance
<1>6. m \in Makers => Newcomers(m, f) = {f}
  BY DEF Newcomers
<1> HIDE DEF n, m, P, B, D
<1>7. ASSUME DropsRow(r, e, q) PROVE n \in Deleters /\ e = f /\ m \notin Makers /\ P # {}
  <2>1. n \in Deleters /\ e \in D /\ (e \in P \/ \E x \in P \ D : e \in Refs(x))
    BY <1>7 DEF DropsRow, n, P, D
  <2>2. CASE e \in P
    <3>1. e = f
      BY <1>1, <1>2, <1>3, <1>4, <2>2
    <3>2. QED
      BY <1>1, <1>6, <2>1, <2>2, <3>1
  <2>3. ASSUME NEW x \in P \ D, e \in Refs(x) PROVE e = f /\ m \notin Makers
    <3>1. \/ Own(m) = Users /\ Others(m) \subseteq Roles \cup Groups
          \/ Own(m) = Roles /\ Others(m) \subseteq Users \cup Scopes
          \/ Own(m) = Scopes /\ Others(m) \subseteq Catalogs \cup Roles
      BY <1>1, OwnersAre
    <3>2. x # f
      <4>1. f \in Users \cup Roles \cup Scopes \cup Catalogs
        BY <1>1, <3>1
      <4>2. QED
        BY <2>3, <4>1, RefsByKind
    <3>3. m \notin Makers
      BY <1>1, <1>5, <2>3, <3>2
    <3>4. x \notin Others(m)
      <4>1. SUFFICES ASSUME x \in Others(m) PROVE FALSE
        OBVIOUS
      <4>2. x \in Groups /\ Own(m) = Users
        BY <2>3, <3>1, <4>1, RefsByKind, KindsApart
      <4>3. e \in Scopes /\ e \in Users
        BY <1>2, <2>3, <4>2, RefsByKind DEF n, m
      <4>4. QED
        BY <4>3, KindsApart
    <3>5. x \in LinksOf(f, Others(m))
      BY <1>1, <2>3, <3>2, <3>4
    <3>6. PICK b \in Others(m) : x = {f, b}
      BY <3>5 DEF LinksOf
    <3>7. Refs(x) = x
      BY <1>1, <3>5, RefsOfLinks
    <3>8. QED
      BY <1>4, <2>3, <3>3, <3>6, <3>7
  <2>4. QED
    BY <2>1, <2>2, <2>3
<1>8. ASSUME MeetsRow(r, q)
      PROVE  n \notin Deleters /\ m \in Replacers /\ ~(P \subseteq {f}) /\ Head(req[r].todo).op = "append"
  <2>1. n \notin Deleters /\ Head(req[r].todo).op = "append" /\ Others(n) \cap P # {}
    BY <1>8 DEF MeetsRow, n, P
  <2>2. ~(P \subseteq {f})
    BY <1>4, <2>1
  <2>3. QED
    BY <1>1, <2>1, <2>2
<1>9. ASSUME MeetsLink(r, e, q)
      PROVE  /\ e = f /\ m \notin Makers \cup Setters
             /\ \E x \in P \cup B :
                   /\ x \in LinksOf(e, Others(n) \cap Others(m))
                   /\ n \in Deleters =>
                         x \in LinksOf(e, SecondKind(n)) /\ DelRows(r) \subseteq LinksOf(e, FirstKind(n))
  <2>1. PICK x \in LinksOf(e, Others(n)) \cap (P \cup B) :
           n \in Deleters => x \in LinksOf(e, SecondKind(n)) /\ DelRows(r) \subseteq LinksOf(e, FirstKind(n))
    BY <1>9 DEF MeetsLink, n, P, B
  <2>2. x \in LinksOf(f, Others(m)) /\ x # f
    BY <1>1, <1>2, <1>3, <2>1
  <2>3. e = f /\ x \in LinksOf(e, Others(n) \cap Others(m))
    BY <1>2, <1>4, <2>1, <2>2, LinkOfBoth
  <2>4. m \notin Makers \cup Setters
    BY <1>1, <1>5, <2>1, <2>2
  <2>5. QED
    BY <2>1, <2>3, <2>4
<1>10. QED
  BY <1>7, <1>8, <1>9 DEF Waits, n, m, P, B
=============================================================================
