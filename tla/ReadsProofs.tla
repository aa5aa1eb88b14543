---------------------------- MODULE ReadsProofs ----------------------------
(***************************************************************************)
(* What the reading handlers answer was right recently, for any number of  *)
(* requests, changes and tries.  Three parts: what the queries compute     *)
(* (sums, ranks and averages over any finite set of tries); that a value   *)
(* waits only under the key of its question, no longer than its time, and  *)
(* that a request holds what its next calls set; and that no step of a     *)
(* request, of the tables or of the clock ends this.                       *)
(***************************************************************************)
EXTENDS Reads, FiniteSetTheorems, WellFoundedInduction, SequenceTheorems, TLAPS

----------------------------------------------------------------------------
(* What the queries compute.  A claim about all finite sets is proved by a *)
(* counterexample that is least: LeastSet gives one, and the claim for the *)
(* sets it contains refutes it.                                            *)
\* Of the sets in C there is a least one within any finite one.
LEMMA LeastSet ==
    ASSUME NEW C, NEW S, IsFiniteSet(S), S \in C
    PROVE  \E T \in C : IsFiniteSet(T) /\ \A U \in C : U \subseteq T => U = T
<1> DEFINE B == {T \in SUBSET S : T \in C}
<1>1. IsWellFoundedOn(StrictSubsetOrdering(S), FiniteSubsetsOf(S))
  BY FS_StrictSubsetOrderingWellFounded
<1>2. B \subseteq FiniteSubsetsOf(S) /\ B # {}
  BY FS_Subset DEF FiniteSubsetsOf
<1> HIDE DEF B
<1>3. PICK T \in B : \A U \in B : <<U, T>> \notin StrictSubsetOrdering(S)
  BY <1>1, <1>2, WFMin
<1> USE DEF B
<1>4. IsFiniteSet(T) /\ T \in C
  BY FS_Subset
<1>5. ASSUME NEW U \in C, U \subseteq T, U # T PROVE FALSE
  <2>1. U \in B
    BY <1>5
  <2>2. <<U, T>> \in StrictSubsetOrdering(S)
    BY <1>5, <2>1 DEF StrictSubsetOrdering
  <2>3. QED
    BY <1>3, <2>1, <2>2
<1>6. QED
  BY <1>4, <1>5

\* A finite set of integers has its Max in it.
LEMMA LargestMember ==
    ASSUME NEW S, IsFiniteSet(S)
    PROVE  S # {} /\ S \subseteq Int => Max(S) \in S /\ \A y \in S : y <= Max(S)
<1> DEFINE HasMax(T) == \E m \in T : \A y \in T : m >= y
           C == {T \in SUBSET S : T # {} /\ T \subseteq Int /\ ~HasMax(T)}
<1>1. SUFFICES ASSUME S \in C PROVE FALSE
  <2>1. S # {} /\ S \subseteq Int => HasMax(S)
    BY <1>1
  <2>2. QED
    BY <2>1 DEF Max
<1>2. PICK T \in C : IsFiniteSet(T) /\ \A U \in C : U \subseteq T => U = T
  <2> HIDE DEF C
  <2>1. QED
    BY <1>1, LeastSet
<1>3. PICK x \in T : TRUE
  OBVIOUS
<1>4. HasMax(T \ {x}) \/ T \ {x} = {}
  <2> HIDE DEF HasMax
  <2>1. T \ {x} # T /\ T \ {x} \in SUBSET S /\ T \ {x} \subseteq Int
    BY <1>3
  <2>2. QED
    BY <1>2, <2>1
<1>5. CASE T \ {x} = {}
  BY <1>3, <1>5
<1>6. CASE HasMax(T \ {x})
  <2>1. PICK m \in T \ {x} : \A y \in T \ {x} : m >= y
    BY <1>6
  <2>2. x \in Int /\ m \in Int /\ T \subseteq Int
    BY <1>2, <1>3, <2>1
  <2>3. CASE x >= m
    <3>1. \A y \in T : x >= y
      BY <2>1, <2>2, <2>3
    <3>2. QED
      BY <1>3, <3>1
  <2>4. CASE ~(x >= m)
    <3>1. \A y \in T : m >= y
      BY <2>1, <2>2, <2>4
    <3>2. QED
      BY <2>1, <3>1
  <2>5. QED
    BY <2>3, <2>4
<1>7. QED
  BY <1>4, <1>5, <1>6

----------------------------------------------------------------------------
\* A sum over a set adds the value of a picked member to the sum over the rest.
Picked(s) == CHOOSE x \in s : TRUE
SumsOf(f, S, it) ==
    it = [s \in SUBSET S |-> IF s = {} THEN 0 ELSE f[Picked(s)] + it[s \ {Picked(s)}]]

\* Of a set that is not empty, a member is picked.
LEMMA PickedIsMember ==
    ASSUME NEW s, s # {}
    PROVE  Picked(s) \in s
BY DEF Picked

\* The library's sum is the chosen function that unfolds this way.
LEMMA SumIsChosen ==
    ASSUME NEW f, NEW S
    PROVE  SumFunctionOnSet(f, S) = (CHOOSE it : SumsOf(f, S, it))[S]
BY Zenon DEF SumFunctionOnSet, FoldFunctionOnSet, MapThenFoldSet, SumsOf, Picked

\* Only one function unfolds this way.
LEMMA SumsAreUnique ==
    ASSUME NEW f, NEW A, NEW B, NEW a, NEW b, SumsOf(f, A, a), SumsOf(f, B, b),
           NEW S, S \subseteq A, S \subseteq B, IsFiniteSet(S)
    PROVE  a[S] = b[S]
<1> DEFINE C == {T \in SUBSET S : a[T] # b[T]}
<1>1. SUFFICES ASSUME S \in C PROVE FALSE
  OBVIOUS
<1>2. PICK T \in C : IsFiniteSet(T) /\ \A U \in C : U \subseteq T => U = T
  <2> HIDE DEF C
  <2>1. QED
    BY <1>1, LeastSet
<1>3. \A s \in SUBSET S : a[s] = IF s = {} THEN 0 ELSE f[Picked(s)] + a[s \ {Picked(s)}]
  BY DEF SumsOf
<1>4. \A s \in SUBSET S : b[s] = IF s = {} THEN 0 ELSE f[Picked(s)] + b[s \ {Picked(s)}]
  BY DEF SumsOf
<1>5. T # {}
  BY <1>3, <1>4
<1>6. T \ {Picked(T)} \in SUBSET S /\ T \ {Picked(T)} # T
  BY <1>5, PickedIsMember
<1>7. a[T \ {Picked(T)}] = b[T \ {Picked(T)}]
  BY <1>2, <1>6
<1>8. QED
  BY <1>3, <1>4, <1>5, <1>7

\* One that does gives the sum, whatever set it was defined for.
LEMMA SumUnfolds ==
    ASSUME NEW f, NEW S, IsFiniteSet(S), S # {},
           \A T \in SUBSET S : \E it : SumsOf(f, T, it)
    PROVE  SumFunctionOnSet(f, S) = f[Picked(S)] + SumFunctionOnSet(f, S \ {Picked(S)})
<1> DEFINE R == S \ {Picked(S)}
           a == CHOOSE it : SumsOf(f, S, it)
           b == CHOOSE it : SumsOf(f, R, it)
<1>1. SumsOf(f, S, a)
  OBVIOUS
<1>2. SumsOf(f, R, b)
  <2>1. R \in SUBSET S
    OBVIOUS
  <2> HIDE DEF R
  <2>2. QED
    BY <2>1
<1>3. a[S] = f[Picked(S)] + a[R]
  <2> HIDE DEF a
  <2>1. QED
    BY <1>1 DEF SumsOf
<1>4. a[R] = b[R]
  <2>1. R \subseteq S /\ R \subseteq R /\ IsFiniteSet(R)
    BY FS_RemoveElement
  <2> HIDE DEF a, b, R
  <2>2. QED
    BY <1>1, <1>2, <2>1, SumsAreUnique
<1>5. SumFunctionOnSet(f, S) = a[S] /\ SumFunctionOnSet(f, R) = b[R]
  BY SumIsChosen
<1>6. QED
  BY <1>3, <1>4, <1>5

\* Nothing sums up to 0.
LEMMA SumOfNone ==
    ASSUME NEW f
    PROVE  SumFunctionOnSet(f, {}) = 0 /\ \E it : SumsOf(f, {}, it)
<1> DEFINE none == [s \in SUBSET {} |-> 0]
<1>1. SumsOf(f, {}, none)
  <2>1. \A s \in SUBSET {} : s = {}
    OBVIOUS
  <2>2. none = [s \in SUBSET {} |-> IF s = {} THEN 0 ELSE f[Picked(s)] + none[s \ {Picked(s)}]]
    BY <2>1
  <2>3. QED
    BY <2>2 DEF SumsOf
<1>2. SumsOf(f, {}, CHOOSE it : SumsOf(f, {}, it))
  BY <1>1
<1>3. (CHOOSE it : SumsOf(f, {}, it))[{}] = 0
  <2> DEFINE a == CHOOSE it : SumsOf(f, {}, it)
  <2> HIDE DEF a
  <2>1. a[{}] = 0
    BY <1>2 DEF SumsOf, a
  <2>2. QED
    BY <2>1 DEF a
<1>4. QED
  BY <1>1, <1>3, SumIsChosen

\* Over a finite set there is such a function.
LEMMA SumsExist ==
    ASSUME NEW f, NEW S, IsFiniteSet(S)
    PROVE  \E it : SumsOf(f, S, it)
<1> DEFINE C == {T \in SUBSET S : ~\E it : SumsOf(f, T, it)}
<1>1. SUFFICES ASSUME S \in C PROVE FALSE
  OBVIOUS
<1>2. PICK T \in C : IsFiniteSet(T) /\ \A U \in C : U \subseteq T => U = T
  <2> HIDE DEF C
  <2>1. QED
    BY <1>1, LeastSet
<1>3. \A U \in SUBSET T : U # T => \E it : SumsOf(f, U, it)
  BY <1>2
<1> DEFINE rest(s) == s \ {Picked(s)}
           all == [s \in SUBSET T |->
                     IF s = {} THEN 0 ELSE f[Picked(s)] + SumFunctionOnSet(f, rest(s))]
<1>4. ASSUME NEW s \in SUBSET T, s # {}
      PROVE  all[rest(s)] = SumFunctionOnSet(f, rest(s))
  <2>1. rest(s) \in SUBSET T /\ rest(s) # T
    BY <1>4, PickedIsMember
  <2>2. CASE rest(s) = {}
    BY <2>1, <2>2, SumOfNone
  <2>3. CASE rest(s) # {}
    <3> DEFINE u == rest(s)
    <3>1. IsFiniteSet(u)
      BY <1>2, <2>1, FS_Subset
    <3>2. \A U \in SUBSET u : \E it : SumsOf(f, U, it)
      BY <1>3, <2>1
    <3>3. u # {} /\ all[u] = f[Picked(u)] + SumFunctionOnSet(f, u \ {Picked(u)})
      BY <2>1, <2>3
    <3> HIDE DEF u
    <3>4. SumFunctionOnSet(f, u) = f[Picked(u)] + SumFunctionOnSet(f, u \ {Picked(u)})
      BY <3>1, <3>2, <3>3, SumUnfolds
    <3>5. QED
      BY <3>3, <3>4 DEF u
  <2>4. QED
    BY <2>2, <2>3
<1>5. SumsOf(f, T, all)
  <2>1. all = [s \in SUBSET T |-> IF s = {} THEN 0 ELSE f[Picked(s)] + all[rest(s)]]
    BY <1>4
  <2>2. QED
    BY <2>1 DEF SumsOf
<1>6. QED
  <2> HIDE DEF all
  <2>1. QED
    BY <1>2, <1>5

\* The sum of a set is that of the rest and a member.
LEMMA SumOfSome ==
    ASSUME NEW f, NEW S, IsFiniteSet(S), S # {}
    PROVE  SumFunctionOnSet(f, S) = f[Picked(S)] + SumFunctionOnSet(f, S \ {Picked(S)})
<1>1. \A T \in SUBSET S : \E it : SumsOf(f, T, it)
  BY SumsExist, FS_Subset
<1>2. QED
  BY <1>1, SumUnfolds

\* The sum depends on the values of the members alone.
LEMMA SumIsLocal ==
    ASSUME NEW S, IsFiniteSet(S), NEW f, NEW g, \A x \in S : f[x] = g[x]
    PROVE  SumFunctionOnSet(f, S) = SumFunctionOnSet(g, S)
<1> DEFINE C == {T \in SUBSET S : SumFunctionOnSet(f, T) # SumFunctionOnSet(g, T)}
<1>1. SUFFICES ASSUME S \in C PROVE FALSE
  OBVIOUS
<1>2. PICK T \in C : IsFiniteSet(T) /\ \A U \in C : U \subseteq T => U = T
  <2> HIDE DEF C
  <2>1. QED
    BY <1>1, LeastSet
<1>3. T # {}
  BY SumOfNone
<1>4. Picked(T) \in T
  BY <1>3, PickedIsMember
<1>5. T \ {Picked(T)} \in SUBSET S /\ T \ {Picked(T)} # T
  BY <1>4
<1>6. SumFunctionOnSet(f, T \ {Picked(T)}) = SumFunctionOnSet(g, T \ {Picked(T)})
  BY <1>2, <1>5
<1>7. f[Picked(T)] = g[Picked(T)]
  BY <1>4
<1>8. SumFunctionOnSet(f, T) = f[Picked(T)] + SumFunctionOnSet(f, T \ {Picked(T)})
  BY <1>2, <1>3, SumOfSome
<1>9. SumFunctionOnSet(g, T) = g[Picked(T)] + SumFunctionOnSet(g, T \ {Picked(T)})
  BY <1>2, <1>3, SumOfSome
<1>10. QED
  BY <1>6, <1>7, <1>8, <1>9

\* A sum of integers is an integer.
LEMMA SumIsInteger ==
    ASSUME NEW S, IsFiniteSet(S), NEW f, \A x \in S : f[x] \in Int
    PROVE  SumFunctionOnSet(f, S) \in Int
<1> DEFINE C == {T \in SUBSET S : SumFunctionOnSet(f, T) \notin Int}
<1>1. SUFFICES ASSUME S \in C PROVE FALSE
  OBVIOUS
<1>2. PICK T \in C : IsFiniteSet(T) /\ \A U \in C : U \subseteq T => U = T
  <2> HIDE DEF C
  <2>1. QED
    BY <1>1, LeastSet
<1>3. T # {}
  BY SumOfNone
<1>4. Picked(T) \in T
  BY <1>3, PickedIsMember
<1>5. T \ {Picked(T)} \in SUBSET S /\ T \ {Picked(T)} # T
  BY <1>4
<1>6. SumFunctionOnSet(f, T \ {Picked(T)}) \in Int
  BY <1>2, <1>5
<1>7. f[Picked(T)] \in Int
  BY <1>4
<1>8. SumFunctionOnSet(f, T) = f[Picked(T)] + SumFunctionOnSet(f, T \ {Picked(T)})
  BY <1>2, <1>3, SumOfSome
<1>9. QED
  BY <1>6, <1>7, <1>8

\* Any member can be taken out of the sum, not only the picked one.
LEMMA SumWithout ==
    ASSUME NEW S, IsFiniteSet(S), NEW f, \A x \in S : f[x] \in Int, NEW x \in S
    PROVE  SumFunctionOnSet(f, S) = f[x] + SumFunctionOnSet(f, S \ {x})
<1> DEFINE Off(T) == \E y \in T : SumFunctionOnSet(f, T) # f[y] + SumFunctionOnSet(f, T \ {y})
           C == {T \in SUBSET S : Off(T)}
<1>1. SUFFICES ASSUME S \in C PROVE FALSE
  OBVIOUS
<1>2. PICK T \in C : IsFiniteSet(T) /\ \A U \in C : U \subseteq T => U = T
  <2> HIDE DEF Off, C
  <2>1. QED
    BY <1>1, LeastSet
<1>3. PICK y \in T : SumFunctionOnSet(f, T) # f[y] + SumFunctionOnSet(f, T \ {y})
  BY Zenon
<1> DEFINE p == Picked(T)
<1>4. p \in T
  BY <1>3, PickedIsMember
<1>5. SumFunctionOnSet(f, T) = f[p] + SumFunctionOnSet(f, T \ {p})
  BY <1>2, <1>3, SumOfSome
<1> HIDE DEF p
<1>6. y # p
  BY <1>3, <1>5
<1>7. ~Off(T \ {p}) /\ ~Off(T \ {y})
  <2>1. T \ {p} \in SUBSET S /\ T \ {p} # T /\ T \ {y} \in SUBSET S /\ T \ {y} # T
    BY <1>3, <1>4
  <2> HIDE DEF Off
  <2>2. QED
    BY <1>2, <2>1
<1>8. SumFunctionOnSet(f, T \ {p}) = f[y] + SumFunctionOnSet(f, (T \ {p}) \ {y})
  <2>1. y \in T \ {p}
    BY <1>6
  <2>2. QED
    BY <1>7, <2>1, Zenon
<1>9. SumFunctionOnSet(f, T \ {y}) = f[p] + SumFunctionOnSet(f, (T \ {y}) \ {p})
  <2>1. p \in T \ {y}
    BY <1>4, <1>6
  <2>2. QED
    BY <1>7, <2>1, Zenon
<1>10. (T \ {p}) \ {y} = (T \ {y}) \ {p}
  OBVIOUS
<1> DEFINE rest == SumFunctionOnSet(f, (T \ {p}) \ {y})
<1>11. rest \in Int /\ f[p] \in Int /\ f[y] \in Int
  <2>1. IsFiniteSet((T \ {p}) \ {y}) /\ \A z \in (T \ {p}) \ {y} : f[z] \in Int
    BY <1>2, FS_Subset
  <2>2. QED
    BY <1>4, <2>1, SumIsInteger
<1> HIDE DEF rest
<1>12. SumFunctionOnSet(f, T) = f[p] + (f[y] + rest)
  BY <1>5, <1>8 DEF rest
<1>13. SumFunctionOnSet(f, T \ {y}) = f[p] + rest
  BY <1>9, <1>10 DEF rest
<1>14. QED
  BY <1>3, <1>11, <1>12, <1>13

\* The sums of disjoint sets add up.
LEMMA SumOfDisjoint ==
    ASSUME NEW A, IsFiniteSet(A), NEW B, IsFiniteSet(B), A \cap B = {},
           NEW f, \A x \in A \cup B : f[x] \in Int
    PROVE  SumFunctionOnSet(f, A \cup B) = SumFunctionOnSet(f, A) + SumFunctionOnSet(f, B)
<1> DEFINE C == {T \in SUBSET B : SumFunctionOnSet(f, A \cup T)
                                    # SumFunctionOnSet(f, A) + SumFunctionOnSet(f, T)}
<1>1. SUFFICES ASSUME B \in C PROVE FALSE
  OBVIOUS
<1>2. PICK T \in C : IsFiniteSet(T) /\ \A U \in C : U \subseteq T => U = T
  <2> HIDE DEF C
  <2>1. QED
    BY <1>1, LeastSet
<1>3. SumFunctionOnSet(f, A) \in Int
  BY SumIsInteger
<1>4. T # {}
  <2>1. A \cup {} = A
    OBVIOUS
  <2>2. QED
    BY <1>3, <2>1, SumOfNone
<1>5. PICK x \in T : TRUE
  BY <1>4
<1> DEFINE R == T \ {x}
<1>6. SumFunctionOnSet(f, A \cup R) = SumFunctionOnSet(f, A) + SumFunctionOnSet(f, R)
  <2>1. R \in SUBSET B /\ R # T
    BY <1>5
  <2>2. QED
    BY <1>2, <2>1
<1>7. SumFunctionOnSet(f, T) = f[x] + SumFunctionOnSet(f, R)
  <2>1. \A y \in T : f[y] \in Int
    OBVIOUS
  <2>2. QED
    BY <1>2, <1>5, <2>1, SumWithout
<1>8. SumFunctionOnSet(f, A \cup T) = f[x] + SumFunctionOnSet(f, A \cup R)
  <2>1. \A y \in A \cup T : f[y] \in Int
    OBVIOUS
  <2>2. IsFiniteSet(A \cup T) /\ x \in A \cup T /\ (A \cup T) \ {x} = A \cup R
    BY <1>2, <1>5, FS_Union
  <2> DEFINE u == A \cup T
  <2> HIDE DEF u
  <2>3. SumFunctionOnSet(f, u) = f[x] + SumFunctionOnSet(f, u \ {x})
    BY <2>1, <2>2, SumWithout DEF u
  <2>4. QED
    BY <2>2, <2>3 DEF u
<1>9. SumFunctionOnSet(f, R) \in Int /\ f[x] \in Int
  <2>1. IsFiniteSet(R) /\ \A y \in R : f[y] \in Int
    BY <1>2, FS_Subset
  <2>2. QED
    BY <1>5, <2>1, SumIsInteger
<1> HIDE DEF R
<1>10. QED
  BY <1>2, <1>3, <1>6, <1>7, <1>8, <1>9

\* The users who tried, and their entries on the board.
UsersOf(rows) == {t.user : t \in rows}
EntryOf(rows, u) ==
    LET own == RowsOf(rows, u) IN
       [user |-> u,
        total |-> SumFunction([t \in own |-> t.score]),
        highest |-> Max({t.index : t \in own}),
        attempts |-> SumFunction([t \in own |-> t.attempts]),
        first |-> Min({t.start : t \in own})]

\* What a score is to the sums.
ScoresAreIntegers(rows) == \A t \in rows : t.score \in Int

\* Then sums of scores are integers.
LEMMA ScoreIsInteger ==
    ASSUME NEW rows, IsFiniteSet(rows), ScoresAreIntegers(rows)
    PROVE  Sum(rows) \in Int /\ \A u : Score(rows, u) \in Int
<1>1. ASSUME NEW A, A \subseteq rows PROVE Sum(A) \in Int
  <2> DEFINE f == [t \in A |-> t.score]
  <2>1. IsFiniteSet(A)
    BY <1>1, FS_Subset
  <2>2. DOMAIN f = A /\ \A t \in A : f[t] \in Int
    BY <1>1 DEF ScoresAreIntegers
  <2> HIDE DEF f
  <2>3. SumFunctionOnSet(f, A) \in Int
    BY <2>1, <2>2, SumIsInteger
  <2>4. QED
    BY <2>2, <2>3 DEF Sum, SumFunction, f
<1>2. \A u : RowsOf(rows, u) \subseteq rows
  BY DEF RowsOf
<1>3. QED
  BY <1>1, <1>2 DEF Score

\* Finitely many tries are by finitely many users.
LEMMA UsersAreFinite ==
    ASSUME NEW rows, IsFiniteSet(rows)
    PROVE  IsFiniteSet(UsersOf(rows)) /\ Cardinality(UsersOf(rows)) \in Nat
<1> DEFINE f == [t \in rows |-> t.user]
<1>1. f \in Surjection(rows, UsersOf(rows))
  BY DEF Surjection, UsersOf
<1>2. QED
  BY <1>1, FS_Surjection, FS_CardinalityType

\* The entries are one of each user, with his total.
LEMMA EntriesOfUsers ==
    ASSUME NEW rows
    PROVE  /\ Entries(rows) = {EntryOf(rows, u) : u \in UsersOf(rows)}
           /\ \A u : EntryOf(rows, u).user = u /\ EntryOf(rows, u).total = Score(rows, u)
<1>1. Entries(rows) = {EntryOf(rows, u) : u \in UsersOf(rows)}
  BY DEF Entries, EntryOf, UsersOf
<1>2. ASSUME NEW u PROVE EntryOf(rows, u).user = u
  BY DEF EntryOf
<1>3. ASSUME NEW u PROVE EntryOf(rows, u).total = Score(rows, u)
  BY DEF EntryOf, Score, Sum
<1>4. QED
  BY <1>1, <1>2, <1>3

\* An entry is that of its user.
LEMMA EntryFacts ==
    ASSUME NEW rows, NEW e \in Entries(rows)
    PROVE  e.user \in UsersOf(rows) /\ e = EntryOf(rows, e.user) /\ e.total = Score(rows, e.user)
<1>1. PICK u \in UsersOf(rows) : e = EntryOf(rows, u)
  BY EntriesOfUsers
<1>2. QED
  BY <1>1, EntriesOfUsers

\* There are as many entries as users.
LEMMA EntriesCount ==
    ASSUME NEW rows, IsFiniteSet(rows), NEW U, U \subseteq UsersOf(rows)
    PROVE  /\ IsFiniteSet({EntryOf(rows, u) : u \in U})
           /\ Cardinality({EntryOf(rows, u) : u \in U}) = Cardinality(U)
           /\ IsFiniteSet(U)
<1> DEFINE E == {EntryOf(rows, u) : u \in U}
           f == [u \in U |-> EntryOf(rows, u)]
<1>1. f \in Bijection(U, E)
  <2>1. f \in [U -> E]
    OBVIOUS
  <2>2. \A u, v \in U : f[u] = f[v] => u = v
    BY EntriesOfUsers
  <2>3. \A e \in E : \E u \in U : f[u] = e
    OBVIOUS
  <2> HIDE DEF f, E
  <2>4. QED
    BY <2>1, <2>2, <2>3 DEF Bijection, Injection, Surjection, IsInjective
<1>2. IsFiniteSet(U)
  BY UsersAreFinite, FS_Subset
<1> HIDE DEF f, E
<1>3. IsFiniteSet(E) /\ Cardinality(E) = Cardinality(U)
  BY <1>1, <1>2, FS_Bijection DEF ExistsBijection
<1>4. QED
  BY <1>2, <1>3 DEF E

\* A leaderboard ranks every user once.
LEMMA BoardFacts ==
    ASSUME NEW rows, IsFiniteSet(rows), NEW board \in Leaderboards(rows)
    PROVE  /\ board \in Seq(Entries(rows))
           /\ Len(board) = Cardinality(UsersOf(rows))
           /\ Len(board) \in Nat
           /\ DOMAIN board = 1..Len(board)
           /\ \A j \in DOMAIN board : board[j] \in Entries(rows)
           /\ \A e \in Entries(rows) : \E j \in DOMAIN board : board[j] = e
           /\ \A i, j \in DOMAIN board : i < j => ~Before(board[j], board[i])
<1> DEFINE E == Entries(rows)
           n == Cardinality(UsersOf(rows))
<1>1. n \in Nat /\ IsFiniteSet(E) /\ Cardinality(E) = n
  <2>1. E = {EntryOf(rows, u) : u \in UsersOf(rows)}
    BY EntriesOfUsers
  <2>2. n \in Nat
    BY UsersAreFinite
  <2> DEFINE F == {EntryOf(rows, u) : u \in UsersOf(rows)}
  <2>3. IsFiniteSet(F) /\ Cardinality(F) = n
    BY EntriesCount
  <2> HIDE DEF E, F, n
  <2>4. QED
    BY <2>1, <2>2, <2>3 DEF F
<1>2. /\ board \in SetToSeqs(E)
      /\ \A i, j \in DOMAIN board : i < j => ~Before(board[j], board[i])
  BY DEF Leaderboards
<1> HIDE DEF n, E
<1>3. board \in [1..n -> E] /\ \A i, j \in 1..n : i # j => board[i] # board[j]
  BY <1>1, <1>2 DEF SetToSeqs
<1>4. board \in Seq(E) /\ Len(board) = n /\ DOMAIN board = 1..n
  BY <1>1, <1>3
<1>5. \A e \in E : \E j \in 1..n : board[j] = e
  <2>1. board \in Injection(1..n, E)
    BY <1>3 DEF Injection, IsInjective
  <2>2. Cardinality(1..n) = n
    BY <1>1, FS_Interval
  <2>3. board \in Surjection(1..n, E)
    BY <1>1, <2>1, <2>2, FS_Injection
  <2>4. QED
    BY <2>3 DEF Surjection
<1>6. \A j \in 1..n : board[j] \in E
  BY <1>3
<1>7. QED
  BY <1>1, <1>2, <1>4, <1>5, <1>6 DEF E, n

\* What the query of the leaderboard returns is a right answer.
LEMMA LeaderboardIsBoard ==
    ASSUME NEW rows, IsFiniteSet(rows), NEW board \in Leaderboards(rows)
    PROVE  IsBoard(rows, board)
<1>1. {board[i].user : i \in DOMAIN board} = {t.user : t \in rows}
  <2>1. ASSUME NEW i \in DOMAIN board PROVE board[i].user \in UsersOf(rows)
    BY BoardFacts, EntryFacts
  <2>2. ASSUME NEW u \in UsersOf(rows) PROVE \E i \in DOMAIN board : board[i].user = u
    <3>1. EntryOf(rows, u) \in Entries(rows)
      BY EntriesOfUsers
    <3>2. PICK i \in DOMAIN board : board[i] = EntryOf(rows, u)
      BY <3>1, BoardFacts
    <3>3. QED
      BY <3>2, EntriesOfUsers
  <2>3. QED
    BY <2>1, <2>2 DEF UsersOf
<1>2. \A i \in DOMAIN board : board[i].total = Score(rows, board[i].user)
  BY BoardFacts, EntryFacts
<1>3. QED
  BY <1>1, <1>2, BoardFacts DEF IsBoard, UsersOf

----------------------------------------------------------------------------
\* The points of some users, counted by user or by try.
RowsOfAll(rows, U) == {t \in rows : t.user \in U}
Totals(E) == SumFunction([e \in E |-> e.total])

\* The points of users who have none can be left out.
LEMMA SumOfSubset ==
    ASSUME NEW S, IsFiniteSet(S), NEW A, A \subseteq S
    PROVE  /\ Sum(A) = SumFunctionOnSet([t \in S |-> t.score], A)
           /\ Totals(A) = SumFunctionOnSet([e \in S |-> e.total], A)
<1>1. IsFiniteSet(A)
  BY FS_Subset
<1>2. Sum(A) = SumFunctionOnSet([t \in S |-> t.score], A)
  <2> DEFINE f == [t \in A |-> t.score]
             g == [t \in S |-> t.score]
  <2>1. DOMAIN f = A /\ \A t \in A : f[t] = g[t]
    OBVIOUS
  <2> HIDE DEF f, g
  <2>2. SumFunctionOnSet(f, A) = SumFunctionOnSet(g, A)
    BY <1>1, <2>1, SumIsLocal
  <2>3. QED
    BY <2>1, <2>2 DEF Sum, SumFunction, f, g
<1>3. Totals(A) = SumFunctionOnSet([e \in S |-> e.total], A)
  <2> DEFINE f == [t \in A |-> t.total]
             g == [t \in S |-> t.total]
  <2>1. DOMAIN f = A /\ \A t \in A : f[t] = g[t]
    OBVIOUS
  <2> HIDE DEF f, g
  <2>2. SumFunctionOnSet(f, A) = SumFunctionOnSet(g, A)
    BY <1>1, <2>1, SumIsLocal
  <2>3. QED
    BY <2>1, <2>2 DEF Totals, SumFunction, f, g
<1>4. QED
  BY <1>2, <1>3

\* No tries, no points.
LEMMA SumOfNoRows == Sum({}) = 0 /\ Totals({}) = 0
<1>1. SumFunctionOnSet([t \in {} |-> t.score], {}) = 0
  BY SumOfNone
<1>2. SumFunctionOnSet([t \in {} |-> t.total], {}) = 0
  BY SumOfNone
<1>3. QED
  BY <1>1, <1>2 DEF Sum, Totals, SumFunction

\* The points counted by user are those counted by try.
LEMMA PointsByUser ==
    ASSUME NEW rows, IsFiniteSet(rows), ScoresAreIntegers(rows), NEW U, U \subseteq UsersOf(rows)
    PROVE  Totals({EntryOf(rows, u) : u \in U}) = Sum(RowsOfAll(rows, U))
<1> DEFINE Es(T) == {EntryOf(rows, u) : u \in T}
           C == {T \in SUBSET U : Totals(Es(T)) # Sum(RowsOfAll(rows, T))}
<1>1. SUFFICES ASSUME U \in C PROVE FALSE
  OBVIOUS
<1>2. PICK T \in C : IsFiniteSet(T) /\ \A V \in C : V \subseteq T => V = T
  <2>1. IsFiniteSet(U)
    BY EntriesCount
  <2> HIDE DEF C
  <2>2. QED
    BY <1>1, <2>1, LeastSet
<1>3. T # {}
  <2>1. Es({}) = {} /\ RowsOfAll(rows, {}) = {}
    BY DEF RowsOfAll
  <2>2. QED
    BY <2>1, SumOfNoRows
<1>4. PICK u \in T : TRUE
  BY <1>3
<1> DEFINE R == T \ {u}
           e == EntryOf(rows, u)
<1>5. Totals(Es(R)) = Sum(RowsOfAll(rows, R))
  <2>1. R \in SUBSET U /\ R # T
    BY <1>4
  <2>2. QED
    BY <1>2, <2>1
<1>6. \A v : Score(rows, v) \in Int
  BY ScoreIsInteger
<1>7. Totals(Es(T)) = Score(rows, u) + Totals(Es(R))
  <2> DEFINE S == Es(T)
             g == [x \in S |-> x.total]
  <2>1. IsFiniteSet(S)
    <3>1. T \subseteq UsersOf(rows)
      BY <1>2
    <3>2. QED
      BY <3>1, EntriesCount
  <2>2. \A x \in S : g[x] \in Int
    BY <1>6, EntriesOfUsers
  <2>3. e \in S /\ S \ {e} = Es(R) /\ g[e] = Score(rows, u)
    BY <1>4, EntriesOfUsers
  <2>4. Es(R) \subseteq S
    OBVIOUS
  <2>5. Totals(S) = SumFunctionOnSet(g, S) /\ Totals(Es(R)) = SumFunctionOnSet(g, Es(R))
    <3> HIDE DEF S, Es
    <3>1. Totals(S) = SumFunctionOnSet([x \in S |-> x.total], S)
      BY <2>1, SumOfSubset
    <3>2. Totals(Es(R)) = SumFunctionOnSet([x \in S |-> x.total], Es(R))
      BY <2>1, <2>4, SumOfSubset
    <3>3. QED
      BY <3>1, <3>2
  <2> HIDE DEF S, g, e
  <2>6. SumFunctionOnSet(g, S) = g[e] + SumFunctionOnSet(g, S \ {e})
    BY <2>1, <2>2, <2>3, SumWithout
  <2>7. Totals(S) = Score(rows, u) + Totals(Es(R))
    BY <2>3, <2>5, <2>6
  <2>8. QED
    BY <2>7 DEF S
<1>8. Sum(RowsOfAll(rows, T)) = Score(rows, u) + Sum(RowsOfAll(rows, R))
  <2> DEFINE A == RowsOf(rows, u)
             B == RowsOfAll(rows, R)
             g == [t \in rows |-> t.score]
  <2>1. A \subseteq rows /\ B \subseteq rows /\ A \cap B = {} /\ RowsOfAll(rows, T) = A \cup B
    BY <1>4 DEF RowsOf, RowsOfAll
  <2>2. \A t \in rows : g[t] \in Int
    BY DEF ScoresAreIntegers
  <2>3. IsFiniteSet(A) /\ IsFiniteSet(B)
    BY <2>1, FS_Subset
  <2>4. Sum(A) = SumFunctionOnSet(g, A) /\ Sum(B) = SumFunctionOnSet(g, B)
        /\ Sum(A \cup B) = SumFunctionOnSet(g, A \cup B)
    <3>1. A \cup B \subseteq rows
      BY <2>1
    <3> DEFINE D == A \cup B
    <3> HIDE DEF A, B, D
    <3>2. Sum(A) = SumFunctionOnSet([t \in rows |-> t.score], A)
      BY <2>1, SumOfSubset
    <3>3. Sum(B) = SumFunctionOnSet([t \in rows |-> t.score], B)
      BY <2>1, SumOfSubset
    <3>4. Sum(D) = SumFunctionOnSet([t \in rows |-> t.score], D)
      BY <3>1, SumOfSubset DEF D
    <3>5. QED
      BY <3>2, <3>3, <3>4 DEF D
  <2> HIDE DEF A, B, g
  <2>5. SumFunctionOnSet(g, A \cup B) = SumFunctionOnSet(g, A) + SumFunctionOnSet(g, B)
    <3>1. \A t \in A \cup B : g[t] \in Int
      BY <2>1, <2>2
    <3>2. QED
      BY <2>1, <2>3, <3>1, SumOfDisjoint
  <2>6. Sum(RowsOfAll(rows, T)) = Sum(A) + Sum(B)
    BY <2>1, <2>4, <2>5
  <2>7. QED
    BY <2>6 DEF A, B, Score
<1>9. QED
  BY <1>2, <1>5, <1>7, <1>8

----------------------------------------------------------------------------
\* The users whose points count, and the entries of those.
ActiveUsers(rows) == {u \in UsersOf(rows) : Score(rows, u) > 0}
CountedOn(board) == {e \in Range(board) : e.total > 0}

\* Active users are among those who tried.
LEMMA ActiveFacts ==
    ASSUME NEW rows
    PROVE  /\ {t.user : t \in Active(rows)} = ActiveUsers(rows)
           /\ Active(rows) = RowsOfAll(rows, ActiveUsers(rows))
BY DEF Active, ActiveUsers, UsersOf, RowsOfAll

\* They are the users of the entries counted.
LEMMA CountedFacts ==
    ASSUME NEW rows, IsFiniteSet(rows), NEW board \in Leaderboards(rows)
    PROVE  CountedOn(board) = {EntryOf(rows, u) : u \in ActiveUsers(rows)}
<1>1. Range(board) = Entries(rows)
  BY BoardFacts DEF Range
<1>2. ASSUME NEW e \in CountedOn(board) PROVE e \in {EntryOf(rows, u) : u \in ActiveUsers(rows)}
  <2>1. e \in Entries(rows) /\ e.total > 0
    BY <1>1 DEF CountedOn
  <2>2. e.user \in UsersOf(rows) /\ e = EntryOf(rows, e.user) /\ e.total = Score(rows, e.user)
    BY <2>1, EntryFacts
  <2>3. QED
    BY <2>1, <2>2 DEF ActiveUsers
<1>3. ASSUME NEW u \in ActiveUsers(rows) PROVE EntryOf(rows, u) \in CountedOn(board)
  <2>1. u \in UsersOf(rows) /\ Score(rows, u) > 0
    BY DEF ActiveUsers
  <2>2. EntryOf(rows, u) \in Entries(rows) /\ EntryOf(rows, u).total = Score(rows, u)
    BY <2>1, EntriesOfUsers
  <2>3. QED
    BY <1>1, <2>1, <2>2 DEF CountedOn
<1>4. QED
  BY <1>2, <1>3

\* A set whose members none of a larger set exceeds has the same Max as it.
LEMMA SameMax ==
    ASSUME NEW A, NEW B, IsFiniteSet(A), IsFiniteSet(B), A # {}, A \subseteq B,
           \A b \in B : b \in Int /\ \E a \in A : b <= a
    PROVE  Max(A) = Max(B)
<1>1. A \subseteq Int /\ B \subseteq Int /\ B # {}
  OBVIOUS
<1>2. Max(A) \in A /\ \A y \in A : y <= Max(A)
  BY <1>1, LargestMember
<1>3. Max(B) \in B /\ \A y \in B : y <= Max(B)
  BY <1>1, LargestMember
<1> DEFINE a == Max(A)
           b == Max(B)
<1> HIDE DEF a, b
<1>4. PICK c \in A : b <= c
  BY <1>3 DEF b
<1>5. a \in Int /\ b \in Int /\ c \in Int /\ c <= a /\ a <= b
  BY <1>1, <1>2, <1>3, <1>4 DEF a, b
<1>6. a = b
  BY <1>4, <1>5
<1>7. QED
  BY <1>6 DEF a, b

\* The highest total is that of the first on the board.
LEMMA HighestIsOfFirst ==
    ASSUME NEW rows, IsFiniteSet(rows), ScoresAreIntegers(rows), NEW board \in Leaderboards(rows)
    PROVE  Max({0} \cup {e.total : e \in CountedOn(board)})
             = Max({0} \cup {Score(rows, t.user) : t \in rows})
<1> DEFINE A == {0} \cup {e.total : e \in CountedOn(board)}
           B == {0} \cup {Score(rows, t.user) : t \in rows}
<1>1. A = {0} \cup {Score(rows, u) : u \in ActiveUsers(rows)}
  <2>1. {e.total : e \in CountedOn(board)} = {Score(rows, u) : u \in ActiveUsers(rows)}
    BY CountedFacts, EntriesOfUsers
  <2>2. QED
    BY <2>1
<1>2. A \subseteq B
  BY <1>1 DEF ActiveUsers, UsersOf
<1>3. IsFiniteSet(B)
  <2> DEFINE f == [t \in rows |-> Score(rows, t.user)]
             D == {Score(rows, t.user) : t \in rows}
  <2>1. f \in Surjection(rows, D)
    BY DEF Surjection
  <2>2. IsFiniteSet(D)
    BY <2>1, FS_Surjection
  <2>3. IsFiniteSet({0})
    BY FS_Singleton
  <2> HIDE DEF D
  <2>4. IsFiniteSet({0} \cup D)
    BY <2>2, <2>3, FS_Union
  <2>5. QED
    BY <2>4 DEF D
<1>4. IsFiniteSet(A)
  BY <1>2, <1>3, FS_Subset
<1>5. ASSUME NEW b \in B PROVE b \in Int /\ \E a \in A : b <= a
  <2>1. \A u : Score(rows, u) \in Int
    BY ScoreIsInteger
  <2>2. b \in Int
    BY <2>1
  <2>3. CASE b <= 0
    <3>1. 0 \in A
      OBVIOUS
    <3> HIDE DEF A
    <3>2. QED
      BY <2>2, <2>3, <3>1
  <2>4. CASE b > 0
    <3>1. PICK t \in rows : b = Score(rows, t.user)
      BY <2>4
    <3>2. b \in A
      BY <1>1, <2>4, <3>1 DEF ActiveUsers, UsersOf
    <3> HIDE DEF A, B
    <3>3. b <= b
      BY <2>2
    <3>4. QED
      BY <2>2, <3>2, <3>3
  <2>5. QED
    BY <2>2, <2>3, <2>4
<1>6. A # {}
  OBVIOUS
<1> HIDE DEF A, B
<1>7. Max(A) = Max(B)
  BY <1>2, <1>3, <1>4, <1>5, <1>6, SameMax
<1>8. QED
  BY <1>7 DEF A, B

\* The smaller of two numbers.
LEMMA MinOfTwo ==
    ASSUME NEW a \in Nat, NEW b \in Nat
    PROVE  Min({a, b}) \in Nat /\ Min({a, b}) <= a /\ Min({a, b}) <= b
<1>1. \E m \in {a, b} : \A y \in {a, b} : m <= y
  OBVIOUS
<1>2. Min({a, b}) \in {a, b} /\ \A y \in {a, b} : Min({a, b}) <= y
  BY <1>1 DEF Min
<1>3. QED
  BY <1>2

\* Nobody better than the entry at i stands behind it.
LEMMA FewAreBetter ==
    ASSUME NEW rows, IsFiniteSet(rows), ScoresAreIntegers(rows), NEW board \in Leaderboards(rows),
           NEW i \in DOMAIN board
    PROVE  Cardinality({t.user : t \in {t \in rows : Score(rows, t.user) > board[i].total}}) < i
<1> DEFINE better == {t.user : t \in {t \in rows : Score(rows, t.user) > board[i].total}}
           f == [j \in 1..(i - 1) |-> board[j].user]
           ahead == {board[j].user : j \in 1..(i - 1)}
<1>1. DOMAIN board = 1..Len(board) /\ Len(board) \in Nat /\ i \in Nat /\ i >= 1
  BY BoardFacts
<1>2. ASSUME NEW u \in better PROVE u \in ahead
  <2>1. u \in UsersOf(rows) /\ Score(rows, u) > board[i].total
    BY DEF UsersOf
  <2>2. EntryOf(rows, u) \in Entries(rows)
    BY <2>1, EntriesOfUsers
  <2>3. PICK j \in DOMAIN board : board[j] = EntryOf(rows, u)
    BY <2>2, BoardFacts
  <2>4. board[j].user = u /\ board[j].total = Score(rows, u)
    BY <2>3, EntriesOfUsers
  <2>5. board[i].total \in Int /\ Score(rows, u) \in Int
    BY BoardFacts, EntryFacts, ScoreIsInteger
  <2>6. Before(board[j], board[i])
    BY <2>1, <2>4 DEF Before
  <2>7. ~(i < j)
    BY <2>6, BoardFacts
  <2>8. i # j
    BY <2>1, <2>4, <2>5
  <2>9. QED
    BY <1>1, <2>4, <2>7, <2>8
<1>3. f \in Surjection(1..(i - 1), ahead)
  BY DEF Surjection
<1>4. IsFiniteSet(1..(i - 1)) /\ Cardinality(1..(i - 1)) = i - 1
  <2> DEFINE m == i - 1
  <2>1. m \in Nat
    BY <1>1
  <2> HIDE DEF m
  <2>2. IsFiniteSet(1..m) /\ Cardinality(1..m) = IF 1 > m THEN 0 ELSE m - 1 + 1
    BY <2>1, FS_Interval
  <2>3. IsFiniteSet(1..m) /\ Cardinality(1..m) = m
    BY <2>1, <2>2
  <2>4. QED
    BY <2>3 DEF m
<1> HIDE DEF better, f, ahead
<1>5. IsFiniteSet(ahead) /\ Cardinality(ahead) <= i - 1
  BY <1>3, <1>4, FS_Surjection
<1>6. better \in SUBSET ahead
  BY <1>2
<1>7. Cardinality(better) <= Cardinality(ahead) /\ Cardinality(better) \in Nat /\ Cardinality(ahead) \in Nat
  BY <1>5, <1>6, FS_Subset, FS_CardinalityType
<1>8. Cardinality(better) < i
  BY <1>1, <1>5, <1>7
<1>9. QED
  BY <1>8 DEF better

\* What is computed from a leaderboard is right of the tries it ranks.
LEMMA StatisticsAreRight ==
    ASSUME NEW rows, IsFiniteSet(rows), ScoresAreIntegers(rows), NEW board \in Leaderboards(rows)
    PROVE  IsStatistics(rows, Statistics(board))
<1> DEFINE stats == Statistics(board)
           n == Min({Top, Len(board)})
<1>1. /\ stats.users = Len(board)
      /\ stats.active = Cardinality(CountedOn(board))
      /\ stats.total = Totals(CountedOn(board))
      /\ stats.highest = Max({0} \cup {e.total : e \in CountedOn(board)})
      /\ stats.listed = SubSeq(board, 1, n)
  BY DEF Statistics, CountedOn, Totals
<1>2. /\ CountedOn(board) = {EntryOf(rows, u) : u \in ActiveUsers(rows)}
      /\ ActiveUsers(rows) \subseteq UsersOf(rows)
  BY CountedFacts DEF ActiveUsers
<1>3. stats.users = Cardinality({t.user : t \in rows})
  BY <1>1, BoardFacts DEF UsersOf
<1>4. stats.total = Sum(Active(rows))
  <2>1. Totals({EntryOf(rows, u) : u \in ActiveUsers(rows)}) = Sum(RowsOfAll(rows, ActiveUsers(rows)))
    BY <1>2, PointsByUser
  <2>2. QED
    BY <1>1, <1>2, <2>1, ActiveFacts
<1>5. stats.active = Cardinality({t.user : t \in Active(rows)})
  <2>1. Cardinality({EntryOf(rows, u) : u \in ActiveUsers(rows)}) = Cardinality(ActiveUsers(rows))
    BY <1>2, EntriesCount
  <2>2. QED
    BY <1>1, <1>2, <2>1, ActiveFacts
<1>6. stats.highest = Max({0} \cup {Score(rows, t.user) : t \in rows})
  BY <1>1, HighestIsOfFirst
<1>7. board \in Seq(Entries(rows)) /\ Len(board) \in Nat /\ DOMAIN board = 1..Len(board)
  BY BoardFacts
<1>8. n \in Nat /\ n <= Len(board)
  BY <1>7, MinOfTwo, TopAssumption
<1> HIDE DEF n
<1>9. /\ SubSeq(board, 1, n) \in Seq(Entries(rows)) /\ Len(SubSeq(board, 1, n)) = n
      /\ DOMAIN SubSeq(board, 1, n) = 1..n
      /\ \A i \in 1..n : SubSeq(board, 1, n)[i] = board[i]
  BY <1>7, <1>8
<1>10. Len(stats.listed) = Min({Top, stats.users})
  BY <1>1, <1>9 DEF n
<1>11. ASSUME NEW i \in DOMAIN stats.listed
       PROVE  Cardinality({t.user : t \in {t \in rows : Score(rows, t.user) > stats.listed[i].total}}) < i
  <2>1. i \in DOMAIN board /\ stats.listed[i] = board[i]
    BY <1>1, <1>7, <1>8, <1>9
  <2>2. QED
    BY <2>1, FewAreBetter
<1> HIDE DEF stats
<1>12. IsStatistics(rows, stats)
  BY <1>3, <1>4, <1>5, <1>6, <1>10, <1>11 DEF IsStatistics
<1>13. QED
  BY <1>12 DEF stats

\* No other try of the puzzle comes before the one that is found.
LEMMA LastTryIsRight ==
    ASSUME NEW rows, SoundTries(rows), NEW u, NEW i
    PROVE  IsLastTry(rows, u, i, LastTry(rows, u, i))
<1> DEFINE tries == {t \in RowsOf(rows, u) : t.index = i}
           opened == {t \in tries : ~t.ended}
           steps == IF {t.step : t \in opened} = {} THEN {t.step : t \in tries} ELSE {t.step : t \in opened}
           last == {t \in tries : ~\E v \in tries : ComesBefore(v, t)}
<1>1. SUFFICES LastTry(rows, u, i) = last
  BY DEF IsLastTry
<1>2. CASE tries = {}
  BY <1>2 DEF LastTry
<1>3. CASE tries # {}
  <2>1. LastTry(rows, u, i) = {t \in tries : t.step = Max(steps)}
    BY <1>3 DEF LastTry
  <2>2. \A t \in tries : /\ t \in rows /\ t.step \in Nat /\ t.ended \in BOOLEAN
                         /\ t.user = u /\ t.index = i
    BY DEF RowsOf, SoundTries, Rows
  <2>3. IsFiniteSet(steps)
    <3> DEFINE all == {t.step : t \in tries}
               f == [t \in tries |-> t.step]
    <3>1. IsFiniteSet(tries)
      <4>1. tries \in SUBSET rows /\ IsFiniteSet(rows)
        BY <2>2 DEF SoundTries
      <4>2. QED
        BY <4>1, FS_Subset
    <3>2. f \in Surjection(tries, all)
      BY DEF Surjection
    <3> HIDE DEF f
    <3>3. IsFiniteSet(all)
      <4> HIDE DEF tries, all
      <4>1. QED
        BY <3>1, <3>2, FS_Surjection
    <3>4. steps \in SUBSET all
      OBVIOUS
    <3> HIDE DEF steps, all
    <3>5. QED
      BY <3>3, <3>4, FS_Subset
  <2>4. steps # {} /\ steps \subseteq Int
    BY <1>3, <2>2
  <2>5. Max(steps) \in steps /\ \A y \in steps : y <= Max(steps)
    <3> HIDE DEF steps
    <3>1. QED
      BY <2>3, <2>4, LargestMember
  <2> DEFINE top == Max(steps)
  <2>6. top \in Int /\ LastTry(rows, u, i) = {t \in tries : t.step = top}
    BY <2>1, <2>4, <2>5
  <2>7. \A t, v \in tries : t.step = v.step => t = v
    BY <2>2 DEF SoundTries, SameKey
  <2>8. CASE opened = {}
    <3>1. steps = {t.step : t \in tries} /\ \A t \in tries : t.ended
      BY <2>8, <2>2
    <3>2. (\A t \in tries : t.step <= top) /\ \E t \in tries : t.step = top
      BY <2>5, <3>1
    <3> HIDE DEF top, tries, opened, steps
    <3>3. \A t \in tries : t.step = top <=> ~\E v \in tries : v.step > t.step
      BY <2>2, <2>6, <3>2
    <3>4. \A t, v \in tries : ComesBefore(v, t) <=> v.step > t.step
      BY <3>1 DEF ComesBefore
    <3>5. QED
      BY <2>6, <3>3, <3>4
  <2>9. CASE opened # {}
    <3>1. steps = {t.step : t \in opened}
      BY <2>9
    <3>2. PICK o \in opened : o.step = top
      BY <2>5, <3>1
    <3>3. \A v \in opened : v.step <= top
      BY <2>5, <3>1
    <3>4. o \in tries /\ ~o.ended /\ \A v \in tries : ~v.ended => v \in opened
      BY <3>2
    <3> HIDE DEF top, tries, opened, steps
    <3>5. ~\E v \in tries : ComesBefore(v, o)
      BY <2>2, <2>6, <3>2, <3>3, <3>4 DEF ComesBefore
    <3>6. \A t \in tries : t # o => ComesBefore(o, t)
      <4> SUFFICES ASSUME NEW t \in tries, t # o
                   PROVE  ComesBefore(o, t)
        OBVIOUS
      <4>1. t.step # o.step
        BY <2>7, <3>4
      <4>2. ~t.ended => t.step < o.step
        BY <2>2, <2>6, <3>2, <3>3, <3>4, <4>1
      <4>3. QED
        BY <2>2, <3>4, <4>2 DEF ComesBefore
    <3>7. \A t \in tries : t.step = top <=> t = o
      BY <2>7, <3>2, <3>4
    <3>8. QED
      BY <2>6, <3>4, <3>5, <3>6, <3>7
  <2>10. QED
    BY <2>8, <2>9
<1>4. QED
  BY <1>2, <1>3

----------------------------------------------------------------------------
\* What is read is right in the world it is read from.
LEMMA ViewIsAnswer ==
    ASSUME NEW w, SoundTries(w.tries), NEW name, NEW u, NEW i, NEW board \in Leaderboards(w.tries)
    PROVE  IsAnswer(name, u, i, w, View(name, u, i, w, board))
<1>1. CASE name = "GetTriesFromCompetitonPuzzle"
  <2>1. View(name, u, i, w, board) = LastTry(w.tries, u, i)
    BY <1>1 DEF View
  <2>2. IsLastTry(w.tries, u, i, LastTry(w.tries, u, i))
    BY LastTryIsRight
  <2>3. QED
    BY <1>1, <2>1, <2>2 DEF IsAnswer
<1>2. CASE name = "GetCompetitionStatistics"
  <2>1. View(name, u, i, w, board) = Statistics(board)
    BY <1>2 DEF View
  <2>2. IsFiniteSet(w.tries) /\ ScoresAreIntegers(w.tries)
    BY DEF SoundTries, Rows, ScoresAreIntegers
  <2>3. IsStatistics(w.tries, Statistics(board))
    BY <2>2, StatisticsAreRight
  <2>4. QED
    BY <1>2, <2>1, <2>3 DEF IsAnswer
<1>3. CASE name = "ExportCompetitionDataExcel"
  <2>1. View(name, u, i, w, board) = board
    BY <1>3 DEF View
  <2>2. IsBoard(w.tries, board)
    BY LeaderboardIsBoard DEF SoundTries
  <2>3. QED
    BY <1>3, <2>1, <2>2 DEF IsAnswer
<1>4. CASE name \notin {"GetTriesFromCompetitonPuzzle", "GetCompetitionStatistics",
                        "ExportCompetitionDataExcel"}
  <2>1. IsAnswer(name, u, i, w, View(name, u, i, w, board))
          = (View(name, u, i, w, board) = View(name, u, i, w, <<>>))
    BY <1>4 DEF IsAnswer
  <2>2. View(name, u, i, w, board) = View(name, u, i, w, <<>>)
    BY <1>4 DEF View
  <2>3. QED
    BY <2>1, <2>2
<1>5. QED
  BY <1>1, <1>2, <1>3, <1>4

----------------------------------------------------------------------------
\* The keys that a request asks and sets.
KeysOf(name, u, i) ==
    CASE name = "UserHasPermissionToViewPuzzle" -> {<<"permission", u, i>>}
      [] name = "GetCompetitionTries of all" -> {<<"tries", "all">>}
      [] name = "GetCompetitionTries" -> {<<"tries", u>>}
      [] name = "GetCompetitionStatistics" -> {<<"statistics">>}
      [] name = "GetCompetitionGroups" -> {<<"groups">>}
      [] name = "GetInputFromCompetition" ->
           {<<"comp_puzzle_input", u>>, <<"catalog_puzzle_input", u>>}
      [] name = "GetAllCatalogs" -> {<<"user_catalogs", u>>}
      [] name = "GetThemesFromCatalog" -> {<<"catalog_themes">>}
      [] name = "GetPuzzleFromThemeCatalog" -> {<<"catalog_puzzle_details">>}
      [] name = "GetPuzzleInputFromThemeCatalog" ->
           {<<"puzzle_input", u>>, <<"catalog_puzzle_input", u>>}
      [] OTHER -> {}

\* What the value of a key says of a world.
Means(k, w, v) ==
    CASE Head(k) = "permission" -> v = MayView(w.tries, k[2], k[3])
      [] Head(k) = "tries" -> v = IF k[2] = "all" THEN w.tries ELSE RowsOf(w.tries, k[2])
      [] Head(k) = "statistics" -> IsStatistics(w.tries, v)
      [] Head(k) = "groups" -> v = w.members
      [] Head(k) = "user_catalogs" -> v = (k[2] \in w.scoped)
      [] OTHER -> v = w.content

\* Keys of inputs, which never change, and keys of one user.
InputFamilies == {"comp_puzzle_input", "puzzle_input", "catalog_puzzle_input"}
Own(k) == Head(k) = "tries" /\ k[2] # "all"

\* The key is one that the request asks.
KeyFits(k, name, u, i) ==
    /\ Head(k) \in Families
    /\ \/ Head(k) = Family(name)
       \/ Head(k) \in InputFamilies /\ Family(name) = "catalog_puzzle_input"
    /\ Head(k) = "permission" <=> name = "UserHasPermissionToViewPuzzle"
    /\ Own(k) => name = "GetCompetitionTries" /\ k[2] = u
    /\ name = "GetCompetitionTries" => Own(k) /\ k[2] = u

\* The parts of a key are told apart by its family.
LEMMA PartsOfKey ==
    /\ \A a : Head(<<a>>) = a
    /\ \A a, b : Head(<<a, b>>) = a /\ <<a, b>>[2] = b
    /\ \A a, b, c : Head(<<a, b, c>>) = a /\ <<a, b, c>>[2] = b /\ <<a, b, c>>[3] = c
<1>1. \A a : Head(<<a>>) = a
  OBVIOUS
<1>2. \A a, b : Head(<<a, b>>) = a
  OBVIOUS
<1>3. \A a, b, c : Head(<<a, b, c>>) = a
  OBVIOUS
<1>4. QED
  BY <1>1, <1>2, <1>3

\* A value of the key of a request is an answer to it.
LEMMA KeysFitRequests ==
    ASSUME NEW name, NEW u \in Users \cup {None}, NEW i, NEW k \in KeysOf(name, u, i)
    PROVE  /\ KeyFits(k, name, u, i)
           /\ \A w, v : IsAnswer(name, u, i, w, v) <=> Means(k, w, v)
<1> USE DEF KeysOf, KeyFits, Own, Families, InputFamilies
<1>1. CASE name = "UserHasPermissionToViewPuzzle"
  <2>1. k = <<"permission", u, i>>
    BY <1>1
  <2>2. Head(k) = "permission" /\ k[2] = u /\ k[3] = i
    BY <2>1, PartsOfKey
  <2>3. KeyFits(k, name, u, i)
    BY <1>1, <2>2 DEF Family
  <2>4. \A w, v : IsAnswer(name, u, i, w, v) <=> Means(k, w, v)
    BY <1>1, <2>2 DEF IsAnswer, Means, View
  <2>5. QED
    BY <2>3, <2>4
<1>2. CASE name = "GetCompetitionTries of all"
  <2>1. k = <<"tries", "all">>
    BY <1>2
  <2>2. Head(k) = "tries" /\ k[2] = "all"
    BY <2>1, PartsOfKey
  <2>3. KeyFits(k, name, u, i)
    BY <1>2, <2>2 DEF Family
  <2>4. \A w, v : IsAnswer(name, u, i, w, v) <=> Means(k, w, v)
    BY <1>2, <2>2 DEF IsAnswer, Means, View
  <2>5. QED
    BY <2>3, <2>4
<1>3. CASE name = "GetCompetitionTries"
  <2>1. k = <<"tries", u>>
    BY <1>3
  <2>2. Head(k) = "tries" /\ k[2] = u /\ u # "all"
    BY <2>1, PartsOfKey, NamesAssumption
  <2>3. KeyFits(k, name, u, i)
    BY <1>3, <2>2 DEF Family
  <2>4. \A w, v : IsAnswer(name, u, i, w, v) <=> Means(k, w, v)
    BY <1>3, <2>2 DEF IsAnswer, Means, View
  <2>5. QED
    BY <2>3, <2>4
<1>4. CASE name = "GetCompetitionStatistics"
  <2>1. k = <<"statistics">>
    BY <1>4
  <2>2. Head(k) = "statistics"
    BY <2>1, PartsOfKey
  <2>3. KeyFits(k, name, u, i)
    BY <1>4, <2>2 DEF Family
  <2>4. \A w, v : IsAnswer(name, u, i, w, v) <=> Means(k, w, v)
    BY <1>4, <2>2 DEF IsAnswer, Means, View
  <2>5. QED
    BY <2>3, <2>4
<1>5. CASE name = "GetCompetitionGroups"
  <2>1. k = <<"groups">>
    BY <1>5
  <2>2. Head(k) = "groups"
    BY <2>1, PartsOfKey
  <2>3. KeyFits(k, name, u, i)
    BY <1>5, <2>2 DEF Family
  <2>4. \A w, v : IsAnswer(name, u, i, w, v) <=> Means(k, w, v)
    BY <1>5, <2>2 DEF IsAnswer, Means, View
  <2>5. QED
    BY <2>3, <2>4
<1>6. CASE name = "GetAllCatalogs"
  <2>1. k = <<"user_catalogs", u>>
    BY <1>6
  <2>2. Head(k) = "user_catalogs" /\ k[2] = u
    BY <2>1, PartsOfKey
  <2>3. KeyFits(k, name, u, i)
    BY <1>6, <2>2 DEF Family
  <2>4. ASSUME NEW w, NEW v PROVE IsAnswer(name, u, i, w, v) <=> Means(k, w, v)
    <3>1. IsAnswer(name, u, i, w, v) = (v = View(name, u, i, w, <<>>))
      BY <1>6 DEF IsAnswer
    <3>2. View(name, u, i, w, <<>>) = (u \in w.scoped)
      BY <1>6 DEF View
    <3>3. Means(k, w, v) = (v = (k[2] \in w.scoped))
      BY <2>2 DEF Means
    <3>4. QED
      BY <2>2, <3>1, <3>2, <3>3, Zenon
  <2>5. QED
    BY <2>3, <2>4
<1>7. CASE name \in {"GetInputFromCompetition", "GetPuzzleInputFromThemeCatalog",
                     "GetThemesFromCatalog", "GetPuzzleFromThemeCatalog"}
  <2>1. \/ Head(k) \in InputFamilies /\ Family(name) = "catalog_puzzle_input"
        \/ Head(k) \in {"catalog_themes", "catalog_puzzle_details"} /\ Family(name) = Head(k)
    <3>1. CASE name = "GetInputFromCompetition"
      <4>1. k = <<"comp_puzzle_input", u>> \/ k = <<"catalog_puzzle_input", u>>
        BY <3>1
      <4>2. Head(k) = "comp_puzzle_input" \/ Head(k) = "catalog_puzzle_input"
        <5>1. CASE k = <<"comp_puzzle_input", u>>
          BY <5>1, PartsOfKey
        <5>2. CASE k = <<"catalog_puzzle_input", u>>
          BY <5>2, PartsOfKey
        <5>3. QED
          BY <4>1, <5>1, <5>2
      <4>3. QED
        BY <3>1, <4>2 DEF Family
    <3>2. CASE name = "GetPuzzleInputFromThemeCatalog"
      <4>1. k = <<"puzzle_input", u>> \/ k = <<"catalog_puzzle_input", u>>
        BY <3>2
      <4>2. Head(k) = "puzzle_input" \/ Head(k) = "catalog_puzzle_input"
        <5>1. CASE k = <<"puzzle_input", u>>
          BY <5>1, PartsOfKey
        <5>2. CASE k = <<"catalog_puzzle_input", u>>
          BY <5>2, PartsOfKey
        <5>3. QED
          BY <4>1, <5>1, <5>2
      <4>3. QED
        BY <3>2, <4>2 DEF Family
    <3>3. CASE name = "GetThemesFromCatalog"
      <4>1. Head(k) = "catalog_themes"
        BY <3>3, PartsOfKey
      <4>2. QED
        BY <3>3, <4>1 DEF Family
    <3>4. CASE name = "GetPuzzleFromThemeCatalog"
      <4>1. Head(k) = "catalog_puzzle_details"
        BY <3>4, PartsOfKey
      <4>2. QED
        BY <3>4, <4>1 DEF Family
    <3>5. QED
      BY <1>7, <3>1, <3>2, <3>3, <3>4
  <2>3. KeyFits(k, name, u, i)
    BY <1>7, <2>1
  <2>4. ASSUME NEW w, NEW v PROVE IsAnswer(name, u, i, w, v) <=> Means(k, w, v)
    <3>1. IsAnswer(name, u, i, w, v) <=> v = w.content
      BY <1>7 DEF IsAnswer, View
    <3>2. Means(k, w, v) <=> v = w.content
      BY <2>1 DEF Means
    <3>3. QED
      BY <3>1, <3>2
  <2>5. QED
    BY <2>3, <2>4
<1>8. QED
  BY <1>1, <1>2, <1>3, <1>4, <1>5, <1>6, <1>7

----------------------------------------------------------------------------
(* What is true of a value that was read at some time, whatever happens     *)
(* afterwards.  h is the history: the present, the past and the failures.   *)

History == [now |-> now, world |-> world, past |-> past, uncounted |-> uncounted]

Since(h, s) == {h.world} \cup {p.world : p \in {p \in h.past : p.until >= s}}

\* v is an answer to the request, as of s or later.
Right(h, name, u, i, v, s) ==
    \/ \E w \in Since(h, s) : IsAnswer(name, u, i, w, v)
    \/ /\ name = "UserHasPermissionToViewPuzzle" /\ v = FALSE
       /\ \E t \in h.uncounted : t >= s
\* The value of a key is right for its question, as of s or later.
RightFor(h, k, v, s) ==
    \/ \E w \in Since(h, s) : Means(k, w, v)
    \/ Head(k) = "permission" /\ v = FALSE /\ \E t \in h.uncounted : t >= s
ShownSince(h, u, s) == \E w \in Since(h, s) : Shown(w, u)

\* The clock and what is remembered of the past agree, and every table was one.
TimesSound(h) ==
    /\ h.now \in Nat
    /\ h.uncounted \subseteq 0..h.now
    /\ \A p \in h.past : p.until \in 0..h.now /\ SoundTries(p.world.tries)

\* When a value under a key that expires then was read, at the earliest.
Source(k, expires) ==
    IF Minutes[Head(k)] = None \/ Head(k) \in InputFamilies THEN 0
    ELSE expires - Minutes[Head(k)] - Timeout

\* What the cache holds is right as of its source.
EntrySound(h, k, c) ==
    /\ Head(k) \in Families
    /\ \/ Minutes[Head(k)] = None /\ c.expires = None
       \/ /\ Minutes[Head(k)] # None
          /\ c.expires \in Int /\ c.expires > h.now /\ c.expires <= h.now + Minutes[Head(k)]
    /\ RightFor(h, k, c.value, Source(k, c.expires))
    /\ Own(k) => ShownSince(h, k[2], Source(k, c.expires))

\* From h to g time passes and the tables may change.
Goes(h, g) ==
    /\ g.now \in Nat /\ h.now <= g.now
    /\ h.uncounted \subseteq g.uncounted
    /\ \A s \in Int : s <= h.now => Since(h, s) \subseteq Since(g, s)

\* What was right since s remains so.
LEMMA RightLasts ==
    ASSUME NEW h, NEW g, Goes(h, g), NEW s \in Int, s <= h.now
    PROVE  /\ \A name, u, i, v : Right(h, name, u, i, v, s) => Right(g, name, u, i, v, s)
           /\ \A k, v : RightFor(h, k, v, s) => RightFor(g, k, v, s)
           /\ \A u : ShownSince(h, u, s) => ShownSince(g, u, s)
<1>1. Since(h, s) \subseteq Since(g, s) /\ h.uncounted \subseteq g.uncounted
  BY DEF Goes
<1>2. ASSUME NEW name, NEW u, NEW i, NEW v, Right(h, name, u, i, v, s)
      PROVE  Right(g, name, u, i, v, s)
  BY <1>1, <1>2, Zenon DEF Right
<1>3. ASSUME NEW k, NEW v, RightFor(h, k, v, s) PROVE RightFor(g, k, v, s)
  BY <1>1, <1>3, Zenon DEF RightFor
<1>4. ASSUME NEW u, ShownSince(h, u, s) PROVE ShownSince(g, u, s)
  BY <1>1, <1>4 DEF ShownSince
<1>5. QED
  BY <1>2, <1>3, <1>4

\* Who asks for less gets it.
LEMMA RightEarlier ==
    ASSUME NEW h, TimesSound(h), NEW s \in Int, NEW e \in Int, e <= s
    PROVE  /\ \A name, u, i, v : Right(h, name, u, i, v, s) => Right(h, name, u, i, v, e)
           /\ \A k, v : RightFor(h, k, v, s) => RightFor(h, k, v, e)
           /\ \A u : ShownSince(h, u, s) => ShownSince(h, u, e)
<1>1. Since(h, s) \subseteq Since(h, e)
  BY DEF Since, TimesSound
<1>2. (\E t \in h.uncounted : t >= s) => \E t \in h.uncounted : t >= e
  BY DEF TimesSound
<1>3. ASSUME NEW name, NEW u, NEW i, NEW v, Right(h, name, u, i, v, s)
      PROVE  Right(h, name, u, i, v, e)
  BY <1>1, <1>2, <1>3, Zenon DEF Right
<1>4. ASSUME NEW k, NEW v, RightFor(h, k, v, s) PROVE RightFor(h, k, v, e)
  BY <1>1, <1>2, <1>4, Zenon DEF RightFor
<1>5. ASSUME NEW u, ShownSince(h, u, s) PROVE ShownSince(h, u, e)
  BY <1>1, <1>5 DEF ShownSince
<1>6. QED
  BY <1>3, <1>4, <1>5

\* The value of a key is right for a request that asks it.
LEMMA RightForRequests ==
    ASSUME NEW h, NEW name, NEW u \in Users \cup {None}, NEW i, NEW k \in KeysOf(name, u, i), NEW v, NEW s
    PROVE  Right(h, name, u, i, v, s) <=> RightFor(h, k, v, s)
<1>1. \A w : IsAnswer(name, u, i, w, v) <=> Means(k, w, v)
  BY KeysFitRequests
<1>2. Head(k) = "permission" <=> name = "UserHasPermissionToViewPuzzle"
  BY KeysFitRequests DEF KeyFits
<1>3. QED
  BY <1>1, <1>2, Zenon DEF Right, RightFor

\* Lifetimes are numbers.
LEMMA MinutesAreNumbers ==
    ASSUME NEW f \in Families
    PROVE  /\ Minutes[f] = None \/ (Minutes[f] \in Nat /\ Minutes[f] > 0 /\ Minutes[f] # None)
           /\ None \notin Int
BY MinutesAssumption, NamesAssumption

\* A key set now was read no earlier than its source.
LEMMA SourceIsEarly ==
    ASSUME NEW h, h.now \in Nat, NEW k, NEW c, EntrySound(h, k, c)
    PROVE  Source(k, c.expires) \in Int /\ Source(k, c.expires) <= h.now
<1> DEFINE m == Minutes[Head(k)]
<1>1. m = None \/ (m \in Nat /\ m # None)
  BY MinutesAreNumbers DEF EntrySound
<1>2. CASE m = None \/ Head(k) \in InputFamilies
  BY <1>2 DEF Source
<1>3. CASE m # None /\ Head(k) \notin InputFamilies
  <2>1. Source(k, c.expires) = c.expires - m - Timeout
    BY <1>3 DEF Source
  <2>2. c.expires \in Int /\ c.expires <= h.now + m
    BY <1>3 DEF EntrySound
  <2> HIDE DEF m
  <2>3. QED
    BY <1>1, <1>3, <2>1, <2>2, TimeoutAssumption
<1>4. QED
  BY <1>2, <1>3

\* An entry stays right while time passes.
LEMMA EntryLasts ==
    ASSUME NEW h, NEW g, h.now \in Nat, Goes(h, g), NEW k, NEW c, EntrySound(h, k, c),
           c.expires = None \/ c.expires > g.now
    PROVE  EntrySound(g, k, c)
<1> DEFINE s == Source(k, c.expires)
           m == Minutes[Head(k)]
<1>1. s \in Int /\ s <= h.now
  BY SourceIsEarly
<1> HIDE DEF s
<1>2. RightFor(g, k, c.value, s)
  BY <1>1, RightLasts DEF EntrySound, s
<1>3. Own(k) => ShownSince(g, k[2], s)
  BY <1>1, RightLasts DEF EntrySound, s
<1>4. \/ m = None /\ c.expires = None
      \/ m # None /\ c.expires \in Int /\ c.expires > g.now /\ c.expires <= g.now + m
  <2>1. \/ m = None /\ c.expires = None
        \/ m # None /\ c.expires \in Int /\ c.expires > h.now /\ c.expires <= h.now + m
    BY DEF EntrySound
  <2>2. m = None \/ m \in Nat
    BY MinutesAreNumbers DEF EntrySound
  <2>3. None \notin Int
    BY NamesAssumption
  <2>4. h.now <= g.now /\ g.now \in Nat
    BY DEF Goes
  <2> HIDE DEF m
  <2>5. QED
    BY <2>1, <2>2, <2>3, <2>4
<1>5. Head(k) \in Families
  BY DEF EntrySound
<1>6. QED
  BY <1>2, <1>3, <1>4, <1>5 DEF EntrySound, s

----------------------------------------------------------------------------
(* A request: what it still has to do, and what it has read so far.         *)

IsRequest(q) ==
    q = [name |-> q.name, user |-> q.user, index |-> q.index, todo |-> q.todo,
         began |-> q.began, value |-> q.value, keys |-> q.keys, answer |-> q.answer]
IsSequence(s) == \E S : s \in Seq(S)

\* Nothing is set before it is read, or the key was there.
ReadFirst(todo) ==
    \A j \in DOMAIN todo : todo[j].op = "set" => \E m \in 1..(j - 1) : todo[m].op = "read"
\* The check is still to come, and only the cache is asked before it.
AccessFirst(todo) ==
    \E j \in DOMAIN todo : todo[j].op = "access" /\ \A m \in 1..(j - 1) : todo[m].op = "get"
\* The keys asked and set are those of the request.
KeysFit(todo, name, u, i) ==
    \A j \in DOMAIN todo : todo[j].op \in {"get", "set"} => todo[j].key \in KeysOf(name, u, i)
\* A key that is there is the answer, or an input of a puzzle.
Skips(todo, name) ==
    \A j \in DOMAIN todo :
       todo[j].op = "get" =>
          /\ todo[j].skip \in Nat /\ j + todo[j].skip <= Len(todo)
          /\ j + todo[j].skip = Len(todo) \/ Ageless(name)

\* How old may be what a request holds, and what it answers.
Begun(q) == IF Ageless(q.name) THEN 0 ELSE q.began
Start(q) == IF Ageless(q.name) THEN 0 ELSE q.began - Age(q.name)

\* A request that will set a key holds its value.
Holding(h, q, todo) ==
    /\ \/ q.value = None /\ ReadFirst(todo)
       \/ Right(h, q.name, q.user, q.index, q.value, Begun(q))
    /\ q.name = "GetCompetitionTries" => ShownSince(h, q.user, Begun(q)) \/ AccessFirst(todo)
\* The answer is right for the request.
Answering(h, q, v) ==
    v # None =>
       /\ Right(h, q.name, q.user, q.index, v, Start(q))
       /\ q.name = "GetCompetitionTries" => ShownSince(h, q.user, Start(q))
\* What holds of a request at any time.
RequestSound(h, q) ==
    /\ IsRequest(q) /\ IsSequence(q.todo)
    /\ q.began \in 0..h.now /\ q.user \in Users \cup {None}
    /\ KeysFit(q.todo, q.name, q.user, q.index) /\ Skips(q.todo, q.name)
    /\ q.todo # <<>> => Holding(h, q, q.todo)
    /\ Answering(h, q, q.answer)

\* How long a value may live is a number, or does not matter.
LEMMA AgeIsNumber ==
    ASSUME NEW name
    PROVE  /\ Family(name) \in Families \cup {"none"}
           /\ Ageless(name) \/ Age(name) \in Nat
<1>1. Family(name) \in Families \cup {"none"}
  BY DEF Family, Families
<1>2. CASE Family(name) = "none"
  BY <1>2 DEF Age, Families
<1>3. CASE Family(name) # "none"
  <2>1. Family(name) \in Families
    BY <1>1, <1>3
  <2>2. Minutes[Family(name)] = None \/ Minutes[Family(name)] \in Nat
    BY <2>1, MinutesAreNumbers
  <2>3. CASE Minutes[Family(name)] = None
    BY <1>1, <1>3, <2>3 DEF Ageless
  <2>4. CASE Minutes[Family(name)] \in Nat
    <3>1. Age(name) = Minutes[Family(name)] + Timeout
      BY <1>3 DEF Age
    <3>2. QED
      BY <1>1, <2>4, <3>1, TimeoutAssumption
  <2>5. QED
    BY <2>2, <2>3, <2>4
<1>4. QED
  BY <1>1, <1>2, <1>3

\* An answer may be older than the request, never newer than now.
LEMMA StartIsEarly ==
    ASSUME NEW q, q.began \in Nat
    PROVE  /\ Begun(q) \in Int /\ Start(q) \in Int
           /\ Start(q) <= Begun(q) /\ Begun(q) <= q.began
<1>1. Ageless(q.name) \/ Age(q.name) \in Nat
  BY AgeIsNumber
<1>2. CASE Ageless(q.name)
  BY <1>2 DEF Begun, Start
<1>3. CASE ~Ageless(q.name)
  BY <1>1, <1>3 DEF Begun, Start
<1>4. QED
  BY <1>2, <1>3

\* A request stays sound while time passes.
LEMMA RequestLasts ==
    ASSUME NEW h, NEW g, h.now \in Nat, Goes(h, g), NEW q, RequestSound(h, q)
    PROVE  RequestSound(g, q)
<1>1. q.began \in Nat /\ q.began <= h.now
  BY DEF RequestSound
<1> DEFINE b == Begun(q)
           s == Start(q)
<1>2. b \in Int /\ s \in Int /\ b <= h.now /\ s <= h.now
  BY <1>1, StartIsEarly
<1>3. q.began \in 0..g.now
  BY <1>1 DEF Goes
<1>4. ASSUME q.todo # <<>> PROVE Holding(g, q, q.todo)
  <2>1. Holding(h, q, q.todo)
    BY <1>4 DEF RequestSound
  <2>2. \A name, u, i, v : Right(h, name, u, i, v, b) => Right(g, name, u, i, v, b)
    BY <1>2, RightLasts
  <2>3. \A u : ShownSince(h, u, b) => ShownSince(g, u, b)
    BY <1>2, RightLasts
  <2>4. QED
    BY <2>1, <2>2, <2>3, Zenon DEF Holding, b
<1>5. Answering(g, q, q.answer)
  <2>1. Answering(h, q, q.answer)
    BY DEF RequestSound
  <2>2. \A name, u, i, v : Right(h, name, u, i, v, s) => Right(g, name, u, i, v, s)
    BY <1>2, RightLasts
  <2>3. \A u : ShownSince(h, u, s) => ShownSince(g, u, s)
    BY <1>2, RightLasts
  <2>4. QED
    BY <2>1, <2>2, <2>3, Zenon DEF Answering, s
<1>6. QED
  BY <1>3, <1>4, <1>5, Zenon DEF RequestSound

\* What is left of the calls after the first and the n that are skipped.
Left(todo, n) == SubSeq(todo, 2 + n, Len(todo))

\* The calls left are among those there were, in order.
LEMMA LeftFacts ==
    ASSUME NEW todo, IsSequence(todo), NEW n \in Nat, 1 + n <= Len(todo)
    PROVE  /\ IsSequence(Left(todo, n))
           /\ Len(todo) \in Nat /\ DOMAIN todo = 1..Len(todo)
           /\ Len(Left(todo, n)) = Len(todo) - 1 - n
           /\ DOMAIN Left(todo, n) = 1..(Len(todo) - 1 - n)
           /\ \A j \in 1..(Len(todo) - 1 - n) : Left(todo, n)[j] = todo[j + 1 + n]
           /\ Left(todo, n) = <<>> <=> Len(todo) = 1 + n
<1>1. PICK S : todo \in Seq(S)
  BY DEF IsSequence
<1> DEFINE L == Len(todo)
           left == Left(todo, n)
<1>2. L \in Nat /\ DOMAIN todo = 1..L
  BY <1>1
<1> HIDE DEF L
<1>3. \A j \in (2 + n)..L : todo[j] \in S
  BY <1>1, <1>2 DEF L
<1>4. /\ left \in Seq(S) /\ Len(left) = IF 2 + n <= L THEN L - (2 + n) + 1 ELSE 0
      /\ \A j \in 1..(L - (2 + n) + 1) : left[j] = todo[2 + n + j - 1]
  <2> DEFINE m == 2 + n
  <2>1. m \in Int /\ L \in Int
    BY <1>2
  <2> HIDE DEF m
  <2>2. \A j \in m..L : todo[j] \in S
    BY <1>3 DEF m
  <2>3. /\ SubSeq(todo, m, L) \in Seq(S)
        /\ Len(SubSeq(todo, m, L)) = IF m <= L THEN L - m + 1 ELSE 0
        /\ \A j \in 1..(L - m + 1) : SubSeq(todo, m, L)[j] = todo[m + j - 1]
    BY <2>1, <2>2, SubSeqProperties
  <2>4. QED
    BY <2>3 DEF Left, m, L
<1>5. Len(left) = L - 1 - n
  <2>1. 1 + n <= L /\ L \in Nat
    BY <1>2 DEF L
  <2> HIDE DEF left
  <2>2. QED
    BY <1>4, <2>1
<1>6. \A j \in 1..(L - 1 - n) : left[j] = todo[j + 1 + n]
  BY <1>2, <1>4
<1>7. IsSequence(left)
  BY <1>4, Zenon DEF IsSequence
<1>8. left = <<>> <=> L = 1 + n
  <2> HIDE DEF left
  <2>1. left # <<>> => Len(left) # 0
    BY <1>4, EmptySeq
  <2>2. Len(<<>>) = 0
    OBVIOUS
  <2>3. left = <<>> <=> Len(left) = 0
    BY <2>1, <2>2, Zenon
  <2>4. QED
    BY <1>2, <1>5, <2>3
<1> HIDE DEF left
<1>9. DOMAIN left = 1..(L - 1 - n)
  BY <1>4, <1>5
<1>10. QED
  BY <1>2, <1>5, <1>6, <1>7, <1>8, <1>9 DEF left, L

\* Their keys fit still.
LEMMA LeftFits ==
    ASSUME NEW todo, IsSequence(todo), NEW n \in Nat, 1 + n <= Len(todo), NEW name, NEW u, NEW i,
           KeysFit(todo, name, u, i), Skips(todo, name)
    PROVE  KeysFit(Left(todo, n), name, u, i) /\ Skips(Left(todo, n), name)
<1> DEFINE left == Left(todo, n)
           L == Len(todo)
<1>1. /\ L \in Nat /\ DOMAIN todo = 1..L /\ Len(left) = L - 1 - n
      /\ DOMAIN left = 1..(L - 1 - n)
      /\ \A j \in 1..(L - 1 - n) : left[j] = todo[j + 1 + n]
  BY LeftFacts
<1> HIDE DEF left, L
<1>2. KeysFit(left, name, u, i)
  <2>1. \A j \in DOMAIN left : j + 1 + n \in DOMAIN todo /\ left[j] = todo[j + 1 + n]
    BY <1>1
  <2>2. QED
    BY <2>1 DEF KeysFit
<1>3. Skips(left, name)
  <2> SUFFICES ASSUME NEW j \in DOMAIN left, left[j].op = "get"
               PROVE  /\ left[j].skip \in Nat /\ j + left[j].skip <= Len(left)
                      /\ j + left[j].skip = Len(left) \/ Ageless(name)
    BY DEF Skips
  <2> DEFINE m == j + 1 + n
  <2>1. m \in DOMAIN todo /\ left[j] = todo[m]
    BY <1>1
  <2>2. /\ todo[m].skip \in Nat /\ m + todo[m].skip <= L
        /\ m + todo[m].skip = L \/ Ageless(name)
    <3> HIDE DEF m
    <3>1. QED
      BY <2>1 DEF Skips, L
  <2> DEFINE k == todo[m].skip
  <2>3. k = left[j].skip /\ j \in Nat
    BY <1>1, <2>1
  <2> HIDE DEF k
  <2>4. k \in Nat /\ m + k <= L /\ (m + k = L \/ Ageless(name))
    BY <2>2 DEF k
  <2>5. Len(left) = L - 1 - n /\ L \in Nat
    BY <1>1
  <2>6. m + k <= L => j + k <= Len(left)
    BY <2>3, <2>4, <2>5
  <2>7. m + k = L => j + k = Len(left)
    <3>1. SUFFICES ASSUME m + k = L PROVE j + k = Len(left)
      OBVIOUS
    <3>2. j + 1 + n + k = L
      BY <3>1
    <3>3. j \in Int /\ n \in Int /\ k \in Int /\ L \in Int
      BY <2>3, <2>4, <2>5
    <3>4. j + k = L - 1 - n
      BY <3>2, <3>3
    <3>5. QED
      BY <2>5, <3>4
  <2> HIDE DEF m
  <2>8. QED
    BY <2>3, <2>4, <2>6, <2>7
<1>4. QED
  BY <1>2, <1>3 DEF left

\* They read before they set.
LEMMA LeftReadFirst ==
    ASSUME NEW todo, IsSequence(todo), 1 <= Len(todo), ReadFirst(todo), todo[1].op # "read"
    PROVE  ReadFirst(Left(todo, 0))
<1> DEFINE left == Left(todo, 0)
           L == Len(todo)
<1>1. /\ L \in Nat /\ DOMAIN todo = 1..L /\ DOMAIN left = 1..(L - 1)
      /\ \A j \in 1..(L - 1) : left[j] = todo[j + 1]
  BY LeftFacts
<1> HIDE DEF left, L
<1>2. SUFFICES ASSUME NEW j \in DOMAIN left, left[j].op = "set"
               PROVE  \E m \in 1..(j - 1) : left[m].op = "read"
  BY DEF ReadFirst, left
<1> DEFINE p == j + 1
<1>3. p \in DOMAIN todo /\ todo[p].op = "set"
  BY <1>1, <1>2
<1> HIDE DEF p
<1>4. PICK m \in 1..(p - 1) : todo[m].op = "read"
  BY <1>3 DEF ReadFirst
<1> USE DEF p
<1>5. m # 1
  BY <1>4
<1>6. m - 1 \in 1..(j - 1) /\ left[m - 1] = todo[m]
  BY <1>1, <1>4, <1>5
<1>7. QED
  BY <1>4, <1>6

\* They check before they read.
LEMMA LeftAccessFirst ==
    ASSUME NEW todo, IsSequence(todo), 1 <= Len(todo), AccessFirst(todo), todo[1].op # "access"
    PROVE  AccessFirst(Left(todo, 0)) /\ todo[1].op = "get" /\ Left(todo, 0) # <<>>
<1> DEFINE left == Left(todo, 0)
           L == Len(todo)
<1>0. left = <<>> <=> L = 1
  <2> DEFINE n == 0
  <2>1. n \in Nat /\ 1 + n <= Len(todo)
    OBVIOUS
  <2>2. 1 + n = 1
    OBVIOUS
  <2> HIDE DEF n
  <2>3. Left(todo, n) = <<>> <=> Len(todo) = 1 + n
    BY <2>1, LeftFacts, Zenon
  <2>4. QED
    BY <2>2, <2>3, Zenon DEF n
<1>1. /\ L \in Nat /\ DOMAIN todo = 1..L /\ DOMAIN left = 1..(L - 1)
      /\ \A j \in 1..(L - 1) : left[j] = todo[j + 1]
  BY LeftFacts
<1> HIDE DEF left, L
<1>2. PICK j \in DOMAIN todo : todo[j].op = "access" /\ \A m \in 1..(j - 1) : todo[m].op = "get"
  BY DEF AccessFirst
<1>3. j \in 1..L /\ j > 1
  BY <1>1, <1>2
<1>4. todo[1].op = "get"
  BY <1>2, <1>3
<1>5. j - 1 \in DOMAIN left /\ left[j - 1] = todo[j]
  BY <1>1, <1>3
<1>6. \A m \in 1..(j - 2) : left[m] = todo[m + 1] /\ m + 1 \in 1..(j - 1)
  BY <1>1, <1>3
<1>7. AccessFirst(left)
  <2> DEFINE k == j - 1
  <2>1. k \in DOMAIN left /\ left[k].op = "access"
    BY <1>2, <1>5
  <2>2. \A m \in 1..(k - 1) : left[m].op = "get"
    <3>1. ASSUME NEW m \in 1..(k - 1) PROVE left[m].op = "get"
      <4>1. m \in 1..(j - 2)
        BY <1>1, <1>3
      <4>2. left[m] = todo[m + 1] /\ m + 1 \in 1..(j - 1)
        BY <1>6, <4>1
      <4>3. QED
        BY <1>2, <4>2
    <3>2. QED
      BY <3>1
  <2> HIDE DEF k
  <2>3. QED
    BY <2>1, <2>2 DEF AccessFirst
<1>8. L # 1
  BY <1>1, <1>3
<1>9. QED
  BY <1>0, <1>4, <1>7, <1>8 DEF left

----------------------------------------------------------------------------
\* A request after its next call, and the n that this one makes needless.
Moved(this, n) ==
    LET todo == SubSeq(this.todo, 2 + n, Len(this.todo))
    IN IF todo # <<>> THEN [this EXCEPT !.todo = todo]
       ELSE [this EXCEPT !.todo = todo, !.answer = this.value, !.value = None, !.keys = {}]

\* Its fields, one by one.
LEMMA MovedIs ==
    ASSUME NEW this, IsRequest(this), NEW n
    PROVE  /\ IsRequest(Moved(this, n))
           /\ Moved(this, n).name = this.name /\ Moved(this, n).user = this.user
           /\ Moved(this, n).index = this.index /\ Moved(this, n).began = this.began
           /\ Moved(this, n).todo = Left(this.todo, n)
           /\ Left(this.todo, n) # <<>> =>
                Moved(this, n).value = this.value /\ Moved(this, n).answer = this.answer
           /\ Left(this.todo, n) = <<>> => Moved(this, n).answer = this.value
<1>1. CASE Left(this.todo, n) # <<>>
  <2>1. Moved(this, n) = [this EXCEPT !.todo = Left(this.todo, n)]
    BY <1>1 DEF Moved, Left
  <2>2. Moved(this, n) = [name |-> this.name, user |-> this.user, index |-> this.index,
                          todo |-> Left(this.todo, n), began |-> this.began,
                          value |-> this.value, keys |-> this.keys, answer |-> this.answer]
    BY <2>1 DEF IsRequest
  <2>3. QED
    BY <1>1, <2>2 DEF IsRequest
<1>2. CASE Left(this.todo, n) = <<>>
  <2>1. Moved(this, n) = [this EXCEPT !.todo = Left(this.todo, n), !.answer = this.value,
                                      !.value = None, !.keys = {}]
    BY <1>2 DEF Moved, Left
  <2>2. Moved(this, n) = [name |-> this.name, user |-> this.user, index |-> this.index,
                          todo |-> Left(this.todo, n), began |-> this.began,
                          value |-> None, keys |-> {}, answer |-> this.value]
    BY <2>1 DEF IsRequest
  <2>3. QED
    BY <1>2, <2>2 DEF IsRequest
<1>3. QED
  BY <1>1, <1>2

\* It is sound when it still holds what it needs, or answers what it may.
LEMMA MovedIsSound ==
    ASSUME NEW h, NEW this, IsRequest(this), IsSequence(this.todo),
           this.began \in 0..h.now, this.user \in Users \cup {None},
           KeysFit(this.todo, this.name, this.user, this.index), Skips(this.todo, this.name),
           NEW n \in Nat, 1 + n <= Len(this.todo),
           Left(this.todo, n) # <<>> =>
              Holding(h, this, Left(this.todo, n)) /\ Answering(h, this, this.answer),
           Left(this.todo, n) = <<>> => Answering(h, this, this.value)
    PROVE  RequestSound(h, Moved(this, n))
<1> DEFINE m == Moved(this, n)
           left == Left(this.todo, n)
<1>1. /\ IsRequest(m) /\ m.name = this.name /\ m.user = this.user /\ m.index = this.index
      /\ m.began = this.began /\ m.todo = left
      /\ left # <<>> => m.value = this.value /\ m.answer = this.answer
      /\ left = <<>> => m.answer = this.value
  BY MovedIs
<1>2. IsSequence(left) /\ KeysFit(left, this.name, this.user, this.index) /\ Skips(left, this.name)
  BY LeftFacts, LeftFits
<1> HIDE DEF m, left
<1>3. ASSUME left # <<>> PROVE Holding(h, m, left) /\ Answering(h, m, m.answer)
  <2>1. Holding(h, this, left) /\ Answering(h, this, this.answer)
    BY <1>3 DEF left
  <2>2. m.value = this.value /\ m.answer = this.answer
    BY <1>1, <1>3
  <2>3. Begun(m) = Begun(this) /\ Start(m) = Start(this)
    BY <1>1 DEF Begun, Start
  <2>4. QED
    BY <1>1, <2>1, <2>2, <2>3, Zenon DEF Holding, Answering
<1>4. ASSUME left = <<>> PROVE Answering(h, m, m.answer)
  <2>1. Answering(h, this, this.value)
    BY <1>4 DEF left
  <2>2. m.answer = this.value
    BY <1>1, <1>4
  <2>3. Start(m) = Start(this)
    BY <1>1 DEF Start
  <2>4. QED
    BY <1>1, <2>1, <2>2, <2>3, Zenon DEF Answering
<1>5. RequestSound(h, m)
  BY <1>1, <1>2, <1>3, <1>4, Zenon DEF RequestSound
<1>6. QED
  BY <1>5 DEF m

\* The call that is next is one of those planned.
LEMMA FirstCall ==
    ASSUME NEW todo, IsSequence(todo), todo # <<>>
    PROVE  1 <= Len(todo) /\ 1 \in DOMAIN todo /\ Head(todo) = todo[1]
<1>1. PICK S : todo \in Seq(S)
  BY DEF IsSequence
<1>2. Len(todo) \in Nat \ {0}
  BY <1>1, EmptySeq
<1>3. QED
  BY <1>1, <1>2

\* What any call but a read leaves true of the request.
LEMMA StillHolding ==
    ASSUME NEW h, TimesSound(h), NEW q, RequestSound(h, q), q.todo # <<>>,
           Head(q.todo).op # "read",
           Head(q.todo).op = "access" => Shown(h.world, q.user)
    PROVE  /\ Left(q.todo, 0) # <<>> => Holding(h, q, Left(q.todo, 0))
           /\ Left(q.todo, 0) = <<>> => Answering(h, q, q.value)
<1> DEFINE b == Begun(q)
           s == Start(q)
           left == Left(q.todo, 0)
           Told == Right(h, q.name, q.user, q.index, q.value, b)
           Seen == ShownSince(h, q.user, b)
<1>1. /\ IsSequence(q.todo) /\ Holding(h, q, q.todo) /\ q.began \in Nat
      /\ 1 <= Len(q.todo) /\ Head(q.todo) = q.todo[1]
  BY FirstCall DEF RequestSound
<1>2. b \in Int /\ s \in Int /\ s <= b
  BY <1>1, StartIsEarly
<1> HIDE DEF b, s, left
<1>3. Told \/ (q.value = None /\ ReadFirst(left))
  BY <1>1, LeftReadFirst DEF Holding, b, left
<1>4. q.name = "GetCompetitionTries" => Seen \/ (AccessFirst(left) /\ left # <<>>)
  <2>1. SUFFICES ASSUME q.name = "GetCompetitionTries", ~Seen
                 PROVE  AccessFirst(left) /\ left # <<>>
    OBVIOUS
  <2>2. AccessFirst(q.todo)
    BY <1>1, <2>1 DEF Holding, b
  <2>3. q.todo[1].op # "access"
    <3>1. h.world \in Since(h, b)
      BY DEF Since
    <3>2. ~Shown(h.world, q.user)
      BY <2>1, <3>1 DEF ShownSince
    <3>3. QED
      BY <1>1, <3>2
  <2>4. QED
    BY <1>1, <2>2, <2>3, LeftAccessFirst DEF left
<1>5. left # <<>> => Holding(h, q, left)
  BY <1>3, <1>4 DEF Holding, b
<1>6. left = <<>> => Answering(h, q, q.value)
  <2>1. SUFFICES ASSUME left = <<>>, q.value # None
                 PROVE  /\ Right(h, q.name, q.user, q.index, q.value, s)
                        /\ q.name = "GetCompetitionTries" => ShownSince(h, q.user, s)
    BY DEF Answering, s
  <2>2. Told /\ (q.name = "GetCompetitionTries" => Seen)
    BY <1>3, <1>4, <2>1
  <2>3. Right(h, q.name, q.user, q.index, q.value, s)
    BY <1>2, <2>2, RightEarlier
  <2>4. q.name = "GetCompetitionTries" => ShownSince(h, q.user, s)
    BY <1>2, <2>2, RightEarlier
  <2>5. QED
    BY <2>3, <2>4
<1>7. QED
  BY <1>5, <1>6 DEF left

\* A call that brings no value leaves the request sound.
LEMMA PlainMove ==
    ASSUME NEW h, TimesSound(h), NEW q, RequestSound(h, q), q.todo # <<>>,
           Head(q.todo).op # "read",
           Head(q.todo).op = "access" => Shown(h.world, q.user), NEW x
    PROVE  RequestSound(h, Moved([q EXCEPT !.keys = x], 0))
<1> DEFINE this == [q EXCEPT !.keys = x]
<1>1. /\ Left(q.todo, 0) # <<>> => Holding(h, q, Left(q.todo, 0))
      /\ Left(q.todo, 0) = <<>> => Answering(h, q, q.value)
  BY StillHolding
<1>2. IsRequest(q)
  BY DEF RequestSound
<1>3. this = [name |-> q.name, user |-> q.user, index |-> q.index, todo |-> q.todo,
              began |-> q.began, value |-> q.value, keys |-> x, answer |-> q.answer]
  BY <1>2 DEF IsRequest
<1>4. /\ IsRequest(this) /\ this.name = q.name /\ this.user = q.user /\ this.index = q.index
      /\ this.todo = q.todo /\ this.began = q.began /\ this.value = q.value /\ this.answer = q.answer
  BY <1>3 DEF IsRequest
<1>5. 1 <= Len(q.todo)
  BY FirstCall DEF RequestSound
<1> HIDE DEF this
<1>6. Begun(this) = Begun(q) /\ Start(this) = Start(q)
  BY <1>4 DEF Begun, Start
<1>7. Left(this.todo, 0) # <<>> => Holding(h, this, Left(this.todo, 0))
  BY <1>1, <1>4, <1>6, Zenon DEF Holding
<1>8. Left(this.todo, 0) = <<>> => Answering(h, this, this.value)
  BY <1>1, <1>4, <1>6, Zenon DEF Answering
<1>9. Answering(h, this, this.answer)
  <2>1. Answering(h, q, q.answer)
    BY DEF RequestSound
  <2>2. QED
    BY <2>1, <1>4, <1>6, Zenon DEF Answering
<1>10. /\ IsSequence(this.todo) /\ this.began \in 0..h.now /\ this.user \in Users \cup {None}
       /\ KeysFit(this.todo, this.name, this.user, this.index) /\ Skips(this.todo, this.name)
       /\ 1 + 0 <= Len(this.todo)
  BY <1>4, <1>5 DEF RequestSound
<1>11. RequestSound(h, Moved(this, 0))
  BY <1>4, <1>7, <1>8, <1>9, <1>10, MovedIsSound
<1>12. QED
  BY <1>11 DEF this

\* Likewise when it holds a value read now, or one of a key.
LEMMA ValueMove ==
    ASSUME NEW h, TimesSound(h), NEW q, RequestSound(h, q), q.todo # <<>>,
           NEW v, NEW n \in Nat, 1 + n <= Len(q.todo),
           Left(q.todo, n) # <<>> =>
              /\ Right(h, q.name, q.user, q.index, v, Begun(q))
              /\ q.name = "GetCompetitionTries" => ShownSince(h, q.user, Begun(q)),
           Left(q.todo, n) = <<>> => Answering(h, q, v)
    PROVE  RequestSound(h, Moved([q EXCEPT !.value = v], n))
<1> DEFINE this == [q EXCEPT !.value = v]
<1>2. IsRequest(q)
  BY DEF RequestSound
<1>3. this = [name |-> q.name, user |-> q.user, index |-> q.index, todo |-> q.todo,
              began |-> q.began, value |-> v, keys |-> q.keys, answer |-> q.answer]
  BY <1>2 DEF IsRequest
<1>4. /\ IsRequest(this) /\ this.name = q.name /\ this.user = q.user /\ this.index = q.index
      /\ this.todo = q.todo /\ this.began = q.began /\ this.value = v /\ this.answer = q.answer
  BY <1>3 DEF IsRequest
<1> HIDE DEF this
<1>6. Begun(this) = Begun(q) /\ Start(this) = Start(q)
  BY <1>4 DEF Begun, Start
<1>7. Left(this.todo, n) # <<>> => Holding(h, this, Left(this.todo, n))
  BY <1>4, <1>6, Zenon DEF Holding
<1>8. Left(this.todo, n) = <<>> => Answering(h, this, this.value)
  BY <1>4, <1>6, Zenon DEF Answering
<1>9. Answering(h, this, this.answer)
  <2>1. Answering(h, q, q.answer)
    BY DEF RequestSound
  <2>2. QED
    BY <2>1, <1>4, <1>6, Zenon DEF Answering
<1>10. /\ IsSequence(this.todo) /\ this.began \in 0..h.now /\ this.user \in Users \cup {None}
       /\ KeysFit(this.todo, this.name, this.user, this.index) /\ Skips(this.todo, this.name)
       /\ 1 + n <= Len(this.todo)
  BY <1>4 DEF RequestSound
<1>11. RequestSound(h, Moved(this, n))
  BY <1>4, <1>7, <1>8, <1>9, <1>10, MovedIsSound
<1>12. QED
  BY <1>11 DEF this

\* So does reading the tables.
LEMMA ReadMove ==
    ASSUME NEW h, TimesSound(h), NEW q, RequestSound(h, q), q.todo # <<>>,
           Head(q.todo).op = "read", NEW v, Right(h, q.name, q.user, q.index, v, Begun(q))
    PROVE  RequestSound(h, Moved([q EXCEPT !.value = v], 0))
<1> DEFINE b == Begun(q)
           s == Start(q)
<1>1. /\ IsSequence(q.todo) /\ Holding(h, q, q.todo) /\ q.began \in Nat
      /\ 1 <= Len(q.todo) /\ Head(q.todo) = q.todo[1]
  BY FirstCall DEF RequestSound
<1>2. b \in Int /\ s \in Int /\ s <= b
  BY <1>1, StartIsEarly
<1>3. q.name = "GetCompetitionTries" => ShownSince(h, q.user, b)
  <2>1. ~AccessFirst(q.todo)
    BY <1>1, LeftAccessFirst
  <2>2. QED
    BY <1>1, <2>1 DEF Holding
<1>4. Answering(h, q, v)
  <2> HIDE DEF b, s
  <2>1. Right(h, q.name, q.user, q.index, v, s)
    BY <1>2, RightEarlier DEF b
  <2>2. q.name = "GetCompetitionTries" => ShownSince(h, q.user, s)
    BY <1>2, <1>3, RightEarlier
  <2>3. QED
    BY <2>1, <2>2 DEF Answering, s
<1>5. 0 \in Nat /\ 1 + 0 <= Len(q.todo)
  BY <1>1
<1>6. QED
  BY <1>3, <1>4, <1>5, ValueMove

\* How old a value is that comes from a key.
LEMMA AgelessKeys ==
    ASSUME NEW name, NEW u \in Users \cup {None}, NEW i, NEW k \in KeysOf(name, u, i)
    PROVE  /\ Head(k) \in Families
           /\ Ageless(name) => Minutes[Head(k)] = None \/ Head(k) \in InputFamilies
           /\ ~Ageless(name) =>
                 /\ Minutes[Head(k)] # None /\ Head(k) \notin InputFamilies
                 /\ Minutes[Head(k)] \in Nat /\ Age(name) = Minutes[Head(k)] + Timeout
<1> DEFINE f == Head(k)
           g == Family(name)
<1>1. f \in Families /\ (f = g \/ (f \in InputFamilies /\ g = "catalog_puzzle_input"))
  BY KeysFitRequests DEF KeyFits
<1>2. g \notin {"comp_puzzle_input", "puzzle_input"}
  BY DEF Family
<1>3. Minutes["catalog_puzzle_input"] = None /\ "none" \notin Families
  BY MinutesAssumption DEF Families
<1> HIDE DEF f, g
<1>4. g # "none"
  BY <1>1, <1>3
<1>5. Ageless(name) <=> Minutes[g] = None
  BY <1>4 DEF Ageless, g
<1>6. Ageless(name) => Minutes[f] = None \/ f \in InputFamilies
  BY <1>1, <1>5
<1>7. ASSUME ~Ageless(name)
      PROVE  /\ Minutes[f] # None /\ f \notin InputFamilies
             /\ Minutes[f] \in Nat /\ Age(name) = Minutes[f] + Timeout
  <2>1. f = g /\ g # "catalog_puzzle_input"
    BY <1>1, <1>3, <1>5, <1>7
  <2>2. f \notin InputFamilies
    BY <1>2, <2>1 DEF InputFamilies
  <2>3. Minutes[f] # None
    BY <1>5, <1>7, <2>1
  <2>4. Minutes[f] \in Nat
    BY <1>1, <2>3, MinutesAreNumbers
  <2>5. Age(name) = Minutes[f] + Timeout
    BY <1>4, <2>1 DEF Age, g
  <2>6. QED
    BY <2>2, <2>3, <2>4, <2>5
<1>8. QED
  BY <1>1, <1>6, <1>7 DEF f

\* The source of an entry is no older than the request may answer.
LEMMA SourceInReach ==
    ASSUME NEW h, h.now \in Nat, NEW q, q.began \in 0..h.now, q.user \in Users \cup {None},
           NEW k \in KeysOf(q.name, q.user, q.index), NEW c, EntrySound(h, k, c)
    PROVE  /\ Start(q) <= Source(k, c.expires)
           /\ Ageless(q.name) => Begun(q) <= Source(k, c.expires)
<1> DEFINE m == Minutes[Head(k)]
           x == c.expires
           y == Source(k, c.expires)
<1>1. CASE Ageless(q.name)
  <2>1. m = None \/ Head(k) \in InputFamilies
    BY <1>1, AgelessKeys
  <2>2. y = 0
    BY <2>1 DEF Source
  <2>3. Start(q) = 0 /\ Begun(q) = 0
    BY <1>1 DEF Start, Begun
  <2>4. QED
    BY <2>2, <2>3
<1>2. CASE ~Ageless(q.name)
  <2>1. m # None /\ Head(k) \notin InputFamilies /\ m \in Nat /\ Age(q.name) = m + Timeout
    BY <1>2, AgelessKeys
  <2>2. y = x - m - Timeout
    BY <2>1 DEF Source
  <2>3. x \in Int /\ x > h.now
    BY <2>1 DEF EntrySound
  <2>4. Start(q) = q.began - Age(q.name)
    BY <1>2 DEF Start
  <2>5. Start(q) = q.began - (m + Timeout)
    BY <2>1, <2>4
  <2>6. q.began \in Nat /\ q.began <= h.now /\ Timeout \in Nat /\ m \in Nat
    BY <2>1, TimeoutAssumption
  <2> HIDE DEF m, x, y
  <2>7. Start(q) <= y
    BY <2>2, <2>3, <2>5, <2>6
  <2>8. QED
    BY <1>2, <2>7 DEF y
<1>3. QED
  BY <1>1, <1>2

\* What a request sets is sound in the cache.
LEMMA EntryStored ==
    ASSUME NEW h, TimesSound(h), NEW q, q.began \in 0..h.now, q.user \in Users \cup {None},
           h.now <= q.began + Timeout, NEW k \in KeysOf(q.name, q.user, q.index), NEW c,
           c.expires = IF Minutes[Head(k)] = None THEN None ELSE h.now + Minutes[Head(k)],
           Right(h, q.name, q.user, q.index, c.value, Begun(q)),
           q.name = "GetCompetitionTries" => ShownSince(h, q.user, Begun(q))
    PROVE  EntrySound(h, k, c)
<1> DEFINE m == Minutes[Head(k)]
           x == c.expires
           y == Source(k, c.expires)
           b == Begun(q)
<1>1. Head(k) \in Families
  BY AgelessKeys
<1>2. m = None \/ (m \in Nat /\ m > 0 /\ m # None)
  BY <1>1, MinutesAreNumbers
<1>3. q.began \in Nat /\ q.began <= h.now /\ Timeout \in Nat /\ h.now \in Nat
  BY TimeoutAssumption DEF TimesSound
<1>4. b \in Int /\ b >= 0
  <2>1. b = 0 \/ b = q.began
    BY DEF Begun
  <2>2. QED
    BY <1>3, <2>1
<1>5. y \in Int /\ y <= b
  <2>1. CASE m = None \/ Head(k) \in InputFamilies
    <3>1. y = 0
      BY <2>1 DEF Source
    <3>2. QED
      BY <1>4, <3>1
  <2>2. CASE m # None /\ Head(k) \notin InputFamilies
    <3>1. y = x - m - Timeout
      BY <2>2 DEF Source
    <3>2. x = h.now + m
      BY <2>2
    <3>3. ~Ageless(q.name)
      BY <2>2, AgelessKeys
    <3>4. b = q.began
      BY <3>3 DEF Begun
    <3>5. m \in Nat
      BY <1>2, <2>2
    <3> HIDE DEF m, x, y, b
    <3>6. QED
      BY <1>3, <3>1, <3>2, <3>4, <3>5
  <2>3. QED
    BY <2>1, <2>2
<1>6. \/ m = None /\ x = None
      \/ m # None /\ x \in Int /\ x > h.now /\ x <= h.now + m
  <2>1. x = IF m = None THEN None ELSE h.now + m
    OBVIOUS
  <2> HIDE DEF m, x
  <2>2. QED
    BY <1>2, <1>3, <2>1
<1> HIDE DEF y, b
<1>7. RightFor(h, k, c.value, b)
  BY RightForRequests DEF b
<1>8. RightFor(h, k, c.value, y)
  BY <1>4, <1>5, <1>7, RightEarlier
<1>9. Own(k) => ShownSince(h, k[2], y)
  <2>1. SUFFICES ASSUME Own(k) PROVE ShownSince(h, k[2], y)
    OBVIOUS
  <2>2. q.name = "GetCompetitionTries" /\ k[2] = q.user
    BY <2>1, KeysFitRequests DEF KeyFits
  <2>3. ShownSince(h, q.user, b)
    BY <2>2 DEF b
  <2>4. QED
    BY <1>4, <1>5, <2>2, <2>3, RightEarlier
<1>10. QED
  BY <1>1, <1>6, <1>8, <1>9 DEF EntrySound, y

\* Taking the value of a key leaves the request sound.
LEMMA HitMove ==
    ASSUME NEW h, TimesSound(h), NEW q, RequestSound(h, q), q.todo # <<>>,
           Head(q.todo).op = "get", NEW c, EntrySound(h, Head(q.todo).key, c)
    PROVE  RequestSound(h, Moved([q EXCEPT !.value = c.value], Head(q.todo).skip))
<1> DEFINE k == Head(q.todo).key
           n == Head(q.todo).skip
           L == Len(q.todo)
           y == Source(k, c.expires)
           b == Begun(q)
           s == Start(q)
<1>1. /\ IsSequence(q.todo) /\ q.began \in 0..h.now /\ q.user \in Users \cup {None}
      /\ KeysFit(q.todo, q.name, q.user, q.index) /\ Skips(q.todo, q.name)
      /\ 1 <= L /\ 1 \in DOMAIN q.todo /\ Head(q.todo) = q.todo[1]
  BY FirstCall DEF RequestSound
<1>2. k \in KeysOf(q.name, q.user, q.index)
  BY <1>1 DEF KeysFit
<1>3. n \in Nat /\ 1 + n <= L /\ (1 + n = L \/ Ageless(q.name))
  BY <1>1 DEF Skips
<1>4. h.now \in Nat /\ q.began \in Nat
  BY <1>1 DEF TimesSound
<1>5. /\ y \in Int /\ b \in Int /\ s \in Int /\ s <= y
      /\ Ageless(q.name) => b <= y
  <2>1. y \in Int
    BY <1>4, SourceIsEarly
  <2>2. b \in Int /\ s \in Int
    BY <1>4, StartIsEarly
  <2>3. s <= y /\ (Ageless(q.name) => b <= y)
    BY <1>1, <1>2, <1>4, SourceInReach
  <2>4. QED
    BY <2>1, <2>2, <2>3
<1>6. Right(h, q.name, q.user, q.index, c.value, y)
  <2>1. RightFor(h, k, c.value, y)
    BY DEF EntrySound
  <2> HIDE DEF y, k
  <2>2. QED
    BY <1>1, <1>2, <2>1, RightForRequests
<1>7. q.name = "GetCompetitionTries" => ShownSince(h, q.user, y)
  <2>0. KeyFits(k, q.name, q.user, q.index)
    <3> HIDE DEF k
    <3>1. QED
      BY <1>1, <1>2, KeysFitRequests
  <2>1. q.name = "GetCompetitionTries" => Own(k) /\ k[2] = q.user
    BY <2>0, Zenon DEF KeyFits
  <2>2. Own(k) => ShownSince(h, k[2], y)
    BY DEF EntrySound
  <2> HIDE DEF y, k
  <2>3. QED
    BY <2>1, <2>2
<1> HIDE DEF y, b, s, k, n
<1>8. Answering(h, q, c.value)
  <2>1. Right(h, q.name, q.user, q.index, c.value, s)
    BY <1>5, <1>6, RightEarlier
  <2>2. q.name = "GetCompetitionTries" => ShownSince(h, q.user, s)
    BY <1>5, <1>7, RightEarlier
  <2>3. QED
    BY <2>1, <2>2 DEF Answering, s
<1>9. ASSUME Left(q.todo, n) # <<>>
      PROVE  /\ Right(h, q.name, q.user, q.index, c.value, b)
             /\ q.name = "GetCompetitionTries" => ShownSince(h, q.user, b)
  <2>1. Ageless(q.name)
    <3>1. L # 1 + n
      BY <1>1, <1>3, <1>9, LeftFacts
    <3>2. QED
      BY <1>3, <3>1
  <2>2. b <= y
    BY <1>5, <2>1
  <2>3. Right(h, q.name, q.user, q.index, c.value, b)
    BY <1>5, <1>6, <2>2, RightEarlier
  <2>4. q.name = "GetCompetitionTries" => ShownSince(h, q.user, b)
    BY <1>5, <1>7, <2>2, RightEarlier
  <2>5. QED
    BY <2>3, <2>4
<1>10. RequestSound(h, Moved([q EXCEPT !.value = c.value], n))
  <2>1. n \in Nat /\ 1 + n <= Len(q.todo)
    BY <1>3
  <2> DEFINE v == c.value
  <2>2. Left(q.todo, n) # <<>> =>
           /\ Right(h, q.name, q.user, q.index, v, Begun(q))
           /\ q.name = "GetCompetitionTries" => ShownSince(h, q.user, Begun(q))
    BY <1>9 DEF b
  <2> HIDE DEF v
  <2>3. RequestSound(h, Moved([q EXCEPT !.value = v], n))
    BY <2>1, <2>2, <1>8, ValueMove DEF v
  <2>4. QED
    BY <2>3 DEF v
<1>11. QED
  BY <1>10 DEF n

----------------------------------------------------------------------------
(* What a handler has to do, when it begins.                                *)

\* What the calls of a handler are to begin with.
Planned(todo, name, u, i) ==
    IsSequence(todo) /\ KeysFit(todo, name, u, i) /\ Skips(todo, name) /\ ReadFirst(todo)
\* Lists that ask no key, and lists that read.
NoKeys(todo) == \A j \in DOMAIN todo : todo[j].op \notin {"get", "set"}
HasRead(todo) == \E j \in DOMAIN todo : todo[j].op = "read"

\* Lists of a few calls.
LEMMA SequenceOfFew ==
    /\ \A a : IsSequence(<<a>>)
    /\ \A a, b : IsSequence(<<a, b>>)
    /\ \A a, b, c : IsSequence(<<a, b, c>>)
    /\ \A a, b, c, d : IsSequence(<<a, b, c, d>>)
<1>1. ASSUME NEW a PROVE IsSequence(<<a>>)
  <2>1. <<a>> \in Seq({a})
    OBVIOUS
  <2>2. QED
    BY <2>1 DEF IsSequence
<1>2. ASSUME NEW a, NEW b PROVE IsSequence(<<a, b>>)
  <2>1. <<a, b>> \in Seq({a, b})
    OBVIOUS
  <2>2. QED
    BY <2>1 DEF IsSequence
<1>3. ASSUME NEW a, NEW b, NEW c PROVE IsSequence(<<a, b, c>>)
  <2>1. <<a, b, c>> \in Seq({a, b, c})
    OBVIOUS
  <2>2. QED
    BY <2>1 DEF IsSequence
<1>4. ASSUME NEW a, NEW b, NEW c, NEW d PROVE IsSequence(<<a, b, c, d>>)
  <2>1. <<a, b, c, d>> \in Seq({a, b, c, d})
    OBVIOUS
  <2>2. QED
    BY <2>1 DEF IsSequence
<1>5. QED
  BY <1>1, <1>2, <1>3, <1>4

\* What the operator for concatenation makes of two sequences.
LEMMA ConcatIs ==
    ASSUME NEW s, IsSequence(s), NEW t, IsSequence(t)
    PROVE  /\ IsSequence(s \o t) /\ Len(s) \in Nat /\ Len(t) \in Nat
           /\ DOMAIN s = 1..Len(s) /\ DOMAIN t = 1..Len(t)
           /\ DOMAIN (s \o t) = 1..(Len(s) + Len(t)) /\ Len(s \o t) = Len(s) + Len(t)
           /\ \A j \in 1..Len(s) : (s \o t)[j] = s[j]
           /\ \A j \in 1..Len(t) : (s \o t)[Len(s) + j] = t[j]
<1>1. PICK S : s \in Seq(S)
  BY DEF IsSequence
<1>2. PICK T : t \in Seq(T)
  BY DEF IsSequence
<1>3. s \in Seq(S \cup T) /\ t \in Seq(S \cup T)
  BY <1>1, <1>2
<1>4. Len(s) \in Nat /\ Len(t) \in Nat /\ DOMAIN s = 1..Len(s) /\ DOMAIN t = 1..Len(t)
  BY <1>3
<1>5. /\ s \o t \in Seq(S \cup T) /\ Len(s \o t) = Len(s) + Len(t)
      /\ \A j \in 1..(Len(s) + Len(t)) : (s \o t)[j] = IF j <= Len(s) THEN s[j] ELSE t[j - Len(s)]
  BY <1>3, ConcatProperties
<1>6. DOMAIN (s \o t) = 1..(Len(s) + Len(t))
  BY <1>5
<1>7. IsSequence(s \o t)
  BY <1>5 DEF IsSequence
<1>8. \A j \in 1..Len(s) : (s \o t)[j] = s[j]
  BY <1>4, <1>5
<1>9. \A j \in 1..Len(t) : (s \o t)[Len(s) + j] = t[j]
  <2> SUFFICES ASSUME NEW j \in 1..Len(t) PROVE (s \o t)[Len(s) + j] = t[j]
    OBVIOUS
  <2> DEFINE n == Len(s)
             m == n + j
  <2>1. n \in Nat /\ m \in 1..(n + Len(t)) /\ ~(m <= n) /\ m - n = j
    BY <1>4
  <2> HIDE DEF m, n
  <2>2. (s \o t)[m] = t[m - n]
    BY <1>5, <2>1 DEF n
  <2>3. QED
    BY <2>1, <2>2 DEF m, n
<1>10. QED
  BY <1>4, <1>5, <1>6, <1>7, <1>8, <1>9

\* Their lengths add up.
LEMMA ConcatLength ==
    ASSUME NEW s, IsSequence(s), NEW t, IsSequence(t)
    PROVE  IsSequence(s \o t) /\ Len(s \o t) = Len(s) + Len(t)
BY ConcatIs
\* The places are those of both.
LEMMA ConcatDomain ==
    ASSUME NEW s, IsSequence(s), NEW t, IsSequence(t)
    PROVE  DOMAIN (s \o t) = 1..(Len(s) + Len(t))
BY ConcatIs
\* At each place is what was there.
LEMMA ConcatParts ==
    ASSUME NEW s, IsSequence(s), NEW t, IsSequence(t)
    PROVE  /\ \A j \in 1..Len(s) : (s \o t)[j] = s[j]
           /\ \A j \in 1..Len(t) : (s \o t)[Len(s) + j] = t[j]
BY ConcatIs

\* A list that asks no key is in order.
LEMMA NoKeysArePlanned ==
    ASSUME NEW todo, IsSequence(todo), NoKeys(todo), NEW name, NEW u, NEW i
    PROVE  Planned(todo, name, u, i)
BY DEF Planned, NoKeys, KeysFit, Skips, ReadFirst

\* One call more, at the beginning.
LEMMA OneMore ==
    ASSUME NEW a, NEW todo, NEW name, NEW u, NEW i, Planned(todo, name, u, i),
           a.op \notin {"get", "set"}
    PROVE  Planned(<<a>> \o todo, name, u, i)
<1> DEFINE all == <<a>> \o todo
           L == Len(todo)
<1>1. IsSequence(<<a>>) /\ IsSequence(todo) /\ Len(<<a>>) = 1 /\ <<a>>[1] = a
  BY SequenceOfFew DEF Planned
<1>2. /\ IsSequence(all) /\ L \in Nat /\ DOMAIN todo = 1..L /\ DOMAIN all = 1..(1 + L)
      /\ Len(all) = 1 + L
      /\ all[1] = a
      /\ \A j \in 1..L : all[1 + j] = todo[j]
  BY <1>1, ConcatIs
<1> HIDE DEF all, L
<1>3. ASSUME NEW j \in DOMAIN all, all[j].op \in {"get", "set"}
      PROVE  j - 1 \in DOMAIN todo /\ all[j] = todo[j - 1] /\ j \in Nat
  <2>1. j # 1
    BY <1>2, <1>3
  <2>2. QED
    BY <1>2, <2>1
<1>4. KeysFit(all, name, u, i)
  BY <1>3 DEF KeysFit, Planned
<1>5. Skips(all, name)
  <2> SUFFICES ASSUME NEW j \in DOMAIN all, all[j].op = "get"
               PROVE  /\ all[j].skip \in Nat /\ j + all[j].skip <= Len(all)
                      /\ j + all[j].skip = Len(all) \/ Ageless(name)
    BY DEF Skips
  <2> DEFINE m == j - 1
  <2>1. m \in DOMAIN todo /\ all[j] = todo[m] /\ j \in Nat
    BY <1>3
  <2> HIDE DEF m
  <2>2. /\ todo[m].skip \in Nat /\ m + todo[m].skip <= L
        /\ m + todo[m].skip = L \/ Ageless(name)
    BY <2>1 DEF Skips, Planned, L
  <2> DEFINE k == all[j].skip
  <2> HIDE DEF k
  <2>3. k \in Nat /\ m + k <= L /\ (m + k = L \/ Ageless(name))
    BY <2>1, <2>2 DEF k
  <2>4. Len(all) = 1 + L /\ L \in Nat
    BY <1>2
  <2>5. j + k <= Len(all) /\ (m + k = L => j + k = Len(all))
    BY <2>1, <2>3, <2>4 DEF m
  <2>6. QED
    BY <2>3, <2>5 DEF k
<1>6. ReadFirst(all)
  <2> SUFFICES ASSUME NEW j \in DOMAIN all, all[j].op = "set"
               PROVE  \E m \in 1..(j - 1) : all[m].op = "read"
    BY DEF ReadFirst
  <2> DEFINE p == j - 1
  <2>1. p \in DOMAIN todo /\ todo[p].op = "set" /\ j \in Nat
    BY <1>3
  <2> HIDE DEF p
  <2>2. PICK m \in 1..(p - 1) : todo[m].op = "read"
    BY <2>1 DEF ReadFirst, Planned
  <2>3. m \in 1..L /\ 1 + m \in 1..(j - 1)
    BY <1>2, <2>1, <2>2 DEF p
  <2>4. all[1 + m] = todo[m]
    BY <1>2, <2>3
  <2>5. QED
    BY <2>2, <2>3, <2>4
<1>7. QED
  BY <1>2, <1>4, <1>5, <1>6 DEF Planned, all

\* A call before and one after.
LEMMA AroundIs ==
    ASSUME NEW g, NEW e, NEW calls, IsSequence(calls), NEW all, all = <<g>> \o calls \o <<e>>,
           NEW L, L = Len(calls)
    PROVE  /\ IsSequence(all) /\ L \in Nat /\ DOMAIN calls = 1..L
           /\ DOMAIN all = 1..(L + 2) /\ Len(all) = L + 2
           /\ all[1] = g /\ all[L + 2] = e
           /\ \A j \in 1..L : all[j + 1] = calls[j]
<1> DEFINE front == <<g>> \o calls
           back == <<e>>
<1>1. IsSequence(<<g>>) /\ Len(<<g>>) = 1 /\ <<g>>[1] = g
  BY SequenceOfFew
<1>2. IsSequence(back) /\ Len(back) = 1 /\ back[1] = e
  BY SequenceOfFew
<1>3. /\ IsSequence(front) /\ L \in Nat /\ DOMAIN calls = 1..L /\ Len(front) = 1 + L
      /\ front[1] = g /\ \A j \in 1..L : front[1 + j] = calls[j]
  BY <1>1, ConcatIs
<1>4. all = front \o back
  OBVIOUS
<1> HIDE DEF front, back
<1>5. /\ IsSequence(all) /\ Len(all) = Len(front) + 1 /\ DOMAIN all = 1..(Len(front) + 1)
      /\ \A j \in 1..Len(front) : all[j] = front[j]
      /\ all[Len(front) + 1] = e
  <2>1. IsSequence(all) /\ Len(all) = Len(front) + 1
    BY <1>2, <1>3, <1>4, ConcatLength
  <2>2. DOMAIN all = 1..(Len(front) + 1)
    BY <1>2, <1>3, <1>4, ConcatDomain
  <2>3. /\ \A j \in 1..Len(front) : all[j] = front[j]
        /\ all[Len(front) + 1] = e
    BY <1>2, <1>3, <1>4, ConcatParts
  <2>4. QED
    BY <2>1, <2>2, <2>3
<1>6. Len(all) = L + 2 /\ DOMAIN all = 1..(L + 2) /\ all[1] = g /\ all[L + 2] = e
  <2>1. Len(front) + 1 = L + 2 /\ 1 \in 1..Len(front)
    BY <1>3
  <2>2. QED
    BY <1>3, <1>5, <2>1
<1>7. \A j \in 1..L : all[j + 1] = calls[j]
  <2> SUFFICES ASSUME NEW j \in 1..L PROVE all[j + 1] = calls[j]
    OBVIOUS
  <2>1. j + 1 \in 1..Len(front) /\ 1 + j = j + 1
    BY <1>3
  <2>2. QED
    BY <1>3, <1>5, <2>1
<1>8. QED
  BY <1>3, <1>5, <1>6, <1>7

\* The cache first.
IsThrough(all, L, key, calls) ==
    /\ IsSequence(all) /\ L \in Nat /\ DOMAIN calls = 1..L
    /\ DOMAIN all = 1..(L + 2) /\ Len(all) = L + 2
    /\ all[1] = Get(key, L + 1) /\ all[L + 2] = Set(key)
    /\ \A j \in 1..L : all[j + 1] = calls[j]
\* The list that Through makes.
LEMMA ThroughIs ==
    ASSUME NEW key, NEW calls, IsSequence(calls)
    PROVE  IsThrough(Through(key, calls), Len(calls), key, calls)
<1> DEFINE all == Through(key, calls)
           L == Len(calls)
           first == Get(key, L + 1)
           last == Set(key)
<1>1. all = <<first>> \o calls \o <<last>> /\ L = Len(calls)
  BY DEF Through
<1> HIDE DEF first, last, all, L
<1>2. /\ IsSequence(all) /\ L \in Nat /\ DOMAIN calls = 1..L
      /\ DOMAIN all = 1..(L + 2) /\ Len(all) = L + 2
      /\ all[1] = first /\ all[L + 2] = last
      /\ \A j \in 1..L : all[j + 1] = calls[j]
  <2>1. IsSequence(all)
    <3> DEFINE front == <<first>> \o calls
    <3>1. IsSequence(front)
      BY SequenceOfFew, ConcatLength
    <3>2. all = front \o <<last>>
      BY <1>1
    <3> HIDE DEF front
    <3>3. QED
      BY <3>1, <3>2, SequenceOfFew, ConcatLength
  <2>2. L \in Nat /\ DOMAIN calls = 1..L
    BY <1>1, AroundIs
  <2>3. DOMAIN all = 1..(L + 2) /\ Len(all) = L + 2
    BY <1>1, AroundIs
  <2>4. all[1] = first /\ all[L + 2] = last
    BY <1>1, AroundIs
  <2>5. \A j \in 1..L : all[j + 1] = calls[j]
    BY <1>1, AroundIs
  <2>6. QED
    BY <2>1, <2>2, <2>3, <2>4, <2>5
<1>3. QED
  BY <1>2 DEF first, last, all, L, IsThrough

\* It is in order when the calls after the cache are.
LEMMA ThroughPlanned ==
    ASSUME NEW calls, NEW name, NEW u, NEW i, Planned(calls, name, u, i), HasRead(calls),
           NEW key \in KeysOf(name, u, i), Ageless(name) \/ NoKeys(calls)
    PROVE  Planned(Through(key, calls), name, u, i) /\ HasRead(Through(key, calls))
<1> DEFINE all == Through(key, calls)
           L == Len(calls)
<1>1. /\ IsSequence(all) /\ L \in Nat /\ DOMAIN calls = 1..L
      /\ DOMAIN all = 1..(L + 2) /\ Len(all) = L + 2
      /\ all[1] = Get(key, L + 1) /\ all[L + 2] = Set(key)
      /\ \A j \in 1..L : all[j + 1] = calls[j]
  <2>1. IsSequence(calls)
    BY DEF Planned
  <2>2. IsThrough(all, L, key, calls)
    BY <2>1, ThroughIs
  <2> HIDE DEF all, L
  <2>3. QED
    BY <2>2 DEF IsThrough
<1> HIDE DEF all, L
<1>2. /\ all[1].op = "get" /\ all[1].key = key /\ all[1].skip = L + 1
      /\ all[L + 2].op = "set" /\ all[L + 2].key = key
  BY <1>1 DEF Get, Set
<1>3. ASSUME NEW j \in DOMAIN all
      PROVE  j = 1 \/ j = L + 2 \/ (j - 1 \in 1..L /\ all[j] = calls[j - 1])
  <2>1. CASE j = 1 \/ j = L + 2
    BY <2>1
  <2>2. CASE j # 1 /\ j # L + 2
    <3> DEFINE m == j - 1
    <3>1. m \in 1..L /\ m + 1 = j
      BY <1>1, <2>2
    <3> HIDE DEF m
    <3>2. all[m + 1] = calls[m]
      BY <1>1, <3>1
    <3>3. QED
      BY <3>1, <3>2 DEF m
  <2>3. QED
    BY <2>1, <2>2
<1>4. KeysFit(all, name, u, i)
  <2> SUFFICES ASSUME NEW j \in DOMAIN all, all[j].op \in {"get", "set"}
               PROVE  all[j].key \in KeysOf(name, u, i)
    BY DEF KeysFit
  <2>1. CASE j = 1 \/ j = L + 2
    BY <1>2, <2>1
  <2>2. CASE j - 1 \in 1..L /\ all[j] = calls[j - 1]
    BY <1>1, <2>2 DEF Planned, KeysFit
  <2>3. QED
    BY <1>3, <2>1, <2>2
<1>5. Skips(all, name)
  <2> SUFFICES ASSUME NEW j \in DOMAIN all, all[j].op = "get"
               PROVE  /\ all[j].skip \in Nat /\ j + all[j].skip <= Len(all)
                      /\ j + all[j].skip = Len(all) \/ Ageless(name)
    BY DEF Skips
  <2>1. CASE j = 1
    BY <1>1, <1>2, <2>1
  <2>2. CASE j = L + 2
    BY <1>2, <2>2
  <2>3. CASE j - 1 \in 1..L /\ all[j] = calls[j - 1]
    <3> DEFINE m == j - 1
               k == all[j].skip
    <3>1. m \in DOMAIN calls /\ calls[m].op = "get" /\ calls[m].skip = k /\ j \in Nat
      BY <1>1, <2>3
    <3>2. Ageless(name)
      BY <3>1 DEF NoKeys
    <3> HIDE DEF m, k
    <3>3. k \in Nat /\ m + k <= L
      BY <3>1 DEF Planned, Skips, L
    <3>4. j = m + 1
      BY <3>1 DEF m
    <3>5. m \in Nat
      BY <1>1, <3>1
    <3>6. j + k <= L + 2
      BY <1>1, <3>3, <3>4, <3>5
    <3>7. QED
      BY <1>1, <3>2, <3>3, <3>6 DEF k
  <2>4. QED
    BY <1>3, <2>1, <2>2, <2>3
<1>6. PICK p \in 1..L : calls[p].op = "read"
  BY <1>1 DEF HasRead
<1>7. p + 1 \in 1..(L + 1) /\ all[p + 1].op = "read"
  BY <1>1, <1>6
<1>8. ReadFirst(all)
  <2> SUFFICES ASSUME NEW j \in DOMAIN all, all[j].op = "set"
               PROVE  \E m \in 1..(j - 1) : all[m].op = "read"
    BY DEF ReadFirst
  <2>1. CASE j = 1
    BY <1>2, <2>1
  <2>2. CASE j = L + 2
    <3>1. p + 1 \in 1..(j - 1)
      BY <1>1, <1>7, <2>2
    <3>2. QED
      BY <1>7, <3>1
  <2>3. CASE j - 1 \in 1..L /\ all[j] = calls[j - 1]
    <3>1. PICK m \in 1..((j - 1) - 1) : calls[m].op = "read"
      <4>1. j - 1 \in DOMAIN calls /\ calls[j - 1].op = "set"
        BY <1>1, <2>3
      <4>2. ReadFirst(calls)
        BY DEF Planned
      <4>3. QED
        BY <4>1, <4>2 DEF ReadFirst
    <3>2. m \in 1..L /\ m + 1 \in 1..(j - 1)
      BY <1>1, <2>3, <3>1
    <3>3. all[m + 1].op = "read"
      BY <1>1, <3>1, <3>2
    <3>4. QED
      BY <3>2, <3>3
  <2>4. QED
    BY <1>3, <2>1, <2>2, <2>3
<1>9. HasRead(all)
  <2>1. p + 1 \in DOMAIN all
    BY <1>1, <1>7
  <2>2. QED
    BY <1>7, <2>1 DEF HasRead
<1>10. QED
  BY <1>1, <1>4, <1>5, <1>8, <1>9 DEF Planned, all

\* It checks first when the calls after the cache do.
LEMMA ThroughAccess ==
    ASSUME NEW key, NEW calls, IsSequence(calls), AccessFirst(calls)
    PROVE  AccessFirst(Through(key, calls))
<1> DEFINE all == Through(key, calls)
           L == Len(calls)
<1>1. /\ IsSequence(all) /\ L \in Nat /\ DOMAIN calls = 1..L
      /\ DOMAIN all = 1..(L + 2) /\ Len(all) = L + 2
      /\ all[1] = Get(key, L + 1) /\ all[L + 2] = Set(key)
      /\ \A j \in 1..L : all[j + 1] = calls[j]
  <2>1. IsThrough(all, L, key, calls)
    BY ThroughIs
  <2> HIDE DEF all, L
  <2>2. QED
    BY <2>1 DEF IsThrough
<1> HIDE DEF all, L
<1>2. PICK j \in 1..L : calls[j].op = "access" /\ \A m \in 1..(j - 1) : calls[m].op = "get"
  BY <1>1 DEF AccessFirst
<1>3. j + 1 \in DOMAIN all /\ all[j + 1].op = "access"
  BY <1>1, <1>2
<1>4. ASSUME NEW m \in 1..j PROVE all[m].op = "get"
  <2>1. CASE m = 1
    BY <1>1, <2>1 DEF Get
  <2>2. CASE m # 1
    <3> DEFINE n == m - 1
    <3>1. n \in 1..(j - 1) /\ n \in 1..L /\ m = n + 1
      BY <1>1, <1>2, <2>2
    <3> HIDE DEF n
    <3>2. all[n + 1] = calls[n]
      BY <1>1, <3>1
    <3>3. QED
      BY <1>2, <3>1, <3>2
  <2>3. QED
    BY <2>1, <2>2
<1>5. AccessFirst(all)
  <2> DEFINE n == j + 1
  <2>1. n \in DOMAIN all /\ all[n].op = "access" /\ n - 1 = j
    BY <1>3, <1>2
  <2> HIDE DEF n
  <2>2. QED
    BY <1>4, <2>1 DEF AccessFirst
<1>6. QED
  BY <1>5 DEF all

\* Short lists that ask no key.
LEMMA FewCalls ==
    ASSUME NEW a, a.op \notin {"get", "set"}, NEW b, b.op \notin {"get", "set"},
           NEW c, c.op \notin {"get", "set"}, NEW d, d.op \notin {"get", "set"}
    PROVE  /\ IsSequence(<<a>>) /\ NoKeys(<<a>>)
           /\ IsSequence(<<a, b>>) /\ NoKeys(<<a, b>>)
           /\ IsSequence(<<a, b, c, d>>) /\ NoKeys(<<a, b, c, d>>)
           /\ a.op = "read" => HasRead(<<a>>)
           /\ b.op = "read" => HasRead(<<a, b>>)
           /\ a.op = "access" => AccessFirst(<<a, b>>)
<1>1. NoKeys(<<a>>) /\ (a.op = "read" => HasRead(<<a>>))
  <2> DEFINE s == <<a>>
  <2>1. DOMAIN s = 1..1 /\ s[1] = a
    OBVIOUS
  <2> HIDE DEF s
  <2>2. QED
    BY <2>1 DEF NoKeys, HasRead
<1>2. /\ NoKeys(<<a, b>>) /\ (b.op = "read" => HasRead(<<a, b>>))
      /\ a.op = "access" => AccessFirst(<<a, b>>)
  <2> DEFINE s == <<a, b>>
  <2>1. DOMAIN s = 1..2 /\ s[1] = a /\ s[2] = b
    OBVIOUS
  <2> HIDE DEF s
  <2>2. \A j \in 1..2 : j = 1 \/ j = 2
    OBVIOUS
  <2>3. NoKeys(s)
    BY <2>1, <2>2 DEF NoKeys
  <2>4. b.op = "read" => HasRead(s)
    BY <2>1 DEF HasRead
  <2>5. a.op = "access" => AccessFirst(s)
    BY <2>1 DEF AccessFirst
  <2>6. QED
    BY <2>3, <2>4, <2>5 DEF s
<1>3. NoKeys(<<a, b, c, d>>)
  <2> DEFINE s == <<a, b, c, d>>
  <2>1. DOMAIN s = 1..4 /\ s[1] = a /\ s[2] = b /\ s[3] = c /\ s[4] = d
    OBVIOUS
  <2> HIDE DEF s
  <2>2. \A j \in 1..4 : j = 1 \/ j = 2 \/ j = 3 \/ j = 4
    OBVIOUS
  <2>3. NoKeys(s)
    BY <2>1, <2>2 DEF NoKeys
  <2>4. QED
    BY <2>3 DEF s
<1>4. IsSequence(<<a>>) /\ IsSequence(<<a, b>>) /\ IsSequence(<<a, b, c, d>>)
  BY SequenceOfFew
<1>5. QED
  BY <1>1, <1>2, <1>3, <1>4

\* A read put before a list in order.
LEMMA OneMoreRead ==
    ASSUME NEW a, a.op \notin {"get", "set"}, NEW calls, IsSequence(calls), NoKeys(calls),
           HasRead(calls)
    PROVE  IsSequence(<<a>> \o calls) /\ NoKeys(<<a>> \o calls) /\ HasRead(<<a>> \o calls)
<1> DEFINE all == <<a>> \o calls
           L == Len(calls)
<1>1. IsSequence(<<a>>) /\ Len(<<a>>) = 1 /\ <<a>>[1] = a
  BY SequenceOfFew
<1>2. L \in Nat /\ DOMAIN calls = 1..L
  BY DEF IsSequence
<1>3. IsSequence(all)
  BY <1>1, ConcatLength
<1>4. DOMAIN all = 1..(1 + L)
  BY <1>1, ConcatDomain
<1>5. all[1] = a /\ \A j \in 1..L : all[1 + j] = calls[j]
  BY <1>1, ConcatParts
<1> HIDE DEF all, L
<1>6. NoKeys(all)
  <2> SUFFICES ASSUME NEW j \in DOMAIN all PROVE all[j].op \notin {"get", "set"}
    BY DEF NoKeys
  <2>1. CASE j = 1
    BY <1>5, <2>1
  <2>2. CASE j # 1
    <3> DEFINE m == j - 1
    <3>1. m \in 1..L /\ j = 1 + m
      BY <1>2, <1>4, <2>2
    <3> HIDE DEF m
    <3>2. all[j] = calls[m] /\ m \in DOMAIN calls
      BY <1>2, <1>5, <3>1
    <3>3. QED
      BY <3>2 DEF NoKeys
  <2>3. QED
    BY <2>1, <2>2
<1>7. HasRead(all)
  <2>1. PICK j \in 1..L : calls[j].op = "read"
    BY <1>2 DEF HasRead
  <2> DEFINE m == 1 + j
  <2>2. m \in DOMAIN all /\ all[m] = calls[j]
    BY <1>2, <1>4, <1>5, <2>1
  <2> HIDE DEF m
  <2>3. QED
    BY <2>1, <2>2 DEF HasRead
<1>8. QED
  BY <1>3, <1>6, <1>7 DEF all

\* The calls of the handlers.
LEMMA CallsAreNamed ==
    /\ Access.op = "access" /\ Exists.op = "exists" /\ Regroup.op = "regroup"
    /\ Read.op = "read" /\ ReadInTime.op = "read" /\ DelFound.op = "del"
    /\ \A f : Keys(f).op = "keys"
    /\ \A k : DelKey(k).op = "del"
BY DEF Access, Exists, Regroup, Read, ReadInTime, DelFound, Keys, DelKey

\* A read through the cache.
LEMMA ReadsArePlanned ==
    ASSUME NEW a, a \in {Read, ReadInTime}, NEW name, NEW u, NEW i, NEW key \in KeysOf(name, u, i)
    PROVE  /\ Planned(<<a>>, name, u, i) /\ HasRead(<<a>>) /\ NoKeys(<<a>>)
           /\ Planned(Through(key, <<a>>), name, u, i) /\ HasRead(Through(key, <<a>>))
<1>1. a.op = "read"
  BY CallsAreNamed
<1>2. IsSequence(<<a>>) /\ NoKeys(<<a>>) /\ HasRead(<<a>>)
  BY <1>1, FewCalls
<1> DEFINE calls == <<a>>
<1>3. IsSequence(calls) /\ NoKeys(calls) /\ HasRead(calls)
  BY <1>2
<1> HIDE DEF calls
<1>4. Planned(calls, name, u, i)
  BY <1>3, NoKeysArePlanned
<1>5. Planned(Through(key, calls), name, u, i) /\ HasRead(Through(key, calls))
  BY <1>3, <1>4, ThroughPlanned
<1>6. QED
  BY <1>3, <1>4, <1>5 DEF calls

\* One that is checked first.
LEMMA CheckedReadsArePlanned ==
    ASSUME NEW a, a \in {Access, Exists}, NEW name, NEW u, NEW i
    PROVE  /\ Planned(<<a, ReadInTime>>, name, u, i)
           /\ \A key \in KeysOf(name, u, i) :
                 /\ Planned(Through(key, <<a, ReadInTime>>), name, u, i)
                 /\ a = Access => AccessFirst(Through(key, <<a, ReadInTime>>))
<1>1. a.op \notin {"get", "set"} /\ ReadInTime.op = "read" /\ (a = Access => a.op = "access")
  BY CallsAreNamed
<1> DEFINE calls == <<a, ReadInTime>>
<1>2. /\ IsSequence(calls) /\ NoKeys(calls) /\ HasRead(calls)
      /\ a = Access => AccessFirst(calls)
  BY <1>1, FewCalls
<1> HIDE DEF calls
<1>3. Planned(calls, name, u, i)
  BY <1>2, NoKeysArePlanned
<1>4. ASSUME NEW key \in KeysOf(name, u, i)
      PROVE  /\ Planned(Through(key, calls), name, u, i)
             /\ a = Access => AccessFirst(Through(key, calls))
  <2>1. Planned(Through(key, calls), name, u, i)
    BY <1>2, <1>3, ThroughPlanned
  <2>2. a = Access => AccessFirst(Through(key, calls))
    BY <1>2, ThroughAccess
  <2>3. QED
    BY <2>1, <2>2
<1>5. QED
  BY <1>3, <1>4 DEF calls

\* What a handler enters with.
Prepared(name, u, i, calls) ==
    /\ u \in Users \cup {None} /\ Planned(calls, name, u, i)
    /\ name = "GetCompetitionTries" => AccessFirst(calls)

\* After the keys of a player's puzzle those of the catalog.
LEMMA InputsArePlanned ==
    ASSUME NEW u \in Users, NEW name \in {"GetInputFromCompetition", "GetPuzzleInputFromThemeCatalog"},
           NEW key \in KeysOf(name, u, 0)
    PROVE  Planned(Through(key, GetPuzzleInput(u)), name, u, 0)
<1> DEFINE calls == GetPuzzleInput(u)
           inner == <<"catalog_puzzle_input", u>>
<1>1. inner \in KeysOf(name, u, 0)
  BY DEF KeysOf
<1>2. Read \in {Read, ReadInTime}
  OBVIOUS
<1> HIDE DEF inner
<1>3. Planned(Through(inner, <<Read>>), name, u, 0) /\ HasRead(Through(inner, <<Read>>))
  BY <1>1, <1>2, ReadsArePlanned
<1>4. Planned(calls, name, u, 0) /\ HasRead(calls)
  BY <1>3 DEF GetPuzzleInput, inner
<1> HIDE DEF calls
<1>5. Ageless(name)
  BY MinutesAssumption DEF Ageless, Family
<1>6. Planned(Through(key, calls), name, u, 0)
  BY <1>4, <1>5, ThroughPlanned
<1>7. QED
  BY <1>6 DEF calls

\* The statistics and the leaderboard they are computed from.
LEMMA StatisticsArePlanned ==
    ASSUME NEW u \in Users, NEW staff \in BOOLEAN
    PROVE  Planned(Through(<<"statistics">>,
                           (IF staff THEN <<>> ELSE <<Access>>) \o <<Exists, ReadInTime>>),
                   "GetCompetitionStatistics", u, 0)
<1> DEFINE name == "GetCompetitionStatistics"
           key == <<"statistics">>
           few == <<Exists, ReadInTime>>
           calls == (IF staff THEN <<>> ELSE <<Access>>) \o few
<1>1. key \in KeysOf(name, u, 0)
  BY DEF KeysOf
<1>2. IsSequence(few) /\ NoKeys(few) /\ HasRead(few)
  BY CallsAreNamed, FewCalls
<1>3. IsSequence(calls) /\ NoKeys(calls) /\ HasRead(calls)
  <2>1. CASE staff
    <3>1. calls = few
      BY <2>1
    <3>2. QED
      BY <1>2, <3>1
  <2>2. CASE ~staff
    <3>1. calls = <<Access>> \o few
      BY <2>2
    <3> HIDE DEF few, calls
    <3>2. QED
      BY <1>2, <3>1, CallsAreNamed, OneMoreRead
  <2>3. QED
    BY <2>1, <2>2
<1> HIDE DEF calls, key, name
<1>4. Planned(calls, name, u, 0)
  BY <1>3, NoKeysArePlanned
<1>5. Planned(Through(key, calls), name, u, 0)
  BY <1>1, <1>3, <1>4, ThroughPlanned
<1>6. QED
  BY <1>5 DEF calls, key, name

\* A request has entered its handler.
Begins(r) ==
    \E name, u, i, calls : Ask(r, name, u, i, calls) /\ Prepared(name, u, i, calls)

\* Every handler begins with a list in order.
LEMMA HandlersPlan ==
    ASSUME NEW r, Handlers(r)
    PROVE  Begins(r)
<1>0. ASSUME NEW name, NEW u \in Users \cup {None}, NEW i, NEW calls, Ask(r, name, u, i, calls),
             Planned(calls, name, u, i), name = "GetCompetitionTries" => AccessFirst(calls)
      PROVE  Begins(r)
  BY <1>0, Zenon DEF Begins, Prepared
<1>0a. Read \in {Read, ReadInTime} /\ ReadInTime \in {Read, ReadInTime}
       /\ Access \in {Access, Exists} /\ Exists \in {Access, Exists}
  OBVIOUS
<1>0b. Access.op \notin {"get", "set"}
  BY CallsAreNamed
<1>1. CASE UserHasPermissionToViewPuzzle(r)
  <2> DEFINE name == "UserHasPermissionToViewPuzzle"
  <2>1. PICK u \in Users, i \in {0, 1} :
           Ask(r, name, u, i, <<Access>> \o Through(<<"permission", u, i>>, <<Read>>))
    BY <1>1, Zenon DEF UserHasPermissionToViewPuzzle
  <2> DEFINE key == <<"permission", u, i>>
             rest == Through(key, <<Read>>)
  <2>2. key \in KeysOf(name, u, i)
    BY DEF KeysOf
  <2>3. Planned(rest, name, u, i)
    <3> HIDE DEF key, name
    <3>1. QED
      BY <1>0a, <2>2, ReadsArePlanned
  <2>4. Ask(r, name, u, i, <<Access>> \o rest) /\ name # "GetCompetitionTries"
    BY <2>1
  <2> HIDE DEF rest, name
  <2>5. Planned(<<Access>> \o rest, name, u, i)
    BY <1>0b, <2>3, OneMore
  <2>6. QED
    BY <1>0, <2>4, <2>5
<1>2. CASE GetCompetitionTries(r)
  <2>1. PICK u \in Users :
           IF u \in world.staff
             THEN Ask(r, "GetCompetitionTries of all", u, 0,
                      Through(TriesKey(u, TRUE), <<ReadInTime>>))
             ELSE Ask(r, "GetCompetitionTries", u, 0,
                      Through(TriesKey(u, FALSE), <<Access, ReadInTime>>))
    BY <1>2, Zenon DEF GetCompetitionTries
  <2>2. CASE u \in world.staff
    <3> DEFINE name == "GetCompetitionTries of all"
               key == TriesKey(u, TRUE)
               calls == Through(key, <<ReadInTime>>)
    <3>1. key \in KeysOf(name, u, 0) /\ name # "GetCompetitionTries"
      BY DEF KeysOf, TriesKey
    <3>2. Ask(r, name, u, 0, calls)
      BY <2>1, <2>2
    <3> HIDE DEF key, name
    <3>3. Planned(calls, name, u, 0)
      BY <1>0a, <3>1, ReadsArePlanned
    <3> HIDE DEF calls
    <3>4. QED
      BY <1>0, <3>1, <3>2, <3>3
  <2>3. CASE u \notin world.staff
    <3> DEFINE name == "GetCompetitionTries"
               key == TriesKey(u, FALSE)
               calls == Through(key, <<Access, ReadInTime>>)
    <3>1. key \in KeysOf(name, u, 0)
      BY DEF KeysOf, TriesKey
    <3>2. Ask(r, name, u, 0, calls)
      BY <2>1, <2>3
    <3> HIDE DEF key, name
    <3>3. Planned(calls, name, u, 0) /\ AccessFirst(calls)
      BY <1>0a, <3>1, CheckedReadsArePlanned
    <3> HIDE DEF calls
    <3>4. QED
      BY <1>0, <3>1, <3>2, <3>3
  <2>4. QED
    BY <2>2, <2>3
<1>3. CASE GetCompetitionStatistics(r)
  <2> DEFINE name == "GetCompetitionStatistics"
  <2>1. PICK u \in Users :
           Ask(r, name, u, 0,
               Through(<<"statistics">>,
                       (IF u \in world.staff THEN <<>> ELSE <<Access>>) \o <<Exists, ReadInTime>>))
    BY <1>3, Zenon DEF GetCompetitionStatistics
  <2> DEFINE staff == u \in world.staff
             calls == Through(<<"statistics">>,
                              (IF staff THEN <<>> ELSE <<Access>>) \o <<Exists, ReadInTime>>)
  <2>2. Ask(r, name, u, 0, calls) /\ staff \in BOOLEAN /\ name # "GetCompetitionTries"
    BY <2>1
  <2>3. Planned(calls, name, u, 0)
    <3> HIDE DEF staff
    <3>1. QED
      BY <2>2, StatisticsArePlanned
  <2> HIDE DEF calls, name
  <2>4. QED
    BY <1>0, <2>2, <2>3
<1>4. CASE GetCompetitionGroups(r)
  <2> DEFINE name == "GetCompetitionGroups"
             key == <<"groups">>
             calls == Through(key, <<Exists, ReadInTime>>)
  <2>1. Ask(r, name, None, 0, calls) /\ name # "GetCompetitionTries"
    BY <1>4 DEF GetCompetitionGroups
  <2>2. key \in KeysOf(name, None, 0)
    BY DEF KeysOf
  <2> HIDE DEF key, name
  <2>3. Planned(calls, name, None, 0)
    BY <1>0a, <2>2, CheckedReadsArePlanned
  <2> HIDE DEF calls
  <2>4. QED
    BY <1>0, <2>1, <2>3
<1>5. CASE GetCompetitionTriesLDB(r)
  <2> DEFINE name == "GetCompetitionTriesLDB"
             calls == <<Access, ReadInTime>>
  <2>1. PICK u \in Users : Ask(r, name, u, 0, calls)
    BY <1>5 DEF GetCompetitionTriesLDB
  <2>2. Planned(calls, name, u, 0)
    BY <1>0a, CheckedReadsArePlanned
  <2> HIDE DEF calls
  <2>3. QED
    BY <1>0, <2>1, <2>2
<1>6. CASE GetUserCompetitionTries(r)
  <2> DEFINE name == "GetUserCompetitionTries"
             calls == <<ReadInTime>>
  <2>1. PICK u \in Users : Ask(r, name, u, 0, calls)
    BY <1>6 DEF GetUserCompetitionTries
  <2>2. Planned(calls, name, u, 0)
    BY CallsAreNamed, FewCalls, NoKeysArePlanned
  <2> HIDE DEF calls
  <2>3. QED
    BY <1>0, <2>1, <2>2
<1>7. CASE GetTriesFromCompetitonPuzzle(r)
  <2> DEFINE name == "GetTriesFromCompetitonPuzzle"
             calls == <<Access, ReadInTime>>
  <2>1. PICK u \in Users, i \in {0, 1} : Ask(r, name, u, i, calls)
    BY <1>7 DEF GetTriesFromCompetitonPuzzle
  <2>2. Planned(calls, name, u, i)
    BY <1>0a, CheckedReadsArePlanned
  <2> HIDE DEF calls
  <2>3. QED
    BY <1>0, <2>1, <2>2
<1>8. CASE ExportCompetitionDataExcel(r)
  <2> DEFINE name == "ExportCompetitionDataExcel"
             calls == <<Exists, ReadInTime>>
  <2>1. Ask(r, name, None, 0, calls) /\ name # "GetCompetitionTries"
    BY <1>8 DEF ExportCompetitionDataExcel
  <2>2. Planned(calls, name, None, 0)
    BY <1>0a, CheckedReadsArePlanned
  <2> HIDE DEF calls, name
  <2>3. QED
    BY <1>0, <2>1, <2>2
<1>9. CASE AddGroupToCompetition(r)
  <2> DEFINE name == "AddGroupToCompetition"
             keys == Keys("permission")
             calls == <<Exists, Regroup, keys, DelFound>>
  <2>1. Ask(r, name, None, 0, calls) /\ name # "GetCompetitionTries"
    BY <1>9 DEF AddGroupToCompetition
  <2>2. keys.op = "keys"
    BY CallsAreNamed
  <2> HIDE DEF keys, name
  <2>3. IsSequence(calls) /\ NoKeys(calls)
    BY <2>2, CallsAreNamed, FewCalls
  <2> HIDE DEF calls
  <2>4. Planned(calls, name, None, 0)
    BY <2>3, NoKeysArePlanned
  <2>5. QED
    BY <1>0, <2>1, <2>4
<1>10. CASE GetInputFromCompetition(r)
  <2> DEFINE name == "GetInputFromCompetition"
  <2>1. PICK u \in Users :
           Ask(r, name, u, 0, <<Access>> \o Through(<<"comp_puzzle_input", u>>, GetPuzzleInput(u)))
    BY <1>10, Zenon DEF GetInputFromCompetition
  <2> DEFINE key == <<"comp_puzzle_input", u>>
             rest == Through(key, GetPuzzleInput(u))
  <2>2. /\ key \in KeysOf(name, u, 0) /\ name # "GetCompetitionTries"
        /\ name \in {"GetInputFromCompetition", "GetPuzzleInputFromThemeCatalog"}
    BY DEF KeysOf
  <2>3. Ask(r, name, u, 0, <<Access>> \o rest)
    BY <2>1
  <2> HIDE DEF key, name
  <2>4. Planned(rest, name, u, 0)
    BY <2>2, InputsArePlanned
  <2> HIDE DEF rest
  <2>5. Planned(<<Access>> \o rest, name, u, 0)
    BY <1>0b, <2>4, OneMore
  <2>6. QED
    BY <1>0, <2>2, <2>3, <2>5
<1>11. CASE AnswerPuzzle(r)
  <2> DEFINE name == "AnswerPuzzle"
  <2>1. PICK u \in Users : Ask(r, name, u, 0, <<Access, DelKey(<<"comp_puzzle_input", u>>)>>)
    BY <1>11, Zenon DEF AnswerPuzzle
  <2> DEFINE del == DelKey(<<"comp_puzzle_input", u>>)
             calls == <<Access, del>>
  <2>2. del.op = "del"
    BY CallsAreNamed
  <2>3. Ask(r, name, u, 0, calls) /\ name # "GetCompetitionTries"
    BY <2>1
  <2> HIDE DEF del, name
  <2>4. IsSequence(calls) /\ NoKeys(calls)
    BY <2>2, CallsAreNamed, FewCalls
  <2> HIDE DEF calls
  <2>5. Planned(calls, name, u, 0)
    BY <2>4, NoKeysArePlanned
  <2>6. QED
    BY <1>0, <2>3, <2>5
<1>12. CASE GetAllCatalogs(r)
  <2> DEFINE name == "GetAllCatalogs"
  <2>1. PICK u \in Users : Ask(r, name, u, 0, Through(<<"user_catalogs", u>>, <<ReadInTime>>))
    BY <1>12, Zenon DEF GetAllCatalogs
  <2> DEFINE key == <<"user_catalogs", u>>
             calls == Through(key, <<ReadInTime>>)
  <2>2. key \in KeysOf(name, u, 0) /\ name # "GetCompetitionTries"
    BY DEF KeysOf
  <2>3. Ask(r, name, u, 0, calls)
    BY <2>1
  <2> HIDE DEF key, name
  <2>4. Planned(calls, name, u, 0)
    BY <1>0a, <2>2, ReadsArePlanned
  <2> HIDE DEF calls
  <2>5. QED
    BY <1>0, <2>2, <2>3, <2>4
<1>13. CASE GetThemesFromCatalog(r)
  <2> DEFINE name == "GetThemesFromCatalog"
             key == <<"catalog_themes">>
             calls == Through(key, <<ReadInTime>>)
  <2>1. Ask(r, name, None, 0, calls) /\ name # "GetCompetitionTries"
    BY <1>13 DEF GetThemesFromCatalog
  <2>2. key \in KeysOf(name, None, 0)
    BY DEF KeysOf
  <2> HIDE DEF key, name
  <2>3. Planned(calls, name, None, 0)
    BY <1>0a, <2>2, ReadsArePlanned
  <2> HIDE DEF calls
  <2>4. QED
    BY <1>0, <2>1, <2>3
<1>14. CASE GetPuzzleFromThemeCatalog(r)
  <2> DEFINE name == "GetPuzzleFromThemeCatalog"
             key == <<"catalog_puzzle_details">>
             calls == Through(key, <<Read>>)
  <2>1. Ask(r, name, None, 0, calls) /\ name # "GetCompetitionTries"
    BY <1>14 DEF GetPuzzleFromThemeCatalog
  <2>2. key \in KeysOf(name, None, 0)
    BY DEF KeysOf
  <2> HIDE DEF key, name
  <2>3. Planned(calls, name, None, 0)
    BY <1>0a, <2>2, ReadsArePlanned
  <2> HIDE DEF calls
  <2>4. QED
    BY <1>0, <2>1, <2>3
<1>15. CASE GetPuzzleInputFromThemeCatalog(r)
  <2> DEFINE name == "GetPuzzleInputFromThemeCatalog"
  <2>1. PICK u \in Users :
           Ask(r, name, u, 0, Through(<<"puzzle_input", u>>, GetPuzzleInput(u)))
    BY <1>15, Zenon DEF GetPuzzleInputFromThemeCatalog
  <2> DEFINE key == <<"puzzle_input", u>>
             calls == Through(key, GetPuzzleInput(u))
  <2>2. /\ key \in KeysOf(name, u, 0) /\ name # "GetCompetitionTries"
        /\ name \in {"GetInputFromCompetition", "GetPuzzleInputFromThemeCatalog"}
    BY DEF KeysOf
  <2>3. Ask(r, name, u, 0, calls)
    BY <2>1
  <2> HIDE DEF key, name
  <2>4. Planned(calls, name, u, 0)
    BY <2>2, InputsArePlanned
  <2> HIDE DEF calls
  <2>5. QED
    BY <1>0, <2>2, <2>3, <2>4
<1>16. QED
  BY <1>1, <1>2, <1>3, <1>4, <1>5, <1>6, <1>7, <1>8, <1>9, <1>10, <1>11, <1>12, <1>13, <1>14, <1>15
     DEF Handlers

----------------------------------------------------------------------------
(* The tables keep their shape.                                             *)

\* A first try.
LEMMA FreshIsSound ==
    ASSUME NEW u \in Users, NEW i \in {0, 1}, NEW n \in Nat \ {0}, now \in Nat
    PROVE  /\ Fresh(u, i, n) \in Rows
           /\ Fresh(u, i, n).user = u /\ Fresh(u, i, n).index = i /\ Fresh(u, i, n).step = n
BY DEF Fresh, Rows

\* An answered try has the key of the one that was read.
LEMMA AnsweredIsSound ==
    ASSUME NEW t \in Rows, NEW points \in Nat
    PROVE  Answered(t, points) \in Rows /\ SameKey(Answered(t, points), t)
<1> DEFINE b == points > 0
<1>1. Answered(t, points) = [user |-> t.user, index |-> t.index, step |-> t.step,
                             start |-> t.start, ended |-> b, attempts |-> t.attempts + 1,
                             score |-> points]
  <2>1. Answered(t, points) = [t EXCEPT !.attempts = @ + 1, !.ended = b, !.score = points]
    BY DEF Answered
  <2>2. t = [user |-> t.user, index |-> t.index, step |-> t.step, start |-> t.start,
             ended |-> t.ended, attempts |-> t.attempts, score |-> t.score]
    BY DEF Rows
  <2> HIDE DEF b
  <2>3. QED
    BY <2>1, <2>2
<1>2. b \in BOOLEAN /\ t.attempts + 1 \in Nat /\ points \in Int
  BY DEF Rows
<1> HIDE DEF b
<1>3. QED
  BY <1>1, <1>2 DEF Rows, SameKey

\* One try more, with a key of its own.
LEMMA AddedAreSound ==
    ASSUME NEW rows, SoundTries(rows), NEW v \in Rows, \A t \in rows : ~SameKey(t, v)
    PROVE  SoundTries(rows \cup {v})
<1>1. IsFiniteSet(rows \cup {v})
  BY FS_AddElement DEF SoundTries
<1>2. rows \cup {v} \subseteq Rows
  BY DEF SoundTries
<1>3. ASSUME NEW x \in rows \cup {v}, NEW y \in rows \cup {v}, SameKey(x, y)
      PROVE  x = y
  <2>1. SameKey(y, x)
    BY <1>3 DEF SameKey
  <2>2. QED
    BY <1>3, <2>1 DEF SoundTries
<1>4. QED
  BY <1>1, <1>2, <1>3 DEF SoundTries

\* A row written over what is there under its key.
LEMMA SavedAreSound ==
    ASSUME NEW rows, SoundTries(rows), NEW t \in Rows, NEW v \in Rows, SameKey(v, t)
    PROVE  LET left == {x \in rows : ~SameKey(x, t)} \cup {v}
           IN  SoundTries(left) /\ \A x \in left : x \in rows \/ SameKey(x, t)
<1> DEFINE others == {x \in rows : ~SameKey(x, t)}
<1>1. others \in SUBSET rows /\ IsFiniteSet(rows)
  BY DEF SoundTries
<1>2. IsFiniteSet(others)
  BY <1>1, FS_Subset
<1>3. SoundTries(others)
  BY <1>2 DEF SoundTries
<1>4. \A x \in others : ~SameKey(x, v)
  BY DEF SameKey
<1> HIDE DEF others
<1>5. SoundTries(others \cup {v})
  BY <1>3, <1>4, AddedAreSound
<1>6. QED
  BY <1>1, <1>5 DEF others

\* The tries of every later world.
LEMMA TriedAreSound ==
    ASSUME NEW rows, SoundTries(rows), now \in Nat, EverRead \subseteq Rows, NEW next \in Tried(rows)
    PROVE  SoundTries(next)
<1> DEFINE new == {p \in Users \X {0, 1} : ~\E t \in rows : t.user = p[1] /\ t.index = p[2]}
           open == {t \in EverRead : ~t.ended}
           Without(t) == {v \in rows : ~SameKey(v, t)}
           NextOf(t) == {Fresh(t.user, t.index, 2) : s \in {1} \cap {t.step}}
<1>1. \/ \E p \in new : next = rows \cup {Fresh(p[1], p[2], 1)}
      \/ \E t \in open : next = Without(t) \cup {Answered(t, 0)}
      \/ \E t \in open : /\ \A n \in NextOf(t), v \in rows : ~SameKey(v, n)
                        /\ next = Without(t) \cup {Answered(t, 3)} \cup NextOf(t)
  BY Zenon DEF Tried
<1>2. CASE \E p \in new : next = rows \cup {Fresh(p[1], p[2], 1)}
  <2>1. PICK p \in new : next = rows \cup {Fresh(p[1], p[2], 1)}
    BY <1>2
  <2> DEFINE a == p[1]
             b == p[2]
             v == Fresh(a, b, 1)
  <2>2. a \in Users /\ b \in {0, 1} /\ \A t \in rows : ~(t.user = a /\ t.index = b)
    BY <2>1
  <2>3. next = rows \cup {v}
    BY <2>1
  <2> HIDE DEF a, b, new
  <2>4. v \in Rows /\ v.user = a /\ v.index = b
    BY <2>2, FreshIsSound
  <2> HIDE DEF v
  <2>5. \A t \in rows : ~SameKey(t, v)
    BY <2>2, <2>4 DEF SameKey
  <2>6. QED
    BY <2>3, <2>4, <2>5, AddedAreSound
<1>3. CASE \E t \in open : next = Without(t) \cup {Answered(t, 0)}
  <2>1. PICK t \in open : next = Without(t) \cup {Answered(t, 0)}
    BY <1>3
  <2>2. Answered(t, 0) \in Rows /\ SameKey(Answered(t, 0), t) /\ t \in Rows
    BY AnsweredIsSound
  <2>3. QED
    BY <2>1, <2>2, SavedAreSound
<1>4. CASE \E t \in open : /\ \A n \in NextOf(t), v \in rows : ~SameKey(v, n)
                         /\ next = Without(t) \cup {Answered(t, 3)} \cup NextOf(t)
  <2>1. PICK t \in open : /\ \A n \in NextOf(t), v \in rows : ~SameKey(v, n)
                         /\ next = Without(t) \cup {Answered(t, 3)} \cup NextOf(t)
    BY <1>4
  <2> DEFINE left == Without(t) \cup {Answered(t, 3)}
  <2>2. Answered(t, 3) \in Rows /\ SameKey(Answered(t, 3), t) /\ t \in Rows
    BY AnsweredIsSound
  <2>3. SoundTries(left) /\ \A x \in left : x \in rows \/ SameKey(x, t)
    BY <2>2, SavedAreSound
  <2>4. next = left \cup NextOf(t)
    BY <2>1
  <2> HIDE DEF left
  <2>5. CASE t.step # 1
    <3>1. NextOf(t) = {}
      BY <2>5
    <3>2. QED
      BY <2>3, <2>4, <3>1
  <2>6. CASE t.step = 1
    <3> DEFINE n == Fresh(t.user, t.index, 2)
    <3>1. NextOf(t) = {n}
      BY <2>6
    <3>2. \A x \in rows : ~SameKey(x, n)
      BY <2>1, <3>1
    <3>3. t.user \in Users /\ t.index \in {0, 1}
      BY <2>2 DEF Rows
    <3>4. n \in Rows /\ n.step = 2
      BY <3>3, FreshIsSound
    <3> HIDE DEF n
    <3>5. \A x \in left : ~SameKey(x, n)
      BY <2>3, <2>6, <3>2, <3>4 DEF SameKey
    <3>6. SoundTries(left \cup {n})
      BY <2>3, <3>4, <3>5, AddedAreSound
    <3>7. QED
      BY <2>4, <3>1, <3>6
  <2>7. QED
    BY <2>5, <2>6
<1>5. QED
  BY <1>1, <1>2, <1>3, <1>4

----------------------------------------------------------------------------
(* The inductive invariant: every value that is kept anywhere was right as  *)
(* late as its place allows.                                                *)

\* What holds of the tables.
WorldSound(w) ==
    /\ w = [exists |-> w.exists, members |-> w.members, staff |-> w.staff, scoped |-> w.scoped,
            content |-> w.content, tries |-> w.tries]
    /\ SoundTries(w.tries)
\* What holds of the cache, and of the requests.
CacheSound(h, entries) == \A k \in DOMAIN entries : EntrySound(h, k, entries[k])
RequestsSound(h, reqs) ==
    /\ reqs = [r \in Requests |-> reqs[r]]
    /\ \A r \in Requests : RequestSound(h, reqs[r])
\* The inductive invariant: the clock, the tables, the cache and the requests
\* are sound, each in view of the history.
IInv ==
    /\ TimesSound(History) /\ WorldSound(world)
    /\ CacheSound(History, cache) /\ RequestsSound(History, req)

\* The parts of the history.
LEMMA HistoryIs ==
    /\ History.now = now /\ History.world = world /\ History.past = past
    /\ History.uncounted = uncounted
    /\ History' = [now |-> now', world |-> world', past |-> past', uncounted |-> uncounted']
    /\ History'.now = now' /\ History'.world = world' /\ History'.past = past'
    /\ History'.uncounted = uncounted'
BY DEF History

\* It changes only with them.
LEMMA HistoryStays ==
    ASSUME now' = now, world' = world, past' = past, uncounted' = uncounted
    PROVE  History' = History
BY DEF History

\* What was true stays true.
LEMMA AllLasts ==
    ASSUME IInv, Goes(History, History'), now' = now
    PROVE  CacheSound(History', cache) /\ RequestsSound(History', req)
<1> DEFINE h == History
           g == History'
<1>1. h.now \in Nat /\ h.now = g.now
  BY HistoryIs DEF IInv, TimesSound
<1>2. CacheSound(h, cache) /\ RequestsSound(h, req) /\ Goes(h, g)
  BY DEF IInv
<1> HIDE DEF h, g
<1>3. ASSUME NEW k \in DOMAIN cache PROVE EntrySound(g, k, cache[k])
  <2> DEFINE c == cache[k]
  <2>1. EntrySound(h, k, c)
    BY <1>2 DEF CacheSound
  <2>2. c.expires = None \/ c.expires > g.now
    BY <1>1, <2>1 DEF EntrySound
  <2> HIDE DEF c
  <2>3. EntrySound(g, k, c)
    BY <1>1, <1>2, <2>1, <2>2, EntryLasts
  <2>4. QED
    BY <2>3 DEF c
<1>4. ASSUME NEW r \in Requests PROVE RequestSound(g, req[r])
  <2>1. RequestSound(h, req[r])
    BY <1>2 DEF RequestsSound
  <2>2. QED
    BY <1>1, <1>2, <2>1, RequestLasts
<1>5. CacheSound(g, cache)
  BY <1>3 DEF CacheSound
<1>6. RequestsSound(g, req)
  BY <1>2, <1>4 DEF RequestsSound
<1>7. QED
  BY <1>5, <1>6 DEF g

\* A step of one request.
LEMMA OneStep ==
    ASSUME NEW h, RequestsSound(h, req), NEW r \in Requests, NEW q, RequestSound(h, q),
           req' = [req EXCEPT ![r] = q]
    PROVE  RequestsSound(h, req')
<1>1. req = [s \in Requests |-> req[s]]
  BY DEF RequestsSound
<1>2. req' = [s \in Requests |-> IF s = r THEN q ELSE req[s]]
  BY <1>1
<1>3. \A s \in Requests : req'[s] = IF s = r THEN q ELSE req[s]
  BY <1>2
<1>4. req' = [s \in Requests |-> req'[s]]
  BY <1>2
<1>5. \A s \in Requests : RequestSound(h, req'[s])
  BY <1>3 DEF RequestsSound
<1>6. QED
  BY <1>4, <1>5 DEF RequestsSound

\* A request goes on by its next call.
LEMMA OnwardMoves ==
    ASSUME NEW r, NEW this, NEW n, Onward(r, this, n)
    PROVE  req' = [req EXCEPT ![r] = Moved(this, n)]
BY DEF Onward, Moved

\* The keys of the cache stay.
LEMMA SameKeys ==
    ASSUME NEW q, IsRequest(q)
    PROVE  [q EXCEPT !.keys = q.keys] = q
BY DEF IsRequest

\* On without a value: nothing else changes.
LEMMA PlainStep ==
    ASSUME NEW h, TimesSound(h), RequestsSound(h, req), NEW r \in Requests, req[r].todo # <<>>,
           Head(req[r].todo).op # "read",
           Head(req[r].todo).op = "access" => Shown(h.world, req[r].user),
           Onward(r, req[r], 0)
    PROVE  RequestsSound(h, req')
<1> DEFINE q == req[r]
           x == q.keys
<1>1. RequestSound(h, q) /\ IsRequest(q)
  BY DEF RequestsSound, RequestSound
<1>2. q.todo # <<>> /\ Head(q.todo).op # "read"
      /\ (Head(q.todo).op = "access" => Shown(h.world, q.user))
  OBVIOUS
<1>3. req' = [req EXCEPT ![r] = Moved(q, 0)]
  BY OnwardMoves
<1> HIDE DEF q
<1>4. q = [q EXCEPT !.keys = x]
  BY <1>1, SameKeys
<1> HIDE DEF x
<1>5. RequestSound(h, Moved([q EXCEPT !.keys = x], 0))
  BY <1>1, <1>2, PlainMove
<1>6. RequestSound(h, Moved(q, 0))
  BY <1>4, <1>5
<1> DEFINE m == Moved(q, 0)
<1>7. RequestSound(h, m) /\ req' = [req EXCEPT ![r] = m]
  BY <1>3, <1>6
<1> HIDE DEF m
<1>8. QED
  BY <1>7, OneStep

\* A step that leaves the tables, the time and the cache.
LEMMA StillStep ==
    ASSUME IInv, now' = now, world' = world, past' = past, uncounted' = uncounted, cache' = cache,
           RequestsSound(History, req')
    PROVE  IInv'
<1>1. History' = History
  BY HistoryStays
<1>2. TimesSound(History') /\ WorldSound(world')
  BY <1>1 DEF IInv
<1>3. CacheSound(History', cache') /\ RequestsSound(History', req')
  BY <1>1 DEF IInv
<1>4. QED
  BY <1>2, <1>3 DEF IInv

\* A request that is refused, field by field.
LEMMA RefusedIs ==
    ASSUME NEW q, IsRequest(q), NEW a, NEW b, NEW p, p = [q EXCEPT !.todo = a, !.answer = b]
    PROVE  p = [name |-> q.name, user |-> q.user, index |-> q.index, todo |-> a,
                began |-> q.began, value |-> q.value, keys |-> q.keys, answer |-> b]
BY DEF IsRequest
\* A world without the competition, field by field.
LEMMA ClearedIs ==
    ASSUME NEW w, WorldSound(w), NEW a, NEW b, NEW c, NEW p,
           p = [w EXCEPT !.exists = a, !.tries = b, !.members = c]
    PROVE  p = [exists |-> a, members |-> c, staff |-> w.staff, scoped |-> w.scoped,
                content |-> w.content, tries |-> b]
BY DEF WorldSound

\* A handler is entered.
LEMMA AskStep ==
    ASSUME IInv, NEW r \in Requests, Handlers(r)
    PROVE  IInv'
<1>1. PICK name, u, i, calls : Ask(r, name, u, i, calls) /\ Prepared(name, u, i, calls)
  BY HandlersPlan, Zenon DEF Begins
<1> DEFINE h == History
           q == [Idle EXCEPT !.name = name, !.user = u, !.index = i, !.todo = calls, !.began = now]
<1>2. q = [name |-> name, user |-> u, index |-> i, todo |-> calls, began |-> now, value |-> None,
           keys |-> {}, answer |-> None]
  <2>1. IsRequest(Idle) /\ Idle.value = None /\ Idle.keys = {} /\ Idle.answer = None
    BY DEF Idle, IsRequest
  <2>2. q = [name |-> name, user |-> u, index |-> i, todo |-> calls, began |-> now,
             value |-> Idle.value, keys |-> Idle.keys, answer |-> Idle.answer]
    <3> DEFINE base == Idle
    <3>1. q = [base EXCEPT !.name = name, !.user = u, !.index = i, !.todo = calls, !.began = now]
      OBVIOUS
    <3>2. IsRequest(base)
      BY <2>1
    <3> HIDE DEF base, q
    <3>3. q = [name |-> name, user |-> u, index |-> i, todo |-> calls, began |-> now,
               value |-> base.value, keys |-> base.keys, answer |-> base.answer]
      BY <3>1, <3>2 DEF IsRequest
    <3>4. QED
      BY <3>3 DEF base
  <2>3. QED
    BY <2>1, <2>2
<1>3. /\ req' = [req EXCEPT ![r] = q]
      /\ now' = now /\ world' = world /\ past' = past /\ uncounted' = uncounted /\ cache' = cache
  BY <1>1 DEF Ask
<1> HIDE DEF q
<1>4. /\ q.name = name /\ q.user = u /\ q.index = i /\ q.todo = calls /\ q.began = now
      /\ q.value = None /\ q.answer = None /\ IsRequest(q)
  BY <1>2 DEF IsRequest
<1>5. /\ u \in Users \cup {None} /\ IsSequence(calls) /\ KeysFit(calls, name, u, i)
      /\ Skips(calls, name) /\ ReadFirst(calls)
      /\ name = "GetCompetitionTries" => AccessFirst(calls)
  BY <1>1 DEF Prepared, Planned
<1>6. h.now = now /\ now \in 0..now
  BY HistoryIs DEF IInv, TimesSound
<1> HIDE DEF h
<1>7. Holding(h, q, q.todo)
  BY <1>4, <1>5, Zenon DEF Holding
<1>8. Answering(h, q, q.answer)
  BY <1>4 DEF Answering
<1>9. RequestSound(h, q)
  BY <1>4, <1>5, <1>6, <1>7, <1>8 DEF RequestSound
<1>10. RequestsSound(h, req')
  BY <1>3, <1>9, OneStep DEF IInv, h
<1>11. QED
  BY <1>3, <1>10, StillStep DEF h

\* The check lets the request through.
LEMMA AdmitStep ==
    ASSUME IInv, NEW r \in Requests, Admit(r)
    PROVE  IInv'
<1>1. /\ req[r].todo # <<>> /\ Head(req[r].todo).op \in {"access", "exists"}
      /\ Head(req[r].todo).op = "access" => Shown(world, req[r].user)
  BY DEF Admit, Call
<1>2. /\ Onward(r, req[r], 0)
      /\ now' = now /\ world' = world /\ past' = past /\ uncounted' = uncounted /\ cache' = cache
  BY DEF Admit
<1>3. TimesSound(History) /\ RequestsSound(History, req) /\ History.world = world
  BY HistoryIs DEF IInv
<1>4. RequestsSound(History, req')
  BY <1>1, <1>2, <1>3, PlainStep
<1>5. QED
  BY <1>2, <1>4, StillStep

\* The key is not there.
LEMMA MissStep ==
    ASSUME IInv, NEW r \in Requests, Miss(r)
    PROVE  IInv'
<1>1. req[r].todo # <<>> /\ Head(req[r].todo).op = "get"
  BY DEF Miss, Call
<1>2. /\ Onward(r, req[r], 0)
      /\ now' = now /\ world' = world /\ past' = past /\ uncounted' = uncounted /\ cache' = cache
  BY DEF Miss
<1>3. TimesSound(History) /\ RequestsSound(History, req)
  BY DEF IInv
<1>4. RequestsSound(History, req')
  BY <1>1, <1>2, <1>3, PlainStep
<1>5. QED
  BY <1>2, <1>4, StillStep

\* Redis does not answer.
LEMMA UnheardStep ==
    ASSUME IInv, NEW r \in Requests, Unheard(r)
    PROVE  IInv'
<1>1. req[r].todo # <<>> /\ Head(req[r].todo).op \in {"set", "keys", "del"}
  BY DEF Unheard, Call
<1>2. /\ Onward(r, req[r], 0)
      /\ now' = now /\ world' = world /\ past' = past /\ uncounted' = uncounted /\ cache' = cache
  BY DEF Unheard
<1>3. TimesSound(History) /\ RequestsSound(History, req)
  BY DEF IInv
<1>4. RequestsSound(History, req')
  BY <1>1, <1>2, <1>3, PlainStep
<1>5. QED
  BY <1>2, <1>4, StillStep

\* The key is there.
LEMMA HitStep ==
    ASSUME IInv, NEW r \in Requests, Hit(r)
    PROVE  IInv'
<1> DEFINE h == History
           q == req[r]
           k == Head(q.todo).key
           c == cache[k]
           n == Head(q.todo).skip
           p == Moved([q EXCEPT !.value = c.value], n)
<1>1. q.todo # <<>> /\ Head(q.todo).op = "get"
  BY DEF Hit, Call
<1>2. k \in DOMAIN cache /\ Onward(r, [q EXCEPT !.value = c.value], n)
  BY DEF Hit
<1>3. now' = now /\ world' = world /\ past' = past /\ uncounted' = uncounted /\ cache' = cache
  BY DEF Hit
<1>4. TimesSound(h) /\ RequestsSound(h, req) /\ CacheSound(h, cache)
  BY DEF IInv
<1>5. req' = [req EXCEPT ![r] = p]
  BY <1>2, OnwardMoves
<1> HIDE DEF h
<1>6. RequestSound(h, q) /\ EntrySound(h, k, c)
  BY <1>2, <1>4 DEF RequestsSound, CacheSound
<1> HIDE DEF c, q
<1>7. RequestSound(h, p)
  BY <1>1, <1>4, <1>6, HitMove
<1> HIDE DEF p
<1>8. RequestsSound(h, req')
  BY <1>4, <1>5, <1>7, OneStep
<1>9. QED
  BY <1>3, <1>8, StillStep DEF h

\* The tables are read.
LEMMA ReadingStep ==
    ASSUME IInv, NEW r \in Requests, Reading(r)
    PROVE  IInv'
<1> DEFINE h == History
           q == req[r]
<1>1. q.todo # <<>> /\ Head(q.todo).op = "read"
  BY DEF Reading, Call
<1>2. PICK board \in Leaderboards(world.tries) :
         Onward(r, [q EXCEPT !.value = View(q.name, q.user, q.index, world, board)], 0)
  BY DEF Reading
<1>3. now' = now /\ world' = world /\ past' = past /\ uncounted' = uncounted /\ cache' = cache
  BY DEF Reading
<1>4. TimesSound(h) /\ RequestsSound(h, req) /\ SoundTries(world.tries) /\ h.world = world
  BY HistoryIs DEF IInv, WorldSound
<1> DEFINE v == View(q.name, q.user, q.index, world, board)
           p == Moved([q EXCEPT !.value = v], 0)
<1>5. req' = [req EXCEPT ![r] = p]
  BY <1>2, OnwardMoves
<1> HIDE DEF h
<1>6. RequestSound(h, q)
  BY <1>4 DEF RequestsSound
<1>7. IsAnswer(q.name, q.user, q.index, world, v)
  <2> HIDE DEF q
  <2>1. QED
    BY <1>4, ViewIsAnswer
<1> HIDE DEF q, v
<1>8. Right(h, q.name, q.user, q.index, v, Begun(q))
  <2>1. world \in Since(h, Begun(q))
    BY <1>4 DEF Since
  <2>2. QED
    BY <1>7, <2>1, Zenon DEF Right
<1>9. RequestSound(h, p)
  BY <1>1, <1>4, <1>6, <1>8, ReadMove
<1> HIDE DEF p
<1>10. RequestsSound(h, req')
  BY <1>4, <1>5, <1>9, OneStep
<1>11. QED
  BY <1>3, <1>10, StillStep DEF h

\* A key is set.
LEMMA StoringStep ==
    ASSUME IInv, NEW r \in Requests, Storing(r)
    PROVE  IInv'
<1> DEFINE h == History
           q == req[r]
           k == Head(q.todo).key
           c == [value |-> q.value, expires |-> Expires(Head(k))]
           m == Minutes[Head(k)]
<1>1. q.todo # <<>> /\ Head(q.todo).op = "set"
  BY DEF Storing, Call
<1>2. /\ cache' = [e \in DOMAIN cache \cup {k} |-> IF e = k THEN c ELSE cache[e]]
      /\ now <= q.began + Timeout /\ Onward(r, q, 0)
  BY DEF Storing, InTime
<1>3. now' = now /\ world' = world /\ past' = past /\ uncounted' = uncounted
  BY DEF Storing
<1>4. TimesSound(h) /\ RequestsSound(h, req) /\ CacheSound(h, cache) /\ h.now = now
  BY HistoryIs DEF IInv
<1> HIDE DEF h
<1>5. RequestsSound(h, req')
  BY <1>1, <1>2, <1>4, PlainStep
<1>6. RequestSound(h, q)
  BY <1>4 DEF RequestsSound
<1>7. c.value = q.value /\ c.expires = IF m = None THEN None ELSE h.now + m
  BY <1>4 DEF Expires
<1> HIDE DEF c, q
<1>8. /\ IsSequence(q.todo) /\ Holding(h, q, q.todo) /\ q.began \in 0..h.now
      /\ q.user \in Users \cup {None} /\ KeysFit(q.todo, q.name, q.user, q.index)
      /\ 1 \in DOMAIN q.todo /\ 1 <= Len(q.todo) /\ Head(q.todo) = q.todo[1]
  BY <1>1, <1>6, FirstCall DEF RequestSound
<1>9. k \in KeysOf(q.name, q.user, q.index)
  BY <1>1, <1>8 DEF KeysFit
<1>10. Right(h, q.name, q.user, q.index, c.value, Begun(q))
  <2>1. ~ReadFirst(q.todo)
    <3>1. SUFFICES ASSUME ReadFirst(q.todo) PROVE FALSE
      OBVIOUS
    <3>2. \E j \in 1..(1 - 1) : q.todo[j].op = "read"
      BY <1>1, <1>8, <3>1 DEF ReadFirst
    <3>3. QED
      BY <3>2
  <2>2. QED
    BY <1>7, <1>8, <2>1 DEF Holding
<1>11. q.name = "GetCompetitionTries" => ShownSince(h, q.user, Begun(q))
  <2>1. ~AccessFirst(q.todo)
    BY <1>1, <1>8, LeftAccessFirst
  <2>2. QED
    BY <1>8, <2>1 DEF Holding
<1>12. EntrySound(h, k, c)
  <2>1. h.now <= q.began + Timeout
    BY <1>2, <1>4
  <2> HIDE DEF k
  <2>2. c.expires = IF Minutes[Head(k)] = None THEN None ELSE h.now + Minutes[Head(k)]
    BY <1>7 DEF k
  <2>3. QED
    BY <1>4, <1>8, <1>9, <1>10, <1>11, <2>1, <2>2, EntryStored
<1> HIDE DEF k
<1>13. CacheSound(h, cache')
  BY <1>2, <1>4, <1>12 DEF CacheSound
<1>14. History' = h
  BY <1>3, HistoryStays DEF h
<1>15. TimesSound(History') /\ WorldSound(world')
  BY <1>3, <1>4, <1>14 DEF IInv
<1>16. QED
  BY <1>5, <1>13, <1>14, <1>15 DEF IInv

\* The keys of a family are found.
LEMMA FindingStep ==
    ASSUME IInv, NEW r \in Requests, Finding(r)
    PROVE  IInv'
<1> DEFINE h == History
           q == req[r]
           found == {k \in DOMAIN cache : Head(k) = Head(q.todo).family}
           p == Moved([q EXCEPT !.keys = found], 0)
<1>1. q.todo # <<>> /\ Head(q.todo).op = "keys"
  BY DEF Finding, Call
<1>2. Onward(r, [q EXCEPT !.keys = found], 0)
  BY DEF Finding
<1>3. now' = now /\ world' = world /\ past' = past /\ uncounted' = uncounted /\ cache' = cache
  BY DEF Finding
<1>4. TimesSound(h) /\ RequestsSound(h, req)
  BY DEF IInv
<1>5. req' = [req EXCEPT ![r] = p]
  BY <1>2, OnwardMoves
<1> HIDE DEF h
<1>6. RequestSound(h, q)
  BY <1>4 DEF RequestsSound
<1> HIDE DEF q, found
<1>7. RequestSound(h, p)
  BY <1>1, <1>4, <1>6, PlainMove
<1> HIDE DEF p
<1>8. RequestsSound(h, req')
  BY <1>4, <1>5, <1>7, OneStep
<1>9. QED
  BY <1>3, <1>8, StillStep DEF h

\* A key is deleted.
LEMMA DeletingStep ==
    ASSUME IInv, NEW r \in Requests, Deleting(r)
    PROVE  IInv'
<1> DEFINE gone == req[r].keys \cup Head(req[r].todo).keys
<1>1. req[r].todo # <<>> /\ Head(req[r].todo).op = "del"
  BY DEF Deleting, Call
<1>2. /\ Onward(r, req[r], 0) /\ cache' = [k \in DOMAIN cache \ gone |-> cache[k]]
      /\ now' = now /\ world' = world /\ past' = past /\ uncounted' = uncounted
  BY DEF Deleting
<1>3. TimesSound(History) /\ RequestsSound(History, req) /\ CacheSound(History, cache)
  BY DEF IInv
<1>4. RequestsSound(History, req')
  BY <1>1, <1>2, <1>3, PlainStep
<1>5. CacheSound(History, cache')
  BY <1>2, <1>3 DEF CacheSound
<1>6. History' = History
  BY <1>2, HistoryStays
<1>7. TimesSound(History') /\ WorldSound(world')
  BY <1>2, <1>3, <1>6 DEF IInv
<1>8. QED
  BY <1>4, <1>5, <1>6, <1>7 DEF IInv

\* PostgreSQL fails to count.
LEMMA UncountedStep ==
    ASSUME IInv, NEW r \in Requests, Uncounted(r)
    PROVE  IInv'
<1> DEFINE h == History
           g == History'
           q == req[r]
           p == Moved([q EXCEPT !.value = FALSE], 0)
<1>1. q.todo # <<>> /\ Head(q.todo).op = "read" /\ q.name = "UserHasPermissionToViewPuzzle"
  BY DEF Uncounted, Call, Permission
<1>2. Onward(r, [q EXCEPT !.value = FALSE], 0)
  BY DEF Uncounted
<1>3. /\ now' = now /\ world' = world /\ past' = past /\ cache' = cache
      /\ uncounted' = uncounted \cup {now}
  BY DEF Uncounted
<1>4. TimesSound(h) /\ now \in Nat /\ uncounted \subseteq 0..now /\ WorldSound(world)
  BY HistoryIs DEF IInv, TimesSound
<1>5. TimesSound(g)
  <2>1. g.now = now /\ g.past = h.past /\ h.now = now /\ g.uncounted = uncounted \cup {now}
    BY <1>3, HistoryIs
  <2> HIDE DEF h, g
  <2>2. g.uncounted \subseteq 0..now
    BY <1>4, <2>1
  <2>3. QED
    BY <1>4, <2>1, <2>2 DEF TimesSound
<1>6. Goes(h, g)
  BY <1>3, <1>4, HistoryIs DEF Goes, Since
<1>7. CacheSound(g, cache') /\ RequestsSound(g, req)
  BY <1>3, <1>6, AllLasts
<1>8. req' = [req EXCEPT ![r] = p]
  BY <1>2, OnwardMoves
<1>9. now \in g.uncounted /\ g.now = now
  BY <1>3, HistoryIs
<1> HIDE DEF h, g
<1>10. RequestSound(g, q)
  BY <1>7 DEF RequestsSound
<1> HIDE DEF q
<1>11. Begun(q) \in Int /\ now >= Begun(q)
  <2>1. q.began \in Nat /\ q.began <= now
    BY <1>9, <1>10, <1>4 DEF RequestSound
  <2>2. QED
    BY <1>4, <2>1, StartIsEarly
<1>12. Right(g, q.name, q.user, q.index, FALSE, Begun(q))
  BY <1>1, <1>9, <1>11, Zenon DEF Right
<1>13. RequestSound(g, p)
  BY <1>1, <1>5, <1>10, <1>12, ReadMove
<1> HIDE DEF p
<1>14. RequestsSound(g, req')
  BY <1>7, <1>8, <1>13, OneStep
<1>15. WorldSound(world')
  BY <1>3, <1>4
<1>16. QED
  BY <1>5, <1>7, <1>14, <1>15 DEF IInv, g

\* A call fails.
LEMMA FailStep ==
    ASSUME IInv, NEW r \in Requests, Fail(r)
    PROVE  IInv'
<1> DEFINE h == History
           q == req[r]
           p == [q EXCEPT !.todo = <<>>, !.answer = None]
<1>1. /\ req' = [req EXCEPT ![r].todo = <<>>, ![r].answer = None]
      /\ now' = now /\ world' = world /\ past' = past /\ uncounted' = uncounted /\ cache' = cache
  BY DEF Fail, Refuse
<1>2. RequestsSound(h, req)
  BY DEF IInv
<1> HIDE DEF h
<1>3. RequestSound(h, q) /\ req = [s \in Requests |-> req[s]]
  BY <1>2 DEF RequestsSound
<1>4. req' = [req EXCEPT ![r] = p]
  BY <1>1, <1>3
<1> HIDE DEF q
<1>5. p = [name |-> q.name, user |-> q.user, index |-> q.index, todo |-> <<>>, began |-> q.began,
           value |-> q.value, keys |-> q.keys, answer |-> None]
  BY <1>3, RefusedIs DEF RequestSound
<1> HIDE DEF p
<1>6. /\ IsRequest(p) /\ p.name = q.name /\ p.user = q.user /\ p.index = q.index
      /\ p.todo = <<>> /\ p.began = q.began /\ p.answer = None
  BY <1>5 DEF IsRequest
<1>7. IsSequence(p.todo)
  <2>1. <<>> \in Seq({})
    OBVIOUS
  <2>2. QED
    BY <1>6, <2>1 DEF IsSequence
<1>8. KeysFit(p.todo, p.name, p.user, p.index) /\ Skips(p.todo, p.name)
  <2>1. DOMAIN p.todo = {}
    BY <1>6
  <2>2. QED
    BY <2>1 DEF KeysFit, Skips
<1>9. Answering(h, p, p.answer)
  BY <1>6 DEF Answering
<1>10. p.began \in 0..h.now /\ p.user \in Users \cup {None}
  BY <1>3, <1>6 DEF RequestSound
<1>11. RequestSound(h, p)
  BY <1>6, <1>7, <1>8, <1>9, <1>10 DEF RequestSound
<1>12. RequestsSound(h, req')
  BY <1>2, <1>4, <1>11, OneStep
<1>13. QED
  BY <1>1, <1>12, StillStep DEF h

\* The tables change.
LEMMA BecomeGoes ==
    ASSUME IInv, NEW next, Become(next), WorldSound(next), now' = now, uncounted' = uncounted,
           cache' = cache
    PROVE  /\ TimesSound(History') /\ WorldSound(world')
           /\ CacheSound(History', cache') /\ RequestsSound(History', req)
<1> DEFINE h == History
           g == History'
<1>1. world' = next /\ past' = past \cup {[world |-> world, until |-> now]}
  BY DEF Become
<1>2. TimesSound(h) /\ now \in Nat /\ h.now = now /\ h.world = world /\ h.past = past
      /\ h.uncounted = uncounted
  BY HistoryIs DEF IInv, TimesSound
<1>3. g.now = now /\ g.world = next /\ g.past = past' /\ g.uncounted = uncounted
  BY <1>1, HistoryIs
<1> HIDE DEF h, g
<1>4. TimesSound(g)
  <2>1. SoundTries(world.tries)
    BY DEF IInv, WorldSound
  <2>2. \A p \in g.past : p \in h.past \/ (p.world = world /\ p.until = now)
    BY <1>1, <1>2, <1>3
  <2>3. QED
    BY <1>2, <1>3, <2>1, <2>2 DEF TimesSound
<1>5. Goes(h, g)
  <2>1. ASSUME NEW s \in Int, s <= now PROVE Since(h, s) \subseteq Since(g, s)
    <3> DEFINE e == [world |-> world, until |-> now]
    <3>1. e.world = world /\ e.until = now /\ e \in g.past
      BY <1>1, <1>3
    <3> HIDE DEF e
    <3>2. world \in Since(g, s)
      BY <1>2, <2>1, <3>1 DEF Since
    <3>3. h.past \subseteq g.past
      BY <1>1, <1>2, <1>3
    <3>4. QED
      BY <1>2, <3>2, <3>3 DEF Since
  <2>2. QED
    BY <1>2, <1>3, <2>1 DEF Goes
<1>6. CacheSound(g, cache') /\ RequestsSound(g, req)
  BY <1>5, AllLasts DEF h, g
<1>7. QED
  BY <1>1, <1>4, <1>6 DEF g

\* A user changes groups.
LEMMA RegroupingStep ==
    ASSUME IInv, NEW r \in Requests, Regrouping(r)
    PROVE  IInv'
<1>1. PICK u \in Users : Become([world EXCEPT !.members = Toggled(@, u)])
  BY DEF Regrouping
<1>2. now' = now /\ uncounted' = uncounted /\ cache' = cache /\ Onward(r, req[r], 0)
  BY DEF Regrouping
<1>3. req[r].todo # <<>> /\ Head(req[r].todo).op = "regroup"
  BY DEF Regrouping, Call
<1> DEFINE next == [world EXCEPT !.members = Toggled(@, u)]
<1>4. WorldSound(next)
  BY DEF IInv, WorldSound
<1> HIDE DEF next
<1>5. Become(next)
  BY <1>1 DEF next
<1>6. /\ TimesSound(History') /\ WorldSound(world')
      /\ CacheSound(History', cache') /\ RequestsSound(History', req)
  BY <1>2, <1>4, <1>5, BecomeGoes
<1> DEFINE g == History'
<1>7. TimesSound(g) /\ RequestsSound(g, req)
  BY <1>6
<1> HIDE DEF g
<1>8. RequestsSound(g, req')
  BY <1>2, <1>3, <1>7, PlainStep
<1>9. QED
  BY <1>6, <1>8 DEF IInv, g

\* Any change of the tables.
LEMMA ChangeStep ==
    ASSUME IInv, Change
    PROVE  IInv'
<1> DEFINE B(next) == Become(next) /\ WorldSound(next)
<1>1. WorldSound(world) /\ now \in Nat
  BY HistoryIs DEF IInv, TimesSound
<1>2. now' = now /\ uncounted' = uncounted /\ cache' = cache /\ req' = req
  BY DEF Change
<1>3. \E next : Become(next) /\ WorldSound(next)
  <2>1. CASE \E rows \in Tried(world.tries) : Become([world EXCEPT !.tries = rows])
    <3>1. PICK rows \in Tried(world.tries) : Become([world EXCEPT !.tries = rows])
      BY <2>1
    <3>2. SoundTries(rows)
      <4>1. \A p \in past : SoundTries(p.world.tries)
        BY HistoryIs DEF IInv, TimesSound
      <4>2. EverRead \subseteq Rows
        BY <1>1, <4>1 DEF EverRead, SoundTries, WorldSound
      <4>3. QED
        BY <1>1, <3>1, <4>2, TriedAreSound DEF WorldSound
    <3>3. WorldSound([world EXCEPT !.tries = rows])
      BY <1>1, <3>2 DEF WorldSound
    <3>4. QED
      BY <3>1, <3>3
  <2>2. CASE Become([world EXCEPT !.exists = FALSE, !.tries = {}, !.members = {}])
    <3> DEFINE next == [world EXCEPT !.exists = FALSE, !.tries = {}, !.members = {}]
    <3>1. SoundTries({})
      BY FS_EmptySet DEF SoundTries
    <3>2. next = [exists |-> FALSE, members |-> {}, staff |-> world.staff, scoped |-> world.scoped,
                  content |-> world.content, tries |-> {}]
      BY <1>1, ClearedIs
    <3>3. WorldSound(next)
      <4> HIDE DEF next
      <4>1. QED
        BY <3>1, <3>2 DEF WorldSound
    <3>4. QED
      BY <2>2, <3>3
  <2>3. CASE \E u \in Users : \/ Become([world EXCEPT !.members = Toggled(@, u)])
                             \/ Become([world EXCEPT !.staff = Toggled(@, u)])
                             \/ Become([world EXCEPT !.scoped = Toggled(@, u)])
    <3>1. PICK u \in Users : \/ Become([world EXCEPT !.members = Toggled(@, u)])
                             \/ Become([world EXCEPT !.staff = Toggled(@, u)])
                             \/ Become([world EXCEPT !.scoped = Toggled(@, u)])
      BY <2>3
    <3>2. /\ WorldSound([world EXCEPT !.members = Toggled(@, u)])
          /\ WorldSound([world EXCEPT !.staff = Toggled(@, u)])
          /\ WorldSound([world EXCEPT !.scoped = Toggled(@, u)])
      BY <1>1 DEF WorldSound
    <3>3. QED
      BY <3>1, <3>2
  <2>4. CASE Become([world EXCEPT !.content = @ + 1])
    <3>1. WorldSound([world EXCEPT !.content = @ + 1])
      BY <1>1 DEF WorldSound
    <3>2. QED
      BY <2>4, <3>1
  <2>5. QED
    BY <2>1, <2>2, <2>3, <2>4, Zenon DEF Change
<1>4. PICK next : Become(next) /\ WorldSound(next)
  BY <1>3
<1>5. /\ TimesSound(History') /\ WorldSound(world')
      /\ CacheSound(History', cache') /\ RequestsSound(History', req)
  BY <1>2, <1>4, BecomeGoes
<1>6. QED
  BY <1>2, <1>5 DEF IInv

\* A minute passes.
LEMMA TickStep ==
    ASSUME IInv, Tick
    PROVE  IInv'
<1> DEFINE h == History
           g == History'
<1>1. /\ now' = now + 1 /\ world' = world /\ past' = past /\ uncounted' = uncounted /\ req' = req
      /\ cache' = [k \in {k \in DOMAIN cache : cache[k].expires # now'} |-> cache[k]]
  BY DEF Tick
<1>2. /\ TimesSound(h) /\ CacheSound(h, cache) /\ RequestsSound(h, req) /\ WorldSound(world)
      /\ now \in Nat /\ h.now = now /\ h.world = world /\ h.past = past /\ h.uncounted = uncounted
  BY HistoryIs DEF IInv, TimesSound
<1>3. g.now = now + 1 /\ g.world = world /\ g.past = past /\ g.uncounted = uncounted
  BY <1>1, HistoryIs
<1> HIDE DEF h, g
<1>4. TimesSound(g)
  BY <1>2, <1>3 DEF TimesSound
<1>5. Goes(h, g)
  BY <1>2, <1>3 DEF Goes, Since
<1>6. CacheSound(g, cache')
  <2> SUFFICES ASSUME NEW k \in DOMAIN cache' PROVE EntrySound(g, k, cache'[k])
    BY DEF CacheSound
  <2> DEFINE c == cache[k]
  <2>1. k \in DOMAIN cache /\ c.expires # now + 1 /\ cache'[k] = c
    BY <1>1
  <2>2. EntrySound(h, k, c)
    BY <1>2, <2>1 DEF CacheSound
  <2>3. c.expires = None \/ (c.expires \in Int /\ c.expires > now)
    BY <1>2, <2>2 DEF EntrySound
  <2>4. c.expires = None \/ c.expires > g.now
    BY <1>2, <1>3, <2>1, <2>3
  <2> HIDE DEF c
  <2>5. h.now \in Nat
    BY <1>2
  <2>6. EntrySound(g, k, c)
    BY <1>5, <2>2, <2>4, <2>5, EntryLasts
  <2>7. QED
    BY <2>1, <2>6
<1>7. RequestsSound(g, req')
  <2>1. ASSUME NEW r \in Requests PROVE RequestSound(g, req[r])
    <3>1. RequestSound(h, req[r]) /\ h.now \in Nat
      BY <1>2 DEF RequestsSound
    <3>2. QED
      BY <1>5, <3>1, RequestLasts
  <2>2. QED
    BY <1>1, <1>2, <2>1 DEF RequestsSound
<1>8. QED
  BY <1>1, <1>2, <1>4, <1>6, <1>7 DEF IInv, g

\* The invariant holds at the beginning.
LEMMA InitSound ==
    ASSUME Init
    PROVE  IInv
<1>1. /\ now = 0 /\ world \in Worlds /\ past = {} /\ cache = <<>> /\ uncounted = {}
      /\ req = [r \in Requests |-> Idle]
  BY DEF Init
<1>2. TimesSound(History) /\ History.now = 0
  BY <1>1, HistoryIs DEF TimesSound
<1>3. WorldSound(world)
  <2>1. /\ world \in [exists : BOOLEAN, members : SUBSET Users, staff : SUBSET Users,
                      scoped : SUBSET Users, content : Nat, tries : {world.tries}]
        /\ SoundTries(world.tries)
    BY <1>1, WorldsAssumption
  <2>2. QED
    BY <2>1 DEF WorldSound
<1>4. CacheSound(History, cache)
  BY <1>1 DEF CacheSound
<1>5. RequestsSound(History, req)
  <2> DEFINE h == History
  <2>1. Idle.todo = <<>> /\ Idle.answer = None /\ IsRequest(Idle) /\ Idle.began = 0 /\ Idle.user = None
    BY DEF Idle, IsRequest
  <2>2. IsSequence(Idle.todo)
    <3>1. <<>> \in Seq({})
      OBVIOUS
    <3>2. QED
      BY <2>1, <3>1 DEF IsSequence
  <2>3. KeysFit(Idle.todo, Idle.name, Idle.user, Idle.index) /\ Skips(Idle.todo, Idle.name)
    <3>1. DOMAIN Idle.todo = {}
      BY <2>1
    <3>2. QED
      BY <3>1 DEF KeysFit, Skips
  <2>4. Answering(h, Idle, Idle.answer)
    BY <2>1 DEF Answering
  <2>5. Idle.began \in 0..h.now
    BY <1>2, <2>1
  <2> HIDE DEF h
  <2>6. RequestSound(h, Idle)
    BY <2>1, <2>2, <2>3, <2>4, <2>5 DEF RequestSound
  <2>7. RequestsSound(h, req)
    BY <1>1, <2>6 DEF RequestsSound
  <2>8. QED
    BY <2>7 DEF h
<1>6. QED
  BY <1>2, <1>3, <1>4, <1>5 DEF IInv

\* Every step preserves it.
LEMMA NextSound ==
    ASSUME IInv, [Next]_vars
    PROVE  IInv'
<1>1. CASE UNCHANGED vars
  <2>1. /\ now' = now /\ world' = world /\ past' = past /\ uncounted' = uncounted
        /\ cache' = cache /\ req' = req
    BY <1>1 DEF vars
  <2>2. RequestsSound(History, req')
    BY <2>1 DEF IInv
  <2>3. QED
    BY <2>1, <2>2, StillStep
<1>2. ASSUME NEW r \in Requests,
             \/ Handlers(r) \/ Admit(r) \/ Hit(r) \/ Miss(r) \/ Reading(r) \/ Storing(r)
             \/ Finding(r) \/ Deleting(r) \/ Unheard(r) \/ Uncounted(r)
             \/ Fail(r) \/ Regrouping(r)
      PROVE  IInv'
  BY <1>2, AskStep, AdmitStep, HitStep, MissStep, ReadingStep, StoringStep, FindingStep,
     DeletingStep, UnheardStep, UncountedStep, FailStep, RegroupingStep
<1>3. CASE Change \/ Tick
  BY <1>3, ChangeStep, TickStep
<1>4. QED
  BY <1>1, <1>2, <1>3, Zenon DEF Next

\* A right answer is one that was right recently.
LEMMA AnswersFollow ==
    ASSUME IInv, NEW r \in Requests, req[r].answer # None
    PROVE  /\ \/ \E w \in Recent(r) :
                   IsAnswer(req[r].name, req[r].user, req[r].index, w, req[r].answer)
              \/ Permission(r) /\ ~req[r].answer /\ \E t \in uncounted : InReach(r, t)
           /\ req[r].name = "GetCompetitionTries" => \E w \in Recent(r) : Shown(w, req[r].user)
<1> DEFINE h == History
           q == req[r]
           s == Start(q)
<1>1. RequestSound(h, q) /\ TimesSound(h)
  BY DEF IInv, RequestsSound
<1>2. h.now = now /\ h.world = world /\ h.past = past /\ h.uncounted = uncounted
  BY HistoryIs
<1> HIDE DEF h
<1>3. /\ Right(h, q.name, q.user, q.index, q.answer, s)
      /\ q.name = "GetCompetitionTries" => ShownSince(h, q.user, s)
  BY <1>1 DEF RequestSound, Answering
<1>4. \A time : time >= s => InReach(r, time)
  BY DEF InReach, Start
<1> HIDE DEF s
<1>5. Since(h, s) \subseteq Recent(r)
  BY <1>2, <1>4 DEF Since, Recent
<1>6. \/ \E w \in Recent(r) : IsAnswer(q.name, q.user, q.index, w, q.answer)
      \/ Permission(r) /\ ~q.answer /\ \E t \in uncounted : InReach(r, t)
  <2>1. CASE \E w \in Since(h, s) : IsAnswer(q.name, q.user, q.index, w, q.answer)
    BY <1>5, <2>1
  <2>2. CASE /\ q.name = "UserHasPermissionToViewPuzzle" /\ q.answer = FALSE
             /\ \E t \in h.uncounted : t >= s
    <3>1. \E t \in uncounted : InReach(r, t)
      BY <1>2, <1>4, <2>2
    <3>2. ~q.answer /\ Permission(r)
      BY <2>2 DEF Permission
    <3>3. QED
      BY <3>1, <3>2
  <2>3. QED
    BY <1>3, <2>1, <2>2, Zenon DEF Right
<1>7. q.name = "GetCompetitionTries" => \E w \in Recent(r) : Shown(w, q.user)
  BY <1>3, <1>5 DEF ShownSince
<1>8. QED
  BY <1>6, <1>7

\* What is to be shown follows from it: answers are recent.
LEMMA InvariantMeansRecent ==
    ASSUME IInv
    PROVE  AnswersAreRecent
BY AnswersFollow DEF AnswersAreRecent

\* And tries are the reader's own.
LEMMA InvariantMeansOwn ==
    ASSUME IInv
    PROVE  OwnTriesOnly
<1> SUFFICES ASSUME NEW r \in Requests, req[r].answer # None, req[r].name = "GetCompetitionTries"
             PROVE  /\ \A t \in req[r].answer : t.user = req[r].user
                    /\ \E w \in Recent(r) : Shown(w, req[r].user)
  BY DEF OwnTriesOnly
<1>1. PICK w \in Recent(r) : IsAnswer(req[r].name, req[r].user, req[r].index, w, req[r].answer)
  BY AnswersFollow DEF Permission
<1>2. req[r].answer = RowsOf(w.tries, req[r].user)
  BY <1>1 DEF IsAnswer, View
<1>3. \A t \in req[r].answer : t.user = req[r].user
  BY <1>2 DEF RowsOf
<1>4. \E x \in Recent(r) : Shown(x, req[r].user)
  BY AnswersFollow
<1>5. QED
  BY <1>3, <1>4

\* What the cache holds and what requests hold is right, as late as its place
\* allows: no interleaving of requests, changes, expiries and failures of Redis
\* leaves a value under a key that it does not answer.
THEOREM ReadsKeepInvariant == Spec => []IInv
<1>1. Init => IInv
  BY InitSound
<1>2. IInv /\ [Next]_vars => IInv'
  BY NextSound
<1>3. QED
  BY <1>1, <1>2, PTL DEF Spec

\* A reading handler that succeeds answers what was right at some moment since
\* it was asked, or as long before as the keys it asks may have lived, however
\* gets, sets, deletions and changes of the tables interleave.
THEOREM ReadsAnswerRecently == Spec => []AnswersAreRecent
<1>1. IInv => AnswersAreRecent
  BY InvariantMeansRecent
<1>2. QED
  BY <1>1, ReadsKeepInvariant, PTL

\* GetCompetitionTries answers a user his own tries only, whatever key they come from, and only
\* if he could see the competition as recently, though the cache is asked before the check.
THEOREM ReadsShowOwnTries == Spec => []OwnTriesOnly
<1>1. IInv => OwnTriesOnly
  BY InvariantMeansOwn
<1>2. QED
  BY <1>1, ReadsKeepInvariant, PTL
=============================================================================
