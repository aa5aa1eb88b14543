-------------------------- MODULE RateLimiterProofs --------------------------
(***************************************************************************)
(* Proofs about RateLimiter, for every rate, burst and interval and every  *)
(* set of identifiers and goroutines.                                      *)
(***************************************************************************)
EXTENDS RateLimiter, TLAPS

\* The number of whole intervals in a time.
LEMMA DivBounds ==
    ASSUME NEW a \in Nat, NEW b \in Nat \ {0}
    PROVE  /\ a \div b \in Nat
           /\ (a \div b) * b <= a
           /\ a < (a \div b) * b + b
OBVIOUS

\* It is the largest that fits.
LEMMA DivLargest ==
    ASSUME NEW a \in Nat, NEW b \in Nat \ {0}, NEW n \in Int, n * b <= a
    PROVE  n <= a \div b
<1>. DEFINE q == a \div b
<1>1. q \in Nat /\ a < q * b + b
  BY DivBounds
<1>. HIDE DEF q
<1>2. n * b < (q + 1) * b
  BY <1>1
<1>3. n < q + 1
  BY <1>1, <1>2
<1>4. n <= q
  BY <1>1, <1>3
<1> QED BY <1>4 DEF q

\* More intervals bring no fewer tokens.
LEMMA MoreIntervals ==
    ASSUME NEW r \in Nat, NEW m \in Int, NEW n \in Int, m <= n
    PROVE  r * m <= r * n
OBVIOUS

\* What a refill does to a bucket: nothing within an interval of the last one;
\* else it adds Rate for each of k whole intervals, up to Burst.
LEMMA RefillFacts ==
    ASSUME NEW v \in Visitor, v.tokens \in 0 .. Burst, now \in Nat, v.lastUpdated <= now
    PROVE  /\ Refilled(v) \in Visitor /\ Refilled(v).tokens \in 0 .. Burst
           /\ \/ Refilled(v) = v /\ now - v.lastUpdated < Interval
              \/ /\ Refilled(v).lastUpdated = now
                 /\ \E k \in Nat \ {0} :
                       /\ k * Interval <= now - v.lastUpdated
                       /\ Refilled(v).tokens <= v.tokens + k * Rate
                       /\ Rate > 0 /\ Burst > 0 => Refilled(v).tokens > 0
<1>. DEFINE k == (now - v.lastUpdated) \div Interval
            tokens == v.tokens + k * Rate
<1>1. now - v.lastUpdated \in Nat /\ v.tokens \in Nat /\ v.tokens <= Burst
  BY RateAssumption DEF Visitor
<1>2. /\ k \in Nat /\ k * Interval <= now - v.lastUpdated
      /\ now - v.lastUpdated < k * Interval + Interval
  BY <1>1, DivBounds, RateAssumption
<1>3. Refilled(v) = IF k > 0
                    THEN [tokens |-> IF tokens > Burst THEN Burst ELSE tokens,
                          lastUpdated |-> now]
                    ELSE v
  BY DEF Refilled
<1>. HIDE DEF k
<1>4. CASE k > 0
  <2>1. k * Rate \in Nat /\ (Rate > 0 => k * Rate > 0)
    BY <1>2, <1>4, RateAssumption
  <2>2. tokens \in Nat /\ (Rate > 0 => tokens > 0)
    BY <1>1, <2>1
  <2>3. Refilled(v).lastUpdated = now
    BY <1>3, <1>4
  <2>4. Refilled(v).tokens = IF tokens > Burst THEN Burst ELSE tokens
    BY <1>3, <1>4
  <2>5. Refilled(v) \in Visitor
    BY <1>3, <1>4, <2>2, RateAssumption DEF Visitor
  <2>. HIDE DEF tokens
  <2>6. /\ Refilled(v).tokens \in 0 .. Burst /\ Refilled(v).tokens <= tokens
        /\ Rate > 0 /\ Burst > 0 => Refilled(v).tokens > 0
    BY <2>2, <2>4, RateAssumption
  <2>. USE DEF tokens
  <2> QED BY <1>2, <1>4, <2>3, <2>5, <2>6
<1>5. CASE k = 0
  BY <1>2, <1>3, <1>5, RateAssumption
<1> QED BY <1>2, <1>4, <1>5

----------------------------------------------------------------------------
\* A request between the two locks has its visitor.
FoundVisitor ==
    \A r \in Requests : req[r].pc = "found" => /\ req[r].id \in Identifiers
                                              /\ visitors[req[r].id] # None

\* n admissions and the tokens left are paid for by the bucket and by m refills,
\* of which all but one fit between the start and the last of them.
Paid(v, n) ==
    /\ now < window.start => n = 0
    /\ v.lastUpdated <= window.start =>
         /\ n + v.tokens <= Burst
         /\ n > 0 => window.start - v.lastUpdated < Interval
    /\ v.lastUpdated > window.start =>
         \E m \in Nat : /\ (m - 1) * Interval <= v.lastUpdated - window.start
                        /\ n + v.tokens <= Burst + Rate * m

WindowPaid ==
    IF visitors[window.id] = None THEN admitted = 0
    ELSE Paid(visitors[window.id], admitted)

\* Since an identifier has been refused its bucket has not been refilled.
NotRefilled ==
    \A id \in Identifiers :
       refused[id] # None =>
         /\ visitors[id] # None
         /\ refused[id].first <= refused[id].last /\ refused[id].last <= now
         /\ Rate > 0 /\ Burst > 0 =>
              /\ visitors[id].lastUpdated <= refused[id].first
              /\ refused[id].last - visitors[id].lastUpdated < Interval

LimiterInv == TypeOK /\ FoundVisitor /\ WindowPaid /\ NotRefilled

\* No visitor, no call and no window to begin with.
LEMMA LimiterInit == Init => LimiterInv
<1> SUFFICES ASSUME Init
             PROVE  LimiterInv
  OBVIOUS
<1>1. TypeOK
  BY MaxTimeAssumption DEF Init, TypeOK, Call
<1> QED BY <1>1 DEF Init, LimiterInv, FoundVisitor, WindowPaid, NotRefilled

\* The first lock: a new visitor has a full bucket and nothing was admitted yet.
LEMMA LimiterGetVisitor ==
    ASSUME LimiterInv, NEW r \in Requests, NEW id \in Identifiers, getVisitor(r, id)
    PROVE  LimiterInv'
<1>1. NewVisitor \in Visitor /\ NewVisitor.tokens = Burst /\ NewVisitor.lastUpdated = now
  BY RateAssumption DEF LimiterInv, TypeOK, NewVisitor, Visitor
<1>2. Burst \in 0 .. Burst /\ now <= now
  BY RateAssumption DEF LimiterInv, TypeOK
<1>3. None \notin Visitor
  BY LimiterNoneAssumption DEF Visitor
<1>4. /\ req' \in [Requests -> Call] /\ req'[r] = [pc |-> "found", id |-> id]
      /\ \A q \in Requests \ {r} : req'[q] = req[q]
  BY DEF LimiterInv, TypeOK, getVisitor, Call
<1>5. visitors' \in [Identifiers -> Visitor \cup {None}]
  BY <1>1 DEF LimiterInv, TypeOK, getVisitor
<1>6. /\ \A x \in Identifiers : visitors[x] # None => visitors'[x] = visitors[x]
      /\ visitors[id] = None => visitors'[id] = NewVisitor
      /\ \A x \in Identifiers : x # id => visitors'[x] = visitors[x]
  BY DEF LimiterInv, TypeOK, getVisitor
<1>7. TypeOK'
  <2>1. \A x \in Identifiers :
           visitors'[x] # None => /\ visitors'[x].tokens \in 0 .. Burst
                                  /\ visitors'[x].lastUpdated <= now
    BY <1>1, <1>2, <1>6 DEF LimiterInv, TypeOK
  <2> QED BY <1>4, <1>5, <2>1 DEF LimiterInv, TypeOK, getVisitor
<1>8. FoundVisitor'
  BY <1>1, <1>3, <1>4, <1>6 DEF LimiterInv, FoundVisitor
<1>9. WindowPaid'
  <2>1. UNCHANGED <<now, window, admitted>> /\ window.id \in Identifiers
    BY DEF getVisitor, LimiterInv, TypeOK
  <2>2. CASE visitors'[window.id] = visitors[window.id]
    BY <2>1, <2>2 DEF LimiterInv, WindowPaid, Paid
  <2>3. CASE visitors[window.id] = None /\ visitors'[window.id] = NewVisitor
    <3>1. admitted = 0 /\ now \in Nat /\ window.start \in Nat
      BY <2>3 DEF LimiterInv, WindowPaid, TypeOK
    <3>2. now > window.start => (1 - 1) * Interval <= now - window.start
      BY <3>1, RateAssumption
    <3>3. admitted + Burst <= Burst + Rate * 1 /\ admitted + Burst <= Burst
      BY <3>1, RateAssumption
    <3>4. Paid(NewVisitor, 0)
      BY <1>1, <3>1, <3>2, <3>3 DEF Paid
    <3> QED BY <1>1, <1>3, <2>1, <3>1, <2>3, <3>4 DEF WindowPaid, Paid
  <2> QED BY <1>6, <2>1, <2>2, <2>3
<1>10. NotRefilled'
  BY <1>6 DEF getVisitor, LimiterInv, NotRefilled
<1> QED BY <1>7, <1>8, <1>9, <1>10 DEF LimiterInv

\* A refill is paid for by the intervals it was made for.
LEMMA RefillPaid ==
    ASSUME NEW v \in Visitor, v.tokens \in 0 .. Burst, v.lastUpdated <= now, now \in Nat,
           window.start \in Nat, admitted \in Nat, Paid(v, admitted)
    PROVE  Paid(Refilled(v), admitted)
<1>. DEFINE w == Refilled(v)
            start == window.start
<1>0. /\ Rate \in Nat /\ Burst \in Nat /\ Interval \in Nat \ {0}
      /\ v.tokens \in Nat /\ v.lastUpdated \in Nat
  BY RateAssumption DEF Visitor
<1>1. w \in Visitor /\ w.tokens \in 0 .. Burst
  BY RefillFacts
<1>2. w.tokens \in Nat /\ w.tokens <= Burst
  BY <1>0, <1>1
<1>3. CASE w = v
  BY <1>3
<1>4. CASE w # v
  <2>1. PICK k \in Nat \ {0} : /\ w.lastUpdated = now
                               /\ k * Interval <= now - v.lastUpdated
                               /\ w.tokens <= v.tokens + k * Rate
    BY <1>4, RefillFacts
  <2>. HIDE DEF w
  <2>2. ASSUME now <= start
        PROVE  admitted = 0
    <3>1. CASE now < start
      BY <3>1 DEF Paid
    <3>2. CASE now = start /\ admitted > 0
      <4>1. start - v.lastUpdated < Interval
        BY <3>2 DEF Paid
      <4>2. k * Interval >= Interval
        BY <1>0
      <4> QED BY <1>0, <2>1, <3>2, <4>1, <4>2
    <3> QED BY <2>2, <3>1, <3>2
  <2>3. ASSUME now > start, v.lastUpdated <= start
        PROVE  \E n \in Nat : /\ (n - 1) * Interval <= now - start
                              /\ admitted + w.tokens <= Burst + Rate * n
    <3>1. CASE admitted = 0
      <4>1. (0 - 1) * Interval <= now - start
        BY <1>0, <2>3
      <4>2. admitted + w.tokens <= Burst + Rate * 0
        BY <1>0, <1>2, <3>1
      <4> QED BY <4>1, <4>2
    <3>2. CASE admitted > 0
      <4>1. start - v.lastUpdated < Interval /\ admitted + v.tokens <= Burst
        BY <2>3, <3>2 DEF Paid
      <4>2. (k - 1) * Interval = k * Interval - Interval
        BY <1>0
      <4>3. (k - 1) * Interval <= now - start
        <5>1. k * Interval \in Int
          BY <1>0
        <5> QED BY <1>0, <2>1, <4>1, <4>2, <5>1
      <4>4. Rate * k = k * Rate /\ k * Rate \in Nat
        BY <1>0
      <4>5. admitted + w.tokens <= Burst + Rate * k
        BY <1>0, <1>2, <2>1, <4>1, <4>4
      <4> QED BY <4>3, <4>5
    <3> QED BY <3>1, <3>2
  <2>4. ASSUME v.lastUpdated > start
        PROVE  \E n \in Nat : /\ (n - 1) * Interval <= now - start
                              /\ admitted + w.tokens <= Burst + Rate * n
    <3>1. PICK n \in Nat : /\ (n - 1) * Interval <= v.lastUpdated - start
                           /\ admitted + v.tokens <= Burst + Rate * n
      BY <2>4 DEF Paid
    <3>2. (n + k - 1) * Interval = (n - 1) * Interval + k * Interval
      BY <1>0
    <3>3. (n - 1) * Interval \in Int /\ k * Interval \in Int
      BY <1>0
    <3>4. (n + k - 1) * Interval <= now - start
      BY <1>0, <2>1, <3>1, <3>2, <3>3
    <3>5. Rate * (n + k) = Rate * n + k * Rate /\ Rate * n \in Nat /\ k * Rate \in Nat
      BY <1>0
    <3>6. admitted + w.tokens <= Burst + Rate * (n + k)
      BY <1>0, <1>2, <2>1, <3>1, <3>5
    <3> QED BY <3>4, <3>6
  <2>5. now < start => admitted = 0
    BY DEF Paid
  <2>6. now <= start => admitted + w.tokens <= Burst
    BY <1>0, <1>2, <2>2
  <2>7. now <= start /\ admitted > 0 => start - now < Interval
    BY <2>2
  <2>8. v.lastUpdated <= start \/ v.lastUpdated > start
    BY <1>0
  <2>9. now > start => \E n \in Nat : /\ (n - 1) * Interval <= now - start
                                     /\ admitted + w.tokens <= Burst + Rate * n
    BY <2>3, <2>4, <2>8
  <2>10. w.lastUpdated = now
    BY <2>1
  <2>11. Paid(w, admitted)
    BY <2>5, <2>6, <2>7, <2>9, <2>10 DEF Paid
  <2> QED BY <2>11 DEF w
<1> QED BY <1>3, <1>4

\* An admission is paid for with a token.
LEMMA AdmissionPaid ==
    ASSUME NEW v \in Visitor, v.tokens \in 0 .. Burst, v.tokens > 0, now \in Nat,
           v.lastUpdated <= now, now - v.lastUpdated < Interval,
           window.start \in Nat, admitted \in Nat, Paid(v, admitted)
    PROVE  Paid([v EXCEPT !.tokens = @ - 1],
                IF now >= window.start THEN admitted + 1 ELSE admitted)
<1>. DEFINE w == [v EXCEPT !.tokens = @ - 1]
            start == window.start
            n == IF now >= start THEN admitted + 1 ELSE admitted
<1>1. /\ w.tokens = v.tokens - 1 /\ w.lastUpdated = v.lastUpdated
      /\ v.tokens \in Nat /\ v.lastUpdated \in Nat
      /\ Rate \in Nat /\ Burst \in Nat /\ Interval \in Nat \ {0}
  BY RateAssumption DEF Visitor
<1>2. n \in Nat /\ n + w.tokens <= admitted + v.tokens
  BY <1>1
<1>3. now < start => n = 0
  BY <1>1 DEF Paid
<1>4. now >= start /\ v.lastUpdated <= start => start - v.lastUpdated < Interval
  BY <1>1
<1>. HIDE DEF n
<1>5. v.lastUpdated <= start => n + w.tokens <= Burst
  BY <1>1, <1>2 DEF Paid
<1>6. v.lastUpdated <= start /\ n > 0 => start - v.lastUpdated < Interval
  BY <1>1, <1>2, <1>3, <1>4
<1>7. ASSUME v.lastUpdated > start
      PROVE  \E m \in Nat : /\ (m - 1) * Interval <= v.lastUpdated - start
                            /\ n + w.tokens <= Burst + Rate * m
  <2>1. PICK m \in Nat : /\ (m - 1) * Interval <= v.lastUpdated - start
                         /\ admitted + v.tokens <= Burst + Rate * m
    BY <1>7 DEF Paid
  <2>2. Rate * m \in Nat
    BY <1>1
  <2> QED BY <1>1, <1>2, <2>1, <2>2
<1>8. Paid(w, n)
  BY <1>1, <1>3, <1>5, <1>6, <1>7 DEF Paid
<1> QED BY <1>8 DEF n

\* What the second lock of Allow finds and leaves.
LEMMA AllowFacts ==
    ASSUME LimiterInv, NEW r \in Requests, Allow(r)
    PROVE  LET id == req[r].id
               v  == Refilled(visitors[id])
           IN  /\ id \in Identifiers
               /\ visitors[id] \in Visitor /\ visitors[id].tokens \in 0 .. Burst
               /\ visitors[id].lastUpdated <= now
               /\ v \in Visitor /\ v.tokens \in 0 .. Burst
               /\ v.lastUpdated <= now /\ now - v.lastUpdated < Interval
               /\ \/ v = visitors[id] \/ (Rate > 0 /\ Burst > 0 => v.tokens > 0)
<1>. DEFINE id == req[r].id
            v0 == visitors[id]
            v == Refilled(v0)
<1>1. req[r].pc = "found"
  BY DEF Allow
<1>2. id \in Identifiers /\ v0 # None
  BY <1>1 DEF LimiterInv, FoundVisitor
<1>3. v0 \in Visitor /\ v0.tokens \in 0 .. Burst /\ v0.lastUpdated <= now /\ now \in Nat
  BY <1>2 DEF LimiterInv, TypeOK
<1>4. /\ v \in Visitor /\ v.tokens \in 0 .. Burst
      /\ \/ v = v0 /\ now - v0.lastUpdated < Interval
         \/ v.lastUpdated = now /\ (Rate > 0 /\ Burst > 0 => v.tokens > 0)
  BY <1>3, RefillFacts
<1>5. v.lastUpdated <= now /\ now - v.lastUpdated < Interval
  BY <1>3, <1>4, RateAssumption
<1> QED BY <1>2, <1>3, <1>4, <1>5

\* The second lock keeps the invariant.
LEMMA LimiterAllow ==
    ASSUME LimiterInv, NEW r \in Requests, Allow(r)
    PROVE  LimiterInv'
<1>. DEFINE id == req[r].id
            v == Refilled(visitors[id])
            taken == [v EXCEPT !.tokens = @ - 1]
<1>1. /\ id \in Identifiers
      /\ visitors[id] \in Visitor /\ visitors[id].tokens \in 0 .. Burst
      /\ visitors[id].lastUpdated <= now
      /\ v \in Visitor /\ v.tokens \in 0 .. Burst
      /\ v.lastUpdated <= now /\ now - v.lastUpdated < Interval
      /\ v = visitors[id] \/ (Rate > 0 /\ Burst > 0 => v.tokens > 0)
  BY AllowFacts
<1>2. /\ TypeOK /\ now \in Nat /\ window.start \in Nat /\ window.id \in Identifiers
      /\ admitted \in Nat /\ Rate \in Nat /\ Burst \in Nat /\ Interval \in Nat \ {0}
  BY RateAssumption DEF LimiterInv, TypeOK
<1>3. None \notin Visitor /\ None \notin Refusals
  BY LimiterNoneAssumption DEF Visitor, Refusals
<1>4. v.tokens > 0 => /\ taken \in Visitor /\ taken.tokens \in 0 .. Burst
                      /\ taken.lastUpdated = v.lastUpdated
  BY <1>1, <1>2 DEF Visitor
<1>5. PICK x \in {v, taken} :
         /\ visitors' = [visitors EXCEPT ![id] = x]
         /\ x = v => /\ v.tokens <= 0
                     /\ req' = [req EXCEPT ![r].pc = "refused"]
                     /\ refused' = [refused EXCEPT ![id] =
                                      [first |-> IF @ = None THEN now ELSE @.first,
                                       last |-> now]]
                     /\ UNCHANGED admitted
         /\ x # v => /\ v.tokens > 0 /\ x = taken
                     /\ req' = [req EXCEPT ![r].pc = "next"]
                     /\ refused' = [refused EXCEPT ![id] = None]
                     /\ admitted' = IF id = window.id /\ now >= window.start
                                    THEN admitted + 1 ELSE admitted
  <2>1. v.tokens > 0 => taken # v
    <3>1. v.tokens > 0 => taken.tokens = v.tokens - 1 /\ v.tokens - 1 # v.tokens
      BY <1>1, <1>2 DEF Visitor
    <3> QED BY <3>1
  <2>2. CASE /\ v.tokens > 0
             /\ visitors' = [visitors EXCEPT ![id] = taken]
             /\ req' = [req EXCEPT ![r].pc = "next"]
             /\ admitted' = IF id = window.id /\ now >= window.start
                            THEN admitted + 1 ELSE admitted
             /\ refused' = [refused EXCEPT ![id] = None]
    BY <2>1, <2>2
  <2>3. CASE /\ v.tokens <= 0
             /\ visitors' = [visitors EXCEPT ![id] = v]
             /\ req' = [req EXCEPT ![r].pc = "refused"]
             /\ refused' = [refused EXCEPT ![id] =
                              [first |-> IF @ = None THEN now ELSE @.first, last |-> now]]
             /\ UNCHANGED admitted
    BY <2>3
  <2> QED BY <2>2, <2>3 DEF Allow
<1>6. UNCHANGED <<now, window>>
  BY DEF Allow
<1>. HIDE DEF v, taken
<1>7. x \in Visitor /\ x.tokens \in 0 .. Burst /\ x.lastUpdated = v.lastUpdated
  BY <1>1, <1>4, <1>5
<1>8. /\ visitors' \in [Identifiers -> Visitor \cup {None}] /\ visitors'[id] = x
      /\ \A y \in Identifiers : y # id => visitors'[y] = visitors[y]
  BY <1>1, <1>2, <1>5, <1>7 DEF TypeOK
<1>9. req' \in [Requests -> Call] /\ \A q \in Requests : req'[q].id = req[q].id
        /\ req'[r].pc # "found" /\ \A p \in Requests \ {r} : req'[p].pc = req[p].pc
  <2>1. PICK pc \in {"next", "refused"} : req' = [req EXCEPT ![r].pc = pc]
    BY <1>5
  <2> QED BY <1>2, <2>1 DEF TypeOK, Call
<1>10. admitted' \in Nat
  BY <1>2, <1>5
<1>11. /\ refused' \in [Identifiers -> Refusals \cup {None}]
       /\ \A y \in Identifiers : y # id => refused'[y] = refused[y]
  <2>1. refused \in [Identifiers -> Refusals \cup {None}]
    BY <1>2 DEF TypeOK
  <2>2. CASE x = v
    <3>1. (IF refused[id] = None THEN now ELSE refused[id].first) \in Nat
      BY <1>1, <1>2, <2>1 DEF Refusals
    <3> QED BY <1>2, <1>5, <2>1, <2>2, <3>1 DEF Refusals
  <2>3. CASE x # v
    BY <1>5, <2>1, <2>3
  <2> QED BY <2>2, <2>3
<1>12. TypeOK'
  <2>1. \A y \in Identifiers :
           visitors'[y] # None => /\ visitors'[y].tokens \in 0 .. Burst
                                  /\ visitors'[y].lastUpdated <= now
    BY <1>1, <1>2, <1>7, <1>8 DEF TypeOK
  <2> QED BY <1>2, <1>6, <1>8, <1>9, <1>10, <1>11, <2>1 DEF TypeOK
<1>13. FoundVisitor'
  BY <1>3, <1>7, <1>8, <1>9 DEF LimiterInv, FoundVisitor
<1>14. WindowPaid'
  <2>1. CASE id # window.id
    <3>1. admitted' = admitted /\ visitors'[window.id] = visitors[window.id]
      BY <1>2, <1>5, <1>8, <2>1
    <3> QED BY <1>6, <3>1 DEF LimiterInv, WindowPaid, Paid
  <2>2. CASE id = window.id
    <3>1. Paid(visitors[id], admitted)
      BY <1>1, <1>3, <2>2 DEF LimiterInv, WindowPaid
    <3>2. Paid(v, admitted)
      BY <1>1, <1>2, <3>1, RefillPaid DEF v
    <3>3. Paid(x, admitted')
      <4>1. CASE x = v
        BY <1>5, <3>2, <4>1
      <4>2. CASE x # v
        <5>1. Paid([v EXCEPT !.tokens = @ - 1],
                   IF now >= window.start THEN admitted + 1 ELSE admitted)
          BY <1>1, <1>2, <1>5, <3>2, <4>2, AdmissionPaid
        <5>2. x = [v EXCEPT !.tokens = @ - 1]
          BY <1>5, <4>2 DEF taken
        <5>3. admitted' = IF now >= window.start THEN admitted + 1 ELSE admitted
          BY <1>5, <2>2, <4>2
        <5> QED BY <5>1, <5>2, <5>3
      <4> QED BY <4>1, <4>2
    <3>4. visitors'[window'.id] = x /\ x # None
      BY <1>3, <1>6, <1>7, <1>8, <2>2
    <3> QED BY <1>6, <3>3, <3>4 DEF WindowPaid, Paid
  <2> QED BY <2>1, <2>2
<1>15. NotRefilled'
  <2>1. SUFFICES ASSUME NEW y \in Identifiers, refused'[y] # None
                 PROVE  /\ visitors'[y] # None
                        /\ refused'[y].first <= refused'[y].last
                        /\ refused'[y].last <= now
                        /\ Rate > 0 /\ Burst > 0 =>
                             /\ visitors'[y].lastUpdated <= refused'[y].first
                             /\ refused'[y].last - visitors'[y].lastUpdated < Interval
    BY <1>6 DEF NotRefilled
  <2>2. CASE y # id
    BY <1>8, <1>11, <2>1, <2>2 DEF LimiterInv, NotRefilled
  <2>3. CASE y = id
    <3>1. x = v
      BY <1>1, <1>2, <1>5, <2>1, <2>3 DEF TypeOK
    <3>2. /\ v.tokens <= 0 /\ visitors'[y] = v /\ refused'[y].last = now
          /\ refused'[y].first = IF refused[y] = None THEN now ELSE refused[y].first
      BY <1>1, <1>2, <1>5, <1>8, <2>3, <3>1 DEF TypeOK
    <3>3. refused[y] # None => refused[y].first <= now
      <4>1. refused[y] # None => refused[y].first <= refused[y].last /\ refused[y].last <= now
        BY DEF LimiterInv, NotRefilled
      <4> QED BY <1>2, <4>1 DEF LimiterInv, TypeOK, Refusals
    <3>4. Rate > 0 /\ Burst > 0 => v = visitors[y]
      BY <1>1, <2>3, <3>2
    <3>5. Rate > 0 /\ Burst > 0 /\ refused[y] # None
            => visitors[y].lastUpdated <= refused[y].first
      BY DEF LimiterInv, NotRefilled
    <3> QED BY <1>1, <1>2, <1>3, <3>2, <3>3, <3>4, <3>5
  <2> QED BY <2>2, <2>3
<1> QED BY <1>12, <1>13, <1>14, <1>15 DEF LimiterInv

\* A reply, and time, keep it.
LEMMA LimiterOther ==
    ASSUME LimiterInv, (\E r \in Requests : Reply(r)) \/ Tick \/ UNCHANGED vars
    PROVE  LimiterInv'
<1>1. UNCHANGED <<visitors, window, admitted, refused>>
  BY DEF Reply, Tick, vars
<1>2. /\ now' \in Nat /\ now <= now'
      /\ req' \in [Requests -> Call]
      /\ \A q \in Requests : req'[q].pc = "found" => req'[q] = req[q]
  BY DEF Reply, Tick, vars, LimiterInv, TypeOK, Call
<1>3. TypeOK'
  <2>1. \A id \in Identifiers :
           visitors[id] # None => /\ visitors[id].tokens \in 0 .. Burst
                                  /\ visitors[id].lastUpdated <= now'
    BY <1>2 DEF LimiterInv, TypeOK, Visitor
  <2> QED BY <1>1, <1>2, <2>1 DEF LimiterInv, TypeOK
<1>4. FoundVisitor'
  BY <1>1, <1>2 DEF LimiterInv, FoundVisitor
<1>5. WindowPaid'
  <2>1. CASE visitors[window.id] = None
    BY <1>1, <2>1 DEF LimiterInv, WindowPaid
  <2>2. CASE visitors[window.id] # None
    <3>1. Paid(visitors[window.id], admitted) /\ now \in Nat /\ window.start \in Nat
      BY <2>2 DEF LimiterInv, WindowPaid, TypeOK
    <3>2. now' < window.start => now < window.start
      BY <1>2, <3>1
    <3> QED BY <1>1, <2>2, <3>1, <3>2 DEF WindowPaid, Paid
  <2> QED BY <2>1, <2>2
<1>6. NotRefilled'
  BY <1>1, <1>2 DEF LimiterInv, NotRefilled, TypeOK, Refusals
<1> QED BY <1>3, <1>4, <1>5, <1>6 DEF LimiterInv

\* Every step keeps the invariant.
LEMMA LimiterStep == LimiterInv /\ [Next]_vars => LimiterInv'
BY LimiterGetVisitor, LimiterAllow, LimiterOther DEF Next

\* It holds in every state.
LEMMA LimiterSafe == Spec => []LimiterInv
BY LimiterInit, LimiterStep, PTL DEF Spec

\* A bucket never holds fewer than 0 or more than Burst tokens.
THEOREM LimiterTypes == Spec => []TypeOK
<1>1. LimiterInv => TypeOK
  BY DEF LimiterInv
<1> QED BY <1>1, LimiterSafe, PTL

\* Over any window of time an identifier is admitted at most Burst times plus
\* Rate times for each interval begun, whatever goroutines serve it.
THEOREM WindowBound == Spec => []BurstPlusRate
<1>1. LimiterInv => BurstPlusRate
  <2> SUFFICES ASSUME LimiterInv, now >= window.start
               PROVE  admitted <= Burst + Rate * ((now - window.start) \div Interval + 1)
    BY DEF BurstPlusRate
  <2>. DEFINE v == visitors[window.id]
              q == (now - window.start) \div Interval
  <2>1. /\ now \in Nat /\ window.start \in Nat /\ window.id \in Identifiers
        /\ admitted \in Nat /\ Rate \in Nat /\ Burst \in Nat /\ Interval \in Nat \ {0}
    BY RateAssumption DEF LimiterInv, TypeOK
  <2>2. now - window.start \in Nat
    BY <2>1
  <2>3. q \in Nat
    BY <2>1, <2>2, DivBounds
  <2>4. Rate * (q + 1) \in Nat
    BY <2>1, <2>3
  <2>5. CASE v = None
    BY <2>1, <2>4, <2>5 DEF LimiterInv, WindowPaid
  <2>6. CASE v # None
    <3>1. /\ v.tokens \in Nat /\ v.lastUpdated \in Nat /\ v.lastUpdated <= now
          /\ Paid(v, admitted)
      BY <2>1, <2>6 DEF LimiterInv, TypeOK, WindowPaid, Visitor
    <3>2. CASE v.lastUpdated <= window.start
      BY <2>1, <2>4, <3>1, <3>2 DEF Paid
    <3>3. CASE v.lastUpdated > window.start
      <4>1. PICK m \in Nat : /\ (m - 1) * Interval <= v.lastUpdated - window.start
                             /\ admitted + v.tokens <= Burst + Rate * m
        BY <3>1, <3>3 DEF Paid
      <4>2. (m - 1) * Interval <= now - window.start
        BY <2>1, <3>1, <4>1
      <4>. DEFINE l == m - 1
                  elapsed == now - window.start
      <4>3. m - 1 <= q
        <5>1. l \in Int /\ elapsed \in Nat /\ l * Interval <= elapsed
          BY <2>2, <4>2
        <5>. HIDE DEF l, elapsed
        <5>2. l <= elapsed \div Interval
          BY <2>1, <5>1, DivLargest
        <5> QED BY <5>2 DEF l, elapsed
      <4>. HIDE DEF q
      <4>4. m <= q + 1
        BY <2>3, <4>3
      <4>5. Rate * m <= Rate * (q + 1) /\ Rate * m \in Nat
        BY <2>1, <2>3, <4>4, MoreIntervals
      <4> QED BY <2>1, <2>4, <3>1, <4>1, <4>5 DEF q
    <3> QED BY <2>1, <3>1, <3>2, <3>3
  <2> QED BY <2>5, <2>6
<1> QED BY <1>1, LimiterSafe, PTL

\* No identifier is refused for a whole interval, however often it asks.
THEOREM RefusalsEnd == Spec => []NobodyLockedOut
<1>1. LimiterInv => NobodyLockedOut
  <2> SUFFICES ASSUME LimiterInv, Rate > 0, Burst > 0, NEW id \in Identifiers,
                      refused[id] # None
               PROVE  refused[id].last - refused[id].first < Interval
    BY DEF NobodyLockedOut
  <2>1. /\ visitors[id] # None /\ visitors[id].lastUpdated <= refused[id].first
        /\ refused[id].last - visitors[id].lastUpdated < Interval
    BY DEF LimiterInv, NotRefilled
  <2>2. /\ refused[id].last \in Nat /\ refused[id].first \in Nat
        /\ visitors[id].lastUpdated \in Nat /\ Interval \in Nat
    BY <2>1, RateAssumption DEF LimiterInv, TypeOK, Refusals, Visitor
  <2> QED BY <2>1, <2>2
<1> QED BY <1>1, LimiterSafe, PTL
=============================================================================
