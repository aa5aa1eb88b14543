--------------------------- MODULE RealtimeProofs ---------------------------
(***************************************************************************)
(* Proofs about Realtime, for every set of competitions, connections,      *)
(* tries and requests and every set of batches.                            *)
(***************************************************************************)
EXTENDS Realtime, TLAPS

----------------------------------------------------------------------------
(* The invariant *)

\* The types, with what the place of the hub says about its fields.
Typed ==
    /\ version \in [Tries -> Nat]
    /\ queue \in [Requests -> Seq(Update)]
    /\ hub \in [pc : {"receive", "lock", "write"}, update : Update \cup {None},
                todo : SUBSET Conns]
    /\ hub.pc # "receive" => hub.update \in Update
    /\ competitionClients \in [Competitions -> (SUBSET Conns) \cup {None}]
    /\ conn \in [Conns -> {"absent", "upgraded", "reading", "leaving", "closed"}]
    /\ link \in [Conns -> {"up", "stalled", "down"}]
    /\ seen \in [Conns -> [Tries -> Nat]]
    /\ due \in [Conns -> SUBSET Update]

\* A connection is registered for its own competition, between the two calls of
\* its handler.
RegistrySound ==
    \A c \in Conns, x \in Competitions :
        competitionClients[x] # None /\ c \in competitionClients[x]
          => x = Watches[c] /\ conn[c] \in {"reading", "leaving"}

\* The rest of the hub's loop is in the registry, which the mutex protects.
LoopSound ==
    hub.pc = "write" => \A c \in hub.todo : c \in Audience(hub.update)

\* What a registered connection has not been sent is what the hub holds, and it
\* is in the rest of the loop.
Owed ==
    \A c \in Conns :
        /\ conn[c] \in {"absent", "upgraded"} => due[c] = {}
        /\ Registered(c) =>
             \A u \in due[c] :
                /\ hub.pc # "receive"
                /\ u = hub.update
                /\ Watches[c] = CompetitionOf[u.try]
                /\ hub.pc = "write" => c \in hub.todo

\* The newest version of a try a dashboard can have been sent.
Newest(t) ==
    IF hub.pc # "receive" /\ hub.update.try = t THEN hub.update.version
    ELSE version[t]

\* The updates of a serial user that are still queued are those of the last
\* commit; the hub's is no newer, and what the dashboards have is no newer still.
InOrder ==
    \A t \in Tries \cap Serial :
        /\ \A r \in Requests : \A i \in 1 .. Len(queue[r]) :
              queue[r][i].try = t => queue[r][i].version = version[t]
        /\ Newest(t) <= version[t]
        /\ \A c \in Conns : seen[c][t] <= Newest(t)

IInv == Typed /\ RegistrySound /\ LoopSound /\ Owed /\ InOrder

----------------------------------------------------------------------------
(* Facts about the constants and the types *)

LEMMA NoneIsNoSet == \A S \in SUBSET Conns : S # None
BY RegistryNoneAssumption

LEMMA UpdateFacts ==
    ASSUME NEW u \in Update
    PROVE  /\ u.try \in Tries /\ u.version \in Nat
           /\ CompetitionOf[u.try] \in Competitions
BY TriesOfAssumption DEF Update

LEMMA WatchesFacts == \A c \in Conns : Watches[c] \in Competitions
BY WatchesAssumption

\* An audience is registered for the competition of the update.
LEMMA AudienceFacts ==
    ASSUME Typed, RegistrySound, NEW u \in Update
    PROVE  /\ Audience(u) \subseteq Conns
           /\ \A c \in Conns : c \in Audience(u)
                <=> Registered(c) /\ Watches[c] = CompetitionOf[u.try]
<1>1. CompetitionOf[u.try] \in Competitions
  BY UpdateFacts
<1>2. competitionClients[CompetitionOf[u.try]] \in (SUBSET Conns) \cup {None}
  BY <1>1 DEF Typed
<1>3. Audience(u) \subseteq Conns
  <2>. DEFINE clients == competitionClients[CompetitionOf[u.try]]
  <2>1. clients = None \/ clients \subseteq Conns
    BY <1>2
  <2>2. Audience(u) = IF clients = None THEN {} ELSE clients
    BY DEF Audience
  <2>. HIDE DEF clients
  <2> QED BY <2>1, <2>2
<1>4. ASSUME NEW c \in Conns, c \in Audience(u)
      PROVE  Registered(c) /\ Watches[c] = CompetitionOf[u.try]
  BY <1>1, <1>4 DEF Audience, RegistrySound, Registered
<1>5. ASSUME NEW c \in Conns, Registered(c), Watches[c] = CompetitionOf[u.try]
      PROVE  c \in Audience(u)
  BY <1>5 DEF Audience, Registered
<1> QED BY <1>3, <1>4, <1>5

\* The head of a queue is one of its updates, and what is left are others.
LEMMA QueueFacts ==
    ASSUME NEW q \in Seq(Update), q # <<>>
    PROVE  /\ Head(q) \in Update /\ Tail(q) \in Seq(Update)
           /\ \E i \in 1 .. Len(q) : Head(q) = q[i]
           /\ \A i \in 1 .. Len(Tail(q)) : \E j \in 1 .. Len(q) : Tail(q)[i] = q[j]
<1>1. Len(q) \in Nat \ {0}
  OBVIOUS
<1>2. 1 \in 1 .. Len(q) /\ Head(q) = q[1]
  BY <1>1
<1>3. Head(q) \in Update /\ Tail(q) \in Seq(Update)
  OBVIOUS
<1>4. ASSUME NEW i \in 1 .. Len(Tail(q))
      PROVE  \E j \in 1 .. Len(q) : Tail(q)[i] = q[j]
  <2>1. i + 1 \in 1 .. Len(q) /\ Tail(q)[i] = q[i + 1]
    BY <1>1
  <2> QED BY <2>1
<1> QED BY <1>2, <1>3, <1>4

----------------------------------------------------------------------------
(* The first state *)

LEMMA InitHolds == Init => IInv
<1>. SUFFICES ASSUME Init PROVE IInv
  OBVIOUS
<1>1. Typed
  <2>1. /\ version \in [Tries -> Nat]
        /\ queue \in [Requests -> Seq(Update)]
        /\ competitionClients \in [Competitions -> (SUBSET Conns) \cup {None}]
        /\ conn \in [Conns -> {"absent", "upgraded", "reading", "leaving", "closed"}]
        /\ link \in [Conns -> {"up", "stalled", "down"}]
        /\ due \in [Conns -> SUBSET Update]
    BY DEF Init
  <2>2. seen \in [Conns -> [Tries -> Nat]]
    BY DEF Init
  <2>3. /\ hub \in [pc : {"receive", "lock", "write"}, update : Update \cup {None},
                   todo : SUBSET Conns]
        /\ hub.pc = "receive"
    BY DEF Init, Receiving
  <2> QED BY <2>1, <2>2, <2>3 DEF Typed
<1>2. RegistrySound
  BY DEF Init, RegistrySound
<1>3. LoopSound
  BY DEF Init, LoopSound, Receiving
<1>4. Owed
  BY DEF Init, Owed, Registered
<1>5. InOrder
  BY DEF Init, InOrder, Newest, Receiving
<1> QED BY <1>1, <1>2, <1>3, <1>4, <1>5 DEF IInv

----------------------------------------------------------------------------
(* Requests *)

LEMMA CommitKeeps ==
    ASSUME IInv, NEW r \in Requests, NEW batch \in Batches, Commit(r, batch)
    PROVE  IInv'
<1>. DEFINE Has(t) == \E i \in 1 .. Len(batch) : batch[i] = t
            updates == [i \in 1 .. Len(batch) |->
                          [try |-> batch[i], version |-> version'[batch[i]]]]
<1>1. batch \in Seq(Tries)
  BY TriesOfAssumption
<1>2. version' = [t \in Tries |-> IF Has(t) THEN version[t] + 1 ELSE version[t]]
  BY DEF Commit
<1>3. queue' \in {queue, [queue EXCEPT ![r] = updates]}
  BY DEF Commit
<1>4. UNCHANGED <<hub, competitionClients, conn, link, seen, due>>
  BY DEF Commit
<1>5. \A t \in Tries : version[t] \in Nat
  BY DEF IInv, Typed
<1>6. \A t \in Tries : version'[t] \in Nat /\ version'[t] >= version[t]
  <2>. HIDE DEF Has
  <2> QED BY <1>2, <1>5
<1>7. version' \in [Tries -> Nat]
  <2>. HIDE DEF Has
  <2> QED BY <1>2, <1>5
<1>8. \A i \in 1 .. Len(batch) : batch[i] \in Tries
  BY <1>1
<1>9. \A i \in 1 .. Len(batch) :
         [try |-> batch[i], version |-> version'[batch[i]]] \in Update
  BY <1>6, <1>8 DEF Update
<1>10. Len(batch) \in Nat
  BY <1>1
<1>11. updates \in Seq(Update) /\ Len(updates) = Len(batch)
  BY <1>9, <1>10
<1>12. queue \in [Requests -> Seq(Update)]
  BY DEF IInv, Typed
<1>13. queue' \in [Requests -> Seq(Update)]
  BY <1>3, <1>11, <1>12
<1>14. Typed'
  BY <1>4, <1>7, <1>13 DEF IInv, Typed
<1>15. RegistrySound' /\ LoopSound' /\ Owed'
  BY <1>4 DEF IInv, RegistrySound, LoopSound, Owed, Registered, Audience
<1>16. ASSUME NEW t \in Tries \cap Serial
       PROVE  /\ \A q \in Requests : \A i \in 1 .. Len(queue'[q]) :
                    queue'[q][i].try = t => queue'[q][i].version = version'[t]
              /\ Newest(t)' <= version'[t]
              /\ \A c \in Conns : seen'[c][t] <= Newest(t)'
  <2>1. /\ \A q \in Requests : \A i \in 1 .. Len(queue[q]) :
              queue[q][i].try = t => queue[q][i].version = version[t]
        /\ Newest(t) <= version[t]
        /\ \A c \in Conns : seen[c][t] <= Newest(t)
    BY <1>16 DEF IInv, InOrder
  <2>2. \A q \in Requests : \A i \in 1 .. Len(queue[q]) :
           queue[q][i].try = t => queue[q][i].version = version'[t]
    <3>1. CASE Has(t)
      <4>1. \A q \in Requests : ~Unanswered(q, t)
        BY <1>16, <3>1 DEF Commit
      <4> QED BY <4>1 DEF Unanswered
    <3>2. CASE ~Has(t)
      <4>1. version'[t] = version[t]
        BY <1>2, <1>16, <3>2
      <4> QED BY <2>1, <4>1
    <3> QED BY <3>1, <3>2
  <2>3. \A i \in 1 .. Len(updates) :
           updates[i].try = t => updates[i].version = version'[t]
    BY <1>11
  <2>4. ASSUME NEW q \in Requests, NEW i \in 1 .. Len(queue'[q]), queue'[q][i].try = t
        PROVE  queue'[q][i].version = version'[t]
    <3>1. queue'[q] = queue[q] \/ queue'[q] = updates
      <4>. HIDE DEF updates
      <4> QED BY <1>3, <1>12
    <3>2. CASE queue'[q] = queue[q]
      BY <2>2, <2>4, <3>2
    <3>3. CASE queue'[q] = updates
      <4>. HIDE DEF updates
      <4> QED BY <2>3, <2>4, <3>3
    <3> QED BY <3>1, <3>2, <3>3
  <2>5. t \in Tries /\ version[t] \in Nat /\ version'[t] \in Nat /\ version'[t] >= version[t]
    BY <1>5, <1>6, <1>16
  <2>6. hub.pc # "receive" => hub.update.version \in Nat
    BY UpdateFacts DEF IInv, Typed
  <2>7. Newest(t) \in Nat
    BY <2>5, <2>6 DEF Newest
  <2>8. Newest(t)' = Newest(t) \/ Newest(t)' = version'[t]
    BY <1>4 DEF Newest
  <2>9. Newest(t)' >= Newest(t) /\ Newest(t)' <= version'[t] /\ Newest(t)' \in Nat
    BY <2>1, <2>5, <2>7, <2>8
  <2>10. \A c \in Conns : seen'[c][t] = seen[c][t] /\ seen[c][t] \in Nat
    BY <1>4, <2>5 DEF IInv, Typed
  <2>11. \A c \in Conns : seen'[c][t] <= Newest(t)'
    BY <2>1, <2>7, <2>9, <2>10
  <2> QED BY <2>4, <2>9, <2>11
<1>17. InOrder'
  BY <1>16 DEF InOrder
<1> QED BY <1>14, <1>15, <1>17 DEF IInv

LEMMA ReceiveKeeps ==
    ASSUME IInv, NEW r \in Requests, Receive(r)
    PROVE  IInv'
<1>. DEFINE u == Head(queue[r])
<1>1. queue \in [Requests -> Seq(Update)] /\ queue[r] \in Seq(Update) /\ queue[r] # <<>>
  BY DEF IInv, Typed, Receive
<1>2. u \in Update /\ Tail(queue[r]) \in Seq(Update)
  BY <1>1, QueueFacts
<1>3. /\ hub.pc = "receive"
      /\ hub' = [pc |-> "lock", update |-> u, todo |-> {}]
      /\ queue' = [queue EXCEPT ![r] = Tail(@)]
      /\ due' = [c \in Conns |-> IF c \in Audience(u) THEN due[c] \cup {u} ELSE due[c]]
      /\ UNCHANGED <<version, competitionClients, conn, link, seen>>
  BY DEF Receive
<1>4. hub'.pc = "lock" /\ hub'.update = u /\ hub'.todo = {}
  BY <1>3
<1>5. queue'[r] = Tail(queue[r]) /\ \A q \in Requests \ {r} : queue'[q] = queue[q]
  BY <1>1, <1>3
<1>6. queue' \in [Requests -> Seq(Update)]
  BY <1>1, <1>2, <1>3
<1>. HIDE DEF u
<1>7. hub' \in [pc : {"receive", "lock", "write"}, update : Update \cup {None},
                todo : SUBSET Conns]
  BY <1>2, <1>3
<1>8. due' \in [Conns -> SUBSET Update]
  BY <1>2, <1>3 DEF IInv, Typed
<1>9. Typed'
  BY <1>2, <1>3, <1>4, <1>6, <1>7, <1>8 DEF IInv, Typed
<1>10. RegistrySound'
  BY <1>3 DEF IInv, RegistrySound
<1>11. LoopSound'
  BY <1>4 DEF LoopSound
<1>12. ASSUME NEW c \in Conns
       PROVE  /\ conn'[c] \in {"absent", "upgraded"} => due'[c] = {}
              /\ Registered(c)' =>
                   \A w \in due'[c] :
                      /\ hub'.pc # "receive"
                      /\ w = hub'.update
                      /\ Watches[c] = CompetitionOf[w.try]
                      /\ hub'.pc = "write" => c \in hub'.todo
  <2>1. Registered(c)' <=> Registered(c)
    BY <1>3 DEF Registered
  <2>2. c \in Audience(u) <=> Registered(c) /\ Watches[c] = CompetitionOf[u.try]
    BY <1>2, AudienceFacts DEF IInv
  <2>3. Registered(c) => conn[c] \in {"reading", "leaving"}
    BY WatchesFacts DEF IInv, RegistrySound, Registered
  <2>4. Registered(c) => due[c] = {}
    BY <1>3 DEF IInv, Owed
  <2>5. conn[c] \in {"absent", "upgraded"} => due[c] = {}
    BY DEF IInv, Owed
  <2>6. due'[c] = IF c \in Audience(u) THEN due[c] \cup {u} ELSE due[c]
    BY <1>3
  <2>7. conn'[c] = conn[c]
    BY <1>3
  <2>8. conn'[c] \in {"absent", "upgraded"} => due'[c] = {}
    BY <2>2, <2>3, <2>5, <2>6, <2>7
  <2>9. ASSUME Registered(c), NEW w \in due'[c]
        PROVE  w = u /\ Watches[c] = CompetitionOf[u.try]
    BY <2>2, <2>4, <2>6, <2>9
  <2> QED BY <1>4, <2>1, <2>8, <2>9
<1>13. Owed'
  BY <1>12 DEF Owed
<1>14. ASSUME NEW t \in Tries \cap Serial
       PROVE  /\ \A q \in Requests : \A i \in 1 .. Len(queue'[q]) :
                    queue'[q][i].try = t => queue'[q][i].version = version'[t]
              /\ Newest(t)' <= version'[t]
              /\ \A c \in Conns : seen'[c][t] <= Newest(t)'
  <2>1. /\ \A q \in Requests : \A i \in 1 .. Len(queue[q]) :
              queue[q][i].try = t => queue[q][i].version = version[t]
        /\ \A c \in Conns : seen[c][t] <= Newest(t)
    BY <1>14 DEF IInv, InOrder
  <2>2. version'[t] = version[t] /\ seen' = seen
    BY <1>3
  <2>3. Newest(t) = version[t]
    BY <1>3 DEF Newest
  <2>4. u.try = t => u.version = version[t]
    BY <1>1, <2>1, QueueFacts DEF u
  <2>5. Newest(t)' = version[t]
    BY <1>4, <2>2, <2>4 DEF Newest
  <2>6. version[t] <= version[t]
    BY <1>14 DEF IInv, Typed
  <2>7. ASSUME NEW q \in Requests, NEW i \in 1 .. Len(queue'[q])
        PROVE  \E j \in 1 .. Len(queue[q]) : queue'[q][i] = queue[q][j]
    <3>1. CASE q = r
      <4>1. i \in 1 .. Len(Tail(queue[r])) /\ queue'[q][i] = Tail(queue[r])[i]
        BY <1>5, <2>7, <3>1
      <4> QED BY <1>1, <3>1, <4>1, QueueFacts
    <3>2. CASE q # r
      BY <1>5, <2>7, <3>2
    <3> QED BY <3>1, <3>2
  <2>8. \A q \in Requests : \A i \in 1 .. Len(queue'[q]) :
           queue'[q][i].try = t => queue'[q][i].version = version'[t]
    <3>. SUFFICES ASSUME NEW q \in Requests, NEW i \in 1 .. Len(queue'[q]),
                         queue'[q][i].try = t
                  PROVE  queue'[q][i].version = version'[t]
      OBVIOUS
    <3>1. PICK j \in 1 .. Len(queue[q]) : queue'[q][i] = queue[q][j]
      BY <2>7
    <3> QED BY <2>1, <2>2, <3>1
  <2> QED BY <2>1, <2>2, <2>3, <2>5, <2>6, <2>8
<1>15. InOrder'
  BY <1>14 DEF InOrder
<1> QED BY <1>9, <1>10, <1>11, <1>13, <1>15 DEF IInv

----------------------------------------------------------------------------
(* The hub *)

\* Steps that leave the queues, the versions and what dashboards have alone, and
\* what the hub holds.
LEMMA InOrderKept ==
    ASSUME InOrder, UNCHANGED <<version, queue, seen>>,
           \A t \in Tries : Newest(t)' = Newest(t)
    PROVE  InOrder'
BY DEF InOrder

LEMMA LockKeeps ==
    ASSUME IInv, Lock
    PROVE  IInv'
<1>1. /\ hub.pc = "lock"
      /\ hub' = [hub EXCEPT !.pc = "write", !.todo = Audience(hub.update)]
      /\ UNCHANGED <<version, queue, competitionClients, conn, link, seen, due>>
  BY DEF Lock
<1>2. hub.update \in Update
  BY <1>1 DEF IInv, Typed
<1>3. /\ Audience(hub.update) \subseteq Conns
      /\ \A c \in Conns : c \in Audience(hub.update)
           <=> Registered(c) /\ Watches[c] = CompetitionOf[hub.update.try]
  BY <1>2, AudienceFacts DEF IInv
<1>4. hub'.pc = "write" /\ hub'.update = hub.update /\ hub'.todo = Audience(hub.update)
  BY <1>1 DEF IInv, Typed
<1>5. hub' \in [pc : {"receive", "lock", "write"}, update : Update \cup {None},
                todo : SUBSET Conns]
  BY <1>1, <1>3 DEF IInv, Typed
<1>6. Typed'
  BY <1>1, <1>2, <1>4, <1>5 DEF IInv, Typed
<1>7. RegistrySound'
  BY <1>1 DEF IInv, RegistrySound
<1>8. LoopSound'
  BY <1>1, <1>4 DEF LoopSound, Audience
<1>9. ASSUME NEW c \in Conns
      PROVE  Registered(c)' = Registered(c) /\ due'[c] = due[c] /\ conn'[c] = conn[c]
  BY <1>1 DEF Registered
<1>10. Owed'
  BY <1>1, <1>3, <1>4, <1>9 DEF IInv, Owed
<1>11. \A t \in Tries : Newest(t)' = Newest(t)
  BY <1>1, <1>4 DEF Newest
<1>12. InOrder'
  BY <1>1, <1>11, InOrderKept DEF IInv
<1> QED BY <1>6, <1>7, <1>8, <1>10, <1>12 DEF IInv

LEMMA WriteKeeps ==
    ASSUME IInv, NEW c \in Conns, Write(c)
    PROVE  IInv' /\ \A d \in Conns, t \in Tries \cap Serial : seen'[d][t] >= seen[d][t]
<1>1. /\ hub.pc = "write" /\ c \in hub.todo
      /\ hub' = [hub EXCEPT !.todo = @ \ {c}]
      /\ seen' = [seen EXCEPT ![c][hub.update.try] = hub.update.version]
      /\ due' = [due EXCEPT ![c] = @ \ {hub.update}]
      /\ UNCHANGED <<version, queue, competitionClients, conn, link>>
  BY DEF Write
<1>. DEFINE u == hub.update
<1>2. u \in Update /\ u.try \in Tries /\ u.version \in Nat
  BY <1>1, UpdateFacts DEF IInv, Typed
<1>3. hub'.pc = "write" /\ hub'.update = u /\ hub'.todo = hub.todo \ {c}
  BY <1>1 DEF IInv, Typed
<1>4. hub' \in [pc : {"receive", "lock", "write"}, update : Update \cup {None},
                todo : SUBSET Conns]
  BY <1>1 DEF IInv, Typed
<1>5. seen \in [Conns -> [Tries -> Nat]]
  BY DEF IInv, Typed
<1>6. seen' \in [Conns -> [Tries -> Nat]]
  BY <1>1, <1>2, <1>5
<1>7. due' \in [Conns -> SUBSET Update]
  BY <1>1 DEF IInv, Typed
<1>8. Typed'
  BY <1>1, <1>2, <1>3, <1>4, <1>6, <1>7 DEF IInv, Typed
<1>9. RegistrySound'
  BY <1>1 DEF IInv, RegistrySound
<1>10. LoopSound'
  BY <1>1, <1>3 DEF IInv, LoopSound, Audience
<1>11. ASSUME NEW d \in Conns
       PROVE  /\ Registered(d)' = Registered(d) /\ conn'[d] = conn[d]
              /\ due'[d] = IF d = c THEN due[d] \ {u} ELSE due[d]
  BY <1>1 DEF IInv, Typed, Registered
<1>12. ASSUME NEW d \in Conns
       PROVE  /\ conn'[d] \in {"absent", "upgraded"} => due'[d] = {}
              /\ Registered(d)' =>
                   \A w \in due'[d] :
                      /\ hub'.pc # "receive"
                      /\ w = hub'.update
                      /\ Watches[d] = CompetitionOf[w.try]
                      /\ hub'.pc = "write" => d \in hub'.todo
  <2>1. /\ conn[d] \in {"absent", "upgraded"} => due[d] = {}
        /\ Registered(d) => \A w \in due[d] : /\ w = u
                                              /\ Watches[d] = CompetitionOf[w.try]
                                              /\ d \in hub.todo
    BY <1>1 DEF IInv, Owed
  <2> QED BY <1>3, <1>11, <2>1
<1>13. Owed'
  BY <1>12 DEF Owed
<1>14. ASSUME NEW d \in Conns, NEW t \in Tries
       PROVE  seen'[d][t] = IF d = c /\ t = u.try THEN u.version ELSE seen[d][t]
  BY <1>1, <1>2, <1>5
<1>15. \A t \in Tries : Newest(t)' = Newest(t)
  BY <1>1, <1>3 DEF Newest
<1>16. Newest(u.try) = u.version
  BY <1>1 DEF Newest
<1>17. ASSUME NEW t \in Tries \cap Serial, NEW d \in Conns
       PROVE  seen'[d][t] <= Newest(t) /\ seen'[d][t] >= seen[d][t]
  <2>1. seen[d][t] <= Newest(t) /\ seen[d][t] \in Nat
    BY <1>5, <1>17 DEF IInv, InOrder
  <2>2. CASE d = c /\ t = u.try
    BY <1>2, <1>14, <1>16, <2>1, <2>2
  <2>3. CASE ~(d = c /\ t = u.try)
    BY <1>14, <2>1, <2>3
  <2> QED BY <2>2, <2>3
<1>18. InOrder'
  BY <1>1, <1>15, <1>17 DEF IInv, InOrder
<1> QED BY <1>8, <1>9, <1>10, <1>13, <1>17, <1>18 DEF IInv

LEMMA WriteFailsKeeps ==
    ASSUME IInv, NEW c \in Conns, WriteFails(c)
    PROVE  IInv'
<1>1. /\ hub.pc = "write" /\ c \in hub.todo
      /\ hub' = [hub EXCEPT !.todo = @ \ {c}]
      /\ competitionClients' = [competitionClients EXCEPT ![Watches[c]] = @ \ {c}]
      /\ UNCHANGED <<version, queue, conn, link, seen, due>>
  BY DEF WriteFails
<1>. DEFINE u == hub.update
            left == competitionClients[Watches[c]] \ {c}
<1>2. u \in Update
  BY <1>1 DEF IInv, Typed
<1>3. hub'.pc = "write" /\ hub'.update = u /\ hub'.todo = hub.todo \ {c}
  BY <1>1 DEF IInv, Typed
<1>4. hub' \in [pc : {"receive", "lock", "write"}, update : Update \cup {None},
                todo : SUBSET Conns]
  BY <1>1 DEF IInv, Typed
<1>5. Registered(c) /\ Watches[c] = CompetitionOf[u.try]
  BY <1>1, <1>2, AudienceFacts DEF IInv, LoopSound
<1>6. competitionClients \in [Competitions -> (SUBSET Conns) \cup {None}]
  BY DEF IInv, Typed
<1>7. competitionClients[Watches[c]] \in SUBSET Conns /\ Watches[c] \in Competitions
  <2>1. Watches[c] \in Competitions
    BY WatchesFacts
  <2>2. competitionClients[Watches[c]] \in (SUBSET Conns) \cup {None}
    BY <1>6, <2>1
  <2>3. competitionClients[Watches[c]] # None
    BY <1>5 DEF Registered
  <2> QED BY <2>1, <2>2, <2>3
<1>8. left \in SUBSET Conns /\ left # None
  BY <1>7, NoneIsNoSet
<1>9. competitionClients' \in [Competitions -> (SUBSET Conns) \cup {None}]
  BY <1>1, <1>6, <1>8
<1>10. Typed'
  BY <1>1, <1>2, <1>3, <1>4, <1>9 DEF IInv, Typed
<1>11. ASSUME NEW x \in Competitions
       PROVE  competitionClients'[x] = IF x = Watches[c] THEN left ELSE competitionClients[x]
  BY <1>1, <1>6
<1>12. RegistrySound'
  <2>. SUFFICES ASSUME NEW d \in Conns, NEW x \in Competitions,
                       competitionClients'[x] # None, d \in competitionClients'[x]
                PROVE  x = Watches[d] /\ conn'[d] \in {"reading", "leaving"}
    BY DEF RegistrySound
  <2>1. competitionClients[x] # None /\ d \in competitionClients[x]
    BY <1>5, <1>11 DEF Registered
  <2> QED BY <1>1, <2>1 DEF IInv, RegistrySound
<1>13. ASSUME NEW d \in Conns
       PROVE  Registered(d)' <=> Registered(d) /\ d # c
  <2>1. Watches[d] \in Competitions
    BY WatchesFacts
  <2>2. CASE Watches[d] = Watches[c]
    BY <1>5, <1>8, <1>11, <2>1, <2>2 DEF Registered
  <2>3. CASE Watches[d] # Watches[c]
    BY <1>11, <2>1, <2>3 DEF Registered
  <2> QED BY <2>2, <2>3
<1>14. LoopSound'
  <2>. SUFFICES ASSUME NEW d \in hub'.todo
                PROVE  d \in Audience(u)'
    BY <1>3 DEF LoopSound
  <2>1. d \in Conns /\ d \in hub.todo /\ d # c
    BY <1>3, <1>4 DEF IInv, Typed
  <2>2. Registered(d) /\ Watches[d] = CompetitionOf[u.try]
    BY <1>1, <1>2, <2>1, AudienceFacts DEF IInv, LoopSound
  <2>3. Registered(d)'
    BY <1>13, <2>1, <2>2
  <2>4. competitionClients'[CompetitionOf[u.try]] # None
        /\ d \in competitionClients'[CompetitionOf[u.try]]
    BY <2>2, <2>3 DEF Registered
  <2>5. CompetitionOf[(u').try] = CompetitionOf[u.try]
    BY <1>3
  <2> QED BY <2>4, <2>5 DEF Audience
<1>15. Owed'
  <2>. SUFFICES ASSUME NEW d \in Conns
                PROVE  /\ conn'[d] \in {"absent", "upgraded"} => due'[d] = {}
                       /\ Registered(d)' =>
                            \A w \in due'[d] :
                               /\ hub'.pc # "receive"
                               /\ w = hub'.update
                               /\ Watches[d] = CompetitionOf[w.try]
                               /\ hub'.pc = "write" => d \in hub'.todo
    BY DEF Owed
  <2>1. /\ conn[d] \in {"absent", "upgraded"} => due[d] = {}
        /\ Registered(d) => \A w \in due[d] : /\ w = u
                                              /\ Watches[d] = CompetitionOf[w.try]
                                              /\ d \in hub.todo
    BY <1>1 DEF IInv, Owed
  <2> QED BY <1>1, <1>3, <1>13, <2>1
<1>16. \A t \in Tries : Newest(t)' = Newest(t)
  BY <1>1, <1>3 DEF Newest
<1>17. InOrder'
  BY <1>1, <1>16, InOrderKept DEF IInv
<1> QED BY <1>10, <1>12, <1>14, <1>15, <1>17 DEF IInv

LEMMA UnlockKeeps ==
    ASSUME IInv, Unlock
    PROVE  IInv'
<1>1. /\ hub.pc = "write" /\ hub.todo = {}
      /\ hub' = Receiving
      /\ UNCHANGED <<version, queue, competitionClients, conn, link, seen, due>>
  BY DEF Unlock
<1>2. hub'.pc = "receive"
  BY <1>1 DEF Receiving
<1>3. hub' \in [pc : {"receive", "lock", "write"}, update : Update \cup {None},
                todo : SUBSET Conns]
  BY <1>1 DEF Receiving
<1>4. Typed'
  BY <1>1, <1>2, <1>3 DEF IInv, Typed
<1>5. RegistrySound'
  BY <1>1 DEF IInv, RegistrySound
<1>6. LoopSound'
  BY <1>2 DEF LoopSound
<1>7. \A c \in Conns : Registered(c)' = Registered(c)
  BY <1>1 DEF Registered
<1>8. \A c \in Conns : Registered(c) => due[c] = {}
  BY <1>1 DEF IInv, Owed
<1>9. Owed'
  BY <1>1, <1>7, <1>8 DEF IInv, Owed
<1>10. ASSUME NEW t \in Tries \cap Serial
       PROVE  /\ Newest(t)' = version[t] /\ version[t] \in Nat
              /\ \A c \in Conns : seen[c][t] <= version[t]
  <2>1. version[t] \in Nat /\ \A c \in Conns : seen[c][t] \in Nat
    BY <1>10 DEF IInv, Typed
  <2>2. hub.update.version \in Nat
    BY <1>1, UpdateFacts DEF IInv, Typed
  <2>3. Newest(t) \in Nat
    BY <2>1, <2>2 DEF Newest
  <2>4. Newest(t) <= version[t] /\ \A c \in Conns : seen[c][t] <= Newest(t)
    BY <1>10 DEF IInv, InOrder
  <2>5. Newest(t)' = version[t]
    BY <1>1, <1>2 DEF Newest
  <2> QED BY <2>1, <2>3, <2>4, <2>5
<1>11. InOrder'
  BY <1>1, <1>10 DEF IInv, InOrder
<1> QED BY <1>4, <1>5, <1>6, <1>9, <1>11 DEF IInv

----------------------------------------------------------------------------
(* Connections and browsers *)

\* What moves one connection along and registers nothing.
LEMMA ConnMoves ==
    ASSUME IInv, NEW c \in Conns,
           conn' \in [Conns -> {"absent", "upgraded", "reading", "leaving", "closed"}],
           \A d \in Conns \ {c} : conn'[d] = conn[d],
           \/ conn[c] = "absent" /\ conn'[c] = "upgraded"
           \/ conn[c] = "reading" /\ conn'[c] = "leaving"
           \/ conn'[c] = conn[c],
           link' \in [Conns -> {"up", "stalled", "down"}],
           UNCHANGED <<version, queue, hub, competitionClients, seen, due>>
    PROVE  IInv'
<1>1. Typed'
  BY DEF IInv, Typed
<1>2. RegistrySound'
  BY DEF IInv, RegistrySound
<1>3. LoopSound'
  BY DEF IInv, LoopSound, Audience
<1>4. ASSUME NEW d \in Conns
      PROVE  /\ Registered(d)' = Registered(d)
             /\ conn'[d] \in {"absent", "upgraded"} => conn[d] \in {"absent", "upgraded"}
  BY DEF Registered
<1>5. Owed'
  BY <1>4 DEF IInv, Owed
<1>6. InOrder'
  BY InOrderKept DEF IInv, Newest
<1> QED BY <1>1, <1>2, <1>3, <1>5, <1>6 DEF IInv

LEMMA UpgradeKeeps == ASSUME IInv, NEW c \in Conns, Upgrade(c) PROVE IInv'
BY ConnMoves DEF Upgrade, IInv, Typed

LEMMA ReadFailsKeeps == ASSUME IInv, NEW c \in Conns, ReadFails(c) PROVE IInv'
BY ConnMoves DEF ReadFails, IInv, Typed

LEMMA PeerChangesKeeps == ASSUME IInv, NEW c \in Conns, PeerChanges(c) PROVE IInv'
<1>1. link' \in [Conns -> {"up", "stalled", "down"}]
  BY DEF PeerChanges, IInv, Typed
<1>2. UNCHANGED <<version, queue, hub, competitionClients, conn, seen, due>>
  BY DEF PeerChanges
<1>3. conn' \in [Conns -> {"absent", "upgraded", "reading", "leaving", "closed"}]
  BY <1>2 DEF IInv, Typed
<1> QED BY <1>1, <1>2, <1>3, ConnMoves

LEMMA RegisterKeeps ==
    ASSUME IInv, NEW c \in Conns, RegisterClient(c)
    PROVE  IInv'
<1>. DEFINE old == competitionClients[Watches[c]]
            new == IF old = None THEN {c} ELSE old \cup {c}
<1>1. /\ conn[c] = "upgraded" /\ hub.pc # "write"
      /\ conn' = [conn EXCEPT ![c] = "reading"]
      /\ competitionClients' = [competitionClients EXCEPT ![Watches[c]] = new]
      /\ UNCHANGED <<version, queue, hub, link, seen, due>>
  BY DEF RegisterClient, Locked
<1>2. Watches[c] \in Competitions
  BY WatchesFacts
<1>3. competitionClients \in [Competitions -> (SUBSET Conns) \cup {None}]
  BY DEF IInv, Typed
<1>4. old \in (SUBSET Conns) \cup {None}
  BY <1>2, <1>3
<1>5. new \in SUBSET Conns /\ new # None
  <2>1. new \in SUBSET Conns
    <3>. HIDE DEF old
    <3> QED BY <1>4
  <2> QED BY <2>1, NoneIsNoSet
<1>6. \A d \in Conns : d \in new <=> d = c \/ (old # None /\ d \in old)
  <2>. HIDE DEF old
  <2> QED OBVIOUS
<1>. HIDE DEF new
<1>7. ASSUME NEW x \in Competitions
      PROVE  competitionClients'[x] = IF x = Watches[c] THEN new ELSE competitionClients[x]
  BY <1>1, <1>3
<1>8. competitionClients' \in [Competitions -> (SUBSET Conns) \cup {None}]
  BY <1>1, <1>3, <1>5
<1>9. /\ conn' \in [Conns -> {"absent", "upgraded", "reading", "leaving", "closed"}]
      /\ \A d \in Conns : conn'[d] = IF d = c THEN "reading" ELSE conn[d]
  BY <1>1 DEF IInv, Typed
<1>10. Typed'
  BY <1>1, <1>8, <1>9 DEF IInv, Typed
<1>11. RegistrySound'
  <2>. SUFFICES ASSUME NEW d \in Conns, NEW x \in Competitions,
                       competitionClients'[x] # None, d \in competitionClients'[x]
                PROVE  x = Watches[d] /\ conn'[d] \in {"reading", "leaving"}
    BY DEF RegistrySound
  <2>1. CASE d = c
    <3>1. x # Watches[c] => competitionClients[x] # None /\ c \in competitionClients[x]
      BY <1>7, <2>1
    <3>2. x = Watches[c]
      BY <1>1, <3>1 DEF IInv, RegistrySound
    <3> QED BY <1>9, <2>1, <3>2
  <2>2. CASE d # c
    <3>1. competitionClients[x] # None /\ d \in competitionClients[x]
      BY <1>6, <1>7, <2>2
    <3> QED BY <1>9, <2>2, <3>1 DEF IInv, RegistrySound
  <2> QED BY <2>1, <2>2
<1>12. LoopSound'
  BY <1>1 DEF LoopSound
<1>13. ASSUME NEW d \in Conns
       PROVE  Registered(d)' => Registered(d) \/ d = c
  <2>1. Watches[d] \in Competitions
    BY WatchesFacts
  <2> QED BY <1>6, <1>7, <2>1 DEF Registered
<1>14. Owed'
  <2>. SUFFICES ASSUME NEW d \in Conns
                PROVE  /\ conn'[d] \in {"absent", "upgraded"} => due'[d] = {}
                       /\ Registered(d)' =>
                            \A w \in due'[d] :
                               /\ hub'.pc # "receive"
                               /\ w = hub'.update
                               /\ Watches[d] = CompetitionOf[w.try]
                               /\ hub'.pc = "write" => d \in hub'.todo
    BY DEF Owed
  <2>1. due'[c] = {}
    BY <1>1 DEF IInv, Owed
  <2>2. CASE d = c
    BY <2>1, <2>2
  <2>3. CASE d # c
    BY <1>1, <1>9, <1>13, <2>3 DEF IInv, Owed
  <2> QED BY <2>2, <2>3
<1>15. InOrder'
  BY <1>1, InOrderKept DEF IInv, Newest
<1> QED BY <1>10, <1>11, <1>12, <1>14, <1>15 DEF IInv

LEMMA UnregisterKeeps ==
    ASSUME IInv, NEW c \in Conns, UnregisterClient(c)
    PROVE  IInv'
<1>. DEFINE old == competitionClients[Watches[c]]
            new == IF old = None THEN None ELSE IF old \ {c} = {} THEN None ELSE old \ {c}
<1>1. competitionClients \in [Competitions -> (SUBSET Conns) \cup {None}]
  BY DEF IInv, Typed
<1>2. Watches[c] \in Competitions
  BY WatchesFacts
<1>3. /\ conn[c] = "leaving" /\ hub.pc # "write"
      /\ conn' = [conn EXCEPT ![c] = "closed"]
      /\ UNCHANGED <<version, queue, hub, link, seen, due>>
  BY DEF UnregisterClient, Locked
<1>4. competitionClients' = [competitionClients EXCEPT ![Watches[c]] = new]
  <2>1. CASE old = None
    <3>1. competitionClients' = competitionClients
      BY <2>1 DEF UnregisterClient
    <3> QED BY <1>1, <1>2, <2>1, <3>1
  <2>2. CASE old # None
    BY <1>1, <1>2, <2>2 DEF UnregisterClient
  <2> QED BY <2>1, <2>2
<1>5. old \in (SUBSET Conns) \cup {None}
  BY <1>1, <1>2
<1>6. new \in (SUBSET Conns) \cup {None}
  <2>. HIDE DEF old
  <2> QED BY <1>5
<1>7. \A d \in Conns : new # None /\ d \in new => old # None /\ d \in old /\ d # c
  <2>. HIDE DEF old
  <2> QED BY <1>5
<1>. HIDE DEF new
<1>8. ASSUME NEW x \in Competitions
      PROVE  competitionClients'[x] = IF x = Watches[c] THEN new ELSE competitionClients[x]
  BY <1>1, <1>4
<1>9. competitionClients' \in [Competitions -> (SUBSET Conns) \cup {None}]
  BY <1>1, <1>4, <1>6
<1>10. /\ conn' \in [Conns -> {"absent", "upgraded", "reading", "leaving", "closed"}]
       /\ \A d \in Conns : conn'[d] = IF d = c THEN "closed" ELSE conn[d]
  BY <1>3 DEF IInv, Typed
<1>11. Typed'
  BY <1>3, <1>9, <1>10 DEF IInv, Typed
<1>12. ASSUME NEW d \in Conns, NEW x \in Competitions,
              competitionClients'[x] # None, d \in competitionClients'[x]
       PROVE  competitionClients[x] # None /\ d \in competitionClients[x] /\ d # c
  <2>1. CASE x = Watches[c]
    BY <1>7, <1>8, <1>12, <2>1
  <2>2. CASE x # Watches[c]
    BY <1>8, <1>12, <2>2 DEF IInv, RegistrySound
  <2> QED BY <2>1, <2>2
<1>13. RegistrySound'
  BY <1>10, <1>12 DEF IInv, RegistrySound
<1>14. LoopSound'
  BY <1>3 DEF LoopSound
<1>15. ASSUME NEW d \in Conns
       PROVE  Registered(d)' => Registered(d)
  <2>1. Watches[d] \in Competitions
    BY WatchesFacts
  <2> QED BY <1>12, <2>1 DEF Registered
<1>16. Owed'
  BY <1>3, <1>10, <1>15 DEF IInv, Owed
<1>17. InOrder'
  BY <1>3, InOrderKept DEF IInv, Newest
<1> QED BY <1>11, <1>13, <1>14, <1>16, <1>17 DEF IInv

----------------------------------------------------------------------------
(* The theorems *)

LEMMA StepKeeps == IInv /\ [Next]_vars => IInv'
<1>. SUFFICES ASSUME IInv, [Next]_vars PROVE IInv'
  OBVIOUS
<1>1. ASSUME NEW r \in Requests, NEW batch \in Batches, Commit(r, batch) PROVE IInv'
  BY <1>1, CommitKeeps
<1>2. ASSUME NEW r \in Requests, Receive(r) PROVE IInv'
  BY <1>2, ReceiveKeeps
<1>3. CASE Lock
  BY <1>3, LockKeeps
<1>4. ASSUME NEW c \in Conns, Write(c) \/ WriteFails(c) PROVE IInv'
  BY <1>4, WriteKeeps, WriteFailsKeeps
<1>5. CASE Unlock
  BY <1>5, UnlockKeeps
<1>6. ASSUME NEW c \in Conns, Upgrade(c) \/ PeerChanges(c) PROVE IInv'
  BY <1>6, UpgradeKeeps, PeerChangesKeeps
<1>7. ASSUME NEW c \in Conns, HandlerStep(c) PROVE IInv'
  BY <1>7, RegisterKeeps, ReadFailsKeeps, UnregisterKeeps DEF HandlerStep
<1>8. CASE UNCHANGED vars
  BY <1>8 DEF vars, IInv, Typed, RegistrySound, LoopSound, Owed, InOrder, Newest,
              Registered, Audience
<1> QED BY <1>1, <1>2, <1>3, <1>4, <1>5, <1>6, <1>7, <1>8 DEF Next, HubWrites

LEMMA AlwaysIInv == Spec => []IInv
BY InitHolds, StepKeeps, PTL DEF Spec

\* The registry holds only connections whose handler is between its two calls,
\* whatever the hub strikes off in the middle of its loop.
THEOREM RegistryTypes == Spec => []TypeOK
<1>1. IInv => TypeOK
  BY WatchesFacts DEF IInv, Typed, TypeOK, RegistrySound, Registered
<1> QED BY <1>1, AlwaysIInv, PTL

\* Any number of connections may fail, come and go during a broadcast: one that is
\* registered when the hub waits again has been sent everything since it came.
THEOREM EveryUpdateArrives == Spec => []NothingLost
<1>1. IInv => NothingLost
  BY DEF IInv, Typed, Owed, NothingLost
<1> QED BY <1>1, AlwaysIInv, PTL

\* With any number of requests, tries and dashboards, no dashboard goes back on a
\* try whose user waits for each reply.
THEOREM DashboardsFollow == Spec => NeverGoesBack
<1>1. IInv /\ [Next]_vars => [\A c \in Conns, t \in Serial : seen'[c][t] >= seen[c][t]]_seen
  <2>. SUFFICES ASSUME IInv, [Next]_vars, ~UNCHANGED seen
                PROVE  \A c \in Conns, t \in Serial : seen'[c][t] >= seen[c][t]
    OBVIOUS
  <2>1. PICK c \in Conns : Write(c)
    BY DEF Next, Commit, Receive, Lock, HubWrites, WriteFails, Unlock, Upgrade, HandlerStep,
           RegisterClient, ReadFails, UnregisterClient, PeerChanges, vars
  <2>2. Serial \subseteq Tries
    BY TriesOfAssumption
  <2> QED BY <2>1, <2>2, WriteKeeps
<1> QED BY <1>1, AlwaysIInv, PTL DEF Spec, NeverGoesBack
=============================================================================
