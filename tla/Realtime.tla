------------------------------ MODULE Realtime ------------------------------
(***************************************************************************)
(* The live dashboards (realtime/realtime.go and the WebSocket handler of  *)
(* handlers/competitions/websocket.go).                                    *)
(*                                                                         *)
(* A request that has committed a try hands it to one goroutine, the hub,  *)
(* through a channel without a buffer, and goes on when the hub has taken  *)
(* it.  The hub writes it to every connection registered for the           *)
(* competition while it holds the mutex of the registry, without a         *)
(* deadline.  Each connection has a handler that registers it, reads until *)
(* an error, and unregisters and closes it.                                *)
(*                                                                         *)
(* Here a try is a number of committed versions: Tries says how they come  *)
(* about and Announce and AnnounceNext of that module are the hand-over.   *)
(***************************************************************************)
EXTENDS Integers, Sequences

CONSTANTS
    Competitions,
    Conns,              \* connections; each is opened at most once
    Watches,            \* the competition of each
    Tries,
    CompetitionOf,      \* the competition of each
    Batches,            \* the tries one commit writes, in the order announced
    Requests,           \* the goroutines serving requests
    Serial,             \* tries of users who wait for a reply before they send
                        \* again
    None

CONSTANT MaxVersion     \* bound of the model: commits per try

ASSUME WatchesAssumption == Watches \in [Conns -> Competitions]

ASSUME TriesOfAssumption ==
    /\ CompetitionOf \in [Tries -> Competitions]
    /\ Batches \subseteq Seq(Tries)
    /\ Serial \subseteq Tries

ASSUME RegistryNoneAssumption == \A S \in SUBSET Conns : None # S

ASSUME VersionAssumption == MaxVersion \in Nat

VARIABLES
    version,            \* the committed version of each try
    queue,              \* what each request has still to hand over
    hub,                \* where handleBroadcast is
    competitionClients, \* the registry; None where the map has no entry
    conn,               \* where the handler of each connection is
    link,               \* the peer: it reads, it does not, or it is gone
    seen,               \* the version of each try last written to a connection
    due                 \* history: updates the hub took while a connection was
                        \* registered and has not written to it yet

vars == <<version, queue, hub, competitionClients, conn, link, seen, due>>

Update == [try : Tries, version : Nat]

Hub == [pc : {"receive", "lock"}, update : Update \cup {None}, todo : {{}}]
         \cup [pc : {"write"}, update : Update, todo : SUBSET Conns]

Receiving == [pc |-> "receive", update |-> None, todo |-> {}]

Registered(c) ==
    competitionClients[Watches[c]] # None /\ c \in competitionClients[Watches[c]]

\* The hub holds the mutex from the moment it looks the competition up.
Locked == hub.pc = "write"

\* The connections of a competition.
Audience(update) ==
    LET clients == competitionClients[CompetitionOf[update.try]]
    IN  IF clients = None THEN {} ELSE clients

\* Mutant of Unanswered: the update is sent by a goroutine of its own and the
\* request answered at once.
Unanswered_SendsAside(r, t) == FALSE

\* Request r has not been answered and concerns t: BroadcastTryUpdate returns
\* when the hub has taken the update.
Unanswered(r, t) == \E i \in 1 .. Len(queue[r]) : queue[r][i].try = t

----------------------------------------------------------------------------
Init ==
    /\ version = [t \in Tries |-> 0]
    /\ queue = [r \in Requests |-> <<>>]
    /\ hub = Receiving
    /\ competitionClients = [x \in Competitions |-> None]
    /\ conn = [c \in Conns |-> "absent"]
    /\ link = [c \in Conns |-> "up"]
    /\ seen = [c \in Conns |-> [t \in Tries |-> 0]]
    /\ due = [c \in Conns |-> {}]

----------------------------------------------------------------------------
(* Requests *)

\* A transaction commits and its tries are announced, unless loading the user
\* fails, and then none of them is.
Commit(r, batch) ==
    /\ queue[r] = <<>>
    /\ \A i \in 1 .. Len(batch) :
         /\ version[batch[i]] < MaxVersion
         /\ batch[i] \in Serial => \A q \in Requests : ~Unanswered(q, batch[i])
    /\ version' = [t \in Tries |-> IF \E i \in 1 .. Len(batch) : batch[i] = t
                                   THEN version[t] + 1 ELSE version[t]]
    /\ LET updates == [i \in 1 .. Len(batch) |->
                         [try |-> batch[i], version |-> version'[batch[i]]]]
       IN  queue' \in {queue, [queue EXCEPT ![r] = updates]}
    /\ UNCHANGED <<hub, competitionClients, conn, link, seen, due>>

----------------------------------------------------------------------------
(* The hub *)

\* The hub takes the update and the request goes on.
Receive(r) ==
    /\ hub.pc = "receive"
    /\ queue[r] # <<>>
    /\ hub' = [pc |-> "lock", update |-> Head(queue[r]), todo |-> {}]
    /\ queue' = [queue EXCEPT ![r] = Tail(@)]
    /\ due' = [c \in Conns |-> IF c \in Audience(Head(queue[r]))
                               THEN due[c] \cup {Head(queue[r])} ELSE due[c]]
    /\ UNCHANGED <<version, competitionClients, conn, link, seen>>

Lock ==
    /\ hub.pc = "lock"
    /\ hub' = [hub EXCEPT !.pc = "write", !.todo = Audience(hub.update)]
    /\ UNCHANGED <<version, queue, competitionClients, conn, link, seen, due>>

\* WriteJSON returns once the peer reads; a write to a peer that is gone may
\* still go through.
Write(c) ==
    /\ hub.pc = "write"
    /\ c \in hub.todo
    /\ link[c] # "stalled"
    /\ hub' = [hub EXCEPT !.todo = @ \ {c}]
    /\ seen' = [seen EXCEPT ![c][hub.update.try] = hub.update.version]
    /\ due' = [due EXCEPT ![c] = @ \ {hub.update}]
    /\ UNCHANGED <<version, queue, competitionClients, conn, link>>

\* Mutant of WriteFails: the error ends the loop.
WriteFails_EndsLoop(c) ==
    /\ hub.pc = "write"
    /\ c \in hub.todo
    /\ link[c] = "down"
    /\ hub' = [hub EXCEPT !.todo = {}]
    /\ competitionClients' = [competitionClients EXCEPT ![Watches[c]] = @ \ {c}]
    /\ UNCHANGED <<version, queue, conn, link, seen, due>>

\* WriteJSON fails: the connection is closed and struck off, but an entry that
\* gets empty stays in the registry.
WriteFails(c) ==
    /\ hub.pc = "write"
    /\ c \in hub.todo
    /\ link[c] = "down"
    /\ hub' = [hub EXCEPT !.todo = @ \ {c}]
    /\ competitionClients' = [competitionClients EXCEPT ![Watches[c]] = @ \ {c}]
    /\ UNCHANGED <<version, queue, conn, link, seen, due>>

\* Mutant of Unlock: a return from the loop body that leaves the mutex locked.
Unlock_OnlyIfWritten ==
    /\ hub.pc = "write"
    /\ hub.todo = {}
    /\ Audience(hub.update) # {}
    /\ hub' = Receiving
    /\ UNCHANGED <<version, queue, competitionClients, conn, link, seen, due>>

Unlock ==
    /\ hub.pc = "write"
    /\ hub.todo = {}
    /\ hub' = Receiving
    /\ UNCHANGED <<version, queue, competitionClients, conn, link, seen, due>>

----------------------------------------------------------------------------
(* The handler of a connection *)

\* The competition exists and the request is upgraded.
Upgrade(c) ==
    /\ conn[c] = "absent"
    /\ conn' = [conn EXCEPT ![c] = "upgraded"]
    /\ UNCHANGED <<version, queue, hub, competitionClients, link, seen, due>>

RegisterClient(c) ==
    /\ conn[c] = "upgraded"
    /\ ~Locked
    /\ conn' = [conn EXCEPT ![c] = "reading"]
    /\ competitionClients' = [competitionClients EXCEPT ![Watches[c]] =
                                IF @ = None THEN {c} ELSE @ \cup {c}]
    /\ UNCHANGED <<version, queue, hub, link, seen, due>>

\* ReadMessage fails: the peer is gone, or the hub has closed the connection.
ReadFails(c) ==
    /\ conn[c] = "reading"
    /\ link[c] = "down"
    /\ conn' = [conn EXCEPT ![c] = "leaving"]
    /\ UNCHANGED <<version, queue, hub, competitionClients, link, seen, due>>

\* Mutant of UnregisterClient: looks only for its own connection.
UnregisterClient_IfPresent(c) ==
    /\ conn[c] = "leaving"
    /\ ~Locked
    /\ conn' = [conn EXCEPT ![c] = "closed"]
    /\ competitionClients' =
         IF ~Registered(c) THEN competitionClients
         ELSE [competitionClients EXCEPT ![Watches[c]] =
                 IF @ \ {c} = {} THEN None ELSE @ \ {c}]
    /\ UNCHANGED <<version, queue, hub, link, seen, due>>

\* Mutant of UnregisterClient: leaves it to the hub to find the connection closed.
UnregisterClient_CloseOnly(c) ==
    /\ conn[c] = "leaving"
    /\ conn' = [conn EXCEPT ![c] = "closed"]
    /\ UNCHANGED <<version, queue, hub, competitionClients, link, seen, due>>

\* UnregisterClient, which drops an empty entry, and Close.
UnregisterClient(c) ==
    /\ conn[c] = "leaving"
    /\ ~Locked
    /\ conn' = [conn EXCEPT ![c] = "closed"]
    /\ competitionClients' =
         IF competitionClients[Watches[c]] = None THEN competitionClients
         ELSE [competitionClients EXCEPT ![Watches[c]] =
                 IF @ \ {c} = {} THEN None ELSE @ \ {c}]
    /\ UNCHANGED <<version, queue, hub, link, seen, due>>

----------------------------------------------------------------------------
(* The peers *)

\* A browser stops reading, or reads again, or goes away.
PeerChanges(c) ==
    /\ conn[c] # "absent"
    /\ \/ link[c] = "up" /\ link' = [link EXCEPT ![c] = "stalled"]
       \/ link[c] = "stalled" /\ link' = [link EXCEPT ![c] = "up"]
       \/ link[c] # "down" /\ link' = [link EXCEPT ![c] = "down"]
    /\ UNCHANGED <<version, queue, hub, competitionClients, conn, seen, due>>

----------------------------------------------------------------------------
\* What the goroutine of a connection does, and the writes of the hub.
HandlerStep(c) == RegisterClient(c) \/ ReadFails(c) \/ UnregisterClient(c)
HubWrites == \E c \in Conns : Write(c) \/ WriteFails(c)

Next ==
    \/ \E r \in Requests : (\E batch \in Batches : Commit(r, batch)) \/ Receive(r)
    \/ Lock \/ HubWrites \/ Unlock
    \/ \E c \in Conns : Upgrade(c) \/ HandlerStep(c) \/ PeerChanges(c)

Spec == Init /\ [][Next]_vars

\* Goroutines run; those blocked on the channel or on the mutex are served in
\* turn; a write goes on whenever the peer reads.
FairSpec ==
    /\ Spec
    /\ \A r \in Requests : SF_vars(Receive(r))
    /\ \A c \in Conns : SF_vars(HandlerStep(c))
    /\ SF_vars(HubWrites)
    /\ WF_vars(Lock \/ Unlock)

----------------------------------------------------------------------------
(* Properties *)

\* The variables hold values of their types, and a connection is registered
\* only between its handler's two calls.
TypeOK ==
    /\ version \in [Tries -> Nat]
    /\ queue \in [Requests -> Seq(Update)]
    /\ hub.pc \in {"receive", "lock", "write"}
    /\ hub.update \in Update \cup {None}
    /\ hub.todo \subseteq Conns
    /\ competitionClients \in [Competitions -> (SUBSET Conns) \cup {None}]
    /\ conn \in [Conns -> {"absent", "upgraded", "reading", "leaving", "closed"}]
    /\ link \in [Conns -> {"up", "stalled", "down"}]
    /\ seen \in [Conns -> [Tries -> Nat]]
    /\ due \in [Conns -> SUBSET Update]
    /\ \A c \in Conns : Registered(c) => conn[c] \in {"reading", "leaving"}

\* A dashboard that was connected when the hub took an update, and still is when
\* the hub waits for the next one, has it, whatever other connections failed.
NothingLost ==
    \A c \in Conns : hub.pc = "receive" /\ Registered(c) => due[c] = {}

\* The dashboards follow the committed table: of a try whose user sends one
\* request at a time no dashboard goes back to an older version.
NeverGoesBack ==
    [][\A c \in Conns, t \in Serial : seen'[c][t] >= seen[c][t]]_seen

\* As long as no browser stalls for ever, a request that has something to
\* announce gets on: one that does stall holds the hub, the mutex and with them
\* every request.
EveryRequestGetsOn ==
    (\A c \in Conns : []<>(link[c] # "stalled"))
      => \A r \in Requests : queue[r] # <<>> ~> queue[r] = <<>>

\* Under the same condition the registry forgets: when every browser is gone no
\* connection and no empty entry is left, even if the hub struck them off first.
RegistryForgets ==
    (\A c \in Conns : []<>(link[c] # "stalled"))
      => ((\A c \in Conns : link[c] = "down" /\ conn[c] # "absent")
            ~> \A x \in Competitions : competitionClients[x] = None)
=============================================================================
