----------------------------- MODULE RateLimiter -----------------------------
(***************************************************************************)
(* The token bucket in front of the routes (middleware/rate_limiter.go).   *)
(*                                                                         *)
(* Each request runs in a goroutine of its own.  Allow takes the mutex     *)
(* twice: getVisitor finds or makes the visitor and lets go, then the      *)
(* bucket is refilled and a token taken.  A bucket is refilled for whole   *)
(* intervals only, and a refill forgets the fraction of an interval since  *)
(* the one before.                                                         *)
(*                                                                         *)
(* SetMode (EnableLANMode) is called while the routes are registered,      *)
(* before the first request: an identifier here is what getIdentifier      *)
(* makes of a request in the mode then chosen.                             *)
(***************************************************************************)
EXTENDS Integers

CONSTANTS
    Identifiers,
    Requests,           \* the goroutines serving requests
    Rate,               \* tokens per interval
    Burst,              \* size of a bucket
    Interval,           \* the code's minute, in seconds
    None

CONSTANT MaxTime        \* bound of the model: the clock stops there

ASSUME RateAssumption ==
    Rate \in Nat /\ Burst \in Nat /\ Interval \in Nat \ {0}

ASSUME LimiterNoneAssumption ==
    None \notin Identifiers /\ None \notin [tokens : Int, lastUpdated : Nat]
      /\ None \notin [first : Nat, last : Nat]

ASSUME MaxTimeAssumption == MaxTime \in Nat

VARIABLES
    now,                \* time.Now(), in seconds
    visitors,           \* rl.visitors
    req,                \* what each goroutine is at
    window,             \* history: an identifier and a time from which ...
    admitted,           \* ... its admissions are counted here
    refused             \* history: when an identifier was refused for the first
                        \* and for the last time since it was last admitted

vars == <<now, visitors, req, window, admitted, refused>>

Visitor == [tokens : Int, lastUpdated : Nat]

Call == [pc : {"idle", "found", "next", "refused"}, id : Identifiers \cup {None}]

Refusals == [first : Nat, last : Nat]

NewVisitor == [tokens |-> Burst, lastUpdated |-> now]

----------------------------------------------------------------------------
Init ==
    /\ now = 0
    /\ visitors = [id \in Identifiers |-> None]
    /\ req = [r \in Requests |-> [pc |-> "idle", id |-> None]]
    /\ window \in [id : Identifiers, start : 0 .. MaxTime]
    /\ admitted = 0
    /\ refused = [id \in Identifiers |-> None]

\* Mutant of getVisitor: looks the visitor up before it takes the mutex, so
\* that a request may put a new one in the place of another's.
getVisitor_Replaces(r, id) ==
    /\ req[r].pc = "idle"
    /\ req' = [req EXCEPT ![r] = [pc |-> "found", id |-> id]]
    /\ visitors' \in {visitors, [visitors EXCEPT ![id] = NewVisitor]}
    /\ visitors[id] = None => visitors' # visitors
    /\ UNCHANGED <<now, window, admitted, refused>>

getVisitor(r, id) ==
    /\ req[r].pc = "idle"
    /\ req' = [req EXCEPT ![r] = [pc |-> "found", id |-> id]]
    /\ visitors' = IF visitors[id] = None
                   THEN [visitors EXCEPT ![id] = NewVisitor] ELSE visitors
    /\ UNCHANGED <<now, window, admitted, refused>>

\* Mutants of Refilled: no cap; the time of every request is noted.
Refilled_Uncapped(v) ==
    LET refill == (now - v.lastUpdated) \div Interval
    IN  IF refill > 0 THEN [tokens |-> v.tokens + refill * Rate, lastUpdated |-> now] ELSE v

Refilled_NotesEveryRequest(v) ==
    LET refill == (now - v.lastUpdated) \div Interval
        tokens == v.tokens + refill * Rate
    IN  [tokens |-> IF tokens > Burst THEN Burst ELSE tokens, lastUpdated |-> now]

\* The bucket after the refill of Allow.
Refilled(v) ==
    LET refill == (now - v.lastUpdated) \div Interval
        tokens == v.tokens + refill * Rate
    IN  IF refill > 0
        THEN [tokens |-> IF tokens > Burst THEN Burst ELSE tokens, lastUpdated |-> now]
        ELSE v

\* Allow, under its second lock, and what the middleware makes of the result.
Allow(r) ==
    LET id == req[r].id
        v  == Refilled(visitors[id])
    IN  /\ req[r].pc = "found"
        /\ \/ /\ v.tokens > 0
              /\ visitors' = [visitors EXCEPT ![id] = [v EXCEPT !.tokens = @ - 1]]
              /\ req' = [req EXCEPT ![r].pc = "next"]
              /\ admitted' = IF id = window.id /\ now >= window.start
                             THEN admitted + 1 ELSE admitted
              /\ refused' = [refused EXCEPT ![id] = None]
           \/ /\ v.tokens <= 0
              /\ visitors' = [visitors EXCEPT ![id] = v]
              /\ req' = [req EXCEPT ![r].pc = "refused"]
              /\ refused' = [refused EXCEPT ![id] =
                               [first |-> IF @ = None THEN now ELSE @.first, last |-> now]]
              /\ UNCHANGED admitted
        /\ UNCHANGED <<now, window>>

\* The handlers behind the middleware, or its 429.
Reply(r) ==
    /\ req[r].pc \in {"next", "refused"}
    /\ req' = [req EXCEPT ![r] = [pc |-> "idle", id |-> None]]
    /\ UNCHANGED <<now, visitors, window, admitted, refused>>

Tick ==
    /\ now < MaxTime
    /\ now' = now + 1
    /\ UNCHANGED <<visitors, req, window, admitted, refused>>

Next ==
    \/ \E r \in Requests :
          \/ \E id \in Identifiers : getVisitor(r, id)
          \/ Allow(r) \/ Reply(r)
    \/ Tick

Spec == Init /\ [][Next]_vars

----------------------------------------------------------------------------
(* Properties *)

\* The variables hold values of their types; a bucket is never overdrawn, nor
\* fuller than Burst.
TypeOK ==
    /\ now \in Nat
    /\ visitors \in [Identifiers -> Visitor \cup {None}]
    /\ req \in [Requests -> Call]
    /\ window \in [id : Identifiers, start : Nat]
    /\ admitted \in Nat
    /\ refused \in [Identifiers -> Refusals \cup {None}]
    /\ \A id \in Identifiers :
         visitors[id] # None => /\ visitors[id].tokens \in 0 .. Burst
                                /\ visitors[id].lastUpdated <= now

\* From whatever moment one starts to count, an identifier is admitted at most
\* Burst times plus Rate times for each interval begun: refills that forget
\* fractions and goroutines that meet between the two locks never add up to more.
BurstPlusRate ==
    now >= window.start =>
        admitted <= Burst + Rate * ((now - window.start) \div Interval + 1)

\* However often an identifier asks, it is not refused for a whole interval:
\* requests that are refused do not put its refill off.
NobodyLockedOut ==
    Rate > 0 /\ Burst > 0 =>
        \A id \in Identifiers :
          refused[id] # None => refused[id].last - refused[id].first < Interval
=============================================================================
