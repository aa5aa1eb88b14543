------------------------------ MODULE Sessions ------------------------------
(***************************************************************************)
(* The sessions of one account: its tokens, Redis' blacklist of tokens,    *)
(* the cached answer of CheckAuth and the flag users.blocked               *)
(* (handlers/auth/login.go, refresh.go, session.go and middleware/         *)
(* auth_middleware.go).  Accounts share no token, no key and no row.       *)
(*                                                                         *)
(* A token is valid until it expires, whatever happens: only the blacklist *)
(* can end it before.  ValidateToken trims what the client sent, while the *)
(* key of the blacklist is made of it as it came: the blacklist is one of  *)
(* texts, and one token has as many of them as there are ways to put white *)
(* space around it.  Every call to Redis may fail; whoever only reads      *)
(* the blacklist then goes on as if the token were not on it.  Refresh,    *)
(* logout and check give their calls to Redis and PostgreSQL one common    *)
(* deadline, SessionTimeout.                                               *)
(*                                                                         *)
(* Time is kept as the code and Redis use it: what is left of a lifetime.  *)
(***************************************************************************)
EXTENDS Integers, FiniteSets

CONSTANTS
    Tokens,             \* tokens that are followed; newTokenID makes each a new one
    Spaces,             \* the white space, or none, that a client sends around one
    Requests,           \* the goroutines serving requests
    JWTExpiration,      \* lifetime of a token
    UserCacheDuration,  \* lifetime of a cached session
    SessionTimeout,     \* the deadline, and what a command sent before it may take
    None

ASSUME DurationsAssumption ==
    /\ JWTExpiration \in Nat \ {0}
    /\ UserCacheDuration \in Nat \ {0}
    /\ SessionTimeout \in Nat

\* What getTokenFromRequest returns: a token, and white space around it.
Texts == Tokens \X Spaces

\* The token that strings.TrimSpace leaves of it.
TrimSpace(s) == s[1]

VARIABLES
    left,       \* what is left of each token; None before it is issued
    blacklist,  \* TTL of the key token:blacklist:s; 0 if there is none
    cache,      \* the key user_session:id: its TTL (None: it has none), and how
                \* long ago the request began that read the user
    blocked,    \* users.blocked
    call,       \* what each goroutine is at
    loggedOut,  \* history: texts that Logout has put on the blacklist
    renewed,    \* history: how often each text was exchanged before its token
                \* expired, counted up to twice
    unsure,     \* history: texts two refreshes with which overlapped or met a
                \* failure of Redis
    behind      \* history: goroutines whose request began since the user was
                \* blocked

vars == <<left, blacklist, cache, blocked, call, loggedOut, renewed, unsure, behind>>

----------------------------------------------------------------------------
(* A request.  pc is the call to Redis or PostgreSQL its handler is about  *)
(* to make.  elapsed is the time since ValidateToken, for the handlers     *)
(* with a deadline; remaining is the remainingTime of Logout; out says     *)
(* that the text was logged out before the request began, and Redis has    *)
(* not failed to say so.                                                   *)

\* "profile" stands for every handler behind AuthMiddleware: it is the one that
\* changes something here.
Ops == {"login", "refresh", "logout", "check", "profile"}

Pcs == {"idle", "exists", "get", "user", "issue", "store", "set", "del"}

Call == [op : Ops \cup {None}, pc : Pcs, text : Texts \cup {None},
         elapsed : 0 .. SessionTimeout + 1, remaining : 0 .. JWTExpiration, out : BOOLEAN]

Idle == [op |-> None, pc |-> "idle", text |-> None, elapsed |-> 0, remaining |-> 0,
         out |-> FALSE]

CachedSession == [age : Nat, ttl : Nat \cup {None}]

ASSUME SessionsNoneAssumption ==
    None \notin Nat /\ None \notin Texts /\ None \notin Ops /\ None \notin CachedSession

Goto(r, pc) ==
    /\ call' = [call EXCEPT ![r].pc = pc]
    /\ UNCHANGED behind

\* The client has its answer; the goroutine is free for another request.
Finish(r) ==
    /\ call' = [call EXCEPT ![r] = Idle]
    /\ behind' = behind \ {r}

Start(r, op, pc, s) ==
    /\ call[r].pc = "idle"
    /\ call' = [call EXCEPT ![r] =
                  [op |-> op, pc |-> pc, text |-> s, elapsed |-> 0,
                   remaining |-> IF op = "logout" THEN left[TrimSpace(s)] ELSE 0,
                   out |-> s \in loggedOut]]
    /\ behind' = IF blocked THEN behind \cup {r} ELSE behind

\* Counts, up to a bound.
UpTo(x, max) == IF x < max THEN x + 1 ELSE x

HasDeadline(x) == x.op \in {"refresh", "logout", "check"}

InTime(r) == call[r].elapsed <= SessionTimeout

Blacklisted(s) == blacklist[s] > 0

Refreshing(s) ==
    {r \in Requests : call[r].op = "refresh" /\ call[r].text = s}

----------------------------------------------------------------------------
Init ==
    /\ left = [t \in Tokens |-> None]
    /\ blacklist = [s \in Texts |-> 0]
    /\ cache = None
    /\ blocked = FALSE
    /\ call = [r \in Requests |-> Idle]
    /\ loggedOut = {}
    /\ renewed = [s \in Texts |-> 0]
    /\ unsure = {}
    /\ behind = {}

\* Login up to GenerateJWT: the row is read, the password compared.
Login(r) ==
    /\ ~blocked
    /\ Start(r, "login", "issue", None)
    /\ UNCHANGED <<left, blacklist, cache, blocked, loggedOut, renewed, unsure>>

\* A new token: one of those that are followed, or another.
GenerateJWT ==
    \/ \E t \in Tokens : left[t] = None /\ left' = [left EXCEPT ![t] = JWTExpiration]
    \/ UNCHANGED left

\* The end of Login.  Save writes every column as it was read, so blocked too.  The
\* cookie is set before: the client gets the token even if Save fails.
LoginIssues(r) ==
    /\ call[r].pc = "issue" /\ call[r].op = "login"
    /\ GenerateJWT
    /\ call' = [call EXCEPT ![r] = Idle]
    /\ \/ blocked' = FALSE /\ behind' = {}
       \/ blocked' = blocked /\ behind' = behind \ {r}
    /\ UNCHANGED <<blacklist, cache, loggedOut, renewed, unsure>>

\* A request with a text whose token ValidateToken accepts.  Any other is refused
\* and changes nothing.
ValidateToken(r, op, s) ==
    /\ left[TrimSpace(s)] # None /\ left[TrimSpace(s)] > 0
    /\ Start(r, op, IF op = "logout" THEN "set" ELSE "exists", s)
    /\ unsure' = IF op = "refresh" /\ Refreshing(s) # {} THEN unsure \cup {s} ELSE unsure
    /\ UNCHANGED <<left, blacklist, cache, blocked, loggedOut, renewed>>

\* Where a request goes whose text is not on the blacklist.
AfterExists(op) ==
    CASE op = "refresh" -> "user" [] op = "check" -> "get" [] op = "profile" -> "del"

\* EXISTS token:blacklist:s, in RefreshToken, CheckAuth and isBlacklisted.
Exists(r) ==
    /\ call[r].pc = "exists"
    /\ InTime(r)
    /\ \/ Blacklisted(call[r].text) /\ Finish(r)
       \/ ~Blacklisted(call[r].text) /\ Goto(r, AfterExists(call[r].op))
    /\ UNCHANGED <<left, blacklist, cache, blocked, loggedOut, renewed, unsure>>

\* EXISTS fails, or the deadline has passed, and the request goes on.
ExistsFails(r) ==
    /\ call[r].pc = "exists"
    /\ call' = [call EXCEPT ![r].pc = AfterExists(call[r].op), ![r].out = FALSE]
    /\ unsure' = IF call[r].op = "refresh" THEN unsure \cup {call[r].text} ELSE unsure
    /\ UNCHANGED <<left, blacklist, cache, blocked, loggedOut, renewed, behind>>

\* GET user_session:id, in CheckAuth: the answer is the cached session, whatever
\* has become of the user.  A failure counts as a miss.
GetCached(r) ==
    /\ call[r].pc = "get"
    /\ \/ InTime(r) /\ cache # None /\ Finish(r)
       \/ Goto(r, "user")
    /\ UNCHANGED <<left, blacklist, cache, blocked, loggedOut, renewed, unsure>>

\* Mutant of ReadUser: RefreshToken does not look at the flag.
ReadUser_RefreshesBlocked(r) ==
    /\ call[r].pc = "user"
    /\ \/ InTime(r) /\ call[r].op = "refresh" /\ Goto(r, "issue")
       \/ InTime(r) /\ call[r].op = "check" /\ ~blocked /\ Goto(r, "store")
       \/ Finish(r)
    /\ UNCHANGED <<left, blacklist, cache, blocked, loggedOut, renewed, unsure>>

\* SELECT from users, in RefreshToken and CheckAuth.  It may fail.
ReadUser(r) ==
    /\ call[r].pc = "user"
    /\ \/ InTime(r) /\ ~blocked /\ Goto(r, IF call[r].op = "refresh" THEN "issue" ELSE "store")
       \/ Finish(r)
    /\ UNCHANGED <<left, blacklist, cache, blocked, loggedOut, renewed, unsure>>

\* Mutant of RefreshIssues: the new token is put on the blacklist, not the old one.
RefreshIssues_BlacklistsNew(r) ==
    LET s == call[r].text
    IN  /\ call[r].pc = "issue" /\ call[r].op = "refresh"
        /\ GenerateJWT
        /\ renewed' = IF left[TrimSpace(s)] > 0 THEN [renewed EXCEPT ![s] = UpTo(@, 2)]
                      ELSE renewed
        /\ blacklist' = [z \in Texts |-> IF left'[TrimSpace(z)] # left[TrimSpace(z)]
                                         THEN JWTExpiration ELSE blacklist[z]]
        /\ Finish(r)
        /\ UNCHANGED <<cache, blocked, loggedOut, unsure>>

\* The end of RefreshToken: a new token, and the old text on the blacklist for what
\* is left of its token.  A failure of SET is only logged.
RefreshIssues(r) ==
    LET s == call[r].text
        remaining == left[TrimSpace(s)]
    IN  /\ call[r].pc = "issue" /\ call[r].op = "refresh"
        /\ GenerateJWT
        /\ \/ /\ remaining > 0
              /\ renewed' = [renewed EXCEPT ![s] = UpTo(@, 2)]
              /\ \/ /\ InTime(r)
                    /\ blacklist' = [blacklist EXCEPT ![s] = remaining]
                    /\ UNCHANGED unsure
                 \/ /\ unsure' = unsure \cup {s}
                    /\ UNCHANGED blacklist
           \/ /\ remaining = 0
              /\ UNCHANGED <<renewed, blacklist, unsure>>
        /\ Finish(r)
        /\ UNCHANGED <<cache, blocked, loggedOut>>

\* Mutant of CacheTTL: the lifetime of a session.
CacheTTL_AsToken(t) == JWTExpiration

\* The TTL of a cached session: what is left of the token, UserCacheDuration at
\* most.  go-redis sends none to Redis if that is not positive.
CacheTTL(t) ==
    IF left[t] = 0 THEN None
    ELSE IF left[t] > UserCacheDuration THEN UserCacheDuration ELSE left[t]

\* SET user_session:id, in CheckAuth.  A failure is only logged.
Store(r) ==
    /\ call[r].pc = "store"
    /\ \/ /\ InTime(r)
          /\ cache' = [age |-> call[r].elapsed, ttl |-> CacheTTL(TrimSpace(call[r].text))]
       \/ UNCHANGED cache
    /\ Finish(r)
    /\ UNCHANGED <<left, blacklist, blocked, loggedOut, renewed, unsure>>

\* Mutants of LogoutTTL: the cached session's; in another unit than the token's.
LogoutTTL_AsCache(r) == UserCacheDuration

LogoutTTL_Scaled(r) == 2 * call[r].remaining

\* The TTL that Logout has computed when it validated the token.
LogoutTTL(r) == call[r].remaining

\* SET token:blacklist:s, in Logout.
Blacklist(r) ==
    LET s == call[r].text
    IN  /\ call[r].pc = "set"
        /\ \/ /\ InTime(r)
              /\ blacklist' = [blacklist EXCEPT ![s] = LogoutTTL(r)]
              /\ loggedOut' = loggedOut \cup {s}
              /\ Goto(r, "del")
           \/ Finish(r) /\ UNCHANGED <<blacklist, loggedOut>>
        /\ UNCHANGED <<left, cache, blocked, renewed, unsure>>

\* DEL user_session:id, in Logout and after the commit in UpdateUserProfile.  A
\* failure is only logged.
Forget(r) ==
    /\ call[r].pc = "del"
    /\ \/ InTime(r) /\ cache' = None
       \/ UNCHANGED cache
    /\ Finish(r)
    /\ UNCHANGED <<left, blacklist, blocked, loggedOut, renewed, unsure>>

\* An administrator commits the other value.
ToggleBlockUser ==
    /\ blocked' = ~blocked
    /\ behind' = {}
    /\ UNCHANGED <<left, blacklist, cache, call, loggedOut, renewed, unsure>>

\* A unit of time passes.  Redis deletes the keys whose TTL is over, the history
\* of a token ends with it.  The age of a cached session is counted up to one more
\* than it should reach.
MaxAge == UserCacheDuration + SessionTimeout

Aged ==
    IF cache = None THEN None
    ELSE IF cache.ttl = None THEN [cache EXCEPT !.age = UpTo(@, MaxAge + 1)]
    ELSE IF cache.ttl = 1 THEN None
    ELSE [age |-> UpTo(cache.age, MaxAge + 1), ttl |-> cache.ttl - 1]

Tick ==
    LET Live == {s \in Texts : left[TrimSpace(s)] # None /\ left[TrimSpace(s)] > 1}
    IN  /\ left' = [t \in Tokens |-> IF left[t] = None THEN None
                                     ELSE IF left[t] > 0 THEN left[t] - 1 ELSE 0]
        /\ blacklist' = [s \in Texts |-> IF blacklist[s] > 0 THEN blacklist[s] - 1 ELSE 0]
        /\ cache' = Aged
        /\ call' = [r \in Requests |->
                      IF HasDeadline(call[r])
                      THEN [call[r] EXCEPT !.elapsed = UpTo(@, SessionTimeout + 1)]
                      ELSE call[r]]
        /\ loggedOut' = loggedOut \cap Live
        /\ renewed' = [s \in Texts |-> IF s \in Live THEN renewed[s] ELSE 0]
        /\ unsure' = unsure \cap Live
        /\ UNCHANGED <<blocked, behind>>

\* The process dies.  Redis and PostgreSQL do not.
Restart ==
    /\ call' = [r \in Requests |-> Idle]
    /\ behind' = {}
    /\ UNCHANGED <<left, blacklist, cache, blocked, loggedOut, renewed, unsure>>

Next ==
    \/ \E r \in Requests :
          \/ Login(r)
          \/ \E op \in Ops \ {"login"}, s \in Texts : ValidateToken(r, op, s)
          \/ LoginIssues(r) \/ RefreshIssues(r) \/ Exists(r) \/ ExistsFails(r) \/ GetCached(r) \/ ReadUser(r)
          \/ Store(r) \/ Blacklist(r) \/ Forget(r)
    \/ ToggleBlockUser \/ Tick \/ Restart

Spec == Init /\ [][Next]_vars

----------------------------------------------------------------------------
(* Properties *)

\* The variables hold values of their types; no key of the blacklist outlives the
\* longest life of a token, and no key exists for a token that was never issued.
TypeOK ==
    /\ left \in [Tokens -> 0 .. JWTExpiration \cup {None}]
    /\ blacklist \in [Texts -> 0 .. JWTExpiration]
    /\ cache \in CachedSession \cup {None}
    /\ blocked \in BOOLEAN
    /\ call \in [Requests -> Call]
    /\ loggedOut \subseteq Texts
    /\ renewed \in [Texts -> 0 .. 2]
    /\ unsure \subseteq Texts
    /\ behind \subseteq Requests
    /\ \A s \in Texts : left[TrimSpace(s)] = None => blacklist[s] = 0 /\ s \notin loggedOut

\* A text that was logged out before a request came gets it past no check of the
\* blacklist that Redis answers, whatever ran in between: its key never goes before
\* the token expires.  Only then can a request that was validated just before find
\* the key gone.  This is of the text as it was sent, and of no other of the token.
LoggedOutIsOut ==
    \A r \in Requests :
      call[r].out /\ call[r].pc # "exists" /\ call[r].op # "logout"
        => left[TrimSpace(call[r].text)] = 0

\* Rotation: as long as Redis answers and refreshes with a text do not overlap, it
\* is exchanged for one token at most before its own expires.
OneSuccessor == \A s \in Texts \ unsure : renewed[s] <= 1

\* A request that comes after the user was blocked gets no token and caches no
\* session, however it interleaves with what was under way.
BlockedGetsNoToken ==
    \A r \in behind : call[r].pc \notin {"issue", "store"}

\* What CheckAuth may answer with shows the user as of a request that began no
\* longer ago than its deadline and the TTL allow, unless the key has no TTL.
StaleOnlyWithoutTTL ==
    cache # None /\ cache.ttl # None => cache.age <= MaxAge
=============================================================================
