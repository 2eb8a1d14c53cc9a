---------------------------- MODULE AdminSessions ----------------------------
(***************************************************************************)
(* Browser sessions of the admin console: session.Store and                *)
(* session.LoginRateLimiter (internal/session/session.go) and the handlers *)
(* that use them (internal/httpserver/admin.go: authenticate, serveSession *)
(* and the login, get and logout handlers).                                *)
(*                                                                         *)
(* Each call of the store or of the limiter is one critical section, hence *)
(* one step; a handler makes several, and handlers of several browsers     *)
(* interleave.  Session IDs and CSRF tokens are random: an ID is drawn     *)
(* once, and a request carries the right token or a wrong one.  A bearer   *)
(* credential or an ambiguous request touches no session state.            *)
(***************************************************************************)
EXTENDS Integers, FiniteSets, Functions

CONSTANTS
    Browsers,         \* concurrent clients of the console
    Addresses,        \* client addresses
    MaxSessions, IdleTimeout, AbsoluteTimeout,          \* StoreOptions
    MaxTrackedIPs, MaxAttempts, Window, LockoutDuration, \* RateLimiterOptions
    MaxLogins,        \* bound on the sessions ever created
    MaxFailures,      \* bound on the failed logins, a session counting for two
    MaxTime           \* bound on the clock

\* NewStore and NewLoginRateLimiter replace an option that is not positive.
ASSUME SessionAssumption ==
    /\ IsFiniteSet(Browsers) /\ MaxLogins \in Nat
    /\ MaxSessions \in Nat \ {0} /\ IdleTimeout \in Nat \ {0} /\ AbsoluteTimeout \in Nat \ {0}
    /\ MaxTrackedIPs \in Nat \ {0} /\ MaxAttempts \in Nat \ {0}
    /\ Window \in Nat \ {0} /\ LockoutDuration \in Nat \ {0}

VARIABLES
    sessionClock,
    sessions,    \* Store.sessions: ID -> [created, last]
    failures,    \* LoginRateLimiter.failures: address -> entry
    browser,     \* the cookie of each browser, and the handler serving it
    logins,      \* IDs drawn so far
    failed,      \* failed logins so far
    born,        \* history: when an ID was created
    revoked      \* history: the IDs that Revoke has removed

storeVars   == <<sessions, born, revoked, logins>>
limiterVars == <<failures, failed>>
sessionVars == <<sessionClock, storeVars, limiterVars, browser>>

NoCookie == 0
SessionIDs == 1..MaxLogins

Idle(cookie) == [at |-> "idle", cookie |-> cookie, address |-> NoCookie]

SessionInit ==
    /\ sessionClock = 0
    /\ sessions = <<>>
    /\ failures = <<>>
    /\ browser = [b \in Browsers |-> Idle(NoCookie)]
    /\ logins = 0
    /\ failed = 0
    /\ born = [id \in SessionIDs |-> 0]
    /\ revoked = {}

At(b, step) == browser[b].at = step
GoTo(b, step) == browser' = [browser EXCEPT ![b].at = step]
Answer(b, cookie) == browser' = [browser EXCEPT ![b] = Idle(cookie)]
Cookie(b) == browser[b].cookie
Without(f, keys) == Restrict(f, DOMAIN f \ keys)

SessionTick ==
    /\ sessionClock < MaxTime
    /\ sessionClock' = sessionClock + 1
    /\ UNCHANGED <<storeVars, limiterVars, browser>>

-----------------------------------------------------------------------------
(* session.Store                                                           *)

IsExpired(s) == \/ sessionClock - s.created > AbsoluteTimeout
                \/ sessionClock - s.last > IdleTimeout

Live(id) == id \in DOMAIN sessions /\ ~IsExpired(sessions[id])

(* Create: expired sessions go first, then one with the oldest activity    *)
(* (the map has no order: any of them) if the store is full.               *)
Create(b) ==
    LET id == logins + 1
        kept == {i \in DOMAIN sessions : ~IsExpired(sessions[i])}
        oldest == {i \in kept : \A j \in kept : sessions[i].last <= sessions[j].last}
    IN  /\ At(b, "create")
        /\ logins < MaxLogins
        /\ \E victims \in IF Cardinality(kept) >= MaxSessions THEN {{i} : i \in oldest} ELSE {{}} :
              sessions' = [i \in (kept \ victims) \cup {id} |->
                              IF i = id THEN [created |-> sessionClock, last |-> sessionClock]
                              ELSE sessions[i]]
        /\ logins' = id
        /\ born' = [born EXCEPT ![id] = sessionClock]
        /\ Answer(b, id)
        /\ UNCHANGED <<sessionClock, limiterVars, revoked>>

\* Get drops an expired session and touches a live one.
Got(id) ==
    sessions' = IF Live(id) THEN [sessions EXCEPT ![id].last = sessionClock]
                ELSE Without(sessions, {id})

Revoke(id) ==
    /\ sessions' = Without(sessions, {id})
    /\ revoked' = IF id = NoCookie THEN revoked ELSE revoked \cup {id}

-----------------------------------------------------------------------------
(* session.LoginRateLimiter                                                *)

Locked(a) == a \in DOMAIN failures /\ sessionClock < failures[a].lockedUntil

Stale(a) ==
    /\ sessionClock - failures[a].first > Window
    /\ sessionClock > failures[a].lockedUntil

AttemptAllowed(a) ==
    /\ ~Locked(a)
    /\ failures' = IF a \in DOMAIN failures /\ Stale(a) THEN Without(failures, {a}) ELSE failures

(* At the cardinality limit, stale entries are purged and then an entry    *)
(* with the oldest failure is evicted.                                     *)
TrackedAfterEviction ==
    LET fresh == {x \in DOMAIN failures : ~Stale(x)}
    IN  IF Cardinality(DOMAIN failures) < MaxTrackedIPs THEN {DOMAIN failures}
        ELSE IF Cardinality(fresh) < MaxTrackedIPs THEN {fresh}
        ELSE {fresh \ {x} : x \in {y \in fresh : \A z \in fresh : failures[y].last <= failures[z].last}}

\* Mutant of Counted: the address is locked one failure too late.
CountedLate(e) ==
    [count |-> e.count + 1, first |-> e.first, last |-> sessionClock,
     lockedUntil |-> IF e.count + 1 > MaxAttempts THEN sessionClock + LockoutDuration
                     ELSE e.lockedUntil]

Counted(e) ==
    [count |-> e.count + 1, first |-> e.first, last |-> sessionClock,
     lockedUntil |-> IF e.count + 1 >= MaxAttempts THEN sessionClock + LockoutDuration
                     ELSE e.lockedUntil]

FirstFailure == [count |-> 1, first |-> sessionClock, last |-> sessionClock, lockedUntil |-> 0]

RecordFailure(a) ==
    \E tracked \in TrackedAfterEviction :
        failures' = [x \in tracked \cup {a} |->
            IF x # a THEN failures[x]
            ELSE IF x \in tracked /\ sessionClock - failures[x].first <= Window
                 THEN Counted(failures[x]) ELSE FirstFailure]

-----------------------------------------------------------------------------
(* POST /admin/ui/v1/session: handleSessionLogin                           *)

LoginAllowed(b, a) ==
    /\ At(b, "idle")
    /\ logins < MaxLogins /\ 2 * logins + failed < MaxFailures
    /\ AttemptAllowed(a)
    /\ browser' = [browser EXCEPT ![b].at = "credential", ![b].address = a]
    /\ UNCHANGED <<sessionClock, storeVars, failed>>

LoginRejected(b) ==
    /\ At(b, "credential")
    /\ 2 * logins + failed < MaxFailures
    /\ RecordFailure(browser[b].address)
    /\ failed' = failed + 1
    /\ Answer(b, Cookie(b))
    /\ UNCHANGED <<sessionClock, storeVars>>

\* A malformed body is answered before the credential is looked at.
LoginMalformed(b) ==
    /\ At(b, "credential")
    /\ Answer(b, Cookie(b))
    /\ UNCHANGED <<sessionClock, storeVars, limiterVars>>

LoginMatched(b) ==
    /\ At(b, "credential")
    /\ failures' = Without(failures, {browser[b].address})
    /\ GoTo(b, "rotate")
    /\ UNCHANGED <<sessionClock, storeVars, failed>>

\* The session of the old cookie ends before the new one begins.
LoginRotates(b) ==
    /\ At(b, "rotate")
    /\ Revoke(Cookie(b))
    /\ GoTo(b, "create")
    /\ UNCHANGED <<sessionClock, born, logins, limiterVars>>

-----------------------------------------------------------------------------
(* authenticate with a cookie, for an admin route or GET of the session.   *)

\* A safe method is accepted on the session alone.
GetSession(b, unsafe) ==
    /\ At(b, "idle")
    /\ Cookie(b) # NoCookie
    /\ Got(Cookie(b))
    /\ IF ~Live(Cookie(b)) THEN Answer(b, NoCookie)
       ELSE GoTo(b, IF unsafe THEN "csrf" ELSE "accepted")
    /\ UNCHANGED <<sessionClock, born, revoked, logins, limiterVars>>

\* Mutant of TokenMatches: the token is compared with the session read earlier.
TokenMatchesCopy(b) == TRUE

TokenMatches(b) == Live(Cookie(b))

\* ValidateCSRF looks the session up again; origin and token are right.
ValidateCSRF(b) ==
    /\ At(b, "csrf")
    /\ IF TokenMatches(b) THEN GoTo(b, "accepted") ELSE Answer(b, Cookie(b))
    /\ UNCHANGED <<sessionClock, storeVars, limiterVars>>

\* A wrong origin or a wrong token: 403.
UnsafeRejected(b) ==
    /\ At(b, "csrf")
    /\ Answer(b, Cookie(b))
    /\ UNCHANGED <<sessionClock, storeVars, limiterVars>>

RequestAnswered(b) ==
    /\ At(b, "accepted")
    /\ Answer(b, Cookie(b))
    /\ UNCHANGED <<sessionClock, storeVars, limiterVars>>

-----------------------------------------------------------------------------
(* DELETE of the session: handleSessionLogout                              *)

LogoutChecked(b) ==
    /\ At(b, "idle")
    /\ Cookie(b) # NoCookie
    /\ IF Live(Cookie(b)) THEN GoTo(b, "revoke") ELSE Answer(b, NoCookie)
    /\ UNCHANGED <<sessionClock, storeVars, limiterVars>>

LogoutRevokes(b) ==
    /\ At(b, "revoke")
    /\ Revoke(Cookie(b))
    /\ Answer(b, NoCookie)
    /\ UNCHANGED <<sessionClock, born, logins, limiterVars>>

\* A second tab shares the cookie jar of the first.
CopyCookie(b, c) ==
    /\ At(b, "idle")
    /\ b # c
    /\ Cookie(c) # Cookie(b)
    /\ Answer(b, Cookie(c))
    /\ UNCHANGED <<sessionClock, storeVars, limiterVars>>

SessionNext ==
    \/ SessionTick
    \/ \E b \in Browsers :
        \/ \E a \in Addresses : LoginAllowed(b, a)
        \/ LoginRejected(b) \/ LoginMalformed(b) \/ LoginMatched(b) \/ LoginRotates(b)
        \/ Create(b)
        \/ \E unsafe \in BOOLEAN : GetSession(b, unsafe)
        \/ ValidateCSRF(b) \/ UnsafeRejected(b) \/ RequestAnswered(b)
        \/ LogoutChecked(b) \/ LogoutRevokes(b)
        \/ \E c \in Browsers : CopyCookie(b, c)

SessionSpec == SessionInit /\ [][SessionNext]_sessionVars

-----------------------------------------------------------------------------
(* Properties                                                              *)

Accepts(b) == ~At(b, "accepted") /\ browser'[b].at = "accepted"

(***************************************************************************)
(* No request is accepted on a session that a logout or the rotation of a  *)
(* login has ended, wherever the request was when it ended, nor beyond the *)
(* absolute timeout counted from the login.                                *)
(***************************************************************************)
EndedSessionRefused ==
    [][\A b \in Browsers : Accepts(b) =>
            /\ Cookie(b) \notin revoked
            /\ sessionClock - born[Cookie(b)] <= AbsoluteTimeout]_sessionVars

(* A first failure never locks.  When a lockout ends within the window of  *)
(* the first failure, attempts are admitted again and counted further:     *)
(* with the default options, at the very instant at which both end.        *)
LockingCount == IF MaxAttempts = 1 THEN 2 ELSE MaxAttempts
Rounds == Window \div LockoutDuration + 1

(***************************************************************************)
(* Attempts are admitted before their credential is judged, so that some   *)
(* may be in flight when an address is locked; but an address never has    *)
(* more failures counted than the limit and, in each round between two     *)
(* lockouts, one for each other attempt that can be in flight; and the     *)
(* tracked addresses and the sessions stay bounded.                        *)
(***************************************************************************)
LockoutBound ==
    /\ \A a \in DOMAIN failures :
            failures[a].count <= LockingCount - 1 + Rounds * Cardinality(Browsers)
    /\ Cardinality(DOMAIN failures) <= MaxTrackedIPs
    /\ Cardinality(DOMAIN sessions) <= MaxSessions
=============================================================================
