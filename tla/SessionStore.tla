---------------------------- MODULE SessionStore ----------------------------
(***************************************************************************)
(* The in-process session store (backend/src/services/session-store.ts),   *)
(* the authentication middleware that slides a session's expiry            *)
(* (middleware/auth.middleware.ts), the cookies it keeps in browsers       *)
(* (lib/session-cookie.ts), and the account operations that open and close *)
(* sessions (services/auth.service.ts, routes/auth.routes.ts).             *)
(*                                                                         *)
(* Every action is a stretch of code between two awaits.  Time is counted  *)
(* in units that divide the three durations; what happens within a unit    *)
(* happens at the same Date.now().  A response reaches its browser at      *)
(* once.                                                                   *)
(***************************************************************************)
EXTENDS Integers, FiniteSets

CONSTANTS
    User, Browser,
    Id,               \* session ids; an id is never drawn twice
    NoCookie, Idle,   \* the browser holds no cookie, awaits no operation
    IDLE_TTL, ABSOLUTE_TTL,
    REFRESH,          \* COOKIE_REFRESH_THRESHOLD_MS
    MAX_SESSIONS,
    MaxTime           \* bound: the clock stops here

ASSUME SessionAssumption ==
    /\ IDLE_TTL \in Nat \ {0}
    /\ ABSOLUTE_TTL \in Nat \ {0}
    /\ REFRESH \in Nat
    /\ MAX_SESSIONS \in Nat \ {0}
    /\ MaxTime \in Nat

Session == [id : Id, user : User, created : Nat, expires : Nat, accessed : Nat]
Cookie == [id : Id, expires : Nat]
Work == [kind : {"change", "signout"}, user : User]

ASSUME NoValueAssumption == NoCookie \notin Cookie /\ Idle \notin Work

VARIABLES
    now,         \* Date.now()
    sessions,    \* the entries of the sessions Map
    unused,      \* ids not drawn yet
    sweeper,     \* sweeperTimer is set
    jar,         \* each browser's session cookie
    pending      \* the account operation a browser awaits, past requireAuth

vars == <<now, sessions, unused, sweeper, jar, pending>>

TypeOK ==
    /\ now \in Nat
    /\ sessions \subseteq Session
    /\ unused \subseteq Id
    /\ sweeper \in BOOLEAN
    /\ jar \in [Browser -> Cookie \cup {NoCookie}]
    /\ pending \in [Browser -> Work \cup {Idle}]

Init ==
    /\ now = 0
    /\ sessions = {}
    /\ unused = Id
    /\ sweeper = FALSE
    /\ jar = [b \in Browser |-> NoCookie]
    /\ pending = [b \in Browser |-> Idle]

Sooner(t, u) == IF t <= u THEN t ELSE u

-----------------------------------------------------------------------------
(* The store. *)

Swept(S) == {s \in S : s.expires > now}

LeastRecent(S) == {s \in S : \A t \in S : s.accessed <= t.accessed}

EvictFirst(S) ==
    IF Cardinality(S) < MAX_SESSIONS
    THEN {S}
    ELSE {S \ {s} : s \in LeastRecent(S)}

(* A full store is swept; if that is not enough, a session whose last access *)
(* is the oldest is evicted (any of several in the same unit of time).       *)
MadeRoom(S) ==
    IF Cardinality(S) < MAX_SESSIONS
    THEN {S}
    ELSE IF Cardinality(Swept(S)) < MAX_SESSIONS
         THEN {Swept(S)}
         ELSE {Swept(S) \ {s} : s \in LeastRecent(Swept(S))}

Unarmed == UNCHANGED sweeper

ensureSweeper == sweeper' = TRUE

OpenSession(S, i, u) ==
    /\ ensureSweeper
    /\ unused' = unused \ {i}
    /\ \E room \in MadeRoom(S) :
           sessions' = room \cup
               {[id |-> i, user |-> u, created |-> now, accessed |-> now,
                 expires |-> Sooner(now + IDLE_TTL, now + ABSOLUTE_TTL)]}

OthersThan(u) == {s \in sessions : s.user # u}

(* The expiry of a session that is used now. *)
Slide(s) == Sooner(now + IDLE_TTL, s.created + ABSOLUTE_TTL)

Extended(s) == [s EXCEPT !.expires = Slide(s), !.accessed = now]

Sweep ==
    /\ sweeper
    /\ sessions' = Swept(sessions)
    /\ UNCHANGED <<now, unused, sweeper, jar, pending>>

(* The process restarts: the Map is lost, and so are the requests in it. *)
Restart ==
    /\ sessions' = {}
    /\ sweeper' = FALSE
    /\ pending' = [b \in Browser |-> Idle]
    /\ UNCHANGED <<now, unused, jar>>

Tick ==
    /\ now < MaxTime
    /\ now' = now + 1
    /\ UNCHANGED <<sessions, unused, sweeper, jar, pending>>

-----------------------------------------------------------------------------
(* Browsers and the middleware. *)

(* setSessionCookie with its default lifetime *)
FreshCookie(i) == [id |-> i, expires |-> now + ABSOLUTE_TTL]

CookieForWholeCap(s) == FreshCookie(s.id)

(* setSessionCookie with the session's remaining lifetime *)
CookieFor(s) == [id |-> s.id, expires |-> Slide(s)]

(* The entry a browser's cookie leads to.  Browsers drop expired cookies. *)
Presented(b) ==
    {s \in sessions :
        jar[b] # NoCookie /\ jar[b].expires > now /\ s.id = jar[b].id}

(* requireAuth lets a request through: the session's expiry slides, and the *)
(* cookie is issued again if the session was about to expire.  The request  *)
(* may be one of those that will close sessions.                            *)
Serve(b, work) ==
    \E s \in Presented(b) :
        /\ s.expires > now
        /\ sessions' = (sessions \ {s}) \cup {Extended(s)}
        /\ jar' = IF s.expires - now < REFRESH
                  THEN [jar EXCEPT ![b] = CookieFor(s)]
                  ELSE jar
        /\ \/ work = "other"
              /\ UNCHANGED pending
           \/ work \in {"change", "signout"}
              /\ pending[b] = Idle
              /\ pending' = [pending EXCEPT
                                ![b] = [kind |-> work, user |-> s.user]]
        /\ UNCHANGED <<now, unused, sweeper>>

(* getSession meets an entry that has expired. *)
Refuse(b) ==
    \E s \in Presented(b) :
        /\ s.expires <= now
        /\ sessions' = sessions \ {s}
        /\ UNCHANGED <<now, unused, sweeper, jar, pending>>

-----------------------------------------------------------------------------
(* Account operations, from their last await on. *)

Login(b, u) ==
    \E i \in unused :
        /\ OpenSession(sessions, i, u)
        /\ jar' = [jar EXCEPT ![b] = FreshCookie(i)]
        /\ UNCHANGED <<now, pending>>

Logout(b) ==
    /\ jar[b] # NoCookie
    /\ sessions' = sessions \ Presented(b)
    /\ jar' = [jar EXCEPT ![b] = NoCookie]
    /\ UNCHANGED <<now, unused, sweeper, pending>>

(* Every session of the user is closed, then one is opened for the caller. *)
ChangePassword(b) ==
    /\ pending[b] # Idle /\ pending[b].kind = "change"
    /\ \E i \in unused :
           /\ OpenSession(OthersThan(pending[b].user), i, pending[b].user)
           /\ jar' = [jar EXCEPT ![b] = FreshCookie(i)]
    /\ pending' = [pending EXCEPT ![b] = Idle]
    /\ UNCHANGED now

(* signOutEverywhere, deleteAccount *)
SignOutEverywhere(b) ==
    /\ pending[b] # Idle /\ pending[b].kind = "signout"
    /\ sessions' = OthersThan(pending[b].user)
    /\ jar' = [jar EXCEPT ![b] = NoCookie]
    /\ pending' = [pending EXCEPT ![b] = Idle]
    /\ UNCHANGED <<now, unused, sweeper>>

(* Either of them ends in an error instead (a wrong password, say). *)
Fail(b) ==
    /\ pending[b] # Idle
    /\ pending' = [pending EXCEPT ![b] = Idle]
    /\ UNCHANGED <<now, sessions, unused, sweeper, jar>>

(* By recovery code, without a session. *)
ResetPassword(u) ==
    /\ sessions' = OthersThan(u)
    /\ UNCHANGED <<now, unused, sweeper, jar, pending>>

Next ==
    \/ Tick \/ Sweep \/ Restart
    \/ \E b \in Browser :
           \/ \E work \in {"other", "change", "signout"} : Serve(b, work)
           \/ Refuse(b)
           \/ \E u \in User : Login(b, u)
           \/ Logout(b) \/ ChangePassword(b) \/ SignOutEverywhere(b) \/ Fail(b)
    \/ \E u \in User : ResetPassword(u)

Spec == Init /\ [][Next]_vars

(* setInterval keeps sweeping. *)
FairSpec == Spec /\ WF_vars(Sweep)

-----------------------------------------------------------------------------
(* However requests, logins and the clock interleave, a session expires at  *)
(* the earlier of its idle limit, counted from its last use, and its        *)
(* absolute limit, counted from its login: the slide never pushes it        *)
(* further, nor leaves it behind (extendSessionExpiry, openSession).        *)
ExpiryExact ==
    \A s \in sessions :
        s.expires = Sooner(s.accessed + IDLE_TTL, s.created + ABSOLUTE_TTL)

(* Ids lead to one entry each, and the Map never outgrows its limit.        *)
Bounded ==
    /\ \A s, t \in sessions : s.id = t.id => s = t
    /\ Cardinality(sessions) <= MAX_SESSIONS

(* "Sweep expired entries first; only force-evict a live one if still full" *)
(* (openSession): a login costs another user a live session only when the   *)
(* store is full of live sessions, and then one not used for longest.       *)
LoginSparesOthers ==
    [][\A s \in sessions, n \in sessions' :
           (/\ s.expires > now /\ n.id \in unused /\ n.user # s.user
            /\ \A t \in sessions' : t.id # s.id)
               => /\ Cardinality({t \in sessions : t.expires > now})
                         >= MAX_SESSIONS
                  /\ \A t \in sessions : t.expires > now
                         => s.accessed <= t.accessed]_vars

(* No cookie outlives the absolute limit of the session it leads to,        *)
(* however often it has been issued again (requireAuth).                    *)
CookieWithinCap ==
    \A b \in Browser, s \in sessions :
        jar[b] # NoCookie /\ jar[b].id = s.id
            => jar[b].expires <= s.created + ABSOLUTE_TTL

(* An expired session does not keep its data key in memory for ever, even   *)
(* if its cookie is never presented again.                                  *)
ExpiredSwept ==
    \A i \in Id :
        (\E s \in sessions : s.id = i /\ s.expires <= now)
            ~> (\A s \in sessions : s.id # i)
=============================================================================
