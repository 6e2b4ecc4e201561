--------------------------- MODULE ClientSession ---------------------------
(***************************************************************************)
(* Who a browser tab believes is signed in, and whose data it holds        *)
(* (frontend/src/store/session.ts, lib/sessionReset.ts, lib/api.ts,        *)
(* lib/streamRegistry.ts, hooks/useAuth.ts, hooks/useAccount.ts).          *)
(*                                                                         *)
(* Requests carry the cookie the browser has when they are sent, are       *)
(* decided by the server later and answered later still, in any order.     *)
(* A reset of the client state aborts streams and cancels queries; a       *)
(* cancelled query's own fetch goes on, since no query passes its signal   *)
(* to the api client, and so may still answer 401.  Mutations are not      *)
(* cancelled.  cancelQueries settles within the microtasks of the task     *)
(* that calls it, so a reset and what follows it are one step.             *)
(***************************************************************************)
EXTENDS Naturals, FiniteSets, Sequences

CONSTANTS
    User,
    Nobody,        \* no user: a model value outside User
    MaxSession,    \* bound: sessions the server opens for this browser
    MaxRequests    \* bound: requests under way

ClientAssumption ==
    Nobody \notin User /\ {MaxSession, MaxRequests} \subseteq Nat

Sid == 1..MaxSession
Kind == {"me", "login", "logout", "leave", "query", "cancelled",
         "mutation", "profile", "stream"}
Request == [kind : Kind, sid : Sid \cup {0}, era : Nat, state : {"sent", "ok", "401", "failed"},
            as : User \cup {Nobody}]

VARIABLES
    status, user, expired,  \* the session store
    cache,                  \* whose answers the query cache holds
    stores,                 \* whose text the per-user stores hold
    cookie,                 \* the session the browser's cookie names, or 0
    owner, live,            \* the server: whose each session is, which live
    requests,
    (* history *)
    mine, era,              \* the session of the last sign-in, how many there were
    lapsed,                 \* sessions ended otherwise than by signing out here
    perils                  \* which hazards have materialised

slice == <<status, user, expired>>
server == <<owner, live, lapsed>>
vars == <<slice, cache, stores, cookie, server, requests, mine, era, perils>>

TypeOK ==
    /\ status \in {"loading", "authenticated", "unauthenticated"}
    /\ user \in User \cup {Nobody} /\ expired \in BOOLEAN
    /\ cache \subseteq User /\ stores \subseteq User
    /\ owner \in Seq(User) /\ Len(owner) <= MaxSession
    /\ live \subseteq DOMAIN owner /\ lapsed \subseteq DOMAIN owner \ live
    /\ {cookie, mine} \subseteq DOMAIN owner \cup {0}
    /\ requests \subseteq Request /\ Cardinality(requests) <= MaxRequests
    /\ perils \subseteq {"mutation", "late", "boot", "jar"}

(* The app boots with or without a session of its own and asks who it is. *)
Asks == [kind |-> "me", sid |-> cookie, era |-> 0, state |-> "sent", as |-> Nobody]

Init ==
    /\ status = "loading" /\ user = Nobody /\ expired = FALSE
    /\ cache = {} /\ stores = {}
    /\ \/ owner = <<>> /\ cookie = 0
       \/ \E u \in User : owner = <<u>> /\ cookie = 1
    /\ live = DOMAIN owner /\ lapsed = {}
    /\ requests = {Asks}
    /\ mine = 0 /\ era = 0 /\ perils = {}

SignedIn == status = "authenticated"

-----------------------------------------------------------------------------
(* Requests.                                                                *)

Send(kind, as) ==
    /\ Cardinality(requests) < MaxRequests
    /\ requests' = requests \cup {[kind |-> kind, sid |-> cookie, era |-> era,
                                   state |-> "sent", as |-> as]}
    /\ UNCHANGED <<slice, cache, stores, cookie, server, mine, era, perils>>

(* LoginPage: without a user, one form, one submission at a time. *)
SubmitLogin(u) ==
    /\ user = Nobody /\ \A r \in requests : r.kind # "login"
    /\ Send("login", u)

(* The signed-in pages. *)
Use(kind) == SignedIn /\ Send(kind, Nobody)

(* What is typed or selected goes to the per-user stores. *)
Compose ==
    /\ SignedIn /\ stores' = stores \cup {user}
    /\ UNCHANGED <<slice, cache, cookie, server, requests, mine, era, perils>>

Decided(r, state) == requests' = (requests \ {r}) \cup {[r EXCEPT !.state = state]}

(* The server handles a request: login opens a session, logout closes its   *)
(* own, sign-out-everywhere and delete-account every one of the user's;     *)
(* the rest are behind requireAuth.                                         *)
Serve(r) ==
    /\ r.state = "sent"
    /\ \/ /\ r.kind = "login" /\ Len(owner) < MaxSession
          /\ owner' = Append(owner, r.as) /\ live' = live \cup {Len(owner')}
          /\ requests' = (requests \ {r})
                \cup {[r EXCEPT !.state = "ok", !.sid = Len(owner')]}
          /\ UNCHANGED lapsed
       \/ r.kind = "login" /\ Decided(r, "401") /\ UNCHANGED server
       \/ /\ r.kind = "logout" /\ live' = live \ {r.sid}
          /\ Decided(r, "ok") /\ UNCHANGED <<owner, lapsed>>
       \/ /\ r.kind = "leave" /\ r.sid \in live
          /\ LET closed == {s \in live : owner[s] = owner[r.sid]}
             IN  live' = live \ closed /\ lapsed' = lapsed \cup closed
          /\ Decided(r, "ok") /\ UNCHANGED owner
       \/ /\ r.kind \notin {"login", "logout", "leave"} /\ r.sid \in live
          /\ Decided(r, "ok") /\ UNCHANGED server
       \/ /\ r.kind \notin {"login", "logout"} /\ r.sid \notin live
          /\ Decided(r, "401") /\ UNCHANGED server
    /\ UNCHANGED <<slice, cache, stores, cookie, mine, era, perils>>

(* The network, or a server error. *)
Lose(r) ==
    /\ r.state = "sent" /\ Decided(r, "failed")
    /\ UNCHANGED <<slice, cache, stores, cookie, server, mine, era, perils>>

-----------------------------------------------------------------------------
(* The reset, and what follows an answer.                                   *)

(* Faulty variant: the streams are left running. *)
ResetButStreams(rs) ==
    {IF r.kind = "query" THEN [r EXCEPT !.kind = "cancelled"] ELSE r : r \in rs}

(* abortAllStreams, cancelQueries *)
Reset(rs) ==
    {IF r.kind = "query" THEN [r EXCEPT !.kind = "cancelled"] ELSE r :
        r \in {q \in rs : q.kind # "stream"}}

(* resetClientState, while r is answered. *)
ResetClientState(r) ==
    cache' = {} /\ stores' = {} /\ requests' = Reset(requests \ {r})

ClearSession(over) == status' = "unauthenticated" /\ user' = Nobody /\ expired' = over

SetSession(sid) ==
    /\ status' = "authenticated" /\ user' = owner[sid] /\ expired' = FALSE
    /\ mine' = sid /\ era' = era + 1

(* Dangers that r's answer brings about. *)
Late(r) ==
    {p \in {"late"} : SignedIn /\ r.era # era
                      /\ (r.state = "401" \/ r.kind \in {"logout", "leave"})}
    \cup {p \in {"boot"} : r.kind = "me" /\ status # "loading"}
    \cup {p \in {"mutation"} : /\ r.kind \in {"mutation", "profile"}
                               /\ r.state = "ok" /\ (~SignedIn \/ r.era # era)}

(* Faulty variant: any 401 is an expiry. *)
HandlesEvery(r) == TRUE

(* handleUnauthorizedAccess is for a session that is active. *)
HandlesUnauthorized(r) == SignedIn

Unauthorized(r) ==
    /\ r.state = "401"
    /\ IF HandlesUnauthorized(r)
       THEN ResetClientState(r) /\ ClearSession(r.kind # "me")   \* initAuth's catch clears the flag
       ELSE /\ requests' = requests \ {r} /\ UNCHANGED <<cache, stores>>
            /\ IF r.kind = "me" THEN ClearSession(FALSE) ELSE UNCHANGED slice
    /\ UNCHANGED <<cookie, mine, era>>

(* initAuth's catch. *)
BootFails == ClearSession(FALSE)

(* initAuth, but for the 401. *)
Booted(r) ==
    /\ r.kind = "me" /\ r.state \in {"ok", "failed"}
    /\ IF r.state = "ok" THEN SetSession(r.sid)
       ELSE BootFails /\ UNCHANGED <<mine, era>>
    /\ requests' = requests \ {r}
    /\ UNCHANGED <<cache, stores, cookie>>

(* login: swapSession. *)
LoggedIn(r) ==
    /\ r.kind = "login" /\ r.state = "ok"
    /\ cookie' = r.sid /\ ResetClientState(r) /\ SetSession(r.sid)

(* The session store after a sign-out. *)
Closes == ClearSession(FALSE)

(* The answers after which the session is cleared. *)
SignsOut(r) == r.kind = "logout" \/ (r.kind = "leave" /\ r.state = "ok")

(* logout (whatever the answer), goLoggedOut. *)
LoggedOut(r) ==
    /\ r.state \in {"ok", "failed"} /\ SignsOut(r)
    /\ cookie' = IF r.state = "ok" THEN 0 ELSE cookie
    /\ ResetClientState(r) /\ Closes
    /\ UNCHANGED <<mine, era>>

(* What answers leave: a query's data, a mutation's setQueryData, the       *)
(* profile's setUser; nothing of a cancelled query or of a failure.         *)
Kept(r) ==
    LET left(kinds) == {owner[q.sid] : q \in {q \in {r} : q.kind \in kinds /\ q.state = "ok"}}
    IN  /\ r.state \in {"ok", "failed"} /\ ~SignsOut(r)
        /\ r.kind \notin {"me", "stream"} /\ ~(r.kind = "login" /\ r.state = "ok")
        /\ requests' = requests \ {r}
        /\ cache' = cache \cup left({"query", "mutation"})
        /\ user' = IF left({"profile"}) = {} THEN user ELSE owner[r.sid]
        /\ UNCHANGED <<status, expired, stores, cookie, mine, era>>

Answer(r) ==
    /\ Unauthorized(r) \/ Booted(r) \/ LoggedIn(r) \/ LoggedOut(r) \/ Kept(r)
    /\ perils' = perils \cup Late(r)
    /\ UNCHANGED server

(* A chunk of a stream, and its end. *)
Chunk(r) ==
    /\ r.kind = "stream" /\ r.state = "ok" /\ stores' = stores \cup {owner[r.sid]}
    /\ UNCHANGED <<slice, cache, cookie, server, requests, mine, era, perils>>
StreamEnds(r) ==
    /\ r.kind = "stream" /\ r.state \in {"ok", "failed"} /\ requests' = requests \ {r}
    /\ UNCHANGED <<slice, cache, stores, cookie, server, mine, era, perils>>

-----------------------------------------------------------------------------
(* Elsewhere.                                                               *)

(* A session reaches its expiry, is evicted or closed from another device. *)
Lapse(s) ==
    /\ s \in live /\ live' = live \ {s} /\ lapsed' = lapsed \cup {s}
    /\ UNCHANGED <<slice, cache, stores, cookie, owner, requests, mine, era, perils>>

(* Another tab of the same browser signs in: the cookie is everyone's. *)
OtherTab(u) ==
    /\ Len(owner) < MaxSession
    /\ owner' = Append(owner, u) /\ live' = live \cup {Len(owner')}
    /\ cookie' = Len(owner') /\ perils' = perils \cup {"jar"}
    /\ UNCHANGED <<slice, cache, stores, lapsed, requests, mine, era>>

Next ==
    \/ \E u \in User : SubmitLogin(u) \/ OtherTab(u)
    \/ \E k \in {"logout", "leave", "query", "mutation", "profile", "stream"} : Use(k)
    \/ Compose
    \/ \E r \in requests : Serve(r) \/ Lose(r) \/ Answer(r) \/ Chunk(r) \/ StreamEnds(r)
    \/ \E s \in live : Lapse(s)

Spec == Init /\ [][Next]_vars

-----------------------------------------------------------------------------
(* The tab holds the signed-in user's data and nobody else's, and nothing   *)
(* once it is signed out ("a previous user's stream can't push tokens into  *)
(* the next user's freshly-reset state", lib/streamRegistry.ts), unless a   *)
(* mutation outlived its session, the boot's answer came after a login, or  *)
(* another tab changed the cookie.                                          *)
NoStrangersData ==
    perils \cap {"mutation", "boot", "jar"} = {}
        => \A u \in cache \cup stores : SignedIn /\ u = user

(* The banner "Your session has expired" is shown of a session that did end *)
(* without the user's doing here, unless an answer to an earlier session's  *)
(* request came late or a sign-out is under way.                            *)
ExpiryIsReal ==
    /\ expired
    /\ perils \cap {"late", "boot", "jar"} = {}
    /\ \A r \in requests : r.kind # "logout"
    => mine \in lapsed
=============================================================================
