---------------------------- MODULE AccountPages ----------------------------
(***************************************************************************)
(* The pages on which an account is made, entered, recovered and managed   *)
(* (frontend/src/pages/RegisterPage.tsx, LoginPage.tsx,                    *)
(* ResetPasswordPage.tsx, components/AccountPrivacyModal.tsx and the cards *)
(* and forms they show), and what becomes of the recovery code, which the  *)
(* server sends once and cannot show again.                                *)
(*                                                                         *)
(* An answer goes to the page instance that asked; the api client, the     *)
(* sign-in and the sign-outs act whether that page is still there or not.  *)
(* Codes and sessions are numbered as the server issues them; the server   *)
(* handles a request in one step (Account has its statements).  A form's   *)
(* fields are reduced to whether the secret given is right.                *)
(***************************************************************************)
EXTENDS Naturals, FiniteSets

CONSTANTS
    MaxCodes,     \* bound: recovery codes the server issues
    MaxLogins,    \* bound: sessions it opens
    MaxViews,     \* bound: page instances
    MaxCalls      \* bound: calls under way

PagesAssumption == {MaxCodes, MaxLogins, MaxViews, MaxCalls} \subseteq Nat

Page == {"register", "login", "reset", "home", "editor"}
Private == {"home", "editor"}
Stage == {"form", "handoff", "logging-in", "login-failed", "sections", "code", "delete"}
Kind == {"register", "login", "me", "reset", "logout",
         "name", "change", "rotate", "leave", "delete"}
Call == [kind : Kind, view : Nat, cookie : Nat, good : BOOLEAN,
         ans : {"none", "ok", "wrong", "401", "failed"}, got : Nat]

VARIABLES
    code, issued,          \* the server: the account's code (0: no account), codes issued
    live, minted,          \* its sessions that live, sessions it opened
    cookie, status, expired, \* the browser's cookie (0: none), the session store
    page, view, stage,     \* the page, which instance it is, and its stage
    open,                  \* the account modal is open
    card, ticked,          \* the code this page holds (0: none), its card's checkbox
    busy,                  \* calls this page's forms are waiting for
    calls,
    (* history *)
    saved,                 \* the code the user last confirmed to have stored
    perils

server == <<code, issued, live, minted>>
session == <<cookie, status, expired>>
screen == <<page, view, stage, open, card, ticked, busy>>
vars == <<server, session, screen, calls, saved, perils>>

TypeOK ==
    /\ code \in 0..issued /\ issued \in 0..MaxCodes
    /\ live \subseteq 1..minted /\ minted \in 0..MaxLogins
    /\ cookie \in 0..minted /\ status \in {"loading", "in", "out"} /\ expired \in BOOLEAN
    /\ page \in Page /\ view \in 1..MaxViews /\ stage \in Stage /\ open \in BOOLEAN
    /\ card \in 0..issued /\ ticked \in BOOLEAN /\ busy \subseteq Kind
    /\ calls \subseteq Call /\ saved \in 0..issued
    /\ perils \subseteq {"left", "reloaded", "lost", "ended", "again"}

(* The app boots: on a public page without an account, or on either kind of *)
(* page with a session of an account whose code was stored.                 *)
Boot(v, c) == [kind |-> "me", view |-> v, cookie |-> c, good |-> TRUE, ans |-> "none", got |-> 0]
FirstStage(p) == IF p = "editor" THEN "sections" ELSE "form"

Init ==
    /\ \/ code = 0 /\ minted = 0 /\ page \in {"register", "login"}
       \/ code = 1 /\ minted = 1 /\ page \in {"login", "home"}
    /\ issued = code /\ saved = code /\ live = 1..minted /\ cookie = minted
    /\ status = "loading" /\ expired = FALSE
    /\ view = 1 /\ stage = FirstStage(page) /\ open = FALSE
    /\ card = 0 /\ ticked = FALSE /\ busy = {}
    /\ calls = {Boot(1, cookie)} /\ perils = {}

(* Calls that bring a code. *)
Coded(cs) == {c \in cs : c.kind \in {"register", "rotate"}}

(* What is at stake on this page when it goes: a code shown and not stored, *)
(* or one on its way here.                                                  *)
AtStake(cs) == card \notin {0, saved} \/ \E c \in Coded(cs) : c.view = view

(* A page is mounted: its state is fresh. *)
Mount(p) ==
    /\ view < MaxViews
    /\ page' = p /\ view' = view + 1 /\ stage' = FirstStage(p) /\ open' = FALSE
    /\ card' = 0 /\ ticked' = FALSE /\ busy' = {}

-----------------------------------------------------------------------------
(* Forms.                                                                   *)

Send(kind, good) ==
    /\ kind \notin busy /\ Cardinality(calls) < MaxCalls
    /\ busy' = busy \cup {kind}
    /\ calls' = calls \cup {[kind |-> kind, view |-> view, cookie |-> cookie, good |-> good,
                             ans |-> "none", got |-> 0]}
    /\ UNCHANGED <<server, session, page, view, open, card, ticked, saved>>

(* AuthForm: one submission at a time. *)
SubmitRegister ==
    /\ page = "register" /\ stage = "form" /\ Send("register", TRUE)
    /\ UNCHANGED <<stage, perils>>
SubmitLogin(good) ==
    /\ page = "login" /\ Send("login", good) /\ UNCHANGED <<stage, perils>>

(* ResetPasswordForm: the code the user has stored, or another one. *)
SubmitReset(good) ==
    /\ page = "reset" /\ Send("reset", good /\ code \in {saved} \ {0})
    /\ UNCHANGED <<stage, perils>>

(* RecoveryCodeCard. *)
Tick ==
    /\ card # 0 /\ stage \in {"handoff", "code"} /\ (page = "editor" => open)
    /\ ticked' = ~ticked
    /\ UNCHANGED <<server, session, page, view, stage, open, card, busy, calls, saved, perils>>

(* "Continue to Inkwell": the sign-in that follows the handoff. *)
Continue ==
    /\ page = "register" /\ stage = "handoff" /\ ticked
    /\ Cardinality(calls) < MaxCalls
    /\ saved' = card /\ stage' = "logging-in"
    /\ calls' = calls \cup {[kind |-> "login", view |-> view, cookie |-> cookie, good |-> TRUE,
                             ans |-> "none", got |-> 0]}
    /\ UNCHANGED <<server, session, page, view, open, card, ticked, busy, perils>>

-----------------------------------------------------------------------------
(* The account modal.                                                       *)

Sections == page = "editor" /\ open /\ stage = "sections"

OpenModal ==
    /\ page = "editor" /\ ~open /\ open' = TRUE
    /\ UNCHANGED <<server, session, page, view, stage, card, ticked, busy, calls, saved, perils>>

(* Done, the close button, Escape, the backdrop; the takeovers allow none.  *)
(* The sections are unmounted, and their pending states with them.          *)
Closes == stage = "sections" /\ open' = FALSE /\ UNCHANGED <<stage, card>>
CloseModal ==
    /\ page = "editor" /\ open /\ Closes
    /\ busy' = {} /\ ticked' = FALSE
    /\ UNCHANGED <<server, session, page, view, calls, saved, perils>>

(* DisplayNameSection, ChangePasswordSection, SignOutEverywhereSection. *)
SubmitName == Sections /\ Send("name", TRUE) /\ UNCHANGED <<stage, perils>>
SubmitChange(good) == Sections /\ Send("change", good) /\ UNCHANGED <<stage, perils>>
SignOutEverywhere == Sections /\ Send("leave", TRUE) /\ UNCHANGED <<stage, perils>>

(* RotateRecoverySection: a section mounted again does not know of the      *)
(* rotation the one before it asked for.                                    *)
SubmitRotate(good) ==
    /\ Sections /\ Send("rotate", good) /\ UNCHANGED stage
    /\ perils' = perils \cup {p \in {"again"} : Coded(calls) # {}}

(* DeleteAccountSection's takeover unmounts the sections. *)
OpenDelete ==
    /\ Sections /\ stage' = "delete" /\ busy' = {}
    /\ UNCHANGED <<server, session, page, view, open, card, ticked, calls, saved, perils>>
SubmitDelete(good) ==
    /\ page = "editor" /\ stage = "delete" /\ Send("delete", good) /\ UNCHANGED <<stage, perils>>

(* dismissTakeover: the card's Done, which its checkbox gates, and the      *)
(* delete form's Cancel, which its pending call disables.                   *)
Dismiss ==
    /\ page = "editor" /\ open
    /\ \/ stage = "code" /\ ticked /\ saved' = card
       \/ stage = "delete" /\ "delete" \notin busy /\ saved' = saved
    /\ stage' = "sections" /\ card' = 0 /\ ticked' = FALSE /\ busy' = {}
    /\ UNCHANGED <<server, session, page, view, open, calls, perils>>

(* UserMenu's "Sign out". *)
SignOut ==
    /\ page = "editor" /\ status = "in" /\ ~open
    /\ Send("logout", TRUE) /\ UNCHANGED <<stage, perils>>

-----------------------------------------------------------------------------
(* The server.                                                              *)

Answered(c, ans, got) == calls' = (calls \ {c}) \cup {[c EXCEPT !.ans = ans, !.got = got]}

(* requireAuth. *)
Authorized(c) == c.kind \notin {"register", "login", "reset", "logout"} => c.cookie \in live

Outcome(c) ==
    IF ~Authorized(c) THEN "401"
    ELSE IF ~c.good \/ (c.kind \in {"login", "reset"} /\ code = 0) THEN "wrong"
    ELSE IF c.kind = "register" /\ code # 0 THEN "failed"      \* 409: the name is taken
    ELSE "ok"

Serve(c) ==
    /\ c.ans = "none"
    /\ \/ /\ Outcome(c) # "ok" \/ c.kind \in {"me", "name"}
          /\ Answered(c, Outcome(c), 0) /\ UNCHANGED server
       \/ /\ Outcome(c) = "ok" /\ c.kind \in {"register", "rotate"} /\ issued < MaxCodes
          /\ issued' = issued + 1 /\ code' = issued' /\ Answered(c, "ok", issued')
          /\ UNCHANGED <<live, minted>>
       \/ /\ Outcome(c) = "ok" /\ c.kind \in {"login", "change"} /\ minted < MaxLogins
          /\ minted' = minted + 1 /\ Answered(c, "ok", minted')
          /\ live' = (IF c.kind = "change" THEN {} ELSE live) \cup {minted'}
          /\ UNCHANGED <<code, issued>>
       \/ /\ Outcome(c) = "ok" /\ c.kind \in {"reset", "leave", "delete", "logout"}
          /\ live' = IF c.kind = "logout" THEN live \ {c.cookie} ELSE {}
          /\ code' = IF c.kind = "delete" THEN 0 ELSE code
          /\ Answered(c, "ok", 0) /\ UNCHANGED <<issued, minted>>
    /\ UNCHANGED <<session, screen, saved, perils>>

(* The request, or the answer, does not arrive; or the server fails. *)
Lose(c) ==
    /\ c.ans \in {"none", "ok"} /\ Answered(c, "failed", 0)
    /\ perils' = perils \cup {p \in {"lost"} : c.ans = "ok" /\ c.kind \in {"register", "rotate"}}
    /\ UNCHANGED <<server, session, screen, saved>>

-----------------------------------------------------------------------------
(* Answers.                                                                 *)

Rest(c) == calls' = calls \ {c}
Here(c) == c.view = view

(* handleUnauthorizedAccess: any 401 of a signed-in tab, a wrong password   *)
(* included, is an expiry, and RequireAuth leaves the private pages.        *)
EndsSession(c) == c.ans \in {"401", "wrong"} /\ status = "in"

SignedOut(over) == status' = "out" /\ expired' = over

LeaveFor(p, stay, c) ==
    IF stay THEN UNCHANGED screen /\ UNCHANGED perils
    ELSE /\ Mount(p)
         /\ perils' = perils \cup {q \in {"ended"} : AtStake(calls \ {c})}

Expired(c) ==
    /\ EndsSession(c) /\ SignedOut(c.kind # "me") /\ UNCHANGED cookie
    /\ LeaveFor("login", page \notin Private, c)

(* goLoggedOut and logout, which do without an answer: the client state is  *)
(* cleared and the user sent to /login from wherever the tab is.            *)
GoesLoggedOut(c) ==
    /\ ~EndsSession(c)
    /\ c.kind = "logout" \/ (c.kind \in {"leave", "delete"} /\ c.ans = "ok")
    /\ SignedOut(FALSE) /\ cookie' = IF c.ans = "ok" THEN 0 ELSE cookie
    /\ LeaveFor("login", page = "login", c)

(* swapSession and setSession; the public pages give way to a user. *)
SignsIn(c) ==
    /\ c.kind \in {"login", "me"} /\ c.ans = "ok"
    /\ status' = "in" /\ expired' = FALSE
    /\ cookie' = IF c.kind = "login" THEN c.got ELSE cookie
    /\ LeaveFor("home", page \notin {"register", "login"}, c)

(* initAuth's catch: the private pages are left. *)
BootFails(c) ==
    /\ ~EndsSession(c) /\ c.kind = "me" /\ c.ans # "ok"
    /\ SignedOut(FALSE) /\ UNCHANGED cookie
    /\ LeaveFor("login", page \notin Private, c)

(* Faulty variant: a code is for the form that asked, if it is still there. *)
TakenBySection(c) ==
    IF "rotate" \in busy THEN stage' = "code" /\ card' = c.got ELSE UNCHANGED <<stage, card>>

(* onCodeIssued: the modal's state, not the section's. *)
Taken(c) == stage' = "code" /\ card' = c.got

(* A code for the page that asked. *)
CodeComes(c) ==
    /\ Here(c) /\ c.ans = "ok" /\ c.kind \in {"register", "rotate"}
    /\ IF c.kind = "register" THEN stage' = "handoff" /\ card' = c.got ELSE Taken(c)
    /\ ticked' = FALSE /\ busy' = {}
    /\ UNCHANGED <<session, page, view, open, perils>>

(* The password changed, and the cookie with it; the reset done, and the    *)
(* user sent to /login; or an error or a success the form reports.          *)
Reports(c) ==
    /\ ~EndsSession(c) /\ c.kind \notin {"me", "logout"}
    /\ ~(c.ans = "ok" /\ c.kind \in {"login", "leave", "delete"})
    /\ ~(Here(c) /\ c.ans = "ok" /\ c.kind \in {"register", "rotate"})
    /\ cookie' = IF c.kind = "change" /\ c.ans = "ok" THEN c.got ELSE cookie
    /\ UNCHANGED <<status, expired>>
    /\ IF Here(c) /\ c.kind = "reset" /\ c.ans = "ok"
       THEN Mount(IF status = "in" THEN "home" ELSE "login") /\ UNCHANGED perils
       ELSE /\ busy' = IF Here(c) THEN busy \ {c.kind} ELSE busy
            /\ stage' = IF Here(c) /\ stage = "logging-in" /\ c.kind = "login"
                        THEN "login-failed" ELSE stage
            /\ UNCHANGED <<page, view, open, card, ticked, perils>>

Answer(c) ==
    /\ c.ans # "none"
    /\ \/ Expired(c) \/ GoesLoggedOut(c) \/ SignsIn(c)
       \/ BootFails(c) \/ CodeComes(c) \/ Reports(c)
    /\ Rest(c) /\ UNCHANGED <<server, saved>>

-----------------------------------------------------------------------------
(* Getting about.                                                           *)

(* Links and the browser's back button, and the guards of the routes. *)
Go(p) ==
    /\ p # page /\ Mount(p)
    /\ status = "out" => p \notin Private
    /\ status = "in" => p \notin {"register", "login"}
    /\ perils' = perils \cup {q \in {"left"} : AtStake(calls)}
    /\ UNCHANGED <<server, session, calls, saved>>

(* The page's memory goes, and the answers on their way with it; a request  *)
(* the server has not handled by then is taken for one it never got.        *)
Reload ==
    /\ Mount(page)
    /\ status' = "loading" /\ expired' = FALSE /\ UNCHANGED cookie
    /\ calls' = {Boot(view', cookie)}
    /\ perils' = perils \cup {q \in {"reloaded"} : AtStake(calls)}
    /\ UNCHANGED <<server, saved>>

Next ==
    \/ SubmitRegister \/ Tick \/ Continue
    \/ \E good \in BOOLEAN :
          \/ SubmitLogin(good) \/ SubmitReset(good) \/ SubmitChange(good)
          \/ SubmitRotate(good) \/ SubmitDelete(good)
    \/ OpenModal \/ CloseModal \/ SubmitName \/ SignOutEverywhere
    \/ OpenDelete \/ Dismiss \/ SignOut
    \/ \E c \in calls : Serve(c) \/ Lose(c) \/ Answer(c)
    \/ \E p \in Page : Go(p)
    \/ Reload

Spec == Init /\ [][Next]_vars

-----------------------------------------------------------------------------
(* Once no code is on its way, the account's recovery code has been stored  *)
(* by the user or is held by the page, which gives it up only for the       *)
(* card's confirmation: "We will not show it again"                         *)
(* (RecoveryCodeHandoff.tsx, AccountPrivacyModal.tsx).  Unless the user     *)
(* left or reloaded the page, the session ended under it, the answer was    *)
(* lost, or a second rotation was asked for during the first.               *)
CodeReachesUser ==
    code # 0 /\ Coded(calls) = {} /\ perils = {} => code \in {saved, card}

(* A wrong password is the form's own error: it "surfaces inline error and  *)
(* stays in takeover with values preserved" (AccountPrivacy.test.tsx:365).  *)
WrongPasswordStays ==
    [][\A c \in calls :
          c.ans = "wrong" /\ Here(c) /\ Rest(c) => <<page', stage'>> = <<page, stage>>]_vars
=============================================================================
