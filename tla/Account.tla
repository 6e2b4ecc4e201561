------------------------------ MODULE Account ------------------------------
(***************************************************************************)
(* One username's account: its row with the password hash and the two      *)
(* wraps of the data key, the sessions that hold the key, and the          *)
(* operations on them (backend/src/services/auth.service.ts,               *)
(* services/content-crypto.service.ts, routes/auth.routes.ts).             *)
(*                                                                         *)
(* An operation reads the row, works on secrets for several awaits, writes *)
(* the row, and goes on when the database has answered; others run in      *)
(* between.  A data key is named by the account it was drawn for.  The     *)
(* store's limits and expiries are SessionStore's subject.                 *)
(***************************************************************************)
EXTENDS Integers, FiniteSets

CONSTANTS
    Password,
    MaxUid,      \* bound: registrations
    MaxCode,     \* bound: recovery codes drawn
    MaxJobs      \* bound: operations under way

ASSUME AccountAssumption == {MaxUid, MaxCode, MaxJobs} \subseteq Nat

Uid == 1..MaxUid
Code == 1..MaxCode
Row == [uid : Uid, hash : Password,
        pwrap : [by : Password, key : Uid], rwrap : [by : Code, key : Uid]]
Session == [uid : Uid, key : Uid, password : Password]
Job == [kind : {"login", "change", "reset", "rotate", "delete"},
        pc : {"read", "written"}, row : Row,
        password : Password, code : Code \cup {0}]

VARIABLES
    account,     \* the row, if there is one
    sessions,    \* what the entries of the session store hold
    jobs,        \* the operations under way, past their first statement
    uids, codes, \* how many have been drawn
    (* history *)
    told,        \* the password and the code last confirmed to the user
    crossed      \* which operations have overlapped, or were not answered

vars == <<account, sessions, jobs, uids, codes, told, crossed>>

TypeOK ==
    /\ account \subseteq Row /\ \A row, twin \in account : row = twin
    /\ sessions \subseteq Session
    /\ jobs \subseteq Job
    /\ uids \in 0..MaxUid /\ codes \in 0..MaxCode
    /\ told \subseteq [uid : Uid, password : Password, code : Code]
    /\ \A t, other \in told : t = other
    /\ crossed \subseteq {"login", "password", "code", "answer"}

Init ==
    /\ account = {} /\ sessions = {} /\ jobs = {}
    /\ uids = 0 /\ codes = 0 /\ told = {} /\ crossed = {}

Others(u) == {s \in sessions : s.uid # u}

-----------------------------------------------------------------------------
(* Registration: one INSERT under the unique username.                      *)

WrapsOf(u, p, c) == [uid |-> u, hash |-> p, pwrap |-> [by |-> p, key |-> u],
                     rwrap |-> [by |-> c, key |-> u]]

(* P2002: the unique username. *)
Taken == account # {}

Register(p) ==
    /\ ~Taken /\ uids < MaxUid /\ codes < MaxCode
    /\ uids' = uids + 1 /\ codes' = codes + 1
    /\ account' = account \cup {WrapsOf(uids', p, codes')}
    /\ told' = {[uid |-> uids', password |-> p, code |-> codes']}
    /\ UNCHANGED <<sessions, jobs, crossed>>

-----------------------------------------------------------------------------
(* The first statement of an operation, with the secret that will pass its  *)
(* check, and the new secret it is to set.                                  *)

(* login, reset-password: without a session; the others behind requireAuth. *)
Begins(kind, p, c) ==
    \E row \in account :
      /\ Cardinality(jobs) < MaxJobs
      /\ kind \in {"login", "reset"} \/ \E s \in sessions : s.uid = row.uid
      /\ row.pwrap.by = row.hash \/ kind \in {"reset", "delete"}
      /\ jobs' = jobs \cup {[kind |-> kind, pc |-> "read", row |-> row,
                             password |-> p, code |-> c]}

Starts(kind, p) ==
    /\ Begins(kind, p, 0)
    /\ UNCHANGED <<account, sessions, uids, codes, told, crossed>>

Login == \E row \in account : Starts("login", row.hash)
ChangePassword(p) == Starts("change", p)
ResetPassword(p) == Starts("reset", p)
DeleteAccount == \E row \in account : Starts("delete", row.hash)

(* rewrapRecoveryWrap draws the new code. *)
RotateRecoveryCode ==
    /\ codes < MaxCode /\ codes' = codes + 1
    /\ \E row \in account : Begins("rotate", row.hash, codes')
    /\ UNCHANGED <<account, sessions, uids, told, crossed>>

-----------------------------------------------------------------------------
(* The UPDATE or DELETE.                                                    *)

(* The key a job has unwrapped from the row it read. *)
KeyOf(j) == IF j.kind = "reset" THEN j.row.rwrap.key ELSE j.row.pwrap.key

(* Faulty variant: the row is saved as it was read, but for the code. *)
RewrappedWholly(row, j) == [j.row EXCEPT !.rwrap = [by |-> j.code, key |-> KeyOf(j)]]

(* rewrapRecoveryWrap *)
Rewrapped(row, j) == [row EXCEPT !.rwrap = [by |-> j.code, key |-> KeyOf(j)]]

(* Faulty variant: the hash alone. *)
Rehashed(row, j) == [row EXCEPT !.hash = j.password]

(* The hash and the password wrap, in one UPDATE. *)
Repassworded(row, j) ==
    [row EXCEPT !.hash = j.password,
                !.pwrap = [by |-> j.password, key |-> KeyOf(j)]]

Written(row, j) ==
    CASE j.kind = "delete" -> {}
      [] j.kind = "rotate" -> {Rewrapped(row, j)}
      [] OTHER -> {Repassworded(row, j)}

(* Two operations that set the same secret, or one and a deletion. *)
Rivals(j) ==
    {p \in {"password"} : \E k \in jobs \ {j} :
        {j.kind, k.kind} \subseteq {"change", "reset"}}
    \cup {p \in {"code"} : \E k \in jobs \ {j} : {j.kind, k.kind} = {"rotate"}}

Write(j) ==
    /\ j.pc = "read" /\ j.kind # "login"
    /\ \E row \in account :
         /\ row.uid = j.row.uid
         /\ account' = Written(row, j)
    /\ jobs' = (jobs \ {j}) \cup {[j EXCEPT !.pc = "written"]}
    /\ crossed' = crossed \cup Rivals(j)
    /\ UNCHANGED <<sessions, uids, codes, told>>

(* No row with that id: the statement throws. *)
WriteFails(j) ==
    /\ j.pc = "read" /\ j.kind # "login"
    /\ \A row \in account : row.uid # j.row.uid
    /\ jobs' = jobs \ {j}
    /\ UNCHANGED <<account, sessions, uids, codes, told, crossed>>

-----------------------------------------------------------------------------
(* What follows the last await: sessions, and the answer.                   *)

Opened(j) == [uid |-> j.row.uid, key |-> KeyOf(j), password |-> j.password]

(* The password or the row has changed since the login read it. *)
Overtaken(j) == \A row \in account : row.uid # j.row.uid \/ row.hash # j.password

LoginEnds(j) ==
    /\ j.kind = "login"
    /\ sessions' = sessions \cup {Opened(j)} /\ jobs' = jobs \ {j}
    /\ crossed' = crossed \cup {p \in {"login"} : Overtaken(j)}
    /\ UNCHANGED <<account, uids, codes, told>>

(* Faulty variant: a reset leaves the sessions. *)
ClosesOnlyForChange(j) ==
    IF j.kind = "change" THEN Others(j.row.uid) \cup {Opened(j)} ELSE sessions

(* closeSessionsForUser; a change opens one for its caller. *)
Closes(j) == Others(j.row.uid) \cup {s \in {Opened(j)} : j.kind = "change"}

(* Who waits for j is told; an account registered since is another's. *)
Telling(j, news) == {IF t.uid = j.row.uid THEN news[t] ELSE t : t \in told}

PasswordEnds(j) ==
    /\ j.kind \in {"change", "reset", "delete"} /\ j.pc = "written"
    /\ sessions' = Closes(j) /\ jobs' = jobs \ {j}
    /\ told' = IF j.kind = "delete" THEN told
               ELSE Telling(j, [t \in told |-> [t EXCEPT !.password = j.password]])
    /\ crossed' = crossed \cup Rivals(j)
                    \cup {p \in {"login"} : j.kind = "change" /\ Overtaken(j)}
    /\ UNCHANGED <<account, uids, codes>>

RotateEnds(j) ==
    /\ j.kind = "rotate" /\ j.pc = "written" /\ jobs' = jobs \ {j}
    /\ told' = Telling(j, [t \in told |-> [t EXCEPT !.code = j.code]])
    /\ crossed' = crossed \cup Rivals(j)
    /\ UNCHANGED <<account, sessions, uids, codes>>

SignOut(closed) ==
    /\ closed # {} /\ sessions' = sessions \ closed
    /\ UNCHANGED <<account, jobs, uids, codes, told, crossed>>

Logout == \E s \in sessions : SignOut({s})
SignOutEverywhere == \E u \in Uid : SignOut({s \in sessions : s.uid = u})

(* The process ends: sessions and operations go, unanswered. *)
Restart ==
    /\ sessions' = {} /\ jobs' = {}
    /\ crossed' = crossed \cup {p \in {"answer"} : \E j \in jobs : j.pc = "written"}
    /\ UNCHANGED <<account, uids, codes, told>>

Next ==
    \/ \E p \in Password : Register(p) \/ ChangePassword(p) \/ ResetPassword(p)
    \/ Login \/ DeleteAccount \/ RotateRecoveryCode
    \/ \E j \in jobs : \/ Write(j) \/ WriteFails(j)
                       \/ LoginEnds(j) \/ PasswordEnds(j) \/ RotateEnds(j)
    \/ Logout \/ SignOutEverywhere \/ Restart

Spec == Init /\ [][Next]_vars

-----------------------------------------------------------------------------
(* Both wraps hold the account's key, the password's under the one that verifies. *)
Sealed(row) == /\ row.pwrap = [by |-> row.hash, key |-> row.uid]
               /\ row.rwrap.key = row.uid

(* However password changes, resets, rotations and logins overlap, the      *)
(* password that verifies opens the password wrap, and both wraps and every *)
(* session hold the key the account was registered with: the narrative      *)
(* stays readable (changePassword, rewrapRecoveryWrap: one UPDATE each).    *)
OneKey ==
    /\ \A row \in account : Sealed(row)
    /\ \A s \in sessions : s.key = s.uid

(* With no operation under way, every session belongs to the account that   *)
(* there is and was opened with its present password, unless the row was    *)
(* changed under the operation that opened it ("any other logged-in device  *)
(* is forced through /login again", changePassword).                        *)
SessionsFollowPassword ==
    jobs = {} /\ crossed \cap {"login", "answer"} = {}
        => \A s \in sessions : \E row \in account :
               row.uid = s.uid /\ row.hash = s.password

(* The password and the recovery code that the user was last told of are    *)
(* the ones that open the account, unless operations on the same secret     *)
(* overlapped or the process ended before the answer: operations on the two *)
(* secrets never undo each other.                                           *)
ConfirmedSecretsWork ==
    jobs = {} => \A row \in account : \E t \in told :
        /\ t.uid = row.uid
        /\ crossed \cap {"password", "answer"} = {} => row.hash = t.password
        /\ crossed \cap {"code", "answer"} = {} => row.rwrap.by = t.code
=============================================================================
