--------------------------- MODULE Account_proofs ---------------------------
(***************************************************************************)
(* That the data key survives every overlap of the operations on an        *)
(* account, for any passwords and any bounds.  The strengthening is about  *)
(* the operations under way: the row each of them read was sealed under    *)
(* one password, and a rotation brings a code of its own.  An UPDATE then  *)
(* writes the key of a row that is gone, which is the key of the row.      *)
(***************************************************************************)
EXTENDS Account, TLAPS

JobsSealed == \A j \in jobs : /\ Sealed(j.row)
                              /\ j.kind = "rotate" => j.code \in Code

IInv == TypeOK /\ OneKey /\ JobsSealed

(* The initial state: nothing is there. *)
LEMMA InitIInv == Init => IInv
BY AccountAssumption DEF Init, IInv, TypeOK, OneKey, JobsSealed

(* Whichever wrap an operation opened, it held the account's key. *)
LEMMA KeyOfSealed ==
    ASSUME NEW j \in Job, Sealed(j.row)
    PROVE  KeyOf(j) = j.row.uid /\ KeyOf(j) \in Uid
BY DEF KeyOf, Sealed, Job, Row

(* The row an UPDATE leaves is sealed when the row read and the row found   *)
(* are and have one id.                                                     *)
LEMMA WrittenSealed ==
    ASSUME NEW j \in Job, Sealed(j.row), j.kind = "rotate" => j.code \in Code,
           NEW row \in Row, Sealed(row), row.uid = j.row.uid,
           NEW new \in Written(row, j)
    PROVE  new \in Row /\ Sealed(new) /\ Written(row, j) = {new}
<1>1. KeyOf(j) = row.uid
  BY KeyOfSealed
<1>2. CASE j.kind = "rotate"
  <2>1. Written(row, j) = {Rewrapped(row, j)}
    BY <1>2 DEF Written
  <2>2. Rewrapped(row, j) \in Row /\ Sealed(Rewrapped(row, j))
    BY <1>1, <1>2 DEF Rewrapped, Row, Sealed
  <2> QED BY <2>1, <2>2
<1>3. CASE j.kind = "delete"
  BY <1>3 DEF Written
<1>4. CASE j.kind \notin {"rotate", "delete"}
  <2>1. Written(row, j) = {Repassworded(row, j)}
    BY <1>4 DEF Written
  <2>2. Repassworded(row, j) \in Row /\ Sealed(Repassworded(row, j))
    BY <1>1 DEF Repassworded, Row, Sealed, Job
  <2> QED BY <2>1, <2>2
<1> QED BY <1>2, <1>3, <1>4

(* A session opened for an operation holds the account's key. *)
LEMMA OpenedKey ==
    ASSUME NEW j \in Job, Sealed(j.row)
    PROVE  Opened(j) \in Session /\ Opened(j).key = Opened(j).uid
<1>1. KeyOf(j) = j.row.uid /\ j.row.uid \in Uid
  BY KeyOfSealed
<1> QED BY <1>1 DEF Opened, Session, Job, Row

(* A first statement adds an operation on the row as it is. *)
LEMMA BeginsIInv ==
    ASSUME IInv, NEW kind \in {"login", "change", "reset", "rotate", "delete"},
           NEW p \in Password, NEW c \in Code \cup {0},
           kind = "rotate" => c \in Code, Begins(kind, p, c),
           UNCHANGED <<account, sessions, uids, told, crossed>>,
           codes' \in 0..MaxCode
    PROVE  IInv'
<1> USE DEF IInv
<1>1. PICK row \in account :
        jobs' = jobs \cup {[kind |-> kind, pc |-> "read", row |-> row,
                            password |-> p, code |-> c]}
  BY DEF Begins
<1>2. row \in Row /\ Sealed(row)
  BY DEF TypeOK, OneKey
<1>3. TypeOK'
  BY <1>1, <1>2 DEF TypeOK, Job
<1>4. OneKey'
  BY DEF OneKey
<1>5. JobsSealed'
  BY <1>1, <1>2 DEF JobsSealed
<1> QED BY <1>3, <1>4, <1>5

(* Telling changes what is told, never whether something is. *)
LEMMA TellingType ==
    ASSUME TypeOK, NEW j \in Job,
           NEW news \in [told -> [uid : Uid, password : Password, code : Code]]
    PROVE  /\ Telling(j, news) \subseteq [uid : Uid, password : Password, code : Code]
           /\ \A t, other \in Telling(j, news) : t = other
<1>1. \A t \in told : news[t] \in [uid : Uid, password : Password, code : Code]
  OBVIOUS
<1>2. told \subseteq [uid : Uid, password : Password, code : Code]
  BY DEF TypeOK
<1>3. \A t, other \in told : t = other
  BY DEF TypeOK
<1> QED BY <1>1, <1>2, <1>3 DEF Telling

(* Every step keeps the strengthening. *)
LEMMA StepIInv == IInv /\ [Next]_vars => IInv'
<1> SUFFICES ASSUME IInv, [Next]_vars PROVE IInv'
  OBVIOUS
<1> USE DEF IInv
<1>t. /\ account \subseteq Row /\ jobs \subseteq Job /\ sessions \subseteq Session
      /\ uids \in 0..MaxUid /\ codes \in 0..MaxCode
      /\ MaxUid \in Nat /\ MaxCode \in Nat
  BY AccountAssumption DEF TypeOK
<1>1. ASSUME NEW p \in Password, Register(p) PROVE IInv'
  <2>1. uids' \in Uid /\ codes' \in Code
    BY <1>1, <1>t DEF Register, Uid, Code
  <2>2. account' = {WrapsOf(uids', p, codes')}
    BY <1>1 DEF Register, Taken
  <2>3. WrapsOf(uids', p, codes') \in Row /\ Sealed(WrapsOf(uids', p, codes'))
    BY <2>1 DEF WrapsOf, Row, Sealed
  <2>4. TypeOK'
    <3>1. account' \subseteq Row /\ \A row, twin \in account' : row = twin
      BY <2>2, <2>3
    <3>2. uids' \in 0..MaxUid /\ codes' \in 0..MaxCode
      BY <2>1 DEF Uid, Code
    <3> QED BY <1>1, <2>1, <3>1, <3>2 DEF Register, TypeOK
  <2>5. OneKey'
    BY <1>1, <2>2, <2>3 DEF Register, OneKey
  <2>6. JobsSealed'
    BY <1>1 DEF Register, JobsSealed
  <2> QED BY <2>4, <2>5, <2>6
<1>2. ASSUME NEW kind \in {"login", "change", "reset", "delete"},
             NEW p \in Password, Starts(kind, p)
      PROVE  IInv'
  <2>1. Begins(kind, p, 0) /\ codes' \in 0..MaxCode
    BY <1>2, <1>t DEF Starts
  <2> QED BY <1>2, <2>1, BeginsIInv DEF Starts
<1>3. CASE Login \/ DeleteAccount
  <2>1. PICK row \in account : Starts("login", row.hash) \/ Starts("delete", row.hash)
    BY <1>3 DEF Login, DeleteAccount
  <2>2. row.hash \in Password
    BY <1>t DEF Row
  <2> QED BY <1>2, <2>1, <2>2
<1>4. CASE RotateRecoveryCode
  <2>1. codes' \in Code /\ codes' \in 0..MaxCode
    BY <1>4, <1>t DEF RotateRecoveryCode, Code
  <2>2. PICK row \in account : Begins("rotate", row.hash, codes')
    BY <1>4 DEF RotateRecoveryCode
  <2>3. row.hash \in Password
    BY <1>t DEF Row
  <2> QED BY <1>4, <2>1, <2>2, <2>3, BeginsIInv DEF RotateRecoveryCode
<1>5. ASSUME NEW j \in jobs, Write(j) PROVE IInv'
  <2>1. PICK row \in account : row.uid = j.row.uid /\ account' = Written(row, j)
    BY <1>5 DEF Write
  <2>2. j \in Job /\ Sealed(j.row) /\ (j.kind = "rotate" => j.code \in Code)
        /\ row \in Row /\ Sealed(row)
    BY <1>t DEF JobsSealed, OneKey
  <2>3. \A new \in account' : new \in Row /\ Sealed(new) /\ account' = {new}
    BY <2>1, <2>2, WrittenSealed
  <2>4. jobs' = (jobs \ {j}) \cup {[j EXCEPT !.pc = "written"]}
    BY <1>5 DEF Write
  <2>5. [j EXCEPT !.pc = "written"] \in Job
    BY <2>2 DEF Job
  <2>6. crossed' \subseteq {"login", "password", "code", "answer"}
    BY <1>5 DEF Write, Rivals, TypeOK
  <2>7. TypeOK'
    BY <1>5, <2>3, <2>4, <2>5, <2>6 DEF Write, TypeOK
  <2>8. OneKey'
    BY <1>5, <2>3 DEF Write, OneKey
  <2>9. JobsSealed'
    BY <2>2, <2>4 DEF JobsSealed, Job
  <2> QED BY <2>7, <2>8, <2>9
<1>6. ASSUME NEW j \in jobs, WriteFails(j) PROVE IInv'
  BY <1>6 DEF WriteFails, TypeOK, OneKey, JobsSealed
<1>7. ASSUME NEW j \in jobs, LoginEnds(j) PROVE IInv'
  <2>1. Opened(j) \in Session /\ Opened(j).key = Opened(j).uid
    BY <1>t, OpenedKey DEF JobsSealed
  <2>2. TypeOK'
    BY <1>7, <2>1 DEF LoginEnds, TypeOK
  <2> QED BY <1>7, <2>1, <2>2 DEF LoginEnds, OneKey, JobsSealed
<1>8. ASSUME NEW j \in jobs, PasswordEnds(j) PROVE IInv'
  <2>1. Opened(j) \in Session /\ Opened(j).key = Opened(j).uid
    BY <1>t, OpenedKey DEF JobsSealed
  <2>2. sessions' \subseteq sessions \cup {Opened(j)}
    BY <1>8 DEF PasswordEnds, Closes, Others
  <2>3. /\ told' \subseteq [uid : Uid, password : Password, code : Code]
        /\ \A t, other \in told' : t = other
    <3>1. [t \in told |-> [t EXCEPT !.password = j.password]]
            \in [told -> [uid : Uid, password : Password, code : Code]]
      BY <1>t DEF TypeOK, Job
    <3> QED BY <1>8, <1>t, <3>1, TellingType DEF PasswordEnds, TypeOK
  <2>4. crossed' \subseteq {"login", "password", "code", "answer"}
    BY <1>8 DEF PasswordEnds, Rivals, TypeOK
  <2>5. TypeOK'
    BY <1>8, <2>1, <2>2, <2>3, <2>4 DEF PasswordEnds, TypeOK
  <2> QED BY <1>8, <2>1, <2>2, <2>5 DEF PasswordEnds, OneKey, JobsSealed
<1>9. ASSUME NEW j \in jobs, RotateEnds(j) PROVE IInv'
  <2>1. j.code \in Code
    BY <1>9 DEF RotateEnds, JobsSealed
  <2>2. [t \in told |-> [t EXCEPT !.code = j.code]]
          \in [told -> [uid : Uid, password : Password, code : Code]]
    BY <2>1 DEF TypeOK
  <2>3. /\ told' \subseteq [uid : Uid, password : Password, code : Code]
        /\ \A t, other \in told' : t = other
    BY <1>9, <1>t, <2>2, TellingType DEF RotateEnds
  <2>4. crossed' \subseteq {"login", "password", "code", "answer"}
    BY <1>9 DEF RotateEnds, Rivals, TypeOK
  <2>5. TypeOK'
    BY <1>9, <2>3, <2>4 DEF RotateEnds, TypeOK
  <2> QED BY <1>9, <2>5 DEF RotateEnds, OneKey, JobsSealed
<1>10. ASSUME NEW closed \in SUBSET sessions, SignOut(closed) PROVE IInv'
  BY <1>10 DEF SignOut, TypeOK, OneKey, JobsSealed
<1>11. CASE Logout
  <2>1. PICK s \in sessions : SignOut({s})
    BY <1>11 DEF Logout
  <2> QED BY <1>10, <2>1
<1>12. CASE SignOutEverywhere
  <2>1. PICK u \in Uid : SignOut({s \in sessions : s.uid = u})
    BY <1>12 DEF SignOutEverywhere
  <2> QED BY <1>10, <2>1
<1>13. CASE Restart
  BY <1>13 DEF Restart, TypeOK, OneKey, JobsSealed
<1>14. CASE UNCHANGED vars
  BY <1>14 DEF vars, TypeOK, OneKey, JobsSealed
<1> QED
  BY <1>1, <1>2, <1>3, <1>4, <1>5, <1>6, <1>7, <1>8, <1>9, <1>11, <1>12, <1>13, <1>14
     DEF Next, ChangePassword, ResetPassword

(* The state keeps its type: one row at most for the username. *)
THEOREM TypeCorrect == Spec => []TypeOK
<1>1. IInv => TypeOK
  BY DEF IInv
<1> QED BY InitIInv, StepIInv, <1>1, PTL DEF Spec

(* The password that verifies always opens the password wrap, and the wraps *)
(* and the sessions of an account hold the one key it was registered with.  *)
THEOREM KeySurvives == Spec => []OneKey
<1>1. IInv => OneKey
  BY DEF IInv
<1> QED BY InitIInv, StepIInv, <1>1, PTL DEF Spec

-----------------------------------------------------------------------------
(* A session is of the row that there is and of its password, or an         *)
(* operation that has written is about to close it.                         *)
Closing(j, u) == j.pc = "written" /\ j.kind \in {"change", "reset", "delete"} /\ j.row.uid = u
SessionsKept ==
    "login" \notin crossed =>
        \A s \in sessions : \/ \E row \in account : row.uid = s.uid /\ row.hash = s.password
                            \/ \E j \in jobs : Closing(j, s.uid)

(* Identities are drawn once, and whoever owns the row was told something.  *)
IdsDrawn ==
    /\ \A row \in account : row.uid <= uids /\ \E t \in told : t.uid = row.uid
    /\ \A j \in jobs : j.row.uid <= uids

(* What the user was told is what the row says, or the operation that has   *)
(* written the row, and has written what it says, is yet to tell.           *)
Repasswords(j) == j.pc = "written" /\ j.kind \in {"change", "reset"}
PasswordTold ==
    crossed \cap {"password", "answer"} = {} => \A row \in account :
        /\ \A j \in jobs : Repasswords(j) /\ j.row.uid = row.uid => row.hash = j.password
        /\ \A t \in told : t.uid = row.uid =>
              \/ row.hash = t.password
              \/ \E j \in jobs : Repasswords(j) /\ j.row.uid = row.uid
Recodes(j) == j.pc = "written" /\ j.kind = "rotate"
CodeTold ==
    crossed \cap {"code", "answer"} = {} => \A row \in account :
        /\ \A j \in jobs : Recodes(j) /\ j.row.uid = row.uid => row.rwrap.by = j.code
        /\ \A t \in told : t.uid = row.uid =>
              \/ row.rwrap.by = t.code
              \/ \E j \in jobs : Recodes(j) /\ j.row.uid = row.uid
JobsFollow == SessionsKept /\ IdsDrawn /\ PasswordTold /\ CodeTold

(* Operations that have not written change nothing of that.                 *)
LEMMA MoreJobs ==
    ASSUME IInv, JobsFollow, UNCHANGED <<account, sessions, uids, told, crossed>>,
           \A j \in jobs : j.pc = "written" => j \in jobs',
           \A j \in jobs' : j \in jobs \/ (j.pc = "read" /\ j.row.uid <= uids)
    PROVE  JobsFollow'
<1> USE DEF JobsFollow
<1>1. SessionsKept'
  BY DEF SessionsKept, Closing
<1>2. IdsDrawn'
  BY DEF IdsDrawn
<1>3. PasswordTold'
  BY DEF PasswordTold, Repasswords
<1>4. CodeTold'
  BY DEF CodeTold, Recodes
<1> QED BY <1>1, <1>2, <1>3, <1>4

(* What an UPDATE leaves of the row.                                        *)
LEMMA WrittenRow ==
    ASSUME NEW j \in Job, NEW row \in Row, NEW new \in Written(row, j), j.kind # "login"
    PROVE  /\ new.uid = row.uid
           /\ j.kind = "rotate" => new.hash = row.hash /\ new.rwrap.by = j.code
           /\ j.kind # "rotate" => j.kind \in {"change", "reset"} /\ new.hash = j.password /\ new.rwrap = row.rwrap
<1>1. CASE j.kind = "rotate"
  BY <1>1 DEF Written, Rewrapped, Row
<1>2. CASE j.kind = "delete"
  BY <1>2 DEF Written
<1>3. CASE j.kind \in {"change", "reset"}
  <2>1. new = Repassworded(row, j)
    BY <1>3 DEF Written
  <2> QED BY <1>3, <2>1 DEF Repassworded, Row
<1> QED BY <1>1, <1>2, <1>3 DEF Job

(* The UPDATE or DELETE of an operation.                                    *)
LEMMA WriteFollows ==
    ASSUME IInv, JobsFollow, NEW j \in jobs, Write(j)
    PROVE  JobsFollow'
<1> USE DEF IInv, JobsFollow
<1>1. PICK row \in account : row.uid = j.row.uid /\ account' = Written(row, j)
  BY DEF Write
<1> DEFINE w == [j EXCEPT !.pc = "written"]
<1>2. /\ j \in Job /\ j.pc = "read" /\ j.kind # "login" /\ row \in Row
      /\ jobs' = (jobs \ {j}) \cup {w} /\ crossed' = crossed \cup Rivals(j)
      /\ UNCHANGED <<sessions, uids, codes, told>>
  BY DEF Write, TypeOK
<1>3. /\ w.pc = "written" /\ w.kind = j.kind /\ w.row = j.row /\ w.password = j.password /\ w.code = j.code
  BY <1>2 DEF Job
<1> HIDE DEF w
<1>4. \A r \in account : r = row
  BY DEF TypeOK
<1>5. \A new \in account' :
         /\ new.uid = row.uid
         /\ j.kind = "rotate" => new.hash = row.hash /\ new.rwrap.by = j.code
         /\ j.kind # "rotate" => j.kind \in {"change", "reset"} /\ new.hash = j.password /\ new.rwrap = row.rwrap
  BY <1>1, <1>2, WrittenRow
<1>6. \A k \in jobs : k.pc = "written" => k \in jobs' /\ k # j
  BY <1>2
<1>7. SessionsKept'
  <2> SUFFICES ASSUME "login" \notin crossed', NEW s \in sessions
               PROVE  \/ \E r \in account' : r.uid = s.uid /\ r.hash = s.password
                      \/ \E k \in jobs' : Closing(k, s.uid)
    BY <1>2 DEF SessionsKept, Closing
  <2>1. \/ row.uid = s.uid /\ row.hash = s.password
        \/ \E k \in jobs : Closing(k, s.uid)
    BY <1>2, <1>4 DEF SessionsKept
  <2>2. CASE \E k \in jobs : Closing(k, s.uid)
    BY <1>6, <2>2 DEF Closing
  <2>3. CASE row.uid = s.uid /\ row.hash = s.password
    <3>1. CASE j.kind = "rotate"
      <4>1. account' = {Rewrapped(row, j)}
        BY <1>1, <3>1 DEF Written
      <4> QED BY <1>5, <2>3, <3>1, <4>1
    <3>2. CASE j.kind # "rotate"
      <4>1. w.kind \in {"change", "reset", "delete"}
        BY <1>2, <1>3, <3>2 DEF Job
      <4>2. Closing(w, s.uid) /\ w \in jobs'
        BY <1>1, <1>2, <1>3, <2>3, <4>1 DEF Closing
      <4> QED BY <4>2
    <3> QED BY <3>1, <3>2
  <2> QED BY <2>1, <2>2, <2>3
<1>8. IdsDrawn'
  BY <1>1, <1>2, <1>3, <1>5 DEF IdsDrawn
<1>9. PasswordTold'
  <2> SUFFICES ASSUME crossed' \cap {"password", "answer"} = {}, NEW new \in account'
               PROVE  /\ \A k \in jobs' : Repasswords(k) /\ k.row.uid = new.uid => new.hash = k.password
                      /\ \A t \in told : t.uid = new.uid =>
                            \/ new.hash = t.password
                            \/ \E k \in jobs' : Repasswords(k) /\ k.row.uid = new.uid
    BY <1>2 DEF PasswordTold, Repasswords
  <2>1. /\ \A k \in jobs : Repasswords(k) /\ k.row.uid = row.uid => row.hash = k.password
        /\ \A t \in told : t.uid = row.uid =>
              \/ row.hash = t.password
              \/ \E k \in jobs : Repasswords(k) /\ k.row.uid = row.uid
    BY <1>2 DEF PasswordTold
  <2>2. CASE j.kind = "rotate"
    BY <1>2, <1>3, <1>5, <1>6, <2>1, <2>2 DEF Repasswords
  <2>3. CASE j.kind # "rotate"
    <3>1. j.kind \in {"change", "reset"} /\ new.hash = j.password /\ new.uid = j.row.uid
      BY <1>1, <1>5, <2>3
    <3>2. ASSUME NEW k \in jobs, k # j PROVE ~Repasswords(k)
      BY <1>2, <3>1, <3>2 DEF Rivals, Repasswords
    <3>3. \A k \in jobs' : Repasswords(k) => k = w
      BY <1>2, <3>2
    <3> QED BY <1>2, <1>3, <3>1, <3>3 DEF Repasswords
  <2> QED BY <2>2, <2>3
<1>10. CodeTold'
  <2> SUFFICES ASSUME crossed' \cap {"code", "answer"} = {}, NEW new \in account'
               PROVE  /\ \A k \in jobs' : Recodes(k) /\ k.row.uid = new.uid => new.rwrap.by = k.code
                      /\ \A t \in told : t.uid = new.uid =>
                            \/ new.rwrap.by = t.code
                            \/ \E k \in jobs' : Recodes(k) /\ k.row.uid = new.uid
    BY <1>2 DEF CodeTold, Recodes
  <2>1. /\ \A k \in jobs : Recodes(k) /\ k.row.uid = row.uid => row.rwrap.by = k.code
        /\ \A t \in told : t.uid = row.uid =>
              \/ row.rwrap.by = t.code
              \/ \E k \in jobs : Recodes(k) /\ k.row.uid = row.uid
    BY <1>2 DEF CodeTold
  <2>2. CASE j.kind # "rotate"
    BY <1>2, <1>3, <1>5, <1>6, <2>1, <2>2 DEF Recodes
  <2>3. CASE j.kind = "rotate"
    <3>1. new.rwrap.by = j.code /\ new.uid = j.row.uid
      BY <1>1, <1>5, <2>3
    <3>2. ASSUME NEW k \in jobs, k # j PROVE ~Recodes(k)
      BY <1>2, <2>3, <3>2 DEF Rivals, Recodes
    <3>3. \A k \in jobs' : Recodes(k) => k = w
      BY <1>2, <3>2
    <3> QED BY <1>2, <1>3, <2>3, <3>1, <3>3 DEF Recodes
  <2> QED BY <2>2, <2>3
<1> QED BY <1>7, <1>8, <1>9, <1>10

(* Telling leaves everybody told of their own account, and tells what it is *)
(* given to the one who owns the row.                                       *)
LEMMA ToldOwners ==
    ASSUME TypeOK, NEW j \in Job, NEW news, told' = Telling(j, news),
           \A t \in told : news[t].uid = t.uid
    PROVE  /\ \A u \in told' : \E t \in told :
                 u.uid = t.uid /\ u = IF t.uid = j.row.uid THEN news[t] ELSE t
           /\ \A t \in told : \E u \in told' : u.uid = t.uid
BY DEF Telling

(* The end of an operation.                                                 *)
LEMMA EndFollows ==
    ASSUME IInv, JobsFollow, NEW j \in jobs, LoginEnds(j) \/ PasswordEnds(j) \/ RotateEnds(j)
    PROVE  JobsFollow'
<1> USE DEF IInv, JobsFollow
<1>1. j \in Job /\ jobs' = jobs \ {j} /\ crossed \subseteq crossed' /\ UNCHANGED <<account, uids>>
  BY DEF LoginEnds, PasswordEnds, RotateEnds, TypeOK
<1>2. /\ Opened(j).uid = j.row.uid /\ Opened(j).password = j.password
  BY DEF Opened
<1>3. SessionsKept'
  <2> SUFFICES ASSUME "login" \notin crossed', NEW s \in sessions'
               PROVE  \/ \E row \in account : row.uid = s.uid /\ row.hash = s.password
                      \/ \E k \in jobs \ {j} : Closing(k, s.uid)
    BY <1>1 DEF SessionsKept, Closing
  <2>1. CASE s = Opened(j) /\ (LoginEnds(j) \/ (PasswordEnds(j) /\ j.kind = "change"))
    <3>1. ~Overtaken(j)
      BY <2>1 DEF LoginEnds, PasswordEnds
    <3> QED BY <1>2, <2>1, <3>1 DEF Overtaken
  <2>2. CASE s \in sessions /\ ~Closing(j, s.uid)
    BY <1>1, <2>2 DEF SessionsKept
  <2>3. CASE s \in sessions /\ Closing(j, s.uid)
    <3>1. ~LoginEnds(j) /\ ~RotateEnds(j)
      BY <2>3 DEF LoginEnds, RotateEnds, Closing
    <3>2. PasswordEnds(j) /\ s \in Closes(j)
      BY <3>1 DEF PasswordEnds
    <3>3. s = Opened(j) /\ j.kind = "change"
      BY <2>3, <3>2 DEF Closes, Others, Closing
    <3> QED BY <2>1, <3>2, <3>3
  <2>4. s \in sessions \/ (s = Opened(j) /\ (LoginEnds(j) \/ (PasswordEnds(j) /\ j.kind = "change")))
    <3>1. CASE LoginEnds(j)
      <4>1. s \in sessions \cup {Opened(j)}
        BY <3>1 DEF LoginEnds
      <4> QED BY <3>1, <4>1
    <3>2. CASE PasswordEnds(j)
      BY <3>2 DEF PasswordEnds, Closes, Others
    <3>3. CASE RotateEnds(j)
      BY <3>3 DEF RotateEnds
    <3> QED BY <3>1, <3>2, <3>3
  <2> QED BY <2>1, <2>2, <2>3, <2>4
<1>4. PICK news :
         /\ told' = told \/ told' = Telling(j, news)
         /\ \A t \in told : news[t].uid = t.uid
         /\ PasswordEnds(j) /\ j.kind # "delete" => /\ told' = Telling(j, news)
                                                    /\ \A t \in told : news[t].password = j.password /\ news[t].code = t.code
         /\ RotateEnds(j) => /\ told' = Telling(j, news)
                             /\ \A t \in told : news[t].password = t.password /\ news[t].code = j.code
         /\ ~(PasswordEnds(j) /\ j.kind # "delete") /\ ~RotateEnds(j) => told' = told
  <2>1. \A t \in told : t \in [uid : Uid, password : Password, code : Code]
    BY DEF TypeOK
  <2>2. CASE PasswordEnds(j) /\ j.kind # "delete"
    <3> DEFINE news == [t \in told |-> [t EXCEPT !.password = j.password]]
    <3>1. told' = Telling(j, news) /\ ~RotateEnds(j)
      BY <2>2 DEF PasswordEnds, RotateEnds
    <3>2. \A t \in told : news[t].uid = t.uid /\ news[t].password = j.password /\ news[t].code = t.code
      BY <2>1
    <3> HIDE DEF news
    <3> QED BY <2>2, <3>1, <3>2
  <2>3. CASE RotateEnds(j)
    <3> DEFINE news == [t \in told |-> [t EXCEPT !.code = j.code]]
    <3>1. told' = Telling(j, news) /\ ~PasswordEnds(j)
      BY <2>3 DEF PasswordEnds, RotateEnds
    <3>2. \A t \in told : news[t].uid = t.uid /\ news[t].password = t.password /\ news[t].code = j.code
      BY <2>1
    <3> HIDE DEF news
    <3> QED BY <2>3, <3>1, <3>2
  <2>4. CASE ~(PasswordEnds(j) /\ j.kind # "delete") /\ ~RotateEnds(j)
    <3>1. told' = told
      BY <2>4 DEF PasswordEnds, LoginEnds
    <3>2. \A t \in told : [x \in told |-> x][t].uid = t.uid
      OBVIOUS
    <3> QED BY <2>4, <3>1, <3>2
  <2> QED BY <2>2, <2>3, <2>4
<1>5. /\ \A u \in told' : \E t \in told :
            u.uid = t.uid /\ (u = t \/ (told' = Telling(j, news) /\ u = IF t.uid = j.row.uid THEN news[t] ELSE t))
      /\ \A t \in told : \E u \in told' : u.uid = t.uid
  BY <1>1, <1>4, ToldOwners
<1>6. IdsDrawn'
  BY <1>1, <1>5 DEF IdsDrawn
<1>7. PasswordTold'
  <2> SUFFICES ASSUME crossed' \cap {"password", "answer"} = {}, NEW row \in account
               PROVE  /\ \A k \in jobs \ {j} : Repasswords(k) /\ k.row.uid = row.uid => row.hash = k.password
                      /\ \A u \in told' : u.uid = row.uid =>
                            \/ row.hash = u.password
                            \/ \E k \in jobs \ {j} : Repasswords(k) /\ k.row.uid = row.uid
    BY <1>1 DEF PasswordTold, Repasswords
  <2>1. /\ \A k \in jobs : Repasswords(k) /\ k.row.uid = row.uid => row.hash = k.password
        /\ \A t \in told : t.uid = row.uid =>
              \/ row.hash = t.password
              \/ \E k \in jobs : Repasswords(k) /\ k.row.uid = row.uid
    BY <1>1 DEF PasswordTold
  <2>2. ASSUME NEW u \in told', u.uid = row.uid
        PROVE  \/ row.hash = u.password
               \/ \E k \in jobs \ {j} : Repasswords(k) /\ k.row.uid = row.uid
    <3>1. PICK t \in told :
            u.uid = t.uid /\ (u = t \/ (told' = Telling(j, news) /\ u = IF t.uid = j.row.uid THEN news[t] ELSE t))
      BY <1>5, <2>2
    <3>2. CASE Repasswords(j) /\ j.row.uid = row.uid
      <4>1. PasswordEnds(j) /\ j.kind # "delete" /\ row.hash = j.password
        BY <2>1, <3>2 DEF Repasswords, LoginEnds, RotateEnds
      <4>2. told' = Telling(j, news) /\ news[t].password = j.password
        BY <1>4, <4>1
      <4>3. u = news[t]
        <5>1. \A x, y \in told : x = y
          BY DEF TypeOK
        <5>2. told' = {news[t]}
          BY <2>2, <3>1, <3>2, <4>2, <5>1 DEF Telling
        <5> QED BY <2>2, <5>2
      <4> QED BY <4>1, <4>2, <4>3
    <3>3. CASE ~(Repasswords(j) /\ j.row.uid = row.uid)
      <4>1. u.password = t.password
        <5>1. CASE PasswordEnds(j) /\ j.kind # "delete"
          BY <2>2, <3>1, <3>3, <5>1 DEF Repasswords, PasswordEnds
        <5>2. CASE ~(PasswordEnds(j) /\ j.kind # "delete")
          <6>1. \A x, y \in told : x = y
            BY DEF TypeOK
          <6>2. CASE RotateEnds(j)
            BY <1>4, <3>1, <6>2
          <6>3. CASE ~RotateEnds(j)
            <7>1. told' = told
              BY <1>4, <5>2, <6>3
            <7> QED BY <2>2, <6>1, <7>1
          <6> QED BY <6>2, <6>3
        <5> QED BY <5>1, <5>2
      <4> QED BY <2>1, <2>2, <3>1, <3>3, <4>1
    <3> QED BY <3>2, <3>3
  <2> QED BY <2>1, <2>2
<1>8. CodeTold'
  <2> SUFFICES ASSUME crossed' \cap {"code", "answer"} = {}, NEW row \in account
               PROVE  /\ \A k \in jobs \ {j} : Recodes(k) /\ k.row.uid = row.uid => row.rwrap.by = k.code
                      /\ \A u \in told' : u.uid = row.uid =>
                            \/ row.rwrap.by = u.code
                            \/ \E k \in jobs \ {j} : Recodes(k) /\ k.row.uid = row.uid
    BY <1>1 DEF CodeTold, Recodes
  <2>1. /\ \A k \in jobs : Recodes(k) /\ k.row.uid = row.uid => row.rwrap.by = k.code
        /\ \A t \in told : t.uid = row.uid =>
              \/ row.rwrap.by = t.code
              \/ \E k \in jobs : Recodes(k) /\ k.row.uid = row.uid
    BY <1>1 DEF CodeTold
  <2>2. ASSUME NEW u \in told', u.uid = row.uid
        PROVE  \/ row.rwrap.by = u.code
               \/ \E k \in jobs \ {j} : Recodes(k) /\ k.row.uid = row.uid
    <3>1. PICK t \in told :
            u.uid = t.uid /\ (u = t \/ (told' = Telling(j, news) /\ u = IF t.uid = j.row.uid THEN news[t] ELSE t))
      BY <1>5, <2>2
    <3>2. CASE Recodes(j) /\ j.row.uid = row.uid
      <4>1. RotateEnds(j) /\ row.rwrap.by = j.code
        BY <2>1, <3>2 DEF Recodes, LoginEnds, PasswordEnds
      <4>2. told' = Telling(j, news) /\ news[t].code = j.code
        BY <1>4, <4>1
      <4>3. u = news[t]
        <5>1. \A x, y \in told : x = y
          BY DEF TypeOK
        <5>2. told' = {news[t]}
          BY <2>2, <3>1, <3>2, <4>2, <5>1 DEF Telling
        <5> QED BY <2>2, <5>2
      <4> QED BY <4>1, <4>2, <4>3
    <3>3. CASE ~(Recodes(j) /\ j.row.uid = row.uid)
      <4>1. u.code = t.code
        <5>1. CASE RotateEnds(j)
          BY <2>2, <3>1, <3>3, <5>1 DEF Recodes, RotateEnds
        <5>2. CASE ~RotateEnds(j)
          <6>1. \A x, y \in told : x = y
            BY DEF TypeOK
          <6>2. CASE PasswordEnds(j) /\ j.kind # "delete"
            BY <1>4, <3>1, <6>2
          <6>3. CASE ~(PasswordEnds(j) /\ j.kind # "delete")
            <7>1. told' = told
              BY <1>4, <5>2, <6>3
            <7> QED BY <2>2, <6>1, <7>1
          <6> QED BY <6>2, <6>3
        <5> QED BY <5>1, <5>2
      <4> QED BY <2>1, <2>2, <3>1, <3>3, <4>1
    <3> QED BY <3>2, <3>3
  <2> QED BY <2>1, <2>2
<1> QED BY <1>3, <1>6, <1>7, <1>8

(* Every step keeps what follows from the operations under way.             *)
LEMMA StepFollows == IInv /\ JobsFollow /\ [Next]_vars => JobsFollow'
<1> SUFFICES ASSUME IInv, JobsFollow, [Next]_vars PROVE JobsFollow'
  OBVIOUS
<1>0. \A row \in account : row.uid <= uids
  BY DEF JobsFollow, IdsDrawn
<1>1. ASSUME NEW p \in Password, Register(p) PROVE JobsFollow'
  <2>1. /\ account = {} /\ uids' = uids + 1 /\ codes' = codes + 1 /\ UNCHANGED <<sessions, jobs, crossed>>
        /\ told' = {[uid |-> uids', password |-> p, code |-> codes']}
        /\ uids \in Nat
    BY <1>1, AccountAssumption DEF Register, Taken, IInv, TypeOK
  <2>2. \A row \in account' : row.uid = uids' /\ row.hash = p /\ row.rwrap.by = codes'
    BY <1>1, <2>1 DEF Register, WrapsOf
  <2>3. \A j \in jobs : j.row.uid <= uids /\ j.row.uid \in Nat
    BY AccountAssumption DEF JobsFollow, IdsDrawn, IInv, TypeOK, Job, Row, Uid
  <2>4. SessionsKept'
    BY <2>1 DEF JobsFollow, SessionsKept, Closing
  <2>5. IdsDrawn'
    BY <2>1, <2>2, <2>3 DEF IdsDrawn
  <2>6. \A j \in jobs' : \A row \in account' : j.row.uid # row.uid
    BY <2>1, <2>2, <2>3
  <2>7. PasswordTold'
    BY <2>1, <2>2, <2>6 DEF PasswordTold
  <2>8. CodeTold'
    BY <2>1, <2>2, <2>6 DEF CodeTold
  <2> QED BY <2>4, <2>5, <2>7, <2>8 DEF JobsFollow
<1>2. ASSUME NEW kind, NEW p, NEW c, Begins(kind, p, c), UNCHANGED <<account, sessions, uids, told, crossed>>
      PROVE  JobsFollow'
  <2>1. PICK row \in account :
          jobs' = jobs \cup {[kind |-> kind, pc |-> "read", row |-> row, password |-> p, code |-> c]}
    BY <1>2 DEF Begins
  <2> QED BY <1>0, <1>2, <2>1, MoreJobs
<1>3. ASSUME NEW kind, NEW p, Starts(kind, p) PROVE JobsFollow'
  BY <1>2, <1>3 DEF Starts
<1>4. CASE RotateRecoveryCode
  BY <1>2, <1>4 DEF RotateRecoveryCode
<1>5. ASSUME NEW j \in jobs, WriteFails(j) PROVE JobsFollow'
  BY <1>5, MoreJobs DEF WriteFails
<1>6. ASSUME NEW closed, SignOut(closed) PROVE JobsFollow'
  <2>1. sessions' \subseteq sessions /\ UNCHANGED <<account, jobs, uids, told, crossed>>
    BY <1>6 DEF SignOut
  <2> QED BY <2>1 DEF JobsFollow, SessionsKept, Closing, IdsDrawn, PasswordTold, Repasswords, CodeTold, Recodes
<1>7. CASE Restart
  <2>1. sessions' = {} /\ jobs' = {} /\ crossed \subseteq crossed' /\ UNCHANGED <<account, uids, told>>
        /\ ("answer" \notin crossed' => \A j \in jobs : j.pc # "written")
    BY <1>7 DEF Restart
  <2>2. SessionsKept' /\ IdsDrawn'
    BY <2>1 DEF JobsFollow, SessionsKept, IdsDrawn
  <2>3. PasswordTold'
    BY <2>1 DEF JobsFollow, PasswordTold, Repasswords
  <2>4. CodeTold'
    BY <2>1 DEF JobsFollow, CodeTold, Recodes
  <2> QED BY <2>2, <2>3, <2>4 DEF JobsFollow
<1>8. CASE UNCHANGED vars
  BY <1>8, MoreJobs DEF vars
<1> QED BY <1>1, <1>3, <1>4, <1>5, <1>6, <1>7, <1>8, WriteFollows, EndFollows
        DEF Next, ChangePassword, ResetPassword, Login, DeleteAccount, Logout, SignOutEverywhere

(* So it holds always.                                                      *)
LEMMA FollowsAlways == Spec => [](IInv /\ JobsFollow)
<1>1. Init => JobsFollow
  BY DEF Init, JobsFollow, SessionsKept, IdsDrawn, PasswordTold, CodeTold
<1> QED BY <1>1, InitIInv, StepIInv, StepFollows, PTL DEF Spec

(* Once no operation is under way, every session is of the row there is and *)
(* was opened with its present password, unless a sign-in read the row      *)
(* before it changed.                                                       *)
THEOREM SessionsCorrect == Spec => []SessionsFollowPassword
<1>1. JobsFollow => SessionsFollowPassword
  BY DEF JobsFollow, SessionsKept, SessionsFollowPassword
<1> QED BY FollowsAlways, <1>1, PTL

(* The password and the code the user was last told of open the account,    *)
(* unless operations on the same secret overlapped or the process ended     *)
(* before the answer.                                                       *)
THEOREM SecretsCorrect == Spec => []ConfirmedSecretsWork
<1>1. JobsFollow => ConfirmedSecretsWork
  BY DEF JobsFollow, IdsDrawn, PasswordTold, CodeTold, ConfirmedSecretsWork
<1> QED BY FollowsAlways, <1>1, PTL
=============================================================================
