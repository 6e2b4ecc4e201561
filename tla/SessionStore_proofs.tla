------------------------ MODULE SessionStore_proofs -------------------------
(***************************************************************************)
(* Proofs about the session store, for any users, browsers and ids, any    *)
(* durations, any capacity and any run of the clock.                       *)
(***************************************************************************)
EXTENDS SessionStore, FiniteSetTheorems, TLAPS

(* What the assumptions on the constants say. *)
LEMMA Constants ==
    /\ IDLE_TTL \in Nat /\ ABSOLUTE_TTL \in Nat /\ REFRESH \in Nat
    /\ MAX_SESSIONS \in Nat /\ MAX_SESSIONS > 0
    /\ NoCookie \notin Cookie /\ Idle \notin Work
  BY SessionAssumption, NoValueAssumption
     DEF SessionAssumption, NoValueAssumption

-----------------------------------------------------------------------------
(* The inductive invariant: an id that leads anywhere has been drawn, so    *)
(* that a new session shares neither its id nor anybody's cookie.           *)

DrawnIds ==
    /\ \A s \in sessions : s.id \notin unused
    /\ \A b \in Browser : jar[b] # NoCookie => jar[b].id \notin unused

StoreInv ==
    /\ TypeOK
    /\ IsFiniteSet(sessions)
    /\ Bounded
    /\ ExpiryExact
    /\ DrawnIds
    /\ CookieWithinCap

(* The initial state satisfies it. *)
LEMMA StoreInit == Init => StoreInv
  <1> SUFFICES ASSUME Init PROVE StoreInv
    OBVIOUS
  <1>1. TypeOK
    BY DEF Init, TypeOK
  <1>2. IsFiniteSet(sessions) /\ Cardinality(sessions) = 0
    BY FS_EmptySet DEF Init
  <1>3. QED
    BY <1>1, <1>2, Constants
       DEF Init, StoreInv, Bounded, ExpiryExact, DrawnIds, CookieWithinCap

(* Closing sessions and dropping cookies preserves it. *)
LEMMA ClosingStep ==
    ASSUME StoreInv, sessions' \subseteq sessions, unused' = unused,
           now' \in Nat, sweeper' \in BOOLEAN,
           jar' \in [Browser -> Cookie \cup {NoCookie}],
           \A b \in Browser : jar'[b] \in {jar[b], NoCookie},
           pending' \in [Browser -> Work \cup {Idle}]
    PROVE  StoreInv'
  <1>1. TypeOK'
    BY DEF StoreInv, TypeOK
  <1>2. IsFiniteSet(sessions') /\ Cardinality(sessions') <= Cardinality(sessions)
    BY FS_Subset DEF StoreInv
  <1>3. Cardinality(sessions) \in Nat /\ Cardinality(sessions') \in Nat
    BY <1>2, FS_CardinalityType DEF StoreInv
  <1>4. Bounded'
    BY <1>2, <1>3, Constants DEF StoreInv, Bounded
  <1>5. ExpiryExact' /\ DrawnIds' /\ CookieWithinCap'
    BY DEF StoreInv, ExpiryExact, DrawnIds, CookieWithinCap
  <1>6. QED
    BY <1>1, <1>2, <1>4, <1>5 DEF StoreInv

-----------------------------------------------------------------------------
(* Room is made by removing sessions, and there is room afterwards. *)
LEMMA RoomMade ==
    ASSUME NEW S, IsFiniteSet(S), Cardinality(S) <= MAX_SESSIONS,
           NEW room \in MadeRoom(S)
    PROVE  /\ room \subseteq S
           /\ IsFiniteSet(room)
           /\ Cardinality(room) + 1 <= MAX_SESSIONS
  <1>1. Cardinality(S) \in Nat
    BY FS_CardinalityType
  <1>2. /\ Swept(S) \subseteq S /\ IsFiniteSet(Swept(S))
        /\ Cardinality(Swept(S)) <= Cardinality(S)
    <2>1. Swept(S) \subseteq S
      BY DEF Swept
    <2>2. QED
      BY <2>1, FS_Subset
  <1>3. Cardinality(Swept(S)) \in Nat
    BY <1>2, FS_CardinalityType
  <1>4. CASE room = S /\ Cardinality(S) < MAX_SESSIONS
    BY <1>1, <1>4, Constants
  <1>5. CASE room = Swept(S) /\ Cardinality(Swept(S)) < MAX_SESSIONS
    BY <1>2, <1>3, <1>5, Constants
  <1>6. ASSUME NEW s \in Swept(S), room = Swept(S) \ {s}
        PROVE  room \subseteq S /\ IsFiniteSet(room)
               /\ Cardinality(room) + 1 <= MAX_SESSIONS
    <2>1. IsFiniteSet(room) /\ Cardinality(room) = Cardinality(Swept(S)) - 1
      BY <1>2, <1>6, FS_RemoveElement
    <2>2. QED
      BY <1>1, <1>2, <1>3, <1>6, <2>1, Constants
  <1>7. QED
    BY <1>4, <1>5, <1>6 DEF MadeRoom, LeastRecent

(* Opening a session with a new id preserves the invariant, whichever       *)
(* sessions have been closed before.                                        *)
LEMMA OpeningStep ==
    ASSUME StoreInv, NEW b \in Browser, NEW u \in User, NEW i \in unused,
           NEW S, S \subseteq sessions, OpenSession(S, i, u),
           jar' = [jar EXCEPT ![b] = FreshCookie(i)], now' = now,
           pending' \in [Browser -> Work \cup {Idle}]
    PROVE  StoreInv'
  <1> DEFINE new == [id |-> i, user |-> u, created |-> now, accessed |-> now,
                     expires |-> Sooner(now + IDLE_TTL, now + ABSOLUTE_TTL)]
  <1>1. now \in Nat /\ i \in Id /\ sessions \subseteq Session
    BY DEF StoreInv, TypeOK
  <1>2. new \in Session
    BY <1>1, Constants DEF Session, Sooner
  <1>3. IsFiniteSet(S) /\ Cardinality(S) <= MAX_SESSIONS
    <2>1. IsFiniteSet(S) /\ Cardinality(S) <= Cardinality(sessions)
      BY FS_Subset DEF StoreInv
    <2>2. Cardinality(S) \in Nat /\ Cardinality(sessions) \in Nat
      BY <2>1, FS_CardinalityType DEF StoreInv
    <2>3. QED
      BY <2>1, <2>2, Constants DEF StoreInv, Bounded
  <1>4. PICK room \in MadeRoom(S) : sessions' = room \cup {new}
    BY DEF OpenSession
  <1>5. /\ room \subseteq sessions /\ IsFiniteSet(room)
        /\ Cardinality(room) + 1 <= MAX_SESSIONS
    BY <1>3, RoomMade
  <1>6. IsFiniteSet(sessions') /\ Cardinality(sessions') <= MAX_SESSIONS
    <2>1. /\ IsFiniteSet(sessions')
          /\ Cardinality(sessions') \in {Cardinality(room), Cardinality(room) + 1}
      BY <1>4, <1>5, FS_AddElement
    <2>2. Cardinality(room) \in Nat
      BY <1>5, FS_CardinalityType
    <2>3. QED
      BY <1>5, <2>1, <2>2, Constants
  <1>7. \A s \in sessions' : (s \in sessions /\ s.id # i) \/ s = new
    BY <1>4, <1>5 DEF StoreInv, DrawnIds
  <1>8. new.id = i /\ new.created = now /\ new.accessed = now
        /\ new.expires = Sooner(now + IDLE_TTL, now + ABSOLUTE_TTL)
    OBVIOUS
  <1> HIDE DEF new
  <1>9. TypeOK'
    <2>1. FreshCookie(i) \in Cookie
      BY <1>1, Constants DEF FreshCookie, Cookie
    <2>2. sessions' \subseteq Session
      BY <1>1, <1>2, <1>7
    <2>3. QED
      BY <1>1, <2>1, <2>2 DEF StoreInv, TypeOK, OpenSession, ensureSweeper
  <1>10. Bounded'
    BY <1>6, <1>7, <1>8 DEF StoreInv, Bounded
  <1>11. ExpiryExact'
    BY <1>7, <1>8 DEF StoreInv, ExpiryExact
  <1>12. unused' = unused \ {i}
    BY DEF OpenSession
  <1>13. DrawnIds'
    <2>1. \A s \in sessions' : s.id \notin unused'
      BY <1>7, <1>8, <1>12 DEF StoreInv, DrawnIds
    <2>2. \A c \in Browser : jar'[c] # NoCookie => jar'[c].id \notin unused'
      BY <1>12 DEF StoreInv, DrawnIds, TypeOK, FreshCookie
    <2>3. QED
      BY <2>1, <2>2 DEF DrawnIds
  <1>14. CookieWithinCap'
    <2> SUFFICES ASSUME NEW c \in Browser, NEW s \in sessions',
                        jar'[c] # NoCookie, jar'[c].id = s.id
                 PROVE  jar'[c].expires <= s.created + ABSOLUTE_TTL
      BY DEF CookieWithinCap
    <2>1. CASE c = b
      <3>1. jar'[c] = FreshCookie(i)
        BY <2>1 DEF StoreInv, TypeOK
      <3>2. s = new
        BY <1>7, <3>1 DEF FreshCookie
      <3>3. QED
        BY <1>1, <1>8, <3>1, <3>2, Constants DEF FreshCookie
    <2>2. CASE c # b
      <3>1. jar'[c] = jar[c]
        BY <2>2 DEF StoreInv, TypeOK
      <3>2. jar[c].id # i
        BY <3>1 DEF StoreInv, DrawnIds
      <3>3. s \in sessions
        BY <1>7, <1>8, <3>1, <3>2
      <3>4. QED
        BY <3>1, <3>3 DEF StoreInv, CookieWithinCap
    <2>3. QED
      BY <2>1, <2>2
  <1>15. QED
    BY <1>6, <1>9, <1>10, <1>11, <1>13, <1>14 DEF StoreInv

-----------------------------------------------------------------------------
(* A served request slides one session's expiry, and perhaps issues its     *)
(* cookie again.                                                            *)
LEMMA ServeStep ==
    ASSUME StoreInv, NEW b \in Browser, NEW work, Serve(b, work)
    PROVE  StoreInv'
  <1>1. PICK s \in Presented(b) :
            /\ s.expires > now
            /\ sessions' = (sessions \ {s}) \cup {Extended(s)}
            /\ jar' = IF s.expires - now < REFRESH
                      THEN [jar EXCEPT ![b] = CookieFor(s)]
                      ELSE jar
            /\ \/ UNCHANGED pending
               \/ /\ work \in {"change", "signout"}
                  /\ pending' = [pending EXCEPT
                                    ![b] = [kind |-> work, user |-> s.user]]
            /\ UNCHANGED <<now, unused, sweeper>>
    BY DEF Serve
  <1>2. /\ s \in sessions /\ s \in Session /\ now \in Nat
        /\ jar[b] # NoCookie /\ jar[b].id = s.id
    BY DEF Presented, StoreInv, TypeOK
  <1> DEFINE t == Extended(s)
  <1>3. /\ t \in Session /\ t.id = s.id /\ t.created = s.created
        /\ t.accessed = now
        /\ t.expires = Sooner(now + IDLE_TTL, s.created + ABSOLUTE_TTL)
    <2>1. Slide(s) \in Nat
      BY <1>2, Constants DEF Slide, Sooner, Session
    <2>2. QED
      BY <1>2, <2>1 DEF Extended, Session, Slide
  <1>4. CookieFor(s) \in Cookie /\ CookieFor(s).id = s.id
        /\ CookieFor(s).expires <= s.created + ABSOLUTE_TTL
    BY <1>2, Constants DEF CookieFor, Cookie, Slide, Sooner, Session
  <1>5. \A r \in sessions' : (r \in sessions /\ r # s) \/ r = t
    BY <1>1
  <1>6. IsFiniteSet(sessions') /\ Cardinality(sessions') <= MAX_SESSIONS
    <2>1. /\ IsFiniteSet(sessions \ {s})
          /\ Cardinality(sessions \ {s}) = Cardinality(sessions) - 1
      BY <1>2, FS_RemoveElement DEF StoreInv
    <2>2. /\ IsFiniteSet(sessions')
          /\ \/ Cardinality(sessions') = Cardinality(sessions \ {s})
             \/ Cardinality(sessions') = Cardinality(sessions \ {s}) + 1
      BY <1>1, <2>1, FS_AddElement
    <2>3. Cardinality(sessions) \in Nat
      BY FS_CardinalityType DEF StoreInv
    <2>4. QED
      BY <2>1, <2>2, <2>3, Constants DEF StoreInv, Bounded
  <1> HIDE DEF t
  <1>7. TypeOK'
    <2>1. sessions' \subseteq Session
      BY <1>3, <1>5 DEF StoreInv, TypeOK
    <2>2. jar' \in [Browser -> Cookie \cup {NoCookie}]
      BY <1>1, <1>4 DEF StoreInv, TypeOK
    <2>3. pending' \in [Browser -> Work \cup {Idle}]
      <3>1. CASE UNCHANGED pending
        BY <3>1 DEF StoreInv, TypeOK
      <3>2. CASE /\ work \in {"change", "signout"}
                 /\ pending' = [pending EXCEPT
                                   ![b] = [kind |-> work, user |-> s.user]]
        <4>1. [kind |-> work, user |-> s.user] \in Work
          BY <1>2, <3>2 DEF Work, Session
        <4>2. QED
          BY <3>2, <4>1 DEF StoreInv, TypeOK
      <3>3. QED
        BY <1>1, <3>1, <3>2
    <2>4. QED
      BY <1>1, <2>1, <2>2, <2>3 DEF StoreInv, TypeOK
  <1>8. Bounded'
    BY <1>2, <1>3, <1>5, <1>6 DEF StoreInv, Bounded
  <1>9. ExpiryExact'
    BY <1>3, <1>5 DEF StoreInv, ExpiryExact
  <1>10. \A c \in Browser : jar'[c] = jar[c] \/ (c = b /\ jar'[c] = CookieFor(s))
    BY <1>1 DEF StoreInv, TypeOK
  <1>11. DrawnIds'
    <2>1. unused' = unused
      BY <1>1
    <2>2. \A r \in sessions' : r.id \notin unused'
      BY <1>2, <1>3, <1>5, <2>1 DEF StoreInv, DrawnIds
    <2>3. \A c \in Browser : jar'[c] # NoCookie => jar'[c].id \notin unused'
      BY <1>2, <1>4, <1>10, <2>1 DEF StoreInv, DrawnIds
    <2>4. QED
      BY <2>2, <2>3 DEF DrawnIds
  <1>12. CookieWithinCap'
    <2> SUFFICES ASSUME NEW c \in Browser, NEW r \in sessions',
                        jar'[c] # NoCookie, jar'[c].id = r.id
                 PROVE  jar'[c].expires <= r.created + ABSOLUTE_TTL
      BY DEF CookieWithinCap
    <2>1. PICK q \in sessions : q.id = r.id /\ q.created = r.created
      BY <1>2, <1>3, <1>5
    <2>2. CASE jar'[c] = jar[c]
      BY <2>1, <2>2 DEF StoreInv, CookieWithinCap
    <2>3. CASE jar'[c] = CookieFor(s)
      <3>1. q = s
        BY <1>2, <1>4, <2>1, <2>3 DEF StoreInv, Bounded
      <3>2. QED
        BY <1>4, <2>1, <2>3, <3>1
    <2>4. QED
      BY <1>10, <2>2, <2>3
  <1>13. QED
    BY <1>6, <1>7, <1>8, <1>9, <1>11, <1>12 DEF StoreInv

-----------------------------------------------------------------------------
(* Every step preserves the invariant. *)
LEMMA StoreStep == StoreInv /\ [Next]_vars => StoreInv'
  <1> SUFFICES ASSUME StoreInv, [Next]_vars PROVE StoreInv'
    OBVIOUS
  <1> USE DEF StoreInv, TypeOK
  <1>1. CASE Tick
    BY <1>1, ClosingStep DEF Tick
  <1>2. CASE Sweep
    BY <1>2, ClosingStep DEF Sweep, Swept
  <1>3. CASE Restart
    BY <1>3, ClosingStep DEF Restart
  <1>4. ASSUME NEW b \in Browser, NEW work, Serve(b, work) PROVE StoreInv'
    BY <1>4, ServeStep
  <1>5. ASSUME NEW b \in Browser, Refuse(b) PROVE StoreInv'
    BY <1>5, ClosingStep DEF Refuse
  <1>6. ASSUME NEW b \in Browser, NEW u \in User, Login(b, u) PROVE StoreInv'
    BY <1>6, OpeningStep DEF Login
  <1>7. ASSUME NEW b \in Browser, Logout(b) PROVE StoreInv'
    BY <1>7, ClosingStep DEF Logout
  <1>8. ASSUME NEW b \in Browser, ChangePassword(b) PROVE StoreInv'
    <2>1. pending[b].user \in User
      BY <1>8 DEF ChangePassword, Work
    <2>2. OthersThan(pending[b].user) \subseteq sessions
      BY DEF OthersThan
    <2>3. QED
      BY <1>8, <2>1, <2>2, OpeningStep DEF ChangePassword
  <1>9. ASSUME NEW b \in Browser, SignOutEverywhere(b) PROVE StoreInv'
    BY <1>9, ClosingStep DEF SignOutEverywhere, OthersThan
  <1>10. ASSUME NEW b \in Browser, Fail(b) PROVE StoreInv'
    BY <1>10, ClosingStep DEF Fail
  <1>11. ASSUME NEW u \in User, ResetPassword(u) PROVE StoreInv'
    BY <1>11, ClosingStep DEF ResetPassword, OthersThan
  <1>12. CASE UNCHANGED vars
    BY <1>12, ClosingStep DEF vars
  <1>13. QED
    BY <1>1, <1>2, <1>3, <1>4, <1>5, <1>6, <1>7, <1>8, <1>9, <1>10, <1>11,
       <1>12 DEF Next

(* It holds in every reachable state. *)
LEMMA StoreInvariant == Spec => []StoreInv
  <1>1. Init => StoreInv
    BY StoreInit
  <1>2. StoreInv /\ [Next]_vars => StoreInv'
    BY StoreStep
  <1>3. QED
    BY <1>1, <1>2, PTL DEF Spec

(* The variables keep their types. *)
THEOREM TypeCorrect == Spec => []TypeOK
  <1>1. StoreInv => TypeOK
    BY DEF StoreInv
  <1>2. QED
    BY <1>1, StoreInvariant, PTL

(* A session expires at the earlier of its idle and its absolute limit,     *)
(* however often and from wherever it is used.                              *)
THEOREM ExpiryCorrect == Spec => []ExpiryExact
  <1>1. StoreInv => ExpiryExact
    BY DEF StoreInv
  <1>2. QED
    BY <1>1, StoreInvariant, PTL

(* The Map never holds more sessions than its limit, and no two under one   *)
(* id: sweeping or evicting before each insertion is enough.                *)
THEOREM CapacityRespected == Spec => []Bounded
  <1>1. StoreInv => Bounded
    BY DEF StoreInv
  <1>2. QED
    BY <1>1, StoreInvariant, PTL

(* Issuing a cookie again never carries it past its session's absolute      *)
(* limit.                                                                   *)
THEOREM CookieNeverOutlivesCap == Spec => []CookieWithinCap
  <1>1. StoreInv => CookieWithinCap
    BY DEF StoreInv
  <1>2. QED
    BY <1>1, StoreInvariant, PTL

-----------------------------------------------------------------------------
(* If opening a session closes a live one of the sessions there were, the   *)
(* store was full of live ones, and it was used least recently.             *)
LEMMA EvictionIsForced ==
    ASSUME StoreInv, NEW S, S \subseteq sessions, NEW room \in MadeRoom(S),
           NEW s \in S, s.expires > now, s \notin room
    PROVE  /\ Cardinality({t \in sessions : t.expires > now}) >= MAX_SESSIONS
           /\ \A t \in sessions : t.expires > now => s.accessed <= t.accessed
  <1> DEFINE Live == {t \in sessions : t.expires > now}
  <1>1. IsFiniteSet(sessions) /\ Cardinality(sessions) <= MAX_SESSIONS
    BY DEF StoreInv, Bounded
  <1>2. /\ IsFiniteSet(S) /\ IsFiniteSet(Live)
        /\ Cardinality(S) <= Cardinality(sessions) /\ (Cardinality(S) = Cardinality(sessions) => S = sessions)
    BY <1>1, FS_Subset
  <1>3. /\ Cardinality(sessions) \in Nat /\ Cardinality(S) \in Nat /\ Cardinality(Live) \in Nat
    BY <1>1, <1>2, FS_CardinalityType
  <1>4. s \in Swept(S) /\ Swept(S) \subseteq S /\ Swept(S) \subseteq Live
    BY DEF Swept
  <1>5. room \notin {S, Swept(S)}
    BY <1>4
  <1>6. /\ ~(Cardinality(Swept(S)) < MAX_SESSIONS)
        /\ \E r \in LeastRecent(Swept(S)) : room = Swept(S) \ {r}
    BY <1>5 DEF MadeRoom
  <1>7. s \in LeastRecent(Swept(S))
    BY <1>4, <1>6
  <1> HIDE DEF Live
  <1>8. /\ Cardinality(Swept(S)) \in Nat
        /\ Cardinality(Swept(S)) <= Cardinality(S) /\ Cardinality(Swept(S)) <= Cardinality(Live)
    BY <1>2, <1>4, FS_Subset, FS_CardinalityType
  <1>9. Cardinality(Live) >= MAX_SESSIONS /\ S = sessions
    BY <1>1, <1>2, <1>3, <1>6, <1>8, Constants
  <1>10. \A t \in sessions : t.expires > now => t \in Swept(S)
    BY <1>9 DEF Swept
  <1> QED BY <1>7, <1>9, <1>10 DEF LeastRecent, Live

(* What LoginSparesOthers says of one step.                                 *)
SparesOthers ==
    \A s \in sessions, n \in sessions' :
           (/\ s.expires > now /\ n.id \in unused /\ n.user # s.user
            /\ \A t \in sessions' : t.id # s.id)
               => /\ Cardinality({t \in sessions : t.expires > now})
                         >= MAX_SESSIONS
                  /\ \A t \in sessions : t.expires > now
                         => s.accessed <= t.accessed

(* Opening a session in what is left of the store spares the others.        *)
LEMMA OpeningSpares ==
    ASSUME StoreInv, NEW S, NEW i \in unused, NEW u, OpenSession(S, i, u),
           S \subseteq sessions, \A s \in sessions : s.user # u => s \in S
    PROVE  SparesOthers
  <1>0. PICK room \in MadeRoom(S) :
            \E new : new.id = i /\ new.user = u /\ sessions' = room \cup {new}
    BY DEF OpenSession
  <1>1. PICK new : new.id = i /\ new.user = u /\ sessions' = room \cup {new}
    BY <1>0
  <1>2. room \subseteq S
    BY DEF MadeRoom, Swept
  <1> SUFFICES ASSUME NEW s \in sessions, NEW n \in sessions',
                      s.expires > now, n.id \in unused, n.user # s.user,
                      \A t \in sessions' : t.id # s.id
               PROVE  /\ Cardinality({t \in sessions : t.expires > now}) >= MAX_SESSIONS
                      /\ \A t \in sessions : t.expires > now => s.accessed <= t.accessed
    BY DEF SparesOthers
  <1>3. n = new
    BY <1>1, <1>2 DEF StoreInv, DrawnIds
  <1>4. s \in S /\ s \notin room
    BY <1>1, <1>3
  <1> QED BY <1>4, EvictionIsForced

(* A step whose sessions all have ids that were there before spares them.   *)
LEMMA NobodyNewSpares ==
    ASSUME StoreInv, \A n \in sessions' : \E s \in sessions : n.id = s.id
    PROVE  SparesOthers
  BY DEF SparesOthers, StoreInv, DrawnIds

(* Every step spares the sessions of those who did not log in by it.        *)
LEMMA SparingStep == StoreInv /\ [Next]_vars => SparesOthers
  <1> SUFFICES ASSUME StoreInv, [Next]_vars PROVE SparesOthers
    OBVIOUS
  <1>1. ASSUME sessions' \subseteq sessions PROVE SparesOthers
    BY <1>1, NobodyNewSpares
  <1>2. ASSUME NEW b \in Browser, NEW work, Serve(b, work) PROVE SparesOthers
    <2>1. PICK s \in sessions : sessions' = (sessions \ {s}) \cup {Extended(s)}
      BY <1>2 DEF Serve, Presented
    <2>2. Extended(s).id = s.id
      BY DEF Extended, StoreInv, TypeOK, Session
    <2> QED BY <2>1, <2>2, NobodyNewSpares
  <1>3. ASSUME NEW b \in Browser, NEW u \in User, Login(b, u) PROVE SparesOthers
    BY <1>3, OpeningSpares DEF Login
  <1>4. ASSUME NEW b \in Browser, ChangePassword(b) PROVE SparesOthers
    BY <1>4, OpeningSpares DEF ChangePassword, OthersThan
  <1>5. CASE Tick \/ Sweep \/ Restart \/ UNCHANGED vars
    BY <1>1, <1>5 DEF Tick, Sweep, Restart, Swept, vars
  <1>6. ASSUME NEW b \in Browser, Refuse(b) \/ Logout(b) \/ SignOutEverywhere(b) \/ Fail(b)
        PROVE  SparesOthers
    BY <1>1, <1>6 DEF Refuse, Logout, SignOutEverywhere, Fail, OthersThan
  <1>7. ASSUME NEW u \in User, ResetPassword(u) PROVE SparesOthers
    BY <1>1, <1>7 DEF ResetPassword, OthersThan
  <1> QED BY <1>2, <1>3, <1>4, <1>5, <1>6, <1>7 DEF Next

(* A login, or the login after a change of password, costs another user a   *)
(* live session only when the store is full of live ones, and then one that *)
(* has not been used for longest (openSession: sweep first, then evict).    *)
THEOREM LoginsSpareOthers == Spec => LoginSparesOthers
  <1>1. StoreInv /\ [Next]_vars => SparesOthers
    BY SparingStep
  <1> QED BY <1>1, StoreInvariant, PTL DEF Spec, LoginSparesOthers, SparesOthers
=============================================================================
