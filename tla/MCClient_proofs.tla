-------------------------- MODULE MCClient_proofs --------------------------
(***************************************************************************)
(* Proofs about the parts of the browser's side that MCClient puts         *)
(* together: deletion with undo, the Venice key's tab, the tab's session,  *)
(* export and import, the settings, and the account's pages.  Each part    *)
(* has an inductive invariant, a lemma that its steps keep it, and the     *)
(* theorem that MCSpec keeps what the client run checks, for every value   *)
(* of the constants.  A part's invariant is stated under `part = ...': the *)
(* other parts keep nothing in its variables.                              *)
(***************************************************************************)
EXTENDS MCClient, Sequences, FiniteSetTheorems, WellFoundedInduction, TLAPS

(* Deletion with undo: a row cached in the list is on the server, or the    *)
(* answer to its DELETE is on its way; and a row that did not resurface is  *)
(* on the server, with no DELETE under way, while it is kept or pending.    *)
DeletingType ==
    /\ live \subseteq Item /\ view \subseteq Item /\ saved \subseteq Item /\ perils \subseteq Item
    /\ card \in [Item -> Nat] /\ issued \in Nat
    /\ busy \subseteq [id : Item, n : Nat \ {0}]
    /\ calls \subseteq [id : Item, n : Nat \ {0}, state : {"sent", "ok", "failed"}]

ListLags == \A i \in view \ live : \E c \in calls : c.id = i /\ c.state = "ok"

KeptUntouched ==
    \A i \in Item \ perils :
        i \in saved \/ card[i] # 0 => i \in live /\ \A c \in calls : c.id # i

TimersUnwanted == \A t \in busy : t.id \notin saved

DeletingInv == DeletingType /\ Deleting!TimersReachable /\ ListLags /\ KeptUntouched
               /\ TimersUnwanted

(* Every step of deletion with undo keeps its invariant.                    *)
LEMMA DeletingStep ==
    ASSUME DeletingInv, Deleting!Next
    PROVE  DeletingInv'
<1> USE DEF DeletingInv
<1>1. ASSUME NEW i \in Item, Deleting!ScheduleDelete(i) PROVE DeletingInv'
  <2>1. DeletingType'
    BY <1>1 DEF Deleting!ScheduleDelete, Deleting!Shown, DeletingType
  <2>2. Deleting!TimersReachable'
    <3>1. busy' = busy \cup {[id |-> i, n |-> issued']} /\ card' = [card EXCEPT ![i] = issued']
          /\ card[i] = 0 /\ open /\ open' = open
      BY <1>1 DEF Deleting!ScheduleDelete, Deleting!Shown
    <3>2. ASSUME NEW t \in busy' PROVE open' /\ card'[t.id] = t.n
      BY <3>1, <3>2 DEF DeletingType, Deleting!TimersReachable
    <3>3. ASSUME NEW j \in Item, card'[j] # 0 PROVE [id |-> j, n |-> card'[j]] \in busy'
      BY <3>1, <3>3 DEF DeletingType, Deleting!TimersReachable
    <3> QED BY <3>2, <3>3 DEF Deleting!TimersReachable
  <2>3. ListLags'
    BY <1>1 DEF Deleting!ScheduleDelete, Deleting!Shown, DeletingType, ListLags
  <2>4. KeptUntouched'
    BY <1>1 DEF Deleting!ScheduleDelete, Deleting!Shown, DeletingType, Deleting!TimersReachable, ListLags,
                KeptUntouched, TimersUnwanted
  <2>5. TimersUnwanted'
    BY <1>1 DEF Deleting!ScheduleDelete, Deleting!Shown, DeletingType, Deleting!TimersReachable, TimersUnwanted
  <2> QED BY <2>1, <2>2, <2>3, <2>4, <2>5
<1>2. ASSUME NEW i \in Item, open, Deleting!Undo(i) PROVE DeletingInv'
  <2>1. DeletingType'
    BY <1>2 DEF Deleting!Undo, Deleting!Cleared, DeletingType
  <2>2. Deleting!TimersReachable'
    BY <1>2 DEF Deleting!Undo, Deleting!Cleared, DeletingType, Deleting!TimersReachable
  <2>3. ListLags'
    BY <1>2 DEF Deleting!Undo, Deleting!Cleared, DeletingType, ListLags
  <2>4. KeptUntouched'
    BY <1>2 DEF Deleting!Undo, Deleting!Cleared, DeletingType, Deleting!TimersReachable, ListLags,
                KeptUntouched, TimersUnwanted
  <2>5. TimersUnwanted'
    BY <1>2 DEF Deleting!Undo, Deleting!Cleared, DeletingType, Deleting!TimersReachable, TimersUnwanted
  <2> QED BY <2>1, <2>2, <2>3, <2>4, <2>5
<1>3. ASSUME NEW t \in busy, Deleting!Fire(t) PROVE DeletingInv'
  <2>1. DeletingType'
    BY <1>3 DEF Deleting!Fire, DeletingType
  <2>2. Deleting!TimersReachable'
    BY <1>3 DEF Deleting!Fire, DeletingType, Deleting!TimersReachable
  <2>3. ListLags'
    BY <1>3 DEF Deleting!Fire, DeletingType, ListLags
  <2>4. KeptUntouched'
    BY <1>3 DEF Deleting!Fire, DeletingType, Deleting!TimersReachable, ListLags,
                KeptUntouched, TimersUnwanted
  <2>5. TimersUnwanted'
    BY <1>3 DEF Deleting!Fire, DeletingType, Deleting!TimersReachable, TimersUnwanted
  <2> QED BY <2>1, <2>2, <2>3, <2>4, <2>5
<1>4. ASSUME NEW c \in calls, Deleting!Serve(c) PROVE DeletingInv'
  <2>1. DeletingType'
    BY <1>4 DEF Deleting!Serve, Deleting!Settled, DeletingType
  <2>2. Deleting!TimersReachable'
    BY <1>4 DEF Deleting!Serve, Deleting!Settled, DeletingType, Deleting!TimersReachable
  <2>3. ListLags'
    <3> DEFINE d == [c EXCEPT !.state = IF c.id \in live THEN "ok" ELSE "failed"]
    <3>1. d.id = c.id /\ d.state = (IF c.id \in live THEN "ok" ELSE "failed")
      BY DEF DeletingType
    <3>2. c.state = "sent" /\ live' = live \ {c.id} /\ view' = view /\ calls' = (calls \ {c}) \cup {d}
      BY <1>4 DEF Deleting!Serve, Deleting!Settled
    <3> QED BY ZenonT(40), <3>1, <3>2 DEF ListLags
  <2>4. KeptUntouched'
    BY <1>4 DEF Deleting!Serve, Deleting!Settled, DeletingType, Deleting!TimersReachable, ListLags,
                KeptUntouched, TimersUnwanted
  <2>5. TimersUnwanted'
    BY <1>4 DEF Deleting!Serve, Deleting!Settled, DeletingType, Deleting!TimersReachable, TimersUnwanted
  <2> QED BY <2>1, <2>2, <2>3, <2>4, <2>5
<1>5. ASSUME NEW c \in calls, Deleting!Lose(c) PROVE DeletingInv'
  <2>1. DeletingType'
    BY <1>5 DEF Deleting!Lose, Deleting!Settled, DeletingType
  <2>2. Deleting!TimersReachable'
    BY <1>5 DEF Deleting!Lose, Deleting!Settled, DeletingType, Deleting!TimersReachable
  <2>3. ListLags'
    BY <1>5 DEF Deleting!Lose, Deleting!Settled, DeletingType, ListLags
  <2>4. KeptUntouched'
    BY <1>5 DEF Deleting!Lose, Deleting!Settled, DeletingType, Deleting!TimersReachable, ListLags,
                KeptUntouched, TimersUnwanted
  <2>5. TimersUnwanted'
    BY <1>5 DEF Deleting!Lose, Deleting!Settled, DeletingType, Deleting!TimersReachable, TimersUnwanted
  <2> QED BY <2>1, <2>2, <2>3, <2>4, <2>5
<1>6. ASSUME NEW c \in calls, Deleting!Answer(c) PROVE DeletingInv'
  <2>1. DeletingType'
    BY <1>6 DEF Deleting!Answer, DeletingType
  <2>2. Deleting!TimersReachable'
    BY <1>6 DEF Deleting!Answer, DeletingType, Deleting!TimersReachable
  <2>3. ListLags'
    BY <1>6 DEF Deleting!Answer, DeletingType, ListLags
  <2>4. KeptUntouched'
    BY <1>6 DEF Deleting!Answer, DeletingType, Deleting!TimersReachable, ListLags,
                KeptUntouched, TimersUnwanted
  <2>5. TimersUnwanted'
    BY <1>6 DEF Deleting!Answer, DeletingType, Deleting!TimersReachable, TimersUnwanted
  <2> QED BY <2>1, <2>2, <2>3, <2>4, <2>5
<1>7. ASSUME Deleting!Refetch PROVE DeletingInv'
  <2>1. DeletingType'
    BY <1>7 DEF Deleting!Refetch, DeletingType
  <2>2. Deleting!TimersReachable'
    BY <1>7 DEF Deleting!Refetch, DeletingType, Deleting!TimersReachable
  <2>3. ListLags'
    BY <1>7 DEF Deleting!Refetch, DeletingType, ListLags
  <2>4. KeptUntouched'
    BY <1>7 DEF Deleting!Refetch, DeletingType, Deleting!TimersReachable, ListLags,
                KeptUntouched, TimersUnwanted
  <2>5. TimersUnwanted'
    BY <1>7 DEF Deleting!Refetch, DeletingType, Deleting!TimersReachable, TimersUnwanted
  <2> QED BY <2>1, <2>2, <2>3, <2>4, <2>5
<1>8. ASSUME Deleting!Unmount PROVE DeletingInv'
  <2>1. DeletingType'
    BY <1>8 DEF Deleting!Unmount, Deleting!AfterUnmount, DeletingType
  <2>2. Deleting!TimersReachable'
    BY <1>8 DEF Deleting!Unmount, Deleting!AfterUnmount, DeletingType, Deleting!TimersReachable
  <2>3. ListLags'
    BY <1>8 DEF Deleting!Unmount, Deleting!AfterUnmount, DeletingType, ListLags
  <2>4. KeptUntouched'
    BY <1>8 DEF Deleting!Unmount, Deleting!AfterUnmount, DeletingType, Deleting!TimersReachable, ListLags,
                KeptUntouched, TimersUnwanted
  <2>5. TimersUnwanted'
    BY <1>8 DEF Deleting!Unmount, Deleting!AfterUnmount, DeletingType, Deleting!TimersReachable, TimersUnwanted
  <2> QED BY <2>1, <2>2, <2>3, <2>4, <2>5
<1>9. ASSUME Deleting!Mount PROVE DeletingInv'
  <2>1. DeletingType'
    BY <1>9 DEF Deleting!Mount, DeletingType
  <2>2. Deleting!TimersReachable'
    BY <1>9 DEF Deleting!Mount, DeletingType, Deleting!TimersReachable
  <2>3. ListLags'
    BY <1>9 DEF Deleting!Mount, DeletingType, ListLags
  <2>4. KeptUntouched'
    BY <1>9 DEF Deleting!Mount, DeletingType, Deleting!TimersReachable, ListLags,
                KeptUntouched, TimersUnwanted
  <2>5. TimersUnwanted'
    BY <1>9 DEF Deleting!Mount, DeletingType, Deleting!TimersReachable, TimersUnwanted
  <2> QED BY <2>1, <2>2, <2>3, <2>4, <2>5
<1> QED
  BY <1>1, <1>2, <1>3, <1>4, <1>5, <1>6, <1>7, <1>8, <1>9 DEF Deleting!Next

DeletingPart == part = "deleting" => DeletingInv

(* A row whose deletion was undone, or left behind before its timer fired,  *)
(* stays on the server, however many deletions, mounts and late answers     *)
(* there are, unless it resurfaced in the list and was deleted again.       *)
THEOREM KeptRowsSurvive == MCSpec => []KeptSurvives
<1>1. MCInit => DeletingPart
  BY DEF MCInit, DeletingPart, DeletingInv, DeletingType, Deleting!Init,
         Deleting!TimersReachable, ListLags, KeptUntouched, TimersUnwanted
<1>2. DeletingPart /\ [MCNext]_MCVars => DeletingPart'
  <2> SUFFICES ASSUME DeletingPart, [MCNext]_MCVars, part = "deleting" PROVE DeletingInv'
    BY DEF MCNext, MCVars, DeletingPart
  <2>1. CASE Deleting!Next
    BY <2>1, DeletingStep DEF DeletingPart
  <2>2. CASE UNCHANGED MCVars
    BY <2>2 DEF MCVars, AccountVars, vars, PagesVars, DeletingPart, DeletingInv, DeletingType,
                Deleting!TimersReachable, ListLags, KeptUntouched, TimersUnwanted
  <2> QED BY <2>1, <2>2 DEF MCNext
<1>3. DeletingPart => KeptSurvives
  BY DEF DeletingPart, DeletingInv, KeptSurvives, Deleting!KeptSurvives, KeptUntouched,
         DeletingType
<1> QED BY <1>1, <1>2, <1>3, PTL DEF MCSpec

(* The Venice key.  A key is stored with an endpoint, and none without;     *)
(* until the endpoint field is seeded it is blank and the status has no     *)
(* key.                                                                     *)
ConnectionType ==
    /\ live \in Connection!Row /\ cookie \in Connection!Row
    /\ live.key = 0 => live.endpoint = 0
    /\ status \subseteq Connection!Row
    /\ card \in Connection!Key /\ highlight \in Connection!Key /\ ticked \in Connection!Endpoint
    /\ issued \in Nat /\ page \in Nat /\ saved \in Nat
    /\ stage \subseteq [row : Connection!Row, old : BOOLEAN]
    /\ page # 0 /\ ~busy => ~Connection!HasKey(status) /\ ticked = 0

(* What an operation carries. *)
ConnectionOp == [n : Nat, do : {"put", "delete"}, key : Connection!Key,
                 endpoint : Connection!Endpoint, expect : Connection!Endpoint,
                 by : Nat, state : {"sent", "checked", "done"}]

OpsWhole ==
    /\ calls \subseteq ConnectionOp
    /\ \A x \in calls : /\ x.do = "put" => x.key # 0
                        /\ x.do = "delete" => x.key = 0 /\ x.endpoint = 0 /\ x.expect = 0

Straight == perils \cap {"overlap", "unheard", "crossed"} = {}
Landed == \E x \in calls : x.state = "done"

(* While nothing crossed, one operation at most is under way, and what it   *)
(* wrote is stored until its answer comes; what was fetched before is as    *)
(* stored, or known to be old.                                              *)
OneOperation ==
    Straight => /\ \A x, y \in calls : x = y
                /\ \A x \in calls : /\ x.state = "done" => live = [key |-> x.key, endpoint |-> x.endpoint]
                                    /\ x.expect = x.endpoint \/ "unseeded" \in perils
                /\ Landed \/ live = cookie \/ "unseeded" \in perils
StatusFollows ==
    Straight /\ ~Landed => /\ status \subseteq {live}
                            /\ \A g \in stage : g.old \/ g.row = live
AccountFollows ==
    Straight /\ ~Landed /\ live.key # 0 =>
        /\ open = {} /\ ~expired => \A a \in view : a.of = live
        /\ \A r \in open : r \subseteq {live}
FieldKept == page # 0 => "cleared" \in perils \/ card = highlight

ConnectionInv ==
    /\ ConnectionType /\ OpsWhole /\ OneOperation /\ StatusFollows /\ AccountFollows /\ FieldKept

(* The endpoint of a status that has a key. *)
LEMMA StatusEndpoint ==
    ASSUME NEW s \in SUBSET Connection!Row, Connection!HasKey(s)
    PROVE  (CHOOSE r \in s : TRUE).endpoint \in Connection!Endpoint
<1>1. (CHOOSE r \in s : TRUE) \in s
  BY DEF Connection!HasKey
<1> QED BY <1>1 DEF Connection!Row

(* A step of an operation changes its state and nothing else. *)
LEMMA OpMoves ==
    ASSUME NEW x \in ConnectionOp, NEW s \in {"sent", "checked", "done"}
    PROVE  LET y == [x EXCEPT !.state = s]
           IN  /\ y \in ConnectionOp /\ y.state = s
               /\ y.do = x.do /\ y.key = x.key /\ y.endpoint = x.endpoint
               /\ y.expect = x.expect
BY DEF ConnectionOp

(* Every step of the Venice tab and its operations keeps their invariant.   *)
LEMMA ConnectionStep ==
    ASSUME ConnectionInv, Connection!Next
    PROVE  ConnectionInv'
<1> USE DEF ConnectionInv, ConnectionType, Connection!Row, Connection!Key,
            Connection!Endpoint, Connection!HasKey, Connection!fields,
            Connection!accounts, Straight, Landed
<1>1. ASSUME Connection!Open PROVE ConnectionInv'
  <2>1. ConnectionType'
    <3>1. /\ ticked' \in 0..1
          /\ ~busy' => ~Connection!HasKey(status) /\ ticked' = 0
      <4>1. CASE Connection!HasKey(status)
        BY <1>1, <4>1, StatusEndpoint DEF Connection!Open
      <4>2. CASE ~Connection!HasKey(status)
        <5>1. busy' = FALSE /\ ticked' = 0
          BY <1>1, <4>2, Zenon DEF Connection!Open
        <5>2. status' = status
          BY <1>1 DEF Connection!Open
        <5> QED BY <5>1, <5>2, <4>2
      <4> QED BY <4>1, <4>2
    <3> QED BY <1>1, <3>1 DEF Connection!Open
  <2>2. OpsWhole'
    BY <1>1, StatusEndpoint DEF Connection!Open, OpsWhole, ConnectionOp
  <2>3. OneOperation'
    BY <1>1, StatusEndpoint DEF Connection!Open, OneOperation, OpsWhole,
                                StatusFollows
  <2>4. StatusFollows'
    BY <1>1, StatusEndpoint DEF Connection!Open, StatusFollows, OpsWhole,
                                OneOperation
  <2>5. AccountFollows'
    BY <1>1, StatusEndpoint DEF Connection!Open, AccountFollows, OpsWhole,
                                OneOperation, StatusFollows
  <2>6. FieldKept'
    BY <1>1, StatusEndpoint DEF Connection!Open, FieldKept
  <2> QED BY <2>1, <2>2, <2>3, <2>4, <2>5, <2>6
<1>2. ASSUME Connection!Close PROVE ConnectionInv'
  BY <1>2 DEF Connection!Close, OpsWhole, OneOperation, StatusFollows,
              AccountFollows, FieldKept, ConnectionOp
<1>3. ASSUME NEW k \in Connection!Key \ {0}, Connection!Type(k) PROVE ConnectionInv'
  BY <1>3 DEF Connection!Type, OpsWhole, OneOperation, StatusFollows,
              AccountFollows, FieldKept, ConnectionOp
<1>4. ASSUME NEW e \in Connection!Endpoint, Connection!EditEndpoint(e) PROVE ConnectionInv'
  BY <1>4 DEF Connection!EditEndpoint, OpsWhole, OneOperation, StatusFollows,
              AccountFollows, FieldKept, ConnectionOp
<1>5. ASSUME Connection!Save PROVE ConnectionInv'
  <2>1. ConnectionType'
    BY <1>5 DEF Connection!Save, Connection!Starts
  <2>2. OpsWhole'
    BY <1>5 DEF Connection!Save, Connection!Starts, OpsWhole, ConnectionOp
  <2>3. OneOperation'
    BY <1>5 DEF Connection!Save, Connection!Starts, OneOperation, OpsWhole,
                StatusFollows
  <2>4. StatusFollows'
    BY <1>5 DEF Connection!Save, Connection!Starts, StatusFollows, OpsWhole,
                OneOperation
  <2>5. AccountFollows'
    BY <1>5 DEF Connection!Save, Connection!Starts, AccountFollows, OpsWhole,
                OneOperation, StatusFollows
  <2>6. FieldKept'
    BY <1>5 DEF Connection!Save, Connection!Starts, FieldKept
  <2> QED BY <2>1, <2>2, <2>3, <2>4, <2>5, <2>6
<1>6. ASSUME Connection!Remove PROVE ConnectionInv'
  <2>1. ConnectionType'
    BY <1>6 DEF Connection!Remove, Connection!Starts
  <2>2. OpsWhole'
    BY <1>6 DEF Connection!Remove, Connection!Starts, OpsWhole, ConnectionOp
  <2>3. OneOperation'
    BY <1>6 DEF Connection!Remove, Connection!Starts, OneOperation, OpsWhole,
                StatusFollows
  <2>4. StatusFollows'
    BY <1>6 DEF Connection!Remove, Connection!Starts, StatusFollows,
                OpsWhole, OneOperation
  <2>5. AccountFollows'
    BY <1>6 DEF Connection!Remove, Connection!Starts, AccountFollows,
                OpsWhole, OneOperation, StatusFollows
  <2>6. FieldKept'
    BY <1>6 DEF Connection!Remove, Connection!Starts, FieldKept
  <2> QED BY <2>1, <2>2, <2>3, <2>4, <2>5, <2>6
<1>7. ASSUME NEW x \in calls, Connection!Validate(x) PROVE ConnectionInv'
  <2> DEFINE y == [x EXCEPT !.state = "checked"]
  <2>0. /\ y.state = "checked" /\ y.do = x.do /\ y.key = x.key /\ y.endpoint = x.endpoint
        /\ y.expect = x.expect /\ calls' = (calls \ {x}) \cup {y}
    BY <1>7, OpMoves DEF OpsWhole, Connection!Validate, Connection!Becomes
  <2> HIDE DEF y
  <2>1. ConnectionType'
    BY <1>7, OpMoves DEF Connection!Validate, Connection!Becomes
  <2>2. OpsWhole'
    BY <1>7, OpMoves DEF Connection!Validate, Connection!Becomes, OpsWhole,
                         ConnectionOp
  <2>3. OneOperation'
    BY <1>7, <2>0 DEF Connection!Validate, OneOperation, OpsWhole, StatusFollows
  <2>4. StatusFollows'
    BY <1>7, <2>0 DEF Connection!Validate, StatusFollows, OpsWhole, OneOperation
  <2>5. AccountFollows'
    BY <1>7, <2>0 DEF Connection!Validate, AccountFollows, OpsWhole, OneOperation,
                         StatusFollows
  <2>6. FieldKept'
    BY <1>7, <2>0 DEF Connection!Validate, FieldKept
  <2> QED BY <2>1, <2>2, <2>3, <2>4, <2>5, <2>6
<1>8. ASSUME NEW x \in calls, Connection!Write(x) PROVE ConnectionInv'
  <2> DEFINE y == [x EXCEPT !.state = "done"]
  <2>0. /\ y.state = "done" /\ y.do = x.do /\ y.key = x.key /\ y.endpoint = x.endpoint
        /\ y.expect = x.expect /\ calls' = (calls \ {x}) \cup {y}
    BY <1>8, OpMoves DEF OpsWhole, Connection!Write, Connection!Becomes
  <2> HIDE DEF y
  <2>1. ConnectionType'
    BY <1>8 DEF Connection!Write, Connection!Becomes, OpsWhole, ConnectionOp
  <2>2. OpsWhole'
    BY <1>8, OpMoves DEF Connection!Write, Connection!Becomes, OpsWhole,
                         ConnectionOp
  <2>3. OneOperation'
    BY <1>8, <2>0 DEF Connection!Write, OneOperation,
                         OpsWhole, StatusFollows
  <2>4. StatusFollows'
    BY <1>8, <2>0 DEF Connection!Write, StatusFollows,
                         OpsWhole, OneOperation
  <2>5. AccountFollows'
    BY <1>8, <2>0 DEF Connection!Write, AccountFollows, OpsWhole, OneOperation,
                         StatusFollows
  <2>6. FieldKept'
    BY <1>8, <2>0 DEF Connection!Write, FieldKept
  <2> QED BY <2>1, <2>2, <2>3, <2>4, <2>5, <2>6
<1>9. ASSUME NEW x \in calls, Connection!Fail(x) PROVE ConnectionInv'
  <2>1. ConnectionType'
    BY <1>9 DEF Connection!Fail
  <2>2. OpsWhole'
    BY <1>9 DEF Connection!Fail, OpsWhole, ConnectionOp
  <2>3. OneOperation'
    BY <1>9 DEF Connection!Fail, OneOperation, OpsWhole, StatusFollows
  <2>4. StatusFollows'
    BY <1>9 DEF Connection!Fail, StatusFollows, OpsWhole, OneOperation
  <2>5. AccountFollows'
    BY <1>9 DEF Connection!Fail, AccountFollows, OpsWhole, OneOperation,
                StatusFollows
  <2>6. FieldKept'
    BY <1>9 DEF Connection!Fail, FieldKept
  <2> QED BY <2>1, <2>2, <2>3, <2>4, <2>5, <2>6
<1>10. ASSUME NEW x \in calls, Connection!Succeed(x) PROVE ConnectionInv'
  <2>1. ConnectionType'
    <3>1. status' \in SUBSET Connection!Row /\ cookie' \in Connection!Row
      BY <1>10 DEF Connection!Succeed, OpsWhole, ConnectionOp
    <3>2. /\ ticked' \in 0..1
          /\ page' # 0 /\ ~busy' => ~Connection!HasKey(status') /\ ticked' = 0
      <4>1. CASE page' # 0 /\ ~busy /\ Connection!HasKey(status')
        BY <1>10, <3>1, <4>1, StatusEndpoint DEF Connection!Succeed, Connection!SeededBy
      <4>2. CASE ~(page' # 0 /\ ~busy /\ Connection!HasKey(status'))
        BY <1>10, <4>2 DEF Connection!Succeed, Connection!SeededBy
      <4> QED BY <4>1, <4>2
    <3>3. card' \in Connection!Key /\ highlight' \in Connection!Key
      BY <1>10 DEF Connection!Succeed
    <3>4. stage' \subseteq [row : Connection!Row, old : BOOLEAN]
      <4>1. ASSUME NEW g \in stage
            PROVE  [g EXCEPT !.old = TRUE] \in [row : Connection!Row, old : BOOLEAN]
        OBVIOUS
      <4>2. stage' = {[g EXCEPT !.old = TRUE] : g \in stage}
        BY <1>10 DEF Connection!Succeed
      <4> QED BY ZenonT(40), <4>1, <4>2
    <3>5. live' = live /\ issued' = issued /\ page' = page /\ saved' = saved
      BY <1>10 DEF Connection!Succeed
    <3> QED BY <3>1, <3>2, <3>3, <3>4, <3>5
  <2>2. OpsWhole'
    BY <1>10, StatusEndpoint DEF Connection!Succeed, Connection!SeededBy,
                                 Connection!Invalidated, Connection!Probing,
                                 OpsWhole, ConnectionOp
  <2>3. OneOperation'
    BY <1>10, StatusEndpoint DEF Connection!Succeed, Connection!SeededBy,
                                 Connection!Invalidated, Connection!Probing,
                                 OneOperation, OpsWhole, StatusFollows
  <2>4. StatusFollows'
    BY <1>10, StatusEndpoint DEF Connection!Succeed, Connection!SeededBy,
                                 Connection!Invalidated, Connection!Probing,
                                 StatusFollows, OpsWhole, OneOperation
  <2>5. AccountFollows'
    <3>1. /\ calls' = calls \ {x} /\ x.state = "done" /\ view' = view /\ live' = live
          /\ expired' = expired
          /\ open' = IF x.do = "put" THEN {{}} ELSE open
          /\ Straight' => Straight
      BY <1>10 DEF Connection!Succeed, Connection!Invalidated, Connection!Probing
    <3>2. SUFFICES ASSUME Straight', live'.key # 0 PROVE x.do = "put"
      BY <3>1, <3>2 DEF AccountFollows
    <3> QED BY <3>1, <3>2 DEF OneOperation, OpsWhole, ConnectionOp
  <2>6. FieldKept'
    BY <1>10, StatusEndpoint DEF Connection!Succeed, Connection!SeededBy,
                                 Connection!Invalidated, Connection!Probing,
                                 FieldKept
  <2> QED BY <2>1, <2>2, <2>3, <2>4, <2>5, <2>6
<1>11. ASSUME Connection!Get PROVE ConnectionInv'
  BY <1>11 DEF Connection!Get, OpsWhole, OneOperation, StatusFollows,
               AccountFollows, FieldKept, ConnectionOp
<1>12. ASSUME NEW g \in stage, Connection!Got(g) PROVE ConnectionInv'
  <2>1. ConnectionType'
    BY <1>12, StatusEndpoint DEF Connection!Got, Connection!SeededBy
  <2>2. OpsWhole'
    BY <1>12, StatusEndpoint DEF Connection!Got, Connection!SeededBy,
                                 OpsWhole, ConnectionOp
  <2>3. OneOperation'
    BY <1>12, StatusEndpoint DEF Connection!Got, Connection!SeededBy,
                                 OneOperation, OpsWhole, StatusFollows
  <2>4. StatusFollows'
    BY <1>12, StatusEndpoint DEF Connection!Got, Connection!SeededBy,
                                 StatusFollows, OpsWhole, OneOperation
  <2>5. AccountFollows'
    BY <1>12, StatusEndpoint DEF Connection!Got, Connection!SeededBy,
                                 AccountFollows, OpsWhole, OneOperation,
                                 StatusFollows
  <2>6. FieldKept'
    BY <1>12, StatusEndpoint DEF Connection!Got, Connection!SeededBy,
                                 FieldKept
  <2> QED BY <2>1, <2>2, <2>3, <2>4, <2>5, <2>6
<1>13. ASSUME Connection!GetFails PROVE ConnectionInv'
  BY <1>13 DEF Connection!GetFails, OpsWhole, OneOperation, StatusFollows,
               AccountFollows, FieldKept, ConnectionOp
<1>14. ASSUME Connection!Verify PROVE ConnectionInv'
  BY <1>14 DEF Connection!Verify, Connection!Probing, OpsWhole, OneOperation,
               StatusFollows, AccountFollows, FieldKept, ConnectionOp
<1>15. ASSUME Connection!ProbeReads PROVE ConnectionInv'
  BY <1>15 DEF Connection!ProbeReads, OpsWhole, OneOperation, StatusFollows,
               AccountFollows, FieldKept, ConnectionOp
<1>16. ASSUME NEW r \in Connection!Row, NEW yes \in BOOLEAN, Connection!Probed(r, yes) PROVE ConnectionInv'
  BY <1>16 DEF Connection!Probed, OpsWhole, OneOperation, StatusFollows,
               AccountFollows, FieldKept, ConnectionOp
<1>17. ASSUME Connection!ProbeFails PROVE ConnectionInv'
  BY <1>17 DEF Connection!ProbeFails, OpsWhole, OneOperation, StatusFollows,
               AccountFollows, FieldKept, ConnectionOp
<1> QED BY <1>1, <1>2, <1>3, <1>4, <1>5, <1>6, <1>7, <1>8, <1>9, <1>10, <1>11, <1>12, <1>13,
           <1>14, <1>15, <1>16, <1>17 DEF Connection!Next

ConnectionPart == part = "key" => ConnectionInv

(* At rest the Venice tab shows the key and endpoint that are stored and    *)
(* that the user was told of, "Verified" is said of them alone, and a typed *)
(* key stays until stored, unless operations, fetches or typing crossed.    *)
THEOREM KeyPanelCorrect == MCSpec => []KeyPanelTruthful
<1>1. MCInit => ConnectionPart
  BY DEF MCInit, ConnectionPart, ConnectionInv, ConnectionType, Connection!Init, Connection!NoKey,
         Connection!Row, Connection!Key, Connection!Endpoint, Connection!HasKey, OpsWhole,
         OneOperation, StatusFollows, AccountFollows, FieldKept
<1>2. ConnectionPart /\ [MCNext]_MCVars => ConnectionPart'
  <2> SUFFICES ASSUME ConnectionPart, [MCNext]_MCVars, part = "key" PROVE ConnectionInv'
    BY DEF MCNext, MCVars, ConnectionPart
  <2>1. CASE Connection!Next
    BY <2>1, ConnectionStep DEF ConnectionPart
  <2>2. CASE UNCHANGED MCVars
    BY <2>2 DEF MCVars, AccountVars, vars, PagesVars, ConnectionPart, ConnectionInv,
                ConnectionType, OpsWhole, OneOperation, StatusFollows, AccountFollows, FieldKept,
                Straight, Landed, Connection!HasKey
  <2> QED BY <2>1, <2>2 DEF MCNext
<1>3. ConnectionPart => KeyPanelTruthful
  <2> SUFFICES ASSUME ConnectionInv, part = "key" PROVE Connection!KeyPanelTruthful
    BY DEF ConnectionPart, KeyPanelTruthful
  <2> USE DEF ConnectionInv, Straight, Landed, Connection!AtRest, Connection!Beyond
  <2>1. ASSUME Connection!AtRest, ~Connection!Beyond({"overlap", "unheard"})
        PROVE  /\ Connection!Beyond({"crossed"}) \/ status \subseteq {live}
               /\ Connection!Beyond({"crossed", "unseeded"}) \/ live = cookie
               /\ Connection!Pill = "ok" => Connection!Beyond({"crossed"}) \/ \A a \in view : a.of = live
    <3>1. CASE "crossed" \in perils
      BY <3>1
    <3>2. CASE "crossed" \notin perils
      <4>1. Straight /\ ~Landed
        BY <2>1, <3>2
      <4>2. status \subseteq {live}
        BY <4>1 DEF StatusFollows
      <4>3. live = cookie \/ "unseeded" \in perils
        BY <4>1 DEF OneOperation
      <4>4. ASSUME Connection!Pill = "ok" PROVE \A a \in view : a.of = live
        <5>1. Connection!HasKey(status) /\ ~expired
          BY <4>4 DEF Connection!Pill
        <5>2. live.key # 0
          BY <5>1, <4>2 DEF Connection!HasKey
        <5> QED BY <2>1, <4>1, <5>1, <5>2 DEF AccountFollows
      <4> QED BY <4>2, <4>3, <4>4
    <3> QED BY <3>1, <3>2
  <2>2. page # 0 => Connection!Beyond({"cleared"}) \/ card = highlight
    BY DEF FieldKept
  <2> QED BY <2>1, <2>2 DEF Connection!KeyPanelTruthful
<1> QED BY <1>1, <1>2, <1>3, PTL DEF MCSpec

(* The tab's session.  The types that the proof needs, and what requests    *)
(* carry whatever has gone wrong.                                           *)
Kinds == {"me", "login", "logout", "leave", "query", "cancelled", "mutation", "profile", "stream"}
TabRequest == [kind : Kinds, sid : Nat, era : Nat, state : {"sent", "ok", "401", "failed"},
               as : User \cup {Nobody}]

TabsType ==
    /\ page \in Seq(User) /\ cookie \in 0..Len(page)
    /\ live \subseteq 1..Len(page) /\ open \subseteq 1..Len(page)
    /\ stage \in Nat
    /\ Tabs!SignedIn => code \in User /\ view \in 1..Len(page)

CallsWhole ==
    /\ calls \subseteq TabRequest
    /\ \A r \in calls :
        /\ r.sid \in 0..Len(page) /\ r.era \in 0..stage
        /\ r.state = "ok" /\ r.kind # "logout" => r.sid \in 1..Len(page)
        /\ r.state = "401" => r.kind # "logout" /\ (r.kind # "login" => r.sid \notin live)
        /\ r.kind = "login" => r.as \in User /\ (Tabs!SignedIn => r.era # stage)

(* A session that no answer has named yet is nobody's to sign out of. *)
LoginsFresh ==
    \A r \in calls :
        r.kind = "login" /\ r.state = "ok" =>
            /\ r.sid # cookie /\ r.sid \in live \cup open
            /\ \A q \in calls : q.sid = r.sid => q = r
BootFirst ==
    status = "loading" => /\ 1..Len(page) \subseteq live \cup open
                          /\ \A q \in calls : q.kind # "logout"

(* Unless the boot's answer came late or another tab changed the cookie,    *)
(* the cookie is the session's, and a request of this sign-in carries it;   *)
(* queries and streams are of this sign-in.                                 *)
Apart == perils \cap {"boot", "jar"} = {}
CallsOwn ==
    Apart =>
        /\ Tabs!SignedIn => cookie = view
        /\ \A r \in calls :
            /\ r.kind \in {"query", "stream"} => Tabs!SignedIn /\ r.era = stage
            /\ r.kind \notin {"me", "login"} /\ r.era = stage => r.sid = view
            /\ r.kind = "me" /\ status = "loading" => r.sid = cookie

OwnData ==
    Apart /\ "mutation" \notin perils =>
        /\ Tabs!SignedIn => code = page[view]
        /\ \A u \in issued \cup minted : Tabs!SignedIn /\ u = code

(* A session is live, lapsed, or being signed out of. *)
SignOutUnderWay == \E q \in calls : q.kind = "logout"
InPlay ==
    Apart /\ Tabs!SignedIn =>
        view \in live \cup open \/ \E q \in calls : q.kind = "logout" /\ q.sid = view
ExpiredTruly ==
    Apart /\ "late" \notin perils /\ expired => view \in open \/ SignOutUnderWay

TabsInv == /\ TabsType /\ CallsWhole /\ LoginsFresh /\ BootFirst /\ CallsOwn /\ OwnData
           /\ InPlay /\ ExpiredTruly

(* The server's answer to a request: a fresh session for a login, the       *)
(* cookie's own for the rest.                                               *)
LEMMA TabsServe ==
    ASSUME TabsInv, NEW r \in calls, Tabs!Serve(r)
    PROVE  TabsInv'
<1> USE DEF TabsInv, TabsType, Apart, SignOutUnderWay, Tabs!SignedIn, Tabs!slice, Tabs!server
<1>0. /\ r \in TabRequest /\ r.state = "sent"
      /\ UNCHANGED <<status, code, expired, issued, minted, cookie, view, stage, perils>>
  BY DEF Tabs!Serve, CallsWhole
<1> DEFINE Moved(q, st, s) ==
               /\ calls' = (calls \ {r}) \cup {q} /\ q \in TabRequest /\ q.state = st
               /\ q.sid = s /\ q.kind = r.kind /\ q.era = r.era /\ q.as = r.as
<1>1. ASSUME NEW st \in {"ok", "401"}, Tabs!Decided(r, st) PROVE \E q \in TabRequest : Moved(q, st, r.sid)
  <2>1. [r EXCEPT !.state = st] \in TabRequest /\ Moved([r EXCEPT !.state = st], st, r.sid)
    BY <1>0, <1>1 DEF Tabs!Decided, TabRequest
  <2> QED BY <2>1
<1>2. ASSUME /\ r.kind = "login" /\ page' = Append(page, r.as) /\ live' = live \cup {Len(page')}
             /\ calls' = (calls \ {r}) \cup {[r EXCEPT !.state = "ok", !.sid = Len(page')]}
             /\ open' = open
      PROVE  TabsInv'
  <2>1. /\ page' \in Seq(User) /\ Len(page) \in Nat /\ Len(page') = Len(page) + 1
        /\ \A s \in 1..Len(page) : page'[s] = page[s]
    BY <1>0, <1>2 DEF CallsWhole
  <2>2. PICK q \in TabRequest : Moved(q, "ok", Len(page) + 1)
    <3> DEFINE n == Len(page')
    <3>1. n \in Nat /\ n = Len(page) + 1
      BY <2>1
    <3> HIDE DEF n
    <3>2. [r EXCEPT !.state = "ok", !.sid = n] \in TabRequest
      BY <1>0, <3>1 DEF TabRequest
    <3>3. calls' = (calls \ {r}) \cup {[r EXCEPT !.state = "ok", !.sid = n]}
      BY <1>2 DEF n
    <3>4. Moved([r EXCEPT !.state = "ok", !.sid = n], "ok", Len(page) + 1)
      BY <1>0, <3>1, <3>2, <3>3 DEF TabRequest
    <3> QED BY <3>2, <3>4
  <2>3. TabsType'
    BY <1>0, <1>2, <2>1
  <2>4. CallsWhole'
    BY <1>0, <1>2, <2>1, <2>2 DEF CallsWhole
  <2>5. LoginsFresh' /\ BootFirst'
    BY <1>0, <1>2, <2>1, <2>2 DEF CallsWhole, LoginsFresh, BootFirst
  <2>6. CallsOwn'
    BY <1>0, <1>2, <2>2 DEF CallsWhole, CallsOwn
  <2>7. OwnData'
    BY <1>0, <2>1 DEF OwnData
  <2>8. InPlay' /\ ExpiredTruly'
    BY <1>0, <1>2, <2>2 DEF InPlay, ExpiredTruly
  <2> QED BY <2>3, <2>4, <2>5, <2>6, <2>7, <2>8
(* Every other request keeps its session and leaves the owners alone. *)
<1>3. ASSUME NEW st \in {"ok", "401"}, Tabs!Decided(r, st), page' = page,
             live' \subseteq live, open \subseteq open', open' \subseteq open \cup live,
             live \ live' \subseteq open' \cup {s \in {r.sid} : r.kind = "logout"},
             st = "ok" /\ r.kind # "logout" => r.kind # "login" /\ r.sid \in live,
             st = "401" => r.kind # "logout" /\ (r.kind # "login" => r.sid \notin live)
      PROVE  TabsInv'
  <2>1. PICK q \in TabRequest : Moved(q, st, r.sid)
    BY <1>1, <1>3
  <2> HIDE DEF Moved
  <2> USE DEF Moved
  <2>2. TabsType'
    BY <1>0, <1>3
  <2>3. CallsWhole'
    BY <1>0, <1>3, <2>1 DEF CallsWhole
  <2>4. LoginsFresh'
    BY <1>0, <1>3, <2>1 DEF CallsWhole, LoginsFresh
  <2>5. BootFirst'
    BY <1>0, <1>3, <2>1 DEF BootFirst
  <2>6. CallsOwn'
    BY <1>0, <1>3, <2>1 DEF CallsOwn
  <2>7. OwnData'
    BY <1>0, <1>3 DEF OwnData
  <2>8. InPlay'
    BY <1>0, <1>3, <2>1 DEF InPlay
  <2>9. ExpiredTruly'
    BY <1>0, <1>3, <2>1 DEF ExpiredTruly
  <2> QED BY <2>2, <2>3, <2>4, <2>5, <2>6, <2>7, <2>8, <2>9
<1>4. CASE r.kind = "login" /\ Tabs!Decided(r, "401") /\ UNCHANGED <<page, live, open>>
  BY <1>3, <1>4
<1>5. CASE /\ r.kind = "logout" /\ live' = live \ {r.sid}
           /\ Tabs!Decided(r, "ok") /\ UNCHANGED <<page, open>>
  BY <1>3, <1>5
<1>6. CASE /\ r.kind = "leave" /\ r.sid \in live
           /\ LET closed == {s \in live : page[s] = page[r.sid]}
              IN  live' = live \ closed /\ open' = open \cup closed
           /\ Tabs!Decided(r, "ok") /\ UNCHANGED page
  BY <1>3, <1>6
<1>7. CASE /\ r.kind \notin {"login", "logout", "leave"} /\ r.sid \in live
           /\ Tabs!Decided(r, "ok") /\ UNCHANGED <<page, live, open>>
  BY <1>3, <1>7
<1>8. CASE /\ r.kind \notin {"login", "logout"} /\ r.sid \notin live
           /\ Tabs!Decided(r, "401") /\ UNCHANGED <<page, live, open>>
  BY <1>3, <1>8
<1> QED
  BY <1>2, <1>4, <1>5, <1>6, <1>7, <1>8 DEF Tabs!Serve

(* Every step of the tab's session keeps its invariant.                     *)
LEMMA TabsStep ==
    ASSUME TabsInv, Tabs!Next
    PROVE  TabsInv'
<1> USE DEF TabsInv, TabsType, Apart, SignOutUnderWay, Tabs!SignedIn,
            Tabs!slice, Tabs!server
<1>1. ASSUME NEW u \in User, Tabs!SubmitLogin(u) PROVE TabsInv'
  <2>1. TabsType'
    BY <1>1 DEF Tabs!SubmitLogin, Tabs!Send
  <2>2. CallsWhole'
    BY <1>1, PartsAssumption DEF Tabs!ClientAssumption, Tabs!SubmitLogin, Tabs!Send, CallsWhole,
                                 TabRequest, Kinds
  <2>3. LoginsFresh'
    BY <1>1 DEF Tabs!SubmitLogin, Tabs!Send, LoginsFresh,
                                 CallsWhole, TabRequest, Kinds
  <2>4. BootFirst'
    BY <1>1 DEF Tabs!SubmitLogin, Tabs!Send, BootFirst,
                                 CallsWhole, TabRequest, Kinds
  <2>5. CallsOwn'
    BY <1>1 DEF Tabs!SubmitLogin, Tabs!Send, CallsOwn,
                                 CallsWhole, TabRequest, Kinds, BootFirst
  <2>6. OwnData'
    BY <1>1 DEF Tabs!SubmitLogin, Tabs!Send, OwnData,
                                 CallsWhole, TabRequest, Kinds, CallsOwn
  <2>7. InPlay'
    BY <1>1 DEF Tabs!SubmitLogin, Tabs!Send, InPlay,
                                 CallsWhole, TabRequest, Kinds, CallsOwn,
                                 BootFirst, LoginsFresh
  <2>8. ExpiredTruly'
    BY <1>1 DEF Tabs!SubmitLogin, Tabs!Send, ExpiredTruly,
                                 CallsWhole, TabRequest, Kinds, CallsOwn,
                                 InPlay
  <2> QED BY <2>1, <2>2, <2>3, <2>4, <2>5, <2>6, <2>7, <2>8
<1>2. ASSUME NEW k \in {"logout", "leave", "query", "mutation", "profile", "stream"}, Tabs!Use(k) PROVE TabsInv'
  <2>1. TabsType'
    BY <1>2 DEF Tabs!Use, Tabs!Send
  <2>2. CallsWhole'
    BY <1>2 DEF Tabs!Use, Tabs!Send, CallsWhole, TabRequest, Kinds
  <2>3. LoginsFresh'
    BY <1>2 DEF Tabs!Use, Tabs!Send, LoginsFresh, CallsWhole, TabRequest,
                Kinds
  <2>4. BootFirst'
    BY <1>2 DEF Tabs!Use, Tabs!Send, BootFirst, CallsWhole, TabRequest, Kinds
  <2>5. CallsOwn'
    BY <1>2 DEF Tabs!Use, Tabs!Send, CallsOwn, CallsWhole, TabRequest, Kinds,
                BootFirst
  <2>6. OwnData'
    BY <1>2 DEF Tabs!Use, Tabs!Send, OwnData, CallsWhole, TabRequest, Kinds,
                CallsOwn
  <2>7. InPlay'
    BY <1>2 DEF Tabs!Use, Tabs!Send, InPlay, CallsWhole, TabRequest, Kinds,
                CallsOwn, BootFirst, LoginsFresh
  <2>8. ExpiredTruly'
    BY <1>2 DEF Tabs!Use, Tabs!Send, ExpiredTruly, CallsWhole, TabRequest,
                Kinds, CallsOwn, InPlay
  <2> QED BY <2>1, <2>2, <2>3, <2>4, <2>5, <2>6, <2>7, <2>8
<1>3. ASSUME NEW u \in User, Tabs!OtherTab(u) PROVE TabsInv'
  <2>1. TabsType'
    <3>1. page' \in Seq(User) /\ Len(page) \in Nat /\ Len(page') = Len(page) + 1
      BY <1>3 DEF Tabs!OtherTab
    <3> DEFINE n == Len(page)
    <3>2. cookie' = n + 1 /\ live' = live \cup {n + 1} /\ open' = open /\ Len(page') = n + 1
      BY <1>3, <3>1 DEF Tabs!OtherTab
    <3>3. n \in Nat /\ live \subseteq 1..n /\ open \subseteq 1..n /\ (Tabs!SignedIn => view \in 1..n)
      BY <3>1
    <3> HIDE DEF n
    <3>4. cookie' \in 0..Len(page') /\ live' \subseteq 1..Len(page') /\ open' \subseteq 1..Len(page')
      BY <3>2, <3>3
    <3>5. UNCHANGED <<status, code, view, stage>>
      BY <1>3 DEF Tabs!OtherTab
    <3> QED BY <3>1, <3>2, <3>3, <3>4, <3>5
  <2>2. CallsWhole'
    BY <1>3 DEF Tabs!OtherTab, CallsWhole, TabRequest, Kinds
  <2>3. LoginsFresh'
    BY <1>3 DEF Tabs!OtherTab, LoginsFresh, CallsWhole, TabRequest, Kinds
  <2>4. BootFirst'
    BY <1>3 DEF Tabs!OtherTab, BootFirst, CallsWhole, TabRequest, Kinds
  <2>5. CallsOwn'
    BY <1>3 DEF Tabs!OtherTab, CallsOwn, CallsWhole, TabRequest, Kinds,
                BootFirst
  <2>6. OwnData'
    BY <1>3 DEF Tabs!OtherTab, OwnData, CallsWhole, TabRequest, Kinds,
                CallsOwn
  <2>7. InPlay'
    BY <1>3 DEF Tabs!OtherTab, InPlay, CallsWhole, TabRequest, Kinds,
                CallsOwn, BootFirst, LoginsFresh
  <2>8. ExpiredTruly'
    BY <1>3 DEF Tabs!OtherTab, ExpiredTruly, CallsWhole, TabRequest, Kinds,
                CallsOwn, InPlay
  <2> QED BY <2>1, <2>2, <2>3, <2>4, <2>5, <2>6, <2>7, <2>8
<1>4. ASSUME Tabs!Compose PROVE TabsInv'
  <2>1. TabsType'
    BY <1>4 DEF Tabs!Compose
  <2>2. CallsWhole'
    BY <1>4 DEF Tabs!Compose, CallsWhole, TabRequest, Kinds
  <2>3. LoginsFresh'
    BY <1>4 DEF Tabs!Compose, LoginsFresh, CallsWhole, TabRequest, Kinds
  <2>4. BootFirst'
    BY <1>4 DEF Tabs!Compose, BootFirst, CallsWhole, TabRequest, Kinds
  <2>5. CallsOwn'
    BY <1>4 DEF Tabs!Compose, CallsOwn, CallsWhole, TabRequest, Kinds,
                BootFirst
  <2>6. OwnData'
    BY <1>4 DEF Tabs!Compose, OwnData, CallsWhole, TabRequest, Kinds, CallsOwn
  <2>7. InPlay'
    BY <1>4 DEF Tabs!Compose, InPlay, CallsWhole, TabRequest, Kinds,
                CallsOwn, BootFirst, LoginsFresh
  <2>8. ExpiredTruly'
    BY <1>4 DEF Tabs!Compose, ExpiredTruly, CallsWhole, TabRequest, Kinds,
                CallsOwn, InPlay
  <2> QED BY <2>1, <2>2, <2>3, <2>4, <2>5, <2>6, <2>7, <2>8
<1>5. ASSUME NEW r \in calls, Tabs!Serve(r) PROVE TabsInv'
  BY <1>5, TabsServe
<1>6. ASSUME NEW r \in calls, Tabs!Lose(r) PROVE TabsInv'
  <2> DEFINE q == [r EXCEPT !.state = "failed"]
  <2>0. calls' = (calls \ {r}) \cup {q} /\ q.state = "failed" /\ q.kind = r.kind /\ q.sid = r.sid
    BY <1>6 DEF Tabs!Lose, Tabs!Decided, CallsWhole, TabRequest
  <2> HIDE DEF q
  <2>1. TabsType'
    BY <1>6 DEF Tabs!Lose, Tabs!Decided
  <2>2. CallsWhole'
    BY <1>6 DEF Tabs!Lose, Tabs!Decided, CallsWhole, TabRequest, Kinds
  <2>3. LoginsFresh'
    BY <1>6 DEF Tabs!Lose, Tabs!Decided, LoginsFresh, CallsWhole, TabRequest,
                Kinds
  <2>4. BootFirst'
    BY <1>6 DEF Tabs!Lose, Tabs!Decided, BootFirst, CallsWhole, TabRequest,
                Kinds
  <2>5. CallsOwn'
    BY <1>6 DEF Tabs!Lose, Tabs!Decided, CallsOwn, CallsWhole, TabRequest,
                Kinds, BootFirst
  <2>6. OwnData'
    BY <1>6 DEF Tabs!Lose, Tabs!Decided, OwnData, CallsWhole, TabRequest,
                Kinds, CallsOwn
  <2>7. InPlay'
    BY <1>6, <2>0 DEF Tabs!Lose, InPlay, CallsWhole, TabRequest,
                Kinds, CallsOwn, BootFirst, LoginsFresh
  <2>8. ExpiredTruly'
    BY <1>6, <2>0 DEF Tabs!Lose, ExpiredTruly, CallsWhole,
                TabRequest, Kinds, CallsOwn, InPlay
  <2> QED BY <2>1, <2>2, <2>3, <2>4, <2>5, <2>6, <2>7, <2>8
<1>7. ASSUME NEW r \in calls, Tabs!Answer(r), Tabs!Unauthorized(r) PROVE TabsInv'
  <2>1. TabsType'
    BY <1>7 DEF Tabs!Answer, Tabs!Late, Tabs!Unauthorized,
                Tabs!HandlesUnauthorized, Tabs!ResetClientState, Tabs!Reset,
                Tabs!ClearSession
  <2>2. CallsWhole'
    BY <1>7 DEF Tabs!Answer, Tabs!Late, Tabs!Unauthorized,
                Tabs!HandlesUnauthorized, Tabs!ResetClientState, Tabs!Reset,
                Tabs!ClearSession, CallsWhole, TabRequest, Kinds
  <2>3. LoginsFresh'
    BY <1>7 DEF Tabs!Answer, Tabs!Late, Tabs!Unauthorized,
                Tabs!HandlesUnauthorized, Tabs!ResetClientState, Tabs!Reset,
                Tabs!ClearSession, LoginsFresh, CallsWhole, TabRequest, Kinds
  <2>4. BootFirst'
    BY <1>7 DEF Tabs!Answer, Tabs!Late, Tabs!Unauthorized,
                Tabs!HandlesUnauthorized, Tabs!ResetClientState, Tabs!Reset,
                Tabs!ClearSession, BootFirst, CallsWhole, TabRequest, Kinds
  <2>5. CallsOwn'
    BY <1>7 DEF Tabs!Answer, Tabs!Late, Tabs!Unauthorized,
                Tabs!HandlesUnauthorized, Tabs!ResetClientState, Tabs!Reset,
                Tabs!ClearSession, CallsOwn, CallsWhole, TabRequest, Kinds,
                BootFirst
  <2>6. OwnData'
    BY <1>7 DEF Tabs!Answer, Tabs!Late, Tabs!Unauthorized,
                Tabs!HandlesUnauthorized, Tabs!ResetClientState, Tabs!Reset,
                Tabs!ClearSession, OwnData, CallsWhole, TabRequest, Kinds,
                CallsOwn
  <2>7. InPlay'
    BY <1>7 DEF Tabs!Answer, Tabs!Late, Tabs!Unauthorized,
                Tabs!HandlesUnauthorized, Tabs!ResetClientState, Tabs!Reset,
                Tabs!ClearSession, InPlay, CallsWhole, TabRequest, Kinds,
                CallsOwn, BootFirst, LoginsFresh
  <2>8. ExpiredTruly'
    BY <1>7 DEF Tabs!Answer, Tabs!Late, Tabs!Unauthorized,
                Tabs!HandlesUnauthorized, Tabs!ResetClientState, Tabs!Reset,
                Tabs!ClearSession, ExpiredTruly, CallsWhole, TabRequest,
                Kinds, CallsOwn, InPlay
  <2> QED BY <2>1, <2>2, <2>3, <2>4, <2>5, <2>6, <2>7, <2>8
<1>8. ASSUME NEW r \in calls, Tabs!Answer(r), Tabs!Booted(r) PROVE TabsInv'
  <2>1. TabsType'
    BY <1>8 DEF Tabs!Answer, Tabs!Late, Tabs!Booted, Tabs!BootFails,
                Tabs!SetSession, Tabs!ClearSession, CallsWhole, TabRequest, Kinds
  <2>2. CallsWhole'
    BY <1>8 DEF Tabs!Answer, Tabs!Late, Tabs!Booted, Tabs!BootFails,
                Tabs!SetSession, Tabs!ClearSession, CallsWhole, TabRequest,
                Kinds
  <2>3. LoginsFresh'
    BY <1>8 DEF Tabs!Answer, Tabs!Late, Tabs!Booted, Tabs!BootFails,
                Tabs!SetSession, Tabs!ClearSession, LoginsFresh, CallsWhole,
                TabRequest, Kinds
  <2>4. BootFirst'
    BY <1>8 DEF Tabs!Answer, Tabs!Late, Tabs!Booted, Tabs!BootFails,
                Tabs!SetSession, Tabs!ClearSession, BootFirst, CallsWhole,
                TabRequest, Kinds
  <2>5. CallsOwn'
    <3>1. CASE r.state = "ok"
      <4>1. /\ calls' = calls \ {r} /\ view' = r.sid /\ stage' = stage + 1 /\ cookie' = cookie
            /\ status' = "authenticated" /\ perils \subseteq perils' /\ r.kind = "me"
            /\ status # "loading" => "boot" \in perils'
        BY <1>8, <3>1 DEF Tabs!Answer, Tabs!Late, Tabs!Booted, Tabs!SetSession
      <4> QED BY <4>1 DEF CallsOwn, CallsWhole
    <3>2. CASE r.state # "ok"
      <4>1. /\ calls' = calls \ {r} /\ UNCHANGED <<view, stage, cookie>> /\ r.kind = "me"
            /\ status' = "unauthenticated" /\ perils \subseteq perils'
            /\ status # "loading" => "boot" \in perils'
        BY <1>8, <3>2 DEF Tabs!Answer, Tabs!Late, Tabs!Booted, Tabs!BootFails, Tabs!ClearSession
      <4> QED BY <4>1 DEF CallsOwn
    <3> QED BY <3>1, <3>2
  <2>6. OwnData'
    BY <1>8 DEF Tabs!Answer, Tabs!Late, Tabs!Booted, Tabs!BootFails,
                Tabs!SetSession, Tabs!ClearSession, OwnData, CallsWhole,
                TabRequest, Kinds, CallsOwn
  <2>7. InPlay'
    BY <1>8 DEF Tabs!Answer, Tabs!Late, Tabs!Booted, Tabs!BootFails,
                Tabs!SetSession, Tabs!ClearSession, InPlay, CallsWhole,
                TabRequest, Kinds, CallsOwn, BootFirst, LoginsFresh
  <2>8. ExpiredTruly'
    BY <1>8 DEF Tabs!Answer, Tabs!Late, Tabs!Booted, Tabs!BootFails,
                Tabs!SetSession, Tabs!ClearSession, ExpiredTruly, CallsWhole,
                TabRequest, Kinds, CallsOwn, InPlay
  <2> QED BY <2>1, <2>2, <2>3, <2>4, <2>5, <2>6, <2>7, <2>8
<1>9. ASSUME NEW r \in calls, Tabs!Answer(r), Tabs!LoggedIn(r) PROVE TabsInv'
  <2>1. TabsType'
    BY <1>9 DEF Tabs!Answer, Tabs!Late, Tabs!LoggedIn, Tabs!ResetClientState,
                Tabs!Reset, Tabs!SetSession, CallsWhole, TabRequest, Kinds
  <2>2. CallsWhole'
    BY <1>9 DEF Tabs!Answer, Tabs!Late, Tabs!LoggedIn, Tabs!ResetClientState,
                Tabs!Reset, Tabs!SetSession, CallsWhole, TabRequest, Kinds
  <2>3. LoginsFresh'
    BY <1>9 DEF Tabs!Answer, Tabs!Late, Tabs!LoggedIn, Tabs!ResetClientState,
                Tabs!Reset, Tabs!SetSession, LoginsFresh, CallsWhole,
                TabRequest, Kinds
  <2>4. BootFirst'
    BY <1>9 DEF Tabs!Answer, Tabs!Late, Tabs!LoggedIn, Tabs!ResetClientState,
                Tabs!Reset, Tabs!SetSession, BootFirst, CallsWhole,
                TabRequest, Kinds
  <2>5. CallsOwn'
    <3>1. /\ \A q \in calls' : \E o \in calls : q.era = o.era /\ q.kind # "stream"
                                            /\ q.kind \in {o.kind, "cancelled"}
                                            /\ q.kind # "query"
      BY <1>9 DEF Tabs!LoggedIn, Tabs!ResetClientState, Tabs!Reset, CallsWhole, TabRequest
    <3>2. view' = r.sid /\ stage' = stage + 1 /\ cookie' = r.sid /\ status' = "authenticated"
      BY <1>9 DEF Tabs!LoggedIn, Tabs!SetSession
    <3> QED BY <3>1, <3>2 DEF CallsOwn, CallsWhole
  <2>6. OwnData'
    BY <1>9 DEF Tabs!Answer, Tabs!Late, Tabs!LoggedIn, Tabs!ResetClientState,
                Tabs!Reset, Tabs!SetSession, OwnData, CallsWhole, TabRequest,
                Kinds, CallsOwn
  <2>7. InPlay'
    BY <1>9 DEF Tabs!Answer, Tabs!Late, Tabs!LoggedIn, Tabs!ResetClientState,
                Tabs!Reset, Tabs!SetSession, InPlay, CallsWhole, TabRequest,
                Kinds, CallsOwn, BootFirst, LoginsFresh
  <2>8. ExpiredTruly'
    BY <1>9 DEF Tabs!Answer, Tabs!Late, Tabs!LoggedIn, Tabs!ResetClientState,
                Tabs!Reset, Tabs!SetSession, ExpiredTruly, CallsWhole,
                TabRequest, Kinds, CallsOwn, InPlay
  <2> QED BY <2>1, <2>2, <2>3, <2>4, <2>5, <2>6, <2>7, <2>8
<1>10. ASSUME NEW r \in calls, Tabs!Answer(r), Tabs!LoggedOut(r) PROVE TabsInv'
  <2>1. TabsType'
    BY <1>10 DEF Tabs!Answer, Tabs!Late, Tabs!LoggedOut, Tabs!SignsOut,
                 Tabs!ResetClientState, Tabs!Reset, Tabs!Closes,
                 Tabs!ClearSession
  <2>2. CallsWhole'
    BY <1>10 DEF Tabs!Answer, Tabs!Late, Tabs!LoggedOut, Tabs!SignsOut,
                 Tabs!ResetClientState, Tabs!Reset, Tabs!Closes,
                 Tabs!ClearSession, CallsWhole, TabRequest, Kinds
  <2>3. LoginsFresh'
    BY <1>10 DEF Tabs!Answer, Tabs!Late, Tabs!LoggedOut, Tabs!SignsOut,
                 Tabs!ResetClientState, Tabs!Reset, Tabs!Closes,
                 Tabs!ClearSession, LoginsFresh, CallsWhole, TabRequest,
                 Kinds
  <2>4. BootFirst'
    BY <1>10 DEF Tabs!Answer, Tabs!Late, Tabs!LoggedOut, Tabs!SignsOut,
                 Tabs!ResetClientState, Tabs!Reset, Tabs!Closes,
                 Tabs!ClearSession, BootFirst, CallsWhole, TabRequest, Kinds
  <2>5. CallsOwn'
    BY <1>10 DEF Tabs!Answer, Tabs!Late, Tabs!LoggedOut, Tabs!SignsOut,
                 Tabs!ResetClientState, Tabs!Reset, Tabs!Closes,
                 Tabs!ClearSession, CallsOwn, CallsWhole, TabRequest, Kinds,
                 BootFirst
  <2>6. OwnData'
    BY <1>10 DEF Tabs!Answer, Tabs!Late, Tabs!LoggedOut, Tabs!SignsOut,
                 Tabs!ResetClientState, Tabs!Reset, Tabs!Closes,
                 Tabs!ClearSession, OwnData, CallsWhole, TabRequest, Kinds,
                 CallsOwn
  <2>7. InPlay'
    BY <1>10 DEF Tabs!Answer, Tabs!Late, Tabs!LoggedOut, Tabs!SignsOut,
                 Tabs!ResetClientState, Tabs!Reset, Tabs!Closes,
                 Tabs!ClearSession, InPlay, CallsWhole, TabRequest, Kinds,
                 CallsOwn, BootFirst, LoginsFresh
  <2>8. ExpiredTruly'
    BY <1>10 DEF Tabs!Answer, Tabs!Late, Tabs!LoggedOut, Tabs!SignsOut,
                 Tabs!ResetClientState, Tabs!Reset, Tabs!Closes,
                 Tabs!ClearSession, ExpiredTruly, CallsWhole, TabRequest,
                 Kinds, CallsOwn, InPlay
  <2> QED BY <2>1, <2>2, <2>3, <2>4, <2>5, <2>6, <2>7, <2>8
<1>11. ASSUME NEW r \in calls, Tabs!Answer(r), Tabs!Kept(r) PROVE TabsInv'
  <2>1. TabsType'
    BY <1>11 DEF Tabs!Answer, Tabs!Late, Tabs!Kept, Tabs!SignsOut, CallsWhole, TabRequest, Kinds
  <2>2. CallsWhole'
    BY <1>11 DEF Tabs!Answer, Tabs!Late, Tabs!Kept, Tabs!SignsOut,
                 CallsWhole, TabRequest, Kinds
  <2>3. LoginsFresh'
    BY <1>11 DEF Tabs!Answer, Tabs!Late, Tabs!Kept, Tabs!SignsOut,
                 LoginsFresh, CallsWhole, TabRequest, Kinds
  <2>4. BootFirst'
    BY <1>11 DEF Tabs!Answer, Tabs!Late, Tabs!Kept, Tabs!SignsOut, BootFirst,
                 CallsWhole, TabRequest, Kinds
  <2>5. CallsOwn'
    BY <1>11 DEF Tabs!Answer, Tabs!Late, Tabs!Kept, Tabs!SignsOut, CallsOwn,
                 CallsWhole, TabRequest, Kinds, BootFirst
  <2>6. OwnData'
    BY <1>11 DEF Tabs!Answer, Tabs!Late, Tabs!Kept, Tabs!SignsOut, OwnData,
                 CallsWhole, TabRequest, Kinds, CallsOwn
  <2>7. InPlay'
    BY <1>11 DEF Tabs!Answer, Tabs!Late, Tabs!Kept, Tabs!SignsOut, InPlay,
                 CallsWhole, TabRequest, Kinds, CallsOwn, BootFirst,
                 LoginsFresh
  <2>8. ExpiredTruly'
    BY <1>11 DEF Tabs!Answer, Tabs!Late, Tabs!Kept, Tabs!SignsOut,
                 ExpiredTruly, CallsWhole, TabRequest, Kinds, CallsOwn,
                 InPlay
  <2> QED BY <2>1, <2>2, <2>3, <2>4, <2>5, <2>6, <2>7, <2>8
<1>12. ASSUME NEW r \in calls, Tabs!Chunk(r) PROVE TabsInv'
  <2>1. TabsType'
    BY <1>12 DEF Tabs!Chunk
  <2>2. CallsWhole'
    BY <1>12 DEF Tabs!Chunk, CallsWhole, TabRequest, Kinds
  <2>3. LoginsFresh'
    BY <1>12 DEF Tabs!Chunk, LoginsFresh, CallsWhole, TabRequest, Kinds
  <2>4. BootFirst'
    BY <1>12 DEF Tabs!Chunk, BootFirst, CallsWhole, TabRequest, Kinds
  <2>5. CallsOwn'
    BY <1>12 DEF Tabs!Chunk, CallsOwn, CallsWhole, TabRequest, Kinds,
                 BootFirst
  <2>6. OwnData'
    BY <1>12 DEF Tabs!Chunk, OwnData, CallsWhole, TabRequest, Kinds, CallsOwn
  <2>7. InPlay'
    BY <1>12 DEF Tabs!Chunk, InPlay, CallsWhole, TabRequest, Kinds, CallsOwn,
                 BootFirst, LoginsFresh
  <2>8. ExpiredTruly'
    BY <1>12 DEF Tabs!Chunk, ExpiredTruly, CallsWhole, TabRequest, Kinds,
                 CallsOwn, InPlay
  <2> QED BY <2>1, <2>2, <2>3, <2>4, <2>5, <2>6, <2>7, <2>8
<1>13. ASSUME NEW r \in calls, Tabs!StreamEnds(r) PROVE TabsInv'
  <2>1. TabsType'
    BY <1>13 DEF Tabs!StreamEnds
  <2>2. CallsWhole'
    BY <1>13 DEF Tabs!StreamEnds, CallsWhole, TabRequest, Kinds
  <2>3. LoginsFresh'
    BY <1>13 DEF Tabs!StreamEnds, LoginsFresh, CallsWhole, TabRequest, Kinds
  <2>4. BootFirst'
    BY <1>13 DEF Tabs!StreamEnds, BootFirst, CallsWhole, TabRequest, Kinds
  <2>5. CallsOwn'
    BY <1>13 DEF Tabs!StreamEnds, CallsOwn, CallsWhole, TabRequest, Kinds,
                 BootFirst
  <2>6. OwnData'
    BY <1>13 DEF Tabs!StreamEnds, OwnData, CallsWhole, TabRequest, Kinds,
                 CallsOwn
  <2>7. InPlay'
    BY <1>13 DEF Tabs!StreamEnds, InPlay, CallsWhole, TabRequest, Kinds,
                 CallsOwn, BootFirst, LoginsFresh
  <2>8. ExpiredTruly'
    BY <1>13 DEF Tabs!StreamEnds, ExpiredTruly, CallsWhole, TabRequest,
                 Kinds, CallsOwn, InPlay
  <2> QED BY <2>1, <2>2, <2>3, <2>4, <2>5, <2>6, <2>7, <2>8
<1>14. ASSUME NEW s \in live, Tabs!Lapse(s) PROVE TabsInv'
  <2>1. TabsType'
    BY <1>14 DEF Tabs!Lapse
  <2>2. CallsWhole'
    BY <1>14 DEF Tabs!Lapse, CallsWhole, TabRequest, Kinds
  <2>3. LoginsFresh'
    BY <1>14 DEF Tabs!Lapse, LoginsFresh, CallsWhole, TabRequest, Kinds
  <2>4. BootFirst'
    BY <1>14 DEF Tabs!Lapse, BootFirst, CallsWhole, TabRequest, Kinds
  <2>5. CallsOwn'
    BY <1>14 DEF Tabs!Lapse, CallsOwn, CallsWhole, TabRequest, Kinds,
                 BootFirst
  <2>6. OwnData'
    BY <1>14 DEF Tabs!Lapse, OwnData, CallsWhole, TabRequest, Kinds, CallsOwn
  <2>7. InPlay'
    BY <1>14 DEF Tabs!Lapse, InPlay, CallsWhole, TabRequest, Kinds, CallsOwn,
                 BootFirst, LoginsFresh
  <2>8. ExpiredTruly'
    BY <1>14 DEF Tabs!Lapse, ExpiredTruly, CallsWhole, TabRequest, Kinds,
                 CallsOwn, InPlay
  <2> QED BY <2>1, <2>2, <2>3, <2>4, <2>5, <2>6, <2>7, <2>8
<1> QED
  BY <1>1, <1>2, <1>3, <1>4, <1>5, <1>6, <1>7, <1>8, <1>9, <1>10, <1>11, <1>12, <1>13, <1>14
     DEF Tabs!Next, Tabs!Answer

TabsPart == part = "session" => TabsInv

(* The invariant of the tab's session holds throughout.                     *)
LEMMA TabsInvariant == MCSpec => []TabsPart
<1>1. MCInit => TabsPart
  <2> SUFFICES ASSUME MCInit, part = "session" PROVE TabsInv
    BY DEF TabsPart
  <2>1. Tabs!Init
    BY DEF MCInit
  <2>2. TabsType /\ CallsWhole /\ Len(page) \in Nat
    <3>1. /\ page \in Seq(User) /\ Len(page) \in {0, 1} /\ cookie = Len(page)
          /\ live = 1..Len(page)
      <4>1. CASE page = <<>> /\ cookie = 0
        BY <2>1, <4>1 DEF Tabs!Init
      <4>2. ASSUME NEW u \in User, page = <<u>>, cookie = 1
            PROVE  /\ page \in Seq(User) /\ Len(page) \in {0, 1} /\ cookie = Len(page)
                   /\ live = 1..Len(page)
        BY <2>1, <4>2 DEF Tabs!Init
      <4> QED BY <2>1, <4>1, <4>2 DEF Tabs!Init
    <3>2. Tabs!Asks \in TabRequest
      BY <3>1 DEF Tabs!Asks, TabRequest, Kinds
    <3>3. TabsType
      BY <2>1, <3>1 DEF Tabs!Init, TabsType, Tabs!SignedIn
    <3>4. CallsWhole
      BY <2>1, <3>1, <3>2 DEF Tabs!Init, Tabs!Asks, CallsWhole
    <3> QED BY <3>1, <3>3, <3>4
  <2>3. LoginsFresh /\ BootFirst /\ CallsOwn
    BY <2>1, <2>2 DEF Tabs!Init, Tabs!Asks, LoginsFresh, BootFirst, CallsOwn, Tabs!SignedIn
  <2>4. OwnData /\ InPlay /\ ExpiredTruly
    BY <2>1 DEF Tabs!Init, Tabs!SignedIn, OwnData, InPlay, ExpiredTruly
  <2> QED BY <2>2, <2>3, <2>4 DEF TabsInv
<1>2. TabsPart /\ [MCNext]_MCVars => TabsPart'
  <2> SUFFICES ASSUME TabsPart, [MCNext]_MCVars, part = "session" PROVE TabsInv'
    BY DEF MCNext, MCVars, TabsPart
  <2>1. CASE Tabs!Next
    BY <2>1, TabsStep DEF TabsPart
  <2>2. CASE UNCHANGED MCVars
    BY <2>2 DEF MCVars, AccountVars, vars, PagesVars, TabsPart, TabsInv, TabsType, CallsWhole,
                LoginsFresh, BootFirst, CallsOwn, OwnData, InPlay, ExpiredTruly, Apart,
                SignOutUnderWay, Tabs!SignedIn
  <2> QED BY <2>1, <2>2 DEF MCNext
<1> QED BY <1>1, <1>2, PTL DEF MCSpec

(* A tab holds the signed-in user's data and nobody else's, however logins, *)
(* sign-outs, expiries and answers interleave, unless a mutation outlived   *)
(* its session, the boot's answer was late or another tab moved the cookie. *)
THEOREM DataIsOnesOwn == MCSpec => []NoStrangersData
<1>1. TabsPart => NoStrangersData
  BY DEF TabsPart, TabsInv, OwnData, Apart, NoStrangersData, Tabs!NoStrangersData
<1> QED BY TabsInvariant, <1>1, PTL

(* "Your session has expired" is said of a session that did end otherwise   *)
(* than by the user here, unless an earlier session's answer came late or a *)
(* sign-out is under way.                                                   *)
THEOREM ExpiryCorrect == MCSpec => []ExpiryIsReal
<1>1. TabsPart => ExpiryIsReal
  BY DEF TabsPart, TabsInv, ExpiredTruly, Apart, SignOutUnderWay, ExpiryIsReal,
         Tabs!ExpiryIsReal
<1> QED BY TabsInvariant, <1>1, PTL

(* Export and import.  Every row was written at an instant that has passed, *)
(* and ids are drawn in order.                                              *)
FileEntry == [id : Nat, texts : [Transfer!Piece -> Nat], mark : Nat, torn : BOOLEAN]

TransferType ==
    /\ issued \in Nat /\ code \in Nat
    /\ DOMAIN live \subseteq 1..code
    /\ \A i \in DOMAIN live : /\ live[i] \in [Transfer!Piece -> Transfer!Row]
                              /\ \A p \in Transfer!Piece : live[i][p].at <= issued
    /\ saved \subseteq Seq(FileEntry)
    /\ stage \in {"planning", "ready", "backing", "importing"} => card \in saved /\ card # <<>>
    /\ view \in Seq(Transfer!Resolution)

(* An entry that was read whole: a row no newer than its mark is as it was. *)
Current(e) ==
    ~e.torn /\ e.id \in DOMAIN live =>
        \A p \in Transfer!Piece :
            live[e.id][p].at <= e.mark => live[e.id][p].text \in {0, e.texts[p]}

ExportJob == [why : {"user", "safety"}, k : Nat \ {0}, read : BOOLEAN, entries : Seq(FileEntry)]
ImportJob == [n : Nat, file : Seq(FileEntry), todo : Seq(Transfer!Resolution), k : Nat \ {0},
              over : BOOLEAN, safe : BOOLEAN]

FilesTrue == \A f \in saved : \A n \in DOMAIN f :
                 f[n].id <= code /\ f[n].mark <= issued /\ Current(f[n])
ExportTrue ==
    /\ open \subseteq ExportJob
    /\ \A x \in open :
        /\ \A n \in DOMAIN x.entries :
            x.entries[n].id <= code /\ (n < x.k => x.entries[n].mark <= issued /\ Current(x.entries[n]))
        /\ x.why = "safety" => stage = "backing"

(* The rows that a downloaded file holds a copy of. *)
Copied(i, p) ==
    live[i][p].text = 0
        \/ \E f \in saved : \E n \in DOMAIN f : f[n].id = i /\ f[n].texts[p] = live[i][p].text

(* While nothing was edited, a safety backup has what the restore it is     *)
(* for may replace, or still will read it,                                  *)
Unread(x, m, p) == p # Root /\ (m > x.k \/ (m = x.k /\ ~x.read))
BackingTrue ==
    ~expired => \A x \in open : x.why = "safety" =>
        /\ \A n \in DOMAIN card : card[n].id \in DOMAIN live =>
              \E m \in DOMAIN x.entries : x.entries[m].id = card[n].id
        /\ \A m \in DOMAIN x.entries : x.entries[m].id \in DOMAIN live =>
              \A p \in Transfer!Piece :
                  \/ Copied(x.entries[m].id, p) \/ Unread(x, m, p)
                  \/ x.entries[m].texts[p] = live[x.entries[m].id][p].text

(* and a restore that it was for replaces what has a copy. *)
ImportsTrue ==
    /\ calls \subseteq ImportJob /\ IsFiniteSet(calls)
    /\ \A j \in calls : ~j.over =>
        /\ j.file \in saved /\ j.k \in DOMAIN j.file
        /\ ~expired /\ j.safe =>
              \A k \in DOMAIN j.file : k >= j.k /\ j.file[k].id \in DOMAIN live =>
                  \A p \in Transfer!Piece : Copied(j.file[k].id, p)

NothingLost == (expired \/ perils = {}) /\ busy \subseteq DOMAIN live

TransferInv == /\ TransferType /\ FilesTrue /\ ExportTrue /\ BackingTrue /\ ImportsTrue
               /\ NothingLost

(* The newest of a story's rows: no later than a bound that all respect.    *)
LEMMA Newest ==
    ASSUME NEW story, NEW b \in Nat,
           \A p \in Transfer!Piece : story[p].at \in Nat /\ story[p].at <= b
    PROVE  /\ Transfer!contentUpdatedAtMax(story) <= b
           /\ Transfer!contentUpdatedAtMax(story) \in Nat
           /\ \A p \in Transfer!Piece : story[p].at <= Transfer!contentUpdatedAtMax(story)
<1> DEFINE S == {story[p].at : p \in Transfer!Piece}
           T == {b - s : s \in S}
<1>1. S \subseteq Nat /\ S # {} /\ \A s \in S : s <= b
  BY DEF Transfer!Piece
<1>2. T \subseteq Nat /\ T # {}
  BY <1>1
<1>3. \E x \in T : \A y \in T : ~ (<<y, x>> \in OpToRel(<, Nat))
  BY <1>2, NatLessThanWellFounded, WFMin
<1>4. \E x \in T : \A y \in T : ~ (y < x)
  BY <1>2, <1>3 DEF OpToRel
<1>5. \E m \in S : \A s \in S : m >= s
  <2>1. PICK x \in T : \A y \in T : ~ (y < x)
    BY <1>4
  <2>2. PICK m \in S : x = b - m
    BY <2>1
  <2>3. ASSUME NEW s \in S PROVE m >= s
    <3>1. b - s \in T
      OBVIOUS
    <3>2. m \in Nat /\ s \in Nat
      BY <1>1
    <3> HIDE DEF S, T
    <3> QED BY <2>1, <2>2, <3>1, <3>2
  <2> QED BY <2>3
<1>6. Transfer!contentUpdatedAtMax(story) = CHOOSE x \in S : \A y \in S : x >= y
  BY DEF Transfer!contentUpdatedAtMax, Transfer!Max
<1>7. /\ Transfer!contentUpdatedAtMax(story) \in S
      /\ \A y \in S : Transfer!contentUpdatedAtMax(story) >= y
  BY <1>5, <1>6
<1> QED BY <1>1, <1>7

(* A step of the tab alone, or the end of an export. *)
LEMMA TabMoves ==
    ASSUME TransferInv, UNCHANGED <<live, issued, code, saved, calls, busy, perils, expired>>,
           open' \subseteq open, view' \in Seq(Transfer!Resolution),
           stage' \in {"planning", "ready", "backing", "importing"} => card' \in saved /\ card' # <<>>,
           \A x \in open' : x.why = "safety" => stage' = "backing" /\ card' = card
    PROVE  TransferInv'
<1> USE DEF TransferInv
<1>1. TransferType'
  BY DEF TransferType
<1>2. FilesTrue'
  BY DEF FilesTrue, Current
<1>3. ExportTrue'
  BY DEF ExportTrue, Current
<1>4. BackingTrue'
  BY DEF BackingTrue, Copied, Unread
<1>5. ImportsTrue'
  BY DEF ImportsTrue, Copied
<1>6. NothingLost'
  BY DEF NothingLost
<1> QED BY <1>1, <1>2, <1>3, <1>4, <1>5, <1>6

(* An edit elsewhere. *)
LEMMA EditedElsewhere ==
    ASSUME TransferInv, Transfer!Elsewhere, issued' \in Nat, issued' >= issued,
           DOMAIN live' \subseteq DOMAIN live, busy' \subseteq DOMAIN live',
           \A i \in DOMAIN live' :
               /\ live'[i] \in [Transfer!Piece -> Transfer!Row]
               /\ \A p \in Transfer!Piece :
                     \/ live'[i][p] = live[i][p]
                     \/ live'[i][p].at > issued /\ live'[i][p].at <= issued'
                     \/ live'[i][p].text = 0 /\ live'[i][p].at = 0
    PROVE  TransferInv'
<1> USE DEF TransferInv
<1>0. /\ UNCHANGED <<code, open, saved, stage, card, ticked, view, calls, perils>>
      /\ expired' = (expired \/ stage = "backing" \/ \E j \in calls : ~j.over)
  BY DEF Transfer!Elsewhere, Transfer!tab
<1>1. TransferType'
  <2>1. ASSUME NEW i \in DOMAIN live', NEW p \in Transfer!Piece PROVE live'[i][p].at <= issued'
    BY DEF TransferType, Transfer!Row
  <2> QED BY <1>0, <2>1 DEF TransferType
<1>2. ASSUME NEW e \in FileEntry, e.mark <= issued, Current(e) PROVE Current(e)'
  <2> SUFFICES ASSUME ~e.torn, e.id \in DOMAIN live', NEW p \in Transfer!Piece,
                      live'[e.id][p].at <= e.mark
               PROVE  live'[e.id][p].text \in {0, e.texts[p]}
    BY DEF Current
  <2>1. live'[e.id][p].at \in Nat /\ e.mark \in Nat /\ issued \in Nat
    BY DEF TransferType, Transfer!Row, FileEntry
  <2>2. ~ (live'[e.id][p].at > issued)
    BY <1>2, <2>1
  <2> QED BY <1>2, <2>2 DEF Current
<1>3. FilesTrue'
  <2> SUFFICES ASSUME NEW f \in saved, NEW n \in DOMAIN f
               PROVE  f[n].id <= code /\ f[n].mark <= issued' /\ Current(f[n])'
    BY <1>0 DEF FilesTrue
  <2>1. f[n] \in FileEntry /\ f[n].id <= code /\ f[n].mark <= issued /\ Current(f[n])
    BY DEF FilesTrue, TransferType
  <2>2. f[n].mark <= issued'
    BY <2>1 DEF TransferType, FileEntry
  <2> QED BY <1>2, <2>1, <2>2
<1>4. ExportTrue'
  <2> SUFFICES ASSUME NEW x \in open, NEW n \in DOMAIN x.entries
               PROVE  /\ x.entries[n].id <= code
                      /\ n < x.k => x.entries[n].mark <= issued' /\ Current(x.entries[n])'
    BY <1>0 DEF ExportTrue
  <2>1. x.entries[n] \in FileEntry /\ x.entries[n].id <= code
    BY DEF ExportTrue, ExportJob
  <2>2. ASSUME n < x.k PROVE x.entries[n].mark <= issued' /\ Current(x.entries[n])'
    <3>1. x.entries[n].mark <= issued /\ Current(x.entries[n])
      BY <2>2 DEF ExportTrue
    <3> QED BY <1>2, <2>1, <3>1 DEF TransferType, FileEntry
  <2> QED BY <2>1, <2>2
<1>5. BackingTrue'
  BY <1>0 DEF BackingTrue, ExportTrue
<1>6. ImportsTrue'
  BY <1>0 DEF ImportsTrue
<1>7. NothingLost'
  BY <1>0 DEF NothingLost
<1> QED BY <1>1, <1>3, <1>4, <1>5, <1>6, <1>7

(* The export lists every story there is. *)
LEMMA ExportBegins ==
    ASSUME TransferInv, NEW why \in {"user", "safety"}, Transfer!BeginExport(why)
    PROVE  \E x \in ExportJob :
              /\ open' = {x} /\ x.why = why /\ x.k = 1 /\ ~x.read
              /\ \A n \in DOMAIN x.entries : /\ x.entries[n].id \in DOMAIN live
                                             /\ x.entries[n].texts[Root] = live[x.entries[n].id][Root].text
              /\ \A i \in DOMAIN live : \E n \in DOMAIN x.entries : x.entries[n].id = i
<1> DEFINE c == Transfer!Cardinality(DOMAIN live)
<1>1. c \in Nat
  <2>1. IsFiniteSet(1..code)
    BY FS_Interval DEF TransferInv, TransferType
  <2>2. IsFiniteSet(DOMAIN live)
    BY <2>1, FS_Subset DEF TransferInv, TransferType
  <2>3. c = Cardinality(DOMAIN live)
    BY DEF Transfer!Cardinality, Cardinality
  <2> QED BY <2>2, <2>3, FS_CardinalityType
<1> HIDE DEF c
<1>2. PICK s \in [1..c -> DOMAIN live] :
         /\ Transfer!IsListing(s)
         /\ open' = {[why |-> why, k |-> 1, read |-> FALSE,
                      entries |-> [n \in DOMAIN s |-> Transfer!Listed(s[n])]]}
  BY Zenon DEF Transfer!BeginExport, c
<1> DEFINE es == [n \in 1..c |-> Transfer!Listed(s[n])]
           x == [why |-> why, k |-> 1, read |-> FALSE, entries |-> es]
<1>3. ASSUME NEW i \in DOMAIN live
      PROVE  /\ Transfer!Listed(i) \in FileEntry /\ Transfer!Listed(i).id = i
             /\ Transfer!Listed(i).texts[Root] = live[i][Root].text
  <2>1. i \in Nat /\ \A p \in Transfer!Piece : live[i][p].text \in Nat
    BY DEF TransferInv, TransferType, Transfer!Row
  <2>2. [p \in Transfer!Piece |-> IF p = Root THEN live[i][p].text ELSE 0] \in [Transfer!Piece -> Nat]
    BY <2>1
  <2> QED BY <2>1, <2>2 DEF Transfer!Listed, FileEntry, Transfer!Piece
<1>4. es \in Seq(FileEntry) /\ DOMAIN es = 1..c
  BY <1>1, <1>2, <1>3
<1>5. x \in ExportJob /\ open' = {x}
  BY <1>2, <1>4 DEF ExportJob
<1>6. \A n \in DOMAIN es : /\ es[n].id \in DOMAIN live
                           /\ es[n].texts[Root] = live[es[n].id][Root].text
  BY <1>2, <1>3
<1>7. \A i \in DOMAIN live : \E n \in DOMAIN es : es[n].id = i
  BY <1>2, <1>3 DEF Transfer!IsListing
<1> HIDE DEF es
<1> QED BY <1>5, <1>6, <1>7

(* Reading an entry. *)
LEMMA EntryRead ==
    ASSUME NEW s \in Seq(FileEntry), NEW k \in DOMAIN s, NEW e \in FileEntry
    PROVE  LET t == [s EXCEPT ![k] = e]
           IN  /\ t \in Seq(FileEntry) /\ DOMAIN t = DOMAIN s /\ Len(t) = Len(s) /\ t[k] = e
               /\ \A n \in DOMAIN s \ {k} : t[n] = s[n]
OBVIOUS

(* The rows below a story are read into its entry.                          *)
LEMMA PartsRead ==
    ASSUME TransferInv, NEW x \in open, Transfer!ReadParts(x)
    PROVE  TransferInv'
<1> USE DEF TransferInv
<1> DEFINE k == x.k
           o == x.entries[k]
           texts == [p \in Transfer!Piece |-> IF p = Root THEN o.texts[p] ELSE live[o.id][p].text]
           e == [o EXCEPT !.texts = texts]
           y == [x EXCEPT !.read = TRUE, !.entries = [x.entries EXCEPT ![k] = e]]
<1>1. x \in ExportJob /\ k \in DOMAIN x.entries /\ o \in FileEntry /\ o.id \in DOMAIN live
  <2>1. x \in ExportJob
    BY DEF ExportTrue
  <2>2. x.entries \in Seq(FileEntry) /\ k \in Nat \ {0}
    BY SMTT(30), <2>1 DEF ExportJob
  <2>3. k <= Len(x.entries) /\ o.id \in DOMAIN live
    BY DEF Transfer!ReadParts
  <2>4. k \in DOMAIN x.entries
    BY <2>2, <2>3
  <2> QED BY <2>1, <2>2, <2>3, <2>4
<1>2. texts \in [Transfer!Piece -> Nat]
  BY <1>1 DEF TransferType, Transfer!Row, FileEntry
<1>3. e \in FileEntry /\ e.id = o.id /\ e.texts = texts
  BY SMTT(30), <1>1, <1>2 DEF FileEntry
<1>4. open' = {y} /\ UNCHANGED <<live, issued, code, saved, stage, card, view, calls, busy, perils, expired>>
  BY DEF Transfer!ReadParts, Transfer!tab
<1>5. /\ y \in ExportJob /\ y.why = x.why /\ y.k = k /\ y.read /\ y.entries[k] = e
      /\ DOMAIN y.entries = DOMAIN x.entries
      /\ \A n \in DOMAIN x.entries \ {k} : y.entries[n] = x.entries[n]
  <2> DEFINE t == [x.entries EXCEPT ![k] = e]
  <2>1. /\ t \in Seq(FileEntry) /\ DOMAIN t = DOMAIN x.entries /\ t[k] = e
        /\ \A n \in DOMAIN x.entries \ {k} : t[n] = x.entries[n]
    BY <1>1, <1>3, EntryRead DEF ExportJob
  <2> HIDE DEF t
  <2>2. /\ [x EXCEPT !.read = TRUE, !.entries = t] \in ExportJob
        /\ [x EXCEPT !.read = TRUE, !.entries = t].why = x.why
        /\ [x EXCEPT !.read = TRUE, !.entries = t].k = k
        /\ [x EXCEPT !.read = TRUE, !.entries = t].read
        /\ [x EXCEPT !.read = TRUE, !.entries = t].entries = t
    BY <1>1, <2>1 DEF ExportJob
  <2>3. y = [x EXCEPT !.read = TRUE, !.entries = t]
    BY DEF t
  <2> HIDE DEF y
  <2>4. y \in ExportJob /\ y.why = x.why /\ y.k = k /\ y.read /\ y.entries = t
    BY <2>2, <2>3
  <2> QED BY <2>1, <2>4
<1> HIDE DEF y, e, texts, o
<1>6. TransferType'
  BY <1>4 DEF TransferType
<1>7. FilesTrue'
  BY <1>4 DEF FilesTrue, Current
<1>8. ExportTrue'
  <2>1. ASSUME NEW n \in DOMAIN y.entries
        PROVE  /\ y.entries[n].id <= code
               /\ n < y.k => y.entries[n].mark <= issued /\ Current(y.entries[n])
    BY <1>1, <1>3, <1>5 DEF ExportTrue, ExportJob, o
  <2> QED BY <1>4, <1>5, <2>1 DEF ExportTrue, Current
<1>9. BackingTrue'
  <2> SUFFICES ASSUME ~expired, x.why = "safety"
               PROVE  /\ \A n \in DOMAIN card : card[n].id \in DOMAIN live =>
                            \E m \in DOMAIN y.entries : y.entries[m].id = card[n].id
                      /\ \A m \in DOMAIN y.entries : y.entries[m].id \in DOMAIN live =>
                            \A p \in Transfer!Piece :
                                \/ Copied(y.entries[m].id, p) \/ Unread(y, m, p)
                                \/ y.entries[m].texts[p] = live[y.entries[m].id][p].text
    BY <1>4, <1>5 DEF BackingTrue, Copied, Unread
  <2>1. \A m \in DOMAIN y.entries : y.entries[m].id = x.entries[m].id
    BY <1>3, <1>5 DEF o
  <2>2. ASSUME NEW m \in DOMAIN y.entries, y.entries[m].id \in DOMAIN live, NEW p \in Transfer!Piece
        PROVE  \/ Copied(y.entries[m].id, p) \/ Unread(y, m, p)
               \/ y.entries[m].texts[p] = live[y.entries[m].id][p].text
    <3>1. CASE m # k
      BY <1>1, <1>5, <2>1, <2>2, <3>1 DEF BackingTrue, Unread, ExportJob
    <3>2. CASE m = k /\ p # Root
      BY <1>3, <1>5, <3>2 DEF texts
    <3>3. CASE m = k /\ p = Root
      <4>1. y.entries[m].texts[p] = x.entries[m].texts[p]
        BY <1>3, <1>5, <3>3 DEF texts, o
      <4> QED BY <2>1, <2>2, <3>3, <4>1, <1>5 DEF BackingTrue, Unread
    <3> QED BY <3>1, <3>2, <3>3
  <2> QED BY <2>1, <2>2, <1>5 DEF BackingTrue
<1>10. ImportsTrue'
  BY <1>4 DEF ImportsTrue, Copied
<1>11. NothingLost'
  BY <1>4 DEF NothingLost
<1> QED BY <1>6, <1>7, <1>8, <1>9, <1>10, <1>11

(* The newest write below a story is read as the mark of its entry.         *)
LEMMA MarkRead ==
    ASSUME TransferInv, NEW x \in open, Transfer!ReadMark(x)
    PROVE  TransferInv'
<1> USE DEF TransferInv
<1> DEFINE k == x.k
           o == x.entries[k]
           mark == Transfer!contentUpdatedAtMax(live[o.id])
           torn == Transfer!Texts(live[o.id]) # o.texts
           e == [o EXCEPT !.mark = mark, !.torn = torn]
           t == [x.entries EXCEPT ![k] = e]
           y == [x EXCEPT !.read = FALSE, !.k = k + 1, !.entries = t]
<1>1. x \in ExportJob /\ k \in DOMAIN x.entries /\ o \in FileEntry /\ o.id \in DOMAIN live
  <2>1. x \in ExportJob
    BY DEF ExportTrue
  <2>2. x.entries \in Seq(FileEntry) /\ k \in Nat \ {0}
    BY <2>1 DEF ExportJob
  <2>3. k <= Len(x.entries) /\ o.id \in DOMAIN live
    BY DEF Transfer!ReadMark
  <2>4. k \in DOMAIN x.entries
    BY <2>2, <2>3
  <2> QED BY <2>1, <2>2, <2>3, <2>4
<1>2. mark \in Nat /\ mark <= issued
  <2>1. \A p \in Transfer!Piece : live[o.id][p].at \in Nat /\ live[o.id][p].at <= issued
    BY <1>1 DEF TransferType, Transfer!Row
  <2> QED BY <2>1, Newest DEF TransferType
<1> HIDE DEF mark
<1>3. /\ e \in FileEntry /\ e.id = o.id /\ e.texts = o.texts /\ e.mark = mark
      /\ ~e.torn => Transfer!Texts(live[o.id]) = o.texts
  BY <1>1, <1>2 DEF FileEntry
<1>4. open' = {y} /\ UNCHANGED <<live, issued, code, saved, stage, card, view, calls, busy, perils, expired>>
  <2>1. open' = {[x EXCEPT !.read = FALSE, !.k = k + 1,
                            !.entries = [[x.entries EXCEPT ![k].mark = mark] EXCEPT ![k].torn = torn]]}
    BY <1>1 DEF Transfer!ReadMark, mark, ExportJob
  <2>2. [[x.entries EXCEPT ![k].mark = mark] EXCEPT ![k].torn = torn] = t
    BY <1>1 DEF ExportJob
  <2> QED BY <2>1, <2>2 DEF Transfer!ReadMark, Transfer!tab
<1>5. /\ t \in Seq(FileEntry) /\ DOMAIN t = DOMAIN x.entries /\ t[k] = e
      /\ \A n \in DOMAIN x.entries \ {k} : t[n] = x.entries[n]
  BY <1>1, <1>3, EntryRead DEF ExportJob
<1> HIDE DEF t
<1>6. y \in ExportJob /\ y.why = x.why /\ y.k = k + 1 /\ ~y.read /\ y.entries = t
  <2>1. k + 1 \in Nat \ {0}
    BY <1>1 DEF ExportJob
  <2>2. ASSUME NEW c \in Nat \ {0}, NEW s \in Seq(FileEntry)
        PROVE  LET z == [x EXCEPT !.read = FALSE, !.k = c, !.entries = s]
               IN  z \in ExportJob /\ z.why = x.why /\ z.k = c /\ ~z.read /\ z.entries = s
    <3> HIDE DEF k, e, y
    <3> QED BY <1>1 DEF ExportJob
  <2> QED BY <1>5, <2>1, <2>2
<1>7. \A m \in DOMAIN t : t[m].id = x.entries[m].id /\ t[m].texts = x.entries[m].texts
  BY <1>3, <1>5
<1> HIDE DEF y, e, torn
<1>8. TransferType'
  BY <1>4 DEF TransferType
<1>9. FilesTrue'
  BY <1>4 DEF FilesTrue, Current
<1>10. ExportTrue'
  <2>1. Current(e)
    <3> SUFFICES ASSUME ~e.torn, NEW p \in Transfer!Piece PROVE live[o.id][p].text = o.texts[p]
      BY <1>3 DEF Current
    <3> QED BY <1>3 DEF Transfer!Texts
  <2>2. ASSUME NEW n \in DOMAIN t
        PROVE  /\ t[n].id <= code
               /\ n < k + 1 => t[n].mark <= issued /\ Current(t[n])
    <3>1. t[n].id <= code
      BY <1>5, <1>7 DEF ExportTrue
    <3>2. CASE n = k
      BY <1>2, <1>3, <1>5, <2>1, <3>1, <3>2
    <3>3. CASE n # k /\ n < k + 1
      <4>1. n < k /\ n \in DOMAIN x.entries
        BY <1>1, <1>5, <3>3 DEF ExportJob
      <4> QED BY <1>5, <3>1, <3>3, <4>1 DEF ExportTrue
    <3> QED BY <3>1, <3>2, <3>3
  <2> QED BY <1>4, <1>6, <2>2 DEF ExportTrue, Current
<1>11. BackingTrue'
  <2> SUFFICES ASSUME ~expired, x.why = "safety"
               PROVE  /\ \A n \in DOMAIN card : card[n].id \in DOMAIN live =>
                            \E m \in DOMAIN t : t[m].id = card[n].id
                      /\ \A m \in DOMAIN t : t[m].id \in DOMAIN live =>
                            \A p \in Transfer!Piece :
                                \/ Copied(t[m].id, p) \/ Unread(y, m, p)
                                \/ t[m].texts[p] = live[t[m].id][p].text
    BY <1>4, <1>6 DEF BackingTrue, Copied, Unread
  <2>1. ASSUME NEW m \in DOMAIN t, t[m].id \in DOMAIN live, NEW p \in Transfer!Piece
        PROVE  \/ Copied(t[m].id, p) \/ Unread(y, m, p)
               \/ t[m].texts[p] = live[t[m].id][p].text
    <3>1. x.read
      BY DEF Transfer!ReadMark
    <3>2. ASSUME Unread(x, m, p) PROVE Unread(y, m, p)
      BY <1>1, <1>5, <1>6, <3>1, <3>2 DEF Unread, ExportJob
    <3> QED BY <1>5, <1>7, <2>1, <3>2 DEF BackingTrue
  <2> QED BY <2>1, <1>5, <1>7 DEF BackingTrue
<1>12. ImportsTrue'
  BY <1>4 DEF ImportsTrue, Copied
<1>13. NothingLost'
  BY <1>4 DEF NothingLost
<1> QED BY <1>8, <1>9, <1>10, <1>11, <1>12, <1>13

(* A request to import, of a file there is.                                 *)
LEMMA Requested ==
    ASSUME TransferInv, NEW todo \in Seq(Transfer!Resolution), NEW safe \in BOOLEAN,
           Transfer!RequestImport(todo, safe), UNCHANGED <<live, expired, card>>, saved \subseteq saved',
           card \in saved', saved' \subseteq Seq(FileEntry), card # <<>>,
           safe /\ ~expired => \A k \in DOMAIN card : card[k].id \in DOMAIN live =>
                                  \A p \in Transfer!Piece : Copied(card[k].id, p)'
    PROVE  ImportsTrue'
<1> USE DEF TransferInv
<1> DEFINE n == Transfer!Cardinality(calls) + 1
           j == [n |-> n, file |-> card, todo |-> todo, k |-> 1, over |-> FALSE, safe |-> safe]
<1>1. n \in Nat
  <2>1. Transfer!Cardinality(calls) = Cardinality(calls)
    BY DEF Transfer!Cardinality, Cardinality
  <2> QED BY <2>1, FS_CardinalityType DEF ImportsTrue
<1> HIDE DEF n
<1>2. calls' = calls \cup {j}
  BY DEF Transfer!RequestImport, n
<1>3. card \in Seq(FileEntry) /\ 1 \in DOMAIN card
  OBVIOUS
<1>4. /\ j \in ImportJob /\ ~j.over /\ j.file = card /\ j.k = 1 /\ j.safe = safe
  BY <1>1, <1>3 DEF ImportJob
<1> HIDE DEF j
<1>5. calls' \subseteq ImportJob /\ IsFiniteSet(calls')
  BY <1>2, <1>4, FS_AddElement DEF ImportsTrue
<1>6. ASSUME NEW i, NEW p, Copied(i, p) PROVE Copied(i, p)'
  BY <1>6 DEF Copied
<1>7. ASSUME NEW q \in calls', ~q.over
      PROVE  /\ q.file \in saved' /\ q.k \in DOMAIN q.file
             /\ ~expired' /\ q.safe =>
                  \A k \in DOMAIN q.file : k >= q.k /\ q.file[k].id \in DOMAIN live' =>
                      \A p \in Transfer!Piece : Copied(q.file[k].id, p)'
  <2>1. CASE q \in calls
    BY <1>6, <1>7, <2>1 DEF ImportsTrue
  <2>2. CASE q = j
    BY <1>3, <1>4, <2>2
  <2> QED BY <1>2, <2>1, <2>2
<1> QED BY <1>5, <1>7 DEF ImportsTrue

(* An export is downloaded, and the restore it was for begins.              *)
LEMMA Downloaded ==
    ASSUME TransferInv, NEW x \in open, Transfer!Download(x)
    PROVE  TransferInv'
<1> USE DEF TransferInv
<1>1. x \in ExportJob /\ DOMAIN x.entries = 1..Len(x.entries) /\ x.k > Len(x.entries)
      /\ x.k \in Nat /\ Len(x.entries) \in Nat /\ x.entries \in Seq(FileEntry)
  BY DEF ExportTrue, ExportJob, Transfer!Download
<1>2. /\ UNCHANGED <<live, issued, code, card, view, busy, perils, expired>>
      /\ open' = {} /\ saved' = saved \cup {x.entries}
  BY DEF Transfer!Download
<1>3. /\ x.why # "safety" => UNCHANGED <<stage, calls>>
      /\ x.why = "safety" => Transfer!RequestImport(view, TRUE) /\ stage = "backing" /\ stage' = "importing"
  BY DEF Transfer!Download, Transfer!RequestImport, ExportTrue
<1>4. TransferType'
  BY <1>1, <1>2, <1>3 DEF TransferType
<1>5. FilesTrue'
  <2>1. \A n \in DOMAIN x.entries : x.entries[n].id <= code /\ x.entries[n].mark <= issued
                                    /\ Current(x.entries[n])
    BY <1>1 DEF ExportTrue
  <2> QED BY <1>2, <2>1 DEF FilesTrue, Current
<1>6. ExportTrue' /\ BackingTrue' /\ NothingLost'
  BY <1>2 DEF ExportTrue, BackingTrue, NothingLost
<1>7. ASSUME NEW i, NEW p, Copied(i, p) PROVE Copied(i, p)'
  BY <1>2, <1>7 DEF Copied
<1>8. ImportsTrue'
  <2>1. CASE x.why # "safety"
    BY <1>2, <1>3, <1>7, <2>1 DEF ImportsTrue
  <2>2. CASE x.why = "safety"
    <3>1. ASSUME ~expired, NEW k \in DOMAIN card, card[k].id \in DOMAIN live, NEW p \in Transfer!Piece
          PROVE  Copied(card[k].id, p)'
      <4>1. PICK m \in DOMAIN x.entries : x.entries[m].id = card[k].id
        BY <2>2, <3>1 DEF BackingTrue
      <4>2. ~Unread(x, m, p)
        BY <1>1, <4>1 DEF Unread
      <4>3. Copied(x.entries[m].id, p) \/ x.entries[m].texts[p] = live[x.entries[m].id][p].text
        BY <2>2, <3>1, <4>1, <4>2 DEF BackingTrue
      <4>4. CASE Copied(x.entries[m].id, p)
        BY <1>2, <1>7, <4>1, <4>4
      <4>5. CASE x.entries[m].texts[p] = live[x.entries[m].id][p].text
        BY <1>2, <4>1, <4>5 DEF Copied
      <4> QED BY <4>3, <4>4, <4>5
    <3>2. card \in saved' /\ card # <<>> /\ saved' \subseteq Seq(FileEntry) /\ view \in Seq(Transfer!Resolution)
      BY <1>1, <1>2, <1>3, <2>2 DEF TransferType
    <3> QED BY <1>2, <1>3, <2>2, <3>1, <3>2, Requested
  <2> QED BY <2>1, <2>2
<1> QED BY <1>4, <1>5, <1>6, <1>8

(* "Restore": with its safety export first, or at once.                     *)
LEMMA Restored ==
    ASSUME TransferInv, NEW safety \in BOOLEAN, Transfer!Restore(safety)
    PROVE  TransferInv'
<1> USE DEF TransferInv
<1>1. /\ UNCHANGED <<live, issued, code, saved, card, busy, perils, expired>>
      /\ stage = "ready" /\ card \in saved /\ card # <<>>
  BY DEF Transfer!Restore, TransferType
<1>2. view' \in Seq(Transfer!Resolution)
  <2>1. view' \in [DOMAIN card -> Transfer!Resolution]
    BY DEF Transfer!Restore
  <2>2. card \in Seq(FileEntry)
    BY <1>1 DEF TransferType
  <2> QED BY <2>1, <2>2
<1>3. FilesTrue' /\ NothingLost'
  BY <1>1 DEF FilesTrue, Current, NothingLost
<1>4. CASE Transfer!BeginExport("safety") /\ stage' = "backing" /\ UNCHANGED calls
  <2>1. PICK x \in ExportJob :
              /\ open' = {x} /\ x.why = "safety" /\ x.k = 1 /\ ~x.read
              /\ \A n \in DOMAIN x.entries : /\ x.entries[n].id \in DOMAIN live
                                             /\ x.entries[n].texts[Root] = live[x.entries[n].id][Root].text
              /\ \A i \in DOMAIN live : \E n \in DOMAIN x.entries : x.entries[n].id = i
    BY <1>4, ExportBegins
  <2>2. DOMAIN x.entries \subseteq Nat \ {0}
    BY DEF ExportJob
  <2>3. TransferType'
    BY <1>1, <1>2, <1>4 DEF TransferType
  <2>4. ExportTrue'
    BY <1>1, <1>4, <2>1, <2>2 DEF ExportTrue, TransferType
  <2>5. BackingTrue'
    <3>1. ASSUME NEW m \in DOMAIN x.entries, NEW p \in Transfer!Piece
          PROVE  Unread(x, m, p) \/ x.entries[m].texts[p] = live[x.entries[m].id][p].text
      BY <2>1, <2>2 DEF Unread
    <3> QED BY <1>1, <2>1, <3>1 DEF BackingTrue
  <2>6. ImportsTrue'
    BY <1>1, <1>4 DEF ImportsTrue, Copied
  <2> QED BY <1>3, <2>3, <2>4, <2>5, <2>6
<1>5. CASE Transfer!RequestImport(view', FALSE) /\ UNCHANGED open
  <2>1. stage' = "importing"
    BY <1>5 DEF Transfer!RequestImport
  <2>2. TransferType'
    BY <1>1, <1>2, <2>1 DEF TransferType
  <2>3. \A x \in open : x.why # "safety"
    BY <1>1 DEF ExportTrue
  <2>4. ExportTrue'
    BY <1>1, <1>5, <2>3 DEF ExportTrue, Current
  <2>5. BackingTrue'
    BY <1>5, <2>3 DEF BackingTrue
  <2>6. ImportsTrue'
    BY <1>1, <1>2, <1>5, Requested DEF TransferType
  <2> QED BY <1>3, <2>2, <2>4, <2>5, <2>6
<1> QED BY <1>4, <1>5 DEF Transfer!Restore

(* An import at its next story, or over.                                    *)
LEMMA ImportMoves ==
    ASSUME TransferInv, NEW j \in calls, ~j.over, NEW q \in ImportJob, UNCHANGED <<saved, expired>>,
           calls' = (calls \ {j}) \cup {q},
           \/ q.over
           \/ /\ ~q.over /\ q.file = j.file /\ q.safe = j.safe
              /\ q.k = j.k + 1 /\ j.k # Len(j.file),
           \A i \in DOMAIN live' : \/ i \in DOMAIN live /\ live'[i] = live[i]
                                   \/ \A p \in Transfer!Piece : Copied(i, p)'
                                   \/ i > code
    PROVE  ImportsTrue'
<1> USE DEF TransferInv
<1>1. calls' \subseteq ImportJob /\ IsFiniteSet(calls')
  BY FS_AddElement, FS_RemoveElement DEF ImportsTrue
<1>2. ASSUME NEW r \in calls, ~r.over, NEW k \in DOMAIN r.file, k >= r.k, r.file[k].id \in DOMAIN live',
             ~expired, r.safe, NEW p \in Transfer!Piece
      PROVE  Copied(r.file[k].id, p)'
  <2>1. r.file[k].id <= code /\ r.file[k].id \in Nat
    <3>1. r.file \in saved /\ r.file[k] \in FileEntry
      BY <1>2 DEF ImportsTrue, TransferType
    <3> QED BY <1>2, <3>1 DEF FilesTrue, FileEntry
  <2>2. CASE r.file[k].id \in DOMAIN live /\ live'[r.file[k].id] = live[r.file[k].id]
    <3>1. Copied(r.file[k].id, p)
      BY <1>2, <2>2 DEF ImportsTrue
    <3> QED BY <2>2, <3>1 DEF Copied
  <2>3. CASE \A s \in Transfer!Piece : Copied(r.file[k].id, s)'
    BY <2>3
  <2>4. ~ (r.file[k].id > code)
    BY <2>1 DEF TransferType
  <2> QED BY <1>2, <2>2, <2>3, <2>4
<1>3. ASSUME ~q.over
      PROVE  /\ q.file \in saved /\ q.k \in DOMAIN q.file
             /\ q.file = j.file /\ q.safe = j.safe /\ q.k = j.k + 1 /\ j.k \in Nat
  <2>1. j.file \in saved /\ j.k \in DOMAIN j.file /\ j.file \in Seq(FileEntry)
    BY DEF ImportsTrue, TransferType
  <2> QED BY <1>3, <2>1
<1>4. ASSUME NEW r \in calls', ~r.over
      PROVE  /\ r.file \in saved' /\ r.k \in DOMAIN r.file
             /\ ~expired' /\ r.safe =>
                  \A k \in DOMAIN r.file : k >= r.k /\ r.file[k].id \in DOMAIN live' =>
                      \A p \in Transfer!Piece : Copied(r.file[k].id, p)'
  <2>1. CASE r \in calls
    BY <1>2, <1>4, <2>1 DEF ImportsTrue
  <2>2. CASE r = q
    <3>1. ASSUME NEW k \in DOMAIN q.file, k >= q.k PROVE k >= j.k
      BY <1>3, <1>4, <2>2, <3>1 DEF TransferType
    <3> QED BY <1>2, <1>3, <1>4, <2>2, <3>1
  <2> QED BY <2>1, <2>2
<1> QED BY <1>1, <1>4 DEF ImportsTrue

(* What an import that goes on, or ends, is.                                *)
LEMMA Advanced ==
    ASSUME TransferInv, NEW j \in calls, ~j.over
    PROVE  /\ Transfer!Ended(j) \in ImportJob /\ Transfer!Ended(j).over
           /\ Transfer!Advance(j) =>
                \E q \in ImportJob :
                    /\ calls' = (calls \ {j}) \cup {q}
                    /\ \/ q.over
                       \/ /\ ~q.over /\ q.file = j.file /\ q.safe = j.safe
                          /\ q.k = j.k + 1 /\ j.k # Len(j.file)
<1>1. j \in ImportJob
  BY DEF TransferInv, ImportsTrue
<1>2. Transfer!Ended(j) \in ImportJob /\ Transfer!Ended(j).over
  <2>1. <<>> \in Seq(FileEntry) /\ <<>> \in Seq(Transfer!Resolution)
    OBVIOUS
  <2> DEFINE z == [n |-> j.n, file |-> <<>>, todo |-> <<>>, k |-> 1, over |-> TRUE, safe |-> FALSE]
  <2>2. z \in ImportJob /\ z.over
    BY <1>1, <2>1 DEF ImportJob
  <2> QED BY <2>2 DEF Transfer!Ended
<1> DEFINE y == [j EXCEPT !.k = j.k + 1]
<1>3. y \in ImportJob /\ y.file = j.file /\ y.safe = j.safe /\ y.k = j.k + 1 /\ ~y.over
  BY <1>1 DEF ImportJob
<1>4. Transfer!Advance(j) => calls' = (calls \ {j}) \cup {IF j.k = Len(j.file) THEN Transfer!Ended(j) ELSE y}
  BY DEF Transfer!Advance
<1> HIDE DEF y
<1> QED BY <1>2, <1>3, <1>4

(* One story is written: over the one of its id, or as a new one.           *)
LEMMA StoryImported ==
    ASSUME TransferInv, NEW j \in calls, Transfer!ImportOneStory(j)
    PROVE  TransferInv'
<1> USE DEF TransferInv
<1> DEFINE e == j.file[j.k]
           over == j.todo[j.k] = "replace" /\ e.id \in DOMAIN live
           t == Transfer!Target(j, e)
<1>1. ~j.over /\ j.file \in saved /\ j.k \in DOMAIN j.file /\ e \in FileEntry /\ e.id <= code
  BY DEF ImportsTrue, Transfer!ImportOneStory, TransferType, FilesTrue
<1>2. /\ issued' = issued + 1 /\ code' = IF t > code THEN t ELSE code
      /\ live' = [i \in (DOMAIN live \ {k \in {e.id} : over}) \cup {t} |->
              IF i # t THEN live[i]
              ELSE [p \in Transfer!Piece |-> [text |-> e.texts[p],
                                              at |-> IF e.texts[p] = 0 THEN 0 ELSE issued']]]
      /\ perils' = (IF over /\ j.safe THEN perils \cup Transfer!NoCopy(e.id) ELSE perils)
      /\ busy' = busy \cup {t} /\ Transfer!Advance(j)
      /\ UNCHANGED <<open, saved, stage, card, view, expired>>
  BY DEF Transfer!ImportOneStory, Transfer!tab
<1>3. t = IF over THEN e.id ELSE code + 1
  BY DEF Transfer!Target
<1>4. issued \in Nat /\ code \in Nat /\ DOMAIN live \subseteq 1..code /\ t \in 1..code'
      /\ code' \in Nat /\ code <= code' /\ (~over => t > code)
  BY <1>2, <1>3 DEF TransferType
<1> DEFINE written == [p \in Transfer!Piece |-> [text |-> e.texts[p],
                                                 at |-> IF e.texts[p] = 0 THEN 0 ELSE issued']]
<1>5. /\ written \in [Transfer!Piece -> Transfer!Row]
      /\ \A p \in Transfer!Piece : /\ written[p].at <= issued' /\ written[p].text = e.texts[p]
                                   /\ written[p].at = issued + 1 \/ written[p].text = 0
  BY SMTT(30), <1>1, <1>2, <1>4 DEF FileEntry, Transfer!Row
<1>6. /\ DOMAIN live' = DOMAIN live \cup {t} /\ live'[t] = written
      /\ \A i \in DOMAIN live \ {t} : live'[i] = live[i]
  BY <1>2, <1>3
<1> HIDE DEF e, over, t, written
<1>7. TransferType'
  <2>1. ASSUME NEW i \in DOMAIN live'
        PROVE  /\ live'[i] \in [Transfer!Piece -> Transfer!Row]
               /\ \A p \in Transfer!Piece : live'[i][p].at <= issued'
    <3>1. CASE i = t
      BY <1>5, <1>6, <3>1
    <3>2. CASE i # t
      <4>1. i \in DOMAIN live /\ live'[i] = live[i]
        BY <1>6, <3>2
      <4>2. live[i] \in [Transfer!Piece -> Transfer!Row] /\ \A p \in Transfer!Piece : live[i][p].at <= issued
        BY <4>1 DEF TransferType
      <4>3. ASSUME NEW p \in Transfer!Piece PROVE live[i][p].at <= issued'
        BY <1>2, <1>4, <4>2 DEF Transfer!Row
      <4> QED BY <4>1, <4>2, <4>3
    <3> QED BY <3>1, <3>2
  <2>2. issued' \in Nat /\ DOMAIN live' \subseteq 1..code'
    BY <1>2, <1>4, <1>6
  <2> QED BY <1>2, <1>4, <2>1, <2>2 DEF TransferType
<1>8. ASSUME NEW f \in FileEntry, f.id <= code, f.mark <= issued, Current(f)
      PROVE  f.id <= code' /\ f.mark <= issued' /\ Current(f)'
  <2>1. f.id <= code' /\ f.mark <= issued' /\ f.mark < issued + 1 /\ f.id \in Nat /\ f.mark \in Nat
    BY <1>2, <1>4, <1>8 DEF FileEntry
  <2>2. Current(f)'
    <3> SUFFICES ASSUME ~f.torn, f.id \in DOMAIN live', NEW p \in Transfer!Piece, live'[f.id][p].at <= f.mark
                 PROVE  live'[f.id][p].text \in {0, f.texts[p]}
      BY DEF Current
    <3>1. CASE f.id = t
      BY <1>4, <1>5, <1>6, <2>1, <3>1
    <3>2. CASE f.id # t
      BY <1>6, <1>8, <3>2 DEF Current
    <3> QED BY <3>1, <3>2
  <2> QED BY <2>1, <2>2
<1>9. FilesTrue'
  BY <1>2, <1>8 DEF FilesTrue, TransferType
<1>10. ExportTrue'
  <2>1. ASSUME NEW x \in open, NEW n \in DOMAIN x.entries
        PROVE  /\ x.entries[n].id <= code'
               /\ n < x.k => x.entries[n].mark <= issued' /\ Current(x.entries[n])'
    <3>1. x.entries[n] \in FileEntry /\ x.entries[n].id <= code
      BY DEF ExportTrue, ExportJob
    <3>2. x.entries[n].id <= code'
      BY <1>4, <3>1 DEF FileEntry
    <3>3. ASSUME n < x.k PROVE x.entries[n].mark <= issued' /\ Current(x.entries[n])'
      BY <1>8, <3>1, <3>3 DEF ExportTrue
    <3> QED BY <3>2, <3>3
  <2> QED BY <1>2, <2>1 DEF ExportTrue
<1>11. ASSUME NEW i \in DOMAIN live'
       PROVE  \/ i \in DOMAIN live /\ live'[i] = live[i]
              \/ \A p \in Transfer!Piece : Copied(i, p)'
              \/ i > code
  <2>1. CASE i # t
    BY <1>6, <2>1
  <2>2. CASE i = t /\ over
    <3>1. j.file \in saved' /\ j.k \in DOMAIN j.file /\ j.file[j.k].id = i
      BY <1>1, <1>2, <1>3, <2>2 DEF e
    <3>2. ASSUME NEW p \in Transfer!Piece PROVE live'[i][p].text = j.file[j.k].texts[p]
      BY <1>5, <1>6, <2>2 DEF e
    <3> QED BY <3>1, <3>2 DEF Copied
  <2>3. CASE i = t /\ ~over
    BY <1>4, <2>3
  <2> QED BY <2>1, <2>2, <2>3
<1>12. BackingTrue'
  <2> SUFFICES ASSUME ~expired, NEW x \in open, x.why = "safety"
               PROVE  /\ \A n \in DOMAIN card : card[n].id \in DOMAIN live' =>
                            \E m \in DOMAIN x.entries : x.entries[m].id = card[n].id
                      /\ \A m \in DOMAIN x.entries : x.entries[m].id \in DOMAIN live' =>
                            \A p \in Transfer!Piece :
                                \/ Copied(x.entries[m].id, p)' \/ Unread(x, m, p)
                                \/ x.entries[m].texts[p] = live'[x.entries[m].id][p].text
    BY ZenonT(40), <1>2 DEF BackingTrue, Unread
  <2>1. card \in saved
    BY DEF ExportTrue, TransferType
  <2>2. ASSUME NEW n \in DOMAIN card, card[n].id \in DOMAIN live'
        PROVE  \E m \in DOMAIN x.entries : x.entries[m].id = card[n].id
    <3>1. card[n].id <= code /\ card[n].id \in Nat
      <4>1. card[n] \in FileEntry
        BY <2>1 DEF TransferType
      <4> QED BY <2>1, <4>1 DEF FilesTrue, FileEntry
    <3>2. card[n].id \in DOMAIN live
      BY <1>3, <1>4, <1>6, <2>2, <3>1 DEF over
    <3> QED BY <3>2 DEF BackingTrue
  <2>3. ASSUME NEW m \in DOMAIN x.entries, x.entries[m].id \in DOMAIN live', NEW p \in Transfer!Piece
        PROVE  \/ Copied(x.entries[m].id, p)' \/ Unread(x, m, p)
               \/ x.entries[m].texts[p] = live'[x.entries[m].id][p].text
    <3>1. x.entries[m].id <= code /\ x.entries[m].id \in Nat
      <4>1. x.entries[m] \in FileEntry
        BY DEF ExportTrue, ExportJob
      <4> QED BY <4>1 DEF ExportTrue, FileEntry
    <3>2. CASE x.entries[m].id \in DOMAIN live /\ live'[x.entries[m].id] = live[x.entries[m].id]
      <4>1. Copied(x.entries[m].id, p) => Copied(x.entries[m].id, p)'
        BY <1>2, <3>2 DEF Copied
      <4> QED BY <3>2, <4>1 DEF BackingTrue
    <3>3. CASE \A s \in Transfer!Piece : Copied(x.entries[m].id, s)'
      BY <3>3
    <3>4. ~ (x.entries[m].id > code)
      BY <1>4, <3>1
    <3> QED BY <1>11, <2>3, <3>2, <3>3, <3>4
  <2> QED BY <2>2, <2>3
<1>13. ImportsTrue'
  <2>1. PICK q \in ImportJob :
                    /\ calls' = (calls \ {j}) \cup {q}
                    /\ \/ q.over
                       \/ /\ ~q.over /\ q.file = j.file /\ q.safe = j.safe
                          /\ q.k = j.k + 1 /\ j.k # Len(j.file)
    BY <1>1, <1>2, Advanced
  <2> QED BY <1>1, <1>2, <1>11, <2>1, ImportMoves
<1>14. NothingLost'
  <2>1. busy' \subseteq DOMAIN live'
    BY <1>2, <1>6 DEF NothingLost
  <2>2. ASSUME ~expired, over, j.safe PROVE Transfer!NoCopy(e.id) = {}
    <3>1. e.id \in DOMAIN live
      BY <2>2 DEF over
    <3>2. ASSUME NEW p \in Transfer!Piece PROVE Copied(e.id, p)
      <4>1. j.k >= j.k /\ j.k \in DOMAIN j.file
        BY <1>1 DEF TransferType
      <4> QED BY <1>1, <2>2, <3>1, <4>1 DEF ImportsTrue, e
    <3> QED BY <3>2 DEF Copied, Transfer!NoCopy
  <2> QED BY <1>2, <2>1, <2>2 DEF NothingLost
<1> QED BY <1>7, <1>9, <1>10, <1>12, <1>13, <1>14

(* Every step of export and import keeps its invariant.                     *)
LEMMA TransferStep == TransferInv /\ Transfer!Next => TransferInv'
<1> SUFFICES ASSUME TransferInv, Transfer!Next PROVE TransferInv'
  OBVIOUS
<1> USE DEF TransferInv
<1>1. ASSUME NEW i \in DOMAIN live, NEW p \in Transfer!Piece, Transfer!Edit(i, p) PROVE TransferInv'
  <2> DEFINE w == [text |-> issued', at |-> issued']
             row == [live[i] EXCEPT ![p] = w]
  <2>1. /\ live' = [live EXCEPT ![i] = row] /\ issued' = issued + 1
        /\ busy' = busy /\ Transfer!Elsewhere
    BY <1>1 DEF Transfer!Edit
  <2>2. issued \in Nat /\ live[i] \in [Transfer!Piece -> Transfer!Row]
    BY DEF TransferType
  <2>3. w \in Transfer!Row /\ w.at = issued + 1
    BY <2>1, <2>2 DEF Transfer!Row
  <2> HIDE DEF w
  <2>4. /\ row \in [Transfer!Piece -> Transfer!Row] /\ row[p] = w
        /\ \A q \in Transfer!Piece : q # p => row[q] = live[i][q]
    BY <2>2, <2>3
  <2> HIDE DEF row
  <2>5. /\ DOMAIN live' = DOMAIN live /\ live'[i] = row
        /\ \A k \in DOMAIN live : k # i => live'[k] = live[k]
    BY <2>1
  <2>6. ASSUME NEW k \in DOMAIN live'
        PROVE  /\ live'[k] \in [Transfer!Piece -> Transfer!Row]
               /\ \A q \in Transfer!Piece : \/ live'[k][q] = live[k][q]
                                            \/ live'[k][q].at > issued /\ live'[k][q].at <= issued'
    BY <2>1, <2>2, <2>3, <2>4, <2>5 DEF TransferType
  <2>7. issued' \in Nat /\ issued' >= issued /\ busy' \subseteq DOMAIN live'
    BY <2>1, <2>2, <2>5 DEF NothingLost
  <2> QED BY <2>1, <2>5, <2>6, <2>7, EditedElsewhere
<1>2. ASSUME NEW i \in DOMAIN live, NEW p \in Part, Transfer!DeletePiece(i, p) PROVE TransferInv'
  <2> DEFINE w == [text |-> 0, at |-> 0]
             row == [live[i] EXCEPT ![p] = w]
  <2>1. /\ live' = [live EXCEPT ![i] = row] /\ issued' = issued
        /\ busy' = busy /\ Transfer!Elsewhere
    BY <1>2 DEF Transfer!DeletePiece
  <2>2. issued \in Nat /\ live[i] \in [Transfer!Piece -> Transfer!Row] /\ p \in Transfer!Piece
    BY DEF TransferType, Transfer!Piece
  <2>3. w \in Transfer!Row /\ w.at = 0 /\ w.text = 0
    BY DEF Transfer!Row
  <2> HIDE DEF w
  <2>4. /\ row \in [Transfer!Piece -> Transfer!Row] /\ row[p] = w
        /\ \A q \in Transfer!Piece : q # p => row[q] = live[i][q]
    BY <2>2, <2>3
  <2> HIDE DEF row
  <2>5. /\ DOMAIN live' = DOMAIN live /\ live'[i] = row
        /\ \A k \in DOMAIN live : k # i => live'[k] = live[k]
    BY <2>1
  <2>6. ASSUME NEW k \in DOMAIN live'
        PROVE  /\ live'[k] \in [Transfer!Piece -> Transfer!Row]
               /\ \A q \in Transfer!Piece : \/ live'[k][q] = live[k][q]
                                            \/ live'[k][q].text = 0 /\ live'[k][q].at = 0
    BY <2>2, <2>3, <2>4, <2>5 DEF TransferType
  <2>7. issued' \in Nat /\ issued' >= issued /\ busy' \subseteq DOMAIN live'
    BY <2>1, <2>2, <2>5 DEF NothingLost
  <2> QED BY <2>1, <2>5, <2>6, <2>7, EditedElsewhere
<1>3. ASSUME NEW i \in DOMAIN live, Transfer!DeleteStory(i) PROVE TransferInv'
  <2>1. /\ live' = [k \in DOMAIN live \ {i} |-> live[k]] /\ issued' = issued
        /\ busy' = busy \ {i} /\ Transfer!Elsewhere
    BY <1>3 DEF Transfer!DeleteStory, Transfer!Restrict
  <2>2. /\ DOMAIN live' = DOMAIN live \ {i}
        /\ \A k \in DOMAIN live' : live'[k] = live[k] /\ live'[k] \in [Transfer!Piece -> Transfer!Row]
    BY <2>1 DEF TransferType
  <2>3. issued' \in Nat /\ issued' >= issued /\ busy' \subseteq DOMAIN live'
    BY <2>1, <2>2 DEF NothingLost, TransferType
  <2> QED BY <2>1, <2>2, <2>3, EditedElsewhere
<1>4. ASSUME Transfer!Export PROVE TransferInv'
  <2>1. /\ Transfer!BeginExport("user")
        /\ UNCHANGED <<live, issued, code, saved, stage, card, view, calls, busy, perils, expired>>
    BY <1>4 DEF Transfer!Export, Transfer!tab
  <2>2. PICK x \in ExportJob :
              /\ open' = {x} /\ x.why = "user" /\ x.k = 1
              /\ \A n \in DOMAIN x.entries : x.entries[n].id \in DOMAIN live
    BY <2>1, ExportBegins
  <2>3. DOMAIN x.entries \subseteq Nat \ {0}
    BY DEF ExportJob
  <2>4. ExportTrue'
    BY <2>1, <2>2, <2>3 DEF ExportTrue, TransferType
  <2>5. BackingTrue'
    BY <2>2 DEF BackingTrue
  <2>6. TransferType' /\ FilesTrue' /\ ImportsTrue' /\ NothingLost'
    BY <2>1 DEF TransferType, FilesTrue, Current, ImportsTrue, Copied, NothingLost
  <2> QED BY <2>4, <2>5, <2>6
<1>5. ASSUME NEW x \in open, Transfer!ExportFails(x) PROVE TransferInv'
  <2>1. /\ UNCHANGED <<live, issued, code, saved, calls, busy, perils, expired, card, view>>
        /\ open' = {} /\ (stage' = stage \/ (x.why = "safety" /\ stage' = "ready"))
    BY <1>5 DEF Transfer!ExportFails, Transfer!Aborts
  <2>2. x.why = "safety" => stage = "backing"
    BY DEF ExportTrue
  <2>3. (card' \in saved /\ card' # <<>>) \/ stage' \notin {"planning", "ready", "backing", "importing"}
    BY <2>1, <2>2 DEF TransferType
  <2>4. view' \in Seq(Transfer!Resolution)
    BY <2>1 DEF TransferType
  <2> QED BY <2>1, <2>3, <2>4, TabMoves
<1>6. ASSUME NEW f \in saved, Transfer!PickFile(f) PROVE TransferInv'
  <2>1. /\ UNCHANGED <<live, issued, code, saved, calls, busy, perils, expired, open>>
        /\ stage' = "planning" /\ card' = f /\ f # <<>> /\ view' = <<>> /\ stage # "backing"
    BY <1>6 DEF Transfer!PickFile
  <2>2. \A x \in open : x.why # "safety"
    BY <2>1 DEF ExportTrue
  <2>3. view' \in Seq(Transfer!Resolution)
    BY <2>1
  <2> QED BY <2>1, <2>2, <2>3, TabMoves
<1>7. ASSUME Transfer!Plan \/ Transfer!PlanFails \/ Transfer!AnswerLost
             \/ \E j \in calls : Transfer!Answered(j)
      PROVE  TransferInv'
  <2>1. /\ UNCHANGED <<live, issued, code, saved, calls, busy, perils, expired, open>>
        /\ \/ stage' = "idle" /\ (view' = view \/ view' = <<>>)
           \/ stage' = "ready" /\ UNCHANGED <<card, view>>
        /\ stage \in {"planning", "importing"}
    BY <1>7 DEF Transfer!Plan, Transfer!PlanFails, Transfer!AnswerLost, Transfer!Answered
  <2>2. \A x \in open : x.why # "safety"
    BY <2>1 DEF ExportTrue
  <2>3. view' \in Seq(Transfer!Resolution)
    <3>1. view \in Seq(Transfer!Resolution) /\ <<>> \in Seq(Transfer!Resolution)
      BY DEF TransferType
    <3> QED BY <2>1, <3>1
  <2>4. stage' = "ready" => card' \in saved /\ card' # <<>>
    BY <2>1 DEF TransferType
  <2> QED BY <2>1, <2>2, <2>3, <2>4, TabMoves
<1>8. ASSUME NEW j \in calls, Transfer!Skip(j) \/ Transfer!ImportFails(j) PROVE TransferInv'
  <2>1. /\ UNCHANGED <<live, issued, code, saved, busy, perils, expired, open, stage, card, view>> /\ ~j.over
        /\ \/ Transfer!Advance(j)
           \/ calls' = (calls \ {j}) \cup {Transfer!Ended(j)}
    BY <1>8 DEF Transfer!Skip, Transfer!ImportFails, Transfer!tab
  <2>2. PICK q \in ImportJob :
                    /\ calls' = (calls \ {j}) \cup {q}
                    /\ \/ q.over
                       \/ /\ ~q.over /\ q.file = j.file /\ q.safe = j.safe
                          /\ q.k = j.k + 1 /\ j.k # Len(j.file)
    BY <2>1, Advanced
  <2>3. ImportsTrue'
    BY <2>1, <2>2, ImportMoves
  <2>4. TransferType' /\ FilesTrue' /\ ExportTrue' /\ BackingTrue' /\ NothingLost'
    BY <2>1 DEF TransferType, FilesTrue, ExportTrue, Current, BackingTrue, Copied, Unread, NothingLost
  <2> QED BY <2>3, <2>4
<1> QED BY <1>1, <1>2, <1>3, <1>4, <1>5, <1>6, <1>7, <1>8, PartsRead, MarkRead, Downloaded, Restored,
           StoryImported DEF Transfer!Next

TransferPart == part = "transfer" => TransferInv

(* The invariant of export and import holds throughout.                     *)
LEMMA TransferInvariant == MCSpec => []TransferPart
<1>1. MCInit => TransferPart
  <2> SUFFICES ASSUME Transfer!Init PROVE TransferInv
    BY DEF MCInit, TransferPart
  <2>1. saved = {} /\ open = {} /\ calls = {} /\ perils = {} /\ view = <<>> /\ stage = "idle"
    BY DEF Transfer!Init
  <2>2. TransferType
    <3>1. code \in Nat /\ Stories = 1..code
      <4>1. Transfer!Cardinality(Stories) = Cardinality(Stories) /\ Transfer!IsFiniteSet(Stories) = IsFiniteSet(Stories)
        BY DEF Transfer!Cardinality, Cardinality, Transfer!IsFiniteSet, IsFiniteSet
      <4> QED BY <4>1, PartsAssumption, FS_CardinalityType DEF Transfer!BackupAssumption, Transfer!Init
    <3>2. live = [i \in 1..code |-> [p \in Transfer!Piece |-> [text |-> 1, at |-> 1]]] /\ issued = 1
      BY <3>1 DEF Transfer!Init
    <3>3. view \in Seq(Transfer!Resolution)
      BY <2>1
    <3> QED BY <2>1, <3>1, <3>2, <3>3 DEF TransferType, Transfer!Row
  <2>3. FilesTrue /\ ExportTrue /\ BackingTrue
    BY <2>1 DEF FilesTrue, ExportTrue, BackingTrue
  <2>4. ImportsTrue
    BY <2>1, FS_EmptySet DEF ImportsTrue
  <2>5. NothingLost
    BY <2>1 DEF NothingLost, Transfer!Init
  <2> QED BY <2>2, <2>3, <2>4, <2>5 DEF TransferInv
<1>2. TransferPart /\ [MCNext]_MCVars => TransferPart'
  <2> SUFFICES ASSUME TransferPart, [MCNext]_MCVars, part = "transfer" PROVE TransferInv'
    BY DEF MCNext, MCVars, TransferPart
  <2>1. CASE Transfer!Next
    BY <2>1, TransferStep DEF TransferPart
  <2>2. CASE UNCHANGED MCVars
    BY <2>2 DEF MCVars, PagesVars, TransferPart, TransferInv, TransferType, FilesTrue, ExportTrue,
                BackingTrue, ImportsTrue, NothingLost, Current, Copied, Unread
  <2> QED BY <2>1, <2>2 DEF MCNext
<1> QED BY <1>1, <1>2, PTL DEF MCSpec

(* What a restore replaces after a safety backup is in a downloaded file,   *)
(* unless something was edited while it ran, and it leaves every story that *)
(* nobody deleted, however exports, imports, lost answers and edits         *)
(* interleave.                                                              *)
THEOREM RestoreCorrect == MCSpec => []RestoreLosesNothing
<1>1. TransferPart => RestoreLosesNothing
  BY DEF TransferPart, TransferInv, NothingLost, RestoreLosesNothing, Transfer!RestoreLosesNothing
<1> QED BY TransferInvariant, <1>1, PTL

(* A story that the plan calls "unchanged" has every text in the file, or   *)
(* none: unless it was edited while its entry was read.                     *)
THEOREM PlanCorrect == MCSpec => UnchangedIsCovered
<1>1. TransferPart /\ [MCNext]_MCVars => [part = "transfer" => Transfer!PassesCovered]_MCVars
  <2> SUFFICES ASSUME TransferInv, Transfer!Next, NEW n \in DOMAIN ticked', ticked = <<>>,
                      ticked'[n] = "unchanged", ~card[n].torn, NEW p \in Transfer!Piece
               PROVE  live[card[n].id][p].text \in {0, card[n].texts[p]}
    BY DEF TransferPart, MCNext, MCVars, Transfer!PassesCovered
  <2> USE DEF TransferInv
  <2>1. ticked' # ticked
    BY SMTT(30)
  <2>2. Transfer!Plan
    BY <2>1 DEF Transfer!Next, Transfer!Edit, Transfer!DeletePiece, Transfer!DeleteStory, Transfer!Elsewhere,
                Transfer!tab, Transfer!Export, Transfer!ReadParts, Transfer!ReadMark, Transfer!Download,
                Transfer!ExportFails, Transfer!PickFile, Transfer!PlanFails, Transfer!Restore,
                Transfer!AnswerLost, Transfer!Answered, Transfer!Skip, Transfer!ImportOneStory,
                Transfer!ImportFails
  <2>3. /\ n \in DOMAIN card /\ card \in saved /\ card \in Seq(FileEntry) /\ card[n] \in FileEntry
        /\ Transfer!Judged(card[n]) = "unchanged"
    BY <2>2 DEF Transfer!Plan, TransferType
  <2>4. card[n].id \in DOMAIN live /\ Transfer!contentUpdatedAtMax(live[card[n].id]) <= card[n].mark
    BY <2>3 DEF Transfer!Judged
  <2>5. /\ live[card[n].id][p].at <= Transfer!contentUpdatedAtMax(live[card[n].id])
        /\ Transfer!contentUpdatedAtMax(live[card[n].id]) \in Nat
    <3>1. \A q \in Transfer!Piece : live[card[n].id][q].at \in Nat /\ live[card[n].id][q].at <= issued
      BY <2>4 DEF TransferType, Transfer!Row
    <3> QED BY <3>1, Newest DEF TransferType
  <2>6. live[card[n].id][p].at <= card[n].mark
    BY <2>3, <2>4, <2>5 DEF FileEntry, TransferType, Transfer!Row
  <2>7. Current(card[n])
    BY <2>3 DEF FilesTrue
  <2> QED BY <2>4, <2>6, <2>7 DEF Current
<1> QED BY TransferInvariant, <1>1, PTL DEF MCSpec, UnchangedIsCovered

(* The settings.  Trees and patches are what the code makes them, and a     *)
(* slide's draft is the value shown, what its debounce holds, or junk.      *)
Whole(tree) == tree = [s \in Settings!Setting |-> tree[s]]
WholePatch(p) ==
    /\ p = [n |-> p.n, set |-> p.set, undo |-> p.undo, read |-> p.read, state |-> p.state]
    /\ p.state \in {"sent", "read", "written", "failed"}
    /\ Whole(p.read) /\ \A t \in p.undo : Whole(t)

SettingsType ==
    /\ Whole(live) /\ Whole(view) /\ Whole(card) /\ \A t \in open : Whole(t)
    /\ \A p \in calls : WholePatch(p)
    /\ cookie = [s \in Settings!Drafted |-> cookie[s]]
    /\ busy = [s \in Settings!Slides |-> busy[s]] /\ ticked = [s \in Settings!Themed |-> ticked[s]]
    /\ status \subseteq Settings!Model /\ (status # {} => highlight \in Settings!Model)
    /\ issued \in Nat

SlidesFollow ==
    \A s \in Settings!Slides :
        /\ cookie[s] \in {view[s], Settings!Junk} \cup busy[s]
        /\ \A v, w \in busy[s] : v = w
TokensFollow ==
    "dropped" \notin perils =>
        ticked["theme"] = view["theme"] /\ ticked["size"] \in {view["size"]} \cup busy["size"]

(* While changes and fetches do not cross, there is one of them, the cache  *)
(* is the row with that change, and its undo is the row.                    *)
Calm == perils \cap {"overlap", "unheard", "overtaken", "closed", "unloaded"} = {}
InStep(p) ==
    /\ minted = p.n
    /\ \A s \in Settings!Setting :
          s # "venicePrompt" \/ p.undo # {} => view[s] = Settings!Merged(live, p.set)[s]
    /\ p.undo = {} => DOMAIN p.set = {"venicePrompt"}
    /\ IF p.state = "written"
       THEN p.read = live /\ live = Settings!Merged(live, p.set)
       ELSE /\ IF p.undo = {} THEN view = live ELSE p.undo = {live}
            /\ "prompt" \in DOMAIN p.set => p.set["prompt"] # live["prompt"]
    /\ p.state = "read" => p.read = live
CacheFollows ==
    /\ ~stage => calls = {} /\ view["prompt"] = 0
    /\ Calm =>
         /\ \A p, q \in calls : p = q
         /\ calls # {} => open = {}
         /\ calls = {} /\ stage => view = live
         /\ \A t \in open : t = live
         /\ \A p \in calls : InStep(p)

(* While none of the dangers is met, what the user chose is in a debounce,  *)
(* in the prompt being typed, or in the row with the change under way.      *)
Elected(s) == \/ s \in Settings!Slides /\ card[s] \in busy[s]
              \/ s = "prompt" /\ expired /\ card[s] = cookie[s]
              \/ /\ s \in Settings!Slides => busy[s] = {}
                 /\ s = "prompt" => ~expired
                 /\ IF calls = {} THEN card[s] = live[s]
                    ELSE \E p \in calls : card[s] = Settings!Merged(live, p.set)[s]
WantedHeld ==
    perils = {} =>
        /\ \A s \in Settings!Setting : Elected(s)
        /\ expired => page = "prompts" /\ view["prompt"] # 0
        /\ page = "prompts" /\ ~expired /\ view["prompt"] # 0 => cookie["prompt"] = view["prompt"]

SettingsInv == SettingsType /\ SlidesFollow /\ TokensFollow /\ CacheFollows /\ WantedHeld

(* The settings there are.                                                  *)
LEMMA SettingNames ==
    /\ Settings!Setting = {"theme", "size", "focusMode", "goal", "prompt", "model", "entryA", "entryB",
                           "venicePrompt"}
    /\ Settings!Slides \subseteq Settings!Setting /\ Settings!Themed \subseteq Settings!Setting
    /\ Settings!Slides \subseteq Settings!Drafted /\ "prompt" \in Settings!Drafted
BY DEF Settings!Setting, Settings!TabOf, Settings!Slides, Settings!Themed, Settings!Drafted

(* A merged tree.                                                           *)
LEMMA MergedTree ==
    ASSUME NEW tree, NEW set
    PROVE  /\ Whole(Settings!Merged(tree, set))
           /\ \A s \in Settings!Setting :
                 Settings!Merged(tree, set)[s] = IF s \in DOMAIN set THEN set[s] ELSE tree[s]
BY DEF Settings!Merged, Whole

(* The drafts and the tokens follow the cache.                              *)
LEMMA Followed ==
    ASSUME SettingsType, SlidesFollow, TokensFollow, "dropped" \notin perils' => "dropped" \notin perils,
           ticked' = Settings!Repainted(view', ticked),
           \A s \in Settings!Slides :
              /\ cookie'[s] = view'[s] \/ (view'[s] = view[s] /\ cookie'[s] = cookie[s])
              /\ \/ busy'[s] = busy[s]
                 \/ busy'[s] = {} /\ view'[s] \in busy[s]
    PROVE  /\ SlidesFollow' /\ TokensFollow'
           /\ ticked' = [s \in Settings!Themed |-> ticked'[s]]
<1>1. SlidesFollow'
  BY DEF SlidesFollow
<1>2. ticked' = [s \in Settings!Themed |-> ticked'[s]]
  BY DEF SettingsType, Settings!Repainted
<1>3. TokensFollow'
  <2> SUFFICES ASSUME "dropped" \notin perils'
               PROVE  ticked'["theme"] = view'["theme"] /\ ticked'["size"] \in {view'["size"]} \cup busy'["size"]
    BY DEF TokensFollow
  <2>1. "theme" \in Settings!Themed /\ "size" \in Settings!Themed /\ "size" \in Settings!Slides
    BY DEF Settings!Themed, Settings!Slides
  <2>2. CASE \E s \in Settings!Themed : view'[s] # view[s]
    BY <2>1, <2>2 DEF Settings!Repainted
  <2>3. CASE \A s \in Settings!Themed : view'[s] = view[s]
    <3>1. ticked' = ticked /\ view'["theme"] = view["theme"] /\ view'["size"] = view["size"]
      BY <2>1, <2>3 DEF Settings!Repainted
    <3> QED BY <2>1, <3>1 DEF TokensFollow, SlidesFollow
  <2> QED BY <2>2, <2>3
<1> QED BY <1>1, <1>2, <1>3

(* A change that is optimistic: the cache, the PATCH, what was chosen.      *)
LEMMA Changed ==
    ASSUME SettingsInv, NEW set, Settings!Changes(set),
           "prompt" \in DOMAIN set => set["prompt"] # view["prompt"],
           Whole(card'), cookie' = [s \in Settings!Drafted |-> cookie'[s]], UNCHANGED <<status, highlight>>,
           busy' = [s \in Settings!Slides |-> busy'[s]],
           \A s \in Settings!Slides :
              /\ cookie'[s] = view'[s] \/ (view'[s] = view[s] /\ cookie'[s] = cookie[s])
              /\ \/ busy'[s] = busy[s]
                 \/ busy'[s] = {} /\ s \in DOMAIN set /\ set[s] \in busy[s],
           perils = {} /\ view = live /\ calls = {} =>
              /\ \A s \in Settings!Setting :
                    \/ /\ s \in DOMAIN set /\ card'[s] = set[s]
                       /\ s \in Settings!Slides => busy'[s] = {}
                       /\ s = "prompt" => ~expired'
                    \/ /\ s \notin DOMAIN set /\ card'[s] = card[s]
                       /\ s \in Settings!Slides => busy'[s] = busy[s]
                       /\ s = "prompt" => (expired' <=> expired) /\ (expired => cookie'[s] = cookie[s])
              /\ expired' => page = "prompts" /\ view'["prompt"] # 0
              /\ page = "prompts" /\ ~expired' /\ view'["prompt"] # 0 => cookie'["prompt"] = view'["prompt"]
    PROVE  SettingsInv'
<1> USE DEF SettingsInv
<1> DEFINE p == [n |-> issued + 1, set |-> set, undo |-> {view}, read |-> live, state |-> "sent"]
<1>1. /\ issued' = issued + 1 /\ minted' = issued + 1 /\ calls' = calls \cup {p}
      /\ perils' = perils \cup {d \in {"overlap"} : calls # {}} \cup {d \in {"overtaken"} : open # {}}
                          \cup {d \in {"unloaded"} : ~stage}
      /\ UNCHANGED <<live, open, page>> /\ stage' /\ view' = Settings!Merged(view, set)
      /\ ticked' = Settings!Repainted(view', ticked)
  BY DEF Settings!Changes, Settings!Sends
<1>2. /\ Whole(view')
      /\ \A s \in Settings!Setting : view'[s] = IF s \in DOMAIN set THEN set[s] ELSE view[s]
  BY <1>1, MergedTree
<1>3. /\ WholePatch(p) /\ p.n = issued + 1 /\ p.set = set /\ p.undo = {view} /\ p.state = "sent"
      /\ p.read = live
  BY DEF WholePatch, SettingsType
<1> HIDE DEF p
<1>4. /\ "dropped" \notin perils' => "dropped" \notin perils
      /\ Calm' => Calm /\ calls = {} /\ open = {} /\ stage /\ view = live
      /\ perils' = {} => perils = {} /\ Calm'
  <2>1. "dropped" \notin perils' => "dropped" \notin perils
    BY <1>1
  <2>2. Calm' => Calm /\ calls = {} /\ open = {} /\ stage
    BY <1>1 DEF Calm
  <2>3. perils' = {} => perils = {} /\ Calm'
    BY <1>1 DEF Calm
  <2> QED BY <2>1, <2>2, <2>3 DEF CacheFollows
<1>5. /\ SlidesFollow' /\ TokensFollow' /\ ticked' = [s \in Settings!Themed |-> ticked'[s]]
  BY <1>1, <1>2, <1>4, SettingNames, Followed
<1>6. SettingsType'
  BY <1>1, <1>2, <1>3, <1>5 DEF SettingsType, Whole
<1>7. CacheFollows'
  <2>1. Calm' => calls' = {p} /\ open' = {} /\ stage' /\ view = live
    BY <1>1, <1>4
  <2>2. ASSUME Calm', NEW q \in calls' PROVE InStep(q)'
    <3>1. q = p /\ view = live /\ ("prompt" \in DOMAIN set => set["prompt"] # live'["prompt"])
      BY <1>1, <2>1, <2>2
    <3>2. \A s \in Settings!Setting : view'[s] = Settings!Merged(live', set)[s]
      BY <1>1, <3>1
    <3> QED BY <1>1, <1>3, <3>1, <3>2 DEF InStep
  <2> QED BY <1>1, <2>1, <2>2 DEF CacheFollows
<1>8. WantedHeld'
  <2> SUFFICES ASSUME perils' = {}
               PROVE  /\ \A s \in Settings!Setting : Elected(s)'
                      /\ expired' => page' = "prompts" /\ view'["prompt"] # 0
                      /\ page' = "prompts" /\ ~expired' /\ view'["prompt"] # 0
                            => cookie'["prompt"] = view'["prompt"]
    BY DEF WantedHeld
  <2>1. perils = {} /\ view = live /\ calls = {} /\ calls' = {p}
    BY <1>1, <1>4
  <2>2. ASSUME NEW s \in Settings!Setting PROVE Elected(s)'
    <3>1. Settings!Merged(live', p.set)[s] = IF s \in DOMAIN set THEN set[s] ELSE live[s]
      BY <1>1, <1>3, MergedTree
    <3>2. CASE s \in DOMAIN set
      BY <2>1, <3>1, <3>2 DEF Elected
    <3>3. CASE s \notin DOMAIN set
      BY <2>1, <3>1, <3>3 DEF Elected, WantedHeld
    <3> QED BY <3>2, <3>3
  <2> QED BY <1>1, <2>1, <2>2
<1> QED BY <1>5, <1>6, <1>7, <1>8

(* A tree arrives in the cache.                                             *)
LEMMA TreeArrives ==
    ASSUME SettingsInv, NEW tree, Whole(tree), Settings!Arrives(tree)
    PROVE  /\ SlidesFollow' /\ TokensFollow'
           /\ view' = tree /\ UNCHANGED <<live, issued, minted, page, busy, expired, status, highlight>>
           /\ cookie' = [s \in Settings!Drafted |-> cookie'[s]]
           /\ ticked' = [s \in Settings!Themed |-> ticked'[s]]
           /\ (Calm' <=> Calm)
           /\ perils' = {} => /\ perils = {}
                              /\ page = "prompts" => view'["prompt"] = view["prompt"]
                                                     /\ cookie'["prompt"] = cookie["prompt"]
<1> USE DEF SettingsInv
<1>1. /\ view' = tree /\ UNCHANGED <<live, issued, minted, page, busy, expired, status, highlight>>
      /\ cookie' = Settings!Reseeded(tree) /\ ticked' = Settings!Repainted(view', ticked)
      /\ perils' = perils \cup Settings!Unseen(tree)
  BY DEF Settings!Arrives, Settings!picker
<1>2. /\ cookie' = [s \in Settings!Drafted |-> cookie'[s]]
      /\ \A s \in Settings!Slides :
            cookie'[s] = view'[s] \/ (view'[s] = view[s] /\ cookie'[s] = cookie[s])
  BY <1>1, SettingNames DEF Settings!Reseeded, Settings!Seed, Settings!Slides
<1>3. /\ "dropped" \notin perils' => "dropped" \notin perils
      /\ Calm' <=> Calm
      /\ perils' = {} => /\ perils = {}
                         /\ page = "prompts" => view'["prompt"] = view["prompt"]
  BY <1>1 DEF Settings!Unseen, Calm
<1>4. page = "prompts" => cookie'["prompt"] = cookie["prompt"]
  BY <1>1, SettingNames DEF Settings!Reseeded, Settings!TabOf, Settings!Slides
<1>5. SlidesFollow' /\ TokensFollow' /\ ticked' = [s \in Settings!Themed |-> ticked'[s]]
  BY <1>1, <1>2, <1>3, Followed
<1> QED BY <1>1, <1>2, <1>3, <1>4, <1>5

(* While nothing dangerous was met, the cache shows what is chosen.         *)
LEMMA CacheTells ==
    ASSUME SettingsInv, perils = {}, stage, NEW s \in Settings!Setting, s # "venicePrompt"
    PROVE  /\ calls = {} => view[s] = live[s]
           /\ \A p \in calls : view[s] = Settings!Merged(live, p.set)[s]
BY DEF SettingsInv, CacheFollows, Calm, InStep

(* A change of a setting that has neither a debounce nor a text field.      *)
LEMMA PlainChange ==
    ASSUME SettingsInv, NEW set, Settings!Changes(set),
           \A s \in DOMAIN set : s \notin Settings!Slides /\ s # "prompt",
           page # "prompts", Whole(card'), UNCHANGED <<busy, expired, status, highlight>>,
           cookie' = Settings!Reseeded(view'),
           perils = {} /\ view = live /\ calls = {} =>
              \A s \in Settings!Setting : card'[s] = IF s \in DOMAIN set THEN set[s] ELSE card[s]
    PROVE  SettingsInv'
<1> USE DEF SettingsInv
<1>1. page' = page
  BY DEF Settings!Changes, Settings!Sends
<1>2. /\ cookie' = [s \in Settings!Drafted |-> cookie'[s]]
      /\ \A s \in Settings!Slides :
            cookie'[s] = view'[s] \/ (view'[s] = view[s] /\ cookie'[s] = cookie[s])
  BY SettingNames DEF Settings!Reseeded, Settings!Seed, Settings!Slides
<1>3. busy' = [s \in Settings!Slides |-> busy'[s]]
  BY DEF SettingsType
<1>4. perils = {} => ~expired
  BY DEF WantedHeld
<1> QED BY <1>1, <1>2, <1>3, <1>4, Changed

(* The changes of the appearance, writing and models tabs.                  *)
LEMMA PlainChanges ==
    ASSUME SettingsInv
    PROVE  /\ \A v \in 0..1 : Settings!Pick(v) => SettingsInv'
           /\ Settings!UseModel => SettingsInv'
           /\ \A s \in Settings!Setting : Settings!Toggle(s) => SettingsInv'
           /\ \A v \in 0..1 : Settings!Tune(v) => SettingsInv'
<1> USE SettingNames
<1>1. ASSUME NEW v \in 0..1, Settings!Pick(v) PROVE SettingsInv'
  <2> DEFINE set == [x \in {"theme"} |-> v]
  <2>1. /\ Settings!Changes(set) /\ card' = Settings!Merged(card, set) /\ page = "appearance"
        /\ UNCHANGED <<busy, expired, status, highlight>> /\ cookie' = Settings!Reseeded(view')
    BY <1>1 DEF Settings!Pick, Settings!Chosen, Settings!picker
  <2>2. DOMAIN set = {"theme"} /\ "theme" \notin Settings!Slides
    BY DEF Settings!Slides
  <2>3. /\ Whole(card')
        /\ \A s \in Settings!Setting : card'[s] = IF s \in DOMAIN set THEN set[s] ELSE card[s]
    BY <2>1, MergedTree
  <2> HIDE DEF set
  <2> QED BY <2>1, <2>2, <2>3, PlainChange
<1>2. ASSUME Settings!UseModel PROVE SettingsInv'
  <2> DEFINE set == [x \in {"model"} |-> Settings!Number[highlight]]
  <2>1. /\ Settings!Changes(set) /\ card' = Settings!Merged(card, set) /\ page = "models"
        /\ UNCHANGED <<busy, expired, status, highlight>> /\ cookie' = Settings!Reseeded(view')
    BY <1>2 DEF Settings!UseModel, Settings!Chosen, Settings!picker
  <2>2. DOMAIN set = {"model"} /\ "model" \notin Settings!Slides
    BY DEF Settings!Slides
  <2>3. /\ Whole(card')
        /\ \A s \in Settings!Setting : card'[s] = IF s \in DOMAIN set THEN set[s] ELSE card[s]
    BY <2>1, MergedTree
  <2> HIDE DEF set
  <2> QED BY <2>1, <2>2, <2>3, PlainChange
<1>3. ASSUME NEW s \in Settings!Setting, Settings!Toggle(s) PROVE SettingsInv'
  <2> DEFINE set == [x \in {s} |-> 1 - view[s]]
  <2>1. /\ Settings!Changes(set) /\ card' = Settings!Merged(card, set)
        /\ page = Settings!TabOf[s] /\ s \in Settings!Toggles
        /\ UNCHANGED <<busy, expired, status, highlight>> /\ cookie' = Settings!Reseeded(view')
    BY <1>3 DEF Settings!Toggle, Settings!Chosen, Settings!picker
  <2>2. DOMAIN set = {s} /\ s \notin Settings!Slides /\ s # "prompt" /\ page # "prompts"
    BY <2>1 DEF Settings!Slides, Settings!Toggles, Settings!TabOf
  <2>3. /\ Whole(card')
        /\ \A x \in Settings!Setting : card'[x] = IF x \in DOMAIN set THEN set[x] ELSE card[x]
    BY <2>1, MergedTree
  <2> HIDE DEF set
  <2> QED BY <2>1, <2>2, <2>3, PlainChange
<1>4. ASSUME NEW v \in 0..1, Settings!Tune(v) PROVE SettingsInv'
  <2> DEFINE entry == Settings!EntryOf[highlight]
             others == {Settings!EntryOf[x] : x \in {y \in Settings!Model : view[Settings!EntryOf[y]] # 0}}
             set == [x \in others \cup {entry} |-> IF x = entry THEN v ELSE view[x]]
             one == [x \in {entry} |-> v]
  <2>1. /\ Settings!Changes(set) /\ card' = Settings!Merged(card, one) /\ page = "models"
        /\ UNCHANGED <<busy, expired, status, highlight>> /\ cookie' = Settings!Reseeded(view')
    BY <1>4 DEF Settings!Tune, Settings!Chosen, Settings!picker
  <2>2. highlight \in Settings!Model
    BY <1>4, SettingsInv DEF Settings!Tune, SettingsInv, SettingsType
  <2>3. /\ DOMAIN set = others \cup {entry} /\ DOMAIN one = {entry} /\ one[entry] = v
        /\ \A s \in DOMAIN set : set[s] = IF s = entry THEN v ELSE view[s]
    OBVIOUS
  <2>4. \A s \in DOMAIN set : s \in {"entryA", "entryB"}
    BY <2>2 DEF Settings!EntryOf, Settings!Model
  <2>5. /\ Whole(card')
        /\ \A s \in Settings!Setting : card'[s] = IF s = entry THEN v ELSE card[s]
    BY <2>1, <2>3, MergedTree
  <2>6. ASSUME perils = {}, view = live, calls = {}, NEW s \in DOMAIN set, s # entry
        PROVE  card[s] = view[s]
    BY <2>4, <2>6, SettingsInv DEF SettingsInv, WantedHeld, Elected, Settings!Slides
  <2>7. \A s \in DOMAIN set : s \notin Settings!Slides /\ s # "prompt"
    BY <2>4 DEF Settings!Slides
  <2> HIDE DEF set, one, others, entry
  <2> QED BY <2>1, <2>3, <2>5, <2>6, <2>7, PlainChange
<1> QED BY <1>1, <1>2, <1>3, <1>4

(* A debounce that ends, and the prompt's toggle and field.                 *)
LEMMA DraftedChanges ==
    ASSUME SettingsInv
    PROVE  /\ \A s \in Settings!Slides : Settings!Flush(s) => SettingsInv'
           /\ Settings!Override => SettingsInv'
           /\ Settings!Blur => SettingsInv'
<1> USE SettingNames
<1>1. ASSUME NEW s \in Settings!Slides, Settings!Flush(s) PROVE SettingsInv'
  <2>1. PICK v \in busy[s] : Settings!Changes([x \in {s} |-> v])
    BY <1>1 DEF Settings!Flush
  <2> DEFINE set == [x \in {s} |-> v]
  <2>2. /\ busy' = [busy EXCEPT ![s] = {}] /\ cookie' = Settings!Reseeded(view')
        /\ UNCHANGED <<expired, card, status, highlight>>
    BY <1>1 DEF Settings!Flush, Settings!picker
  <2>3. Settings!Changes(set) /\ DOMAIN set = {s} /\ set[s] = v
    BY <2>1
  <2>4. /\ page' = page /\ view' = Settings!Merged(view, set)
        /\ \A x \in Settings!Setting : view'[x] = IF x \in DOMAIN set THEN set[x] ELSE view[x]
    BY <2>3, MergedTree DEF Settings!Changes, Settings!Sends
  <2> HIDE DEF set
  <2>5. /\ cookie' = [x \in Settings!Drafted |-> cookie'[x]]
        /\ busy' = [x \in Settings!Slides |-> busy'[x]] /\ Whole(card')
        /\ \A x \in Settings!Slides : busy'[x] = IF x = s THEN {} ELSE busy[x]
    BY <2>2, SettingsInv DEF Settings!Reseeded, SettingsInv, SettingsType, Whole
  <2>6. \A x \in Settings!Slides :
            cookie'[x] = view'[x] \/ (view'[x] = view[x] /\ cookie'[x] = cookie[x])
    BY <2>2 DEF Settings!Reseeded, Settings!Seed, Settings!Slides
  <2>7. s # "prompt"
    BY DEF Settings!Slides
  <2>8. ASSUME perils = {}, page = "prompts" PROVE cookie'["prompt"] = cookie["prompt"]
    BY <2>2, <2>4, <2>8 DEF Settings!Reseeded, Settings!TabOf, Settings!Slides
  <2>9. ASSUME perils = {} PROVE card[s] = v
    <3>1. Elected(s) /\ v \in busy[s]
      BY <2>1, <2>9, SettingsInv DEF SettingsInv, WantedHeld
    <3>2. card[s] \in busy[s]
      BY <3>1, <2>7 DEF Elected
    <3> QED BY <3>1, <3>2, SettingsInv DEF SettingsInv, SlidesFollow
  <2>10. ASSUME perils = {}
         PROVE  /\ expired => page = "prompts" /\ view["prompt"] # 0
                /\ page = "prompts" /\ ~expired /\ view["prompt"] # 0 => cookie["prompt"] = view["prompt"]
    BY <2>10, SettingsInv DEF SettingsInv, WantedHeld
  <2>11. \A x \in Settings!Slides : \/ busy'[x] = busy[x]
                                    \/ busy'[x] = {} /\ x \in DOMAIN set /\ set[x] \in busy[x]
    BY <2>1, <2>3, <2>5
  <2>12. ASSUME perils = {}, view = live, calls = {}
         PROVE  /\ \A x \in Settings!Setting :
                      \/ /\ x \in DOMAIN set /\ card'[x] = set[x]
                         /\ x \in Settings!Slides => busy'[x] = {}
                         /\ x = "prompt" => ~expired'
                      \/ /\ x \notin DOMAIN set /\ card'[x] = card[x]
                         /\ x \in Settings!Slides => busy'[x] = busy[x]
                         /\ x = "prompt" => (expired' <=> expired) /\ (expired => cookie'[x] = cookie[x])
                /\ expired' => page = "prompts" /\ view'["prompt"] # 0
                /\ page = "prompts" /\ ~expired' /\ view'["prompt"] # 0 => cookie'["prompt"] = view'["prompt"]
    <3>1. view'["prompt"] = view["prompt"]
      BY <2>3, <2>4, <2>7
    <3>2. (expired => page = "prompts" /\ view["prompt"] # 0) /\ (page = "prompts" => cookie'["prompt"] = cookie["prompt"])
      BY <2>12, <2>8, <2>10
    <3>3. /\ expired' => page = "prompts" /\ view'["prompt"] # 0
          /\ page = "prompts" /\ ~expired' /\ view'["prompt"] # 0 => cookie'["prompt"] = view'["prompt"]
      BY <2>2, <2>12, <3>1, <3>2, <2>10
    <3>4. ASSUME NEW x \in Settings!Setting, x \in DOMAIN set
          PROVE  card'[x] = set[x] /\ (x \in Settings!Slides => busy'[x] = {}) /\ x # "prompt"
      BY <2>2, <2>3, <2>5, <2>7, <2>9, <2>12, <3>4
    <3>5. ASSUME NEW x \in Settings!Setting, x \notin DOMAIN set
          PROVE  /\ card'[x] = card[x] /\ (x \in Settings!Slides => busy'[x] = busy[x])
                 /\ x = "prompt" => (expired' <=> expired) /\ (expired => cookie'[x] = cookie[x])
      BY <2>2, <2>3, <2>5, <3>2, <3>5
    <3> QED BY <3>3, <3>4, <3>5
  <2>13. "prompt" \notin DOMAIN set
    BY <2>3, <2>7
  <2> QED BY <2>3, <2>2, <2>5, <2>6, <2>11, <2>12, <2>13, Changed
<1>2. ASSUME Settings!Override PROVE SettingsInv'
  <2> DEFINE set == [x \in {"prompt"} |-> IF view["prompt"] = 0 THEN 1 ELSE 0]
  <2>1. /\ Settings!Changes(set) /\ card' = Settings!Merged(card, set) /\ page = "prompts" /\ ~expired
        /\ UNCHANGED <<busy, expired, status, highlight>> /\ cookie' = [cookie EXCEPT !["prompt"] = 1]
    BY <1>2 DEF Settings!Override, Settings!Chosen, Settings!picker
  <2>2. /\ DOMAIN set = {"prompt"} /\ "prompt" \notin Settings!Slides
        /\ set["prompt"] # view["prompt"] /\ set["prompt"] \in {0, 1}
    BY DEF Settings!Slides
  <2>3. /\ Whole(card')
        /\ \A s \in Settings!Setting : card'[s] = IF s \in DOMAIN set THEN set[s] ELSE card[s]
    BY <2>1, MergedTree
  <2>4. /\ view' = Settings!Merged(view, set)
        /\ \A x \in Settings!Setting : view'[x] = IF x \in DOMAIN set THEN set[x] ELSE view[x]
    BY <2>1, MergedTree DEF Settings!Changes, Settings!Sends
  <2> HIDE DEF set
  <2>5. /\ cookie' = [x \in Settings!Drafted |-> cookie'[x]] /\ cookie'["prompt"] = 1
        /\ busy' = [x \in Settings!Slides |-> busy'[x]]
        /\ \A x \in Settings!Slides : cookie'[x] = cookie[x] /\ view'[x] = view[x]
    <3>1. /\ cookie = [x \in Settings!Drafted |-> cookie[x]]
          /\ busy = [x \in Settings!Slides |-> busy[x]]
      BY SettingsInv DEF SettingsInv, SettingsType
    <3>2. \A x \in Settings!Slides : x # "prompt" /\ x \in Settings!Drafted
      BY <2>2
    <3> QED BY <2>1, <2>2, <2>4, <3>1, <3>2
  <2>6. \A x \in Settings!Slides : busy'[x] = busy[x]
    BY <2>1
  <2>7. /\ ~expired' /\ (view'["prompt"] # 0 => cookie'["prompt"] = view'["prompt"])
        /\ \A x \in Settings!Slides : cookie'[x] = view'[x] \/ (view'[x] = view[x] /\ cookie'[x] = cookie[x])
    BY <2>1, <2>2, <2>4, <2>5
  <2>8. \A x \in Settings!Setting :
           \/ x \in DOMAIN set /\ card'[x] = set[x] /\ x \notin Settings!Slides
           \/ x \notin DOMAIN set /\ card'[x] = card[x] /\ x # "prompt" /\ (x \in Settings!Slides => busy'[x] = busy[x])
    BY <2>2, <2>3, <2>6
  <2>9. set["prompt"] # view["prompt"] /\ ~expired' /\ Whole(card')
    BY <2>1, <2>2, <2>3
  <2> QED BY ZenonT(40), <2>1, <2>5, <2>6, <2>7, <2>8, <2>9, Changed
<1>3. ASSUME Settings!Blur PROVE SettingsInv'
  <2>1. expired /\ ~expired' /\ UNCHANGED <<busy, card, cookie, status, highlight>>
    BY <1>3 DEF Settings!Blur, Settings!picker
  <2>2. ASSUME perils = {}
        PROVE  page = "prompts" /\ view["prompt"] # 0 /\ card["prompt"] = cookie["prompt"] /\ stage
    BY <2>1, <2>2, SettingsInv DEF SettingsInv, WantedHeld, Elected, CacheFollows, Settings!Slides
  <2>3. CASE view["prompt"] # 0 /\ cookie["prompt"] # view["prompt"]
    <3> DEFINE set == [x \in {"prompt"} |-> cookie["prompt"]]
    <3>1. Settings!Changes(set)
      BY <1>3, <2>3 DEF Settings!Blur
    <3>2. /\ DOMAIN set = {"prompt"} /\ "prompt" \notin Settings!Slides
          /\ set["prompt"] = cookie["prompt"]
      BY DEF Settings!Slides
    <3>3. /\ view' = Settings!Merged(view, set)
          /\ \A x \in Settings!Setting : view'[x] = IF x \in DOMAIN set THEN set[x] ELSE view[x]
      BY <3>1, MergedTree DEF Settings!Changes, Settings!Sends
    <3> HIDE DEF set
    <3>4. /\ cookie' = [x \in Settings!Drafted |-> cookie'[x]] /\ Whole(card')
          /\ busy' = [x \in Settings!Slides |-> busy'[x]]
      BY <2>1, SettingsInv DEF SettingsInv, SettingsType, Whole
    <3> QED BY <2>1, <2>2, <2>3, <3>1, <3>2, <3>3, <3>4, Changed
  <2>4. CASE ~(view["prompt"] # 0 /\ cookie["prompt"] # view["prompt"])
    <3>1. UNCHANGED <<live, view, stage, calls, open, issued, minted, page, ticked, perils>>
      BY <1>3, <2>4 DEF Settings!Blur
    <3>2. SettingsType' /\ SlidesFollow' /\ TokensFollow' /\ CacheFollows'
      <4>1. SettingsType'
        BY <2>1, <3>1, SettingsInv DEF SettingsInv, SettingsType, Whole, WholePatch
      <4>2. SlidesFollow' /\ TokensFollow'
        BY <2>1, <3>1, SettingsInv DEF SettingsInv, SlidesFollow, TokensFollow
      <4>3. \A p \in calls : InStep(p) <=> InStep(p)'
        BY <2>1, <3>1 DEF InStep
      <4>4. CacheFollows'
        BY <2>1, <3>1, <4>3, SettingsInv DEF SettingsInv, CacheFollows, Calm
      <4> QED BY <4>1, <4>2, <4>4
    <3>3. ASSUME perils = {}, NEW s \in Settings!Setting PROVE Elected(s)'
      <4>1. CASE s = "prompt"
        <5>1. card["prompt"] = view["prompt"]
          BY <2>2, <2>4, <3>3
        <5>2. /\ calls = {} => view["prompt"] = live["prompt"]
              /\ \A p \in calls : view["prompt"] = Settings!Merged(live, p.set)["prompt"]
          BY <2>2, <3>3, SettingsInv, CacheTells
        <5>3. "prompt" \notin Settings!Slides
          BY DEF Settings!Slides
        <5> QED BY <2>1, <3>1, <4>1, <5>1, <5>2, <5>3 DEF Elected
      <4>2. CASE s # "prompt"
        BY <2>1, <3>1, <3>3, <4>2, SettingsInv DEF SettingsInv, WantedHeld, Elected
      <4> QED BY <4>1, <4>2
    <3>4. WantedHeld'
      BY <2>1, <2>2, <2>4, <3>1, <3>3 DEF WantedHeld
    <3> QED BY <3>2, <3>4 DEF SettingsInv
  <2> QED BY <2>3, <2>4
<1> QED BY <1>1, <1>2, <1>3

(* An answer, an error and a fetch put a tree in the cache.                 *)
LEMMA TreesArrive ==
    ASSUME SettingsInv
    PROVE  /\ \A p \in calls : Settings!Succeed(p) \/ Settings!Reject(p) => SettingsInv'
           /\ \A tree \in open : Settings!Got(tree) => SettingsInv'
<1> USE SettingNames
<1>0. ASSUME NEW tree, Whole(tree), Settings!Arrives(tree), Whole(card'), calls' \subseteq calls,
             open' \subseteq open, calls' # {} => stage', stage \/ calls # {} => stage',
             Calm => tree = live /\ calls' = {} /\ stage',
             ~stage' => tree["prompt"] = 0,
             ASSUME perils = {}, perils' = {}, NEW s \in Settings!Setting PROVE Elected(s)'
      PROVE  SettingsInv'
  <2>1. /\ SlidesFollow' /\ TokensFollow'
        /\ view' = tree /\ UNCHANGED <<live, issued, minted, page, busy, expired, status, highlight>>
        /\ cookie' = [s \in Settings!Drafted |-> cookie'[s]]
        /\ ticked' = [s \in Settings!Themed |-> ticked'[s]]
        /\ (Calm' <=> Calm)
        /\ perils' = {} => /\ perils = {}
                           /\ page = "prompts" => view'["prompt"] = view["prompt"]
                                                  /\ cookie'["prompt"] = cookie["prompt"]
    BY <1>0, TreeArrives
  <2>2. SettingsType'
    BY <1>0, <2>1, SettingsInv DEF SettingsInv, SettingsType, Whole, WholePatch
  <2>3. CacheFollows'
    BY <1>0, <2>1, SettingsInv DEF SettingsInv, CacheFollows
  <2>4. WantedHeld'
    BY <1>0, <2>1, SettingsInv DEF SettingsInv, WantedHeld
  <2> QED BY <2>1, <2>2, <2>3, <2>4 DEF SettingsInv
<1>1. ASSUME NEW p \in calls, Settings!Succeed(p) PROVE SettingsInv'
  <2>1. /\ Settings!Arrives(p.read) /\ p.state = "written" /\ calls' = calls \ {p} /\ stage'
        /\ UNCHANGED <<open, card, live, busy, expired, page>>
    BY <1>1 DEF Settings!Succeed, Settings!Arrives
  <2>2. Whole(p.read) /\ Whole(card')
    BY <2>1, SettingsInv DEF SettingsInv, SettingsType, WholePatch, Whole
  <2>3. Calm => p.read = live /\ calls' = {} /\ live = Settings!Merged(live, p.set) /\ calls = {p}
    BY <2>1, SettingsInv DEF SettingsInv, CacheFollows, InStep
  <2>4. ASSUME perils = {}, perils' = {}, NEW s \in Settings!Setting PROVE Elected(s)'
    <3>1. Elected(s) /\ calls = {p} /\ calls' = {} /\ Settings!Merged(live, p.set)[s] = live[s]
          /\ (s = "prompt" /\ expired => cookie'[s] = cookie[s])
      BY <2>1, <2>2, <2>3, <2>4, SettingsInv, TreeArrives DEF SettingsInv, WantedHeld, Calm
    <3> QED BY <2>1, <3>1 DEF Elected
  <2> QED BY <1>0, <2>1, <2>2, <2>3, <2>4
<1>2. ASSUME NEW p \in calls, Settings!Reject(p) PROVE SettingsInv'
  <2> DEFINE tree == Settings!RolledBack(p)
  <2>1. /\ Settings!Arrives(tree) /\ p.state = "failed" /\ calls' = calls \ {p}
        /\ UNCHANGED <<open, live, busy, expired, page, stage>>
        /\ card' = [s \in Settings!Setting |-> IF s \in DOMAIN p.set /\ (s \in Settings!Slides => busy[s] = {})
                                               THEN tree[s] ELSE card[s]]
    BY <1>2 DEF Settings!Reject, Settings!Arrives
  <2>2. Whole(tree) /\ Whole(card')
    <3>1. Whole(card')
      BY <2>1 DEF Whole
    <3>2. CASE p.n = minted /\ p.undo # {}
      <4>1. tree \in p.undo
        BY <3>2 DEF Settings!RolledBack
      <4> QED BY <3>1, <4>1, SettingsInv DEF SettingsInv, SettingsType, WholePatch
    <3>3. CASE ~(p.n = minted /\ p.undo # {})
      BY <3>1, <3>3, SettingsInv DEF SettingsInv, SettingsType, Settings!RolledBack
    <3> QED BY <3>2, <3>3
  <2>3. ASSUME Calm PROVE tree = live /\ calls' = {} /\ calls = {p} /\ InStep(p)
    <3>1. calls = {p} /\ InStep(p) /\ minted = p.n
      BY <2>3, SettingsInv DEF SettingsInv, CacheFollows, InStep
    <3>2. IF p.undo = {} THEN view = live ELSE p.undo = {live}
      BY <2>1, <3>1 DEF InStep
    <3> QED BY <2>1, <3>1, <3>2 DEF Settings!RolledBack
  <2> HIDE DEF tree
  <2>4. view' = tree /\ (perils' = {} /\ page = "prompts" => /\ view'["prompt"] = view["prompt"]
                                                            /\ cookie'["prompt"] = cookie["prompt"])
    BY <2>1, <2>2, SettingsInv, TreeArrives
  <2>5. ASSUME perils = {}, perils' = {}, NEW s \in Settings!Setting PROVE Elected(s)'
    <3>1. /\ Elected(s) /\ calls = {p} /\ calls' = {} /\ tree = live /\ InStep(p)
          /\ Settings!Merged(live, p.set)[s] = IF s \in DOMAIN p.set THEN p.set[s] ELSE live[s]
      BY <2>3, <2>5, SettingsInv, MergedTree DEF SettingsInv, WantedHeld, Calm
    <3>2. expired => page = "prompts"
      BY <2>5, SettingsInv DEF SettingsInv, WantedHeld
    <3>3. CASE s \in DOMAIN p.set /\ (s \in Settings!Slides => busy[s] = {})
      <4>1. card'[s] = live'[s]
        BY <2>1, <3>1, <3>3
      <4>2. s = "prompt" => ~expired
        <5> SUFFICES ASSUME s = "prompt", expired PROVE FALSE
          OBVIOUS
        <5>1. p.set["prompt"] # live["prompt"]
          BY <2>1, <3>1, <3>3 DEF InStep
        <5>2. view["prompt"] = Settings!Merged(live, p.set)["prompt"]
          BY <3>1 DEF InStep
        <5>3. view["prompt"] = p.set["prompt"]
          BY <3>1, <3>3, <5>2
        <5> QED BY <2>4, <2>5, <3>1, <3>2, <5>1, <5>3
      <4> QED BY <2>1, <3>1, <3>3, <4>1, <4>2 DEF Elected
    <3>4. CASE s \notin DOMAIN p.set
      <4>1. card'[s] = card[s] /\ (s = "prompt" /\ expired => cookie'[s] = cookie[s])
        BY <2>1, <2>4, <2>5, <3>2, <3>4
      <4> QED BY <2>1, <3>1, <3>4, <4>1 DEF Elected
    <3>5. CASE s \in Settings!Slides /\ busy[s] # {}
      <4>1. card'[s] = card[s] /\ s # "prompt"
        BY <2>1, <3>5 DEF Settings!Slides
      <4> QED BY <2>1, <3>1, <3>5, <4>1 DEF Elected
    <3> QED BY <3>3, <3>4, <3>5
  <2>6. stage
    BY SettingsInv DEF SettingsInv, CacheFollows
  <2> QED BY <1>0, <2>1, <2>2, <2>3, <2>5, <2>6
<1>3. ASSUME NEW tree \in open, Settings!Got(tree) PROVE SettingsInv'
  <2>1. /\ Settings!Arrives(tree) /\ open' = open \ {tree} /\ stage'
        /\ UNCHANGED <<calls, card, live, busy, expired, page>>
    BY <1>3 DEF Settings!Got, Settings!Arrives
  <2>2. Whole(tree) /\ Whole(card')
    BY <2>1, SettingsInv DEF SettingsInv, SettingsType, Whole
  <2>3. Calm => tree = live /\ calls = {}
    BY <2>1, SettingsInv DEF SettingsInv, CacheFollows
  <2>4. ASSUME perils = {}, perils' = {}, NEW s \in Settings!Setting PROVE Elected(s)'
    <3>1. Elected(s) /\ calls = {} /\ (s = "prompt" /\ expired => cookie'[s] = cookie[s])
      BY <2>1, <2>2, <2>3, <2>4, SettingsInv, TreeArrives DEF SettingsInv, WantedHeld, Calm
    <3> QED BY <2>1, <3>1 DEF Elected
  <2> QED BY <1>0, <2>1, <2>2, <2>3, <2>4
<1> QED BY <1>1, <1>2, <1>3

(* The server reads the row, writes it, or fails.                           *)
LEMMA PatchMoves ==
    ASSUME SettingsInv, NEW p \in calls, Settings!Read(p) \/ Settings!Write(p) \/ Settings!Fail(p)
    PROVE  SettingsInv'
<1> USE SettingNames
<1>1. PICK q : /\ calls' = (calls \ {p}) \cup {q} /\ WholePatch(q) /\ q.n = p.n /\ q.set = p.set /\ q.undo = p.undo
               /\ UNCHANGED <<view, stage, open, issued, minted, page, cookie, busy, expired, status,
                              highlight, ticked, card>>
               /\ \/ Settings!Read(p) /\ q.state = "read" /\ q.read = live /\ live' = live /\ perils' = perils
                  \/ /\ Settings!Write(p) /\ q.state = "written" /\ q.read = live' /\ perils' = perils
                     /\ p.state = "read" /\ live' = Settings!Merged(p.read, p.set)
                  \/ /\ Settings!Fail(p) /\ q.state = "failed" /\ live' = live
                     /\ perils' = perils \cup {u \in {"unheard"} : p.state = "written"}
  <2>1. /\ p = [n |-> p.n, set |-> p.set, undo |-> p.undo, read |-> p.read, state |-> p.state]
        /\ Whole(p.read) /\ Whole(live) /\ \A t \in p.undo : Whole(t)
    BY SettingsInv DEF SettingsInv, SettingsType, WholePatch
  <2>2. CASE Settings!Read(p)
    <3> DEFINE q == [n |-> p.n, set |-> p.set, undo |-> p.undo, read |-> live, state |-> "read"]
    <3>1. q = [p EXCEPT !.state = "read", !.read = live]
      <4> HIDE DEF q
      <4>1. p = [n |-> p.n, set |-> p.set, undo |-> p.undo, read |-> p.read, state |-> p.state]
        BY <2>1
      <4> DEFINE w == [p EXCEPT !.state = "read"]
      <4>2. w = [n |-> p.n, set |-> p.set, undo |-> p.undo, read |-> p.read, state |-> "read"]
        BY <4>1
      <4>3. [w EXCEPT !.read = live] = q
        <5> HIDE DEF w
        <5> QED BY <4>2 DEF q
      <4>4. [p EXCEPT !.state = "read", !.read = live] = [w EXCEPT !.read = live]
        OBVIOUS
      <4> QED BY <4>3, <4>4
    <3>2. WholePatch(q) /\ q.n = p.n /\ q.set = p.set /\ q.undo = p.undo /\ q.state = "read" /\ q.read = live
      BY <2>1 DEF WholePatch
    <3>3. calls' = (calls \ {p}) \cup {q}
      BY <2>2, <3>1 DEF Settings!Read, Settings!Becomes
    <3> HIDE DEF q
    <3> QED BY <2>2, <3>2, <3>3 DEF Settings!Read, Settings!page, Settings!picker
  <2>3. CASE Settings!Write(p)
    <3> DEFINE q == [n |-> p.n, set |-> p.set, undo |-> p.undo, read |-> live', state |-> "written"]
    <3>1. q = [p EXCEPT !.state = "written", !.read = live']
      <4> HIDE DEF q
      <4>1. p = [n |-> p.n, set |-> p.set, undo |-> p.undo, read |-> p.read, state |-> p.state]
        BY <2>1
      <4> DEFINE w == [p EXCEPT !.state = "written"]
      <4>2. w = [n |-> p.n, set |-> p.set, undo |-> p.undo, read |-> p.read, state |-> "written"]
        BY <4>1
      <4>3. [w EXCEPT !.read = live'] = q
        <5> HIDE DEF w
        <5> QED BY <4>2 DEF q
      <4>4. [p EXCEPT !.state = "written", !.read = live'] = [w EXCEPT !.read = live']
        OBVIOUS
      <4> QED BY <4>3, <4>4
    <3>2. Whole(live')
      BY <2>3, MergedTree DEF Settings!Write
    <3>3. WholePatch(q) /\ q.n = p.n /\ q.set = p.set /\ q.undo = p.undo /\ q.state = "written" /\ q.read = live'
      BY <2>1, <3>2 DEF WholePatch
    <3>4. calls' = (calls \ {p}) \cup {q}
      BY <2>3, <3>1 DEF Settings!Write, Settings!Becomes
    <3> HIDE DEF q
    <3> QED BY <2>3, <3>3, <3>4 DEF Settings!Write, Settings!page, Settings!picker
  <2>4. CASE Settings!Fail(p)
    <3> DEFINE q == [n |-> p.n, set |-> p.set, undo |-> p.undo, read |-> p.read, state |-> "failed"]
    <3>1. q = [p EXCEPT !.state = "failed"]
      BY <2>1
    <3>2. WholePatch(q) /\ q.n = p.n /\ q.set = p.set /\ q.undo = p.undo /\ q.state = "failed"
      BY <2>1 DEF WholePatch
    <3>3. calls' = (calls \ {p}) \cup {q}
      BY <2>4, <3>1 DEF Settings!Fail, Settings!Becomes
    <3> HIDE DEF q
    <3> QED BY <2>4, <3>2, <3>3 DEF Settings!Fail, Settings!page, Settings!picker
  <2> QED BY <2>2, <2>3, <2>4
<1>2. Whole(live')
  BY <1>1, MergedTree, SettingsInv DEF SettingsInv, SettingsType
<1>3. SettingsType'
  BY <1>1, <1>2, SettingsInv DEF SettingsInv, SettingsType, Whole
<1>4. SlidesFollow' /\ TokensFollow'
  BY <1>1, SettingsInv DEF SettingsInv, SlidesFollow, TokensFollow
<1>5. ASSUME Calm'
      PROVE  /\ Calm /\ calls = {p} /\ calls' = {q} /\ open = {} /\ InStep(p)
             /\ IF Settings!Write(p) /\ q.state = "written" THEN live' = Settings!Merged(live, p.set) ELSE live' = live
  <2>1. Calm
    BY <1>1, <1>5 DEF Calm
  <2>2. calls = {p} /\ open = {} /\ InStep(p) /\ (p.state = "read" => p.read = live)
    BY <2>1, SettingsInv DEF SettingsInv, CacheFollows, InStep
  <2> QED BY <1>1, <2>1, <2>2
<1>6. ASSUME Calm' PROVE InStep(q)'
  <2>1. \A s \in Settings!Setting : Settings!Merged(live', p.set)[s] = Settings!Merged(live, p.set)[s]
    BY <1>5, <1>6, MergedTree
  <2>2. CASE q.state = "written"
    <3>1. live' = Settings!Merged(live, p.set)
      BY <1>1, <1>5, <1>6, <2>2
    <3>2. Settings!Merged(live', p.set) = live'
      BY <1>2, <2>1, <3>1, MergedTree DEF Whole
    <3> QED BY <1>1, <1>5, <1>6, <2>1, <2>2, <3>2 DEF InStep
  <2>3. CASE q.state # "written" /\ p.state # "written"
    BY <1>1, <1>5, <1>6, <2>1, <2>3 DEF InStep
  <2>4. CASE q.state # "written" /\ p.state = "written"
    BY <1>1, <1>6, <2>4 DEF Calm, Settings!Read
  <2> QED BY <2>2, <2>3, <2>4
<1>7. CacheFollows'
  <2>1. stage
    BY SettingsInv DEF SettingsInv, CacheFollows
  <2>2. ASSUME Calm' PROVE /\ \A x, y \in calls' : x = y
                           /\ calls' # {} /\ open' = {} /\ \A x \in calls' : InStep(x)'
    BY <1>1, <1>5, <1>6, <2>2
  <2> QED BY <1>1, <2>1, <2>2 DEF CacheFollows
<1>8. ASSUME perils' = {} PROVE perils = {} /\ Calm'
  BY <1>1, <1>8 DEF Calm
<1>9. ASSUME perils' = {}, NEW s \in Settings!Setting PROVE Elected(s)'
  <2>1. Elected(s) /\ calls = {p} /\ calls' = {q}
    BY <1>5, <1>8, <1>9, SettingsInv DEF SettingsInv, WantedHeld
  <2>2. Settings!Merged(live', q.set)[s] = Settings!Merged(live, p.set)[s]
    BY <1>1, <1>5, <1>8, <1>9, MergedTree
  <2> QED BY <1>1, <2>1, <2>2 DEF Elected
<1>10. WantedHeld'
  BY <1>1, <1>8, <1>9, SettingsInv DEF SettingsInv, WantedHeld
<1> QED BY <1>3, <1>4, <1>7, <1>10 DEF SettingsInv

(* The venice tab's toggle sends and shows nothing yet.                     *)
LEMMA VeniceToggled ==
    ASSUME SettingsInv, Settings!ToggleVenicePrompt
    PROVE  SettingsInv'
<1> USE SettingNames
<1> DEFINE set == [x \in {"venicePrompt"} |-> 1 - view["venicePrompt"]]
           p == [n |-> issued + 1, set |-> set, undo |-> {}, read |-> live, state |-> "sent"]
<1>1. /\ calls' = calls \cup {p} /\ stage /\ issued' = issued + 1 /\ minted' = issued + 1
      /\ perils' = perils \cup {d \in {"overlap"} : calls # {}} \cup {d \in {"overtaken"} : open # {}}
                          \cup {d \in {"unloaded"} : ~stage}
      /\ card' = Settings!Merged(card, set)
      /\ UNCHANGED <<live, open, page, view, stage, ticked, cookie, busy, expired, status, highlight>>
  BY DEF Settings!ToggleVenicePrompt, Settings!Sends, Settings!Chosen, Settings!picker
<1>2. /\ WholePatch(p) /\ p.n = issued + 1 /\ p.set = set /\ p.undo = {} /\ p.state = "sent"
      /\ DOMAIN set = {"venicePrompt"}
  BY SettingsInv DEF WholePatch, SettingsInv, SettingsType
<1> HIDE DEF p, set
<1>3. /\ Whole(card')
      /\ \A s \in Settings!Setting : card'[s] = IF s \in DOMAIN set THEN set[s] ELSE card[s]
  BY <1>1, MergedTree
<1>4. SettingsType'
  BY <1>1, <1>2, <1>3, SettingsInv DEF SettingsInv, SettingsType, Whole
<1>5. SlidesFollow' /\ TokensFollow'
  BY <1>1, SettingsInv DEF SettingsInv, SlidesFollow, TokensFollow
<1>6. Calm' => calls = {} /\ calls' = {p} /\ open = {} /\ view = live
  BY <1>1, SettingsInv DEF SettingsInv, CacheFollows, Calm
<1>7. ASSUME Calm', NEW q \in calls' PROVE InStep(q)'
  <2>1. q = p /\ view' = live'
    BY <1>1, <1>6, <1>7
  <2>2. \A s \in Settings!Setting : s # "venicePrompt" => view'[s] = Settings!Merged(live', set)[s]
    BY <1>1, <1>2, <2>1, MergedTree
  <2> QED BY <1>1, <1>2, <2>1, <2>2 DEF InStep
<1>8. CacheFollows'
  BY <1>1, <1>6, <1>7 DEF CacheFollows
<1>9. ASSUME perils' = {}, NEW s \in Settings!Setting PROVE Elected(s)'
  <2>1. perils = {} /\ Elected(s) /\ calls = {} /\ calls' = {p}
    BY <1>1, <1>6, <1>9, SettingsInv DEF SettingsInv, WantedHeld, Calm
  <2>2. Settings!Merged(live', p.set)[s] = IF s \in DOMAIN set THEN set[s] ELSE live[s]
    BY <1>1, <1>2, MergedTree
  <2>3. CASE s \in DOMAIN set
    <3>1. s \notin Settings!Slides /\ s # "prompt"
      BY <1>2, <2>3 DEF Settings!Slides
    <3> QED BY <1>3, <2>1, <2>2, <2>3, <3>1 DEF Elected
  <2>4. CASE s \notin DOMAIN set
    BY <1>1, <1>3, <2>1, <2>2, <2>4 DEF Elected
  <2> QED BY <2>3, <2>4
<1>10. WantedHeld'
  BY <1>1, <1>9, SettingsInv DEF SettingsInv, WantedHeld
<1> QED BY <1>4, <1>5, <1>8, <1>10 DEF SettingsInv

(* A tab is opened, or the modal closed.                                    *)
LEMMA TabsMount ==
    ASSUME SettingsInv, NEW t, Settings!Mounts(t), Settings!Leaves \subseteq perils',
           perils' \ {"closed", "dropped", "escaped"} = perils \ {"closed", "dropped", "escaped"},
           perils \subseteq perils', UNCHANGED issued,
           ~expired \/ "escaped" \in perils' \/ cookie["prompt"] = view["prompt"]
    PROVE  SettingsInv'
<1> USE SettingNames
<1>1. /\ status' \in {{}, Settings!Model} /\ highlight' = Settings!Highlighted("none", status')
      /\ page' = t /\ minted' = 0 /\ ~expired' /\ busy' = [s \in Settings!Slides |-> {}]
      /\ cookie' = Settings!Seed(view) /\ UNCHANGED <<live, view, stage, calls, open, ticked, card>>
  BY DEF Settings!Mounts
<1>2. /\ cookie' = [s \in Settings!Drafted |-> cookie'[s]]
      /\ \A s \in Settings!Slides : cookie'[s] = view[s] /\ busy'[s] = {}
      /\ view["prompt"] # 0 => cookie'["prompt"] = view["prompt"]
  BY <1>1 DEF Settings!Seed, Settings!Slides
<1>3. status' \subseteq Settings!Model /\ (status' # {} => highlight' \in Settings!Model)
  BY <1>1 DEF Settings!Highlighted, Settings!Model
<1>4. SettingsType'
  BY <1>1, <1>2, <1>3, SettingsInv DEF SettingsInv, SettingsType, Whole, WholePatch
<1>5. "dropped" \notin perils' => "dropped" \notin perils /\ \A s \in Settings!Slides : busy[s] = {}
  BY DEF Settings!Leaves
<1>6. SlidesFollow'
  BY <1>1, <1>2 DEF SlidesFollow
<1>7. TokensFollow'
  BY <1>1, <1>2, <1>5, SettingsInv DEF SettingsInv, TokensFollow, Settings!Slides
<1>8. Calm' => Calm /\ (minted = 0 \/ calls = {})
  BY DEF Calm, Settings!Leaves
<1>9. ASSUME Calm', NEW p \in calls PROVE InStep(p)'
  <2>1. InStep(p) /\ minted = 0
    BY <1>8, <1>9, SettingsInv DEF SettingsInv, CacheFollows
  <2> QED BY <1>1, <2>1 DEF InStep
<1>10. CacheFollows'
  BY <1>1, <1>8, <1>9, SettingsInv DEF SettingsInv, CacheFollows
<1>11. perils' = {} => perils = {} /\ (expired => cookie["prompt"] = view["prompt"])
  OBVIOUS
<1>12. ASSUME perils' = {}, NEW s \in Settings!Setting PROVE Elected(s)'
  <2>1. perils = {} /\ Elected(s)
    BY <1>11, <1>12, SettingsInv DEF SettingsInv, WantedHeld
  <2>2. s \in Settings!Slides => busy[s] = {} /\ busy'[s] = {}
    BY <1>2, <1>5, <1>12
  <2>3. CASE s = "prompt" /\ expired /\ card[s] = cookie[s]
    <3>1. stage /\ card[s] = view[s] /\ s \notin Settings!Slides
      BY <1>11, <1>12, <2>1, <2>3, SettingsInv DEF SettingsInv, WantedHeld, CacheFollows, Settings!Slides
    <3>2. /\ calls = {} => view[s] = live[s]
          /\ \A p \in calls : view[s] = Settings!Merged(live, p.set)[s]
      BY <2>1, <2>3, <3>1, SettingsInv, CacheTells
    <3> QED BY <1>1, <3>1, <3>2 DEF Elected
  <2>4. CASE ~(s = "prompt" /\ expired /\ card[s] = cookie[s])
    BY <1>1, <2>1, <2>2, <2>4 DEF Elected
  <2> QED BY <2>3, <2>4
<1>13. WantedHeld'
  BY <1>1, <1>2, <1>12 DEF WantedHeld
<1> QED BY <1>4, <1>6, <1>7, <1>10, <1>13 DEF SettingsInv

(* What touches only the fields of the tab, or the fetches.                 *)
LEMMA FieldsMove ==
    ASSUME SettingsInv
    PROVE  /\ \A s \in Settings!Slides, v \in 0..1 : Settings!Slide(s, v) => SettingsInv'
           /\ Settings!Mistype => SettingsInv'
           /\ Settings!Focus => SettingsInv'
           /\ \A v \in 0..2 : Settings!Type(v) => SettingsInv'
           /\ \A list \in SUBSET Settings!Model : Settings!Search(list) => SettingsInv'
           /\ \A x \in Settings!Model : Settings!Highlight(x) => SettingsInv'
           /\ Settings!Get => SettingsInv'
           /\ \A tree \in open : Settings!GetFails(tree) => SettingsInv'
<1> USE SettingNames
<1>0. ASSUME UNCHANGED <<live, view, stage, calls, open, issued, minted, page, perils>>
      PROVE  CacheFollows' /\ (Calm' <=> Calm)
  <2>1. \A p \in calls : InStep(p) <=> InStep(p)'
    BY <1>0 DEF InStep
  <2> QED BY <1>0, <2>1, SettingsInv DEF SettingsInv, CacheFollows, Calm
<1>1. ASSUME NEW s \in Settings!Slides, NEW v \in 0..1, Settings!Slide(s, v) PROVE SettingsInv'
  <2> DEFINE set == [x \in {s} |-> v]
  <2>1. /\ page = Settings!TabOf[s] /\ cookie' = [cookie EXCEPT ![s] = v] /\ busy' = [busy EXCEPT ![s] = {v}]
        /\ ticked' = [x \in Settings!Themed |-> IF x = s THEN v ELSE ticked[x]]
        /\ card' = Settings!Merged(card, set)
        /\ UNCHANGED <<live, view, stage, calls, open, issued, minted, page, expired, status, highlight, perils>>
    BY <1>1 DEF Settings!Slide, Settings!Chosen, Settings!picker
  <2>2. /\ Whole(card') /\ \A x \in Settings!Setting : card'[x] = IF x = s THEN v ELSE card[x]
    BY <2>1, MergedTree
  <2>3. /\ cookie' = [x \in Settings!Drafted |-> cookie'[x]] /\ busy' = [x \in Settings!Slides |-> busy'[x]]
        /\ \A x \in Settings!Drafted : cookie'[x] = IF x = s THEN v ELSE cookie[x]
        /\ \A x \in Settings!Slides : busy'[x] = IF x = s THEN {v} ELSE busy[x]
    BY <2>1, SettingsInv DEF SettingsInv, SettingsType
  <2>4. SettingsType'
    BY <2>1, <2>2, <2>3, SettingsInv DEF SettingsInv, SettingsType, Whole, WholePatch
  <2>5. SlidesFollow'
    BY <2>1, <2>3, SettingsInv DEF SettingsInv, SlidesFollow
  <2>6. TokensFollow'
    BY <2>1, <2>3, SettingsInv DEF SettingsInv, TokensFollow, Settings!Slides, Settings!Themed
  <2>7. s # "prompt" /\ page # "prompts"
    BY <2>1 DEF Settings!Slides, Settings!TabOf
  <2>8. ASSUME perils' = {}, NEW x \in Settings!Setting PROVE Elected(x)'
    <3>1. Elected(x)
      BY <2>1, <2>8, SettingsInv DEF SettingsInv, WantedHeld
    <3>2. CASE x = s
      BY <2>2, <2>3, <3>2 DEF Elected
    <3>3. CASE x # s
      <4>1. card'[x] = card[x] /\ (x \in Settings!Slides => busy'[x] = busy[x])
            /\ (x = "prompt" => cookie'[x] = cookie[x])
        BY <2>2, <2>3, <3>3
      <4> QED BY <2>1, <3>1, <4>1 DEF Elected
    <3> QED BY <3>2, <3>3
  <2>9. WantedHeld'
    BY <2>1, <2>3, <2>7, <2>8, SettingsInv DEF SettingsInv, WantedHeld
  <2> QED BY <1>0, <2>1, <2>4, <2>5, <2>6, <2>9 DEF SettingsInv
<1>2. ASSUME Settings!Mistype PROVE SettingsInv'
  <2>1. /\ cookie' = [cookie EXCEPT !["goal"] = Settings!Junk] /\ page = "writing"
        /\ UNCHANGED <<live, view, stage, calls, open, issued, minted, page, busy, expired, status,
                       highlight, ticked, card, perils>>
    BY <1>2 DEF Settings!Mistype, Settings!picker
  <2>2. /\ cookie' = [x \in Settings!Drafted |-> cookie'[x]]
        /\ \A x \in Settings!Drafted : cookie'[x] = IF x = "goal" THEN Settings!Junk ELSE cookie[x]
    BY <2>1, SettingsInv DEF SettingsInv, SettingsType
  <2>3. SettingsType'
    BY <2>1, <2>2, SettingsInv DEF SettingsInv, SettingsType, Whole, WholePatch
  <2>4. SlidesFollow' /\ TokensFollow'
    BY <2>1, <2>2, SettingsInv DEF SettingsInv, SlidesFollow, TokensFollow
  <2>5. ASSUME perils' = {}, NEW x \in Settings!Setting PROVE Elected(x)'
    <3>1. Elected(x) /\ (x = "prompt" => cookie'[x] = cookie[x])
      BY <2>1, <2>2, <2>5, SettingsInv DEF SettingsInv, WantedHeld
    <3> QED BY <2>1, <3>1 DEF Elected
  <2>6. WantedHeld'
    BY <2>1, <2>5, SettingsInv DEF SettingsInv, WantedHeld
  <2> QED BY <1>0, <2>1, <2>3, <2>4, <2>6 DEF SettingsInv
<1>3. ASSUME Settings!Focus PROVE SettingsInv'
  <2>1. /\ page = "prompts" /\ view["prompt"] # 0 /\ ~expired /\ expired'
        /\ UNCHANGED <<live, view, stage, calls, open, issued, minted, page, busy, cookie, status,
                       highlight, ticked, card, perils>>
    BY <1>3 DEF Settings!Focus, Settings!picker
  <2>2. SettingsType' /\ SlidesFollow' /\ TokensFollow'
    <3>1. SettingsType'
      BY <2>1, SettingsInv DEF SettingsInv, SettingsType, Whole, WholePatch
    <3>2. SlidesFollow' /\ TokensFollow'
      BY <2>1, SettingsInv DEF SettingsInv, SlidesFollow, TokensFollow
    <3> QED BY <3>1, <3>2
  <2>3. ASSUME perils' = {}, NEW x \in Settings!Setting PROVE Elected(x)'
    <3>1. Elected(x)
      BY <2>1, <2>3, SettingsInv DEF SettingsInv, WantedHeld
    <3>2. CASE x = "prompt"
      <4>1. stage /\ cookie["prompt"] = view["prompt"] /\ "prompt" \notin Settings!Slides
        BY <2>1, <2>3, SettingsInv DEF SettingsInv, WantedHeld, CacheFollows, Settings!Slides
      <4>2. /\ calls = {} => view[x] = live[x]
            /\ \A p \in calls : view[x] = Settings!Merged(live, p.set)[x]
        BY <2>1, <2>3, <3>2, <4>1, SettingsInv, CacheTells
      <4>3. card[x] = cookie[x]
        BY <2>1, <3>1, <3>2, <4>1, <4>2 DEF Elected
      <4> QED BY <2>1, <3>2, <4>3 DEF Elected
    <3>3. CASE x # "prompt"
      BY <2>1, <3>1, <3>3 DEF Elected
    <3> QED BY <3>2, <3>3
  <2>4. WantedHeld'
    BY <2>1, <2>3, SettingsInv DEF SettingsInv, WantedHeld
  <2> QED BY <1>0, <2>1, <2>2, <2>4 DEF SettingsInv
<1>4. ASSUME NEW v \in 0..2, Settings!Type(v) PROVE SettingsInv'
  <2> DEFINE set == [x \in {"prompt"} |-> v]
  <2>1. /\ expired /\ view["prompt"] # 0 /\ cookie' = [cookie EXCEPT !["prompt"] = v]
        /\ card' = Settings!Merged(card, set)
        /\ UNCHANGED <<live, view, stage, calls, open, issued, minted, page, busy, expired, status,
                       highlight, ticked, perils>>
    BY <1>4 DEF Settings!Type, Settings!Chosen, Settings!picker
  <2>2. /\ Whole(card') /\ \A x \in Settings!Setting : card'[x] = IF x = "prompt" THEN v ELSE card[x]
    BY <2>1, MergedTree
  <2>3. /\ cookie' = [x \in Settings!Drafted |-> cookie'[x]]
        /\ \A x \in Settings!Drafted : cookie'[x] = IF x = "prompt" THEN v ELSE cookie[x]
    BY <2>1, SettingsInv DEF SettingsInv, SettingsType
  <2>4. SettingsType'
    BY <2>1, <2>2, <2>3, SettingsInv DEF SettingsInv, SettingsType, Whole, WholePatch
  <2>5. "prompt" \notin Settings!Slides
    BY DEF Settings!Slides
  <2>6. SlidesFollow' /\ TokensFollow'
    BY <2>1, <2>3, <2>5, SettingsInv DEF SettingsInv, SlidesFollow, TokensFollow
  <2>7. ASSUME perils' = {}, NEW x \in Settings!Setting PROVE Elected(x)'
    <3>1. Elected(x)
      BY <2>1, <2>7, SettingsInv DEF SettingsInv, WantedHeld
    <3>2. CASE x = "prompt"
      BY <2>1, <2>2, <2>3, <3>2 DEF Elected
    <3>3. CASE x # "prompt"
      BY <2>1, <2>2, <3>1, <3>3 DEF Elected
    <3> QED BY <3>2, <3>3
  <2>8. WantedHeld'
    BY <2>1, <2>7, SettingsInv DEF SettingsInv, WantedHeld
  <2> QED BY <1>0, <2>1, <2>4, <2>6, <2>8 DEF SettingsInv
<1>5. ASSUME UNCHANGED <<live, view, stage, calls, open, issued, minted, page, cookie, busy, expired,
                         ticked, card, perils>>,
             status' \subseteq Settings!Model, status' # {} => highlight' \in Settings!Model
      PROVE  SettingsInv'
  <2>1. SettingsType' /\ SlidesFollow' /\ TokensFollow'
    <3>1. SettingsType'
      BY <1>5, SettingsInv DEF SettingsInv, SettingsType, Whole, WholePatch
    <3>2. SlidesFollow' /\ TokensFollow'
      BY <1>5, SettingsInv DEF SettingsInv, SlidesFollow, TokensFollow
    <3> QED BY <3>1, <3>2
  <2>2. WantedHeld'
    BY <1>5, SettingsInv DEF SettingsInv, WantedHeld, Elected
  <2> QED BY <1>0, <1>5, <2>1, <2>2 DEF SettingsInv
<1>6. ASSUME NEW list \in SUBSET Settings!Model, Settings!Search(list) PROVE SettingsInv'
  <2>1. list # {} => Settings!Highlighted(highlight, list) \in Settings!Model
    BY DEF Settings!Highlighted, Settings!Model
  <2> QED BY <1>5, <1>6, <2>1 DEF Settings!Search
<1>7. ASSUME NEW x \in Settings!Model, Settings!Highlight(x) PROVE SettingsInv'
  BY <1>5, <1>7, SettingsInv DEF Settings!Highlight, SettingsInv, SettingsType
<1>8. ASSUME UNCHANGED <<live, view, stage, calls, issued, minted, page, cookie, busy, expired,
                         ticked, card, status, highlight>>,
             \/ open' = open \cup {live} /\ perils' = IF calls = {} THEN perils ELSE perils \cup {"overtaken"}
             \/ open' \subseteq open /\ perils' = perils
      PROVE  SettingsInv'
  <2>1. SettingsType'
    BY <1>8, SettingsInv DEF SettingsInv, SettingsType, Whole, WholePatch
  <2>2. "dropped" \notin perils' => "dropped" \notin perils
    BY <1>8
  <2>3. SlidesFollow' /\ TokensFollow'
    BY <1>8, <2>2, SettingsInv DEF SettingsInv, SlidesFollow, TokensFollow
  <2>4. Calm' => Calm /\ (open' \subseteq open \/ (open' = open \cup {live} /\ calls = {}))
    BY <1>8 DEF Calm
  <2>5. \A p \in calls : InStep(p) <=> InStep(p)'
    BY <1>8 DEF InStep
  <2>6. CacheFollows'
    <3>1. ~stage => calls = {} /\ view["prompt"] = 0
      BY SettingsInv DEF SettingsInv, CacheFollows
    <3>2. ASSUME Calm' PROVE /\ \A p, q \in calls : p = q
                             /\ calls # {} => open' = {}
                             /\ calls = {} /\ stage => view = live
                             /\ \A t \in open' : t = live
                             /\ \A p \in calls : InStep(p)
      BY <2>4, <3>2, SettingsInv DEF SettingsInv, CacheFollows
    <3> QED BY <1>8, <2>5, <3>1, <3>2 DEF CacheFollows
  <2>7. WantedHeld'
    BY <1>8, SettingsInv DEF SettingsInv, WantedHeld, Elected
  <2> QED BY <2>1, <2>3, <2>6, <2>7 DEF SettingsInv
<1>9. ASSUME Settings!Get PROVE SettingsInv'
  <2>1. open' = open \cup {live} /\ perils' = IF calls = {} THEN perils ELSE perils \cup {"overtaken"}
    BY <1>9 DEF Settings!Get
  <2>2. UNCHANGED <<live, view, stage, calls, issued, minted, page, cookie, busy, expired,
                    ticked, card, status, highlight>>
    BY <1>9 DEF Settings!Get, Settings!page, Settings!picker
  <2> QED BY <1>8, <2>1, <2>2
<1>10. ASSUME NEW tree \in open, Settings!GetFails(tree) PROVE SettingsInv'
  BY <1>8, <1>10 DEF Settings!GetFails, Settings!page, Settings!picker
<1> QED BY <1>1, <1>2, <1>3, <1>4, <1>6, <1>7, <1>9, <1>10

(* Every step keeps the settings' invariant.                                *)
LEMMA SettingsStep == ASSUME SettingsInv, Settings!Next PROVE SettingsInv'
<1> USE SettingNames
<1>1. ASSUME NEW s \in Settings!Setting, Settings!Open(Settings!TabOf[s]) PROVE SettingsInv'
  <2>1. /\ Settings!Mounts(Settings!TabOf[s]) /\ perils' = perils \cup Settings!Leaves /\ ~expired
    BY <1>1 DEF Settings!Open
  <2>2. UNCHANGED issued /\ Settings!Leaves \subseteq {"closed", "dropped"}
    BY <2>1 DEF Settings!Mounts, Settings!Leaves
  <2> QED BY <2>1, <2>2, TabsMount
<1>2. ASSUME Settings!Close PROVE SettingsInv'
  <2>1. /\ Settings!Mounts("none") /\ perils' = perils \cup Settings!Leaves /\ ~expired
    BY <1>2 DEF Settings!Close
  <2>2. UNCHANGED issued /\ Settings!Leaves \subseteq {"closed", "dropped"}
    BY <2>1 DEF Settings!Mounts, Settings!Leaves
  <2> QED BY <2>1, <2>2, TabsMount
<1>3. ASSUME Settings!Escape PROVE SettingsInv'
  <2>1. /\ Settings!Mounts("none")
        /\ perils' = perils \cup Settings!Leaves \cup {p \in {"escaped"} : cookie["prompt"] # view["prompt"]}
    BY <1>3 DEF Settings!Escape
  <2>2. UNCHANGED issued /\ Settings!Leaves \subseteq {"closed", "dropped"}
    BY <2>1 DEF Settings!Mounts, Settings!Leaves
  <2> QED BY <2>1, <2>2, TabsMount
<1> QED BY <1>1, <1>2, <1>3, PlainChanges, DraftedChanges, TreesArrive, PatchMoves, VeniceToggled, FieldsMove
        DEF Settings!Next

(* What holds of the settings in every state of their part.                 *)
SettingsPart == part = "settings" => SettingsInv

LEMMA SettingsInvariant == MCSpec => []SettingsPart
<1>1. MCInit => SettingsPart
  <2> SUFFICES ASSUME MCInit, part = "settings" PROVE SettingsInv
    BY DEF SettingsPart
  <2> USE SettingNames
  <2>1. Settings!Init
    BY DEF MCInit
  <2>2. Whole(live) /\ Whole(view) /\ card = live
    BY <2>1 DEF Settings!Init, Settings!Defaults, Whole
  <2>3. cookie = [s \in Settings!Drafted |-> cookie[s]] /\ \A s \in Settings!Slides : cookie[s] = view[s]
    BY <2>1 DEF Settings!Init, Settings!Seed, Settings!Slides
  <2>4. SettingsType
    BY <2>1, <2>2, <2>3 DEF Settings!Init, SettingsType
  <2>5. SlidesFollow
    BY <2>1, <2>3 DEF Settings!Init, SlidesFollow
  <2>6. TokensFollow
    BY <2>1 DEF Settings!Init, TokensFollow, Settings!Themed, Settings!Slides, Settings!Defaults
  <2>7. CacheFollows
    BY <2>1 DEF Settings!Init, CacheFollows, Settings!Defaults
  <2>8. WantedHeld
    BY <2>1, <2>2 DEF Settings!Init, WantedHeld, Elected
  <2> QED BY <2>4, <2>5, <2>6, <2>7, <2>8 DEF SettingsInv
<1>2. SettingsPart /\ [MCNext]_MCVars => SettingsPart'
  <2> SUFFICES ASSUME SettingsPart, [MCNext]_MCVars, part = "settings" PROVE SettingsInv'
    BY DEF MCNext, MCVars, SettingsPart
  <2>1. CASE Settings!Next
    BY <2>1, SettingsStep DEF SettingsPart
  <2>2. CASE UNCHANGED MCVars
    BY <2>2 DEF MCVars, PagesVars, SettingsPart, SettingsInv, SettingsType, Whole, WholePatch, SlidesFollow,
                TokensFollow, CacheFollows, Calm, InStep, WantedHeld, Elected
  <2> QED BY <2>1, <2>2 DEF MCNext
<1> QED BY <1>1, <1>2, PTL DEF MCSpec

(* Once nothing is under way, the settings shown are the ones stored and    *)
(* the ones stored are the ones chosen, however changes, debounces,         *)
(* fetches, errors and roll-backs came about, unless one of the listed      *)
(* dangers was met.                                                         *)
THEOREM SettingsCorrect == MCSpec => []SettingsSettle
<1>1. SettingsPart => SettingsSettle
  <2> SUFFICES ASSUME SettingsInv, Settings!AtRest
               PROVE  /\ stage /\ perils \subseteq {"dropped", "escaped", "stale"} => view = live
                      /\ perils = {} => live = card
                      /\ "dropped" \notin perils => \A s \in Settings!Themed : ticked[s] = view[s]
                      /\ \A s \in Settings!Slides : cookie[s] \in {view[s], Settings!Junk}
    BY DEF SettingsPart, SettingsSettle, Settings!SettingsSettle
  <2> USE SettingNames
  <2>1. calls = {} /\ open = {} /\ ~expired /\ \A s \in Settings!Slides : busy[s] = {}
    BY DEF Settings!AtRest
  <2>2. stage /\ perils \subseteq {"dropped", "escaped", "stale"} => view = live
    BY <2>1 DEF SettingsInv, CacheFollows, Calm
  <2>3. ASSUME perils = {} PROVE live = card
    <3>1. \A s \in Settings!Setting : live[s] = card[s]
      BY <2>1, <2>3 DEF SettingsInv, WantedHeld, Elected
    <3> QED BY <3>1 DEF SettingsInv, SettingsType, Whole
  <2>4. "dropped" \notin perils => \A s \in Settings!Themed : ticked[s] = view[s]
    BY <2>1 DEF SettingsInv, TokensFollow, Settings!Themed, Settings!Slides
  <2>5. \A s \in Settings!Slides : cookie[s] \in {view[s], Settings!Junk}
    BY <2>1 DEF SettingsInv, SlidesFollow
  <2> QED BY <2>2, <2>3, <2>4, <2>5
<1> QED BY SettingsInvariant, <1>1, PTL

-----------------------------------------------------------------------------
(* The account's pages.  A reset under way for this page is the reset       *)
(* page's.                                                                  *)
PagesType ==
    /\ issued \in Nat /\ minted \in Nat /\ view \in Nat /\ cookie \in Nat
    /\ calls \subseteq Pages!Call
    /\ \A c \in calls : c.view <= view /\ (c.kind = "reset" /\ c.view = view => page = "reset")

(* While nothing went wrong a code on its way is awaited by the page that   *)
(* asked, and by one request alone ...                                      *)
CodeAwaited ==
    \A c \in Pages!Coded(calls) :
        /\ c.view = view /\ Pages!Coded(calls) = {c}
        /\ c.kind = "register" => page = "register" /\ stage = "form" /\ "register" \in busy
        /\ c.kind = "rotate" => page = "editor"
        /\ c.ans = "ok" => code \in {0, c.got}

(* ... and the account's code is stored, on this page or in that answer.    *)
CodeSomewhere ==
    code \in {0, saved, card} \/ \E c \in Pages!Coded(calls) : c.ans = "ok" /\ c.got = code

(* A page that holds a code shows it, until it was confirmed, and no other  *)
(* is on its way.                                                           *)
CodeShown ==
    /\ card # 0 => /\ Pages!Coded(calls) = {}
                   /\ \/ page = "register" /\ stage \in {"handoff", "logging-in", "login-failed"}
                      \/ page = "editor" /\ stage = "code"
    /\ stage \in {"handoff", "code"} => Pages!Coded(calls) = {} /\ code \in {0, card}

CodeKept == CodeAwaited /\ CodeSomewhere /\ CodeShown

PagesInv == PagesType /\ (perils = {} => CodeKept)

PagesPart == part = "pages" => PagesInv

(* What a call's members are, and which calls bring a code. *)
LEMMA PageCalls ==
    ASSUME PagesType
    PROVE  /\ \A c \in calls : /\ c \in Pages!Call /\ c.view \in Nat /\ c.got \in Nat
                              /\ c.view <= view
                              /\ c.kind = "reset" /\ c.view = view => page = "reset"
           /\ \A cs : \A c : c \in Pages!Coded(cs) <=> c \in cs /\ c.kind \in {"register", "rotate"}
           /\ issued \in Nat /\ minted \in Nat /\ view \in Nat /\ cookie \in Nat
           /\ calls \subseteq Pages!Call
BY DEF PagesType, Pages!Call, Pages!Coded

(* A page with nothing at stake holds no code that is not stored, and       *)
(* awaits none.                                                             *)
LEMMA Unstaked ==
    ASSUME PagesInv, perils = {}, NEW cs \in SUBSET calls, ~Pages!AtStake(cs)
    PROVE  Pages!Coded(cs) = {} /\ card \in {0, saved}
<1>1. \A c \in Pages!Coded(cs) : c \in Pages!Coded(calls) /\ c.view # view
  BY DEF Pages!AtStake, Pages!Coded
<1>2. \A c \in Pages!Coded(calls) : c.view = view
  BY DEF PagesInv, CodeKept, CodeAwaited
<1> QED BY <1>1, <1>2 DEF Pages!AtStake

(* A page is mounted anew with nothing at stake. *)
LEMMA PageMounts ==
    ASSUME PagesInv, NEW p, Pages!Mount(p), UNCHANGED <<code, issued, minted, saved>>,
           cookie' \in Nat, calls' \subseteq Pages!Call,
           \A c \in calls' : c.view <= view \/ (c.view = view + 1 /\ c.kind # "reset"),
           perils' = {} => /\ perils = {} /\ Pages!Coded(calls') = {} /\ card \in {0, saved}
                           /\ code \in {0, saved, card}
    PROVE  PagesInv'
<1>1. view \in Nat /\ view' = view + 1 /\ stage' = Pages!FirstStage(p) /\ card' = 0
  BY PageCalls DEF PagesInv, Pages!Mount
<1>2. \A c \in calls' : c.view \in Nat
  BY DEF Pages!Call
<1>3. PagesType'
  <2>1. ASSUME NEW c \in calls' PROVE c.view <= view' /\ (c.kind = "reset" /\ c.view = view' => page' = "reset")
    BY <1>1, <1>2, SMT
  <2> QED BY <2>1, <1>1 DEF PagesInv, PagesType
<1>4. ASSUME perils' = {} PROVE CodeKept'
  <2>1. Pages!Coded(calls') = {} /\ code' \in {0, saved'}
    BY <1>4
  <2>2. stage' \notin {"handoff", "code"}
    BY <1>1 DEF Pages!FirstStage
  <2> QED BY <2>1, <2>2, <1>1 DEF CodeKept, CodeAwaited, CodeSomewhere, CodeShown
<1> QED BY <1>3, <1>4 DEF PagesInv

(* Whatever leaves the page, its code and the code on its way alone, but    *)
(* for an answer without one.                                               *)
LEMMA CodeUndisturbed ==
    ASSUME PagesInv, PagesType', UNCHANGED <<page, view, card, saved>>, code' \in {0, code},
           \/ stage' = stage
           \/ stage = "logging-in" /\ stage' = "login-failed"
           \/ stage = "sections" /\ stage' = "delete",
           perils' = {} =>
               /\ perils = {}
               /\ \/ Pages!Coded(calls') = Pages!Coded(calls)
                  \/ /\ Pages!Coded(calls') = {}
                     /\ \A c \in Pages!Coded(calls) : c.ans # "ok"
                  \/ \E c, d : /\ Pages!Coded(calls) = {c} /\ Pages!Coded(calls') = {d}
                              /\ d.view = c.view /\ d.kind = c.kind
                              /\ c.ans # "ok" /\ d.ans # "ok"
               /\ \/ "register" \in busy => "register" \in busy'
                  \/ page # "register" \/ Pages!Coded(calls') = {}
    PROVE  PagesInv'
<1> SUFFICES ASSUME perils' = {} PROVE CodeKept'
  BY DEF PagesInv
<1> DEFINE Before == Pages!Coded(calls)  After == Pages!Coded(calls')
<1>1. perils = {} /\ CodeKept
  BY DEF PagesInv
<1>2. ASSUME NEW d \in After
      PROVE  /\ After = {d}
             /\ \E c \in Before : /\ Before = {c} /\ d.view = c.view /\ d.kind = c.kind
                                  /\ d.ans = "ok" => d = c
  BY <1>1, <1>2 DEF CodeKept, CodeAwaited
<1>3. CodeAwaited'
  <2> SUFFICES ASSUME NEW d \in After
               PROVE  /\ d.view = view' /\ After = {d}
                      /\ d.kind = "register" => page' = "register" /\ stage' = "form" /\ "register" \in busy'
                      /\ d.kind = "rotate" => page' = "editor"
                      /\ d.ans = "ok" => code' \in {0, d.got}
    BY DEF CodeAwaited
  <2>1. PICK c \in Before : /\ Before = {c} /\ d.view = c.view /\ d.kind = c.kind
                           /\ d.ans = "ok" => d = c
    BY <1>2
  <2>2. /\ c.view = view
        /\ c.kind = "register" => page = "register" /\ stage = "form" /\ "register" \in busy
        /\ c.kind = "rotate" => page = "editor"
        /\ c.ans = "ok" => code \in {0, c.got}
    BY <1>1 DEF CodeKept, CodeAwaited
  <2> QED BY <1>2, <2>1, <2>2
<1>4. CodeSomewhere'
  <2>1. CASE code' = 0
    BY <2>1 DEF CodeSomewhere
  <2>2. CASE code' = code /\ code \in {0, saved, card}
    BY <2>2 DEF CodeSomewhere
  <2>3. CASE code' = code /\ \E c \in Before : c.ans = "ok" /\ c.got = code
    <3>1. PICK c \in Before : c.ans = "ok" /\ c.got = code
      BY <2>3
    <3>2. c \in After
      BY <1>1, <3>1 DEF CodeKept, CodeAwaited
    <3> QED BY <3>1, <3>2, <2>3 DEF CodeSomewhere
  <2> QED BY <1>1, <2>1, <2>2, <2>3 DEF CodeKept, CodeSomewhere
<1>5. CodeShown'
  <2>1. Before = {} => After = {}
    BY <1>2
  <2> QED BY <1>1, <2>1 DEF CodeKept, CodeShown
<1> QED BY <1>3, <1>4, <1>5 DEF CodeKept

(* The calls after a form has sent one. *)
LEMMA SentCalls ==
    ASSUME PagesInv, NEW kind \in Pages!Kind, NEW good \in BOOLEAN,
           kind = "reset" => page = "reset",
           UNCHANGED <<issued, minted, cookie, page, view>>,
           calls' = calls \cup {[kind |-> kind, view |-> view, cookie |-> cookie, good |-> good,
                                ans |-> "none", got |-> 0]}
    PROVE  /\ PagesType'
           /\ kind \notin {"register", "rotate"} => Pages!Coded(calls') = Pages!Coded(calls)
           /\ kind \in {"register", "rotate"} =>
                 \E c : /\ Pages!Coded(calls') = Pages!Coded(calls) \cup {c}
                        /\ c.kind = kind /\ c.view = view /\ c.ans = "none"
<1> DEFINE c == [kind |-> kind, view |-> view, cookie |-> cookie, good |-> good,
                 ans |-> "none", got |-> 0]
<1>1. PagesType
  BY DEF PagesInv
<1>2. /\ c \in Pages!Call /\ c.kind = kind /\ c.view = view /\ c.ans = "none"
      /\ calls' = calls \cup {c}
  BY <1>1, PageCalls DEF Pages!Call
<1> HIDE DEF c
<1>3. PagesType'
  BY <1>1, <1>2 DEF PagesType
<1>4. ASSUME kind \notin {"register", "rotate"} PROVE Pages!Coded(calls') = Pages!Coded(calls)
  BY <1>2, <1>4 DEF Pages!Coded
<1>5. ASSUME kind \in {"register", "rotate"} PROVE Pages!Coded(calls') = Pages!Coded(calls) \cup {c}
  BY <1>2, <1>5 DEF Pages!Coded
<1> QED BY <1>2, <1>3, <1>4, <1>5

(* A form sends a call that brings no code. *)
LEMMA FormSends ==
    ASSUME PagesInv, NEW kind \in Pages!Kind \ {"register", "rotate"}, NEW good \in BOOLEAN,
           Pages!Send(kind, good), UNCHANGED <<stage, perils>>, kind = "reset" => page = "reset"
    PROVE  PagesInv'
<1>1. /\ UNCHANGED <<code, issued, minted, cookie, page, view, card, saved>>
      /\ busy \subseteq busy'
  BY DEF Pages!Send, Pages!server, Pages!session
<1>2. PagesType' /\ Pages!Coded(calls') = Pages!Coded(calls)
  BY <1>1, SentCalls DEF Pages!Send
<1> QED BY <1>1, <1>2, CodeUndisturbed

(* A form asks for a code. *)
LEMMA CodeAsked ==
    ASSUME PagesInv, Pages!SubmitRegister \/ \E good \in BOOLEAN : Pages!SubmitRotate(good)
    PROVE  PagesInv'
<1>1. PICK kind \in {"register", "rotate"}, good \in BOOLEAN :
          /\ Pages!Send(kind, good) /\ stage' = stage
          /\ kind = "register" => page = "register" /\ stage = "form" /\ perils' = perils
          /\ kind = "rotate" => /\ page = "editor" /\ stage = "sections"
                                /\ perils' = {} => perils = {} /\ Pages!Coded(calls) = {}
  BY DEF Pages!SubmitRegister, Pages!SubmitRotate, Pages!Sections
<1>2. /\ UNCHANGED <<code, issued, minted, cookie, page, view, card, saved>>
      /\ kind \notin busy /\ busy' = busy \cup {kind} /\ kind \in Pages!Kind
  BY <1>1 DEF Pages!Send, Pages!server, Pages!session, Pages!Kind
<1>3. PagesType'
  BY <1>1, <1>2, SentCalls DEF Pages!Send
<1>4. PICK c : /\ Pages!Coded(calls') = Pages!Coded(calls) \cup {c}
               /\ c.kind = kind /\ c.view = view /\ c.ans = "none"
  BY <1>1, <1>2, SentCalls DEF Pages!Send
<1>5. ASSUME perils' = {} PROVE CodeKept'
  <2>1. CodeKept
    BY <1>1, <1>5 DEF PagesInv
  <2>2. Pages!Coded(calls) = {}
    BY <1>1, <1>2, <1>5, <2>1 DEF CodeKept, CodeAwaited, Pages!Coded
  <2>3. card = 0 /\ code \in {0, saved, card}
    BY <1>1, <2>1, <2>2 DEF CodeKept, CodeShown, CodeSomewhere
  <2>4. Pages!Coded(calls') = {c}
    BY <1>4, <2>2
  <2>5. CodeAwaited'
    BY <1>1, <1>2, <1>4, <2>4 DEF CodeAwaited
  <2>6. CodeSomewhere' /\ CodeShown'
    BY <1>1, <1>2, <2>3 DEF CodeSomewhere, CodeShown
  <2> QED BY <2>5, <2>6 DEF CodeKept
<1> QED BY <1>3, <1>5 DEF PagesInv

(* The card is confirmed: the register page signs in, the modal goes back   *)
(* to its sections, which it also does without a card.                      *)
LEMMA CardConfirmed ==
    ASSUME PagesInv, Pages!Continue \/ Pages!Dismiss
    PROVE  PagesInv'
<1>1. CASE Pages!Continue
  <2>1. /\ UNCHANGED <<code, issued, minted, cookie, page, view, card, busy, perils>>
        /\ page = "register" /\ stage = "handoff" /\ saved' = card /\ stage' = "logging-in"
    BY <1>1 DEF Pages!Continue, Pages!server, Pages!session
  <2>2. PagesType' /\ Pages!Coded(calls') = Pages!Coded(calls)
    BY <1>1, <2>1, SentCalls DEF Pages!Continue, Pages!Kind
  <2>3. ASSUME perils = {} PROVE CodeKept'
    <3>1. Pages!Coded(calls) = {} /\ code \in {0, card}
      BY <2>1, <2>3 DEF PagesInv, CodeKept, CodeShown
    <3> QED BY <2>1, <2>2, <3>1 DEF CodeKept, CodeAwaited, CodeSomewhere, CodeShown
  <2> QED BY <2>1, <2>2, <2>3 DEF PagesInv
<1>2. CASE Pages!Dismiss
  <2>1. /\ UNCHANGED <<code, issued, minted, cookie, page, view, calls, perils>>
        /\ page = "editor" /\ stage' = "sections" /\ card' = 0
        /\ \/ stage = "code" /\ saved' = card
           \/ stage = "delete" /\ saved' = saved
    BY <1>2 DEF Pages!Dismiss, Pages!server, Pages!session
  <2>2. PagesType'
    BY <2>1 DEF PagesInv, PagesType
  <2>3. ASSUME perils = {} PROVE CodeKept'
    <3>1. CodeKept
      BY <2>3 DEF PagesInv
    <3>2. CodeAwaited'
      BY <2>1, <3>1 DEF CodeKept, CodeAwaited
    <3>3. CodeSomewhere'
      BY <2>1, <3>1 DEF CodeKept, CodeSomewhere, CodeShown
    <3>4. CodeShown'
      BY <2>1 DEF CodeShown
    <3> QED BY <3>2, <3>3, <3>4 DEF CodeKept
  <2> QED BY <2>1, <2>2, <2>3 DEF PagesInv
<1> QED BY <1>1, <1>2

(* The calls after one was answered. *)
LEMMA CallAnswered ==
    ASSUME PagesType, NEW c \in calls, NEW ans \in {"ok", "wrong", "401", "failed"}, NEW got \in Nat,
           Pages!Answered(c, ans, got), UNCHANGED <<page, view, cookie>>,
           issued' \in Nat, minted' \in Nat
    PROVE  /\ PagesType'
           /\ c \notin Pages!Coded(calls) => Pages!Coded(calls') = Pages!Coded(calls)
           /\ Pages!Coded(calls) = {c} =>
                 \E d : /\ Pages!Coded(calls') = {d} /\ d.view = c.view /\ d.kind = c.kind
                        /\ d.ans = ans /\ d.got = got
<1> DEFINE d == [c EXCEPT !.ans = ans, !.got = got]
<1>0. c \in Pages!Call
  BY DEF PagesType
<1>1. /\ d \in Pages!Call /\ d.view = c.view /\ d.kind = c.kind /\ d.ans = ans /\ d.got = got
      /\ calls' = (calls \ {c}) \cup {d}
  BY <1>0 DEF Pages!Call, Pages!Answered
<1> HIDE DEF d
<1>2. PagesType'
  BY <1>1, PageCalls DEF PagesType
<1>3. ASSUME c \notin Pages!Coded(calls) PROVE Pages!Coded(calls') = Pages!Coded(calls)
  BY <1>1, <1>3 DEF Pages!Coded
<1>4. ASSUME Pages!Coded(calls) = {c} PROVE Pages!Coded(calls') = {d}
  <2>1. c.kind \in {"register", "rotate"} /\ \A e \in calls \ {c} : e \notin Pages!Coded(calls)
    BY <1>4 DEF Pages!Coded
  <2> QED BY <1>1, <2>1 DEF Pages!Coded
<1> QED BY <1>1, <1>2, <1>3, <1>4

(* The server issues a code. *)
LEMMA CodeIssued ==
    ASSUME PagesInv, NEW c \in calls, c.kind \in {"register", "rotate"}, c.ans = "none",
           issued' = issued + 1, code' = issued', Pages!Answered(c, "ok", issued'),
           UNCHANGED <<minted, cookie, page, view, stage, card, busy, saved, perils>>
    PROVE  PagesInv'
<1>1. PagesType /\ issued' \in Nat /\ minted' \in Nat
  BY DEF PagesInv, PagesType
<1>2. PagesType'
  BY <1>1, CallAnswered
<1>3. ASSUME perils = {} PROVE CodeKept'
  <2>1. CodeKept /\ c \in Pages!Coded(calls)
    BY <1>3 DEF PagesInv, Pages!Coded
  <2>2. /\ Pages!Coded(calls) = {c} /\ c.view = view
        /\ c.kind = "register" => page = "register" /\ stage = "form" /\ "register" \in busy
        /\ c.kind = "rotate" => page = "editor"
    BY <2>1 DEF CodeKept, CodeAwaited
  <2>3. card = 0 /\ stage \notin {"handoff", "code"}
    BY <2>1, <2>2 DEF CodeKept, CodeShown
  <2>4. PICK d : /\ Pages!Coded(calls') = {d} /\ d.view = c.view /\ d.kind = c.kind
                 /\ d.ans = "ok" /\ d.got = issued'
    BY <1>1, <2>2, CallAnswered
  <2> QED BY <2>2, <2>3, <2>4 DEF CodeKept, CodeAwaited, CodeSomewhere, CodeShown
<1> QED BY <1>2, <1>3 DEF PagesInv

(* Any other handling of a call, and its loss. *)
LEMMA CallServed ==
    ASSUME PagesInv, NEW c \in calls, Pages!Serve(c) \/ Pages!Lose(c)
    PROVE  PagesInv'
<1>1. PagesType /\ UNCHANGED <<cookie, page, view, stage, card, busy, saved>>
  BY DEF PagesInv, Pages!Serve, Pages!Lose, Pages!session, Pages!screen
<1>2. Pages!Outcome(c) \in {"ok", "wrong", "401", "failed"}
  BY DEF Pages!Outcome
<1>3. CASE /\ c.ans = "none" /\ c.kind \in {"register", "rotate"} /\ issued' = issued + 1
           /\ code' = issued' /\ Pages!Answered(c, "ok", issued')
           /\ UNCHANGED <<minted, perils>>
  BY <1>1, <1>3, CodeIssued
<1>4. ASSUME NEW ans \in {"ok", "wrong", "401", "failed"}, NEW got \in Nat, Pages!Answered(c, ans, got),
             issued' \in Nat, minted' \in Nat, code' \in {0, code},
             perils' = {} => perils = {} /\ (c.ans = "ok" => c.kind \notin {"register", "rotate"}),
             ans = "ok" => c.kind \notin {"register", "rotate"}
      PROVE  PagesInv'
  <2>1. /\ PagesType'
        /\ c \notin Pages!Coded(calls) => Pages!Coded(calls') = Pages!Coded(calls)
        /\ Pages!Coded(calls) = {c} =>
              \E d : /\ Pages!Coded(calls') = {d} /\ d.view = c.view /\ d.kind = c.kind
                     /\ d.ans = ans /\ d.got = got
    BY <1>1, <1>4, CallAnswered
  <2>2. ASSUME perils' = {}, c \in Pages!Coded(calls)
        PROVE  \E b, d : /\ Pages!Coded(calls) = {b} /\ Pages!Coded(calls') = {d}
                         /\ d.view = b.view /\ d.kind = b.kind /\ b.ans # "ok" /\ d.ans # "ok"
    <3>1. Pages!Coded(calls) = {c} /\ c.kind \in {"register", "rotate"}
      BY <1>4, <2>2 DEF PagesInv, CodeKept, CodeAwaited, Pages!Coded
    <3> QED BY <1>4, <2>1, <2>2, <3>1
  <2> QED BY <1>1, <1>4, <2>1, <2>2, CodeUndisturbed
<1>5. CASE Pages!Serve(c)
  <2>1. c.ans = "none" /\ perils' = perils
    BY <1>5 DEF Pages!Serve
  <2>2. CASE /\ Pages!Outcome(c) # "ok" \/ c.kind \in {"me", "name"}
             /\ Pages!Answered(c, Pages!Outcome(c), 0) /\ UNCHANGED Pages!server
    BY <1>1, <1>2, <1>4, <2>1, <2>2 DEF PagesType, Pages!server
  <2>3. CASE /\ c.kind \in {"register", "rotate"}
             /\ issued' = issued + 1 /\ code' = issued' /\ Pages!Answered(c, "ok", issued')
             /\ UNCHANGED <<live, minted>>
    BY <1>3, <2>1, <2>3
  <2>4. CASE /\ c.kind \in {"login", "change"}
             /\ minted' = minted + 1 /\ Pages!Answered(c, "ok", minted') /\ UNCHANGED <<code, issued>>
    <3>1. minted' \in Nat
      BY <1>1, <2>4 DEF PagesType
    <3> QED BY <1>1, <1>4, <2>1, <2>4, <3>1 DEF PagesType
  <2>5. CASE /\ c.kind \in {"reset", "leave", "delete", "logout"}
             /\ code' = (IF c.kind = "delete" THEN 0 ELSE code)
             /\ Pages!Answered(c, "ok", 0) /\ UNCHANGED <<issued, minted>>
    BY <1>1, <1>4, <2>1, <2>5 DEF PagesType
  <2> QED BY <1>5, <2>2, <2>3, <2>4, <2>5 DEF Pages!Serve
<1>6. CASE Pages!Lose(c)
  <2>1. /\ Pages!Answered(c, "failed", 0) /\ UNCHANGED <<code, issued, minted>>
        /\ perils' = perils \cup {p \in {"lost"} : c.ans = "ok" /\ c.kind \in {"register", "rotate"}}
    BY <1>6 DEF Pages!Lose, Pages!server
  <2>2. perils' = {} => perils = {} /\ (c.ans = "ok" => c.kind \notin {"register", "rotate"})
    BY <2>1
  <2> QED BY <1>1, <1>4, <2>1, <2>2 DEF PagesType
<1> QED BY <1>5, <1>6

(* An answer takes the user to another page, or finds nothing to leave. *)
LEMMA UserSent ==
    ASSUME PagesInv, NEW c \in calls, NEW p, NEW stay \in BOOLEAN, Pages!LeaveFor(p, stay, c),
           Pages!Rest(c), UNCHANGED <<code, issued, minted, saved>>, cookie' \in Nat,
           c \in Pages!Coded(calls) => c.ans # "ok"
    PROVE  PagesInv'
<1>1. PagesType /\ calls' = calls \ {c} /\ calls' \in SUBSET calls
  BY DEF PagesInv, Pages!Rest
<1>2. /\ \A b \in calls : b.view \in Nat /\ b.view <= view
      /\ view \in Nat /\ calls \subseteq Pages!Call
  BY <1>1 DEF PagesType, Pages!Call
<1>3. CASE stay
  <2>1. UNCHANGED <<page, view, stage, card, busy, perils>>
    BY <1>3 DEF Pages!LeaveFor, Pages!screen
  <2>2. PagesType'
    BY <1>1, <2>1 DEF PagesType
  <2>3. CASE c \notin Pages!Coded(calls)
    <3>1. Pages!Coded(calls') = Pages!Coded(calls)
      BY <1>1, <2>3 DEF Pages!Coded
    <3> QED BY <2>1, <2>2, <3>1, CodeUndisturbed
  <2>4. CASE c \in Pages!Coded(calls)
    <3>1. ASSUME perils = {}
          PROVE  Pages!Coded(calls') = {} /\ \A b \in Pages!Coded(calls) : b.ans # "ok"
      <4>1. Pages!Coded(calls) = {c}
        BY <2>4, <3>1 DEF PagesInv, CodeKept, CodeAwaited
      <4> QED BY <1>1, <2>4, <4>1 DEF Pages!Coded
    <3> QED BY <2>1, <2>2, <3>1, CodeUndisturbed
  <2> QED BY <2>3, <2>4
<1>4. CASE ~stay
  <2>1. Pages!Mount(p) /\ perils' = perils \cup {q \in {"ended"} : Pages!AtStake(calls \ {c})}
    BY <1>4 DEF Pages!LeaveFor
  <2>2. ASSUME perils' = {}
        PROVE  /\ perils = {} /\ Pages!Coded(calls') = {} /\ card \in {0, saved}
               /\ code \in {0, saved, card}
    <3>1. perils = {} /\ ~Pages!AtStake(calls \ {c})
      BY <2>1, <2>2
    <3>2. Pages!Coded(calls') = {} /\ card \in {0, saved}
      BY <1>1, <3>1, Unstaked
    <3>3. \A b \in Pages!Coded(calls) : b = c
      BY <1>1, <3>2 DEF Pages!Coded
    <3>4. code \in {0, saved, card}
      BY <3>1, <3>3 DEF PagesInv, CodeKept, CodeSomewhere
    <3> QED BY <3>1, <3>2, <3>4
  <2> QED BY <1>1, <1>2, <2>1, <2>2, PageMounts
<1> QED BY <1>3, <1>4

(* An answer is heard. *)
LEMMA AnswerHeard ==
    ASSUME PagesInv, NEW c \in calls, Pages!Answer(c)
    PROVE  PagesInv'
<1>1. /\ PagesType /\ calls' = calls \ {c} /\ UNCHANGED <<code, issued, minted, saved>>
      /\ cookie \in Nat /\ c.got \in Nat /\ c.ans # "none"
  <2>1. PagesType
    BY DEF PagesInv
  <2>2. cookie \in Nat /\ c.got \in Nat
    BY <2>1 DEF PagesType, Pages!Call
  <2> QED BY <2>1, <2>2 DEF Pages!Answer, Pages!Rest, Pages!server
<1>2. /\ view \in Nat /\ calls \subseteq Pages!Call
      /\ \A b \in calls : /\ b.view \in Nat /\ b.view <= view
                          /\ b.kind = "reset" /\ b.view = view => page = "reset"
  BY <1>1 DEF PagesType, Pages!Call
<1>3. c \in Pages!Coded(calls) <=> c.kind \in {"register", "rotate"}
  BY DEF Pages!Coded
<1>4. Pages!Coded(calls') = Pages!Coded(calls) \ {c}
  BY <1>1 DEF Pages!Coded
<1>5. CASE Pages!Expired(c)
  <2>1. /\ Pages!LeaveFor("login", page \notin Pages!Private, c) /\ cookie' = cookie
        /\ c.ans # "ok" /\ (page \notin Pages!Private) \in BOOLEAN
    BY <1>5 DEF Pages!Expired, Pages!EndsSession
  <2> QED BY <1>1, <2>1, UserSent DEF Pages!Rest
<1>6. CASE Pages!GoesLoggedOut(c)
  <2>1. /\ Pages!LeaveFor("login", page = "login", c) /\ cookie' \in {0, cookie}
        /\ c.kind \in {"logout", "leave", "delete"} /\ (page = "login") \in BOOLEAN
    BY <1>6 DEF Pages!GoesLoggedOut
  <2>2. cookie' \in Nat
    BY <1>1, <2>1
  <2> QED BY <1>1, <1>3, <2>1, <2>2, UserSent DEF Pages!Rest
<1>7. CASE Pages!SignsIn(c)
  <2>1. /\ Pages!LeaveFor("home", page \notin {"register", "login"}, c) /\ cookie' \in {c.got, cookie}
        /\ c.kind \in {"login", "me"} /\ (page \notin {"register", "login"}) \in BOOLEAN
    BY <1>7 DEF Pages!SignsIn
  <2>2. cookie' \in Nat
    BY <1>1, <2>1
  <2> QED BY <1>1, <1>3, <2>1, <2>2, UserSent DEF Pages!Rest
<1>8. CASE Pages!BootFails(c)
  <2>1. /\ Pages!LeaveFor("login", page \notin Pages!Private, c) /\ cookie' = cookie
        /\ c.kind = "me" /\ (page \notin Pages!Private) \in BOOLEAN
    BY <1>8 DEF Pages!BootFails
  <2> QED BY <1>1, <1>3, <2>1, UserSent DEF Pages!Rest
<1>9. CASE Pages!CodeComes(c)
  <2>1. /\ c.view = view /\ c.ans = "ok" /\ c.kind \in {"register", "rotate"} /\ card' = c.got
        /\ stage' = (IF c.kind = "register" THEN "handoff" ELSE "code")
        /\ UNCHANGED <<cookie, page, view, perils>>
    BY <1>9 DEF Pages!CodeComes, Pages!Here, Pages!Taken, Pages!session
  <2>2. PagesType'
    BY <1>1, <2>1 DEF PagesType
  <2>3. ASSUME perils = {} PROVE CodeKept'
    <3>1. /\ Pages!Coded(calls) = {c} /\ code \in {0, c.got}
          /\ c.kind = "register" => page = "register"
          /\ c.kind = "rotate" => page = "editor"
      BY <1>3, <2>1, <2>3 DEF PagesInv, CodeKept, CodeAwaited
    <3>2. Pages!Coded(calls') = {}
      BY <1>4, <3>1
    <3> QED BY <1>1, <2>1, <3>1, <3>2 DEF CodeKept, CodeAwaited, CodeSomewhere, CodeShown
  <2> QED BY <2>1, <2>2, <2>3 DEF PagesInv
<1>10. CASE Pages!Reports(c)
  <2>1. /\ cookie' \in {c.got, cookie}
        /\ ~(c.view = view /\ c.ans = "ok" /\ c.kind \in {"register", "rotate"})
    BY <1>10 DEF Pages!Reports, Pages!Here
  <2>2. cookie' \in Nat
    BY <1>1, <2>1
  <2>3. CASE Pages!Here(c) /\ c.kind = "reset" /\ c.ans = "ok"
    <3>1. PICK p : Pages!Mount(p)
      BY <1>10, <2>3 DEF Pages!Reports
    <3>2. perils' = perils /\ page = "reset"
      BY <1>10, <1>2, <2>3 DEF Pages!Reports, Pages!Here
    <3>3. ASSUME perils = {}
          PROVE  Pages!Coded(calls') = {} /\ card \in {0, saved} /\ code \in {0, saved, card}
      <4>1. Pages!Coded(calls) = {}
        BY <3>2, <3>3 DEF PagesInv, CodeKept, CodeAwaited, Pages!Coded
      <4> QED BY <1>4, <3>2, <3>3, <4>1 DEF PagesInv, CodeKept, CodeSomewhere, CodeShown
    <3> QED BY <1>1, <1>2, <2>2, <3>1, <3>2, <3>3, PageMounts
  <2>4. CASE ~(Pages!Here(c) /\ c.kind = "reset" /\ c.ans = "ok")
    <3>1. /\ UNCHANGED <<page, view, card, perils>>
          /\ stage' = stage \/ (stage = "logging-in" /\ stage' = "login-failed")
          /\ busy \ {c.kind} \subseteq busy'
      BY <1>10, <2>4 DEF Pages!Reports
    <3>2. PagesType'
      BY <1>1, <2>2, <3>1 DEF PagesType
    <3>3. CASE c.kind \notin {"register", "rotate"}
      BY <1>1, <1>3, <1>4, <3>1, <3>2, <3>3, CodeUndisturbed
    <3>4. CASE c.kind \in {"register", "rotate"}
      <4>1. ASSUME perils = {}
            PROVE  Pages!Coded(calls') = {} /\ \A b \in Pages!Coded(calls) : b.ans # "ok"
        <5>1. c.view = view /\ Pages!Coded(calls) = {c}
          BY <1>3, <3>4, <4>1 DEF PagesInv, CodeKept, CodeAwaited
        <5> QED BY <1>4, <2>1, <3>4, <5>1
      <4> QED BY <1>1, <3>1, <3>2, <4>1, CodeUndisturbed
    <3> QED BY <3>3, <3>4
  <2> QED BY <2>3, <2>4
<1> QED BY <1>5, <1>6, <1>7, <1>8, <1>9, <1>10 DEF Pages!Answer

(* The user goes to another page, or reloads this one. *)
LEMMA UserLeaves ==
    ASSUME PagesInv, Pages!Reload \/ \E p \in Pages!Page : Pages!Go(p)
    PROVE  PagesInv'
<1>1. /\ view \in Nat /\ cookie \in Nat /\ calls \subseteq Pages!Call
      /\ \A b \in calls : b.view \in Nat /\ b.view <= view
  BY DEF PagesInv, PagesType, Pages!Call
<1>2. ASSUME perils = {}, ~Pages!AtStake(calls)
      PROVE  Pages!Coded(calls) = {} /\ card \in {0, saved} /\ code \in {0, saved, card}
  <2>1. Pages!Coded(calls) = {} /\ card \in {0, saved}
    BY <1>2, Unstaked
  <2> QED BY <1>2, <2>1 DEF PagesInv, CodeKept, CodeSomewhere
<1>3. CASE Pages!Reload
  <2> DEFINE b == Pages!Boot(view + 1, cookie)
  <2>1. /\ Pages!Mount(page) /\ view' = view + 1 /\ calls' = {Pages!Boot(view', cookie)}
        /\ UNCHANGED <<cookie, code, issued, minted, saved>>
        /\ perils' = {} => perils = {} /\ ~Pages!AtStake(calls)
    BY <1>3 DEF Pages!Reload, Pages!Mount, Pages!server
  <2>2. calls' = {b} /\ b \in Pages!Call /\ b.view = view + 1 /\ b.kind = "me"
    BY <1>1, <2>1 DEF Pages!Boot, Pages!Call, Pages!Kind
  <2> HIDE DEF b
  <2>3. Pages!Coded(calls') = {}
    BY <2>2 DEF Pages!Coded
  <2>4. cookie' \in Nat
    BY <1>1, <2>1
  <2> QED BY <1>2, <2>1, <2>2, <2>3, <2>4, PageMounts
<1>4. ASSUME NEW p \in Pages!Page, Pages!Go(p) PROVE PagesInv'
  <2>1. /\ Pages!Mount(p) /\ UNCHANGED <<cookie, calls, code, issued, minted, saved>>
        /\ perils' = {} => perils = {} /\ ~Pages!AtStake(calls)
    BY <1>4 DEF Pages!Go, Pages!server, Pages!session
  <2> QED BY <1>1, <1>2, <2>1, PageMounts
<1> QED BY <1>3, <1>4

(* Every step of the pages. *)
LEMMA PagesStep == ASSUME PagesInv, Pages!Next PROVE PagesInv'
<1>1. \A good \in BOOLEAN : Pages!SubmitLogin(good) => PagesInv'
  BY FormSends DEF Pages!SubmitLogin, Pages!Kind
<1>2. ASSUME NEW good \in BOOLEAN, Pages!SubmitReset(good) PROVE PagesInv'
  <2>1. PICK g \in BOOLEAN : Pages!Send("reset", g)
    BY <1>2 DEF Pages!SubmitReset
  <2> QED BY <1>2, <2>1, FormSends DEF Pages!SubmitReset, Pages!Kind
<1>3. \A good \in BOOLEAN : Pages!SubmitChange(good) => PagesInv'
  BY FormSends DEF Pages!SubmitChange, Pages!Kind
<1>4. \A good \in BOOLEAN : Pages!SubmitDelete(good) => PagesInv'
  BY FormSends DEF Pages!SubmitDelete, Pages!Kind
<1>5. Pages!SubmitName \/ Pages!SignOutEverywhere \/ Pages!SignOut => PagesInv'
  BY FormSends DEF Pages!SubmitName, Pages!SignOutEverywhere, Pages!SignOut, Pages!Kind
<1>6. CASE Pages!Tick \/ Pages!OpenModal \/ Pages!CloseModal \/ Pages!OpenDelete
  <2>1. /\ UNCHANGED <<code, issued, minted, cookie, page, view, card, calls, saved, perils>>
        /\ stage' = stage \/ (stage = "sections" /\ stage' = "delete")
        /\ busy' = busy \/ page = "editor"
    BY <1>6 DEF Pages!Tick, Pages!OpenModal, Pages!CloseModal, Pages!Closes, Pages!OpenDelete,
                Pages!Sections, Pages!server, Pages!session
  <2>2. PagesType'
    BY <2>1 DEF PagesInv, PagesType
  <2> QED BY <2>1, <2>2, CodeUndisturbed
<1>7. CASE Pages!SubmitRegister \/ \E good \in BOOLEAN : Pages!SubmitRotate(good)
  BY <1>7, CodeAsked
<1>8. CASE Pages!Continue \/ Pages!Dismiss
  BY <1>8, CardConfirmed
<1>9. \A c \in calls : Pages!Serve(c) \/ Pages!Lose(c) \/ Pages!Answer(c) => PagesInv'
  BY CallServed, AnswerHeard
<1>10. CASE Pages!Reload \/ \E p \in Pages!Page : Pages!Go(p)
  BY <1>10, UserLeaves
<1> QED BY <1>1, <1>2, <1>3, <1>4, <1>5, <1>6, <1>7, <1>8, <1>9, <1>10 DEF Pages!Next

LEMMA PagesInvariant == MCSpec => []PagesPart
<1>1. MCInit => PagesPart
  <2> SUFFICES ASSUME MCInit, part = "pages" PROVE PagesInv
    BY DEF PagesPart
  <2> DEFINE b == Pages!Boot(1, cookie)
  <2>1. Pages!Init
    BY DEF MCInit
  <2>2. /\ code \in {0, 1} /\ minted \in {0, 1} /\ issued = code /\ saved = code /\ cookie = minted
        /\ view = 1 /\ card = 0 /\ stage \in {"sections", "form"} /\ calls = {b}
    BY <2>1 DEF Pages!Init, Pages!FirstStage
  <2>3. b \in Pages!Call /\ b.kind = "me" /\ b.view = 1
    BY <2>2 DEF Pages!Boot, Pages!Call, Pages!Kind
  <2> HIDE DEF b
  <2>4. Pages!Coded(calls) = {}
    BY <2>2, <2>3 DEF Pages!Coded
  <2>5. PagesType
    BY <2>2, <2>3 DEF PagesType
  <2> QED BY <2>2, <2>4, <2>5 DEF PagesInv, CodeKept, CodeAwaited, CodeSomewhere, CodeShown
<1>2. PagesPart /\ [MCNext]_MCVars => PagesPart'
  <2> SUFFICES ASSUME PagesPart, [MCNext]_MCVars, part = "pages" PROVE PagesInv'
    BY DEF MCNext, MCVars, PagesPart
  <2>1. CASE Pages!Next
    BY <2>1, PagesStep DEF PagesPart
  <2>2. CASE UNCHANGED MCVars
    BY <2>2 DEF MCVars, PagesVars, PagesPart, PagesInv, PagesType, CodeKept, CodeAwaited, CodeSomewhere,
                CodeShown, Pages!Coded
  <2> QED BY <2>1, <2>2 DEF MCNext
<1> QED BY <1>1, <1>2, PTL DEF MCSpec

(* With no code on its way the account's recovery code is stored by the     *)
(* user or shown on the page: through every order of submitting, answering, *)
(* closing, confirming and signing out, unless the user left, the session   *)
(* ended, the answer was lost or two rotations overlapped.                  *)
THEOREM CodeDelivered == MCSpec => []CodeReachesUser
<1>1. PagesPart => CodeReachesUser
  BY DEF PagesPart, PagesInv, CodeKept, CodeSomewhere, CodeReachesUser, Pages!CodeReachesUser
<1> QED BY PagesInvariant, <1>1, PTL

=============================================================================
