--------------------------- MODULE MCBackend_proofs ---------------------------
(***************************************************************************)
(* Proofs about the parts that run beside the drafts' requests: each part  *)
(* has an inductive invariant of its own, which holds of every behaviour   *)
(* that is of that part; the other parts' steps leave it alone.            *)
(***************************************************************************)
EXTENDS MCBackend, DraftRepo_proofs, SequenceTheorems, WellFoundedInduction

-----------------------------------------------------------------------------
(* The models' cache.  What a request asks for is the row's key or one that *)
(* was being asked for as the row changed; what is cached is that of the    *)
(* row, or of such a key, or is no younger than the row.                    *)
VeniceType ==
    /\ top \in Nat /\ choice \in Nat /\ cur \in Nat /\ rows \in Nat /\ ops \in Nat
    /\ \A m \in meta : m.at \in Nat /\ m.at <= top /\ m.key \in Nat
    /\ calls \subseteq [n : Nat, pc : {"begun", "asking", "gated"}, key : Nat]
AskedIsCurrent == \A r \in calls : r.pc = "asking" => r.key = cur \/ r.key \in perils
CachedIsCurrent == \A m \in meta : m.key = cur \/ m.key \in perils \/ m.at <= choice
VeniceInv == VeniceType /\ AskedIsCurrent /\ CachedIsCurrent

(* Every step of the models' cache keeps its invariant.                     *)
LEMMA VeniceStep ==
    ASSUME VeniceInv, Venice!Next
    PROVE  VeniceInv'
<1> USE DEF VeniceInv, VeniceType
<1>1. CASE Venice!Tick
  BY <1>1 DEF Venice!Tick, AskedIsCurrent, CachedIsCurrent
<1>2. ASSUME NEW k \in Nat, Venice!Rekey(k), rows' \in Nat PROVE VeniceInv'
  <2>1. CachedIsCurrent'
    BY <1>2 DEF Venice!Rekey, CachedIsCurrent
  <2>2. AskedIsCurrent'
    BY <1>2 DEF Venice!Rekey, AskedIsCurrent
  <2> QED BY <1>2, <2>1, <2>2 DEF Venice!Rekey
<1>3. CASE Venice!Begin
  BY <1>3 DEF Venice!Begin, AskedIsCurrent, CachedIsCurrent
<1>4. ASSUME NEW r \in calls, Venice!Hit(r) PROVE VeniceInv'
  BY <1>4 DEF Venice!Hit, Venice!Becomes, AskedIsCurrent, CachedIsCurrent
<1>5. ASSUME NEW r \in calls, Venice!Miss(r) PROVE VeniceInv'
  BY <1>5 DEF Venice!Miss, Venice!Becomes, AskedIsCurrent, CachedIsCurrent
<1>6. ASSUME NEW r \in calls, Venice!Listed(r) PROVE VeniceInv'
  <2>1. r.key = cur \/ r.key \in perils
    BY <1>6 DEF Venice!Listed, AskedIsCurrent
  <2> QED BY <1>6, <2>1 DEF Venice!Listed, Venice!Becomes, Venice!Entry, AskedIsCurrent, CachedIsCurrent
<1>7. ASSUME NEW r \in calls, Venice!Fails(r) PROVE VeniceInv'
  BY <1>7 DEF Venice!Fails, Venice!Becomes, AskedIsCurrent, CachedIsCurrent
<1>8. CASE Venice!Store
  BY <1>2, <1>8 DEF Venice!Store
<1>9. CASE Venice!Remove
  BY <1>2, <1>9 DEF Venice!Remove
<1> QED
  BY <1>1, <1>3, <1>4, <1>5, <1>6, <1>7, <1>8, <1>9 DEF Venice!Next, Venice!Call

(* A request that passes the gate does so with a list that is the row's     *)
(* key's, or is younger than the TTL and older than the row's last change.  *)
LEMMA VeniceGates ==
    ASSUME VeniceInv, Venice!Next
    PROVE  Venice!GatesByKey
<1> USE DEF VeniceInv, VeniceType
<1> SUFFICES ASSUME NEW q \in calls' \ calls, q.pc = "gated", q.key # cur, q.key \notin perils
             PROVE  top - choice < TTL
  BY DEF Venice!GatesByKey
<1>1. CASE Venice!Tick \/ Venice!Store \/ Venice!Remove \/ Venice!Begin
  BY <1>1 DEF Venice!Tick, Venice!Store, Venice!Remove, Venice!Rekey, Venice!Begin
<1>2. ASSUME NEW r \in calls, Venice!Hit(r) PROVE top - choice < TTL
  <2>1. PICK m \in meta : Venice!Fresh(m) /\ q = [r EXCEPT !.pc = "gated", !.key = m.key]
    BY <1>2 DEF Venice!Hit, Venice!Becomes
  <2>2. m.at <= choice
    BY <2>1 DEF CachedIsCurrent
  <2> QED BY <2>1, <2>2, PartsAssumption DEF Venice!Fresh, Venice!VeniceModelsAssumption
<1>3. ASSUME NEW r \in calls, Venice!Miss(r) PROVE FALSE
  BY <1>3 DEF Venice!Miss, Venice!Becomes
<1>4. ASSUME NEW r \in calls, Venice!Listed(r) PROVE FALSE
  BY <1>4 DEF Venice!Listed, Venice!Becomes, AskedIsCurrent
<1>5. ASSUME NEW r \in calls, Venice!Fails(r) PROVE FALSE
  BY <1>5 DEF Venice!Fails, Venice!Becomes
<1> QED
  BY <1>1, <1>2, <1>3, <1>4, <1>5 DEF Venice!Next, Venice!Call

VenicePart == part = "venice" => VeniceInv

(* However keys are stored and removed while requests are gated, a request  *)
(* passes the gate with the list of the key in the row, but for a TTL after *)
(* the row was written or when the list was being fetched then.             *)
THEOREM GateCorrect == MCSpec => GateFollowsKey
<1>1. MCInit => VenicePart
  BY DEF MCInit, VenicePart, VeniceInv, VeniceType, Venice!Init, AskedIsCurrent, CachedIsCurrent
<1>2. VenicePart /\ [MCNext]_MCVars => VenicePart'
  <2> SUFFICES ASSUME VenicePart, [MCNext]_MCVars, part = "venice" PROVE VeniceInv'
    BY DEF MCNext, MCVars, VenicePart
  <2>1. CASE Venice!Next
    BY <2>1, VeniceStep DEF VenicePart
  <2>2. CASE UNCHANGED MCVars
    BY <2>2 DEF MCVars, PlacesVars, VenicePart, VeniceInv, VeniceType, AskedIsCurrent, CachedIsCurrent
  <2> QED BY <2>1, <2>2 DEF MCNext
<1>3. VenicePart /\ [MCNext]_MCVars => [part = "venice" => Venice!GatesByKey]_MCVars
  BY VeniceGates DEF MCNext, VenicePart
<1> QED BY <1>1, <1>2, <1>3, PTL DEF MCSpec, GateFollowsKey

-----------------------------------------------------------------------------
(* The names.  As long as no danger was met, what is under way for a row is *)
(* its user's decision, and what is not on screen yet is under way.  An     *)
(* untouched title is the one shown, or the decision that is under way.     *)
NamesType ==
    /\ story \in {"title", "label", "session"}
    /\ rows \in [Titled -> Name] /\ meta \in [Titled -> Name] /\ choice \in [Titled -> Name]
    /\ act \subseteq [Titled -> Name]
    /\ sel \subseteq [row : Titled, text : Name, touched : BOOLEAN, focus : BOOLEAN]
    /\ calls \subseteq [id : Nat, row : Titled, name : Name, ans : {"none", "ok", "failed"}]
Told(r) == \E c \in calls : c.row = r /\ c.ans = "ok"
Asked(r) == \E c \in calls : c.row = r /\ c.ans = "none"
FirstTurns ==
    /\ \A r \in top \ gone : ~Names!Renaming(r)
    /\ story # "session" => top = {}
CallsAreDecisions ==
    \A c \in calls : /\ c.ans # "failed" /\ c.name = choice[c.row]
                     /\ c.ans = "ok" => rows[c.row] = choice[c.row]
DecisionsCome == \A r \in Titled : rows[r] = choice[r] \/ Asked(r)
Brings(list) == \A r \in Titled : list[r] = rows[r] \/ Told(r)
NamesCome == IF story = "title" \/ act = {} THEN Brings(meta) ELSE \A g \in act : Brings(g)
TitleFollows ==
    story = "title" => \A i \in sel :
        IF i.touched THEN i.focus
        ELSE i.text = meta[i.row] \/ (i.text = choice[i.row] /\ Names!Renaming(i.row))
OthersFocused == story # "title" => \A i \in sel : i.focus
AsDecided == FirstTurns /\ CallsAreDecisions /\ DecisionsCome /\ NamesCome /\ TitleFollows
Unendangered == perils \cap Names!Dangers = {}
NamesInv == NamesType /\ OthersFocused /\ (Unendangered => AsDecided)

(* What is left of a title's input.                                         *)
LEMMA LeftInput ==
    ASSUME NamesType, NEW i \in sel, NEW k \in Names!Left(i)
    PROVE  /\ k \in [row : Titled, text : Name, touched : BOOLEAN, focus : BOOLEAN]
           /\ k.row = i.row /\ k.text = IF i.text = NoName THEN meta[i.row] ELSE i.text
           /\ ~k.touched /\ ~k.focus
<1> DEFINE t == IF i.text = NoName THEN meta[i.row] ELSE i.text
           w == [i EXCEPT !.focus = FALSE, !.touched = FALSE]
<1>1. /\ w \in [row : Titled, text : Name, touched : BOOLEAN, focus : BOOLEAN]
      /\ w.row = i.row /\ ~w.touched /\ ~w.focus
  BY DEF NamesType
<1>2. t \in Name
  BY DEF NamesType
<1>3. k = [w EXCEPT !.text = t]
  BY DEF Names!Left
<1> HIDE DEF w, t
<1>4. /\ k \in [row : Titled, text : Name, touched : BOOLEAN, focus : BOOLEAN]
      /\ k.row = i.row /\ k.text = t /\ ~k.touched /\ ~k.focus
  BY <1>1, <1>2, <1>3
<1> QED BY <1>4 DEF t

(* A title's input after the name shown has changed.                        *)
LEMMA ResyncedInput ==
    ASSUME NamesType, NEW new \in [Titled -> Name], Names!Resyncs(new), NEW k \in sel'
    PROVE  /\ k \in [row : Titled, text : Name, touched : BOOLEAN, focus : BOOLEAN]
           /\ \E i \in sel :
                IF story = "title" /\ meta[i.row] # new[i.row]
                THEN k.row = i.row /\ k.text = new[i.row] /\ ~k.touched /\ k.focus = i.focus
                ELSE k = i
<1>1. PICK i \in sel : k = IF story = "title" /\ meta[i.row] # new[i.row]
                           THEN [i EXCEPT !.text = new[i.row], !.touched = FALSE] ELSE i
  BY DEF Names!Resyncs
<1>2. CASE story = "title" /\ meta[i.row] # new[i.row]
  <2>1. k = [i EXCEPT !.text = new[i.row], !.touched = FALSE]
    BY <1>1, <1>2
  <2>2. k \in [row : Titled, text : Name, touched : BOOLEAN, focus : BOOLEAN]
    BY <2>1 DEF NamesType
  <2>3. k.row = i.row /\ k.text = new[i.row] /\ ~k.touched /\ k.focus = i.focus
    BY <2>1 DEF NamesType
  <2> QED BY <1>2, <2>2, <2>3
<1>3. CASE ~(story = "title" /\ meta[i.row] # new[i.row])
  BY <1>1, <1>3 DEF NamesType
<1> QED BY <1>2, <1>3

(* What is sent when a row is renamed.                                      *)
LEMMA AskedCall ==
    ASSUME NEW r \in Titled, NEW n \in Name, Names!Ask(r, n)
    PROVE  \E k \in [id : Nat, row : Titled, name : Name, ans : {"none", "ok", "failed"}] :
             calls' = calls \cup {k} /\ k.row = r /\ k.name = n /\ k.ans = "none"
<1>1. PICK id \in 1..MaxCalls :
        calls' = calls \cup {[id |-> id, row |-> r, name |-> n, ans |-> "none"]}
  BY DEF Names!Ask
<1> DEFINE k == [id |-> id, row |-> r, name |-> n, ans |-> "none"]
<1>2. /\ k \in [id : Nat, row : Titled, name : Name, ans : {"none", "ok", "failed"}]
      /\ k.row = r /\ k.name = n /\ k.ans = "none"
  BY <1>1
<1>3. calls' = calls \cup {k}
  BY <1>1
<1> HIDE DEF k
<1> QED BY <1>2, <1>3

(* Every step of a renaming keeps its invariant.                            *)
LEMMA NamesStep ==
    ASSUME NamesInv, Names!Next
    PROVE  NamesInv'
<1> USE DEF NamesInv, Names!lists, Names!history
<1>1. ASSUME NEW r \in Titled, Names!Enter(r) PROVE NamesInv'
  <2>0. \A i \in sel' : i \in [row : Titled, text : Name, touched : BOOLEAN, focus : BOOLEAN]
    <3>1. CASE story = "title"
      BY <1>1, <3>1 DEF Names!Enter, NamesType
    <3>2. CASE story # "title"
      <4>1. sel' = Names!Input(r, TRUE)
        BY <1>1, <3>2 DEF Names!Enter
      <4>2. sel' = {[row |-> r, text |-> meta[r], touched |-> FALSE, focus |-> TRUE]}
        BY <4>1 DEF Names!Input
      <4>3. meta[r] \in Name
        BY DEF NamesType
      <4>4. [row |-> r, text |-> meta[r], touched |-> FALSE, focus |-> TRUE]
               \in [row : Titled, text : Name, touched : BOOLEAN, focus : BOOLEAN]
        BY <4>3
      <4> QED BY <4>2, <4>4
    <3> QED BY <3>1, <3>2
  <2>1. NamesType'
    BY <1>1, <2>0 DEF Names!Enter, NamesType
  <2>2. OthersFocused'
    BY <1>1 DEF Names!Enter, Names!Input, NamesType, OthersFocused
  <2>3. Unendangered' => Unendangered
    BY <1>1 DEF Names!Enter, Names!Input, Unendangered, Names!Dangers
  <2>4. ASSUME AsDecided, Unendangered' PROVE AsDecided'
    <3> USE DEF AsDecided, NamesType
    <3>1. FirstTurns'
      BY <1>1, <2>4 DEF Names!Enter, Names!Input, FirstTurns, Names!Renaming, Unendangered, Names!Dangers
    <3>2. CallsAreDecisions'
      BY <1>1, <2>4 DEF Names!Enter, Names!Input, FirstTurns, CallsAreDecisions, Names!Renaming, Unendangered, Names!Dangers
    <3>3. DecisionsCome'
      BY <1>1, <2>4 DEF Names!Enter, Names!Input, CallsAreDecisions, DecisionsCome, Asked, Names!Renaming, Unendangered, Names!Dangers
    <3>4. NamesCome'
      BY <1>1, <2>4 DEF Names!Enter, Names!Input, CallsAreDecisions, NamesCome, Brings, Told, Unendangered, Names!Dangers
    <3>5. TitleFollows'
      BY <1>1, <2>4 DEF Names!Enter, Names!Input, TitleFollows, CallsAreDecisions, Names!Renaming, Unendangered, Names!Dangers
    <3> QED BY <3>1, <3>2, <3>3, <3>4, <3>5
  <2> QED BY <2>1, <2>2, <2>3, <2>4
<1>2. ASSUME NEW r \in Titled, Names!View(r) PROVE NamesInv'
  <2>1. NamesType'
    BY <1>2 DEF Names!View, Names!Input, NamesType
  <2>2. OthersFocused'
    BY <1>2 DEF Names!View, Names!Input, NamesType, OthersFocused
  <2>3. Unendangered' => Unendangered
    BY <1>2 DEF Names!View, Names!Input, Unendangered, Names!Dangers
  <2>4. ASSUME AsDecided, Unendangered' PROVE AsDecided'
    <3> USE DEF AsDecided, NamesType
    <3>1. FirstTurns'
      BY <1>2, <2>4 DEF Names!View, Names!Input, FirstTurns, Names!Renaming, Unendangered, Names!Dangers
    <3>2. CallsAreDecisions'
      BY <1>2, <2>4 DEF Names!View, Names!Input, FirstTurns, CallsAreDecisions, Names!Renaming, Unendangered, Names!Dangers
    <3>3. DecisionsCome'
      BY <1>2, <2>4 DEF Names!View, Names!Input, CallsAreDecisions, DecisionsCome, Asked, Names!Renaming, Unendangered, Names!Dangers
    <3>4. NamesCome'
      BY <1>2, <2>4 DEF Names!View, Names!Input, CallsAreDecisions, NamesCome, Brings, Told, Unendangered, Names!Dangers
    <3>5. TitleFollows'
      BY <1>2, <2>4 DEF Names!View, Names!Input, TitleFollows, CallsAreDecisions, Names!Renaming, Unendangered, Names!Dangers
    <3> QED BY <3>1, <3>2, <3>3, <3>4, <3>5
  <2> QED BY <2>1, <2>2, <2>3, <2>4
<1>3. ASSUME NEW n \in Name, Names!Type(n) PROVE NamesInv'
  <2>1. NamesType'
    BY <1>3 DEF Names!Type, NamesType
  <2>2. OthersFocused'
    BY <1>3 DEF Names!Type, NamesType, OthersFocused
  <2>3. Unendangered' => Unendangered
    BY <1>3 DEF Names!Type, Unendangered, Names!Dangers
  <2>4. ASSUME AsDecided, Unendangered' PROVE AsDecided'
    <3> USE DEF AsDecided, NamesType
    <3>1. FirstTurns'
      BY <1>3, <2>4 DEF Names!Type, FirstTurns, Names!Renaming, Unendangered, Names!Dangers
    <3>2. CallsAreDecisions'
      BY <1>3, <2>4 DEF Names!Type, FirstTurns, CallsAreDecisions, Names!Renaming, Unendangered, Names!Dangers
    <3>3. DecisionsCome'
      BY <1>3, <2>4 DEF Names!Type, CallsAreDecisions, DecisionsCome, Asked, Names!Renaming, Unendangered, Names!Dangers
    <3>4. NamesCome'
      BY <1>3, <2>4 DEF Names!Type, CallsAreDecisions, NamesCome, Brings, Told, Unendangered, Names!Dangers
    <3>5. TitleFollows'
      BY <1>3, <2>4 DEF Names!Type, TitleFollows, CallsAreDecisions, Names!Renaming, Unendangered, Names!Dangers
    <3> QED BY <3>1, <3>2, <3>3, <3>4, <3>5
  <2> QED BY <2>1, <2>2, <2>3, <2>4
<1>4. CASE Names!Commit
  <2>0. PICK i \in sel :
          /\ i.focus /\ sel' = Names!Left(i)
          /\ IF Names!Sent(i) THEN Names!Ask(i.row, i.text) ELSE UNCHANGED calls
          /\ choice' = IF Names!Decides(i) THEN [choice EXCEPT ![i.row] = i.text] ELSE choice
          /\ gone' = IF Names!Decides(i) THEN gone \cup {i.row} ELSE gone
          /\ perils' = perils
                \cup {p \in {"early"} : Names!Decides(i) /\ (Names!Renaming(i.row) \/ act # {})}
                \cup {p \in {"stale"} : Names!Sent(i) /\ ~i.touched}
          /\ UNCHANGED <<story, rows, meta, act, top, ops>>
    BY <1>4 DEF Names!Commit
  <2>a. \A k \in sel' : /\ k \in [row : Titled, text : Name, touched : BOOLEAN, focus : BOOLEAN]
                        /\ k.row = i.row /\ k.text = IF i.text = NoName THEN meta[i.row] ELSE i.text
                        /\ ~k.touched
    BY <2>0, LeftInput
  <2>b. i.row \in Titled /\ i.text \in Name
    BY DEF NamesType
  <2>c. Names!Sent(i) =>
          \E k \in [id : Nat, row : Titled, name : Name, ans : {"none", "ok", "failed"}] :
             calls' = calls \cup {k} /\ k.row = i.row /\ k.name = i.text /\ k.ans = "none"
    BY <2>0, <2>b, AskedCall
  <2>1. NamesType'
    <3>1. calls' \subseteq [id : Nat, row : Titled, name : Name, ans : {"none", "ok", "failed"}]
      BY <2>0, <2>c DEF NamesType
    <3>2. sel' \subseteq [row : Titled, text : Name, touched : BOOLEAN, focus : BOOLEAN]
      BY <2>a
    <3> QED BY <2>0, <2>b, <3>1, <3>2 DEF NamesType
  <2>2. OthersFocused'
    BY <2>0 DEF OthersFocused, Names!Left
  <2>3. Unendangered' => Unendangered
    BY <2>0 DEF Unendangered, Names!Dangers
  <2>4. ASSUME AsDecided, Unendangered' PROVE AsDecided'
    <3> USE DEF AsDecided
    <3>0. /\ Names!Decides(i) => ~Names!Renaming(i.row) /\ act = {}
          /\ story # "title" => ~(Names!Sent(i) /\ ~i.touched)
          /\ Names!Decides(i) <=> i.touched /\ (i.text = NoName => story = "label")
          /\ Names!Sent(i) => (story # "label" => i.text # NoName)
          /\ ~Names!Sent(i) /\ Names!Decides(i) => i.text = meta[i.row]
          /\ story = "title" /\ ~Names!Sent(i) => i.text = meta[i.row] \/ i.text = NoName
      <4>1. Names!Decides(i) => ~Names!Renaming(i.row) /\ act = {}
        BY <2>0, <2>4 DEF Unendangered, Names!Dangers, NamesType
      <4>2. story # "title" => ~(Names!Sent(i) /\ ~i.touched)
        BY <2>0, <2>4 DEF Unendangered, Names!Dangers, NamesType
      <4>3. Names!Decides(i) <=> i.touched /\ (i.text = NoName => story = "label")
        BY DEF Names!Decides
      <4> QED BY <4>1, <4>2, <4>3 DEF Names!Sent, NamesType
    <3>a. /\ \A r \in Titled : choice'[r] = IF Names!Decides(i) /\ r = i.row THEN i.text ELSE choice[r]
          /\ Names!Sent(i) /\ ~Names!Decides(i) => story = "title" /\ ~i.touched
      BY <2>0, <2>b, <3>0 DEF NamesType
    <3>b. Names!Sent(i) => i.text = choice'[i.row]
      BY <2>0, <2>b, <2>4, <3>0, <3>a DEF TitleFollows, Names!Sent
    <3>1. FirstTurns'
      BY <2>0, <2>c, <2>4, <3>0, <3>a DEF FirstTurns, Names!Renaming
    <3>2. CallsAreDecisions'
      <4>1. \A c \in calls : choice'[c.row] = choice[c.row]
        BY <3>0, <3>a DEF Names!Renaming, NamesType
      <4> QED BY <2>0, <2>c, <2>4, <3>b, <4>1 DEF CallsAreDecisions
    <3>3. NamesCome'
      BY <2>0, <2>c, <2>4 DEF NamesCome, Brings, Told
    <3>4. DecisionsCome'
      <4> SUFFICES ASSUME NEW r \in Titled PROVE rows[r] = choice'[r] \/ \E c \in calls' : c.row = r /\ c.ans = "none"
        BY <2>0 DEF DecisionsCome, Asked
      <4>1. rows[r] = choice[r] \/ \E c \in calls' : c.row = r /\ c.ans = "none"
        BY <2>0, <2>c, <2>4 DEF DecisionsCome, Asked
      <4>2. CASE Names!Decides(i) /\ r = i.row /\ Names!Sent(i)
        BY <2>c, <4>2
      <4>3. CASE Names!Decides(i) /\ r = i.row /\ ~Names!Sent(i)
        BY <2>b, <2>4, <3>0, <3>a, <4>3 DEF NamesCome, Brings, Told, Names!Renaming
      <4> QED BY <3>a, <4>1, <4>2, <4>3
    <3>5. TitleFollows'
      <4> SUFFICES ASSUME story = "title", NEW k \in sel'
                   PROVE  ~k.touched /\ (k.text = meta[k.row]
                              \/ (k.text = choice'[k.row] /\ \E c \in calls' : c.row = k.row))
        BY <2>0 DEF TitleFollows, Names!Renaming
      <4>1. CASE Names!Sent(i)
        BY <2>a, <2>c, <3>0, <3>b, <4>1
      <4>2. CASE ~Names!Sent(i)
        BY <2>a, <3>0, <4>2
      <4> QED BY <4>1, <4>2
    <3> QED BY <3>1, <3>2, <3>3, <3>4, <3>5
  <2> QED BY <2>1, <2>2, <2>3, <2>4
<1>5. CASE Names!Escape
  <2>0. PICK i \in sel :
          /\ i.focus /\ Names!EscapesInput(i) /\ sel' = {[k EXCEPT !.text = meta[i.row]] : k \in Names!Left(i)}
          /\ perils' = IF calls' # calls THEN perils \cup {"escaped"} ELSE perils
          /\ UNCHANGED <<story, rows, meta, act, top, ops, choice, gone>>
    BY <1>5 DEF Names!Escape, Names!Meets
  <2>a. \A k \in sel' : /\ k \in [row : Titled, text : Name, touched : BOOLEAN, focus : BOOLEAN]
                        /\ k.row = i.row /\ k.text = meta[k.row] /\ ~k.touched
    BY <2>0, LeftInput DEF NamesType
  <2>b. calls' \subseteq [id : Nat, row : Titled, name : Name, ans : {"none", "ok", "failed"}]
    <3>1. CASE UNCHANGED calls
      BY <3>1 DEF NamesType
    <3>2. CASE Names!Ask(i.row, i.text)
      BY <3>2, AskedCall DEF NamesType
    <3> QED BY <2>0, <3>1, <3>2 DEF Names!EscapesInput
  <2>1. NamesType'
    BY <2>0, <2>a, <2>b DEF NamesType
  <2>2. OthersFocused'
    BY <2>0 DEF OthersFocused, Names!Left
  <2>3. Unendangered' => Unendangered
    BY <2>0 DEF Unendangered, Names!Dangers
  <2>4. ASSUME AsDecided, Unendangered' PROVE AsDecided'
    <3> USE DEF AsDecided
    <3>0. calls' = calls
      BY <2>0, <2>4 DEF Unendangered, Names!Dangers, Names!EscapesInput
    <3>1. FirstTurns'
      BY <2>0, <2>4, <3>0 DEF FirstTurns, Names!Renaming
    <3>2. CallsAreDecisions'
      BY <2>0, <2>4, <3>0 DEF CallsAreDecisions
    <3>3. DecisionsCome'
      BY <2>0, <2>4, <3>0 DEF DecisionsCome, Asked
    <3>4. NamesCome'
      BY <2>0, <2>4, <3>0 DEF NamesCome, Brings, Told
    <3>5. TitleFollows'
      BY <2>0, <2>a DEF TitleFollows
    <3> QED BY <3>1, <3>2, <3>3, <3>4, <3>5
  <2> QED BY <2>1, <2>2, <2>3, <2>4
<1>6. CASE Names!ClickOutside
  <2>1. NamesType'
    BY <1>6 DEF Names!ClickOutside, NamesType
  <2>2. OthersFocused'
    BY <1>6 DEF Names!ClickOutside, NamesType, OthersFocused
  <2>3. Unendangered' => Unendangered
    BY <1>6 DEF Names!ClickOutside, Unendangered, Names!Dangers
  <2>4. ASSUME AsDecided, Unendangered' PROVE AsDecided'
    <3> USE DEF AsDecided, NamesType
    <3>1. FirstTurns'
      BY <1>6, <2>4 DEF Names!ClickOutside, FirstTurns, Names!Renaming, Unendangered, Names!Dangers
    <3>2. CallsAreDecisions'
      BY <1>6, <2>4 DEF Names!ClickOutside, FirstTurns, CallsAreDecisions, Names!Renaming, Unendangered, Names!Dangers
    <3>3. DecisionsCome'
      BY <1>6, <2>4 DEF Names!ClickOutside, CallsAreDecisions, DecisionsCome, Asked, Names!Renaming, Unendangered, Names!Dangers
    <3>4. NamesCome'
      BY <1>6, <2>4 DEF Names!ClickOutside, CallsAreDecisions, NamesCome, Brings, Told, Unendangered, Names!Dangers
    <3>5. TitleFollows'
      BY <1>6, <2>4 DEF Names!ClickOutside, TitleFollows, CallsAreDecisions, Names!Renaming, Unendangered, Names!Dangers
    <3> QED BY <3>1, <3>2, <3>3, <3>4, <3>5
  <2> QED BY <2>1, <2>2, <2>3, <2>4
<1>7. ASSUME NEW r \in Titled, NEW n \in Name, Names!NameAfterTurn(r, n) PROVE NamesInv'
  <2>0. /\ r \in top /\ top' = top \ {r} /\ UNCHANGED <<story, rows, meta, act, sel, ops, gone>>
        /\ choice' = IF r \in gone THEN choice ELSE [choice EXCEPT ![r] = n]
        /\ perils' = IF r \in gone \/ (\E i \in sel : i.row = r) THEN perils \cup {"titled"} ELSE perils
    BY <1>7 DEF Names!NameAfterTurn, Names!Meets
  <2>a. PICK k \in [id : Nat, row : Titled, name : Name, ans : {"none", "ok", "failed"}] :
          calls' = calls \cup {k} /\ k.row = r /\ k.name = n /\ k.ans = "none"
    BY <1>7, AskedCall DEF Names!NameAfterTurn
  <2>1. NamesType'
    BY <2>0, <2>a DEF NamesType
  <2>2. OthersFocused'
    BY <2>0 DEF OthersFocused
  <2>3. Unendangered' => Unendangered
    BY <2>0 DEF Unendangered, Names!Dangers
  <2>4. ASSUME AsDecided, Unendangered' PROVE AsDecided'
    <3> USE DEF AsDecided
    <3>0. /\ story = "session" /\ r \notin gone /\ ~Names!Renaming(r)
          /\ \A q \in Titled : choice'[q] = IF q = r THEN n ELSE choice[q]
      <4>1. story = "session"
        BY <2>0, <2>4 DEF FirstTurns
      <4>2. r \notin gone
        BY <2>0, <2>4, <4>1 DEF Unendangered, Names!Dangers
      <4>3. ~Names!Renaming(r)
        BY <2>0, <2>4, <4>2 DEF FirstTurns
      <4> QED BY <2>0, <4>1, <4>2, <4>3 DEF NamesType
    <3>1. FirstTurns'
      BY <2>0, <2>a, <2>4, <3>0 DEF FirstTurns, Names!Renaming
    <3>2. CallsAreDecisions'
      BY <2>0, <2>a, <2>4, <3>0 DEF CallsAreDecisions, NamesType, Names!Renaming
    <3>3. DecisionsCome'
      BY <2>0, <2>a, <2>4, <3>0 DEF DecisionsCome, Asked
    <3>4. NamesCome'
      BY <2>0, <2>a, <2>4, <3>0 DEF NamesCome, Brings, Told
    <3>5. TitleFollows'
      BY <2>0, <3>0 DEF TitleFollows
    <3> QED BY <3>1, <3>2, <3>3, <3>4, <3>5
  <2> QED BY <2>1, <2>2, <2>3, <2>4
<1>8. ASSUME NEW c \in calls, Names!Serve(c) PROVE NamesInv'
  <2>0. PICK d : /\ d = [c EXCEPT !.ans = "ok"] /\ calls' = (calls \ {c}) \cup {d} /\ c.ans = "none"
                 /\ rows' = [rows EXCEPT ![c.row] = c.name]
                 /\ UNCHANGED <<story, meta, act, sel, top, ops, choice, gone, perils>>
    BY <1>8 DEF Names!Serve, Names!Settled
  <2>a. /\ d \in [id : Nat, row : Titled, name : Name, ans : {"none", "ok", "failed"}]
        /\ d.row = c.row /\ d.name = c.name /\ d.ans = "ok" /\ c.row \in Titled /\ c.name \in Name
    BY <2>0 DEF NamesType
  <2>1. NamesType'
    BY <2>0, <2>a DEF NamesType
  <2>2. OthersFocused'
    BY <2>0 DEF OthersFocused
  <2>3. Unendangered' => Unendangered
    BY <2>0 DEF Unendangered, Names!Dangers
  <2>4. ASSUME AsDecided, Unendangered' PROVE AsDecided'
    <3> USE DEF AsDecided
    <3>1. FirstTurns'
      BY <2>0, <2>a, <2>4 DEF FirstTurns, Names!Renaming
    <3>0. \A r \in Titled : rows'[r] = IF r = c.row THEN c.name ELSE rows[r]
      BY <2>0, <2>a DEF NamesType
    <3>2. CallsAreDecisions'
      BY <2>0, <2>a, <2>4, <3>0 DEF CallsAreDecisions, NamesType
    <3>3. DecisionsCome'
      BY <2>0, <2>a, <2>4, <3>0 DEF DecisionsCome, Asked, CallsAreDecisions
    <3>4. \A r \in Titled : Told(r) \/ r = c.row => \E e \in calls' : e.row = r /\ e.ans = "ok"
      BY <2>0, <2>a DEF Told
    <3>5. NamesCome'
      BY <2>0, <2>4, <3>0, <3>4 DEF NamesCome, Brings, Told
    <3>6. \A r \in Titled : Names!Renaming(r) => \E e \in calls' : e.row = r
      BY <2>0, <2>a DEF Names!Renaming
    <3>7. TitleFollows'
      BY <2>0, <2>4, <3>6 DEF TitleFollows, NamesType, Names!Renaming
    <3> QED BY <3>1, <3>2, <3>3, <3>5, <3>7
  <2> QED BY <2>1, <2>2, <2>3, <2>4
<1>9. ASSUME NEW c \in calls, Names!Lose(c) PROVE NamesInv'
  <2>1. NamesType'
    BY <1>9 DEF Names!Lose, Names!Settled, Names!Meets, NamesType
  <2>2. OthersFocused'
    BY <1>9 DEF Names!Lose, Names!Settled, Names!Meets, NamesType, OthersFocused
  <2>3. Unendangered' => Unendangered
    BY <1>9 DEF Names!Lose, Names!Settled, Names!Meets, Unendangered, Names!Dangers
  <2>4. ASSUME AsDecided, Unendangered' PROVE AsDecided'
    <3> USE DEF AsDecided, NamesType
    <3>1. FirstTurns'
      BY <1>9, <2>4 DEF Names!Lose, Names!Settled, Names!Meets, FirstTurns, Names!Renaming, Unendangered, Names!Dangers
    <3>2. CallsAreDecisions'
      BY <1>9, <2>4 DEF Names!Lose, Names!Settled, Names!Meets, FirstTurns, CallsAreDecisions, Names!Renaming, Unendangered, Names!Dangers
    <3>3. DecisionsCome'
      BY <1>9, <2>4 DEF Names!Lose, Names!Settled, Names!Meets, CallsAreDecisions, DecisionsCome, Asked, Names!Renaming, Unendangered, Names!Dangers
    <3>4. NamesCome'
      BY <1>9, <2>4 DEF Names!Lose, Names!Settled, Names!Meets, CallsAreDecisions, NamesCome, Brings, Told, Unendangered, Names!Dangers
    <3>5. TitleFollows'
      BY <1>9, <2>4 DEF Names!Lose, Names!Settled, Names!Meets, TitleFollows, CallsAreDecisions, Names!Renaming, Unendangered, Names!Dangers
    <3> QED BY <3>1, <3>2, <3>3, <3>4, <3>5
  <2> QED BY <2>1, <2>2, <2>3, <2>4
<1>10. ASSUME NEW c \in calls, Names!Answer(c) PROVE NamesInv'
  <2>0. /\ c.ans # "none" /\ calls' = calls \ {c} /\ UNCHANGED <<story, rows, top, ops, choice, gone>>
        /\ IF c.ans = "ok"
           THEN /\ meta' = Names!Shows(c) /\ Names!Resyncs(Names!Shows(c))
                /\ perils' = IF Names!Overwrites(Names!Shows(c)) THEN perils \cup {"resynced"} ELSE perils
                /\ act' = IF story = "title" THEN act ELSE {rows}
           ELSE UNCHANGED <<meta, sel, act, perils>>
    BY <1>10 DEF Names!Answer, Names!Meets, Names!Shows
  <2> DEFINE g == Names!Shows(c)
  <2>a. /\ g \in [Titled -> Name]
        /\ story = "title" => g = [meta EXCEPT ![c.row] = c.name]
    BY DEF NamesType, Names!Shows
  <2> HIDE DEF g
  <2>b. c.ans = "ok" => meta' = g /\ Names!Resyncs(g)
    BY <2>0 DEF g
  <2>1. NamesType'
    <3>1. c.ans = "ok" => sel' \subseteq [row : Titled, text : Name, touched : BOOLEAN, focus : BOOLEAN]
      BY <2>a, <2>b, ResyncedInput
    <3> QED BY <2>0, <2>a, <2>b, <3>1 DEF NamesType
  <2>2. OthersFocused'
    <3>1. CASE c.ans = "ok"
      BY <2>0, <2>a, <2>b, <3>1, ResyncedInput DEF OthersFocused
    <3>2. CASE c.ans # "ok"
      BY <2>0, <3>2 DEF OthersFocused
    <3> QED BY <3>1, <3>2
  <2>3. Unendangered' => Unendangered
    BY <2>0 DEF Unendangered, Names!Dangers
  <2>4. ASSUME AsDecided, Unendangered' PROVE AsDecided'
    <3> USE DEF AsDecided
    <3>0. /\ c.ans = "ok" /\ c.name = choice[c.row] /\ rows[c.row] = choice[c.row] /\ c.row \in Titled
          /\ \A r \in Titled : r # c.row => (Told(r) => \E d \in calls' : d.row = r /\ d.ans = "ok")
      <4>1. c.ans = "ok" /\ c.name = choice[c.row] /\ rows[c.row] = choice[c.row] /\ c.row \in Titled
        BY <2>0, <2>4 DEF CallsAreDecisions, NamesType
      <4>2. \A r \in Titled : r # c.row => (Told(r) => \E d \in calls' : d.row = r /\ d.ans = "ok")
        BY <2>0 DEF Told
      <4> QED BY <4>1, <4>2
    <3>1. FirstTurns'
      BY <2>0, <2>4 DEF FirstTurns, Names!Renaming
    <3>2. CallsAreDecisions'
      BY <2>0, <2>4 DEF CallsAreDecisions
    <3>3. DecisionsCome'
      BY <2>0, <2>4 DEF DecisionsCome, Asked
    <3>4. NamesCome'
      <4>1. CASE story = "title"
        <5>1. Brings(meta)
          BY <2>4, <4>1 DEF NamesCome
        <5>2. \A r \in Titled : g[r] = IF r = c.row THEN rows[r] ELSE meta[r]
          BY <2>a, <3>0, <4>1 DEF NamesType
        <5> QED BY <2>0, <2>b, <3>0, <4>1, <5>1, <5>2 DEF NamesCome, Brings, Told
      <4>2. CASE story # "title"
        BY <2>0, <3>0, <4>2 DEF NamesCome, Brings
      <4> QED BY <4>1, <4>2
    <3>5. TitleFollows'
      <4> SUFFICES ASSUME story = "title", NEW k \in sel'
                   PROVE  IF k.touched THEN k.focus
                          ELSE k.text = g[k.row]
                               \/ (k.text = choice[k.row] /\ \E d \in calls' : d.row = k.row)
        BY <2>0, <2>b, <3>0 DEF TitleFollows, Names!Renaming
      <4>1. PICK i \in sel :
              IF meta[i.row] # g[i.row]
              THEN k.row = i.row /\ k.text = g[i.row] /\ ~k.touched /\ k.focus = i.focus
              ELSE k = i
        BY <2>a, <2>b, <3>0, ResyncedInput
      <4>2. IF i.touched THEN i.focus
            ELSE i.text = meta[i.row] \/ (i.text = choice[i.row] /\ Names!Renaming(i.row))
        BY <2>4 DEF TitleFollows
      <4>3. i.row \in Titled /\ g[c.row] = choice[c.row]
        BY <2>a, <3>0 DEF NamesType
      <4>4. i.row # c.row /\ Names!Renaming(i.row) => \E d \in calls' : d.row = i.row
        BY <2>0 DEF Names!Renaming
      <4> QED BY <4>1, <4>2, <4>3, <4>4
    <3> QED BY <3>1, <3>2, <3>3, <3>4, <3>5
  <2> QED BY <2>1, <2>2, <2>3, <2>4
<1>11. CASE Names!Refetch
  <2>1. NamesType'
    BY <1>11 DEF Names!Refetch, NamesType
  <2>2. OthersFocused'
    BY <1>11 DEF Names!Refetch, NamesType, OthersFocused
  <2>3. Unendangered' => Unendangered
    BY <1>11 DEF Names!Refetch, Unendangered, Names!Dangers
  <2>4. ASSUME AsDecided, Unendangered' PROVE AsDecided'
    <3> USE DEF AsDecided, NamesType
    <3>1. FirstTurns'
      BY <1>11, <2>4 DEF Names!Refetch, FirstTurns, Names!Renaming, Unendangered, Names!Dangers
    <3>2. CallsAreDecisions'
      BY <1>11, <2>4 DEF Names!Refetch, FirstTurns, CallsAreDecisions, Names!Renaming, Unendangered, Names!Dangers
    <3>3. DecisionsCome'
      BY <1>11, <2>4 DEF Names!Refetch, CallsAreDecisions, DecisionsCome, Asked, Names!Renaming, Unendangered, Names!Dangers
    <3>4. NamesCome'
      BY <1>11, <2>4 DEF Names!Refetch, CallsAreDecisions, NamesCome, Brings, Told, Unendangered, Names!Dangers
    <3>5. TitleFollows'
      BY <1>11, <2>4 DEF Names!Refetch, TitleFollows, CallsAreDecisions, Names!Renaming, Unendangered, Names!Dangers
    <3> QED BY <3>1, <3>2, <3>3, <3>4, <3>5
  <2> QED BY <2>1, <2>2, <2>3, <2>4
<1>12. CASE Names!Arrive
  <2>0. PICK g \in act :
          /\ act' = {} /\ meta' = g /\ Names!Resyncs(g) /\ UNCHANGED <<story, rows, calls, top, ops, choice, gone>>
          /\ perils' = perils \cup {p \in {"resynced"} : Names!Overwrites(g)}
                              \cup {p \in {"overtaken"} : story = "title" /\ g # rows}
    BY <1>12 DEF Names!Arrive
  <2>a. g \in [Titled -> Name]
    BY DEF NamesType
  <2>1. NamesType'
    <3>1. sel' \subseteq [row : Titled, text : Name, touched : BOOLEAN, focus : BOOLEAN]
      BY <2>0, <2>a, ResyncedInput
    <3> QED BY <2>0, <2>a, <3>1 DEF NamesType
  <2>2. OthersFocused'
    BY <2>0, <2>a, ResyncedInput DEF OthersFocused
  <2>3. Unendangered' => Unendangered
    BY <2>0 DEF Unendangered, Names!Dangers
  <2>4. ASSUME AsDecided, Unendangered' PROVE AsDecided'
    <3> USE DEF AsDecided
    <3>1. FirstTurns'
      BY <2>0, <2>4 DEF FirstTurns, Names!Renaming
    <3>2. CallsAreDecisions'
      BY <2>0, <2>4 DEF CallsAreDecisions
    <3>3. DecisionsCome'
      BY <2>0, <2>4 DEF DecisionsCome, Asked
    <3>4. story = "title" => g = rows /\ ~Names!Overwrites(g)
      BY <2>0, <2>4 DEF Unendangered, Names!Dangers
    <3>5. NamesCome'
      <4>1. CASE story = "title"
        BY <2>0, <3>4, <4>1 DEF NamesCome, Brings
      <4>2. CASE story # "title"
        BY <2>0, <2>4, <4>2 DEF NamesCome, Brings, Told
      <4> QED BY <4>1, <4>2
    <3>6. TitleFollows'
      <4> SUFFICES ASSUME story = "title", NEW k \in sel'
                   PROVE  IF k.touched THEN k.focus
                          ELSE k.text = g[k.row] \/ (k.text = choice[k.row] /\ Names!Renaming(k.row))
        BY <2>0 DEF TitleFollows, Names!Renaming
      <4>1. PICK i \in sel :
              IF meta[i.row] # g[i.row]
              THEN k.row = i.row /\ k.text = g[i.row] /\ ~k.touched /\ k.focus = i.focus
              ELSE k = i
        BY <2>0, <2>a, ResyncedInput
      <4>2. IF i.touched THEN i.focus
            ELSE i.text = meta[i.row] \/ (i.text = choice[i.row] /\ Names!Renaming(i.row))
        BY <2>4 DEF TitleFollows
      <4> QED BY <4>1, <4>2
    <3> QED BY <3>1, <3>2, <3>3, <3>5, <3>6
  <2> QED BY <2>1, <2>2, <2>3, <2>4
<1> QED
  BY <1>1, <1>2, <1>3, <1>4, <1>5, <1>6, <1>7, <1>8, <1>9, <1>10, <1>11, <1>12 DEF Names!Next

NamesPart == part = "names" => NamesInv

(* At rest every row has the name its user last confirmed, on screen too,   *)
(* unless a danger of its kind was met.                                     *)
THEOREM NamesCorrect == MCSpec => []NamesSettle
<1>1. MCInit => NamesPart
  <2> SUFFICES ASSUME MCInit, part = "names" PROVE NamesInv
    BY DEF NamesPart
  <2>1. Names!Init
    BY DEF MCInit
  <2>2. Old \in Name
    BY PartsAssumption DEF Names!RowNamesAssumption
  <2>3. NamesType
    <3>1. \A r \in Titled : Names!Input(r, FALSE)
                              \subseteq [row : Titled, text : Name, touched : BOOLEAN, focus : BOOLEAN]
      BY <2>1, <2>2 DEF Names!Init, Names!Input
    <3> QED BY <2>1, <2>2, <3>1 DEF Names!Init, NamesType
  <2>4. OthersFocused
    BY <2>1 DEF Names!Init, OthersFocused
  <2>5. FirstTurns /\ CallsAreDecisions /\ DecisionsCome /\ NamesCome
    BY <2>1, <2>2 DEF Names!Init, FirstTurns, CallsAreDecisions, DecisionsCome, NamesCome, Brings,
                      Names!Renaming
  <2>6. TitleFollows
    BY <2>1 DEF Names!Init, Names!Input, TitleFollows
  <2> QED BY <2>3, <2>4, <2>5, <2>6 DEF NamesInv, AsDecided
<1>2. NamesPart /\ [MCNext]_MCVars => NamesPart'
  <2> SUFFICES ASSUME NamesPart, [MCNext]_MCVars, part = "names" PROVE NamesInv'
    BY DEF MCNext, MCVars, NamesPart
  <2>1. CASE Names!Next
    BY <2>1, NamesStep DEF NamesPart
  <2>2. CASE UNCHANGED MCVars
    BY <2>2 DEF MCVars, PlacesVars, NamesPart, NamesInv, NamesType, OthersFocused, Unendangered,
                Names!Dangers, AsDecided, FirstTurns, CallsAreDecisions, DecisionsCome, NamesCome,
                TitleFollows, Brings, Told, Asked, Names!Renaming
  <2> QED BY <2>1, <2>2 DEF MCNext
<1>3. NamesPart => NamesSettle
  <2> SUFFICES ASSUME part = "names", NamesInv, Names!Quiet, Unendangered
               PROVE  rows = choice /\ meta = rows /\ \A i \in sel : i.text = rows[i.row]
    BY DEF NamesPart, NamesSettle, Names!NamesSettle, Unendangered
  <2>1. \A r \in Titled : rows[r] = choice[r] /\ meta[r] = rows[r]
    BY DEF NamesInv, AsDecided, DecisionsCome, NamesCome, Brings, Told, Asked, Names!Quiet
  <2>2. \A i \in sel : i.text = meta[i.row]
    BY DEF NamesInv, NamesType, AsDecided, TitleFollows, OthersFocused, Names!Quiet, Names!Renaming
  <2> QED BY <2>1, <2>2 DEF NamesInv, NamesType
<1> QED BY <1>1, <1>2, <1>3, PTL DEF MCSpec

-----------------------------------------------------------------------------
(* The lists.  A tab that is not behind shows the server's list, or its GET *)
(* is bringing it, or one of its own mutations will make it fetch the list  *)
(* again: any reorder, any optimistic deletion, and what was just done.     *)
Shaped(q) ==
    q = [pc |-> q.pc, tab |-> q.tab, op |-> q.op, row |-> q.row, list |-> q.list,
         index |-> q.index, prev |-> q.prev, tries |-> q.tries]
Unheard(r) == calls[r].op = "place" /\ story = "chapter"
WillRefetch(r) ==
    \/ calls[r].op = "reorder"
    \/ calls[r].op = "delete" /\ story # "outline"
    \/ calls[r].pc = "ok" /\ ~Unheard(r)
Current(t) ==
    \/ act[t].pc = "asked"
    \/ act[t].pc = "served"
         /\ \/ act[t].list = Rows!Listed(rows)
            \/ \E r \in Mutation : calls[r].tab = t /\ calls[r].pc = "ok" /\ ~Unheard(r)
    \/ act[t] = Rows!NoFetch
         /\ \/ meta[t] = Rows!Listed(rows)
            \/ \E r \in Mutation : calls[r].tab = t /\ WillRefetch(r)
ListsShape ==
    /\ calls = [r \in Mutation |-> calls[r]] /\ \A r \in Mutation : Shaped(calls[r])
    /\ meta = [t \in Tab |-> meta[t]] /\ act = [t \in Tab |-> act[t]]
    /\ \A r \in Mutation : calls[r].tab \in Tab \cup {NoTab}
    /\ \A r \in Mutation : calls[r].pc = "idle" => calls[r] = Rows!Idle
ListsInv == ListsShape /\ \A t \in Tab \ gone : Current(t)

(* A tab stays current as long as its list, its GET and its mutations do    *)
(* and the rows with them.                                                  *)
LEMMA StaysCurrent ==
    ASSUME NEW s, Current(s), UNCHANGED <<story, rows>>, act'[s] = act[s], meta'[s] = meta[s],
           \A q \in Mutation : calls[q].tab = s =>
               /\ calls'[q].tab = s /\ calls'[q].op = calls[q].op
               /\ calls[q].pc = "ok" => calls'[q].pc = "ok"
    PROVE  Current(s)'
  BY DEF Current, WillRefetch, Unheard, Rows!NoFetch

(* A tab starts a mutation: plainly, or with the list it expects, and then  *)
(* it is of those that refetch.                                             *)
LEMMA MutationStarts ==
    ASSUME ListsInv, NEW t \in Tab, NEW r \in Mutation, NEW q, Rows!Start(t, r, q),
           Shaped(q), q.tab = t, q.pc # "idle",
           \/ Rows!Plainly
           \/ /\ \E s : Rows!Optimistically(t, s)
              /\ q.op = "reorder" \/ (q.op = "delete" /\ story # "outline")
    PROVE  ListsInv'
<1> USE DEF ListsInv
<1>0. /\ calls' = [calls EXCEPT ![r] = q] /\ calls[r].pc = "idle"
      /\ UNCHANGED <<story, rows, gone>>
  BY DEF Rows!Start
<1>1. \A s \in Mutation : calls'[s] = IF s = r THEN q ELSE calls[s]
  BY <1>0 DEF ListsShape
<1>2. calls[r].tab \notin Tab
  BY <1>0, PartsAssumption DEF ListsShape, Rows!Idle, Rows!OrderedRowsAssumption
<1>3. /\ meta' = [s \in Tab |-> meta'[s]] /\ act' = [s \in Tab |-> act'[s]]
      /\ \A s \in Tab \ {t} : meta'[s] = meta[s] /\ act'[s] = act[s]
  BY DEF ListsShape, Rows!Plainly, Rows!Optimistically
<1>4. ListsShape'
  <2>1. calls' = [s \in Mutation |-> calls'[s]]
    BY <1>0 DEF ListsShape
  <2> QED BY <1>1, <1>3, <2>1 DEF ListsShape
<1>5. ASSUME NEW s \in Tab \ gone, s # t \/ Rows!Plainly PROVE Current(s)'
  <2>1. act'[s] = act[s] /\ meta'[s] = meta[s]
    BY <1>3, <1>5 DEF Rows!Plainly
  <2> QED BY <1>0, <1>1, <1>2, <2>1, StaysCurrent
<1>6. ASSUME NEW l, Rows!Optimistically(t, l), q.op = "reorder" \/ (q.op = "delete" /\ story # "outline")
      PROVE  Current(t)'
  <2>1. act'[t] = Rows!NoFetch
    BY <1>6 DEF Rows!Optimistically, ListsShape
  <2>2. calls'[r] = q
    BY <1>1
  <2> QED BY <1>0, <1>6, <2>1, <2>2 DEF Current, WillRefetch
<1> QED BY <1>0, <1>4, <1>5, <1>6

(* A step of the server for a mutation: nothing is written, or all tabs but *)
(* the mutation's own fall behind, and that one too or it will fetch.       *)
LEMMA MutationServed ==
    ASSUME ListsInv, NEW r \in Mutation, NEW q, calls' = [calls EXCEPT ![r] = q], Shaped(q),
           UNCHANGED <<story, meta, act>>,
           q.tab = calls[r].tab, q.op = calls[r].op, q.pc # "idle", calls[r].pc # "ok",
           \/ UNCHANGED <<rows, gone>>
           \/ /\ q.pc = "ok"
              /\ gone' = gone \cup (Tab \ {calls[r].tab})
                              \cup IF Unheard(r) THEN {calls[r].tab} ELSE {}
    PROVE  ListsInv'
<1> USE DEF ListsInv
<1>1. \A s \in Mutation : calls'[s] = IF s = r THEN q ELSE calls[s]
  BY DEF ListsShape
<1>2. ListsShape'
  <2>1. calls' = [s \in Mutation |-> calls'[s]]
    BY DEF ListsShape
  <2> QED BY <1>1, <2>1 DEF ListsShape
<1>3. CASE UNCHANGED <<rows, gone>>
  <2>1. ASSUME NEW s \in Tab \ gone PROVE Current(s)'
    BY <1>1, <1>3, StaysCurrent
  <2> QED BY <1>2, <1>3, <2>1
<1>4. CASE /\ q.pc = "ok"
           /\ gone' = gone \cup (Tab \ {calls[r].tab})
                           \cup IF Unheard(r) THEN {calls[r].tab} ELSE {}
  <2>1. ASSUME NEW s \in Tab \ gone' PROVE Current(s)'
    <3>1. s = calls[r].tab /\ ~Unheard(r) /\ Current(s)
      BY <1>4
    <3>2. calls'[r].tab = s /\ calls'[r].pc = "ok" /\ ~Unheard(r)'
      BY <1>1, <1>4, <3>1 DEF Unheard
    <3> QED BY <3>1, <3>2 DEF Current, WillRefetch
  <2> QED BY <1>2, <2>1
<1> QED BY <1>3, <1>4

(* A mutation's answer, or its loss.                                        *)
LEMMA MutationSettles ==
    ASSUME ListsInv, NEW r \in Mutation, Rows!Answer(r) \/ Rows!Lose(r)
    PROVE  ListsInv'
<1> USE DEF ListsInv
<1>0. PICK t, good :
        /\ t = calls[r].tab /\ good \in BOOLEAN
        /\ meta' = IF Rows!RollsBack(r, good) THEN [meta EXCEPT ![t] = calls[r].prev] ELSE meta
        /\ act' = IF Rows!Refetches(r, good) THEN [act EXCEPT ![t] = Rows!Asked] ELSE act
        /\ calls' = [calls EXCEPT ![r] = Rows!Idle] /\ UNCHANGED <<story, rows>>
        /\ \/ good /\ calls[r].pc = "ok" /\ gone' = gone
           \/ ~good /\ calls[r].pc = "failed" /\ gone' = gone
           \/ /\ ~good /\ calls[r].pc = "ok"
              /\ gone' = IF Rows!OnSuccessOnly(r) THEN gone \cup {t} ELSE gone
  BY Zenon DEF Rows!Answer, Rows!Lose, Rows!Settle
<1>1. \A s \in Mutation : calls'[s] = IF s = r THEN Rows!Idle ELSE calls[s]
  BY <1>0 DEF ListsShape
<1>2. /\ meta' = [s \in Tab |-> meta'[s]] /\ act' = [s \in Tab |-> act'[s]]
      /\ \A s \in Tab \ {t} : meta'[s] = meta[s] /\ act'[s] = act[s]
  BY <1>0 DEF ListsShape
<1>3. ListsShape'
  <2>1. calls' = [s \in Mutation |-> calls'[s]]
    BY <1>0 DEF ListsShape
  <2> QED BY <1>1, <1>2, <2>1 DEF ListsShape, Shaped, Rows!Idle
<1>4. ASSUME NEW s \in Tab \ gone', s # t PROVE Current(s)'
  <2>1. s \notin gone
    BY <1>0, <1>4
  <2> QED BY <1>0, <1>1, <1>2, <1>4, <2>1, StaysCurrent
<1>5. ASSUME t \in Tab \ gone' PROVE Current(t)'
  <2>1. CASE Rows!Refetches(r, good)
    BY <1>0, <1>5, <2>1 DEF ListsShape, Current, Rows!Asked
  <2>2. CASE ~Rows!Refetches(r, good)
    <3>1. t \notin gone /\ Current(t)
      BY <1>0, <1>5
    <3>2. ~Rows!RollsBack(r, good) /\ ~WillRefetch(r) /\ ~(calls[r].pc = "ok" /\ ~Unheard(r))
      BY <1>0, <1>5, <2>2 DEF Rows!Refetches, Rows!RollsBack, Rows!OnSuccessOnly, WillRefetch, Unheard
    <3>3. act'[t] = act[t] /\ meta'[t] = meta[t]
      BY <1>0, <2>2, <3>2
    <3> QED BY <1>0, <1>1, <3>1, <3>2, <3>3 DEF Current, WillRefetch, Unheard
  <2> QED BY <2>1, <2>2
<1> QED BY <1>3, <1>4, <1>5

(* Every step of the lists keeps their invariant.                           *)
LEMMA ListsStep ==
    ASSUME ListsInv, Rows!Next
    PROVE  ListsInv'
<1> USE DEF ListsInv
<1>1. ASSUME NEW t \in Tab, NEW r \in Mutation, Rows!Mutate(t, r) PROVE ListsInv'
  <2>1. CASE Rows!Post(t, r)
    <3>1. PICK q : q = [Rows!Idle EXCEPT !.pc = "max", !.tab = t, !.op = "create"]
      OBVIOUS
    <3>2. Rows!Start(t, r, q) /\ Rows!Plainly
      BY <2>1, <3>1 DEF Rows!Post
    <3>3. Shaped(q) /\ q.tab = t /\ q.pc # "idle"
      BY <3>1 DEF Shaped, Rows!Idle
    <3> QED BY <3>2, <3>3, MutationStarts
  <2>2. ASSUME NEW x, NEW i, Rows!Patch(t, r, x, i) PROVE ListsInv'
    <3>1. PICK q : q = [Rows!Idle EXCEPT !.pc = "update", !.tab = t, !.op = "place", !.row = x, !.index = i]
      OBVIOUS
    <3>2. Rows!Start(t, r, q) /\ Rows!Plainly
      BY <2>2, <3>1 DEF Rows!Patch
    <3>3. Shaped(q) /\ q.tab = t /\ q.pc # "idle"
      BY <3>1 DEF Shaped, Rows!Idle
    <3> QED BY <3>2, <3>3, MutationStarts
  <2>3. ASSUME NEW x, \/ Rows!DeleteChapter(t, r, x) \/ Rows!DeleteCharacter(t, r, x)
                      \/ Rows!DeleteOutlineItem(t, r, x)
        PROVE  ListsInv'
    <3>1. PICK q : q = Rows!DeleteRequest(t, x)
      OBVIOUS
    <3>2. /\ Rows!Start(t, r, q)
          /\ Rows!Plainly \/ ((\E s : Rows!Optimistically(t, s)) /\ story # "outline")
      BY <2>3, <3>1 DEF Rows!DeleteChapter, Rows!DeleteCharacter, Rows!DeleteOutlineItem, Rows!Dropping
    <3>3. Shaped(q) /\ q.tab = t /\ q.pc # "idle" /\ q.op = "delete"
      BY <3>1 DEF Shaped, Rows!Idle, Rows!DeleteRequest
    <3> QED BY <3>2, <3>3, MutationStarts
  <2>4. ASSUME NEW x, NEW i, Rows!Drag(t, r, x, i) PROVE ListsInv'
    <3>1. PICK s, q : /\ q = [Rows!Idle EXCEPT !.pc = "check", !.tab = t, !.op = "reorder", !.list = s,
                                               !.prev = meta[t]]
                      /\ Rows!Start(t, r, q) /\ Rows!Optimistically(t, s)
      BY <2>4 DEF Rows!Drag
    <3>2. Shaped(q) /\ q.tab = t /\ q.pc # "idle" /\ q.op = "reorder"
      BY <3>1 DEF Shaped, Rows!Idle
    <3> QED BY <3>1, <3>2, MutationStarts
  <2> QED
    BY <1>1, <2>1, <2>2, <2>3, <2>4
    DEF Rows!Mutate, Rows!PostChapter, Rows!PostCharacter, Rows!PostOutlineItem, Rows!PatchChapter,
        Rows!PatchOutlineItem, Rows!DragChapter, Rows!DragCharacter, Rows!DragOutlineItem
<1>2. ASSUME NEW r \in Mutation, Rows!Serves(r) PROVE ListsInv'
  <2>0. Shaped(calls[r])
    BY DEF ListsShape
  <2>1. ASSUME NEW l, l # "idle", calls[r].pc # "ok", Rows!Goto(r, l), Rows!Server,
               \/ UNCHANGED <<rows, gone>>
               \/ l = "ok" /\ Rows!Unseen(r)
        PROVE  ListsInv'
    <3>1. PICK q : q = [calls[r] EXCEPT !.pc = l]
      OBVIOUS
    <3>2. calls' = [calls EXCEPT ![r] = q]
      BY <2>1, <3>1 DEF Rows!Goto
    <3>3. Shaped(q) /\ q.pc = l /\ q.tab = calls[r].tab /\ q.op = calls[r].op
      BY <2>0, <3>1 DEF Shaped
    <3> QED BY <2>1, <3>2, <3>3, MutationServed DEF Rows!Server, Rows!Unseen, Unheard
  <2>2. ASSUME calls[r].pc # "ok", Rows!Fails(r), Rows!Server PROVE ListsInv'
    BY <2>1, <2>2 DEF Rows!Fails
  <2>3. CASE Rows!ReadMax(r)
    <3>1. PICK q, i : /\ q = [calls[r] EXCEPT !.pc = "insert", !.index = i]
                      /\ calls' = [calls EXCEPT ![r] = q]
      BY <2>3 DEF Rows!ReadMax
    <3>2. Shaped(q) /\ q.pc = "insert" /\ q.tab = calls[r].tab /\ q.op = calls[r].op
      <4>1. PICK w : w = [calls[r] EXCEPT !.pc = "insert"]
        OBVIOUS
      <4>2. Shaped(w) /\ w.pc = "insert" /\ w.tab = calls[r].tab /\ w.op = calls[r].op
        BY <2>0, <4>1 DEF Shaped
      <4>3. q = [w EXCEPT !.index = i]
        BY <3>1, <4>1
      <4> QED BY <4>2, <4>3 DEF Shaped
    <3> QED BY <2>3, <3>1, <3>2, MutationServed DEF Rows!ReadMax, Rows!Server
  <2>4. CASE Rows!InsertFails(r)
    <3>1. PICK q, n, l : /\ q = [calls[r] EXCEPT !.tries = n, !.pc = l] /\ l \in {"max", "failed"}
                         /\ calls' = [calls EXCEPT ![r] = q]
      BY <2>4 DEF Rows!InsertFails
    <3>2. Shaped(q) /\ q.pc = l /\ q.tab = calls[r].tab /\ q.op = calls[r].op
      <4>1. PICK w : w = [calls[r] EXCEPT !.tries = n]
        OBVIOUS
      <4>2. Shaped(w) /\ w.tab = calls[r].tab /\ w.op = calls[r].op
        BY <2>0, <4>1 DEF Shaped
      <4>3. q = [w EXCEPT !.pc = l]
        BY <3>1, <4>1
      <4> QED BY <4>2, <4>3 DEF Shaped
    <3> QED BY <2>4, <3>1, <3>2, MutationServed DEF Rows!InsertFails, Rows!Server
  <2>5. CASE Rows!Abort(r)
    <3>1. calls[r].pc # "ok"
      BY <2>5 DEF Rows!Abort, Rows!Deadlocked, Rows!Waits
    <3> QED BY <2>2, <2>5, <3>1 DEF Rows!Abort
  <2>6. ASSUME NEW x, Rows!Insert(r, x) PROVE ListsInv'
    BY <2>1, <2>6 DEF Rows!Insert
  <2>7. CASE Rows!Place(r)
    BY <2>1, <2>2, <2>7 DEF Rows!Place
  <2>8. CASE Rows!CheckReorder(r)
    BY <2>1, <2>2, <2>8 DEF Rows!CheckReorder
  <2>9. CASE Rows!CommitReorder(r)
    BY <2>1, <2>2, <2>9 DEF Rows!CommitReorder
  <2>10. CASE Rows!RemoveOutlineItem(r)
    BY <2>1, <2>2, <2>10 DEF Rows!RemoveOutlineItem
  <2>11. CASE Rows!BeginRemove(r)
    <3>1. CASE Rows!Fails(r)
      BY <2>2, <2>11, <3>1 DEF Rows!BeginRemove
    <3>2. CASE ~Rows!Fails(r)
      <4>1. PICK q, s : /\ q = [calls[r] EXCEPT !.pc = "renumber", !.list = s]
                        /\ calls' = [calls EXCEPT ![r] = q]
        BY ZenonT(40), <2>11, <3>2 DEF Rows!BeginRemove
      <4>2. Shaped(q) /\ q.pc = "renumber" /\ q.tab = calls[r].tab /\ q.op = calls[r].op
        <5>1. PICK w : w = [calls[r] EXCEPT !.pc = "renumber"]
          OBVIOUS
        <5>2. Shaped(w) /\ w.pc = "renumber" /\ w.tab = calls[r].tab /\ w.op = calls[r].op
          BY <2>0, <5>1 DEF Shaped
        <5>3. q = [w EXCEPT !.list = s]
          BY <4>1, <5>1
        <5> QED BY <5>2, <5>3 DEF Shaped
      <4> QED BY <2>11, <3>2, <4>1, <4>2, MutationServed DEF Rows!BeginRemove, Rows!Server
    <3> QED BY <3>1, <3>2
  <2>12. CASE Rows!CommitRemove(r)
    BY <2>1, <2>2, <2>12 DEF Rows!CommitRemove
  <2> QED
    BY <1>2, <2>3, <2>4, <2>5, <2>6, <2>7, <2>8, <2>9, <2>10, <2>11, <2>12
    DEF Rows!Serves, Rows!InsertChapter, Rows!InsertCharacter, Rows!InsertOutlineItem,
        Rows!UpdateChapter, Rows!UpdateOutlineItem, Rows!ReorderChapters, Rows!ReorderCharacters,
        Rows!ReorderOutline, Rows!RemoveChapter, Rows!RemoveCharacter
<1>3. ASSUME NEW t \in Tab, Rows!Refetch(t) \/ Rows!Serve(t) \/ Rows!Receive(t) PROVE ListsInv'
  <2>1. /\ UNCHANGED <<story, rows, calls>> /\ gone \ {t} \subseteq gone' /\ gone' \subseteq gone
        /\ \A s \in Tab \ {t} : act'[s] = act[s] /\ meta'[s] = meta[s]
        /\ meta' = [s \in Tab |-> meta'[s]] /\ act' = [s \in Tab |-> act'[s]]
    BY <1>3 DEF ListsShape, Rows!Refetch, Rows!Serve, Rows!Receive
  <2>2. ListsShape'
    BY <2>1 DEF ListsShape
  <2>3. ASSUME NEW s \in Tab \ gone', s # t PROVE Current(s)'
    BY <2>1, <2>3, StaysCurrent
  <2>4. ASSUME t \notin gone' PROVE Current(t)'
    <3>1. CASE Rows!Refetch(t)
      BY <3>1 DEF Rows!Refetch, ListsShape, Current, Rows!Asked
    <3>2. CASE Rows!Serve(t)
      BY <3>2 DEF Rows!Serve, ListsShape, Current
    <3>3. CASE Rows!Receive(t)
      <4>1. t \notin gone /\ act[t].pc = "served" /\ Current(t)
        BY <2>4, <3>3 DEF Rows!Receive
      <4>2. act'[t] = Rows!NoFetch /\ meta'[t] = act[t].list
        BY <3>3 DEF Rows!Receive, ListsShape
      <4> QED BY <2>1, <4>1, <4>2 DEF Current, Rows!NoFetch, WillRefetch, Unheard
    <3> QED BY <1>3, <3>1, <3>2, <3>3
  <2> QED BY <2>2, <2>3, <2>4
<1> QED BY <1>1, <1>2, <1>3, MutationSettles DEF Rows!Next

ListsPart == part = "rows" => ListsInv

(* A tab with nothing under way shows the server's rows in the server's     *)
(* order, but for what it was not told of, however its optimistic writes,   *)
(* rollbacks, cancelled fetches and lost answers overlap.                   *)
THEOREM ListsCorrect == MCSpec => []ListsAgree
<1>1. MCInit => ListsPart
  BY DEF MCInit, Rows!Init, ListsPart, ListsInv, ListsShape, Shaped, Current, Rows!Idle, Rows!NoFetch
<1>2. ListsPart /\ [MCNext]_MCVars => ListsPart'
  <2> SUFFICES ASSUME ListsPart, [MCNext]_MCVars, part = "rows" PROVE ListsInv'
    BY DEF MCNext, MCVars, ListsPart
  <2>1. CASE Rows!Next
    BY <2>1, ListsStep DEF ListsPart
  <2>2. CASE UNCHANGED MCVars
    BY <2>2 DEF MCVars, PlacesVars, ListsPart, ListsInv, ListsShape, Current, WillRefetch, Unheard
  <2> QED BY <2>1, <2>2 DEF MCNext
<1>3. ListsPart => ListsAgree
  BY DEF ListsPart, ListsInv, Current, ListsAgree, Rows!ListsAgree, Rows!Quiet, Rows!NoFetch
<1> QED BY <1>1, <1>2, <1>3, PTL DEF MCSpec

-----------------------------------------------------------------------------
(* The numbers.  As long as nothing raced, the rows of a chapters' or       *)
(* characters' collection are numbered from zero without gaps; a number     *)
(* read for a new row is at most the next; a removal past its read knows    *)
(* all the rows but its own, since any step that would change them waits    *)
(* for it or counts as a race; and no list has a row twice.                 *)
IsList(s) == s \in Seq(Item) /\ \A i, j \in 1..Len(s) : s[i] = s[j] => i = j
RowsShape ==
    /\ rows = [x \in DOMAIN rows |-> rows[x]] /\ DOMAIN rows \subseteq Item
    /\ top \subseteq Item \ DOMAIN rows
NumbersFit ==
    \A r \in Mutation :
        calls[r].pc = "insert" => calls[r].index \in 0..Cardinality(DOMAIN rows)
RemovalsKnow ==
    \A r \in Mutation :
        calls[r].pc = "renumber" => /\ calls[r].row \in DOMAIN rows
                                    /\ Rows!Elems(calls[r].list) = DOMAIN rows \ {calls[r].row}
ListsProper ==
    /\ \A t \in Tab : IsList(meta[t]) /\ IsList(act[t].list)
    /\ \A r \in Mutation : IsList(calls[r].list) /\ IsList(calls[r].prev)
Even == /\ RowsShape /\ Numbered(DOMAIN rows, rows)
        /\ NumbersFit /\ RemovalsKnow /\ ListsProper
EvenInv == ListsInv /\ (story # "outline" /\ ~perils => Even)

(* A list without one of its rows.                                          *)
LEMMA DroppedList ==
    ASSUME NEW s, IsList(s), NEW x \in Rows!Elems(s)
    PROVE  /\ IsList(Rows!Dropped(s, x)) /\ x \notin Rows!Elems(Rows!Dropped(s, x))
           /\ Len(Rows!Dropped(s, x)) = Len(s) - 1
<1> DEFINE k == CHOOSE k \in DOMAIN s : s[k] = x
           u == Rows!Dropped(s, x)
<1>1. k \in 1..Len(s) /\ s[k] = x
  BY DEF IsList, Rows!Elems
<1> HIDE DEF k
<1>2. u = SubSeq(s, 1, k - 1) \o SubSeq(s, k + 1, Len(s))
  BY DEF Rows!Dropped, Rows!RemoveAt, k
<1> HIDE DEF u
<1>3. s \in Seq(Item)
  BY DEF IsList
<1>4. u \in Seq(Item) /\ Len(u) = Len(s) - 1
      /\ \A j \in 1..Len(u) : u[j] = IF j < k THEN s[j] ELSE s[j + 1]
  <2> DEFINE a == SubSeq(s, 1, k - 1)
             b == SubSeq(s, k + 1, Len(s))
  <2>1. a \in Seq(Item) /\ Len(a) = k - 1 /\ \A j \in 1..(k - 1) : a[j] = s[j]
    BY <1>1, <1>3
  <2>2. /\ b \in Seq(Item) /\ Len(b) = Len(s) - k
        /\ \A j \in 1..(Len(s) - k) : b[j] = s[k + j]
    BY <1>1, <1>3
  <2>3. u = a \o b
    BY <1>2
  <2> HIDE DEF a, b
  <2>a. u \in Seq(Item) /\ Len(u) = Len(a) + Len(b)
    <3>1. a \in Seq(Item) /\ b \in Seq(Item)
      BY <2>1, <2>2
    <3> QED BY <3>1, <2>3
  <2>b. Len(s) \in Nat /\ k \in Nat /\ 1 <= k /\ k <= Len(s)
    BY <1>1, <1>3
  <2>4. u \in Seq(Item) /\ Len(u) = Len(s) - 1
    BY <2>1, <2>2, <2>a, <2>b
  <2>5. \A j \in 1..(Len(a) + Len(b)) :
            u[j] = IF j <= Len(a) THEN a[j] ELSE b[j - Len(a)]
    <3>1. a \in Seq(Item) /\ b \in Seq(Item)
      BY <2>1, <2>2
    <3> QED BY <3>1, <2>3
  <2> SUFFICES ASSUME NEW j \in 1..Len(u)
               PROVE  u[j] = IF j < k THEN s[j] ELSE s[j + 1]
    BY <2>4
  <2>6. CASE j < k
    <3>1. j \in 1..(k - 1) /\ j <= Len(a) /\ j \in 1..(Len(a) + Len(b))
      BY <2>1, <2>2, <2>4, <2>6, <2>b
    <3>2. u[j] = a[j] /\ a[j] = s[j]
      BY <2>1, <2>5, <3>1
    <3> QED BY <2>6, <3>2
  <2>7. CASE ~(j < k)
    <3>1. /\ ~(j <= Len(a)) /\ j \in 1..(Len(a) + Len(b))
          /\ j - Len(a) \in 1..(Len(s) - k) /\ k + (j - Len(a)) = j + 1
      BY <2>1, <2>2, <2>4, <2>7, <2>b
    <3>2. u[j] = b[j - Len(a)] /\ b[j - Len(a)] = s[j + 1]
      BY <2>2, <2>5, <3>1
    <3> QED BY <2>7, <3>2
  <2> QED BY <2>6, <2>7
<1>5. \A i, j \in 1..Len(u) : u[i] = u[j] => i = j
  BY <1>1, <1>3, <1>4 DEF IsList
<1>6. \A j \in 1..Len(u) : u[j] # x
  BY <1>1, <1>3, <1>4 DEF IsList
<1>7. DOMAIN u = 1..Len(u)
  BY <1>4
<1> QED BY <1>4, <1>5, <1>6, <1>7 DEF IsList, Rows!Elems, u

(* A list with a row put in.                                                *)
LEMMA InsertedList ==
    ASSUME NEW s, IsList(s), NEW x \in Item, x \notin Rows!Elems(s), NEW i \in 1..(Len(s) + 1)
    PROVE  IsList(Rows!InsertAt(s, i, x))
<1> DEFINE u == Rows!InsertAt(s, i, x)
<1>1. s \in Seq(Item) /\ DOMAIN s = 1..Len(s)
  BY DEF IsList
<1>2. u = SubSeq(s, 1, i - 1) \o <<x>> \o SubSeq(s, i, Len(s))
  BY DEF Rows!InsertAt
<1> HIDE DEF u
<1>3. u \in Seq(Item) /\ Len(u) = Len(s) + 1
      /\ \A j \in 1..Len(u) : u[j] = IF j < i THEN s[j] ELSE IF j = i THEN x ELSE s[j - 1]
  <2> DEFINE a == SubSeq(s, 1, i - 1)
             b == SubSeq(s, i, Len(s))
             c == a \o <<x>>
  <2>1. a \in Seq(Item) /\ Len(a) = i - 1 /\ \A j \in 1..(i - 1) : a[j] = s[j]
    BY <1>1
  <2>2. /\ b \in Seq(Item) /\ Len(b) = Len(s) - i + 1
        /\ \A j \in 1..(Len(s) - i + 1) : b[j] = s[i + j - 1]
    BY <1>1
  <2>3. u = c \o b
    BY <1>2
  <2> HIDE DEF a, b
  <2>4. c \in Seq(Item) /\ Len(c) = i /\ \A j \in 1..i : c[j] = IF j < i THEN a[j] ELSE x
    BY <2>1
  <2> HIDE DEF c
  <2>5. u \in Seq(Item) /\ Len(u) = Len(s) + 1
    BY <1>1, <2>2, <2>3, <2>4
  <2>6. \A j \in 1..Len(u) : u[j] = IF j <= i THEN c[j] ELSE b[j - i]
    BY <1>1, <2>2, <2>3, <2>4, <2>5
  <2>7. ASSUME NEW j \in 1..Len(u)
        PROVE  u[j] = IF j < i THEN s[j] ELSE IF j = i THEN x ELSE s[j - 1]
    <3>1. CASE j < i
      BY <1>1, <2>1, <2>4, <2>5, <2>6, <3>1
    <3>2. CASE j = i
      BY <1>1, <2>4, <2>5, <2>6, <3>2
    <3>3. CASE j > i
      <4>1. j - i \in 1..(Len(s) - i + 1) /\ i + (j - i) - 1 = j - 1
        BY <1>1, <2>5, <3>3
      <4>2. b[j - i] = s[j - 1]
        BY <2>2, <4>1
      <4> QED BY <2>5, <2>6, <3>3, <4>2
    <3> QED BY <2>5, <3>1, <3>2, <3>3
  <2> QED BY <2>5, <2>7
<1>4. \A j \in 1..Len(s) : s[j] # x
  BY <1>1 DEF Rows!Elems
<1>5. \A p, q \in 1..Len(u) : u[p] = u[q] => p = q
  BY <1>1, <1>3, <1>4 DEF IsList
<1> QED BY <1>3, <1>5 DEF IsList, u

(* The rows by their ranks are a list of all of them.                       *)
LEMMA ListedIsList ==
    ASSUME NEW f, IsFiniteSet(DOMAIN f), DOMAIN f \subseteq Item, NEW rank,
           \A x \in DOMAIN f : rank[x] = Cardinality({y \in DOMAIN f : f[y] < f[x]}),
           Numbered(DOMAIN f, rank)
    PROVE  IsList(Rows!Listed(f)) /\ Rows!Elems(Rows!Listed(f)) = DOMAIN f
<1> DEFINE D == DOMAIN f
           n == Cardinality(D)
           s == Rows!Listed(f)
<1>1. n \in Nat
  BY FS_CardinalityType
<1>2. s = [i \in 1..n |-> CHOOSE x \in D : Cardinality({y \in D : f[y] < f[x]}) = i - 1]
  BY DEF Rows!Listed, Rows!Cardinality, Cardinality
<1>3. \A i \in 1..n : s[i] \in D /\ rank[s[i]] = i - 1
  <2> SUFFICES ASSUME NEW i \in 1..n PROVE s[i] \in D /\ rank[s[i]] = i - 1
    OBVIOUS
  <2>1. i - 1 \in 0..(n - 1)
    BY <1>1
  <2>2. PICK x \in D : rank[x] = i - 1
    BY <2>1 DEF Numbered
  <2>3. Cardinality({y \in D : f[y] < f[x]}) = i - 1
    BY <2>2
  <2>4. s[i] = CHOOSE z \in D : Cardinality({y \in D : f[y] < f[z]}) = i - 1
    BY <1>2
  <2>5. s[i] \in D /\ Cardinality({y \in D : f[y] < f[s[i]]}) = i - 1
    BY <2>3, <2>4, Zenon
  <2> QED BY <2>5
<1>4. \A x, y \in D : rank[x] = rank[y] => x = y
  <2>1. {rank[x] : x \in D} = 0..(n - 1)
    BY DEF Numbered
  <2> HIDE DEF D
  <2> QED BY <2>1, Numbering DEF D
<1>5. s \in [1..n -> Item]
  <2>1. \A i \in 1..n : s[i] \in Item
    BY <1>3
  <2>2. s = [i \in 1..n |-> s[i]]
    BY <1>2
  <2> HIDE DEF s
  <2> QED BY <2>1, <2>2
<1>6. s \in Seq(Item) /\ Len(s) = n /\ DOMAIN s = 1..n
  <2> HIDE DEF s
  <2> QED BY <1>1, <1>5
<1>7. \A x \in D : \E i \in 1..n : s[i] = x
  <2> SUFFICES ASSUME NEW x \in D PROVE \E i \in 1..n : s[i] = x
    OBVIOUS
  <2>1. rank[x] + 1 \in 1..n
    BY <1>1 DEF Numbered
  <2>2. s[rank[x] + 1] \in D /\ rank[s[rank[x] + 1]] = rank[x]
    BY <1>1, <1>3, <2>1 DEF Numbered
  <2> QED BY <1>4, <2>1, <2>2
<1> HIDE DEF s
<1>8. \A i, j \in 1..Len(s) : s[i] = s[j] => i = j
  BY <1>1, <1>3, <1>6
<1>9. Rows!Elems(s) = D
  BY <1>3, <1>6, <1>7 DEF Rows!Elems
<1> QED BY <1>6, <1>8, <1>9 DEF IsList, s

(* Distinct numbers below the number of rows number them all.               *)
LEMMA DistinctNumbers ==
    ASSUME NEW D, IsFiniteSet(D), NEW f, DOMAIN f = D, Rows!Distinct(f),
           \A x \in D : f[x] \in 0..(Cardinality(D) - 1)
    PROVE  Numbered(D, f)
<1> DEFINE n == Cardinality(D)
           g == [x \in D |-> f[x]]
<1>1. n \in Nat
  BY FS_CardinalityType
<1>2. g \in Injection(D, 0..(n - 1))
  BY DEF Injection, IsInjective, Rows!Distinct
<1>3. IsFiniteSet(0..(n - 1)) /\ Cardinality(0..(n - 1)) = n
  BY <1>1, FS_Interval
<1>4. g \in Surjection(D, 0..(n - 1))
  BY <1>2, <1>3, FS_Injection
<1> QED BY <1>4 DEF Surjection, Numbered

(* The places of a list of some of the rows are below their number.         *)
LEMMA PlacesFit ==
    ASSUME NEW s, IsList(s), NEW D, IsFiniteSet(D), Rows!Elems(s) \subseteq D,
           NEW x \in Rows!Elems(s)
    PROVE  Rows!Places(s)[x] \in 0..(Cardinality(D) - 1)
<1> DEFINE k == CHOOSE i \in DOMAIN s : s[i] = x
           g == [i \in 1..Len(s) |-> s[i]]
<1>1. Len(s) \in Nat /\ DOMAIN s = 1..Len(s)
  BY DEF IsList
<1>2. g \in Injection(1..Len(s), D)
  BY <1>1 DEF Injection, IsInjective, IsList, Rows!Elems
<1>3. Len(s) <= Cardinality(D)
  <2>1. Cardinality(1..Len(s)) <= Cardinality(D)
    BY <1>2, FS_Injection
  <2>2. Cardinality(1..Len(s)) = Len(s)
    BY SMTT(30), <1>1, FS_Interval
  <2> QED BY <2>1, <2>2
<1>4. k \in 1..Len(s)
  BY <1>1 DEF Rows!Elems
<1>5. Rows!Places(s)[x] = k - 1
  BY DEF Rows!Places
<1>6. Cardinality(D) \in Nat
  BY FS_CardinalityType
<1> HIDE DEF k
<1> QED BY <1>1, <1>3, <1>4, <1>5, <1>6

(* Renumbering rows by a list of some of them, if it goes through.          *)
LEMMA RenumberedRows ==
    ASSUME NEW f, IsFiniteSet(DOMAIN f), NEW s, IsList(s), Rows!Elems(s) \subseteq DOMAIN f,
           \A x \in DOMAIN f \ Rows!Elems(s) : f[x] \in 0..(Cardinality(DOMAIN f) - 1),
           Rows!Distinct(Rows!Renumbered(f, s))
    PROVE  Numbered(DOMAIN f, Rows!Renumbered(f, s))
<1> DEFINE D == DOMAIN f
           g == Rows!Renumbered(f, s)
<1>1. DOMAIN g = D /\ \A x \in D : g[x] = IF x \in Rows!Elems(s) THEN Rows!Places(s)[x] ELSE f[x]
  BY DEF Rows!Renumbered
<1>2. \A x \in D : g[x] \in 0..(Cardinality(D) - 1)
  BY <1>1, PlacesFit
<1> HIDE DEF g
<1>3. Numbered(D, g)
  BY <1>1, <1>2, DistinctNumbers DEF g
<1> QED BY <1>3 DEF g

(* What GET lists of rows numbered from zero is a list of all of them.      *)
LEMMA NumberedAreListed ==
    ASSUME NEW f, IsFiniteSet(DOMAIN f), DOMAIN f \subseteq Item, Numbered(DOMAIN f, f)
    PROVE  IsList(Rows!Listed(f))
<1>1. PICK D : D = DOMAIN f
  OBVIOUS
<1>2. {f[x] : x \in D} = 0..(Cardinality(D) - 1)
  BY <1>1 DEF Numbered
<1>3. \A k \in 0..Cardinality(D) : Cardinality({e \in D : f[e] < k}) = k
  BY <1>1, <1>2, Numbering
<1>4. Cardinality(D) \in Nat
  BY <1>1, FS_CardinalityType
<1>5. \A x \in D : f[x] \in 0..Cardinality(D)
  BY <1>1, <1>4 DEF Numbered
<1>6. \A x \in DOMAIN f : f[x] = Cardinality({y \in DOMAIN f : f[y] < f[x]})
  BY <1>1, <1>3, <1>5
<1> QED BY <1>6, ListedIsList

(* What GET lists of the rows without one of them.                          *)
LEMMA RestIsListed ==
    ASSUME NEW f, IsFiniteSet(DOMAIN f), DOMAIN f \subseteq Item, Numbered(DOMAIN f, f),
           NEW x \in DOMAIN f
    PROVE  LET s == Rows!Listed(Rows!Without(f, x))
           IN  IsList(s) /\ Rows!Elems(s) = DOMAIN f \ {x}
<1>1. PICK D, g, R : D = DOMAIN f /\ g = Rows!Without(f, x) /\ R = D \ {x}
  OBVIOUS
<1>2. DOMAIN g = R /\ \A y \in R : g[y] = f[y]
  BY <1>1 DEF Rows!Without
<1>3. PICK below : below = [d \in R |-> {e \in R : f[e] < f[d]}]
  OBVIOUS
<1>4. PICK rank : rank = [d \in R |-> Cardinality(below[d])]
  OBVIOUS
<1>5. RankedBy(R, f, below, rank)
  BY <1>3, <1>4 DEF RankedBy
<1>6. Numbered(R, rank)
  BY <1>1, <1>5, ClosedUp
<1>7. \A d \in DOMAIN g : rank[d] = Cardinality({e \in DOMAIN g : g[e] < g[d]})
  <2> SUFFICES ASSUME NEW d \in R PROVE rank[d] = Cardinality({e \in R : g[e] < g[d]})
    BY <1>2
  <2>1. {e \in R : g[e] < g[d]} = below[d]
    BY <1>2, <1>3
  <2> QED BY <1>4, <2>1
<1>8. IsFiniteSet(R) /\ R \subseteq Item
  BY <1>1, FS_RemoveElement
<1> QED BY <1>1, <1>2, <1>6, <1>7, <1>8, ListedIsList

(* The next number is the number of the rows.                               *)
LEMMA NextPlaceIsCount ==
    ASSUME NEW f, IsFiniteSet(DOMAIN f), Numbered(DOMAIN f, f)
    PROVE  Rows!NextPlace(f) = Cardinality(DOMAIN f)
<1> DEFINE n == Cardinality(DOMAIN f)
<1>1. n \in Nat
  BY FS_CardinalityType
<1>2. CASE DOMAIN f = {}
  BY <1>2, FS_EmptySet DEF Rows!NextPlace
<1>3. CASE DOMAIN f # {}
  <2>1. n # 0
    BY <1>3, FS_EmptySet
  <2>2. \A i : i \in Rows!Used(f) <=> i \in 0..(n - 1)
    BY DEF Rows!Used, Numbered
  <2>3. PICK i : i = CHOOSE k \in Rows!Used(f) : \A j \in Rows!Used(f) : j <= k
    OBVIOUS
  <2>4. n - 1 \in Rows!Used(f) /\ \A j \in Rows!Used(f) : j <= n - 1
    BY <1>1, <2>1, <2>2
  <2>5. i \in Rows!Used(f) /\ \A j \in Rows!Used(f) : j <= i
    BY <2>3, <2>4
  <2>6. i = n - 1
    BY <1>1, <2>2, <2>4, <2>5
  <2>7. Rows!NextPlace(f) = 1 + i
    BY <1>3, <2>3, Zenon DEF Rows!NextPlace
  <2> QED BY <1>1, <2>6, <2>7
<1> QED BY <1>2, <1>3

(* The stored rows are finitely many.                                        *)
LEMMA FiniteRows == RowsShape => IsFiniteSet(DOMAIN rows)
<1>1. IsFiniteSet(Item)
  BY PartsAssumption DEF Rows!OrderedRowsAssumption, Rows!IsFiniteSet, IsFiniteSet
<1> QED BY <1>1, FS_Subset DEF RowsShape

(* A mutation moves on and writes nothing.                                  *)
LEMMA MutationMoves ==
    ASSUME ListsShape, Even, UNCHANGED <<rows, top>>, NEW r \in Mutation, NEW q,
           calls' = [calls EXCEPT ![r] = q],
           \A t \in Tab : IsList(meta'[t]) /\ IsList(act'[t].list),
           IsList(q.list), IsList(q.prev),
           q.pc = "insert" => q.index \in 0..Cardinality(DOMAIN rows),
           q.pc = "renumber" => /\ q.row \in DOMAIN rows
                                /\ Rows!Elems(q.list) = DOMAIN rows \ {q.row}
    PROVE  Even'
<1>1. \A s \in Mutation : calls'[s] = IF s = r THEN q ELSE calls[s]
  BY DEF ListsShape
<1>2. RowsShape' /\ Numbered(DOMAIN rows, rows)'
  BY DEF Even, RowsShape, Numbered
<1>3. NumbersFit'
  BY <1>1 DEF Even, NumbersFit
<1>4. RemovalsKnow'
  BY <1>1 DEF Even, RemovalsKnow
<1>5. ListsProper'
  BY <1>1 DEF Even, ListsProper
<1> QED BY <1>2, <1>3, <1>4, <1>5 DEF Even

(* A mutation writes rows, and is done.                                     *)
LEMMA RowsWritten ==
    ASSUME ListsShape, Even, NEW r \in Mutation, Rows!Goto(r, "ok"), UNCHANGED <<meta, act>>,
           RowsShape', NEW D, NEW f, D = DOMAIN rows', f = rows', Numbered(D, f),
           \A s \in Mutation \ {r} :
               calls[s].pc = "insert" => calls[s].index \in 0..Cardinality(D),
           \A s \in Mutation \ {r} :
               calls[s].pc = "renumber" => /\ calls[s].row \in D
                                           /\ Rows!Elems(calls[s].list) = D \ {calls[s].row}
    PROVE  Even'
<1>1. PICK q : q = [calls[r] EXCEPT !.pc = "ok"] /\ calls' = [calls EXCEPT ![r] = q]
  BY DEF Rows!Goto
<1>2. \A s \in Mutation : calls'[s] = IF s = r THEN q ELSE calls[s]
  BY <1>1 DEF ListsShape
<1>3. Shaped(q) /\ q.pc = "ok" /\ q.list = calls[r].list /\ q.prev = calls[r].prev
  BY <1>1 DEF ListsShape, Shaped
<1>4. Numbered(DOMAIN rows, rows)'
  BY DEF Numbered
<1>5. NumbersFit'
  BY <1>2, <1>3 DEF NumbersFit
<1>6. RemovalsKnow'
  BY <1>2, <1>3 DEF RemovalsKnow
<1>7. ListsProper'
  BY <1>2, <1>3 DEF Even, ListsProper
<1> QED BY <1>4, <1>5, <1>6, <1>7 DEF Even

(* A tab starts a mutation.                                                 *)
LEMMA StartedEven ==
    ASSUME ListsShape, Even, NEW t \in Tab, NEW r \in Mutation, Rows!Mutate(t, r)
    PROVE  Even'
<1>1. ASSUME NEW q, NEW s, Rows!Start(t, r, q), Rows!Plainly \/ Rows!Optimistically(t, s), IsList(s),
             q.pc \notin {"insert", "renumber"}, IsList(q.list), IsList(q.prev)
      PROVE  Even'
  <2>1. /\ \A u \in Tab : meta'[u] = meta[u] \/ meta'[u] = s
        /\ \A u \in Tab : act'[u] = act[u] \/ act'[u] = Rows!NoFetch
    BY <1>1 DEF Rows!Plainly, Rows!Optimistically, ListsShape
  <2>2. IsList(<<>>) /\ Rows!NoFetch.list = <<>>
    BY DEF IsList, Rows!NoFetch
  <2>3. \A u \in Tab : IsList(meta'[u]) /\ IsList(act'[u].list)
    BY <1>1, <2>1, <2>2 DEF Even, ListsProper
  <2>4. UNCHANGED <<rows, top>> /\ calls' = [calls EXCEPT ![r] = q]
    BY <1>1 DEF Rows!Start
  <2> QED BY <1>1, <2>3, <2>4, MutationMoves
<1>2. IsList(<<>>) /\ IsList(meta[t])
  BY DEF IsList, Even, ListsProper
<1>3. CASE Rows!Post(t, r)
  <2>1. PICK q : q = [Rows!Idle EXCEPT !.pc = "max", !.tab = t, !.op = "create"]
    OBVIOUS
  <2>2. Rows!Start(t, r, q) /\ Rows!Plainly
    BY <1>3, <2>1 DEF Rows!Post
  <2>3. q.pc = "max" /\ q.list = <<>> /\ q.prev = <<>>
    BY <2>1 DEF Rows!Idle
  <2> QED BY <1>1, <1>2, <2>2, <2>3
<1>4. ASSUME NEW x, NEW i, Rows!Patch(t, r, x, i) PROVE Even'
  <2>1. PICK q : q = [Rows!Idle EXCEPT !.pc = "update", !.tab = t, !.op = "place", !.row = x, !.index = i]
    OBVIOUS
  <2>2. Rows!Start(t, r, q) /\ Rows!Plainly
    BY <1>4, <2>1 DEF Rows!Patch
  <2>3. q.pc = "update" /\ q.list = <<>> /\ q.prev = <<>>
    BY <2>1 DEF Rows!Idle
  <2> QED BY <1>1, <1>2, <2>2, <2>3
<1>5. ASSUME NEW x, \/ Rows!DeleteChapter(t, r, x) \/ Rows!DeleteCharacter(t, r, x)
                    \/ Rows!DeleteOutlineItem(t, r, x)
      PROVE  Even'
  <2>1. PICK q : q = Rows!DeleteRequest(t, x)
    OBVIOUS
  <2>2. PICK s : s = Rows!Dropped(meta[t], x)
    OBVIOUS
  <2>3. /\ Rows!Start(t, r, q) /\ x \in Rows!Elems(meta[t])
        /\ Rows!Plainly \/ Rows!Optimistically(t, s)
    BY <1>5, <2>1, <2>2 DEF Rows!DeleteChapter, Rows!DeleteCharacter, Rows!DeleteOutlineItem, Rows!Dropping
  <2>4. IsList(s)
    BY <1>2, <2>2, <2>3, DroppedList
  <2>5. q.pc = "delete" /\ q.list = <<>> /\ q.prev = meta[t]
    BY <2>1 DEF Rows!Idle, Rows!DeleteRequest
  <2> QED BY <1>1, <1>2, <2>3, <2>4, <2>5
<1>6. ASSUME NEW x, NEW i, Rows!Drag(t, r, x, i) PROVE Even'
  <2>1. PICK d : d = Rows!Dropped(meta[t], x)
    OBVIOUS
  <2>2. PICK s, q : /\ s = Rows!InsertAt(d, i, x)
                    /\ q = [Rows!Idle EXCEPT !.pc = "check", !.tab = t, !.op = "reorder", !.list = s,
                                             !.prev = meta[t]]
                    /\ Rows!Start(t, r, q) /\ Rows!Optimistically(t, s)
    BY <1>6, <2>1 DEF Rows!Drag, Rows!Moved
  <2>3. x \in Rows!Elems(meta[t]) /\ i \in DOMAIN meta[t]
    BY <1>6 DEF Rows!Drag
  <2>4. /\ IsList(d) /\ x \notin Rows!Elems(d) /\ Len(d) = Len(meta[t]) - 1
    BY <1>2, <2>1, <2>3, DroppedList
  <2>5. x \in Item /\ i \in 1..(Len(d) + 1)
    BY <1>2, <2>3, <2>4 DEF IsList, Rows!Elems
  <2>6. IsList(s)
    BY <2>2, <2>4, <2>5, InsertedList
  <2>7. q.pc = "check" /\ q.list = s /\ q.prev = meta[t]
    BY <2>2 DEF Rows!Idle
  <2> QED BY <1>1, <1>2, <2>2, <2>6, <2>7
<1> QED
  BY <1>3, <1>4, <1>5, <1>6
  DEF Rows!Mutate, Rows!PostChapter, Rows!PostCharacter, Rows!PostOutlineItem, Rows!PatchChapter,
      Rows!PatchOutlineItem, Rows!DragChapter, Rows!DragCharacter, Rows!DragOutlineItem

(* A step of the server for a mutation, while nothing has raced.            *)
LEMMA ServedEven ==
    ASSUME ListsShape, Even, story # "outline", ~perils', NEW r \in Mutation, Rows!Serves(r)
    PROVE  Even'
<1> DEFINE n == Cardinality(DOMAIN rows)
<1>0. /\ Shaped(calls[r]) /\ IsList(calls[r].list) /\ IsList(calls[r].prev)
      /\ IsFiniteSet(DOMAIN rows) /\ n \in Nat
  BY FiniteRows, FS_CardinalityType DEF ListsShape, Even, ListsProper
<1>1. ASSUME NEW q, calls' = [calls EXCEPT ![r] = q], UNCHANGED <<rows, top>>, Rows!Server,
             q.pc \notin {"insert", "renumber"}, q.list = calls[r].list, q.prev = calls[r].prev
      PROVE  Even'
  <2>1. \A t \in Tab : IsList(meta'[t]) /\ IsList(act'[t].list)
    BY <1>1 DEF Rows!Server, Even, ListsProper
  <2> QED BY <1>0, <1>1, <2>1, MutationMoves
<1>2. ASSUME NEW l, l \notin {"insert", "renumber"}, Rows!Goto(r, l), UNCHANGED <<rows, top>>, Rows!Server
      PROVE  Even'
  <2>1. PICK q : q = [calls[r] EXCEPT !.pc = l] /\ calls' = [calls EXCEPT ![r] = q]
    BY <1>2 DEF Rows!Goto
  <2>2. q.pc = l /\ q.list = calls[r].list /\ q.prev = calls[r].prev
    BY <1>0, <2>1 DEF Shaped
  <2> QED BY <1>1, <1>2, <2>1, <2>2
<1>3. ASSUME Rows!Fails(r), Rows!Server PROVE Even'
  BY <1>2, <1>3 DEF Rows!Fails
<1>4. CASE Rows!ReadMax(r)
  <2>1. PICK q : /\ q = [calls[r] EXCEPT !.pc = "insert", !.index = Rows!NextPlace(rows)]
                 /\ calls' = [calls EXCEPT ![r] = q]
    BY <1>4 DEF Rows!ReadMax
  <2>2. q.pc = "insert" /\ q.index = n /\ q.list = calls[r].list /\ q.prev = calls[r].prev
    <3>1. PICK w : w = [calls[r] EXCEPT !.pc = "insert"]
      OBVIOUS
    <3>2. Shaped(w) /\ w.pc = "insert" /\ w.list = calls[r].list /\ w.prev = calls[r].prev
      BY <1>0, <3>1 DEF Shaped
    <3>3. q = [w EXCEPT !.index = n]
      BY <1>0, <2>1, <3>1, NextPlaceIsCount DEF Even
    <3> QED BY <3>2, <3>3 DEF Shaped
  <2>3. \A t \in Tab : IsList(meta'[t]) /\ IsList(act'[t].list)
    BY <1>4 DEF Rows!ReadMax, Rows!Server, Even, ListsProper
  <2>4. UNCHANGED <<rows, top>> /\ q.index \in 0..n
    BY <1>0, <1>4, <2>2 DEF Rows!ReadMax
  <2> QED BY <1>0, <2>1, <2>2, <2>3, <2>4, MutationMoves
<1>5. CASE Rows!InsertFails(r)
  <2>1. PICK q, m, l : /\ q = [calls[r] EXCEPT !.tries = m, !.pc = l] /\ l \in {"max", "failed"}
                       /\ calls' = [calls EXCEPT ![r] = q]
    BY <1>5 DEF Rows!InsertFails
  <2>2. q.pc = l /\ q.list = calls[r].list /\ q.prev = calls[r].prev
    <3>1. PICK w : w = [calls[r] EXCEPT !.tries = m]
      OBVIOUS
    <3>2. Shaped(w) /\ w.list = calls[r].list /\ w.prev = calls[r].prev
      BY <1>0, <3>1 DEF Shaped
    <3>3. q = [w EXCEPT !.pc = l]
      BY <2>1, <3>1
    <3> QED BY <3>2, <3>3 DEF Shaped
  <2> QED BY <1>1, <1>5, <2>1, <2>2 DEF Rows!InsertFails
<1>6. ASSUME NEW x \in Item, Rows!Insert(r, x) PROVE Even'
  <2>1. PICK D, f : D = DOMAIN rows' /\ f = rows'
    OBVIOUS
  <2>2. /\ D = DOMAIN rows \cup {x} /\ x \notin DOMAIN rows
        /\ \A y \in D : f[y] = IF y = x THEN calls[r].index ELSE rows[y]
    BY <1>6, <2>1 DEF Rows!Insert, Rows!With, Even, RowsShape
  <2>3. calls[r].index = n
    <3>1. calls[r].index \in 0..n /\ calls[r].index \notin Rows!Used(rows)
      BY <1>6 DEF Rows!Insert, Even, NumbersFit
    <3>2. \A i \in 0..(n - 1) : i \in Rows!Used(rows)
      BY DEF Even, Numbered, Rows!Used
    <3> QED BY <1>0, <3>1, <3>2
  <2>4. IsFiniteSet(D) /\ Cardinality(D) = n + 1
    BY <1>0, <2>2, FS_AddElement
  <2>5. Numbered(D, f)
    <3>1. /\ \A y \in DOMAIN rows : rows[y] \in 0..(n - 1)
          /\ \A i \in 0..(n - 1) : \E y \in DOMAIN rows : rows[y] = i
      BY DEF Even, Numbered
    <3>2. f[x] = n /\ \A y \in DOMAIN rows : f[y] = rows[y]
      BY <2>2, <2>3
    <3>3. \A y \in D : f[y] \in 0..n
      BY <1>0, <2>2, <3>1, <3>2
    <3>4. ASSUME NEW i \in 0..n PROVE \E y \in D : f[y] = i
      <4>1. CASE i = n
        BY <2>2, <3>2, <4>1
      <4>2. CASE i # n
        <5>1. i \in 0..(n - 1)
          BY <1>0, <4>2
        <5>2. PICK y \in DOMAIN rows : rows[y] = i
          BY <3>1, <5>1
        <5> QED BY <2>2, <3>2, <5>2
      <4> QED BY <4>1, <4>2
    <3>5. Cardinality(D) - 1 = n
      BY <1>0, <2>4
    <3> QED BY <3>3, <3>4, <3>5 DEF Numbered
  <2>6. RowsShape'
    BY <1>6, <2>1, <2>2 DEF Rows!Insert, Rows!With, Even, RowsShape
  <2>7. \A s \in Mutation \ {r} :
            calls[s].pc = "insert" => calls[s].index \in 0..Cardinality(D)
    BY <1>0, <2>4 DEF Even, NumbersFit
  <2>8. \A s \in Mutation \ {r} : calls[s].pc # "renumber"
    BY <1>6 DEF Rows!Insert, Rows!Overlaps
  <2> QED BY <1>6, <2>1, <2>5, <2>6, <2>7, <2>8, RowsWritten DEF Rows!Insert, Rows!Server
<1>7. CASE Rows!Place(r)
  BY <1>3, <1>7 DEF Rows!Place
<1>8. CASE Rows!CheckReorder(r)
  BY <1>2, <1>3, <1>8 DEF Rows!CheckReorder
<1>9. CASE Rows!CommitReorder(r) /\ ~Rows!Fails(r)
  <2>1. PICK D, f, s : D = DOMAIN rows' /\ f = rows' /\ s = calls[r].list
    OBVIOUS
  <2>2. /\ f = Rows!Renumbered(rows, s) /\ Rows!Elems(s) \subseteq DOMAIN rows
        /\ Rows!Distinct(Rows!Renumbered(rows, s))
    BY <1>9, <2>1 DEF Rows!CommitReorder
  <2>3. D = DOMAIN rows
    BY <2>1, <2>2 DEF Rows!Renumbered
  <2>4. Numbered(D, f)
    BY <1>0, <2>1, <2>2, <2>3, RenumberedRows DEF Even, Numbered
  <2>5. RowsShape'
    BY <1>9, <2>1, <2>2, <2>3 DEF Rows!CommitReorder, Rows!Renumbered, Even, RowsShape
  <2> QED BY <1>9, <2>1, <2>3, <2>4, <2>5, RowsWritten
          DEF Rows!CommitReorder, Rows!Server, Even, NumbersFit, RemovalsKnow
<1>10. CASE Rows!BeginRemove(r) /\ ~Rows!Fails(r)
  <2>1. PICK x, s, q : /\ x = calls[r].row /\ s = Rows!Listed(Rows!Without(rows, x))
                       /\ q = [calls[r] EXCEPT !.pc = "renumber", !.list = s]
                       /\ calls' = [calls EXCEPT ![r] = q] /\ x \in DOMAIN rows
    BY <1>10 DEF Rows!BeginRemove
  <2>2. q.pc = "renumber" /\ q.list = s /\ q.prev = calls[r].prev /\ q.row = x
    <3>1. PICK w : w = [calls[r] EXCEPT !.pc = "renumber"]
      OBVIOUS
    <3>2. Shaped(w) /\ w.pc = "renumber" /\ w.prev = calls[r].prev /\ w.row = calls[r].row
      BY <1>0, <3>1 DEF Shaped
    <3>3. q = [w EXCEPT !.list = s]
      BY <2>1, <3>1
    <3> QED BY <2>1, <3>2, <3>3 DEF Shaped
  <2>3. IsList(s) /\ Rows!Elems(s) = DOMAIN rows \ {x}
    BY <1>0, <2>1, RestIsListed DEF Even, RowsShape
  <2>4. \A t \in Tab : IsList(meta'[t]) /\ IsList(act'[t].list)
    BY <1>10 DEF Rows!BeginRemove, Rows!Server, Even, ListsProper
  <2>5. UNCHANGED <<rows, top>>
    BY <1>10 DEF Rows!BeginRemove
  <2> QED BY <1>0, <2>1, <2>2, <2>3, <2>4, <2>5, MutationMoves
<1>11. CASE Rows!CommitRemove(r) /\ ~Rows!Fails(r)
  <2>1. PICK x, g, s, D, f : /\ x = calls[r].row /\ g = Rows!Without(rows, x) /\ s = calls[r].list
                             /\ D = DOMAIN rows' /\ f = rows'
    OBVIOUS
  <2>2. /\ f = Rows!Renumbered(g, s) /\ Rows!Distinct(Rows!Renumbered(g, s))
        /\ x \in DOMAIN rows /\ Rows!Elems(s) = DOMAIN rows \ {x}
    BY <1>11, <2>1 DEF Rows!CommitRemove, Even, RemovalsKnow
  <2>3. DOMAIN g = DOMAIN rows \ {x} /\ IsFiniteSet(DOMAIN g)
    BY <1>0, <2>1, FS_RemoveElement DEF Rows!Without
  <2>4. D = DOMAIN g
    BY <2>1, <2>2 DEF Rows!Renumbered
  <2>5. Numbered(D, f)
    BY <1>0, <2>1, <2>2, <2>3, <2>4, RenumberedRows
  <2>6. RowsShape'
    BY <1>11, <2>1, <2>2, <2>3, <2>4 DEF Rows!CommitRemove, Rows!Renumbered, Even, RowsShape
  <2>7. \A q \in Mutation \ {r} : calls[q].pc # "insert"
    BY <1>11 DEF Rows!CommitRemove, Rows!Overlaps, Rows!Fails
  <2>8. ASSUME NEW q \in Mutation \ {r}, calls[q].pc = "renumber" PROVE FALSE
    <3>1. calls[q].row \in DOMAIN rows
      BY <2>8 DEF Even, RemovalsKnow
    <3>2. x # NoRow
      BY <2>2, PartsAssumption DEF Even, RowsShape, Rows!OrderedRowsAssumption
    <3>3. calls[q].row \in Rows!Touched(r)
      BY <2>1, <2>2, <3>1, <3>2 DEF Rows!Touched
    <3> QED BY <1>11, <2>8, <3>3 DEF Rows!CommitRemove, Rows!Free, Rows!Waits
  <2> QED BY <1>11, <2>1, <2>5, <2>6, <2>7, <2>8, RowsWritten DEF Rows!CommitRemove, Rows!Server
<1>12. CASE Rows!Abort(r)
  BY <1>3, <1>12 DEF Rows!Abort
<1>13. /\ Rows!CommitReorder(r) => Rows!Server
       /\ Rows!BeginRemove(r) => Rows!Server
       /\ Rows!CommitRemove(r) => Rows!Server
  BY DEF Rows!CommitReorder, Rows!BeginRemove, Rows!CommitRemove
<1>14. ~Rows!RemoveOutlineItem(r)
  BY DEF Rows!RemoveOutlineItem
<1> QED
  BY <1>3, <1>4, <1>5, <1>6, <1>7, <1>8, <1>9, <1>10, <1>11, <1>12, <1>13, <1>14
  DEF Rows!Serves, Rows!InsertChapter, Rows!InsertCharacter, Rows!InsertOutlineItem,
      Rows!UpdateChapter, Rows!UpdateOutlineItem, Rows!ReorderChapters, Rows!ReorderCharacters,
      Rows!ReorderOutline, Rows!RemoveChapter, Rows!RemoveCharacter

(* Every step of the lists keeps the numbers, as long as nothing races.     *)
LEMMA EvenStep ==
    ASSUME EvenInv, Rows!Next
    PROVE  EvenInv'
<1> USE DEF EvenInv
<1>1. ListsInv' /\ ListsShape
  BY ListsStep DEF ListsInv
<1>2. (~perils' => ~perils) /\ story' = story
  <2>1. ASSUME NEW t \in Tab, NEW r \in Mutation, Rows!Mutate(t, r)
        PROVE  (~perils' => ~perils) /\ story' = story
    <3>1. \E q : Rows!Start(t, r, q)
      BY <2>1
      DEF Rows!Mutate, Rows!PostChapter, Rows!PostCharacter, Rows!PostOutlineItem, Rows!PatchChapter,
          Rows!PatchOutlineItem, Rows!DragChapter, Rows!DragCharacter, Rows!DragOutlineItem,
          Rows!DeleteChapter, Rows!DeleteCharacter, Rows!DeleteOutlineItem, Rows!Post, Rows!Patch,
          Rows!Dropping, Rows!Drag
    <3> QED BY <3>1 DEF Rows!Start
  <2>2. ASSUME NEW r \in Mutation, Rows!Serves(r)
        PROVE  (~perils' => ~perils) /\ story' = story
    BY <2>2
    DEF Rows!Serves, Rows!InsertChapter, Rows!InsertCharacter, Rows!InsertOutlineItem,
        Rows!UpdateChapter, Rows!UpdateOutlineItem, Rows!ReorderChapters, Rows!ReorderCharacters,
        Rows!ReorderOutline, Rows!RemoveChapter, Rows!RemoveCharacter, Rows!ReadMax, Rows!InsertFails,
        Rows!Abort, Rows!Insert, Rows!Place, Rows!CheckReorder, Rows!CommitReorder, Rows!BeginRemove,
        Rows!CommitRemove, Rows!RemoveOutlineItem, Rows!Fails, Rows!Server
  <2>3. ASSUME NEW r \in Mutation, Rows!Answer(r) \/ Rows!Lose(r)
        PROVE  (~perils' => ~perils) /\ story' = story
    <3>1. PICK good : Rows!Settle(r, good)
      BY <2>3 DEF Rows!Answer, Rows!Lose
    <3> QED BY <3>1, Zenon DEF Rows!Settle
  <2>4. ASSUME NEW t \in Tab, Rows!Refetch(t) \/ Rows!Serve(t) \/ Rows!Receive(t)
        PROVE  (~perils' => ~perils) /\ story' = story
    BY <2>4 DEF Rows!Refetch, Rows!Serve, Rows!Receive
  <2> QED BY <2>1, <2>2, <2>3, <2>4 DEF Rows!Next
<1> SUFFICES ASSUME story # "outline", ~perils', Even PROVE Even'
  BY <1>1, <1>2
<1>3. ASSUME NEW t \in Tab, NEW r \in Mutation, Rows!Mutate(t, r) PROVE Even'
  BY <1>1, <1>3, StartedEven
<1>4. ASSUME NEW r \in Mutation, Rows!Serves(r) PROVE Even'
  BY <1>1, <1>4, ServedEven
<1>5. ASSUME NEW r \in Mutation, Rows!Answer(r) \/ Rows!Lose(r) PROVE Even'
  <2>1. PICK t, good :
        /\ meta' = IF Rows!RollsBack(r, good) THEN [meta EXCEPT ![t] = calls[r].prev] ELSE meta
        /\ act' = IF Rows!Refetches(r, good) THEN [act EXCEPT ![t] = Rows!Asked] ELSE act
        /\ calls' = [calls EXCEPT ![r] = Rows!Idle] /\ UNCHANGED <<rows, top>>
    BY <1>5, Zenon DEF Rows!Answer, Rows!Lose, Rows!Settle
  <2>2. /\ \A u \in Tab : meta'[u] = meta[u] \/ meta'[u] = calls[r].prev
        /\ \A u \in Tab : act'[u] = act[u] \/ act'[u] = Rows!Asked
    BY <1>1, <2>1 DEF ListsShape
  <2>3. IsList(<<>>) /\ Rows!Asked.list = <<>>
    BY DEF IsList, Rows!Asked
  <2>4. \A u \in Tab : IsList(meta'[u]) /\ IsList(act'[u].list)
    BY <2>2, <2>3 DEF Even, ListsProper
  <2>5. Rows!Idle.list = <<>> /\ Rows!Idle.prev = <<>> /\ Rows!Idle.pc = "idle"
    BY DEF Rows!Idle
  <2> QED BY <1>1, <2>1, <2>3, <2>4, <2>5, MutationMoves
<1>6. ASSUME NEW t \in Tab, Rows!Refetch(t) \/ Rows!Serve(t) \/ Rows!Receive(t) PROVE Even'
  <2>1. UNCHANGED <<rows, top, calls>>
    BY <1>6 DEF Rows!Refetch, Rows!Serve, Rows!Receive
  <2>2. IsList(<<>>) /\ IsList(Rows!Listed(rows))
    BY FiniteRows, NumberedAreListed DEF IsList, Even, RowsShape
  <2>3. ASSUME NEW u \in Tab PROVE IsList(meta'[u]) /\ IsList(act'[u].list)
    <3>1. CASE Rows!Refetch(t)
      BY <1>1, <2>2, <3>1 DEF Rows!Refetch, Rows!Asked, ListsShape, Even, ListsProper
    <3>2. CASE Rows!Serve(t)
      BY <1>1, <2>2, <3>2 DEF Rows!Serve, ListsShape, Even, ListsProper
    <3>3. CASE Rows!Receive(t)
      BY <1>1, <2>2, <3>3 DEF Rows!Receive, Rows!NoFetch, ListsShape, Even, ListsProper
    <3> QED BY <1>6, <3>1, <3>2, <3>3
  <2>4. ListsProper'
    BY <2>1, <2>3 DEF Even, ListsProper
  <2> QED BY <2>1, <2>4 DEF Even, RowsShape, Numbered, NumbersFit, RemovalsKnow
<1> QED BY <1>3, <1>4, <1>5, <1>6 DEF Rows!Next

EvenPart == part = "rows" => EvenInv

(* Chapters and characters are numbered from zero without gaps, whatever    *)
(* reorders - of stale lists, too - run into creates and removes; only a    *)
(* create and a remove past their reads together, or a row placed by        *)
(* number, break it (maxOrderIndex, reorder, remove's renumbering).         *)
THEOREM DenseCorrect == MCSpec => []DenseUnlessRaced
<1>1. MCInit => EvenPart
  <2> SUFFICES ASSUME MCInit, part = "rows" PROVE EvenInv
    BY DEF EvenPart
  <2>1. Rows!Init
    BY DEF MCInit
  <2>2. ListsInv
    BY <2>1 DEF Rows!Init, ListsInv, ListsShape, Shaped, Current, Rows!Idle, Rows!NoFetch
  <2>3. rows \in [Stored -> 0..(Cardinality(Stored) - 1)] /\ Rows!Distinct(rows)
    BY <2>1 DEF Rows!Init, Rows!Cardinality, Cardinality
  <2>4. RowsShape
    BY <2>1, <2>3, PartsAssumption DEF Rows!Init, RowsShape, Rows!OrderedRowsAssumption
  <2>5. Numbered(DOMAIN rows, rows)
    BY <2>3, <2>4, FiniteRows, DistinctNumbers
  <2>6. IsList(Rows!Listed(rows)) /\ IsList(<<>>)
    BY <2>4, <2>5, FiniteRows, NumberedAreListed DEF RowsShape, IsList
  <2>7. ListsProper
    BY <2>1, <2>6 DEF Rows!Init, ListsProper, Rows!Idle, Rows!NoFetch
  <2>8. NumbersFit /\ RemovalsKnow
    BY <2>1 DEF Rows!Init, NumbersFit, RemovalsKnow, Rows!Idle
  <2> QED BY <2>2, <2>4, <2>5, <2>7, <2>8 DEF EvenInv, Even
<1>2. EvenPart /\ [MCNext]_MCVars => EvenPart'
  <2> SUFFICES ASSUME EvenPart, [MCNext]_MCVars, part = "rows" PROVE EvenInv'
    BY DEF MCNext, MCVars, EvenPart
  <2>1. CASE Rows!Next
    BY <2>1, EvenStep DEF EvenPart
  <2>2. CASE UNCHANGED MCVars
    BY <2>2 DEF MCVars, PlacesVars, EvenPart, EvenInv, ListsInv, ListsShape, Current, WillRefetch,
       Unheard, Even, RowsShape, Numbered, NumbersFit, RemovalsKnow, ListsProper
  <2> QED BY <2>1, <2>2 DEF MCNext
<1>3. EvenPart => DenseUnlessRaced
  <2> SUFFICES ASSUME part = "rows", story # "outline", ~perils, Numbered(DOMAIN rows, rows)
               PROVE  Rows!Used(rows) = 0..(Rows!Cardinality(DOMAIN rows) - 1)
    BY DEF EvenPart, EvenInv, Even, DenseUnlessRaced, Rows!DenseUnlessRaced
  <2> QED BY DEF Numbered, Rows!Used, Rows!Cardinality, Cardinality
<1> QED BY <1>1, <1>2, <1>3, PTL DEF MCSpec

-----------------------------------------------------------------------------
(* What the editor shows.  Draft numbers run to top; a cached draft list    *)
(* names drafts that were created, the active one among them.               *)
ListShape(list) == list = Places!Unloaded \/ list \subseteq Places!ChapterId
OnePair(s) ==
    s = {} \/ \E c \in Places!ChapterId, d \in Places!DraftId : s = {<<c, d>>}
ViewType ==
    /\ top \in [Places!ChapterId -> 0..MaxDraft] /\ act \in [Places!ChapterId -> 0..MaxDraft]
    /\ story \in Places!Stories /\ cur \in Places!ChapterId \cup {Places!None}
    /\ rows \in [Places!Stories -> SUBSET (Places!ChapterId \cup {Places!None})]
    /\ meta \in [Places!ChapterId -> [ids : SUBSET Places!DraftId, act : 0..MaxDraft]]
ListsShaped == \A s \in Places!Stories : ListShape(rows[s])
SelectsOne == OnePair(sel)
NumbersRun ==
    /\ \A c \in Places!ChapterId : top[c] = 0 => act[c] = Places!None
    /\ \A c \in Places!ChapterId, d \in Places!DraftId : <<c, d>> \in gone => d <= top[c]
MetaKnown ==
    \A c \in Places!ChapterId :
       /\ \A d \in meta[c].ids : d <= top[c]
       /\ meta[c] = Places!NoMeta \/ meta[c].act \in meta[c].ids
PlacesCall ==
    [k : {"add", "removeChapter", "fork", "removeDraft", "activate"},
     c : Places!ChapterId \cup {Places!None}, d : 0..MaxDraft, st : {"asked", "ok", "failed"},
     seen : Places!ChapterId \cup {Places!None}, before : SUBSET Places!ChapterId]
KnownCall(k) ==
    /\ k \in PlacesCall
    /\ k.k # "add" => k.c \in Places!ChapterId
    /\ k.k = "removeDraft" => k.d \in Places!DraftId /\ k.d <= top[k.c]
    /\ k.k = "activate" => k.d \in Places!DraftId
    /\ k.k = "fork" /\ k.st = "ok" => k.d \in Places!DraftId
CallsKnown == \A k \in calls : KnownCall(k)
ViewShape ==
    ViewType /\ ListsShaped /\ SelectsOne /\ NumbersRun /\ MetaKnown /\ CallsKnown

(* With a list the active chapter is one of it, if it has any.              *)
CurListed ==
    Places!Loaded => cur \in rows[story] \/ (rows[story] = {} /\ cur = Places!None)

(* A chapter's active draft is never deleted, and a selected one only by a  *)
(* request whose answer will clear the selection, unless it is a danger of  *)
(* the list; what a fork created nobody here has asked to delete.           *)
Deleting(c, d) ==
    \E k \in calls : k.k = "removeDraft" /\ k.st = "ok" /\ k.c = c /\ k.d = d
ActiveLives == \A c \in Places!ChapterId : Places!Lives(c) => act[c] \in Places!Drafts(c)
SelectionLives ==
    \A c \in Places!ChapterId, d \in Places!DraftId :
       sel = {<<c, d>>} => d \in Places!Drafts(c) \/ Deleting(c, d)
ForkLives == \A k \in calls : k.k = "fork" /\ k.st = "ok" => k.d \in Places!Drafts(k.c)
ForkApart ==
    \A k, j \in calls :
       k.k = "fork" /\ k.st = "ok" /\ j.k = "removeDraft" /\ j.st = "asked"
         => j.c # k.c \/ j.d # k.d
DraftsLive ==
    /\ ActiveLives /\ ForkApart
    /\ "dead" \notin perils => SelectionLives /\ ForkLives

(* The choice is what is shown.  A choice that follows the active draft is  *)
(* of a chapter whose cached active draft is the server's, with no          *)
(* activation under way.                                                    *)
SelectedHere == sel = {} \/ \E d \in Places!DraftId : sel = {<<cur, d>>}
ChoiceHere ==
    \/ choice[1] = cur
    \/ rows[story] = Places!Unloaded /\ choice[1] = Places!None /\ choice[2] = Places!None
ChoiceShown == choice[2] # Places!None => choice[2] = Places!Shown[2]
Undisturbed(c) ==
    meta[c].act = act[c] /\ \A k \in calls : k.k = "activate" => k.c # c
FollowsSettled ==
    choice[2] # Places!None /\ sel = {} /\ cur # Places!None => Undisturbed(cur)
Chosen == SelectedHere /\ ChoiceHere /\ ChoiceShown /\ FollowsSettled
Calm == perils \cap {"unlisted", "thrown", "followed"} = {}
ViewInv == ViewShape /\ CurListed /\ DraftsLive /\ (Calm => Chosen)

(* The numbers of chapters and drafts.                                      *)
LEMMA PlaceNumbers ==
    /\ MaxChapter \in Nat /\ MaxDraft \in Nat
    /\ Places!ChapterId \subseteq Nat \ {0} /\ Places!DraftId = 1..MaxDraft
    /\ Places!None = 0 /\ Places!Unloaded = {0}
    /\ Places!None \notin Places!ChapterId /\ Places!None \notin Places!DraftId
BY PartsAssumption
   DEF Places!NavigationAssumption, Places!ChapterId, Places!DraftId, Places!None, Places!Unloaded,
       Places!Far

(* A set of numbers has a first one.                                        *)
LEMMA LowestOf ==
    ASSUME NEW T, T \subseteq Nat, T # {}
    PROVE  Places!Min(T) \in T
<1>1. \E x \in T : \A y \in T : ~ (<<y, x>> \in OpToRel(<, Nat))
  BY NatLessThanWellFounded, WFMin
<1>2. \A x, y \in T : x <= y <=> ~ (y < x)
  BY SMT
<1>3. \A x, y \in T : y < x => <<y, x>> \in OpToRel(<, Nat)
  BY DEF OpToRel
<1>4. \E x \in T : \A y \in T : x <= y
  BY <1>1, <1>2, <1>3
<1> QED BY <1>4 DEF Places!Min

(* What is shown of a selection of this chapter, and of none.               *)
LEMMA ShownOf ==
    ASSUME NEW c, NEW m
    PROVE  /\ \A d \in Places!DraftId : Places!ShownDraft(c, {<<c, d>>}, m) = d
           /\ Places!ShownDraft(c, {}, m) = IF c = Places!None THEN Places!None ELSE m[c].act
<1>1. ASSUME NEW d \in Places!DraftId PROVE Places!ShownDraft(c, {<<c, d>>}, m) = d
  <2>1. (CHOOSE p \in {<<c, d>>} : TRUE) = <<c, d>>
    OBVIOUS
  <2> QED BY <2>1 DEF Places!ShownDraft
<1>2. \A d \in Places!DraftId : {} # {<<c, d>>}
  OBVIOUS
<1> QED BY <1>1, <1>2 DEF Places!ShownDraft

(* The page keeps a chapter that is listed, and goes to the first one       *)
(* otherwise.                                                               *)
LEMMA ResolvedListed ==
    ASSUME NEW c \in Places!ChapterId \cup {Places!None}, NEW list, ListShape(list)
    PROVE  /\ Places!Resolved(c, list) \in Places!ChapterId \cup {Places!None}
           /\ list # Places!Unloaded =>
                \/ Places!Resolved(c, list) \in list
                \/ list = {} /\ Places!Resolved(c, list) = Places!None
<1>1. list # Places!Unloaded /\ list # {} => Places!Min(list) \in list
  BY LowestOf, PlaceNumbers DEF ListShape
<1> QED BY <1>1 DEF Places!Resolved, ListShape

(* Wherever the page lands, of a selection only what is of that chapter is  *)
(* kept, and all of it if the page stays.                                   *)
LEMMA Landed ==
    ASSUME NEW c \in Places!ChapterId \cup {Places!None}, NEW s, NEW list, ListShape(list),
           Places!Lands(c, s, list)
    PROVE  /\ cur' \in Places!ChapterId \cup {Places!None}
           /\ list # Places!Unloaded => cur' \in list \/ (list = {} /\ cur' = Places!None)
           /\ list = Places!Unloaded \/ c \in list => cur' = c
           /\ sel' \subseteq s
           /\ cur' = cur /\ cur = c => sel' = s
           /\ ~ (cur' = cur /\ cur = c) => \A p \in sel' : p[1] = cur'
<1>1. cur' = Places!Resolved(c, list)
      /\ sel' = Places!Kept(Places!Kept(s, cur, c), c, Places!Resolved(c, list))
  BY DEF Places!Lands
<1>2. list = Places!Unloaded \/ c \in list => cur' = c
  BY <1>1 DEF Places!Resolved
<1>3. /\ sel' \subseteq s
      /\ cur' = cur /\ cur = c => sel' = s
      /\ ~ (cur' = cur /\ cur = c) => \A p \in sel' : p[1] = cur'
  BY <1>1 DEF Places!Kept
<1> QED BY <1>1, <1>2, <1>3, ResolvedListed

(* Part of a selection of one draft, or none, is such a selection.          *)
LEMMA PartOfPair ==
    ASSUME NEW s, NEW t, OnePair(s), t \subseteq s
    PROVE  OnePair(t) /\ (t = {} \/ t = s)
BY DEF OnePair

(* The page lands in shape.                                                 *)
LEMMA LandedShape ==
    ASSUME NEW c \in Places!ChapterId \cup {Places!None}, NEW s, OnePair(s),
           ListsShaped', story' \in Places!Stories, Places!Lands(c, s, rows'[story'])
    PROVE  /\ cur' \in Places!ChapterId \cup {Places!None}
           /\ SelectsOne' /\ CurListed'
<1>1. ListShape(rows'[story'])
  BY DEF ListsShaped
<1>2. /\ cur' \in Places!ChapterId \cup {Places!None}
      /\ rows'[story'] # Places!Unloaded =>
           cur' \in rows'[story'] \/ (rows'[story'] = {} /\ cur' = Places!None)
      /\ sel' \subseteq s
  BY <1>1, Landed
<1>3. OnePair(sel')
  BY <1>2, PartOfPair
<1> QED BY <1>2, <1>3 DEF SelectsOne, OnePair, CurListed, Places!Loaded

(* What is known of a call stays so, while the numbers only grow.           *)
LEMMA StaysKnown ==
    ASSUME ViewType, ViewType', NEW k, KnownCall(k), \A c \in Places!ChapterId : top[c] <= top'[c]
    PROVE  KnownCall(k)'
<1>1. CASE k.k # "removeDraft"
  BY <1>1 DEF KnownCall
<1>2. CASE k.k = "removeDraft"
  <2>1. k.c \in Places!ChapterId /\ k.d \in Nat
    BY <1>2, PlaceNumbers DEF KnownCall
  <2>2. top \in [Places!ChapterId -> Nat] /\ top' \in [Places!ChapterId -> Nat]
    BY PlaceNumbers DEF ViewType
  <2>3. top[k.c] \in Nat /\ top'[k.c] \in Nat
    BY <2>1, <2>2
  <2>4. k.d <= top[k.c] /\ top[k.c] <= top'[k.c]
    BY <1>2, <2>1 DEF KnownCall
  <2>5. k.d <= top'[k.c]
    BY <2>1, <2>3, <2>4
  <2> QED BY <1>2, <2>5 DEF KnownCall
<1> QED BY <1>1, <1>2

(* A call that is asked for, and one that is answered.                      *)
LEMMA AskedKnown ==
    ASSUME ViewShape, ViewType', top' = top, NEW k, NEW c, NEW d, Places!Ask(k, c, d),
           k \in {"add", "removeChapter", "fork", "removeDraft", "activate"},
           k = "add" => c = Places!None, k # "add" => c \in Places!ChapterId,
           d \in Places!DraftId \cup {Places!None},
           k = "removeChapter" => Places!Loaded,
           k \in {"removeDraft", "activate"} => d \in Places!DraftId,
           k = "removeDraft" => d <= top[c]
    PROVE  CallsKnown'
<1> DEFINE new == [k |-> k, c |-> c, d |-> d, st |-> "asked",
                   seen |-> IF k \in {"removeChapter", "fork"} THEN cur ELSE Places!None,
                   before |-> IF k = "removeChapter" THEN rows[story] ELSE {}]
<1>1. calls' = calls \cup {new}
  BY DEF Places!Ask
<1>2. k = "removeChapter" => rows[story] \subseteq Places!ChapterId
  BY DEF Places!Loaded, ViewShape, ViewType, ListsShaped, ListShape
<1>3. new \in PlacesCall
  BY <1>2, PlaceNumbers DEF PlacesCall, ViewShape, ViewType
<1>4. KnownCall(new)
  BY <1>3 DEF KnownCall
<1>5. \A j : KnownCall(j)' <=> KnownCall(j)
  BY DEF KnownCall
<1> QED BY <1>1, <1>4, <1>5 DEF CallsKnown, ViewShape

LEMMA AnsweredKnown ==
    ASSUME ViewShape, ViewType', \A c \in Places!ChapterId : top[c] <= top'[c],
           NEW k \in calls, NEW st \in {"asked", "ok", "failed"}, Places!Answered(k, st),
           ~ (k.k = "fork" /\ st = "ok")
    PROVE  CallsKnown'
<1> DEFINE new == [k EXCEPT !.st = st]
<1>1. KnownCall(k)
  BY DEF ViewShape, CallsKnown
<1>2. /\ new \in PlacesCall /\ new.k = k.k /\ new.c = k.c /\ new.d = k.d /\ new.st = st
  BY <1>1 DEF KnownCall, PlacesCall
<1>3. KnownCall(new)
  BY <1>1, <1>2 DEF KnownCall
<1>4. \A j \in calls' : KnownCall(j)
  BY <1>3 DEF Places!Answered, Places!Becomes, CallsKnown, ViewShape
<1> HIDE DEF new
<1>5. \A j \in calls' : KnownCall(j)'
  <2> TAKE j \in calls'
  <2>0. PICK i : i = j
    OBVIOUS
  <2>1. KnownCall(i)
    BY <1>4, <2>0
  <2>2. KnownCall(i)'
    BY <2>1, StaysKnown DEF ViewShape
  <2> QED BY <2>0, <2>2 DEF KnownCall
<1> QED BY <1>5 DEF CallsKnown

LEMMA FewerKnown ==
    ASSUME ViewShape, top' = top, calls' \subseteq calls
    PROVE  CallsKnown'
BY DEF ViewShape, CallsKnown, KnownCall

(* What the browser does leaves the numbers alone; what the server does     *)
(* leaves the page alone.                                                   *)
LEMMA PageShape ==
    ASSUME ViewShape, UNCHANGED <<top, gone, act, meta>>, story' \in Places!Stories,
           cur' \in Places!ChapterId \cup {Places!None},
           rows' \in [Places!Stories -> SUBSET (Places!ChapterId \cup {Places!None})],
           ListsShaped', SelectsOne',
           ViewType' => CallsKnown'
    PROVE  ViewShape'
<1>1. ViewType'
  BY DEF ViewShape, ViewType
<1>2. NumbersRun' /\ MetaKnown'
  BY DEF ViewShape, NumbersRun, MetaKnown
<1> QED BY <1>1, <1>2 DEF ViewShape

LEMMA ServedShape ==
    ASSUME ViewShape, CurListed, UNCHANGED <<story, cur, sel, rows, meta>>,
           top' \in [Places!ChapterId -> 0..MaxDraft], act' \in [Places!ChapterId -> 0..MaxDraft],
           \A c \in Places!ChapterId : top[c] <= top'[c],
           NumbersRun', ViewType' => CallsKnown'
    PROVE  ViewShape' /\ CurListed'
<1>1. ViewType'
  BY DEF ViewShape, ViewType
<1>2. ListsShaped' /\ SelectsOne' /\ CurListed'
  BY DEF ViewShape, ListsShaped, SelectsOne, CurListed, Places!Loaded
<1>3. MetaKnown'
  <2> SUFFICES ASSUME NEW c \in Places!ChapterId
               PROVE  /\ \A d \in meta[c].ids : d <= top'[c]
                      /\ meta[c] = Places!NoMeta \/ meta[c].act \in meta[c].ids
    BY DEF MetaKnown
  <2>1. top[c] \in Nat /\ top'[c] \in Nat /\ top[c] <= top'[c] /\ meta[c].ids \subseteq Nat
    BY PlaceNumbers DEF ViewShape, ViewType
  <2> QED BY <2>1 DEF ViewShape, MetaKnown
<1> QED BY <1>1, <1>2, <1>3 DEF ViewShape

(* The page lands from where it was, or from a chapter or a draft that was  *)
(* chosen, and nothing of the server or of the drafts' lists changes.       *)
LEMMA LandingShape ==
    ASSUME ViewShape, NEW c \in Places!ChapterId \cup {Places!None}, NEW s, OnePair(s),
           UNCHANGED <<top, gone, act, meta>>, ListsShaped', story' \in Places!Stories,
           rows' \in [Places!Stories -> SUBSET (Places!ChapterId \cup {Places!None})],
           Places!Lands(c, s, rows'[story']), ViewType' => CallsKnown'
    PROVE  ViewShape' /\ CurListed'
<1>1. cur' \in Places!ChapterId \cup {Places!None} /\ SelectsOne' /\ CurListed'
  BY LandedShape
<1>2. ViewShape'
  BY <1>1, PageShape
<1> QED BY <1>1, <1>2

(* The user's moves keep the shapes, and the page is at a listed chapter.   *)
LEMMA MovesShape ==
    ASSUME ViewShape, CurListed,
           \/ \E c \in Places!ChapterId :
                \/ Places!SelectChapter(c)
                \/ \E d \in Places!DraftId : Places!SelectDraft(c, d)
           \/ \E s \in Places!Stories : Places!OpenStory(s)
           \/ Places!LoadRows
    PROVE  ViewShape' /\ CurListed'
<1> USE DEF Places!server, Places!counters
<1>1. ASSUME NEW c \in Places!ChapterId, Places!SelectChapter(c) PROVE ViewShape' /\ CurListed'
  <2>1. UNCHANGED <<top, gone, act, meta, story, rows, calls>> /\ Places!Lands(c, sel, rows'[story'])
    BY <1>1 DEF Places!SelectChapter
  <2>2. /\ ListsShaped' /\ OnePair(sel) /\ story' \in Places!Stories
        /\ rows' \in [Places!Stories -> SUBSET (Places!ChapterId \cup {Places!None})]
    BY <2>1 DEF ViewShape, ViewType, ListsShaped, SelectsOne
  <2>3. ViewType' => CallsKnown'
    BY <2>1, FewerKnown
  <2> QED BY <2>1, <2>2, <2>3, LandingShape
<1>2. ASSUME NEW c \in Places!ChapterId, NEW d \in Places!DraftId, Places!SelectDraft(c, d)
      PROVE  ViewShape' /\ CurListed'
  <2>1. /\ UNCHANGED <<top, gone, act, meta, story, rows, calls>>
        /\ Places!Lands(c, {<<c, d>>}, rows'[story'])
    BY <1>2 DEF Places!SelectDraft
  <2>2. /\ ListsShaped' /\ OnePair({<<c, d>>}) /\ story' \in Places!Stories
        /\ rows' \in [Places!Stories -> SUBSET (Places!ChapterId \cup {Places!None})]
    BY <2>1 DEF ViewShape, ViewType, ListsShaped, OnePair
  <2>3. ViewType' => CallsKnown'
    BY <2>1, FewerKnown
  <2> QED BY <2>1, <2>2, <2>3, LandingShape
<1>3. ASSUME NEW s \in Places!Stories, Places!OpenStory(s) PROVE ViewShape' /\ CurListed'
  <2>1. /\ UNCHANGED <<top, gone, act, meta, rows, calls>> /\ story' = s
        /\ Places!Lands(cur, sel, rows'[story'])
    BY <1>3 DEF Places!OpenStory
  <2>2. /\ ListsShaped' /\ OnePair(sel) /\ story' \in Places!Stories
        /\ cur \in Places!ChapterId \cup {Places!None}
        /\ rows' \in [Places!Stories -> SUBSET (Places!ChapterId \cup {Places!None})]
    BY <2>1 DEF ViewShape, ViewType, ListsShaped, SelectsOne
  <2>3. ViewType' => CallsKnown'
    BY <2>1, FewerKnown
  <2> QED BY <2>1, <2>2, <2>3, LandingShape
<1>4. CASE Places!LoadRows
  <2>1. /\ UNCHANGED <<top, gone, act, meta, story, calls>>
        /\ rows' = [rows EXCEPT ![story] = Places!In(story)]
        /\ Places!Lands(cur, sel, rows'[story'])
    BY <1>4 DEF Places!LoadRows
  <2>2. Places!In(story) \subseteq Places!ChapterId
    BY DEF Places!In
  <2>3. rows' \in [Places!Stories -> SUBSET (Places!ChapterId \cup {Places!None})]
    BY <2>1, <2>2 DEF ViewShape, ViewType
  <2>4. /\ ListsShaped' /\ OnePair(sel) /\ story' \in Places!Stories
        /\ cur \in Places!ChapterId \cup {Places!None}
    BY <2>1, <2>2 DEF ViewShape, ViewType, ListsShaped, ListShape, SelectsOne
  <2>5. ViewType' => CallsKnown'
    BY <2>1, FewerKnown
  <2> QED BY <2>1, <2>3, <2>4, <2>5, LandingShape
<1> QED BY <1>1, <1>2, <1>3, <1>4

(* A list of drafts that is fetched is of drafts that were created, and     *)
(* names the active one, which lives.                                       *)
LEMMA LoadMetaShape ==
    ASSUME ViewShape, CurListed, ActiveLives, NEW c \in Places!ChapterId, Places!LoadMeta(c)
    PROVE  ViewShape' /\ CurListed'
<1>1. /\ UNCHANGED <<top, gone, act, story, cur, sel, rows, calls>> /\ Places!Lives(c)
      /\ meta' = [meta EXCEPT ![c] = Places!Fetched(c)]
  BY DEF Places!LoadMeta, Places!server
<1>2. top[c] \in 0..MaxDraft /\ act[c] \in 0..MaxDraft
  BY DEF ViewShape, ViewType
<1>3. Places!Drafts(c) \subseteq Places!DraftId /\ \A d \in Places!Drafts(c) : d <= top[c]
  BY <1>2, PlaceNumbers DEF Places!Drafts
<1>4. act[c] \in Places!Drafts(c)
  BY <1>1 DEF ActiveLives
<1>5. ViewType'
  <2>1. Places!Fetched(c) \in [ids : SUBSET Places!DraftId, act : 0..MaxDraft]
    BY <1>2, <1>3 DEF Places!Fetched
  <2> QED BY <1>1, <2>1 DEF ViewShape, ViewType
<1>6. MetaKnown'
  <2> SUFFICES ASSUME NEW b \in Places!ChapterId
               PROVE  /\ \A d \in meta'[b].ids : d <= top'[b]
                      /\ meta'[b] = Places!NoMeta \/ meta'[b].act \in meta'[b].ids
    BY DEF MetaKnown, Places!NoMeta, Places!None
  <2>1. CASE b = c
    <3>1. meta'[b] = Places!Fetched(c)
      BY <1>1, <2>1 DEF ViewShape, ViewType
    <3> QED BY <1>1, <1>3, <1>4, <2>1, <3>1 DEF Places!Fetched
  <2>2. CASE b # c
    <3>1. meta'[b] = meta[b]
      BY <1>1, <2>2 DEF ViewShape, ViewType
    <3> QED BY <1>1, <3>1 DEF ViewShape, MetaKnown
  <2> QED BY <2>1, <2>2
<1>7. CallsKnown'
  BY <1>1, FewerKnown
<1>8. ListsShaped' /\ SelectsOne' /\ NumbersRun' /\ CurListed'
  BY <1>1 DEF ViewShape, ListsShaped, SelectsOne, NumbersRun, CurListed, Places!Loaded
<1> QED BY <1>5, <1>6, <1>7, <1>8 DEF ViewShape

(* Nothing but calls changes.                                               *)
LEMMA CallsShape ==
    ASSUME ViewShape, CurListed, UNCHANGED <<top, gone, act, meta, story, cur, sel, rows>>,
           ViewType' => CallsKnown'
    PROVE  ViewShape' /\ CurListed'
<1>1. /\ ListsShaped' /\ SelectsOne' /\ CurListed'
  BY DEF ViewShape, ListsShaped, SelectsOne, CurListed, Places!Loaded
<1>2. /\ story' \in Places!Stories
      /\ cur' \in Places!ChapterId \cup {Places!None}
      /\ rows' \in [Places!Stories -> SUBSET (Places!ChapterId \cup {Places!None})]
  BY DEF ViewShape, ViewType
<1>3. ViewShape'
  BY <1>1, <1>2, PageShape
<1> QED BY <1>1, <1>3

(* What is asked for is of a listed chapter and of a draft in its list.     *)
LEMMA AsksShape ==
    ASSUME ViewShape, CurListed,
           \/ Places!AddChapter
           \/ \E c \in Places!ChapterId :
                \/ Places!RemoveChapter(c) \/ Places!NewDraft(c)
                \/ \E d \in Places!DraftId : Places!RemoveDraft(c, d) \/ Places!Activate(c, d)
    PROVE  ViewShape' /\ CurListed'
<1> USE DEF Places!server, Places!browser, Places!history
<1>1. CASE Places!AddChapter
  <2>1. UNCHANGED <<top, gone, act, meta, story, cur, sel, rows>>
    BY <1>1 DEF Places!AddChapter
  <2>2. Places!Ask("add", Places!None, Places!None)
    BY <1>1 DEF Places!AddChapter
  <2>3. ViewType' => CallsKnown'
    BY <2>1, <2>2, AskedKnown
  <2> QED BY <2>1, <2>3, CallsShape
<1>2. ASSUME NEW c \in Places!ChapterId, Places!RemoveChapter(c) PROVE ViewShape' /\ CurListed'
  <2>1. /\ UNCHANGED <<top, gone, act, meta, story>> /\ c \in Places!Listed
        /\ rows' = [rows EXCEPT ![story] = rows[story] \ {c}]
        /\ Places!Lands(cur, sel, rows'[story']) /\ Places!Ask("removeChapter", c, Places!None)
    BY <1>2 DEF Places!RemoveChapter
  <2>2. Places!Loaded /\ rows[story] \subseteq Places!ChapterId
    BY <2>1, PlaceNumbers DEF Places!Loaded, Places!Listed, ViewShape, ViewType, ListsShaped, ListShape
  <2>3. rows' \in [Places!Stories -> SUBSET (Places!ChapterId \cup {Places!None})]
    BY <2>1, <2>2 DEF ViewShape, ViewType
  <2>4. /\ ListsShaped' /\ OnePair(sel) /\ story' \in Places!Stories
        /\ cur \in Places!ChapterId \cup {Places!None}
    BY <2>1, <2>2 DEF ViewShape, ViewType, ListsShaped, ListShape, SelectsOne
  <2>5. ViewType' => CallsKnown'
    BY <2>1, <2>2, AskedKnown
  <2> QED BY <2>1, <2>3, <2>4, <2>5, LandingShape
<1>3. ASSUME NEW c \in Places!ChapterId, Places!NewDraft(c) PROVE ViewShape' /\ CurListed'
  <2>1. UNCHANGED <<top, gone, act, meta, story, cur, sel, rows>>
    BY <1>3 DEF Places!NewDraft
  <2>2. Places!Ask("fork", c, Places!None)
    BY <1>3 DEF Places!NewDraft
  <2>3. ViewType' => CallsKnown'
    BY <2>1, <2>2, AskedKnown
  <2> QED BY <2>1, <2>3, CallsShape
<1>4. ASSUME NEW c \in Places!ChapterId, NEW d \in Places!DraftId, Places!RemoveDraft(c, d)
      PROVE  ViewShape' /\ CurListed'
  <2>1. UNCHANGED <<top, gone, act, meta, story, cur, sel, rows>>
    BY <1>4 DEF Places!RemoveDraft
  <2>2. Places!Ask("removeDraft", c, d) /\ d <= top[c]
    BY <1>4 DEF Places!RemoveDraft, ViewShape, MetaKnown
  <2>3. ViewType' => CallsKnown'
    BY <2>1, <2>2, AskedKnown
  <2> QED BY <2>1, <2>3, CallsShape
<1>5. ASSUME NEW c \in Places!ChapterId, NEW d \in Places!DraftId, Places!Activate(c, d)
      PROVE  ViewShape' /\ CurListed'
  <2>1. /\ UNCHANGED <<top, gone, act, meta, story, cur, rows>> /\ Places!Ask("activate", c, d)
        /\ sel' = Places!Pinned(c)
    BY <1>5 DEF Places!Activate
  <2>2. OnePair(sel')
    BY <2>1 DEF Places!Pinned, OnePair, ViewShape, ViewType, SelectsOne
  <2>3. ViewType' => CallsKnown'
    BY <2>1, AskedKnown
  <2>4. /\ ListsShaped' /\ CurListed' /\ story' \in Places!Stories
        /\ cur' \in Places!ChapterId \cup {Places!None}
        /\ rows' \in [Places!Stories -> SUBSET (Places!ChapterId \cup {Places!None})]
    BY <2>1 DEF ViewShape, ViewType, ListsShaped, CurListed, Places!Loaded
  <2>5. SelectsOne'
    BY <2>2 DEF SelectsOne, OnePair
  <2>6. ViewShape'
    BY <2>1, <2>3, <2>4, <2>5, PageShape
  <2> QED BY <2>4, <2>6
<1> QED BY <1>1, <1>2, <1>3, <1>4, <1>5

LEMMA BecameKnown ==
    ASSUME ViewShape, ViewType', \A c \in Places!ChapterId : top[c] <= top'[c],
           NEW k, NEW new, Places!Becomes(k, new),
           new \in PlacesCall, new.k \in {"add", "fork"},
           new.k = "fork" => new.c \in Places!ChapterId /\ new.d \in Places!DraftId
    PROVE  CallsKnown'
<1>1. KnownCall(new)'
  BY DEF KnownCall
<1>2. ASSUME NEW j \in calls PROVE KnownCall(j)'
  BY <1>2, StaysKnown DEF ViewShape, CallsKnown
<1>3. calls' \subseteq calls \cup {new}
  BY DEF Places!Becomes
<1> QED BY <1>1, <1>2, <1>3 DEF CallsKnown, KnownCall

(* What the server does keeps the numbers running.                          *)
LEMMA ServesShape ==
    ASSUME ViewShape, CurListed, NEW k \in calls, Places!Serve(k)
    PROVE  ViewShape' /\ CurListed'
<1>0. UNCHANGED <<story, cur, sel, rows, meta>>
  BY DEF Places!Serve, Places!browser
<1>1. KnownCall(k) /\ k \in PlacesCall
  BY DEF ViewShape, CallsKnown, KnownCall
<1>2. CASE Places!ServeAdd(k)
  <2>1. PICK c \in 1..MaxChapter :
          /\ k.k = "add" /\ top[c] = 0 /\ top' = [top EXCEPT ![c] = 1]
          /\ act' = [act EXCEPT ![c] = 1] /\ gone' = gone
          /\ Places!Becomes(k, [k EXCEPT !.c = c, !.st = "ok"])
    BY <1>2 DEF Places!ServeAdd
  <2>2. c \in Places!ChapterId /\ 1 \in 0..MaxDraft
    BY PlaceNumbers, PartsAssumption DEF Places!ChapterId, Places!Far, Places!NavigationAssumption
  <2>3. /\ top' \in [Places!ChapterId -> 0..MaxDraft] /\ act' \in [Places!ChapterId -> 0..MaxDraft]
    BY <2>1, <2>2 DEF ViewShape, ViewType
  <2>4. top \in [Places!ChapterId -> Nat]
    BY PlaceNumbers DEF ViewShape, ViewType
  <2>5. \A b \in Places!ChapterId : top[b] <= top'[b]
    BY <2>1, <2>2, <2>4
  <2>6. NumbersRun'
    <3>1. \A b \in Places!ChapterId : top'[b] = 0 => act'[b] = Places!None
      BY <2>1, <2>2, <2>4 DEF ViewShape, ViewType, NumbersRun, Places!None
    <3>2. ASSUME NEW b \in Places!ChapterId, NEW d \in Places!DraftId, <<b, d>> \in gone
          PROVE  d <= top'[b]
      <4>1. d <= top[b] /\ top[b] <= top'[b]
        BY <3>2, <2>5 DEF ViewShape, NumbersRun
      <4>2. d \in Nat /\ top[b] \in Nat /\ top'[b] \in Nat
        BY <2>3, <2>4, PlaceNumbers
      <4> QED BY <4>1, <4>2
    <3>3. \A b \in Places!ChapterId, d \in Places!DraftId : <<b, d>> \in gone' => d <= top'[b]
      BY <2>1, <3>2
    <3> QED BY <3>1, <3>3 DEF NumbersRun, Places!None, Places!DraftId
  <2>7. ViewType' => CallsKnown'
    <3> DEFINE new == [k EXCEPT !.c = c, !.st = "ok"]
    <3>1. new \in PlacesCall /\ new.k = "add"
      BY <1>1, <2>1, <2>2 DEF PlacesCall
    <3> QED BY <2>1, <2>5, <3>1, BecameKnown
  <2> QED BY <1>0, <2>3, <2>5, <2>6, <2>7, ServedShape
<1>3. CASE Places!ServeRemoveChapter(k)
  <2>1. /\ UNCHANGED <<top, act>> /\ gone' = gone \cup {<<k.c, Places!None>>}
        /\ \E st \in {"ok", "failed"} : Places!Answered(k, st)
        /\ k.k = "removeChapter"
    BY <1>3 DEF Places!ServeRemoveChapter
  <2>2. /\ top' \in [Places!ChapterId -> 0..MaxDraft] /\ act' \in [Places!ChapterId -> 0..MaxDraft]
    BY <2>1 DEF ViewShape, ViewType
  <2>3. \A b \in Places!ChapterId : top[b] <= top'[b]
    BY <2>1, PlaceNumbers DEF ViewShape, ViewType
  <2>4. NumbersRun'
    BY <2>1, PlaceNumbers DEF ViewShape, NumbersRun, Places!None, Places!DraftId
  <2>5. ViewType' => CallsKnown'
    BY <2>1, <2>3, AnsweredKnown
  <2> QED BY <1>0, <2>2, <2>3, <2>4, <2>5, ServedShape
<1>4. CASE Places!ServeFork(k)
  <2>0. k.k = "fork" /\ k.c \in Places!ChapterId /\ UNCHANGED <<gone, act>>
    BY <1>1, <1>4 DEF Places!ServeFork, KnownCall
  <2>1. act' \in [Places!ChapterId -> 0..MaxDraft]
    BY <2>0 DEF ViewShape, ViewType
  <2>2. top \in [Places!ChapterId -> Nat] /\ top[k.c] \in Nat
    <3>1. top \in [Places!ChapterId -> Nat]
      BY PlaceNumbers DEF ViewShape, ViewType
    <3> QED BY <2>0, <3>1
  <2>3. CASE Places!Lives(k.c)
    <3>1. /\ top[k.c] < MaxDraft /\ top' = [top EXCEPT ![k.c] = top[k.c] + 1]
          /\ Places!Becomes(k, [k EXCEPT !.d = top[k.c] + 1, !.st = "ok"])
      BY <1>4, <2>3 DEF Places!ServeFork
    <3>2. top[k.c] + 1 \in Places!DraftId /\ top[k.c] + 1 \in 0..MaxDraft
      BY <2>2, <3>1, PlaceNumbers
    <3>3. top' \in [Places!ChapterId -> 0..MaxDraft]
      BY <2>0, <3>1, <3>2 DEF ViewShape, ViewType
    <3>4. \A b \in Places!ChapterId : top[b] <= top'[b] /\ top[b] \in Nat /\ top'[b] \in Nat
      BY <2>0, <2>2, <3>1
    <3>5. NumbersRun'
      <4>1. \A b \in Places!ChapterId : top'[b] = 0 => act'[b] = Places!None
        BY <2>0, <2>2, <3>1 DEF ViewShape, NumbersRun
      <4>2. ASSUME NEW b \in Places!ChapterId, NEW d \in Places!DraftId, <<b, d>> \in gone
            PROVE  d <= top'[b]
        <5>1. d <= top[b] /\ d \in Nat
          BY <4>2, PlaceNumbers DEF ViewShape, NumbersRun
        <5> QED BY <3>4, <5>1
      <4>3. \A b \in Places!ChapterId, d \in Places!DraftId : <<b, d>> \in gone' => d <= top'[b]
        BY <2>0, <4>2
      <4> QED BY <4>1, <4>3 DEF NumbersRun, Places!None, Places!DraftId
    <3>6. ViewType' => CallsKnown'
      <4> DEFINE new == [k EXCEPT !.d = top[k.c] + 1, !.st = "ok"]
      <4>1. new \in PlacesCall /\ new.k = "fork" /\ new.c = k.c /\ new.d = top[k.c] + 1
        BY <1>1, <2>0, <3>2 DEF PlacesCall
      <4> HIDE DEF new
      <4>2. PICK n : n = new
        OBVIOUS
      <4>3. Places!Becomes(k, n)
        BY <3>1, <4>2 DEF new
      <4> QED BY <2>0, <3>2, <3>4, <4>1, <4>2, <4>3, BecameKnown
    <3> QED BY <1>0, <2>1, <3>3, <3>4, <3>5, <3>6, ServedShape
  <2>4. CASE ~ Places!Lives(k.c)
    <3>1. UNCHANGED <<top, gone, act>> /\ Places!Answered(k, "failed")
      BY <1>4, <2>4 DEF Places!ServeFork
    <3>2. top' \in [Places!ChapterId -> 0..MaxDraft] /\ \A b \in Places!ChapterId : top[b] <= top'[b]
      BY <3>1, PlaceNumbers DEF ViewShape, ViewType
    <3>3. NumbersRun'
      BY <3>1 DEF ViewShape, NumbersRun
    <3>4. ViewType' => CallsKnown'
      BY <3>1, <3>2, AnsweredKnown
    <3> QED BY <1>0, <2>1, <3>2, <3>3, <3>4, ServedShape
  <2> QED BY <2>3, <2>4
<1>5. CASE Places!ServeRemoveDraft(k)
  <2>1. /\ UNCHANGED <<top, act>> /\ k.k = "removeDraft"
        /\ \E st \in {"ok", "failed"} : Places!Answered(k, st)
        /\ gone' \subseteq gone \cup {<<k.c, k.d>>}
    BY <1>5 DEF Places!ServeRemoveDraft
  <2>2. k.d <= top[k.c] /\ k.d \in Places!DraftId
    BY <1>1, <2>1 DEF KnownCall
  <2>3. /\ top' \in [Places!ChapterId -> 0..MaxDraft] /\ act' \in [Places!ChapterId -> 0..MaxDraft]
        /\ \A b \in Places!ChapterId : top[b] <= top'[b]
    BY <2>1, PlaceNumbers DEF ViewShape, ViewType
  <2>4. NumbersRun'
    <3>1. ASSUME NEW b \in Places!ChapterId, NEW d \in Places!DraftId, <<b, d>> \in gone'
          PROVE  d <= top[b]
      <4>1. CASE <<b, d>> \in gone
        BY <4>1 DEF ViewShape, NumbersRun
      <4>2. CASE <<b, d>> = <<k.c, k.d>>
        BY <2>2, <4>2
      <4> QED BY <2>1, <3>1, <4>1, <4>2
    <3> QED BY <2>1, <3>1 DEF ViewShape, NumbersRun, Places!None, Places!DraftId
  <2>5. ViewType' => CallsKnown'
    BY <2>1, <2>3, AnsweredKnown
  <2> QED BY <1>0, <2>3, <2>4, <2>5, ServedShape
<1>6. CASE Places!ServeActivate(k)
  <2>1. /\ UNCHANGED <<top, gone>> /\ k.k = "activate" /\ k.c \in Places!ChapterId
        /\ \E st \in {"ok", "failed"} : Places!Answered(k, st)
        /\ \/ act' = [act EXCEPT ![k.c] = k.d] /\ Places!Lives(k.c)
           \/ act' = act
    BY <1>1, <1>6 DEF Places!ServeActivate, KnownCall
  <2>2. k.d \in 0..MaxDraft
    BY <1>1 DEF PlacesCall
  <2>3. act' \in [Places!ChapterId -> 0..MaxDraft]
    BY <2>1, <2>2 DEF ViewShape, ViewType
  <2>4. top' \in [Places!ChapterId -> 0..MaxDraft] /\ \A b \in Places!ChapterId : top[b] <= top'[b]
    BY <2>1, PlaceNumbers DEF ViewShape, ViewType
  <2>5. \A b \in Places!ChapterId : top'[b] = 0 => act'[b] = Places!None
    BY <2>1 DEF ViewShape, ViewType, NumbersRun, Places!Lives
  <2>6. NumbersRun'
    BY <2>1, <2>5 DEF ViewShape, NumbersRun, Places!None, Places!DraftId
  <2>7. ViewType' => CallsKnown'
    BY <2>1, <2>4, AnsweredKnown
  <2> QED BY <1>0, <2>3, <2>4, <2>6, <2>7, ServedShape
<1> QED BY <1>2, <1>3, <1>4, <1>5, <1>6 DEF Places!Serve

(* The answers, and what they do to the page.                               *)
LEMMA AnswersShape ==
    ASSUME ViewShape, CurListed, NEW k \in calls,
           \/ Places!Lose(k) \/ Places!Added(k) \/ Places!ChapterRemoved(k)
           \/ Places!ChapterStays(k) \/ Places!Forked(k) \/ Places!DraftRemoved(k)
           \/ Places!NothingMore(k)
    PROVE  ViewShape' /\ CurListed'
<1> USE DEF Places!server, Places!browser, Places!history, Places!counters
<1>1. KnownCall(k) /\ k \in PlacesCall
  BY DEF ViewShape, CallsKnown, KnownCall
<1>2. ListsShaped /\ OnePair(sel) /\ story \in Places!Stories
      /\ cur \in Places!ChapterId \cup {Places!None}
      /\ rows \in [Places!Stories -> SUBSET (Places!ChapterId \cup {Places!None})]
  BY DEF ViewShape, ViewType, SelectsOne
<1>3. CASE Places!Lose(k)
  <2>1. UNCHANGED <<top, gone, act, meta, story, cur, sel, rows>> /\ Places!Answered(k, "failed")
    BY <1>3 DEF Places!Lose
  <2>2. \A b \in Places!ChapterId : top[b] <= top'[b]
    BY <2>1, PlaceNumbers DEF ViewShape, ViewType
  <2>3. ViewType' => CallsKnown'
    BY <2>1, <2>2, AnsweredKnown
  <2> QED BY <2>1, <2>3, CallsShape
<1>4. CASE Places!Added(k)
  <2>1. /\ UNCHANGED <<top, gone, act, meta, story, rows>> /\ calls' \subseteq calls
        /\ Places!Lands(k.c, sel, rows'[story'])
    BY <1>4 DEF Places!Added, Places!Answer
  <2>2. k.c \in Places!ChapterId \cup {Places!None}
    BY <1>1 DEF PlacesCall
  <2>3. ListsShaped' /\ story' \in Places!Stories
        /\ rows' \in [Places!Stories -> SUBSET (Places!ChapterId \cup {Places!None})]
    BY <1>2, <2>1 DEF ListsShaped
  <2>4. ViewType' => CallsKnown'
    BY <2>1, FewerKnown
  <2> QED BY <1>2, <2>1, <2>2, <2>3, <2>4, LandingShape
<1>5. CASE Places!ChapterRemoved(k)
  <2>1. /\ UNCHANGED <<top, gone, act, meta, story, rows>> /\ calls' \subseteq calls
        /\ \/ Places!Lands(Places!None, sel, rows'[story'])
           \/ UNCHANGED <<cur, sel>>
    BY <1>5 DEF Places!ChapterRemoved, Places!Answer
  <2>2. ListsShaped' /\ story' \in Places!Stories
        /\ rows' \in [Places!Stories -> SUBSET (Places!ChapterId \cup {Places!None})]
    BY <1>2, <2>1 DEF ListsShaped
  <2>3. cur' \in Places!ChapterId \cup {Places!None} /\ SelectsOne' /\ CurListed'
    <3>1. CASE Places!Lands(Places!None, sel, rows'[story'])
      BY <1>2, <2>2, <3>1, LandedShape
    <3>2. CASE UNCHANGED <<cur, sel>>
      BY <1>2, <2>1, <3>2 DEF SelectsOne, OnePair, CurListed, Places!Loaded
    <3> QED BY <2>1, <3>1, <3>2
  <2>4. ViewType' => CallsKnown'
    BY <2>1, FewerKnown
  <2>5. ViewShape'
    BY <2>1, <2>2, <2>3, <2>4, PageShape
  <2> QED BY <2>3, <2>5
<1>6. CASE Places!ChapterStays(k)
  <2>1. /\ UNCHANGED <<top, gone, act, meta, story>> /\ calls' \subseteq calls
        /\ rows' = [rows EXCEPT !["here"] = k.before]
        /\ Places!Lands(cur, sel, rows'[story'])
    BY <1>6 DEF Places!ChapterStays, Places!Answer
  <2>2. k.before \subseteq Places!ChapterId
    BY <1>1 DEF PlacesCall
  <2>3. ListsShaped' /\ story' \in Places!Stories
        /\ rows' \in [Places!Stories -> SUBSET (Places!ChapterId \cup {Places!None})]
    BY <1>2, <2>1, <2>2 DEF ListsShaped, ListShape
  <2>4. ViewType' => CallsKnown'
    BY <2>1, FewerKnown
  <2> QED BY <1>2, <2>1, <2>3, <2>4, LandingShape
<1>7. CASE Places!Forked(k)
  <2>1. /\ UNCHANGED <<top, gone, act, meta, story, rows>> /\ calls' \subseteq calls
        /\ Places!Lands(IF k.c # k.seen THEN k.c ELSE cur, {<<k.c, k.d>>}, rows'[story'])
        /\ k.k = "fork" /\ k.st = "ok"
    BY <1>7 DEF Places!Forked, Places!Answer
  <2>2. k.c \in Places!ChapterId /\ k.d \in Places!DraftId
    BY <1>1, <2>1 DEF KnownCall
  <2>3. /\ OnePair({<<k.c, k.d>>})
        /\ (IF k.c # k.seen THEN k.c ELSE cur) \in Places!ChapterId \cup {Places!None}
    BY <1>2, <2>2 DEF OnePair
  <2>4. ListsShaped' /\ story' \in Places!Stories
        /\ rows' \in [Places!Stories -> SUBSET (Places!ChapterId \cup {Places!None})]
    BY <1>2, <2>1 DEF ListsShaped
  <2>5. ViewType' => CallsKnown'
    BY <2>1, FewerKnown
  <2> QED BY <2>1, <2>3, <2>4, <2>5, LandingShape
<1>8. CASE Places!DraftRemoved(k)
  <2>1. /\ UNCHANGED <<top, gone, act, meta, story, cur, rows>> /\ calls' \subseteq calls
        /\ sel' = sel \ {<<k.c, k.d>>}
    BY <1>8 DEF Places!DraftRemoved, Places!Answer
  <2>2. OnePair(sel')
    BY <1>2, <2>1, PartOfPair
  <2>3. /\ ListsShaped' /\ CurListed' /\ story' \in Places!Stories /\ SelectsOne'
        /\ cur' \in Places!ChapterId \cup {Places!None}
        /\ rows' \in [Places!Stories -> SUBSET (Places!ChapterId \cup {Places!None})]
    BY <1>2, <2>1, <2>2 DEF ListsShaped, CurListed, Places!Loaded, SelectsOne, OnePair
  <2>4. ViewType' => CallsKnown'
    BY <2>1, FewerKnown
  <2>5. ViewShape'
    BY <2>1, <2>3, <2>4, PageShape
  <2> QED BY <2>3, <2>5
<1>9. CASE Places!NothingMore(k)
  <2>1. UNCHANGED <<top, gone, act, meta, story, cur, sel, rows>> /\ calls' \subseteq calls
    BY <1>9 DEF Places!NothingMore, Places!Answer
  <2>2. ViewType' => CallsKnown'
    BY <2>1, FewerKnown
  <2> QED BY <2>1, <2>2, CallsShape
<1> QED BY <1>3, <1>4, <1>5, <1>6, <1>7, <1>8, <1>9

(* Another tab deletes what was created, and activates what lives.          *)
LEMMA ElsewhereShape ==
    ASSUME ViewShape, CurListed, NEW c \in Places!ChapterId, Places!Elsewhere(c)
    PROVE  ViewShape' /\ CurListed'
<1>1. UNCHANGED <<top, story, cur, sel, rows, meta, calls>>
  BY DEF Places!Elsewhere, Places!browser
<1>2. top[c] \in Nat /\ top[c] > 0 /\ top[c] <= MaxDraft
  BY PlaceNumbers DEF Places!Elsewhere, Places!Lives, ViewShape, ViewType
<1>3. Places!Drafts(c) = {d \in 1..top[c] : <<c, d>> \notin gone}
  BY DEF Places!Drafts
<1>4. \/ act' = act /\ \E d \in 0..top[c] : gone' = gone \cup {<<c, d>>}
      \/ gone' = gone /\ \E d \in 1..top[c] : act' = [act EXCEPT ![c] = d]
  <2>1. \/ act' = act /\ gone' = gone \cup {<<c, Places!None>>}
        \/ \E d \in Places!Drafts(c) \ {act[c]} :
             \/ act' = act /\ gone' = gone \cup {<<c, d>>}
             \/ gone' = gone /\ act' = [act EXCEPT ![c] = d]
    BY DEF Places!Elsewhere
  <2>2. Places!Drafts(c) \subseteq 1..top[c] /\ 1..top[c] \subseteq 0..top[c]
        /\ Places!None \in 0..top[c]
    BY <1>2, <1>3 DEF Places!None
  <2> QED BY <2>1, <2>2
<1>5. top' \in [Places!ChapterId -> 0..MaxDraft] /\ \A b \in Places!ChapterId : top[b] <= top'[b]
  BY <1>1, PlaceNumbers DEF ViewShape, ViewType
<1>6. ViewType' => CallsKnown'
  BY <1>1, FewerKnown
<1>7. act' \in [Places!ChapterId -> 0..MaxDraft]
  BY <1>2, <1>4, PlaceNumbers DEF ViewShape, ViewType
<1>8. \A b \in Places!ChapterId : top[b] = 0 => act'[b] = Places!None
  BY <1>2, <1>4 DEF ViewShape, ViewType, NumbersRun
<1>9. ASSUME NEW b \in Places!ChapterId, NEW d \in Places!DraftId, <<b, d>> \in gone'
      PROVE  d <= top[b]
  BY <1>2, <1>4, <1>9 DEF ViewShape, NumbersRun
<1>10. NumbersRun'
  BY <1>1, <1>8, <1>9 DEF NumbersRun, Places!None, Places!DraftId
<1> QED BY <1>1, <1>5, <1>6, <1>7, <1>10, ServedShape

(* A chapter's active draft is never deleted: not by its own tab, whose     *)
(* requests the server refuses, and not by another.                         *)
LEMMA ActiveLivesStep ==
    ASSUME ViewShape, ActiveLives, Places!Next
    PROVE  ActiveLives'
<1> USE DEF Places!server
<1>1. ASSUME UNCHANGED <<top, gone, act>> PROVE ActiveLives'
  BY <1>1 DEF ActiveLives, Places!Lives, Places!Drafts
<1>2. ASSUME NEW k \in calls, Places!Serve(k) PROVE ActiveLives'
  <2>1. KnownCall(k)
    BY DEF ViewShape, CallsKnown
  <2>2. top \in [Places!ChapterId -> Nat] /\ act \in [Places!ChapterId -> 0..MaxDraft]
    BY PlaceNumbers DEF ViewShape, ViewType
  <2>3. CASE Places!ServeAdd(k)
    <3>1. PICK c \in 1..MaxChapter :
            /\ top[c] = 0 /\ top' = [top EXCEPT ![c] = 1] /\ act' = [act EXCEPT ![c] = 1]
            /\ gone' = gone
      BY <2>3 DEF Places!ServeAdd
    <3>2. c \in Places!ChapterId /\ 1 \in Places!DraftId
      BY PlaceNumbers, PartsAssumption DEF Places!ChapterId, Places!Far, Places!NavigationAssumption
    <3>3. <<c, 1>> \notin gone
      BY <3>1, <3>2 DEF ViewShape, NumbersRun
    <3> SUFFICES ASSUME NEW b \in Places!ChapterId, Places!Lives(b)' PROVE act'[b] \in Places!Drafts(b)'
      BY DEF ActiveLives
    <3>4. CASE b = c
      BY <2>2, <3>1, <3>2, <3>3, <3>4 DEF Places!Drafts
    <3>5. CASE b # c
      BY <2>2, <3>1, <3>2, <3>5 DEF Places!Drafts, Places!Lives, ActiveLives
    <3> QED BY <3>4, <3>5
  <2>4. CASE Places!ServeRemoveChapter(k)
    <3>1. UNCHANGED <<top, act>> /\ gone' = gone \cup {<<k.c, Places!None>>}
      BY <2>4 DEF Places!ServeRemoveChapter
    <3>2. \A b \in Places!ChapterId : \A d \in 1..top[b] : <<b, d>> # <<k.c, Places!None>>
      BY DEF Places!None
    <3> QED BY <3>1, <3>2 DEF ActiveLives, Places!Lives, Places!Drafts
  <2>5. CASE Places!ServeFork(k)
    <3>1. k.c \in Places!ChapterId /\ UNCHANGED <<gone, act>>
          /\ \/ top' = [top EXCEPT ![k.c] = top[k.c] + 1] /\ Places!Lives(k.c)
             \/ top' = top
      BY <2>1, <2>5 DEF Places!ServeFork, KnownCall
    <3>2. \A b \in Places!ChapterId : top[b] \in Nat /\ top'[b] \in Nat /\ top[b] <= top'[b]
      BY <2>2, <3>1
    <3>3. \A b \in Places!ChapterId : Places!Lives(b)' => Places!Lives(b)
      BY <2>2, <3>1 DEF Places!Lives
    <3>4. \A b \in Places!ChapterId : Places!Drafts(b) \subseteq Places!Drafts(b)'
      BY <3>1, <3>2 DEF Places!Drafts
    <3> QED BY <3>1, <3>3, <3>4 DEF ActiveLives
  <2>6. CASE Places!ServeRemoveDraft(k)
    <3>1. UNCHANGED <<top, act>>
          /\ \/ gone' = gone \cup {<<k.c, k.d>>} /\ k.d # act[k.c]
             \/ gone' = gone
      BY <2>6 DEF Places!ServeRemoveDraft
    <3>2. ASSUME NEW b \in Places!ChapterId, Places!Lives(b)' PROVE act[b] \in Places!Drafts(b)'
      <4>1. Places!Lives(b) /\ act[b] \in Places!Drafts(b)
        BY <3>1, <3>2 DEF Places!Lives, ActiveLives
      <4>2. <<b, act[b]>> \notin gone'
        BY <3>1, <4>1 DEF Places!Drafts
      <4> QED BY <3>1, <4>1, <4>2 DEF Places!Drafts
    <3> QED BY <3>1, <3>2 DEF ActiveLives
  <2>7. CASE Places!ServeActivate(k)
    <3>1. UNCHANGED <<top, gone>> /\ k.c \in Places!ChapterId
          /\ \/ act' = [act EXCEPT ![k.c] = k.d] /\ k.d \in Places!Drafts(k.c)
             \/ act' = act
      BY <2>1, <2>7 DEF Places!ServeActivate, KnownCall
    <3>2. \A b \in Places!ChapterId : (Places!Lives(b)' <=> Places!Lives(b))
                                      /\ Places!Drafts(b)' = Places!Drafts(b)
      BY <3>1 DEF Places!Lives, Places!Drafts
    <3>3. \A b \in Places!ChapterId : Places!Lives(b) => act'[b] \in Places!Drafts(b)
      BY <2>2, <3>1 DEF ActiveLives
    <3> QED BY <3>2, <3>3 DEF ActiveLives
  <2> QED BY <1>2, <2>3, <2>4, <2>5, <2>6, <2>7 DEF Places!Serve
<1>3. ASSUME NEW c \in Places!ChapterId, Places!Elsewhere(c) PROVE ActiveLives'
  <2>1. top' = top
        /\ \/ gone' = gone \cup {<<c, Places!None>>} /\ act' = act
           \/ \E d \in Places!Drafts(c) \ {act[c]} :
                \/ gone' = gone \cup {<<c, d>>} /\ act' = act
                \/ act' = [act EXCEPT ![c] = d] /\ gone' = gone
    BY <1>3 DEF Places!Elsewhere
  <2>2. act \in [Places!ChapterId -> 0..MaxDraft]
    BY DEF ViewShape, ViewType
  <2>3. CASE gone' = gone \cup {<<c, Places!None>>} /\ act' = act
    <3>1. \A b \in Places!ChapterId : \A d \in 1..top[b] : <<b, d>> # <<c, Places!None>>
      BY DEF Places!None
    <3> QED BY <2>1, <2>3, <3>1 DEF ActiveLives, Places!Lives, Places!Drafts
  <2>4. ASSUME NEW d \in Places!Drafts(c) \ {act[c]}, gone' = gone \cup {<<c, d>>}, act' = act
        PROVE  ActiveLives'
    <3>1. ASSUME NEW b \in Places!ChapterId, Places!Lives(b)' PROVE act[b] \in Places!Drafts(b)'
      <4>1. Places!Lives(b) /\ act[b] \in Places!Drafts(b)
        BY <2>1, <2>4, <3>1 DEF Places!Lives, ActiveLives
      <4>2. <<b, act[b]>> \notin gone'
        BY <2>4, <4>1 DEF Places!Drafts
      <4> QED BY <2>1, <4>1, <4>2 DEF Places!Drafts
    <3> QED BY <2>4, <3>1 DEF ActiveLives
  <2>5. ASSUME NEW d \in Places!Drafts(c), act' = [act EXCEPT ![c] = d], gone' = gone
        PROVE  ActiveLives'
    <3>1. \A b \in Places!ChapterId : (Places!Lives(b)' <=> Places!Lives(b))
                                      /\ Places!Drafts(b)' = Places!Drafts(b)
      BY <2>1, <2>5 DEF Places!Lives, Places!Drafts
    <3>2. \A b \in Places!ChapterId : Places!Lives(b) => act'[b] \in Places!Drafts(b)
      BY <2>2, <2>5 DEF ActiveLives
    <3> QED BY <3>1, <3>2 DEF ActiveLives
  <2> QED BY <2>1, <2>3, <2>4, <2>5
<1>4. \/ UNCHANGED <<top, gone, act>> \/ \E k \in calls : Places!Serve(k)
      \/ \E c \in Places!ChapterId : Places!Elsewhere(c)
  BY ZenonT(40) DEF Places!Next, Places!SelectChapter, Places!LoadMeta, Places!RemoveChapter, Places!NewDraft,
     Places!SelectDraft, Places!RemoveDraft, Places!Activate, Places!OpenStory, Places!LoadRows,
     Places!AddChapter, Places!Lose, Places!Added, Places!ChapterRemoved, Places!ChapterStays,
     Places!Forked, Places!DraftRemoved, Places!NothingMore
<1> QED BY <1>1, <1>2, <1>3, <1>4

(* A danger that was met is remembered.                                     *)
LEMMA PerilsStay ==
    ASSUME Places!Next
    PROVE  perils \subseteq perils'
<1> USE DEF Places!history
<1>1. ASSUME NEW c \in Places!ChapterId, Places!Elsewhere(c)
      PROVE  perils \subseteq perils'
  BY <1>1 DEF Places!Elsewhere, Places!Meets
<1>2. ASSUME NEW c \in Places!ChapterId, NEW d \in Places!DraftId,
             \/ Places!SelectDraft(c, d) \/ Places!RemoveDraft(c, d) \/ Places!Activate(c, d)
      PROVE  perils \subseteq perils'
  <2>1. Places!SelectDraft(c, d) => Places!Meets(d \notin Places!Drafts(c), "dead")
    BY DEF Places!SelectDraft
  <2>2. Places!Activate(c, d) => Places!Meets(Places!Shown[2] \notin Places!Drafts(c), "dead")
    BY DEF Places!Activate
  <2>3. Places!RemoveDraft(c, d) => UNCHANGED perils
    BY DEF Places!RemoveDraft
  <2> QED BY <1>2, <2>1, <2>2, <2>3 DEF Places!Meets
<1>3. ASSUME NEW k \in calls,
             \/ Places!Serve(k) \/ Places!Lose(k) \/ Places!Added(k) \/ Places!ChapterRemoved(k)
             \/ Places!ChapterStays(k) \/ Places!Forked(k) \/ Places!DraftRemoved(k)
             \/ Places!NothingMore(k)
      PROVE  perils \subseteq perils'
  BY <1>3 DEF Places!Serve, Places!Lose, Places!Added, Places!ChapterRemoved,
     Places!ChapterStays, Places!Forked, Places!DraftRemoved, Places!NothingMore, Places!Meets
<1>4. ASSUME \/ \E c \in Places!ChapterId :
                  \/ Places!SelectChapter(c) \/ Places!LoadMeta(c) \/ Places!RemoveChapter(c)
                  \/ Places!NewDraft(c)
             \/ \E s \in Places!Stories : Places!OpenStory(s)
             \/ Places!LoadRows \/ Places!AddChapter
      PROVE  UNCHANGED perils
  BY <1>4 DEF Places!SelectChapter, Places!LoadMeta, Places!RemoveChapter, Places!NewDraft,
     Places!OpenStory, Places!LoadRows, Places!AddChapter
<1> QED BY <1>1, <1>2, <1>3, <1>4 DEF Places!Next

(* What a call becomes.                                                     *)
LEMMA CallShapes ==
    ASSUME ViewShape, NEW k \in calls
    PROVE  /\ k \in PlacesCall /\ KnownCall(k)
           /\ \A st \in STRING : /\ [k EXCEPT !.st = st].k = k.k /\ [k EXCEPT !.st = st].c = k.c
                                 /\ [k EXCEPT !.st = st].d = k.d /\ [k EXCEPT !.st = st].st = st
BY DEF ViewShape, CallsKnown, KnownCall, PlacesCall

(* Nobody here asks to delete what a fork under way creates: the dialog     *)
(* blocks the page until it is answered.                                    *)
LEMMA ForkApartStep ==
    ASSUME ViewShape, ForkApart, Places!Next
    PROVE  ForkApart'
<1> USE DEF Places!server, Places!browser, Places!history, Places!counters
<1>1. ASSUME calls' \subseteq calls PROVE ForkApart'
  BY <1>1 DEF ForkApart
<1>2. ASSUME NEW a, NEW c, NEW d, Places!Ask(a, c, d) PROVE ForkApart'
  <2>1. \A k \in calls' : k \in calls \/ k.st = "asked"
    BY <1>2 DEF Places!Ask
  <2>2. \A k \in calls : k.k # "fork"
    BY <1>2 DEF Places!Ask, Places!Free
  <2>3. \A k \in calls' : ~ (k.k = "fork" /\ k.st = "ok")
    BY <2>1, <2>2
  <2> QED BY <2>3 DEF ForkApart
<1>3. ASSUME NEW k \in calls, NEW st \in {"ok", "failed"}, Places!Answered(k, st),
             k.k # "fork" \/ st = "failed"
      PROVE  ForkApart'
  <2> DEFINE new == [k EXCEPT !.st = st]
  <2>1. /\ calls' = (calls \ {k}) \cup {new} /\ new.k = k.k /\ new.st = st
    BY <1>3, CallShapes DEF Places!Answered, Places!Becomes
  <2> HIDE DEF new
  <2> QED BY <1>3, <2>1 DEF ForkApart
<1>4. ASSUME NEW k \in calls, Places!ServeAdd(k) PROVE ForkApart'
  <2>1. PICK c : k.k = "add" /\ Places!Becomes(k, [k EXCEPT !.c = c, !.st = "ok"])
    BY <1>4 DEF Places!ServeAdd
  <2> DEFINE new == [k EXCEPT !.c = c, !.st = "ok"]
  <2>2. /\ calls' = (calls \ {k}) \cup {new} /\ new.k = "add"
    BY <2>1, CallShapes DEF Places!Becomes, PlacesCall
  <2> HIDE DEF new
  <2> QED BY <2>2 DEF ForkApart
<1>5. ASSUME NEW k \in calls, Places!ServeFork(k), Places!Lives(k.c) PROVE ForkApart'
  <2>1. k.k = "fork" /\ Places!Becomes(k, [k EXCEPT !.d = top[k.c] + 1, !.st = "ok"])
    BY <1>5 DEF Places!ServeFork
  <2> DEFINE new == [k EXCEPT !.d = top[k.c] + 1, !.st = "ok"]
  <2>2. /\ calls' = (calls \ {k}) \cup {new}
        /\ new.k = "fork" /\ new.c = k.c /\ new.d = top[k.c] + 1 /\ new.st = "ok"
    BY <2>1, CallShapes DEF Places!Becomes, PlacesCall
  <2> HIDE DEF new
  <2>3. k.c \in Places!ChapterId
    BY <2>1, CallShapes DEF KnownCall
  <2>4. top[k.c] \in Nat
    <3>1. top \in [Places!ChapterId -> Nat]
      BY PlaceNumbers DEF ViewShape, ViewType
    <3> QED BY <2>3, <3>1
  <2>5. ASSUME NEW j \in calls, j.k = "removeDraft" PROVE j.c # new.c \/ j.d # new.d
    <3>1. j.d <= top[j.c] /\ j.d \in Nat
      BY <2>5, CallShapes, PlaceNumbers DEF KnownCall
    <3> QED BY <2>2, <2>4, <3>1
  <2> QED BY <2>2, <2>5 DEF ForkApart
<1>6. ASSUME NEW k \in calls, Places!Serve(k) PROVE ForkApart'
  <2>1. CASE Places!ServeFork(k)
    <3>1. CASE Places!Lives(k.c)
      BY <1>5, <2>1, <3>1
    <3>2. CASE ~ Places!Lives(k.c)
      BY <1>3, <2>1, <3>2 DEF Places!ServeFork
    <3> QED BY <3>1, <3>2
  <2>2. CASE Places!ServeRemoveChapter(k)
    BY <1>3, <2>2 DEF Places!ServeRemoveChapter
  <2>3. CASE Places!ServeRemoveDraft(k)
    BY <1>3, <2>3 DEF Places!ServeRemoveDraft
  <2>4. CASE Places!ServeActivate(k)
    BY <1>3, <2>4 DEF Places!ServeActivate
  <2> QED BY <1>4, <1>6, <2>1, <2>2, <2>3, <2>4 DEF Places!Serve
<1>7. ASSUME NEW c \in Places!ChapterId,
             \/ Places!SelectChapter(c) \/ Places!LoadMeta(c) \/ Places!Elsewhere(c)
             \/ \E d \in Places!DraftId : Places!SelectDraft(c, d)
      PROVE  ForkApart'
  BY <1>1, <1>7 DEF Places!SelectChapter, Places!LoadMeta, Places!Elsewhere, Places!SelectDraft
<1>8. ASSUME NEW c \in Places!ChapterId, \/ Places!RemoveChapter(c) \/ Places!NewDraft(c)
             \/ \E d \in Places!DraftId : Places!RemoveDraft(c, d) \/ Places!Activate(c, d)
      PROVE  ForkApart'
  BY <1>2, <1>8 DEF Places!RemoveChapter, Places!NewDraft, Places!RemoveDraft, Places!Activate
<1>9. ASSUME \/ \E s \in Places!Stories : Places!OpenStory(s)
             \/ Places!LoadRows \/ Places!AddChapter
      PROVE  ForkApart'
  BY <1>1, <1>2, <1>9 DEF Places!OpenStory, Places!LoadRows, Places!AddChapter
<1>10. ASSUME NEW k \in calls,
              \/ Places!Lose(k) \/ Places!Added(k) \/ Places!ChapterRemoved(k)
              \/ Places!ChapterStays(k) \/ Places!Forked(k) \/ Places!DraftRemoved(k)
              \/ Places!NothingMore(k)
       PROVE  ForkApart'
  BY <1>1, <1>3, <1>10 DEF Places!Lose, Places!Added, Places!ChapterRemoved, Places!ChapterStays,
     Places!Forked, Places!DraftRemoved, Places!NothingMore, Places!Answer
<1> QED BY <1>6, <1>7, <1>8, <1>9, <1>10 DEF Places!Next

(* What lives stays alive, while no draft is deleted and no answer to a     *)
(* deletion is forgotten.                                                   *)
CallsKeep ==
    /\ \A k \in calls : k.k = "removeDraft" /\ k.st = "ok" => k \in calls'
    /\ \A k \in calls' : k.k = "fork" /\ k.st = "ok" => k \in calls

LEMMA KeepsForks ==
    ASSUME ViewShape, ForkLives, CallsKeep,
           \A c \in Places!ChapterId : Places!Drafts(c) \subseteq Places!Drafts(c)'
    PROVE  ForkLives'
<1> SUFFICES ASSUME NEW k \in calls', k.k = "fork", k.st = "ok" PROVE k.d \in Places!Drafts(k.c)'
  BY DEF ForkLives, Places!Drafts
<1>1. k \in calls
  BY DEF CallsKeep
<1>2. k.c \in Places!ChapterId
  BY <1>1, CallShapes DEF KnownCall
<1> QED BY <1>1, <1>2 DEF ForkLives

LEMMA KeepsSelection ==
    ASSUME ViewShape, SelectionLives, CallsKeep, sel' \subseteq sel,
           \A c \in Places!ChapterId : Places!Drafts(c) \subseteq Places!Drafts(c)'
    PROVE  SelectionLives'
<1> SUFFICES ASSUME NEW c \in Places!ChapterId, NEW d \in Places!DraftId, sel' = {<<c, d>>}
             PROVE  d \in Places!Drafts(c)' \/ Deleting(c, d)'
  BY DEF SelectionLives, Places!ChapterId, Places!DraftId, Places!Far
<1>1. sel = {<<c, d>>}
  BY DEF ViewShape, SelectsOne, OnePair
<1>2. CASE d \in Places!Drafts(c)
  BY <1>2
<1>3. CASE Deleting(c, d)
  BY <1>3 DEF Deleting, CallsKeep
<1> QED BY <1>1, <1>2, <1>3 DEF SelectionLives

(* A selection that was just made is of a draft that lives.                 *)
LEMMA FreshSelection ==
    ASSUME NEW c \in Places!ChapterId, NEW d \in Places!DraftId, d \in Places!Drafts(c)',
           sel' \subseteq {<<c, d>>}
    PROVE  SelectionLives'
BY DEF SelectionLives, Places!ChapterId, Places!DraftId, Places!Far

(* What is shown is alive, or it is a danger that was met.                  *)
LEMMA PageKeepsLives ==
    ASSUME ViewShape, ViewShape', SelectionLives, ForkLives, "dead" \notin perils',
           \/ \E c \in Places!ChapterId :
                \/ Places!SelectChapter(c) \/ Places!LoadMeta(c) \/ Places!RemoveChapter(c)
                \/ Places!NewDraft(c)
                \/ \E d \in Places!DraftId :
                     Places!SelectDraft(c, d) \/ Places!RemoveDraft(c, d) \/ Places!Activate(c, d)
           \/ \E s \in Places!Stories : Places!OpenStory(s)
           \/ Places!LoadRows \/ Places!AddChapter
    PROVE  SelectionLives' /\ ForkLives'
<1> USE DEF Places!server, Places!browser, Places!history, Places!counters
<1>1. top' = top /\ gone' = gone
  BY DEF Places!SelectChapter, Places!LoadMeta, Places!RemoveChapter, Places!NewDraft,
     Places!SelectDraft, Places!RemoveDraft, Places!Activate, Places!OpenStory, Places!LoadRows,
     Places!AddChapter
<1>2. \A c \in Places!ChapterId : Places!Drafts(c)' = Places!Drafts(c)
  BY <1>1 DEF Places!Drafts
<1>3. ASSUME calls' = calls \/ \E a, c, d : Places!Ask(a, c, d) PROVE CallsKeep
  <2>1. calls \subseteq calls' /\ \A k \in calls' : k \in calls \/ k.st = "asked"
    BY <1>3 DEF Places!Ask
  <2> QED BY <2>1 DEF CallsKeep
<1>4. CallsKeep
  BY <1>3 DEF Places!SelectChapter, Places!LoadMeta, Places!RemoveChapter, Places!NewDraft,
     Places!SelectDraft, Places!RemoveDraft, Places!Activate, Places!OpenStory, Places!LoadRows,
     Places!AddChapter
<1>5. ForkLives'
  BY <1>2, <1>4, KeepsForks
<1>6. /\ \A s \in Places!Stories : ListShape(rows[s]) /\ ListShape(rows'[s])
      /\ cur \in Places!ChapterId \cup {Places!None} /\ story \in Places!Stories
      /\ story' \in Places!Stories
  BY DEF ViewShape, ViewType, ListsShaped, ListShape, Places!Unloaded, Places!None, Places!ChapterId
<1>7. ASSUME sel' \subseteq sel PROVE SelectionLives'
  BY <1>2, <1>4, <1>7, KeepsSelection
<1>8. ASSUME NEW c \in Places!ChapterId, Places!SelectChapter(c) PROVE SelectionLives'
  BY <1>6, <1>7, <1>8, Landed DEF Places!SelectChapter
<1>9. ASSUME NEW c \in Places!ChapterId, Places!RemoveChapter(c) PROVE SelectionLives'
  <2>1. Places!Lands(cur, sel, rows'[story]) /\ story' = story
    BY <1>9 DEF Places!RemoveChapter
  <2>2. sel' \subseteq sel
    BY <1>6, <2>1, Landed
  <2> QED BY <1>7, <2>2
<1>10. ASSUME NEW c \in Places!ChapterId, Places!LoadMeta(c) \/ Places!NewDraft(c)
       PROVE  SelectionLives'
  BY <1>7, <1>10 DEF Places!LoadMeta, Places!NewDraft
<1>11. ASSUME NEW c \in Places!ChapterId, NEW d \in Places!DraftId, Places!SelectDraft(c, d)
       PROVE  SelectionLives'
  <2>1. Places!Lands(c, {<<c, d>>}, rows[story]) /\ Places!Meets(d \notin Places!Drafts(c), "dead")
    BY <1>11 DEF Places!SelectDraft
  <2>2. sel' \subseteq {<<c, d>>}
    BY <1>6, <2>1, Landed
  <2>3. d \in Places!Drafts(c)
    BY <2>1 DEF Places!Meets
  <2> QED BY <1>2, <2>2, <2>3, FreshSelection
<1>12. ASSUME NEW c \in Places!ChapterId, NEW d \in Places!DraftId, Places!RemoveDraft(c, d)
       PROVE  SelectionLives'
  BY <1>7, <1>12 DEF Places!RemoveDraft
<1>13. ASSUME NEW c \in Places!ChapterId, NEW d \in Places!DraftId, Places!Activate(c, d)
       PROVE  SelectionLives'
  <2>1. sel' = Places!Pinned(c) /\ Places!Meets(Places!Shown[2] \notin Places!Drafts(c), "dead")
    BY <1>13 DEF Places!Activate
  <2>2. Places!Shown[2] \in Places!Drafts(c)
    BY <2>1 DEF Places!Meets
  <2>3. CASE sel' = sel
    BY <1>7, <2>3
  <2>4. CASE Places!Shown[2] \in meta[c].ids /\ sel' = {<<c, Places!Shown[2]>>}
    <3>1. PICK e : e = Places!Shown[2]
      OBVIOUS
    <3>2. e \in Places!DraftId
      BY <2>4, <3>1 DEF ViewShape, ViewType
    <3>3. e \in Places!Drafts(c)' /\ sel' = {<<c, e>>}
      BY <1>2, <2>2, <2>4, <3>1
    <3> QED BY <3>2, <3>3, FreshSelection
  <2> QED BY <2>1, <2>3, <2>4 DEF Places!Pinned
<1>14. ASSUME NEW s \in Places!Stories, Places!OpenStory(s) PROVE SelectionLives'
  BY <1>6, <1>7, <1>14, Landed DEF Places!OpenStory
<1>15. CASE Places!LoadRows
  <2>1. Places!Lands(cur, sel, rows'[story]) /\ story' = story
    BY <1>15 DEF Places!LoadRows
  <2>2. sel' \subseteq sel
    BY <1>6, <2>1, Landed
  <2> QED BY <1>5, <1>7, <2>2
<1>16. CASE Places!AddChapter
  BY <1>5, <1>7, <1>16 DEF Places!AddChapter
<1> QED BY <1>5, <1>8, <1>9, <1>10, <1>11, <1>12, <1>13, <1>14, <1>15, <1>16

(* An answer that changes nothing but calls keeps what lives.               *)
LEMMA AnsweredKeeps ==
    ASSUME ViewShape, NEW k \in calls, NEW st \in {"ok", "failed"}, Places!Answered(k, st),
           ~ (k.k = "removeDraft" /\ k.st = "ok"), ~ (k.k = "fork" /\ st = "ok")
    PROVE  CallsKeep
<1> DEFINE new == [k EXCEPT !.st = st]
<1>1. /\ calls' = (calls \ {k}) \cup {new} /\ new.k = k.k /\ new.st = st
  BY CallShapes DEF Places!Answered, Places!Becomes
<1> HIDE DEF new
<1> QED BY <1>1 DEF CallsKeep

(* What the server does to the drafts: it deletes only what was asked for,  *)
(* and its answer is remembered; what it forks lives.                       *)
LEMMA ServesKeepLives ==
    ASSUME ViewShape, ForkApart, SelectionLives, ForkLives, NEW k \in calls, Places!Serve(k)
    PROVE  SelectionLives' /\ ForkLives'
<1>0. k.st = "asked" /\ sel' \subseteq sel /\ KnownCall(k) /\ k \in PlacesCall
  BY CallShapes DEF Places!Serve, Places!browser
<1>1. top \in [Places!ChapterId -> Nat]
  BY PlaceNumbers DEF ViewShape, ViewType
<1>2. CASE Places!ServeAdd(k)
  <2>1. PICK c \in 1..MaxChapter :
          /\ k.k = "add" /\ top[c] = 0 /\ top' = [top EXCEPT ![c] = 1] /\ gone' = gone
          /\ Places!Becomes(k, [k EXCEPT !.c = c, !.st = "ok"])
    BY <1>2 DEF Places!ServeAdd
  <2>2. \A b \in Places!ChapterId : top[b] \in Nat /\ top'[b] \in Nat /\ top[b] <= top'[b]
    BY <1>1, <2>1
  <2>3. \A b \in Places!ChapterId : Places!Drafts(b) \subseteq Places!Drafts(b)'
    BY <2>1, <2>2 DEF Places!Drafts
  <2> DEFINE new == [k EXCEPT !.c = c, !.st = "ok"]
  <2>4. calls' = (calls \ {k}) \cup {new} /\ new.k = "add"
    BY <1>0, <2>1 DEF Places!Becomes, PlacesCall
  <2> HIDE DEF new
  <2>5. CallsKeep
    BY <2>1, <2>4 DEF CallsKeep
  <2> QED BY <1>0, <2>3, <2>5, KeepsForks, KeepsSelection
<1>3. CASE Places!ServeRemoveChapter(k)
  <2>1. /\ top' = top /\ gone' = gone \cup {<<k.c, Places!None>>} /\ k.k = "removeChapter"
        /\ \E st \in {"ok", "failed"} : Places!Answered(k, st)
    BY <1>3 DEF Places!ServeRemoveChapter
  <2>2. \A b \in Places!ChapterId : \A d \in 1..top[b] : <<b, d>> # <<k.c, Places!None>>
    BY DEF Places!None
  <2>3. \A b \in Places!ChapterId : Places!Drafts(b) \subseteq Places!Drafts(b)'
    BY <2>1, <2>2 DEF Places!Drafts
  <2>4. CallsKeep
    BY <2>1, AnsweredKeeps
  <2> QED BY <1>0, <2>3, <2>4, KeepsForks, KeepsSelection
<1>4. CASE Places!ServeFork(k)
  <2>1. k.k = "fork" /\ k.c \in Places!ChapterId /\ gone' = gone
    BY <1>0, <1>4 DEF Places!ServeFork, KnownCall
  <2>2. CASE ~ Places!Lives(k.c)
    <3>1. top' = top /\ Places!Answered(k, "failed")
      BY <1>4, <2>2 DEF Places!ServeFork
    <3>2. \A b \in Places!ChapterId : Places!Drafts(b) \subseteq Places!Drafts(b)'
      BY <2>1, <3>1 DEF Places!Drafts
    <3>3. CallsKeep
      BY <2>1, <3>1, AnsweredKeeps
    <3> QED BY <1>0, <3>2, <3>3, KeepsForks, KeepsSelection
  <2>3. CASE Places!Lives(k.c)
    <3>1. /\ top[k.c] < MaxDraft /\ top' = [top EXCEPT ![k.c] = top[k.c] + 1]
          /\ Places!Becomes(k, [k EXCEPT !.d = top[k.c] + 1, !.st = "ok"])
      BY <1>4, <2>3 DEF Places!ServeFork
    <3>2. top[k.c] \in Nat
      BY <1>1, <2>1
    <3>3. \A b \in Places!ChapterId : top[b] \in Nat /\ top'[b] \in Nat /\ top[b] <= top'[b]
      BY <1>1, <2>1, <3>1
    <3>4. \A b \in Places!ChapterId : Places!Drafts(b) \subseteq Places!Drafts(b)'
      BY <2>1, <3>3 DEF Places!Drafts
    <3>5. top[k.c] + 1 \in Places!DraftId
      BY <3>1, <3>2, PlaceNumbers
    <3>6. <<k.c, top[k.c] + 1>> \notin gone
      <4>1. ~ (top[k.c] + 1 <= top[k.c])
        BY <3>2
      <4> QED BY <2>1, <3>5, <4>1 DEF ViewShape, NumbersRun
    <3>7. top[k.c] + 1 \in Places!Drafts(k.c)'
      <4>1. top'[k.c] = top[k.c] + 1
        BY <1>1, <2>1, <3>1
      <4>2. top[k.c] + 1 \in 1..top'[k.c]
        BY <3>2, <4>1
      <4> QED BY <2>1, <3>6, <4>2 DEF Places!Drafts
    <3> DEFINE new == [k EXCEPT !.d = top[k.c] + 1, !.st = "ok"]
    <3>8. calls' = (calls \ {k}) \cup {new} /\ new.k = "fork" /\ new.c = k.c /\ new.d = top[k.c] + 1
      BY <1>0, <2>1, <3>1 DEF Places!Becomes, PlacesCall
    <3> HIDE DEF new
    <3>9. SelectionLives'
      <4> SUFFICES ASSUME NEW c \in Places!ChapterId, NEW d \in Places!DraftId, sel' = {<<c, d>>}
                   PROVE  d \in Places!Drafts(c)' \/ Deleting(c, d)'
        BY DEF SelectionLives, Places!ChapterId, Places!DraftId, Places!Far
      <4>1. d \in Places!Drafts(c) \/ Deleting(c, d)
        BY DEF SelectionLives, Places!Serve, Places!browser
      <4>2. Deleting(c, d) => Deleting(c, d)'
        BY <2>1, <3>8 DEF Deleting
      <4> QED BY <3>4, <4>1, <4>2
    <3>10. ForkLives'
      <4> SUFFICES ASSUME NEW j \in calls', j.k = "fork", j.st = "ok"
                   PROVE  j.d \in Places!Drafts(j.c)'
        BY DEF ForkLives, Places!Drafts
      <4>1. CASE j = new
        BY <3>7, <3>8, <4>1
      <4>2. CASE j \in calls
        <5>1. j.c \in Places!ChapterId
          BY <4>2, CallShapes DEF KnownCall
        <5> QED BY <3>4, <4>2, <5>1 DEF ForkLives
      <4> QED BY <3>8, <4>1, <4>2
    <3> QED BY <3>9, <3>10
  <2> QED BY <2>2, <2>3
<1>5. CASE Places!ServeRemoveDraft(k)
  <2>1. top' = top /\ k.k = "removeDraft"
        /\ \/ gone' = gone \cup {<<k.c, k.d>>} /\ Places!Answered(k, "ok")
           \/ gone' = gone /\ Places!Answered(k, "failed")
    BY <1>5 DEF Places!ServeRemoveDraft
  <2>2. CASE gone' = gone /\ Places!Answered(k, "failed")
    <3>1. \A b \in Places!ChapterId : Places!Drafts(b) \subseteq Places!Drafts(b)'
      BY <2>1, <2>2 DEF Places!Drafts
    <3>2. CallsKeep
      BY <1>0, <2>1, <2>2, AnsweredKeeps
    <3> QED BY <1>0, <3>1, <3>2, KeepsForks, KeepsSelection
  <2>3. CASE gone' = gone \cup {<<k.c, k.d>>} /\ Places!Answered(k, "ok")
    <3> DEFINE new == [k EXCEPT !.st = "ok"]
    <3>1. /\ calls' = (calls \ {k}) \cup {new} /\ new.k = "removeDraft" /\ new.st = "ok"
          /\ new.c = k.c /\ new.d = k.d
      BY <2>1, <2>3, CallShapes DEF Places!Answered, Places!Becomes
    <3> HIDE DEF new
    <3>2. \A b \in Places!ChapterId : \A d \in Places!Drafts(b) :
             d \in Places!Drafts(b)' \/ (b = k.c /\ d = k.d)
      BY <2>1, <2>3 DEF Places!Drafts
    <3>3. SelectionLives'
      <4> SUFFICES ASSUME NEW c \in Places!ChapterId, NEW d \in Places!DraftId, sel' = {<<c, d>>}
                   PROVE  d \in Places!Drafts(c)' \/ Deleting(c, d)'
        BY DEF SelectionLives, Places!ChapterId, Places!DraftId, Places!Far
      <4>1. d \in Places!Drafts(c) \/ Deleting(c, d)
        BY DEF SelectionLives, Places!Serve, Places!browser
      <4>2. Deleting(c, d) => Deleting(c, d)'
        BY <1>0, <3>1 DEF Deleting
      <4>3. c = k.c /\ d = k.d => Deleting(c, d)'
        BY <3>1 DEF Deleting
      <4> QED BY <3>2, <4>1, <4>2, <4>3
    <3>4. ForkLives'
      <4> SUFFICES ASSUME NEW j \in calls', j.k = "fork", j.st = "ok"
                   PROVE  j.d \in Places!Drafts(j.c)'
        BY DEF ForkLives, Places!Drafts
      <4>1. j \in calls
        BY <3>1
      <4>2. j.c \in Places!ChapterId
        BY <4>1, CallShapes DEF KnownCall
      <4>3. j.d \in Places!Drafts(j.c)
        BY <4>1 DEF ForkLives
      <4>4. k.c # j.c \/ k.d # j.d
        BY <1>0, <2>1, <4>1 DEF ForkApart
      <4> QED BY <3>2, <4>2, <4>3, <4>4
    <3> QED BY <3>3, <3>4
  <2> QED BY <2>1, <2>2, <2>3
<1>6. CASE Places!ServeActivate(k)
  <2>1. /\ UNCHANGED <<top, gone>> /\ k.k = "activate"
        /\ \E st \in {"ok", "failed"} : Places!Answered(k, st)
    BY <1>6 DEF Places!ServeActivate
  <2>2. \A b \in Places!ChapterId : Places!Drafts(b) \subseteq Places!Drafts(b)'
    BY <2>1 DEF Places!Drafts
  <2>3. CallsKeep
    BY <2>1, AnsweredKeeps
  <2> QED BY <1>0, <2>2, <2>3, KeepsForks, KeepsSelection
<1> QED BY <1>2, <1>3, <1>4, <1>5, <1>6 DEF Places!Serve

(* An answer that selects a draft selects a fork that lives, and the answer *)
(* to a deletion clears the selection of what it deleted.                   *)
LEMMA AnswersKeepLives ==
    ASSUME ViewShape, SelectionLives, ForkLives, "dead" \notin perils', NEW k \in calls,
           \/ Places!Lose(k) \/ Places!Added(k) \/ Places!ChapterRemoved(k)
           \/ Places!ChapterStays(k) \/ Places!Forked(k) \/ Places!DraftRemoved(k)
           \/ Places!NothingMore(k)
    PROVE  SelectionLives' /\ ForkLives'
<1> USE DEF Places!server, Places!browser, Places!history, Places!counters
<1>1. top' = top /\ gone' = gone
  BY DEF Places!Lose, Places!Added, Places!ChapterRemoved, Places!ChapterStays, Places!Forked,
     Places!DraftRemoved, Places!NothingMore
<1>2. \A c \in Places!ChapterId : Places!Drafts(c)' = Places!Drafts(c)
  BY <1>1 DEF Places!Drafts
<1>3. /\ \A s \in Places!Stories : ListShape(rows[s])
      /\ cur \in Places!ChapterId \cup {Places!None} /\ story \in Places!Stories
      /\ k \in PlacesCall /\ KnownCall(k)
  BY CallShapes DEF ViewShape, ViewType, ListsShaped
<1>4. ASSUME sel' \subseteq sel, CallsKeep PROVE SelectionLives' /\ ForkLives'
  BY <1>2, <1>4, KeepsForks, KeepsSelection
<1>5. ASSUME NEW kind, NEW st, Places!Answer(k, kind, st), kind # "removeDraft" \/ st # "ok"
      PROVE  CallsKeep
  BY <1>5 DEF Places!Answer, CallsKeep
<1>6. CASE Places!Lose(k)
  <2>1. Places!Answered(k, "failed") /\ k.k # "removeDraft" /\ sel' = sel
    BY <1>6 DEF Places!Lose, Places!Meets
  <2>2. CallsKeep
    BY <2>1, AnsweredKeeps
  <2> QED BY <1>4, <2>1, <2>2
<1>7. CASE Places!Added(k)
  <2>1. Places!Answer(k, "add", "ok") /\ Places!Lands(k.c, sel, rows[story])
    BY <1>7 DEF Places!Added
  <2>2. k.c \in Places!ChapterId \cup {Places!None}
    BY <1>3 DEF PlacesCall
  <2>3. sel' \subseteq sel
    BY <1>3, <2>1, <2>2, Landed
  <2> QED BY <1>4, <1>5, <2>1, <2>3
<1>8. CASE Places!ChapterRemoved(k)
  <2>1. Places!Answer(k, "removeChapter", "ok")
    BY <1>8 DEF Places!ChapterRemoved
  <2>2. Places!Lands(Places!None, sel, rows[story]) \/ sel' = sel
    BY <1>8 DEF Places!ChapterRemoved
  <2>3. sel' \subseteq sel
    BY <1>3, <2>2, Landed
  <2> QED BY <1>4, <1>5, <2>1, <2>3
<1>9. CASE Places!ChapterStays(k)
  <2>1. /\ Places!Answer(k, "removeChapter", "failed") /\ story' = story
        /\ rows' = [rows EXCEPT !["here"] = k.before] /\ Places!Lands(cur, sel, rows'[story])
    BY <1>9 DEF Places!ChapterStays
  <2>2. k.before \subseteq Places!ChapterId
    BY <1>3 DEF PlacesCall
  <2>3. ListShape(rows'[story])
    BY <1>3, <2>1, <2>2 DEF ListShape, ViewShape, ViewType
  <2>4. sel' \subseteq sel
    BY <1>3, <2>1, <2>3, Landed
  <2> QED BY <1>4, <1>5, <2>1, <2>4
<1>10. CASE Places!Forked(k)
  <2>1. /\ Places!Answer(k, "fork", "ok") /\ k.k = "fork" /\ k.st = "ok"
        /\ Places!Lands(IF k.c # k.seen THEN k.c ELSE cur, {<<k.c, k.d>>}, rows[story])
    BY <1>10 DEF Places!Forked, Places!Answer
  <2>2. k.c \in Places!ChapterId /\ k.d \in Places!DraftId
    BY <1>3, <2>1 DEF KnownCall
  <2>3. (IF k.c # k.seen THEN k.c ELSE cur) \in Places!ChapterId \cup {Places!None}
    BY <1>3, <2>2
  <2>4. sel' \subseteq {<<k.c, k.d>>}
    BY <1>3, <2>1, <2>3, Landed
  <2>5. k.d \in Places!Drafts(k.c)'
    BY <1>2, <2>1, <2>2 DEF ForkLives
  <2>6. SelectionLives'
    BY <2>2, <2>4, <2>5, FreshSelection
  <2>7. ForkLives'
    BY <1>2, <1>5, <2>1, KeepsForks
  <2> QED BY <2>6, <2>7
<1>11. CASE Places!DraftRemoved(k)
  <2>1. calls' = calls \ {k} /\ sel' = sel \ {<<k.c, k.d>>}
    BY <1>11 DEF Places!DraftRemoved, Places!Answer
  <2>2. SelectionLives'
    <3> SUFFICES ASSUME NEW c \in Places!ChapterId, NEW d \in Places!DraftId, sel' = {<<c, d>>}
                 PROVE  d \in Places!Drafts(c)' \/ Deleting(c, d)'
      BY DEF SelectionLives, Places!ChapterId, Places!DraftId, Places!Far
    <3>1. sel = {<<c, d>>} /\ <<c, d>> # <<k.c, k.d>>
      BY <2>1 DEF ViewShape, SelectsOne, OnePair
    <3>2. Deleting(c, d) => Deleting(c, d)'
      BY <2>1, <3>1 DEF Deleting
    <3> QED BY <1>2, <3>1, <3>2 DEF SelectionLives
  <2>3. ForkLives'
    <3> SUFFICES ASSUME NEW j \in calls', j.k = "fork", j.st = "ok"
                 PROVE  j.d \in Places!Drafts(j.c)'
      BY DEF ForkLives, Places!Drafts
    <3>1. j \in calls
      BY <2>1
    <3>2. j.c \in Places!ChapterId
      BY <3>1, CallShapes DEF KnownCall
    <3> QED BY <1>2, <3>1, <3>2 DEF ForkLives
  <2> QED BY <2>2, <2>3
<1>12. CASE Places!NothingMore(k)
  <2>1. sel' = sel
    BY <1>12 DEF Places!NothingMore
  <2>2. CallsKeep
    BY <1>5, <1>12 DEF Places!NothingMore
  <2> QED BY <1>4, <2>1, <2>2
<1> QED BY <1>6, <1>7, <1>8, <1>9, <1>10, <1>11, <1>12

(* The drafts that are shown live, or it is a danger that was met.          *)
LEMMA DraftsLiveStep ==
    ASSUME ViewShape, ViewShape', DraftsLive, Places!Next
    PROVE  DraftsLive'
<1>1. ActiveLives'
  BY ActiveLivesStep DEF DraftsLive
<1>2. ForkApart'
  BY ForkApartStep DEF DraftsLive
<1>3. ASSUME "dead" \notin perils' PROVE SelectionLives' /\ ForkLives'
  <2>1. SelectionLives /\ ForkLives /\ ForkApart
    BY <1>3, PerilsStay DEF DraftsLive
  <2>2. ASSUME NEW c \in Places!ChapterId, Places!Elsewhere(c) PROVE SelectionLives' /\ ForkLives'
    <3>1. /\ UNCHANGED <<top, sel, calls>>
          /\ gone' = gone \cup {<<c, Places!None>>} \/ gone' = gone
      BY <1>3, <2>2 DEF Places!Elsewhere, Places!Meets, Places!browser
    <3>2. \A b \in Places!ChapterId : \A d \in 1..top[b] : <<b, d>> # <<c, Places!None>>
      BY DEF Places!None
    <3>3. \A b \in Places!ChapterId : Places!Drafts(b) \subseteq Places!Drafts(b)'
      BY <3>1, <3>2 DEF Places!Drafts
    <3>4. CallsKeep
      BY <3>1 DEF CallsKeep
    <3> QED BY <2>1, <3>1, <3>3, <3>4, KeepsForks, KeepsSelection
  <2>3. \/ \E c \in Places!ChapterId :
             \/ Places!SelectChapter(c) \/ Places!LoadMeta(c) \/ Places!RemoveChapter(c)
             \/ Places!NewDraft(c)
             \/ \E d \in Places!DraftId :
                  Places!SelectDraft(c, d) \/ Places!RemoveDraft(c, d) \/ Places!Activate(c, d)
        \/ \E s \in Places!Stories : Places!OpenStory(s)
        \/ Places!LoadRows \/ Places!AddChapter
        \/ \E c \in Places!ChapterId : Places!Elsewhere(c)
        \/ \E k \in calls :
             \/ Places!Serve(k)
             \/ Places!Lose(k) \/ Places!Added(k) \/ Places!ChapterRemoved(k)
             \/ Places!ChapterStays(k) \/ Places!Forked(k) \/ Places!DraftRemoved(k)
             \/ Places!NothingMore(k)
    BY DEF Places!Next
  <2> QED BY <1>3, <2>1, <2>2, <2>3, PageKeepsLives, ServesKeepLives, AnswersKeepLives
<1> QED BY <1>1, <1>2, <1>3 DEF DraftsLive

(* Of a selection only what is of the page's chapter is left.               *)
LEMMA LandsSelected ==
    ASSUME NEW c \in Places!ChapterId \cup {Places!None}, NEW s, OnePair(s),
           NEW list, ListShape(list), Places!Lands(c, s, list),
           c = cur => s = {} \/ \E d \in Places!DraftId : s = {<<cur, d>>}
    PROVE  SelectedHere'
<1>1. /\ sel' \subseteq s
      /\ cur' = cur /\ cur = c => sel' = s
      /\ ~ (cur' = cur /\ cur = c) => \A p \in sel' : p[1] = cur'
  BY Landed
<1>2. CASE cur' = cur /\ cur = c
  BY <1>1, <1>2 DEF SelectedHere, Places!DraftId
<1>3. CASE ~ (cur' = cur /\ cur = c)
  <2>1. CASE sel' = {}
    BY <2>1 DEF SelectedHere
  <2>2. CASE sel' # {}
    <3>1. PICK b \in Places!ChapterId, d \in Places!DraftId : s = {<<b, d>>}
      BY <1>1, <2>2 DEF OnePair
    <3>2. sel' = {<<b, d>>} /\ b = cur'
      BY <1>1, <1>3, <2>2, <3>1
    <3> QED BY <3>2 DEF SelectedHere, Places!DraftId
  <2> QED BY <2>1, <2>2
<1> QED BY <1>2, <1>3

(* No activation is under way that was not before.                          *)
NoNewActivation ==
    \A k \in calls' : k.k = "activate" => \E j \in calls : j.k = "activate" /\ j.c = k.c

(* A choice made now is of what is shown now.                               *)
LEMMA ChoiceChosen ==
    ASSUME choice' = Places!Choice, act' = act, SelectedHere', NoNewActivation
    PROVE  Chosen'
<1>1. choice'[1] = cur'
      /\ choice'[2] = IF sel' = {} /\ Places!Unsettled(cur') THEN Places!None ELSE Places!Shown'[2]
  BY DEF Places!Choice
<1>2. ChoiceHere'
  BY <1>1 DEF ChoiceHere
<1>3. ChoiceShown'
  BY <1>1 DEF ChoiceShown, Places!None
<1>4. FollowsSettled'
  <2> SUFFICES ASSUME choice'[2] # Places!None, sel' = {}, cur' # Places!None
               PROVE  /\ meta'[cur'].act = act'[cur']
                      /\ \A k \in calls' : k.k = "activate" => k.c # cur'
    BY DEF FollowsSettled, Undisturbed, Places!None
  <2>1. ~ Places!Unsettled(cur')
    BY <1>1
  <2> QED BY <2>1 DEF Places!Unsettled, NoNewActivation
<1> QED BY <1>2, <1>3, <1>4 DEF Chosen

(* What is shown of the page's chapter.                                     *)
LEMMA ShownHere ==
    ASSUME SelectedHere
    PROVE  \/ sel = {} /\ Places!Shown[2] = IF cur = Places!None THEN Places!None ELSE meta[cur].act
           \/ \E d \in Places!DraftId : sel = {<<cur, d>>} /\ Places!Shown[2] = d
<1>1. Places!Shown[2] = Places!ShownDraft(cur, sel, meta)
  BY DEF Places!Shown
<1>2. CASE sel = {}
  BY <1>1, <1>2, ShownOf
<1>3. ASSUME NEW d \in Places!DraftId, sel = {<<cur, d>>}
      PROVE  Places!Shown[2] = d
  BY <1>1, <1>3, ShownOf
<1> QED BY <1>2, <1>3 DEF SelectedHere

(* A choice that stays is still what is shown, if the page and the active   *)
(* draft it follows stay.                                                   *)
LEMMA SameChosen ==
    ASSUME Chosen, UNCHANGED <<choice, cur, sel>>,
           choice[1] = cur \/ rows'[story'] = rows[story],
           choice[2] # Places!None /\ cur # Places!None /\ sel = {} =>
             /\ meta'[cur].act = meta[cur].act /\ act'[cur] = act[cur]
             /\ \A k \in calls' : k.k = "activate" => k.c # cur
    PROVE  Chosen'
<1>1. SelectedHere'
  BY DEF Chosen, SelectedHere, Places!DraftId
<1>2. ChoiceHere'
  BY DEF Chosen, ChoiceHere, Places!Unloaded, Places!None
<1>3. ChoiceShown'
  <2> SUFFICES ASSUME choice[2] # Places!None PROVE choice[2] = Places!Shown'[2]
    BY DEF ChoiceShown, Places!None
  <2>1. choice[2] = Places!Shown[2] /\ SelectedHere
    BY DEF Chosen, ChoiceShown
  <2>2. Places!Shown'[2] = Places!ShownDraft(cur, sel, meta')
    BY DEF Places!Shown, Places!ShownDraft, Places!DraftId, Places!None
  <2>3. CASE sel = {}
    BY <2>1, <2>2, <2>3, ShownHere, ShownOf
  <2>4. CASE sel # {}
    BY <2>1, <2>2, <2>4, ShownHere, ShownOf
  <2> QED BY <2>3, <2>4
<1>4. FollowsSettled'
  <2> SUFFICES ASSUME choice[2] # Places!None, sel = {}, cur # Places!None
               PROVE  /\ meta'[cur].act = act'[cur]
                      /\ \A k \in calls' : k.k = "activate" => k.c # cur
    BY DEF FollowsSettled, Undisturbed, Places!None
  <2> QED BY DEF Chosen, FollowsSettled, Undisturbed
<1> QED BY <1>1, <1>2, <1>3, <1>4 DEF Chosen

(* What is not the user's doing leaves the choice, or makes it anew.        *)
LEMMA FollowsChosen ==
    ASSUME Chosen, Places!Follows, act' = act, SelectedHere', NoNewActivation,
           ~ Places!Open /\ choice[1] = cur =>
             /\ cur' = cur /\ sel' = sel
             /\ cur # Places!None /\ sel = {} => meta'[cur].act = meta[cur].act
    PROVE  Chosen'
<1>1. CASE Places!Open
  BY <1>1, ChoiceChosen DEF Places!Follows
<1>2. CASE ~ Places!Open
  <2>1. choice[2] # Places!None /\ choice' = choice
    BY <1>2 DEF Places!Follows, Places!Open
  <2>2. choice[1] = cur
    BY <2>1 DEF Chosen, ChoiceHere
  <2>3. cur # Places!None /\ sel = {} => \A k \in calls' : k.k = "activate" => k.c # cur
    BY <2>1 DEF NoNewActivation, Chosen, FollowsSettled, Undisturbed
  <2> QED BY <1>2, <2>1, <2>2, <2>3, SameChosen
<1> QED BY <1>1, <1>2

(* What the user does leaves the choice where the page is.                  *)
LEMMA PageChosen ==
    ASSUME ViewShape, ViewShape', CurListed, Chosen,
           \/ \E c \in Places!ChapterId :
                \/ Places!SelectChapter(c) \/ Places!LoadMeta(c) \/ Places!RemoveChapter(c)
                \/ Places!NewDraft(c)
                \/ \E d \in Places!DraftId :
                     Places!SelectDraft(c, d) \/ Places!RemoveDraft(c, d) \/ Places!Activate(c, d)
           \/ \E s \in Places!Stories : Places!OpenStory(s)
           \/ Places!LoadRows \/ Places!AddChapter
    PROVE  Chosen'
<1> USE DEF Places!server, Places!browser, Places!history, Places!counters
<1>0. act' = act
  BY DEF Places!SelectChapter, Places!LoadMeta, Places!RemoveChapter, Places!NewDraft,
     Places!SelectDraft, Places!RemoveDraft, Places!Activate, Places!OpenStory, Places!LoadRows,
     Places!AddChapter
<1>1. /\ \A s \in Places!Stories : ListShape(rows[s]) /\ ListShape(rows'[s])
      /\ cur \in Places!ChapterId \cup {Places!None} /\ story \in Places!Stories
      /\ OnePair(sel)
  BY DEF ViewShape, ViewType, ListsShaped, SelectsOne, ListShape, Places!Unloaded, Places!None,
     Places!ChapterId
<1>2. SelectedHere
  BY DEF Chosen
<1>3. ASSUME calls' = calls PROVE NoNewActivation
  BY <1>3 DEF NoNewActivation
<1>4. ASSUME NEW k, NEW c, NEW d, Places!Ask(k, c, d)
      PROVE  \A j \in calls' : j \in calls \/ (j.k = k /\ j.c = c)
  BY <1>4 DEF Places!Ask
<1>5. ASSUME NEW k, NEW c, NEW d, Places!Ask(k, c, d), k # "activate" PROVE NoNewActivation
  BY <1>4, <1>5 DEF NoNewActivation
<1>6. ASSUME NoNewActivation, UNCHANGED <<choice, cur, sel, meta>>,
             choice[1] = cur \/ rows'[story'] = rows[story]
      PROVE  Chosen'
  <2>1. choice[2] # Places!None /\ cur # Places!None /\ sel = {}
          => \A k \in calls' : k.k = "activate" => k.c # cur
    BY <1>6 DEF NoNewActivation, Chosen, FollowsSettled, Undisturbed
  <2> QED BY <1>0, <1>6, <2>1, SameChosen
<1>7. ASSUME NEW c \in Places!ChapterId, Places!SelectChapter(c) PROVE Chosen'
  <2>1. /\ c # cur /\ Places!Lands(c, sel, rows[story]) /\ choice' = Places!Choice
        /\ calls' = calls
    BY <1>7 DEF Places!SelectChapter, Places!Chooses
  <2>2. SelectedHere'
    BY <1>1, <2>1, LandsSelected
  <2> QED BY <1>0, <1>3, <2>1, <2>2, ChoiceChosen
<1>8. ASSUME NEW c \in Places!ChapterId, NEW d \in Places!DraftId, Places!SelectDraft(c, d)
      PROVE  Chosen'
  <2>1. /\ Places!Lands(c, {<<c, d>>}, rows[story]) /\ choice' = Places!Choice
        /\ calls' = calls
    BY <1>8 DEF Places!SelectDraft, Places!Chooses
  <2>2. OnePair({<<c, d>>})
    BY DEF OnePair
  <2>3. SelectedHere'
    BY <1>1, <2>1, <2>2, LandsSelected
  <2> QED BY <1>0, <1>3, <2>1, <2>3, ChoiceChosen
<1>9. ASSUME NEW s \in Places!Stories, Places!OpenStory(s) PROVE Chosen'
  <2>1. /\ Places!Lands(cur, sel, rows[s]) /\ calls' = calls /\ rows' = rows /\ story' = s
        /\ choice' = IF rows[s] = Places!Unloaded THEN <<Places!None, Places!None>>
                     ELSE Places!Choice
    BY <1>9 DEF Places!OpenStory
  <2>2. SelectedHere'
    BY <1>1, <1>2, <2>1, LandsSelected DEF SelectedHere
  <2>3. CASE rows[s] = Places!Unloaded
    <3>1. ChoiceHere'
      BY <2>1, <2>3 DEF ChoiceHere, Places!None, Places!Unloaded
    <3>2. ChoiceShown' /\ FollowsSettled'
      BY <2>1, <2>3 DEF ChoiceShown, FollowsSettled, Places!None
    <3> QED BY <2>2, <3>1, <3>2 DEF Chosen
  <2>4. CASE rows[s] # Places!Unloaded
    BY <1>0, <1>3, <2>1, <2>2, <2>4, ChoiceChosen
  <2> QED BY <2>3, <2>4
<1>10. CASE Places!LoadRows
  <2>1. /\ Places!Lands(cur, sel, rows'[story]) /\ calls' = calls /\ story' = story
        /\ meta' = meta /\ Places!Follows
    BY <1>10 DEF Places!LoadRows
  <2>2. SelectedHere'
    BY <1>1, <1>2, <2>1, LandsSelected DEF SelectedHere
  <2>3. ~ Places!Open /\ choice[1] = cur => cur' = cur /\ sel' = sel
    BY <1>1, <2>1, Landed DEF Places!Open
  <2> QED BY <1>0, <1>3, <2>1, <2>2, <2>3, FollowsChosen
<1>11. ASSUME NEW c \in Places!ChapterId, Places!LoadMeta(c) PROVE Chosen'
  <2>1. /\ UNCHANGED <<story, cur, sel, rows, calls>> /\ Places!Follows
        /\ meta' = [meta EXCEPT ![c] = Places!Fetched(c)]
    BY <1>11 DEF Places!LoadMeta
  <2>2. SelectedHere'
    BY <1>2, <2>1 DEF SelectedHere, Places!DraftId
  <2>3. ASSUME ~ Places!Open, cur # Places!None, sel = {}
        PROVE  meta'[cur].act = meta[cur].act
    <3>1. cur \in Places!ChapterId
      BY <1>1, <2>3
    <3>2. choice[2] # Places!None
      BY <2>3 DEF Places!Open
    <3>3. meta[cur].act = act[cur]
      BY <2>3, <3>2 DEF Chosen, FollowsSettled, Undisturbed
    <3>4. CASE c = cur
      <4>1. meta'[cur] = Places!Fetched(cur)
        BY <2>1, <3>1, <3>4 DEF ViewShape, ViewType
      <4> QED BY <3>3, <4>1 DEF Places!Fetched
    <3>5. CASE c # cur
      BY <2>1, <3>1, <3>5 DEF ViewShape, ViewType
    <3> QED BY <3>4, <3>5
  <2> QED BY <1>0, <1>3, <2>1, <2>2, <2>3, FollowsChosen
<1>12. CASE Places!AddChapter
  BY <1>5, <1>6, <1>12 DEF Places!AddChapter
<1>13. ASSUME NEW c \in Places!ChapterId, Places!RemoveChapter(c) PROVE Chosen'
  <2>1. /\ c \in Places!Listed /\ Places!Ask("removeChapter", c, Places!None) /\ story' = story
        /\ rows' = [rows EXCEPT ![story] = rows[story] \ {c}] /\ meta' = meta
        /\ Places!Lands(cur, sel, rows'[story])
        /\ choice' = IF c = cur THEN Places!Choice ELSE choice
    BY <1>13 DEF Places!RemoveChapter
  <2>2. NoNewActivation
    BY <1>5, <2>1
  <2>3. SelectedHere'
    BY <1>1, <1>2, <2>1, LandsSelected DEF SelectedHere
  <2>4. CASE c = cur
    BY <1>0, <2>1, <2>2, <2>3, <2>4, ChoiceChosen
  <2>5. CASE c # cur
    <3>1. rows[story] # Places!Unloaded /\ c \in rows[story]
      BY <2>1 DEF Places!Listed
    <3>2. cur \in rows[story]
      BY <3>1 DEF CurListed, Places!Loaded
    <3>3. cur \in rows'[story]
      BY <1>1, <2>1, <2>5, <3>2 DEF ViewShape, ViewType
    <3>4. cur' = cur /\ sel' = sel
      <4>1. ListShape(rows'[story]) /\ Places!Lands(cur, sel, rows'[story])
        BY <1>1, <2>1
      <4>2. cur' = cur
        BY <1>1, <3>3, <4>1, Landed
      <4>3. cur' = cur /\ cur = cur => sel' = sel
        BY <1>1, <4>1, Landed
      <4> QED BY <4>2, <4>3
    <3>5. choice[1] = cur
      BY <3>1 DEF Chosen, ChoiceHere
    <3> QED BY <1>6, <2>1, <2>2, <2>5, <3>4, <3>5
  <2> QED BY <2>4, <2>5
<1>14. ASSUME NEW c \in Places!ChapterId, Places!NewDraft(c) PROVE Chosen'
  BY <1>5, <1>6, <1>14 DEF Places!NewDraft
<1>15. ASSUME NEW c \in Places!ChapterId, NEW d \in Places!DraftId, Places!RemoveDraft(c, d)
       PROVE  Chosen'
  BY <1>5, <1>6, <1>15 DEF Places!RemoveDraft
<1>16. ASSUME NEW c \in Places!ChapterId, NEW d \in Places!DraftId, Places!Activate(c, d)
       PROVE  Chosen'
  <2>1. /\ Places!Ask("activate", c, d) /\ UNCHANGED <<story, cur, rows, meta, choice>>
        /\ sel' = Places!Pinned(c)
    BY <1>16 DEF Places!Activate
  <2>2. CASE cur # c \/ Places!Shown[2] \notin meta[c].ids
    <3>1. sel' = sel
      BY <2>1, <2>2 DEF Places!Pinned
    <3>2. ASSUME choice[2] # Places!None, cur # Places!None, sel = {}
          PROVE  \A k \in calls' : k.k = "activate" => k.c # cur
      <4>1. meta[cur].act # Places!None
        BY <1>2, <3>2, ShownHere DEF Chosen, ChoiceShown
      <4>2. meta[cur].act \in meta[cur].ids
        BY <1>1, <3>2, <4>1 DEF ViewShape, MetaKnown, Places!NoMeta
      <4>3. Places!Shown[2] = meta[cur].act
        BY <1>2, <3>2, ShownHere
      <4>4. cur # c
        BY <2>2, <4>2, <4>3
      <4> QED BY <1>4, <2>1, <3>2, <4>4 DEF Chosen, FollowsSettled, Undisturbed
    <3> QED BY <1>0, <2>1, <3>1, <3>2, SameChosen
  <2>3. CASE cur = c /\ Places!Shown[2] \in meta[c].ids
    <3>1. PICK e : e = Places!Shown[2]
      OBVIOUS
    <3>2. sel' = {<<cur, e>>} /\ e \in Places!DraftId
      BY <2>1, <2>3, <3>1 DEF Places!Pinned, ViewShape, ViewType
    <3>3. SelectedHere'
      BY <2>1, <3>2 DEF SelectedHere, Places!DraftId
    <3>4. Places!Shown'[2] = e
      <4>1. Places!Shown'[2] = Places!ShownDraft(cur, {<<cur, e>>}, meta)
        BY <2>1, <3>2 DEF Places!Shown, Places!ShownDraft, Places!DraftId, Places!None
      <4>2. \A x \in Places!DraftId : Places!ShownDraft(cur, {<<cur, x>>}, meta) = x
        BY ShownOf
      <4>3. e \in Places!DraftId
        BY <3>2
      <4> QED BY <4>1, <4>2, <4>3
    <3>5. ChoiceHere'
      BY <2>1 DEF Chosen, ChoiceHere, Places!Unloaded, Places!None
    <3>6. ChoiceShown'
      BY <2>1, <3>1, <3>4 DEF Chosen, ChoiceShown, Places!None
    <3>7. FollowsSettled'
      BY <3>2 DEF FollowsSettled
    <3> QED BY <3>3, <3>5, <3>6, <3>7 DEF Chosen
  <2> QED BY <2>2, <2>3
<1> QED BY <1>7, <1>8, <1>9, <1>10, <1>11, <1>12, <1>13, <1>14, <1>15, <1>16

(* What the server does with a request leaves the choice where the page is. *)
LEMMA ServeChosen ==
    ASSUME ViewShape, ViewShape', CurListed, Chosen, NEW k \in calls, Places!Serve(k)
    PROVE  Chosen'
<1> USE DEF Places!server, Places!browser, Places!history, Places!counters
<1>1. UNCHANGED <<story, cur, sel, rows, meta, choice, perils>>
  BY DEF Places!Serve
<1>2. /\ \A st \in {"ok", "failed"} :
            [k EXCEPT !.st = st].k = k.k /\ [k EXCEPT !.st = st].c = k.c
      /\ k.k = "activate" => k.c \in Places!ChapterId /\ k.d \in Places!DraftId
  BY CallShapes DEF KnownCall
<1>3. ASSUME choice[2] # Places!None, cur # Places!None, sel = {}
      PROVE  /\ cur \in Places!ChapterId /\ meta[cur].act = act[cur] /\ act[cur] # Places!None
             /\ \A j \in calls : j.k = "activate" => j.c # cur
  <2>1. cur \in Places!ChapterId
    BY <1>3 DEF ViewShape, ViewType
  <2>2. choice[2] = Places!Shown[2] /\ SelectedHere
    BY <1>3 DEF Chosen, ChoiceShown
  <2>3. choice[2] = meta[cur].act
    BY <1>3, <2>2, ShownHere
  <2> QED BY <1>3, <2>1, <2>3 DEF Chosen, FollowsSettled, Undisturbed
<1>4. CASE Places!ServeAdd(k)
  <2>1. PICK c \in 1..MaxChapter :
          /\ k.k = "add" /\ top[c] = 0 /\ act' = [act EXCEPT ![c] = 1]
          /\ calls' = (calls \ {k}) \cup {[k EXCEPT !.c = c, !.st = "ok"]}
    BY <1>4 DEF Places!ServeAdd, Places!Becomes
  <2>2. c \in Places!ChapterId
    BY PlaceNumbers DEF Places!ChapterId, Places!Far
  <2>3. [k EXCEPT !.c = c, !.st = "ok"].k = "add"
    BY <2>1, CallShapes DEF PlacesCall
  <2>4. ASSUME choice[2] # Places!None, cur # Places!None, sel = {}
        PROVE  act'[cur] = act[cur] /\ \A j \in calls' : j.k = "activate" => j.c # cur
    <3>1. c # cur
      BY <1>3, <2>1, <2>2, <2>4 DEF ViewShape, NumbersRun
    <3>2. act'[cur] = act[cur]
      BY <1>3, <2>1, <2>4, <3>1 DEF ViewShape, ViewType
    <3> QED BY <1>3, <2>1, <2>3, <2>4, <3>2
  <2> QED BY <1>1, <2>4, SameChosen
<1>5. ASSUME act' = act,
             \A j \in calls' : j.k = "activate" => \E i \in calls : i.k = "activate" /\ i.c = j.c
      PROVE  Chosen'
  <2>1. ASSUME choice[2] # Places!None, cur # Places!None, sel = {}
        PROVE  \A j \in calls' : j.k = "activate" => j.c # cur
    BY <1>3, <1>5, <2>1
  <2> QED BY <1>1, <1>5, <2>1, SameChosen
<1>6. ASSUME NEW st \in {"ok", "failed"}, Places!Answered(k, st)
      PROVE  \A j \in calls' : j.k = "activate" => \E i \in calls : i.k = "activate" /\ i.c = j.c
  <2>1. calls' = (calls \ {k}) \cup {[k EXCEPT !.st = st]}
    BY <1>6 DEF Places!Answered, Places!Becomes
  <2> QED BY <1>2, <2>1
<1>7. CASE Places!ServeRemoveChapter(k)
  BY <1>5, <1>6, <1>7 DEF Places!ServeRemoveChapter
<1>8. CASE Places!ServeFork(k)
  <2>1. k.k = "fork" /\ act' = act
    BY <1>8 DEF Places!ServeFork
  <2>2. CASE Places!Lives(k.c)
    <3>1. calls' = (calls \ {k}) \cup {[k EXCEPT !.d = top[k.c] + 1, !.st = "ok"]}
      BY <1>8, <2>2 DEF Places!ServeFork, Places!Becomes
    <3>2. [k EXCEPT !.d = top[k.c] + 1, !.st = "ok"].k = "fork"
      BY <2>1, CallShapes DEF PlacesCall
    <3> QED BY <1>5, <2>1, <3>1, <3>2
  <2>3. CASE ~ Places!Lives(k.c)
    BY <1>5, <1>6, <1>8, <2>1, <2>3 DEF Places!ServeFork
  <2> QED BY <2>2, <2>3
<1>9. CASE Places!ServeRemoveDraft(k)
  BY <1>5, <1>6, <1>9 DEF Places!ServeRemoveDraft
<1>10. CASE Places!ServeActivate(k)
  <2>1. k.k = "activate"
    BY <1>10 DEF Places!ServeActivate
  <2>2. \E st \in {"ok", "failed"} : Places!Answered(k, st)
    BY <1>10 DEF Places!ServeActivate
  <2>3. ASSUME choice[2] # Places!None, cur # Places!None, sel = {}
        PROVE  act'[cur] = act[cur] /\ \A j \in calls' : j.k = "activate" => j.c # cur
    <3>1. k.c # cur
      BY <1>3, <2>1, <2>3
    <3>2. act'[cur] = act[cur]
      BY <1>2, <1>3, <1>10, <2>1, <2>3, <3>1 DEF Places!ServeActivate, ViewShape, ViewType
    <3> QED BY <1>3, <1>6, <2>2, <2>3, <3>2
  <2> QED BY <1>1, <2>3, SameChosen
<1> QED BY <1>4, <1>7, <1>8, <1>9, <1>10 DEF Places!Serve

(* An answer leaves the choice where the page is, unless it was one of the  *)
(* dangers of the list.                                                     *)
LEMMA AnswerChosen ==
    ASSUME ViewShape, ViewShape', CurListed, Chosen, Calm', NEW k \in calls,
           \/ Places!Lose(k) \/ Places!Added(k) \/ Places!ChapterRemoved(k)
           \/ Places!ChapterStays(k) \/ Places!Forked(k) \/ Places!DraftRemoved(k)
           \/ Places!NothingMore(k)
    PROVE  Chosen'
<1> USE DEF Places!server, Places!browser, Places!history, Places!counters
<1>0. act' = act
  BY DEF Places!Lose, Places!Added, Places!ChapterRemoved, Places!ChapterStays, Places!Forked,
     Places!DraftRemoved, Places!NothingMore
<1>1. /\ \A s \in Places!Stories : ListShape(rows[s]) /\ ListShape(rows'[s])
      /\ cur \in Places!ChapterId \cup {Places!None} /\ story \in Places!Stories
      /\ OnePair(sel)
  BY DEF ViewShape, ViewType, ListsShaped, SelectsOne, ListShape, Places!Unloaded, Places!None,
     Places!ChapterId
<1>2. SelectedHere
  BY DEF Chosen
<1>3. ASSUME calls' \subseteq calls PROVE NoNewActivation
  BY <1>3 DEF NoNewActivation
<1>4. ASSUME NoNewActivation, UNCHANGED <<choice, cur, sel, meta, story, rows>>
      PROVE  Chosen'
  <2>1. choice[2] # Places!None /\ cur # Places!None /\ sel = {}
          => \A j \in calls' : j.k = "activate" => j.c # cur
    BY <1>4 DEF NoNewActivation, Chosen, FollowsSettled, Undisturbed
  <2> QED BY <1>0, <1>4, <2>1, SameChosen
<1>5. CASE Places!Lose(k)
  <2>1. calls' = (calls \ {k}) \cup {[k EXCEPT !.st = "failed"]}
    BY <1>5 DEF Places!Lose, Places!Answered, Places!Becomes
  <2>2. [k EXCEPT !.st = "failed"].k = k.k /\ [k EXCEPT !.st = "failed"].c = k.c
    BY CallShapes
  <2>3. NoNewActivation
    BY <2>1, <2>2 DEF NoNewActivation
  <2> QED BY <1>4, <1>5, <2>3 DEF Places!Lose
<1>6. CASE Places!Added(k)
  <2>1. /\ calls' = calls \ {k} /\ Places!Lands(k.c, sel, rows[story]) /\ k \in calls
        /\ choice' = (IF cur' = k.c THEN Places!Choice ELSE <<k.c, Places!None>>)
        /\ Places!Meets(cur' # k.c, "unlisted")
    BY <1>6 DEF Places!Added, Places!Answer
  <2>2. cur' = k.c
    BY <2>1 DEF Calm, Places!Meets
  <2>3. k.c \in Places!ChapterId \cup {Places!None}
    BY CallShapes DEF PlacesCall
  <2>4. SelectedHere'
    BY <1>1, <1>2, <2>1, <2>3, LandsSelected DEF SelectedHere
  <2> QED BY <1>0, <1>3, <2>1, <2>2, <2>4, ChoiceChosen
<1>7. CASE Places!ChapterRemoved(k)
  <2>1. /\ calls' = calls \ {k} /\ meta' = meta /\ Places!Follows
        /\ Places!Meets(<<cur', sel'>> # <<cur, sel>>, "thrown")
    BY <1>7 DEF Places!ChapterRemoved, Places!Answer
  <2>2. cur' = cur /\ sel' = sel
    BY <2>1 DEF Calm, Places!Meets
  <2>3. SelectedHere'
    BY <1>2, <2>2 DEF SelectedHere, Places!DraftId
  <2> QED BY <1>0, <1>3, <2>1, <2>2, <2>3, FollowsChosen
<1>8. CASE Places!ChapterStays(k)
  <2>1. /\ calls' = calls \ {k} /\ story' = story /\ meta' = meta /\ Places!Follows
        /\ Places!Lands(cur, sel, rows'[story])
    BY <1>8 DEF Places!ChapterStays, Places!Answer
  <2>2. SelectedHere'
    BY <1>1, <1>2, <2>1, LandsSelected DEF SelectedHere
  <2>3. ASSUME ~ Places!Open, choice[1] = cur PROVE cur' = cur /\ sel' = sel
    <3>1. ListShape(rows'[story]) /\ cur \in rows'[story]
      BY <1>1, <2>1, <2>3 DEF Places!Open
    <3>2. cur' = cur
      BY <1>1, <2>1, <3>1, Landed
    <3>3. cur' = cur /\ cur = cur => sel' = sel
      BY <1>1, <2>1, <3>1, Landed
    <3> QED BY <3>2, <3>3
  <2> QED BY <1>0, <1>3, <2>1, <2>2, <2>3, FollowsChosen
<1>9. CASE Places!Forked(k)
  <2>1. /\ calls' = calls \ {k} /\ k.k = "fork" /\ k.st = "ok"
        /\ Places!Lands(IF k.c # k.seen THEN k.c ELSE cur, {<<k.c, k.d>>}, rows[story])
        /\ k.c = cur' => choice' = Places!Choice
        /\ Places!Meets(k.c # cur', "unlisted")
    BY <1>9 DEF Places!Forked, Places!Answer, Places!Chooses
  <2>2. cur' = k.c
    BY <2>1 DEF Calm, Places!Meets
  <2>3. k.d \in Places!DraftId /\ k.c \in Places!ChapterId
    BY <2>1, CallShapes DEF KnownCall
  <2>4. sel' \subseteq {<<k.c, k.d>>}
    <3>1. PICK c \in Places!ChapterId \cup {Places!None} :
            Places!Lands(c, {<<k.c, k.d>>}, rows[story])
      BY <1>1, <2>1, <2>3
    <3> QED BY <1>1, <3>1, Landed
  <2>5. sel' = {} \/ sel' = {<<cur', k.d>>}
    BY <2>2, <2>4
  <2>6. SelectedHere'
    BY <2>3, <2>5 DEF SelectedHere, Places!DraftId
  <2> QED BY <1>0, <1>3, <2>1, <2>2, <2>6, ChoiceChosen
<1>10. CASE Places!DraftRemoved(k)
  <2>1. /\ calls' = calls \ {k} /\ sel' = sel \ {<<k.c, k.d>>}
        /\ UNCHANGED <<story, cur, rows, meta>>
        /\ choice' = IF sel' # sel THEN Places!Choice ELSE choice
    BY <1>10 DEF Places!DraftRemoved, Places!Answer
  <2>2. CASE sel' = sel
    BY <1>3, <1>4, <2>1, <2>2
  <2>3. CASE sel' # sel
    <3>1. sel' = {}
      BY <1>1, <2>1, <2>3 DEF OnePair
    <3>2. SelectedHere'
      BY <3>1 DEF SelectedHere
    <3> QED BY <1>0, <1>3, <2>1, <2>3, <3>2, ChoiceChosen
  <2> QED BY <2>2, <2>3
<1>11. CASE Places!NothingMore(k)
  BY <1>3, <1>4, <1>11 DEF Places!NothingMore, Places!Answer
<1> QED BY <1>5, <1>6, <1>7, <1>8, <1>9, <1>10, <1>11

(* What another tab does leaves it too, but for a change of the active      *)
(* draft, a danger of the list.                                             *)
LEMMA ElsewhereChosen ==
    ASSUME Chosen, Calm', NEW c \in Places!ChapterId, Places!Elsewhere(c)
    PROVE  Chosen'
<1> USE DEF Places!server, Places!browser, Places!history, Places!counters
<1>1. UNCHANGED <<story, cur, sel, rows, meta, calls, choice>>
  BY DEF Places!Elsewhere
<1>2. act' = act
  BY DEF Places!Elsewhere, Calm, Places!Meets
<1>3. choice[2] # Places!None /\ cur # Places!None /\ sel = {}
        => \A j \in calls' : j.k = "activate" => j.c # cur
  BY <1>1 DEF Chosen, FollowsSettled, Undisturbed
<1> QED BY <1>1, <1>2, <1>3, SameChosen

(* Every step of the page and of the server keeps the invariant.            *)
LEMMA ViewStep ==
    ASSUME ViewInv, Places!Next
    PROVE  ViewInv'
<1> DEFINE Page ==
      \/ \E c \in Places!ChapterId :
           \/ Places!SelectChapter(c) \/ Places!LoadMeta(c) \/ Places!RemoveChapter(c)
           \/ Places!NewDraft(c)
           \/ \E d \in Places!DraftId :
                Places!SelectDraft(c, d) \/ Places!RemoveDraft(c, d) \/ Places!Activate(c, d)
      \/ \E s \in Places!Stories : Places!OpenStory(s)
      \/ Places!LoadRows \/ Places!AddChapter
<1> DEFINE Heard(k) ==
      \/ Places!Lose(k) \/ Places!Added(k) \/ Places!ChapterRemoved(k)
      \/ Places!ChapterStays(k) \/ Places!Forked(k) \/ Places!DraftRemoved(k)
      \/ Places!NothingMore(k)
<1>1. \/ Page \/ \E c \in Places!ChapterId : Places!Elsewhere(c)
      \/ \E k \in calls : Places!Serve(k) \/ Heard(k)
  BY DEF Places!Next
<1>2. ViewShape /\ CurListed /\ DraftsLive /\ ActiveLives /\ (Calm => Chosen)
  BY DEF ViewInv, DraftsLive
<1>3. Calm' => Calm
  BY PerilsStay DEF Calm
<1>4. ASSUME ViewShape', CurListed', Calm' => Chosen'
      PROVE  ViewInv'
  BY <1>2, <1>4, DraftsLiveStep DEF ViewInv
<1>5. CASE Page
  <2>1. ViewShape' /\ CurListed'
    BY <1>2, <1>5, MovesShape, LoadMetaShape, AsksShape
  <2>2. Calm' => Chosen'
    BY <1>2, <1>3, <1>5, <2>1, PageChosen
  <2> QED BY <1>4, <2>1, <2>2
<1>6. ASSUME NEW c \in Places!ChapterId, Places!Elsewhere(c) PROVE ViewInv'
  <2>1. ViewShape' /\ CurListed'
    BY <1>2, <1>6, ElsewhereShape
  <2>2. Calm' => Chosen'
    BY <1>2, <1>3, <1>6, ElsewhereChosen
  <2> QED BY <1>4, <2>1, <2>2
<1>7. ASSUME NEW k \in calls, Places!Serve(k) PROVE ViewInv'
  <2>1. ViewShape' /\ CurListed'
    BY <1>2, <1>7, ServesShape
  <2>2. Calm' => Chosen'
    BY <1>2, <1>3, <1>7, <2>1, ServeChosen
  <2> QED BY <1>4, <2>1, <2>2
<1>8. ASSUME NEW k \in calls, Heard(k) PROVE ViewInv'
  <2>1. ViewShape' /\ CurListed'
    BY <1>2, <1>8, AnswersShape
  <2>2. Calm' => Chosen'
    BY <1>2, <1>3, <1>8, <2>1, AnswerChosen
  <2> QED BY <1>4, <2>1, <2>2
<1> QED BY <1>1, <1>5, <1>6, <1>7, <1>8

(* Where nothing is under way and the lists are fresh, the invariant says   *)
(* what the editor shows.                                                   *)
LEMMA QuietView ==
    ASSUME ViewInv
    PROVE  Places!ViewHolds
<1> SUFFICES ASSUME Places!Quiet PROVE Places!ViewHolds
  BY DEF Places!ViewHolds
<1>1. /\ calls = {} /\ rows[story] = Places!In(story)
      /\ cur \in Places!ChapterId => meta[cur] = Places!Fetched(cur)
  BY DEF Places!Quiet
<1>2. ViewShape /\ CurListed /\ DraftsLive /\ (Calm => Chosen)
  BY DEF ViewInv
<1>3. Places!In(story) \subseteq Places!ChapterId /\ Places!In(story) # Places!Unloaded
  BY PlaceNumbers DEF Places!In
<1>4. IF Places!In(story) = {} THEN cur = Places!None ELSE cur \in Places!In(story)
  BY <1>1, <1>2, <1>3 DEF CurListed, Places!Loaded
<1>5. ASSUME "dead" \notin perils, cur # Places!None
      PROVE  Places!Shown[2] \in Places!Drafts(cur)
  <2>1. cur \in Places!ChapterId /\ Places!Lives(cur)
    BY <1>3, <1>4, <1>5 DEF Places!In
  <2>2. act[cur] \in Places!Drafts(cur) /\ meta[cur].act = act[cur]
    BY <1>1, <1>2, <2>1 DEF DraftsLive, ActiveLives, Places!Fetched
  <2>3. CASE \E d \in Places!DraftId : sel = {<<cur, d>>}
    <3>1. PICK d \in Places!DraftId : sel = {<<cur, d>>}
      BY <2>3
    <3>2. d \in Places!Drafts(cur)
      BY <1>1, <1>2, <1>5, <2>1, <3>1 DEF DraftsLive, SelectionLives, Deleting
    <3>3. \A x \in Places!DraftId : Places!ShownDraft(cur, {<<cur, x>>}, meta) = x
      BY ShownOf
    <3> QED BY <3>1, <3>2, <3>3 DEF Places!Shown
  <2>4. CASE ~ \E d \in Places!DraftId : sel = {<<cur, d>>}
    BY <1>5, <2>2, <2>4 DEF Places!Shown, Places!ShownDraft
  <2> QED BY <2>3, <2>4
<1>6. ASSUME perils \cap {"unlisted", "thrown", "followed"} = {}
      PROVE  choice[1] = cur /\ choice[2] \in {Places!None, Places!Shown[2]}
  BY <1>1, <1>2, <1>3, <1>6 DEF Calm, Chosen, ChoiceHere, ChoiceShown
<1> QED BY <1>4, <1>5, <1>6 DEF Places!ViewHolds

(* The invariant is of what the parts share.                                *)
LEMMA StillView ==
    ASSUME ViewInv, UNCHANGED PlacesVars
    PROVE  ViewInv'
<1> USE DEF PlacesVars
<1>1. ViewShape' /\ CurListed'
  BY DEF ViewInv, ViewShape, ViewType, ListsShaped, ListShape, SelectsOne, NumbersRun, MetaKnown,
     CallsKnown, KnownCall, CurListed, Places!Loaded
<1>2. DraftsLive'
  BY DEF ViewInv, DraftsLive, ActiveLives, ForkApart, SelectionLives, ForkLives, Deleting,
     Places!Lives, Places!Drafts
<1>3. Calm' => Chosen'
  BY DEF ViewInv, Calm, Chosen, SelectedHere, ChoiceHere, ChoiceShown, FollowsSettled, Undisturbed,
     Places!Shown, Places!ShownDraft
<1> QED BY <1>1, <1>2, <1>3 DEF ViewInv

PlacesPart == part = "places" => ViewInv

(* When nothing is under way and the lists are fresh, the editor shows a    *)
(* chapter of the story if there is one, and a draft that exists; it is the *)
(* document that was chosen: whatever answers, reloads and other tabs came  *)
(* in between, but for the dangers ViewHolds names (EditorPage,             *)
(* ChapterList, DraftList).                                                 *)
THEOREM ViewCorrect == MCSpec => []ViewHolds
<1>1. MCInit => PlacesPart
  <2> SUFFICES ASSUME MCInit, part = "places" PROVE ViewInv
    BY DEF PlacesPart
  <2>1. Places!Init
    BY DEF MCInit
  <2>2. /\ MaxChapter \in Nat /\ MaxDraft \in Nat /\ MaxChapter >= 2 /\ MaxDraft >= 2
    BY PartsAssumption DEF Places!NavigationAssumption
  <2>3. /\ {1, 2, Places!Far} \subseteq Places!ChapterId /\ Places!Far # 1 /\ Places!Far # 2
        /\ {1, 2} \subseteq Places!DraftId
    BY <2>2 DEF Places!ChapterId, Places!Far, Places!DraftId
  <2>4. /\ \A c \in Places!ChapterId : top[c] \in {0, 1, 2}
        /\ \A c \in Places!ChapterId : act[c] = IF top[c] = 0 THEN 0 ELSE 1
        /\ top[1] = 2 /\ top[2] = 1
    BY <2>1, <2>3 DEF Places!Init, Places!None
  <2>5. \A c \in Places!ChapterId : Places!Drafts(c) = 1..top[c]
    BY <2>1 DEF Places!Init, Places!Drafts
  <2>6. Places!Fetched(1) = [ids |-> 1..2, act |-> 1]
    <3>1. Places!Drafts(1) = 1..2 /\ act[1] = 1
      BY <2>3, <2>4, <2>5
    <3> QED BY <3>1 DEF Places!Fetched
  <2>7. /\ story = "here" /\ cur = 1 /\ sel = {} /\ gone = {} /\ calls = {} /\ choice = <<1, 1>>
        /\ rows["here"] = {1, 2} /\ rows["there"] = {0}
        /\ rows \in [Places!Stories -> {{1, 2}, {0}}]
    BY <2>1 DEF Places!Init, Places!Stories, Places!Unloaded, Places!None
  <2>8. /\ meta[1] = [ids |-> 1..2, act |-> 1]
        /\ \A c \in Places!ChapterId \ {1} : meta[c] = Places!NoMeta
    BY <2>1, <2>3, <2>6 DEF Places!Init
  <2>9. ViewType
    <3>1. top \in [Places!ChapterId -> 0..MaxDraft] /\ act \in [Places!ChapterId -> 0..MaxDraft]
      BY <2>1, <2>2, <2>4 DEF Places!Init
    <3>2. rows \in [Places!Stories -> SUBSET (Places!ChapterId \cup {Places!None})]
      BY <2>3, <2>7 DEF Places!None
    <3>3. \A c \in Places!ChapterId : meta[c] \in [ids : SUBSET Places!DraftId, act : 0..MaxDraft]
      <4>1. 1..2 \subseteq Places!DraftId /\ 1 \in 0..MaxDraft /\ 0 \in 0..MaxDraft
        BY <2>2 DEF Places!DraftId
      <4>2. /\ [ids |-> 1..2, act |-> 1] \in [ids : SUBSET Places!DraftId, act : 0..MaxDraft]
            /\ Places!NoMeta \in [ids : SUBSET Places!DraftId, act : 0..MaxDraft]
        BY <4>1 DEF Places!NoMeta, Places!None
      <4> QED BY <2>8, <4>2
    <3>4. meta \in [Places!ChapterId -> [ids : SUBSET Places!DraftId, act : 0..MaxDraft]]
      BY <2>1, <3>3 DEF Places!Init
    <3> QED BY <2>3, <2>7, <3>1, <3>2, <3>4 DEF ViewType, Places!Stories
  <2>10. ListsShaped
    BY <2>3, <2>7 DEF ListsShaped, ListShape, Places!Stories, Places!Unloaded, Places!None
  <2>11. SelectsOne /\ CallsKnown
    BY <2>7 DEF SelectsOne, OnePair, CallsKnown
  <2>12. NumbersRun
    BY <2>4, <2>7 DEF NumbersRun, Places!None
  <2>13. MetaKnown
    <3>1. ASSUME NEW c \in Places!ChapterId
          PROVE  /\ \A d \in meta[c].ids : d <= top[c]
                 /\ meta[c] = Places!NoMeta \/ meta[c].act \in meta[c].ids
      <4>1. CASE c = 1
        BY <2>4, <2>8, <4>1
      <4>2. CASE c # 1
        BY <2>8, <4>2 DEF Places!NoMeta
      <4> QED BY <4>1, <4>2
    <3> QED BY <3>1 DEF MetaKnown
  <2>14. CurListed
    BY <2>7 DEF CurListed
  <2>15. DraftsLive
    <3>1. ActiveLives
      BY <2>4, <2>5 DEF ActiveLives, Places!Lives
    <3>2. ForkApart /\ SelectionLives /\ ForkLives
      BY <2>7 DEF ForkApart, SelectionLives, ForkLives
    <3> QED BY <3>1, <3>2 DEF DraftsLive
  <2>16. Chosen
    <3>1. SelectedHere /\ ChoiceHere
      BY <2>7 DEF SelectedHere, ChoiceHere
    <3>2. Places!Shown[2] = 1
      <4>1. Places!ShownDraft(cur, {}, meta) = meta[cur].act
        BY <2>7, ShownOf DEF Places!None
      <4> QED BY <2>7, <2>8, <4>1 DEF Places!Shown
    <3>3. Undisturbed(cur)
      BY <2>3, <2>4, <2>7, <2>8 DEF Undisturbed
    <3> QED BY <2>7, <3>1, <3>2, <3>3 DEF Chosen, ChoiceShown, FollowsSettled
  <2> QED BY <2>9, <2>10, <2>11, <2>12, <2>13, <2>14, <2>15, <2>16 DEF ViewInv, ViewShape
<1>2. PlacesPart /\ [MCNext]_MCVars => PlacesPart'
  <2> SUFFICES ASSUME PlacesPart, [MCNext]_MCVars, part = "places" PROVE ViewInv'
    BY DEF MCNext, MCVars, PlacesPart
  <2>1. CASE Places!Next
    BY <2>1, ViewStep DEF PlacesPart
  <2>2. CASE UNCHANGED MCVars
    <3>1. ViewInv /\ UNCHANGED PlacesVars
      BY <2>2 DEF MCVars, PlacesPart
    <3> QED BY <3>1, StillView
  <2> QED BY <2>1, <2>2 DEF MCNext
<1>3. PlacesPart => ViewHolds
  BY QuietView DEF PlacesPart, ViewHolds
<1> QED BY <1>1, <1>2, <1>3, PTL DEF MCSpec

-----------------------------------------------------------------------------
(* The draft book.  As long as the indexes have no gaps, a chapter's drafts *)
(* in display order are those with the indexes 0, 1, ..., N - 1, and there  *)
(* is one such sequence.                                                    *)
InOrder(s, D, f) ==
    /\ s \in Seq(D) /\ Len(s) = Cardinality(D)
    /\ \A i \in 1..Len(s) : f[s[i]] = i - 1

(* What is listed one after the other is listed at one's number.            *)
LEMMA ListedInOrder ==
    ASSUME NEW D, IsFiniteSet(D), NEW f, {f[d] : d \in D} = 0..(Cardinality(D) - 1)
    PROVE  InOrder(SortedBy(D, f), D, f)
<1> DEFINE n == Cardinality(D)
           s == SortedBy(D, f)
           Below(d) == Cardinality({e \in D : f[e] < f[d]})
<1>1. n \in Nat
  BY FS_CardinalityType
<1>2. \A k \in 0..n : Cardinality({e \in D : f[e] < k}) = k
  BY Numbering
<1>3. \A d \in D : f[d] \in 0..(n - 1) /\ Below(d) = f[d]
  <2> SUFFICES ASSUME NEW d \in D PROVE f[d] \in 0..(n - 1) /\ Below(d) = f[d]
    OBVIOUS
  <2>1. f[d] \in 0..(n - 1)
    OBVIOUS
  <2>2. f[d] \in 0..n
    BY <1>1, <2>1
  <2> QED BY <1>2, <2>1, <2>2
<1>4. ASSUME NEW i \in 1..n PROVE s[i] \in D /\ f[s[i]] = i - 1
  <2>1. s[i] = CHOOSE d \in D : Below(d) = i - 1
    BY DEF SortedBy
  <2>2. PICK d \in D : f[d] = i - 1
    <3>1. i - 1 \in 0..(n - 1)
      BY <1>1
    <3> QED BY <3>1
  <2>3. \E x \in D : Below(x) = i - 1
    BY <1>3, <2>2
  <2> HIDE DEF Below
  <2>4. s[i] \in D /\ Below(s[i]) = i - 1
    BY <2>1, <2>3
  <2> QED BY <1>3, <2>4
<1>5. s \in [1..n -> D] /\ s \in Seq(D) /\ Len(s) = n
  <2>1. s \in [1..n -> D]
    BY <1>4 DEF SortedBy
  <2> HIDE DEF n, s
  <2>2. s \in Seq(D)
    BY <1>1, <2>1
  <2>3. DOMAIN s = 1..Len(s) /\ DOMAIN s = 1..n /\ Len(s) \in Nat
    BY <2>1, <2>2, LenProperties
  <2>4. \A k \in Nat : k \in 1..Len(s) <=> k \in 1..n
    BY <2>3
  <2>5. Len(s) = n
    <3>1. PICK l \in Nat : l = Len(s)
      BY <2>3
    <3>2. n \in 1..l \/ n = 0
      BY <1>1, <2>4, <3>1
    <3>3. l \in 1..n \/ l = 0
      BY <2>4, <3>1
    <3> QED BY <1>1, <3>1, <3>2, <3>3
  <2> QED BY <2>1, <2>2, <2>5
<1> QED BY <1>4, <1>5 DEF InOrder

(* There is one sequence in order.                                          *)
LEMMA OneOrder ==
    ASSUME NEW D, IsFiniteSet(D), NEW f, {f[d] : d \in D} = 0..(Cardinality(D) - 1),
           NEW s, NEW t, InOrder(s, D, f), InOrder(t, D, f)
    PROVE  s = t
<1>1. \A d, e \in D : f[d] = f[e] => d = e
  BY Numbering
<1>2. Len(s) = Len(t) /\ Len(s) \in Nat
  BY DEF InOrder
<1>3. \A i \in 1..Len(s) : s[i] \in D /\ t[i] \in D /\ f[s[i]] = f[t[i]]
  BY <1>2 DEF InOrder
<1>4. \A i \in 1..Len(s) : s[i] = t[i]
  BY <1>1, <1>3
<1> QED BY <1>2, <1>4, SeqEqual DEF InOrder

(* The chapters' lists, where the indexes have no gaps.                     *)
Settled ==
    \A c \in Chapter :
       /\ {order[d] : d \in DraftsOf(c)} = 0..(Cardinality(DraftsOf(c)) - 1)
       /\ InOrder(Listing(c), DraftsOf(c), order)
LEMMA BookInOrder == OrderInv /\ raced = {} => Settled
<1> SUFFICES ASSUME OrderInv, raced = {}, NEW c \in Chapter
             PROVE  /\ {order[d] : d \in DraftsOf(c)} = 0..(Cardinality(DraftsOf(c)) - 1)
                    /\ InOrder(Listing(c), DraftsOf(c), order)
  BY DEF Settled
<1>1. {order[d] : d \in DraftsOf(c)} = 0..(Cardinality(DraftsOf(c)) - 1)
  <2>1. CASE c \in chapters
    BY <2>1 DEF OrderInv, GapFree
  <2>2. CASE c \notin chapters
    <3>1. DraftsOf(c) = {}
      BY <2>2, Constants DEF OrderInv, PointerInv, ActivePointsHome, DraftsOf
    <3>2. Cardinality(DraftsOf(c)) = 0
      BY <3>1, FS_EmptySet
    <3> QED BY <3>1, <3>2
  <2> QED BY <2>1, <2>2
<1>2. IsFiniteSet(DraftsOf(c))
  BY Countable
<1> QED BY <1>1, <1>2, ListedInOrder DEF Listing

(* A chapter whose drafts and their indexes stay is listed as before.       *)
LEMMA ListingStays ==
    ASSUME Settled, Settled', NEW c \in Chapter, DraftsOf(c)' = DraftsOf(c),
           \A d \in DraftsOf(c) : order'[d] = order[d]
    PROVE  Listing(c)' = Listing(c)
<1>1. PICK D, f, s, t : D = DraftsOf(c) /\ f = order /\ s = Listing(c) /\ t = Listing(c)'
  OBVIOUS
<1>2. IsFiniteSet(D) /\ {f[d] : d \in D} = 0..(Cardinality(D) - 1) /\ InOrder(s, D, f)
  BY <1>1, Countable DEF Settled
<1>3. InOrder(t, D, order')
  BY <1>1 DEF Settled
<1>4. InOrder(t, D, f)
  BY <1>1, <1>3 DEF InOrder
<1> QED BY <1>1, <1>2, <1>4, OneOrder

(* The book's chapters, one by one.                                         *)
Listed == [c \in Chapter |-> Listing(c)]
LEMMA BookIs ==
    /\ Book!vars = <<Listed, active>> /\ Book!vars' = <<Listed', active'>>
    /\ \A c \in Chapter : Listed[c] = Listing(c) /\ Listed'[c] = Listing(c)'
    /\ Listed \in [Chapter -> {Listing(c) : c \in Chapter}]
  BY DEF Book!vars, Listed

(* One chapter's list is another, and the others stay.                      *)
LEMMA OneListing ==
    ASSUME Settled, Settled', NEW c \in Chapter, NEW s, Listing(c)' = s,
           \A b \in Chapter \ {c} :
              DraftsOf(b)' = DraftsOf(b) /\ \A d \in DraftsOf(b) : order'[d] = order[d]
    PROVE  Listed' = [Listed EXCEPT ![c] = s]
<1>1. \A b \in Chapter \ {c} : Listing(b)' = Listing(b)
  BY ListingStays
<1> QED BY <1>1 DEF Listed

(* What is listed of a chapter are its drafts; a chapter without drafts has *)
(* an empty list.                                                           *)
LEMMA ListedDrafts ==
    ASSUME NEW D, IsFiniteSet(D), NEW f, {f[d] : d \in D} = 0..(Cardinality(D) - 1),
           NEW s, InOrder(s, D, f)
    PROVE  /\ \A d \in D : f[d] + 1 \in DOMAIN s /\ s[f[d] + 1] = d
           /\ \A i \in DOMAIN s : s[i] \in D
           /\ D = {} <=> s = <<>>
<1>1. s \in Seq(D) /\ Len(s) = Cardinality(D) /\ Cardinality(D) \in Nat
      /\ DOMAIN s = 1..Cardinality(D) /\ \A i \in 1..Cardinality(D) : s[i] \in D /\ f[s[i]] = i - 1
  BY FS_CardinalityType, LenProperties DEF InOrder
<1>2. ASSUME NEW d \in D PROVE f[d] + 1 \in DOMAIN s /\ s[f[d] + 1] = d
  <2>1. f[d] \in 0..(Cardinality(D) - 1)
    OBVIOUS
  <2>2. f[d] + 1 \in 1..Cardinality(D) /\ f[d] + 1 - 1 = f[d]
    BY <1>1, <2>1
  <2>3. s[f[d] + 1] \in D /\ f[s[f[d] + 1]] = f[d]
    <3>1. PICK k \in 1..Cardinality(D) : k = f[d] + 1 /\ k - 1 = f[d]
      BY <1>1, <2>1, <2>2
    <3> QED BY <1>1, <3>1
  <2> QED BY <1>1, <2>2, <2>3, Numbering
<1>3. D = {} <=> Cardinality(D) = 0
  BY FS_EmptySet
<1>4. s = <<>> <=> Len(s) = 0
  BY <1>1, EmptySeq
<1> QED BY <1>1, <1>2, <1>3, <1>4

(* The database leaves the book alone.                                      *)
LEMMA BookStays ==
    ASSUME UNCHANGED <<chapterOf, order, active>>
    PROVE  UNCHANGED Book!vars
  BY BookIs DEF Listed, Listing, DraftsOf

(* A chapter is created, or goes.                                           *)
LEMMA BookChapters ==
    ASSUME OrderInv, Settled, Settled', NEW c \in Chapter,
           DropChapter(c) \/ \E d \in Draft : CreateChapter(c, d)
    PROVE  Book!Next
<1> USE DEF OrderInv, PointerInv
<1>1. CASE DropChapter(c)
  <2>1. /\ order' = order /\ active' = [active EXCEPT ![c] = NoDraft]
        /\ chapterOf' = [d \in Draft |-> IF chapterOf[d] = c THEN NoChapter ELSE chapterOf[d]]
    BY <1>1 DEF DropChapter
  <2>2. DraftsOf(c)' = {} /\ \A b \in Chapter \ {c} : DraftsOf(b)' = DraftsOf(b)
    BY <2>1, Constants DEF DraftsOf, TypeOK
  <2>3. Listing(c)' = <<>>
    BY ZenonT(40), <2>2, FS_EmptySet, ListedDrafts DEF Settled
  <2>4. Listed' = [Listed EXCEPT ![c] = <<>>]
    BY <2>1, <2>2, <2>3, OneListing
  <2> QED BY <2>1, <2>4 DEF Book!Next, Book!Drop, Listed
<1>2. ASSUME NEW d \in Draft, CreateChapter(c, d) PROVE Book!Next
  <2>1. /\ c \in unborn /\ d \in fresh /\ active' = [active EXCEPT ![c] = d]
        /\ chapterOf' = [chapterOf EXCEPT ![d] = c] /\ order' = [order EXCEPT ![d] = 0]
    BY <1>2 DEF CreateChapter
  <2>2. chapterOf[d] = NoChapter /\ c \notin chapters
    BY <2>1 DEF UnusedIds
  <2>3. DraftsOf(c) = {}
    BY <2>2, Constants DEF DraftsOf, ActivePointsHome
  <2>4. /\ DraftsOf(c)' = {d}
        /\ \A b \in Chapter \ {c} : DraftsOf(b)' = DraftsOf(b) /\ d \notin DraftsOf(b)
    BY <2>1, <2>2, <2>3, Constants DEF DraftsOf, TypeOK
  <2>5. \A b \in Chapter \ {c} : \A e \in DraftsOf(b) : order'[e] = order[e]
    BY <2>1, <2>4 DEF DraftsOf, TypeOK
  <2>6. Listing(c) = <<>>
    <3>1. PICK D, f, s : D = DraftsOf(c) /\ f = order /\ s = Listing(c)
      OBVIOUS
    <3>2. /\ IsFiniteSet(D) /\ {f[e] : e \in D} = 0..(Cardinality(D) - 1) /\ InOrder(s, D, f)
      BY <3>1, Countable DEF Settled
    <3>3. D = {}
      BY <2>3, <3>1
    <3>4. D = {} <=> s = <<>>
      BY <3>2, ListedDrafts
    <3> QED BY <3>1, <3>3, <3>4
  <2>7. Listing(c)' = <<d>>
    <3>1. PICK s : s = Listing(c)'
      OBVIOUS
    <3>2. InOrder(s, {d}, order')
      BY <2>4, <3>1 DEF Settled
    <3>3. Cardinality({d}) = 1
      BY FS_Singleton
    <3>4. s \in Seq({d}) /\ Len(s) = 1
      BY <3>2, <3>3 DEF InOrder
    <3> QED BY <3>1, <3>4
  <2>8. Listed' = [Listed EXCEPT ![c] = <<d>>]
    BY <2>4, <2>5, <2>7, OneListing
  <2>9. Listed[c] = <<>>
    BY <2>6 DEF Listed
  <2>10. Book!Create(c, d)
    BY <2>1, <2>8, <2>9 DEF Book!Create, Listed
  <2> QED BY <2>10 DEF Book!Next
<1> QED BY <1>1, <1>2

(* A draft is added at the end.                                             *)
LEMMA BookAdds ==
    ASSUME OrderInv, Settled, Settled', raced = {}, NEW r \in Request, NEW d \in Draft, Insert(r, d)
    PROVE  Book!Next
<1> USE DEF OrderInv, PointerInv
<1>0. PICK c : c = chap[r]
  OBVIOUS
<1>1. /\ c \in chapters /\ c \in Chapter /\ d \in fresh /\ index[r] \in Nat
      /\ chapterOf' = [chapterOf EXCEPT ![d] = c] /\ order' = [order EXCEPT ![d] = index[r]]
      /\ active' = active
  BY <1>0 DEF Insert, TypeOK
<1>2. \A b \in Chapter : d \notin DraftsOf(b)
  BY <1>1, Constants DEF UnusedIds, DraftsOf
<1>3. /\ DraftsOf(c)' = DraftsOf(c) \cup {d}
      /\ \A b \in Chapter \ {c} : DraftsOf(b)' = DraftsOf(b)
  BY <1>1, <1>2, Constants DEF DraftsOf, UnusedIds, TypeOK
<1>4. \A b \in Chapter : \A e \in DraftsOf(b) : order'[e] = order[e]
  BY <1>1, <1>2 DEF DraftsOf, TypeOK
<1>5. PICK D, f, g, s, t : /\ D = DraftsOf(c) /\ f = order /\ g = order' /\ s = Listing(c)
                           /\ t = Listing(c)'
  OBVIOUS
<1>6. /\ IsFiniteSet(D) /\ {f[e] : e \in D} = 0..(Cardinality(D) - 1) /\ InOrder(s, D, f)
      /\ IsFiniteSet(D \cup {d}) /\ InOrder(t, D \cup {d}, g)
      /\ {g[e] : e \in D \cup {d}} = 0..(Cardinality(D \cup {d}) - 1)
      /\ d \notin D /\ \A e \in D : g[e] = f[e]
  <2>1. IsFiniteSet(D) /\ {f[e] : e \in D} = 0..(Cardinality(D) - 1) /\ InOrder(s, D, f)
    BY <1>1, <1>5, Countable DEF Settled
  <2>2. DraftsOf(c)' = D \cup {d}
    BY <1>3, <1>5
  <2>3. InOrder(t, D \cup {d}, g) /\ {g[e] : e \in D \cup {d}} = 0..(Cardinality(D \cup {d}) - 1)
    BY ZenonT(40), <1>1, <1>5, <2>2 DEF Settled
  <2>4. d \notin D /\ \A e \in D : g[e] = f[e]
    BY <1>1, <1>2, <1>4, <1>5
  <2> QED BY <2>1, <2>3, <2>4, FS_AddElement
<1>7. Cardinality(D \cup {d}) = Cardinality(D) + 1 /\ Cardinality(D) \in Nat
  BY <1>6, FS_AddElement, FS_CardinalityType
<1>8. t = Append(s, d)
  <2>1. /\ s \in Seq(D) /\ Len(s) = Cardinality(D) /\ \A i \in 1..Len(s) : f[s[i]] = i - 1
        /\ t \in Seq(D \cup {d}) /\ Len(t) = Len(s) + 1 /\ \A i \in 1..Len(t) : g[t[i]] = i - 1
    BY <1>6, <1>7 DEF InOrder
  <2>2. s \in Seq(D \cup {d})
    BY <2>1, SeqMonotonic
  <2>3. /\ Append(s, d) \in Seq(D \cup {d}) /\ Len(Append(s, d)) = Len(s) + 1
        /\ \A i \in 1..Len(s) : Append(s, d)[i] = s[i]
        /\ Append(s, d)[Len(s) + 1] = d
    BY <2>2, AppendProperties
  <2>4. \A e, h \in D \cup {d} : g[e] = g[h] => e = h
    BY <1>6, Numbering
  <2>5. g[d] = Cardinality(D)
    <3>1. g[d] \in 0..Cardinality(D)
      <4>1. g[d] \in {g[e] : e \in D \cup {d}}
        OBVIOUS
      <4>2. g[d] \in 0..(Cardinality(D \cup {d}) - 1)
        BY <1>6, <4>1
      <4> QED BY <1>7, <4>2
    <3>2. ASSUME g[d] \in 0..(Cardinality(D) - 1) PROVE FALSE
      <4>1. PICK e \in D : f[e] = g[d]
        BY <1>6, <3>2
      <4> QED BY <1>6, <2>4, <4>1
    <3> QED BY <1>7, <3>1, <3>2
  <2>6. ASSUME NEW i \in 1..Len(t) PROVE t[i] = Append(s, d)[i]
    <3>1. t[i] \in D \cup {d} /\ g[t[i]] = i - 1
      BY <2>1
    <3>2. CASE i = Len(s) + 1
      BY <1>7, <2>1, <2>3, <2>4, <2>5, <3>1, <3>2
    <3>3. CASE i # Len(s) + 1
      <4>1. i \in 1..Len(s) /\ s[i] \in D
        BY <1>7, <2>1, <3>3
      <4>2. g[s[i]] = i - 1
        BY <1>6, <2>1, <4>1
      <4> QED BY <2>3, <2>4, <3>1, <4>1, <4>2
    <3> QED BY <3>2, <3>3
  <2> QED BY <2>1, <2>3, <2>6, SeqEqual
<1>9. Listed' = [Listed EXCEPT ![c] = Append(Listed[c], d)]
  BY <1>1, <1>3, <1>4, <1>5, <1>8, OneListing, BookIs
<1>10. Listed[c] # <<>>
  <2>1. active[c] # NoDraft
    BY <1>1 DEF OneActiveUnlessRaced, OneActiveDraft
  <2>2. active[c] \in DraftsOf(c)
    BY <1>1, <2>1 DEF ActivePointsHome, DraftsOf, TypeOK
  <2>3. D # {}
    BY <1>5, <2>2
  <2>4. s # <<>>
    BY <1>6, <2>3, ListedDrafts
  <2> QED BY <1>1, <1>5, <2>4, BookIs
<1>11. \A x \in Chapter : d \notin Book!Drafts(x)
  <2> SUFFICES ASSUME NEW x \in Chapter, NEW i \in DOMAIN Listing(x) PROVE Listing(x)[i] # d
    BY DEF Book!Drafts
  <2>1. Listing(x)[i] \in DraftsOf(x)
    BY Countable, ListedDrafts DEF Settled
  <2> QED BY <1>2, <2>1
<1>12. Book!Add(c, d)
  BY <1>1, <1>9, <1>10, <1>11 DEF Book!Add, Listed
<1> QED BY <1>1, <1>12 DEF Book!Next

(* A sequence without its i-th member.                                      *)
LEMMA RemovedAt ==
    ASSUME NEW S, NEW s \in Seq(S), NEW i \in 1..Len(s)
    PROVE  /\ Book!RemoveAt(s, i) \in Seq(S) /\ Len(Book!RemoveAt(s, i)) = Len(s) - 1
           /\ \A j \in 1..(Len(s) - 1) :
                 Book!RemoveAt(s, i)[j] = s[IF j < i THEN j ELSE j + 1]
<1>1. Len(s) \in Nat /\ i \in Nat /\ i >= 1 /\ i <= Len(s)
  BY LenProperties
<1>2. PICK a, b : a = SubSeq(s, 1, i - 1) /\ b = SubSeq(s, i + 1, Len(s))
  OBVIOUS
<1>3. /\ a \in Seq(S) /\ Len(a) = i - 1
      /\ \A j \in 1..(i - 1) : a[j] = s[j]
  BY <1>1, <1>2, SubSeqProperties
<1>4. /\ b \in Seq(S) /\ Len(b) = Len(s) - i
      /\ \A j \in 1..(Len(s) - i) : b[j] = s[i + j]
  BY <1>1, <1>2, SubSeqProperties
<1>5. /\ a \o b \in Seq(S) /\ Len(a \o b) = Len(s) - 1
      /\ \A j \in 1..(Len(s) - 1) : (a \o b)[j] = IF j <= i - 1 THEN a[j] ELSE b[j - (i - 1)]
  <2>1. /\ a \o b \in Seq(S) /\ Len(a \o b) = Len(a) + Len(b)
        /\ \A j \in 1..(Len(a) + Len(b)) :
              (a \o b)[j] = IF j <= Len(a) THEN a[j] ELSE b[j - Len(a)]
    BY <1>3, <1>4, ConcatProperties
  <2>2. Len(a) + Len(b) = Len(s) - 1
    BY <1>1, <1>3, <1>4
  <2> QED BY <1>3, <2>1, <2>2
<1>6. ASSUME NEW j \in 1..(Len(s) - 1)
      PROVE  (a \o b)[j] = s[IF j < i THEN j ELSE j + 1]
  <2>1. CASE j < i
    <3>1. j \in 1..(i - 1) /\ j <= i - 1
      BY <1>1, <2>1
    <3> QED BY <1>3, <1>5, <2>1, <3>1
  <2>2. CASE ~(j < i)
    <3>1. j - (i - 1) \in 1..(Len(s) - i) /\ ~(j <= i - 1)
      BY <1>1, <2>2
    <3>2. b[j - (i - 1)] = s[i + (j - (i - 1))] /\ i + (j - (i - 1)) = j + 1
      BY SMTT(30), <1>1, <1>4, <3>1
    <3> QED BY <1>5, <2>2, <3>1, <3>2
  <2> QED BY <2>1, <2>2
<1>7. Book!RemoveAt(s, i) = a \o b
  BY <1>2 DEF Book!RemoveAt
<1> QED BY <1>5, <1>6, <1>7

(* Without one of them, a chapter's drafts close up in their order.         *)
LEMMA ClosesUp ==
    ASSUME NEW D, IsFiniteSet(D), NEW f, {f[d] : d \in D} = 0..(Cardinality(D) - 1),
           NEW left \in D, NEW g,
           \A d \in D \ {left} : g[d] = Cardinality({e \in D \ {left} : f[e] < f[d]}),
           NEW s, InOrder(s, D, f), NEW t, InOrder(t, D \ {left}, g),
           {g[d] : d \in D \ {left}} = 0..(Cardinality(D \ {left}) - 1)
    PROVE  t = Book!RemoveAt(s, f[left] + 1)
<1> DEFINE n == Cardinality(D)
           at == f[left] + 1
           u == Book!RemoveAt(s, at)
<1>1. /\ n \in Nat /\ Cardinality(D \ {left}) = n - 1 /\ IsFiniteSet(D \ {left})
      /\ \A d \in D : f[d] \in 0..(n - 1)
  BY FS_CardinalityType, FS_RemoveElement
<1>2. /\ \A d, e \in D : f[d] = f[e] => d = e
      /\ \A k \in 0..n : Cardinality({e \in D : f[e] < k}) = k
  BY Numbering
<1>3. ASSUME NEW d \in D, d # left
      PROVE  g[d] = IF f[d] < f[left] THEN f[d] ELSE f[d] - 1
  <2> DEFINE B == {e \in D : f[e] < f[d]}
  <2>1. f[d] \in 0..n /\ f[d] \in Int /\ f[left] \in Int /\ f[d] # f[left]
    BY <1>1, <1>2, <1>3
  <2>2. Cardinality(B) = f[d] /\ IsFiniteSet(B)
    BY <1>2, <2>1, FS_Subset
  <2>3. {e \in D \ {left} : f[e] < f[d]} = B \ {left}
    OBVIOUS
  <2>4. g[d] = IF left \in B THEN f[d] - 1 ELSE f[d]
    <3> HIDE DEF B
    <3>1. g[d] = Cardinality(B \ {left})
      BY <1>3, <2>3
    <3> QED BY <2>2, <3>1, FS_RemoveElement
  <2>5. left \in B <=> ~(f[d] < f[left])
    BY <2>1
  <2> QED BY <2>4, <2>5
<1>4. /\ s \in Seq(D) /\ Len(s) = n /\ \A i \in 1..n : s[i] \in D /\ f[s[i]] = i - 1
  BY <1>1 DEF InOrder
<1>5. at \in 1..n /\ at - 1 = f[left]
  BY <1>1
<1>6. /\ u \in Seq(D) /\ Len(u) = n - 1
      /\ \A j \in 1..(n - 1) : u[j] = s[IF j < at THEN j ELSE j + 1]
  <2>1. at \in 1..Len(s)
    BY <1>4, <1>5
  <2> HIDE DEF at
  <2>2. /\ u \in Seq(D) /\ Len(u) = Len(s) - 1
        /\ \A j \in 1..(Len(s) - 1) : u[j] = s[IF j < at THEN j ELSE j + 1]
    BY <1>4, <2>1, RemovedAt
  <2> QED BY <1>4, <2>2
<1> HIDE DEF u
<1>7. ASSUME NEW j \in 1..(n - 1) PROVE u[j] \in D \ {left} /\ g[u[j]] = j - 1
  <2> DEFINE i == IF j < at THEN j ELSE j + 1
  <2>1. i \in 1..n /\ i # at /\ i \in Int /\ at \in Int
    BY <1>1, <1>5
  <2> HIDE DEF at
  <2>2. u[j] = s[i] /\ s[i] \in D /\ f[s[i]] = i - 1
    BY <1>4, <1>6, <2>1
  <2>3. s[i] # left
    BY <1>5, <2>1, <2>2
  <2>4. g[s[i]] = IF i - 1 < at - 1 THEN i - 1 ELSE i - 2
    <3>1. g[s[i]] = IF f[s[i]] < f[left] THEN f[s[i]] ELSE f[s[i]] - 1
      BY <1>3, <2>2, <2>3
    <3> QED BY <1>5, <2>1, <2>2, <3>1
  <2>5. g[s[i]] = j - 1
    BY <2>1, <2>4
  <2> QED BY <2>2, <2>3, <2>5
<1>8. InOrder(u, D \ {left}, g)
  <2>1. u \in [1..(n - 1) -> D \ {left}]
    BY <1>6, <1>7, LenProperties
  <2>2. n - 1 \in Nat
    BY <1>1, <1>5
  <2>3. u \in Seq(D \ {left})
    BY <2>1, <2>2, SeqDef
  <2> QED BY <1>1, <1>6, <1>7, <2>3 DEF InOrder
<1> HIDE DEF at
<1> QED BY <1>1, <1>8, OneOrder DEF u, at

(* A draft goes, and it is not the active one.                              *)
LEMMA BookRemoves ==
    ASSUME OrderInv, Settled, Settled', raced = {}, NEW r \in Request, CommitRemove(r)
    PROVE  Book!Next
<1> USE DEF OrderInv, PointerInv
<1>0. PICK c, d : c = chap[r] /\ d = draft[r]
  OBVIOUS
<1>1. /\ d \in Draft /\ chapterOf[d] = c /\ c \in Chapter /\ c # NoChapter
      /\ chapterOf' = [chapterOf EXCEPT ![d] = NoChapter]
      /\ active' = [b \in Chapter |-> IF active[b] = d THEN NoDraft ELSE active[b]]
      /\ order' = [e \in Draft |-> IF e # d /\ chapterOf[e] = c THEN Repacked(e, d) ELSE order[e]]
  <2>1. pc[r] = "delete" /\ d \in Draft /\ chapterOf[d] = c /\ c # NoChapter
    BY <1>0 DEF CommitRemove, FoundStays
  <2> QED BY <1>0, <2>1 DEF CommitRemove, TypeOK
<1>2. active' = active /\ active[c] # d
  <2>1. \A b \in Chapter : active[b] # d
    BY <1>0 DEF CommitRemove, RemovedIsInactive
  <2> QED BY <1>1, <2>1 DEF TypeOK
<1>3. /\ d \in DraftsOf(c) /\ DraftsOf(c)' = DraftsOf(c) \ {d}
      /\ \A b \in Chapter \ {c} : DraftsOf(b)' = DraftsOf(b)
  BY <1>1, Constants DEF DraftsOf, TypeOK
<1>4. /\ \A e \in DraftsOf(c) \ {d} :
            order'[e] = Cardinality({x \in DraftsOf(c) \ {d} : order[x] < order[e]})
      /\ \A b \in Chapter \ {c} : \A e \in DraftsOf(b) : order'[e] = order[e]
  BY <1>1 DEF DraftsOf, Repacked
<1>5. PICK D, f, g, s, t : /\ D = DraftsOf(c) /\ f = order /\ g = order' /\ s = Listing(c)
                           /\ t = Listing(c)'
  OBVIOUS
<1>6. IsFiniteSet(D) /\ {f[e] : e \in D} = 0..(Cardinality(D) - 1) /\ InOrder(s, D, f)
  BY <1>1, <1>5, Countable DEF Settled
<1>7. InOrder(t, D \ {d}, g) /\ {g[e] : e \in D \ {d}} = 0..(Cardinality(D \ {d}) - 1)
  <2>1. DraftsOf(c)' = D \ {d}
    BY <1>3, <1>5
  <2>2. /\ {order'[e] : e \in DraftsOf(c)'} = 0..(Cardinality(DraftsOf(c)') - 1)
        /\ InOrder(Listing(c)', DraftsOf(c)', order')
    BY <1>1 DEF Settled
  <2>3. InOrder(t, D \ {d}, g)
    BY <1>5, <2>1, <2>2
  <2>4. {g[e] : e \in D \ {d}} = 0..(Cardinality(D \ {d}) - 1)
    BY <1>5, <2>1, <2>2
  <2> QED BY <2>3, <2>4
<1>8. /\ d \in D
      /\ \A e \in D \ {d} : g[e] = Cardinality({x \in D \ {d} : f[x] < f[e]})
  BY <1>3, <1>4, <1>5
<1>9. t = Book!RemoveAt(s, f[d] + 1)
  BY <1>6, <1>7, <1>8, ClosesUp
<1>10. f[d] + 1 \in DOMAIN s /\ s[f[d] + 1] = d
  BY <1>6, <1>8, ListedDrafts
<1>11. Listed' = [Listed EXCEPT ![c] = t] /\ Listed[c] = s
  BY <1>1, <1>3, <1>4, <1>5, OneListing, BookIs
<1>12. Book!Delete(c, d)
  <2>1. \E i \in DOMAIN Listed[c] :
           Listed[c][i] = d /\ Listed' = [Listed EXCEPT ![c] = Book!RemoveAt(Listed[c], i)]
    BY <1>9, <1>10, <1>11
  <2> QED BY <1>1, <1>2, <2>1 DEF Book!Delete, Listed
<1> QED BY <1>1, <1>12 DEF Book!Next

(* A draft of the chapter becomes its active one, or nothing changes.       *)
LEMMA BookActivates ==
    ASSUME OrderInv, Settled, NEW r \in Request, Activate(r)
    PROVE  Book!Next \/ UNCHANGED Book!vars
<1> USE DEF OrderInv, PointerInv
<1>0. PICK c, d : c = chap[r] /\ d = draft[r]
  OBVIOUS
<1>1. /\ pc[r] = "activate" /\ d \in Draft /\ chapterOf[d] \in {c, NoChapter}
      /\ UNCHANGED <<chapterOf, order>>
      /\ active' = IF c \in chapters /\ chapterOf[d] # NoChapter
                   THEN [active EXCEPT ![c] = d] ELSE active
  BY <1>0 DEF Activate, FoundStays
<1>2. Listed' = Listed
  BY <1>1 DEF Listed, Listing, DraftsOf
<1>3. CASE c \in chapters /\ chapterOf[d] # NoChapter
  <2>1. c \in Chapter /\ chapterOf[d] = c /\ active' = [active EXCEPT ![c] = d]
    BY <1>1, <1>3 DEF TypeOK
  <2>2. PICK D, f, s : D = DraftsOf(c) /\ f = order /\ s = Listing(c)
    OBVIOUS
  <2>3. /\ d \in D /\ IsFiniteSet(D) /\ {f[e] : e \in D} = 0..(Cardinality(D) - 1)
        /\ InOrder(s, D, f)
    BY <1>1, <2>1, <2>2, Countable DEF Settled, DraftsOf
  <2>4. f[d] + 1 \in DOMAIN s /\ s[f[d] + 1] = d
    BY <2>3, ListedDrafts
  <2>5. d \in Book!Drafts(c)
    BY <2>1, <2>2, <2>4 DEF Book!Drafts
  <2>6. Book!Activate(c, d)
    BY <1>2, <2>1, <2>5 DEF Book!Activate, Listed
  <2> QED BY <1>1, <2>1, <2>6 DEF Book!Next
<1>4. CASE ~(c \in chapters /\ chapterOf[d] # NoChapter)
  BY <1>1, <1>2, <1>4, BookIs
<1> QED BY <1>3, <1>4

(* Every step of the requests is one of the book's or none, until a guard   *)
(* has been overtaken.                                                      *)
LEMMA BookStep ==
    ASSUME OrderInv, [Next]_DraftVars, raced' = {}
    PROVE  [Book!Next]_(Book!vars)
<1>1. raced = {}
  BY DEF Next, DraftVars, vars, DropChapter, CreateChapter, BeginPost, ReadSource, LoadSource,
     ReadNextOrderIndex, Insert, InsertFails, BeginActivate, Activate, BeginRemove, CountSiblings,
     CommitRemove, AbortRemove, reqVars
<1>2. OrderInv'
  BY OrderStep DEF DraftVars
<1>3. Settled
  BY <1>1, BookInOrder
<1>4. (OrderInv /\ raced = {} => Settled)'
  BY BookInOrder, PTL
<1>5. Settled'
  BY <1>2, <1>4
<1>6. CASE Next
  <2>1. \/ \E c \in Chapter : DropChapter(c) \/ \E d \in Draft : CreateChapter(c, d)
        \/ \E r \in Request :
              (\E d \in Draft : Insert(r, d)) \/ Activate(r) \/ CommitRemove(r)
        \/ UNCHANGED dbVars
    BY <1>6 DEF Next, BeginPost, ReadSource, LoadSource, ReadNextOrderIndex, InsertFails,
       BeginActivate, BeginRemove, CountSiblings, AbortRemove
  <2>2. UNCHANGED dbVars => UNCHANGED Book!vars
    BY BookStays DEF dbVars
  <2> QED BY <1>1, <1>3, <1>5, <2>1, <2>2, BookChapters, BookAdds, BookRemoves, BookActivates
<1>7. CASE UNCHANGED DraftVars
  BY <1>7, BookStays DEF DraftVars, vars, dbVars
<1> QED BY <1>6, <1>7

(* Until an activation commits between a removal's guard and its delete, or *)
(* a removal between a creation's index and its insert, the requests, each  *)
(* of several statements, implement the draft book: every one takes effect  *)
(* at once (draft.repo.ts, drafts.routes.ts, chapter.repo.ts).              *)
THEOREM DraftsImplementBook == MCSpec => ImplementsChapterDrafts
<1>1. MCInit => OrderInv /\ Book!Init
  <2> SUFFICES ASSUME Init PROVE OrderInv /\ Book!Init
    BY DEF MCInit
  <2>1. OrderInv /\ raced = {}
    BY PointerInit DEF Init, OrderInv, ChapterWasThere, GapFree, IndexWithin
  <2>2. Settled
    BY <2>1, BookInOrder
  <2>3. ASSUME NEW c \in Chapter PROVE Listing(c) = <<>>
    <3>1. PICK D, f, s : D = DraftsOf(c) /\ f = order /\ s = Listing(c)
      OBVIOUS
    <3>2. IsFiniteSet(D) /\ {f[e] : e \in D} = 0..(Cardinality(D) - 1) /\ InOrder(s, D, f)
      BY <2>2, <3>1, Countable DEF Settled
    <3>3. D = {}
      BY <3>1, Constants DEF Init, DraftsOf
    <3>4. D = {} <=> s = <<>>
      BY <3>2, ListedDrafts
    <3> QED BY <3>1, <3>3, <3>4
  <2>4. Book!Init
    BY <2>3 DEF Book!Init, Init
  <2> QED BY <2>1, <2>4
<1>2. [MCNext]_MCVars => [Next]_DraftVars
  BY DEF MCNext, MCVars
<1>3. OrderInv /\ [Next]_DraftVars => OrderInv'
  BY OrderStep DEF DraftVars
<1>4. OrderInv /\ [Next]_DraftVars => [raced' = {} => [Book!Next]_(Book!vars)]_vars
  BY BookStep
<1> QED BY <1>1, <1>2, <1>3, <1>4, PTL DEF MCSpec, ImplementsChapterDrafts

-----------------------------------------------------------------------------
(* Prompts fitted to a context.  A property of zero that goes up by one is  *)
(* of every number, since there is no lowest exception.                     *)
LEMMA UpFromZero ==
    ASSUME NEW T, 0 \in T, \A n \in Nat : n \in T => n + 1 \in T
    PROVE  Nat \subseteq T
<1> SUFFICES ASSUME Nat \ T # {} PROVE FALSE
  OBVIOUS
<1>1. PICK x \in Nat \ T : \A y \in Nat \ T : ~ (<<y, x>> \in OpToRel(<, Nat))
  BY NatLessThanWellFounded, WFMin
<1>2. x - 1 \in Nat /\ x - 1 < x /\ x - 1 + 1 = x
  <2>1. x \in Nat /\ x # 0
    OBVIOUS
  <2> QED BY <2>1
<1>3. <<x - 1, x>> \in OpToRel(<, Nat)
  BY <1>1, <1>2 DEF OpToRel
<1>4. x - 1 \in T
  BY <1>1, <1>2, <1>3
<1>5. x - 1 + 1 \in T
  BY <1>2, <1>4
<1> QED BY <1>1, <1>2, <1>5

(* The sum of a sequence, as the fold computes it: one member after the     *)
(* other is taken out of its domain.                                        *)
Taken(s) == CHOOSE i \in s : TRUE
Adds(f, g, s) == IF s = {} THEN 0 ELSE f[Taken(s)] + g[s \ {Taken(s)}]
Summed(f) == CHOOSE g : g = [s \in SUBSET DOMAIN f |-> Adds(f, g, s)]

LEMMA FoldIsSum ==
    ASSUME NEW f
    PROVE  Prompt!FoldSeq(+, 0, f) = Summed(f)[DOMAIN f]
BY DEF Prompt!FoldSeq, Prompt!FoldFunction, Prompt!FoldFunctionOnSet, Prompt!MapThenFoldSet,
   Summed, Adds, Taken

(* The members of a sequence of numbers add up to a number.                 *)
LEMMA SumIsNat ==
    ASSUME NEW f, IsFiniteSet(DOMAIN f), \A i \in DOMAIN f : f[i] \in Nat
    PROVE  Summed(f)[DOMAIN f] \in Nat
<1> DEFINE D == DOMAIN f
           Upto(n) == {s \in SUBSET D : Cardinality(s) <= n}
<1>1. \A s \in SUBSET D : IsFiniteSet(s) /\ Cardinality(s) \in Nat
  BY FS_Subset, FS_CardinalityType
<1>2. ASSUME NEW s \in SUBSET D, s # {}
      PROVE  /\ Taken(s) \in s /\ f[Taken(s)] \in Nat /\ s \ {Taken(s)} \in SUBSET D
             /\ Cardinality(s \ {Taken(s)}) = Cardinality(s) - 1
  <2>1. Taken(s) \in s
    BY <1>2 DEF Taken
  <2> QED BY <1>1, <2>1, FS_RemoveElement
<1>3. \A s \in SUBSET D : Cardinality(s) = 0 <=> s = {}
  BY <1>1, FS_EmptySet
<1> DEFINE Sums(n, g) == g \in [Upto(n) -> Nat] /\ \A s \in Upto(n) : g[s] = Adds(f, g, s)
           Able == {n \in Nat : \E g : Sums(n, g)}
<1>4. 0 \in Able
  <2> DEFINE z == [s \in Upto(0) |-> 0]
  <2>1. \A s \in Upto(0) : s = {}
    BY <1>1, <1>3
  <2>2. Sums(0, z)
    BY <2>1 DEF Adds
  <2> QED BY <2>2
<1>5. ASSUME NEW n \in Nat, n \in Able PROVE n + 1 \in Able
  <2>1. PICK g : Sums(n, g)
    BY <1>5
  <2> DEFINE h == [s \in Upto(n + 1) |-> Adds(f, g, s)]
  <2>2. ASSUME NEW s \in Upto(n + 1), s # {}
        PROVE  s \ {Taken(s)} \in Upto(n) /\ s \ {Taken(s)} \in Upto(n + 1)
    BY <1>1, <1>2, <2>2
  <2>3. \A s \in Upto(n) : s \in Upto(n + 1) /\ h[s] = g[s]
    BY <1>1, <2>1
  <2>4. \A s \in Upto(n + 1) : h[s] \in Nat
    BY <1>2, <2>1, <2>2 DEF Adds
  <2>5. \A s \in Upto(n + 1) : h[s] = Adds(f, h, s)
    BY <2>2, <2>3 DEF Adds
  <2>6. Sums(n + 1, h)
    BY <2>4, <2>5
  <2> HIDE DEF Sums, h
  <2> QED BY <2>6
<1>6. Cardinality(D) \in Able
  BY <1>1, <1>4, <1>5, UpFromZero
<1>7. PICK g : Sums(Cardinality(D), g)
  BY <1>6
<1>8. Upto(Cardinality(D)) = SUBSET D
  BY <1>1, FS_Subset
<1>9. g = [s \in SUBSET D |-> Adds(f, g, s)]
  BY <1>7, <1>8
<1>10. PICK a : a = Summed(f)
  OBVIOUS
<1>11. a = [s \in SUBSET D |-> Adds(f, a, s)]
  BY <1>9, <1>10 DEF Summed
<1> DEFINE Fine == {n \in Nat : \A s \in SUBSET D : Cardinality(s) = n => a[s] \in Nat}
<1>12. 0 \in Fine
  BY <1>3, <1>11 DEF Adds
<1>13. ASSUME NEW n \in Nat, n \in Fine PROVE n + 1 \in Fine
  <2> SUFFICES ASSUME NEW s \in SUBSET D, Cardinality(s) = n + 1 PROVE a[s] \in Nat
    OBVIOUS
  <2>1. s # {}
    BY <1>3
  <2>2. a[s \ {Taken(s)}] \in Nat
    BY <1>2, <1>13, <2>1
  <2>3. a[s] = Adds(f, a, s)
    BY <1>11
  <2>4. a[s] = f[Taken(s)] + a[s \ {Taken(s)}]
    BY <2>1, <2>3 DEF Adds
  <2>5. f[Taken(s)] \in Nat
    BY <1>2, <2>1
  <2> QED BY <2>2, <2>4, <2>5
<1>14. Cardinality(D) \in Fine
  BY <1>1, <1>12, <1>13, UpFromZero
<1> QED BY <1>10, <1>14

(* The block of the previous chapters has a number of characters.           *)
LEMMA BlockIsNat ==
    ASSUME NEW kept \in Seq(Nat), NEW cut \in Nat
    PROVE  Prompt!Block(kept, cut) \in Nat
<1>1. /\ Len(kept) \in Nat /\ IsFiniteSet(DOMAIN kept)
      /\ \A i \in DOMAIN kept : kept[i] \in Nat
  <2>1. Len(kept) \in Nat /\ DOMAIN kept = 1..Len(kept) /\ kept \in [1..Len(kept) -> Nat]
    BY LenProperties
  <2> QED BY <2>1, FS_Interval
<1>2. Summed(kept)[DOMAIN kept] \in Nat
  BY <1>1, SumIsNat
<1>3. PICK sum \in Nat : sum = Prompt!FoldSeq(+, 0, kept)
  BY <1>2, FoldIsSum
<1>4. Prompt!Block(kept, cut) =
        IF kept = <<>> THEN 0 ELSE (IF cut > 0 THEN 39 ELSE 19) + 20 + sum + Len(kept) + 1
  BY <1>3 DEF Prompt!Block
<1> QED BY <1>1, <1>4

(* The estimates: four characters to a token, rounded up.                   *)
LEMMA Estimates ==
    /\ Prompt!estimateTokens(0) = 0
    /\ \A a \in Nat : Prompt!estimateTokens(a) \in Nat
    /\ \A a, b \in Nat : a <= 4 * b => Prompt!estimateTokens(a) <= b
    /\ \A a, b \in Nat : Prompt!estimateTokens(35 + a + b)
                           <= 9 + Prompt!estimateTokens(a) + Prompt!estimateTokens(b)
BY DEF Prompt!estimateTokens

(* What buildPrompt was called with, what it has kept, and, when it is done *)
(* with the chapter, that the rest of the chapter fits what was left.       *)
PromptType ==
    /\ story \in [context : Nat, response : Nat, fixed : Nat \ {0}, before : Seq(Nat),
                  chapter : Nat, escapes : Nat, history : Nat]
    /\ rows \in Seq(Nat) /\ cur \in Nat /\ meta \in Nat /\ act \in {"fit", "done"}
LatestKept ==
    /\ cur <= Len(story.before)
    /\ rows = SubSeq(story.before, cur + 1, Len(story.before))
DroppedInNeed ==
    cur > 0 => Prompt!ChapterBudget(SubSeq(story.before, cur, Len(story.before)), cur - 1) <= 0
RestFits ==
    act = "done" =>
      LET budget == Prompt!ChapterBudget(rows, cur)
      IN  (budget > 0 \/ rows = <<>>) /\ meta <= 4 * Prompt!AtLeast0(budget)
PromptInv == PromptType /\ LatestKept /\ DroppedInNeed /\ RestFits

(* What is left for the chapter is a number, perhaps a negative one.        *)
LEMMA BudgetIsInt ==
    ASSUME PromptType, NEW kept \in Seq(Nat), NEW cut \in Nat
    PROVE  /\ Prompt!PromptBudgetTokens \in Nat
           /\ Prompt!PromptBudgetTokens =
                IF story.context - story.response - 512 < 0 THEN 0
                ELSE story.context - story.response - 512
           /\ Prompt!estimateTokens(Prompt!Block(kept, cut)) \in Nat
           /\ Prompt!ChapterBudget(kept, cut) =
                Prompt!PromptBudgetTokens - story.fixed
                  - Prompt!estimateTokens(Prompt!Block(kept, cut))
           /\ Prompt!ChapterBudget(kept, cut) \in Int
<1>1. story.context \in Nat /\ story.response \in Nat /\ story.fixed \in Nat
  BY DEF PromptType
<1>2. Prompt!PromptBudgetTokens =
        IF story.context - story.response - 512 < 0 THEN 0
        ELSE story.context - story.response - 512
  BY DEF Prompt!PromptBudgetTokens, Prompt!AtLeast0, Prompt!SafetyMargin
<1>3. Prompt!PromptBudgetTokens \in Nat
  BY <1>1, <1>2
<1>4. Prompt!estimateTokens(Prompt!Block(kept, cut)) \in Nat
  BY BlockIsNat, Estimates
<1>5. Prompt!ChapterBudget(kept, cut) =
        Prompt!PromptBudgetTokens - story.fixed - Prompt!estimateTokens(Prompt!Block(kept, cut))
  BY DEF Prompt!ChapterBudget
<1> QED BY <1>1, <1>2, <1>3, <1>4, <1>5

(* Every step of the fitting keeps it.                                      *)
LEMMA PromptStep ==
    ASSUME PromptInv, Prompt!Next
    PROVE  PromptInv'
<1> USE DEF PromptInv
<1> DEFINE given == story.before
<1>0. given \in Seq(Nat) /\ Len(given) \in Nat
  BY LenProperties DEF PromptType
<1>1. CASE Prompt!Shift
  <2>1. /\ act = "fit" /\ Prompt!ChapterBudget(rows, cur) <= 0 /\ rows # <<>>
        /\ rows' = Tail(rows) /\ cur' = cur + 1 /\ UNCHANGED <<story, meta, act>>
    BY <1>1 DEF Prompt!Shift, Prompt!Shifted
  <2>2. cur \in Nat /\ cur <= Len(given) /\ rows = SubSeq(given, cur + 1, Len(given))
    BY DEF PromptType, LatestKept
  <2>3. cur + 1 <= Len(given)
    <3>1. cur = Len(given) => rows = <<>>
      BY <1>0, <2>2, SubSeqEmpty
    <3> QED BY <1>0, <2>1, <2>2, <3>1
  <2>4. Tail(rows) = SubSeq(given, cur + 2, Len(given)) /\ Tail(rows) \in Seq(Nat)
    <3>1. rows \in Seq(Nat) /\ Tail(rows) \in Seq(Nat) /\ Len(Tail(rows)) = Len(rows) - 1
          /\ \A i \in 1..Len(Tail(rows)) : Tail(rows)[i] = rows[i + 1]
      BY <2>1, HeadTailProperties DEF PromptType
    <3>2. \A i \in 1..(Len(given) - cur) : rows[i] = given[cur + i]
      BY <1>0, <2>2, <2>3, SubSeqProperties
    <3>3. Len(rows) = Len(given) - cur
      BY <1>0, <2>2, <2>3, SubSeqProperties
    <3>4. PICK n \in Nat : n = Len(given) - cur - 1
      <4>1. Len(given) - cur - 1 \in Nat
        BY <1>0, <2>2, <2>3
      <4> QED BY <4>1
    <3>5. PICK t : t = SubSeq(given, cur + 2, Len(given))
      OBVIOUS
    <3>6. t \in Seq(Nat) /\ Len(t) = n /\ \A i \in 1..n : t[i] = given[cur + 1 + i]
      <4>1. CASE n = 0
        <5>1. cur + 2 > Len(given) /\ cur + 2 \in Int
          BY <1>0, <2>2, <3>4, <4>1
        <5>2. t = <<>>
          BY <1>0, <3>5, <5>1, SubSeqEmpty
        <5> QED BY <4>1, <5>2
      <4>2. CASE n > 0
        <5>1. /\ cur + 2 \in 1..(Len(given) + 1) /\ cur + 2 <= Len(given)
              /\ Len(given) \in 0..Len(given) /\ Len(given) - (cur + 2) + 1 = n
              /\ cur + 2 \in Nat /\ cur + 2 >= 1
          BY <1>0, <2>2, <3>4, <4>2
        <5>2. /\ t \in Seq(Nat) /\ Len(t) = Len(given) - (cur + 2) + 1
              /\ \A i \in 1..(Len(given) - (cur + 2) + 1) : t[i] = given[(cur + 2) + i - 1]
          BY SMTT(30), <1>0, <3>5, <5>1, SubSeqProperties
        <5>3. ASSUME NEW i \in 1..n PROVE t[i] = given[cur + 1 + i]
          <6>1. (cur + 2) + i - 1 = cur + 1 + i
            BY <2>2
          <6>2. t[i] = given[(cur + 2) + i - 1]
            BY <5>1, <5>2
          <6> QED BY <6>1, <6>2
        <5> QED BY <5>1, <5>2, <5>3
      <4>3. n = 0 \/ n > 0
        OBVIOUS
      <4> QED BY <4>1, <4>2, <4>3
    <3>7. Len(Tail(rows)) = n
      BY <1>0, <2>2, <3>1, <3>3, <3>4
    <3>8. ASSUME NEW i \in 1..n PROVE t[i] = Tail(rows)[i]
      <4>1. i + 1 \in 1..(Len(given) - cur) /\ cur + (i + 1) = cur + 1 + i
        BY <1>0, <2>2, <3>4
      <4>2. Tail(rows)[i] = rows[i + 1]
        BY <3>1, <3>7
      <4>3. rows[i + 1] = given[cur + 1 + i]
        BY SMTT(30), <3>2, <4>1
      <4> QED BY <3>6, <4>2, <4>3
    <3>9. Tail(rows) = t
      BY <3>1, <3>6, <3>7, <3>8, SeqEqual
    <3> QED BY <3>1, <3>5, <3>9
  <2>5. PromptType'
    BY <2>1, <2>2, <2>4 DEF PromptType
  <2>6. LatestKept'
    BY SMTT(30), <1>0, <2>1, <2>2, <2>3, <2>4 DEF LatestKept
  <2>7. DroppedInNeed'
    <3>1. cur' - 1 = cur /\ cur' = cur + 1
      BY <2>1, <2>2
    <3>2. Prompt!ChapterBudget(SubSeq(given, cur + 1, Len(given)), cur) <= 0
      BY <2>1, <2>2
    <3>3. Prompt!PromptBudgetTokens' = Prompt!PromptBudgetTokens
      BY <2>1 DEF Prompt!PromptBudgetTokens
    <3> QED BY <2>1, <3>1, <3>2, <3>3 DEF DroppedInNeed, Prompt!ChapterBudget
  <2>8. RestFits'
    BY <2>1 DEF RestFits
  <2> QED BY <2>5, <2>6, <2>7, <2>8
<1>2. CASE Prompt!Cut
  <2> DEFINE budget == Prompt!ChapterBudget(rows, cur)
             room == 4 * Prompt!AtLeast0(budget)
  <2>1. /\ act' = "done" /\ (budget > 0 \/ rows = <<>>)
        /\ meta' = IF meta > room THEN room ELSE meta
        /\ UNCHANGED <<story, rows, cur>>
    BY <1>2 DEF Prompt!Cut
  <2>2. budget \in Int
    BY BudgetIsInt DEF PromptType
  <2>3. room \in Nat /\ meta \in Nat
    BY <2>2 DEF Prompt!AtLeast0, PromptType
  <2>4. meta' \in Nat /\ meta' <= room
    BY <2>1, <2>3
  <2>5. PromptType' /\ LatestKept'
    BY <1>2, <2>1, <2>4 DEF PromptType, LatestKept, Prompt!Cut
  <2>6. Prompt!ChapterBudget(rows, cur)' = budget
    BY <2>1 DEF Prompt!ChapterBudget, Prompt!PromptBudgetTokens
  <2>7. DroppedInNeed'
    BY <2>1 DEF DroppedInNeed, Prompt!ChapterBudget, Prompt!PromptBudgetTokens
  <2>8. RestFits'
    BY <1>2, <2>1, <2>4, <2>6 DEF RestFits, Prompt!Cut
  <2> QED BY <2>5, <2>7, <2>8
<1> QED BY <1>1, <1>2 DEF Prompt!Next

(* What is sent fits: with room for the chapter, the rest of it fits what   *)
(* the other parts leave; without, nothing but the fixed parts is sent.     *)
LEMMA FittedSends ==
    ASSUME PromptInv
    PROVE  Prompt!PromptFits
<1> USE DEF PromptInv
<1> DEFINE B == Prompt!estimateTokens(Prompt!Block(rows, cur))
           E == Prompt!estimateTokens(story.escapes)
           M == Prompt!estimateTokens(meta)
           P == Prompt!PromptBudgetTokens
           budget == Prompt!ChapterBudget(rows, cur)
           text == IF meta = 0 THEN 0 ELSE Prompt!estimateTokens(35 + meta + story.escapes)
<1> SUFFICES ASSUME act = "done", story.fixed <= P, story.history + E + 12 <= 512
             PROVE  story.fixed + B + 3 + story.history + text + story.response <= story.context
  BY DEF Prompt!PromptFits, Prompt!Sent, Prompt!SafetyMargin
<1>1. /\ story.context \in Nat /\ story.response \in Nat /\ story.fixed \in Nat \ {0}
      /\ story.escapes \in Nat /\ story.history \in Nat /\ meta \in Nat /\ cur \in Nat
      /\ rows \in Seq(Nat)
  BY DEF PromptType
<1>2. /\ P \in Nat /\ B \in Nat /\ budget = P - story.fixed - B /\ budget \in Int
      /\ P = IF story.context - story.response - 512 < 0 THEN 0
             ELSE story.context - story.response - 512
  BY ZenonT(40), <1>1, BudgetIsInt
<1>3. P = story.context - story.response - 512
  BY <1>1, <1>2
<1>4. E \in Nat /\ M \in Nat /\ text \in Nat /\ text <= 9 + M + E
  <2>1. 35 + meta + story.escapes \in Nat
    BY <1>1
  <2>2. E \in Nat /\ M \in Nat /\ Prompt!estimateTokens(35 + meta + story.escapes) \in Nat
        /\ Prompt!estimateTokens(35 + meta + story.escapes) <= 9 + M + E
    BY <1>1, <2>1, Estimates
  <2> HIDE DEF E, M
  <2> QED BY <2>2
<1>5. (budget > 0 \/ rows = <<>>) /\ meta <= 4 * Prompt!AtLeast0(budget)
  BY DEF RestFits
<1>6. PICK c \in Nat : c = story.context
  BY <1>1
<1>7. PICK r \in Nat : r = story.response
  BY <1>1
<1>8. PICK f \in Nat : f = story.fixed
  BY <1>1
<1>9. PICK h \in Nat : h = story.history
  BY <1>1
<1>10. PICK p \in Nat, b \in Nat : p = P /\ b = B
  BY <1>2
<1>11. PICK m \in Nat, e \in Nat, t \in Nat : m = M /\ e = E /\ t = text
  BY <1>4
<1>12. p = c - r - 512 /\ f <= p /\ h + e + 12 <= 512 /\ t <= 9 + m + e
  BY <1>3, <1>4, <1>6, <1>7, <1>8, <1>9, <1>10, <1>11
<1>13. f + b + 3 + h + t + r <= c
  <2>1. CASE budget > 0
    <3>1. meta <= 4 * budget /\ budget \in Nat
      BY <1>2, <1>5, <2>1 DEF Prompt!AtLeast0
    <3>2. M <= budget
      BY <1>1, <3>1, Estimates
    <3>3. m <= p - f - b
      BY <1>2, <1>8, <1>10, <1>11, <3>2
    <3> QED BY <1>12, <3>3
  <2>2. CASE ~ (budget > 0)
    <3>1. meta = 0 /\ rows = <<>>
      BY <1>1, <1>2, <1>5, <2>2 DEF Prompt!AtLeast0
    <3>2. Prompt!Block(rows, cur) = 0
      BY <3>1 DEF Prompt!Block
    <3>3. b = 0 /\ t = 0
      BY <1>10, <1>11, <3>1, <3>2, Estimates
    <3> QED BY <1>12, <3>3
  <2> QED BY <2>1, <2>2
<1> QED BY <1>6, <1>7, <1>8, <1>9, <1>10, <1>11, <1>13

PromptPart == part = "prompt" => PromptInv

(* The parts of a prompt, cut to what its context leaves them, are an       *)
(* invariant of the fitting's behaviours.                                   *)
LEMMA PromptInvariant == MCSpec => []PromptPart
<1>1. MCInit => PromptPart
  <2> SUFFICES ASSUME MCInit, part = "prompt" PROVE PromptInv
    BY DEF PromptPart
  <2>1. Prompt!Init
    BY DEF MCInit
  <2>2. /\ Context \subseteq Nat /\ Response \subseteq Nat /\ Size \subseteq Nat
        /\ Length \subseteq Nat /\ Escapes \subseteq Nat /\ History \subseteq Nat
        /\ Fixed \subseteq Nat \ {0} /\ MaxEntries \in Nat
    BY PartsAssumption DEF Prompt!PromptBudgetAssumption
  <2>3. Prompt!SeqOf(Size, MaxEntries) \subseteq Seq(Nat)
    <3> SUFFICES ASSUME NEW s \in Prompt!SeqOf(Size, MaxEntries) PROVE s \in Seq(Nat)
      OBVIOUS
    <3>1. PICK m \in 0..MaxEntries : s \in [1..m -> Size]
      BY DEF Prompt!SeqOf
    <3>2. m \in Nat
      BY <2>2, <3>1
    <3>3. s \in [1..m -> Nat]
      <4>1. \A n \in 1..m : s[n] \in Nat
        BY <2>2, <3>1
      <4> QED BY <3>1, <4>1
    <3> QED BY <3>2, <3>3
  <2>4. story \in [context : Nat, response : Nat, fixed : Nat \ {0}, before : Seq(Nat),
                   chapter : Nat, escapes : Nat, history : Nat]
    BY <2>1, <2>2, <2>3 DEF Prompt!Init
  <2>5. rows = story.before /\ cur = 0 /\ meta = story.chapter /\ act = "fit"
    BY <2>1 DEF Prompt!Init
  <2>6. PromptType
    BY <2>4, <2>5 DEF PromptType
  <2>7. LatestKept
    <3>1. rows \in Seq(Nat) /\ Len(rows) \in Nat
      BY <2>6, LenProperties DEF PromptType
    <3>2. rows = SubSeq(rows, 1, Len(rows))
      BY <3>1, SubSeqFull
    <3> QED BY <2>5, <3>1, <3>2 DEF LatestKept
  <2> QED BY <2>5, <2>6, <2>7 DEF PromptInv, DroppedInNeed, RestFits
<1>2. PromptPart /\ [MCNext]_MCVars => PromptPart'
  <2> SUFFICES ASSUME PromptPart, [MCNext]_MCVars, part = "prompt" PROVE PromptInv'
    BY DEF MCNext, MCVars, PromptPart
  <2>1. CASE Prompt!Next
    BY <2>1, PromptStep DEF PromptPart
  <2>2. CASE UNCHANGED MCVars
    BY <2>2 DEF MCVars, PlacesVars, PromptPart, PromptInv, PromptType, LatestKept, DroppedInNeed,
       RestFits, Prompt!ChapterBudget, Prompt!PromptBudgetTokens
  <2> QED BY <2>1, <2>2 DEF MCNext
<1> QED BY <1>1, <1>2, PTL DEF MCSpec

(* For every context, response, text and number of previous chapters, what  *)
(* is sent and the response stay within the context, if the parts that are  *)
(* never cut do and what is not counted fits the margin (buildPrompt).      *)
THEOREM FitCorrect == MCSpec => []PromptFits
<1>1. PromptPart => PromptFits
  BY FittedSends DEF PromptPart, PromptFits
<1> QED BY <1>1, PromptInvariant, PTL

(* The previous chapters still in a prompt are the latest, and the last one *)
(* dropped would have left the chapter no room (the loop of buildPrompt).   *)
THEOREM DropsCorrect == MCSpec => [](part = "prompt" => Prompt!OnlyNeededDropped)
<1>1. PromptPart => (part = "prompt" => Prompt!OnlyNeededDropped)
  BY DEF PromptPart, PromptInv, LatestKept, DroppedInNeed, Prompt!OnlyNeededDropped
<1> QED BY <1>1, PromptInvariant, PTL

=============================================================================
