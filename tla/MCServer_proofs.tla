--------------------------- MODULE MCServer_proofs ---------------------------
(***************************************************************************)
(* Proofs about the parts that run beside the session store: the turns of  *)
(* a chat with the panel that sends them, for every number of turns, texts *)
(* and sends, and a streamed answer of any length on its way to the        *)
(* reader.                                                                 *)
(***************************************************************************)
EXTENDS MCServer, Sequences, FiniteSetTheorems, SequenceTheorems, TLAPS

-----------------------------------------------------------------------------
(* The types of the chat. *)
Note == [id : Nat, role : {"user", "assistant"}, text : Text \cup {NoText}, re : Nat]
Modes == {"send", "retry", "from"}
Pcs == {"idle", "posted", "trim", "history", "prepare", "persist", "call", "stream", "reply",
        "finish"}
TurnRec == [pc : Pcs, mode : Modes, text : Text \cup {NoText}, anchor : Nat,
            history : Seq(Note), heard : BOOLEAN]

ChatType ==
    /\ msgs \in Seq(Note) /\ ids \in Nat
    /\ turn \in [Turn -> TurnRec]
    /\ send \in [st : {"idle", "pending", "deciding"}, mode : Modes, turn : Turn \cup {NoTurn}]
    /\ cache \in Seq(Note)
    /\ fetch \in [pc : {"none", "asked", "served"}, list : Seq(Note)]
    /\ last \in Text \cup {NoText} /\ unsaid \subseteq Text
    /\ banner \in BOOLEAN /\ overlapped \in BOOLEAN /\ behind \in BOOLEAN

(* Messages are stored in the order of their ids. *)
Rising ==
    /\ \A i \in 1..Len(msgs) : msgs[i].id <= ids
    /\ \A i, j \in 1..Len(msgs) : i < j => msgs[i].id < msgs[j].id

(* The panel listens to the turn of its pending mutation and to no other.   *)
Listening ==
    /\ \A x \in Turn : turn[x].heard => send.st = "pending" /\ send.turn = x
    /\ send.st = "pending" =>
         /\ send.turn \in Turn /\ turn[send.turn].heard /\ turn[send.turn].pc # "idle"
         /\ turn[send.turn].mode = send.mode

(* What a turn's mode and place in its code have to do with each other. *)
ModesFit ==
    \A x \in Turn : /\ turn[x].pc \in {"trim", "history"} => turn[x].mode # "send"
                    /\ turn[x].pc = "persist" => turn[x].mode = "send"

Alone ==
    ~overlapped => \A x, y \in Turn : turn[x].pc # "idle" /\ turn[y].pc # "idle" => x = y

(* The last of the messages is the one with this id. *)
AtEnd(id) == Len(msgs) > 0 /\ msgs[Len(msgs)].id = id
Ending(h, id) == Len(h) > 0 /\ h[Len(h)].id = id

(* A lone turn has its anchor among the messages until the trim, and at     *)
(* their end from then on, until its reply stands behind it.                *)
Anchored(x) ==
    /\ turn[x].pc = "trim" => turn[x].anchor \in Chat!UserIds(msgs)
    /\ turn[x].pc \in {"history", "call", "stream", "reply"} => AtEnd(turn[x].anchor)
    /\ turn[x].pc = "prepare" /\ turn[x].mode # "send" => AtEnd(turn[x].anchor)
    /\ turn[x].pc \in {"prepare", "call"} /\ turn[x].mode # "send"
          => Ending(turn[x].history, turn[x].anchor)

Placed ==
    \A i \in 1..Len(msgs) : msgs[i].role = "assistant" => i > 1 /\ msgs[i - 1].id = msgs[i].re

LoneTurn == ~overlapped => Placed /\ \A x \in Turn : Anchored(x)

ServerInv == ChatType /\ Rising /\ Listening /\ ModesFit /\ Alone /\ LoneTurn

-----------------------------------------------------------------------------
(* Putting a record in the place of a turn's. *)
LEMMA TurnPut ==
    ASSUME ChatType, NEW x \in Turn, NEW w \in TurnRec, turn' = [turn EXCEPT ![x] = w]
    PROVE  /\ turn' \in [Turn -> TurnRec] /\ turn'[x] = w
           /\ \A y \in Turn : y # x => turn'[y] = turn[y]
BY DEF ChatType

(* A turn that goes on keeps its mode, its text and its listener. *)
Goes(x, p, a, h) ==
    /\ turn' \in [Turn -> TurnRec]
    /\ turn'[x].pc = p /\ turn'[x].anchor = a /\ turn'[x].history = h
    /\ turn'[x].mode = turn[x].mode /\ turn'[x].text = turn[x].text
    /\ turn'[x].heard = turn[x].heard
    /\ \A y \in Turn : y # x => turn'[y] = turn[y]

(* What the assignments of the turn's steps come to. *)
LEMMA TurnGoes ==
    ASSUME ChatType, NEW x \in Turn, NEW p \in Pcs, NEW a \in Nat, NEW h \in Seq(Note)
    PROVE  /\ turn' = [turn EXCEPT ![x].pc = p] => Goes(x, p, turn[x].anchor, turn[x].history)
           /\ turn' = [turn EXCEPT ![x].pc = p, ![x].history = h] => Goes(x, p, turn[x].anchor, h)
           /\ turn' = [turn EXCEPT ![x].pc = p, ![x].anchor = a] => Goes(x, p, a, turn[x].history)
           /\ turn' = [turn EXCEPT ![x].pc = p, ![x].anchor = a, ![x].history = h] => Goes(x, p, a, h)
<1>0. PICK q : q = turn[x]
  OBVIOUS
<1>1. /\ q \in TurnRec /\ q.anchor \in Nat /\ q.history \in Seq(Note)
      /\ turn \in [Turn -> TurnRec]
  BY <1>0 DEF ChatType, TurnRec
<1>2. ASSUME NEW b \in Nat, NEW g \in Seq(Note),
             turn' = [turn EXCEPT ![x] = [q EXCEPT !.pc = p, !.anchor = b, !.history = g]]
      PROVE  Goes(x, p, b, g)
  <2>1. PICK w : w = [q EXCEPT !.pc = p, !.anchor = b, !.history = g]
    OBVIOUS
  <2>2. /\ w \in TurnRec /\ w.pc = p /\ w.anchor = b /\ w.history = g
        /\ w.mode = q.mode /\ w.text = q.text /\ w.heard = q.heard
    BY <1>1, <2>1 DEF TurnRec
  <2>3. turn' \in [Turn -> TurnRec] /\ turn'[x] = w /\ \A y \in Turn : y # x => turn'[y] = turn[y]
    BY <1>2, <2>1, <2>2, TurnPut
  <2> QED BY <1>0, <2>2, <2>3 DEF Goes
<1>3. [turn EXCEPT ![x].pc = p] = [turn EXCEPT ![x] = [q EXCEPT !.pc = p]]
  BY <1>0, <1>1
<1>4. [turn EXCEPT ![x].pc = p, ![x].history = h] = [turn EXCEPT ![x] = [q EXCEPT !.pc = p, !.history = h]]
  BY <1>0, <1>1
<1>5. [turn EXCEPT ![x].pc = p, ![x].anchor = a] = [turn EXCEPT ![x] = [q EXCEPT !.pc = p, !.anchor = a]]
  BY <1>0, <1>1
<1>6. [turn EXCEPT ![x].pc = p, ![x].anchor = a, ![x].history = h]
        = [turn EXCEPT ![x] = [q EXCEPT !.pc = p, !.anchor = a, !.history = h]]
  BY <1>0, <1>1
<1>7. turn' = [turn EXCEPT ![x].pc = p] => Goes(x, p, turn[x].anchor, turn[x].history)
  <2>1. [q EXCEPT !.pc = p] = [q EXCEPT !.pc = p, !.anchor = q.anchor, !.history = q.history]
    BY <1>1 DEF TurnRec
  <2> QED BY <1>0, <1>1, <1>2, <1>3, <2>1
<1>8. turn' = [turn EXCEPT ![x].pc = p, ![x].history = h] => Goes(x, p, turn[x].anchor, h)
  <2>1. [q EXCEPT !.pc = p, !.history = h] = [q EXCEPT !.pc = p, !.anchor = q.anchor, !.history = h]
    BY <1>1 DEF TurnRec
  <2> QED BY <1>0, <1>1, <1>2, <1>4, <2>1
<1>9. turn' = [turn EXCEPT ![x].pc = p, ![x].anchor = a] => Goes(x, p, a, turn[x].history)
  <2>1. [q EXCEPT !.pc = p, !.anchor = a] = [q EXCEPT !.pc = p, !.anchor = a, !.history = q.history]
    BY <1>1 DEF TurnRec
  <2> QED BY <1>0, <1>1, <1>2, <1>5, <2>1
<1>10. turn' = [turn EXCEPT ![x].pc = p, ![x].anchor = a, ![x].history = h] => Goes(x, p, a, h)
  BY <1>2, <1>6
<1> QED BY <1>7, <1>8, <1>9, <1>10

(* A record in the place of a turn's. *)
Becomes(x, w) ==
    /\ turn' \in [Turn -> TurnRec] /\ turn'[x] = w
    /\ \A y \in Turn : y # x => turn'[y] = turn[y]

(* A turn's record when it ends, is posted, or is no longer listened to. *)
LEMMA NewTurns ==
    ASSUME ChatType, NEW x \in Turn, NEW mode \in Modes, NEW text \in Text \cup {NoText},
           NEW anchor \in Nat
    PROVE  /\ turn' = [turn EXCEPT ![x] = Chat!NoTurnRec] => Becomes(x, Chat!NoTurnRec)
           /\ turn' = [turn EXCEPT ![x] =
                         [Chat!NoTurnRec EXCEPT !.pc = "posted", !.mode = mode, !.text = text,
                                                !.anchor = anchor, !.heard = TRUE]]
                => /\ turn' \in [Turn -> TurnRec]
                   /\ \A y \in Turn : y # x => turn'[y] = turn[y]
                   /\ turn'[x].pc = "posted" /\ turn'[x].mode = mode /\ turn'[x].heard
           /\ turn' = [turn EXCEPT ![x].heard = FALSE]
                => /\ turn' \in [Turn -> TurnRec]
                   /\ \A y \in Turn : y # x => turn'[y] = turn[y]
                   /\ ~turn'[x].heard /\ turn'[x].pc = turn[x].pc /\ turn'[x].mode = turn[x].mode
                   /\ turn'[x].anchor = turn[x].anchor /\ turn'[x].history = turn[x].history
<1>1. Chat!NoTurnRec \in TurnRec
  BY DEF Chat!NoTurnRec, TurnRec, Pcs, Modes
<1>2. PICK w : w = [Chat!NoTurnRec EXCEPT !.pc = "posted", !.mode = mode, !.text = text,
                                          !.anchor = anchor, !.heard = TRUE]
  OBVIOUS
<1>3. w \in TurnRec /\ w.pc = "posted" /\ w.mode = mode /\ w.heard
  BY <1>1, <1>2 DEF TurnRec, Pcs
<1>5. PICK q : q = [turn[x] EXCEPT !.heard = FALSE]
  OBVIOUS
<1>6. /\ q \in TurnRec /\ ~q.heard /\ q.pc = turn[x].pc /\ q.mode = turn[x].mode
      /\ q.anchor = turn[x].anchor /\ q.history = turn[x].history
  BY <1>5 DEF ChatType, TurnRec
<1>7. turn' = [turn EXCEPT ![x].heard = FALSE] => turn' = [turn EXCEPT ![x] = q]
  BY <1>5 DEF ChatType
<1>8. ASSUME NEW v \in TurnRec, turn' = [turn EXCEPT ![x] = v] PROVE Becomes(x, v)
  BY <1>8, TurnPut DEF Becomes
<1>9. PICK n : n = Chat!NoTurnRec
  OBVIOUS
<1>10. turn' = [turn EXCEPT ![x] = Chat!NoTurnRec] => Becomes(x, Chat!NoTurnRec)
  BY <1>1, <1>8, <1>9
<1>11. turn' = [turn EXCEPT ![x] = w] => Becomes(x, w)
  BY <1>3, <1>8
<1>12. turn' = [turn EXCEPT ![x] = q] => Becomes(x, q)
  BY <1>6, <1>8
<1> QED BY <1>2, <1>3, <1>6, <1>7, <1>10, <1>11, <1>12 DEF Becomes

-----------------------------------------------------------------------------
(* The end of the panel's mutation. *)
LEMMA PanelEnds ==
    ASSUME ChatType, Chat!Succeeds \/ Chat!FailsLoudly
    PROVE  /\ send' = Chat!Resting
           /\ send' \in [st : {"idle", "pending", "deciding"}, mode : Modes, turn : Turn \cup {NoTurn}]
           /\ send'.st = "idle"
           /\ cache' \in Seq(Note)
           /\ fetch' \in [pc : {"none", "asked", "served"}, list : Seq(Note)]
           /\ last' \in Text \cup {NoText} /\ unsaid' \subseteq Text /\ banner' \in BOOLEAN
<1>1. send' = Chat!Resting
  BY DEF Chat!Succeeds, Chat!FailsLoudly
<1>2. /\ Chat!Resting \in [st : {"idle", "pending", "deciding"}, mode : Modes, turn : Turn \cup {NoTurn}]
      /\ Chat!Resting.st = "idle"
  BY DEF Chat!Resting, Modes
<1>3. Chat!Asked \in [pc : {"none", "asked", "served"}, list : Seq(Note)]
  BY DEF Chat!Asked
<1>4. fetch' \in {fetch, Chat!Asked}
  BY DEF Chat!Succeeds, Chat!FailsLoudly, Chat!Invalidate
<1>5. UNCHANGED <<cache, last, unsaid>> /\ banner' \in {banner, TRUE}
  BY DEF Chat!Succeeds, Chat!FailsLoudly
<1> QED BY <1>1, <1>2, <1>3, <1>4, <1>5 DEF ChatType

(* A turn that goes on.                                                     *)
LEMMA GoingKeeps ==
    ASSUME ServerInv, NEW x \in Turn, NEW p \in Pcs, NEW a \in Nat, NEW h \in Seq(Note),
           Goes(x, p, a, h), turn[x].pc # "idle", p # "idle",
           p \in {"trim", "history"} => turn[x].mode # "send",
           p = "persist" => turn[x].mode = "send",
           UNCHANGED <<send, cache, fetch, last, unsaid, banner, overlapped>>,
           behind' \in BOOLEAN, msgs' \in Seq(Note), ids' \in Nat, Rising',
           ~overlapped => Placed' /\ Anchored(x)'
    PROVE  ServerInv'
<1>1. ChatType'
  BY DEF ServerInv, ChatType, Goes
<1>2. Listening'
  BY DEF ServerInv, Listening, Goes
<1>3. ModesFit'
  BY DEF ServerInv, ModesFit, Goes
<1>4. Alone'
  BY DEF ServerInv, Alone, Goes
<1>5. LoneTurn'
  <2> SUFFICES ASSUME ~overlapped, NEW y \in Turn, y # x PROVE Anchored(y)'
    BY DEF LoneTurn
  <2>1. turn'[y].pc = "idle"
    BY DEF ServerInv, Alone, Goes
  <2> QED BY <2>1 DEF Anchored
<1> QED BY <1>1, <1>2, <1>3, <1>4, <1>5 DEF ServerInv

(* A turn that ends, with or without the panel's hearing of it.             *)
LEMMA EndingKeeps ==
    ASSUME ServerInv, NEW x \in Turn, turn' = [turn EXCEPT ![x] = Chat!NoTurnRec],
           UNCHANGED <<msgs, ids, overlapped>>, behind' \in BOOLEAN,
           IF turn[x].heard THEN Chat!Succeeds \/ Chat!FailsLoudly
           ELSE UNCHANGED <<send, entry, cache, fetch, last, unsaid, banner>>
    PROVE  ServerInv'
<1>1. Becomes(x, Chat!NoTurnRec)
  BY NewTurns DEF ServerInv, ChatType, TurnRec
<1>2. turn'[x].pc = "idle" /\ ~turn'[x].heard
  BY <1>1 DEF Becomes, Chat!NoTurnRec
<1>3. turn[x].heard => send' = Chat!Resting
  BY DEF Chat!Succeeds, Chat!FailsLoudly
<1>4. ChatType'
  BY <1>1, PanelEnds DEF ServerInv, ChatType, Becomes
<1>5. Listening'
  BY <1>1, <1>2, <1>3 DEF ServerInv, Listening, Becomes, Chat!Resting
<1>6. ModesFit' /\ Alone'
  BY <1>1, <1>2 DEF ServerInv, ModesFit, Alone, Becomes
<1>7. LoneTurn'
  <2> SUFFICES ASSUME ~overlapped, NEW y \in Turn PROVE Anchored(y)'
    BY DEF LoneTurn, ServerInv, Placed
  <2>1. Anchored(y)
    BY DEF ServerInv, LoneTurn
  <2>2. CASE y = x
    BY <1>2, <2>2 DEF Anchored
  <2>3. CASE y # x
    BY <1>1, <2>1, <2>3 DEF Anchored, Becomes, AtEnd
  <2> QED BY <2>2, <2>3
<1>8. Rising'
  BY DEF ServerInv, Rising
<1> QED BY <1>4, <1>5, <1>6, <1>7, <1>8 DEF ServerInv

(* A turn that begins.                                                      *)
LEMMA PostingKeeps ==
    ASSUME ServerInv, NEW x \in Turn, NEW mode \in Modes, NEW text \in Text \cup {NoText},
           NEW anchor \in Nat, Chat!Posts(x, mode, text, anchor), send.st # "pending",
           cache' \in Seq(Note), fetch' = fetch, last' \in Text \cup {NoText},
           unsaid' \subseteq Text
    PROVE  ServerInv'
<1>1. turn' \in [Turn -> TurnRec] /\ \A y \in Turn : y # x => turn'[y] = turn[y]
  BY NewTurns DEF ServerInv, Chat!Posts
<1>2. turn'[x].pc = "posted" /\ turn'[x].heard /\ turn'[x].mode = mode
  BY NewTurns DEF ServerInv, Chat!Posts
<1>3. \A y \in Turn : ~turn[y].heard
  BY DEF ServerInv, Listening
<1>4. /\ send' = [st |-> "pending", mode |-> mode, turn |-> x] /\ banner' = FALSE
      /\ overlapped' = (overlapped \/ \E y \in Turn \ {x} : turn[y].pc # "idle")
      /\ UNCHANGED <<msgs, ids, behind>>
  BY DEF Chat!Posts
<1>5. ChatType'
  <2>1. send' \in [st : {"idle", "pending", "deciding"}, mode : Modes, turn : Turn \cup {NoTurn}]
    BY <1>4
  <2>2. overlapped' \in BOOLEAN /\ banner' \in BOOLEAN
    <3>1. (overlapped \/ \E y \in Turn \ {x} : turn[y].pc # "idle") \in BOOLEAN
      OBVIOUS
    <3> QED BY <1>4, <3>1
  <2> QED BY <1>1, <1>4, <2>1, <2>2 DEF ServerInv, ChatType
<1>6. Listening'
  BY <1>1, <1>2, <1>3, <1>4 DEF Listening
<1>7. ModesFit' /\ Alone'
  <2>1. ModesFit'
    BY <1>1, <1>2 DEF ServerInv, ModesFit
  <2>2. Alone'
    <3> SUFFICES ASSUME ~overlapped', NEW y \in Turn, NEW z \in Turn,
                        turn'[y].pc # "idle", turn'[z].pc # "idle"
                 PROVE  y = z
      BY DEF Alone
    <3>1. \A u \in Turn : u # x => turn'[u].pc = "idle"
      BY <1>1, <1>4
    <3> QED BY <3>1
  <2> QED BY <2>1, <2>2
<1>8. LoneTurn'
  <2> SUFFICES ASSUME ~overlapped', NEW y \in Turn PROVE Anchored(y)'
    BY <1>4 DEF LoneTurn, ServerInv, Placed
  <2>1. CASE y = x
    BY <1>2, <2>1 DEF Anchored
  <2>2. CASE y # x
    <3>1. turn'[y].pc = "idle"
      BY <1>1, <1>4, <2>2
    <3> QED BY <3>1 DEF Anchored
  <2> QED BY <2>1, <2>2
<1>9. Rising'
  BY <1>4 DEF ServerInv, Rising
<1> QED BY <1>5, <1>6, <1>7, <1>8, <1>9 DEF ServerInv

(* The panel gives up on its turn, which goes on.                           *)
LEMMA LeavingKeeps ==
    ASSUME ServerInv, send.st = "pending", Chat!Leaves(send.turn),
           Chat!Succeeds \/ Chat!FailsLoudly, UNCHANGED <<msgs, ids, overlapped, behind>>
    PROVE  ServerInv'
<1>0. PICK x : x = send.turn
  OBVIOUS
<1>1. x \in Turn
  BY <1>0 DEF ServerInv, Listening
<1>2. /\ turn' \in [Turn -> TurnRec]
      /\ \A y \in Turn : y # x => turn'[y] = turn[y]
      /\ ~turn'[x].heard /\ turn'[x].pc = turn[x].pc /\ turn'[x].mode = turn[x].mode
      /\ turn'[x].anchor = turn[x].anchor /\ turn'[x].history = turn[x].history
  BY <1>0, <1>1, NewTurns DEF Chat!Leaves, ServerInv, ChatType, TurnRec
<1>3. send' = Chat!Resting
  BY DEF Chat!Succeeds, Chat!FailsLoudly
<1>4. ChatType'
  BY <1>2, PanelEnds DEF ServerInv, ChatType
<1>5. Listening'
  BY <1>0, <1>1, <1>2, <1>3 DEF ServerInv, Listening, Chat!Resting
<1>6. ModesFit' /\ Alone'
  BY <1>1, <1>2 DEF ServerInv, ModesFit, Alone
<1>7. LoneTurn'
  <2> SUFFICES ASSUME ~overlapped, NEW y \in Turn PROVE Anchored(y)'
    BY DEF LoneTurn, ServerInv, Placed
  <2>1. Anchored(y)
    BY DEF ServerInv, LoneTurn
  <2>2. /\ turn'[y].pc = turn[y].pc /\ turn'[y].mode = turn[y].mode
        /\ turn'[y].anchor = turn[y].anchor /\ turn'[y].history = turn[y].history
    BY <1>1, <1>2
  <2> QED BY <2>1, <2>2 DEF Anchored, AtEnd
<1>8. Rising'
  BY DEF ServerInv, Rising
<1> QED BY <1>4, <1>5, <1>6, <1>7, <1>8 DEF ServerInv

-----------------------------------------------------------------------------
(* What is left of a list up to a message that is in it. *)
LEMMA UptoIs ==
    ASSUME NEW s \in Seq(Note), NEW id, Chat!Has(s, id)
    PROVE  \E i \in 1..Len(s) :
             /\ s[i].id = id /\ Chat!Upto(s, id) \in Seq(Note) /\ Len(Chat!Upto(s, id)) = i
             /\ \A j \in 1..i : Chat!Upto(s, id)[j] = s[j]
<1>1. PICK k : k = CHOOSE i \in DOMAIN s : s[i].id = id
  OBVIOUS
<1>2. k \in 1..Len(s) /\ s[k].id = id
  BY <1>1 DEF Chat!Has
<1>3. Chat!Upto(s, id) = SubSeq(s, 1, k)
  BY <1>1 DEF Chat!Upto
<1>4. SubSeq(s, 1, k) \in Seq(Note) /\ Len(SubSeq(s, 1, k)) = k
      /\ \A j \in 1..k : SubSeq(s, 1, k)[j] = s[j]
  BY <1>2
<1> QED BY <1>2, <1>3, <1>4

(* The ids of the user's messages belong to them. *)
LEMMA UserIdsHas ==
    ASSUME NEW s \in Seq(Note), NEW id \in Chat!UserIds(s)
    PROVE  Chat!Has(s, id) /\ id \in Nat
<1>1. PICK i \in DOMAIN s : s[i].role = "user" /\ id = s[i].id
  BY DEF Chat!UserIds
<1>2. i \in 1..Len(s) /\ s[i] \in Note
  BY <1>1
<1>3. s[i].id \in Nat
  BY <1>2 DEF Note
<1> QED BY <1>1, <1>3 DEF Chat!Has

(* The trim leaves a beginning, which ends with the anchor if that is there. *)
LEMMA TrimmedIs ==
    ASSUME NEW s \in Seq(Note), NEW id
    PROVE  /\ Chat!Trimmed(s, id) \in Seq(Note)
           /\ Len(Chat!Trimmed(s, id)) <= Len(s)
           /\ \A j \in 1..Len(Chat!Trimmed(s, id)) : Chat!Trimmed(s, id)[j] = s[j]
           /\ Chat!Has(s, id) => Ending(Chat!Trimmed(s, id), id)
<1>1. CASE Chat!Has(s, id)
  <2>1. PICK i \in 1..Len(s) :
             /\ s[i].id = id /\ Chat!Upto(s, id) \in Seq(Note) /\ Len(Chat!Upto(s, id)) = i
             /\ \A j \in 1..i : Chat!Upto(s, id)[j] = s[j]
    BY <1>1, UptoIs
  <2> QED BY <1>1, <2>1 DEF Chat!Trimmed, Ending
<1>2. CASE ~Chat!Has(s, id)
  BY <1>2 DEF Chat!Trimmed
<1> QED BY <1>1, <1>2

(* A message stored goes behind the others.                                 *)
LEMMA StoredIs ==
    ASSUME ChatType, Rising, NEW m \in Note, m.id = ids + 1, Chat!Store(m)
    PROVE  /\ msgs' \in Seq(Note) /\ ids' \in Nat /\ Rising' /\ AtEnd(m.id)'
           /\ Len(msgs') = Len(msgs) + 1 /\ msgs'[Len(msgs) + 1] = m
           /\ \A i \in 1..Len(msgs) : msgs'[i] = msgs[i]
<1>1. msgs' = Append(msgs, m) /\ ids' = ids + 1 /\ msgs \in Seq(Note) /\ ids \in Nat
  BY DEF Chat!Store, ChatType
<1>2. /\ msgs' \in Seq(Note) /\ Len(msgs') = Len(msgs) + 1 /\ msgs'[Len(msgs) + 1] = m
      /\ \A i \in 1..Len(msgs) : msgs'[i] = msgs[i]
  BY <1>1
<1>3. ASSUME NEW i \in 1..Len(msgs) PROVE msgs[i].id \in Nat
  <2>1. msgs[i] \in Note
    BY <1>1
  <2> QED BY <2>1 DEF Note
<1>4. \A i \in 1..Len(msgs') : i \in 1..Len(msgs) \/ (i = Len(msgs) + 1 /\ msgs'[i] = m)
  BY <1>1, <1>2
<1>5. \A i \in 1..Len(msgs') : msgs'[i].id <= ids'
  BY <1>1, <1>2, <1>3, <1>4 DEF Rising
<1>6. \A i, j \in 1..Len(msgs') : i < j => msgs'[i].id < msgs'[j].id
  BY <1>1, <1>2, <1>3, <1>4 DEF Rising
<1> QED BY <1>1, <1>2, <1>5, <1>6 DEF Rising, AtEnd

-----------------------------------------------------------------------------
(* The turns' steps.                                                        *)
LEMMA AnswersKeep ==
    ASSUME ServerInv, NEW x \in Turn, Chat!Answers500(x)
    PROVE  ServerInv'
<1>1. /\ turn' = [turn EXCEPT ![x] = Chat!NoTurnRec]
      /\ UNCHANGED <<msgs, ids, overlapped, behind>>
  BY DEF Chat!Answers500, Chat!Ends
<1>2. IF turn[x].heard THEN Chat!Succeeds \/ Chat!FailsLoudly
      ELSE UNCHANGED <<send, entry, cache, fetch, last, unsaid, banner>>
  BY DEF Chat!Answers500, Chat!panelVars
<1> QED BY <1>1, <1>2, EndingKeeps DEF ServerInv, ChatType

(* Resolve. *)
LEMMA ResolveKeeps ==
    ASSUME ServerInv, NEW x \in Turn, Chat!Resolve(x)
    PROVE  ServerInv'
<1>0. /\ turn[x].pc = "posted" /\ turn[x].anchor \in Nat /\ turn[x].history \in Seq(Note)
      /\ msgs \in Seq(Note)
  BY DEF Chat!Resolve, ServerInv, ChatType, TurnRec
<1>1. CASE turn[x].mode = "send"
  <2>1. /\ turn' = [turn EXCEPT ![x].pc = "prepare", ![x].history = msgs]
        /\ UNCHANGED <<msgs, ids>> /\ Chat!PanelWaits
    BY SMTT(30), <1>1 DEF Chat!Resolve
  <2>2. Goes(x, "prepare", turn[x].anchor, msgs)
    BY <1>0, <2>1, TurnGoes DEF ServerInv, Pcs
  <2>3. ~overlapped => Placed' /\ Anchored(x)'
    BY <1>1, <2>1, <2>2 DEF ServerInv, LoneTurn, Placed, Anchored, Goes
  <2> QED BY <1>0, <2>1, <2>2, <2>3, GoingKeeps
          DEF Chat!PanelWaits, Chat!panelVars, ServerInv, ChatType, Rising, Pcs
<1>2. CASE turn[x].mode # "send" /\ Chat!Anchor(x) \in Chat!UserIds(msgs)
  <2>1. /\ turn' = [turn EXCEPT ![x].pc = "trim", ![x].anchor = Chat!Anchor(x), ![x].history = msgs]
        /\ UNCHANGED <<msgs, ids>> /\ Chat!PanelWaits
    BY <1>2 DEF Chat!Resolve
  <2>2. PICK a : a = Chat!Anchor(x)
    OBVIOUS
  <2>3. a \in Nat /\ a \in Chat!UserIds(msgs)
    BY SMTT(30), <1>0, <1>2, <2>2, UserIdsHas
  <2>4. Goes(x, "trim", a, msgs)
    BY <1>0, <2>1, <2>2, <2>3, TurnGoes DEF ServerInv, Pcs
  <2>5. ~overlapped => Placed' /\ Anchored(x)'
    BY <2>1, <2>3, <2>4 DEF ServerInv, LoneTurn, Placed, Anchored, Goes, Chat!UserIds
  <2> QED BY <1>0, <1>2, <2>1, <2>3, <2>4, <2>5, GoingKeeps
          DEF Chat!PanelWaits, Chat!panelVars, ServerInv, ChatType, Rising, Pcs
<1>3. CASE turn[x].mode # "send" /\ Chat!Anchor(x) \notin Chat!UserIds(msgs)
  BY <1>3, AnswersKeep DEF Chat!Resolve
<1> QED BY <1>1, <1>2, <1>3

(* Trim: deleteAllAfter puts the anchor at the end. *)
LEMMA TrimKeeps ==
    ASSUME ServerInv, NEW x \in Turn, Chat!Trim(x)
    PROVE  ServerInv'
<1>1. /\ turn[x].pc = "trim" /\ turn' = [turn EXCEPT ![x].pc = "history"]
      /\ msgs' = Chat!Trimmed(msgs, turn[x].anchor) /\ ids' = ids /\ Chat!Unseen(x)
  BY DEF Chat!Trim, Chat!Goto
<1>2. /\ turn[x].anchor \in Nat /\ turn[x].history \in Seq(Note) /\ turn[x].mode # "send"
      /\ msgs \in Seq(Note) /\ ids \in Nat
  BY SMTT(30), <1>1 DEF ServerInv, ChatType, TurnRec, ModesFit
<1>3. Goes(x, "history", turn[x].anchor, turn[x].history)
  BY <1>1, <1>2, TurnGoes DEF ServerInv, Pcs
<1>4. /\ msgs' \in Seq(Note) /\ Len(msgs') <= Len(msgs)
      /\ \A j \in 1..Len(msgs') : msgs'[j] = msgs[j]
      /\ Chat!Has(msgs, turn[x].anchor) => Ending(msgs', turn[x].anchor)
  BY <1>1, <1>2, TrimmedIs
<1>a. \A j \in 1..Len(msgs') : j \in 1..Len(msgs)
  BY <1>2, <1>4
<1>5. Rising'
  BY <1>1, <1>2, <1>4, <1>a DEF ServerInv, Rising
<1>6. ASSUME ~overlapped PROVE Placed' /\ Anchored(x)'
  <2>1. turn[x].anchor \in Chat!UserIds(msgs)
    BY <1>1, <1>6 DEF ServerInv, LoneTurn, Anchored
  <2>2. AtEnd(turn[x].anchor)'
    <3>1. Ending(msgs', turn[x].anchor)
      BY <1>2, <1>4, <2>1, UserIdsHas
    <3>2. turn'[x].anchor = turn[x].anchor
      BY <1>3 DEF Goes
    <3> QED BY <3>1, <3>2 DEF Ending, AtEnd
  <2>3. Anchored(x)'
    BY <1>3, <2>2 DEF Anchored, Goes
  <2>4. Placed'
    <3> SUFFICES ASSUME NEW i \in 1..Len(msgs'), msgs'[i].role = "assistant"
                 PROVE  i > 1 /\ msgs'[i - 1].id = msgs'[i].re
      BY DEF Placed
    <3>1. i \in 1..Len(msgs) /\ msgs'[i] = msgs[i]
      BY <1>4, <1>a
    <3>2. i > 1 /\ msgs[i - 1].id = msgs[i].re
      BY <1>6, <3>1 DEF ServerInv, LoneTurn, Placed
    <3>3. i - 1 \in 1..Len(msgs')
      BY <3>2
    <3> QED BY <1>4, <3>1, <3>2, <3>3
  <2> QED BY <2>3, <2>4
<1>7. behind' \in BOOLEAN
  <2>1. (behind \/ ~turn[x].heard) \in BOOLEAN
    OBVIOUS
  <2> QED BY <1>1, <2>1 DEF Chat!Unseen
<1>8. UNCHANGED <<send, cache, fetch, last, unsaid, banner, overlapped>>
  BY <1>1 DEF Chat!Unseen, Chat!panelVars
<1> QED BY <1>1, <1>2, <1>3, <1>4, <1>5, <1>6, <1>7, <1>8, GoingKeeps DEF Pcs

(* A turn that goes on without a write. *)
LEMMA QuietGoingKeeps ==
    ASSUME ServerInv, NEW x \in Turn, NEW p \in Pcs, NEW h \in {turn[x].history, msgs},
           Goes(x, p, turn[x].anchor, h), turn[x].pc # "idle", p # "idle",
           p \in {"trim", "history"} => turn[x].mode # "send",
           p = "persist" => turn[x].mode = "send",
           UNCHANGED <<msgs, ids>>, Chat!PanelWaits, ~overlapped => Anchored(x)'
    PROVE  ServerInv'
<1>1. turn[x].anchor \in Nat /\ h \in Seq(Note) /\ msgs' \in Seq(Note) /\ ids' \in Nat
      /\ Rising'
  BY DEF ServerInv, ChatType, TurnRec, Rising
<1>2. UNCHANGED <<send, cache, fetch, last, unsaid, banner, overlapped>> /\ behind' \in BOOLEAN
  BY DEF Chat!PanelWaits, Chat!panelVars, ServerInv, ChatType
<1>3. ~overlapped => Placed'
  BY DEF ServerInv, LoneTurn, Placed
<1> QED BY <1>1, <1>2, <1>3, GoingKeeps

(* ReadHistory. *)
LEMMA ReadHistoryKeeps ==
    ASSUME ServerInv, NEW x \in Turn, Chat!ReadHistory(x)
    PROVE  ServerInv'
<1>1. /\ turn[x].pc = "history" /\ turn' = [turn EXCEPT ![x].pc = "prepare", ![x].history = msgs]
      /\ UNCHANGED <<msgs, ids>> /\ Chat!PanelWaits
  BY DEF Chat!ReadHistory
<1>2. Goes(x, "prepare", turn[x].anchor, msgs)
  BY <1>1, TurnGoes DEF ServerInv, ChatType, TurnRec, Pcs
<1>3. ~overlapped => Anchored(x)'
  BY <1>1, <1>2 DEF ServerInv, LoneTurn, Anchored, Goes, AtEnd, Ending
<1> QED BY <1>1, <1>2, <1>3, QuietGoingKeeps DEF Pcs

(* Prepare. *)
LEMMA PrepareKeeps ==
    ASSUME ServerInv, NEW x \in Turn, Chat!Prepare(x)
    PROVE  ServerInv'
<1>1. turn[x].pc = "prepare"
  BY DEF Chat!Prepare
<1>2. ASSUME NEW p \in {"persist", "call"}, turn' = [turn EXCEPT ![x].pc = p],
             p = IF turn[x].mode = "send" THEN "persist" ELSE "call",
             UNCHANGED <<msgs, ids>>, Chat!PanelWaits
      PROVE  ServerInv'
  <2>1. Goes(x, p, turn[x].anchor, turn[x].history)
    BY <1>2, TurnGoes DEF ServerInv, ChatType, TurnRec, Pcs
  <2>2. ~overlapped => Anchored(x)'
    BY <1>1, <1>2, <2>1 DEF ServerInv, LoneTurn, Anchored, Goes, AtEnd, Ending
  <2> QED BY <1>1, <1>2, <2>1, <2>2, QuietGoingKeeps DEF Pcs
<1>3. CASE Chat!Goto(x, IF turn[x].mode = "send" THEN "persist" ELSE "call")
           /\ UNCHANGED <<msgs, ids>> /\ Chat!PanelWaits
  <2>1. PICK p : p = IF turn[x].mode = "send" THEN "persist" ELSE "call"
    OBVIOUS
  <2>2. p \in {"persist", "call"} /\ turn' = [turn EXCEPT ![x].pc = p]
    BY <1>3, <2>1 DEF Chat!Goto
  <2> QED BY <1>2, <1>3, <2>1, <2>2
<1> QED BY <1>3, AnswersKeep DEF Chat!Prepare

(* PersistUser: the turn's own message is at the end. *)
LEMMA PersistUserKeeps ==
    ASSUME ServerInv, NEW x \in Turn, Chat!PersistUser(x)
    PROVE  ServerInv'
<1>0. PICK a : a = ids + 1
  OBVIOUS
<1>1. PICK m : m = [id |-> a, role |-> "user", text |-> turn[x].text, re |-> 0]
  OBVIOUS
<1>2. /\ turn[x].pc = "persist" /\ Chat!Store(m)
      /\ turn' = [turn EXCEPT ![x].pc = "call", ![x].anchor = a] /\ Chat!Unseen(x)
  BY <1>0, <1>1 DEF Chat!PersistUser
<1>3. /\ turn[x].mode = "send" /\ turn[x].history \in Seq(Note) /\ a \in Nat
      /\ turn[x].text \in Text \cup {NoText}
  BY <1>0, <1>2 DEF ServerInv, ChatType, TurnRec, ModesFit
<1>4. m \in Note /\ m.id = a /\ m.role = "user"
  BY <1>1, <1>3 DEF Note
<1>5. /\ msgs' \in Seq(Note) /\ ids' \in Nat /\ Rising' /\ AtEnd(a)'
      /\ Len(msgs') = Len(msgs) + 1 /\ msgs'[Len(msgs) + 1] = m
      /\ \A i \in 1..Len(msgs) : msgs'[i] = msgs[i]
  BY SMTT(30), <1>0, <1>2, <1>4, StoredIs DEF ServerInv
<1>6. Goes(x, "call", a, turn[x].history)
  BY <1>2, <1>3, TurnGoes DEF ServerInv, Pcs
<1>7. ASSUME ~overlapped PROVE Placed' /\ Anchored(x)'
  <2>1. Anchored(x)'
    BY <1>3, <1>5, <1>6 DEF Anchored, Goes, AtEnd
  <2>2. Placed'
    <3> SUFFICES ASSUME NEW i \in 1..Len(msgs'), msgs'[i].role = "assistant"
                 PROVE  i > 1 /\ msgs'[i - 1].id = msgs'[i].re
      BY DEF Placed
    <3>1. i \in 1..Len(msgs) /\ msgs'[i] = msgs[i]
      BY <1>4, <1>5 DEF ServerInv, ChatType
    <3>2. i > 1 /\ msgs[i - 1].id = msgs[i].re
      BY <1>7, <3>1 DEF ServerInv, LoneTurn, Placed
    <3> QED BY <1>5, <3>1, <3>2
  <2> QED BY <2>1, <2>2
<1>8. behind' \in BOOLEAN /\ UNCHANGED <<send, cache, fetch, last, unsaid, banner, overlapped>>
  <2>1. (behind \/ ~turn[x].heard) \in BOOLEAN
    OBVIOUS
  <2> QED BY <1>2, <2>1 DEF Chat!Unseen, Chat!panelVars
<1> QED BY <1>2, <1>3, <1>5, <1>6, <1>7, <1>8, GoingKeeps DEF Pcs

(* Call. *)
LEMMA CallKeeps ==
    ASSUME ServerInv, NEW x \in Turn, Chat!Call(x)
    PROVE  ServerInv'
<1>1. CASE Chat!Answers500(x)
  BY <1>1, AnswersKeep
<1>2. CASE Chat!Goto(x, "stream") /\ UNCHANGED <<msgs, ids>> /\ Chat!PanelWaits
  <2>1. turn[x].pc = "call" /\ turn' = [turn EXCEPT ![x].pc = "stream"]
    BY <1>2 DEF Chat!Call, Chat!Goto
  <2>2. Goes(x, "stream", turn[x].anchor, turn[x].history)
    BY <2>1, TurnGoes DEF ServerInv, ChatType, TurnRec, Pcs
  <2>3. ~overlapped => Anchored(x)'
    BY <1>2, <2>1, <2>2 DEF ServerInv, LoneTurn, Anchored, Goes, AtEnd
  <2> QED BY <1>2, <2>1, <2>2, <2>3, QuietGoingKeeps DEF Pcs
<1> QED BY <1>1, <1>2 DEF Chat!Call

(* StreamEnds. *)
LEMMA StreamEndsKeeps ==
    ASSUME ServerInv, NEW x \in Turn, Chat!StreamEnds(x)
    PROVE  ServerInv'
<1>1. /\ turn[x].pc = "stream" /\ turn' = [turn EXCEPT ![x].pc = "reply"]
      /\ UNCHANGED <<msgs, ids>> /\ Chat!PanelWaits
  BY DEF Chat!StreamEnds, Chat!Goto
<1>2. Goes(x, "reply", turn[x].anchor, turn[x].history)
  BY <1>1, TurnGoes DEF ServerInv, ChatType, TurnRec, Pcs
<1>3. ~overlapped => Anchored(x)'
  BY <1>1, <1>2 DEF ServerInv, LoneTurn, Anchored, Goes, AtEnd
<1> QED BY <1>1, <1>2, <1>3, QuietGoingKeeps DEF Pcs

(* PersistReply: the reply stands behind its anchor. *)
LEMMA PersistReplyKeeps ==
    ASSUME ServerInv, NEW x \in Turn, Chat!PersistReply(x)
    PROVE  ServerInv'
<1>0. PICK a : a = turn[x].anchor
  OBVIOUS
<1>1. PICK m : m = [id |-> ids + 1, role |-> "assistant", text |-> NoText, re |-> a]
  OBVIOUS
<1>2. /\ turn[x].pc = "reply" /\ turn' = [turn EXCEPT ![x].pc = "finish"] /\ Chat!Unseen(x)
      /\ Chat!Store(m) \/ UNCHANGED <<msgs, ids>>
  BY <1>0, <1>1 DEF Chat!PersistReply, Chat!Goto
<1>3. turn[x].history \in Seq(Note) /\ a \in Nat /\ msgs \in Seq(Note) /\ ids \in Nat
  BY <1>0 DEF ServerInv, ChatType, TurnRec
<1>4. m \in Note /\ m.id = ids + 1 /\ m.re = a
  BY <1>1, <1>3 DEF Note
<1>5. Goes(x, "finish", a, turn[x].history)
  BY <1>0, <1>2, <1>3, TurnGoes DEF ServerInv, Pcs
<1>6. Anchored(x)'
  BY <1>5 DEF Anchored, Goes
<1>7. behind' \in BOOLEAN /\ UNCHANGED <<send, cache, fetch, last, unsaid, banner, overlapped>>
  <2>1. (behind \/ ~turn[x].heard) \in BOOLEAN
    OBVIOUS
  <2> QED BY <1>2, <2>1 DEF Chat!Unseen, Chat!panelVars
<1>8. CASE UNCHANGED <<msgs, ids>>
  <2>1. Rising' /\ (~overlapped => Placed')
    BY <1>8 DEF ServerInv, Rising, LoneTurn, Placed
  <2> QED BY <1>2, <1>3, <1>5, <1>6, <1>7, <1>8, <2>1, GoingKeeps DEF Pcs
<1>9. CASE Chat!Store(m)
  <2>1. /\ msgs' \in Seq(Note) /\ ids' \in Nat /\ Rising'
        /\ Len(msgs') = Len(msgs) + 1 /\ msgs'[Len(msgs) + 1] = m
        /\ \A i \in 1..Len(msgs) : msgs'[i] = msgs[i]
    BY <1>4, <1>9, StoredIs DEF ServerInv
  <2>2. ASSUME ~overlapped PROVE Placed'
    <3>1. Len(msgs) > 0 /\ msgs[Len(msgs)].id = a
      BY <1>0, <1>2, <2>2 DEF ServerInv, LoneTurn, Anchored, AtEnd
    <3> SUFFICES ASSUME NEW i \in 1..Len(msgs'), msgs'[i].role = "assistant"
                 PROVE  i > 1 /\ msgs'[i - 1].id = msgs'[i].re
      BY DEF Placed
    <3>2. CASE i \in 1..Len(msgs)
      <4>1. i > 1 /\ msgs[i - 1].id = msgs[i].re
        BY <2>1, <2>2, <3>2 DEF ServerInv, LoneTurn, Placed
      <4> QED BY <2>1, <3>2, <4>1
    <3>3. CASE i = Len(msgs) + 1
      <4>1. Len(msgs) \in Nat /\ Len(msgs) \in 1..Len(msgs)
        BY <1>3, <3>1
      <4>2. msgs'[i] = m /\ msgs'[Len(msgs)] = msgs[Len(msgs)]
        BY <2>1, <3>3, <4>1
      <4>3. i > 1 /\ i - 1 = Len(msgs)
        BY <3>1, <3>3, <4>1
      <4> QED BY <1>4, <3>1, <4>2, <4>3
    <3> QED BY <1>3, <2>1, <3>2, <3>3
  <2> QED BY <1>2, <1>3, <1>5, <1>6, <1>7, <2>1, <2>2, GoingKeeps DEF Pcs
<1> QED BY <1>2, <1>8, <1>9

(* Finish and Notice. *)
LEMMA FinishKeeps ==
    ASSUME ServerInv, NEW x \in Turn, Chat!Finish(x) \/ Chat!Notice(x)
    PROVE  ServerInv'
<1>1. turn' = [turn EXCEPT ![x] = Chat!NoTurnRec] /\ UNCHANGED <<msgs, ids, overlapped, behind>>
  BY DEF Chat!Finish, Chat!Notice, Chat!Ends, Chat!PanelWaits
<1>2. IF turn[x].heard THEN Chat!Succeeds \/ Chat!FailsLoudly
      ELSE UNCHANGED <<send, entry, cache, fetch, last, unsaid, banner>>
  BY DEF Chat!Finish, Chat!Notice, Chat!PanelWaits, Chat!panelVars
<1> QED BY <1>1, <1>2, EndingKeeps DEF ServerInv, ChatType

(* Steps that leave server and turns alone, and change the fetched list.    *)
LEMMA FetchKeeps ==
    ASSUME ServerInv, UNCHANGED <<msgs, turn, ids, last, unsaid, banner, overlapped>>,
           send' = send \/ (send.st # "pending" /\ send' = [Chat!Resting EXCEPT !.st = "deciding"]),
           cache' \in Seq(Note), behind' \in BOOLEAN,
           fetch' \in [pc : {"none", "asked", "served"}, list : Seq(Note)]
    PROVE  ServerInv'
<1>1. PICK s : s = [Chat!Resting EXCEPT !.st = "deciding"]
  OBVIOUS
<1>2. /\ s \in [st : {"idle", "pending", "deciding"}, mode : Modes, turn : Turn \cup {NoTurn}]
      /\ s.st = "deciding"
  BY <1>1 DEF Chat!Resting, Modes
<1>3. send' = send \/ (send.st # "pending" /\ send' = s)
  BY <1>1
<1>4. ChatType' /\ Listening'
  BY <1>2, <1>3 DEF ServerInv, ChatType, Listening
<1>5. Rising' /\ ModesFit' /\ Alone' /\ LoneTurn'
  BY DEF ServerInv, Rising, ModesFit, Alone, LoneTurn, Placed, Anchored, AtEnd
<1> QED BY <1>4, <1>5 DEF ServerInv

(* Every step of the chat keeps the server's invariant.                     *)
LEMMA ServerStep ==
    ASSUME ServerInv, Chat!Next \/ UNCHANGED MCVars
    PROVE  ServerInv'
<1>0. ChatType /\ Listening
  BY DEF ServerInv
<1>1. ASSUME NEW x \in Turn, NEW text \in Text, Chat!Send(x, text) PROVE ServerInv'
  BY <1>0, <1>1, PostingKeeps DEF Chat!Send, ChatType, Modes
<1>2. ASSUME NEW x \in Turn, NEW id, Chat!Replay(x, id) PROVE ServerInv'
  <2>1. cache \in Seq(Note) /\ id \in Chat!UserIds(cache) /\ cache' = Chat!Upto(cache, id)
    BY <1>0, <1>2 DEF Chat!Replay, ChatType
  <2>2. cache' \in Seq(Note) /\ id \in Nat
    BY <2>1, UserIdsHas, UptoIs
  <2> QED BY <1>0, <1>2, <2>2, PostingKeeps DEF Chat!Replay, ChatType, Modes
<1>3. ASSUME NEW x \in Turn, Chat!RetryReplays(x) \/ Chat!RetrySends(x) PROVE ServerInv'
  BY <1>0, <1>3, PostingKeeps DEF Chat!RetryReplays, Chat!RetrySends, ChatType, Modes
<1>4. ASSUME NEW x \in Turn, Chat!Serves(x) PROVE ServerInv'
  BY <1>4, AnswersKeep, ResolveKeeps, TrimKeeps, ReadHistoryKeeps, PrepareKeeps,
     PersistUserKeeps, CallKeeps, StreamEndsKeeps, PersistReplyKeeps, FinishKeeps
     DEF Chat!Serves, Chat!Refuse, Chat!StreamFails
<1>5. ASSUME NEW x \in Turn, Chat!Chunk(x) PROVE ServerInv'
  BY <1>0, <1>5, FetchKeeps DEF Chat!Chunk, Chat!serverVars, ChatType
<1>6. CASE Chat!Stop \/ Chat!Break
  BY <1>6, LeavingKeeps DEF Chat!Stop, Chat!Break
<1>7. CASE Chat!Retry
  <2>1. Chat!Asked \in [pc : {"none", "asked", "served"}, list : Seq(Note)]
    BY DEF Chat!Asked
  <2> QED BY <1>0, <1>7, <2>1, FetchKeeps DEF Chat!Retry, Chat!serverVars, Chat!Invalidate, ChatType
<1>8. CASE Chat!Serve
  BY <1>0, <1>8, FetchKeeps DEF Chat!Serve, Chat!serverVars, ChatType
<1>9. CASE Chat!Receive
  BY <1>0, <1>9, FetchKeeps DEF Chat!Receive, Chat!serverVars, ChatType, Chat!NoFetch
<1>10. CASE UNCHANGED MCVars
  BY <1>0, <1>10, FetchKeeps DEF MCVars, ChatVars, ChatType
<1> QED BY <1>1, <1>2, <1>3, <1>4, <1>5, <1>6, <1>7, <1>8, <1>9, <1>10 DEF Chat!Next

-----------------------------------------------------------------------------
(* What the panel shows.  As long as no abandoned turn has written, the     *)
(* list it has, or is about to have, lacks at most user's messages at the   *)
(* end, while a send is under way or has failed; and nothing while the      *)
(* Retry banner decides, or a retry is under way: its trim cuts nothing.    *)
Due == IF fetch.pc = "served" THEN fetch.list ELSE cache
Lag(c, m) ==
    /\ Len(c) <= Len(m)
    /\ \A i \in 1..Len(c) : c[i] = m[i]
    /\ \A i \in (Len(c) + 1)..Len(m) : m[i].role = "user"
Unanswered(x) == turn[x].pc \notin {"reply", "finish"}
Behaves ==
    /\ send.st = "idle" => Due = msgs \/ (banner /\ Lag(Due, msgs))
    /\ send.st = "deciding" => Due = msgs
    /\ send.st = "pending" /\ send.mode = "send" /\ Unanswered(send.turn) => Lag(Due, msgs)
    /\ send.st = "pending" /\ send.mode = "retry" /\ Unanswered(send.turn) =>
         /\ Due = msgs /\ Len(msgs) > 0 /\ msgs[Len(msgs)].role = "user"
         /\ turn[send.turn].pc = "trim" => turn[send.turn].anchor = msgs[Len(msgs)].id
PanelInv ==
    /\ send.st = "pending" /\ send.mode = "retry" => fetch.pc = "none"
    /\ fetch.pc # "asked" /\ ~behind => Behaves

(* The lists compared are lists of messages. *)
LEMMA DueType == ASSUME ChatType PROVE Due \in Seq(Note) /\ msgs \in Seq(Note)
BY DEF ChatType, Due

(* A list lags behind itself by nothing. *)
LEMMA LagSelf == ASSUME NEW m \in Seq(Note) PROVE Lag(m, m)
BY DEF Lag

(* The anchor of a retry behind which nothing has come is the last message. *)
LEMMA LastUserIs ==
    ASSUME NEW s \in Seq(Note), Len(s) > 0, s[Len(s)].role = "user"
    PROVE  Chat!LastUser(s) = s[Len(s)].id
<1>0. Len(s) \in DOMAIN s /\ DOMAIN s = 1..Len(s)
  OBVIOUS
<1>1. s[Len(s)].id \in Chat!UserIds(s)
  BY <1>0 DEF Chat!UserIds
<1>2. PICK k : k = CHOOSE i \in DOMAIN s :
                       s[i].role = "user" /\ \A j \in DOMAIN s : s[j].role = "user" => j <= i
  OBVIOUS
<1>3. k \in DOMAIN s /\ \A j \in DOMAIN s : s[j].role = "user" => j <= k
  BY <1>0, <1>2
<1>4. k = Len(s)
  BY <1>0, <1>3
<1> QED BY <1>1, <1>2, <1>4 DEF Chat!LastUser

(* What is kept up to the last message is all.                              *)
LEMMA NothingTrimmed ==
    ASSUME ChatType, Rising, Len(msgs) > 0
    PROVE  Chat!Trimmed(msgs, msgs[Len(msgs)].id) = msgs
<1>0. PICK id : id = msgs[Len(msgs)].id
  OBVIOUS
<1>1. msgs \in Seq(Note) /\ Len(msgs) \in 1..Len(msgs)
  BY DEF ChatType
<1>2. Chat!Has(msgs, id)
  BY <1>0, <1>1 DEF Chat!Has
<1>3. PICK i \in 1..Len(msgs) :
           /\ msgs[i].id = id /\ Chat!Upto(msgs, id) \in Seq(Note) /\ Len(Chat!Upto(msgs, id)) = i
           /\ \A j \in 1..i : Chat!Upto(msgs, id)[j] = msgs[j]
  BY <1>1, <1>2, UptoIs
<1>4. i = Len(msgs)
  <2>1. msgs[i] \in Note /\ msgs[Len(msgs)] \in Note
    BY <1>1
  <2>2. msgs[i].id \in Nat /\ msgs[Len(msgs)].id \in Nat
    BY <2>1 DEF Note
  <2>3. i < Len(msgs) => msgs[i].id < msgs[Len(msgs)].id
    BY <1>1 DEF Rising
  <2> QED BY <1>0, <1>1, <1>3, <2>2, <2>3
<1>5. Chat!Upto(msgs, id) = msgs
  BY <1>1, <1>3, <1>4
<1> QED BY <1>0, <1>2, <1>5 DEF Chat!Trimmed

(* A turn that goes on without writing. *)
LEMMA QuietGoingShows ==
    ASSUME ServerInv, PanelInv, NEW x \in Turn, NEW p, NEW a, NEW h, Goes(x, p, a, h),
           turn[x].pc \in {"reply", "finish"} => p \in {"reply", "finish"},
           UNCHANGED msgs, Chat!PanelWaits,
           p = "trim" /\ turn[x].mode = "retry" =>
              (Len(msgs) > 0 /\ msgs[Len(msgs)].role = "user" => a = msgs[Len(msgs)].id)
    PROVE  PanelInv'
<1>1. UNCHANGED <<msgs, send, cache, fetch, banner, behind>>
  BY DEF Chat!PanelWaits, Chat!panelVars
<1>2. Due' = Due
  BY <1>1 DEF Due
<1> SUFFICES ASSUME fetch.pc # "asked", ~behind PROVE Behaves'
  BY <1>1 DEF PanelInv
<1>3. Behaves
  BY DEF PanelInv
<1>4. CASE send.st = "pending"
  <2>1. send.turn \in Turn /\ turn[send.turn].mode = send.mode
    BY <1>4 DEF ServerInv, Listening
  <2>2. CASE send.turn = x
    BY <1>1, <1>2, <1>3, <1>4, <2>1, <2>2 DEF Behaves, Unanswered, Goes, Lag
  <2>3. CASE send.turn # x
    <3>1. turn'[send.turn] = turn[send.turn]
      BY <2>1, <2>3 DEF Goes
    <3> QED BY <1>1, <1>2, <1>3, <1>4, <3>1 DEF Behaves, Unanswered, Lag
  <2> QED BY <2>2, <2>3
<1>5. CASE send.st # "pending"
  BY <1>1, <1>2, <1>3, <1>5 DEF Behaves, Lag
<1> QED BY <1>4, <1>5

(* The mutation fails, or succeeds, with nothing written meanwhile.         *)
LEMMA OutcomeShows ==
    ASSUME ServerInv, PanelInv, send.st = "pending", UNCHANGED <<msgs, behind>>,
           Chat!Succeeds \/ (Chat!FailsLoudly /\ Unanswered(send.turn))
    PROVE  PanelInv'
<1>1. send' = Chat!Resting /\ send'.st = "idle" /\ cache' = cache
  BY DEF Chat!Succeeds, Chat!FailsLoudly, Chat!Resting
<1>2. CASE fetch' = Chat!Asked
  BY <1>1, <1>2 DEF PanelInv, Chat!Asked
<1>3. CASE fetch' # Chat!Asked
  <2>1. Chat!FailsLoudly /\ Unanswered(send.turn) /\ send.mode # "from" /\ UNCHANGED fetch /\ banner'
    BY <1>3 DEF Chat!Succeeds, Chat!FailsLoudly, Chat!Invalidate
  <2>2. send.mode \in {"send", "retry"}
    BY <2>1 DEF ServerInv, ChatType, Modes
  <2>3. Due' = Due
    BY <1>1, <2>1 DEF Due
  <2> SUFFICES ASSUME fetch.pc # "asked", ~behind PROVE Behaves'
    BY <1>1, <2>1 DEF PanelInv
  <2>4. Lag(Due, msgs)
    BY <2>1, <2>2, LagSelf, DueType DEF PanelInv, Behaves, ServerInv
  <2>5. Lag(Due, msgs)'
    BY <2>3, <2>4 DEF Lag
  <2> QED BY <1>1, <2>1, <2>5 DEF Behaves
<1> QED BY <1>2, <1>3

(* A turn that ends. *)
LEMMA EndingShows ==
    ASSUME ServerInv, PanelInv, NEW x \in Turn, turn' = [turn EXCEPT ![x] = Chat!NoTurnRec],
           UNCHANGED <<msgs, behind>>,
           IF turn[x].heard THEN Chat!Succeeds \/ (Chat!FailsLoudly /\ Unanswered(x))
           ELSE UNCHANGED <<send, cache, fetch, banner>>
    PROVE  PanelInv'
<1>1. CASE turn[x].heard
  <2>1. send.st = "pending" /\ send.turn = x
    BY <1>1 DEF ServerInv, Listening
  <2> QED BY <1>1, <2>1, OutcomeShows
<1>2. CASE ~turn[x].heard
  <2>1. UNCHANGED <<msgs, send, cache, fetch, banner, behind>> /\ Due' = Due
    BY <1>2 DEF Due
  <2>2. send.st = "pending" => turn'[send.turn] = turn[send.turn]
    <3>1. send.st = "pending" => send.turn # x /\ send.turn \in Turn
      BY <1>2 DEF ServerInv, Listening
    <3>2. \A y \in Turn : y # x => turn'[y] = turn[y]
      BY DEF ServerInv, ChatType
    <3> QED BY <3>1, <3>2
  <2> QED BY <2>1, <2>2 DEF PanelInv, Behaves, Unanswered, Lag
<1> QED BY <1>1, <1>2

(* A turn that writes: unheard, it leaves the panel behind; heard, it adds  *)
(* a user's message, or trims nothing, or stores its reply.                 *)
LEMMA WritingShows ==
    ASSUME ServerInv, PanelInv, NEW x \in Turn, NEW p \in Pcs, NEW a, NEW h, Goes(x, p, a, h),
           Unanswered(x), p # "trim", Chat!Unseen(x),
           turn[x].heard /\ ~behind /\ fetch.pc # "asked" =>
              /\ turn[x].mode = "retry" => msgs' = msgs
              /\ turn[x].mode = "send" => (Lag(Due, msgs) => Lag(Due, msgs'))
           \/ p = "finish"
    PROVE  PanelInv'
<1>1. UNCHANGED <<send, cache, fetch, banner>> /\ behind' = (behind \/ ~turn[x].heard)
  BY DEF Chat!Unseen, Chat!panelVars
<1>2. Due' = Due
  BY <1>1 DEF Due
<1>3. CASE ~turn[x].heard
  BY <1>1, <1>3 DEF PanelInv
<1>4. CASE turn[x].heard
  <2>1. send.st = "pending" /\ send.turn = x /\ turn[x].mode = send.mode
    BY <1>4 DEF ServerInv, Listening
  <2>2. turn'[x].pc = p
    BY DEF Goes
  <2> SUFFICES ASSUME fetch.pc # "asked", ~behind PROVE Behaves'
    BY <1>1, <1>4 DEF PanelInv
  <2>3. CASE p = "finish"
    BY <1>1, <2>1, <2>2, <2>3 DEF Behaves, Unanswered
  <2>4. CASE p # "finish"
    <3>1. Behaves /\ Unanswered(send.turn)
      BY <2>1 DEF PanelInv
    <3>2. send.mode = "send" => Lag(Due, msgs)'
      BY <1>2, <1>4, <2>1, <2>4, <3>1 DEF Behaves, Lag
    <3>3. send.mode = "retry" => /\ Due' = msgs' /\ Len(msgs') > 0
                                 /\ msgs'[Len(msgs')].role = "user"
      BY <1>2, <1>4, <2>1, <2>4, <3>1 DEF Behaves
    <3> QED BY <1>1, <2>1, <2>2, <3>2, <3>3 DEF Behaves
  <2> QED BY <2>3, <2>4
<1> QED BY <1>3, <1>4

(* Trim, seen by the panel. *)
LEMMA TrimShows ==
    ASSUME ServerInv, PanelInv, NEW x \in Turn, Chat!Trim(x)
    PROVE  PanelInv'
<1>1. /\ turn[x].pc = "trim" /\ turn' = [turn EXCEPT ![x].pc = "history"]
      /\ msgs' = Chat!Trimmed(msgs, turn[x].anchor) /\ Chat!Unseen(x)
  BY DEF Chat!Trim, Chat!Goto
<1>2. turn[x].anchor \in Nat /\ turn[x].history \in Seq(Note) /\ turn[x].mode # "send"
  BY SMTT(30), <1>1 DEF ServerInv, ChatType, TurnRec, ModesFit
<1>3. Goes(x, "history", turn[x].anchor, turn[x].history)
  BY <1>1, <1>2, TurnGoes DEF ServerInv, Pcs
<1>4. ASSUME turn[x].heard, ~behind, fetch.pc # "asked", turn[x].mode = "retry"
      PROVE  msgs' = msgs
  <2>1. send.st = "pending" /\ send.turn = x /\ turn[x].mode = send.mode
    BY <1>4 DEF ServerInv, Listening
  <2>2. Len(msgs) > 0 /\ turn[x].anchor = msgs[Len(msgs)].id
    BY <1>1, <1>4, <2>1 DEF PanelInv, Behaves, Unanswered
  <2> QED BY <1>1, <2>2, NothingTrimmed DEF ServerInv
<1> QED BY <1>1, <1>2, <1>3, <1>4, WritingShows DEF Pcs, Unanswered

(* PersistUser, seen by the panel. *)
LEMMA PersistUserShows ==
    ASSUME ServerInv, PanelInv, NEW x \in Turn, Chat!PersistUser(x)
    PROVE  PanelInv'
<1>0. PICK a : a = ids + 1
  OBVIOUS
<1>1. PICK m : m = [id |-> a, role |-> "user", text |-> turn[x].text, re |-> 0]
  OBVIOUS
<1>2. /\ turn[x].pc = "persist" /\ msgs' = Append(msgs, m)
      /\ turn' = [turn EXCEPT ![x].pc = "call", ![x].anchor = a] /\ Chat!Unseen(x)
  BY <1>0, <1>1 DEF Chat!PersistUser, Chat!Store
<1>3. /\ turn[x].history \in Seq(Note) /\ turn[x].mode = "send" /\ a \in Nat
      /\ turn[x].text \in Text \cup {NoText} /\ msgs \in Seq(Note) /\ Due \in Seq(Note)
  BY SMTT(30), <1>0, <1>2, DueType DEF ServerInv, ChatType, TurnRec, ModesFit
<1>4. m \in Note /\ m.role = "user"
  BY <1>1, <1>3 DEF Note
<1>5. Goes(x, "call", a, turn[x].history)
  BY <1>2, <1>3, TurnGoes DEF ServerInv, Pcs
<1>6. Lag(Due, msgs) => Lag(Due, msgs')
  <2> SUFFICES ASSUME Lag(Due, msgs) PROVE Lag(Due, msgs')
    OBVIOUS
  <2>1. PICK c \in Seq(Note) : c = Due
    BY <1>3
  <2>2. Len(msgs') = Len(msgs) + 1 /\ msgs'[Len(msgs) + 1] = m
        /\ \A i \in 1..Len(msgs) : msgs'[i] = msgs[i]
    BY <1>2, <1>3, <1>4
  <2>3. Len(c) <= Len(msgs) /\ Len(c) \in Nat /\ Len(msgs) \in Nat
    BY <1>3, <2>1 DEF Lag
  <2>4. \A i \in 1..Len(c) : c[i] = msgs'[i]
    BY <2>1, <2>2, <2>3 DEF Lag
  <2>5. \A i \in (Len(c) + 1)..Len(msgs') : msgs'[i].role = "user"
    <3> SUFFICES ASSUME NEW i \in (Len(c) + 1)..Len(msgs') PROVE msgs'[i].role = "user"
      OBVIOUS
    <3>1. CASE i = Len(msgs) + 1
      BY <1>4, <2>2, <3>1
    <3>2. CASE i # Len(msgs) + 1
      <4>1. i \in (Len(c) + 1)..Len(msgs) /\ i \in 1..Len(msgs)
        BY <2>2, <2>3, <3>2
      <4> QED BY <2>1, <2>2, <4>1 DEF Lag
    <3> QED BY <3>1, <3>2
  <2> QED BY <2>1, <2>2, <2>3, <2>4, <2>5 DEF Lag
<1> QED BY <1>2, <1>3, <1>5, <1>6, WritingShows DEF Pcs, Unanswered

(* PersistReply, seen by the panel. *)
LEMMA PersistReplyShows ==
    ASSUME ServerInv, PanelInv, NEW x \in Turn, Chat!PersistReply(x)
    PROVE  PanelInv'
<1>1. turn[x].pc = "reply" /\ turn' = [turn EXCEPT ![x].pc = "finish"] /\ Chat!Unseen(x)
  BY DEF Chat!PersistReply, Chat!Goto
<1>2. Goes(x, "finish", turn[x].anchor, turn[x].history)
  BY <1>1, TurnGoes DEF ServerInv, ChatType, TurnRec, Pcs
<1>3. UNCHANGED <<send, cache, fetch, banner>> /\ behind' = (behind \/ ~turn[x].heard)
  BY <1>1 DEF Chat!Unseen, Chat!panelVars
<1>4. turn'[x].pc = "finish"
  BY <1>2 DEF Goes
<1>5. turn[x].heard => send.st = "pending" /\ send.turn = x
  BY DEF ServerInv, Listening
<1> QED BY <1>3, <1>4, <1>5 DEF PanelInv, Behaves, Unanswered

(* A turn that begins.                                                      *)
LEMMA PostingShows ==
    ASSUME ServerInv, PanelInv, NEW x \in Turn, NEW mode \in Modes, NEW text \in Text \cup {NoText},
           NEW anchor \in Nat, Chat!Posts(x, mode, text, anchor), UNCHANGED fetch,
           mode # "from" => UNCHANGED cache,
           mode = "send" => send.st \in {"idle", "deciding"},
           mode = "retry" => /\ send.st = "deciding" /\ fetch = Chat!NoFetch
                             /\ Len(cache) > 0 /\ cache[Len(cache)].role = "user"
    PROVE  PanelInv'
<1>1. turn'[x].pc = "posted"
  BY NewTurns DEF ServerInv, Chat!Posts
<1>2. /\ send' = [st |-> "pending", mode |-> mode, turn |-> x]
      /\ UNCHANGED <<msgs, behind>>
  BY DEF Chat!Posts
<1>3. mode # "from" => Due' = Due
  BY DEF Due
<1>4. mode = "retry" => fetch.pc = "none"
  BY DEF Chat!NoFetch
<1> SUFFICES ASSUME fetch.pc # "asked", ~behind PROVE Behaves'
  BY <1>2, <1>4 DEF PanelInv
<1>5. Behaves
  BY DEF PanelInv
<1>6. mode = "send" => Lag(Due, msgs)'
  <2>1. mode = "send" => Lag(Due, msgs)
    BY <1>5, DueType, LagSelf DEF Behaves, ServerInv
  <2> QED BY <1>2, <1>3, <2>1 DEF Lag
<1>7. mode = "retry" => Due' = msgs' /\ Len(msgs') > 0 /\ msgs'[Len(msgs')].role = "user"
  BY <1>2, <1>3, <1>4, <1>5 DEF Behaves, Due
<1> QED BY <1>1, <1>2, <1>6, <1>7 DEF Behaves

(* Every step of the chat keeps what the panel shows.                       *)
LEMMA PanelStep ==
    ASSUME ServerInv, PanelInv, Chat!Next \/ UNCHANGED MCVars
    PROVE  PanelInv'
<1>0. ChatType /\ Listening
  BY DEF ServerInv
<1>1. ASSUME NEW x \in Turn, NEW text \in Text, Chat!Send(x, text) PROVE PanelInv'
  BY <1>0, <1>1, PostingShows DEF Chat!Send, ChatType, Modes
<1>2. ASSUME NEW x \in Turn, NEW id, Chat!Replay(x, id) PROVE PanelInv'
  <2>1. id \in Nat
    BY <1>0, <1>2, UserIdsHas DEF Chat!Replay, ChatType
  <2> QED BY <1>0, <1>2, <2>1, PostingShows DEF Chat!Replay, ChatType, Modes
<1>3. ASSUME NEW x \in Turn, Chat!RetryReplays(x) PROVE PanelInv'
  <2>1. Len(cache) > 0 /\ cache[Len(cache)].role = "user"
    BY <1>0, <1>3 DEF Chat!RetryReplays, Chat!Last, ChatType
  <2> QED BY <1>0, <1>3, <2>1, PostingShows DEF Chat!RetryReplays, ChatType, Modes
<1>4. ASSUME NEW x \in Turn, Chat!RetrySends(x) PROVE PanelInv'
  BY <1>0, <1>4, PostingShows DEF Chat!RetrySends, ChatType, Modes
<1>5. ASSUME NEW x \in Turn, Chat!Answers500(x), turn[x].pc \notin {"reply", "finish"} PROVE PanelInv'
  BY <1>5, EndingShows DEF Chat!Answers500, Chat!Ends, Chat!panelVars, Unanswered
<1>6. ASSUME NEW x \in Turn, Chat!Resolve(x) PROVE PanelInv'
  <2>0. /\ turn[x].pc = "posted" /\ turn[x].anchor \in Nat /\ msgs \in Seq(Note)
    BY <1>0, <1>6 DEF Chat!Resolve, ChatType, TurnRec
  <2>1. CASE turn[x].mode = "send"
    <3>1. turn' = [turn EXCEPT ![x].pc = "prepare", ![x].history = msgs] /\ UNCHANGED msgs /\ Chat!PanelWaits
      BY SMTT(30), <1>6, <2>1 DEF Chat!Resolve
    <3>2. Goes(x, "prepare", turn[x].anchor, msgs)
      BY <1>0, <2>0, <3>1, TurnGoes DEF Pcs
    <3> QED BY <2>0, <3>1, <3>2, QuietGoingShows
  <2>2. CASE turn[x].mode # "send" /\ Chat!Anchor(x) \in Chat!UserIds(msgs)
    <3>1. PICK a : a = Chat!Anchor(x)
      OBVIOUS
    <3>2. /\ turn' = [turn EXCEPT ![x].pc = "trim", ![x].anchor = a, ![x].history = msgs]
          /\ UNCHANGED msgs /\ Chat!PanelWaits
      BY <1>6, <2>2, <3>1 DEF Chat!Resolve
    <3>3. a \in Nat
      BY SMTT(30), <2>0, <2>2, <3>1, UserIdsHas
    <3>4. Goes(x, "trim", a, msgs)
      BY <1>0, <2>0, <3>2, <3>3, TurnGoes DEF Pcs
    <3>5. turn[x].mode = "retry" /\ Len(msgs) > 0 /\ msgs[Len(msgs)].role = "user"
             => a = msgs[Len(msgs)].id
      BY <2>0, <3>1, LastUserIs DEF Chat!Anchor
    <3> QED BY <2>0, <3>2, <3>4, <3>5, QuietGoingShows
  <2>3. CASE turn[x].mode # "send" /\ Chat!Anchor(x) \notin Chat!UserIds(msgs)
    BY <1>5, <1>6, <2>0, <2>3 DEF Chat!Resolve
  <2> QED BY <2>1, <2>2, <2>3
<1>7. ASSUME NEW x \in Turn, NEW p \in Pcs \ {"trim"}, NEW h \in Seq(Note),
             turn' = [turn EXCEPT ![x].pc = p] \/ turn' = [turn EXCEPT ![x].pc = p, ![x].history = h],
             turn[x].pc \notin {"reply", "finish"}, UNCHANGED msgs, Chat!PanelWaits
      PROVE  PanelInv'
  <2>1. \E g : Goes(x, p, turn[x].anchor, g)
    BY <1>0, <1>7, TurnGoes DEF ChatType, TurnRec
  <2> QED BY <1>7, <2>1, QuietGoingShows
<1>8. ASSUME NEW x \in Turn, Chat!ReadHistory(x) PROVE PanelInv'
  BY <1>0, <1>7, <1>8 DEF Chat!ReadHistory, ChatType, Pcs
<1>9. ASSUME NEW x \in Turn, Chat!Prepare(x) \/ Chat!Call(x) \/ Chat!StreamEnds(x) PROVE PanelInv'
  <2>1. turn[x].pc \notin {"reply", "finish"}
    BY <1>9 DEF Chat!Prepare, Chat!Call, Chat!StreamEnds
  <2>2. CASE Chat!Answers500(x)
    BY <1>5, <2>1, <2>2
  <2>3. ASSUME NEW p \in {"persist", "call", "stream", "reply"}, Chat!Goto(x, p), UNCHANGED msgs,
               Chat!PanelWaits
        PROVE  PanelInv'
    <3>1. turn' = [turn EXCEPT ![x].pc = p] /\ msgs \in Seq(Note)
      BY <1>0, <2>3 DEF Chat!Goto, ChatType
    <3> QED BY <1>7, <2>1, <2>3, <3>1 DEF Pcs
  <2>4. CASE Chat!Prepare(x)
    BY <2>2, <2>3, <2>4 DEF Chat!Prepare
  <2>5. CASE Chat!Call(x)
    BY <2>2, <2>3, <2>5 DEF Chat!Call
  <2>6. CASE Chat!StreamEnds(x)
    BY <2>3, <2>6 DEF Chat!StreamEnds
  <2> QED BY <1>9, <2>4, <2>5, <2>6
<1>10. ASSUME NEW x \in Turn, Chat!Notice(x) \/ Chat!Finish(x) PROVE PanelInv'
  <2>1. turn' = [turn EXCEPT ![x] = Chat!NoTurnRec] /\ UNCHANGED <<msgs, behind>>
    BY <1>10 DEF Chat!Notice, Chat!Finish, Chat!Ends, Chat!PanelWaits
  <2>2. IF turn[x].heard THEN Chat!Succeeds ELSE UNCHANGED <<send, cache, fetch, banner>>
    BY <1>10 DEF Chat!Notice, Chat!Finish, Chat!PanelWaits, Chat!panelVars
  <2> QED BY <2>1, <2>2, EndingShows
<1>11. ASSUME NEW x \in Turn, Chat!Serves(x) PROVE PanelInv'
  BY <1>5, <1>6, <1>8, <1>9, <1>10, <1>11, TrimShows, PersistUserShows, PersistReplyShows
     DEF Chat!Serves, Chat!Refuse, Chat!StreamFails
<1>12. ASSUME UNCHANGED <<msgs, turn, send, cache, fetch, banner, behind>> PROVE PanelInv'
  BY <1>12 DEF PanelInv, Behaves, Due, Lag, Unanswered
<1>13. CASE Chat!Stop \/ Chat!Break
  <2>1. /\ send.st = "pending" /\ UNCHANGED <<msgs, behind>>
        /\ Chat!Succeeds \/ (Chat!FailsLoudly /\ Unanswered(send.turn))
    BY <1>13 DEF Chat!Stop, Chat!Break, Unanswered
  <2> QED BY <2>1, OutcomeShows
<1>14. CASE Chat!Retry
  BY <1>14 DEF Chat!Retry, Chat!Invalidate, Chat!Asked, Chat!Resting, PanelInv
<1>15. CASE Chat!Serve
  <2>1. /\ fetch = Chat!Asked /\ fetch' = [pc |-> "served", list |-> msgs] /\ UNCHANGED <<msgs, send, turn>>
    BY <1>15 DEF Chat!Serve, Chat!serverVars
  <2>2. Due' = msgs'
    BY <2>1 DEF Due
  <2>3. Lag(msgs, msgs) /\ Lag(Due, msgs)'
    BY <1>0, <2>1, <2>2, LagSelf DEF Lag, ChatType
  <2>4. ~(send.st = "pending" /\ send.mode = "retry")
    BY <2>1 DEF PanelInv, Chat!Asked
  <2> QED BY <2>1, <2>2, <2>3, <2>4 DEF PanelInv, Behaves
<1>16. CASE Chat!Receive
  <2>1. /\ fetch.pc = "served" /\ cache' = fetch.list /\ fetch' = Chat!NoFetch
        /\ UNCHANGED <<msgs, send, turn, banner, behind>>
    BY <1>16 DEF Chat!Receive, Chat!serverVars
  <2>2. Due' = Due /\ fetch'.pc = "none"
    BY <2>1 DEF Due, Chat!NoFetch
  <2> QED BY <2>1, <2>2 DEF PanelInv, Behaves, Lag, Unanswered
<1>17. ASSUME NEW x \in Turn, Chat!Chunk(x) PROVE PanelInv'
  BY <1>12, <1>17 DEF Chat!Chunk, Chat!serverVars
<1>18. CASE UNCHANGED MCVars
  BY <1>12, <1>18 DEF MCVars, ChatVars
<1> QED BY <1>1, <1>2, <1>3, <1>4, <1>11, <1>13, <1>14, <1>15, <1>16, <1>17, <1>18 DEF Chat!Next

-----------------------------------------------------------------------------
(* The chat's invariant, which the behaviours of the other parts keep by    *)
(* leaving the chat as it began. *)
ChatInv == ServerInv /\ PanelInv

(* It holds at first. *)
LEMMA ChatInit == MCInit => ChatInv
<1> SUFFICES ASSUME MCInit PROVE ChatInv
  OBVIOUS
<1>0. Chat!Init
  BY DEF MCInit
<1>1. Chat!NoTurnRec \in TurnRec
  BY DEF Chat!NoTurnRec, TurnRec, Pcs, Modes
<1>2. /\ msgs = <<>> /\ ids = 0 /\ cache = <<>> /\ last = NoText /\ unsaid = Text
      /\ banner = FALSE /\ overlapped = FALSE /\ behind = FALSE
      /\ turn = [x \in Turn |-> Chat!NoTurnRec]
      /\ send = Chat!Resting /\ fetch = Chat!NoFetch
  BY <1>0 DEF Chat!Init
<1>3. \A x \in Turn : turn[x].pc = "idle" /\ ~turn[x].heard
  BY <1>2 DEF Chat!NoTurnRec
<1>4. /\ send \in [st : {"idle", "pending", "deciding"}, mode : Modes, turn : Turn \cup {NoTurn}]
      /\ send.st = "idle"
  BY <1>2 DEF Chat!Resting, Modes
<1>5. fetch \in [pc : {"none", "asked", "served"}, list : Seq(Note)] /\ fetch.pc = "none"
  BY <1>2 DEF Chat!NoFetch
<1>6. ChatType
  <2>1. turn \in [Turn -> TurnRec]
    BY <1>1, <1>2
  <2>2. msgs \in Seq(Note) /\ cache \in Seq(Note) /\ ids \in Nat
    BY <1>2
  <2>3. last \in Text \cup {NoText} /\ unsaid \subseteq Text
    BY <1>2
  <2>4. banner \in BOOLEAN /\ overlapped \in BOOLEAN /\ behind \in BOOLEAN
    BY <1>2
  <2> QED BY <1>4, <1>5, <2>1, <2>2, <2>3, <2>4 DEF ChatType
<1>7. Rising /\ Placed
  BY <1>2 DEF Rising, Placed
<1>8. Listening /\ ModesFit /\ Alone /\ LoneTurn
  BY <1>3, <1>4, <1>7 DEF Listening, ModesFit, Alone, LoneTurn, Anchored
<1>9. PanelInv
  BY <1>2, <1>4, <1>5 DEF PanelInv, Behaves, Due
<1> QED BY <1>6, <1>7, <1>8, <1>9 DEF ChatInv, ServerInv

(* Every step of any part keeps it. *)
LEMMA ChatStep == ChatInv /\ [MCNext]_MCVars => ChatInv'
<1> SUFFICES ASSUME ChatInv, [MCNext]_MCVars PROVE ChatInv'
  OBVIOUS
<1>1. CASE Chat!Next \/ UNCHANGED MCVars
  BY <1>1, ServerStep, PanelStep DEF ChatInv
<1>2. CASE UNCHANGED ChatVars
  <2>1. UNCHANGED <<msgs, turn, ids, send, cache, fetch, last, unsaid, banner, overlapped, behind>>
    BY <1>2 DEF ChatVars
  <2>2. ServerInv'
    BY <2>1, FetchKeeps DEF ChatInv, ServerInv, ChatType
  <2>3. PanelInv'
    BY <2>1 DEF ChatInv, PanelInv, Behaves, Due, Lag, Unanswered
  <2> QED BY <2>2, <2>3 DEF ChatInv
<1> QED BY <1>1, <1>2 DEF MCNext, Stores, Chats, Wires

(* So it always holds. *)
LEMMA ChatAlways == MCSpec => []ChatInv
<1> QED BY ChatInit, ChatStep, PTL DEF MCSpec

(* A reply stands right behind the message it was made for, unless turns    *)
(* overlapped: a turn that runs alone has its anchor at the end from its    *)
(* trim, or its own message's insert, until the reply is stored.            *)
THEOREM RepliesCorrect == MCSpec => []RepliesInPlace
<1>1. ChatInv => RepliesInPlace
  <2> SUFFICES ASSUME ChatInv, ~overlapped PROVE Chat!RepliesInPlace
    BY DEF Chat!RepliesInPlace, RepliesInPlace
  <2>1. Placed /\ msgs \in Seq(Note)
    BY DEF ChatInv, ServerInv, LoneTurn, ChatType
  <2>2. DOMAIN msgs = 1..Len(msgs)
    BY <2>1
  <2> QED BY <2>1, <2>2 DEF Placed, Chat!RepliesInPlace
<1> QED BY <1>1, ChatAlways, PTL

(* What Venice is asked ends with the message it is to answer, unless turns *)
(* overlapped: the history of a replay is read after the trim.              *)
THEOREM PromptCorrect == MCSpec => []PromptEndsWithAnchor
<1>1. ChatInv => PromptEndsWithAnchor
  <2> SUFFICES ASSUME ChatInv, NEW x \in Turn, Chat!Asking(x), ~overlapped
               PROVE  turn[x].history # <<>> /\ Chat!Last(turn[x].history).id = turn[x].anchor
    BY DEF Chat!PromptEndsWithAnchor, PromptEndsWithAnchor
  <2>1. Ending(turn[x].history, turn[x].anchor)
    BY DEF ChatInv, ServerInv, LoneTurn, Anchored, Chat!Asking
  <2>2. turn[x].history \in Seq(Note)
    BY DEF ChatInv, ServerInv, ChatType, TurnRec
  <2> QED BY <2>1, <2>2 DEF Ending, Chat!Last
<1> QED BY <1>1, ChatAlways, PTL

(* A panel at rest shows the server's messages, but for what an abandoned   *)
(* turn has written since and, under the banner, user's messages of sends   *)
(* that failed: however sends, stops, breaks, replays and retries follow    *)
(* one another.                                                             *)
THEOREM PanelCorrect == MCSpec => []PanelTruthful
<1>1. ChatInv => PanelTruthful
  <2> SUFFICES ASSUME ChatInv, send.st = "idle", fetch = Chat!NoFetch, ~behind
               PROVE  \/ cache = msgs
                      \/ /\ banner /\ Chat!IsPrefix(cache, msgs)
                         /\ \A i \in Len(cache) + 1..Len(msgs) : msgs[i].role = "user"
    BY DEF Chat!PanelTruthful, PanelTruthful
  <2>1. Due = cache /\ fetch.pc # "asked"
    BY DEF Due, Chat!NoFetch
  <2>2. cache = msgs \/ (banner /\ Lag(cache, msgs))
    BY <2>1 DEF ChatInv, PanelInv, Behaves
  <2>3. cache \in Seq(Note) /\ msgs \in Seq(Note)
    BY DEF ChatInv, ServerInv, ChatType
  <2>4. ASSUME Lag(cache, msgs)
        PROVE  /\ Chat!IsPrefix(cache, msgs)
               /\ \A i \in Len(cache) + 1..Len(msgs) : msgs[i].role = "user"
    <3>1. Len(cache) <= Len(msgs) /\ \A i \in 1..Len(cache) : cache[i] = msgs[i]
      BY <2>4 DEF Lag
    <3>2. cache = SubSeq(msgs, 1, Len(cache))
      BY <2>3, <3>1
    <3> QED BY <2>4, <3>1, <3>2 DEF Lag, Chat!IsPrefix
  <2> QED BY <2>2, <2>4
<1> QED BY <1>1, ChatAlways, PTL

-----------------------------------------------------------------------------
(* The streamed answer.  What a line of data may carry, and the tokens. *)
Piece(n) == [is |-> "text", n |-> n]
Words == {Piece(n) : n \in Nat} \cup {Sse!Citations, Sse!Done}
           \cup {Sse!Error(Sse!Code(f, TRUE)) : f \in Sse!Fault}
Token == {Sse!NL, Sse!Event} \cup {[half |-> h, of |-> x] : h \in 1..2, x \in Words}

WireType ==
    /\ served \in Nat /\ searched \in BOOLEAN /\ fault \in Sse!Fault \cup {"none"}
    /\ ended \in BOOLEAN /\ cut \in BOOLEAN /\ cited \in BOOLEAN
    /\ wire \in Seq(Token) /\ buffer \in Seq(Token) /\ told \in Seq(Nat)
    /\ status \in Sse!Status

(* What is on its way: read and not yet parsed, or not yet read.  Of the    *)
(* citations and the pieces written, it is what the reader has not been     *)
(* told, in order, frame by frame; then comes how the stream closed.  A     *)
(* broken connection loses an end of it. *)
Stream == buffer \o wire
Named == <<Sse!Event, Sse!NL, [half |-> 1, of |-> Sse!Citations], [half |-> 2, of |-> Sse!Citations],
           Sse!NL, Sse!NL>>
Closing == IF fault = "none" THEN Sse!Done ELSE Sse!Error(Sse!Code(fault, TRUE))
Awaited == searched /\ ~cited
Before == IF Awaited THEN 6 ELSE 0
Rest == Before + 4 * (served - Len(told))
Carried ==
    /\ Awaited => \A i \in 1..6 : i <= Len(Stream) => Stream[i] = Named[i]
    /\ \A n \in (Len(told) + 1)..served : \A j \in 1..4 :
         LET i == Before + 4 * (n - Len(told) - 1) + j
         IN  i <= Len(Stream) => Stream[i] = Sse!Data(Piece(n))[j]
    /\ ended => \A j \in 1..4 : Rest + j <= Len(Stream) => Stream[Rest + j] = Sse!Data(Closing)[j]
    /\ ~ended => Len(Stream) <= Rest /\ (cut \/ Len(Stream) = Rest)

ToldInOrder == Len(told) <= served /\ \A i \in 1..Len(told) : told[i] = i

InStream ==
    Sse!Reading =>
      /\ Carried
      /\ cited => searched
      /\ Awaited => Len(told) = 0
      /\ ended /\ fault = "none" => served = Length
      /\ ~ended => fault = "none"
      /\ fault \notin Sse!Early

Outcome ==
    /\ status = "sent" => /\ served = 0 /\ ~searched /\ ~ended /\ ~cited /\ fault = "none" /\ ~cut
                          /\ wire = <<>> /\ buffer = <<>> /\ told = <<>>
    /\ status = "done" /\ ~cut => 
         ended /\ fault = "none" /\ Len(told) = Length /\ (cited <=> searched)
    /\ status = "error" =>
         /\ ended /\ fault \in Sse!Fault
         /\ \/ /\ code = Sse!Code(fault, TRUE) /\ http = 502 /\ wait = 0 /\ fault \notin Sse!Early
            \/ /\ code = Sse!Code(fault, FALSE) /\ http = Sse!HttpStatus(fault) /\ hints \in Sse!Hints
               /\ wait = IF fault = "429" THEN Sse!RetryAfter(hints) ELSE 0

WireInv == WireType /\ ToldInOrder /\ InStream /\ Outcome

(* What the codes and statuses tell apart. *)
LEMMA CodesTell ==
    ASSUME NEW f \in Sse!Fault, NEW s \in BOOLEAN
    PROVE  /\ Sse!Code(f, s) \in {"venice_key_invalid", "venice_key_required"} <=> f \in {"401", "no key"}
           /\ Sse!Code(f, s) = "venice_insufficient_balance" <=> f = "402"
           /\ Sse!Code(f, s) = "venice_rate_limited" <=> f = "429"
<1>1. /\ Sse!Code("401", s) = "venice_key_invalid" /\ Sse!Code("429", s) = "venice_rate_limited"
      /\ Sse!Code("402", s) = "venice_insufficient_balance" /\ Sse!Code("503", s) = "venice_unavailable"
  BY DEF Sse!Code
<1>2. \A g \in {"403", "404", "500", "connection"} : Sse!Code(g, s) = "venice_error"
  BY DEF Sse!Code
<1>3. /\ Sse!Code("no key", s) = "venice_key_required" /\ Sse!Code("unknown model", s) = "unknown_model"
  BY DEF Sse!Code
<1>4. Sse!Code("defect", s) \in {"stream_error", "internal_error"}
  <2>1. CASE s
    BY <2>1 DEF Sse!Code
  <2>2. CASE ~s
    BY <2>2 DEF Sse!Code
  <2> QED BY <2>1, <2>2
<1>5. f \in {"401", "402", "403", "404", "429", "500", "503", "connection", "defect", "no key",
            "unknown model"}
  BY DEF Sse!Fault, Sse!Statuses, Sse!Early
<1>6. /\ Sse!Code(f, s) \in {"venice_key_invalid", "venice_key_required"} <=> f \in {"401", "no key"}
      /\ Sse!Code(f, s) = "venice_insufficient_balance" <=> f = "402"
      /\ Sse!Code(f, s) = "venice_rate_limited" <=> f = "429"
  BY <1>1, <1>2, <1>3, <1>4, <1>5
<1> QED BY <1>6

(* None of the errors is answered 401, and only a limit 429. *)
LEMMA StatusTells ==
    ASSUME NEW f \in Sse!Fault
    PROVE  Sse!HttpStatus(f) # 401 /\ (Sse!HttpStatus(f) = 429 => f = "429")
<1> DEFINE Odd == f = "no key" \/ f = "unknown model"
<1>1. \/ f \in {"401", "402", "403", "404", "429", "500", "503", "connection", "defect"}
      \/ Odd
  BY DEF Sse!Fault, Sse!Statuses, Sse!Early
<1>2. /\ Sse!HttpStatus("401") = 400 /\ Sse!HttpStatus("402") = 402 /\ Sse!HttpStatus("403") = 502
      /\ Sse!HttpStatus("404") = 404 /\ Sse!HttpStatus("429") = 429 /\ Sse!HttpStatus("500") = 502
      /\ Sse!HttpStatus("503") = 502 /\ Sse!HttpStatus("connection") = 502
      /\ Sse!HttpStatus("defect") = 500
  BY DEF Sse!HttpStatus
<1>3. Odd => Sse!HttpStatus(f) = 400 \/ Sse!HttpStatus(f) = 409
  <2>1. ASSUME f = "no key" PROVE Sse!HttpStatus(f) = 409
    <3>1. Sse!HttpStatus("no key") = 409
      BY DEF Sse!HttpStatus
    <3> QED BY <2>1, <3>1, Zenon
  <2>2. ASSUME f = "unknown model" PROVE Sse!HttpStatus(f) = 400
    <3>1. Sse!HttpStatus("unknown model") = 400
      BY DEF Sse!HttpStatus
    <3> QED BY <2>2, <3>1, Zenon
  <2> QED BY <2>1, <2>2, Zenon
<1> HIDE DEF Odd
<1> QED BY <1>1, <1>2, <1>3

(* The time to wait that the headers tell. *)
LEMMA WaitTells ==
    ASSUME NEW h \in Sse!Hints
    PROVE  /\ Sse!RetryAfter(h) <= (IF h.after \in {1, 2} THEN h.after ELSE 2)
           /\ Sse!RetryAfter(h) = 0 => h \in [DOMAIN h -> {0, 9}]
<1>1. h.after \in {0, 1, 2, 9} /\ h.requests \in {0, 1, 2, 9} /\ h.tokens \in {0, 1, 2, 9}
  BY DEF Sse!Hints, Sse!Seconds
<1>2. CASE h.after \in {1, 2}
  BY <1>2 DEF Sse!RetryAfter
<1>3. CASE h.after \notin {1, 2}
  <2>1. PICK R : R = {h.requests, h.tokens} \cap {1, 2}
    OBVIOUS
  <2>2. Sse!RetryAfter(h) = IF R = {} THEN 0 ELSE CHOOSE s \in R : \A t \in R : s <= t
    BY <1>3, <2>1 DEF Sse!RetryAfter
  <2>3. CASE R = {}
    <3>1. h.after \in {0, 9} /\ h.requests \in {0, 9} /\ h.tokens \in {0, 9}
      BY <1>1, <1>3, <2>1, <2>3
    <3>2. h \in [DOMAIN h -> {0, 9}]
      BY <3>1 DEF Sse!Hints
    <3> QED BY <2>2, <2>3, <3>2, <1>3
  <2>4. CASE R # {}
    <3>1. \E s \in R : \A t \in R : s <= t
      <4>1. CASE 1 \in R
        BY <2>1, <4>1
      <4>2. CASE 1 \notin R
        BY <2>1, <2>4, <4>2
      <4> QED BY <4>1, <4>2
    <3>2. PICK m \in R : m = CHOOSE s \in R : \A t \in R : s <= t
      BY <3>1
    <3>3. m \in {1, 2}
      BY <2>1, <3>2
    <3>4. Sse!RetryAfter(h) = m
      BY <2>2, <2>4, <3>2
    <3> QED BY <1>3, <3>3, <3>4
  <2> QED BY <2>3, <2>4
<1> QED BY <1>2, <1>3

(* The tokens of a frame. *)
LEMMA DataIs ==
    ASSUME NEW x
    PROVE  /\ Len(Sse!Data(x)) = 4
           /\ Sse!Data(x)[1] = [half |-> 1, of |-> x] /\ Sse!Data(x)[2] = [half |-> 2, of |-> x]
           /\ Sse!Data(x)[3] = Sse!NL /\ Sse!Data(x)[4] = Sse!NL
           /\ x \in Words => Sse!Data(x) \in Seq(Token)
<1>1. x \in Words => {[half |-> 1, of |-> x], [half |-> 2, of |-> x], Sse!NL} \subseteq Token
  BY DEF Token
<1> QED BY <1>1 DEF Sse!Data

(* The tokens of the frame of citations. *)
LEMMA NamedIs ==
    /\ <<Sse!Event, Sse!NL>> \o Sse!Data(Sse!Citations) = Named
    /\ Len(Named) = 6 /\ Named \in Seq(Token)
    /\ Named[1] = Sse!Event /\ Named[2] = Sse!NL
    /\ Named[3] = [half |-> 1, of |-> Sse!Citations] /\ Named[4] = [half |-> 2, of |-> Sse!Citations]
    /\ Named[5] = Sse!NL /\ Named[6] = Sse!NL
<1>1. {Sse!Event, Sse!NL, [half |-> 1, of |-> Sse!Citations], [half |-> 2, of |-> Sse!Citations]} \subseteq Token
  <2>1. Sse!Citations \in Words
    BY DEF Words
  <2> QED BY <2>1 DEF Token
<1>2. Named \in Seq(Token) /\ Len(Named) = 6
  BY <1>1 DEF Named
<1>3. PICK d : d = <<[half |-> 1, of |-> Sse!Citations], [half |-> 2, of |-> Sse!Citations], Sse!NL, Sse!NL>>
  OBVIOUS
<1>4. <<Sse!Event, Sse!NL>> \o Sse!Data(Sse!Citations) = Named
  <2>1. PICK e : e = <<Sse!Event, Sse!NL>>
    OBVIOUS
  <2>2. /\ e \in Seq(Token) /\ Len(e) = 2 /\ e[1] = Sse!Event /\ e[2] = Sse!NL
        /\ d \in Seq(Token) /\ Len(d) = 4
        /\ d[1] = [half |-> 1, of |-> Sse!Citations] /\ d[2] = [half |-> 2, of |-> Sse!Citations]
        /\ d[3] = Sse!NL /\ d[4] = Sse!NL
    BY <1>1, <1>3, <2>1
  <2>3. PICK v : v = e \o d
    OBVIOUS
  <2>4. /\ v \in Seq(Token) /\ Len(v) = 6
        /\ v[1] = e[1] /\ v[2] = e[2] /\ v[3] = d[1] /\ v[4] = d[2] /\ v[5] = d[3] /\ v[6] = d[4]
    <3>1. v \in Seq(Token) /\ Len(v) = Len(e) + Len(d)
      BY <2>2, <2>3, ConcatProperties
    <3>2. \A i \in 1..Len(e) + Len(d) : v[i] = IF i <= Len(e) THEN e[i] ELSE d[i - Len(e)]
      BY <2>2, <2>3, ConcatProperties
    <3> QED BY <2>2, <3>1, <3>2
  <2>5. v = Named
    <3>1. \A i \in 1..6 : v[i] = Named[i]
      BY <2>2, <2>4 DEF Named
    <3> QED BY <1>2, <2>4, <3>1, SeqEqual
  <2> QED BY <1>3, <2>1, <2>3, <2>5 DEF Sse!Data
<1> QED BY <1>2, <1>4 DEF Named

(* Where the first blank line begins. *)
LEMMA BlankIs ==
    ASSUME buffer \in Seq(Token), NEW m \in 1..(Len(buffer) - 1), buffer[m] = Sse!NL, buffer[m + 1] = Sse!NL,
           \A j \in 1..(m - 1) : ~(buffer[j] = Sse!NL /\ buffer[j + 1] = Sse!NL)
    PROVE  Sse!Blank = m
<1>1. PICK E : E = {i \in 1..Len(buffer) - 1 : buffer[i] = Sse!NL /\ buffer[i + 1] = Sse!NL}
  OBVIOUS
<1>2. Sse!Blank = IF E = {} THEN 0 ELSE CHOOSE i \in E : \A j \in E : i <= j
  BY <1>1 DEF Sse!Blank
<1>3. m \in E /\ \A j \in E : m <= j
  BY <1>1
<1>4. E \subseteq Int
  BY <1>1
<1>5. \A i \in E : (\A j \in E : i <= j) => i = m
  BY <1>3, <1>4
<1> QED BY <1>2, <1>3, <1>5

(* A blank line that is found is there. *)
LEMMA BlankSome ==
    ASSUME buffer \in Seq(Token), Sse!Blank # 0
    PROVE  \E i \in 1..(Len(buffer) - 1) : buffer[i] = Sse!NL /\ buffer[i + 1] = Sse!NL
BY DEF Sse!Blank

(* A buffer that begins with a line of data, or with the citations. *)
LEMMA FirstFrame ==
    ASSUME buffer \in Seq(Token), NEW x,
           \A j \in 1..4 : j <= Len(buffer) => buffer[j] = Sse!Data(x)[j]
    PROVE  /\ Sse!Blank # 0 => Sse!Blank = 3 /\ Len(buffer) >= 4
           /\ Sse!Blank = 0 => Len(buffer) <= 3
<1>0. /\ Len(buffer) >= 1 => buffer[1] = [half |-> 1, of |-> x]
      /\ Len(buffer) >= 2 => buffer[2] = [half |-> 2, of |-> x]
      /\ Len(buffer) >= 3 => buffer[3] = Sse!NL
      /\ Len(buffer) >= 4 => buffer[4] = Sse!NL
  BY DataIs
<1>1. /\ Len(buffer) >= 1 => buffer[1] # Sse!NL
      /\ Len(buffer) >= 2 => buffer[2] # Sse!NL
      /\ Len(buffer) >= 4 => buffer[3] = Sse!NL /\ buffer[4] = Sse!NL
  BY <1>0 DEF Sse!NL
<1>2. ASSUME Len(buffer) >= 4 PROVE Sse!Blank = 3
  <2>1. 3 \in 1..(Len(buffer) - 1) /\ buffer[3] = Sse!NL /\ buffer[3 + 1] = Sse!NL
    BY <1>1, <1>2
  <2>2. \A j \in 1..(3 - 1) : ~(buffer[j] = Sse!NL /\ buffer[j + 1] = Sse!NL)
    BY <1>1, <1>2
  <2> QED BY <2>1, <2>2, BlankIs
<1>3. Sse!Blank # 0 => Len(buffer) >= 4
  BY <1>1, BlankSome
<1> QED BY <1>2, <1>3

(* The same of citations. *)
LEMMA FirstNamed ==
    ASSUME buffer \in Seq(Token), \A j \in 1..6 : j <= Len(buffer) => buffer[j] = Named[j]
    PROVE  /\ Sse!Blank # 0 => Sse!Blank = 5 /\ Len(buffer) >= 6
           /\ Sse!Blank = 0 => Len(buffer) <= 5
<1>1. /\ Len(buffer) >= 1 => buffer[1] # Sse!NL
      /\ Len(buffer) >= 3 => buffer[3] # Sse!NL
      /\ Len(buffer) >= 4 => buffer[4] # Sse!NL
      /\ Len(buffer) >= 6 => buffer[5] = Sse!NL /\ buffer[6] = Sse!NL
  BY NamedIs DEF Sse!NL, Sse!Event
<1>2. ASSUME Len(buffer) >= 6 PROVE Sse!Blank = 5
  <2>1. 5 \in 1..(Len(buffer) - 1) /\ buffer[5] = Sse!NL /\ buffer[5 + 1] = Sse!NL
    BY <1>1, <1>2
  <2>2. \A j \in 1..(5 - 1) : ~(buffer[j] = Sse!NL /\ buffer[j + 1] = Sse!NL)
    BY <1>1, <1>2
  <2> QED BY <2>1, <2>2, BlankIs
<1>3. Sse!Blank # 0 => Len(buffer) >= 6
  BY <1>1, BlankSome
<1> QED BY <1>2, <1>3

(* What a line of data says, whole or not. *)
LEMMA PayloadIs ==
    ASSUME NEW s \in Seq(Token), NEW x, Len(s) <= 3, \A j \in 1..Len(s) : s[j] = Sse!Data(x)[j]
    PROVE  Sse!Payloads(s) = (IF Len(s) >= 2 THEN {x} ELSE {}) /\ ~Sse!Named(s)
<1>1. /\ Len(s) >= 1 => s[1] = [half |-> 1, of |-> x]
      /\ Len(s) >= 2 => s[2] = [half |-> 2, of |-> x]
      /\ Len(s) >= 3 => s[3] = Sse!NL
  BY DataIs
<1>2. PICK J : J = {j \in 1..Len(s) - 1 : s[j].half = 1 /\ s[j + 1] = [s[j] EXCEPT !.half = 2]}
  OBVIOUS
<1>3. Sse!Payloads(s) = {s[i].of : i \in J}
  BY <1>2 DEF Sse!Payloads
<1>4. Len(s) >= 2 => J = {1}
  BY <1>1, <1>2
<1>5. Len(s) < 2 => J = {}
  BY <1>2
<1>6. ~Sse!Named(s)
  BY <1>1 DEF Sse!Named, Sse!ToSet, Sse!Event, Sse!NL
<1> QED BY <1>1, <1>3, <1>4, <1>5, <1>6

(* What the frame of citations says. *)
LEMMA NamedPayload ==
    ASSUME NEW s \in Seq(Token), Len(s) = 4, \A j \in 1..4 : s[j] = Named[j]
    PROVE  Sse!Payloads(s) = {Sse!Citations} /\ Sse!Named(s)
<1>1. /\ s[1] = Sse!Event /\ s[2] = Sse!NL
      /\ s[3] = [half |-> 1, of |-> Sse!Citations] /\ s[4] = [half |-> 2, of |-> Sse!Citations]
  BY NamedIs
<1>2. PICK J : J = {j \in 1..Len(s) - 1 : s[j].half = 1 /\ s[j + 1] = [s[j] EXCEPT !.half = 2]}
  OBVIOUS
<1>3. Sse!Payloads(s) = {s[i].of : i \in J}
  BY <1>2 DEF Sse!Payloads
<1>4. J = {3}
  BY <1>1, <1>2 DEF Sse!Event, Sse!NL
<1>5. Sse!Named(s)
  BY <1>1 DEF Sse!Named, Sse!ToSet
<1> QED BY <1>1, <1>3, <1>4, <1>5

(* The invariant says what the reader is told. *)
LEMMA WireTells == WireInv => OutcomeTruthful
<1> SUFFICES ASSUME WireInv PROVE Sse!OutcomeTruthful
  BY DEF OutcomeTruthful
<1>1. Sse!IsPrefix(told, [n \in 1..served |-> n])
  <2>1. PICK v : v = [n \in 1..served |-> n]
    OBVIOUS
  <2>2. v \in Seq(Nat) /\ Len(v) = served /\ \A i \in 1..served : v[i] = i
    BY <2>1 DEF WireInv, WireType
  <2>3. told \in Seq(Nat) /\ Len(told) <= Len(v) /\ \A i \in 1..Len(told) : told[i] = v[i]
    BY <2>2 DEF WireInv, WireType, ToldInOrder
  <2>4. SubSeq(told, 1, Len(told)) = SubSeq(v, 1, Len(told))
    BY <2>2, <2>3
  <2> QED BY <2>1, <2>3, <2>4 DEF Sse!IsPrefix
<1>2. status = "done" /\ ~cut => fault = "none" /\ Len(told) = Length /\ (cited <=> searched)
  BY DEF WireInv, Outcome
<1>3. ASSUME status = "error"
      PROVE  /\ fault # "none" /\ http # 401
             /\ "settings" \in Sse!Remedies <=> fault \in {"401", "no key"}
             /\ "top up" \in Sse!Remedies <=> fault = "402"
             /\ "countdown" \in Sse!Remedies =>
                  fault = "429" /\ wait <= (IF hints.after \in {1, 2} THEN hints.after ELSE 2)
             /\ code = "venice_rate_limited" /\ http = 429 /\ wait = 0 => hints \in [DOMAIN hints -> {0, 9}]
  <2>1. fault \in Sse!Fault /\ fault # "none"
    BY <1>3 DEF WireInv, Outcome, Sse!Fault, Sse!Statuses, Sse!Early
  <2>2. /\ "settings" \in Sse!Remedies <=> code \in {"venice_key_invalid", "venice_key_required"}
        /\ "top up" \in Sse!Remedies <=> code = "venice_insufficient_balance"
        /\ "countdown" \in Sse!Remedies <=> code = "venice_rate_limited" /\ wait > 0
    BY DEF Sse!Remedies
  <2>3. CASE code = Sse!Code(fault, TRUE) /\ http = 502 /\ wait = 0
    <3>1. /\ code \in {"venice_key_invalid", "venice_key_required"} <=> fault \in {"401", "no key"}
          /\ code = "venice_insufficient_balance" <=> fault = "402"
      BY <2>1, <2>3, CodesTell, TRUE \in BOOLEAN
    <3>2. http # 401 /\ http # 429 /\ ~(wait > 0)
      BY <2>3
    <3> QED BY <2>1, <2>2, <3>1, <3>2
  <2>4. CASE /\ code = Sse!Code(fault, FALSE) /\ http = Sse!HttpStatus(fault) /\ hints \in Sse!Hints
             /\ wait = IF fault = "429" THEN Sse!RetryAfter(hints) ELSE 0
    <3>1. /\ code \in {"venice_key_invalid", "venice_key_required"} <=> fault \in {"401", "no key"}
          /\ code = "venice_insufficient_balance" <=> fault = "402"
          /\ code = "venice_rate_limited" <=> fault = "429"
      BY <2>1, <2>4, CodesTell, FALSE \in BOOLEAN
    <3>0. http # 401 /\ (http = 429 => fault = "429")
      BY <2>1, <2>4, StatusTells
    <3>2. fault = "429" => /\ wait <= (IF hints.after \in {1, 2} THEN hints.after ELSE 2)
                           /\ wait = 0 => hints \in [DOMAIN hints -> {0, 9}]
      BY <2>4, WaitTells
    <3> QED BY <2>1, <2>2, <3>0, <3>1, <3>2
  <2> QED BY <1>3, <2>3, <2>4 DEF WireInv, Outcome
<1> QED BY <1>1, <1>2, <1>3 DEF Sse!OutcomeTruthful

(* What reading, writing, cutting and parsing do to what is on its way. *)
LEMMA StreamIs ==
    ASSUME WireType
    PROVE  /\ Stream \in Seq(Token) /\ Len(Stream) = Len(buffer) + Len(wire)
           /\ \A i \in 1..Len(Stream) :
                Stream[i] = IF i <= Len(buffer) THEN buffer[i] ELSE wire[i - Len(buffer)]
<1>1. buffer \in Seq(Token) /\ wire \in Seq(Token)
  BY DEF WireType
<1>2. Stream \in Seq(Token) /\ Len(Stream) = Len(buffer) + Len(wire)
  BY <1>1, ConcatProperties DEF Stream
<1>3. \A i \in 1..Len(buffer) + Len(wire) :
        Stream[i] = IF i <= Len(buffer) THEN buffer[i] ELSE wire[i - Len(buffer)]
  BY <1>1, ConcatProperties DEF Stream
<1> QED BY <1>2, <1>3

(* Writing adds to its end. *)
LEMMA StreamGrows ==
    ASSUME WireType, NEW fs \in Seq(Token), wire' = wire \o fs, buffer' = buffer
    PROVE  /\ wire' \in Seq(Token) /\ Len(Stream') = Len(Stream) + Len(fs)
           /\ \A i \in 1..Len(Stream) : Stream'[i] = Stream[i]
           /\ \A j \in 1..Len(fs) : Stream'[Len(Stream) + j] = fs[j]
<1>1. buffer \in Seq(Token) /\ wire \in Seq(Token)
  BY DEF WireType
<1>2. PICK v : v = Stream
  OBVIOUS
<1>3. v \in Seq(Token)
  BY <1>2, StreamIs
<1>4. Stream' = v \o fs
  BY <1>1, <1>2, ConcatAssociative DEF Stream
<1>5. /\ Len(Stream') = Len(v) + Len(fs)
      /\ \A i \in 1..Len(v) + Len(fs) : Stream'[i] = IF i <= Len(v) THEN v[i] ELSE fs[i - Len(v)]
  BY <1>3, <1>4, ConcatProperties
<1>6. wire' \in Seq(Token)
  BY <1>1, ConcatProperties
<1>7. \A i \in 1..Len(v) : Stream'[i] = v[i]
  BY <1>3, <1>5
<1>8. \A j \in 1..Len(fs) : Stream'[Len(v) + j] = fs[j]
  BY <1>3, <1>5
<1> QED BY <1>2, <1>5, <1>6, <1>7, <1>8

(* Reading changes nothing of it. *)
LEMMA StreamMoves ==
    ASSUME WireType, NEW k \in 1..Len(wire), buffer' = Sse!Joined(SubSeq(wire, 1, k)),
           wire' = SubSeq(wire, k + 1, Len(wire))
    PROVE  buffer' \in Seq(Token) /\ wire' \in Seq(Token) /\ Stream' = Stream
<1>1. buffer \in Seq(Token) /\ wire \in Seq(Token)
  BY DEF WireType
<1>2. PICK r : r = SubSeq(wire, 1, k)
  OBVIOUS
<1>3. PICK q : q = SubSeq(wire, k + 1, Len(wire))
  OBVIOUS
<1>4. /\ r \in Seq(Token) /\ Len(r) = k /\ \A i \in 1..k : r[i] = wire[i]
      /\ q \in Seq(Token) /\ Len(q) = Len(wire) - k
      /\ \A i \in 1..Len(wire) - k : q[i] = wire[k + i]
  BY <1>1, <1>2, <1>3
<1>5. r \o q = wire
  <2>1. PICK v : v = r \o q
    OBVIOUS
  <2>2. v \in Seq(Token) /\ Len(v) = Len(r) + Len(q)
    BY <1>4, <2>1, ConcatProperties
  <2>3. \A i \in 1..Len(r) + Len(q) : v[i] = IF i <= Len(r) THEN r[i] ELSE q[i - Len(r)]
    BY <1>4, <2>1, ConcatProperties
  <2>4. Len(v) = Len(wire)
    BY <1>1, <1>4, <2>2
  <2>5. ASSUME NEW i \in 1..Len(v) PROVE v[i] = wire[i]
    BY <1>1, <1>4, <2>2, <2>3, <2>5
  <2> QED BY <1>1, <2>1, <2>2, <2>4, <2>5, SeqEqual
<1>6. buffer' = buffer \o r /\ wire' = q
  BY <1>2, <1>3 DEF Sse!Joined
<1>7. buffer' \in Seq(Token)
  BY <1>1, <1>4, <1>6, ConcatProperties
<1>8. (buffer \o r) \o q = buffer \o (r \o q)
  <2>1. r \in Seq(Token) /\ q \in Seq(Token)
    BY <1>4
  <2> QED BY SMTT(30), <1>1, <2>1, ConcatAssociative
<1> QED BY <1>4, <1>5, <1>6, <1>7, <1>8 DEF Stream

(* Parsing takes its beginning. *)
LEMMA StreamParsed ==
    ASSUME WireType, NEW p \in 0..Len(buffer), buffer' = SubSeq(buffer, p + 1, Len(buffer)), wire' = wire
    PROVE  /\ buffer' \in Seq(Token) /\ Len(Stream') = Len(Stream) - p
           /\ \A i \in 1..Len(Stream') : Stream'[i] = Stream[p + i]
<1>1. buffer \in Seq(Token) /\ wire \in Seq(Token)
  BY DEF WireType
<1>2. PICK b : b = SubSeq(buffer, p + 1, Len(buffer))
  OBVIOUS
<1>3. /\ b \in Seq(Token) /\ Len(b) = Len(buffer) - p
      /\ \A i \in 1..Len(buffer) - p : b[i] = buffer[p + i]
  BY <1>1, <1>2
<1>4. Stream' = b \o wire /\ buffer' = b
  BY <1>2 DEF Stream
<1>5. Len(Stream') = Len(b) + Len(wire)
  BY <1>1, <1>3, <1>4, ConcatProperties
<1>6. \A i \in 1..Len(b) + Len(wire) : Stream'[i] = IF i <= Len(b) THEN b[i] ELSE wire[i - Len(b)]
  BY <1>1, <1>3, <1>4, ConcatProperties
<1>7. Len(Stream') = Len(Stream) - p
  BY <1>1, <1>3, <1>5, StreamIs
<1>8. ASSUME NEW i \in 1..Len(Stream') PROVE Stream'[i] = Stream[p + i]
  <2>1. Stream[p + i] = IF p + i <= Len(buffer) THEN buffer[p + i] ELSE wire[p + i - Len(buffer)]
    BY <1>1, <1>7, StreamIs
  <2> QED BY <1>1, <1>3, <1>5, <1>6, <2>1
<1> QED BY <1>3, <1>4, <1>7, <1>8

(* A cut takes an end of it. *)
LEMMA StreamCut ==
    ASSUME WireType, NEW k \in 0..Len(wire), wire' = SubSeq(wire, 1, k), buffer' = buffer
    PROVE  /\ wire' \in Seq(Token) /\ Len(Stream') <= Len(Stream)
           /\ \A i \in 1..Len(Stream') : Stream'[i] = Stream[i]
<1>1. buffer \in Seq(Token) /\ wire \in Seq(Token)
  BY DEF WireType
<1>2. PICK r : r = SubSeq(wire, 1, k)
  OBVIOUS
<1>3. r \in Seq(Token) /\ Len(r) = k /\ \A i \in 1..k : r[i] = wire[i]
  BY <1>1, <1>2
<1>4. Stream' = buffer \o r /\ wire' = r
  BY <1>2 DEF Stream
<1>5. Len(Stream') = Len(buffer) + k
  BY <1>1, <1>3, <1>4, ConcatProperties
<1>6. \A i \in 1..Len(buffer) + Len(r) : Stream'[i] = IF i <= Len(buffer) THEN buffer[i] ELSE r[i - Len(buffer)]
  BY <1>1, <1>3, <1>4, ConcatProperties
<1>7. Len(Stream') <= Len(Stream)
  BY <1>1, <1>5, StreamIs
<1>8. ASSUME NEW i \in 1..Len(Stream') PROVE Stream'[i] = Stream[i]
  <2>1. Stream[i] = IF i <= Len(buffer) THEN buffer[i] ELSE wire[i - Len(buffer)]
    BY <1>1, <1>5, <1>7, StreamIs
  <2>2. i \in 1..Len(buffer) + Len(r) /\ Len(buffer) \in Nat
    BY <1>1, <1>3, <1>5
  <2>3. Stream'[i] = IF i <= Len(buffer) THEN buffer[i] ELSE r[i - Len(buffer)]
    BY <1>6, <2>2
  <2>4. i > Len(buffer) => i - Len(buffer) \in 1..k
    BY <1>3, <2>2
  <2> QED BY <1>3, <2>1, <2>2, <2>3, <2>4
<1> QED BY <1>3, <1>4, <1>7, <1>8

(* The server's own steps: the reader is told nothing. *)
LEMMA ServerWrites ==
    ASSUME WireInv, NEW fs \in Seq(Token), Sse!Streams(fs),
           served' \in Nat, served' >= served, searched' \in BOOLEAN, ended' \in BOOLEAN,
           fault' \in Sse!Fault \cup {"none"},
           Sse!Reading => InStream'
    PROVE  WireInv'
<1>1. /\ ~ended /\ status # "sent" /\ UNCHANGED <<cut, buffer, status, told, cited, code, http, wait>>
      /\ wire' = IF cut THEN wire ELSE wire \o fs
  BY DEF Sse!Streams, Sse!Writes, Sse!Untold
<1>2. wire' \in Seq(Token)
  BY <1>1, StreamGrows DEF WireInv, WireType
<1>3. WireType' /\ ToldInOrder'
  BY <1>1, <1>2 DEF WireInv, WireType, ToldInOrder
<1>4. InStream'
  BY <1>1 DEF InStream, Sse!Reading
<1>5. Outcome'
  BY <1>1 DEF WireInv, Outcome
<1> QED BY <1>3, <1>4, <1>5 DEF WireInv

(* Frames written after the rest of what there was, or lost. *)
LEMMA WrittenBehind ==
    ASSUME WireInv, Sse!Reading, NEW fs \in Seq(Token), Sse!Streams(fs)
    PROVE  /\ Len(Stream) <= Rest /\ Len(told) <= served
           /\ cut => Stream' = Stream
           /\ ~cut => /\ Len(Stream) = Rest /\ Len(Stream') = Rest + Len(fs)
                      /\ \A i \in 1..Rest : Stream'[i] = Stream[i]
                      /\ \A j \in 1..Len(fs) : Stream'[Rest + j] = fs[j]
<1>1. /\ ~ended /\ UNCHANGED <<cut, buffer>>
      /\ wire' = IF cut THEN wire ELSE wire \o fs
  BY DEF Sse!Streams, Sse!Writes
<1>2. Len(Stream) <= Rest /\ (cut \/ Len(Stream) = Rest)
  BY <1>1 DEF WireInv, InStream, Carried
<1>3. cut => Stream' = Stream
  BY <1>1 DEF Stream
<1>4. ~cut => /\ Len(Stream') = Len(Stream) + Len(fs)
              /\ \A i \in 1..Len(Stream) : Stream'[i] = Stream[i]
              /\ \A j \in 1..Len(fs) : Stream'[Len(Stream) + j] = fs[j]
  BY <1>1, StreamGrows DEF WireInv
<1>5. Len(told) <= served
  BY DEF WireInv, ToldInOrder
<1> QED BY <1>2, <1>3, <1>4, <1>5

(* Search. *)
LEMMA SearchKeeps ==
    ASSUME WireInv, Sse!Search PROVE WireInv'
<1>1. /\ served = 0 /\ ~searched /\ searched' = TRUE /\ Sse!Streams(Named)
      /\ UNCHANGED <<served, fault, hints, ended>> /\ UNCHANGED <<cut, buffer, status, told, cited>>
  BY NamedIs DEF Sse!Search, Sse!Streams
<1>2. Named \in Seq(Token) /\ Len(Named) = 6
  BY NamedIs
<1>3. ASSUME Sse!Reading PROVE InStream'
  <2>1. ~cited /\ ~ended /\ Len(told) = 0 /\ Rest = 0 /\ Before = 0
    BY <1>1, <1>3 DEF WireInv, InStream, ToldInOrder, Rest, Before, Awaited, Sse!Streams, WireType
  <2>2. Awaited' /\ Before' = 6 /\ Rest' = 6 /\ Len(told') = 0 /\ served' = 0 /\ ~ended'
    BY <1>1, <2>1 DEF Awaited, Before, Rest
  <2>3. Len(Stream) <= 0 /\ Stream \in Seq(Token)
    BY <1>1, <1>2, <1>3, <2>1, WrittenBehind, StreamIs DEF WireInv
  <2>4. cut => Len(Stream') = 0
    BY <1>1, <1>2, <1>3, <2>3, WrittenBehind
  <2>5. ~cut => Len(Stream') = 6 /\ \A j \in 1..6 : Stream'[j] = Named[j]
    <3>1. ~cut => Len(Stream') = 0 + 6 /\ \A j \in 1..6 : Stream'[0 + j] = Named[j]
      BY <1>1, <1>2, <1>3, <2>1, WrittenBehind
    <3> QED BY <3>1
  <2>6. \A i \in 1..6 : i <= Len(Stream') => Stream'[i] = Named[i]
    <3>1. cut => \A i \in 1..6 : ~(i <= Len(Stream'))
      BY <2>4
    <3> QED BY <2>5, <3>1
  <2>7. Len(Stream') <= Rest' /\ (cut' \/ Len(Stream') = Rest')
    <3>1. (cut' <=> cut) /\ Rest' = 6
      BY <1>1, <2>2
    <3>2. cut => Len(Stream') <= 6
      BY <2>4
    <3>3. ~cut => Len(Stream') = 6
      BY <2>5
    <3>4. Len(Stream') <= 6
      BY <3>2, <3>3
    <3> QED BY <3>1, <3>3, <3>4
  <2>8. (Len(told') + 1)..served' = {}
    BY <2>2
  <2>9. Carried'
    BY <2>2, <2>6, <2>7, <2>8 DEF Carried
  <2> QED BY <1>1, <1>3, <2>2, <2>9 DEF WireInv, InStream
<1> QED BY <1>1, <1>2, <1>3, ServerWrites DEF WireInv, WireType

(* Forward. *)
LEMMA ForwardKeeps ==
    ASSUME WireInv, Sse!Forward PROVE WireInv'
<1>0. served \in Nat
  BY DEF WireInv, WireType
<1>1. PICK x : x = Piece(served + 1)
  OBVIOUS
<1>2. /\ served < Length /\ served' = served + 1 /\ Sse!Streams(Sse!Data(x))
      /\ UNCHANGED <<searched, fault, hints, ended>> /\ UNCHANGED <<cut, buffer, status, told, cited>>
      /\ ~ended
  BY <1>1 DEF Sse!Forward, Sse!Streams, Piece
<1>3. x \in Words
  <2>1. served + 1 \in Nat
    BY <1>0
  <2> QED BY <1>1, <2>1, Zenon DEF Words
<1>4. PICK fs : fs = Sse!Data(x)
  OBVIOUS
<1>5. fs \in Seq(Token) /\ Len(fs) = 4 /\ Sse!Streams(fs)
  BY <1>2, <1>3, <1>4, DataIs
<1>6. ASSUME Sse!Reading PROVE InStream'
  <2>1. UNCHANGED <<Awaited, Before>> /\ Rest' = Rest + 4 /\ Rest = Before + 4 * (served - Len(told))
    BY <1>0, <1>2 DEF Awaited, Before, Rest, WireInv, WireType
  <2>2. /\ Before \in Nat /\ Len(told) \in Nat /\ Len(told) <= served /\ Rest \in Nat
        /\ Stream \in Seq(Token)
    BY <1>0, <2>1, StreamIs DEF WireInv, WireType, Before, ToldInOrder
  <2>3. /\ Len(Stream) <= Rest /\ (cut => Stream' = Stream)
        /\ ~cut => /\ Len(Stream) = Rest /\ Len(Stream') = Rest + 4
                   /\ \A i \in 1..Rest : Stream'[i] = Stream[i]
                   /\ \A j \in 1..4 : Stream'[Rest + j] = fs[j]
    BY <1>5, <1>6, WrittenBehind
  <2>4. Carried
    BY <1>6 DEF WireInv, InStream
  <2>5. \A i \in 1..Rest : i <= Len(Stream') => i <= Len(Stream) /\ Stream'[i] = Stream[i]
    BY <2>2, <2>3
  <2>6. ASSUME Awaited', NEW i \in 1..6, i <= Len(Stream') PROVE Stream'[i] = Named[i]
    <3>1. Awaited /\ Before = 6
      BY <2>1, <2>6 DEF Before
    <3>2. i \in 1..Rest
      BY <1>0, <2>1, <2>2, <3>1
    <3> QED BY <2>4, <2>5, <2>6, <3>1, <3>2 DEF Carried
  <2>7. ASSUME NEW n \in (Len(told) + 1)..(served + 1), NEW j \in 1..4,
               Before + 4 * (n - Len(told) - 1) + j <= Len(Stream')
        PROVE  Stream'[Before + 4 * (n - Len(told) - 1) + j] = Sse!Data(Piece(n))[j]
    <3>1. CASE n <= served
      <4>1. Before + 4 * (n - Len(told) - 1) + j \in 1..Rest
        BY <1>0, <2>1, <2>2, <3>1
      <4>2. n \in (Len(told) + 1)..served
        BY <1>0, <2>2, <3>1
      <4> QED BY <2>4, <2>5, <2>7, <4>1, <4>2 DEF Carried
    <3>2. CASE n = served + 1
      <4>1. Before + 4 * (n - Len(told) - 1) + j = Rest + j
        BY <1>0, <2>1, <2>2, <3>2
      <4>2. ~cut
        BY <2>2, <2>3, <2>7, <4>1
      <4> QED BY <1>1, <1>4, <2>3, <3>2, <4>1, <4>2
    <3> QED BY <1>0, <2>2, <3>1, <3>2
  <2>8. Len(Stream') <= Rest' /\ (cut' \/ Len(Stream') = Rest')
    BY <1>2, <2>1, <2>2, <2>3
  <2>9. Carried'
    <3>1. Len(told') = Len(told) /\ served' = served + 1 /\ Before' = Before /\ ~ended'
      BY <1>2, <2>1
    <3> QED BY <2>6, <2>7, <2>8, <3>1 DEF Carried
  <2> QED BY <1>2, <1>6, <2>1, <2>9 DEF WireInv, InStream
<1> QED BY <1>0, <1>2, <1>5, <1>6, ServerWrites DEF WireInv, WireType

(* The stream closes: with its end, or with an error and its end. *)
LEMMA ClosingKeeps ==
    ASSUME WireInv, NEW fs \in Seq(Token), Sse!Streams(fs), NEW c \in Words, Len(fs) >= 4,
           \A j \in 1..4 : fs[j] = Sse!Data(c)[j], c = Closing', ended' = TRUE,
           fault' \in (Sse!Fault \ Sse!Early) \cup {"none"},
           fault' = "none" => served = Length,
           UNCHANGED <<served, searched>>
    PROVE  WireInv'
<1>1. /\ UNCHANGED <<cut, buffer, status, told, cited>> /\ ~ended
  BY DEF Sse!Streams
<1>2. ASSUME Sse!Reading PROVE InStream'
  <2>1. /\ UNCHANGED <<Awaited, Before, Rest, served>> /\ Len(told') = Len(told)
        /\ Rest = Before + 4 * (served - Len(told))
    BY <1>1 DEF Awaited, Before, Rest
  <2>2. /\ served \in Nat /\ Before \in Nat /\ Len(told) \in Nat /\ Len(told) <= served /\ Rest \in Nat
        /\ Stream \in Seq(Token)
    <3>1. served \in Nat /\ Before \in Nat /\ Len(told) \in Nat /\ Len(told) <= served
      BY DEF WireInv, WireType, Before, ToldInOrder
    <3>2. Rest \in Nat
      BY <3>1 DEF Rest
    <3> QED BY <3>1, <3>2, StreamIs DEF WireInv
  <2>3. /\ Len(Stream) <= Rest /\ (cut => Stream' = Stream)
        /\ ~cut => /\ Len(Stream) = Rest /\ Len(Stream') = Rest + Len(fs)
                   /\ \A i \in 1..Rest : Stream'[i] = Stream[i]
                   /\ \A j \in 1..Len(fs) : Stream'[Rest + j] = fs[j]
    BY <1>2, WrittenBehind
  <2>4. Carried
    BY <1>2 DEF WireInv, InStream
  <2>5. ASSUME NEW i \in 1..Rest, i <= Len(Stream') PROVE i <= Len(Stream) /\ Stream'[i] = Stream[i]
    BY <2>2, <2>3, <2>5
  <2>6. ASSUME Awaited', NEW i \in 1..6, i <= Len(Stream') PROVE Stream'[i] = Named[i]
    <3>1. Awaited /\ Before = 6
      BY <2>1, <2>6 DEF Before
    <3>2. i \in 1..Rest
      BY <2>1, <2>2, <3>1
    <3> QED BY <2>4, <2>5, <2>6, <3>1, <3>2 DEF Carried
  <2>7. ASSUME NEW n \in (Len(told) + 1)..served, NEW j \in 1..4,
               Before + 4 * (n - Len(told) - 1) + j <= Len(Stream')
        PROVE  Stream'[Before + 4 * (n - Len(told) - 1) + j] = Sse!Data(Piece(n))[j]
    <3>1. Before + 4 * (n - Len(told) - 1) + j \in 1..Rest
      BY <2>1, <2>2
    <3> QED BY <2>4, <2>5, <2>7, <3>1 DEF Carried
  <2>8. ASSUME NEW j \in 1..4, Rest + j <= Len(Stream') PROVE Stream'[Rest + j] = Sse!Data(c)[j]
    <3>1. ~cut
      BY <2>2, <2>3, <2>8
    <3> QED BY <2>3, <3>1
  <2>9. Carried'
    BY <2>1, <2>6, <2>7, <2>8 DEF Carried
  <2> QED BY <1>1, <1>2, <2>1, <2>9 DEF WireInv, InStream
<1> QED BY <1>2, ServerWrites DEF WireInv, WireType

(* Finish. *)
LEMMA StreamClosesKeeps ==
    ASSUME WireInv, Sse!Finish PROVE WireInv'
<1>1. /\ served = Length /\ ended' = TRUE /\ UNCHANGED <<served, searched, fault>> /\ ~ended
      /\ Sse!Streams(Sse!Data(Sse!Done)) /\ status # "sent"
  BY DEF Sse!Finish, Sse!Streams
<1>2. PICK fs : fs = Sse!Data(Sse!Done)
  OBVIOUS
<1>3. PICK c : c = Sse!Done
  OBVIOUS
<1>4. c \in Words
  BY <1>3 DEF Words
<1>5. fs \in Seq(Token) /\ Len(fs) = 4 /\ Sse!Streams(fs) /\ \A j \in 1..4 : fs[j] = Sse!Data(c)[j]
  BY <1>1, <1>2, <1>3, <1>4, DataIs
<1>6. CASE Sse!Reading
  <2>1. fault = "none" /\ fault' = "none"
    BY <1>1, <1>6 DEF WireInv, InStream
  <2>2. c = Closing'
    BY <1>3, <2>1 DEF Closing
  <2> QED BY <1>1, <1>4, <1>5, <2>1, <2>2, ClosingKeeps
<1>7. CASE ~Sse!Reading
  BY <1>1, <1>5, <1>7, ServerWrites DEF WireInv, WireType
<1> QED BY <1>6, <1>7

(* Break. *)
LEMMA BreakKeeps ==
    ASSUME WireInv, NEW f \in Sse!Fault \ Sse!Early, Sse!Break(f) PROVE WireInv'
<1>1. PICK c : c = Sse!Error(Sse!Code(f, TRUE))
  OBVIOUS
<1>2. /\ ended' = TRUE /\ fault' = f /\ UNCHANGED <<served, searched>>
      /\ Sse!Streams(Sse!Data(c) \o Sse!Data(Sse!Done))
  BY <1>1 DEF Sse!Break
<1>3. c \in Words /\ Sse!Done \in Words
  BY <1>1 DEF Words
<1>4. PICK fs : fs = Sse!Data(c) \o Sse!Data(Sse!Done)
  OBVIOUS
<1>5. /\ Sse!Data(c) \in Seq(Token) /\ Len(Sse!Data(c)) = 4
      /\ Sse!Data(Sse!Done) \in Seq(Token) /\ Len(Sse!Data(Sse!Done)) = 4
  BY <1>3, DataIs
<1>6. fs \in Seq(Token) /\ Len(fs) = 4 + 4 /\ \A j \in 1..4 : fs[j] = Sse!Data(c)[j]
  <2>1. PICK a, b : a = Sse!Data(c) /\ b = Sse!Data(Sse!Done)
    OBVIOUS
  <2>2. a \in Seq(Token) /\ b \in Seq(Token) /\ Len(a) = 4 /\ Len(b) = 4 /\ fs = a \o b
    BY <1>4, <1>5, <2>1
  <2>3. /\ fs \in Seq(Token) /\ Len(fs) = Len(a) + Len(b)
        /\ \A j \in 1..Len(a) + Len(b) : fs[j] = IF j <= Len(a) THEN a[j] ELSE b[j - Len(a)]
    BY <2>2, ConcatProperties
  <2>4. \A j \in 1..4 : fs[j] = a[j]
    BY <2>2, <2>3
  <2> QED BY <2>1, <2>2, <2>3, <2>4
<1>8. f # "none"
  BY DEF Sse!Fault, Sse!Statuses, Sse!Early
<1>9. c = Closing'
  BY <1>1, <1>2, <1>8 DEF Closing
<1>10. fault' \in (Sse!Fault \ Sse!Early) \cup {"none"} /\ fault' # "none"
  BY <1>2, <1>8
<1>11. Sse!Streams(fs) /\ Len(fs) >= 4
  BY <1>2, <1>4, <1>6
<1> QED BY <1>2, <1>3, <1>6, <1>9, <1>10, <1>11, ClosingKeeps

(* An end of it lost, or nothing of it. *)
LEMMA LessCarried ==
    ASSUME WireInv, Carried, UNCHANGED <<served, searched, fault, ended, told, cited>>,
           Len(Stream') \in Nat, Len(Stream') <= Len(Stream),
           \A i \in 1..Len(Stream') : Stream'[i] = Stream[i],
           cut' \/ (~cut /\ Len(Stream') = Len(Stream))
    PROVE  Carried'
<1>1. /\ served \in Nat /\ Before \in Nat /\ Len(told) \in Nat /\ Len(told) <= served
      /\ Stream \in Seq(Token)
  BY StreamIs DEF WireInv, WireType, Before, ToldInOrder
<1>2. Rest \in Nat
  BY <1>1 DEF Rest
<1>3. Awaited' = Awaited /\ Before' = Before /\ Rest' = Rest /\ Closing' = Closing
  BY DEF Awaited, Before, Rest, Closing
<1>4. \A i \in Nat \ {0} : i <= Len(Stream') => i <= Len(Stream) /\ Stream'[i] = Stream[i]
  BY <1>1
<1>5. Awaited => \A i \in 1..6 : i <= Len(Stream') => Stream'[i] = Named[i]
  BY <1>4 DEF Carried
<1>6. ASSUME NEW n \in (Len(told) + 1)..served, NEW j \in 1..4,
             Before + 4 * (n - Len(told) - 1) + j <= Len(Stream')
      PROVE  Stream'[Before + 4 * (n - Len(told) - 1) + j] = Sse!Data(Piece(n))[j]
  <2>1. Before + 4 * (n - Len(told) - 1) + j \in Nat \ {0}
    BY <1>1
  <2> QED BY <1>4, <1>6, <2>1 DEF Carried
<1>7. ASSUME ended, NEW j \in 1..4, Rest + j <= Len(Stream') PROVE Stream'[Rest + j] = Sse!Data(Closing)[j]
  <2>1. Rest + j \in Nat \ {0}
    BY <1>2
  <2> QED BY <1>4, <1>7, <2>1 DEF Carried
<1>8. ~ended => Len(Stream') <= Rest /\ (cut' \/ Len(Stream') = Rest)
  BY <1>1, <1>2 DEF Carried
<1> QED BY <1>3, <1>5, <1>6, <1>7, <1>8 DEF Carried

(* Read. *)
LEMMA ReadKeeps ==
    ASSUME WireInv, NEW k \in 1..Len(wire), Sse!Read(k) PROVE WireInv'
<1>1. /\ UNCHANGED <<served, searched, fault, hints, ended, cut, status, told, cited, code, http, wait>>
      /\ status \in {"thinking", "streaming"}
      /\ buffer' = Sse!Joined(SubSeq(wire, 1, k)) /\ wire' = SubSeq(wire, k + 1, Len(wire))
  BY DEF Sse!Read, Sse!Untold, Sse!Reading
<1>2. buffer' \in Seq(Token) /\ wire' \in Seq(Token) /\ Stream' = Stream
  BY <1>1, StreamMoves DEF WireInv
<1>3. WireType' /\ ToldInOrder'
  BY <1>1, <1>2 DEF WireInv, WireType, ToldInOrder
<1>4. Carried /\ Sse!Reading
  BY <1>1 DEF WireInv, InStream, Sse!Reading
<1>5. Carried'
  <2>1. Stream \in Seq(Token) /\ cut \in BOOLEAN
    BY StreamIs DEF WireInv, WireType
  <2> QED BY <1>1, <1>2, <1>4, <2>1, LessCarried
<1>6. InStream'
  BY <1>1, <1>4, <1>5 DEF WireInv, InStream, Awaited
<1>7. Outcome'
  BY <1>1 DEF WireInv, Outcome
<1> QED BY <1>3, <1>6, <1>7 DEF WireInv

(* Cut. *)
LEMMA CutKeeps ==
    ASSUME WireInv, Sse!Cut PROVE WireInv'
<1>1. PICK k \in 0..Len(wire) : wire' = SubSeq(wire, 1, k)
  BY DEF Sse!Cut
<1>2. /\ UNCHANGED <<served, searched, fault, hints, ended, buffer, status, told, cited, code, http, wait>>
      /\ status \in {"thinking", "streaming"} /\ cut' = TRUE
  BY DEF Sse!Cut, Sse!Untold, Sse!Reading
<1>3. /\ wire' \in Seq(Token) /\ Len(Stream') <= Len(Stream)
      /\ \A i \in 1..Len(Stream') : Stream'[i] = Stream[i]
  BY <1>1, <1>2, StreamCut DEF WireInv
<1>4. WireType' /\ ToldInOrder'
  BY <1>2, <1>3 DEF WireInv, WireType, ToldInOrder
<1>5. Carried /\ Sse!Reading
  BY <1>2 DEF WireInv, InStream, Sse!Reading
<1>6. Carried'
  <2>1. Len(Stream') \in Nat
    BY <1>4, StreamIs
  <2> QED BY <1>2, <1>3, <1>5, <2>1, LessCarried
<1>7. InStream'
  BY <1>2, <1>5, <1>6 DEF WireInv, InStream, Awaited
<1>8. Outcome'
  BY <1>2 DEF WireInv, Outcome
<1> QED BY <1>4, <1>7, <1>8 DEF WireInv

(* What is left once the first frame has been told. *)
LEMMA ParsedCarried ==
    ASSUME WireInv, Carried, NEW p \in 0..Len(buffer), buffer' = SubSeq(buffer, p + 1, Len(buffer)),
           UNCHANGED <<served, searched, fault, ended, wire, cut>>, ~Awaited',
           Len(told') \in Nat, Len(told') >= Len(told), Len(told') <= served,
           p = Before + 4 * (Len(told') - Len(told))
    PROVE  Carried'
<1>1. /\ served \in Nat /\ Before \in Nat /\ Len(told) \in Nat /\ Len(told) <= served
      /\ Stream \in Seq(Token) /\ p \in Nat /\ p <= Len(buffer) /\ Len(buffer) \in Nat
  BY StreamIs DEF WireInv, WireType, Before, ToldInOrder
<1>2. /\ Len(Stream') = Len(Stream) - p
      /\ \A i \in 1..Len(Stream') : Stream'[i] = Stream[p + i]
  BY StreamParsed DEF WireInv
<1>3. Before' = 0 /\ Rest' = 4 * (served - Len(told')) /\ Closing' = Closing
  <2>1. Before' = 0
    BY DEF Before
  <2>2. Rest' = Before' + 4 * (served - Len(told'))
    BY DEF Rest
  <2>3. Rest' = 4 * (served - Len(told'))
    BY <1>1, <2>1, <2>2
  <2> QED BY <2>1, <2>3 DEF Closing
<1>4. Rest = Before + 4 * (served - Len(told))
  BY DEF Rest
<1>5. Rest = p + Rest' /\ Rest' \in Nat
  BY <1>1, <1>3, <1>4
<1>6. \A i \in Nat \ {0} : i <= Len(Stream') => p + i <= Len(Stream) /\ Stream'[i] = Stream[p + i]
  BY <1>1, <1>2
<1>7. ASSUME NEW n \in (Len(told') + 1)..served, NEW j \in 1..4,
             0 + 4 * (n - Len(told') - 1) + j <= Len(Stream')
      PROVE  Stream'[0 + 4 * (n - Len(told') - 1) + j] = Sse!Data(Piece(n))[j]
  <2>1. PICK i : i = 0 + 4 * (n - Len(told') - 1) + j
    OBVIOUS
  <2>2. i \in Nat \ {0} /\ p + i = Before + 4 * (n - Len(told) - 1) + j
    BY <1>1, <2>1
  <2>3. p + i <= Len(Stream) /\ Stream'[i] = Stream[p + i]
    BY <1>6, <1>7, <2>1, <2>2
  <2>4. n \in (Len(told) + 1)..served
    BY <1>1
  <2>5. Stream[p + i] = Sse!Data(Piece(n))[j]
    BY <2>2, <2>3, <2>4 DEF Carried
  <2> QED BY <2>1, <2>3, <2>5
<1>8. ASSUME ended, NEW j \in 1..4, Rest' + j <= Len(Stream') PROVE Stream'[Rest' + j] = Sse!Data(Closing)[j]
  <2>1. Rest' + j \in Nat \ {0} /\ p + (Rest' + j) = Rest + j
    <3>1. PICK a, b : a = Rest /\ b = Rest'
      OBVIOUS
    <3>2. a = p + b /\ b \in Nat
      BY <1>5, <3>1
    <3>3. b + j \in Nat \ {0} /\ p + (b + j) = a + j
      BY <1>1, <3>2
    <3> QED BY <3>1, <3>3
  <2>2. Rest + j <= Len(Stream) /\ Stream'[Rest' + j] = Stream[Rest + j]
    BY <1>6, <1>8, <2>1
  <2> QED BY <1>8, <2>2 DEF Carried
<1>9. ~ended => Len(Stream') <= Rest' /\ (cut' \/ Len(Stream') = Rest')
  <2>1. ASSUME ~ended PROVE Len(Stream) <= Rest /\ (cut \/ Len(Stream) = Rest)
    BY <2>1 DEF Carried
  <2>2. cut' = cut
    OBVIOUS
  <2> QED BY <1>1, <1>2, <1>5, <2>1, <2>2
<1> QED BY <1>3, <1>7, <1>8, <1>9 DEF Carried

(* What the buffer begins with. *)
LEMMA BufferBegins ==
    ASSUME WireInv, Sse!Reading
    PROVE  /\ Awaited => /\ Sse!Blank # 0 => Sse!Blank = 5 /\ Len(buffer) >= 6
                         /\ Sse!Blank = 0 => Len(buffer) <= 5
                         /\ \A j \in 1..6 : j <= Len(buffer) => buffer[j] = Named[j]
           /\ ~Awaited =>
                \E x \in Words :
                  /\ \/ Len(told) < served /\ x = Piece(Len(told) + 1)
                     \/ Len(told) = served /\ ended /\ x = Closing
                     \/ buffer = <<>>
                  /\ Sse!Blank # 0 => Sse!Blank = 3 /\ Len(buffer) >= 4
                  /\ Sse!Blank = 0 => Len(buffer) <= 3
                  /\ \A j \in 1..4 : j <= Len(buffer) => buffer[j] = Sse!Data(x)[j]
<1>1. /\ served \in Nat /\ Len(told) \in Nat /\ Len(told) <= served /\ buffer \in Seq(Token)
      /\ Stream \in Seq(Token) /\ fault \in Sse!Fault \cup {"none"} /\ Carried
  BY StreamIs DEF WireInv, WireType, ToldInOrder, InStream
<1>2. Len(buffer) <= Len(Stream) /\ \A j \in 1..Len(buffer) : buffer[j] = Stream[j]
  <2>1. wire \in Seq(Token)
    BY DEF WireInv, WireType
  <2> QED BY <1>1, <2>1, StreamIs DEF WireInv
<1>3. ASSUME Awaited
      PROVE  /\ Sse!Blank # 0 => Sse!Blank = 5 /\ Len(buffer) >= 6
             /\ Sse!Blank = 0 => Len(buffer) <= 5
             /\ \A j \in 1..6 : j <= Len(buffer) => buffer[j] = Named[j]
  <2>1. \A j \in 1..6 : j <= Len(buffer) => buffer[j] = Named[j]
    BY <1>1, <1>2, <1>3 DEF Carried
  <2> QED BY <1>1, <2>1, FirstNamed
<1>4. ASSUME ~Awaited, NEW x \in Words, \A j \in 1..4 : j <= Len(Stream) => Stream[j] = Sse!Data(x)[j]
      PROVE  /\ Sse!Blank # 0 => Sse!Blank = 3 /\ Len(buffer) >= 4
             /\ Sse!Blank = 0 => Len(buffer) <= 3
             /\ \A j \in 1..4 : j <= Len(buffer) => buffer[j] = Sse!Data(x)[j]
  <2>1. \A j \in 1..4 : j <= Len(buffer) => buffer[j] = Sse!Data(x)[j]
    BY <1>1, <1>2, <1>4
  <2> QED BY <1>1, <2>1, FirstFrame
<1>5. CASE ~Awaited /\ Len(told) < served
  <2>1. PICK n : n = Len(told) + 1
    OBVIOUS
  <2>0. n \in Nat /\ n \in (Len(told) + 1)..served
    BY <1>1, <1>5, <2>1
  <2>2. Piece(n) \in Words
    BY <2>0, Zenon DEF Words
  <2>3. ASSUME NEW j \in 1..4, j <= Len(Stream) PROVE Stream[j] = Sse!Data(Piece(n))[j]
    <3>1. Before + 4 * (n - Len(told) - 1) + j = j
      BY <1>1, <1>5, <2>1 DEF Before
    <3> QED BY <1>1, <2>0, <2>3, <3>1 DEF Carried
  <2> QED BY <1>4, <1>5, <2>1, <2>2, <2>3
<1>6. CASE ~Awaited /\ Len(told) = served /\ ended
  <2>1. Closing \in Words
    BY <1>1 DEF Closing, Words
  <2>2. Rest = 0
    BY <1>1, <1>6 DEF Rest, Before
  <2>3. ASSUME NEW j \in 1..4, j <= Len(Stream) PROVE Stream[j] = Sse!Data(Closing)[j]
    <3>1. Rest + j = j
      BY <2>2
    <3> QED BY <1>1, <1>6, <2>3, <3>1 DEF Carried
  <2> QED BY <1>4, <1>6, <2>1, <2>3
<1>7. CASE ~Awaited /\ Len(told) = served /\ ~ended
  <2>1. Rest = 0
    BY <1>1, <1>7 DEF Rest, Before
  <2>2. Len(Stream) <= 0
    BY <1>1, <1>7, <2>1 DEF Carried
  <2>3. buffer = <<>> /\ Len(buffer) = 0 /\ Len(Stream) = 0
    BY <1>1, <1>2, <2>2
  <2>4. Sse!Done \in Words
    BY DEF Words
  <2>5. \A j \in 1..4 : j <= Len(Stream) => Stream[j] = Sse!Data(Sse!Done)[j]
    BY <2>3
  <2> QED BY <1>4, <1>7, <2>3, <2>4, <2>5
<1> QED BY <1>1, <1>3, <1>5, <1>6, <1>7

(* A frame is told: the citations, a piece, or the close. *)
LEMMA ParseKeeps ==
    ASSUME WireInv, Sse!Parse PROVE WireInv'
<1>0. /\ WireType /\ ToldInOrder /\ Sse!Reading /\ Carried /\ Sse!Blank # 0
      /\ served \in Nat /\ Len(told) \in Nat /\ Len(told) <= served /\ told \in Seq(Nat)
      /\ buffer \in Seq(Token) /\ fault \in Sse!Fault \cup {"none"} /\ cut \in BOOLEAN
  BY DEF WireInv, WireType, ToldInOrder, InStream, Sse!Parse
<1>1. /\ buffer' = SubSeq(buffer, Sse!Blank + 2, Len(buffer))
      /\ UNCHANGED <<served, searched, fault, hints, ended, wire, cut>>
  BY DEF Sse!Parse
<1>2. PICK s : s = SubSeq(buffer, 1, Sse!Blank - 1)
  OBVIOUS
<1>3. Sse!Says(s, Sse!Named(s))
  BY <1>2 DEF Sse!Parse
<1>4. CASE Awaited
  <2>1. /\ Sse!Blank = 5 /\ Len(buffer) >= 6
        /\ \A j \in 1..6 : j <= Len(buffer) => buffer[j] = Named[j]
    BY <1>0, <1>4, BufferBegins
  <2>2. s \in Seq(Token) /\ Len(s) = 4 /\ \A j \in 1..4 : s[j] = Named[j]
    BY <1>0, <1>2, <2>1
  <2>3. Sse!Payloads(s) = {Sse!Citations} /\ Sse!Named(s)
    BY <2>2, NamedPayload
  <2>4. Sse!Dispatch(Sse!Citations, TRUE)
    BY <1>3, <2>3 DEF Sse!Says
  <2>5. cited' = TRUE /\ UNCHANGED <<status, told, code, http, wait>>
    BY <2>4 DEF Sse!Dispatch, Sse!Citations, Sse!Untold
  <2>6. searched /\ Len(told) = 0 /\ Before = 6
    BY <1>0, <1>4 DEF WireInv, InStream, Awaited, Before
  <2>7. buffer' = SubSeq(buffer, 6 + 1, Len(buffer)) /\ 6 \in 0..Len(buffer)
    BY <1>0, <1>1, <2>1
  <2>8. ~Awaited' /\ Len(told') = 0
    BY <2>5, <2>6 DEF Awaited
  <2>9. Carried'
    <3>1. /\ Len(told') \in Nat /\ Len(told') >= Len(told) /\ Len(told') <= served
          /\ 6 = Before + 4 * (Len(told') - Len(told))
      BY <1>0, <2>6, <2>8
    <3> QED BY <1>0, <1>1, <2>7, <2>8, <3>1, ParsedCarried
  <2>10. buffer' \in Seq(Token)
    BY <1>0, <2>7
  <2>11. WireType' /\ ToldInOrder'
    BY <1>1, <2>5, <2>10 DEF WireInv, WireType, ToldInOrder
  <2>12. InStream'
    BY <1>0, <1>1, <2>5, <2>6, <2>8, <2>9 DEF WireInv, InStream
  <2>13. Outcome'
    BY <1>0, <1>1, <2>5 DEF WireInv, Outcome, Sse!Reading
  <2> QED BY <2>11, <2>12, <2>13 DEF WireInv
<1>5. CASE ~Awaited
  <2>1. PICK x \in Words :
          /\ \/ Len(told) < served /\ x = Piece(Len(told) + 1)
             \/ Len(told) = served /\ ended /\ x = Closing
             \/ buffer = <<>>
          /\ Sse!Blank # 0 => Sse!Blank = 3 /\ Len(buffer) >= 4
          /\ \A j \in 1..4 : j <= Len(buffer) => buffer[j] = Sse!Data(x)[j]
    BY <1>0, <1>5, BufferBegins
  <2>2. Sse!Blank = 3 /\ Len(buffer) >= 4
    BY <1>0, <2>1
  <2>3. s \in Seq(Token) /\ Len(s) = 2 /\ \A j \in 1..Len(s) : s[j] = Sse!Data(x)[j]
    BY <1>0, <1>2, <2>1, <2>2
  <2>4. Sse!Payloads(s) = {x} /\ ~Sse!Named(s)
    <3>1. Len(s) <= 3 /\ Len(s) >= 2
      BY <2>3
    <3>2. Sse!Payloads(s) = (IF Len(s) >= 2 THEN {x} ELSE {}) /\ ~Sse!Named(s)
      BY <2>3, <3>1, PayloadIs
    <3> QED BY <3>1, <3>2
  <2>5. Sse!Dispatch(x, FALSE)
    <3>1. Sse!Named(s) = FALSE
      BY <2>4 DEF Sse!Named
    <3> QED BY <1>3, <2>4, <3>1 DEF Sse!Says
  <2>6. buffer' = SubSeq(buffer, 4 + 1, Len(buffer)) /\ 4 \in 0..Len(buffer) /\ buffer' \in Seq(Token)
    BY <1>0, <1>1, <2>2
  <2>7. Before = 0 /\ (cited => searched) /\ (searched => cited)
    BY <1>0, <1>5 DEF Before, Awaited, WireInv, InStream, WireType
  <2>8. CASE Len(told) < served /\ x = Piece(Len(told) + 1)
    <3>1. x.is = "text" /\ x.n = Len(told) + 1
      BY <2>8 DEF Piece
    <3>2. status' = "streaming" /\ told' = Append(told, x.n) /\ UNCHANGED <<cited, code, http, wait>>
      BY <2>5, <3>1 DEF Sse!Dispatch, Sse!Untold
    <3>3. /\ told' \in Seq(Nat) /\ Len(told') = Len(told) + 1
          /\ \A i \in 1..Len(told) : told'[i] = told[i]
          /\ told'[Len(told) + 1] = Len(told) + 1
      BY <1>0, <3>1, <3>2
    <3>4. ~Awaited'
      BY <1>1, <1>5, <3>2 DEF Awaited
    <3>5. Carried'
      <4>1. /\ Len(told') \in Nat /\ Len(told') >= Len(told) /\ Len(told') <= served
            /\ 4 = Before + 4 * (Len(told') - Len(told))
        BY <1>0, <2>7, <2>8, <3>3
      <4> QED BY <1>0, <1>1, <2>6, <3>4, <4>1, ParsedCarried
    <3>6. ToldInOrder'
      <4>1. Len(told') <= served'
        BY <1>0, <1>1, <2>8, <3>3
      <4>2. ASSUME NEW i \in 1..Len(told') PROVE told'[i] = i
        <5>1. CASE i \in 1..Len(told)
          BY <1>0, <3>3, <5>1 DEF ToldInOrder
        <5>2. CASE i = Len(told) + 1
          BY <3>3, <5>2
        <5> QED BY <1>0, <3>3, <5>1, <5>2
      <4> QED BY <4>1, <4>2 DEF ToldInOrder
    <3>7. WireType'
      BY <1>1, <2>6, <3>2, <3>3 DEF WireInv, WireType, Sse!Status
    <3>8. InStream'
      BY <1>0, <1>1, <2>7, <3>2, <3>4, <3>5 DEF WireInv, InStream
    <3>9. Outcome'
      BY <3>2 DEF Outcome
    <3> QED BY <3>6, <3>7, <3>8, <3>9 DEF WireInv
  <2>9. CASE Len(told) = served /\ ended /\ x = Closing
    <3>1. /\ status' \in {"done", "error"} /\ UNCHANGED <<told, cited>>
          /\ status' = "done" => fault = "none"
          /\ status' = "error" => /\ fault \in Sse!Fault /\ code' = Sse!Code(fault, TRUE)
                                  /\ http' = 502 /\ wait' = 0
      <4>1. CASE fault = "none"
        <5>1. x.is = "done"
          BY <2>9, <4>1 DEF Closing, Sse!Done
        <5> QED BY <2>5, <4>1, <5>1 DEF Sse!Dispatch
      <4>2. CASE fault # "none"
        <5>1. x.is = "error" /\ x.n = Sse!Code(fault, TRUE)
          BY <2>9, <4>2 DEF Closing, Sse!Error
        <5> QED BY <1>0, <2>5, <4>2, <5>1 DEF Sse!Dispatch, Sse!Told
      <4> QED BY <4>1, <4>2
    <3>2. WireType' /\ ToldInOrder'
      BY <1>1, <2>6, <3>1 DEF WireInv, WireType, ToldInOrder, Sse!Status
    <3>3. InStream'
      BY <3>1 DEF InStream, Sse!Reading
    <3>4. Outcome'
      <4>1. (ended /\ fault = "none" => served = Length) /\ fault \notin Sse!Early
        BY <1>0 DEF WireInv, InStream
      <4> QED BY <1>1, <2>7, <2>9, <3>1, <4>1 DEF Outcome
    <3> QED BY <3>2, <3>3, <3>4 DEF WireInv
  <2> QED BY <1>0, <2>1, <2>2, <2>8, <2>9
<1> QED BY <1>4, <1>5

(* A set of one thing, or of none, as a sequence. *)
LEMMA AsSequence ==
    /\ Sse!SetToSeq({}) = <<>>
    /\ \A n : Sse!SetToSeq({n}) = <<n>>
<1>1. Sse!SetToSeq({}) = <<>>
  <2>1. PICK f : f = Sse!SetToSeq({})
    OBVIOUS
  <2>2. Sse!Cardinality({}) = 0
    BY FS_EmptySet DEF Sse!Cardinality, Cardinality
  <2>3. \E g \in [1..0 -> {}] : Sse!IsInjective(g)
    <3>1. [i \in 1..0 |-> i] \in [1..0 -> {}] /\ Sse!IsInjective([i \in 1..0 |-> i])
      BY DEF Sse!IsInjective
    <3> QED BY <3>1
  <2>4. f \in [1..0 -> {}]
    BY <2>1, <2>2, <2>3 DEF Sse!SetToSeq
  <2> QED BY <2>1, <2>4
<1>2. ASSUME NEW n PROVE Sse!SetToSeq({n}) = <<n>>
  <2>1. PICK f : f = Sse!SetToSeq({n})
    OBVIOUS
  <2>2. Sse!Cardinality({n}) = 1
    BY FS_Singleton DEF Sse!Cardinality, Cardinality
  <2>3. \E g \in [1..1 -> {n}] : Sse!IsInjective(g)
    <3>1. [i \in 1..1 |-> n] \in [1..1 -> {n}] /\ Sse!IsInjective([i \in 1..1 |-> n])
      BY DEF Sse!IsInjective
    <3> QED BY <3>1
  <2>4. f \in [1..1 -> {n}]
    BY <2>1, <2>2, <2>3 DEF Sse!SetToSeq
  <2>5. <<n>> \in [1..1 -> {n}]
    <3>1. <<n>> \in Seq({n}) /\ Len(<<n>>) = 1
      OBVIOUS
    <3> QED BY <3>1, LenProperties
  <2>6. \A g, h \in [1..1 -> {n}] : g = h
    OBVIOUS
  <2>7. f = <<n>>
    BY <2>4, <2>5, <2>6
  <2> QED BY <2>1, <2>7
<1> QED BY <1>1, <1>2

(* What a whole line left at the end of a broken stream says. *)
LEMMA LeftOver ==
    ASSUME WireInv, Sse!Reading, Sse!Blank = 0,
           NEW xs, xs = IF Sse!Named(buffer) THEN {} ELSE Sse!Payloads(buffer)
    PROVE  \/ xs = {}
           \/ Len(told) < served /\ xs = {Piece(Len(told) + 1)}
           \/ Len(told) = served /\ ended /\ xs = {Closing}
<1>0. buffer \in Seq(Token) /\ Len(told) \in Nat
  BY DEF WireInv, WireType
<1>1. ASSUME buffer = <<>> PROVE xs = {}
  BY <1>1 DEF Sse!Payloads
<1>2. CASE Awaited
  <2>1. Len(buffer) >= 1 => buffer[1] = Sse!Event
    BY <1>2, BufferBegins, NamedIs
  <2>2. Len(buffer) >= 1 => Sse!Named(buffer)
    BY <1>0, <2>1 DEF Sse!Named, Sse!ToSet
  <2> QED BY <1>0, <1>1, <2>2
<1>3. CASE ~Awaited
  <2>1. PICK x \in Words :
          /\ \/ Len(told) < served /\ x = Piece(Len(told) + 1)
             \/ Len(told) = served /\ ended /\ x = Closing
             \/ buffer = <<>>
          /\ Len(buffer) <= 3
          /\ \A j \in 1..4 : j <= Len(buffer) => buffer[j] = Sse!Data(x)[j]
    BY <1>3, BufferBegins
  <2>2. \A j \in 1..Len(buffer) : buffer[j] = Sse!Data(x)[j]
    BY <1>0, <2>1
  <2>3. Sse!Payloads(buffer) = (IF Len(buffer) >= 2 THEN {x} ELSE {}) /\ ~Sse!Named(buffer)
    BY <1>0, <2>1, <2>2, PayloadIs
  <2>4. xs = {} \/ xs = {x}
    BY <2>3
  <2> QED BY <1>1, <2>1, <2>4
<1> QED BY <1>2, <1>3

(* EndsEarly. *)
LEMMA EndsEarlyKeeps ==
    ASSUME WireInv, Sse!EndsEarly PROVE WireInv'
<1>0. /\ Sse!Reading /\ Sse!Blank = 0 /\ cut /\ served \in Nat /\ told \in Seq(Nat) /\ Len(told) \in Nat
      /\ Len(told) <= served /\ fault \in Sse!Fault \cup {"none"}
      /\ UNCHANGED <<served, searched, fault, hints, ended, wire, cut, buffer, cited>>
  BY DEF WireInv, WireType, ToldInOrder, Sse!EndsEarly
<1>1. PICK xs : xs = IF Sse!Named(buffer) THEN {} ELSE Sse!Payloads(buffer)
  OBVIOUS
<1>2. PICK words : words = {x.n : x \in {y \in xs : y.is = "text"}}
  OBVIOUS
<1>3. PICK errors : errors = {x.n : x \in {y \in xs : y.is = "error"}}
  OBVIOUS
<1>4. /\ told' = told \o Sse!SetToSeq(words)
      /\ IF errors = {} THEN status' = "done"
         ELSE \E c \in errors : Sse!Told(c, 502, 0)
  BY <1>1, <1>2, <1>3 DEF Sse!EndsEarly
<1>5. /\ words = {} \/ (Len(told) < served /\ words = {Len(told) + 1})
      /\ errors = {} \/ (ended /\ fault # "none" /\ errors = {Sse!Code(fault, TRUE)})
  <2>1. CASE xs = {}
    BY <1>2, <1>3, <2>1
  <2>2. CASE Len(told) < served /\ xs = {Piece(Len(told) + 1)}
    <3>1. Piece(Len(told) + 1).is = "text" /\ Piece(Len(told) + 1).n = Len(told) + 1
      BY DEF Piece
    <3>2. {y \in xs : y.is = "text"} = xs /\ {y \in xs : y.is = "error"} = {}
      BY <2>2, <3>1
    <3>3. words = {Len(told) + 1}
      BY <1>2, <2>2, <3>1, <3>2
    <3>4. errors = {}
      BY <1>3, <3>2
    <3> QED BY <2>2, <3>3, <3>4
  <2>3. CASE ended /\ xs = {Closing} /\ fault = "none"
    <3>1. {y \in xs : y.is = "text"} = {} /\ {y \in xs : y.is = "error"} = {}
      BY <2>3 DEF Closing, Sse!Done
    <3> QED BY <1>2, <1>3, <3>1
  <2>4. CASE ended /\ xs = {Closing} /\ fault # "none"
    <3>1. Closing.is = "error" /\ Closing.n = Sse!Code(fault, TRUE)
      BY <2>4 DEF Closing, Sse!Error
    <3>2. {y \in xs : y.is = "text"} = {} /\ {y \in xs : y.is = "error"} = {Closing}
      BY <2>4, <3>1
    <3>3. words = {}
      BY <1>2, <3>2
    <3>4. errors = {Sse!Code(fault, TRUE)}
      BY <1>3, <3>1, <3>2
    <3> QED BY <2>4, <3>3, <3>4
  <2> QED BY <1>0, <1>1, <2>1, <2>2, <2>3, <2>4, LeftOver
<1>6. told' = told \/ (Len(told) < served /\ told' = Append(told, Len(told) + 1))
  <2>1. CASE words = {}
    <3>1. told' = told \o <<>>
      BY <1>4, <2>1, AsSequence
    <3> QED BY <1>0, <3>1, ConcatEmptySeq
  <2>2. CASE Len(told) < served /\ words = {Len(told) + 1}
    <3>1. told' = told \o <<Len(told) + 1>>
      BY <1>4, <2>2, AsSequence
    <3>2. told' = Append(told, Len(told) + 1)
      BY <1>0, <3>1, AppendIsConcat
    <3> QED BY <2>2, <3>2
  <2> QED BY <1>5, <2>1, <2>2
<1>7. told' \in Seq(Nat) /\ ToldInOrder'
  <2>1. CASE told' = told
    BY <1>0, <2>1 DEF WireInv, ToldInOrder
  <2>2. CASE Len(told) < served /\ told' = Append(told, Len(told) + 1)
    <3>1. /\ told' \in Seq(Nat) /\ Len(told') = Len(told) + 1
          /\ \A i \in 1..Len(told) : told'[i] = told[i]
          /\ told'[Len(told) + 1] = Len(told) + 1
      BY <1>0, <2>2
    <3>2. \A i \in 1..Len(told) : told[i] = i
      BY DEF WireInv, ToldInOrder
    <3>3. \A i \in 1..Len(told') : told'[i] = i
      BY <1>0, <3>1, <3>2
    <3> QED BY <1>0, <2>2, <3>1, <3>3 DEF ToldInOrder
  <2> QED BY <1>6, <2>1, <2>2
<1>8. /\ status' \in {"done", "error"}
      /\ status' = "error" => /\ ended /\ fault \in Sse!Fault /\ code' = Sse!Code(fault, TRUE)
                              /\ http' = 502 /\ wait' = 0
  BY <1>0, <1>4, <1>5 DEF Sse!Told
<1>9. WireType'
  BY <1>0, <1>7, <1>8 DEF WireInv, WireType, Sse!Status
<1>10. InStream'
  BY <1>8 DEF InStream, Sse!Reading
<1>11. Outcome'
  <2>1. fault \notin Sse!Early
    BY <1>0 DEF WireInv, InStream
  <2> QED BY <1>0, <1>8, <2>1 DEF Outcome
<1> QED BY <1>7, <1>9, <1>10, <1>11 DEF WireInv

(* The stream begins, is refused, is cancelled, or its connection breaks. *)
LEMMA OtherWireSteps ==
    ASSUME WireInv,
           \/ Sse!Accept \/ Sse!Cancel \/ Sse!Rejects
           \/ \E f \in Sse!Fault, h \in Sse!Hints : Sse!Refuse(f, h)
    PROVE  WireInv'
<1>1. CASE Sse!Accept
  <2>1. /\ served = 0 /\ ~searched /\ ~ended /\ ~cited /\ fault = "none" /\ ~cut
        /\ wire = <<>> /\ buffer = <<>> /\ told = <<>> /\ status' = "thinking"
        /\ UNCHANGED <<served, searched, fault, hints, ended, wire, cut, buffer, told, cited>>
    BY <1>1 DEF WireInv, Outcome, Sse!Accept
  <2>2. WireType' /\ ToldInOrder' /\ Outcome'
    BY <2>1 DEF WireInv, WireType, ToldInOrder, Outcome, Sse!Status
  <2>3. Stream' = <<>> /\ ~Awaited' /\ Rest' = 0
    <3>1. Stream' = <<>> \o <<>>
      BY <2>1 DEF Stream
    <3>2. ~Awaited' /\ Before' = 0
      BY <2>1 DEF Awaited, Before
    <3> QED BY <2>1, <3>1, <3>2 DEF Rest
  <2>4. Carried'
    BY <2>1, <2>3 DEF Carried
  <2>5. "none" \notin Sse!Early
    BY DEF Sse!Early
  <2>6. InStream'
    BY <2>1, <2>3, <2>4, <2>5 DEF InStream
  <2> QED BY <2>2, <2>6 DEF WireInv
<1>2. CASE Sse!Cancel
  <2>1. /\ status' = "idle" /\ told' = <<>> /\ cut' = TRUE /\ wire' = <<>>
        /\ UNCHANGED <<served, searched, fault, hints, ended, buffer, cited>>
    BY <1>2 DEF Sse!Cancel
  <2> QED BY <2>1 DEF WireInv, WireType, ToldInOrder, InStream, Outcome, Sse!Reading, Sse!Status
<1>3. CASE Sse!Rejects
  <2>1. /\ status' = "done" /\ cut
        /\ UNCHANGED <<served, searched, fault, hints, ended, wire, cut, buffer, told, cited>>
    BY <1>3 DEF Sse!Rejects
  <2> QED BY <2>1 DEF WireInv, WireType, ToldInOrder, InStream, Outcome, Sse!Reading, Sse!Status
<1>4. ASSUME NEW f \in Sse!Fault, NEW h \in Sse!Hints, Sse!Refuse(f, h) PROVE WireInv'
  <2>1. /\ fault' = f /\ hints' = h /\ ended' = TRUE /\ status' = "error"
        /\ code' = Sse!Code(f, FALSE) /\ http' = Sse!HttpStatus(f)
        /\ wait' = IF f = "429" THEN Sse!RetryAfter(h) ELSE 0
        /\ UNCHANGED <<served, searched, wire, cut, buffer, told, cited>>
    BY <1>4 DEF Sse!Refuse, Sse!Told
  <2> QED BY <2>1 DEF WireInv, WireType, ToldInOrder, InStream, Outcome, Sse!Reading, Sse!Status
<1> QED BY <1>1, <1>2, <1>3, <1>4

(* Every step of any part keeps the invariant. *)
LEMMA WireStep == WireInv /\ [MCNext]_MCVars => WireInv'
<1> SUFFICES ASSUME WireInv, [MCNext]_MCVars PROVE WireInv'
  OBVIOUS
<1>1. CASE UNCHANGED WireVars
  <2>1. UNCHANGED <<served, searched, fault, hints, ended, wire, cut, buffer, status, told, cited, code, http, wait>>
    BY <1>1 DEF WireVars
  <2>2. WireType' /\ ToldInOrder'
    BY <2>1 DEF WireInv, WireType, ToldInOrder
  <2>4. Outcome'
    BY <2>1 DEF WireInv, Outcome
  <2>3. InStream'
    BY <2>1 DEF WireInv, InStream, Sse!Reading, Carried, Stream, Awaited, Before, Rest, Closing
  <2> QED BY <2>2, <2>3, <2>4 DEF WireInv
<1>2. CASE Sse!Next
  <2>1. Sse!NoHints \in Sse!Hints
    BY DEF Sse!NoHints, Sse!Hints, Sse!Seconds
  <2>2. "429" \in Sse!Fault
    BY DEF Sse!Fault, Sse!Statuses
  <2> QED BY <1>2, <2>1, <2>2, SearchKeeps, ForwardKeeps, StreamClosesKeeps, BreakKeeps, ReadKeeps,
             ParseKeeps, CutKeeps, EndsEarlyKeeps, OtherWireSteps DEF Sse!Next
<1> QED BY <1>1, <1>2 DEF MCNext, MCVars, Stores, Chats, Wires

(* What the reader of a streamed answer is told at its end is what          *)
(* happened, however the network cuts the frames, unless the connection     *)
(* broke: what is on its way is what has been written and not told.         *)
THEOREM OutcomeCorrect == MCSpec => []OutcomeTruthful
<1>1. MCInit => WireInv
  <2> SUFFICES ASSUME MCInit PROVE WireInv
    OBVIOUS
  <2>1. Sse!Init
    BY DEF MCInit
  <2>2. /\ served = 0 /\ searched = FALSE /\ fault = "none" /\ ended = FALSE /\ cut = FALSE /\ cited = FALSE
        /\ wire = <<>> /\ buffer = <<>> /\ told = <<>> /\ status = "sent"
    BY <2>1 DEF Sse!Init
  <2>3. WireType
    <3>1. wire \in Seq(Token) /\ buffer \in Seq(Token) /\ told \in Seq(Nat)
      BY <2>2
    <3> QED BY <2>2, <3>1 DEF WireType, Sse!Status
  <2>4. ToldInOrder /\ InStream
    BY <2>2 DEF ToldInOrder, InStream, Sse!Reading
  <2>5. Outcome
    BY <2>2 DEF Outcome
  <2> QED BY <2>3, <2>4, <2>5 DEF WireInv
<1> QED BY <1>1, WireStep, WireTells, PTL DEF MCSpec
=============================================================================
