--------------------------- MODULE MCEditor_proofs ---------------------------
(***************************************************************************)
(* Proofs about the parts of the editor's page: what a model's text is put *)
(* into; the copies of a draft's text; the sheets; the chat tab.  Each has *)
(* an inductive invariant of its own, which holds of every behaviour that  *)
(* is of that part.                                                        *)
(***************************************************************************)
EXTENDS MCEditor, Integers, Sequences, FiniteSets, FiniteSetTheorems, SequenceTheorems,
        WellFoundedInduction, TLAPS

-----------------------------------------------------------------------------
(* The card and the continuation.  A card is of the chapter on screen, and  *)
(* what it shows, or will show, was asked for it, unless it was opened      *)
(* without a run; it is of the draft and the passage on screen as long as   *)
(* neither has changed.                                                     *)
Heard == [status : Inline!Status, run : 0..Len(save), text : BOOLEAN]
InlineType ==
    /\ srv \in Inline!Doc /\ page \in {Cursor} \cup Passage
    /\ save \in Seq(Inline!Ask)
    /\ base \in 0..Len(save) /\ conflict \in 0..Len(save)
    /\ buffer \in Heard /\ pinned \in Heard
    /\ Inline!InFlight(buffer) => buffer.run # 0
    /\ doc \subseteq [at : Inline!Ask, status : Inline!Status, out : 0..Len(save)]
CardInPlace ==
    \A c \in doc :
      /\ c.at.doc[1] = srv[1]
      /\ {"unrun", "redrafted"} \cap perils = {} => c.at.doc = srv
      /\ perils = {} => c.at.pass = page
      /\ "unrun" \notin perils =>
           /\ c.out # 0 => save[c.out] = c.at
           /\ Inline!InFlight(buffer) => save[buffer.run] = c.at
RetryInPlace == base # 0 => save[base].doc[1] = srv[1]
BarInPlace ==
    pinned # Inline!Idle =>
      /\ pinned.run # 0 /\ conflict # 0 /\ save[pinned.run] = save[conflict]
      /\ "carried" \notin perils => save[conflict].doc[1] = srv[1]
      /\ {"carried", "redrafted"} \cap perils = {} => save[conflict].doc = srv
      /\ perils = {} => save[conflict].pass = page
InlineInv ==
    InlineType /\ CardInPlace /\ RetryInPlace /\ BarInPlace /\ Inline!AITextInPlace

(* A step of the cursor, the draft or the chapter on screen leaves a card   *)
(* and a continuation where they are, and is noted where it moves from them.*)
LEMMA InlinePage ==
    ASSUME InlineInv,
           \/ \E p \in {Cursor} \cup Passage : Inline!Select(p)
           \/ \E d \in Draft : Inline!ViewDraft(d)
           \/ \E c \in Chapter : Inline!ViewChapter(c)
           \/ Inline!ChooseModel
    PROVE  InlineInv'
<1> USE DEF InlineInv, Inline!Meets, Inline!Open, Inline!bar, Inline!bubble, Inline!history,
            Inline!Doc, Inline!InFlight, Inline!NoRun
<1>1. ASSUME NEW p \in {Cursor} \cup Passage, Inline!Select(p) PROVE InlineInv'
  <2>1. InlineType'
    BY <1>1 DEF Inline!Select, InlineType, Heard, Inline!Ask, Inline!Status, Inline!Idle
  <2>2. CardInPlace'
    BY <1>1 DEF Inline!Select, InlineType, Heard, CardInPlace
  <2>3. RetryInPlace'
    BY <1>1 DEF Inline!Select, InlineType, RetryInPlace
  <2>4. BarInPlace'
    BY <1>1 DEF Inline!Select, InlineType, Heard, BarInPlace
  <2>5. Inline!AITextInPlace'
    BY <1>1 DEF Inline!Select, Inline!AITextInPlace
  <2> QED BY <2>1, <2>2, <2>3, <2>4, <2>5
<1>2. ASSUME NEW d \in Draft, Inline!ViewDraft(d) PROVE InlineInv'
  <2>1. InlineType'
    BY <1>2 DEF Inline!ViewDraft, InlineType, Heard, Inline!Ask, Inline!Status, Inline!Idle
  <2>2. CardInPlace'
    BY <1>2 DEF Inline!ViewDraft, InlineType, Heard, CardInPlace
  <2>3. RetryInPlace'
    BY <1>2 DEF Inline!ViewDraft, InlineType, RetryInPlace
  <2>4. BarInPlace'
    BY <1>2 DEF Inline!ViewDraft, InlineType, Heard, BarInPlace
  <2>5. Inline!AITextInPlace'
    BY <1>2 DEF Inline!ViewDraft, Inline!AITextInPlace
  <2> QED BY <2>1, <2>2, <2>3, <2>4, <2>5
<1>3. ASSUME NEW c \in Chapter, Inline!ViewChapter(c) PROVE InlineInv'
  <2>1. InlineType'
    BY <1>3, PartsAssumption
       DEF Inline!ViewChapter, Inline!ClearsCard, Inline!InlineAIAssumption, InlineType,
           Heard, Inline!Ask, Inline!Status, Inline!Idle
  <2>2. CardInPlace'
    BY <1>3, PartsAssumption
       DEF Inline!ViewChapter, Inline!ClearsCard, Inline!InlineAIAssumption, InlineType,
           Heard, CardInPlace
  <2>3. RetryInPlace'
    BY <1>3, PartsAssumption
       DEF Inline!ViewChapter, Inline!ClearsCard, Inline!InlineAIAssumption, InlineType,
           RetryInPlace
  <2>4. BarInPlace'
    BY <1>3, PartsAssumption
       DEF Inline!ViewChapter, Inline!ClearsCard, Inline!InlineAIAssumption, InlineType,
           Heard, BarInPlace
  <2>5. Inline!AITextInPlace'
    BY <1>3, PartsAssumption
       DEF Inline!ViewChapter, Inline!ClearsCard, Inline!InlineAIAssumption,
           Inline!AITextInPlace
  <2> QED BY <2>1, <2>2, <2>3, <2>4, <2>5
<1>4. CASE Inline!ChooseModel
  <2>1. InlineType'
    <3>1. pinned' \in Heard' /\ conflict' \in 0..Len(save')
      <4>1. CASE UNCHANGED <<pinned, conflict, save>>
        BY <4>1 DEF InlineType, Heard
      <4>2. CASE pinned' = Inline!Idle /\ conflict' = 0 /\ save' = save
        BY <4>2 DEF InlineType, Heard, Inline!Idle, Inline!Status
      <4> QED BY <1>4, <4>1, <4>2 DEF Inline!ChooseModel
    <3>2. UNCHANGED <<srv, page, save, base, buffer, doc>>
      BY <1>4 DEF Inline!ChooseModel
    <3> QED BY <3>1, <3>2 DEF InlineType, Heard
  <2>2. CardInPlace'
    BY <1>4 DEF Inline!ChooseModel, InlineType, Heard, CardInPlace
  <2>3. RetryInPlace'
    BY <1>4 DEF Inline!ChooseModel, InlineType, RetryInPlace
  <2>4. BarInPlace'
    BY <1>4 DEF Inline!ChooseModel, InlineType, Heard, BarInPlace
  <2>5. Inline!AITextInPlace'
    BY <1>4 DEF Inline!ChooseModel, Inline!AITextInPlace
  <2> QED BY <2>1, <2>2, <2>3, <2>4, <2>5
<1> QED BY <1>1, <1>2, <1>3, <1>4

(* A run keeps what was asked before it.                                    *)
LEMMA InlineStarts ==
    ASSUME InlineType, NEW ask \in Inline!Ask, Inline!Starts(ask)
    PROVE  /\ save' \in Seq(Inline!Ask) /\ Len(save') = Len(save) + 1
           /\ \A i \in 1..Len(save) : save'[i] = save[i]
           /\ save'[Len(save) + 1] = ask
           /\ Inline!Started \in Heard' /\ Inline!Started.run = Len(save) + 1
           /\ Inline!InFlight(Inline!Started) /\ Inline!Started # Inline!Idle
BY
   DEF InlineType, Inline!Starts, Inline!Started, Heard, Inline!Status, Inline!InFlight,
       Inline!Idle

(* A card is of the selection it was opened for; a retried card is of what  *)
(* was last asked, which is of the chapter on screen.                       *)
LEMMA InlineCard ==
    ASSUME InlineInv, Inline!Act \/ Inline!RetryAct \/ Inline!Dismiss \/ Inline!Hear
    PROVE  InlineInv'
<1> USE DEF InlineInv
<1>1. CASE Inline!Act
  <2> DEFINE ask == [doc |-> srv, pass |-> page]
  <2>1. ask \in Inline!Ask /\ ask.doc = srv /\ ask.pass = page
    BY DEF Inline!Ask, InlineType
  <2>2. UNCHANGED <<srv, page, cache, pinned, conflict, fetch>>
    BY <1>1 DEF Inline!Act, Inline!page, Inline!bar
  <2>3. CASE doc' = Inline!Shown(ask, "error") /\ Inline!Meets(Inline!InFlight(buffer), "unrun")
             /\ UNCHANGED <<save, buffer, base>>
    <3>1. InlineType'
      BY <2>1, <2>2, <2>3
         DEF InlineType, Heard, Inline!Shown, Inline!Status, Inline!NoRun, Inline!InFlight
    <3>2. CardInPlace'
      BY <2>1, <2>2, <2>3
         DEF CardInPlace, Inline!Shown, Inline!Meets, Inline!NoRun, Inline!InFlight
    <3>3. RetryInPlace' /\ BarInPlace' /\ Inline!AITextInPlace'
      BY <2>2, <2>3 DEF RetryInPlace, BarInPlace, Inline!AITextInPlace, Inline!Meets
    <3> QED BY <3>1, <3>2, <3>3
  <2>4. CASE doc' = Inline!Shown(ask, "thinking") /\ Inline!Starts(ask)
             /\ buffer' = Inline!Started /\ base' = Inline!Started.run /\ perils' = perils
    <3> HIDE DEF ask
    <3>0. /\ save' \in Seq(Inline!Ask) /\ Len(save') = Len(save) + 1
          /\ \A i \in 1..Len(save) : save'[i] = save[i]
          /\ save'[Len(save) + 1] = ask
          /\ buffer' \in Heard' /\ buffer'.run = Len(save) + 1 /\ Len(save) \in Nat
      BY <2>1, <2>4, InlineStarts DEF InlineType
    <3>1. InlineType'
      BY <3>0, <2>1, <2>2, <2>4
         DEF InlineType, Heard, Inline!Shown, Inline!Status, Inline!NoRun, Inline!InFlight
    <3>2. CardInPlace'
      BY <3>0, <2>1, <2>2, <2>4 DEF CardInPlace, Inline!Shown, Inline!NoRun, InlineType
    <3>3. RetryInPlace'
      BY <3>0, <2>1, <2>2, <2>4 DEF RetryInPlace, InlineType
    <3>4. BarInPlace'
      BY <3>0, <2>2, <2>4 DEF BarInPlace, InlineType, Heard
    <3>5. Inline!AITextInPlace'
      BY <2>2, <2>4 DEF Inline!AITextInPlace
    <3> QED BY <3>1, <3>2, <3>3, <3>4, <3>5
  <2> QED BY <1>1, <2>3, <2>4 DEF Inline!Act
<1>2. CASE Inline!RetryAct
  <2> PICK c \in doc : /\ base # Inline!NoRun
                        /\ doc' = Inline!Shown(save[base], "thinking")
                        /\ Inline!Starts(save[base]) /\ buffer' = Inline!Started
                        /\ base' = Inline!Started.run
                        /\ Inline!Meets(c.at # save[base], "unrun")
    BY <1>2 DEF Inline!RetryAct
  <2> DEFINE ask == save[base]
  <2>1. ask \in Inline!Ask /\ ask.doc[1] = srv[1]
    BY DEF InlineType, RetryInPlace, Inline!NoRun
  <2>2. UNCHANGED <<srv, page, cache, pinned, conflict, fetch>>
    BY <1>2 DEF Inline!RetryAct, Inline!page, Inline!bar
  <2>3. /\ save' \in Seq(Inline!Ask) /\ Len(save') = Len(save) + 1
        /\ \A i \in 1..Len(save) : save'[i] = save[i]
        /\ save'[Len(save) + 1] = ask
        /\ buffer' \in Heard' /\ buffer'.run = Len(save) + 1 /\ Len(save) \in Nat
    BY <2>1, InlineStarts DEF InlineType
  <2>4. perils \subseteq perils' /\ ("unrun" \notin perils' => c.at = ask /\ perils' = perils)
    BY DEF Inline!Meets
  <2> HIDE DEF ask
  <2>5. InlineType'
    BY <2>1, <2>2, <2>3
       DEF ask, InlineType, Heard, Inline!Shown, Inline!Status, Inline!NoRun, Inline!InFlight
  <2>6. CardInPlace'
    BY <2>1, <2>2, <2>3, <2>4 DEF ask, CardInPlace, Inline!Shown, Inline!NoRun, InlineType
  <2>7. RetryInPlace'
    BY <2>1, <2>2, <2>3 DEF RetryInPlace, InlineType
  <2>8. BarInPlace'
    BY <2>2, <2>3, <2>4 DEF BarInPlace, InlineType, Heard
  <2>9. Inline!AITextInPlace'
    BY <2>2, <2>4 DEF Inline!AITextInPlace
  <2> QED BY <2>5, <2>6, <2>7, <2>8, <2>9
<1>3. CASE Inline!Dismiss
  BY <1>3
     DEF Inline!Dismiss, Inline!page, Inline!bar, Inline!history, InlineType, Heard,
         CardInPlace,
              RetryInPlace, BarInPlace, Inline!AITextInPlace, Inline!InFlight
<1>4. CASE Inline!Hear
  <2> PICK c \in Inline!Heard(buffer) :
          /\ Inline!InFlight(buffer) /\ buffer' = c /\ Inline!Mirror(c)
    BY <1>4 DEF Inline!Hear
  <2>1. UNCHANGED <<srv, page, cache, base, pinned, conflict, save, fetch, perils>>
    BY <1>4 DEF Inline!Hear, Inline!page, Inline!bar, Inline!history
  <2>2. c \in Heard /\ c.run = buffer.run
    BY DEF InlineType, Heard, Inline!Heard, Inline!Status
  <2>3. ASSUME NEW k \in doc'
        PROVE  /\ k \in [at : Inline!Ask, status : Inline!Status, out : 0..Len(save)]
               /\ \E q \in doc : k.at = q.at /\ k.out \in {0, c.run}
    <3> PICK q \in doc :
            k = [q EXCEPT !.status = c.status,
                          !.out = IF c.text /\ c.status # "error" THEN c.run ELSE Inline!NoRun]
      BY DEF Inline!Mirror
    <3>1. q \in [at : Inline!Ask, status : Inline!Status, out : 0..Len(save)]
      BY DEF InlineType
    <3>2. c.status \in Inline!Status /\ c.run \in 0..Len(save) /\ 0 \in 0..Len(save)
      BY <2>2 DEF Heard, InlineType
    <3>3. k.at = q.at /\ k.out \in {0, c.run}
      BY <3>1 DEF Inline!NoRun
    <3>4. k \in [at : Inline!Ask, status : Inline!Status, out : 0..Len(save)]
      BY <3>1, <3>2 DEF Inline!NoRun
    <3> QED BY <3>3, <3>4
  <2>4. InlineType'
    <3>1. doc' \subseteq [at : Inline!Ask, status : Inline!Status, out : 0..Len(save)]
      BY <2>3
    <3>2. Inline!InFlight(buffer') => buffer'.run # 0
      BY <2>2 DEF InlineType
    <3> QED BY <2>1, <2>2, <3>1, <3>2 DEF InlineType, Heard, Inline!InFlight
  <2>5. CardInPlace'
    BY <2>1, <2>2, <2>3 DEF CardInPlace
  <2>6. RetryInPlace' /\ BarInPlace' /\ Inline!AITextInPlace'
    BY <2>1 DEF RetryInPlace, BarInPlace, Inline!AITextInPlace
  <2> QED BY <2>4, <2>5, <2>6
<1> QED BY <1>1, <1>2, <1>3, <1>4

(* A text put into the document clears what was asked of it, and is noted   *)
(* where it misses its place.                                               *)
LEMMA InlinePlaces ==
    ASSUME InlineInv, PartsAssumption, NEW run \in 1..Len(save), Inline!Places(run),
           "unrun" \notin perils /\ "carried" \notin perils => save[run].doc[1] = srv[1],
           {"unrun", "carried", "redrafted"} \cap perils = {} => save[run].doc = srv,
           perils = {} => save[run].pass = page,
           perils \subseteq perils', srv' = srv
    PROVE  page' = Cursor /\ Inline!AITextInPlace'
BY DEF InlineInv, Inline!Places, Inline!AITextInPlace

(* The bubble's text, and what it clears.                                   *)
LEMMA InlineAccept ==
    ASSUME InlineInv, PartsAssumption, Inline!Accept
    PROVE  InlineInv'
<1> USE DEF InlineInv
<1> PICK c \in doc : /\ c.out # 0 /\ Inline!Places(c.out) /\ doc' = {}
                     /\ Inline!Meets(pinned # Inline!Idle, "moved")
  BY DEF Inline!Accept, Inline!NoRun
<1>1. UNCHANGED <<srv, cache, buffer, base, pinned, conflict, save>>
  BY DEF Inline!Accept, Inline!bar
<1>2. perils \subseteq perils' /\ (perils' = {} => pinned = Inline!Idle)
  BY DEF Inline!Meets
<1>3. c.out \in 1..Len(save)
  BY DEF InlineType
<1>4. /\ "unrun" \notin perils => save[c.out].doc[1] = srv[1]
      /\ {"unrun", "redrafted"} \cap perils = {} => save[c.out].doc = srv
      /\ perils = {} => save[c.out].pass = page
  BY DEF CardInPlace
<1>5. page' = Cursor /\ Inline!AITextInPlace'
  BY <1>1, <1>2, <1>3, <1>4, InlinePlaces
<1>6. InlineType'
  BY <1>1, <1>5 DEF InlineType, Heard, Inline!InFlight
<1>7. CardInPlace' /\ RetryInPlace' /\ BarInPlace'
  BY <1>1, <1>2, <1>5 DEF CardInPlace, RetryInPlace, BarInPlace
<1> QED BY <1>5, <1>6, <1>7

(* A continuation is of the place it was asked for at, and so is a retried  *)
(* one, unless it was carried.                                              *)
LEMMA InlineContinue ==
    ASSUME InlineInv, PartsAssumption,
           \/ Inline!Continue \/ Inline!RetryContinue \/ Inline!HearContinuation
           \/ Inline!Keep \/ Inline!DiscardContinuation
    PROVE  InlineInv'
<1> USE DEF InlineInv
<1>1. CASE Inline!Continue
  <2> DEFINE ask == [doc |-> srv, pass |-> page]
  <2>1. ask \in Inline!Ask /\ ask.doc = srv /\ ask.pass = page
    BY DEF Inline!Ask, InlineType
  <2>2. UNCHANGED <<srv, page, cache, doc, buffer, base, fetch, perils>>
    BY <1>1 DEF Inline!Continue, Inline!page, Inline!bubble, Inline!history
  <2>3. Inline!Starts(ask) /\ pinned' = Inline!Started /\ conflict' = Inline!Started.run
    BY <1>1 DEF Inline!Continue
  <2> HIDE DEF ask
  <2>4. /\ save' \in Seq(Inline!Ask) /\ Len(save') = Len(save) + 1
        /\ \A i \in 1..Len(save) : save'[i] = save[i]
        /\ save'[Len(save) + 1] = ask
        /\ pinned' \in Heard' /\ pinned'.run = Len(save) + 1 /\ Len(save) \in Nat
        /\ conflict' = Len(save) + 1
    BY <2>1, <2>3, InlineStarts DEF InlineType
  <2>5. InlineType'
    <3>1. doc' \subseteq [at : Inline!Ask, status : Inline!Status, out : 0..Len(save')]
      BY <2>2, <2>4 DEF InlineType
    <3> QED BY <2>2, <2>4, <3>1 DEF InlineType, Heard, Inline!InFlight
  <2>6. CardInPlace'
    <3>1. \A c \in doc : c.out \in 0..Len(save)
      BY DEF InlineType
    <3>2. \A c \in doc : c.out # 0 => save'[c.out] = save[c.out]
      BY <2>4, <3>1
    <3>3. Inline!InFlight(buffer) => save'[buffer.run] = save[buffer.run]
      BY <2>4 DEF InlineType, Heard, Inline!InFlight
    <3> QED BY <2>2, <3>2, <3>3 DEF CardInPlace, Inline!InFlight
  <2>7. RetryInPlace' /\ Inline!AITextInPlace'
    BY <2>2, <2>4 DEF RetryInPlace, Inline!AITextInPlace, InlineType
  <2>8. BarInPlace'
    BY <2>1, <2>2, <2>4 DEF BarInPlace
  <2> QED BY <2>5, <2>6, <2>7, <2>8
<1>2. CASE Inline!RetryContinue
  <2> DEFINE ask == save[conflict]
  <2>1. ask \in Inline!Ask /\ conflict \in 1..Len(save)
    BY <1>2 DEF Inline!RetryContinue, Inline!NoRun, InlineType
  <2>2. UNCHANGED <<srv, page, cache, doc, buffer, base, conflict, fetch, perils>>
    BY <1>2 DEF Inline!RetryContinue, Inline!page, Inline!bubble, Inline!history
  <2>3. Inline!Starts(ask) /\ pinned' = Inline!Started /\ pinned # Inline!Idle
    BY <1>2 DEF Inline!RetryContinue, Inline!Idle
  <2> HIDE DEF ask
  <2>4. /\ save' \in Seq(Inline!Ask) /\ Len(save') = Len(save) + 1
        /\ \A i \in 1..Len(save) : save'[i] = save[i]
        /\ save'[Len(save) + 1] = ask
        /\ pinned' \in Heard' /\ pinned'.run = Len(save) + 1 /\ Len(save) \in Nat
    BY <2>1, <2>3, InlineStarts DEF InlineType
  <2>5. InlineType'
    <3>1. doc' \subseteq [at : Inline!Ask, status : Inline!Status, out : 0..Len(save')]
      BY <2>2, <2>4 DEF InlineType
    <3> QED BY <2>2, <2>4, <3>1 DEF InlineType, Heard, Inline!InFlight
  <2>6. CardInPlace'
    BY <2>2, <2>4 DEF CardInPlace, InlineType, Heard
  <2>7. RetryInPlace' /\ Inline!AITextInPlace'
    BY <2>2, <2>4 DEF RetryInPlace, Inline!AITextInPlace, InlineType
  <2>8. BarInPlace'
    BY <2>1, <2>2, <2>3, <2>4 DEF BarInPlace, ask
  <2> QED BY <2>5, <2>6, <2>7, <2>8
<1>3. CASE Inline!HearContinuation
  <2> PICK c \in Inline!Heard(pinned) : Inline!InFlight(pinned) /\ pinned' = c
    BY <1>3 DEF Inline!HearContinuation
  <2>1. UNCHANGED <<srv, page, cache, doc, buffer, base, conflict, save, fetch, perils>>
    BY <1>3 DEF Inline!HearContinuation, Inline!page, Inline!bubble, Inline!history
  <2>2. c \in Heard /\ c.run = pinned.run
    BY DEF InlineType, Heard, Inline!Heard, Inline!Status
  <2>3. pinned # Inline!Idle
    BY DEF Inline!InFlight, Inline!Idle
  <2>4. InlineType'
    BY <2>1, <2>2 DEF InlineType, Heard, Inline!InFlight
  <2>5. CardInPlace' /\ RetryInPlace' /\ Inline!AITextInPlace'
    BY <2>1 DEF CardInPlace, RetryInPlace, Inline!AITextInPlace, Inline!InFlight
  <2>6. BarInPlace'
    BY <2>1, <2>2, <2>3 DEF BarInPlace
  <2> QED BY <2>4, <2>5, <2>6
<1>4. CASE Inline!Keep
  <2>1. /\ pinned.status = "done" /\ Inline!Places(pinned.run)
        /\ pinned' = Inline!Idle /\ conflict' = 0 /\ Inline!Meets(doc # {}, "moved")
        /\ UNCHANGED <<srv, cache, doc, buffer, base, save>>
    BY <1>4 DEF Inline!Keep, Inline!bubble, Inline!NoRun
  <2>2. perils \subseteq perils' /\ (perils' = {} => doc = {})
        /\ ("unrun" \in perils' => "unrun" \in perils)
        /\ ("redrafted" \in perils' => "redrafted" \in perils)
    BY <2>1 DEF Inline!Meets
  <2>3. pinned # Inline!Idle
    BY <2>1 DEF Inline!Idle
  <2>4. /\ pinned.run \in 1..Len(save)
        /\ "carried" \notin perils => save[pinned.run].doc[1] = srv[1]
        /\ {"carried", "redrafted"} \cap perils = {} => save[pinned.run].doc = srv
        /\ perils = {} => save[pinned.run].pass = page
    BY <2>3 DEF BarInPlace, InlineType, Heard
  <2>5. page' = Cursor /\ Inline!AITextInPlace'
    BY <2>1, <2>2, <2>4, InlinePlaces
  <2>6. InlineType'
    <3>1. pinned' \in Heard'
      BY <2>1 DEF Heard, Inline!Idle, Inline!Status, Inline!NoRun, InlineType
    <3> QED BY <2>1, <2>5, <3>1 DEF InlineType, Heard, Inline!InFlight
  <2>7. CardInPlace' /\ RetryInPlace' /\ BarInPlace'
    BY <2>1, <2>2, <2>5 DEF CardInPlace, RetryInPlace, BarInPlace, Inline!InFlight
  <2> QED BY <2>5, <2>6, <2>7
<1>5. CASE Inline!DiscardContinuation
  <2>1. /\ pinned' = Inline!Idle /\ conflict' = 0
        /\ UNCHANGED <<srv, page, cache, doc, buffer, base, save, fetch, perils>>
    BY <1>5
       DEF Inline!DiscardContinuation, Inline!page, Inline!bubble, Inline!history,
           Inline!NoRun
  <2>2. InlineType'
    <3>1. pinned' \in Heard'
      BY <2>1 DEF Heard, Inline!Idle, Inline!Status, Inline!NoRun, InlineType
    <3> QED BY <2>1, <3>1 DEF InlineType, Heard, Inline!InFlight
  <2>3. CardInPlace' /\ RetryInPlace' /\ BarInPlace' /\ Inline!AITextInPlace'
    BY <2>1 DEF CardInPlace, RetryInPlace, BarInPlace, Inline!AITextInPlace, Inline!InFlight
  <2> QED BY <2>2, <2>3
<1> QED BY <1>1, <1>2, <1>3, <1>4, <1>5

(* What a model wrote goes into the chapter, the draft and the passage it   *)
(* was asked for, however many chapters, drafts, passages and runs there    *)
(* are, but for the dangers that are named.                                 *)
THEOREM AITextCorrect == MCSpec => []AITextInPlace
<1> DEFINE Inv == part = "inline" => InlineInv
<1>1. MCInit => Inv
  <2> SUFFICES ASSUME MCInit, part = "inline" PROVE InlineInv
    OBVIOUS
  <2>1. Inline!Init
    BY DEF MCInit
  <2>2. InlineType
    BY <2>1, PartsAssumption
       DEF Inline!Init, InlineType, Inline!Doc, Inline!Ask, Heard, Inline!Idle, Inline!Status, Inline!NoRun,
           Inline!InFlight, Inline!InlineAIAssumption
  <2>3. CardInPlace /\ RetryInPlace /\ BarInPlace /\ Inline!AITextInPlace
    BY <2>1
       DEF Inline!Init, CardInPlace, RetryInPlace, BarInPlace, Inline!AITextInPlace,
           Inline!NoRun
  <2> QED BY <2>2, <2>3 DEF InlineInv
<1>2. Inv /\ [MCNext]_MCVars => Inv'
  <2> SUFFICES ASSUME InlineInv, [MCNext]_MCVars, part' = "inline" PROVE InlineInv'
    BY DEF MCNext, MCVars
  <2>1. CASE Inline!Next
    BY <2>1, PartsAssumption, InlinePage, InlineCard, InlineAccept, InlineContinue
       DEF Inline!Next
  <2>2. CASE UNCHANGED MCVars
    BY <2>2 DEF MCVars, InlineInv, InlineType, Heard, CardInPlace, RetryInPlace, BarInPlace,
                Inline!AITextInPlace, Inline!InFlight
  <2> QED BY <2>1, <2>2 DEF MCNext
<1>3. Inv => AITextInPlace
  BY DEF AITextInPlace, InlineInv
<1> QED BY <1>1, <1>2, <1>3, PTL DEF MCSpec

-----------------------------------------------------------------------------
(* The text.  Copies of the row that are of one version are of one body,    *)
(* and none is newer than the row; so are the versions that requests and    *)
(* records name.                                                            *)
Single(S) == \A x, y \in S : x = y
TextType ==
    /\ srv \in Editor!Row /\ cache \in Editor!Row
    /\ page \in {"closed", "loading", "open"}
    /\ doc \in Editor!Body /\ buffer \in Editor!Body /\ base \in Editor!Body
    /\ pinned \in BOOLEAN /\ conflict \in BOOLEAN /\ clobbered \in BOOLEAN
    /\ save \subseteq [pc : {"sent", "applied", "refused", "read"}, body : Editor!Body,
                       exp : 0..MaxVer, hook : BOOLEAN, ans : Editor!Row]
    /\ Single(save)
    /\ fetch \subseteq [reload : BOOLEAN, row : Editor!Row]
    /\ flight \subseteq Editor!Request
    /\ local \subseteq Editor!Record /\ Single(local) /\ lookup \subseteq Editor!Record
    /\ offer \subseteq Editor!Record
    /\ summary \in [pc : {"none", "asked", "stored"}, of : Editor!Body, ver : 0..MaxVer]
    /\ perils \subseteq Editor!Peril
Rows == {srv, cache} \cup {s.ans : s \in save} \cup {f.row : f \in fetch}
Coherent ==
    /\ \A x \in Rows : x.ver <= srv.ver
    /\ \A x, y \in Rows : x.ver = y.ver => x.body = y.body
Past ==
    /\ \A s \in save : s.exp <= srv.ver
    /\ \A r \in flight : r.exp <= srv.ver
    /\ \A r \in local \cup lookup \cup offer : r.ver <= srv.ver

(* Whatever is under way or on disk was typed; typed edits are numbered.    *)
Texts == {doc, buffer, base, cache.body, srv.body}
            \cup {s.body : s \in save} \cup {s.ans.body : s \in save}
            \cup {f.row.body : f \in fetch} \cup {r.body : r \in flight}
            \cup {r.body : r \in local \cup lookup \cup offer}
Typed ==
    /\ \E n \in 0..MaxMine : written = 1..n
    /\ \A b \in Texts : Editor!Mine \cap b \subseteq written

(* Saves, reads and records of a page end with it; a conflict or a save is  *)
(* of an unsaved or a replaced text; a Reload is alone.                     *)
Flags ==
    /\ page # "open" => save = {} /\ fetch = {} /\ lookup = {} /\ offer = {}
    /\ page = "loading" => ~conflict /\ ~pinned
    /\ lookup = {} \/ offer = {}
    /\ page = "open" /\ (conflict \/ save # {}) => Editor!Dirty \/ pinned
    /\ conflict => \A s \in save : ~s.hook
    /\ \A f \in fetch : f.reload => conflict /\ save = {} /\ f.row.ver >= cache.ver

(* As long as no read has moved a version: what is conditional on a version *)
(* has all of the others' edits which that version has.                     *)
Draws(b, v) == \A x \in Rows : x.ver = v => Editor!Theirs \cap x.body \subseteq b
Unmoved == "moved" \notin perils
Sourced ==
    /\ \A s \in save : s.exp # 0 => Draws(s.body, s.exp)
    /\ \A r \in flight : r.exp # 0 => Draws(r.body, r.exp)
    /\ \A r \in local \cup lookup : Draws(r.body, r.ver)

(* And the text on screen has those of the cached version; so has the       *)
(* buffer, unless all of it is saved.                                       *)
Has(b, c) == Editor!Theirs \cap b \subseteq c
AtWork == \/ Editor!Dirty \/ pinned \/ save # {} \/ offer # {}
          \/ \E r \in lookup : r.ver = cache.ver
OnPage ==
    /\ Has(cache.body, doc)
    /\ AtWork => Has(cache.body, buffer) /\ Has(buffer, doc) /\ (pinned \/ Has(doc, buffer))
    /\ \A s \in save : /\ Has(s.body, doc) /\ Has(s.body, buffer)
                       /\ pinned \/ Has(doc, s.body)
                       /\ \A r \in offer : Has(s.body, r.body)
    /\ \A s \in save : s.pc \in {"applied", "read"} => \A r \in lookup : r.ver < srv.ver
    /\ \A s \in save : s.pc = "read" => \A r \in lookup : r.ver < s.ans.ver
    /\ \A r \in offer :
         Has(cache.body, r.body) /\ Has(buffer, r.body) /\ Has(doc, r.body)
    /\ \A r \in lookup :
         /\ r.ver <= cache.ver
         /\ r.ver = cache.ver => Has(buffer, r.body) /\ Has(doc, r.body)
ClobberInv == Unmoved => Sourced /\ (page = "open" => OnPage) /\ ~clobbered

(* As long as nothing was typed during a save either, unsaved text is on    *)
(* screen, and it is what the save carries.                                 *)
ScreenInv ==
    {"outrun", "moved"} \cap perils = {} /\ page = "open" =>
      /\ Editor!Dirty \/ pinned \/ save # {} => doc = buffer
      /\ \A s \in save : ~pinned => buffer = s.body

(* As long as only this page writes, its version is the row's until a save  *)
(* is carried out, and the save's answer is.                                *)
Writers == {"other", "flush", "answer", "moved", "summary"}
Alone == perils \cap Writers = {}
QuietInv ==
    Alone =>
      /\ ~conflict /\ flight = {}
      /\ page = "open" /\ (\A s \in save : s.pc = "sent") => cache.ver = srv.ver
      /\ \A s \in save : /\ s.pc # "refused"
                         /\ s.pc = "sent" => s.exp \in {0, srv.ver}
                         /\ s.pc = "read" => s.ans.ver = srv.ver

(* A summary is not newer than the draft.                                   *)
SummaryInv ==
    summary.pc = "stored" =>
      /\ summary.ver <= srv.ver
      /\ summary.ver = srv.ver => summary.of = srv.body \/ "overtaken" \in perils

(* As long as no danger was met, every edit that was typed and not given up *)
(* is in the row, in the buffer and in its record, or in the record offered.*)
Calm == perils \subseteq {"overtaken"}
Wanted == written \ givenUp
RecordsOf(v) == UNION {r.body : r \in {q \in local : q.ver = v}}
Unsettled == \A s \in save : s.pc = "sent"
SafeOnPage ==
    /\ doc = buffer
    /\ Unsettled => cache = srv /\ base = srv.body
    /\ Unsettled /\ (Editor!Dirty \/ save # {}) => local = {[body |-> buffer, ver |-> srv.ver]}
    /\ \A s \in save : /\ s.hook /\ s.body = buffer
                       /\ s.pc \in {"applied", "read"} => srv.body = s.body
                       /\ s.pc = "read" => s.ans = srv
    /\ lookup \cup offer # {} => ~Editor!Dirty /\ save = {}
    /\ lookup = {} /\ offer = {} => Wanted \subseteq buffer
    /\ lookup # {} => lookup = local /\ Wanted \subseteq buffer \cup RecordsOf(srv.ver)
    /\ offer # {} => /\ offer = local /\ (\A r \in offer : r.ver = srv.ver)
                     /\ Wanted \subseteq buffer \cup RecordsOf(srv.ver)
SafeInv ==
    Calm => IF page = "open" THEN SafeOnPage
            ELSE Wanted \subseteq srv.body \cup RecordsOf(srv.ver)

TextInv ==
    /\ TextType /\ Coherent /\ Past /\ Typed /\ Flags
    /\ ClobberInv /\ ScreenInv /\ QuietInv /\ SummaryInv
CalmInv == Calm => Alone /\ SafeInv

(* A write of the row takes the next version.                               *)
LEMMA NextVersion ==
    ASSUME PartsAssumption, srv \in Editor!Row
    PROVE  /\ srv.ver \in Nat /\ srv.ver >= 1 /\ srv.body \in Editor!Body
           /\ 0 \in 0..MaxVer
           /\ srv.ver < MaxVer => srv.ver + 1 \in 1..MaxVer
BY DEF Editor!EditorSessionAssumption, Editor!Row

(* The type of the state.                                                   *)
LEMMA TextTypeStep ==
    ASSUME PartsAssumption, TextType, Editor!Next
    PROVE  TextType'
<1> USE DEF TextType, Single, Editor!Row, Editor!Record, Editor!Request, Editor!Body,
   Editor!Peril, Editor!copies, Editor!restore, Editor!history
<1>1. CASE Editor!Open
  BY <1>1 DEF Editor!Open
<1>2. CASE Editor!Load
  BY <1>2 DEF Editor!Load
<1>3. CASE Editor!Close
  BY <1>3 DEF Editor!Close, Editor!Meets
<1>4. ASSUME NEW e \in Editor!Mine, Editor!TypeEarly(e) PROVE TextType'
  <2>1. doc \cup {e} \in Editor!Body /\ perils' \subseteq Editor!Peril
    BY <1>4 DEF Editor!TypeEarly, Editor!Meets, Editor!Body, Editor!Peril
  <2> QED BY <1>4, <2>1 DEF Editor!TypeEarly
<1>5. ASSUME NEW e \in Editor!Mine, Editor!Type(e) PROVE TextType'
  <2>1. doc \cup {e} \in Editor!Body
    BY DEF Editor!Body
  <2>2. perils' \subseteq Editor!Peril
    BY <1>5 DEF Editor!Type, Editor!Peril
  <2>3. [body |-> doc \cup {e}, ver |-> cache.ver] \in Editor!Record
    BY <2>1 DEF Editor!Record, Editor!Row
  <2> QED BY <1>5, <2>1, <2>2, <2>3 DEF Editor!Type, Editor!Persist
<1>6. CASE Editor!Decide
  BY <1>6 DEF Editor!Decide, Editor!Decision
<1>7. CASE Editor!Restore
  BY <1>7 DEF Editor!Restore, Editor!Persist
<1>8. CASE Editor!Discard
  BY <1>8 DEF Editor!Discard
<1>9. CASE Editor!Save
  BY <1>9 DEF Editor!Save, Editor!Sends
<1>10. CASE Editor!Overwrite
  BY <1>10, NextVersion DEF Editor!Overwrite, Editor!Sends, Editor!Unconditional
<1>11. CASE Editor!Patch
  <2>1. srv.ver \in Nat /\ srv.body \in Editor!Body /\ (srv.ver < MaxVer => srv.ver + 1 \in 1..MaxVer)
    BY NextVersion

  <2>2. srv' \in Editor!Row /\ clobbered' \in BOOLEAN
    <3>1. CASE UNCHANGED <<srv, clobbered>>
      BY <3>1
    <3>2. CASE \E s \in save : Editor!Writes(s)
      BY <2>1, <3>2 DEF Editor!Writes, Editor!Row
    <3> QED BY <1>11, <3>1, <3>2 DEF Editor!Patch
  <2>3. PICK s \in save, pc \in {"applied", "refused"} : save' = {[s EXCEPT !.pc = pc]}
    BY <1>11 DEF Editor!Patch
  <2> QED BY <1>11, <2>2, <2>3 DEF Editor!Patch
<1>12. CASE Editor!ReadBack
  <2>1. PICK s \in save : save' = {[s EXCEPT !.pc = "read", !.ans = srv]}
    BY <1>12 DEF Editor!ReadBack
  <2>2. UNCHANGED <<srv, page, cache, doc, buffer, base, pinned, conflict, fetch, flight, local,
                    lookup, offer, clobbered, summary, perils>>
    BY <1>12 DEF Editor!ReadBack
  <2> DEFINE Saves == [pc : {"sent", "applied", "refused", "read"}, body : Editor!Body,
                       exp : 0..MaxVer, hook : BOOLEAN, ans : Editor!Row]
  <2>3. s \in Saves /\ srv \in Editor!Row
    BY <2>1 DEF TextType
  <2>4. [s EXCEPT !.pc = "read", !.ans = srv] \in Saves
    <3> HIDE DEF TextType
    <3> QED BY <2>3
  <2>5. save' \subseteq Saves /\ Single(save')
    BY <2>1, <2>4
  <2> QED BY <2>2, <2>5
<1>13. CASE Editor!Settle
  BY <1>13 DEF Editor!Settle, Editor!Caches, Editor!Shows, Editor!Meets
<1>14. CASE Editor!Fails
  BY <1>14 DEF Editor!Fails, Editor!Meets
<1>15. CASE Editor!Refetch
  BY <1>15 DEF Editor!Refetch, Editor!Gets
<1>16. CASE Editor!Reload
  BY <1>16 DEF Editor!Reload, Editor!Gets
<1>17. CASE Editor!Arrive
  <2> PICK f \in fetch :
          /\ fetch' = {} /\ cache' = f.row /\ pinned' \in {pinned, TRUE} /\ conflict' \in {conflict, FALSE}
          /\ doc' \in {doc, f.row.body} /\ buffer' \in {buffer, f.row.body}
          /\ local' \in {local, {[body |-> f.row.body, ver |-> f.row.ver]}}
          /\ perils' \in {perils, perils \cup {"moved"}}
    BY <1>17 DEF Editor!Arrive, Editor!Caches, Editor!Shows, Editor!Meets
  <2>1. f.row \in Editor!Row /\ f.row.body \in Editor!Body /\ f.row.ver \in 1..MaxVer
    BY DEF Editor!Row
  <2>2. [body |-> f.row.body, ver |-> f.row.ver] \in Editor!Record
    BY <2>1 DEF Editor!Record
  <2> HIDE DEF TextType
  <2>3. UNCHANGED <<srv, page, base, save, flight, lookup, offer, clobbered, summary>>
    BY <1>17 DEF Editor!Arrive
  <2>4. Single(local')
    BY DEF TextType
  <2>5. cache' \in Editor!Row /\ fetch' = {} /\ doc' \in Editor!Body /\ buffer' \in Editor!Body
    BY <2>1 DEF TextType
  <2>6. pinned' \in BOOLEAN /\ conflict' \in BOOLEAN
    BY DEF TextType
  <2>7. local' \subseteq Editor!Record
    BY <2>2 DEF TextType
  <2>8. perils' \subseteq Editor!Peril
    BY DEF TextType, Editor!Peril
  <2> QED BY <2>3, <2>4, <2>5, <2>6, <2>7, <2>8 DEF TextType
<1>18. CASE Editor!Flush
  BY <1>18 DEF Editor!Flush, Editor!Meets
<1>19. CASE Editor!FlushArrives
  <2>1. srv.ver \in Nat /\ srv.body \in Editor!Body /\ (srv.ver < MaxVer => srv.ver + 1 \in 1..MaxVer)
    BY NextVersion

  <2>2. srv' \in Editor!Row /\ clobbered' \in BOOLEAN
    <3>1. CASE UNCHANGED <<srv, clobbered>>
      BY <3>1
    <3>2. CASE \E r \in flight : Editor!Writes(r)
      BY <2>1, <3>2 DEF Editor!Writes
    <3> QED BY <1>19, <3>1, <3>2 DEF Editor!FlushArrives
  <2> QED BY <1>19, <2>2 DEF Editor!FlushArrives
<1>20. CASE Editor!FlushIsLost
  BY <1>20 DEF Editor!FlushIsLost
<1>21. CASE Editor!Summarise
  BY <1>21 DEF Editor!Summarise
<1>22. CASE Editor!SummaryStored
  <2>1. srv.ver \in Nat /\ srv.body \in Editor!Body /\ (srv.ver < MaxVer => srv.ver + 1 \in 1..MaxVer)
    BY NextVersion

  <2>2. /\ srv' = [body |-> srv.body, ver |-> srv.ver + 1]
        /\ summary'.pc = "stored" /\ summary'.of = summary.of /\ summary'.ver = srv.ver + 1
        /\ summary' = [pc |-> "stored", of |-> summary.of, ver |-> srv.ver + 1]
    BY <1>22 DEF Editor!SummaryStored, Editor!Row
  <2>3. perils' \subseteq Editor!Peril
    BY <1>22 DEF Editor!SummaryStored, Editor!Peril
  <2> QED BY <1>22, <2>1, <2>2, <2>3 DEF Editor!SummaryStored, Editor!Row
<1>23. ASSUME NEW e \in Editor!Theirs, Editor!Elsewhere(e) PROVE TextType'
  <2>1. srv.ver \in Nat /\ srv.body \in Editor!Body /\ (srv.ver < MaxVer => srv.ver + 1 \in 1..MaxVer)
    BY NextVersion

  <2>2. srv.body \cup {e} \in Editor!Body
    BY <2>1 DEF Editor!Body
  <2>3. perils' \subseteq Editor!Peril
    BY <1>23 DEF Editor!Elsewhere, Editor!Meets, Editor!Peril
  <2> QED BY <1>23, <2>1, <2>2, <2>3 DEF Editor!Elsewhere, Editor!Row
<1> QED BY <1>1, <1>2, <1>3, <1>4, <1>5, <1>6, <1>7, <1>8, <1>9, <1>10, <1>11, <1>12, <1>13,
   <1>14, <1>15, <1>16, <1>17, <1>18, <1>19, <1>20, <1>21, <1>22, <1>23 DEF Editor!Next

(* A copy of the row is the row as it is, or an older copy; a write is of a *)
(* newer version than all of them.                                          *)
LEMMA CoherentStep ==
    ASSUME PartsAssumption, TextType, Coherent, Editor!Next
    PROVE  Coherent'
<1> USE DEF TextType, Single, Coherent, Rows, Editor!Row, Editor!Body, Editor!copies,
   Editor!restore, Editor!history
<1>1. CASE Editor!Open
  BY <1>1 DEF Editor!Open
<1>2. CASE Editor!Load
  BY <1>2 DEF Editor!Load
<1>3. CASE Editor!Close
  BY <1>3 DEF Editor!Close, Editor!Meets
<1>4. ASSUME NEW e \in Editor!Mine, Editor!TypeEarly(e) PROVE Coherent'
  BY <1>4 DEF Editor!TypeEarly, Editor!Meets, Editor!Fresh
<1>5. ASSUME NEW e \in Editor!Mine, Editor!Type(e) PROVE Coherent'
  BY <1>5 DEF Editor!Type, Editor!Fresh, Editor!Persist
<1>6. CASE Editor!Decide
  BY <1>6 DEF Editor!Decide, Editor!Decision
<1>7. CASE Editor!Restore
  BY <1>7 DEF Editor!Restore, Editor!Persist
<1>8. CASE Editor!Discard
  BY <1>8 DEF Editor!Discard
<1>9. CASE Editor!Save
  BY <1>9 DEF Editor!Save, Editor!Sends
<1>10. CASE Editor!Overwrite
  BY <1>10 DEF Editor!Overwrite, Editor!Sends, Editor!Unconditional
<1>11. CASE Editor!Patch
  BY <1>11 DEF Editor!Patch, Editor!Admits, Editor!Writes, Editor!Unconditional
<1>12. CASE Editor!ReadBack
  <2> PICK s \in save : save' = {[s EXCEPT !.pc = "read", !.ans = srv]}
    BY <1>12 DEF Editor!ReadBack
  <2>1. \A t \in save' : t.ans = srv
    OBVIOUS
  <2>2. UNCHANGED <<srv, cache, fetch>>
    BY <1>12 DEF Editor!ReadBack
  <2>3. Rows' \subseteq Rows
    BY <2>1, <2>2
  <2> HIDE DEF Rows, TextType
  <2> QED BY <2>2, <2>3
<1>13. CASE Editor!Settle
  BY <1>13 DEF Editor!Settle, Editor!Caches, Editor!Shows, Editor!Meets
<1>14. CASE Editor!Fails
  BY <1>14 DEF Editor!Fails, Editor!Meets
<1>15. CASE Editor!Refetch
  BY <1>15 DEF Editor!Refetch, Editor!Gets
<1>16. CASE Editor!Reload
  BY <1>16 DEF Editor!Reload, Editor!Gets
<1>17. CASE Editor!Arrive
  BY <1>17 DEF Editor!Arrive, Editor!Caches, Editor!Shows, Editor!Meets
<1>18. CASE Editor!Flush
  BY <1>18 DEF Editor!Flush, Editor!Meets
<1>19. CASE Editor!FlushArrives
  BY <1>19 DEF Editor!FlushArrives, Editor!Admits, Editor!Writes, Editor!Unconditional
<1>20. CASE Editor!FlushIsLost
  BY <1>20 DEF Editor!FlushIsLost
<1>21. CASE Editor!Summarise
  BY <1>21 DEF Editor!Summarise
<1>22. CASE Editor!SummaryStored
  BY <1>22 DEF Editor!SummaryStored
<1>23. ASSUME NEW e \in Editor!Theirs, Editor!Elsewhere(e) PROVE Coherent'
  <2>1. srv'.ver = srv.ver + 1 /\ srv.ver \in Nat /\ UNCHANGED <<cache, save, fetch>>
    BY <1>23 DEF Editor!Elsewhere
  <2> QED BY <2>1
<1> QED BY <1>1, <1>2, <1>3, <1>4, <1>5, <1>6, <1>7, <1>8, <1>9, <1>10, <1>11, <1>12, <1>13,
   <1>14, <1>15, <1>16, <1>17, <1>18, <1>19, <1>20, <1>21, <1>22, <1>23 DEF Editor!Next

(* No request and no record is of a version later than the row's.           *)
LEMMA PastStep ==
    ASSUME PartsAssumption, TextType, Coherent, Past, Editor!Next
    PROVE  Past'
<1> USE DEF TextType, Single, Coherent, Rows, Past, Editor!Row, Editor!Body, Editor!Record,
   Editor!Request, Editor!copies, Editor!restore, Editor!history
<1>1. CASE Editor!Open
  BY <1>1 DEF Editor!Open
<1>2. CASE Editor!Load
  BY <1>2 DEF Editor!Load
<1>3. CASE Editor!Close
  BY <1>3 DEF Editor!Close, Editor!Meets
<1>4. ASSUME NEW e \in Editor!Mine, Editor!TypeEarly(e) PROVE Past'
  BY <1>4 DEF Editor!TypeEarly, Editor!Meets, Editor!Fresh
<1>5. ASSUME NEW e \in Editor!Mine, Editor!Type(e) PROVE Past'
  BY <1>5 DEF Editor!Type, Editor!Fresh, Editor!Persist
<1>6. CASE Editor!Decide
  BY <1>6 DEF Editor!Decide, Editor!Decision
<1>7. CASE Editor!Restore
  BY <1>7 DEF Editor!Restore, Editor!Persist
<1>8. CASE Editor!Discard
  BY <1>8 DEF Editor!Discard
<1>9. CASE Editor!Save
  BY <1>9 DEF Editor!Save, Editor!Sends
<1>10. CASE Editor!Overwrite
  BY <1>10 DEF Editor!Overwrite, Editor!Sends, Editor!Unconditional
<1>11. CASE Editor!Patch
  <2>1. srv.ver \in Nat /\ srv'.ver \in {srv.ver, srv.ver + 1}
    BY <1>11 DEF Editor!Patch, Editor!Writes
  <2>2. \A t \in save' : \E s \in save : t.exp = s.exp
    BY <1>11 DEF Editor!Patch
  <2>3. UNCHANGED <<flight, local, lookup, offer>>
    BY <1>11 DEF Editor!Patch
  <2> QED BY <2>1, <2>2, <2>3
<1>12. CASE Editor!ReadBack
  BY <1>12 DEF Editor!ReadBack
<1>13. CASE Editor!Settle
  BY <1>13 DEF Editor!Settle, Editor!Caches, Editor!Shows, Editor!Meets
<1>14. CASE Editor!Fails
  BY <1>14 DEF Editor!Fails, Editor!Meets
<1>15. CASE Editor!Refetch
  BY <1>15 DEF Editor!Refetch, Editor!Gets
<1>16. CASE Editor!Reload
  BY <1>16 DEF Editor!Reload, Editor!Gets
<1>17. CASE Editor!Arrive
  BY <1>17 DEF Editor!Arrive, Editor!Caches, Editor!Shows, Editor!Meets
<1>18. CASE Editor!Flush
  BY <1>18 DEF Editor!Flush, Editor!Meets
<1>19. CASE Editor!FlushArrives
  <2>1. srv.ver \in Nat /\ srv'.ver \in {srv.ver, srv.ver + 1}
    BY <1>19 DEF Editor!FlushArrives, Editor!Writes
  <2>2. flight' \subseteq flight /\ UNCHANGED <<save, local, lookup, offer>>
    BY <1>19 DEF Editor!FlushArrives
  <2> QED BY <2>1, <2>2
<1>20. CASE Editor!FlushIsLost
  BY <1>20 DEF Editor!FlushIsLost
<1>21. CASE Editor!Summarise
  BY <1>21 DEF Editor!Summarise
<1>22. CASE Editor!SummaryStored
  <2>1. srv.ver \in Nat /\ srv'.ver = srv.ver + 1
    BY <1>22 DEF Editor!SummaryStored
  <2>2. UNCHANGED <<save, flight, local, lookup, offer>>
    BY <1>22 DEF Editor!SummaryStored
  <2> QED BY <2>1, <2>2
<1>23. ASSUME NEW e \in Editor!Theirs, Editor!Elsewhere(e) PROVE Past'
  <2>1. srv.ver \in Nat /\ srv'.ver = srv.ver + 1
    BY <1>23 DEF Editor!Elsewhere
  <2>2. UNCHANGED <<save, flight, local, lookup, offer>>
    BY <1>23 DEF Editor!Elsewhere
  <2> QED BY <2>1, <2>2
<1> QED BY <1>1, <1>2, <1>3, <1>4, <1>5, <1>6, <1>7, <1>8, <1>9, <1>10, <1>11, <1>12, <1>13,
   <1>14, <1>15, <1>16, <1>17, <1>18, <1>19, <1>20, <1>21, <1>22, <1>23 DEF Editor!Next

(* Edits are numbered in the order they are typed.                          *)
LEMMA FreshIsNext ==
    ASSUME NEW n \in 0..MaxMine, written = 1..n, PartsAssumption, NEW e, Editor!Fresh(e)
    PROVE  e = n + 1 /\ written \cup {e} = 1..n + 1 /\ n + 1 \in 0..MaxMine
<1>1. MaxMine \in Nat /\ n \in Nat
  BY PartsAssumption DEF Editor!EditorSessionAssumption
<1>2. Cardinality(1..n) = n
  BY <1>1, FS_Interval
<1>3. e = n + 1 /\ e \in 1..MaxMine
  BY <1>2 DEF Editor!Fresh, Editor!Cardinality, Cardinality, Editor!Mine
<1> QED BY <1>1, <1>3

(* Every text is made of what was typed before.                             *)
LEMMA TypedStep ==
    ASSUME PartsAssumption, TextType, Typed, Editor!Next
    PROVE  Typed'
<1> USE DEF TextType, Single, Typed, Texts, Editor!copies, Editor!restore, Editor!history
<1>1. CASE Editor!Open
  BY <1>1 DEF Editor!Open
<1>2. CASE Editor!Load
  BY <1>2 DEF Editor!Load
<1>3. CASE Editor!Close
  BY <1>3 DEF Editor!Close, Editor!Meets
<1>4. ASSUME NEW e \in Editor!Mine, Editor!TypeEarly(e) PROVE Typed'
  <2> PICK n \in 0..MaxMine : written = 1..n
    OBVIOUS
  <2>1. e = n + 1 /\ written' = 1..n + 1 /\ n + 1 \in 0..MaxMine /\ written \subseteq written'
    BY <1>4, FreshIsNext DEF Editor!TypeEarly
  <2>2. \A b \in Texts' : b \in Texts \/ b = doc \cup {e}
    BY <1>4 DEF Editor!TypeEarly
  <2>3. doc \in Texts
    OBVIOUS
  <2> HIDE DEF Texts
  <2>4. e \in written'
    BY <1>4 DEF Editor!TypeEarly
  <2>5. \A b \in Texts' : Editor!Mine \cap b \subseteq written'
    BY <2>1, <2>2, <2>3, <2>4
  <2> QED BY <2>1, <2>5
<1>5. ASSUME NEW e \in Editor!Mine, Editor!Type(e) PROVE Typed'
  <2> PICK n \in 0..MaxMine : written = 1..n
    OBVIOUS
  <2>1. e = n + 1 /\ written' = 1..n + 1 /\ n + 1 \in 0..MaxMine /\ written \subseteq written'
    BY <1>5, FreshIsNext DEF Editor!Type
  <2>2. \A b \in Texts' : b \in Texts \/ b = doc \cup {e}
    BY <1>5 DEF Editor!Type, Editor!Persist
  <2>3. doc \in Texts
    OBVIOUS
  <2> HIDE DEF Texts
  <2>4. e \in written'
    BY <1>5 DEF Editor!Type, Editor!Persist
  <2>5. \A b \in Texts' : Editor!Mine \cap b \subseteq written'
    BY <2>1, <2>2, <2>3, <2>4
  <2> QED BY <2>1, <2>5
<1>6. CASE Editor!Decide
  <2>1. lookup' = {} /\ offer' \subseteq offer \cup lookup /\ local' \subseteq local
    BY <1>6 DEF Editor!Decide
  <2>2. UNCHANGED <<written, srv, doc, buffer, base, cache, save, fetch, flight>>
    BY <1>6 DEF Editor!Decide
  <2>3. Texts' \subseteq Texts
    BY <2>1, <2>2
  <2> HIDE DEF Texts
  <2> QED BY <2>2, <2>3
<1>7. CASE Editor!Restore
  BY <1>7 DEF Editor!Restore, Editor!Persist
<1>8. CASE Editor!Discard
  BY <1>8 DEF Editor!Discard
<1>9. CASE Editor!Save
  BY <1>9 DEF Editor!Save, Editor!Sends
<1>10. CASE Editor!Overwrite
  BY <1>10 DEF Editor!Overwrite, Editor!Sends, Editor!Unconditional
<1>11. CASE Editor!Patch
  <2> PICK s \in save : \/ srv'.body = s.body \/ srv' = srv
    BY <1>11 DEF Editor!Patch, Editor!Writes
  <2>1. \A t \in save' : \E q \in save : t.body = q.body /\ t.ans = q.ans
    BY <1>11 DEF Editor!Patch
  <2>2. UNCHANGED <<written, doc, buffer, base, cache, fetch, flight, local, lookup, offer>>
    BY <1>11 DEF Editor!Patch
  <2>3. Texts' \subseteq Texts
    BY <2>1, <2>2
  <2> HIDE DEF Texts
  <2> QED BY <2>2, <2>3
<1>12. CASE Editor!ReadBack
  <2>1. \A t \in save' : \E q \in save : t.body = q.body /\ t.ans = srv
    BY <1>12 DEF Editor!ReadBack
  <2>2. UNCHANGED <<written, srv, doc, buffer, base, cache, fetch, flight, local, lookup, offer>>
    BY <1>12 DEF Editor!ReadBack
  <2>3. Texts' \subseteq Texts
    BY <2>1, <2>2
  <2> HIDE DEF Texts
  <2> QED BY <2>2, <2>3
<1>13. CASE Editor!Settle
  BY <1>13 DEF Editor!Settle, Editor!Caches, Editor!Shows, Editor!Meets
<1>14. CASE Editor!Fails
  BY <1>14 DEF Editor!Fails, Editor!Meets
<1>15. CASE Editor!Refetch
  BY <1>15 DEF Editor!Refetch, Editor!Gets
<1>16. CASE Editor!Reload
  BY <1>16 DEF Editor!Reload, Editor!Gets
<1>17. CASE Editor!Arrive
  BY <1>17 DEF Editor!Arrive, Editor!Caches, Editor!Shows, Editor!Meets
<1>18. CASE Editor!Flush
  BY <1>18 DEF Editor!Flush, Editor!Meets
<1>19. CASE Editor!FlushArrives
  <2> PICK r \in flight : \/ srv'.body = r.body \/ srv' = srv
    BY <1>19 DEF Editor!FlushArrives, Editor!Writes
  <2>1. srv'.body \in {r.body, srv.body} /\ flight' \subseteq flight
    BY <1>19 DEF Editor!FlushArrives
  <2>2. UNCHANGED <<written, save, doc, buffer, base, cache, fetch, local, lookup, offer>>
    BY <1>19 DEF Editor!FlushArrives
  <2>3. Texts' \subseteq Texts
    BY <2>1, <2>2
  <2> HIDE DEF Texts
  <2> QED BY <2>2, <2>3
<1>20. CASE Editor!FlushIsLost
  BY <1>20 DEF Editor!FlushIsLost
<1>21. CASE Editor!Summarise
  BY <1>21 DEF Editor!Summarise
<1>22. CASE Editor!SummaryStored
  <2>1. srv'.body = srv.body
    BY <1>22 DEF Editor!SummaryStored, Editor!Row
  <2>2. UNCHANGED <<written, save, doc, buffer, base, cache, fetch, flight, local, lookup, offer>>
    BY <1>22 DEF Editor!SummaryStored
  <2>3. Texts' = Texts
    BY <2>1, <2>2
  <2> HIDE DEF Texts
  <2> QED BY <2>2, <2>3
<1>23. ASSUME NEW e \in Editor!Theirs, Editor!Elsewhere(e) PROVE Typed'
  <2>1. srv'.body = srv.body \cup {e} /\ e \notin Editor!Mine
    BY <1>23, PartsAssumption
       DEF Editor!Elsewhere, Editor!Mine, Editor!Theirs, Editor!EditorSessionAssumption
  <2>2. UNCHANGED <<written, save, doc, buffer, base, cache, fetch, flight, local, lookup, offer>>
    BY <1>23 DEF Editor!Elsewhere
  <2>3. \A b \in Texts' : b \in Texts \/ b = srv.body \cup {e}
    BY <2>1, <2>2
  <2>4. srv.body \in Texts
    OBVIOUS
  <2> HIDE DEF Texts
  <2>5. \A b \in Texts' : Editor!Mine \cap b \subseteq written
    BY <2>1, <2>3, <2>4
  <2> QED BY <2>2, <2>5
<1> QED BY <1>1, <1>2, <1>3, <1>4, <1>5, <1>6, <1>7, <1>8, <1>9, <1>10, <1>11, <1>12, <1>13,
   <1>14, <1>15, <1>16, <1>17, <1>18, <1>19, <1>20, <1>21, <1>22, <1>23 DEF Editor!Next

(* What ends with the page, and what a conflict and a save presuppose.      *)
LEMMA FlagsStep ==
    ASSUME PartsAssumption, TextType, Coherent, Typed, Flags, Editor!Next
    PROVE  Flags'
<1> USE DEF TextType, Single, Flags, Coherent, Rows, Editor!Dirty, Editor!copies,
   Editor!restore, Editor!history
<1>1. CASE Editor!Open
  BY <1>1 DEF Editor!Open
<1>2. CASE Editor!Load
  BY <1>2 DEF Editor!Load
<1>3. CASE Editor!Close
  BY <1>3 DEF Editor!Close, Editor!Meets
<1>4. ASSUME NEW e \in Editor!Mine, Editor!TypeEarly(e) PROVE Flags'
  BY <1>4 DEF Editor!TypeEarly, Editor!Meets, Editor!Fresh
<1>5. ASSUME NEW e \in Editor!Mine, Editor!Type(e) PROVE Flags'
  <2>1. e \notin base
    <3> PICK n \in 0..MaxMine : written = 1..n
      BY DEF Typed
    <3>1. e = n + 1 /\ n \in Nat
      BY <1>5, FreshIsNext DEF Editor!Type
    <3>2. base \cap Editor!Mine \subseteq 1..n
      BY DEF Typed, Texts
    <3> QED BY <3>1, <3>2
  <2>2. e \in buffer' /\ UNCHANGED <<page, cache, base, pinned, conflict, save, fetch, lookup, offer>>
    BY <1>5 DEF Editor!Type
  <2> QED BY <2>1, <2>2
<1>6. CASE Editor!Decide
  BY <1>6 DEF Editor!Decide, Editor!Decision
<1>7. CASE Editor!Restore
  BY <1>7 DEF Editor!Restore, Editor!Persist
<1>8. CASE Editor!Discard
  BY <1>8 DEF Editor!Discard
<1>9. CASE Editor!Save
  BY <1>9 DEF Editor!Save, Editor!Sends
<1>10. CASE Editor!Overwrite
  BY <1>10 DEF Editor!Overwrite, Editor!Sends, Editor!Unconditional
<1>11. CASE Editor!Patch
  BY <1>11 DEF Editor!Patch, Editor!Admits, Editor!Writes, Editor!Unconditional
<1>12. CASE Editor!ReadBack
  BY <1>12 DEF Editor!ReadBack
<1>13. CASE Editor!Settle
  BY <1>13 DEF Editor!Settle, Editor!Caches, Editor!Shows, Editor!Meets
<1>14. CASE Editor!Fails
  BY <1>14 DEF Editor!Fails, Editor!Meets
<1>15. CASE Editor!Refetch
  BY <1>15 DEF Editor!Refetch, Editor!Gets
<1>16. CASE Editor!Reload
  BY <1>16 DEF Editor!Reload, Editor!Gets
<1>17. CASE Editor!Arrive
  BY <1>17 DEF Editor!Arrive, Editor!Caches, Editor!Shows, Editor!Meets
<1>18. CASE Editor!Flush
  BY <1>18 DEF Editor!Flush, Editor!Meets
<1>19. CASE Editor!FlushArrives
  BY <1>19 DEF Editor!FlushArrives, Editor!Admits, Editor!Writes, Editor!Unconditional
<1>20. CASE Editor!FlushIsLost
  BY <1>20 DEF Editor!FlushIsLost
<1>21. CASE Editor!Summarise
  BY <1>21 DEF Editor!Summarise
<1>22. CASE Editor!SummaryStored
  BY <1>22 DEF Editor!SummaryStored
<1>23. ASSUME NEW e \in Editor!Theirs, Editor!Elsewhere(e) PROVE Flags'
  BY <1>23 DEF Editor!Elsewhere, Editor!Meets
<1> QED BY <1>1, <1>2, <1>3, <1>4, <1>5, <1>6, <1>7, <1>8, <1>9, <1>10, <1>11, <1>12, <1>13,
   <1>14, <1>15, <1>16, <1>17, <1>18, <1>19, <1>20, <1>21, <1>22, <1>23 DEF Editor!Next

(* Unsaved text is on screen.                                               *)
LEMMA ScreenStep ==
    ASSUME PartsAssumption, TextType, Coherent, Flags, ScreenInv, Editor!Next
    PROVE  ScreenInv'
<1> USE DEF TextType, Single, Flags, ScreenInv, Editor!Dirty, Editor!copies, Editor!restore,
   Editor!history
<1>1. CASE Editor!Open
  BY <1>1 DEF Editor!Open
<1>2. CASE Editor!Load
  BY <1>2 DEF Editor!Load
<1>3. CASE Editor!Close
  BY <1>3 DEF Editor!Close, Editor!Meets
<1>4. ASSUME NEW e \in Editor!Mine, Editor!TypeEarly(e) PROVE ScreenInv'
  BY <1>4 DEF Editor!TypeEarly, Editor!Meets, Editor!Fresh
<1>5. ASSUME NEW e \in Editor!Mine, Editor!Type(e) PROVE ScreenInv'
  BY <1>5 DEF Editor!Type, Editor!Fresh, Editor!Persist
<1>6. CASE Editor!Decide
  BY <1>6 DEF Editor!Decide, Editor!Decision
<1>7. CASE Editor!Restore
  BY <1>7 DEF Editor!Restore, Editor!Persist
<1>8. CASE Editor!Discard
  BY <1>8 DEF Editor!Discard
<1>9. CASE Editor!Save
  BY <1>9 DEF Editor!Save, Editor!Sends
<1>10. CASE Editor!Overwrite
  BY <1>10 DEF Editor!Overwrite, Editor!Sends, Editor!Unconditional
<1>11. CASE Editor!Patch
  BY <1>11 DEF Editor!Patch, Editor!Admits, Editor!Writes, Editor!Unconditional
<1>12. CASE Editor!ReadBack
  BY <1>12 DEF Editor!ReadBack
<1>13. CASE Editor!Settle
  BY <1>13 DEF Editor!Settle, Editor!Caches, Editor!Shows, Editor!Meets
<1>14. CASE Editor!Fails
  BY <1>14 DEF Editor!Fails, Editor!Meets
<1>15. CASE Editor!Refetch
  BY <1>15 DEF Editor!Refetch, Editor!Gets
<1>16. CASE Editor!Reload
  BY <1>16 DEF Editor!Reload, Editor!Gets
<1>17. CASE Editor!Arrive
  <2> PICK f \in fetch :
          /\ cache' = f.row
          /\ IF f.reload THEN doc' = f.row.body /\ buffer' = f.row.body /\ pinned'
             ELSE /\ Editor!Shows(f.row.body) /\ Editor!Meets(Editor!Moves(f.row), "moved")
                  /\ UNCHANGED <<buffer, pinned>>
    BY <1>17 DEF Editor!Arrive, Editor!Caches
  <2>1. UNCHANGED <<page, base, save>>
    BY <1>17 DEF Editor!Arrive
  <2>2. CASE f.reload
    BY <2>1, <2>2
  <2>3. CASE ~f.reload
    <3>1. f.row.ver = cache.ver => f.row.body = cache.body
      BY DEF Coherent, Rows
    <3>2. perils \subseteq perils' /\ ("moved" \notin perils' => ~Editor!Moves(f.row))
      BY <2>3 DEF Editor!Meets
    <3>3. doc' = doc \/ (~pinned /\ f.row.body # cache.body)
      BY <2>3 DEF Editor!Shows
    <3> QED BY <2>1, <2>3, <3>1, <3>2, <3>3 DEF Editor!Moves
  <2> QED BY <2>2, <2>3
<1>18. CASE Editor!Flush
  BY <1>18 DEF Editor!Flush, Editor!Meets
<1>19. CASE Editor!FlushArrives
  BY <1>19 DEF Editor!FlushArrives, Editor!Admits, Editor!Writes, Editor!Unconditional
<1>20. CASE Editor!FlushIsLost
  BY <1>20 DEF Editor!FlushIsLost
<1>21. CASE Editor!Summarise
  BY <1>21 DEF Editor!Summarise
<1>22. CASE Editor!SummaryStored
  BY <1>22 DEF Editor!SummaryStored
<1>23. ASSUME NEW e \in Editor!Theirs, Editor!Elsewhere(e) PROVE ScreenInv'
  BY <1>23 DEF Editor!Elsewhere, Editor!Meets
<1> QED BY <1>1, <1>2, <1>3, <1>4, <1>5, <1>6, <1>7, <1>8, <1>9, <1>10, <1>11, <1>12, <1>13,
   <1>14, <1>15, <1>16, <1>17, <1>18, <1>19, <1>20, <1>21, <1>22, <1>23 DEF Editor!Next

(* A page alone with the row has its version, but for an answer to come.    *)
LEMMA QuietStep ==
    ASSUME PartsAssumption, TextType, Coherent, Flags, QuietInv, Editor!Next
    PROVE  QuietInv'
<1> USE DEF TextType, Single, Flags, QuietInv, Alone, Writers, Editor!Row, Editor!copies,
   Editor!restore, Editor!history
<1>1. CASE Editor!Open
  BY <1>1 DEF Editor!Open
<1>2. CASE Editor!Load
  BY <1>2 DEF Editor!Load
<1>3. CASE Editor!Close
  BY <1>3 DEF Editor!Close, Editor!Meets
<1>4. ASSUME NEW e \in Editor!Mine, Editor!TypeEarly(e) PROVE QuietInv'
  BY <1>4 DEF Editor!TypeEarly, Editor!Meets, Editor!Fresh
<1>5. ASSUME NEW e \in Editor!Mine, Editor!Type(e) PROVE QuietInv'
  BY <1>5 DEF Editor!Type, Editor!Fresh, Editor!Persist
<1>6. CASE Editor!Decide
  BY <1>6 DEF Editor!Decide, Editor!Decision
<1>7. CASE Editor!Restore
  BY <1>7 DEF Editor!Restore, Editor!Persist
<1>8. CASE Editor!Discard
  BY <1>8 DEF Editor!Discard
<1>9. CASE Editor!Save
  BY <1>9 DEF Editor!Save, Editor!Sends
<1>10. CASE Editor!Overwrite
  BY <1>10 DEF Editor!Overwrite, Editor!Sends, Editor!Unconditional
<1>11. CASE Editor!Patch
  <2> PICK s \in save :
          /\ s.pc = "sent"
          /\ IF Editor!Admits(s) THEN save' = {[s EXCEPT !.pc = "applied"]}
             ELSE save' = {[s EXCEPT !.pc = "refused"]} /\ UNCHANGED srv
    BY <1>11 DEF Editor!Patch
  <2>1. UNCHANGED <<page, cache, conflict, flight, perils>>
    BY <1>11 DEF Editor!Patch
  <2>2. Alone => Editor!Admits(s)
    BY DEF Editor!Admits, Editor!Unconditional
  <2>3. Alone => \A t \in save' : t.pc = "applied"
    BY <2>2
  <2>4. Alone => save' # {}
    BY <2>2
  <2>5. Alone' => Alone /\ ~conflict /\ flight = {}
    BY <2>1
  <2> QED BY <2>1, <2>3, <2>4, <2>5
<1>12. CASE Editor!ReadBack
  BY <1>12 DEF Editor!ReadBack
<1>13. CASE Editor!Settle
  BY <1>13 DEF Editor!Settle, Editor!Caches, Editor!Shows, Editor!Meets
<1>14. CASE Editor!Fails
  BY <1>14 DEF Editor!Fails, Editor!Meets
<1>15. CASE Editor!Refetch
  BY <1>15 DEF Editor!Refetch, Editor!Gets
<1>16. CASE Editor!Reload
  BY <1>16 DEF Editor!Reload, Editor!Gets
<1>17. CASE Editor!Arrive
  <2> PICK f \in fetch :
          /\ cache' = f.row
          /\ ~f.reload => Editor!Meets(Editor!Moves(f.row), "moved") /\ UNCHANGED conflict
    BY <1>17 DEF Editor!Arrive, Editor!Caches
  <2>1. UNCHANGED <<srv, page, save, flight>> /\ perils \subseteq perils'
    BY <1>17 DEF Editor!Arrive, Editor!Meets
  <2>2. ASSUME Alone' PROVE Alone /\ ~f.reload /\ ~Editor!Moves(f.row)
    BY <2>1, <2>2 DEF Editor!Meets
  <2>3. f.row.ver <= srv.ver /\ f.row.ver \in Nat /\ cache.ver \in Nat /\ srv.ver \in Nat
    BY DEF Coherent, Rows
  <2>4. Alone' => f.row.ver >= cache.ver
    BY <2>2, <2>3 DEF Editor!Moves
  <2> QED BY <2>1, <2>2, <2>3, <2>4
<1>18. CASE Editor!Flush
  BY <1>18 DEF Editor!Flush, Editor!Meets
<1>19. CASE Editor!FlushArrives
  BY <1>19 DEF Editor!FlushArrives, Editor!Admits, Editor!Writes, Editor!Unconditional
<1>20. CASE Editor!FlushIsLost
  BY <1>20 DEF Editor!FlushIsLost
<1>21. CASE Editor!Summarise
  BY <1>21 DEF Editor!Summarise
<1>22. CASE Editor!SummaryStored
  BY <1>22 DEF Editor!SummaryStored
<1>23. ASSUME NEW e \in Editor!Theirs, Editor!Elsewhere(e) PROVE QuietInv'
  BY <1>23 DEF Editor!Elsewhere, Editor!Meets
<1> QED BY <1>1, <1>2, <1>3, <1>4, <1>5, <1>6, <1>7, <1>8, <1>9, <1>10, <1>11, <1>12, <1>13,
   <1>14, <1>15, <1>16, <1>17, <1>18, <1>19, <1>20, <1>21, <1>22, <1>23 DEF Editor!Next

(* A summary stored is of the row it was asked for, unless that was         *)
(* overtaken.                                                               *)
LEMMA SummaryStep ==
    ASSUME PartsAssumption, TextType, Coherent, SummaryInv, Editor!Next
    PROVE  SummaryInv'
<1> USE DEF TextType, SummaryInv, Editor!Row, Editor!copies, Editor!restore, Editor!history
<1>1. CASE Editor!Open
  BY <1>1 DEF Editor!Open
<1>2. CASE Editor!Load
  BY <1>2 DEF Editor!Load
<1>3. CASE Editor!Close
  BY <1>3 DEF Editor!Close, Editor!Meets
<1>4. ASSUME NEW e \in Editor!Mine, Editor!TypeEarly(e) PROVE SummaryInv'
  BY <1>4 DEF Editor!TypeEarly, Editor!Meets, Editor!Fresh
<1>5. ASSUME NEW e \in Editor!Mine, Editor!Type(e) PROVE SummaryInv'
  BY <1>5 DEF Editor!Type, Editor!Fresh, Editor!Persist
<1>6. CASE Editor!Decide
  BY <1>6 DEF Editor!Decide, Editor!Decision
<1>7. CASE Editor!Restore
  BY <1>7 DEF Editor!Restore, Editor!Persist
<1>8. CASE Editor!Discard
  BY <1>8 DEF Editor!Discard
<1>9. CASE Editor!Save
  BY <1>9 DEF Editor!Save, Editor!Sends
<1>10. CASE Editor!Overwrite
  BY <1>10 DEF Editor!Overwrite, Editor!Sends, Editor!Unconditional
<1>11. CASE Editor!Patch
  BY <1>11 DEF Editor!Patch, Editor!Admits, Editor!Writes, Editor!Unconditional
<1>12. CASE Editor!ReadBack
  BY <1>12 DEF Editor!ReadBack
<1>13. CASE Editor!Settle
  BY <1>13 DEF Editor!Settle, Editor!Caches, Editor!Shows, Editor!Meets
<1>14. CASE Editor!Fails
  BY <1>14 DEF Editor!Fails, Editor!Meets
<1>15. CASE Editor!Refetch
  BY <1>15 DEF Editor!Refetch, Editor!Gets
<1>16. CASE Editor!Reload
  BY <1>16 DEF Editor!Reload, Editor!Gets
<1>17. CASE Editor!Arrive
  BY <1>17 DEF Editor!Arrive, Editor!Caches, Editor!Shows, Editor!Meets
<1>18. CASE Editor!Flush
  BY <1>18 DEF Editor!Flush, Editor!Meets
<1>19. CASE Editor!FlushArrives
  BY <1>19 DEF Editor!FlushArrives, Editor!Admits, Editor!Writes, Editor!Unconditional
<1>20. CASE Editor!FlushIsLost
  BY <1>20 DEF Editor!FlushIsLost
<1>21. CASE Editor!Summarise
  BY <1>21 DEF Editor!Summarise
<1>22. CASE Editor!SummaryStored
  BY <1>22 DEF Editor!SummaryStored
<1>23. ASSUME NEW e \in Editor!Theirs, Editor!Elsewhere(e) PROVE SummaryInv'
  BY <1>23 DEF Editor!Elsewhere, Editor!Meets
<1> QED BY <1>1, <1>2, <1>3, <1>4, <1>5, <1>6, <1>7, <1>8, <1>9, <1>10, <1>11, <1>12, <1>13,
   <1>14, <1>15, <1>16, <1>17, <1>18, <1>19, <1>20, <1>21, <1>22, <1>23 DEF Editor!Next

(* What names a version has drawn on it.                                    *)
LEMMA SourcedStep ==
    ASSUME PartsAssumption, TextType, Coherent, Past, Flags, ClobberInv, Editor!Next
    PROVE  (Unmoved => Sourced)'
<1> USE DEF ClobberInv, Sourced, OnPage, Draws, Unmoved, Has, AtWork, Coherent, Rows, Past,
   Flags, TextType, Single, Editor!Dirty, Editor!Row, Editor!copies, Editor!restore,
   Editor!history
<1>1. CASE Editor!Open
  BY <1>1 DEF Editor!Open
<1>2. CASE Editor!Load
  BY <1>2 DEF Editor!Load
<1>3. CASE Editor!Close
  BY <1>3 DEF Editor!Close, Editor!Meets
<1>4. ASSUME NEW e \in Editor!Mine, Editor!TypeEarly(e) PROVE (Unmoved => Sourced)'
  BY <1>4 DEF Editor!TypeEarly, Editor!Meets, Editor!Fresh
<1>5. ASSUME NEW e \in Editor!Mine, Editor!Type(e) PROVE (Unmoved => Sourced)'
  BY <1>5 DEF Editor!Type, Editor!Fresh, Editor!Persist
<1>6. CASE Editor!Decide
  BY <1>6 DEF Editor!Decide, Editor!Decision
<1>7. CASE Editor!Restore
  BY <1>7 DEF Editor!Restore, Editor!Persist
<1>8. CASE Editor!Discard
  BY <1>8 DEF Editor!Discard
<1>9. CASE Editor!Save
  BY <1>9 DEF Editor!Save, Editor!Sends
<1>10. CASE Editor!Overwrite
  BY <1>10 DEF Editor!Overwrite, Editor!Sends, Editor!Unconditional
<1>11. CASE Editor!Patch
  BY <1>11 DEF Editor!Patch, Editor!Admits, Editor!Writes, Editor!Unconditional
<1>12. CASE Editor!ReadBack
  <2> PICK s \in save : save' = {[s EXCEPT !.pc = "read", !.ans = srv]}
    BY <1>12 DEF Editor!ReadBack
  <2>1. \A t \in save' : t.body = s.body /\ t.exp = s.exp /\ t.ans = srv
    OBVIOUS
  <2>2. UNCHANGED <<srv, cache, fetch, flight, local, lookup, perils>>
    BY <1>12 DEF Editor!ReadBack
  <2>3. Rows' \subseteq Rows
    BY <2>1, <2>2
  <2> HIDE DEF Rows, OnPage, TextType
  <2> QED BY <2>1, <2>2, <2>3
<1>13. CASE Editor!Settle
  BY <1>13 DEF Editor!Settle, Editor!Caches, Editor!Shows, Editor!Meets
<1>14. CASE Editor!Fails
  BY <1>14 DEF Editor!Fails, Editor!Meets
<1>15. CASE Editor!Refetch
  BY <1>15 DEF Editor!Refetch, Editor!Gets
<1>16. CASE Editor!Reload
  BY <1>16 DEF Editor!Reload, Editor!Gets
<1>17. CASE Editor!Arrive
  BY <1>17 DEF Editor!Arrive, Editor!Caches, Editor!Shows, Editor!Meets
<1>18. CASE Editor!Flush
  BY <1>18 DEF Editor!Flush, Editor!Meets
<1>19. CASE Editor!FlushArrives
  BY <1>19 DEF Editor!FlushArrives, Editor!Admits, Editor!Writes, Editor!Unconditional
<1>20. CASE Editor!FlushIsLost
  BY <1>20 DEF Editor!FlushIsLost
<1>21. CASE Editor!Summarise
  BY <1>21 DEF Editor!Summarise
<1>22. CASE Editor!SummaryStored
  BY <1>22 DEF Editor!SummaryStored
<1>23. ASSUME NEW e \in Editor!Theirs, Editor!Elsewhere(e) PROVE (Unmoved => Sourced)'
  BY <1>23 DEF Editor!Elsewhere, Editor!Meets
<1> QED BY <1>1, <1>2, <1>3, <1>4, <1>5, <1>6, <1>7, <1>8, <1>9, <1>10, <1>11, <1>12, <1>13,
   <1>14, <1>15, <1>16, <1>17, <1>18, <1>19, <1>20, <1>21, <1>22, <1>23 DEF Editor!Next

(* The text on screen is not behind the cached version while it is unsaved. *)
LEMMA OnPageStep ==
    ASSUME PartsAssumption, TextType, Coherent, Past, Flags, ClobberInv, Editor!Next
    PROVE  (Unmoved /\ page = "open" => OnPage)'
<1> USE DEF ClobberInv, Sourced, OnPage, Draws, Unmoved, Has, AtWork, Coherent, Rows, Past,
   Flags, TextType, Single, Editor!Dirty, Editor!copies, Editor!restore, Editor!history
<1>1. CASE Editor!Open
  BY <1>1 DEF Editor!Open
<1>2. CASE Editor!Load
  BY <1>2 DEF Editor!Load
<1>3. CASE Editor!Close
  BY <1>3 DEF Editor!Close, Editor!Meets
<1>4. ASSUME NEW e \in Editor!Mine, Editor!TypeEarly(e)
      PROVE  (Unmoved /\ page = "open" => OnPage)'
  BY <1>4 DEF Editor!TypeEarly, Editor!Meets, Editor!Fresh
<1>5. ASSUME NEW e \in Editor!Mine, Editor!Type(e) PROVE (Unmoved /\ page = "open" => OnPage)'
  <2>1. Editor!Theirs \cap (doc \cup {e}) = Editor!Theirs \cap doc
    BY PartsAssumption DEF Editor!Mine, Editor!Theirs, Editor!EditorSessionAssumption
  <2>2. /\ doc' = doc \cup {e} /\ buffer' = doc' /\ page = "open" /\ perils \subseteq perils'
        /\ UNCHANGED <<srv, cache, base, pinned, save, lookup, offer>>
    BY <1>5 DEF Editor!Type
  <2> HIDE DEF TextType, Coherent, Rows, Past, Flags, Sourced
  <2> QED BY <2>1, <2>2
<1>6. CASE Editor!Decide
  BY <1>6 DEF Editor!Decide, Editor!Decision
<1>7. CASE Editor!Restore
  BY <1>7 DEF Editor!Restore, Editor!Persist
<1>8. CASE Editor!Discard
  BY <1>8 DEF Editor!Discard
<1>9. CASE Editor!Save
  BY <1>9 DEF Editor!Save, Editor!Sends
<1>10. CASE Editor!Overwrite
  BY <1>10 DEF Editor!Overwrite, Editor!Sends, Editor!Unconditional
<1>11. CASE Editor!Patch
  <2>1. srv.ver \in Nat /\ srv'.ver \in {srv.ver, srv.ver + 1}
    BY <1>11 DEF Editor!Patch, Editor!Writes, Editor!Row
  <2>2. UNCHANGED <<page, cache, doc, buffer, base, pinned, lookup, offer, perils>>
    BY <1>11 DEF Editor!Patch
  <2>3. \A r \in lookup : r.ver \in Nat /\ r.ver <= srv.ver
    BY DEF Editor!Record
  <2>4. /\ save # {}
        /\ \A t \in save' : /\ \E s \in save : t.body = s.body
                            /\ t.pc = "applied" => srv'.ver = srv.ver + 1
                            /\ t.pc # "read"
    BY <1>11 DEF Editor!Patch, Editor!Writes
  <2> HIDE DEF TextType, Coherent, Rows, Past, Flags, Sourced
  <2> QED BY <2>1, <2>2, <2>3, <2>4
<1>12. CASE Editor!ReadBack
  <2>1. UNCHANGED <<srv, page, cache, doc, buffer, base, pinned, lookup, offer, perils>>
    BY <1>12 DEF Editor!ReadBack
  <2>2. /\ save # {}
        /\ \A t \in save' : \E s \in save : t.body = s.body /\ s.pc = "applied" /\ t.ans = srv
    BY <1>12 DEF Editor!ReadBack
  <2> HIDE DEF TextType, Coherent, Rows, Past, Flags, Sourced
  <2> QED BY <2>1, <2>2
<1>13. CASE Editor!Settle
  <2> PICK s \in save :
          /\ s.pc = "read" /\ save' = {} /\ cache' = s.ans
          /\ doc' = IF pinned \/ s.ans.body = cache.body THEN doc ELSE s.ans.body
          /\ Editor!Meets(s.ans.body # s.body, "moved")
    BY <1>13 DEF Editor!Settle, Editor!Caches, Editor!Shows
  <2>1. UNCHANGED <<page, buffer, pinned, lookup, offer>>
    BY <1>13 DEF Editor!Settle
  <2> SUFFICES ASSUME Unmoved', page = "open" PROVE OnPage'
    BY <2>1
  <2>2. Unmoved /\ s.ans.body = s.body
    BY DEF Editor!Meets
  <2>3. OnPage /\ AtWork
    BY <2>2
  <2>4. Has(s.body, doc) /\ Has(s.body, buffer) /\ (pinned \/ Has(doc, s.body))
        /\ Has(buffer, doc) /\ (pinned \/ Has(doc, buffer))
    BY <2>3
  <2>5. /\ Has(s.body, doc') /\ Has(buffer, doc') /\ (pinned \/ Has(doc', buffer))
        /\ doc' = doc \/ doc' = s.body
    BY <2>2, <2>4
  <2>6. \A r \in lookup : r.ver < s.ans.ver /\ r.ver \in Nat /\ s.ans.ver \in Nat
    BY <2>3 DEF Editor!Record, Editor!Row
  <2>7. \A r \in offer : Has(s.body, r.body) /\ Has(buffer, r.body) /\ Has(doc, r.body)
    BY <2>3
  <2> HIDE DEF TextType, Coherent, Rows, Past, Flags, Sourced
  <2> QED BY <2>1, <2>2, <2>4, <2>5, <2>6, <2>7
<1>14. CASE Editor!Fails
  BY <1>14 DEF Editor!Fails, Editor!Meets
<1>15. CASE Editor!Refetch
  BY <1>15 DEF Editor!Refetch, Editor!Gets
<1>16. CASE Editor!Reload
  BY <1>16 DEF Editor!Reload, Editor!Gets
<1>17. CASE Editor!Arrive
  <2> PICK f \in fetch :
          /\ cache' = f.row
          /\ IF f.reload THEN doc' = f.row.body /\ buffer' = f.row.body /\ pinned'
                              /\ Editor!Meets(offer # {}, "moved")
             ELSE /\ doc' = IF pinned \/ f.row.body = cache.body THEN doc ELSE f.row.body
                  /\ Editor!Meets(Editor!Moves(f.row), "moved")
                  /\ UNCHANGED <<buffer, pinned>>
    BY <1>17 DEF Editor!Arrive, Editor!Caches, Editor!Shows
  <2>1. UNCHANGED <<srv, page, base, save, lookup, offer>>
    BY <1>17 DEF Editor!Arrive
  <2> SUFFICES ASSUME Unmoved', page = "open" PROVE OnPage'
    BY <2>1
  <2>2. Unmoved /\ OnPage /\ Sourced
    BY DEF Editor!Meets
  <2>3. f.row.ver \in Nat /\ cache.ver \in Nat /\ \A r \in lookup : r.ver \in Nat
    BY DEF Editor!Row, Editor!Record
  <2>4. f.row.ver = cache.ver => f.row.body = cache.body
    OBVIOUS
  <2>5. \A r \in lookup : r.ver = f.row.ver => Has(f.row.body, r.body)
    BY <2>2
  <2>6. CASE f.reload
    <3>1. offer = {} /\ save = {} /\ f.row.ver >= cache.ver
      BY <2>6 DEF Editor!Meets
    <3>2. \A r \in lookup : r.ver <= cache.ver
      BY <2>2
    <3> HIDE DEF TextType, Coherent, Rows, Past, Flags, Sourced
    <3> QED BY <2>1, <2>3, <2>5, <2>6, <3>1, <3>2
  <2>7. CASE ~f.reload
    <3>1. f.row.ver >= cache.ver /\ (f.row.ver = cache.ver \/ ~(Editor!Dirty \/ pinned \/ save \cup offer # {}))
      BY <2>3, <2>7 DEF Editor!Meets, Editor!Moves
    <3>2. CASE f.row.ver = cache.ver
      <4>1. cache'.ver = cache.ver /\ cache'.body = cache.body /\ UNCHANGED <<doc, buffer, pinned>>
        BY <2>4, <2>7, <3>2
      <4> HIDE DEF TextType, Coherent, Rows, Past, Flags, Sourced
      <4> QED BY <2>1, <2>2, <4>1
    <3>3. CASE f.row.ver # cache.ver
      <4>1. ~AtWork' /\ save = {} /\ offer = {} /\ \A r \in lookup : r.ver < f.row.ver
        BY <2>1, <2>2, <2>3, <2>7, <3>1, <3>3
      <4>2. Has(f.row.body, doc')
        BY <2>2, <2>7, <3>1
      <4> HIDE DEF AtWork, TextType, Coherent, Rows, Past, Flags, Sourced
      <4> QED BY <2>1, <2>3, <4>1, <4>2
    <3> QED BY <3>2, <3>3
  <2> QED BY <2>6, <2>7
<1>18. CASE Editor!Flush
  BY <1>18 DEF Editor!Flush, Editor!Meets
<1>19. CASE Editor!FlushArrives
  <2>1. srv.ver \in Nat /\ srv'.ver \in {srv.ver, srv.ver + 1}
    BY <1>19 DEF Editor!FlushArrives, Editor!Writes, Editor!Row
  <2>2. UNCHANGED <<page, cache, doc, buffer, base, pinned, save, lookup, offer>> /\ perils \subseteq perils'
    BY <1>19 DEF Editor!FlushArrives, Editor!Writes
  <2>3. \A r \in lookup : r.ver \in Nat
    BY DEF Editor!Record
  <2> HIDE DEF TextType, Coherent, Rows, Past, Flags, Sourced
  <2> QED BY <2>1, <2>2, <2>3
<1>20. CASE Editor!FlushIsLost
  BY <1>20 DEF Editor!FlushIsLost
<1>21. CASE Editor!Summarise
  BY <1>21 DEF Editor!Summarise
<1>22. CASE Editor!SummaryStored
  <2>1. srv.ver \in Nat /\ srv'.ver \in {srv.ver, srv.ver + 1}
    BY <1>22 DEF Editor!SummaryStored, Editor!Row
  <2>2. UNCHANGED <<page, cache, doc, buffer, base, pinned, save, lookup, offer>> /\ perils \subseteq perils'
    BY <1>22 DEF Editor!SummaryStored
  <2>3. \A r \in lookup : r.ver \in Nat
    BY DEF Editor!Record
  <2> HIDE DEF TextType, Coherent, Rows, Past, Flags, Sourced
  <2> QED BY <2>1, <2>2, <2>3
<1>23. ASSUME NEW e \in Editor!Theirs, Editor!Elsewhere(e)
       PROVE  (Unmoved /\ page = "open" => OnPage)'
  <2>1. srv.ver \in Nat /\ srv'.ver \in {srv.ver, srv.ver + 1}
    BY <1>23 DEF Editor!Elsewhere, Editor!Meets, Editor!Row
  <2>2. UNCHANGED <<page, cache, doc, buffer, base, pinned, save, lookup, offer>> /\ perils \subseteq perils'
    BY <1>23 DEF Editor!Elsewhere, Editor!Meets
  <2>3. \A r \in lookup : r.ver \in Nat
    BY DEF Editor!Record
  <2> HIDE DEF TextType, Coherent, Rows, Past, Flags, Sourced
  <2> QED BY <2>1, <2>2, <2>3
<1> QED BY <1>1, <1>2, <1>3, <1>4, <1>5, <1>6, <1>7, <1>8, <1>9, <1>10, <1>11, <1>12, <1>13,
   <1>14, <1>15, <1>16, <1>17, <1>18, <1>19, <1>20, <1>21, <1>22, <1>23 DEF Editor!Next

(* A conditional write that is admitted has drawn on the row it replaces. *)
LEMMA ClobberedStep ==
    ASSUME PartsAssumption, TextType, Coherent, Past, Flags, ClobberInv, Editor!Next
    PROVE  (Unmoved => ~clobbered)'
<1> USE DEF ClobberInv, Sourced, OnPage, Draws, Unmoved, Has, AtWork, Coherent, Rows, Past,
   Flags, TextType, Single, Editor!Dirty, Editor!copies, Editor!restore, Editor!history
<1>1. CASE Editor!Open
  BY <1>1 DEF Editor!Open
<1>2. CASE Editor!Load
  BY <1>2 DEF Editor!Load
<1>3. CASE Editor!Close
  BY <1>3 DEF Editor!Close, Editor!Meets
<1>4. ASSUME NEW e \in Editor!Mine, Editor!TypeEarly(e) PROVE (Unmoved => ~clobbered)'
  BY <1>4 DEF Editor!TypeEarly, Editor!Meets, Editor!Fresh
<1>5. ASSUME NEW e \in Editor!Mine, Editor!Type(e) PROVE (Unmoved => ~clobbered)'
  BY <1>5 DEF Editor!Type, Editor!Fresh, Editor!Persist
<1>6. CASE Editor!Decide
  BY <1>6 DEF Editor!Decide, Editor!Decision
<1>7. CASE Editor!Restore
  BY <1>7 DEF Editor!Restore, Editor!Persist
<1>8. CASE Editor!Discard
  BY <1>8 DEF Editor!Discard
<1>9. CASE Editor!Save
  BY <1>9 DEF Editor!Save, Editor!Sends
<1>10. CASE Editor!Overwrite
  BY <1>10 DEF Editor!Overwrite, Editor!Sends, Editor!Unconditional
<1>11. CASE Editor!Patch
  BY <1>11 DEF Editor!Patch, Editor!Admits, Editor!Writes, Editor!Unconditional
<1>12. CASE Editor!ReadBack
  BY <1>12 DEF Editor!ReadBack
<1>13. CASE Editor!Settle
  BY <1>13 DEF Editor!Settle, Editor!Caches, Editor!Shows, Editor!Meets
<1>14. CASE Editor!Fails
  BY <1>14 DEF Editor!Fails, Editor!Meets
<1>15. CASE Editor!Refetch
  BY <1>15 DEF Editor!Refetch, Editor!Gets
<1>16. CASE Editor!Reload
  BY <1>16 DEF Editor!Reload, Editor!Gets
<1>17. CASE Editor!Arrive
  BY <1>17 DEF Editor!Arrive, Editor!Caches, Editor!Shows, Editor!Meets
<1>18. CASE Editor!Flush
  BY <1>18 DEF Editor!Flush, Editor!Meets
<1>19. CASE Editor!FlushArrives
  BY <1>19 DEF Editor!FlushArrives, Editor!Admits, Editor!Writes, Editor!Unconditional
<1>20. CASE Editor!FlushIsLost
  BY <1>20 DEF Editor!FlushIsLost
<1>21. CASE Editor!Summarise
  BY <1>21 DEF Editor!Summarise
<1>22. CASE Editor!SummaryStored
  BY <1>22 DEF Editor!SummaryStored
<1>23. ASSUME NEW e \in Editor!Theirs, Editor!Elsewhere(e) PROVE (Unmoved => ~clobbered)'
  BY <1>23 DEF Editor!Elsewhere, Editor!Meets
<1> QED BY <1>1, <1>2, <1>3, <1>4, <1>5, <1>6, <1>7, <1>8, <1>9, <1>10, <1>11, <1>12, <1>13,
   <1>14, <1>15, <1>16, <1>17, <1>18, <1>19, <1>20, <1>21, <1>22, <1>23 DEF Editor!Next

(* Alone with a record, its text is that of its version.                    *)
LEMMA RecordsAlone ==
    ASSUME NEW b, NEW v, NEW w, local = {[body |-> b, ver |-> v]}
    PROVE  /\ RecordsOf(v) = b
           /\ w # v => RecordsOf(w) = {}
<1> DEFINE rec == [body |-> b, ver |-> v]
<1>1. {q \in local : q.ver = v} = {rec} /\ (w # v => {q \in local : q.ver = w} = {})
  OBVIOUS
<1>2. {q.body : q \in {rec}} = {b} /\ {q.body : q \in {}} = {}
  OBVIOUS
<1>3. UNION {b} = b /\ UNION {} = {}
  OBVIOUS
<1>4. RecordsOf(v) = b
  BY <1>1, <1>2, <1>3 DEF RecordsOf
<1>5. w # v => RecordsOf(w) = {}
  BY <1>1, <1>2, <1>3 DEF RecordsOf
<1> QED BY <1>4, <1>5

(* Without dangers nothing typed is lost.                                   *)
LEMMA CalmStep ==
    ASSUME PartsAssumption, TextType, Coherent, Past, Typed, Flags, QuietInv, CalmInv, Editor!Next
    PROVE  CalmInv'
<1> USE DEF CalmInv, Calm, SafeInv, SafeOnPage, Unsettled, Wanted, RecordsOf, TextType, Single,
   Flags, Editor!Dirty, Alone, Writers, Coherent, Rows, Past, Typed, QuietInv, Editor!copies,
   Editor!restore, Editor!history
<1>1. CASE Editor!Open
  BY <1>1 DEF Editor!Open
<1>2. CASE Editor!Load
  BY <1>2 DEF Editor!Load
<1>3. CASE Editor!Close
  <2>1. UNCHANGED <<srv, local, written, givenUp>> /\ page' = "closed" /\ page # "closed"
        /\ perils \subseteq perils' /\ (Calm' => save = {})
    BY <1>3 DEF Editor!Close, Editor!Meets
  <2> SUFFICES ASSUME Calm' PROVE Wanted \subseteq srv.body \cup RecordsOf(srv.ver)
    BY <2>1
  <2>2. CASE page = "loading"
    BY <2>1, <2>2
  <2>3. CASE page = "open"
    <3>1. SafeOnPage /\ save = {} /\ Unsettled
      BY <2>1, <2>3
    <3>2. CASE lookup \cup offer # {}
      <4>1. buffer = srv.body
        BY <3>1, <3>2
      <4> HIDE DEF RecordsOf, Wanted, Coherent, Past, Flags, Typed, QuietInv, CalmInv, SafeInv
      <4> QED BY <3>1, <3>2, <4>1
    <3>3. CASE lookup \cup offer = {} /\ Editor!Dirty
      <4>1. local = {[body |-> buffer, ver |-> srv.ver]} /\ Wanted \subseteq buffer
        BY <3>1, <3>3
      <4>2. RecordsOf(srv.ver) = buffer
        BY <4>1, RecordsAlone
      <4> QED BY <4>1, <4>2
    <3>4. CASE lookup \cup offer = {} /\ ~Editor!Dirty
      BY <3>1, <3>4
    <3> QED BY <3>2, <3>3, <3>4
  <2> QED BY <2>1, <2>2, <2>3
<1>4. ASSUME NEW e \in Editor!Mine, Editor!TypeEarly(e) PROVE CalmInv'
  BY <1>4 DEF Editor!TypeEarly, Editor!Meets, Editor!Fresh
<1>5. ASSUME NEW e \in Editor!Mine, Editor!Type(e) PROVE CalmInv'
  BY <1>5 DEF Editor!Type, Editor!Fresh, Editor!Persist
<1>6. CASE Editor!Decide
  <2> PICK r \in lookup :
          /\ lookup' = {}
          /\ IF r.ver = cache.ver THEN offer' = {r} /\ UNCHANGED local
             ELSE local' = {} /\ UNCHANGED offer
    BY <1>6 DEF Editor!Decide, Editor!Decision
  <2>1. UNCHANGED <<srv, page, cache, doc, buffer, base, save, written, givenUp, perils>>
    BY <1>6 DEF Editor!Decide
  <2> SUFFICES ASSUME Calm PROVE SafeOnPage'
    BY <2>1
  <2>2. page = "open" /\ SafeOnPage /\ offer = {} /\ local = {r} /\ save = {}
    OBVIOUS
  <2>3. cache = srv /\ ~Editor!Dirty /\ base = srv.body
    BY <2>2
  <2>4. r = [body |-> r.body, ver |-> r.ver]
    BY DEF Editor!Record
  <2>5. Wanted \subseteq buffer \cup RecordsOf(srv.ver)
    BY <2>2
  <2>6. CASE r.ver = cache.ver
    <3>1. r.ver = srv.ver /\ offer' = {r} /\ local' = {r}
      BY <2>2, <2>3, <2>6
    <3>2. UNCHANGED <<Wanted, RecordsOf(srv.ver), Editor!Dirty>>
      BY <2>1, <2>6
    <3> HIDE DEF Wanted, RecordsOf, TextType, Coherent, Past, Flags, Typed, QuietInv, SafeInv, Editor!Dirty
    <3> QED BY <2>1, <2>2, <2>3, <2>5, <3>1, <3>2
  <2>7. CASE r.ver # cache.ver
    <3>1. RecordsOf(srv.ver) = {}
      BY <2>2, <2>3, <2>7 DEF RecordsOf
    <3> HIDE DEF RecordsOf
    <3>2. Wanted \subseteq buffer
      BY <2>5, <3>1
    <3> QED BY <2>1, <2>2, <2>3, <2>7, <3>2
  <2> QED BY <2>6, <2>7
<1>7. CASE Editor!Restore
  <2> PICK r \in offer :
          /\ offer' = {} /\ doc' = r.body /\ buffer' = r.body
          /\ local' = IF r.body = base THEN local ELSE {[body |-> r.body, ver |-> cache.ver]}
          /\ givenUp' = givenUp \cup (Editor!Mine \cap ((doc \cup buffer) \ r.body))
    BY <1>7 DEF Editor!Restore, Editor!Persist
  <2>1. UNCHANGED <<srv, page, cache, base, save, lookup, written, perils>>
    BY <1>7 DEF Editor!Restore
  <2> SUFFICES ASSUME Calm PROVE SafeOnPage'
    BY <2>1
  <2>2. page = "open" /\ SafeOnPage /\ lookup = {} /\ offer = local /\ save = {} /\ r.ver = srv.ver
    OBVIOUS
  <2>3. cache = srv /\ base = srv.body
    BY <2>2
  <2>4. RecordsOf(srv.ver) = r.body
    <3>1. local = {[body |-> r.body, ver |-> r.ver]}
      BY <2>2 DEF Editor!Record
    <3> QED BY <2>2, <3>1, RecordsAlone
  <2>5. Wanted \subseteq buffer \cup r.body
    BY <2>2, <2>4
  <2>6. written \subseteq Editor!Mine
    BY PartsAssumption DEF Editor!Mine, Editor!EditorSessionAssumption
  <2>7. Wanted' \subseteq r.body
    BY <2>1, <2>5, <2>6
  <2> HIDE DEF Wanted, RecordsOf, TextType, Coherent, Past, Flags, Typed, QuietInv, SafeInv
  <2> QED BY <2>1, <2>2, <2>3, <2>7
<1>8. CASE Editor!Discard
  <2> PICK r \in offer :
          /\ offer' = {} /\ local' = {}
          /\ givenUp' = givenUp \cup (Editor!Mine \cap (r.body \ (doc \cup buffer)))
    BY <1>8 DEF Editor!Discard
  <2>1. UNCHANGED <<srv, page, cache, doc, buffer, base, save, lookup, written, perils>>
    BY <1>8 DEF Editor!Discard
  <2> SUFFICES ASSUME Calm PROVE SafeOnPage'
    BY <2>1
  <2>2. /\ page = "open" /\ SafeOnPage /\ lookup = {} /\ offer = local /\ save = {} /\ r.ver = srv.ver
        /\ ~Editor!Dirty
    OBVIOUS
  <2>4. RecordsOf(srv.ver) = r.body
    <3>1. local = {[body |-> r.body, ver |-> r.ver]}
      BY <2>2 DEF Editor!Record
    <3> QED BY <2>2, <3>1, RecordsAlone
  <2>5. Wanted \subseteq buffer \cup r.body
    BY <2>2, <2>4
  <2>6. written \subseteq Editor!Mine
    BY PartsAssumption DEF Editor!Mine, Editor!EditorSessionAssumption
  <2>7. Wanted' \subseteq buffer
    BY <2>1, <2>5, <2>6
  <2> HIDE DEF Wanted, RecordsOf, TextType, Coherent, Past, Flags, Typed, QuietInv, SafeInv
  <2> QED BY <2>1, <2>2, <2>7
<1>9. CASE Editor!Save
  BY <1>9 DEF Editor!Save, Editor!Sends
<1>10. CASE Editor!Overwrite
  BY <1>10 DEF Editor!Overwrite, Editor!Sends, Editor!Unconditional
<1>11. CASE Editor!Patch
  <2> PICK s \in save :
          /\ s.pc = "sent"
          /\ IF Editor!Admits(s)
             THEN srv' = [body |-> s.body, ver |-> srv.ver + 1] /\ save' = {[s EXCEPT !.pc = "applied"]}
             ELSE save' = {[s EXCEPT !.pc = "refused"]}
    BY <1>11 DEF Editor!Patch, Editor!Writes
  <2>1. UNCHANGED <<page, cache, doc, buffer, base, lookup, offer, local, written, givenUp, perils>>
    BY <1>11 DEF Editor!Patch
  <2> SUFFICES ASSUME Calm PROVE SafeOnPage'
    BY <2>1
  <2>2. Editor!Admits(s)
    BY DEF Editor!Admits, Editor!Unconditional
  <2>3. page = "open" /\ SafeOnPage /\ lookup = {} /\ offer = {}
    OBVIOUS
  <2>4. Wanted \subseteq buffer /\ doc = buffer /\ s.hook /\ s.body = buffer
    BY <2>3
  <2>5. srv'.body = buffer /\ save' = {[s EXCEPT !.pc = "applied"]}
    BY <2>2, <2>4
  <2>8. \A t \in save' : t.hook = s.hook /\ t.body = s.body /\ t.pc = "applied"
    BY <2>5
  <2>7. ~Unsettled'
    BY <2>5, <2>8
  <2> HIDE DEF Wanted, Unsettled, RecordsOf, TextType, Coherent, Past, Flags, Typed, QuietInv, SafeInv
  <2>6. Wanted' = Wanted
    BY <2>1 DEF Wanted
  <2> QED BY <2>1, <2>3, <2>4, <2>5, <2>6, <2>7, <2>8
<1>12. CASE Editor!ReadBack
  BY <1>12 DEF Editor!ReadBack
<1>13. CASE Editor!Settle
  BY <1>13 DEF Editor!Settle, Editor!Caches, Editor!Shows, Editor!Meets
<1>14. CASE Editor!Fails
  BY <1>14 DEF Editor!Fails, Editor!Meets
<1>15. CASE Editor!Refetch
  BY <1>15 DEF Editor!Refetch, Editor!Gets
<1>16. CASE Editor!Reload
  BY <1>16 DEF Editor!Reload, Editor!Gets
<1>17. CASE Editor!Arrive
  <2> PICK f \in fetch :
          /\ cache' = f.row
          /\ ~f.reload =>
               /\ doc' = IF pinned \/ f.row.body = cache.body THEN doc ELSE f.row.body
               /\ Editor!Meets(Editor!Moves(f.row), "moved")
               /\ UNCHANGED <<buffer, givenUp, local>>
          /\ f.reload => Editor!Meets(offer # {}, "moved")
    BY <1>17 DEF Editor!Arrive, Editor!Caches, Editor!Shows
  <2>1. UNCHANGED <<srv, page, base, save, lookup, offer, written>>
    BY <1>17 DEF Editor!Arrive
  <2> SUFFICES ASSUME Calm' PROVE SafeOnPage'
    BY <2>1
  <2>2. Calm /\ ~f.reload /\ ~Editor!Moves(f.row) /\ page = "open" /\ SafeOnPage
    BY DEF Editor!Meets
  <2>3. f.row.ver \in Nat /\ cache.ver \in Nat /\ srv.ver \in Nat /\ f.row.ver <= srv.ver
    BY DEF Editor!Row
  <2>4. f.row.ver = cache.ver => f.row = cache
    BY DEF Editor!Row
  <2>5. Unsettled => cache = srv
    BY <2>2
  <2>6. save # {} => f.row.ver = cache.ver
    BY <2>2, <2>3 DEF Editor!Moves
  <2>7. save = {} => f.row.ver = cache.ver
    BY <2>2, <2>3, <2>5 DEF Editor!Moves
  <2>8. f.row = cache /\ UNCHANGED <<cache, doc, buffer, givenUp, local>>
    BY <2>2, <2>4, <2>6, <2>7
  <2>9. UNCHANGED <<Wanted, RecordsOf(srv.ver), Unsettled, Editor!Dirty>>
    BY <2>1, <2>8
  <2> HIDE DEF Wanted, Unsettled, RecordsOf, TextType, Coherent, Past, Flags, Typed, QuietInv, SafeInv, Editor!Dirty
  <2> QED BY <2>1, <2>2, <2>8, <2>9
<1>18. CASE Editor!Flush
  BY <1>18 DEF Editor!Flush, Editor!Meets
<1>19. CASE Editor!FlushArrives
  BY <1>19 DEF Editor!FlushArrives, Editor!Admits, Editor!Writes, Editor!Unconditional
<1>20. CASE Editor!FlushIsLost
  BY <1>20 DEF Editor!FlushIsLost
<1>21. CASE Editor!Summarise
  BY <1>21 DEF Editor!Summarise
<1>22. CASE Editor!SummaryStored
  BY <1>22 DEF Editor!SummaryStored
<1>23. ASSUME NEW e \in Editor!Theirs, Editor!Elsewhere(e) PROVE CalmInv'
  BY <1>23 DEF Editor!Elsewhere, Editor!Meets
<1> QED BY <1>1, <1>2, <1>3, <1>4, <1>5, <1>6, <1>7, <1>8, <1>9, <1>10, <1>11, <1>12, <1>13,
   <1>14, <1>15, <1>16, <1>17, <1>18, <1>19, <1>20, <1>21, <1>22, <1>23 DEF Editor!Next

(* All of it together: of a draft just opened, and of every step.           *)
LEMMA TextInitially ==
    ASSUME PartsAssumption, Editor!Init
    PROVE  TextInv /\ CalmInv
<1>1. MaxVer \in Nat \ {0} /\ MaxMine \in Nat
  BY PartsAssumption DEF Editor!EditorSessionAssumption
<1>2. srv = [body |-> {}, ver |-> 1] /\ cache = srv /\ srv \in Editor!Row
  BY <1>1 DEF Editor!Init, Editor!Row, Editor!Body
<1>3. {} \in Editor!Body /\ 0 \in 0..MaxVer /\ 0 \in 0..MaxMine /\ 1..0 = {}
  BY <1>1 DEF Editor!Body
<1>4. TextType
  BY <1>2, <1>3 DEF TextType, Single, Editor!Init
<1>5. Coherent /\ Past
  BY <1>2 DEF Coherent, Past, Rows, Editor!Init
<1>6. Typed
  <2>1. \A b \in Texts : b = {}
    BY <1>2 DEF Texts, Editor!Init
  <2>2. written = 1..0
    BY <1>3 DEF Editor!Init
  <2> QED BY <1>3, <2>1, <2>2 DEF Typed
<1>7. Flags /\ ScreenInv /\ QuietInv /\ SummaryInv
  BY DEF Flags, ScreenInv, QuietInv, SummaryInv, Editor!Init
<1>8. ClobberInv
  BY DEF ClobberInv, Sourced, Editor!Init
<1>9. CalmInv
  BY DEF CalmInv, Calm, Alone, Writers, SafeInv, Wanted, Editor!Init
<1> QED BY <1>4, <1>5, <1>6, <1>7, <1>8, <1>9 DEF TextInv

(* Every step of the editor, of the server and of others keeps it.          *)
LEMMA TextSteps ==
    ASSUME PartsAssumption, TextInv, CalmInv, [Editor!Next]_MCVars
    PROVE  TextInv' /\ CalmInv'
<1> USE DEF TextInv
<1>1. CASE Editor!Next
  <2>1. TextType' /\ Coherent' /\ Past' /\ Typed' /\ Flags'
    BY <1>1, TextTypeStep, CoherentStep, PastStep, TypedStep, FlagsStep
  <2>2. ScreenInv' /\ QuietInv' /\ SummaryInv' /\ CalmInv'
    BY <1>1, ScreenStep, QuietStep, SummaryStep, CalmStep
  <2>3. (Unmoved => Sourced)' /\ (Unmoved /\ page = "open" => OnPage)' /\ (Unmoved => ~clobbered)'
    BY <1>1, SourcedStep, OnPageStep, ClobberedStep
  <2>4. ClobberInv'
    BY <2>3 DEF ClobberInv
  <2> QED BY <2>1, <2>2, <2>4
<1>2. CASE UNCHANGED MCVars
  <2> USE <1>2 DEF MCVars
  <2>1. TextType' /\ Coherent' /\ Past' /\ Flags'
    BY DEF TextType, Single, Coherent, Rows, Past, Flags, Editor!Dirty
  <2>2. Typed'
    BY DEF Typed, Texts
  <2>3. ClobberInv'
    BY DEF ClobberInv, Unmoved, Sourced, OnPage, Draws, Rows, Has, AtWork, Editor!Dirty
  <2>4. ScreenInv' /\ QuietInv' /\ SummaryInv'
    BY DEF ScreenInv, QuietInv, SummaryInv, Alone, Editor!Dirty
  <2>5. CalmInv'
    BY DEF CalmInv, Calm, Alone, SafeInv, SafeOnPage, Unsettled, Wanted, RecordsOf, Editor!Dirty
  <2> QED BY <2>1, <2>2, <2>3, <2>4, <2>5
<1> QED BY <1>1, <1>2

(* Whatever page, requests, records and other writers do, in any number.    *)
THEOREM TextCorrect == MCSpec => [](part = "text" => TextInv /\ CalmInv)
<1> DEFINE Inv == part = "text" => TextInv /\ CalmInv
<1>1. MCInit => Inv
  BY PartsAssumption, TextInitially DEF MCInit
<1>2. Inv /\ [MCNext]_MCVars => Inv'
  <2> SUFFICES ASSUME TextInv, CalmInv, [MCNext]_MCVars, part' = "text" PROVE TextInv' /\ CalmInv'
    BY DEF MCNext, MCVars
  <2>1. [Editor!Next]_MCVars
    BY DEF MCNext
  <2> QED BY <2>1, PartsAssumption, TextSteps
<1> QED BY <1>1, <1>2, PTL DEF MCSpec

(* Every text the user typed and did not give up is on screen, on its way,  *)
(* in the row or on disk, unless it met one of the dangers.                 *)
THEOREM LossExplained == MCSpec => []LostOnlyInPeril
<1>1. TextInv /\ CalmInv => Editor!LostOnlyInPeril
  <2> SUFFICES ASSUME TextInv, CalmInv, perils \subseteq {"overtaken"} PROVE Editor!Lost = {}
    BY DEF Editor!LostOnlyInPeril
  <2>1. SafeInv /\ Calm
    BY DEF CalmInv, Calm
  <2>2. RecordsOf(srv.ver) \subseteq Editor!Bodies(local)
    BY DEF RecordsOf, Editor!Bodies
  <2>3. Wanted \subseteq srv.body \cup buffer \cup RecordsOf(srv.ver)
    <3>1. CASE page = "open"
      BY <2>1, <3>1 DEF SafeInv, SafeOnPage
    <3>2. CASE page # "open"
      BY <2>1, <3>2 DEF SafeInv
    <3> QED BY <3>1, <3>2
  <2>4. srv.body \cup buffer \cup Editor!Bodies(local) \subseteq Editor!Kept
    BY DEF Editor!Kept
  <2> QED BY <2>2, <2>3, <2>4 DEF Editor!Lost, Wanted
<1> QED BY <1>1, TextCorrect, PTL DEF LostOnlyInPeril

(* Nobody's edit is removed by a write that was to be conditional on it,    *)
(* unless a read had moved the version.                                     *)
THEOREM ClobberingExplained == MCSpec => []ClobberedOnlyIfMoved
<1>1. TextInv => Editor!ClobberedOnlyIfMoved
  BY DEF TextInv, ClobberInv, Unmoved, Editor!ClobberedOnlyIfMoved
<1> QED BY <1>1, TextCorrect, PTL DEF ClobberedOnlyIfMoved

(* The conflict banner is up only if somebody else, a flush, a summary or a *)
(* save not heard of wrote the row, or a late read took the page back.      *)
THEOREM ConflictsExplained == MCSpec => []ConflictExplained
<1>1. TextInv => Editor!ConflictExplained
  BY DEF TextInv, QuietInv, Alone, Writers, Editor!ConflictExplained
<1> QED BY <1>1, TextCorrect, PTL DEF ConflictExplained

(* The screen shows the text that is to be saved, but for what was typed    *)
(* during a save and what a read came in over.                              *)
THEOREM ScreenCorrect == MCSpec => []ScreenIsBuffer
<1>1. TextInv => Editor!ScreenIsBuffer
  BY DEF TextInv, ScreenInv, Editor!ScreenIsBuffer
<1> QED BY <1>1, TextCorrect, PTL DEF ScreenIsBuffer

(* A summary shown as current is of the text it stands beside, unless that  *)
(* was written while the model was asked.                                   *)
THEOREM SummariesFaithful == MCSpec => []SummaryFaithful
<1>1. TextInv => Editor!SummaryFaithful
  BY DEF TextInv, SummaryInv, Editor!SummaryFaithful, Editor!Current
<1> QED BY <1>1, TextCorrect, PTL DEF SummaryFaithful

-----------------------------------------------------------------------------
(* The sheets.  What is not touched is as in the data, so a patch is of     *)
(* touched fields.  As long as no danger was met, what was typed and is in  *)
(* the data, or was served, is in a row or was given up, and what a save of *)
(* the sheet carries is in the sheet or was.                                *)
Parts(S, T) == UNION {[D -> T] : D \in SUBSET S}
FormsRows == {srv, page, cache} \subseteq Parts(Forms!Row, Forms!Content)
FormsSheet ==
    /\ doc \subseteq [id : 1..pinned, row : Forms!Row \cup {New}, fields : Forms!Content,
                      touched : SUBSET Field, pending : BOOLEAN, confirm : BOOLEAN]
    /\ Single(doc)
FormsSaves ==
    buffer \subseteq [row : Forms!Row \cup {New}, sheet : 1..pinned,
                      kind : {"write", "delete"}, patch : Parts(Field, Forms!Value),
                      touched : SUBSET Field, ans : {"none", "ok", "failed"},
                      val : Forms!Content]
FormsRest ==
    /\ base \in BOOLEAN /\ pinned \in Nat /\ conflict \in 0..MaxTyped /\ save \in 0..MaxOther
    /\ fetch \subseteq Forms!Mine /\ perils \subseteq {"reseeded", "closed", "over", "unheard"}
FormsType == FormsRows /\ FormsSheet /\ FormsSaves /\ FormsRest
Whole ==
    /\ \A s \in buffer : s.row = New => s.patch \in Forms!Content
    /\ \A k \in doc : k.confirm => k.row \in Character
    /\ \A s \in buffer : s.kind = "delete" => s.patch = <<>> /\ s.row \in Character
    /\ base => Summary \in DOMAIN srv
Seeded ==
    \A k \in doc : k.row \in DOMAIN page \ {Summary} =>
        \A f \in Field \ k.touched : k.fields[f] = page[k.row][f]
TouchedOnly ==
    \A s \in buffer : s.ans = "none" /\ s.kind = "write" /\ s.row # New =>
        DOMAIN s.patch \subseteq s.touched
Safe(v) == v \in fetch \/ \E r \in DOMAIN srv, f \in Field : srv[r][f] = v
Held(c) == \A f \in Field : c[f] \in Forms!Mine => Safe(c[f])
OnSheet(k, v) == \E f \in Field : k.fields[f] = v
Sent(s, v) == \E f \in DOMAIN s.patch : s.patch[f] = v
TypedKept ==
    \A v \in 1..conflict :
      \/ Safe(v)
      \/ \E s \in buffer : Sent(s, v)
      \/ \E k \in doc : OnSheet(k, v)
DataKept ==
    /\ \A r \in DOMAIN page : Held(page[r])
    /\ \A r \in DOMAIN cache : Held(cache[r])
ServedKept ==
    \A s \in buffer : s.ans = "ok" =>
      Held(s.val) /\ \A v \in Forms!Mine : Sent(s, v) => Safe(v)
SentKept ==
    \A s \in buffer, k \in doc : k.id = s.sheet =>
      \A v \in Forms!Mine : Sent(s, v) => Safe(v) \/ OnSheet(k, v)
NothingLost == TypedKept /\ DataKept /\ ServedKept /\ SentKept
FormsInv ==
    /\ FormsType /\ Whole /\ Seeded /\ TouchedOnly
    /\ perils = {} => NothingLost
    /\ ~flight

(* Functions on some of a set: one more value, one value less.              *)
LEMMA PartIs ==
    ASSUME NEW S, NEW T, NEW f
    PROVE  f \in Parts(S, T) <=> DOMAIN f \subseteq S /\ f \in [DOMAIN f -> T]
BY DEF Parts

(* The function on nothing is one of them.                                  *)
LEMMA NonePart ==
    ASSUME NEW S, NEW T
    PROVE  <<>> \in Parts(S, T) /\ DOMAIN <<>> = {}
<1>1. <<>> \in [DOMAIN <<>> -> T]
  OBVIOUS
<1>2. DOMAIN <<>> = {}
  OBVIOUS
<1> QED BY <1>1, <1>2, PartIs

(* With a value more it still is,                                           *)
LEMMA WithPart ==
    ASSUME NEW S, NEW T, NEW f \in Parts(S, T), NEW r \in S, NEW v \in T
    PROVE  Forms!With(f, r, v) \in Parts(S, T)
<1>1. DOMAIN f \subseteq S /\ f \in [DOMAIN f -> T]
  BY PartIs
<1>2. DOMAIN Forms!With(f, r, v) = DOMAIN f \cup {r}
  BY DEF Forms!With
<1>3. Forms!With(f, r, v) \in [DOMAIN f \cup {r} -> T]
  BY <1>1 DEF Forms!With
<1> QED BY <1>1, <1>2, <1>3, PartIs

(* with a value less,                                                       *)
LEMMA WithoutPart ==
    ASSUME NEW S, NEW T, NEW f \in Parts(S, T), NEW r
    PROVE  Forms!Without(f, r) \in Parts(S, T)
<1>1. DOMAIN f \subseteq S /\ f \in [DOMAIN f -> T]
  BY PartIs
<1>2. DOMAIN Forms!Without(f, r) = DOMAIN f \ {r}
  BY DEF Forms!Without
<1>3. Forms!Without(f, r) \in [DOMAIN f \ {r} -> T]
  BY <1>1 DEF Forms!Without
<1> QED BY <1>1, <1>2, <1>3, PartIs

(* and with another value in a place it has.                                *)
LEMMA ExceptPart ==
    ASSUME NEW S, NEW T, NEW f \in Parts(S, T), NEW r \in DOMAIN f, NEW v \in T
    PROVE  [f EXCEPT ![r] = v] \in Parts(S, T)
<1>1. DOMAIN f \subseteq S /\ f \in [DOMAIN f -> T]
  BY PartIs
<1>2. [f EXCEPT ![r] = v] \in [DOMAIN f -> T] /\ DOMAIN [f EXCEPT ![r] = v] = DOMAIN f
  BY <1>1
<1> QED BY <1>1, <1>2, PartIs

(* What the rows, their copies, a sheet and a request hold.                 *)
LEMMA FormsHold ==
    ASSUME FormsType
    PROVE  /\ \A r \in DOMAIN srv : r \in Forms!Row /\ srv[r] \in Forms!Content
           /\ \A r \in DOMAIN page : r \in Forms!Row /\ page[r] \in Forms!Content
           /\ \A r \in DOMAIN cache : r \in Forms!Row /\ cache[r] \in Forms!Content
           /\ \A s \in buffer : DOMAIN s.patch \subseteq Field /\ s.patch \in [DOMAIN s.patch -> Forms!Value]
<1>1. /\ DOMAIN srv \subseteq Forms!Row /\ srv \in [DOMAIN srv -> Forms!Content]
      /\ DOMAIN page \subseteq Forms!Row /\ page \in [DOMAIN page -> Forms!Content]
      /\ DOMAIN cache \subseteq Forms!Row /\ cache \in [DOMAIN cache -> Forms!Content]
  BY PartIs DEF FormsType, FormsRows
<1>2. \A s \in buffer : s.patch \in Parts(Field, Forms!Value)
  BY DEF FormsType, FormsSaves
<1> QED BY <1>1, <1>2, PartIs

(* A text counted within the bound is one of the texts it counts.           *)
LEMMA FormsNumbers ==
    ASSUME PartsAssumption, FormsRest
    PROVE  /\ MaxTyped \in Nat /\ MaxOther \in Nat
           /\ conflict < MaxTyped => conflict + 1 \in 0..MaxTyped /\ conflict + 1 \in Forms!Mine
           /\ save < MaxOther => save + 1 \in 0..MaxOther /\ MaxTyped + (save + 1) \in Forms!Theirs
           /\ Forms!Mine \cap Forms!Theirs = {} /\ 0 \notin Forms!Mine
           /\ Forms!Value = {0} \cup Forms!Mine \cup Forms!Theirs
BY
   DEF PartsAssumption, Forms!EditFormsAssumption, FormsRest, Forms!Mine, Forms!Theirs,
       Forms!Value, Forms!Blank

(* A write from elsewhere is one of a row that is there.                    *)
LEMMA FormsWritten ==
    ASSUME PartsAssumption, FormsType, NEW r \in DOMAIN srv, NEW fields \in SUBSET Field,
           Forms!Writes(r, fields)
    PROVE  /\ srv' \in Parts(Forms!Row, Forms!Content) /\ DOMAIN srv' = DOMAIN srv
           /\ srv'[r] \in Forms!Content
           /\ \A q \in DOMAIN srv \ {r} : srv'[q] = srv[q]
           /\ \A f \in Field \ fields : srv'[r][f] = srv[r][f]
           /\ save < MaxOther /\ save' = save + 1
           /\ perils' = {} =>
                perils = {} /\ \A f \in fields : srv[r][f] \in Forms!Mine => srv[r][f] \in fetch
<1> DEFINE new == [f \in Field |-> IF f \in fields THEN MaxTyped + save' ELSE srv[r][f]]
<1>1. /\ save < MaxOther /\ save' = save + 1 /\ srv' = [srv EXCEPT ![r] = new]
      /\ Forms!Meets(\E f \in fields : srv[r][f] \in Forms!Mine /\ srv[r][f] \notin fetch, "over")
  BY DEF Forms!Writes
<1>2. MaxTyped + save' \in Forms!Value
  BY <1>1, FormsNumbers DEF FormsType, Forms!Value
<1>3. new \in Forms!Content
  BY <1>2, FormsHold DEF Forms!Content
<1>4. \A f \in Field \ fields : new[f] = srv[r][f]
  OBVIOUS
<1> HIDE DEF new
<1>5. srv \in Parts(Forms!Row, Forms!Content) /\ srv \in [DOMAIN srv -> Forms!Content]
  BY PartIs DEF FormsType, FormsRows
<1>6. srv' \in Parts(Forms!Row, Forms!Content)
  BY <1>1, <1>3, <1>5, ExceptPart
<1>7. DOMAIN srv' = DOMAIN srv /\ srv'[r] = new /\ \A q \in DOMAIN srv \ {r} : srv'[q] = srv[q]
  BY <1>1, <1>5
<1>8. perils' = {} =>
        perils = {} /\ \A f \in fields : srv[r][f] \in Forms!Mine => srv[r][f] \in fetch
  BY <1>1 DEF Forms!Meets
<1> QED BY <1>1, <1>3, <1>4, <1>6, <1>7, <1>8

(* What is sent of a sheet is some of its fields.                           *)
LEMMA PatchIsPart ==
    ASSUME NEW s, s.fields \in Forms!Content
    PROVE  /\ Forms!Patch(s) \in Parts(Field, Forms!Value)
           /\ \A f \in DOMAIN Forms!Patch(s) : f \in Field /\ Forms!Patch(s)[f] = s.fields[f]
           /\ s.row \in {New, Summary} => Forms!Patch(s) = s.fields
           /\ s.row \notin {New, Summary} =>
                DOMAIN Forms!Patch(s) = {g \in Field : s.fields[g] # page[s.row][g]}
<1>1. CASE s.row \in {New, Summary}
  <2>1. Forms!Patch(s) = s.fields /\ s.fields \in [Field -> Forms!Value]
    BY <1>1 DEF Forms!Patch, Forms!Content
  <2> QED BY <1>1, <2>1, PartIs
<1>2. CASE s.row \notin {New, Summary}
  <2> DEFINE D == {g \in Field : s.fields[g] # page[s.row][g]}
  <2>1. Forms!Patch(s) = [f \in D |-> s.fields[f]]
    BY <1>2 DEF Forms!Patch
  <2>2. D \subseteq Field /\ \A f \in D : s.fields[f] \in Forms!Value
    BY DEF Forms!Content
  <2> HIDE DEF D
  <2>3. Forms!Patch(s) \in [D -> Forms!Value] /\ DOMAIN Forms!Patch(s) = D
    BY <2>1, <2>2
  <2>4. Forms!Patch(s) \in Parts(Field, Forms!Value)
    BY <2>2, <2>3, PartIs
  <2> QED BY <1>2, <2>1, <2>2, <2>3, <2>4 DEF D
<1> QED BY <1>1, <1>2

(* A request that was served.                                               *)
LEMMA FormsAnswered ==
    ASSUME FormsSaves, NEW s \in buffer, NEW r \in Forms!Row, NEW v \in Forms!Content,
           Forms!Becomes(s, r, v), pinned' = pinned
    PROVE  FormsSaves'
<1>1. (IF r = Story THEN v ELSE Forms!Empty) \in Forms!Content
  BY DEF Forms!Empty, Forms!Content, Forms!Value, Forms!Blank
<1>2. buffer' \subseteq buffer \cup
         {[s EXCEPT !.row = r, !.ans = "ok", !.val = IF r = Story THEN v ELSE Forms!Empty]}
  BY DEF Forms!Becomes
<1> QED BY ZenonT(40), <1>1, <1>2 DEF FormsSaves

(* What a row holds is in a row.                                            *)
LEMMA RowsHeld == \A r \in DOMAIN srv : Held(srv[r])
BY DEF Held, Safe

(* An answer brings what was served.                                        *)
LEMMA FormsServed ==
    ASSUME PartsAssumption, FormsType, ServedKept, \A v \in Forms!Mine : Safe(v) => Safe(v)',
           NEW s \in buffer, NEW r, NEW val, Forms!Becomes(s, r, val),
           \A v \in Forms!Mine : (\E f \in Field : val[f] = v) => Safe(v)',
           \A v \in Forms!Mine : Sent(s, v) => Safe(v)'
    PROVE  ServedKept'
<1> DEFINE t == [s EXCEPT !.row = r, !.ans = "ok", !.val = IF r = Story THEN val ELSE Forms!Empty]
<1>1. buffer' = (buffer \ {s}) \cup {t}
  BY DEF Forms!Becomes
<1>2. t.patch = s.patch /\ t.val = IF r = Story THEN val ELSE Forms!Empty
  BY DEF FormsType, FormsSaves
<1>3. \A f \in Field : Forms!Empty[f] \notin Forms!Mine
  BY FormsNumbers DEF Forms!Empty, Forms!Blank, FormsType
<1> HIDE DEF t
<1>4. \A v \in Forms!Mine : Sent(t, v) => Safe(v)'
  BY <1>2 DEF Sent
<1>5. \A f \in Field : t.val[f] \in Forms!Mine => Safe(t.val[f])'
  BY <1>2, <1>3
<1>6. \A q \in buffer' : q = t \/ q \in buffer
  BY <1>1
<1>7. \A q \in buffer' : q.ans = "ok" => \A v \in Forms!Mine : Sent(q, v) => Safe(v)'
  BY <1>4, <1>6 DEF ServedKept
<1>8. \A q \in buffer' : q.ans = "ok" => \A f \in Field : q.val[f] \in Forms!Mine => Safe(q.val[f])'
  BY <1>5, <1>6 DEF ServedKept, Held
<1> QED BY <1>7, <1>8 DEF ServedKept, Held, Sent

(* A text on a sheet is in a row, given up, on its way, or unsent.          *)
LEMMA FormsUnsent ==
    ASSUME FormsType, NEW k \in doc, NEW v \in Forms!Mine, OnSheet(k, v)
    PROVE  /\ v \in Forms!Unsaved(k) \/ Safe(v)
           /\ v \in Forms!Unsent(k) \/ Safe(v) \/ \E s \in buffer : Sent(s, v)
<1>1. v \in Forms!Range(k.fields)
  BY DEF OnSheet, Forms!Range, FormsType, FormsSheet, Forms!Content
<1>2. v \in Forms!InRows => Safe(v)
  <2> SUFFICES ASSUME v \in Forms!InRows PROVE Safe(v)
    OBVIOUS
  <2> PICK r \in DOMAIN srv : v \in Forms!Range(srv[r])
    BY DEF Forms!InRows, Forms!Exists
  <2>1. DOMAIN srv[r] = Field
    BY FormsHold DEF Forms!Content
  <2> QED BY <2>1 DEF Safe, Forms!Range
<1>3. v \in Forms!OnTheWay => \E s \in buffer : Sent(s, v)
  BY DEF Forms!OnTheWay, Forms!Range, Sent
<1> QED BY <1>1, <1>2, <1>3 DEF Forms!Unsaved, Forms!Unsent, Forms!Typed

(* Requests and sheets whose texts are as before.                           *)
LEMMA SentStays ==
    ASSUME SentKept, \A v \in Forms!Mine : Safe(v) => Safe(v)',
           \A t \in buffer' : \E s \in buffer : t.sheet = s.sheet /\ t.patch = s.patch,
           \A l \in doc' : \E k \in doc : l.id = k.id /\ l.fields = k.fields
    PROVE  SentKept'
BY DEF SentKept, Sent, OnSheet

(* What was on its way or on a sheet is still there, or safe.               *)
LEMMA TypedStays ==
    ASSUME PartsAssumption, FormsType, TypedKept, \A v \in Forms!Mine : Safe(v) => Safe(v)',
           conflict' = conflict,
           \A s \in buffer, v \in Forms!Mine : Sent(s, v) =>
              Safe(v)' \/ (\E t \in buffer' : Sent(t, v)) \/ (\E l \in doc' : OnSheet(l, v)),
           \A k \in doc, v \in Forms!Mine : OnSheet(k, v) =>
              Safe(v)' \/ (\E t \in buffer' : Sent(t, v)) \/ (\E l \in doc' : OnSheet(l, v))
    PROVE  TypedKept'
<1>1. 1..conflict \subseteq Forms!Mine
  BY FormsNumbers DEF FormsType, FormsRest, Forms!Mine
<1>2. ASSUME NEW v \in 1..conflict
      PROVE  Safe(v)' \/ (\E t \in buffer' : Sent(t, v)) \/ (\E l \in doc' : OnSheet(l, v))
  <2>1. v \in Forms!Mine
    BY <1>1
  <2>2. Safe(v) \/ (\E s \in buffer : Sent(s, v)) \/ (\E k \in doc : OnSheet(k, v))
    BY DEF TypedKept
  <2> QED BY <2>1, <2>2
<1> SUFFICES ASSUME NEW v \in 1..conflict'
             PROVE  Safe(v)' \/ (\E t \in buffer' : Sent(t, v)) \/ (\E l \in doc' : OnSheet(l, v))
  BY DEF TypedKept
<1> QED BY <1>2

(* So they are if requests and sheets have the same texts as before.        *)
LEMMA TypedSame ==
    ASSUME PartsAssumption, FormsType, TypedKept, \A v \in Forms!Mine : Safe(v) => Safe(v)',
           conflict' = conflict,
           \A s \in buffer : \E t \in buffer' : t.patch = s.patch,
           \A k \in doc : \E l \in doc' : l.fields = k.fields
    PROVE  TypedKept'
<1>1. \A s \in buffer, v \in Forms!Mine : Sent(s, v) => \E t \in buffer' : Sent(t, v)
  BY DEF Sent
<1>2. \A k \in doc, v \in Forms!Mine : OnSheet(k, v) => \E l \in doc' : OnSheet(l, v)
  BY DEF OnSheet
<1> QED BY <1>1, <1>2, TypedStays

(* A sheet that data are put into had nothing that is not saved.            *)
LEMMA FormsReseeded ==
    ASSUME FormsType, perils' = {}, NEW r, NEW c, Forms!Caches(r, c), Forms!Reseeds(r, c)
    PROVE  /\ \A l \in doc' : \E k \in doc : l.id = k.id /\ (l = k \/ \A v \in Forms!Mine : OnSheet(k, v) => Safe(v))
           /\ \A k \in doc : k \in doc' \/ \A v \in Forms!Mine : OnSheet(k, v) => Safe(v)
<1>1. \A k \in doc : k.row = r /\ ~(r \in DOMAIN page /\ page[r] = c) => Forms!Unsaved(k) = {}
  BY DEF Forms!Caches, Forms!Meets
<1>2. \A k \in doc : k.row = r /\ ~(r \in DOMAIN page /\ page[r] = c) =>
         \A v \in Forms!Mine : OnSheet(k, v) => Safe(v)
  BY <1>1, FormsUnsent
<1>3. \A l \in doc' : \E k \in doc :
         \/ l = k
         \/ k.row = r /\ ~(r \in DOMAIN page /\ page[r] = c) /\ l = [k EXCEPT !.fields = c, !.touched = {}]
  BY DEF Forms!Reseeds
<1>4. \A k \in doc : k \in doc' \/ (k.row = r /\ ~(r \in DOMAIN page /\ page[r] = c))
  BY DEF Forms!Reseeds
<1>5. \A k \in doc : [k EXCEPT !.fields = c, !.touched = {}].id = k.id
  BY DEF FormsType, FormsSheet
<1> QED BY <1>2, <1>3, <1>4, <1>5

(* The rows, and the copies that queries have brought.                      *)
LEMMA FormsRowsStep ==
    ASSUME PartsAssumption, FormsType, Whole, Forms!Next
    PROVE  FormsRows'
<1> USE DEF FormsRows, FormsType, Forms!server, Forms!client, Forms!counts, Forms!history
<1>1. ASSUME NEW r \in Forms!Row \cup {New}, Forms!Open(r) PROVE FormsRows'
  <2>1. UNCHANGED <<srv, page>> /\ (cache' = cache \/ (r \in DOMAIN srv /\ cache' = Forms!With(cache, r, srv[r])))
    BY <1>1 DEF Forms!Open, Forms!Exists
  <2>2. cache' \in Parts(Forms!Row, Forms!Content)
    BY <2>1, FormsHold, WithPart
  <2> QED BY <2>1, <2>2
<1>2. ASSUME NEW f \in Field, Forms!Type(f) PROVE FormsRows'
  BY <1>2, WithPart, WithoutPart DEF Forms!Type
<1>3. CASE Forms!Cancel
  BY <1>3, WithPart, WithoutPart DEF Forms!Cancel
<1>4. CASE Forms!Submit
  BY <1>4, WithPart, WithoutPart DEF Forms!Submit, Forms!Patch, Forms!Request
<1>5. CASE Forms!AskDelete
  BY <1>5, WithPart, WithoutPart DEF Forms!AskDelete
<1>6. CASE Forms!KeepIt
  BY <1>6, WithPart, WithoutPart DEF Forms!KeepIt
<1>7. CASE Forms!ConfirmDelete
  BY <1>7, WithPart, WithoutPart DEF Forms!ConfirmDelete, Forms!Request
<1>8. ASSUME NEW s \in buffer, s.kind # "delete", Forms!Serve(s), Forms!ServeWrite(s)
      PROVE  FormsRows'
  <2> DEFINE new == [f \in Field |-> IF f \in DOMAIN s.patch THEN s.patch[f] ELSE srv[s.row][f]]
  <2>1. s.row \in DOMAIN srv /\ srv' = [srv EXCEPT ![s.row] = new] /\ UNCHANGED <<page, cache>>
    BY <1>8 DEF Forms!ServeWrite, Forms!Serve, Forms!Exists
  <2>2. new \in Forms!Content
    BY <2>1, FormsHold DEF Forms!Content
  <2> HIDE DEF new
  <2>3. srv' \in Parts(Forms!Row, Forms!Content)
    BY <2>1, <2>2, ExceptPart
  <2> QED BY <2>1, <2>3
<1>9. ASSUME NEW s \in buffer, s.kind # "delete", Forms!Serve(s), Forms!ServeCreate(s)
      PROVE  FormsRows'
  <2> PICK c \in Character : srv' = Forms!With(srv, c, s.patch)
    BY <1>9 DEF Forms!ServeCreate, Forms!Serve
  <2>1. s.row = New /\ UNCHANGED <<page, cache>>
    BY <1>9 DEF Forms!ServeCreate, Forms!Serve
  <2>2. s.patch \in Forms!Content /\ c \in Forms!Row
    BY <2>1 DEF Whole, Forms!Row
  <2>3. srv' \in Parts(Forms!Row, Forms!Content)
    BY <2>2, WithPart
  <2> QED BY <2>1, <2>3
<1>10. ASSUME NEW s \in buffer, s.kind = "delete", Forms!Serve(s), Forms!ServeDelete(s)
       PROVE  FormsRows'
  <2>1. srv' = Forms!Without(srv, s.row) /\ UNCHANGED <<page, cache>>
    BY <1>10 DEF Forms!ServeDelete, Forms!Serve
  <2>2. srv' \in Parts(Forms!Row, Forms!Content)
    BY <2>1, WithoutPart
  <2> QED BY <2>1, <2>2
<1>11. ASSUME NEW s \in buffer, Forms!Lose(s) PROVE FormsRows'
  BY <1>11, WithPart, WithoutPart DEF Forms!Lose
<1>12. ASSUME NEW s \in buffer, Forms!Done(s) PROVE FormsRows'
  <2>1. srv' = srv /\ page' \in {page, Forms!Without(page, s.row), Forms!With(page, Story, s.val)}
    BY <1>12 DEF Forms!Done
  <2>2. \/ cache' \in {cache, Forms!Without(cache, s.row)}
        \/ s.row \in DOMAIN srv /\ cache' = Forms!With(cache, s.row, srv[s.row])
    BY <1>12 DEF Forms!Done, Forms!Exists
  <2>3. Story \in Forms!Row /\ s.val \in Forms!Content
    BY DEF Forms!Row, FormsSaves
  <2>4. page' \in Parts(Forms!Row, Forms!Content)
    BY <2>1, <2>3, WithPart, WithoutPart
  <2>5. cache' \in Parts(Forms!Row, Forms!Content)
    BY <2>2, FormsHold, WithPart, WithoutPart
  <2> QED BY <2>1, <2>4, <2>5
<1>13. ASSUME NEW s \in buffer, Forms!Fails(s) PROVE FormsRows'
  BY <1>13, WithPart, WithoutPart DEF Forms!Fails, Forms!Meets
<1>14. ASSUME NEW r \in Forms!Exists, NEW f \in Field, Forms!Elsewhere(r, f) PROVE FormsRows'
  <2>1. UNCHANGED <<page, cache>> /\ Forms!Writes(r, {f})
    BY <1>14 DEF Forms!Elsewhere
  <2>2. srv' \in Parts(Forms!Row, Forms!Content)
    BY <2>1, FormsWritten DEF Forms!Exists
  <2> QED BY <2>1, <2>2
<1>15. ASSUME NEW r \in Forms!Row, Forms!Refetch(r) PROVE FormsRows'
  <2>1. r \in DOMAIN srv /\ cache' = Forms!With(cache, r, srv[r]) /\ UNCHANGED <<srv, page>>
    BY <1>15 DEF Forms!Refetch, Forms!Exists
  <2>2. cache' \in Parts(Forms!Row, Forms!Content)
    BY <2>1, FormsHold, WithPart
  <2> QED BY <2>1, <2>2
<1>16. ASSUME NEW r \in Forms!Row, Forms!Arrive(r) PROVE FormsRows'
  <2>1. /\ srv' = srv /\ r \in DOMAIN cache
        /\ page' = Forms!With(page, r, cache[r]) /\ cache' = Forms!Without(cache, r)
    BY <1>16 DEF Forms!Arrive, Forms!Caches
  <2>2. page' \in Parts(Forms!Row, Forms!Content) /\ cache' \in Parts(Forms!Row, Forms!Content)
    BY <2>1, FormsHold, WithPart, WithoutPart
  <2> QED BY <2>1, <2>2
<1>17. CASE Forms!Generate
  BY <1>17, WithPart, WithoutPart DEF Forms!Generate
<1>18. CASE Forms!GenerateEnds
  <2>1. CASE UNCHANGED <<srv, cache>>
    BY <1>18, <2>1 DEF Forms!GenerateEnds
  <2>2. CASE Forms!Writes(Summary, Field) /\ cache' = Forms!With(cache, Summary, srv'[Summary])
    <3>1. Summary \in DOMAIN srv /\ page' = page
      BY <1>18 DEF Forms!GenerateEnds, Whole
    <3>2. srv' \in Parts(Forms!Row, Forms!Content) /\ srv'[Summary] \in Forms!Content
      BY <2>2, <3>1, FormsWritten
    <3>3. cache' \in Parts(Forms!Row, Forms!Content)
      BY <2>2, <3>2, WithPart DEF Forms!Row
    <3> QED BY <3>1, <3>2, <3>3
  <2> QED BY <1>18, <2>1, <2>2 DEF Forms!GenerateEnds
<1> QED BY <1>1, <1>2, <1>3, <1>4, <1>5, <1>6, <1>7, <1>8, <1>9, <1>10, <1>11, <1>12, <1>13,
   <1>14, <1>15, <1>16, <1>17, <1>18 DEF Forms!Next, Forms!Serve

(* The sheet.                                                               *)
LEMMA FormsSheetStep ==
    ASSUME PartsAssumption, FormsType, Whole, Forms!Next
    PROVE  FormsSheet'
<1> USE DEF FormsSheet, FormsType, FormsRest, Single, Forms!server, Forms!client, Forms!counts,
   Forms!history
<1>1. ASSUME NEW r \in Forms!Row \cup {New}, Forms!Open(r) PROVE FormsSheet'
  <2> DEFINE fields == IF r \in DOMAIN page THEN page[r] ELSE Forms!Empty
  <2>1. /\ pinned' = pinned + 1
        /\ doc' = {[id |-> pinned', row |-> r, touched |-> {}, confirm |-> FALSE,
                    pending |-> r = Story /\ \E s \in buffer : s.row = Story, fields |-> fields]}
    BY <1>1 DEF Forms!Open
  <2>2. fields \in Forms!Content
    BY FormsHold DEF Forms!Empty, Forms!Content, Forms!Value, Forms!Blank
  <2>3. pinned' \in 1..pinned'
    BY <2>1
  <2>4. (r = Story /\ \E s \in buffer : s.row = Story) \in BOOLEAN
    OBVIOUS
  <2> HIDE DEF fields
  <2> QED BY <2>1, <2>2, <2>3, <2>4
<1>2. ASSUME NEW f \in Field, Forms!Type(f) PROVE FormsSheet'
  <2> PICK s \in doc : /\ doc' = {[s EXCEPT !.fields[f] = conflict', !.touched = @ \cup {f}]}
                       /\ conflict < MaxTyped /\ conflict' = conflict + 1
    BY <1>2 DEF Forms!Type
  <2>1. conflict' \in Forms!Value
    BY FormsNumbers
  <2>2. s.fields \in Forms!Content /\ [s.fields EXCEPT ![f] = conflict'] \in Forms!Content
    BY <2>1 DEF Forms!Content
  <2>3. pinned' = pinned
    BY <1>2 DEF Forms!Type
  <2>4. doc' = {[s EXCEPT !.fields = [s.fields EXCEPT ![f] = conflict'],
                          !.touched = s.touched \cup {f}]}
    OBVIOUS
  <2> DEFINE fields == [s.fields EXCEPT ![f] = conflict']
             touched == s.touched \cup {f}
  <2>5. fields \in Forms!Content /\ touched \in SUBSET Field
    BY <2>2
  <2> HIDE DEF fields, touched
  <2>6. [s EXCEPT !.fields = fields, !.touched = touched] \in
           [id : 1..pinned, row : Forms!Row \cup {New}, fields : Forms!Content,
            touched : SUBSET Field, pending : BOOLEAN, confirm : BOOLEAN]
    BY <2>5
  <2>7. doc' = {[s EXCEPT !.fields = fields, !.touched = touched]}
    BY <2>4 DEF fields, touched
  <2> QED BY <2>3, <2>6, <2>7
<1>3. CASE Forms!Cancel
  BY <1>3 DEF Forms!Cancel
<1>4. CASE Forms!Submit
  <2>1. pinned' = pinned /\ \E s \in doc : doc' \in {{}, {[s EXCEPT !.pending = TRUE]}}
    BY <1>4 DEF Forms!Submit
  <2> QED BY <2>1
<1>5. CASE Forms!AskDelete
  BY <1>5 DEF Forms!AskDelete
<1>6. CASE Forms!KeepIt
  BY <1>6 DEF Forms!KeepIt
<1>7. CASE Forms!ConfirmDelete
  BY <1>7 DEF Forms!ConfirmDelete, Forms!Request
<1>8. ASSUME NEW s \in buffer, s.kind # "delete", Forms!Serve(s), Forms!ServeWrite(s)
      PROVE  FormsSheet'
  BY <1>8 DEF Forms!ServeWrite, Forms!Serve, Forms!Replaces, Forms!Becomes, Forms!Meets
<1>9. ASSUME NEW s \in buffer, s.kind # "delete", Forms!Serve(s), Forms!ServeCreate(s)
      PROVE  FormsSheet'
  BY <1>9 DEF Forms!ServeCreate, Forms!Serve, Forms!Becomes, Forms!With
<1>10. ASSUME NEW s \in buffer, s.kind = "delete", Forms!Serve(s), Forms!ServeDelete(s)
       PROVE  FormsSheet'
  BY <1>10 DEF Forms!ServeDelete, Forms!Serve, Forms!Becomes, Forms!Without
<1>11. ASSUME NEW s \in buffer, Forms!Lose(s) PROVE FormsSheet'
  BY <1>11 DEF Forms!Lose
<1>12. ASSUME NEW s \in buffer, Forms!Done(s) PROVE FormsSheet'
  BY <1>12 DEF Forms!Done, Forms!Closes
<1>13. ASSUME NEW s \in buffer, Forms!Fails(s) PROVE FormsSheet'
  BY ZenonT(40), <1>13 DEF Forms!Fails, Forms!Meets
<1>14. ASSUME NEW r \in Forms!Exists, NEW f \in Field, Forms!Elsewhere(r, f) PROVE FormsSheet'
  BY <1>14 DEF Forms!Elsewhere, Forms!Writes, Forms!Meets
<1>15. ASSUME NEW r \in Forms!Row, Forms!Refetch(r) PROVE FormsSheet'
  BY <1>15 DEF Forms!Refetch, Forms!With
<1>16. ASSUME NEW r \in Forms!Row, Forms!Arrive(r) PROVE FormsSheet'
  <2>1. r \in DOMAIN cache /\ Forms!Reseeds(r, cache[r]) /\ pinned' = pinned
    BY <1>16 DEF Forms!Arrive
  <2>2. cache[r] \in Forms!Content
    BY <2>1, FormsHold
  <2>3. \A t \in doc' : \E s \in doc : t = s \/ t = [s EXCEPT !.fields = cache[r], !.touched = {}]
    BY <2>1 DEF Forms!Reseeds
  <2>4. Single(doc')
    BY ZenonT(40), <2>1 DEF Forms!Reseeds
  <2>5. \A s \in doc : [s EXCEPT !.fields = cache[r], !.touched = {}] \in
           [id : 1..pinned, row : Forms!Row \cup {New}, fields : Forms!Content,
            touched : SUBSET Field, pending : BOOLEAN, confirm : BOOLEAN]
    BY <2>2
  <2> HIDE DEF Single
  <2> QED BY <2>1, <2>3, <2>4, <2>5
<1>17. CASE Forms!Generate
  BY <1>17 DEF Forms!Generate
<1>18. CASE Forms!GenerateEnds
  BY <1>18 DEF Forms!GenerateEnds, Forms!Writes, Forms!With, Forms!Meets
<1> QED BY <1>1, <1>2, <1>3, <1>4, <1>5, <1>6, <1>7, <1>8, <1>9, <1>10, <1>11, <1>12, <1>13,
   <1>14, <1>15, <1>16, <1>17, <1>18 DEF Forms!Next, Forms!Serve

(* The requests.                                                            *)
LEMMA FormsSavesStep ==
    ASSUME PartsAssumption, FormsType, Whole, Forms!Next
    PROVE  FormsSaves'
<1> USE DEF FormsSaves, FormsType, Forms!server, Forms!client, Forms!counts, Forms!history
<1>1. ASSUME NEW r \in Forms!Row \cup {New}, Forms!Open(r) PROVE FormsSaves'
  <2>1. buffer' = buffer /\ pinned' = pinned + 1 /\ pinned \in Nat
    BY <1>1 DEF Forms!Open, FormsRest
  <2>2. 1..pinned \subseteq 1..pinned'
    BY <2>1
  <2> QED BY <2>1, <2>2
<1>2. ASSUME NEW f \in Field, Forms!Type(f) PROVE FormsSaves'
  BY <1>2 DEF Forms!Type
<1>3. CASE Forms!Cancel
  BY <1>3 DEF Forms!Cancel
<1>4. CASE Forms!Submit
  <2> PICK s \in doc :
          \/ buffer' = buffer
          \/ \E ans \in {"none", "failed"} :
               buffer' = buffer \cup {[Forms!Request(s, "write", Forms!Patch(s)) EXCEPT !.ans = ans]}
    BY <1>4 DEF Forms!Submit
  <2>1. pinned' = pinned
    BY <1>4 DEF Forms!Submit
  <2>2. /\ s.row \in Forms!Row \cup {New} /\ s.id \in 1..pinned /\ s.touched \in SUBSET Field
        /\ s.fields \in Forms!Content
    BY DEF FormsSheet
  <2>3. Forms!Patch(s) \in Parts(Field, Forms!Value)
    BY <2>2, PatchIsPart
  <2>4. Forms!Empty \in Forms!Content
    BY DEF Forms!Empty, Forms!Content, Forms!Value, Forms!Blank
  <2> DEFINE patch == Forms!Patch(s)
             touched == IF s.row = Summary THEN Field ELSE s.touched
  <2>5. \A t \in buffer' \ buffer : \E ans \in {"none", "failed"} :
           t = [row |-> s.row, sheet |-> s.id, kind |-> "write", patch |-> patch,
                touched |-> touched, ans |-> ans, val |-> Forms!Empty]
    BY DEF Forms!Request
  <2>6. touched \in SUBSET Field
    BY <2>2
  <2> HIDE DEF patch, touched
  <2> QED BY <2>1, <2>2, <2>3, <2>4, <2>5, <2>6 DEF patch
<1>5. CASE Forms!AskDelete
  BY <1>5 DEF Forms!AskDelete
<1>6. CASE Forms!KeepIt
  BY <1>6 DEF Forms!KeepIt
<1>7. CASE Forms!ConfirmDelete
  <2> PICK s \in doc : buffer' = buffer \cup {Forms!Request(s, "delete", <<>>)}
    BY <1>7 DEF Forms!ConfirmDelete
  <2>1. pinned' = pinned
    BY <1>7 DEF Forms!ConfirmDelete
  <2>2. /\ s.row \in Forms!Row \cup {New} /\ s.id \in 1..pinned /\ s.touched \in SUBSET Field
    BY DEF FormsSheet
  <2>3. <<>> \in Parts(Field, Forms!Value)
    BY NonePart
  <2>4. Forms!Empty \in Forms!Content
    BY DEF Forms!Empty, Forms!Content, Forms!Value, Forms!Blank
  <2> QED BY <2>1, <2>2, <2>3, <2>4 DEF Forms!Request
<1>8. ASSUME NEW s \in buffer, s.kind # "delete", Forms!Serve(s), Forms!ServeWrite(s)
      PROVE  FormsSaves'
  <2> DEFINE new == [f \in Field |-> IF f \in DOMAIN s.patch THEN s.patch[f] ELSE srv[s.row][f]]
  <2>1. s.row \in DOMAIN srv /\ Forms!Becomes(s, s.row, new) /\ pinned' = pinned
    BY <1>8 DEF Forms!ServeWrite, Forms!Serve, Forms!Exists
  <2>2. new \in Forms!Content
    BY <2>1, FormsHold DEF Forms!Content
  <2>3. s.row \in Forms!Row
    BY <2>1, FormsHold
  <2> HIDE DEF new
  <2> QED BY <2>1, <2>2, <2>3, FormsAnswered
<1>9. ASSUME NEW s \in buffer, s.kind # "delete", Forms!Serve(s), Forms!ServeCreate(s)
      PROVE  FormsSaves'
  <2> PICK c \in Character : Forms!Becomes(s, c, s.patch)
    BY <1>9 DEF Forms!ServeCreate
  <2>1. s.row = New /\ pinned' = pinned
    BY <1>9 DEF Forms!ServeCreate, Forms!Serve
  <2>2. s.patch \in Forms!Content /\ c \in Forms!Row
    BY <2>1 DEF Whole, Forms!Row
  <2> QED BY <2>1, <2>2, FormsAnswered
<1>10. ASSUME NEW s \in buffer, s.kind = "delete", Forms!Serve(s), Forms!ServeDelete(s)
       PROVE  FormsSaves'
  <2>1. s.row \in DOMAIN srv /\ Forms!Becomes(s, s.row, Forms!Empty) /\ pinned' = pinned
    BY <1>10 DEF Forms!ServeDelete, Forms!Serve, Forms!Exists
  <2>2. Forms!Empty \in Forms!Content
    BY DEF Forms!Empty, Forms!Content, Forms!Value, Forms!Blank
  <2> QED BY <2>1, <2>2, FormsHold, FormsAnswered
<1>11. ASSUME NEW s \in buffer, Forms!Lose(s) PROVE FormsSaves'
  BY <1>11 DEF Forms!Lose
<1>12. ASSUME NEW s \in buffer, Forms!Done(s) PROVE FormsSaves'
  BY <1>12 DEF Forms!Done, Forms!Closes, Forms!Meets, Forms!With, Forms!Without
<1>13. ASSUME NEW s \in buffer, Forms!Fails(s) PROVE FormsSaves'
  BY <1>13 DEF Forms!Fails, Forms!Meets
<1>14. ASSUME NEW r \in Forms!Exists, NEW f \in Field, Forms!Elsewhere(r, f) PROVE FormsSaves'
  BY <1>14 DEF Forms!Elsewhere, Forms!Writes, Forms!Meets
<1>15. ASSUME NEW r \in Forms!Row, Forms!Refetch(r) PROVE FormsSaves'
  BY <1>15 DEF Forms!Refetch, Forms!With
<1>16. ASSUME NEW r \in Forms!Row, Forms!Arrive(r) PROVE FormsSaves'
  BY <1>16 DEF Forms!Arrive, Forms!Caches, Forms!Reseeds, Forms!Meets, Forms!With, Forms!Without
<1>17. CASE Forms!Generate
  BY <1>17 DEF Forms!Generate
<1>18. CASE Forms!GenerateEnds
  BY <1>18 DEF Forms!GenerateEnds, Forms!Writes, Forms!With, Forms!Meets
<1> QED BY <1>1, <1>2, <1>3, <1>4, <1>5, <1>6, <1>7, <1>8, <1>9, <1>10, <1>11, <1>12, <1>13,
   <1>14, <1>15, <1>16, <1>17, <1>18 DEF Forms!Next, Forms!Serve

(* The counts, and what was given up.                                       *)
LEMMA FormsRestStep ==
    ASSUME PartsAssumption, FormsType, Whole, Forms!Next
    PROVE  FormsRest'
<1> USE DEF FormsType, FormsRest, Forms!Typed, Forms!server, Forms!client, Forms!counts,
   Forms!history
<1>1. ASSUME NEW r \in Forms!Row \cup {New}, Forms!Open(r) PROVE FormsRest'
  BY <1>1 DEF Forms!Open, Forms!With
<1>2. ASSUME NEW f \in Field, Forms!Type(f) PROVE FormsRest'
  <2> PICK s \in doc : fetch' = fetch \cup (Forms!Mine \cap {s.fields[f]})
    BY <1>2 DEF Forms!Type
  <2>1. conflict' \in 0..MaxTyped
    BY <1>2, FormsNumbers DEF Forms!Type
  <2>2. UNCHANGED <<base, pinned, save, perils>>
    BY <1>2 DEF Forms!Type
  <2> QED BY <2>1, <2>2
<1>3. CASE Forms!Cancel
  <2>1. fetch' \subseteq Forms!Mine
    BY <1>3 DEF Forms!Cancel, Forms!Unsent, Forms!Unsaved
  <2> QED BY <1>3, <2>1 DEF Forms!Cancel
<1>4. CASE Forms!Submit
  BY <1>4 DEF Forms!Submit, Forms!Patch, Forms!Request
<1>5. CASE Forms!AskDelete
  BY <1>5 DEF Forms!AskDelete
<1>6. CASE Forms!KeepIt
  BY <1>6 DEF Forms!KeepIt
<1>7. CASE Forms!ConfirmDelete
  BY SMTT(30), <1>7 DEF Forms!ConfirmDelete, Forms!Request
<1>8. ASSUME NEW s \in buffer, s.kind # "delete", Forms!Serve(s), Forms!ServeWrite(s)
      PROVE  FormsRest'
  BY <1>8 DEF Forms!ServeWrite, Forms!Serve, Forms!Replaces, Forms!Becomes, Forms!Meets
<1>9. ASSUME NEW s \in buffer, s.kind # "delete", Forms!Serve(s), Forms!ServeCreate(s)
      PROVE  FormsRest'
  BY <1>9 DEF Forms!ServeCreate, Forms!Serve, Forms!Becomes, Forms!With
<1>10. ASSUME NEW s \in buffer, s.kind = "delete", Forms!Serve(s), Forms!ServeDelete(s)
       PROVE  FormsRest'
  BY <1>10 DEF Forms!ServeDelete, Forms!Serve, Forms!Becomes, Forms!Without
<1>11. ASSUME NEW s \in buffer, Forms!Lose(s) PROVE FormsRest'
  BY <1>11 DEF Forms!Lose
<1>12. ASSUME NEW s \in buffer, Forms!Done(s) PROVE FormsRest'
  BY <1>12 DEF Forms!Done, Forms!Closes, Forms!Meets, Forms!With, Forms!Without
<1>13. ASSUME NEW s \in buffer, Forms!Fails(s) PROVE FormsRest'
  BY <1>13 DEF Forms!Fails, Forms!Meets
<1>14. ASSUME NEW r \in Forms!Exists, NEW f \in Field, Forms!Elsewhere(r, f) PROVE FormsRest'
  <2>1. save' \in 0..MaxOther /\ perils' \subseteq perils \cup {"over"}
    BY <1>14, FormsNumbers DEF Forms!Elsewhere, Forms!Writes, Forms!Meets
  <2> QED BY <1>14, <2>1 DEF Forms!Elsewhere
<1>15. ASSUME NEW r \in Forms!Row, Forms!Refetch(r) PROVE FormsRest'
  BY <1>15 DEF Forms!Refetch, Forms!With
<1>16. ASSUME NEW r \in Forms!Row, Forms!Arrive(r) PROVE FormsRest'
  BY <1>16 DEF Forms!Arrive, Forms!Caches, Forms!Reseeds, Forms!Meets, Forms!With, Forms!Without
<1>17. CASE Forms!Generate
  BY <1>17 DEF Forms!Generate
<1>18. CASE Forms!GenerateEnds
  <2>1. save' \in 0..MaxOther /\ perils' \subseteq perils \cup {"over"}
    BY <1>18, FormsNumbers DEF Forms!GenerateEnds, Forms!Writes, Forms!Meets
  <2> QED BY <1>18, <2>1 DEF Forms!GenerateEnds
<1> QED BY <1>1, <1>2, <1>3, <1>4, <1>5, <1>6, <1>7, <1>8, <1>9, <1>10, <1>11, <1>12, <1>13,
   <1>14, <1>15, <1>16, <1>17, <1>18 DEF Forms!Next, Forms!Serve

(* A new row is sent whole; only a character is deleted; a summary is       *)
(* generated of a chapter that is there.                                    *)
LEMMA WholeStep ==
    ASSUME PartsAssumption, FormsType, Whole, Forms!Next
    PROVE  Whole'
<1> USE DEF Whole, FormsType, FormsSheet, FormsSaves, Single, Forms!Row, Forms!Exists,
   Forms!EditFormsAssumption, Forms!server, Forms!client, Forms!counts, Forms!history
<1>1. ASSUME NEW r \in Forms!Row \cup {New}, Forms!Open(r) PROVE Whole'
  BY <1>1, PartsAssumption DEF Forms!Open, Forms!With
<1>2. ASSUME NEW f \in Field, Forms!Type(f) PROVE Whole'
  BY <1>2, PartsAssumption DEF Forms!Type
<1>3. CASE Forms!Cancel
  BY <1>3, PartsAssumption DEF Forms!Cancel
<1>4. CASE Forms!Submit
  <2> PICK s \in doc :
          \/ buffer' = buffer
          \/ \E ans \in {"none", "failed"} :
               buffer' = buffer \cup {[Forms!Request(s, "write", Forms!Patch(s)) EXCEPT !.ans = ans]}
    BY <1>4 DEF Forms!Submit
  <2>0. s.fields \in Forms!Content
    OBVIOUS
  <2>1. s.row = New => Forms!Patch(s) \in Forms!Content
    BY <2>0, PatchIsPart
  <2>2. \A t \in buffer' \ buffer : t.row = s.row /\ t.kind = "write" /\ t.patch = Forms!Patch(s)
    BY DEF Forms!Request
  <2>3. UNCHANGED <<base, srv>> /\ \A k \in doc' : \E q \in doc : k.confirm = q.confirm /\ k.row = q.row
    BY <1>4 DEF Forms!Submit
  <2> QED BY <2>1, <2>2, <2>3
<1>5. CASE Forms!AskDelete
  BY <1>5, PartsAssumption DEF Forms!AskDelete
<1>6. CASE Forms!KeepIt
  BY <1>6, PartsAssumption DEF Forms!KeepIt
<1>7. CASE Forms!ConfirmDelete
  <2> PICK s \in doc : s.confirm /\ buffer' = buffer \cup {Forms!Request(s, "delete", <<>>)}
    BY <1>7 DEF Forms!ConfirmDelete
  <2>1. UNCHANGED <<base, srv, doc>> /\ s.row \in Character /\ s.row # New
    BY <1>7, PartsAssumption DEF Forms!ConfirmDelete
  <2>2. \A t \in buffer' \ buffer : t.row = s.row /\ t.patch = <<>>
    BY DEF Forms!Request
  <2> QED BY <2>1, <2>2
<1>8. ASSUME NEW s \in buffer, s.kind # "delete", Forms!Serve(s), Forms!ServeWrite(s)
      PROVE  Whole'
  BY <1>8, PartsAssumption DEF Forms!ServeWrite, Forms!Serve, Forms!Replaces, Forms!Becomes,
     Forms!Meets
<1>9. ASSUME NEW s \in buffer, s.kind # "delete", Forms!Serve(s), Forms!ServeCreate(s)
      PROVE  Whole'
  BY <1>9, PartsAssumption DEF Forms!ServeCreate, Forms!Serve, Forms!Becomes, Forms!With
<1>10. ASSUME NEW s \in buffer, s.kind = "delete", Forms!Serve(s), Forms!ServeDelete(s)
       PROVE  Whole'
  <2>1. /\ s.row \in Character /\ s.patch = <<>> /\ srv' = Forms!Without(srv, s.row)
        /\ buffer' = (buffer \ {s}) \cup
             {[s EXCEPT !.row = s.row, !.ans = "ok",
                        !.val = IF s.row = Story THEN Forms!Empty ELSE Forms!Empty]}
        /\ UNCHANGED <<doc, base>>
    BY <1>10 DEF Forms!Serve, Forms!ServeDelete, Forms!Becomes
  <2>2. \A t \in buffer' : t \in buffer \/ (t.row = s.row /\ t.patch = <<>>)
    BY <2>1
  <2>3. DOMAIN srv' = DOMAIN srv \ {s.row}
    BY <2>1 DEF Forms!Without
  <2>4. s.row # New /\ s.row # Summary
    BY <2>1, PartsAssumption
  <2> QED BY <2>1, <2>2, <2>3, <2>4
<1>11. ASSUME NEW s \in buffer, Forms!Lose(s) PROVE Whole'
  BY <1>11, PartsAssumption DEF Forms!Lose
<1>12. ASSUME NEW s \in buffer, Forms!Done(s) PROVE Whole'
  BY <1>12, PartsAssumption DEF Forms!Done, Forms!Closes, Forms!Meets, Forms!With, Forms!Without
<1>13. ASSUME NEW s \in buffer, Forms!Fails(s) PROVE Whole'
  BY <1>13, PartsAssumption DEF Forms!Fails, Forms!Meets
<1>14. ASSUME NEW r \in Forms!Exists, NEW f \in Field, Forms!Elsewhere(r, f) PROVE Whole'
  BY <1>14, PartsAssumption DEF Forms!Elsewhere, Forms!Writes, Forms!Meets
<1>15. ASSUME NEW r \in Forms!Row, Forms!Refetch(r) PROVE Whole'
  BY <1>15, PartsAssumption DEF Forms!Refetch, Forms!With
<1>16. ASSUME NEW r \in Forms!Row, Forms!Arrive(r) PROVE Whole'
  <2>1. UNCHANGED <<base, srv, buffer>> /\ Forms!Reseeds(r, cache[r])
    BY <1>16 DEF Forms!Arrive
  <2>2. \A k \in doc' : \E q \in doc : k.confirm = q.confirm /\ k.row = q.row
    BY <2>1 DEF Forms!Reseeds
  <2> QED BY <2>1, <2>2
<1>17. CASE Forms!Generate
  BY <1>17, PartsAssumption DEF Forms!Generate
<1>18. CASE Forms!GenerateEnds
  BY <1>18, PartsAssumption DEF Forms!GenerateEnds, Forms!Writes, Forms!With, Forms!Meets
<1> QED BY <1>1, <1>2, <1>3, <1>4, <1>5, <1>6, <1>7, <1>8, <1>9, <1>10, <1>11, <1>12, <1>13,
   <1>14, <1>15, <1>16, <1>17, <1>18 DEF Forms!Next, Forms!Serve

(* A field nobody touched shows what the query brought.                     *)
LEMMA SeededStep ==
    ASSUME PartsAssumption, FormsType, Seeded, Forms!Next
    PROVE  Seeded'
<1> USE DEF Seeded, FormsType, FormsSheet, Single, Forms!Empty, Forms!server, Forms!client,
   Forms!counts, Forms!history
<1>1. ASSUME NEW r \in Forms!Row \cup {New}, Forms!Open(r) PROVE Seeded'
  BY <1>1 DEF Forms!Open, Forms!With
<1>2. ASSUME NEW f \in Field, Forms!Type(f) PROVE Seeded'
  <2> PICK s \in doc : doc' = {[s EXCEPT !.fields[f] = conflict', !.touched = @ \cup {f}]}
    BY <1>2 DEF Forms!Type
  <2>1. \A k \in doc' : /\ k.row = s.row /\ k.touched = s.touched \cup {f}
                         /\ \A g \in Field \ {f} : k.fields[g] = s.fields[g]
    BY DEF Forms!Content
  <2>2. page' = page
    BY <1>2 DEF Forms!Type
  <2>3. s.row \in DOMAIN page \ {Summary} => \A g \in Field \ s.touched : s.fields[g] = page[s.row][g]
    OBVIOUS
  <2> HIDE DEF FormsType, FormsSheet
  <2>4. SUFFICES ASSUME NEW k \in doc', k.row \in DOMAIN page \ {Summary}, NEW g \in Field \ k.touched
                 PROVE  k.fields[g] = page[k.row][g]
    BY <2>2
  <2>5. k.row = s.row /\ g \in Field \ s.touched /\ g # f
    BY <2>1, <2>4
  <2>6. k.fields[g] = s.fields[g]
    BY <2>1, <2>5
  <2> QED BY <2>3, <2>4, <2>5, <2>6
<1>3. CASE Forms!Cancel
  BY <1>3 DEF Forms!Cancel
<1>4. CASE Forms!Submit
  BY <1>4 DEF Forms!Submit, Forms!Patch, Forms!Request
<1>5. CASE Forms!AskDelete
  BY <1>5 DEF Forms!AskDelete
<1>6. CASE Forms!KeepIt
  BY <1>6 DEF Forms!KeepIt
<1>7. CASE Forms!ConfirmDelete
  BY <1>7 DEF Forms!ConfirmDelete, Forms!Request
<1>8. ASSUME NEW s \in buffer, s.kind # "delete", Forms!Serve(s), Forms!ServeWrite(s)
      PROVE  Seeded'
  BY <1>8 DEF Forms!ServeWrite, Forms!Serve, Forms!Replaces, Forms!Becomes, Forms!Meets
<1>9. ASSUME NEW s \in buffer, s.kind # "delete", Forms!Serve(s), Forms!ServeCreate(s)
      PROVE  Seeded'
  BY <1>9 DEF Forms!ServeCreate, Forms!Serve, Forms!Becomes, Forms!With
<1>10. ASSUME NEW s \in buffer, s.kind = "delete", Forms!Serve(s), Forms!ServeDelete(s)
       PROVE  Seeded'
  BY <1>10 DEF Forms!ServeDelete, Forms!Serve, Forms!Becomes, Forms!Without
<1>11. ASSUME NEW s \in buffer, Forms!Lose(s) PROVE Seeded'
  BY <1>11 DEF Forms!Lose
<1>12. ASSUME NEW s \in buffer, Forms!Done(s) PROVE Seeded'
  BY <1>12 DEF Forms!Done, Forms!Closes, Forms!Meets, Forms!With, Forms!Without
<1>13. ASSUME NEW s \in buffer, Forms!Fails(s) PROVE Seeded'
  BY <1>13 DEF Forms!Fails, Forms!Meets
<1>14. ASSUME NEW r \in Forms!Exists, NEW f \in Field, Forms!Elsewhere(r, f) PROVE Seeded'
  BY <1>14 DEF Forms!Elsewhere, Forms!Writes, Forms!Meets
<1>15. ASSUME NEW r \in Forms!Row, Forms!Refetch(r) PROVE Seeded'
  BY <1>15 DEF Forms!Refetch, Forms!With
<1>16. ASSUME NEW r \in Forms!Row, Forms!Arrive(r) PROVE Seeded'
  <2>1. r \in DOMAIN cache /\ page' = Forms!With(page, r, cache[r]) /\ Forms!Reseeds(r, cache[r])
    BY <1>16 DEF Forms!Arrive, Forms!Caches
  <2>2. /\ DOMAIN page' = DOMAIN page \cup {r} /\ page'[r] = cache[r]
        /\ \A q \in DOMAIN page \ {r} : page'[q] = page[q]
    BY <2>1 DEF Forms!With
  <2>3. \A k \in doc' :
           \/ k \in doc /\ (k.row # r \/ (r \in DOMAIN page /\ page[r] = cache[r]))
           \/ k.row = r /\ k.fields = cache[r]
    BY <2>1 DEF Forms!Reseeds
  <2> QED BY <2>2, <2>3
<1>17. CASE Forms!Generate
  BY <1>17 DEF Forms!Generate
<1>18. CASE Forms!GenerateEnds
  BY <1>18 DEF Forms!GenerateEnds, Forms!Writes, Forms!With, Forms!Meets
<1> QED BY <1>1, <1>2, <1>3, <1>4, <1>5, <1>6, <1>7, <1>8, <1>9, <1>10, <1>11, <1>12, <1>13,
   <1>14, <1>15, <1>16, <1>17, <1>18 DEF Forms!Next, Forms!Serve

(* A request to change a row names fields that were touched.                *)
LEMMA TouchedStep ==
    ASSUME PartsAssumption, FormsType, Seeded, TouchedOnly, Forms!Next
    PROVE  TouchedOnly'
<1> USE DEF Seeded, TouchedOnly, FormsType, FormsSheet, FormsSaves, Single, Forms!server,
   Forms!client, Forms!counts, Forms!history
<1>1. ASSUME NEW r \in Forms!Row \cup {New}, Forms!Open(r) PROVE TouchedOnly'
  BY <1>1 DEF Forms!Open, Forms!With
<1>2. ASSUME NEW f \in Field, Forms!Type(f) PROVE TouchedOnly'
  BY <1>2 DEF Forms!Type
<1>3. CASE Forms!Cancel
  BY <1>3 DEF Forms!Cancel
<1>4. CASE Forms!Submit
  <2> PICK s \in doc :
          \/ buffer' = buffer
          \/ \E ans \in {"none", "failed"} :
               /\ buffer' = buffer \cup {[Forms!Request(s, "write", Forms!Patch(s)) EXCEPT !.ans = ans]}
               /\ ans = "none" => s.row \in DOMAIN page \cup {New}
    BY <1>4 DEF Forms!Submit
  <2>1. \A t \in buffer' \ buffer :
           /\ t.row = s.row /\ t.patch = Forms!Patch(s) /\ (t.ans = "none" => s.row \in DOMAIN page \cup {New})
           /\ t.touched = IF s.row = Summary THEN Field ELSE s.touched
    BY DEF Forms!Request
  <2>2. s.fields \in Forms!Content /\ DOMAIN Forms!Patch(s) \subseteq Field
    BY PatchIsPart
  <2>3. s.row \in DOMAIN page \ {Summary, New} => DOMAIN Forms!Patch(s) \subseteq s.touched
    <3> SUFFICES ASSUME s.row \in DOMAIN page \ {Summary, New} PROVE DOMAIN Forms!Patch(s) \subseteq s.touched
      OBVIOUS
    <3>1. DOMAIN Forms!Patch(s) = {g \in Field : s.fields[g] # page[s.row][g]}
      BY <2>2, PatchIsPart
    <3> QED BY <3>1
  <2> QED BY <2>1, <2>2, <2>3
<1>5. CASE Forms!AskDelete
  BY <1>5 DEF Forms!AskDelete
<1>6. CASE Forms!KeepIt
  BY <1>6 DEF Forms!KeepIt
<1>7. CASE Forms!ConfirmDelete
  BY <1>7 DEF Forms!ConfirmDelete, Forms!Request
<1>8. ASSUME NEW s \in buffer, s.kind # "delete", Forms!Serve(s), Forms!ServeWrite(s)
      PROVE  TouchedOnly'
  BY <1>8 DEF Forms!ServeWrite, Forms!Serve, Forms!Replaces, Forms!Becomes, Forms!Meets
<1>9. ASSUME NEW s \in buffer, s.kind # "delete", Forms!Serve(s), Forms!ServeCreate(s)
      PROVE  TouchedOnly'
  BY <1>9 DEF Forms!ServeCreate, Forms!Serve, Forms!Becomes, Forms!With
<1>10. ASSUME NEW s \in buffer, s.kind = "delete", Forms!Serve(s), Forms!ServeDelete(s)
       PROVE  TouchedOnly'
  BY <1>10 DEF Forms!ServeDelete, Forms!Serve, Forms!Becomes, Forms!Without
<1>11. ASSUME NEW s \in buffer, Forms!Lose(s) PROVE TouchedOnly'
  BY <1>11 DEF Forms!Lose
<1>12. ASSUME NEW s \in buffer, Forms!Done(s) PROVE TouchedOnly'
  BY <1>12 DEF Forms!Done, Forms!Closes, Forms!Meets, Forms!With, Forms!Without
<1>13. ASSUME NEW s \in buffer, Forms!Fails(s) PROVE TouchedOnly'
  BY <1>13 DEF Forms!Fails, Forms!Meets
<1>14. ASSUME NEW r \in Forms!Exists, NEW f \in Field, Forms!Elsewhere(r, f) PROVE TouchedOnly'
  BY <1>14 DEF Forms!Elsewhere, Forms!Writes, Forms!Meets
<1>15. ASSUME NEW r \in Forms!Row, Forms!Refetch(r) PROVE TouchedOnly'
  BY <1>15 DEF Forms!Refetch, Forms!With
<1>16. ASSUME NEW r \in Forms!Row, Forms!Arrive(r) PROVE TouchedOnly'
  BY <1>16 DEF Forms!Arrive, Forms!Caches, Forms!Reseeds, Forms!Meets, Forms!With, Forms!Without
<1>17. CASE Forms!Generate
  BY <1>17 DEF Forms!Generate
<1>18. CASE Forms!GenerateEnds
  BY <1>18 DEF Forms!GenerateEnds, Forms!Writes, Forms!With, Forms!Meets
<1> QED BY <1>1, <1>2, <1>3, <1>4, <1>5, <1>6, <1>7, <1>8, <1>9, <1>10, <1>11, <1>12, <1>13,
   <1>14, <1>15, <1>16, <1>17, <1>18 DEF Forms!Next, Forms!Serve

(* So no save replaces a text that nobody touched.                          *)
LEMMA TrampledStep ==
    ASSUME PartsAssumption, FormsType, TouchedOnly, ~flight, Forms!Next
    PROVE  ~flight'
<1> USE DEF TouchedOnly, FormsType, FormsSaves, Forms!server, Forms!client, Forms!counts,
   Forms!history
<1>1. ASSUME NEW r \in Forms!Row \cup {New}, Forms!Open(r) PROVE ~flight'
  BY <1>1 DEF Forms!Open, Forms!With
<1>2. ASSUME NEW f \in Field, Forms!Type(f) PROVE ~flight'
  BY <1>2 DEF Forms!Type
<1>3. CASE Forms!Cancel
  BY <1>3 DEF Forms!Cancel
<1>4. CASE Forms!Submit
  BY <1>4 DEF Forms!Submit, Forms!Patch, Forms!Request
<1>5. CASE Forms!AskDelete
  BY <1>5 DEF Forms!AskDelete
<1>6. CASE Forms!KeepIt
  BY <1>6 DEF Forms!KeepIt
<1>7. CASE Forms!ConfirmDelete
  BY <1>7 DEF Forms!ConfirmDelete, Forms!Request
<1>8. ASSUME NEW s \in buffer, s.kind # "delete", Forms!Serve(s), Forms!ServeWrite(s)
      PROVE  ~flight'
  <2> DEFINE new == [f \in Field |-> IF f \in DOMAIN s.patch THEN s.patch[f] ELSE srv[s.row][f]]
             lost == {f \in Field : srv[s.row][f] \notin {Forms!Blank, new[f]}}
  <2>1. s.row # New /\ s.ans = "none" /\ s.kind = "write"
    <3>1. s.row \in Forms!Row
      BY <1>8, FormsHold DEF Forms!ServeWrite, Forms!Exists
    <3> QED BY <1>8, <3>1, PartsAssumption DEF Forms!Serve, Forms!Row, Forms!EditFormsAssumption
  <2>2. lost \subseteq DOMAIN s.patch
    OBVIOUS
  <2>3. lost \subseteq s.touched
    BY <2>1, <2>2
  <2>4. flight' = (flight \/ ~ lost \subseteq s.touched)
    BY <1>8 DEF Forms!ServeWrite, Forms!Replaces
  <2> QED BY <2>3, <2>4
<1>9. ASSUME NEW s \in buffer, s.kind # "delete", Forms!Serve(s), Forms!ServeCreate(s)
      PROVE  ~flight'
  BY <1>9 DEF Forms!ServeCreate, Forms!Serve, Forms!Becomes, Forms!With
<1>10. ASSUME NEW s \in buffer, s.kind = "delete", Forms!Serve(s), Forms!ServeDelete(s)
       PROVE  ~flight'
  BY <1>10 DEF Forms!ServeDelete, Forms!Serve, Forms!Becomes, Forms!Without
<1>11. ASSUME NEW s \in buffer, Forms!Lose(s) PROVE ~flight'
  BY <1>11 DEF Forms!Lose
<1>12. ASSUME NEW s \in buffer, Forms!Done(s) PROVE ~flight'
  BY <1>12 DEF Forms!Done, Forms!Closes, Forms!Meets, Forms!With, Forms!Without
<1>13. ASSUME NEW s \in buffer, Forms!Fails(s) PROVE ~flight'
  BY <1>13 DEF Forms!Fails, Forms!Meets
<1>14. ASSUME NEW r \in Forms!Exists, NEW f \in Field, Forms!Elsewhere(r, f) PROVE ~flight'
  BY <1>14 DEF Forms!Elsewhere, Forms!Writes, Forms!Meets
<1>15. ASSUME NEW r \in Forms!Row, Forms!Refetch(r) PROVE ~flight'
  BY <1>15 DEF Forms!Refetch, Forms!With
<1>16. ASSUME NEW r \in Forms!Row, Forms!Arrive(r) PROVE ~flight'
  BY <1>16 DEF Forms!Arrive, Forms!Caches, Forms!Reseeds, Forms!Meets, Forms!With, Forms!Without
<1>17. CASE Forms!Generate
  BY <1>17 DEF Forms!Generate
<1>18. CASE Forms!GenerateEnds
  BY <1>18 DEF Forms!GenerateEnds, Forms!Writes, Forms!With, Forms!Meets
<1> QED BY <1>1, <1>2, <1>3, <1>4, <1>5, <1>6, <1>7, <1>8, <1>9, <1>10, <1>11, <1>12, <1>13,
   <1>14, <1>15, <1>16, <1>17, <1>18 DEF Forms!Next, Forms!Serve

(* A text that is in a row, or was given up, stays in one, or is given up:  *)
(* or a text was written over.                                              *)
LEMMA SafeStays ==
    ASSUME PartsAssumption, FormsType, Whole, perils' = {}, NEW v \in Forms!Mine, Safe(v), Forms!Next
    PROVE  Safe(v)'
<1> USE DEF Safe, Forms!Exists, Forms!server, Forms!client, Forms!counts, Forms!history
<1>1. ASSUME NEW r \in Forms!Row \cup {New}, Forms!Open(r) PROVE Safe(v)'
  BY <1>1 DEF Forms!Open, Forms!With
<1>2. ASSUME NEW f \in Field, Forms!Type(f) PROVE Safe(v)'
  BY <1>2 DEF Forms!Type
<1>3. CASE Forms!Cancel
  BY <1>3 DEF Forms!Cancel
<1>4. CASE Forms!Submit
  BY <1>4 DEF Forms!Submit, Forms!Patch, Forms!Request
<1>5. CASE Forms!AskDelete
  BY <1>5 DEF Forms!AskDelete
<1>6. CASE Forms!KeepIt
  BY <1>6 DEF Forms!KeepIt
<1>7. CASE Forms!ConfirmDelete
  BY <1>7 DEF Forms!ConfirmDelete, Forms!Request
<1>8. ASSUME NEW s \in buffer, s.kind # "delete", Forms!Serve(s), Forms!ServeWrite(s)
      PROVE  Safe(v)'
  <2> DEFINE new == [f \in Field |-> IF f \in DOMAIN s.patch THEN s.patch[f] ELSE srv[s.row][f]]
             lost == {f \in Field : srv[s.row][f] \notin {Forms!Blank, new[f]}}
  <2>1. /\ s.row \in DOMAIN srv /\ srv' = [srv EXCEPT ![s.row] = new] /\ fetch' = fetch
        /\ Forms!Meets(\E f \in lost : srv[s.row][f] \in Forms!Mine /\ srv[s.row][f] \notin fetch, "over")
    BY <1>8 DEF Forms!ServeWrite, Forms!Replaces
  <2>2. \A f \in Field : srv[s.row][f] = v /\ v \notin fetch => new[f] = v
    BY <2>1, FormsNumbers DEF Forms!Meets, Forms!Blank, FormsType
  <2>3. srv'[s.row] = new /\ DOMAIN srv' = DOMAIN srv /\ \A q \in DOMAIN srv \ {s.row} : srv'[q] = srv[q]
    BY <2>1
  <2> HIDE DEF new, lost
  <2> QED BY <2>1, <2>2, <2>3
<1>9. ASSUME NEW s \in buffer, s.kind # "delete", Forms!Serve(s), Forms!ServeCreate(s)
      PROVE  Safe(v)'
  BY <1>9 DEF Forms!ServeCreate, Forms!Serve, Forms!Becomes, Forms!With
<1>10. ASSUME NEW s \in buffer, s.kind = "delete", Forms!Serve(s), Forms!ServeDelete(s)
       PROVE  Safe(v)'
  <2>1. /\ s.row \in DOMAIN srv /\ srv' = Forms!Without(srv, s.row)
        /\ fetch' = fetch \cup (Forms!Mine \cap Forms!Range(srv[s.row]))
    BY <1>10 DEF Forms!ServeDelete, Forms!Typed
  <2>2. \A f \in Field : srv[s.row][f] \in Forms!Range(srv[s.row])
    BY <2>1, FormsHold DEF Forms!Content, Forms!Range
  <2>3. DOMAIN srv' = DOMAIN srv \ {s.row} /\ \A q \in DOMAIN srv' : srv'[q] = srv[q]
    BY <2>1 DEF Forms!Without
  <2> QED BY <2>1, <2>2, <2>3
<1>11. ASSUME NEW s \in buffer, Forms!Lose(s) PROVE Safe(v)'
  BY <1>11 DEF Forms!Lose
<1>12. ASSUME NEW s \in buffer, Forms!Done(s) PROVE Safe(v)'
  BY <1>12 DEF Forms!Done, Forms!Closes, Forms!Meets, Forms!With, Forms!Without
<1>13. ASSUME NEW s \in buffer, Forms!Fails(s) PROVE Safe(v)'
  BY <1>13 DEF Forms!Fails, Forms!Meets
<1>14. ASSUME NEW r \in Forms!Exists, NEW f \in Field, Forms!Elsewhere(r, f) PROVE Safe(v)'
  <2>1. /\ DOMAIN srv' = DOMAIN srv /\ fetch' = fetch
        /\ \A q \in DOMAIN srv \ {r} : srv'[q] = srv[q]
        /\ \A g \in Field \ {f} : srv'[r][g] = srv[r][g]
        /\ srv[r][f] \in Forms!Mine => srv[r][f] \in fetch
    BY <1>14, FormsWritten DEF Forms!Elsewhere
  <2> QED BY <2>1
<1>15. ASSUME NEW r \in Forms!Row, Forms!Refetch(r) PROVE Safe(v)'
  BY <1>15 DEF Forms!Refetch, Forms!With
<1>16. ASSUME NEW r \in Forms!Row, Forms!Arrive(r) PROVE Safe(v)'
  BY <1>16 DEF Forms!Arrive, Forms!Caches, Forms!Reseeds, Forms!Meets, Forms!With, Forms!Without
<1>17. CASE Forms!Generate
  BY <1>17 DEF Forms!Generate
<1>18. CASE Forms!GenerateEnds
  <2>1. CASE UNCHANGED srv
    BY <1>18, <2>1 DEF Forms!GenerateEnds
  <2>2. CASE Forms!Writes(Summary, Field)
    <3>1. Summary \in DOMAIN srv /\ fetch' = fetch
      BY <1>18 DEF Forms!GenerateEnds, Whole
    <3>2. /\ DOMAIN srv' = DOMAIN srv /\ \A q \in DOMAIN srv \ {Summary} : srv'[q] = srv[q]
          /\ \A g \in Field : srv[Summary][g] \in Forms!Mine => srv[Summary][g] \in fetch
      BY <2>2, <3>1, FormsWritten
    <3> QED BY <3>1, <3>2
  <2> QED BY <1>18, <2>1, <2>2 DEF Forms!GenerateEnds
<1> QED BY <1>1, <1>2, <1>3, <1>4, <1>5, <1>6, <1>7, <1>8, <1>9, <1>10, <1>11, <1>12, <1>13,
   <1>14, <1>15, <1>16, <1>17, <1>18 DEF Forms!Next, Forms!Serve

(* What a query brought, or will bring, is in a row or was.                 *)
LEMMA DataKeptStep ==
    ASSUME PartsAssumption, FormsType, Whole, perils' = {}, NothingLost,
           (\A v \in Forms!Mine : Safe(v) => Safe(v)'), Forms!Next
    PROVE  DataKept'
<1> USE DEF NothingLost, DataKept, Held, Forms!Exists, Forms!server, Forms!client, Forms!counts,
   Forms!history
<1>1. ASSUME NEW r \in Forms!Row \cup {New}, Forms!Open(r) PROVE DataKept'
  <2>1. page' = page /\ (cache' = cache \/ (r \in DOMAIN srv /\ cache' = Forms!With(cache, r, srv[r])))
    BY <1>1 DEF Forms!Open
  <2> QED BY <2>1, RowsHeld DEF Forms!With
<1>2. ASSUME NEW f \in Field, Forms!Type(f) PROVE DataKept'
  BY <1>2 DEF Forms!Type
<1>3. CASE Forms!Cancel
  BY <1>3 DEF Forms!Cancel
<1>4. CASE Forms!Submit
  BY <1>4 DEF Forms!Submit, Forms!Patch, Forms!Request
<1>5. CASE Forms!AskDelete
  BY <1>5 DEF Forms!AskDelete
<1>6. CASE Forms!KeepIt
  BY <1>6 DEF Forms!KeepIt
<1>7. CASE Forms!ConfirmDelete
  BY <1>7 DEF Forms!ConfirmDelete, Forms!Request
<1>8. ASSUME NEW s \in buffer, s.kind # "delete", Forms!Serve(s), Forms!ServeWrite(s)
      PROVE  DataKept'
  BY <1>8 DEF Forms!ServeWrite, Forms!Serve, Forms!Replaces, Forms!Becomes, Forms!Meets
<1>9. ASSUME NEW s \in buffer, s.kind # "delete", Forms!Serve(s), Forms!ServeCreate(s)
      PROVE  DataKept'
  BY <1>9 DEF Forms!ServeCreate, Forms!Serve, Forms!Becomes, Forms!With
<1>10. ASSUME NEW s \in buffer, s.kind = "delete", Forms!Serve(s), Forms!ServeDelete(s)
       PROVE  DataKept'
  BY <1>10 DEF Forms!ServeDelete, Forms!Serve, Forms!Becomes, Forms!Without
<1>11. ASSUME NEW s \in buffer, Forms!Lose(s) PROVE DataKept'
  BY <1>11 DEF Forms!Lose
<1>12. ASSUME NEW s \in buffer, Forms!Done(s) PROVE DataKept'
  <2>1. /\ page' \in {page, Forms!Without(page, s.row), Forms!With(page, Story, s.val)}
        /\ s \in buffer /\ s.ans = "ok"
    BY <1>12 DEF Forms!Done
  <2>2. \/ cache' \in {cache, Forms!Without(cache, s.row)}
        \/ s.row \in DOMAIN srv /\ cache' = Forms!With(cache, s.row, srv[s.row])
    BY <1>12 DEF Forms!Done
  <2>3. \A r \in DOMAIN page' : page'[r] = s.val \/ (r \in DOMAIN page /\ page'[r] = page[r])
    BY <2>1 DEF Forms!With, Forms!Without
  <2>4. \A r \in DOMAIN cache' :
           \/ r \in DOMAIN cache /\ cache'[r] = cache[r]
           \/ r \in DOMAIN srv /\ cache'[r] = srv[r]
    BY <2>2 DEF Forms!With, Forms!Without
  <2>5. Held(s.val)
    BY <2>1 DEF ServedKept
  <2> QED BY <2>3, <2>4, <2>5, RowsHeld
<1>13. ASSUME NEW s \in buffer, Forms!Fails(s) PROVE DataKept'
  BY <1>13 DEF Forms!Fails, Forms!Meets
<1>14. ASSUME NEW r \in Forms!Exists, NEW f \in Field, Forms!Elsewhere(r, f) PROVE DataKept'
  BY <1>14 DEF Forms!Elsewhere, Forms!Writes, Forms!Meets
<1>15. ASSUME NEW r \in Forms!Row, Forms!Refetch(r) PROVE DataKept'
  <2>1. page' = page /\ r \in DOMAIN srv /\ cache' = Forms!With(cache, r, srv[r])
    BY <1>15 DEF Forms!Refetch
  <2> QED BY <2>1, RowsHeld DEF Forms!With
<1>16. ASSUME NEW r \in Forms!Row, Forms!Arrive(r) PROVE DataKept'
  BY <1>16 DEF Forms!Arrive, Forms!Caches, Forms!Reseeds, Forms!Meets, Forms!With, Forms!Without
<1>17. CASE Forms!Generate
  BY <1>17 DEF Forms!Generate
<1>18. CASE Forms!GenerateEnds
  <2>1. CASE UNCHANGED <<srv, cache>>
    BY <1>18, <2>1 DEF Forms!GenerateEnds
  <2>2. CASE Forms!Writes(Summary, Field) /\ cache' = Forms!With(cache, Summary, srv'[Summary])
    <3>1. Summary \in DOMAIN srv /\ page' = page
      BY <1>18 DEF Forms!GenerateEnds, Whole
    <3>2. Summary \in DOMAIN srv'
      BY <2>2, <3>1, FormsWritten
    <3>3. ASSUME NEW v, NEW f \in Field, srv'[Summary][f] = v PROVE Safe(v)'
      BY <3>2, <3>3 DEF Safe
    <3> QED BY <2>2, <3>1, <3>3 DEF Forms!With
  <2> QED BY <1>18, <2>1, <2>2 DEF Forms!GenerateEnds
<1> QED BY <1>1, <1>2, <1>3, <1>4, <1>5, <1>6, <1>7, <1>8, <1>9, <1>10, <1>11, <1>12, <1>13,
   <1>14, <1>15, <1>16, <1>17, <1>18 DEF Forms!Next, Forms!Serve

(* What was served, and what an answer brings, is in a row or was.          *)
LEMMA ServedKeptStep ==
    ASSUME PartsAssumption, FormsType, Whole, perils' = {}, NothingLost,
           (\A v \in Forms!Mine : Safe(v) => Safe(v)'), Forms!Next
    PROVE  ServedKept'
<1> USE DEF NothingLost, ServedKept, Held, Sent, Forms!Exists, Forms!server, Forms!client,
   Forms!counts, Forms!history
<1>1. ASSUME NEW r \in Forms!Row \cup {New}, Forms!Open(r) PROVE ServedKept'
  BY <1>1 DEF Forms!Open, Forms!With
<1>2. ASSUME NEW f \in Field, Forms!Type(f) PROVE ServedKept'
  BY <1>2 DEF Forms!Type
<1>3. CASE Forms!Cancel
  BY <1>3 DEF Forms!Cancel
<1>4. CASE Forms!Submit
  <2>1. \A t \in buffer' : t \in buffer \/ t.ans # "ok"
    BY <1>4 DEF Forms!Submit, Forms!Request
  <2> QED BY <2>1
<1>5. CASE Forms!AskDelete
  BY <1>5 DEF Forms!AskDelete
<1>6. CASE Forms!KeepIt
  BY <1>6 DEF Forms!KeepIt
<1>7. CASE Forms!ConfirmDelete
  <2>1. \A t \in buffer' : t \in buffer \/ t.ans # "ok"
    BY <1>7 DEF Forms!ConfirmDelete, Forms!Request
  <2> QED BY <2>1
<1>8. ASSUME NEW s \in buffer, s.kind # "delete", Forms!Serve(s), Forms!ServeWrite(s)
      PROVE  ServedKept'
  <2> DEFINE new == [f \in Field |-> IF f \in DOMAIN s.patch THEN s.patch[f] ELSE srv[s.row][f]]
  <2>1. /\ s.row \in DOMAIN srv /\ srv' = [srv EXCEPT ![s.row] = new] /\ Forms!Becomes(s, s.row, new)
    BY <1>8 DEF Forms!ServeWrite
  <2>2. srv'[s.row] = new /\ s.row \in DOMAIN srv'
    BY <2>1
  <2>3. \A f \in DOMAIN s.patch : f \in Field /\ new[f] = s.patch[f]
    BY FormsHold
  <2> HIDE DEF new
  <2>4. ASSUME NEW v, NEW f \in Field, new[f] = v PROVE Safe(v)'
    BY <2>2, <2>4 DEF Safe
  <2> HIDE DEF Sent
  <2>5. \A v : Sent(s, v) => Safe(v)'
    BY <2>3, <2>4 DEF Sent
  <2> QED BY <2>1, <2>4, <2>5, FormsServed
<1>9. ASSUME NEW s \in buffer, s.kind # "delete", Forms!Serve(s), Forms!ServeCreate(s)
      PROVE  ServedKept'
  <2> PICK c \in Character \ DOMAIN srv : srv' = Forms!With(srv, c, s.patch) /\ Forms!Becomes(s, c, s.patch)
    BY <1>9 DEF Forms!ServeCreate
  <2>1. srv'[c] = s.patch /\ c \in DOMAIN srv'
    BY DEF Forms!With
  <2>2. DOMAIN s.patch \subseteq Field
    BY FormsHold
  <2>3. DOMAIN s.patch = Field
    BY <1>9 DEF Forms!ServeCreate, Whole, Forms!Content
  <2>4. ASSUME NEW v, NEW f \in Field, s.patch[f] = v PROVE Safe(v)'
    BY <2>1, <2>4 DEF Safe
  <2> HIDE DEF Sent
  <2>5. \A v : Sent(s, v) => Safe(v)'
    BY <2>2, <2>4 DEF Sent
  <2> QED BY <2>4, <2>5, FormsServed
<1>10. ASSUME NEW s \in buffer, s.kind = "delete", Forms!Serve(s), Forms!ServeDelete(s)
       PROVE  ServedKept'
  <2>1. Forms!Becomes(s, s.row, Forms!Empty) /\ s.patch = <<>>
    BY <1>10 DEF Forms!ServeDelete, Whole
  <2>2. \A v : ~Sent(s, v)
    BY <2>1, NonePart
  <2>3. \A f \in Field : Forms!Empty[f] \notin Forms!Mine
    BY FormsNumbers DEF Forms!Empty, Forms!Blank, FormsType
  <2> QED BY <2>1, <2>2, <2>3, FormsServed
<1>11. ASSUME NEW s \in buffer, Forms!Lose(s) PROVE ServedKept'
  <2>1. \A t \in buffer' : t \in buffer \/ t.ans = "failed"
    BY <1>11 DEF Forms!Lose, FormsType, FormsSaves
  <2> QED BY <2>1
<1>12. ASSUME NEW s \in buffer, Forms!Done(s) PROVE ServedKept'
  BY <1>12 DEF Forms!Done, Forms!Closes, Forms!Meets, Forms!With, Forms!Without
<1>13. ASSUME NEW s \in buffer, Forms!Fails(s) PROVE ServedKept'
  BY <1>13 DEF Forms!Fails, Forms!Meets
<1>14. ASSUME NEW r \in Forms!Exists, NEW f \in Field, Forms!Elsewhere(r, f) PROVE ServedKept'
  BY <1>14 DEF Forms!Elsewhere, Forms!Writes, Forms!Meets
<1>15. ASSUME NEW r \in Forms!Row, Forms!Refetch(r) PROVE ServedKept'
  BY <1>15 DEF Forms!Refetch, Forms!With
<1>16. ASSUME NEW r \in Forms!Row, Forms!Arrive(r) PROVE ServedKept'
  BY <1>16 DEF Forms!Arrive, Forms!Caches, Forms!Reseeds, Forms!Meets, Forms!With, Forms!Without
<1>17. CASE Forms!Generate
  BY <1>17 DEF Forms!Generate
<1>18. CASE Forms!GenerateEnds
  BY <1>18 DEF Forms!GenerateEnds, Forms!Writes, Forms!With, Forms!Meets
<1> QED BY <1>1, <1>2, <1>3, <1>4, <1>5, <1>6, <1>7, <1>8, <1>9, <1>10, <1>11, <1>12, <1>13,
   <1>14, <1>15, <1>16, <1>17, <1>18 DEF Forms!Next, Forms!Serve

(* What a request carries is on the sheet that sent it, or is safe.         *)
LEMMA SentKeptStep ==
    ASSUME PartsAssumption, FormsType, Whole, perils' = {}, NothingLost,
           (\A v \in Forms!Mine : Safe(v) => Safe(v)'), Forms!Next
    PROVE  SentKept'
<1> USE DEF NothingLost, Forms!server, Forms!client, Forms!counts, Forms!history
<1>1. ASSUME NEW r \in Forms!Row \cup {New}, Forms!Open(r) PROVE SentKept'
  <2>1. buffer' = buffer /\ \A l \in doc' : l.id = pinned + 1
    BY <1>1 DEF Forms!Open
  <2>2. \A s \in buffer : s.sheet # pinned + 1
    BY DEF FormsType, FormsSaves, FormsRest
  <2> QED BY <2>1, <2>2 DEF SentKept
<1>2. ASSUME NEW f \in Field, Forms!Type(f) PROVE SentKept'
  <2> PICK k \in doc : /\ doc' = {[k EXCEPT !.fields[f] = conflict', !.touched = @ \cup {f}]}
                       /\ fetch' = fetch \cup (Forms!Mine \cap {k.fields[f]})
    BY <1>2 DEF Forms!Type, Forms!Typed
  <2>1. \A l \in doc' : l.id = k.id /\ \A g \in Field \ {f} : l.fields[g] = k.fields[g]
    BY DEF FormsType, FormsSheet, Forms!Content
  <2>2. \A v \in Forms!Mine : k.fields[f] = v => Safe(v)'
    BY DEF Safe
  <2>3. \A l \in doc', v \in Forms!Mine : OnSheet(k, v) => OnSheet(l, v) \/ Safe(v)'
    BY <2>1, <2>2 DEF OnSheet
  <2>4. buffer' = buffer
    BY <1>2 DEF Forms!Type
  <2> QED BY <2>1, <2>3, <2>4 DEF SentKept
<1>3. CASE Forms!Cancel
  BY <1>3, SentStays DEF Forms!Cancel
<1>4. CASE Forms!Submit
  <2> PICK k \in doc :
          \/ buffer' = buffer /\ doc' = {}
          \/ /\ doc' = {[k EXCEPT !.pending = TRUE]}
             /\ \E ans \in {"none", "failed"} :
               buffer' = buffer \cup {[Forms!Request(k, "write", Forms!Patch(k)) EXCEPT !.ans = ans]}
    BY <1>4 DEF Forms!Submit
  <2>1. \A t \in buffer' : t \in buffer \/ t.patch = Forms!Patch(k)
    BY DEF Forms!Request
  <2>2. \A l \in doc' : l.id = k.id /\ l.fields = k.fields
    BY DEF FormsType, FormsSheet
  <2>3. \A f \in DOMAIN Forms!Patch(k) : f \in Field /\ Forms!Patch(k)[f] = k.fields[f]
    BY PatchIsPart DEF FormsType, FormsSheet
  <2>4. \A t \in buffer' \ buffer, l \in doc' : \A v : Sent(t, v) => OnSheet(l, v)
    BY <2>1, <2>2, <2>3 DEF Sent, OnSheet
  <2>5. \A t \in buffer, l \in doc', v \in Forms!Mine : l.id = t.sheet /\ Sent(t, v) => Safe(v) \/ OnSheet(l, v)
    BY <2>2 DEF SentKept, OnSheet
  <2> QED BY <2>4, <2>5 DEF SentKept
<1>5. CASE Forms!AskDelete
  <2>1. \A t \in buffer' : \E s \in buffer : t.sheet = s.sheet /\ t.patch = s.patch
    BY <1>5 DEF Forms!AskDelete, FormsType, FormsSheet, FormsSaves
  <2>2. \A l \in doc' : \E k \in doc : l.id = k.id /\ l.fields = k.fields
    BY <1>5 DEF Forms!AskDelete, FormsType, FormsSheet, FormsSaves
  <2> QED BY <2>1, <2>2, SentStays
<1>6. CASE Forms!KeepIt
  <2>1. \A t \in buffer' : \E s \in buffer : t.sheet = s.sheet /\ t.patch = s.patch
    BY <1>6 DEF Forms!KeepIt, FormsType, FormsSheet, FormsSaves
  <2>2. \A l \in doc' : \E k \in doc : l.id = k.id /\ l.fields = k.fields
    BY <1>6 DEF Forms!KeepIt, FormsType, FormsSheet, FormsSaves
  <2> QED BY <2>1, <2>2, SentStays
<1>7. CASE Forms!ConfirmDelete
  <2> PICK k \in doc : buffer' = buffer \cup {Forms!Request(k, "delete", <<>>)}
    BY <1>7 DEF Forms!ConfirmDelete
  <2>1. \A t \in buffer' : t \in buffer \/ t.patch = <<>>
    BY DEF Forms!Request
  <2>2. \A t \in buffer' : t \notin buffer => \A v : ~Sent(t, v)
    BY <2>1, NonePart DEF Sent
  <2>3. doc' = doc
    BY <1>7 DEF Forms!ConfirmDelete
  <2> QED BY <2>2, <2>3 DEF SentKept
<1>8. ASSUME NEW s \in buffer, s.kind # "delete", Forms!Serve(s), Forms!ServeWrite(s)
      PROVE  SentKept'
  <2>1. \A t \in buffer' : \E q \in buffer : t.sheet = q.sheet /\ t.patch = q.patch
    BY <1>8 DEF Forms!ServeWrite, Forms!Serve, Forms!Becomes, FormsType, FormsSheet, FormsSaves
  <2>2. \A l \in doc' : \E k \in doc : l.id = k.id /\ l.fields = k.fields
    BY <1>8 DEF Forms!ServeWrite, Forms!Serve, Forms!Becomes, FormsType, FormsSheet, FormsSaves
  <2> QED BY <2>1, <2>2, SentStays
<1>9. ASSUME NEW s \in buffer, s.kind # "delete", Forms!Serve(s), Forms!ServeCreate(s)
      PROVE  SentKept'
  <2>1. \A t \in buffer' : \E q \in buffer : t.sheet = q.sheet /\ t.patch = q.patch
    BY <1>9 DEF Forms!ServeCreate, Forms!Serve, Forms!Becomes, FormsType, FormsSheet, FormsSaves
  <2>2. \A l \in doc' : \E k \in doc : l.id = k.id /\ l.fields = k.fields
    BY <1>9 DEF Forms!ServeCreate, Forms!Serve, Forms!Becomes, FormsType, FormsSheet, FormsSaves
  <2> QED BY <2>1, <2>2, SentStays
<1>10. ASSUME NEW s \in buffer, s.kind = "delete", Forms!Serve(s), Forms!ServeDelete(s)
       PROVE  SentKept'
  <2>1. \A t \in buffer' : \E q \in buffer : t.sheet = q.sheet /\ t.patch = q.patch
    BY <1>10
       DEF Forms!ServeDelete, Forms!Serve, Forms!Becomes, FormsType, FormsSheet, FormsSaves
  <2>2. \A l \in doc' : \E k \in doc : l.id = k.id /\ l.fields = k.fields
    BY <1>10
       DEF Forms!ServeDelete, Forms!Serve, Forms!Becomes, FormsType, FormsSheet, FormsSaves
  <2> QED BY <2>1, <2>2, SentStays
<1>11. ASSUME NEW s \in buffer, Forms!Lose(s) PROVE SentKept'
  <2>1. \A t \in buffer' : \E q \in buffer : t.sheet = q.sheet /\ t.patch = q.patch
    BY <1>11 DEF Forms!Lose, FormsType, FormsSheet, FormsSaves
  <2>2. \A l \in doc' : \E k \in doc : l.id = k.id /\ l.fields = k.fields
    BY <1>11 DEF Forms!Lose, FormsType, FormsSheet, FormsSaves
  <2> QED BY <2>1, <2>2, SentStays
<1>12. ASSUME NEW s \in buffer, Forms!Done(s) PROVE SentKept'
  <2>1. \A t \in buffer' : \E q \in buffer : t.sheet = q.sheet /\ t.patch = q.patch
    BY <1>12 DEF Forms!Done, Forms!Closes, FormsType, FormsSheet, FormsSaves
  <2>2. \A l \in doc' : \E k \in doc : l.id = k.id /\ l.fields = k.fields
    BY <1>12 DEF Forms!Done, Forms!Closes, FormsType, FormsSheet, FormsSaves
  <2> QED BY <2>1, <2>2, SentStays
<1>13. ASSUME NEW s \in buffer, Forms!Fails(s) PROVE SentKept'
  <2>1. \A t \in buffer' : \E q \in buffer : t.sheet = q.sheet /\ t.patch = q.patch
    BY <1>13 DEF Forms!Fails, FormsType, FormsSheet, FormsSaves
  <2>2. \A l \in doc' : \E k \in doc : l.id = k.id /\ l.fields = k.fields
    BY <1>13 DEF Forms!Fails, FormsType, FormsSheet, FormsSaves
  <2> QED BY <2>1, <2>2, SentStays
<1>14. ASSUME NEW r \in Forms!Exists, NEW f \in Field, Forms!Elsewhere(r, f) PROVE SentKept'
  BY <1>14, SentStays DEF Forms!Elsewhere, Forms!Writes, Forms!Meets
<1>15. ASSUME NEW r \in Forms!Row, Forms!Refetch(r) PROVE SentKept'
  BY <1>15, SentStays DEF Forms!Refetch, Forms!With
<1>16. ASSUME NEW r \in Forms!Row, Forms!Arrive(r) PROVE SentKept'
  <2>1. /\ \A l \in doc' : \E k \in doc :
             l.id = k.id /\ (l = k \/ \A v \in Forms!Mine : OnSheet(k, v) => Safe(v))
        /\ buffer' = buffer
    BY <1>16, FormsReseeded DEF Forms!Arrive
  <2> QED BY <2>1 DEF SentKept
<1>17. CASE Forms!Generate
  BY <1>17, SentStays DEF Forms!Generate
<1>18. CASE Forms!GenerateEnds
  BY <1>18, SentStays DEF Forms!GenerateEnds, Forms!Writes, Forms!With, Forms!Meets
<1> QED BY <1>1, <1>2, <1>3, <1>4, <1>5, <1>6, <1>7, <1>8, <1>9, <1>10, <1>11, <1>12, <1>13,
   <1>14, <1>15, <1>16, <1>17, <1>18 DEF Forms!Next, Forms!Serve

(* A text that was typed is safe, on its way or on the sheet.               *)
LEMMA TypedKeptStep ==
    ASSUME PartsAssumption, FormsType, Whole, perils' = {}, NothingLost,
           (\A v \in Forms!Mine : Safe(v) => Safe(v)'), Forms!Next
    PROVE  TypedKept'
<1> USE DEF NothingLost, Forms!server, Forms!client, Forms!counts, Forms!history
<1>1. ASSUME NEW r \in Forms!Row \cup {New}, Forms!Open(r) PROVE TypedKept'
  <2>1. \A q \in buffer : \E t \in buffer' : t.patch = q.patch
    BY <1>1 DEF Forms!Open, FormsType, FormsSheet, FormsSaves
  <2>2. \A k \in doc : \E l \in doc' : l.fields = k.fields
    BY <1>1 DEF Forms!Open, FormsType, FormsSheet, FormsSaves
  <2>3. conflict' = conflict
    BY <1>1 DEF Forms!Open
  <2> QED BY <2>1, <2>2, <2>3, TypedSame
<1>2. ASSUME NEW f \in Field, Forms!Type(f) PROVE TypedKept'
  <2> PICK k \in doc : /\ doc' = {[k EXCEPT !.fields[f] = conflict', !.touched = @ \cup {f}]}
                       /\ fetch' = fetch \cup (Forms!Mine \cap {k.fields[f]})
    BY <1>2 DEF Forms!Type, Forms!Typed
  <2>1. \A l \in doc' : l.fields[f] = conflict' /\ \A g \in Field \ {f} : l.fields[g] = k.fields[g]
    BY DEF FormsType, FormsSheet, Forms!Content
  <2>2. buffer' = buffer /\ conflict' = conflict + 1 /\ doc = {k} /\ doc' # {}
    BY <1>2 DEF Forms!Type, FormsType, FormsSheet, Single
  <2>3. ASSUME NEW v \in 1..conflict
        PROVE  Safe(v)' \/ (\E t \in buffer' : Sent(t, v)) \/ (\E l \in doc' : OnSheet(l, v))
    <3>1. v \in Forms!Mine
      BY FormsNumbers DEF FormsType, FormsRest, Forms!Mine
    <3>2. Safe(v) \/ (\E s \in buffer : Sent(s, v)) \/ OnSheet(k, v)
      BY <2>2 DEF TypedKept
    <3>3. OnSheet(k, v) => Safe(v)' \/ \E l \in doc' : OnSheet(l, v)
      <4>1. k.fields[f] = v => Safe(v)'
        BY <3>1 DEF Safe
      <4>2. \A g \in Field \ {f} : k.fields[g] = v => \E l \in doc' : OnSheet(l, v)
        BY <2>1, <2>2 DEF OnSheet
      <4> QED BY <4>1, <4>2 DEF OnSheet
    <3> QED BY <2>2, <3>1, <3>2, <3>3
  <2>4. \E l \in doc' : OnSheet(l, conflict')
    BY <2>1, <2>2 DEF OnSheet
  <2>5. 1..conflict' = 1..conflict \cup {conflict'}
    BY <2>2 DEF FormsType, FormsRest
  <2> SUFFICES ASSUME NEW v \in 1..conflict'
               PROVE  Safe(v)' \/ (\E t \in buffer' : Sent(t, v)) \/ (\E l \in doc' : OnSheet(l, v))
    BY DEF TypedKept
  <2> QED BY <2>3, <2>4, <2>5
<1>3. CASE Forms!Cancel
  <2> PICK k \in doc : doc' = {} /\ fetch' = fetch \cup Forms!Unsent(k)
    BY <1>3 DEF Forms!Cancel
  <2>1. UNCHANGED <<conflict, buffer>> /\ doc = {k}
    BY <1>3 DEF Forms!Cancel, FormsType, FormsSheet, Single
  <2>2. \A v \in Forms!Mine : OnSheet(k, v) => Safe(v)' \/ \E s \in buffer : Sent(s, v)
    BY FormsUnsent DEF Safe
  <2> QED BY <2>1, <2>2, TypedStays
<1>4. CASE Forms!Submit
  <2> PICK k \in doc :
          \/ Forms!Patch(k) = <<>> /\ doc' = {} /\ buffer' = buffer
          \/ doc' = {[k EXCEPT !.pending = TRUE]} /\ buffer \subseteq buffer'
    BY <1>4 DEF Forms!Submit
  <2>1. conflict' = conflict /\ doc = {k} /\ k.row \in DOMAIN page \cup {New, Summary}
    BY <1>4 DEF Forms!Submit, FormsType, FormsSheet, Single
  <2>2. CASE doc' = {[k EXCEPT !.pending = TRUE]} /\ buffer \subseteq buffer'
    <3>1. \A l \in doc' : l.fields = k.fields
      BY <2>2 DEF FormsType, FormsSheet
    <3> QED BY <2>1, <2>2, <3>1, TypedSame
  <2>3. CASE Forms!Patch(k) = <<>> /\ doc' = {} /\ buffer' = buffer
    <3>0. k.fields \in Forms!Content
      BY DEF FormsType, FormsSheet
    <3>1. CASE k.row \in {New, Summary}
      <4>1. k.fields = <<>>
        BY <2>3, <3>0, <3>1, PatchIsPart
      <4>2. Field = {}
        BY <3>0, <4>1, NonePart DEF Forms!Content
      <4>3. \A v : ~OnSheet(k, v)
        BY <4>2 DEF OnSheet
      <4> QED BY <2>1, <2>3, <4>3, TypedStays
    <3>2. CASE k.row \notin {New, Summary}
      <4>1. DOMAIN Forms!Patch(k) = {g \in Field : k.fields[g] # page[k.row][g]}
        BY <3>0, <3>2, PatchIsPart
      <4>2. DOMAIN Forms!Patch(k) = {}
        BY <2>3, NonePart
      <4>3. \A g \in Field : k.fields[g] = page[k.row][g]
        BY <4>1, <4>2
      <4>4. Held(page[k.row])
        BY <2>1, <3>2 DEF DataKept
      <4>5. \A v \in Forms!Mine : OnSheet(k, v) => Safe(v)
        BY <4>3, <4>4 DEF OnSheet, Held
      <4> QED BY <2>1, <2>3, <4>5, TypedStays
    <3> QED BY <3>1, <3>2
  <2> QED BY <2>2, <2>3
<1>5. CASE Forms!AskDelete
  <2>1. /\ doc # {} => \E l \in doc', k \in doc : l.fields = k.fields
        /\ UNCHANGED <<conflict, buffer>>
    BY <1>5 DEF Forms!AskDelete, FormsType, FormsSheet
  <2>2. \A k \in doc : \E l \in doc' : l.fields = k.fields
    BY <2>1 DEF FormsType, FormsSheet, Single
  <2> QED BY <2>1, <2>2, TypedSame
<1>6. CASE Forms!KeepIt
  <2>1. /\ doc # {} => \E l \in doc', k \in doc : l.fields = k.fields
        /\ UNCHANGED <<conflict, buffer>>
    BY <1>6 DEF Forms!KeepIt, FormsType, FormsSheet
  <2>2. \A k \in doc : \E l \in doc' : l.fields = k.fields
    BY <2>1 DEF FormsType, FormsSheet, Single
  <2> QED BY <2>1, <2>2, TypedSame
<1>7. CASE Forms!ConfirmDelete
  <2>1. \A q \in buffer : \E t \in buffer' : t.patch = q.patch
    BY <1>7 DEF Forms!ConfirmDelete, FormsType, FormsSheet, FormsSaves
  <2>2. \A k \in doc : \E l \in doc' : l.fields = k.fields
    BY <1>7 DEF Forms!ConfirmDelete, FormsType, FormsSheet, FormsSaves
  <2>3. conflict' = conflict
    BY <1>7 DEF Forms!ConfirmDelete
  <2> QED BY <2>1, <2>2, <2>3, TypedSame
<1>8. ASSUME NEW s \in buffer, s.kind # "delete", Forms!Serve(s), Forms!ServeWrite(s)
      PROVE  TypedKept'
  <2>1. /\ \E t : t.patch = s.patch /\ buffer' = (buffer \ {s}) \cup {t}
        /\ UNCHANGED <<conflict, doc>>
    BY <1>8 DEF Forms!ServeWrite, Forms!Serve, Forms!Becomes, FormsType, FormsSheet, FormsSaves

  <2>2. \A q \in buffer : \E t \in buffer' : t.patch = q.patch
    BY <2>1
  <2> QED BY <2>1, <2>2, TypedSame
<1>9. ASSUME NEW s \in buffer, s.kind # "delete", Forms!Serve(s), Forms!ServeCreate(s)
      PROVE  TypedKept'
  <2>1. /\ \E t : t.patch = s.patch /\ buffer' = (buffer \ {s}) \cup {t}
        /\ UNCHANGED <<conflict, doc>>
    BY <1>9 DEF Forms!ServeCreate, Forms!Serve, Forms!Becomes, FormsType, FormsSheet, FormsSaves

  <2>2. \A q \in buffer : \E t \in buffer' : t.patch = q.patch
    BY <2>1
  <2> QED BY <2>1, <2>2, TypedSame
<1>10. ASSUME NEW s \in buffer, s.kind = "delete", Forms!Serve(s), Forms!ServeDelete(s)
       PROVE  TypedKept'
  <2>1. /\ \E t : t.patch = s.patch /\ buffer' = (buffer \ {s}) \cup {t}
        /\ UNCHANGED <<conflict, doc>>
    BY <1>10
       DEF Forms!ServeDelete, Forms!Serve, Forms!Becomes, FormsType, FormsSheet, FormsSaves

  <2>2. \A q \in buffer : \E t \in buffer' : t.patch = q.patch
    BY <2>1
  <2> QED BY <2>1, <2>2, TypedSame
<1>11. ASSUME NEW s \in buffer, Forms!Lose(s) PROVE TypedKept'
  <2>1. /\ \E t : t.patch = s.patch /\ buffer' = (buffer \ {s}) \cup {t}
        /\ UNCHANGED <<conflict, doc>>
    BY <1>11 DEF Forms!Lose, FormsType, FormsSheet, FormsSaves

  <2>2. \A q \in buffer : \E t \in buffer' : t.patch = q.patch
    BY <2>1
  <2> QED BY <2>1, <2>2, TypedSame
<1>12. ASSUME NEW s \in buffer, Forms!Done(s) PROVE TypedKept'
  <2>1. s.ans = "ok" /\ buffer' = buffer \ {s} /\ Forms!Closes(s) /\ UNCHANGED <<conflict, srv, fetch>>
    BY <1>12 DEF Forms!Done
  <2>2. \A v \in Forms!Mine : Sent(s, v) => Safe(v)'
    BY <2>1 DEF ServedKept
  <2>3. \A k \in doc \ doc' : Forms!Unsaved(k) \subseteq fetch
    BY <2>1 DEF Forms!Closes, Forms!Meets
  <2>4. \A k \in doc \ doc', v \in Forms!Mine : OnSheet(k, v) => Safe(v)
    BY <2>3, FormsUnsent DEF Safe
  <2> QED BY <2>1, <2>2, <2>4, TypedStays
<1>13. ASSUME NEW s \in buffer, Forms!Fails(s) PROVE TypedKept'
  <2>1. /\ buffer' = buffer \ {s} /\ conflict' = conflict
        /\ \E k \in doc : k.id = s.sheet
    BY <1>13 DEF Forms!Fails, Forms!Meets
  <2>2. \A k \in doc : \E l \in doc' : l.fields = k.fields
    <3> TAKE k \in doc
    <3>1. k \in doc' \/ [k EXCEPT !.pending = FALSE] \in doc'
      BY <1>13 DEF Forms!Fails
    <3>2. [k EXCEPT !.pending = FALSE].fields = k.fields
      BY DEF FormsType, FormsSheet
    <3> QED BY <3>1, <3>2
  <2>3. \A k \in doc, v \in Forms!Mine : OnSheet(k, v) => \E l \in doc' : OnSheet(l, v)
    BY <2>2 DEF OnSheet
  <2>4. \A v \in Forms!Mine : Sent(s, v) => Safe(v) \/ \E k \in doc : OnSheet(k, v)
    BY <2>1 DEF SentKept
  <2> QED BY <2>1, <2>3, <2>4, TypedStays
<1>14. ASSUME NEW r \in Forms!Exists, NEW f \in Field, Forms!Elsewhere(r, f) PROVE TypedKept'
  <2>1. \A q \in buffer : \E t \in buffer' : t.patch = q.patch
    BY <1>14 DEF Forms!Elsewhere, FormsType, FormsSheet, FormsSaves
  <2>2. \A k \in doc : \E l \in doc' : l.fields = k.fields
    BY <1>14 DEF Forms!Elsewhere, FormsType, FormsSheet, FormsSaves
  <2>3. conflict' = conflict
    BY <1>14 DEF Forms!Elsewhere
  <2> QED BY <2>1, <2>2, <2>3, TypedSame
<1>15. ASSUME NEW r \in Forms!Row, Forms!Refetch(r) PROVE TypedKept'
  <2>1. \A q \in buffer : \E t \in buffer' : t.patch = q.patch
    BY <1>15 DEF Forms!Refetch, FormsType, FormsSheet, FormsSaves
  <2>2. \A k \in doc : \E l \in doc' : l.fields = k.fields
    BY <1>15 DEF Forms!Refetch, FormsType, FormsSheet, FormsSaves
  <2>3. conflict' = conflict
    BY <1>15 DEF Forms!Refetch
  <2> QED BY <2>1, <2>2, <2>3, TypedSame
<1>16. ASSUME NEW r \in Forms!Row, Forms!Arrive(r) PROVE TypedKept'
  <2>1. /\ \A k \in doc : k \in doc' \/ \A v \in Forms!Mine : OnSheet(k, v) => Safe(v)
        /\ UNCHANGED <<buffer, conflict>>
    BY <1>16, FormsReseeded DEF Forms!Arrive
  <2> QED BY <2>1, TypedStays
<1>17. CASE Forms!Generate
  <2>1. \A q \in buffer : \E t \in buffer' : t.patch = q.patch
    BY <1>17 DEF Forms!Generate, FormsType, FormsSheet, FormsSaves
  <2>2. \A k \in doc : \E l \in doc' : l.fields = k.fields
    BY <1>17 DEF Forms!Generate, FormsType, FormsSheet, FormsSaves
  <2>3. conflict' = conflict
    BY <1>17 DEF Forms!Generate
  <2> QED BY <2>1, <2>2, <2>3, TypedSame
<1>18. CASE Forms!GenerateEnds
  <2>1. \A q \in buffer : \E t \in buffer' : t.patch = q.patch
    BY <1>18 DEF Forms!GenerateEnds, FormsType, FormsSheet, FormsSaves
  <2>2. \A k \in doc : \E l \in doc' : l.fields = k.fields
    BY <1>18 DEF Forms!GenerateEnds, FormsType, FormsSheet, FormsSaves
  <2>3. conflict' = conflict
    BY <1>18 DEF Forms!GenerateEnds
  <2> QED BY <2>1, <2>2, <2>3, TypedSame
<1> QED BY <1>1, <1>2, <1>3, <1>4, <1>5, <1>6, <1>7, <1>8, <1>9, <1>10, <1>11, <1>12, <1>13,
   <1>14, <1>15, <1>16, <1>17, <1>18 DEF Forms!Next, Forms!Serve

(* A danger that was met is not forgotten.                                  *)
LEMMA PerilsStay ==
    ASSUME Forms!Next, perils' = {}
    PROVE  perils = {}
<1> USE DEF Forms!Meets, Forms!history, Forms!client, Forms!server, Forms!counts
<1>1. ASSUME NEW r, Forms!Open(r) \/ Forms!Type(r) PROVE perils = {}
  BY <1>1 DEF Forms!Open, Forms!Type
<1>2. CASE Forms!Cancel \/ Forms!Submit \/ Forms!AskDelete \/ Forms!KeepIt \/ Forms!ConfirmDelete
  BY <1>2 DEF Forms!Cancel, Forms!Submit, Forms!AskDelete, Forms!KeepIt, Forms!ConfirmDelete
<1>3. ASSUME NEW s \in buffer, Forms!Serve(s) PROVE perils = {}
  BY <1>3
     DEF Forms!Serve, Forms!ServeDelete, Forms!ServeWrite, Forms!ServeCreate, Forms!Replaces
<1>4. ASSUME NEW s \in buffer, Forms!Lose(s) \/ Forms!Done(s) \/ Forms!Fails(s)
      PROVE  perils = {}
  BY <1>4 DEF Forms!Lose, Forms!Done, Forms!Closes, Forms!Fails
<1>5. ASSUME NEW r, NEW f, Forms!Elsewhere(r, f) PROVE perils = {}
  BY <1>5 DEF Forms!Elsewhere, Forms!Writes
<1>6. ASSUME NEW r, Forms!Refetch(r) \/ Forms!Arrive(r) PROVE perils = {}
  BY <1>6 DEF Forms!Refetch, Forms!Arrive, Forms!Caches
<1>7. CASE Forms!Generate \/ Forms!GenerateEnds
  BY <1>7 DEF Forms!Generate, Forms!GenerateEnds, Forms!Writes
<1> QED BY <1>1, <1>2, <1>3, <1>4, <1>5, <1>6, <1>7 DEF Forms!Next

(* Nothing has been typed; every row that is there is empty.                *)
LEMMA FormsInitially ==
    ASSUME PartsAssumption, Forms!Init
    PROVE  FormsInv
<1>1. Cast \subseteq Character /\ MaxTyped \in Nat /\ MaxOther \in Nat
  BY PartsAssumption DEF Forms!EditFormsAssumption
<1>2. doc = {} /\ buffer = {} /\ cache = <<>> /\ base = FALSE /\ pinned = 0 /\ conflict = 0
      /\ save = 0 /\ fetch = {} /\ ~flight /\ perils = {}
  BY DEF Forms!Init
<1>3. FormsRows
  <2> PICK rows \in {Cast, {Story}, {Summary}} :
         /\ srv = [r \in rows |-> Forms!Empty]
         /\ page = [r \in rows \cap {Story} |-> Forms!Empty]
    BY DEF Forms!Init
  <2>1. Forms!Empty \in Forms!Content
    BY DEF Forms!Empty, Forms!Content, Forms!Value
  <2>2. rows \subseteq Forms!Row
    BY <1>1 DEF Forms!Row
  <2>3. srv \in Parts(Forms!Row, Forms!Content) /\ page \in Parts(Forms!Row, Forms!Content)
    BY <2>1, <2>2, PartIs
  <2> QED BY <1>2, <2>3, NonePart DEF FormsRows
<1>4. FormsSheet /\ FormsSaves
  BY <1>2 DEF FormsSheet, FormsSaves, Single
<1>5. FormsRest
  <2>1. 0 \in Nat /\ 0 \in 0..MaxTyped /\ 0 \in 0..MaxOther
    BY <1>1
  <2>2. base \in BOOLEAN /\ fetch \subseteq Forms!Mine /\ perils \subseteq {"reseeded", "closed", "over", "unheard"}
    BY <1>2
  <2> QED BY <1>2, <2>1, <2>2 DEF FormsRest
<1>6. Whole /\ Seeded /\ TouchedOnly
  BY <1>2 DEF Whole, Seeded, TouchedOnly
<1>7. NothingLost
  <2>1. TypedKept
    BY <1>2 DEF TypedKept
  <2>2. DataKept
    <3>1. \A r \in DOMAIN page : page[r] = Forms!Empty
      BY DEF Forms!Init
    <3>2. \A f \in Field : Forms!Empty[f] \notin Forms!Mine
      BY <1>1 DEF Forms!Empty, Forms!Mine, Forms!Blank
    <3>3. DOMAIN cache = {}
      BY <1>2, NonePart
    <3> QED BY <3>1, <3>2, <3>3 DEF DataKept, Held
  <2> QED BY <1>2, <2>1, <2>2 DEF NothingLost, ServedKept, SentKept
<1> QED BY <1>2, <1>3, <1>4, <1>5, <1>6, <1>7 DEF FormsInv, FormsType

(* Every step of the sheets, of the server and of others keeps it.          *)
LEMMA FormsSteps ==
    ASSUME PartsAssumption, FormsInv, [Forms!Next]_MCVars
    PROVE  FormsInv'
<1> USE DEF FormsInv
<1>1. CASE Forms!Next
  <2>1. FormsType' /\ Whole'
    BY <1>1, FormsRowsStep, FormsSheetStep, FormsSavesStep, FormsRestStep, WholeStep
       DEF FormsType
  <2>2. Seeded' /\ TouchedOnly' /\ ~flight'
    BY <1>1, SeededStep, TouchedStep, TrampledStep
  <2>3. ASSUME perils' = {} PROVE NothingLost'
    <3>1. NothingLost
      BY <1>1, <2>3, PerilsStay
    <3>2. \A v \in Forms!Mine : Safe(v) => Safe(v)'
      BY <1>1, <2>3, SafeStays
    <3>3. DataKept' /\ ServedKept'
      BY <1>1, <2>3, <3>1, <3>2, DataKeptStep, ServedKeptStep
    <3>4. SentKept' /\ TypedKept'
      BY <1>1, <2>3, <3>1, <3>2, SentKeptStep, TypedKeptStep
    <3> QED BY <3>3, <3>4 DEF NothingLost
  <2> QED BY <2>1, <2>2, <2>3
<1>2. CASE UNCHANGED MCVars
  <2> USE <1>2 DEF MCVars
  <2>1. FormsType' /\ Whole'
    BY DEF FormsType, FormsRows, FormsSheet, FormsSaves, FormsRest, Single, Whole
  <2>2. Seeded' /\ TouchedOnly' /\ ~flight'
    BY DEF Seeded, TouchedOnly
  <2>3. (perils = {} => NothingLost)'
    <3>1. \A v : Safe(v) <=> Safe(v)'
      BY DEF Safe
    <3>2. NothingLost => TypedKept'
      BY <3>1 DEF NothingLost, TypedKept
    <3>3. NothingLost => DataKept'
      BY <3>1 DEF NothingLost, DataKept, Held
    <3>4. NothingLost => ServedKept' /\ SentKept'
      BY <3>1 DEF NothingLost, ServedKept, SentKept, Held
    <3> QED BY <3>2, <3>3, <3>4 DEF NothingLost
  <2> QED BY <2>1, <2>2, <2>3
<1> QED BY <1>1, <1>2

(* What was typed into a sheet is in it, on its way or stored, or one of    *)
(* the dangers was met; no save replaces a text in a field nobody touched.  *)
THEOREM FormsCorrect == MCSpec => []FormsLoseNothing
<1> DEFINE Inv == part = "forms" => FormsInv
<1>1. MCInit => Inv
  BY PartsAssumption, FormsInitially DEF MCInit
<1>2. Inv /\ [MCNext]_MCVars => Inv'
  <2> SUFFICES ASSUME FormsInv, [MCNext]_MCVars, part' = "forms" PROVE FormsInv'
    BY DEF MCNext, MCVars
  <2>1. [Forms!Next]_MCVars
    BY DEF MCNext
  <2> QED BY <2>1, PartsAssumption, FormsSteps
<1>3. FormsInv => Forms!FormsLoseNothing
  <2> SUFFICES ASSUME FormsInv, perils = {}, NEW v \in 1..conflict PROVE v \in fetch \cup Forms!Kept
    BY DEF Forms!FormsLoseNothing, FormsInv
  <2>1. Safe(v) \/ (\E s \in buffer : Sent(s, v)) \/ (\E k \in doc : OnSheet(k, v))
    BY DEF FormsInv, NothingLost, TypedKept
  <2>2. Safe(v) => v \in fetch \cup Forms!InRows
    <3>1. \A r \in DOMAIN srv : DOMAIN srv[r] = Field
      BY FormsHold DEF FormsInv, Forms!Content
    <3> QED BY <3>1 DEF Safe, Forms!InRows, Forms!Exists, Forms!Range
  <2>3. (\E s \in buffer : Sent(s, v)) => v \in Forms!OnTheWay
    BY DEF Sent, Forms!OnTheWay, Forms!Range
  <2>4. (\E k \in doc : OnSheet(k, v)) => v \in UNION {Forms!Range(s.fields) : s \in doc}
    <3>1. \A k \in doc : DOMAIN k.fields = Field
      BY DEF FormsInv, FormsType, FormsSheet, Forms!Content
    <3> QED BY <3>1 DEF OnSheet, Forms!Range
  <2> QED BY <2>1, <2>2, <2>3, <2>4 DEF Forms!Kept
<1>4. Inv => FormsLoseNothing
  BY <1>3 DEF FormsLoseNothing
<1> QED BY <1>1, <1>2, <1>4, PTL DEF MCSpec

-----------------------------------------------------------------------------
(* The chat tab.  A text is composed, on its way to a chat that is being    *)
(* created, or was posted; in the first two cases nothing else knows it.    *)
ChatCall == [id : Nat, text : Tab!Some, chat : Chat \cup {NoChat},
             at : {"creating", "created", "posted", "orphan"}, kept : BOOLEAN, here : BOOLEAN]
ChatType ==
    /\ srv \in Seq(Chat) /\ doc \in Seq(Chat)
    /\ page \in [Text -> SUBSET Chat]
    /\ base \in [Chat -> [text : Tab!Some, st : {"none", "pending", "error"}]]
    /\ pinned \in BOOLEAN /\ conflict \in Chat \cup {NoChat}
    /\ fetch \in Tab!Some /\ local \in Tab!Some
    /\ lookup \subseteq ChatCall
    /\ \A c \in lookup : /\ c.at # "creating" => c.chat \in Chat
                         /\ c.at \in {"creating", "created"} => ~c.kept
    /\ summary \subseteq Text /\ written \in [Text -> Chat \cup {NoChat}]
    /\ clobbered \in [Text -> SUBSET {"left", "overtyped", "dropped", "replaced", "doomed",
                                      "deleted", "strayed"}]
Unseen(t) ==
    /\ page[t] = {} /\ written[t] = NoChat /\ local # t
    /\ \A x \in Chat : base[x].text # t
Composed ==
    /\ \A t \in summary : Unseen(t) /\ fetch # t /\ \A c \in lookup : c.text # t
    /\ fetch # NoText => Unseen(fetch) /\ \A c \in lookup : c.text # fetch
Awaiting(c) == c.at \in {"creating", "created"} /\ c.text # NoText
AwaitingAlone ==
    \A c \in lookup : Awaiting(c) => Unseen(c.text) /\ \A d \in lookup : d.text = c.text => d = c
Gone(c) == c.at \in {"posted", "orphan"} /\ c.text # NoText
Unharmed(t) == clobbered[t] = {}
SentHome ==
    \A c \in lookup : Gone(c) /\ Unharmed(c.text) =>
        /\ c.chat = written[c.text] /\ c.chat \in Tab!ToSet(srv)
        /\ c.kept => c.chat \in page[c.text]
StoredHome ==
    /\ \A t \in Text : page[t] \subseteq Tab!ToSet(srv)
    /\ \A t \in Text : Unharmed(t) => page[t] \subseteq {written[t]}
RowsLive ==
    \A x \in Chat :
      /\ base[x].st = "none" => base[x].text = NoText
      /\ base[x].text # NoText /\ Unharmed(base[x].text) =>
           /\ x \in Tab!ToSet(srv)
           /\ base[x].st = "pending" =>
                \E c \in lookup : c.at = "posted" /\ c.chat = x /\ c.text = base[x].text
OnItsWay(t) == \E c \in lookup : c.text = t
InAChat(t) == \E x \in Tab!ToSet(srv) : x \in page[t]
InARow(t) == \E x \in Tab!ToSet(srv) : base[x].text = t
NoneMissing ==
    \A t \in Text \ summary :
       Unharmed(t) => fetch = t \/ OnItsWay(t) \/ InAChat(t) \/ InARow(t)
ChatInv ==
    /\ ChatType /\ Composed /\ AwaitingAlone /\ SentHome /\ StoredHome /\ RowsLive
    /\ NoneMissing

(* A set of positions has a first one.                                      *)
LEMMA FirstOf ==
    ASSUME NEW T, T \subseteq Nat, T # {}
    PROVE  Tab!Min(T) \in T
<1>1. \E x \in T : \A y \in T : ~ (<<y, x>> \in OpToRel(<, Nat))
  BY NatLessThanWellFounded, WFMin
<1>2. \A x, y \in T : x <= y <=> ~ (y < x)
  BY SMT
<1>3. \A x, y \in T : y < x => <<y, x>> \in OpToRel(<, Nat)
  BY DEF OpToRel
<1>4. \E x \in T : \A y \in T : x <= y
  BY <1>1, <1>2, <1>3
<1> QED BY <1>4 DEF Tab!Min

(* What is removed from a list of chats, and what is put before it.         *)
LEMMA Removed ==
    ASSUME NEW s \in Seq(Chat), NEW c
    PROVE  /\ Tab!RemoveFirst(s, c) \in Seq(Chat)
           /\ Tab!ToSet(Tab!RemoveFirst(s, c)) \subseteq Tab!ToSet(s)
           /\ Tab!ToSet(s) \ {c} \subseteq Tab!ToSet(Tab!RemoveFirst(s, c))
<1>1. CASE ~ \E i \in 1..Len(s) : s[i] = c
  BY <1>1 DEF Tab!RemoveFirst
<1>2. CASE \E i \in 1..Len(s) : s[i] = c
  <2> DEFINE I == {i \in 1..Len(s) : s[i] = c}
             k == Tab!Min(I)
             r == SubSeq(s, 1, k - 1) \o SubSeq(s, k + 1, Len(s))
  <2>1. k \in 1..Len(s) /\ s[k] = c
    <3>1. I \subseteq Nat /\ I # {}
      BY <1>2
    <3>2. k \in I
      BY <3>1, FirstOf
    <3> QED BY <3>2
  <2>2. Tab!RemoveFirst(s, c) = r
    <3>1. I # {}
      BY <1>2
    <3>2. Tab!SelectInSeq(s, LAMBDA v : v = c) = k
      BY <3>1 DEF Tab!SelectInSeq
    <3> QED BY <1>2, <3>2 DEF Tab!RemoveFirst, Tab!RemoveAt
  <2> HIDE DEF k
  <2> DEFINE a == SubSeq(s, 1, k - 1)
             b == SubSeq(s, k + 1, Len(s))
  <2>3. Len(s) \in Nat /\ \A i \in 1..Len(s) : s[i] \in Chat
    OBVIOUS
  <2>4. /\ a \in Seq(Chat) /\ Len(a) = k - 1 /\ \A i \in 1..k - 1 : a[i] = s[i]
    <3>1. \A i \in 1..k - 1 : s[i] \in Chat
      BY <2>1, <2>3
    <3> QED BY <2>1, <2>3, <3>1, SubSeqProperties
  <2>5. /\ b \in Seq(Chat) /\ Len(b) = Len(s) - k
        /\ \A i \in 1..Len(s) - k : b[i] = s[k + i]
    <3>1. \A i \in k + 1..Len(s) : s[i] \in Chat
      BY <2>1, <2>3
    <3> QED BY <2>1, <2>3, <3>1, SubSeqProperties
  <2> HIDE DEF a, b
  <2>6. /\ r \in Seq(Chat) /\ Len(r) = Len(s) - 1
        /\ \A i \in 1..Len(s) - 1 : r[i] = IF i <= k - 1 THEN s[i] ELSE s[i + 1]
    <3>1. r = a \o b
      BY DEF a, b
    <3> HIDE DEF r
    <3>2. /\ r \in Seq(Chat) /\ Len(r) = Len(a) + Len(b)
          /\ \A i \in 1..Len(a) + Len(b) : r[i] = IF i <= Len(a) THEN a[i] ELSE b[i - Len(a)]
      <4>1. a \in Seq(Chat) /\ b \in Seq(Chat)
        BY <2>4, <2>5
      <4> QED BY <3>1, <4>1, ConcatProperties
    <3>4. Len(a) = k - 1 /\ Len(b) = Len(s) - k /\ Len(a) + Len(b) = Len(s) - 1
      BY <2>1, <2>3, <2>4, <2>5
    <3>3. ASSUME NEW i \in 1..Len(s) - 1 PROVE r[i] = IF i <= k - 1 THEN s[i] ELSE s[i + 1]
      <4>1. CASE i <= k - 1
        <5>1. i \in 1..k - 1 /\ i \in 1..Len(a) + Len(b)
          BY <2>1, <2>3, <3>4, <4>1
        <5> QED BY <2>4, <3>2, <3>4, <4>1, <5>1
      <4>2. CASE i > k - 1
        <5>1. i - (k - 1) \in 1..Len(s) - k /\ k + (i - (k - 1)) = i + 1
          BY <2>1, <2>3, <4>2
        <5>2. r[i] = b[i - (k - 1)]
          BY <2>1, <2>3, <3>2, <3>4, <4>2
        <5> QED BY <2>1, <2>5, <4>2, <5>1, <5>2
      <4> QED BY <2>1, <4>1, <4>2
    <3> QED BY <2>1, <2>3, <2>4, <2>5, <3>2, <3>3
  <2> HIDE DEF r
  <2>7. DOMAIN r = 1..Len(s) - 1 /\ DOMAIN s = 1..Len(s)
    BY <2>3, <2>6
  <2>8. Tab!ToSet(r) \subseteq Tab!ToSet(s)
    <3> SUFFICES ASSUME NEW i \in 1..Len(s) - 1 PROVE \E j \in 1..Len(s) : r[i] = s[j]
      BY <2>7 DEF Tab!ToSet
    <3> QED BY <2>3, <2>6
  <2>9. Tab!ToSet(s) \ {c} \subseteq Tab!ToSet(r)
    <3> SUFFICES ASSUME NEW j \in 1..Len(s), s[j] # c PROVE \E i \in 1..Len(s) - 1 : r[i] = s[j]
      BY <2>7 DEF Tab!ToSet
    <3>1. CASE j < k
      BY <2>1, <2>3, <2>6, <3>1
    <3>2. CASE j > k
      <4>1. j - 1 \in 1..Len(s) - 1 /\ ~(j - 1 <= k - 1) /\ (j - 1) + 1 = j
        BY <2>1, <2>3, <3>2
      <4> QED BY <2>6, <4>1
    <3> QED BY <2>1, <3>1, <3>2
  <2> QED BY <2>2, <2>6, <2>8, <2>9
<1> QED BY <1>1, <1>2

(* A chat is put in front of a list.                                        *)
LEMMA PutFirst ==
    ASSUME NEW s \in Seq(Chat), NEW c \in Chat
    PROVE  /\ <<c>> \o s \in Seq(Chat)
           /\ Tab!ToSet(<<c>> \o s) = {c} \cup Tab!ToSet(s)
<1>1. <<c>> \in Seq(Chat) /\ Len(<<c>>) = 1 /\ <<c>>[1] = c
  OBVIOUS
<1> DEFINE r == <<c>> \o s
<1>2. /\ r \in Seq(Chat) /\ Len(r) = 1 + Len(s)
      /\ \A i \in 1..1 + Len(s) : r[i] = IF i <= 1 THEN <<c>>[i] ELSE s[i - 1]
  BY <1>1, ConcatProperties
<1> HIDE DEF r
<1>3. Len(s) \in Nat /\ DOMAIN s = 1..Len(s) /\ DOMAIN r = 1..1 + Len(s)
  BY <1>2
<1>4. r[1] = c /\ \A i \in 1..Len(s) : r[i + 1] = s[i]
  <2>1. r[1] = c
    BY <1>1, <1>2, <1>3
  <2>2. ASSUME NEW i \in 1..Len(s) PROVE r[i + 1] = s[i]
    <3>1. i + 1 \in 1..1 + Len(s) /\ ~(i + 1 <= 1) /\ (i + 1) - 1 = i
      BY <1>3
    <3> QED BY <1>2, <3>1
  <2> QED BY <2>1, <2>2
<1>5. Tab!ToSet(r) \subseteq {c} \cup Tab!ToSet(s)
  <2> SUFFICES ASSUME NEW i \in 1..1 + Len(s), r[i] # c PROVE \E j \in 1..Len(s) : r[i] = s[j]
    BY <1>3 DEF Tab!ToSet
  <2>1. i - 1 \in 1..Len(s) /\ (i - 1) + 1 = i
    BY <1>3, <1>4
  <2> QED BY <1>4, <2>1
<1>6. {c} \cup Tab!ToSet(s) \subseteq Tab!ToSet(r)
  <2>1. 1 \in DOMAIN r
    BY <1>3
  <2>2. \A j \in 1..Len(s) : j + 1 \in DOMAIN r
    BY <1>3
  <2> QED BY <1>3, <1>4, <2>1, <2>2 DEF Tab!ToSet
<1> QED BY <1>2, <1>5, <1>6 DEF r

(* A chat is moved to the front of a list.                                  *)
LEMMA MovedFirst ==
    ASSUME NEW s \in Seq(Chat), NEW c \in Chat
    PROVE  /\ <<c>> \o Tab!RemoveFirst(s, c) \in Seq(Chat)
           /\ Tab!ToSet(<<c>> \o Tab!RemoveFirst(s, c)) = {c} \cup Tab!ToSet(s)
BY Removed, PutFirst

(* What the steps do to the copies of a text.                               *)
LEMMA OnlyInDraftIs ==
    ASSUME ChatType, NEW x \in Chat, NEW t
    PROVE  t \in Tab!OnlyInDraft(x) <=>
              t \in Text /\ base[x].text = t /\ base[x].st = "error" /\ page[t] = {}
BY DEF ChatType, ChatCall, Tab!OnlyInDraft

Harms == {"left", "overtyped", "dropped", "replaced", "doomed", "deleted", "strayed"}

(* What befalls a set of texts befalls each of them and no other.           *)
LEMMA ExcusedTexts ==
    ASSUME ChatType, NEW S, NEW w \in Harms, Tab!Excuses(S, w)
    PROVE  /\ clobbered' \in [Text -> SUBSET Harms]
           /\ \A t \in Text : Unharmed(t)' => Unharmed(t) /\ t \notin S
BY DEF ChatType, ChatCall, Tab!Excuses, Unharmed, Harms

(* The row of a failed turn gives way to another.                           *)
GivesWay(x, t) == base[x].text = t /\ base[x].st = "error" /\ page[t] = {}
RowIs(x, t, st) ==
    /\ base'[x].text = t /\ base'[x].st = st
    /\ \A y \in Chat \ {x} : base'[y] = base[y]

(* A posted text is in its chat's row; it pushes a failed text out of it.   *)
LEMMA PostedText ==
    ASSUME ChatType, NEW d, d.chat \in Chat, d.text \in Text, Tab!Post(d)
    PROVE  /\ RowIs(d.chat, d.text, "pending")
           /\ clobbered' \in [Text -> SUBSET Harms]
           /\ \A t \in Text : Unharmed(t)' =>
                /\ Unharmed(t)
                /\ t # d.text => ~GivesWay(d.chat, t)
                /\ t = d.text => d.chat \in Tab!ToSet(srv)
<1>1. RowIs(d.chat, d.text, "pending")
  BY DEF ChatType, ChatCall, Tab!Post, RowIs
<1> DEFINE W(t) == {w \in {"replaced", "doomed"} :
            CASE w = "replaced" -> t \in Tab!OnlyInDraft(d.chat) \ {d.text}
              [] w = "doomed" -> t = d.text /\ d.chat \notin Tab!ToSet(srv)}
<1>2. clobbered' = [t \in Text |-> clobbered[t] \cup W(t)]
  BY DEF Tab!Post
<1>3. \A t \in Text : /\ "replaced" \in W(t) <=> t \in Tab!OnlyInDraft(d.chat) \ {d.text}
                      /\ "doomed" \in W(t) <=> t = d.text /\ d.chat \notin Tab!ToSet(srv)
                      /\ W(t) \subseteq Harms
  BY DEF Harms
<1> HIDE DEF W
<1>4. clobbered' \in [Text -> SUBSET Harms]
  BY <1>2, <1>3 DEF ChatType, ChatCall, Harms
<1>5. ASSUME NEW t \in Text, Unharmed(t)'
      PROVE  Unharmed(t) /\ "replaced" \notin W(t) /\ "doomed" \notin W(t)
  BY <1>2, <1>5 DEF Unharmed
<1> QED BY <1>1, <1>3, <1>4, <1>5, OnlyInDraftIs DEF GivesWay

(* A send empties the composer, into a row or a creation.                   *)
LEMMA SentFrom ==
    ASSUME ChatType, NEW id \in 1..MaxCalls, Tab!Send(id)
    PROVE  /\ fetch \in Text /\ fetch' = NoText /\ UNCHANGED <<srv, page, summary>>
           /\ written' = [written EXCEPT ![fetch] = conflict]
           /\ \E d : /\ lookup' = lookup \cup {d} /\ d.text = fetch /\ ~d.kept
                     /\ \/ /\ conflict = NoChat /\ d.at = "creating"
                           /\ UNCHANGED <<base, local, clobbered>>
                        \/ /\ conflict \in Chat /\ d.chat = conflict /\ d.at = "posted"
                           /\ local' = fetch /\ RowIs(conflict, fetch, "pending")
                           /\ \A t \in Text : Unharmed(t)' =>
                                /\ Unharmed(t) /\ (t # fetch => ~GivesWay(conflict, t))
                                /\ t = fetch => conflict \in Tab!ToSet(srv)
<1>1. fetch \in Text /\ fetch' = NoText /\ UNCHANGED <<srv, page, summary>>
      /\ written' = [written EXCEPT ![fetch] = conflict]
  BY DEF ChatType, ChatCall, Tab!Send, Tab!Some, Tab!server
<1>2. CASE conflict = NoChat
  <2> DEFINE d == Tab!Call(id, fetch, NoChat, "creating")
  <2>1. lookup' = lookup \cup {d} /\ UNCHANGED <<base, local, clobbered>>
    BY <1>2 DEF Tab!Send, Tab!mutation
  <2>2. d.text = fetch /\ ~d.kept /\ d.at = "creating"
    BY DEF Tab!Call
  <2> QED BY <1>1, <1>2, <2>1, <2>2
<1>3. CASE conflict # NoChat
  <2> DEFINE d == Tab!Call(id, fetch, conflict, "posted")
  <2>1. lookup' = lookup \cup {d} /\ local' = fetch /\ Tab!Post(d)
    BY <1>3 DEF Tab!Send
  <2>2. d.text = fetch /\ d.chat = conflict /\ ~d.kept /\ d.at = "posted" /\ conflict \in Chat
    BY <1>3 DEF Tab!Call, ChatType
  <2> HIDE DEF d
  <2> QED BY <1>1, <2>1, <2>2, PostedText
<1> QED BY <1>2, <1>3

(* A chat asked for on its own carries no text.                             *)
LEMMA AskedFor ==
    ASSUME NEW id \in 1..MaxCalls, Tab!NewChat(id)
    PROVE  /\ UNCHANGED <<srv, page, base, fetch, local, summary, written, clobbered>>
           /\ \E d : lookup' = lookup \cup {d} /\ d.text = NoText /\ d.at = "creating" /\ ~d.kept
<1> DEFINE d == Tab!Call(id, NoText, NoChat, "creating")
<1>1. d.text = NoText /\ d.at = "creating" /\ ~d.kept
  BY DEF Tab!Call
<1>2. lookup' = lookup \cup {d}
      /\ UNCHANGED <<srv, page, base, fetch, local, summary, written, clobbered>>
  BY DEF Tab!NewChat, Tab!server, Tab!page, Tab!mutation, Tab!history
<1> QED BY <1>1, <1>2

(* A retry posts the last text, or none, to the chat shown.                 *)
LEMMA Retried ==
    ASSUME ChatType, NEW id \in 1..MaxCalls, Tab!Retry(id)
    PROVE  /\ conflict \in Chat /\ UNCHANGED <<srv, page, fetch, local, summary, written>>
           /\ clobbered' \in [Text -> SUBSET Harms]
           /\ \E d : /\ lookup' = lookup \cup {d} /\ d.text \in {NoText, local}
                     /\ d.chat = conflict /\ d.at = "posted" /\ ~d.kept
                     /\ RowIs(conflict, d.text, "pending")
                     /\ \A t \in Text : Unharmed(t)' =>
                          /\ Unharmed(t) /\ (t # d.text => ~GivesWay(conflict, t))
                          /\ t = d.text => conflict \in Tab!ToSet(srv) /\ written[t] = conflict
<1>1. conflict \in Chat /\ UNCHANGED <<srv, page, fetch, local, summary, written>>
  BY DEF ChatType, ChatCall, Tab!Retry, Tab!server, Tab!page
<1> DEFINE d == Tab!Call(id, IF cache[conflict] = "user" THEN NoText ELSE local, conflict, "posted")
           W(t) == {w \in {"replaced", "strayed", "doomed"} :
                 CASE w = "replaced" -> t \in Tab!OnlyInDraft(conflict) \ {d.text}
                   [] w = "strayed" -> t = d.text /\ written[t] # conflict
                   [] w = "doomed" -> t = d.text /\ conflict \notin Tab!ToSet(srv)}
<1>2. lookup' = lookup \cup {d} /\ clobbered' = [t \in Text |-> clobbered[t] \cup W(t)]
      /\ base' = [base EXCEPT ![conflict] = [text |-> d.text, st |-> "pending"]]
  BY DEF Tab!Retry
<1>3. /\ d.text \in {NoText, local} /\ d.chat = conflict /\ d.at = "posted" /\ ~d.kept
  BY DEF Tab!Call
<1> HIDE DEF d
<1>4. \A t \in Text : /\ "replaced" \in W(t) <=> t \in Tab!OnlyInDraft(conflict) \ {d.text}
                      /\ "strayed" \in W(t) <=> t = d.text /\ written[t] # conflict
                      /\ "doomed" \in W(t) <=> t = d.text /\ conflict \notin Tab!ToSet(srv)
                      /\ W(t) \subseteq Harms
  BY DEF Harms
<1> HIDE DEF W
<1>5. clobbered' \in [Text -> SUBSET Harms]
  BY <1>2, <1>4 DEF ChatType, ChatCall, Harms
<1>6. ASSUME NEW t \in Text, Unharmed(t)'
      PROVE  Unharmed(t) /\ "replaced" \notin W(t) /\ "strayed" \notin W(t) /\ "doomed" \notin W(t)
  BY <1>2, <1>6 DEF Unharmed
<1>7. RowIs(conflict, d.text, "pending")
  BY <1>1, <1>2 DEF ChatType, ChatCall, RowIs
<1>8. \A t \in Text : Unharmed(t)' =>
         /\ Unharmed(t) /\ (t # d.text => ~GivesWay(conflict, t))
         /\ t = d.text => conflict \in Tab!ToSet(srv) /\ written[t] = conflict
  BY <1>1, <1>4, <1>6, OnlyInDraftIs DEF GivesWay
<1> QED BY <1>1, <1>2, <1>3, <1>5, <1>7, <1>8

(* The server makes the chat of one creation.                               *)
LEMMA Made ==
    ASSUME ChatType, NEW c \in lookup, NEW new \in Chat, Tab!ServeCreate(c, new)
    PROVE  /\ UNCHANGED <<page, base, fetch, local, summary, written, clobbered>>
           /\ c.at = "creating" /\ srv' \in Seq(Chat) /\ Tab!ToSet(srv') = {new} \cup Tab!ToSet(srv)
           /\ \E d : /\ lookup' = (lookup \ {c}) \cup {d} /\ d.text = c.text
                     /\ d.at = "created" /\ d.chat = new
<1> DEFINE d == [c EXCEPT !.at = "created", !.chat = new]
<1>1. d.text = c.text /\ d.at = "created" /\ d.chat = new
  BY DEF ChatType, ChatCall
<1>2. lookup' = (lookup \ {c}) \cup {d} /\ c.at = "creating"
      /\ UNCHANGED <<page, base, fetch, local, summary, written, clobbered>>
  BY DEF Tab!ServeCreate, Tab!Becomes, Tab!page, Tab!mutation, Tab!history
<1>3. srv' \in Seq(Chat) /\ Tab!ToSet(srv') = {new} \cup Tab!ToSet(srv)
  BY PutFirst DEF ChatType, ChatCall, Tab!ServeCreate
<1> QED BY <1>1, <1>2, <1>3

(* A creation that is answered has its text posted.                         *)
LEMMA Answered ==
    ASSUME ChatType, NEW c \in lookup, Tab!Created(c)
    PROVE  /\ UNCHANGED <<srv, page, fetch, summary>> /\ c.at = "created" /\ c.chat \in Chat
           /\ \/ /\ c.text = NoText /\ lookup' = lookup \ {c}
                 /\ UNCHANGED <<base, local, written, clobbered>>
              \/ /\ c.text \in Text /\ local' \in {local, c.text}
                 /\ written' = [written EXCEPT ![c.text] = c.chat]
                 /\ RowIs(c.chat, c.text, "pending")
                 /\ \A t \in Text : Unharmed(t)' =>
                      /\ Unharmed(t) /\ (t # c.text => ~GivesWay(c.chat, t))
                      /\ t = c.text => c.chat \in Tab!ToSet(srv)
                 /\ \E d : /\ lookup' = (lookup \ {c}) \cup {d} /\ d.text = c.text
                           /\ d.at = "posted" /\ d.chat = c.chat /\ d.kept = c.kept
<1>1. UNCHANGED <<srv, page, fetch, summary>> /\ c.at = "created" /\ c.chat \in Chat
  BY DEF ChatType, ChatCall, Tab!Created, Tab!server
<1>2. CASE c.text = NoText
  BY <1>1, <1>2 DEF Tab!Created, Tab!mutation
<1>3. CASE c.text # NoText
  <2> DEFINE d == [c EXCEPT !.at = "posted"]
  <2>1. d.text = c.text /\ d.at = "posted" /\ d.chat = c.chat /\ d.kept = c.kept
    BY DEF ChatType, ChatCall
  <2>2. lookup' = (lookup \ {c}) \cup {d} /\ local' \in {local, c.text} /\ Tab!Post(c)
        /\ written' = [written EXCEPT ![c.text] = c.chat]
    BY <1>3 DEF Tab!Created, Tab!Becomes
  <2>3. c.text \in Text
    BY <1>3 DEF ChatType, ChatCall, Tab!Some
  <2> HIDE DEF d
  <2> QED BY <1>1, <2>1, <2>2, <2>3, PostedText
<1> QED BY <1>2, <1>3

(* The text of a failed creation is back in the composer, or harmed.        *)
LEMMA NotMade ==
    ASSUME ChatType, NEW c \in lookup, Tab!CreateFails(c)
    PROVE  /\ UNCHANGED <<srv, page, base, local, summary, written>>
           /\ c.at \in {"creating", "created"} /\ lookup' = lookup \ {c}
           /\ \/ c.text = NoText /\ UNCHANGED <<fetch, clobbered>>
              \/ c.text \in Text /\ fetch = NoText /\ fetch' = c.text /\ UNCHANGED clobbered
              \/ /\ c.text \in Text /\ UNCHANGED fetch /\ clobbered' \in [Text -> SUBSET Harms]
                 /\ \A t \in Text : Unharmed(t)' => Unharmed(t) /\ t # c.text
<1>1. /\ UNCHANGED <<srv, page, base, local, summary, written>>
      /\ c.at \in {"creating", "created"} /\ lookup' = lookup \ {c}
  BY DEF Tab!CreateFails, Tab!server, Tab!mutation
<1>2. CASE c.text = NoText
  BY <1>1, <1>2 DEF Tab!CreateFails
<1>3. CASE c.text # NoText
  <2>1. Tab!TakesBack(c)
    BY <1>3 DEF Tab!CreateFails
  <2>2. c.text \in Text
    BY <1>3 DEF ChatType, ChatCall, Tab!Some
  <2>3. CASE c.here /\ fetch = NoText
    BY <1>1, <2>1, <2>2, <2>3 DEF Tab!TakesBack
  <2>4. CASE ~(c.here /\ fetch = NoText)
    <3>1. UNCHANGED fetch /\ \E w \in Harms : Tab!Excuses({c.text}, w)
      BY <2>1, <2>4 DEF Tab!TakesBack, Harms
    <3> QED BY <1>1, <2>2, <3>1, ExcusedTexts
  <2> QED BY <2>3, <2>4
<1> QED BY <1>2, <1>3

(* The server keeps one text, in the chat it was posted to.                 *)
LEMMA Persisted ==
    ASSUME ChatType, NEW c \in lookup, Tab!Persist(c)
    PROVE  /\ UNCHANGED <<base, fetch, local, summary, written, clobbered>>
           /\ c.at \in {"posted", "orphan"} /\ c.text \in Text /\ c.chat \in Tab!ToSet(srv)
           /\ page' = [page EXCEPT ![c.text] = page[c.text] \cup {c.chat}] /\ c.chat \in Chat
           /\ srv' \in Seq(Chat) /\ Tab!ToSet(srv') = Tab!ToSet(srv)
           /\ \E d : /\ lookup' = (lookup \ {c}) \cup {d} /\ d.text = c.text
                     /\ d.at = c.at /\ d.chat = c.chat /\ d.kept
<1> DEFINE d == [c EXCEPT !.kept = TRUE]
<1>1. d.text = c.text /\ d.at = c.at /\ d.chat = c.chat /\ d.kept
  BY DEF ChatType, ChatCall
<1>2. /\ lookup' = (lookup \ {c}) \cup {d} /\ c.at \in {"posted", "orphan"}
      /\ page' = [page EXCEPT ![c.text] = page[c.text] \cup {c.chat}]
      /\ UNCHANGED <<base, fetch, local, summary, written, clobbered>>
      /\ c.chat \in Tab!ToSet(srv) /\ c.text # NoText
      /\ srv' = <<c.chat>> \o Tab!RemoveFirst(srv, c.chat)
  BY DEF Tab!Persist, Tab!Becomes, Tab!page, Tab!mutation, Tab!history
<1>3. c.chat \in Chat /\ c.text \in Text
  BY <1>2 DEF ChatType, ChatCall, Tab!Some
<1>4. srv' \in Seq(Chat) /\ Tab!ToSet(srv') = Tab!ToSet(srv)
  <2>1. srv \in Seq(Chat)
    BY DEF ChatType, ChatCall
  <2>2. Tab!ToSet(srv') = {c.chat} \cup Tab!ToSet(srv) /\ srv' \in Seq(Chat)
    BY <1>2, <1>3, <2>1, MovedFirst
  <2> QED BY <1>2, <2>2
<1> QED BY <1>1, <1>2, <1>3, <1>4

(* A turn that succeeds clears the row of its chat.                         *)
LEMMA Succeeded ==
    ASSUME ChatType, NEW c \in lookup, Tab!Succeed(c)
    PROVE  /\ UNCHANGED <<srv, page, fetch, local, summary, written>>
           /\ c.at = "posted" /\ (c.kept \/ c.text = NoText) /\ lookup' = lookup \ {c}
           /\ c.chat \in Chat /\ RowIs(c.chat, NoText, "none")
           /\ clobbered' \in [Text -> SUBSET Harms]
           /\ \A t \in Text : Unharmed(t)' => Unharmed(t) /\ (t # c.text => ~GivesWay(c.chat, t))
<1>1. /\ UNCHANGED <<srv, page, fetch, local, summary, written>> /\ c.chat \in Chat
      /\ c.at = "posted" /\ (c.kept \/ c.text = NoText) /\ lookup' = lookup \ {c}
  BY DEF ChatType, ChatCall, Tab!Succeed, Tab!page
<1>2. RowIs(c.chat, NoText, "none")
  BY <1>1 DEF ChatType, ChatCall, Tab!Succeed, Tab!NoDraft, RowIs
<1>3. Tab!Excuses(Tab!OnlyInDraft(c.chat) \ {c.text}, "replaced") /\ "replaced" \in Harms
  BY DEF Tab!Succeed, Harms
<1>4. clobbered' \in [Text -> SUBSET Harms]
      /\ \A t \in Text : Unharmed(t)' => Unharmed(t) /\ t \notin Tab!OnlyInDraft(c.chat) \ {c.text}
  BY <1>3, ExcusedTexts
<1> QED BY <1>1, <1>2, <1>4, OnlyInDraftIs DEF GivesWay

(* A send that is not waited for any more, kept or not.                     *)
LeftAlone(c) ==
    \/ lookup' = lookup \ {c} /\ (c.kept \/ c.text = NoText)
    \/ \E d : /\ lookup' = (lookup \ {c}) \cup {d} /\ d.text = c.text /\ d.at = "orphan"
              /\ d.chat = c.chat /\ d.kept = c.kept /\ ~c.kept

(* Whether it ends or goes on unheard, it is what the code leaves.          *)
LEMMA AbandonedSend ==
    ASSUME ChatType, NEW c \in lookup, Tab!Abandoned(c)
    PROVE  LeftAlone(c)
<1> DEFINE d == [c EXCEPT !.at = "orphan"]
<1>1. d.text = c.text /\ d.at = "orphan" /\ d.chat = c.chat /\ d.kept = c.kept /\ c.kept \in BOOLEAN
  BY DEF ChatType, ChatCall
<1>2. \/ lookup' = lookup \ {c} /\ (c.kept \/ c.text = NoText)
      \/ ~c.kept /\ lookup' = (lookup \ {c}) \cup {d}
  BY DEF Tab!Abandoned, Tab!Becomes
<1> HIDE DEF d
<1> QED BY <1>1, <1>2 DEF LeftAlone

(* A failed turn leaves its text in the row.                                *)
LEMMA Failed ==
    ASSUME ChatType, NEW c \in lookup, Tab!Fail(c)
    PROVE  /\ UNCHANGED <<srv, page, fetch, local, summary, written, clobbered>>
           /\ c.at = "posted" /\ c.chat \in Chat /\ LeftAlone(c)
           /\ RowIs(c.chat, base[c.chat].text, IF base[c.chat].st = "none" THEN "none" ELSE "error")
<1>1. /\ UNCHANGED <<srv, page, fetch, local, summary, written, clobbered>>
      /\ c.at = "posted" /\ c.chat \in Chat
  BY DEF ChatType, ChatCall, Tab!Fail, Tab!server, Tab!page, Tab!history
<1>2. RowIs(c.chat, base[c.chat].text, IF base[c.chat].st = "none" THEN "none" ELSE "error")
  BY <1>1 DEF ChatType, ChatCall, Tab!Fail, RowIs
<1> QED BY <1>1, <1>2, AbandonedSend DEF Tab!Fail

(* A stopped turn clears the row of its chat.                               *)
LEMMA Stopped ==
    ASSUME ChatType, Tab!Stop
    PROVE  /\ UNCHANGED <<srv, page, fetch, local, summary, written>>
           /\ clobbered' \in [Text -> SUBSET Harms]
           /\ \E c \in lookup :
                /\ c.at = "posted" /\ c.chat \in Chat /\ LeftAlone(c) /\ RowIs(c.chat, NoText, "none")
                /\ \A t \in Text : Unharmed(t)' => Unharmed(t) /\ (t # c.text => ~GivesWay(c.chat, t))
<1> PICK c \in lookup :
      /\ c.at = "posted" /\ Tab!Abandoned(c) /\ base' = [base EXCEPT ![c.chat] = Tab!NoDraft]
      /\ Tab!Excuses(Tab!OnlyInDraft(c.chat) \ {c.text}, "replaced")
  BY DEF Tab!Stop
<1>1. UNCHANGED <<srv, page, fetch, local, summary, written>> /\ c.chat \in Chat
  BY DEF ChatType, ChatCall, Tab!Stop, Tab!server, Tab!page
<1>2. RowIs(c.chat, NoText, "none")
  BY <1>1 DEF ChatType, ChatCall, Tab!NoDraft, RowIs
<1>3. "replaced" \in Harms
  BY DEF Harms
<1>4. clobbered' \in [Text -> SUBSET Harms]
      /\ \A t \in Text : Unharmed(t)' => Unharmed(t) /\ t \notin Tab!OnlyInDraft(c.chat) \ {c.text}
  BY <1>3, ExcusedTexts
<1>5. LeftAlone(c)
  BY AbandonedSend
<1>6. \A t \in Text : Unharmed(t)' => Unharmed(t) /\ (t # c.text => ~GivesWay(c.chat, t))
  BY <1>1, <1>4, OnlyInDraftIs DEF GivesWay
<1> QED BY <1>1, <1>2, <1>4, <1>5, <1>6

(* A send that is dropped has its text in the row, or harms it.             *)
LEMMA Dropped ==
    ASSUME ChatType, NEW c \in lookup, Tab!Drop(c)
    PROVE  /\ UNCHANGED <<srv, page, base, fetch, local, summary, written>>
           /\ c.at = "orphan" /\ c.chat \in Chat /\ lookup' = lookup \ {c}
           /\ clobbered' \in [Text -> SUBSET Harms]
           /\ \A t \in Text : Unharmed(t)' => Unharmed(t) /\ (t = c.text => GivesWay(c.chat, t))
<1>1. /\ UNCHANGED <<srv, page, base, fetch, local, summary, written>>
      /\ c.at = "orphan" /\ c.chat \in Chat /\ lookup' = lookup \ {c}
  BY DEF ChatType, ChatCall, Tab!Drop, Tab!server, Tab!page, Tab!mutation
<1> DEFINE S == IF c.text \in Tab!OnlyInDraft(c.chat) THEN {} ELSE {c.text}
<1>2. Tab!Excuses(S, "dropped") /\ "dropped" \in Harms
  BY DEF Tab!Drop, Harms
<1>3. \A t : t = c.text /\ t \notin S => t \in Tab!OnlyInDraft(c.chat)
  OBVIOUS
<1> HIDE DEF S
<1>4. clobbered' \in [Text -> SUBSET Harms] /\ \A t \in Text : Unharmed(t)' => Unharmed(t) /\ t \notin S
  BY <1>2, ExcusedTexts
<1> QED BY <1>1, <1>3, <1>4, OnlyInDraftIs DEF GivesWay

(* Leaving the tab empties the composer; the sends go on.                   *)
LEMMA LeftTab ==
    ASSUME ChatType, Tab!Leave
    PROVE  /\ UNCHANGED <<srv, page, base, summary, written>> /\ fetch' = NoText /\ local' = NoText
           /\ clobbered' \in [Text -> SUBSET Harms]
           /\ \A t \in Text : Unharmed(t)' => Unharmed(t) /\ t # fetch
           /\ \A d \in lookup' : \E c \in lookup :
                d.text = c.text /\ d.chat = c.chat /\ d.at = c.at /\ d.kept = c.kept
                /\ d = [c EXCEPT !.here = FALSE]
           /\ \A c \in lookup : \E d \in lookup' :
                d.text = c.text /\ d.chat = c.chat /\ d.at = c.at /\ d.kept = c.kept
<1>1. /\ UNCHANGED <<srv, page, base, summary, written>> /\ fetch' = NoText /\ local' = NoText
      /\ lookup' = {[c EXCEPT !.here = FALSE] : c \in lookup}
  BY DEF Tab!Leave, Tab!server
<1>2. \A c \in lookup : LET d == [c EXCEPT !.here = FALSE]
                        IN d.text = c.text /\ d.chat = c.chat /\ d.at = c.at /\ d.kept = c.kept
  BY DEF ChatType, ChatCall
<1>3. Tab!Excuses({fetch} \cap Text, "left") /\ "left" \in Harms
  BY DEF Tab!Leave, Harms
<1>4. clobbered' \in [Text -> SUBSET Harms]
      /\ \A t \in Text : Unharmed(t)' => Unharmed(t) /\ t \notin {fetch} \cap Text
  BY <1>3, ExcusedTexts
<1> QED BY <1>1, <1>2, <1>4

(* A deleted chat harms every text it holds.                                *)
LEMMA DeletedChat ==
    ASSUME ChatType, NEW x \in Chat, Tab!ServeDelete(x)
    PROVE  /\ UNCHANGED <<base, fetch, local, summary, written, lookup>>
           /\ srv' \in Seq(Chat) /\ Tab!ToSet(srv) \ {x} \subseteq Tab!ToSet(srv')
           /\ page' = [t \in Text |-> page[t] \ {x}]
           /\ clobbered' \in [Text -> SUBSET Harms]
           /\ \A t \in Text : Unharmed(t)' =>
                /\ Unharmed(t) /\ x \notin page[t] /\ base[x].text # t
                /\ \A d \in lookup : ~(d.chat = x /\ d.text = t)
<1>1. /\ UNCHANGED <<base, fetch, local, summary, written, lookup>>
      /\ page' = [t \in Text |-> page[t] \ {x}] /\ srv' = Tab!RemoveFirst(srv, x)
  BY DEF Tab!ServeDelete, Tab!page, Tab!mutation
<1>2. srv' \in Seq(Chat) /\ Tab!ToSet(srv) \ {x} \subseteq Tab!ToSet(srv')
  BY <1>1, Removed DEF ChatType, ChatCall
<1> DEFINE W(t) == {w \in {"deleted", "doomed"} :
                     t \in Tab!Holds(x) /\ (w = "deleted" <=> t \in givenUp[x])}
<1>3. clobbered' = [t \in Text |-> clobbered[t] \cup W(t)]
  BY DEF Tab!ServeDelete
<1>4. \A t \in Text : /\ W(t) \subseteq Harms
                      /\ t \in Tab!Holds(x) => "deleted" \in W(t) \/ "doomed" \in W(t)
  BY DEF Harms
<1> HIDE DEF W
<1>5. clobbered' \in [Text -> SUBSET Harms]
  BY <1>3, <1>4 DEF ChatType, ChatCall, Harms
<1>6. \A t \in Text : Unharmed(t)' => Unharmed(t) /\ t \notin Tab!Holds(x)
  BY <1>3, <1>4 DEF Unharmed
<1>7. \A t \in Text : t \notin Tab!Holds(x) =>
         x \notin page[t] /\ base[x].text # t /\ \A d \in lookup : ~(d.chat = x /\ d.text = t)
  BY DEF Tab!Holds
<1> QED BY <1>1, <1>2, <1>5, <1>6, <1>7

(* What befell a text is not forgotten.                                     *)
LEMMA HarmStays ==
    ASSUME ChatType, Tab!Next
    PROVE  \A u \in Text : Unharmed(u)' => Unharmed(u)
<1> USE DEF Unharmed, Tab!server, Tab!page, Tab!mutation, Tab!history
<1>1. ASSUME NEW t \in Text, Tab!Type(t) PROVE \A u \in Text : Unharmed(u)' => Unharmed(u)
  BY <1>1 DEF Tab!Type
<1>2. ASSUME NEW id \in 1..MaxCalls, Tab!Send(id)
      PROVE  \A u \in Text : Unharmed(u)' => Unharmed(u)
  BY <1>2, SentFrom DEF RowIs
<1>3. ASSUME NEW id \in 1..MaxCalls, Tab!NewChat(id)
      PROVE  \A u \in Text : Unharmed(u)' => Unharmed(u)
  BY <1>3, AskedFor DEF RowIs
<1>4. ASSUME NEW id \in 1..MaxCalls, Tab!Retry(id)
      PROVE  \A u \in Text : Unharmed(u)' => Unharmed(u)
  BY <1>4, Retried DEF RowIs
<1>5. ASSUME NEW c \in lookup, NEW new \in Chat, Tab!ServeCreate(c, new)
      PROVE  \A u \in Text : Unharmed(u)' => Unharmed(u)
  BY <1>5, Made DEF RowIs
<1>6. ASSUME NEW c \in lookup, Tab!Created(c) PROVE \A u \in Text : Unharmed(u)' => Unharmed(u)
  BY <1>6, Answered DEF RowIs
<1>7. ASSUME NEW c \in lookup, Tab!CreateFails(c)
      PROVE  \A u \in Text : Unharmed(u)' => Unharmed(u)
  BY <1>7, NotMade DEF RowIs
<1>8. ASSUME NEW c \in lookup, Tab!Persist(c) PROVE \A u \in Text : Unharmed(u)' => Unharmed(u)
  BY <1>8, Persisted DEF RowIs
<1>9. ASSUME NEW c \in lookup, Tab!Succeed(c) PROVE \A u \in Text : Unharmed(u)' => Unharmed(u)
  BY <1>9, Succeeded DEF RowIs
<1>10. ASSUME NEW c \in lookup, Tab!Fail(c) PROVE \A u \in Text : Unharmed(u)' => Unharmed(u)
  BY <1>10, Failed DEF RowIs, LeftAlone
<1>11. ASSUME NEW c \in lookup, Tab!Drop(c) PROVE \A u \in Text : Unharmed(u)' => Unharmed(u)
  BY <1>11, Dropped DEF RowIs
<1>12. ASSUME NEW c \in lookup, Tab!Carried(c) PROVE \A u \in Text : Unharmed(u)' => Unharmed(u)
  BY <1>12 DEF Tab!Carried
<1>13. ASSUME NEW c \in Chat, Tab!Select(c) PROVE \A u \in Text : Unharmed(u)' => Unharmed(u)
  BY <1>13 DEF Tab!Select
<1>14. ASSUME NEW c \in Chat, Tab!Delete(c) PROVE \A u \in Text : Unharmed(u)' => Unharmed(u)
  BY <1>14 DEF Tab!Delete, Tab!Holds
<1>15. ASSUME NEW c \in Chat, Tab!Undo(c) PROVE \A u \in Text : Unharmed(u)' => Unharmed(u)
  BY <1>15 DEF Tab!Undo
<1>16. ASSUME NEW c \in Chat, Tab!Fire(c) PROVE \A u \in Text : Unharmed(u)' => Unharmed(u)
  BY <1>16 DEF Tab!Fire
<1>17. ASSUME NEW c \in Chat, Tab!ServeDelete(c)
       PROVE  \A u \in Text : Unharmed(u)' => Unharmed(u)
  BY <1>17, DeletedChat DEF RowIs
<1>18. ASSUME NEW c \in Chat, Tab!DeleteAnswered(c)
       PROVE  \A u \in Text : Unharmed(u)' => Unharmed(u)
  BY <1>18 DEF Tab!DeleteAnswered, Tab!Lists
<1>19. CASE Tab!Stop
  BY <1>19, Stopped DEF RowIs, LeftAlone
<1>20. CASE Tab!Arrive
  BY <1>20 DEF Tab!Arrive, Tab!Lists
<1>21. CASE Tab!Leave
  BY <1>21, LeftTab DEF RowIs
<1>22. CASE Tab!Return
  BY <1>22 DEF Tab!Return
<1> QED BY <1>1, <1>2, <1>3, <1>4, <1>5, <1>6, <1>7, <1>8, <1>9, <1>10, <1>11, <1>12, <1>13,
   <1>14, <1>15, <1>16, <1>17, <1>18, <1>19, <1>20, <1>21, <1>22 DEF Tab!Next

(* A text not typed yet, and one in the composer, is nowhere else.          *)
LEMMA ComposedStep ==
    ASSUME PartsAssumption, ChatType, Composed, AwaitingAlone, Tab!Next
    PROVE  Composed'
<1> USE DEF ChatType, ChatCall, Composed, Unseen, Tab!Some, Tab!server, Tab!page, Tab!mutation,
   Tab!history
<1>1. ASSUME NEW t \in Text, Tab!Type(t) PROVE Composed'
  BY <1>1 DEF Tab!Type
<1>2. ASSUME NEW id \in 1..MaxCalls, Tab!Send(id) PROVE Composed'
  <2> PICK f \in Text : f = fetch
    BY <1>2, SentFrom
  <2>1. /\ UNCHANGED <<page, summary>> /\ fetch' = NoText /\ local' \in {local, f}
        /\ written' = [written EXCEPT ![f] = conflict] /\ NoText \notin Text
        /\ \A d \in lookup' : d \in lookup \/ d.text = f
    BY <1>2, SentFrom, PartsAssumption DEF Tab!ChatTabAssumption
  <2>2. \A u \in Text : u # f => written'[u] = written[u]
    BY <2>1
  <2>3. \A x \in Chat : base'[x].text = base[x].text \/ base'[x].text = f
    BY <1>2, SentFrom DEF RowIs
  <2>4. summary \subseteq Text /\ f \notin summary
    OBVIOUS
  <2> HIDE DEF ChatType
  <2>5. \A u \in Text : u # f /\ Unseen(u) => Unseen(u)'
    BY <2>1, <2>2, <2>3
  <2> HIDE DEF Unseen
  <2> QED BY <2>1, <2>4, <2>5
<1>3. ASSUME NEW id \in 1..MaxCalls, Tab!NewChat(id) PROVE Composed'
  BY <1>3, AskedFor, PartsAssumption DEF RowIs, AwaitingAlone, Awaiting, Tab!ChatTabAssumption
<1>4. ASSUME NEW id \in 1..MaxCalls, Tab!Retry(id) PROVE Composed'
  <2> PICK d : /\ lookup' = lookup \cup {d} /\ d.text \in {NoText, local}
               /\ RowIs(conflict, d.text, "pending")
    BY <1>4, Retried
  <2>1. UNCHANGED <<page, written, local, fetch, summary>>
    BY <1>4, Retried
  <2>2. \A x \in Chat : base'[x].text = base[x].text \/ base'[x].text \in {NoText, local}
    BY DEF RowIs
  <2>3. summary \subseteq Text /\ fetch \in Text \cup {NoText} /\ NoText \notin Text
    BY PartsAssumption DEF Tab!ChatTabAssumption
  <2> HIDE DEF ChatType
  <2>4. \A u \in Text : Unseen(u) => Unseen(u)' /\ d.text # u
    BY <2>1, <2>2, <2>3
  <2> HIDE DEF Unseen
  <2> QED BY <2>1, <2>3, <2>4
<1>5. ASSUME NEW c \in lookup, NEW new \in Chat, Tab!ServeCreate(c, new) PROVE Composed'
  BY <1>5, Made, PartsAssumption DEF RowIs, AwaitingAlone, Awaiting, Tab!ChatTabAssumption
<1>6. ASSUME NEW c \in lookup, Tab!Created(c) PROVE Composed'
  <2>1. summary \subseteq Text /\ fetch \in Text \cup {NoText} /\ NoText \notin Text
    BY PartsAssumption DEF Tab!ChatTabAssumption
  <2>2. CASE c.text = NoText
    BY <1>6, <2>1, <2>2, Answered
  <2>3. CASE c.text # NoText
    <3>1. /\ UNCHANGED <<page, fetch, summary>> /\ local' \in {local, c.text}
          /\ written' = [written EXCEPT ![c.text] = c.chat] /\ RowIs(c.chat, c.text, "pending")
          /\ \A d \in lookup' : \E e \in lookup : d.text = e.text
      BY <1>6, <2>3, Answered
    <3>2. \A x \in Chat : base'[x].text = base[x].text \/ base'[x].text = c.text
      BY <3>1 DEF RowIs
    <3>3. \A u \in Text : u # c.text => written'[u] = written[u]
      BY <3>1
    <3> HIDE DEF ChatType
    <3>4. \A u \in Text : Unseen(u) /\ u # c.text => Unseen(u)'
      BY <3>1, <3>2, <3>3
    <3> HIDE DEF Unseen
    <3> QED BY <2>1, <3>1, <3>4
  <2> QED BY <2>2, <2>3
<1>7. ASSUME NEW c \in lookup, Tab!CreateFails(c) PROVE Composed'
  BY <1>7, NotMade, PartsAssumption DEF RowIs, AwaitingAlone, Awaiting, Tab!ChatTabAssumption
<1>8. ASSUME NEW c \in lookup, Tab!Persist(c) PROVE Composed'
  BY <1>8, Persisted, PartsAssumption DEF RowIs, AwaitingAlone, Awaiting, Tab!ChatTabAssumption
<1>9. ASSUME NEW c \in lookup, Tab!Succeed(c) PROVE Composed'
  <2>1. /\ UNCHANGED <<page, written, local, fetch, summary>>
        /\ \A d \in lookup' : \E e \in lookup : d.text = e.text
        /\ \E x \in Chat : RowIs(x, NoText, "none")
    BY <1>9, Succeeded DEF LeftAlone
  <2>2. \A x \in Chat : base'[x].text = base[x].text \/ base'[x].text = NoText
    BY <2>1 DEF RowIs
  <2>3. summary \subseteq Text /\ fetch \in Text \cup {NoText} /\ NoText \notin Text
    BY PartsAssumption DEF Tab!ChatTabAssumption
  <2> HIDE DEF ChatType
  <2>4. \A u \in Text : Unseen(u) => Unseen(u)'
    BY <2>1, <2>2, <2>3
  <2> HIDE DEF Unseen
  <2> QED BY <2>1, <2>3, <2>4
<1>10. ASSUME NEW c \in lookup, Tab!Fail(c) PROVE Composed'
  <2>1. /\ UNCHANGED <<page, written, local, fetch, summary>>
        /\ \A d \in lookup' : \E e \in lookup : d.text = e.text
        /\ \E x \in Chat, t \in {"none", "error"} : RowIs(x, base[x].text, t)
    BY <1>10, Failed DEF LeftAlone
  <2>2. \A x \in Chat : base'[x].text = base[x].text \/ FALSE
    BY <2>1 DEF RowIs
  <2>3. summary \subseteq Text /\ fetch \in Text \cup {NoText} /\ NoText \notin Text
    BY PartsAssumption DEF Tab!ChatTabAssumption
  <2> HIDE DEF ChatType
  <2>4. \A u \in Text : Unseen(u) => Unseen(u)'
    BY <2>1, <2>2, <2>3
  <2> HIDE DEF Unseen
  <2> QED BY <2>1, <2>3, <2>4
<1>11. ASSUME NEW c \in lookup, Tab!Drop(c) PROVE Composed'
  BY <1>11, Dropped, PartsAssumption DEF RowIs, AwaitingAlone, Awaiting, Tab!ChatTabAssumption
<1>12. ASSUME NEW c \in lookup, Tab!Carried(c) PROVE Composed'
  BY <1>12 DEF Tab!Carried
<1>13. ASSUME NEW c \in Chat, Tab!Select(c) PROVE Composed'
  BY <1>13 DEF Tab!Select
<1>14. ASSUME NEW c \in Chat, Tab!Delete(c) PROVE Composed'
  BY <1>14 DEF Tab!Delete, Tab!Holds
<1>15. ASSUME NEW c \in Chat, Tab!Undo(c) PROVE Composed'
  BY <1>15 DEF Tab!Undo
<1>16. ASSUME NEW c \in Chat, Tab!Fire(c) PROVE Composed'
  BY <1>16 DEF Tab!Fire
<1>17. ASSUME NEW c \in Chat, Tab!ServeDelete(c) PROVE Composed'
  BY <1>17, DeletedChat, PartsAssumption
     DEF RowIs, AwaitingAlone, Awaiting, Tab!ChatTabAssumption
<1>18. ASSUME NEW c \in Chat, Tab!DeleteAnswered(c) PROVE Composed'
  BY <1>18 DEF Tab!DeleteAnswered, Tab!Lists
<1>19. CASE Tab!Stop
  <2>1. /\ UNCHANGED <<page, written, local, fetch, summary>>
        /\ \A d \in lookup' : \E e \in lookup : d.text = e.text
        /\ \E x \in Chat : RowIs(x, NoText, "none")
    BY <1>19, Stopped DEF LeftAlone
  <2>2. \A x \in Chat : base'[x].text = base[x].text \/ base'[x].text = NoText
    BY <2>1 DEF RowIs
  <2>3. summary \subseteq Text /\ fetch \in Text \cup {NoText} /\ NoText \notin Text
    BY PartsAssumption DEF Tab!ChatTabAssumption
  <2> HIDE DEF ChatType
  <2>4. \A u \in Text : Unseen(u) => Unseen(u)'
    BY <2>1, <2>2, <2>3
  <2> HIDE DEF Unseen
  <2> QED BY <2>1, <2>3, <2>4
<1>20. CASE Tab!Arrive
  BY <1>20 DEF Tab!Arrive, Tab!Lists
<1>21. CASE Tab!Leave
  BY <1>21, LeftTab, PartsAssumption DEF RowIs, AwaitingAlone, Awaiting, Tab!ChatTabAssumption
<1>22. CASE Tab!Return
  BY <1>22 DEF Tab!Return
<1> QED BY <1>1, <1>2, <1>3, <1>4, <1>5, <1>6, <1>7, <1>8, <1>9, <1>10, <1>11, <1>12, <1>13,
   <1>14, <1>15, <1>16, <1>17, <1>18, <1>19, <1>20, <1>21, <1>22 DEF Tab!Next

(* A text that waits for its chat is nowhere else, and waits once.          *)
LEMMA AwaitingStep ==
    ASSUME PartsAssumption, ChatType, Composed, AwaitingAlone, Tab!Next
    PROVE  AwaitingAlone'
<1> USE DEF ChatType, ChatCall, Composed, AwaitingAlone, Awaiting, Unseen, Tab!Some, Tab!server,
   Tab!page, Tab!mutation, Tab!history
<1>1. ASSUME NEW t \in Text, Tab!Type(t) PROVE AwaitingAlone'
  BY <1>1 DEF Tab!Type
<1>2. ASSUME NEW id \in 1..MaxCalls, Tab!Send(id) PROVE AwaitingAlone'
  <2> PICK f \in Text : f = fetch
    BY <1>2, SentFrom
  <2> PICK d : /\ lookup' = lookup \cup {d} /\ d.text = f
               /\ \/ conflict = NoChat /\ d.at = "creating" /\ UNCHANGED <<base, local>>
                  \/ d.at = "posted" /\ local' = f /\ RowIs(conflict, f, "pending")
    BY <1>2, SentFrom
  <2>1. UNCHANGED page /\ written' = [written EXCEPT ![f] = conflict] /\ NoText \notin Text
    BY <1>2, SentFrom, PartsAssumption DEF Tab!ChatTabAssumption
  <2>2. Unseen(f) /\ \A c \in lookup : c.text # f
    BY <2>1
  <2>3. \A u \in Text : u # f => written'[u] = written[u]
    BY <2>1
  <2>4. \A x \in Chat : base'[x].text = base[x].text \/ base'[x].text = f
    BY DEF RowIs
  <2>5. d.at # "created" /\ (d.at = "creating" => conflict = NoChat /\ UNCHANGED <<base, local>>)
    OBVIOUS
  <2>6. d.at = "creating" => Unseen(f)'
    <3>1. written'[f] = conflict
      BY <2>1
    <3> HIDE DEF ChatType
    <3> QED BY <2>1, <2>2, <2>5, <3>1
  <2>7. \A c \in lookup : Awaiting(c) => c.text \in Text
    BY <2>1
  <2> HIDE DEF ChatType
  <2>8. \A u \in Text : u # f /\ Unseen(u) => Unseen(u)'
    BY <2>1, <2>3, <2>4
  <2> HIDE DEF Unseen
  <2>9. ASSUME NEW e \in lookup', Awaiting(e), NEW g \in lookup', g.text = e.text
        PROVE  Unseen(e.text)' /\ g = e
    <3>1. CASE e \in lookup
      BY <2>2, <2>7, <2>8, <2>9, <3>1
    <3>2. CASE e = d
      BY <2>2, <2>5, <2>6, <2>9, <3>2
    <3> QED BY <3>1, <3>2
  <2> QED BY <2>9
<1>3. ASSUME NEW id \in 1..MaxCalls, Tab!NewChat(id) PROVE AwaitingAlone'
  BY <1>3, AskedFor, PartsAssumption DEF RowIs, Tab!ChatTabAssumption
<1>4. ASSUME NEW id \in 1..MaxCalls, Tab!Retry(id) PROVE AwaitingAlone'
  BY <1>4, Retried, PartsAssumption DEF RowIs, Tab!ChatTabAssumption
<1>5. ASSUME NEW c \in lookup, NEW new \in Chat, Tab!ServeCreate(c, new) PROVE AwaitingAlone'
  BY <1>5, Made, PartsAssumption DEF RowIs, Tab!ChatTabAssumption
<1>6. ASSUME NEW c \in lookup, Tab!Created(c) PROVE AwaitingAlone'
  <2>1. /\ \A e \in lookup' : e \in lookup \/ (e.text = c.text /\ e.at \in {"posted", "orphan"})
        /\ \A e \in lookup' : e = c => c.at \in {"posted", "orphan"}
    BY <1>6, Answered, PartsAssumption DEF LeftAlone, Tab!ChatTabAssumption
  <2>2. \A u \in Text : u # c.text /\ Unseen(u) => Unseen(u)'
    <3>1. CASE c.text = NoText
      <4>1. UNCHANGED <<page, base, written, local>>
        BY <1>6, <3>1, Answered, PartsAssumption DEF Tab!ChatTabAssumption
      <4> QED BY <4>1
    <3>2. CASE c.text # NoText
      <4>1. /\ UNCHANGED page /\ local' \in {local, c.text}
            /\ written' = [written EXCEPT ![c.text] = c.chat]
            /\ RowIs(c.chat, c.text, "pending")
        BY <1>6, <3>2, Answered
      <4>2. \A u \in Text : u # c.text => written'[u] = written[u]
        BY <4>1
      <4>3. \A x \in Chat : base'[x].text = base[x].text \/ base'[x].text = c.text
        BY <4>1 DEF RowIs
      <4> HIDE DEF ChatType
      <4> QED BY <4>1, <4>2, <4>3
    <3> QED BY <3>1, <3>2
  <2>3. \A e \in lookup : Awaiting(e) => e.text \in Text
    BY PartsAssumption DEF ChatCall, Tab!ChatTabAssumption
  <2> HIDE DEF ChatType, Unseen
  <2>9. ASSUME NEW e \in lookup', Awaiting(e), NEW g \in lookup', g.text = e.text
        PROVE  Unseen(e.text)' /\ g = e
    <3>1. e \in lookup /\ e # c
      BY <2>1, <2>9
    <3>2. e.text \in Text /\ e.text # c.text /\ Unseen(e.text)
      BY <2>3, <2>9, <3>1
    <3>3. g \in lookup
      BY <2>1, <2>9, <3>2
    <3> QED BY <2>2, <2>9, <3>1, <3>2, <3>3
  <2> QED BY <2>9
<1>7. ASSUME NEW c \in lookup, Tab!CreateFails(c) PROVE AwaitingAlone'
  BY <1>7, NotMade, PartsAssumption DEF RowIs, Tab!ChatTabAssumption
<1>8. ASSUME NEW c \in lookup, Tab!Persist(c) PROVE AwaitingAlone'
  <2>1. /\ \A e \in lookup' : e \in lookup \/ (e.text = c.text /\ e.at \in {"posted", "orphan"})
        /\ \A e \in lookup' : e = c => c.at \in {"posted", "orphan"}
    BY <1>8, Persisted, PartsAssumption DEF LeftAlone, Tab!ChatTabAssumption
  <2>4. UNCHANGED <<base, written, local>> /\ \A u \in Text : u # c.text => page'[u] = page[u]
    BY <1>8, Persisted
  <2>2. \A u \in Text : u # c.text /\ Unseen(u) => Unseen(u)'
    BY <2>4
  <2>3. \A e \in lookup : Awaiting(e) => e.text \in Text
    BY PartsAssumption DEF ChatCall, Tab!ChatTabAssumption
  <2> HIDE DEF ChatType, Unseen
  <2>9. ASSUME NEW e \in lookup', Awaiting(e), NEW g \in lookup', g.text = e.text
        PROVE  Unseen(e.text)' /\ g = e
    <3>1. e \in lookup /\ e # c
      BY <2>1, <2>9
    <3>2. e.text \in Text /\ e.text # c.text /\ Unseen(e.text)
      BY <2>3, <2>9, <3>1
    <3>3. g \in lookup
      BY <2>1, <2>9, <3>2
    <3> QED BY <2>2, <2>9, <3>1, <3>2, <3>3
  <2> QED BY <2>9
<1>9. ASSUME NEW c \in lookup, Tab!Succeed(c) PROVE AwaitingAlone'
  <2>1. /\ \A e \in lookup' : e \in lookup \/ (e.text = c.text /\ e.at \in {"posted", "orphan"})
        /\ \A e \in lookup' : e = c => c.at \in {"posted", "orphan"}
    BY <1>9, Succeeded, PartsAssumption DEF LeftAlone, Tab!ChatTabAssumption
  <2>4. /\ UNCHANGED <<page, written, local>>
        /\ \A x \in Chat : base'[x].text = base[x].text \/ base'[x].text = NoText
    BY <1>9, Succeeded DEF RowIs
  <2>2. \A u \in Text : u # c.text /\ Unseen(u) => Unseen(u)'
    BY <2>4, PartsAssumption DEF Tab!ChatTabAssumption
  <2>3. \A e \in lookup : Awaiting(e) => e.text \in Text
    BY PartsAssumption DEF ChatCall, Tab!ChatTabAssumption
  <2> HIDE DEF ChatType, Unseen
  <2>9. ASSUME NEW e \in lookup', Awaiting(e), NEW g \in lookup', g.text = e.text
        PROVE  Unseen(e.text)' /\ g = e
    <3>1. e \in lookup /\ e # c
      BY <2>1, <2>9
    <3>2. e.text \in Text /\ e.text # c.text /\ Unseen(e.text)
      BY <2>3, <2>9, <3>1
    <3>3. g \in lookup
      BY <2>1, <2>9, <3>2
    <3> QED BY <2>2, <2>9, <3>1, <3>2, <3>3
  <2> QED BY <2>9
<1>10. ASSUME NEW c \in lookup, Tab!Fail(c) PROVE AwaitingAlone'
  <2>1. /\ \A e \in lookup' : e \in lookup \/ (e.text = c.text /\ e.at \in {"posted", "orphan"})
        /\ \A e \in lookup' : e = c => c.at \in {"posted", "orphan"}
    BY <1>10, Failed, PartsAssumption DEF LeftAlone, Tab!ChatTabAssumption
  <2>4. /\ UNCHANGED <<page, written, local>>
        /\ \A x \in Chat : base'[x].text = base[x].text \/ base'[x].text = NoText
    BY <1>10, Failed DEF RowIs
  <2>2. \A u \in Text : u # c.text /\ Unseen(u) => Unseen(u)'
    BY <2>4, PartsAssumption DEF Tab!ChatTabAssumption
  <2>3. \A e \in lookup : Awaiting(e) => e.text \in Text
    BY PartsAssumption DEF ChatCall, Tab!ChatTabAssumption
  <2> HIDE DEF ChatType, Unseen
  <2>9. ASSUME NEW e \in lookup', Awaiting(e), NEW g \in lookup', g.text = e.text
        PROVE  Unseen(e.text)' /\ g = e
    <3>1. e \in lookup /\ e # c
      BY <2>1, <2>9
    <3>2. e.text \in Text /\ e.text # c.text /\ Unseen(e.text)
      BY <2>3, <2>9, <3>1
    <3>3. g \in lookup
      BY <2>1, <2>9, <3>2
    <3> QED BY <2>2, <2>9, <3>1, <3>2, <3>3
  <2> QED BY <2>9
<1>11. ASSUME NEW c \in lookup, Tab!Drop(c) PROVE AwaitingAlone'
  BY <1>11, Dropped, PartsAssumption DEF RowIs, Tab!ChatTabAssumption
<1>12. ASSUME NEW c \in lookup, Tab!Carried(c) PROVE AwaitingAlone'
  BY <1>12 DEF Tab!Carried
<1>13. ASSUME NEW c \in Chat, Tab!Select(c) PROVE AwaitingAlone'
  BY <1>13 DEF Tab!Select
<1>14. ASSUME NEW c \in Chat, Tab!Delete(c) PROVE AwaitingAlone'
  BY <1>14 DEF Tab!Delete, Tab!Holds
<1>15. ASSUME NEW c \in Chat, Tab!Undo(c) PROVE AwaitingAlone'
  BY <1>15 DEF Tab!Undo
<1>16. ASSUME NEW c \in Chat, Tab!Fire(c) PROVE AwaitingAlone'
  BY <1>16 DEF Tab!Fire
<1>17. ASSUME NEW c \in Chat, Tab!ServeDelete(c) PROVE AwaitingAlone'
  BY <1>17, DeletedChat, PartsAssumption DEF RowIs, Tab!ChatTabAssumption
<1>18. ASSUME NEW c \in Chat, Tab!DeleteAnswered(c) PROVE AwaitingAlone'
  BY <1>18 DEF Tab!DeleteAnswered, Tab!Lists
<1>19. CASE Tab!Stop
  <2> PICK c \in lookup : c.at = "posted" /\ LeftAlone(c) /\ RowIs(c.chat, NoText, "none")
    BY <1>19, Stopped
  <2>1. UNCHANGED <<page, written, local>> /\ NoText \notin Text
    BY <1>19, Stopped, PartsAssumption DEF Tab!ChatTabAssumption
  <2>2. \A d \in lookup' : d \in lookup \/ (d.at = "orphan" /\ d.text = c.text)
    BY DEF LeftAlone
  <2>3. \A x \in Chat : base'[x].text = base[x].text \/ base'[x].text = NoText
    BY DEF RowIs
  <2>4. \A e \in lookup : Awaiting(e) => e.text \in Text /\ e.text # c.text
    BY <2>1
  <2> HIDE DEF ChatType
  <2>5. \A u \in Text : Unseen(u) => Unseen(u)'
    BY <2>1, <2>3
  <2> HIDE DEF Unseen
  <2> QED BY <2>2, <2>4, <2>5
<1>20. CASE Tab!Arrive
  BY <1>20 DEF Tab!Arrive, Tab!Lists
<1>21. CASE Tab!Leave
  <2>1. UNCHANGED <<page, written, base>> /\ local' = NoText /\ NoText \notin Text
        /\ \A d \in lookup' : \E c \in lookup :
              d.text = c.text /\ d.at = c.at /\ d = [c EXCEPT !.here = FALSE]
    BY <1>21, LeftTab, PartsAssumption DEF Tab!ChatTabAssumption
  <2>2. \A u \in Text : Unseen(u) => Unseen(u)'
    BY <2>1
  <2>3. \A c \in lookup : Awaiting(c) => c.text \in Text
    BY <2>1
  <2> HIDE DEF ChatType, Unseen
  <2>4. ASSUME NEW e \in lookup', Awaiting(e), NEW g \in lookup', g.text = e.text
        PROVE  Unseen(e.text)' /\ g = e
    <3> PICK c \in lookup : e.text = c.text /\ e.at = c.at /\ e = [c EXCEPT !.here = FALSE]
      BY <2>1
    <3> PICK q \in lookup : g.text = q.text /\ g = [q EXCEPT !.here = FALSE]
      BY <2>1
    <3>1. Awaiting(c) /\ q = c
      BY <2>4
    <3> QED BY <2>2, <2>3, <3>1
  <2> QED BY <2>4
<1>22. CASE Tab!Return
  BY <1>22 DEF Tab!Return
<1> QED BY <1>1, <1>2, <1>3, <1>4, <1>5, <1>6, <1>7, <1>8, <1>9, <1>10, <1>11, <1>12, <1>13,
   <1>14, <1>15, <1>16, <1>17, <1>18, <1>19, <1>20, <1>21, <1>22 DEF Tab!Next

(* A text was posted to the chat it was sent to, which exists.              *)
LEMMA SentHomeStep ==
    ASSUME PartsAssumption, ChatType, Composed, AwaitingAlone, SentHome, Tab!Next
    PROVE  SentHome'
<1> USE DEF ChatType, ChatCall, Composed, AwaitingAlone, Awaiting, Unseen, SentHome, Gone,
   Unharmed, Tab!Some, Tab!server, Tab!page, Tab!mutation, Tab!history
<1>1. ASSUME NEW t \in Text, Tab!Type(t) PROVE SentHome'
  BY <1>1 DEF Tab!Type
<1>2. ASSUME NEW id \in 1..MaxCalls, Tab!Send(id) PROVE SentHome'
  <2> PICK f \in Text : f = fetch
    BY <1>2, SentFrom
  <2> PICK d : /\ lookup' = lookup \cup {d} /\ d.text = f /\ ~d.kept
               /\ \/ d.at = "creating"
                  \/ d.at = "posted" /\ d.chat = conflict /\ (Unharmed(f)' => conflict \in Tab!ToSet(srv))
    BY <1>2, SentFrom
  <2>1. UNCHANGED <<srv, page>> /\ written' = [written EXCEPT ![f] = conflict] /\ NoText \notin Text
    BY <1>2, SentFrom, PartsAssumption DEF Tab!ChatTabAssumption
  <2>2. \A c \in lookup : c.text # f
    BY <2>1
  <2>3. written'[f] = conflict /\ \A u \in Text : u # f => written'[u] = written[u]
    BY <2>1
  <2>4. \A u \in Text : Unharmed(u)' => Unharmed(u)
    BY <1>2, SentFrom
  <2>5. \A q \in lookup : Gone(q) => q.text \in Text
    OBVIOUS
  <2> HIDE DEF ChatType
  <2>9. ASSUME NEW e \in lookup', Gone(e), Unharmed(e.text)'
        PROVE  /\ e.chat = written'[e.text] /\ e.chat \in Tab!ToSet(srv')
               /\ e.kept => e.chat \in page'[e.text]
    <3>1. CASE e \in lookup
      BY <2>1, <2>2, <2>3, <2>4, <2>5, <2>9, <3>1
    <3>2. CASE e = d
      BY <2>1, <2>3, <2>9, <3>2
    <3> QED BY <3>1, <3>2
  <2> QED BY <2>9
<1>3. ASSUME NEW id \in 1..MaxCalls, Tab!NewChat(id) PROVE SentHome'
  BY <1>3, AskedFor, PartsAssumption DEF RowIs, Tab!ChatTabAssumption
<1>4. ASSUME NEW id \in 1..MaxCalls, Tab!Retry(id) PROVE SentHome'
  <2> HIDE DEF ChatType
  <2>0. /\ UNCHANGED <<srv, page, written>>
        /\ \E d : /\ lookup' = lookup \cup {d} /\ d.text \in {NoText, local}
                  /\ d.chat = conflict /\ d.at = "posted" /\ ~d.kept
                  /\ RowIs(conflict, d.text, "pending")
                  /\ \A t \in Text : Unharmed(t)' =>
                       /\ Unharmed(t) /\ (t # d.text => ~GivesWay(conflict, t))
                       /\ t = d.text => conflict \in Tab!ToSet(srv) /\ written[t] = conflict
    BY <1>4, Retried
  <2> PICK d : /\ lookup' = lookup \cup {d} /\ d.text \in {NoText, local} /\ ~d.kept
               /\ d.chat = conflict
               /\ \A t \in Text : Unharmed(t)' =>
                     /\ Unharmed(t) /\ (t # d.text => ~GivesWay(conflict, t))
                     /\ t = d.text => conflict \in Tab!ToSet(srv) /\ written[t] = conflict
    BY <2>0
  <2>1. UNCHANGED <<srv, page, written>>
    BY <2>0
  <2>2. local \in Text \cup {NoText} /\ \A q \in lookup : Gone(q) => q.text \in Text
    BY DEF ChatType
  <2>9. ASSUME NEW e \in lookup', Gone(e), Unharmed(e.text)'
        PROVE  /\ e.chat = written'[e.text] /\ e.chat \in Tab!ToSet(srv')
               /\ e.kept => e.chat \in page'[e.text]
    <3>1. CASE e \in lookup
      BY <2>1, <2>2, <2>9, <3>1
    <3>2. CASE e = d
      BY <2>1, <2>2, <2>9, <3>2
    <3> QED BY <3>1, <3>2
  <2> QED BY <2>9
<1>5. ASSUME NEW c \in lookup, NEW new \in Chat, Tab!ServeCreate(c, new) PROVE SentHome'
  <2> PICK d : lookup' = (lookup \ {c}) \cup {d} /\ d.at = "created"
    BY <1>5, Made
  <2>1. UNCHANGED <<page, written, clobbered>> /\ Tab!ToSet(srv') = {new} \cup Tab!ToSet(srv)
    BY <1>5, Made
  <2>2. \A q \in lookup : Gone(q) => q.text \in Text
    OBVIOUS
  <2> HIDE DEF ChatType
  <2> QED BY <2>1, <2>2
<1>6. ASSUME NEW c \in lookup, Tab!Created(c) PROVE SentHome'
  <2>1. UNCHANGED <<srv, page>> /\ c.at = "created"
    BY <1>6, Answered
  <2>2. \A q \in lookup : Gone(q) => q.text \in Text
    OBVIOUS
  <2>3. \A u \in Text : Unharmed(u)' => Unharmed(u)
    BY <1>6, HarmStays DEF Tab!Next
  <2>4. CASE c.text = NoText
    <3>1. lookup' = lookup \ {c} /\ UNCHANGED written
      BY <1>6, <2>4, Answered, PartsAssumption DEF Tab!ChatTabAssumption
    <3> HIDE DEF ChatType
    <3> QED BY <2>1, <2>2, <2>3, <3>1
  <2>5. CASE c.text # NoText
    <3> PICK d : /\ lookup' = (lookup \ {c}) \cup {d} /\ d.text = c.text
                 /\ d.at = "posted" /\ d.chat = c.chat /\ d.kept = c.kept
      BY <1>6, <2>5, Answered
    <3>1. /\ written' = [written EXCEPT ![c.text] = c.chat] /\ c.text \in Text
          /\ Unharmed(c.text)' => c.chat \in Tab!ToSet(srv)
      BY <1>6, <2>5, Answered
    <3>2. written'[c.text] = c.chat /\ \A u \in Text : u # c.text => written'[u] = written[u]
      BY <3>1
    <3>3. \A q \in lookup \ {c} : q.text # c.text
      BY <2>1, <3>1, PartsAssumption DEF Tab!ChatTabAssumption
    <3>4. ~c.kept
      BY <2>1
    <3> HIDE DEF ChatType
    <3>9. ASSUME NEW e \in lookup', Gone(e), Unharmed(e.text)'
          PROVE  /\ e.chat = written'[e.text] /\ e.chat \in Tab!ToSet(srv')
                 /\ e.kept => e.chat \in page'[e.text]
      <4>1. CASE e \in lookup \ {c}
        BY <2>1, <2>2, <2>3, <3>2, <3>3, <3>9, <4>1
      <4>2. CASE e = d
        BY <2>1, <3>1, <3>2, <3>4, <3>9, <4>2
      <4> QED BY <3>9, <4>1, <4>2
    <3> QED BY <3>9
  <2> QED BY <2>4, <2>5
<1>7. ASSUME NEW c \in lookup, Tab!CreateFails(c) PROVE SentHome'
  <2>1. /\ UNCHANGED <<srv, page, written>>
        /\ \A d \in lookup' : d \in lookup \/
             \E q \in lookup : /\ Gone(d) => Gone(q)
                                /\ d.text = q.text /\ d.chat = q.chat /\ d.kept = q.kept
    BY <1>7, NotMade DEF LeftAlone
  <2>2. \A q \in lookup : Gone(q) => q.text \in Text
    OBVIOUS
  <2>3. \A u \in Text : Unharmed(u)' => Unharmed(u)
    BY <1>7, NotMade
  <2> HIDE DEF ChatType
  <2>9. ASSUME NEW e \in lookup', Gone(e), Unharmed(e.text)'
        PROVE  /\ e.chat = written'[e.text] /\ e.chat \in Tab!ToSet(srv')
               /\ e.kept => e.chat \in page'[e.text]
    <3> PICK q \in lookup : Gone(q) /\ e.text = q.text /\ e.chat = q.chat /\ e.kept = q.kept
      BY <2>1, <2>9
    <3> QED BY <2>1, <2>2, <2>3, <2>9
  <2> QED BY <2>9
<1>8. ASSUME NEW c \in lookup, Tab!Persist(c) PROVE SentHome'
  <2> PICK d : /\ lookup' = (lookup \ {c}) \cup {d} /\ d.text = c.text
               /\ d.at = c.at /\ d.chat = c.chat
    BY <1>8, Persisted
  <2>1. /\ UNCHANGED <<written, clobbered>> /\ Tab!ToSet(srv') = Tab!ToSet(srv)
        /\ c.at \in {"posted", "orphan"} /\ c.text \in Text
        /\ page' = [page EXCEPT ![c.text] = page[c.text] \cup {c.chat}]
    BY <1>8, Persisted
  <2>2. \A q \in lookup : Gone(q) => q.text \in Text
    OBVIOUS
  <2>3. c.chat \in page'[c.text] /\ \A u \in Text : page[u] \subseteq page'[u]
    BY <2>1
  <2>4. Gone(c)
    BY <2>1, PartsAssumption DEF Tab!ChatTabAssumption
  <2> HIDE DEF ChatType
  <2>9. ASSUME NEW e \in lookup', Gone(e), Unharmed(e.text)'
        PROVE  /\ e.chat = written'[e.text] /\ e.chat \in Tab!ToSet(srv')
               /\ e.kept => e.chat \in page'[e.text]
    <3>1. CASE e \in lookup
      BY <2>1, <2>2, <2>3, <2>9, <3>1
    <3>2. CASE e = d
      BY <2>1, <2>3, <2>4, <2>9, <3>2
    <3> QED BY <2>9, <3>1, <3>2
  <2> QED BY <2>9
<1>9. ASSUME NEW c \in lookup, Tab!Succeed(c) PROVE SentHome'
  <2>1. /\ UNCHANGED <<srv, page, written>>
        /\ \A d \in lookup' : d \in lookup \/
             \E q \in lookup : /\ Gone(d) => Gone(q)
                                /\ d.text = q.text /\ d.chat = q.chat /\ d.kept = q.kept
    BY <1>9, Succeeded DEF LeftAlone
  <2>2. \A q \in lookup : Gone(q) => q.text \in Text
    OBVIOUS
  <2>3. \A u \in Text : Unharmed(u)' => Unharmed(u)
    BY <1>9, Succeeded
  <2> HIDE DEF ChatType
  <2>9. ASSUME NEW e \in lookup', Gone(e), Unharmed(e.text)'
        PROVE  /\ e.chat = written'[e.text] /\ e.chat \in Tab!ToSet(srv')
               /\ e.kept => e.chat \in page'[e.text]
    <3> PICK q \in lookup : Gone(q) /\ e.text = q.text /\ e.chat = q.chat /\ e.kept = q.kept
      BY <2>1, <2>9
    <3> QED BY <2>1, <2>2, <2>3, <2>9
  <2> QED BY <2>9
<1>10. ASSUME NEW c \in lookup, Tab!Fail(c) PROVE SentHome'
  BY <1>10, Failed, PartsAssumption DEF RowIs, LeftAlone, Tab!ChatTabAssumption
<1>11. ASSUME NEW c \in lookup, Tab!Drop(c) PROVE SentHome'
  <2>1. /\ UNCHANGED <<srv, page, written>>
        /\ \A d \in lookup' : d \in lookup \/
             \E q \in lookup : /\ Gone(d) => Gone(q)
                                /\ d.text = q.text /\ d.chat = q.chat /\ d.kept = q.kept
    BY <1>11, Dropped DEF LeftAlone
  <2>2. \A q \in lookup : Gone(q) => q.text \in Text
    OBVIOUS
  <2>3. \A u \in Text : Unharmed(u)' => Unharmed(u)
    BY <1>11, Dropped
  <2> HIDE DEF ChatType
  <2>9. ASSUME NEW e \in lookup', Gone(e), Unharmed(e.text)'
        PROVE  /\ e.chat = written'[e.text] /\ e.chat \in Tab!ToSet(srv')
               /\ e.kept => e.chat \in page'[e.text]
    <3> PICK q \in lookup : Gone(q) /\ e.text = q.text /\ e.chat = q.chat /\ e.kept = q.kept
      BY <2>1, <2>9
    <3> QED BY <2>1, <2>2, <2>3, <2>9
  <2> QED BY <2>9
<1>12. ASSUME NEW c \in lookup, Tab!Carried(c) PROVE SentHome'
  BY <1>12 DEF Tab!Carried
<1>13. ASSUME NEW c \in Chat, Tab!Select(c) PROVE SentHome'
  BY <1>13 DEF Tab!Select
<1>14. ASSUME NEW c \in Chat, Tab!Delete(c) PROVE SentHome'
  BY <1>14 DEF Tab!Delete, Tab!Holds
<1>15. ASSUME NEW c \in Chat, Tab!Undo(c) PROVE SentHome'
  BY <1>15 DEF Tab!Undo
<1>16. ASSUME NEW c \in Chat, Tab!Fire(c) PROVE SentHome'
  BY <1>16 DEF Tab!Fire
<1>17. ASSUME NEW c \in Chat, Tab!ServeDelete(c) PROVE SentHome'
  BY <1>17, DeletedChat, PartsAssumption DEF RowIs, Tab!ChatTabAssumption
<1>18. ASSUME NEW c \in Chat, Tab!DeleteAnswered(c) PROVE SentHome'
  BY <1>18 DEF Tab!DeleteAnswered, Tab!Lists
<1>19. CASE Tab!Stop
  <2> PICK c \in lookup :
        /\ c.at = "posted" /\ LeftAlone(c)
        /\ \A t \in Text : Unharmed(t)' => Unharmed(t) /\ (t # c.text => ~GivesWay(c.chat, t))
    BY <1>19, Stopped
  <2>0. UNCHANGED <<srv, page, written>>
    BY <1>19, Stopped
  <2>1. /\ UNCHANGED <<srv, page, written>>
        /\ \A d \in lookup' : d \in lookup \/
             \E q \in lookup : /\ Gone(d) => Gone(q)
                                /\ d.text = q.text /\ d.chat = q.chat /\ d.kept = q.kept
    BY <2>0 DEF LeftAlone
  <2>2. \A q \in lookup : Gone(q) => q.text \in Text
    OBVIOUS
  <2>3. \A u \in Text : Unharmed(u)' => Unharmed(u)
    OBVIOUS
  <2> HIDE DEF ChatType
  <2>9. ASSUME NEW e \in lookup', Gone(e), Unharmed(e.text)'
        PROVE  /\ e.chat = written'[e.text] /\ e.chat \in Tab!ToSet(srv')
               /\ e.kept => e.chat \in page'[e.text]
    <3> PICK q \in lookup : Gone(q) /\ e.text = q.text /\ e.chat = q.chat /\ e.kept = q.kept
      BY <2>1, <2>9
    <3> QED BY <2>1, <2>2, <2>3, <2>9
  <2> QED BY <2>9
<1>20. CASE Tab!Arrive
  BY <1>20 DEF Tab!Arrive, Tab!Lists
<1>21. CASE Tab!Leave
  BY <1>21, LeftTab, PartsAssumption DEF RowIs, Tab!ChatTabAssumption
<1>22. CASE Tab!Return
  BY <1>22 DEF Tab!Return
<1> QED BY <1>1, <1>2, <1>3, <1>4, <1>5, <1>6, <1>7, <1>8, <1>9, <1>10, <1>11, <1>12, <1>13,
   <1>14, <1>15, <1>16, <1>17, <1>18, <1>19, <1>20, <1>21, <1>22 DEF Tab!Next

(* A text is stored in the chat it was sent to, which exists.               *)
LEMMA StoredHomeStep ==
    ASSUME PartsAssumption, ChatType, Composed, AwaitingAlone, SentHome, StoredHome, Tab!Next
    PROVE  StoredHome'
<1> USE DEF ChatType, ChatCall, Composed, AwaitingAlone, Awaiting, Unseen, SentHome, StoredHome,
   Gone, Unharmed, Tab!server, Tab!page, Tab!mutation, Tab!history
<1>1. ASSUME NEW t \in Text, Tab!Type(t) PROVE StoredHome'
  BY <1>1 DEF Tab!Type
<1>2. ASSUME NEW id \in 1..MaxCalls, Tab!Send(id) PROVE StoredHome'
  <2> PICK f \in Text : f = fetch
    BY <1>2, SentFrom
  <2>1. UNCHANGED <<srv, page>> /\ written' = [written EXCEPT ![f] = conflict] /\ NoText \notin Text
    BY <1>2, SentFrom, PartsAssumption DEF Tab!ChatTabAssumption
  <2>2. page[f] = {} /\ \A u \in Text : u # f => written'[u] = written[u]
    BY <2>1
  <2>3. \A u \in Text : Unharmed(u)' => Unharmed(u)
    BY <1>2, SentFrom
  <2> HIDE DEF ChatType
  <2> QED BY <2>1, <2>2, <2>3
<1>3. ASSUME NEW id \in 1..MaxCalls, Tab!NewChat(id) PROVE StoredHome'
  BY <1>3, AskedFor DEF RowIs
<1>4. ASSUME NEW id \in 1..MaxCalls, Tab!Retry(id) PROVE StoredHome'
  BY <1>4, Retried DEF RowIs
<1>5. ASSUME NEW c \in lookup, NEW new \in Chat, Tab!ServeCreate(c, new) PROVE StoredHome'
  <2>1. UNCHANGED <<page, written, clobbered>> /\ Tab!ToSet(srv') = {new} \cup Tab!ToSet(srv)
    BY <1>5, Made
  <2> HIDE DEF ChatType
  <2> QED BY <2>1
<1>6. ASSUME NEW c \in lookup, Tab!Created(c) PROVE StoredHome'
  <2>1. UNCHANGED <<srv, page>> /\ c.at = "created"
    BY <1>6, Answered
  <2>2. \A u \in Text : Unharmed(u)' => Unharmed(u)
    BY <1>6, HarmStays DEF Tab!Next
  <2>3. \A u \in Text : page[u] = {} \/ written'[u] = written[u]
    <3>1. CASE c.text = NoText
      BY <1>6, <3>1, Answered, PartsAssumption DEF Tab!ChatTabAssumption
    <3>2. CASE c.text # NoText
      <4>1. written' = [written EXCEPT ![c.text] = c.chat]
        BY <1>6, <3>2, Answered
      <4>2. page[c.text] = {}
        BY <2>1, <3>2
      <4> QED BY <4>1, <4>2
    <3> QED BY <3>1, <3>2
  <2> HIDE DEF ChatType
  <2> QED BY <2>1, <2>2, <2>3
<1>7. ASSUME NEW c \in lookup, Tab!CreateFails(c) PROVE StoredHome'
  BY <1>7, NotMade DEF RowIs
<1>8. ASSUME NEW c \in lookup, Tab!Persist(c) PROVE StoredHome'
  <2>1. /\ UNCHANGED <<written, clobbered>> /\ Tab!ToSet(srv') = Tab!ToSet(srv)
        /\ c.chat \in Tab!ToSet(srv) /\ c.text \in Text
        /\ c.at \in {"posted", "orphan"}
        /\ page' = [page EXCEPT ![c.text] = page[c.text] \cup {c.chat}]
    BY <1>8, Persisted
  <2>2. page'[c.text] = page[c.text] \cup {c.chat} /\ \A u \in Text : u # c.text => page'[u] = page[u]
    BY <2>1
  <2>3. Unharmed(c.text) => c.chat = written[c.text]
    BY <2>1, PartsAssumption DEF Tab!ChatTabAssumption
  <2> HIDE DEF ChatType
  <2> QED BY <2>1, <2>2, <2>3
<1>9. ASSUME NEW c \in lookup, Tab!Succeed(c) PROVE StoredHome'
  BY <1>9, Succeeded DEF RowIs
<1>10. ASSUME NEW c \in lookup, Tab!Fail(c) PROVE StoredHome'
  BY <1>10, Failed DEF RowIs, LeftAlone
<1>11. ASSUME NEW c \in lookup, Tab!Drop(c) PROVE StoredHome'
  BY <1>11, Dropped DEF RowIs
<1>12. ASSUME NEW c \in lookup, Tab!Carried(c) PROVE StoredHome'
  BY <1>12 DEF Tab!Carried
<1>13. ASSUME NEW c \in Chat, Tab!Select(c) PROVE StoredHome'
  BY <1>13 DEF Tab!Select
<1>14. ASSUME NEW c \in Chat, Tab!Delete(c) PROVE StoredHome'
  BY <1>14 DEF Tab!Delete, Tab!Holds
<1>15. ASSUME NEW c \in Chat, Tab!Undo(c) PROVE StoredHome'
  BY <1>15 DEF Tab!Undo
<1>16. ASSUME NEW c \in Chat, Tab!Fire(c) PROVE StoredHome'
  BY <1>16 DEF Tab!Fire
<1>17. ASSUME NEW c \in Chat, Tab!ServeDelete(c) PROVE StoredHome'
  BY <1>17, DeletedChat DEF RowIs
<1>18. ASSUME NEW c \in Chat, Tab!DeleteAnswered(c) PROVE StoredHome'
  BY <1>18 DEF Tab!DeleteAnswered, Tab!Lists
<1>19. CASE Tab!Stop
  BY <1>19, Stopped DEF RowIs, LeftAlone
<1>20. CASE Tab!Arrive
  BY <1>20 DEF Tab!Arrive, Tab!Lists
<1>21. CASE Tab!Leave
  BY <1>21, LeftTab DEF RowIs
<1>22. CASE Tab!Return
  BY <1>22 DEF Tab!Return
<1> QED BY <1>1, <1>2, <1>3, <1>4, <1>5, <1>6, <1>7, <1>8, <1>9, <1>10, <1>11, <1>12, <1>13,
   <1>14, <1>15, <1>16, <1>17, <1>18, <1>19, <1>20, <1>21, <1>22 DEF Tab!Next

(* A row with a text is of a chat that exists; its turn goes on if          *)
(* pending.                                                                 *)
LEMMA RowsLiveStep ==
    ASSUME PartsAssumption, ChatType, RowsLive, Tab!Next
    PROVE  RowsLive'
<1> USE DEF ChatType, ChatCall, RowsLive, Unharmed, Tab!server, Tab!page, Tab!mutation,
   Tab!history
<1>1. ASSUME NEW t \in Text, Tab!Type(t) PROVE RowsLive'
  BY <1>1 DEF Tab!Type
<1>2. ASSUME NEW id \in 1..MaxCalls, Tab!Send(id) PROVE RowsLive'
  <2> PICK f \in Text : f = fetch
    BY <1>2, SentFrom
  <2>7. \A x \in Chat : base[x].text \in Text \cup {NoText}
    BY DEF Tab!Some
  <2>8. \A u \in Text : Unharmed(u)' => Unharmed(u)
    BY <1>2, HarmStays DEF Tab!Next
  <2>0. UNCHANGED srv
    BY <1>2, SentFrom
  <2> PICK d : /\ lookup' = lookup \cup {d} /\ d.text = f
               /\ \/ UNCHANGED base
                  \/ /\ conflict \in Chat /\ d.chat = conflict /\ d.at = "posted"
                     /\ RowIs(conflict, f, "pending") /\ (Unharmed(f)' => conflict \in Tab!ToSet(srv))
    BY <1>2, SentFrom
  <2> HIDE DEF ChatType
  <2>9. ASSUME NEW x \in Chat
        PROVE  /\ base'[x].st = "none" => base'[x].text = NoText
               /\ base'[x].text # NoText /\ clobbered'[base'[x].text] = {} =>
                    /\ x \in Tab!ToSet(srv')
                    /\ base'[x].st = "pending" =>
                         \E e \in lookup' : e.at = "posted" /\ e.chat = x /\ e.text = base'[x].text
    <3>1. CASE base'[x] = base[x]
      BY <2>0, <2>7, <2>8, <3>1
    <3>2. CASE base'[x] # base[x]
      <4>1. x = conflict /\ d.chat = x /\ d.at = "posted" /\ base'[x].text = f /\ base'[x].st = "pending"
        BY <3>2 DEF RowIs
      <4> QED BY <2>0, <3>2, <4>1
    <3> QED BY <3>1, <3>2
  <2> QED BY <2>9
<1>3. ASSUME NEW id \in 1..MaxCalls, Tab!NewChat(id) PROVE RowsLive'
  <2>7. \A x \in Chat : base[x].text \in Text \cup {NoText}
    BY DEF Tab!Some
  <2>8. \A u \in Text : Unharmed(u)' => Unharmed(u)
    BY <1>3, HarmStays DEF Tab!Next
  <2>1. UNCHANGED base /\ Tab!ToSet(srv) \subseteq Tab!ToSet(srv')
    BY <1>3, AskedFor
  <2>2. \A q \in lookup : q.at = "posted" =>
          \E e \in lookup' : e.at = "posted" /\ e.chat = q.chat /\ e.text = q.text
    BY <1>3, AskedFor
  <2> HIDE DEF ChatType
  <2>9. ASSUME NEW x \in Chat
        PROVE  /\ base'[x].st = "none" => base'[x].text = NoText
               /\ base'[x].text # NoText /\ clobbered'[base'[x].text] = {} =>
                    /\ x \in Tab!ToSet(srv')
                    /\ base'[x].st = "pending" =>
                         \E e \in lookup' : e.at = "posted" /\ e.chat = x /\ e.text = base'[x].text
    BY <2>1, <2>2, <2>7, <2>8
  <2> QED BY <2>9
<1>4. ASSUME NEW id \in 1..MaxCalls, Tab!Retry(id) PROVE RowsLive'
  <2>7. \A x \in Chat : base[x].text \in Text \cup {NoText}
    BY DEF Tab!Some
  <2>8. \A u \in Text : Unharmed(u)' => Unharmed(u)
    BY <1>4, HarmStays DEF Tab!Next
  <2> PICK d : /\ lookup' = lookup \cup {d} /\ d.text \in {NoText, local} /\ ~d.kept
               /\ d.chat = conflict /\ d.at = "posted" /\ RowIs(conflict, d.text, "pending")
               /\ \A t \in Text : Unharmed(t)' =>
                     /\ Unharmed(t) /\ (t # d.text => ~GivesWay(conflict, t))
                     /\ t = d.text => conflict \in Tab!ToSet(srv) /\ written[t] = conflict
    BY <1>4, Retried
  <2>0. UNCHANGED srv /\ local \in Text \cup {NoText}
    BY <1>4, Retried DEF Tab!Some
  <2>1. conflict \in Chat
    BY <1>4, Retried
  <2>2. \A q \in lookup : q \in lookup'
    OBVIOUS
  <2>3. RowIs(conflict, d.text, "pending")
    OBVIOUS
  <2> HIDE DEF ChatType
  <2>9. ASSUME NEW x \in Chat
        PROVE  /\ base'[x].st = "none" => base'[x].text = NoText
               /\ base'[x].text # NoText /\ clobbered'[base'[x].text] = {} =>
                    /\ x \in Tab!ToSet(srv')
                    /\ base'[x].st = "pending" =>
                         \E e \in lookup' : e.at = "posted" /\ e.chat = x /\ e.text = base'[x].text
    <3>1. CASE x = conflict
      BY <2>0, <2>1, <2>3, <2>7, <2>8, <3>1 DEF RowIs
    <3>2. CASE x # conflict
      <4>1. base'[x] = base[x]
        BY <2>3, <3>2 DEF RowIs
      <4> QED BY <2>0, <2>1, <2>2, <2>7, <2>8, <3>2, <4>1
    <3> QED BY <3>1, <3>2
  <2> QED BY <2>9
<1>5. ASSUME NEW c \in lookup, NEW new \in Chat, Tab!ServeCreate(c, new) PROVE RowsLive'
  <2>7. \A x \in Chat : base[x].text \in Text \cup {NoText}
    BY DEF Tab!Some
  <2>8. \A u \in Text : Unharmed(u)' => Unharmed(u)
    BY <1>5, HarmStays DEF Tab!Next
  <2>1. UNCHANGED base /\ Tab!ToSet(srv) \subseteq Tab!ToSet(srv')
    BY <1>5, Made
  <2>2. \A q \in lookup : q.at = "posted" =>
          \E e \in lookup' : e.at = "posted" /\ e.chat = q.chat /\ e.text = q.text
    BY <1>5, Made
  <2> HIDE DEF ChatType
  <2>9. ASSUME NEW x \in Chat
        PROVE  /\ base'[x].st = "none" => base'[x].text = NoText
               /\ base'[x].text # NoText /\ clobbered'[base'[x].text] = {} =>
                    /\ x \in Tab!ToSet(srv')
                    /\ base'[x].st = "pending" =>
                         \E e \in lookup' : e.at = "posted" /\ e.chat = x /\ e.text = base'[x].text
    BY <2>1, <2>2, <2>7, <2>8
  <2> QED BY <2>9
<1>6. ASSUME NEW c \in lookup, Tab!Created(c) PROVE RowsLive'
  <2>7. \A x \in Chat : base[x].text \in Text \cup {NoText}
    BY DEF Tab!Some
  <2>8. \A u \in Text : Unharmed(u)' => Unharmed(u)
    BY <1>6, HarmStays DEF Tab!Next
  <2>0. UNCHANGED srv /\ c.at = "created"
    BY <1>6, Answered
  <2>1. CASE c.text = NoText
    <3>1. UNCHANGED base /\ lookup' = lookup \ {c}
      BY <1>6, <2>1, Answered, PartsAssumption DEF Tab!ChatTabAssumption
    <3> HIDE DEF ChatType
    <3> QED BY <2>0, <2>7, <2>8, <3>1
  <2>2. CASE c.text # NoText
    <3> PICK d : /\ lookup' = (lookup \ {c}) \cup {d} /\ d.text = c.text
                 /\ d.at = "posted" /\ d.chat = c.chat
      BY <1>6, <2>2, Answered
    <3>1. RowIs(c.chat, c.text, "pending") /\ (Unharmed(c.text)' => c.chat \in Tab!ToSet(srv))
      BY <1>6, <2>2, Answered
    <3> HIDE DEF ChatType
    <3>9. ASSUME NEW x \in Chat
          PROVE  /\ base'[x].st = "none" => base'[x].text = NoText
                 /\ base'[x].text # NoText /\ clobbered'[base'[x].text] = {} =>
                      /\ x \in Tab!ToSet(srv')
                      /\ base'[x].st = "pending" =>
                           \E e \in lookup' : e.at = "posted" /\ e.chat = x /\ e.text = base'[x].text
      <4>1. CASE x = c.chat
        BY <2>0, <3>1, <4>1 DEF RowIs
      <4>2. CASE x # c.chat
        <5>1. base'[x] = base[x]
          BY <3>1, <4>2 DEF RowIs
        <5>2. \A q \in lookup : q.at = "posted" => q \in lookup'
          BY <2>0
        <5> QED BY <2>0, <2>7, <2>8, <5>1, <5>2
      <4> QED BY <4>1, <4>2
    <3> QED BY <3>9
  <2> QED BY <2>1, <2>2
<1>7. ASSUME NEW c \in lookup, Tab!CreateFails(c) PROVE RowsLive'
  <2>7. \A x \in Chat : base[x].text \in Text \cup {NoText}
    BY DEF Tab!Some
  <2>8. \A u \in Text : Unharmed(u)' => Unharmed(u)
    BY <1>7, HarmStays DEF Tab!Next
  <2>1. UNCHANGED base /\ Tab!ToSet(srv) \subseteq Tab!ToSet(srv')
    BY <1>7, NotMade
  <2>2. \A q \in lookup : q.at = "posted" =>
          \E e \in lookup' : e.at = "posted" /\ e.chat = q.chat /\ e.text = q.text
    BY <1>7, NotMade
  <2> HIDE DEF ChatType
  <2>9. ASSUME NEW x \in Chat
        PROVE  /\ base'[x].st = "none" => base'[x].text = NoText
               /\ base'[x].text # NoText /\ clobbered'[base'[x].text] = {} =>
                    /\ x \in Tab!ToSet(srv')
                    /\ base'[x].st = "pending" =>
                         \E e \in lookup' : e.at = "posted" /\ e.chat = x /\ e.text = base'[x].text
    BY <2>1, <2>2, <2>7, <2>8
  <2> QED BY <2>9
<1>8. ASSUME NEW c \in lookup, Tab!Persist(c) PROVE RowsLive'
  <2>7. \A x \in Chat : base[x].text \in Text \cup {NoText}
    BY DEF Tab!Some
  <2>8. \A u \in Text : Unharmed(u)' => Unharmed(u)
    BY <1>8, HarmStays DEF Tab!Next
  <2>1. UNCHANGED base /\ Tab!ToSet(srv) \subseteq Tab!ToSet(srv')
    BY <1>8, Persisted
  <2>2. \A q \in lookup : q.at = "posted" =>
          \E e \in lookup' : e.at = "posted" /\ e.chat = q.chat /\ e.text = q.text
    BY <1>8, Persisted
  <2> HIDE DEF ChatType
  <2>9. ASSUME NEW x \in Chat
        PROVE  /\ base'[x].st = "none" => base'[x].text = NoText
               /\ base'[x].text # NoText /\ clobbered'[base'[x].text] = {} =>
                    /\ x \in Tab!ToSet(srv')
                    /\ base'[x].st = "pending" =>
                         \E e \in lookup' : e.at = "posted" /\ e.chat = x /\ e.text = base'[x].text
    BY <2>1, <2>2, <2>7, <2>8
  <2> QED BY <2>9
<1>9. ASSUME NEW c \in lookup, Tab!Succeed(c) PROVE RowsLive'
  <2>7. \A x \in Chat : base[x].text \in Text \cup {NoText}
    BY DEF Tab!Some
  <2>8. \A u \in Text : Unharmed(u)' => Unharmed(u)
    BY <1>9, HarmStays DEF Tab!Next
  <2>0. UNCHANGED srv
    BY <1>9, Succeeded
  <2>1. c.chat \in Chat
    BY <1>9, Succeeded
  <2>2. \A q \in lookup : q.at = "posted" /\ q.chat # c.chat => q \in lookup'
    BY <1>9, Succeeded
  <2>3. RowIs(c.chat, NoText, "none")
    BY <1>9, Succeeded
  <2> HIDE DEF ChatType
  <2>9. ASSUME NEW x \in Chat
        PROVE  /\ base'[x].st = "none" => base'[x].text = NoText
               /\ base'[x].text # NoText /\ clobbered'[base'[x].text] = {} =>
                    /\ x \in Tab!ToSet(srv')
                    /\ base'[x].st = "pending" =>
                         \E e \in lookup' : e.at = "posted" /\ e.chat = x /\ e.text = base'[x].text
    <3>1. CASE x = c.chat
      BY <2>0, <2>1, <2>3, <2>7, <2>8, <3>1 DEF RowIs
    <3>2. CASE x # c.chat
      <4>1. base'[x] = base[x]
        BY <2>3, <3>2 DEF RowIs
      <4> QED BY <2>0, <2>1, <2>2, <2>7, <2>8, <3>2, <4>1
    <3> QED BY <3>1, <3>2
  <2> QED BY <2>9
<1>10. ASSUME NEW c \in lookup, Tab!Fail(c) PROVE RowsLive'
  <2>7. \A x \in Chat : base[x].text \in Text \cup {NoText}
    BY DEF Tab!Some
  <2>8. \A u \in Text : Unharmed(u)' => Unharmed(u)
    BY <1>10, HarmStays DEF Tab!Next
  <2>0. UNCHANGED srv
    BY <1>10, Failed
  <2>1. c.chat \in Chat
    BY <1>10, Failed
  <2>2. \A q \in lookup : q.at = "posted" /\ q.chat # c.chat => q \in lookup'
    BY <1>10, Failed DEF LeftAlone
  <2>3. RowIs(c.chat, base[c.chat].text, IF base[c.chat].st = "none" THEN "none" ELSE "error")
    BY <1>10, Failed
  <2> HIDE DEF ChatType
  <2>9. ASSUME NEW x \in Chat
        PROVE  /\ base'[x].st = "none" => base'[x].text = NoText
               /\ base'[x].text # NoText /\ clobbered'[base'[x].text] = {} =>
                    /\ x \in Tab!ToSet(srv')
                    /\ base'[x].st = "pending" =>
                         \E e \in lookup' : e.at = "posted" /\ e.chat = x /\ e.text = base'[x].text
    <3>1. CASE x = c.chat
      BY <2>0, <2>1, <2>3, <2>7, <2>8, <3>1 DEF RowIs
    <3>2. CASE x # c.chat
      <4>1. base'[x] = base[x]
        BY <2>3, <3>2 DEF RowIs
      <4> QED BY <2>0, <2>1, <2>2, <2>7, <2>8, <3>2, <4>1
    <3> QED BY <3>1, <3>2
  <2> QED BY <2>9
<1>11. ASSUME NEW c \in lookup, Tab!Drop(c) PROVE RowsLive'
  <2>7. \A x \in Chat : base[x].text \in Text \cup {NoText}
    BY DEF Tab!Some
  <2>8. \A u \in Text : Unharmed(u)' => Unharmed(u)
    BY <1>11, HarmStays DEF Tab!Next
  <2>1. UNCHANGED base /\ Tab!ToSet(srv) \subseteq Tab!ToSet(srv')
    BY <1>11, Dropped
  <2>2. \A q \in lookup : q.at = "posted" =>
          \E e \in lookup' : e.at = "posted" /\ e.chat = q.chat /\ e.text = q.text
    BY <1>11, Dropped
  <2> HIDE DEF ChatType
  <2>9. ASSUME NEW x \in Chat
        PROVE  /\ base'[x].st = "none" => base'[x].text = NoText
               /\ base'[x].text # NoText /\ clobbered'[base'[x].text] = {} =>
                    /\ x \in Tab!ToSet(srv')
                    /\ base'[x].st = "pending" =>
                         \E e \in lookup' : e.at = "posted" /\ e.chat = x /\ e.text = base'[x].text
    BY <2>1, <2>2, <2>7, <2>8
  <2> QED BY <2>9
<1>12. ASSUME NEW c \in lookup, Tab!Carried(c) PROVE RowsLive'
  BY <1>12 DEF Tab!Carried
<1>13. ASSUME NEW c \in Chat, Tab!Select(c) PROVE RowsLive'
  BY <1>13 DEF Tab!Select
<1>14. ASSUME NEW c \in Chat, Tab!Delete(c) PROVE RowsLive'
  BY <1>14 DEF Tab!Delete, Tab!Holds
<1>15. ASSUME NEW c \in Chat, Tab!Undo(c) PROVE RowsLive'
  BY <1>15 DEF Tab!Undo
<1>16. ASSUME NEW c \in Chat, Tab!Fire(c) PROVE RowsLive'
  BY <1>16 DEF Tab!Fire
<1>17. ASSUME NEW c \in Chat, Tab!ServeDelete(c) PROVE RowsLive'
  <2>7. \A x \in Chat : base[x].text \in Text \cup {NoText}
    BY DEF Tab!Some
  <2>8. \A u \in Text : Unharmed(u)' => Unharmed(u)
    BY <1>17, HarmStays DEF Tab!Next
  <2>1. /\ UNCHANGED <<base, lookup>> /\ Tab!ToSet(srv) \ {c} \subseteq Tab!ToSet(srv')
        /\ \A t \in Text : Unharmed(t)' => Unharmed(t) /\ base[c].text # t
    BY <1>17, DeletedChat
  <2> HIDE DEF ChatType
  <2>9. ASSUME NEW x \in Chat
        PROVE  /\ base'[x].st = "none" => base'[x].text = NoText
               /\ base'[x].text # NoText /\ clobbered'[base'[x].text] = {} =>
                    /\ x \in Tab!ToSet(srv')
                    /\ base'[x].st = "pending" =>
                         \E e \in lookup' : e.at = "posted" /\ e.chat = x /\ e.text = base'[x].text
    BY <2>1, <2>7, <2>8
  <2> QED BY <2>9
<1>18. ASSUME NEW c \in Chat, Tab!DeleteAnswered(c) PROVE RowsLive'
  BY <1>18 DEF Tab!DeleteAnswered, Tab!Lists
<1>19. CASE Tab!Stop
  <2>7. \A x \in Chat : base[x].text \in Text \cup {NoText}
    BY DEF Tab!Some
  <2>8. \A u \in Text : Unharmed(u)' => Unharmed(u)
    BY <1>19, HarmStays DEF Tab!Next
  <2> PICK c \in lookup :
        /\ c.at = "posted" /\ c.chat \in Chat /\ LeftAlone(c) /\ RowIs(c.chat, NoText, "none")
    BY <1>19, Stopped
  <2>0. UNCHANGED srv
    BY <1>19, Stopped
  <2>1. c.chat \in Chat
    OBVIOUS
  <2>2. \A q \in lookup : q.at = "posted" /\ q.chat # c.chat => q \in lookup'
    BY DEF LeftAlone
  <2>3. RowIs(c.chat, NoText, "none")
    OBVIOUS
  <2> HIDE DEF ChatType
  <2>9. ASSUME NEW x \in Chat
        PROVE  /\ base'[x].st = "none" => base'[x].text = NoText
               /\ base'[x].text # NoText /\ clobbered'[base'[x].text] = {} =>
                    /\ x \in Tab!ToSet(srv')
                    /\ base'[x].st = "pending" =>
                         \E e \in lookup' : e.at = "posted" /\ e.chat = x /\ e.text = base'[x].text
    <3>1. CASE x = c.chat
      BY <2>0, <2>1, <2>3, <2>7, <2>8, <3>1 DEF RowIs
    <3>2. CASE x # c.chat
      <4>1. base'[x] = base[x]
        BY <2>3, <3>2 DEF RowIs
      <4> QED BY <2>0, <2>1, <2>2, <2>7, <2>8, <3>2, <4>1
    <3> QED BY <3>1, <3>2
  <2> QED BY <2>9
<1>20. CASE Tab!Arrive
  BY <1>20 DEF Tab!Arrive, Tab!Lists
<1>21. CASE Tab!Leave
  <2>7. \A x \in Chat : base[x].text \in Text \cup {NoText}
    BY DEF Tab!Some
  <2>8. \A u \in Text : Unharmed(u)' => Unharmed(u)
    BY <1>21, HarmStays DEF Tab!Next
  <2>1. UNCHANGED base /\ Tab!ToSet(srv) \subseteq Tab!ToSet(srv')
    BY <1>21, LeftTab
  <2>2. \A q \in lookup : q.at = "posted" =>
          \E e \in lookup' : e.at = "posted" /\ e.chat = q.chat /\ e.text = q.text
    BY <1>21, LeftTab
  <2> HIDE DEF ChatType
  <2>9. ASSUME NEW x \in Chat
        PROVE  /\ base'[x].st = "none" => base'[x].text = NoText
               /\ base'[x].text # NoText /\ clobbered'[base'[x].text] = {} =>
                    /\ x \in Tab!ToSet(srv')
                    /\ base'[x].st = "pending" =>
                         \E e \in lookup' : e.at = "posted" /\ e.chat = x /\ e.text = base'[x].text
    BY <2>1, <2>2, <2>7, <2>8
  <2> QED BY <2>9
<1>22. CASE Tab!Return
  BY <1>22 DEF Tab!Return
<1> QED BY <1>1, <1>2, <1>3, <1>4, <1>5, <1>6, <1>7, <1>8, <1>9, <1>10, <1>11, <1>12, <1>13,
   <1>14, <1>15, <1>16, <1>17, <1>18, <1>19, <1>20, <1>21, <1>22 DEF Tab!Next

(* The session that is selected is one of the list.                         *)
LEMMA SelectedIs ==
    ASSUME NEW a \in Chat \cup {NoChat}, NEW l \in Seq(Chat)
    PROVE  Tab!Selected(a, l) \in Chat \cup {NoChat}
<1>1. l # <<>> => l[1] \in Chat
  OBVIOUS
<1> QED BY <1>1 DEF Tab!Selected

(* The lists of chats and what each holds keep their types,                 *)
LEMMA ChatRowsType ==
    ASSUME ChatType, Tab!Next
    PROVE  /\ srv' \in Seq(Chat) /\ doc' \in Seq(Chat)
           /\ page' \in [Text -> SUBSET Chat]
<1> USE DEF ChatType, Tab!server, Tab!page, Tab!mutation, Tab!history
<1> DEFINE Fits == /\ srv' \in Seq(Chat) /\ doc' \in Seq(Chat)
                   /\ page' \in [Text -> SUBSET Chat]
<1>1. ASSUME NEW t \in Text, Tab!Type(t) PROVE Fits
  BY <1>1 DEF Tab!Type
<1>2. ASSUME NEW id \in 1..MaxCalls, Tab!Send(id) PROVE Fits
  BY <1>2 DEF Tab!Send
<1>3. ASSUME NEW id \in 1..MaxCalls, Tab!NewChat(id) PROVE Fits
  BY <1>3 DEF Tab!NewChat
<1>4. ASSUME NEW id \in 1..MaxCalls, Tab!Retry(id) PROVE Fits
  BY <1>4 DEF Tab!Retry
<1>5. ASSUME NEW c \in lookup, NEW new \in Chat, Tab!ServeCreate(c, new) PROVE Fits
  <2>1. srv' \in Seq(Chat) /\ UNCHANGED <<doc, page>>
    BY <1>5, Made DEF Tab!ServeCreate
  <2> QED BY <2>1
<1>6. ASSUME NEW c \in lookup, Tab!Created(c) PROVE Fits
  <2>1. UNCHANGED <<srv, page>> /\ c.chat \in Chat /\ doc' = <<c.chat>> \o Tab!RemoveFirst(doc, c.chat)
    BY <1>6, Answered DEF Tab!Created
  <2> QED BY <2>1, MovedFirst
<1>7. ASSUME NEW c \in lookup, Tab!CreateFails(c) PROVE Fits
  BY <1>7 DEF Tab!CreateFails
<1>8. ASSUME NEW c \in lookup, Tab!Persist(c) PROVE Fits
  <2>1. srv' \in Seq(Chat) /\ UNCHANGED doc
    BY <1>8, Persisted DEF Tab!Persist
  <2>2. page' = [page EXCEPT ![c.text] = page[c.text] \cup {c.chat}] /\ c.chat \in Chat
    BY <1>8, Persisted
  <2> QED BY <2>1, <2>2
<1>9. ASSUME NEW c \in lookup, Tab!Succeed(c) PROVE Fits
  BY <1>9 DEF Tab!Succeed
<1>10. ASSUME NEW c \in lookup, Tab!Fail(c) PROVE Fits
  BY <1>10 DEF Tab!Fail
<1>11. ASSUME NEW c \in lookup, Tab!Drop(c) PROVE Fits
  BY <1>11 DEF Tab!Drop
<1>12. ASSUME NEW c \in lookup, Tab!Carried(c) PROVE Fits
  BY <1>12 DEF Tab!Carried
<1>13. ASSUME NEW c \in Chat, Tab!Select(c) PROVE Fits
  BY <1>13 DEF Tab!Select
<1>14. ASSUME NEW c \in Chat, Tab!Delete(c) PROVE Fits
  BY <1>14 DEF Tab!Delete, Tab!Holds
<1>15. ASSUME NEW c \in Chat, Tab!Undo(c) PROVE Fits
  BY <1>15 DEF Tab!Undo
<1>16. ASSUME NEW c \in Chat, Tab!Fire(c) PROVE Fits
  BY <1>16 DEF Tab!Fire
<1>17. ASSUME NEW c \in Chat, Tab!ServeDelete(c) PROVE Fits
  <2>1. srv' \in Seq(Chat) /\ UNCHANGED doc /\ page' = [t \in Text |-> page[t] \ {c}]
    BY <1>17, DeletedChat DEF Tab!ServeDelete
  <2> QED BY <2>1
<1>18. ASSUME NEW c \in Chat, Tab!DeleteAnswered(c) PROVE Fits
  <2>1. UNCHANGED <<srv, page>> /\ doc' \in {doc, Tab!RemoveFirst(doc, c)}
    BY <1>18 DEF Tab!DeleteAnswered, Tab!Lists
  <2> QED BY <2>1, Removed
<1>19. CASE Tab!Stop
  BY <1>19 DEF Tab!Stop
<1>20. CASE Tab!Arrive
  BY <1>20 DEF Tab!Arrive, Tab!Lists
<1>21. CASE Tab!Leave
  BY <1>21 DEF Tab!Leave
<1>22. CASE Tab!Return
  BY <1>22 DEF Tab!Return
<1> QED BY <1>1, <1>2, <1>3, <1>4, <1>5, <1>6, <1>7, <1>8, <1>9, <1>10, <1>11, <1>12, <1>13,
   <1>14, <1>15, <1>16, <1>17, <1>18, <1>19, <1>20, <1>21, <1>22 DEF Tab!Next

(* the failed turns' rows,                                                  *)
LEMMA ChatPageType ==
    ASSUME ChatType, Tab!Next
    PROVE  base' \in [Chat -> [text : Tab!Some, st : {"none", "pending", "error"}]]
<1> USE DEF ChatType, Tab!NoDraft, Tab!Some, Tab!server, Tab!page, Tab!mutation, Tab!history
<1> DEFINE Fits == base' \in [Chat -> [text : Tab!Some, st : {"none", "pending", "error"}]]
<1>1. ASSUME NEW t \in Text, Tab!Type(t) PROVE Fits
  BY <1>1 DEF Tab!Type
<1>2. ASSUME NEW id \in 1..MaxCalls, Tab!Send(id) PROVE Fits
  <2>1. fetch \in Text
    BY <1>2, SentFrom
  <2>2. base' = base \/ base' = [base EXCEPT ![conflict] = [text |-> fetch, st |-> "pending"]]
    BY <1>2 DEF Tab!Send, Tab!Post, Tab!Call
  <2> QED BY <2>1, <2>2
<1>3. ASSUME NEW id \in 1..MaxCalls, Tab!NewChat(id) PROVE Fits
  BY <1>3 DEF Tab!NewChat, Tab!Call
<1>4. ASSUME NEW id \in 1..MaxCalls, Tab!Retry(id) PROVE Fits
  <2> PICK t \in {NoText, local} : base' = [base EXCEPT ![conflict] = [text |-> t, st |-> "pending"]]
    BY <1>4 DEF Tab!Retry, Tab!Call
  <2>1. [text |-> t, st |-> "pending"] \in [text : Text \cup {NoText}, st : {"none", "pending", "error"}]
    OBVIOUS
  <2> QED BY <2>1
<1>5. ASSUME NEW c \in lookup, NEW new \in Chat, Tab!ServeCreate(c, new) PROVE Fits
  BY <1>5 DEF Tab!ServeCreate, Tab!Becomes
<1>6. ASSUME NEW c \in lookup, Tab!Created(c) PROVE Fits
  <2>1. base' = base \/ base' = [base EXCEPT ![c.chat] = [text |-> c.text, st |-> "pending"]]
    BY <1>6 DEF Tab!Created, Tab!Post
  <2>2. c.text \in Text \cup {NoText}
    BY DEF ChatCall
  <2> QED BY <2>1, <2>2
<1>7. ASSUME NEW c \in lookup, Tab!CreateFails(c) PROVE Fits
  BY <1>7 DEF Tab!CreateFails, Tab!TakesBack, Tab!Excuses
<1>8. ASSUME NEW c \in lookup, Tab!Persist(c) PROVE Fits
  BY <1>8 DEF Tab!Persist, Tab!Becomes
<1>9. ASSUME NEW c \in lookup, Tab!Succeed(c) PROVE Fits
  BY <1>9 DEF Tab!Succeed
<1>10. ASSUME NEW c \in lookup, Tab!Fail(c) PROVE Fits
  <2> PICK st \in {"none", "error"} : base' = [base EXCEPT ![c.chat].st = st]
    BY <1>10 DEF Tab!Fail
  <2>1. \A r \in [text : Text \cup {NoText}, st : {"none", "pending", "error"}] :
           [r EXCEPT !.st = st] \in [text : Text \cup {NoText}, st : {"none", "pending", "error"}]
    OBVIOUS
  <2> QED BY <2>1
<1>11. ASSUME NEW c \in lookup, Tab!Drop(c) PROVE Fits
  BY <1>11 DEF Tab!Drop, Tab!Excuses, Tab!OnlyInDraft
<1>12. ASSUME NEW c \in lookup, Tab!Carried(c) PROVE Fits
  BY <1>12 DEF Tab!Carried
<1>13. ASSUME NEW c \in Chat, Tab!Select(c) PROVE Fits
  BY <1>13 DEF Tab!Select
<1>14. ASSUME NEW c \in Chat, Tab!Delete(c) PROVE Fits
  BY <1>14 DEF Tab!Delete, Tab!Holds
<1>15. ASSUME NEW c \in Chat, Tab!Undo(c) PROVE Fits
  BY <1>15 DEF Tab!Undo
<1>16. ASSUME NEW c \in Chat, Tab!Fire(c) PROVE Fits
  BY <1>16 DEF Tab!Fire
<1>17. ASSUME NEW c \in Chat, Tab!ServeDelete(c) PROVE Fits
  BY <1>17 DEF Tab!ServeDelete, Tab!Holds
<1>18. ASSUME NEW c \in Chat, Tab!DeleteAnswered(c) PROVE Fits
  BY <1>18 DEF Tab!DeleteAnswered, Tab!Lists
<1>19. CASE Tab!Stop
  <2> PICK c \in lookup : base' = [base EXCEPT ![c.chat] = Tab!NoDraft]
    BY <1>19 DEF Tab!Stop
  <2>1. Tab!NoDraft \in [text : Text \cup {NoText}, st : {"none", "pending", "error"}]
    OBVIOUS
  <2> QED BY <2>1
<1>20. CASE Tab!Arrive
  BY <1>20 DEF Tab!Arrive, Tab!Lists
<1>21. CASE Tab!Leave
  BY <1>21 DEF Tab!Leave, Tab!Excuses
<1>22. CASE Tab!Return
  BY <1>22 DEF Tab!Return
<1> QED BY <1>1, <1>2, <1>3, <1>4, <1>5, <1>6, <1>7, <1>8, <1>9, <1>10, <1>11, <1>12, <1>13,
   <1>14, <1>15, <1>16, <1>17, <1>18, <1>19, <1>20, <1>21, <1>22 DEF Tab!Next

(* what the tab shows,                                                      *)
LEMMA ChatShownType ==
    ASSUME ChatType, Tab!Next
    PROVE  /\ pinned' \in BOOLEAN /\ conflict' \in Chat \cup {NoChat}
           /\ fetch' \in Tab!Some /\ local' \in Tab!Some
<1> USE DEF ChatType, ChatCall, Tab!Some, Tab!server, Tab!page, Tab!mutation, Tab!history
<1> DEFINE Fits == /\ pinned' \in BOOLEAN /\ conflict' \in Chat \cup {NoChat}
                   /\ fetch' \in Tab!Some /\ local' \in Tab!Some
<1>1. ASSUME NEW t \in Text, Tab!Type(t) PROVE Fits
  BY <1>1 DEF Tab!Type
<1>2. ASSUME NEW id \in 1..MaxCalls, Tab!Send(id) PROVE Fits
  BY <1>2 DEF Tab!Send, Tab!Fresh, Tab!Call, Tab!Post, Tab!OnlyInDraft
<1>3. ASSUME NEW id \in 1..MaxCalls, Tab!NewChat(id) PROVE Fits
  BY <1>3 DEF Tab!NewChat, Tab!Call
<1>4. ASSUME NEW id \in 1..MaxCalls, Tab!Retry(id) PROVE Fits
  BY <1>4 DEF Tab!Retry, Tab!Call, Tab!OnlyInDraft
<1>5. ASSUME NEW c \in lookup, NEW new \in Chat, Tab!ServeCreate(c, new) PROVE Fits
  BY <1>5 DEF Tab!ServeCreate, Tab!Becomes
<1>6. ASSUME NEW c \in lookup, Tab!Created(c) PROVE Fits
  BY <1>6 DEF Tab!Created, Tab!Becomes, Tab!Post, Tab!OnlyInDraft
<1>7. ASSUME NEW c \in lookup, Tab!CreateFails(c) PROVE Fits
  BY <1>7 DEF Tab!CreateFails, Tab!TakesBack, Tab!Excuses
<1>8. ASSUME NEW c \in lookup, Tab!Persist(c) PROVE Fits
  BY <1>8 DEF Tab!Persist, Tab!Becomes
<1>9. ASSUME NEW c \in lookup, Tab!Succeed(c) PROVE Fits
  BY <1>9 DEF Tab!Succeed, Tab!Settled, Tab!Excuses, Tab!OnlyInDraft
<1>10. ASSUME NEW c \in lookup, Tab!Fail(c) PROVE Fits
  BY <1>10 DEF Tab!Fail, Tab!Abandoned, Tab!Becomes, Tab!Settled
<1>11. ASSUME NEW c \in lookup, Tab!Drop(c) PROVE Fits
  BY <1>11 DEF Tab!Drop, Tab!Excuses, Tab!OnlyInDraft
<1>12. ASSUME NEW c \in lookup, Tab!Carried(c) PROVE Fits
  BY <1>12 DEF Tab!Carried
<1>13. ASSUME NEW c \in Chat, Tab!Select(c) PROVE Fits
  BY <1>13 DEF Tab!Select
<1>14. ASSUME NEW c \in Chat, Tab!Delete(c) PROVE Fits
  <2>1. UNCHANGED <<fetch, local, pinned>>
    BY <1>14 DEF Tab!Delete
  <2>2. CASE conflict' = conflict
    BY <2>1, <2>2
  <2>3. CASE conflict' # conflict
    <3> DEFINE rest == Tab!RemoveFirst(doc, c)
               a == IF rest = <<>> THEN NoChat ELSE rest[1]
    <3>1. rest \in Seq(Chat)
      BY Removed
    <3>2. conflict' = Tab!Selected(a, doc)
      BY <1>14, <2>3 DEF Tab!Delete
    <3> HIDE DEF rest
    <3>3. rest # <<>> => rest[1] \in Chat
      BY <3>1
    <3>4. a \in Chat \cup {NoChat}
      BY <3>3
    <3> HIDE DEF a
    <3> QED BY <2>1, <3>2, <3>4, SelectedIs
  <2> QED BY <2>2, <2>3
<1>15. ASSUME NEW c \in Chat, Tab!Undo(c) PROVE Fits
  BY <1>15 DEF Tab!Undo
<1>16. ASSUME NEW c \in Chat, Tab!Fire(c) PROVE Fits
  BY <1>16 DEF Tab!Fire
<1>17. ASSUME NEW c \in Chat, Tab!ServeDelete(c) PROVE Fits
  BY <1>17 DEF Tab!ServeDelete, Tab!Holds
<1>18. ASSUME NEW c \in Chat, Tab!DeleteAnswered(c) PROVE Fits
  <2>1. UNCHANGED <<fetch, local, pinned>>
        /\ (conflict' = conflict \/ conflict' = Tab!Selected(conflict, Tab!RemoveFirst(doc, c)))
    BY <1>18 DEF Tab!DeleteAnswered, Tab!Lists
  <2> QED BY <2>1, Removed, SelectedIs
<1>19. CASE Tab!Stop
  BY <1>19 DEF Tab!Stop, Tab!Abandoned, Tab!Becomes, Tab!Excuses, Tab!OnlyInDraft
<1>20. CASE Tab!Arrive
  <2>1. UNCHANGED <<fetch, local, pinned>>
        /\ (conflict' = conflict \/ conflict' = Tab!Selected(conflict, srv))
    BY <1>20 DEF Tab!Arrive, Tab!Lists
  <2> QED BY <2>1, SelectedIs
<1>21. CASE Tab!Leave
  BY <1>21 DEF Tab!Leave, Tab!Excuses
<1>22. CASE Tab!Return
  <2>1. UNCHANGED <<fetch, local>> /\ pinned' = TRUE /\ conflict' = Tab!Selected(NoChat, doc)
    BY <1>22 DEF Tab!Return
  <2> QED BY <2>1, SelectedIs
<1> QED BY <1>1, <1>2, <1>3, <1>4, <1>5, <1>6, <1>7, <1>8, <1>9, <1>10, <1>11, <1>12, <1>13,
   <1>14, <1>15, <1>16, <1>17, <1>18, <1>19, <1>20, <1>21, <1>22 DEF Tab!Next

(* the calls under way, of which a creation has stored nothing,             *)
LEMMA ChatCallsType ==
    ASSUME ChatType, Tab!Next
    PROVE  /\ lookup' \subseteq ChatCall
           /\ \A q \in lookup' : /\ q.at # "creating" => q.chat \in Chat
                                 /\ q.at \in {"creating", "created"} => ~q.kept
<1> USE DEF ChatType, ChatCall, Tab!Some, Tab!server, Tab!page, Tab!mutation, Tab!history
<1> DEFINE Fits == /\ lookup' \subseteq ChatCall
                   /\ \A q \in lookup' : /\ q.at # "creating" => q.chat \in Chat
                                         /\ q.at \in {"creating", "created"} => ~q.kept
<1>1. ASSUME NEW t \in Text, Tab!Type(t) PROVE Fits
  BY <1>1 DEF Tab!Type
<1>2. ASSUME NEW id \in 1..MaxCalls, Tab!Send(id) PROVE Fits
  <2>1. id \in Nat
    OBVIOUS
  <2> PICK t \in Tab!Some, x \in Chat \cup {NoChat}, at \in {"creating", "posted"} :
           lookup' = lookup \cup {Tab!Call(id, t, x, at)} /\ (at = "posted" => x \in Chat)
    BY <1>2 DEF Tab!Send
  <2> DEFINE d == Tab!Call(id, t, x, at)
  <2>2. d \in ChatCall /\ d.at = at /\ d.chat = x /\ ~d.kept
    BY <2>1 DEF Tab!Call
  <2>3. lookup' = lookup \cup {d}
    OBVIOUS
  <2> HIDE DEF d
  <2> QED BY <2>2, <2>3
<1>3. ASSUME NEW id \in 1..MaxCalls, Tab!NewChat(id) PROVE Fits
  <2>1. id \in Nat
    OBVIOUS
  <2> PICK t \in Tab!Some, x \in Chat \cup {NoChat}, at \in {"creating", "posted"} :
           lookup' = lookup \cup {Tab!Call(id, t, x, at)} /\ (at = "posted" => x \in Chat)
    BY <1>3 DEF Tab!NewChat
  <2> DEFINE d == Tab!Call(id, t, x, at)
  <2>2. d \in ChatCall /\ d.at = at /\ d.chat = x /\ ~d.kept
    BY <2>1 DEF Tab!Call
  <2>3. lookup' = lookup \cup {d}
    OBVIOUS
  <2> HIDE DEF d
  <2> QED BY <2>2, <2>3
<1>4. ASSUME NEW id \in 1..MaxCalls, Tab!Retry(id) PROVE Fits
  <2>1. id \in Nat
    OBVIOUS
  <2> PICK t \in Tab!Some, x \in Chat \cup {NoChat}, at \in {"creating", "posted"} :
           lookup' = lookup \cup {Tab!Call(id, t, x, at)} /\ (at = "posted" => x \in Chat)
    BY <1>4 DEF Tab!Retry
  <2> DEFINE d == Tab!Call(id, t, x, at)
  <2>2. d \in ChatCall /\ d.at = at /\ d.chat = x /\ ~d.kept
    BY <2>1 DEF Tab!Call
  <2>3. lookup' = lookup \cup {d}
    OBVIOUS
  <2> HIDE DEF d
  <2> QED BY <2>2, <2>3
<1>5. ASSUME NEW c \in lookup, NEW new \in Chat, Tab!ServeCreate(c, new) PROVE Fits
  BY <1>5 DEF Tab!ServeCreate, Tab!Becomes
<1>6. ASSUME NEW c \in lookup, Tab!Created(c) PROVE Fits
  <2>1. lookup' = lookup \ {c} \/ lookup' = (lookup \ {c}) \cup {[c EXCEPT !.at = "posted"]}
    BY <1>6 DEF Tab!Created, Tab!Becomes
  <2>2. [c EXCEPT !.at = "posted"] \in ChatCall /\ [c EXCEPT !.at = "posted"].chat = c.chat
        /\ [c EXCEPT !.at = "posted"].at = "posted"
    OBVIOUS
  <2>3. c.chat \in Chat
    BY <1>6 DEF Tab!Created
  <2> QED BY <2>1, <2>2, <2>3
<1>7. ASSUME NEW c \in lookup, Tab!CreateFails(c) PROVE Fits
  BY <1>7 DEF Tab!CreateFails, Tab!TakesBack, Tab!Excuses
<1>8. ASSUME NEW c \in lookup, Tab!Persist(c) PROVE Fits
  BY <1>8 DEF Tab!Persist, Tab!Becomes
<1>9. ASSUME NEW c \in lookup, Tab!Succeed(c) PROVE Fits
  BY <1>9 DEF Tab!Succeed, Tab!Settled, Tab!Excuses, Tab!OnlyInDraft
<1>10. ASSUME NEW c \in lookup, Tab!Fail(c) PROVE Fits
  <2>1. lookup' = lookup \ {c} \/ lookup' = (lookup \ {c}) \cup {[c EXCEPT !.at = "orphan"]}
    BY <1>10 DEF Tab!Fail, Tab!Abandoned, Tab!Becomes
  <2>2. [c EXCEPT !.at = "orphan"] \in ChatCall /\ [c EXCEPT !.at = "orphan"].chat = c.chat
        /\ [c EXCEPT !.at = "orphan"].at = "orphan"
    OBVIOUS
  <2>3. c.chat \in Chat
    BY <1>10 DEF Tab!Fail
  <2> QED BY <2>1, <2>2, <2>3
<1>11. ASSUME NEW c \in lookup, Tab!Drop(c) PROVE Fits
  BY <1>11 DEF Tab!Drop, Tab!Excuses, Tab!OnlyInDraft
<1>12. ASSUME NEW c \in lookup, Tab!Carried(c) PROVE Fits
  BY <1>12 DEF Tab!Carried
<1>13. ASSUME NEW c \in Chat, Tab!Select(c) PROVE Fits
  BY <1>13 DEF Tab!Select
<1>14. ASSUME NEW c \in Chat, Tab!Delete(c) PROVE Fits
  BY <1>14 DEF Tab!Delete, Tab!Holds
<1>15. ASSUME NEW c \in Chat, Tab!Undo(c) PROVE Fits
  BY <1>15 DEF Tab!Undo
<1>16. ASSUME NEW c \in Chat, Tab!Fire(c) PROVE Fits
  BY <1>16 DEF Tab!Fire
<1>17. ASSUME NEW c \in Chat, Tab!ServeDelete(c) PROVE Fits
  BY <1>17 DEF Tab!ServeDelete, Tab!Holds
<1>18. ASSUME NEW c \in Chat, Tab!DeleteAnswered(c) PROVE Fits
  BY <1>18 DEF Tab!DeleteAnswered, Tab!Lists
<1>19. CASE Tab!Stop
  <2> PICK c \in lookup : c.at = "posted" /\ Tab!Abandoned(c)
    BY <1>19 DEF Tab!Stop

  <2>1. lookup' = lookup \ {c} \/ lookup' = (lookup \ {c}) \cup {[c EXCEPT !.at = "orphan"]}
    BY DEF Tab!Abandoned, Tab!Becomes
  <2>2. [c EXCEPT !.at = "orphan"] \in ChatCall /\ [c EXCEPT !.at = "orphan"].chat = c.chat
        /\ [c EXCEPT !.at = "orphan"].at = "orphan"
    OBVIOUS
  <2>3. c.chat \in Chat
    OBVIOUS
  <2> QED BY <2>1, <2>2, <2>3
<1>20. CASE Tab!Arrive
  BY <1>20 DEF Tab!Arrive, Tab!Lists
<1>21. CASE Tab!Leave
  <2>1. lookup' = {[c EXCEPT !.here = FALSE] : c \in lookup}
    BY <1>21 DEF Tab!Leave
  <2>2. ASSUME NEW q \in lookup'
        PROVE  q \in ChatCall /\ (q.at # "creating" => q.chat \in Chat)
               /\ (q.at \in {"creating", "created"} => ~q.kept)
    <3> PICK c \in lookup : q = [c EXCEPT !.here = FALSE]
      BY <2>1
    <3>1. q \in ChatCall /\ q.at = c.at /\ q.chat = c.chat /\ q.kept = c.kept
      OBVIOUS
    <3> QED BY <3>1
  <2> QED BY <2>2
<1>22. CASE Tab!Return
  BY <1>22 DEF Tab!Return
<1> QED BY <1>1, <1>2, <1>3, <1>4, <1>5, <1>6, <1>7, <1>8, <1>9, <1>10, <1>11, <1>12, <1>13,
   <1>14, <1>15, <1>16, <1>17, <1>18, <1>19, <1>20, <1>21, <1>22 DEF Tab!Next

(* and what is recorded of the texts.                                       *)
LEMMA ChatHistoryType ==
    ASSUME ChatType, Tab!Next
    PROVE  /\ summary' \subseteq Text /\ written' \in [Text -> Chat \cup {NoChat}]
           /\ clobbered' \in [Text -> SUBSET Harms]
<1> USE DEF ChatType, Harms, Tab!server, Tab!page, Tab!mutation, Tab!history
<1> DEFINE Fits == /\ summary' \subseteq Text /\ written' \in [Text -> Chat \cup {NoChat}]
                   /\ clobbered' \in [Text -> SUBSET Harms]
<1>1. ASSUME NEW t \in Text, Tab!Type(t) PROVE Fits
  BY <1>1 DEF Tab!Type
<1>2. ASSUME NEW id \in 1..MaxCalls, Tab!Send(id) PROVE Fits
  <2>1. summary' = summary /\ written' = [written EXCEPT ![fetch] = conflict]
    BY <1>2, SentFrom
  <2>2. CASE conflict = NoChat
    BY <1>2, <2>1, <2>2 DEF Tab!Send
  <2>3. CASE conflict # NoChat
    <3> DEFINE d == Tab!Call(id, fetch, conflict, "posted")
    <3>1. Tab!Post(d)
      BY <1>2, <2>3 DEF Tab!Send
    <3>2. d.chat \in Chat /\ d.text \in Text
      BY <1>2, <2>3, SentFrom DEF Tab!Call
    <3> HIDE DEF d
    <3> QED BY <2>1, <3>1, <3>2, PostedText
  <2> QED BY <2>2, <2>3
<1>3. ASSUME NEW id \in 1..MaxCalls, Tab!NewChat(id) PROVE Fits
  BY <1>3, AskedFor DEF RowIs
<1>4. ASSUME NEW id \in 1..MaxCalls, Tab!Retry(id) PROVE Fits
  BY <1>4, Retried DEF RowIs
<1>5. ASSUME NEW c \in lookup, NEW new \in Chat, Tab!ServeCreate(c, new) PROVE Fits
  BY <1>5, Made DEF RowIs
<1>6. ASSUME NEW c \in lookup, Tab!Created(c) PROVE Fits
  <2>1. summary' = summary /\ c.chat \in Chat /\ (written' = written \/ written' = [written EXCEPT ![c.text] = c.chat])
    BY <1>6, Answered
  <2>2. CASE c.text = NoText
    BY <1>6, <2>1, <2>2 DEF Tab!Created
  <2>3. CASE c.text # NoText
    <3>1. Tab!Post(c) /\ c.text \in Text
      BY <1>6, <2>3 DEF Tab!Created, ChatCall, Tab!Some
    <3> QED BY <2>1, <3>1, PostedText
  <2> QED BY <2>2, <2>3
<1>7. ASSUME NEW c \in lookup, Tab!CreateFails(c) PROVE Fits
  BY <1>7, NotMade DEF RowIs
<1>8. ASSUME NEW c \in lookup, Tab!Persist(c) PROVE Fits
  BY <1>8, Persisted DEF RowIs
<1>9. ASSUME NEW c \in lookup, Tab!Succeed(c) PROVE Fits
  BY <1>9, Succeeded DEF RowIs
<1>10. ASSUME NEW c \in lookup, Tab!Fail(c) PROVE Fits
  BY <1>10, Failed DEF RowIs, LeftAlone
<1>11. ASSUME NEW c \in lookup, Tab!Drop(c) PROVE Fits
  BY <1>11, Dropped DEF RowIs
<1>12. ASSUME NEW c \in lookup, Tab!Carried(c) PROVE Fits
  BY <1>12 DEF Tab!Carried
<1>13. ASSUME NEW c \in Chat, Tab!Select(c) PROVE Fits
  BY <1>13 DEF Tab!Select
<1>14. ASSUME NEW c \in Chat, Tab!Delete(c) PROVE Fits
  BY <1>14 DEF Tab!Delete, Tab!Holds
<1>15. ASSUME NEW c \in Chat, Tab!Undo(c) PROVE Fits
  BY <1>15 DEF Tab!Undo
<1>16. ASSUME NEW c \in Chat, Tab!Fire(c) PROVE Fits
  BY <1>16 DEF Tab!Fire
<1>17. ASSUME NEW c \in Chat, Tab!ServeDelete(c) PROVE Fits
  BY <1>17, DeletedChat DEF RowIs
<1>18. ASSUME NEW c \in Chat, Tab!DeleteAnswered(c) PROVE Fits
  BY <1>18 DEF Tab!DeleteAnswered, Tab!Lists
<1>19. CASE Tab!Stop
  BY <1>19, Stopped DEF RowIs, LeftAlone
<1>20. CASE Tab!Arrive
  BY <1>20 DEF Tab!Arrive, Tab!Lists
<1>21. CASE Tab!Leave
  BY <1>21, LeftTab DEF RowIs
<1>22. CASE Tab!Return
  BY <1>22 DEF Tab!Return
<1> QED BY <1>1, <1>2, <1>3, <1>4, <1>5, <1>6, <1>7, <1>8, <1>9, <1>10, <1>11, <1>12, <1>13,
   <1>14, <1>15, <1>16, <1>17, <1>18, <1>19, <1>20, <1>21, <1>22 DEF Tab!Next

(* A row whose text gives way to nothing is of a turn that is awaited, or   *)
(* the text is stored; a kept turn's text is stored as well.                *)
LEMMA RowKnown ==
    ASSUME PartsAssumption, ChatType, StoredHome, RowsLive, NEW x \in Chat, NEW t \in Text,
           Unharmed(t), base[x].text = t, ~GivesWay(x, t)
    PROVE  InAChat(t) \/ \E c \in lookup : c.at = "posted" /\ c.chat = x /\ c.text = t
<1>1. base[x].st \in {"none", "pending", "error"} /\ page[t] \subseteq Tab!ToSet(srv)
  BY DEF ChatType, StoredHome
<1>2. t # NoText
  BY PartsAssumption DEF Tab!ChatTabAssumption
<1>3. CASE page[t] # {}
  BY <1>1, <1>3 DEF InAChat
<1>4. CASE page[t] = {}
  <2>1. base[x].st = "pending"
    BY <1>1, <1>2, <1>4 DEF GivesWay, RowsLive
  <2> QED BY <1>2, <2>1 DEF RowsLive
<1> QED BY <1>3, <1>4

(* The text of a turn that was kept is in its chat.                         *)
LEMMA KeptStored ==
    ASSUME PartsAssumption, SentHome, NEW c \in lookup, c.at \in {"posted", "orphan"}, c.kept,
           c.text \in Text, Unharmed(c.text)
    PROVE  InAChat(c.text)
<1>1. Gone(c)
  BY PartsAssumption DEF Gone, Tab!ChatTabAssumption
<1> QED BY <1>1 DEF SentHome, InAChat

(* The chats that exist are chats.                                          *)
LEMMA LiveChats ==
    ASSUME ChatType
    PROVE  Tab!ToSet(srv) \subseteq Chat
BY DEF ChatType, Tab!ToSet


(* A text that was composed, and that nothing befell, is in the composer, on *)
(* its way, stored in a chat that exists or in a failed turn's row of one.  *)
LEMMA NoneMissingStep ==
    ASSUME PartsAssumption, ChatType, SentHome, StoredHome, RowsLive, NoneMissing, Tab!Next
    PROVE  NoneMissing'
<1> USE DEF Tab!server, Tab!page, Tab!mutation, Tab!history
<1>1. ASSUME NEW t \in Text, Tab!Type(t) PROVE NoneMissing'
  <2> SUFFICES ASSUME NEW u \in Text \ summary', Unharmed(u)'
               PROVE  (fetch = u \/ OnItsWay(u) \/ InAChat(u) \/ InARow(u))'
    BY DEF NoneMissing
  <2>1. UNCHANGED <<srv, page, base, lookup, clobbered>> /\ fetch = NoText /\ fetch' = t
        /\ summary' = summary \ {t} /\ NoText # u
    BY <1>1, PartsAssumption DEF Tab!Type, Tab!ChatTabAssumption
  <2>2. CASE u = t
    BY <2>1, <2>2
  <2>3. CASE u # t
    <3>1. OnItsWay(u) \/ InAChat(u) \/ InARow(u)
      BY <2>1, <2>3 DEF NoneMissing, Unharmed
    <3> QED BY <2>1, <3>1 DEF OnItsWay, InAChat, InARow
  <2> QED BY <2>2, <2>3
<1>2. ASSUME NEW id \in 1..MaxCalls, Tab!Send(id) PROVE NoneMissing'
  <2> SUFFICES ASSUME NEW t \in Text \ summary', Unharmed(t)'
               PROVE  (fetch = t \/ OnItsWay(t) \/ InAChat(t) \/ InARow(t))'
    BY DEF NoneMissing
  <2>1. /\ Unharmed(t) /\ t # NoText
        /\ fetch = t \/ OnItsWay(t) \/ InAChat(t) \/ InARow(t)
    BY <1>2, HarmStays, SentFrom, PartsAssumption
       DEF NoneMissing, Tab!Next, Tab!ChatTabAssumption
  <2> PICK f \in Text : f = fetch
    BY <1>2, SentFrom
  <2> PICK d : /\ lookup' = lookup \cup {d} /\ d.text = f
               /\ \/ UNCHANGED base
                  \/ /\ conflict \in Chat /\ RowIs(conflict, f, "pending")
                     /\ t # f => ~GivesWay(conflict, t)
    BY <1>2, SentFrom
  <2>3. UNCHANGED <<srv, page>>
    BY <1>2, SentFrom
  <2>4. InAChat(t) => InAChat(t)'
    BY <2>3 DEF InAChat
  <2>2. t = f \/ OnItsWay(t) => OnItsWay(t)'
    BY DEF OnItsWay
  <2>5. ASSUME InARow(t), t # f PROVE InARow(t)' \/ InAChat(t) \/ OnItsWay(t)
    <3> PICK x \in Tab!ToSet(srv) : base[x].text = t
      BY <2>5 DEF InARow
    <3>1. CASE base'[x] = base[x]
      BY <2>3, <3>1 DEF InARow
    <3>2. CASE base'[x] # base[x]
      <4>1. x = conflict /\ ~GivesWay(x, t) /\ x \in Chat
        BY <2>5, <3>2, LiveChats DEF RowIs
      <4> QED BY <2>1, <4>1, RowKnown DEF OnItsWay
    <3> QED BY <3>1, <3>2
  <2> QED BY <2>1, <2>2, <2>4, <2>5
<1>3. ASSUME NEW id \in 1..MaxCalls, Tab!NewChat(id) PROVE NoneMissing'
  <2>1. UNCHANGED <<srv, page, base, fetch, summary, clobbered>>
    BY <1>3 DEF Tab!NewChat
  <2>2. \A u \in Text : OnItsWay(u) => OnItsWay(u)'
    BY <1>3, PartsAssumption DEF Tab!NewChat, OnItsWay
  <2> QED BY <2>1, <2>2 DEF NoneMissing, Unharmed, InAChat, InARow
<1>4. ASSUME NEW id \in 1..MaxCalls, Tab!Retry(id) PROVE NoneMissing'
  <2> SUFFICES ASSUME NEW t \in Text \ summary', Unharmed(t)'
               PROVE  (fetch = t \/ OnItsWay(t) \/ InAChat(t) \/ InARow(t))'
    BY DEF NoneMissing
  <2>1. /\ Unharmed(t) /\ t # NoText
        /\ fetch = t \/ OnItsWay(t) \/ InAChat(t) \/ InARow(t)
    BY <1>4, HarmStays, Retried, PartsAssumption
       DEF NoneMissing, Tab!Next, Tab!ChatTabAssumption
  <2> PICK d : /\ lookup' = lookup \cup {d} /\ RowIs(conflict, d.text, "pending")
               /\ t # d.text => ~GivesWay(conflict, t)
    BY <1>4, Retried
  <2>3. UNCHANGED <<srv, page>>
    BY <1>4, Retried
  <2>4. InAChat(t) => InAChat(t)'
    BY <2>3 DEF InAChat
  <2>2. (t = d.text \/ OnItsWay(t) => OnItsWay(t)') /\ UNCHANGED fetch
    BY <1>4, Retried DEF OnItsWay
  <2>5. ASSUME InARow(t), t # d.text PROVE InARow(t)' \/ InAChat(t) \/ OnItsWay(t)
    <3> PICK x \in Tab!ToSet(srv) : base[x].text = t
      BY <2>5 DEF InARow
    <3>1. CASE x = conflict
      BY <2>1, <2>5, <3>1, RowKnown, LiveChats DEF OnItsWay
    <3>2. CASE x # conflict
      <4>1. base'[x] = base[x]
        BY <3>2, LiveChats DEF RowIs
      <4> QED BY <2>3, <4>1 DEF InARow
    <3> QED BY <3>1, <3>2
  <2> QED BY <2>1, <2>2, <2>4, <2>5
<1>5. ASSUME NEW c \in lookup, NEW new \in Chat, Tab!ServeCreate(c, new) PROVE NoneMissing'
  <2> SUFFICES ASSUME NEW t \in Text \ summary', Unharmed(t)'
               PROVE  (fetch = t \/ OnItsWay(t) \/ InAChat(t) \/ InARow(t))'
    BY DEF NoneMissing
  <2>1. /\ Unharmed(t) /\ t # NoText
        /\ fetch = t \/ OnItsWay(t) \/ InAChat(t) \/ InARow(t)
    BY <1>5, HarmStays, Made, PartsAssumption DEF NoneMissing, Tab!Next, Tab!ChatTabAssumption
  <2> PICK d : lookup' = (lookup \ {c}) \cup {d} /\ d.text = c.text
    BY <1>5, Made
  <2>2. UNCHANGED <<page, base, fetch>> /\ Tab!ToSet(srv') = {new} \cup Tab!ToSet(srv)
    BY <1>5, Made
  <2>3. OnItsWay(t) => OnItsWay(t)'
    BY DEF OnItsWay
  <2>4. (InAChat(t) => InAChat(t)') /\ (InARow(t) => InARow(t)')
    BY <2>2 DEF InAChat, InARow
  <2> QED BY <2>1, <2>2, <2>3, <2>4
<1>6. ASSUME NEW c \in lookup, Tab!Created(c) PROVE NoneMissing'
  <2> SUFFICES ASSUME NEW t \in Text \ summary', Unharmed(t)'
               PROVE  (fetch = t \/ OnItsWay(t) \/ InAChat(t) \/ InARow(t))'
    BY DEF NoneMissing
  <2>1. /\ Unharmed(t) /\ t # NoText
        /\ fetch = t \/ OnItsWay(t) \/ InAChat(t) \/ InARow(t)
    BY <1>6, HarmStays, Answered, PartsAssumption
       DEF NoneMissing, Tab!Next, Tab!ChatTabAssumption
  <2>3. UNCHANGED <<srv, page>>
    BY <1>6, Answered
  <2>4. InAChat(t) => InAChat(t)'
    BY <2>3 DEF InAChat
  <2>2. UNCHANGED fetch
    BY <1>6, Answered
  <2>5. CASE c.text = NoText
    <3>1. UNCHANGED base /\ lookup' = lookup \ {c}
      BY <1>6, <2>5, Answered, PartsAssumption DEF Tab!ChatTabAssumption
    <3>2. (InARow(t) => InARow(t)') /\ (OnItsWay(t) => OnItsWay(t)')
      BY <2>1, <2>3, <2>5, <3>1 DEF InARow, OnItsWay
    <3> QED BY <2>1, <2>2, <2>4, <3>2
  <2>6. CASE c.text # NoText
    <3> PICK d : lookup' = (lookup \ {c}) \cup {d} /\ d.text = c.text
      BY <1>6, <2>6, Answered
    <3>1. /\ RowIs(c.chat, c.text, "pending") /\ c.at = "created"
          /\ t # c.text => ~GivesWay(c.chat, t)
      BY <1>6, <2>6, Answered
    <3>2. t = c.text \/ OnItsWay(t) => OnItsWay(t)'
      BY DEF OnItsWay
    <3>3. ASSUME InARow(t), t # c.text PROVE InARow(t)' \/ InAChat(t) \/ OnItsWay(t)
      <4> PICK x \in Tab!ToSet(srv) : base[x].text = t
        BY <3>3 DEF InARow
      <4>1. CASE x = c.chat
        BY <2>1, <3>1, <3>3, <4>1, RowKnown, LiveChats DEF OnItsWay
      <4>2. CASE x # c.chat
        <5>1. base'[x] = base[x]
          BY <3>1, <4>2, LiveChats DEF RowIs
        <5> QED BY <2>3, <5>1 DEF InARow
      <4> QED BY <4>1, <4>2
    <3> QED BY <2>1, <2>2, <2>4, <3>2, <3>3
  <2> QED BY <2>5, <2>6
<1>7. ASSUME NEW c \in lookup, Tab!CreateFails(c) PROVE NoneMissing'
  <2> SUFFICES ASSUME NEW t \in Text \ summary', Unharmed(t)'
               PROVE  (fetch = t \/ OnItsWay(t) \/ InAChat(t) \/ InARow(t))'
    BY DEF NoneMissing
  <2>1. /\ Unharmed(t) /\ t # NoText
        /\ fetch = t \/ OnItsWay(t) \/ InAChat(t) \/ InARow(t)
    BY <1>7, HarmStays, NotMade, PartsAssumption
       DEF NoneMissing, Tab!Next, Tab!ChatTabAssumption
  <2>2. UNCHANGED <<srv, page, base>> /\ lookup' = lookup \ {c}
    BY <1>7, NotMade
  <2>3. (InAChat(t) => InAChat(t)') /\ (InARow(t) => InARow(t)')
    BY <2>2 DEF InAChat, InARow
  <2>4. OnItsWay(t) => OnItsWay(t)' \/ c.text = t
    BY <2>2 DEF OnItsWay
  <2>5. (c.text = t => fetch' = t) /\ (fetch = t => fetch' = t)
    BY <1>7, <2>1, NotMade
  <2> QED BY <2>1, <2>3, <2>4, <2>5
<1>8. ASSUME NEW c \in lookup, Tab!Persist(c) PROVE NoneMissing'
  <2> SUFFICES ASSUME NEW t \in Text \ summary', Unharmed(t)'
               PROVE  (fetch = t \/ OnItsWay(t) \/ InAChat(t) \/ InARow(t))'
    BY DEF NoneMissing
  <2>1. /\ Unharmed(t) /\ t # NoText
        /\ fetch = t \/ OnItsWay(t) \/ InAChat(t) \/ InARow(t)
    BY <1>8, HarmStays, Persisted, PartsAssumption
       DEF NoneMissing, Tab!Next, Tab!ChatTabAssumption
  <2> PICK d : lookup' = (lookup \ {c}) \cup {d} /\ d.text = c.text
    BY <1>8, Persisted
  <2>2. /\ UNCHANGED <<base, fetch>> /\ Tab!ToSet(srv') = Tab!ToSet(srv)
        /\ page' = [page EXCEPT ![c.text] = page[c.text] \cup {c.chat}]
    BY <1>8, Persisted
  <2>3. OnItsWay(t) => OnItsWay(t)'
    BY DEF OnItsWay
  <2>4. page[t] \subseteq page'[t]
    BY <2>2 DEF ChatType
  <2>5. (InAChat(t) => InAChat(t)') /\ (InARow(t) => InARow(t)')
    BY <2>2, <2>4 DEF InAChat, InARow
  <2> QED BY <2>1, <2>2, <2>3, <2>5
<1>9. ASSUME NEW c \in lookup, Tab!Succeed(c) PROVE NoneMissing'
  <2> SUFFICES ASSUME NEW t \in Text \ summary', Unharmed(t)'
               PROVE  (fetch = t \/ OnItsWay(t) \/ InAChat(t) \/ InARow(t))'
    BY DEF NoneMissing
  <2>1. /\ Unharmed(t) /\ t # NoText
        /\ fetch = t \/ OnItsWay(t) \/ InAChat(t) \/ InARow(t)
    BY <1>9, HarmStays, Succeeded, PartsAssumption
       DEF NoneMissing, Tab!Next, Tab!ChatTabAssumption
  <2>2. /\ lookup' = lookup \ {c} /\ RowIs(c.chat, NoText, "none") /\ UNCHANGED fetch
        /\ t # c.text => ~GivesWay(c.chat, t)
    BY <1>9, Succeeded
  <2>3. UNCHANGED <<srv, page>>
    BY <1>9, Succeeded
  <2>4. InAChat(t) => InAChat(t)'
    BY <2>3 DEF InAChat
  <2>6. \A e \in lookup : e.text # c.text => e \in lookup'
    BY <2>2
  <2>7. t = c.text => InAChat(t) \/ OnItsWay(t)'
    BY <1>9, <2>1, Succeeded, KeptStored
  <2>5. ASSUME InARow(t) PROVE InARow(t)' \/ InAChat(t) \/ OnItsWay(t)'
    <3> PICK x \in Tab!ToSet(srv) : base[x].text = t
      BY <2>5 DEF InARow
    <3>1. CASE x # c.chat
      <4>1. base'[x] = base[x]
        BY <2>2, <3>1, LiveChats DEF RowIs
      <4> QED BY <2>3, <4>1 DEF InARow
    <3>2. CASE x = c.chat /\ t # c.text
      <4>1. InAChat(t) \/ \E e \in lookup : e.text = t
        BY <2>1, <2>2, <3>2, RowKnown, LiveChats
      <4> QED BY <2>6, <3>2, <4>1 DEF OnItsWay
    <3>3. CASE t = c.text
      BY <2>7, <3>3
    <3> QED BY <3>1, <3>2, <3>3
  <2>8. OnItsWay(t) => OnItsWay(t)' \/ InAChat(t)
    BY <2>6, <2>7 DEF OnItsWay
  <2> QED BY <2>1, <2>2, <2>4, <2>5, <2>8
<1>10. ASSUME NEW c \in lookup, Tab!Fail(c) PROVE NoneMissing'
  <2> SUFFICES ASSUME NEW t \in Text \ summary', Unharmed(t)'
               PROVE  (fetch = t \/ OnItsWay(t) \/ InAChat(t) \/ InARow(t))'
    BY DEF NoneMissing
  <2>1. /\ Unharmed(t) /\ t # NoText
        /\ fetch = t \/ OnItsWay(t) \/ InAChat(t) \/ InARow(t)
    BY <1>10, HarmStays, Failed, PartsAssumption
       DEF NoneMissing, Tab!Next, Tab!ChatTabAssumption
  <2>2. /\ LeftAlone(c) /\ c.at = "posted" /\ UNCHANGED fetch
        /\ \A x \in Chat : base'[x].text = base[x].text
    BY <1>10, Failed DEF RowIs
  <2>3. UNCHANGED <<srv, page>>
    BY <1>10, Failed
  <2>4. InAChat(t) => InAChat(t)'
    BY <2>3 DEF InAChat
  <2>6. \A e \in lookup : e.text # c.text => e \in lookup'
    BY <2>2 DEF LeftAlone
  <2>7. t = c.text => InAChat(t) \/ OnItsWay(t)'
    <3>1. ASSUME t = c.text, ~OnItsWay(t)' PROVE c.kept
      BY <2>1, <2>2, <3>1 DEF LeftAlone, OnItsWay
    <3> QED BY <2>1, <2>2, <3>1, KeptStored
  <2>5. InARow(t) => InARow(t)'
    BY <2>2, <2>3, LiveChats DEF InARow
  <2>8. OnItsWay(t) => OnItsWay(t)' \/ InAChat(t)
    BY <2>6, <2>7 DEF OnItsWay
  <2> QED BY <2>1, <2>2, <2>4, <2>5, <2>8
<1>11. ASSUME NEW c \in lookup, Tab!Drop(c) PROVE NoneMissing'
  <2> SUFFICES ASSUME NEW t \in Text \ summary', Unharmed(t)'
               PROVE  (fetch = t \/ OnItsWay(t) \/ InAChat(t) \/ InARow(t))'
    BY DEF NoneMissing
  <2>1. /\ Unharmed(t) /\ t # NoText
        /\ fetch = t \/ OnItsWay(t) \/ InAChat(t) \/ InARow(t)
    BY <1>11, HarmStays, Dropped, PartsAssumption
       DEF NoneMissing, Tab!Next, Tab!ChatTabAssumption
  <2>2. /\ UNCHANGED <<srv, page, base, fetch>> /\ lookup' = lookup \ {c} /\ c.chat \in Chat
        /\ t = c.text => GivesWay(c.chat, t)
    BY <1>11, Dropped
  <2>3. (InAChat(t) => InAChat(t)') /\ (InARow(t) => InARow(t)')
    BY <2>2 DEF InAChat, InARow
  <2>4. t = c.text => InARow(t)
    BY <2>1, <2>2 DEF GivesWay, RowsLive, InARow
  <2>5. OnItsWay(t) => OnItsWay(t)' \/ t = c.text
    BY <2>2 DEF OnItsWay
  <2> QED BY <2>1, <2>2, <2>3, <2>4, <2>5
<1>12. ASSUME NEW c \in lookup, Tab!Carried(c) PROVE NoneMissing'
  <2>1. UNCHANGED <<srv, page, base, fetch, summary, clobbered>> /\ lookup' = lookup \ {c}
        /\ c.at = "orphan" /\ c.kept
    BY <1>12 DEF Tab!Carried
  <2>2. \A u \in Text : Unharmed(u) /\ OnItsWay(u) => OnItsWay(u)' \/ InAChat(u)
    BY <2>1, KeptStored DEF OnItsWay
  <2>3. \A u \in Text : (InAChat(u) => InAChat(u)') /\ (InARow(u) => InARow(u)')
    BY <2>1 DEF InAChat, InARow
  <2> QED BY <2>1, <2>2, <2>3 DEF NoneMissing, Unharmed
<1>13. ASSUME NEW c \in Chat, Tab!Select(c) PROVE NoneMissing'
  <2>1. UNCHANGED <<srv, page, base, fetch, summary, clobbered>>
    BY <1>13 DEF Tab!Select
  <2>2. \A u \in Text : OnItsWay(u) => OnItsWay(u)'
    BY <1>13, PartsAssumption DEF Tab!Select, OnItsWay
  <2> QED BY <2>1, <2>2 DEF NoneMissing, Unharmed, InAChat, InARow
<1>14. ASSUME NEW c \in Chat, Tab!Delete(c) PROVE NoneMissing'
  <2>1. UNCHANGED <<srv, page, base, fetch, summary, clobbered>>
    BY <1>14 DEF Tab!Delete
  <2>2. \A u \in Text : OnItsWay(u) => OnItsWay(u)'
    BY <1>14, PartsAssumption DEF Tab!Delete, OnItsWay
  <2> QED BY <2>1, <2>2 DEF NoneMissing, Unharmed, InAChat, InARow
<1>15. ASSUME NEW c \in Chat, Tab!Undo(c) PROVE NoneMissing'
  <2>1. UNCHANGED <<srv, page, base, fetch, summary, clobbered>>
    BY <1>15 DEF Tab!Undo
  <2>2. \A u \in Text : OnItsWay(u) => OnItsWay(u)'
    BY <1>15, PartsAssumption DEF Tab!Undo, OnItsWay
  <2> QED BY <2>1, <2>2 DEF NoneMissing, Unharmed, InAChat, InARow
<1>16. ASSUME NEW c \in Chat, Tab!Fire(c) PROVE NoneMissing'
  <2>1. UNCHANGED <<srv, page, base, fetch, summary, clobbered>>
    BY <1>16 DEF Tab!Fire
  <2>2. \A u \in Text : OnItsWay(u) => OnItsWay(u)'
    BY <1>16, PartsAssumption DEF Tab!Fire, OnItsWay
  <2> QED BY <2>1, <2>2 DEF NoneMissing, Unharmed, InAChat, InARow
<1>17. ASSUME NEW c \in Chat, Tab!ServeDelete(c) PROVE NoneMissing'
  <2> SUFFICES ASSUME NEW t \in Text \ summary', Unharmed(t)'
               PROVE  (fetch = t \/ OnItsWay(t) \/ InAChat(t) \/ InARow(t))'
    BY DEF NoneMissing
  <2>1. /\ Unharmed(t) /\ t # NoText
        /\ fetch = t \/ OnItsWay(t) \/ InAChat(t) \/ InARow(t)
    BY <1>17, HarmStays, DeletedChat, PartsAssumption
       DEF NoneMissing, Tab!Next, Tab!ChatTabAssumption
  <2>2. /\ UNCHANGED <<base, fetch, lookup>> /\ c \notin page[t] /\ base[c].text # t
        /\ Tab!ToSet(srv) \ {c} \subseteq Tab!ToSet(srv') /\ page'[t] = page[t] \ {c}
    BY <1>17, DeletedChat
  <2>3. (InAChat(t) => InAChat(t)') /\ (InARow(t) => InARow(t)') /\ (OnItsWay(t) => OnItsWay(t)')
    BY <2>2 DEF InAChat, InARow, OnItsWay
  <2> QED BY <2>1, <2>2, <2>3
<1>18. ASSUME NEW c \in Chat, Tab!DeleteAnswered(c) PROVE NoneMissing'
  <2>1. UNCHANGED <<srv, page, base, fetch, summary, clobbered>>
    BY <1>18 DEF Tab!DeleteAnswered, Tab!Lists
  <2>2. \A u \in Text : OnItsWay(u) => OnItsWay(u)'
    BY <1>18, PartsAssumption DEF Tab!DeleteAnswered, Tab!Lists, OnItsWay
  <2> QED BY <2>1, <2>2 DEF NoneMissing, Unharmed, InAChat, InARow
<1>19. CASE Tab!Stop
  <2> SUFFICES ASSUME NEW t \in Text \ summary', Unharmed(t)'
               PROVE  (fetch = t \/ OnItsWay(t) \/ InAChat(t) \/ InARow(t))'
    BY DEF NoneMissing
  <2>1. /\ Unharmed(t) /\ t # NoText
        /\ fetch = t \/ OnItsWay(t) \/ InAChat(t) \/ InARow(t)
    BY <1>19, HarmStays, Stopped, PartsAssumption
       DEF NoneMissing, Tab!Next, Tab!ChatTabAssumption
  <2> PICK c \in lookup :
        /\ c.at = "posted" /\ LeftAlone(c) /\ RowIs(c.chat, NoText, "none")
        /\ t # c.text => ~GivesWay(c.chat, t)
    BY <1>19, Stopped
  <2>2. /\ RowIs(c.chat, NoText, "none") /\ UNCHANGED fetch
        /\ t # c.text => ~GivesWay(c.chat, t)
    BY <1>19, Stopped
  <2>3. UNCHANGED <<srv, page>>
    BY <1>19, Stopped
  <2>4. InAChat(t) => InAChat(t)'
    BY <2>3 DEF InAChat
  <2>6. \A e \in lookup : e.text # c.text => e \in lookup'
    BY DEF LeftAlone
  <2>7. t = c.text => InAChat(t) \/ OnItsWay(t)'
    <3>1. ASSUME t = c.text, ~OnItsWay(t)' PROVE c.kept
      BY <2>1, <3>1 DEF LeftAlone, OnItsWay
    <3> QED BY <2>1, <3>1, KeptStored
  <2>5. ASSUME InARow(t) PROVE InARow(t)' \/ InAChat(t) \/ OnItsWay(t)'
    <3> PICK x \in Tab!ToSet(srv) : base[x].text = t
      BY <2>5 DEF InARow
    <3>1. CASE x # c.chat
      <4>1. base'[x] = base[x]
        BY <2>2, <3>1, LiveChats DEF RowIs
      <4> QED BY <2>3, <4>1 DEF InARow
    <3>2. CASE x = c.chat /\ t # c.text
      <4>1. InAChat(t) \/ \E e \in lookup : e.text = t
        BY <2>1, <2>2, <3>2, RowKnown, LiveChats
      <4> QED BY <2>6, <3>2, <4>1 DEF OnItsWay
    <3>3. CASE t = c.text
      BY <2>7, <3>3
    <3> QED BY <3>1, <3>2, <3>3
  <2>8. OnItsWay(t) => OnItsWay(t)' \/ InAChat(t)
    BY <2>6, <2>7 DEF OnItsWay
  <2> QED BY <2>1, <2>2, <2>4, <2>5, <2>8
<1>20. CASE Tab!Arrive
  <2>1. UNCHANGED <<srv, page, base, fetch, summary, clobbered>>
    BY <1>20 DEF Tab!Arrive, Tab!Lists
  <2>2. \A u \in Text : OnItsWay(u) => OnItsWay(u)'
    BY <1>20, PartsAssumption DEF Tab!Arrive, Tab!Lists, OnItsWay
  <2> QED BY <2>1, <2>2 DEF NoneMissing, Unharmed, InAChat, InARow
<1>21. CASE Tab!Leave
  <2> SUFFICES ASSUME NEW t \in Text \ summary', Unharmed(t)'
               PROVE  (fetch = t \/ OnItsWay(t) \/ InAChat(t) \/ InARow(t))'
    BY DEF NoneMissing
  <2>1. /\ Unharmed(t) /\ t # NoText
        /\ fetch = t \/ OnItsWay(t) \/ InAChat(t) \/ InARow(t)
    BY <1>21, HarmStays, LeftTab, PartsAssumption
       DEF NoneMissing, Tab!Next, Tab!ChatTabAssumption
  <2>2. UNCHANGED <<srv, page, base>> /\ fetch # t
    BY <1>21, LeftTab
  <2>3. (InAChat(t) => InAChat(t)') /\ (InARow(t) => InARow(t)')
    BY <2>2 DEF InAChat, InARow
  <2>4. \A c \in lookup : \E d \in lookup' : d.text = c.text
    BY <1>21, LeftTab
  <2>5. OnItsWay(t) => OnItsWay(t)'
    BY <2>4 DEF OnItsWay
  <2> QED BY <2>1, <2>2, <2>3, <2>5
<1>22. CASE Tab!Return
  <2>1. UNCHANGED <<srv, page, base, fetch, summary, clobbered>>
    BY <1>22 DEF Tab!Return
  <2>2. \A u \in Text : OnItsWay(u) => OnItsWay(u)'
    BY <1>22, PartsAssumption DEF Tab!Return, OnItsWay
  <2> QED BY <2>1, <2>2 DEF NoneMissing, Unharmed, InAChat, InARow
<1> QED BY <1>1, <1>2, <1>3, <1>4, <1>5, <1>6, <1>7, <1>8, <1>9, <1>10, <1>11, <1>12, <1>13,
   <1>14, <1>15, <1>16, <1>17, <1>18, <1>19, <1>20, <1>21, <1>22 DEF Tab!Next

(* Nothing has been composed, and there is no chat.                         *)
LEMMA ChatInitially ==
    ASSUME PartsAssumption, Tab!Init
    PROVE  ChatInv
<1>1. NoText \notin Text /\ NoChat \notin Chat
  BY PartsAssumption DEF Tab!ChatTabAssumption
<1>2. /\ srv = <<>> /\ doc = <<>> /\ page = [t \in Text |-> {}]
      /\ base = [x \in Chat |-> [text |-> NoText, st |-> "none"]]
      /\ pinned = TRUE /\ conflict = NoChat /\ fetch = NoText /\ local = NoText /\ lookup = {}
      /\ summary = Text /\ written = [t \in Text |-> NoChat] /\ clobbered = [t \in Text |-> {}]
  BY DEF Tab!Init, Tab!NoDraft
<1>3. ChatType
  <2>1. <<>> \in Seq(Chat)
    OBVIOUS
  <2>2. [text |-> NoText, st |-> "none"] \in [text : Tab!Some, st : {"none", "pending", "error"}]
    BY DEF Tab!Some
  <2> QED BY <1>2, <2>1, <2>2 DEF ChatType, Tab!Some
<1>4. Composed /\ AwaitingAlone /\ SentHome
  BY <1>1, <1>2 DEF Composed, AwaitingAlone, SentHome, Unseen
<1>5. StoredHome /\ RowsLive /\ NoneMissing
  BY <1>2 DEF StoredHome, RowsLive, NoneMissing
<1> QED BY <1>3, <1>4, <1>5 DEF ChatInv

(* Every step of the tab and of the server keeps it.                        *)
LEMMA ChatSteps ==
    ASSUME PartsAssumption, ChatInv, [Tab!Next]_MCVars
    PROVE  ChatInv'
<1> USE DEF ChatInv
<1>1. CASE Tab!Next
  <2>1. ChatType'
    BY <1>1, ChatRowsType, ChatPageType, ChatShownType, ChatCallsType, ChatHistoryType
       DEF ChatType, Harms, Tab!Some
  <2>2. Composed' /\ AwaitingAlone'
    BY <1>1, ComposedStep, AwaitingStep
  <2>3. SentHome' /\ StoredHome' /\ RowsLive'
    BY <1>1, SentHomeStep, StoredHomeStep, RowsLiveStep
  <2>4. NoneMissing'
    BY <1>1, NoneMissingStep
  <2> QED BY <2>1, <2>2, <2>3, <2>4
<1>2. CASE UNCHANGED MCVars
  <2> USE <1>2 DEF MCVars
  <2>1. ChatType'
    BY DEF ChatType, Tab!Some
  <2>2. Composed' /\ AwaitingAlone'
    BY DEF Composed, AwaitingAlone, Awaiting, Unseen
  <2>3. SentHome' /\ StoredHome'
    BY DEF SentHome, StoredHome, Gone, Unharmed
  <2>4. RowsLive'
    BY DEF RowsLive, Unharmed
  <2>5. NoneMissing'
    BY DEF NoneMissing, Unharmed, OnItsWay, InAChat, InARow
  <2> QED BY <2>1, <2>2, <2>3, <2>4, <2>5
<1> QED BY <1>1, <1>2

(* A text that was composed is in the composer, on its way, stored or in a  *)
(* failed turn's row, and stored nowhere but in the chat it was sent to,    *)
(* unless something befell it.                                              *)
THEOREM MessagesCorrect == MCSpec => []MessageKept
<1> DEFINE Inv == part = "chat" => ChatInv
<1>1. MCInit => Inv
  BY PartsAssumption, ChatInitially DEF MCInit
<1>2. Inv /\ [MCNext]_MCVars => Inv'
  <2> SUFFICES ASSUME ChatInv, [MCNext]_MCVars, part' = "chat" PROVE ChatInv'
    BY DEF MCNext, MCVars
  <2>1. [Tab!Next]_MCVars
    BY DEF MCNext
  <2> QED BY <2>1, PartsAssumption, ChatSteps
<1>3. ChatInv => Tab!MessageKept
  <2> SUFFICES ASSUME ChatInv, NEW t \in Text \ summary, Unharmed(t)
               PROVE  Tab!Somewhere(t) /\ page[t] \subseteq {written[t]}
    BY DEF Tab!MessageKept, Unharmed
  <2>1. page[t] \subseteq {written[t]}
    BY DEF ChatInv, StoredHome
  <2>2. fetch = t \/ OnItsWay(t) \/ InAChat(t) \/ InARow(t)
    BY DEF ChatInv, NoneMissing
  <2>3. Tab!Somewhere(t)
    BY <2>2 DEF Tab!Somewhere, OnItsWay, InAChat, InARow
  <2> QED BY <2>1, <2>3
<1>4. Inv => MessageKept
  BY <1>3 DEF MessageKept
<1> QED BY <1>1, <1>2, <1>4, PTL DEF MCSpec
=============================================================================
