-------------------------------- MODULE ChatTab --------------------------------
(***************************************************************************)
(* The Chat tab with its sessions: ChatSceneTab.tsx, ChatComposer.tsx,     *)
(* SessionPicker.tsx, TranscriptView.tsx, ChatPanel.tsx over useChat.ts,   *)
(* useBannerRetry.ts, useSoftDelete.ts and store/chatDraft.ts, against the *)
(* chats of one draft at the server (routes/chat.routes.ts,                *)
(* repos/chat.repo.ts).                                                    *)
(*                                                                         *)
(* ChatTurn models one chat and what the server does for a turn; here a    *)
(* turn stores its message or not, is answered or not, and the question is *)
(* in which chat a message ends up and where it is if it is in none.  An   *)
(* attached passage travels with its message and is left out, and so is    *)
(* the title made of the first message (RowNames).                         *)
(***************************************************************************)
EXTENDS Naturals, Sequences, FiniteSets, SequencesExt

CONSTANTS
    Chat, NoChat,   \* ids of chats; no chat
    Text, NoText,   \* what the user composes; an empty composer
    MaxCalls,       \* bound: calls under way at a time
    MaxTurns        \* bound: chats deleted, retries, and times the tab is left

ChatTabAssumption ==
    /\ IsFiniteSet(Chat) /\ NoChat \notin Chat /\ NoText \notin Text
    /\ {MaxCalls, MaxTurns} \subseteq Nat

VARIABLES
    (* the server *)
    chats,      \* the chats that exist, the latest active one first
    stored,     \* the chats that hold a text
    tail,       \* a chat's last message
    (* the browser *)
    list,       \* the cached list of chats
    stale,      \* it is being listed anew
    drafts,     \* the draft store, by chat
    mounted,    \* the tab is shown
    active,     \* activeChatId
    hidden,     \* deletions the user may still undo
    box,        \* the composer
    shownCall,  \* the send whose state the mutation shows; 0 for none pending
    banner,     \* its error is shown
    last,       \* lastSendArgsRef
    calls,      \* creations and sends under way, and sends nobody waits for
    deletions,  \* the DELETE requests under way
    (* history *)
    unsaid,     \* texts not composed yet
    home,       \* the chat each text was sent to from the composer
    known,      \* what a chat held when its deletion was asked for
    excuse,     \* what befell each text; see MessageKept
    turns       \* deletions, retries and leaves so far

server == <<chats, stored, tail>>
page == <<mounted, active, hidden, box>>
mutation == <<shownCall, banner, last>>
history == <<unsaid, home, known, excuse, turns>>
vars == <<server, list, stale, drafts, page, mutation, calls, deletions, history>>

NoDraft == [text |-> NoText, st |-> "none"]
Some == Text \cup {NoText}

TypeOK ==
    /\ chats \in Seq(Chat) /\ list \in Seq(Chat)
    /\ stored \in [Text -> SUBSET Chat] /\ tail \in [Chat -> {"none", "user", "reply"}]
    /\ drafts \in [Chat -> [text : Some, st : {"none", "pending", "error"}]]
    /\ {stale, mounted, banner} \subseteq BOOLEAN
    /\ active \in Chat \cup {NoChat} /\ hidden \subseteq Chat /\ deletions \subseteq Chat
    /\ box \in Some /\ last \in Some /\ unsaid \subseteq Text
    /\ shownCall \in 0..MaxCalls
    /\ \A c \in calls :
         /\ c.id \in 1..MaxCalls /\ c.text \in Some /\ c.chat \in Chat \cup {NoChat}
         /\ c.at \in {"creating", "created", "posted", "orphan"}
         /\ c.kept \in BOOLEAN /\ c.here \in BOOLEAN
    /\ home \in [Text -> Chat \cup {NoChat}] /\ known \in [Chat -> SUBSET Text]
    /\ excuse \in [Text -> SUBSET {"left", "overtyped", "dropped", "replaced", "doomed",
                                   "deleted", "strayed"}]
    /\ turns \in 0..MaxTurns

Init ==
    /\ chats = <<>> /\ stored = [t \in Text |-> {}] /\ tail = [c \in Chat |-> "none"]
    /\ list = <<>> /\ stale = FALSE /\ drafts = [c \in Chat |-> NoDraft]
    /\ mounted = TRUE /\ active = NoChat /\ hidden = {} /\ box = NoText
    /\ shownCall = 0 /\ banner = FALSE /\ last = NoText /\ calls = {} /\ deletions = {}
    /\ unsaid = Text /\ home = [t \in Text |-> NoChat] /\ known = [c \in Chat |-> {}]
    /\ excuse = [t \in Text |-> {}]
    /\ turns = 0

Counted == turns < MaxTurns /\ turns' = turns + 1
Excuses(texts, why) ==
    excuse' = [t \in Text |-> IF t \in texts THEN excuse[t] \cup {why} ELSE excuse[t]]

(* The effect that selects: the first session if none is active or the      *)
(* active one is gone; sessions whose deletion is pending are among them.   *)
Selected(a, l) == IF a \in ToSet(l) THEN a ELSE IF l = <<>> THEN NoChat ELSE l[1]

Lists(l) == list' = l /\ active' = IF mounted THEN Selected(active, l) ELSE active

-----------------------------------------------------------------------------
(* Calls.                                                                    *)

Fresh(id) == /\ \A c \in calls : c.id # id
             /\ \A k \in 1..id - 1 : \E c \in calls : c.id = k
Call(id, t, c, at) ==
    [id |-> id, text |-> t, chat |-> c, at |-> at, kept |-> FALSE, here |-> TRUE]
Becomes(c, d) == calls' = (calls \ {c}) \cup {d}

(* A text that is only in the failed turn's row of a chat. *)
OnlyInDraft(c) == {t \in Text : drafts[c] = [text |-> t, st |-> "error"] /\ stored[t] = {}}

(* useSendChatMessageMutation: onMutate starts the chat's draft over; a     *)
(* mutation shows the state of the latest call made through it.             *)
Post(d) ==
    /\ drafts' = [drafts EXCEPT ![d.chat] = [text |-> d.text, st |-> "pending"]]
    /\ IF d.here THEN shownCall' = d.id /\ banner' = FALSE ELSE UNCHANGED <<shownCall, banner>>
    /\ excuse' = [t \in Text |->
         excuse[t] \cup {w \in {"replaced", "doomed"} :
            CASE w = "replaced" -> t \in OnlyInDraft(d.chat) \ {d.text}
              [] w = "doomed" -> t = d.text /\ d.chat \notin ToSet(chats)}]

Type(t) ==
    /\ mounted /\ shownCall = 0 /\ box = NoText /\ t \in unsaid
    /\ box' = t /\ unsaid' = unsaid \ {t}
    /\ UNCHANGED <<server, list, stale, drafts, mounted, active, hidden, mutation, calls,
                   deletions, home, known, excuse, turns>>

(* handleSend and onSend: the composer is cleared at once; without an       *)
(* active chat one is created first, and the composer stays open meanwhile. *)
Send(id) ==
    /\ mounted /\ shownCall = 0 /\ box # NoText /\ Fresh(id)
    /\ box' = NoText /\ home' = [home EXCEPT ![box] = active]
    /\ IF active = NoChat
       THEN /\ calls' = calls \cup {Call(id, box, NoChat, "creating")}
            /\ UNCHANGED <<drafts, mutation, excuse>>
       ELSE /\ calls' = calls \cup {Call(id, box, active, "posted")} /\ last' = box
            /\ Post(Call(id, box, active, "posted"))
    /\ UNCHANGED <<server, list, stale, mounted, active, hidden, deletions, unsaid, known, turns>>

(* onNew. *)
NewChat(id) ==
    /\ mounted /\ Fresh(id) /\ calls' = calls \cup {Call(id, NoText, NoChat, "creating")}
    /\ UNCHANGED <<server, list, stale, drafts, page, mutation, deletions, history>>

ServeCreate(c, new) ==
    /\ c.at = "creating" /\ new \notin ToSet(chats) /\ known[new] = {} /\ tail[new] = "none"
    /\ \A t \in Text : home[t] # new
    /\ \A d \in calls : d.chat # new
    /\ chats' = <<new>> \o chats /\ Becomes(c, [c EXCEPT !.at = "created", !.chat = new])
    /\ UNCHANGED <<stored, tail, list, stale, drafts, page, mutation, deletions, history>>

(* The new chat is put into the list and selected, and the text posted. *)
Created(c) ==
    /\ c.at = "created" /\ stale' = TRUE
    /\ list' = <<c.chat>> \o RemoveFirst(list, c.chat)
    /\ active' = IF mounted /\ c.here THEN c.chat ELSE active
    /\ IF c.text = NoText
       THEN calls' = calls \ {c} /\ UNCHANGED <<drafts, mutation, excuse, home>>
       ELSE /\ Becomes(c, [c EXCEPT !.at = "posted"])
            /\ home' = [home EXCEPT ![c.text] = c.chat]
            /\ last' = IF c.here THEN c.text ELSE last
            /\ Post(c)
    /\ UNCHANGED <<server, mounted, hidden, box, deletions, unsaid, known, turns>>

(* Faulty variant: the composer is told that the message was accepted. *)
KeepsCleared(c) ==
    box' = box /\ excuse' = IF c.here THEN excuse ELSE [excuse EXCEPT ![c.text] = @ \cup {"left"}]

(* The composer takes a text that was not consumed back, if it is empty. *)
TakesBack(c) ==
    IF c.here /\ box = NoText THEN box' = c.text /\ UNCHANGED excuse
    ELSE UNCHANGED box /\ Excuses({c.text}, IF c.here THEN "overtyped" ELSE "left")

(* The creation fails, or its answer is lost. *)
CreateFails(c) ==
    /\ c.at \in {"creating", "created"} /\ calls' = calls \ {c}
    /\ IF c.text = NoText THEN UNCHANGED <<box, excuse>> ELSE TakesBack(c)
    /\ UNCHANGED <<server, list, stale, drafts, mounted, active, hidden, mutation, deletions,
                   unsaid, home, known, turns>>

-----------------------------------------------------------------------------
(* A turn: its message is stored, and the chat becomes the latest active.   *)

Persist(c) ==
    /\ c.at \in {"posted", "orphan"} /\ ~c.kept /\ c.text # NoText
    /\ c.chat \in ToSet(chats)
    /\ chats' = <<c.chat>> \o RemoveFirst(chats, c.chat)
    /\ stored' = [stored EXCEPT ![c.text] = @ \cup {c.chat}]
    /\ tail' = [tail EXCEPT ![c.chat] = "user"] /\ Becomes(c, [c EXCEPT !.kept = TRUE])
    /\ UNCHANGED <<list, stale, drafts, page, mutation, deletions, history>>

Settled(c) == IF c.here /\ shownCall = c.id THEN shownCall' = 0 ELSE UNCHANGED shownCall

(* onSuccess; what the draft store holds for the chat is cleared. *)
Succeed(c) ==
    /\ c.at = "posted" /\ (c.kept \/ (c.text = NoText /\ c.chat \in ToSet(chats)))
    /\ calls' = calls \ {c} /\ tail' = [tail EXCEPT ![c.chat] = "reply"]
    /\ drafts' = [drafts EXCEPT ![c.chat] = NoDraft] /\ Settled(c) /\ stale' = TRUE
    /\ Excuses(OnlyInDraft(c.chat) \ {c.text}, "replaced")
    /\ UNCHANGED <<chats, stored, list, page, banner, last, deletions, unsaid, home, known, turns>>

Abandoned(c) ==
    IF c.kept \/ c.text = NoText THEN calls' = calls \ {c}
    ELSE Becomes(c, [c EXCEPT !.at = "orphan"])

(* The turn fails at the panel, whatever becomes of it at the server. *)
Fail(c) ==
    /\ c.at = "posted" /\ Abandoned(c) /\ Settled(c)
    /\ drafts' = [drafts EXCEPT ![c.chat].st = IF @ = "none" THEN @ ELSE "error"]
    /\ banner' = (banner \/ (c.here /\ shownCall = c.id))
    /\ UNCHANGED <<server, list, stale, page, last, deletions, history>>

Stop ==
    \E c \in calls :
      /\ c.at = "posted" /\ c.here /\ shownCall = c.id /\ Abandoned(c)
      /\ shownCall' = 0 /\ stale' = TRUE /\ drafts' = [drafts EXCEPT ![c.chat] = NoDraft]
      /\ Excuses(OnlyInDraft(c.chat) \ {c.text}, "replaced")
      /\ UNCHANGED <<server, list, page, banner, last, deletions, unsaid, home, known, turns>>

(* A send nobody waits for is not carried out. *)
Drop(c) ==
    /\ c.at = "orphan" /\ ~c.kept /\ calls' = calls \ {c}
    /\ Excuses(IF c.text \in OnlyInDraft(c.chat) THEN {} ELSE {c.text}, "dropped")
    /\ UNCHANGED <<server, list, stale, drafts, page, mutation, deletions, unsaid, home, known,
                   turns>>

Carried(c) ==
    /\ c.at = "orphan" /\ c.kept /\ calls' = calls \ {c}
    /\ \E r \in {"user", "reply"} : tail' = [tail EXCEPT ![c.chat] = r]
    /\ UNCHANGED <<chats, stored, list, stale, drafts, page, mutation, deletions, history>>

(* The banner stands in whichever chat is shown and has messages.  Its      *)
(* Retry replays that chat's last message, or sends the last text to it.    *)
HasRows(c) == tail[c] # "none" \/ drafts[c].text # NoText
Retry(id) ==
    /\ mounted /\ banner /\ shownCall = 0 /\ last # NoText /\ Fresh(id)
    /\ active # NoChat /\ HasRows(active) /\ Counted
    /\ LET d == Call(id, IF tail[active] = "user" THEN NoText ELSE last, active, "posted")
       IN /\ calls' = calls \cup {d} /\ shownCall' = id /\ banner' = FALSE
          /\ drafts' = [drafts EXCEPT ![active] = [text |-> d.text, st |-> "pending"]]
          /\ excuse' = [t \in Text |->
               excuse[t] \cup {w \in {"replaced", "strayed", "doomed"} :
                 CASE w = "replaced" -> t \in OnlyInDraft(active) \ {d.text}
                   [] w = "strayed" -> t = d.text /\ home[t] # active
                   [] w = "doomed" -> t = d.text /\ active \notin ToSet(chats)}]
    /\ UNCHANGED <<server, list, stale, page, last, deletions, unsaid, home, known>>

-----------------------------------------------------------------------------
(* The picker.                                                              *)

Select(c) ==
    /\ mounted /\ c \in ToSet(list) \ hidden /\ active # c /\ active' = c
    /\ UNCHANGED <<server, list, stale, drafts, mounted, hidden, box, mutation, calls, deletions,
                   history>>

Holds(c) == {t \in Text : \/ c \in stored[t] \/ drafts[c].text = t
                          \/ \E d \in calls : d.chat = c /\ d.text = t}

(* onDelete, and the effect at once after it. *)
Delete(c) ==
    /\ mounted /\ c \in ToSet(list) \ hidden /\ Counted
    /\ hidden' = hidden \cup {c} /\ known' = [known EXCEPT ![c] = Holds(c)]
    /\ active' = IF active # c THEN active
                 ELSE LET rest == RemoveFirst(list, c)
                      IN Selected(IF rest = <<>> THEN NoChat ELSE rest[1], list)
    /\ UNCHANGED <<server, list, stale, drafts, mounted, box, mutation, calls, deletions, unsaid,
                   home, excuse>>

Undo(c) ==
    /\ mounted /\ c \in hidden /\ hidden' = hidden \ {c} /\ known' = [known EXCEPT ![c] = {}]
    /\ UNCHANGED <<server, list, stale, drafts, mounted, active, box, mutation, calls, deletions,
                   unsaid, home, excuse, turns>>

Fire(c) ==
    /\ mounted /\ c \in hidden /\ hidden' = hidden \ {c} /\ deletions' = deletions \cup {c}
    /\ UNCHANGED <<server, list, stale, drafts, mounted, active, box, mutation, calls, history>>

(* The chat and its messages are deleted, and the list told. *)
ServeDelete(c) ==
    /\ c \in deletions /\ c \in ToSet(chats) /\ chats' = RemoveFirst(chats, c)
    /\ stored' = [t \in Text |-> stored[t] \ {c}]
    /\ excuse' = [t \in Text |-> excuse[t] \cup {w \in {"deleted", "doomed"} :
                     t \in Holds(c) /\ (w = "deleted" <=> t \in known[c])}]
    /\ UNCHANGED <<tail, list, stale, drafts, page, mutation, calls, deletions, unsaid, home,
                   known, turns>>

DeleteAnswered(c) ==
    /\ c \in deletions /\ deletions' = deletions \ {c}
    /\ \/ c \notin ToSet(chats) /\ Lists(RemoveFirst(list, c)) /\ stale' = TRUE
       \/ UNCHANGED <<list, active, stale>>
    /\ UNCHANGED <<server, drafts, mounted, hidden, box, mutation, calls, history>>

Arrive ==
    /\ stale /\ stale' = FALSE /\ Lists(chats)
    /\ UNCHANGED <<server, drafts, mounted, hidden, box, mutation, calls, deletions, history>>

(* The other tab of the panel: this one is unmounted, its timers cleared.   *)
Leave ==
    /\ mounted /\ mounted' = FALSE /\ Counted
    /\ hidden' = {} /\ box' = NoText /\ active' = NoChat
    /\ known' = [c \in Chat |-> IF c \in hidden THEN {} ELSE known[c]]
    /\ shownCall' = 0 /\ banner' = FALSE /\ last' = NoText
    /\ calls' = {[c EXCEPT !.here = FALSE] : c \in calls}
    /\ Excuses({box} \cap Text, "left")
    /\ UNCHANGED <<server, list, stale, drafts, deletions, unsaid, home>>

Return ==
    /\ ~mounted /\ mounted' = TRUE /\ active' = Selected(NoChat, list)
    /\ \E fetched \in {stale, TRUE} : stale' = fetched
    /\ UNCHANGED <<server, list, drafts, hidden, box, mutation, calls, deletions, history>>

Next ==
    \/ \E t \in Text : Type(t)
    \/ \E id \in 1..MaxCalls : Send(id) \/ NewChat(id) \/ Retry(id)
    \/ \E c \in calls :
         \/ \E new \in Chat : ServeCreate(c, new)
         \/ Created(c) \/ CreateFails(c) \/ Persist(c) \/ Succeed(c) \/ Fail(c) \/ Drop(c)
         \/ Carried(c)
    \/ \E c \in Chat : \/ Select(c) \/ Delete(c) \/ Undo(c) \/ Fire(c)
                       \/ ServeDelete(c) \/ DeleteAnswered(c)
    \/ Stop \/ Arrive \/ Leave \/ Return

Spec == Init /\ [][Next]_vars

-----------------------------------------------------------------------------
(* Every text that was composed is in the composer, on its way, stored in   *)
(* a chat that exists or in the row of a failed turn of one, and stored     *)
(* nowhere but in the chat it was sent to, unless one of these befell it:   *)
(* the tab was left before its chat was created; something else was typed   *)
(* while the creation failed; it was dropped after it had been stopped; the *)
(* row of its failed turn gave way to another; its chat was deleted, the    *)
(* text in it or sent to it later; Retry was pressed in another chat        *)
(* (onSend, TakesBack of the composer, useBannerRetry).                     *)
Somewhere(t) ==
    \/ box = t \/ \E c \in calls : c.text = t
    \/ \E c \in ToSet(chats) : c \in stored[t] \/ drafts[c].text = t
MessageKept ==
    \A t \in Text \ unsaid : excuse[t] = {} => Somewhere(t) /\ stored[t] \subseteq {home[t]}
================================================================================
