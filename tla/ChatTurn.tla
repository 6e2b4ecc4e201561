------------------------------ MODULE ChatTurn ------------------------------
(***************************************************************************)
(* One chat: the panel that sends, replays, stops and retries messages     *)
(* (frontend/src/hooks/useChat.ts, useMessageActions.ts,                   *)
(* useBannerRetry.ts, store/chatDraft.ts, components/ChatSceneTab.tsx) and *)
(* the turns the server runs for it                                        *)
(* (backend/src/routes/chat.routes.ts, repos/message.repo.ts,              *)
(* services/venice-stream.service.ts).                                     *)
(*                                                                         *)
(* The panel has one mutation under way at most, but a turn goes on at the *)
(* server after the panel has stopped listening to it: whether and when    *)
(* the server notices is the network's choice.                             *)
(***************************************************************************)
EXTENDS Naturals, Sequences, FiniteSets, SequencesExt

CONSTANTS
    Turn,           \* turns under way at the server at a time
    Text,           \* what the user composes
    NoTurn, NoText,
    MaxSends        \* bound: sends, replays and retries

ChatTurnAssumption ==
    /\ IsFiniteSet(Turn) /\ IsFiniteSet(Text)
    /\ NoTurn \notin Turn /\ NoText \notin Text
    /\ MaxSends \in Nat

VARIABLES
    (* the server *)
    msgs,       \* the chat's messages, by createdAt
    turn,       \* the turns under way
    ids,        \* messages stored so far; the last id
    (* the panel *)
    send,       \* the mutation: idle or pending, its mode and its turn
    draft,      \* the chat's entry of the draft store
    cache,      \* the messages query
    fetch,      \* its GET
    last,       \* lastSendArgsRef
    unsaid,     \* what the user has not composed yet; a text tells its send
    banner,     \* the mutation's error
    (* history *)
    overlapped, \* two turns have run on the chat at a time
    sends,      \* sends, replays and retries so far
    behind      \* an abandoned turn has changed the messages since the last GET

serverVars == <<msgs, turn, ids>>
panelVars == <<send, draft, cache, fetch, last, unsaid, banner>>
vars == <<serverVars, panelVars, overlapped, sends, behind>>

MaxIds == 2 * MaxSends

NoTurnRec == [pc |-> "idle", mode |-> "send", text |-> NoText, anchor |-> 0,
              history |-> <<>>, heard |-> FALSE]
NoFetch == [pc |-> "none", list |-> <<>>]
Asked == [pc |-> "asked", list |-> <<>>]
Resting == [st |-> "idle", mode |-> "send", turn |-> NoTurn]

(* A user's message has its text and answers nothing; a reply names the *)
(* user's message it was generated for.                                  *)
Message == [id : 1..MaxIds, role : {"user", "assistant"},
            text : Text \cup {NoText}, re : 0..MaxIds]

UserIds(s) == {s[i].id : i \in {j \in DOMAIN s : s[j].role = "user"}}
LastUser(s) == IF UserIds(s) = {} THEN 0
               ELSE s[CHOOSE i \in DOMAIN s :
                        /\ s[i].role = "user"
                        /\ \A j \in DOMAIN s : s[j].role = "user" => j <= i].id
Has(s, id) == \E i \in DOMAIN s : s[i].id = id
Upto(s, id) == SubSeq(s, 1, CHOOSE i \in DOMAIN s : s[i].id = id)

TypeOK ==
    /\ msgs \in Seq(Message)
    /\ \A i, j \in DOMAIN msgs : msgs[i].id = msgs[j].id => i = j
    /\ \A x \in Turn :
         /\ turn[x].pc \in {"idle", "posted", "trim", "history", "prepare",
                            "persist", "call", "stream", "reply", "finish"}
         /\ turn[x].mode \in {"send", "retry", "from"}
         /\ turn[x].text \in Text \cup {NoText} /\ turn[x].anchor \in 0..MaxIds
         /\ turn[x].history \in Seq(Message) /\ turn[x].heard \in BOOLEAN
    /\ ids \in 0..MaxIds
    /\ send.st \in {"idle", "pending", "deciding"} /\ send.turn \in Turn \cup {NoTurn}
    /\ draft \in {"none", "thinking", "streaming", "error"}
    /\ cache \in Seq(Message) /\ fetch.pc \in {"none", "asked", "served"}
    /\ last \in Text \cup {NoText} /\ unsaid \subseteq Text /\ banner \in BOOLEAN /\ overlapped \in BOOLEAN
    /\ sends \in 0..MaxSends /\ behind \in BOOLEAN

Init ==
    /\ msgs = <<>> /\ ids = 0
    /\ turn = [x \in Turn |-> NoTurnRec]
    /\ send = Resting /\ draft = "none" /\ cache = <<>> /\ fetch = NoFetch
    /\ last = NoText /\ unsaid = Text /\ banner = FALSE /\ overlapped = FALSE
    /\ sends = 0 /\ behind = FALSE

-----------------------------------------------------------------------------
(* The panel: useSendChatMessageMutation.  onMutate starts the draft and,   *)
(* for a replay, trims the cached list to its anchor.                       *)

Posts(x, mode, text, anchor) ==
    /\ turn[x].pc = "idle"
    /\ turn' = [turn EXCEPT ![x] =
                  [NoTurnRec EXCEPT !.pc = "posted", !.mode = mode,
                     !.text = text, !.anchor = anchor, !.heard = TRUE]]
    /\ send' = [st |-> "pending", mode |-> mode, turn |-> x]
    /\ draft' = "thinking" /\ banner' = FALSE
    /\ overlapped' = (overlapped \/ \E y \in Turn \ {x} : turn[y].pc # "idle")
    /\ UNCHANGED <<msgs, ids, behind>>

Counted == sends < MaxSends /\ sends' = sends + 1

(* onSend: what the composer hands over; lastSendArgsRef remembers it. *)
Send(x, text) ==
    /\ send.st = "idle" /\ Counted
    /\ text \in unsaid /\ unsaid' = unsaid \ {text} /\ last' = text
    /\ Posts(x, "send", text, 0)
    /\ UNCHANGED <<cache, fetch>>

(* resendFromUser / regenerateFromAssistant, past their confirmation. *)
Replay(x, id) ==
    /\ send.st = "idle" /\ Counted
    /\ id \in UserIds(cache)
    /\ cache' = Upto(cache, id)
    /\ Posts(x, "from", NoText, id)
    /\ UNCHANGED <<fetch, last, unsaid>>

Invalidate == fetch' = Asked

(* onSuccess: a stop, before or after the first chunk, ends here too. *)
Succeeds ==
    /\ send' = Resting /\ draft' = "none" /\ Invalidate
    /\ UNCHANGED <<cache, last, unsaid, banner>>

(* Faulty variant: the failed replay leaves the trimmed list as it is. *)
FailsQuietly ==
    /\ send' = Resting /\ draft' = "error" /\ banner' = TRUE
    /\ UNCHANGED <<fetch, cache, last, unsaid>>

(* onError: only a replay refetches. *)
FailsLoudly ==
    /\ send' = Resting /\ draft' = "error" /\ banner' = TRUE
    /\ IF send.mode = "from" THEN Invalidate ELSE UNCHANGED fetch
    /\ UNCHANGED <<cache, last, unsaid>>

Leaves(x) == turn' = [turn EXCEPT ![x].heard = FALSE]

Stop ==
    /\ send.st = "pending"
    /\ Leaves(send.turn) /\ Succeeds
    /\ UNCHANGED <<msgs, ids, overlapped, sends, behind>>

(* The connection breaks: before the headers fetch rejects, afterwards the  *)
(* parser takes it for the end of the stream and the send for complete.     *)
Break ==
    /\ send.st = "pending"
    /\ Leaves(send.turn)
    /\ IF turn[send.turn].pc \in {"stream", "reply", "finish"}
       THEN Succeeds ELSE FailsLoudly
    /\ UNCHANGED <<msgs, ids, overlapped, sends, behind>>

(* useBannerRetry: refetch, then decide by the trailing message. *)
Retry ==
    /\ send.st = "idle" /\ banner /\ last # NoText /\ Counted
    /\ send' = [Resting EXCEPT !.st = "deciding"]
    /\ Invalidate
    /\ UNCHANGED <<serverVars, draft, cache, last, unsaid, banner, overlapped, behind>>

RetryReplays(x) ==
    /\ send.st = "deciding" /\ fetch = NoFetch
    /\ cache # <<>> /\ Last(cache).role = "user"
    /\ Posts(x, "retry", NoText, 0)
    /\ UNCHANGED <<sends, cache, fetch, last, unsaid>>

RetrySends(x) ==
    /\ send.st = "deciding" /\ fetch = NoFetch
    /\ ~(cache # <<>> /\ Last(cache).role = "user")
    /\ Posts(x, "send", last, 0)
    /\ UNCHANGED <<sends, cache, fetch, last, unsaid>>

Serve ==
    /\ fetch = Asked
    /\ fetch' = [pc |-> "served", list |-> msgs] /\ behind' = FALSE
    /\ UNCHANGED <<serverVars, send, draft, cache, last, unsaid, banner, overlapped, sends>>

Receive ==
    /\ fetch.pc = "served"
    /\ cache' = fetch.list /\ fetch' = NoFetch
    /\ UNCHANGED <<serverVars, send, draft, last, unsaid, banner, overlapped, sends, behind>>

-----------------------------------------------------------------------------
(* The server: one turn, statement by statement.                            *)

Goto(x, label) == turn' = [turn EXCEPT ![x].pc = label]
Ends(x) == turn' = [turn EXCEPT ![x] = NoTurnRec]
PanelWaits == UNCHANGED <<panelVars, overlapped, sends, behind>>
Unseen(x) == UNCHANGED <<panelVars, overlapped, sends>> /\ behind' = (behind \/ ~turn[x].heard)

(* An error before the headers: the panel gets it, if it still listens. *)
Answers500(x) ==
    /\ Ends(x) /\ UNCHANGED <<msgs, ids, overlapped, sends, behind>>
    /\ IF turn[x].heard THEN FailsLoudly ELSE UNCHANGED panelVars

Anchor(x) == IF turn[x].mode = "retry" THEN LastUser(msgs) ELSE turn[x].anchor

(* Prior messages, and the anchor among them. *)
Resolve(x) ==
    /\ turn[x].pc = "posted"
    /\ IF turn[x].mode = "send"
       THEN /\ turn' = [turn EXCEPT ![x].pc = "prepare", ![x].history = msgs]
            /\ UNCHANGED <<msgs, ids>> /\ PanelWaits
       ELSE IF Anchor(x) \in UserIds(msgs)
       THEN /\ turn' = [turn EXCEPT ![x].pc = "trim", ![x].anchor = Anchor(x),
                                      ![x].history = msgs]
            /\ UNCHANGED <<msgs, ids>> /\ PanelWaits
       ELSE Answers500(x)

(* The request does not get as far as the route. *)
Refuse(x) == turn[x].pc = "posted" /\ Answers500(x)

(* Faulty variant: the replay keeps what followed its anchor. *)
NoTrim(s, id) == s

(* deleteAllAfter. *)
Trimmed(s, id) == IF Has(s, id) THEN Upto(s, id) ELSE s

Trim(x) ==
    /\ turn[x].pc = "trim"
    /\ msgs' = Trimmed(msgs, turn[x].anchor)
    /\ Goto(x, "history") /\ UNCHANGED ids /\ Unseen(x)

(* Faulty variant: the history is the one read before the trim. *)
StaleHistory(x) ==
    /\ turn[x].pc = "history"
    /\ Goto(x, "prepare") /\ UNCHANGED <<msgs, ids>> /\ PanelWaits

ReadHistory(x) ==
    /\ turn[x].pc = "history"
    /\ turn' = [turn EXCEPT ![x].pc = "prepare", ![x].history = msgs]
    /\ UNCHANGED <<msgs, ids>> /\ PanelWaits

(* Models, settings, chapter, story, characters, prompt: any may fail. *)
Prepare(x) ==
    /\ turn[x].pc = "prepare"
    /\ \/ Goto(x, IF turn[x].mode = "send" THEN "persist" ELSE "call")
          /\ UNCHANGED <<msgs, ids>> /\ PanelWaits
       \/ Answers500(x)

Store(m) == msgs' = Append(msgs, m) /\ ids' = ids + 1

PersistUser(x) ==
    /\ turn[x].pc = "persist"
    /\ Store([id |-> ids + 1, role |-> "user", text |-> turn[x].text, re |-> 0])
    /\ turn' = [turn EXCEPT ![x].pc = "call", ![x].anchor = ids + 1]
    /\ Unseen(x)

(* Venice answers with headers, or with an error. *)
Call(x) ==
    /\ turn[x].pc = "call"
    /\ \/ Goto(x, "stream") /\ UNCHANGED <<msgs, ids>> /\ PanelWaits
       \/ Answers500(x)

Heard(x) == turn[x].heard /\ send.turn = x

Chunk(x) ==
    /\ turn[x].pc = "stream" /\ Heard(x) /\ draft = "thinking"
    /\ draft' = "streaming"
    /\ UNCHANGED <<serverVars, send, cache, fetch, last, unsaid, banner, overlapped, sends, behind>>

(* An error frame: nothing of the reply is kept. *)
StreamFails(x) == turn[x].pc = "stream" /\ Answers500(x)

(* The server notices that nobody listens: it ends without the reply. *)
Notice(x) ==
    /\ turn[x].pc = "stream" /\ ~turn[x].heard
    /\ Ends(x) /\ UNCHANGED <<msgs, ids>> /\ PanelWaits

StreamEnds(x) ==
    /\ turn[x].pc = "stream" /\ Goto(x, "reply")
    /\ UNCHANGED <<msgs, ids>> /\ PanelWaits

(* onDone stores the reply; a failure to is only logged. *)
PersistReply(x) ==
    /\ turn[x].pc = "reply" /\ Goto(x, "finish") /\ Unseen(x)
    /\ \/ Store([id |-> ids + 1, role |-> "assistant", text |-> NoText,
                 re |-> turn[x].anchor])
       \/ UNCHANGED <<msgs, ids>>

(* Faulty variant: the stream is left open after the reply. *)
FinishSilently(x) ==
    /\ turn[x].pc = "finish"
    /\ Ends(x) /\ UNCHANGED <<msgs, ids>> /\ PanelWaits

Finish(x) ==
    /\ turn[x].pc = "finish"
    /\ Ends(x) /\ UNCHANGED <<msgs, ids, overlapped, sends, behind>>
    /\ IF turn[x].heard THEN Succeeds ELSE UNCHANGED panelVars

Serves(x) ==
    \/ Resolve(x) \/ Refuse(x) \/ Trim(x) \/ ReadHistory(x) \/ Prepare(x)
    \/ PersistUser(x) \/ Call(x) \/ StreamFails(x) \/ Notice(x)
    \/ StreamEnds(x) \/ PersistReply(x) \/ Finish(x)

Next ==
    \/ \E x \in Turn : \/ \E text \in Text : Send(x, text)
                       \/ \E id \in 1..MaxIds : Replay(x, id)
                       \/ RetryReplays(x) \/ RetrySends(x)
                       \/ Serves(x) \/ Chunk(x)
    \/ Stop \/ Break \/ Retry \/ Serve \/ Receive

Spec == Init /\ [][Next]_vars
FairSpec ==
    /\ Spec
    /\ \A x \in Turn : WF_vars(Serves(x)) /\ WF_vars(RetryReplays(x) \/ RetrySends(x))
    /\ WF_vars(Serve) /\ WF_vars(Receive)

-----------------------------------------------------------------------------
(* Properties.                                                              *)

(* A reply stands right behind the user's message it was generated for, so  *)
(* a message has one reply at most and a replay has replaced the old one,   *)
(* unless a stopped or broken turn was still running when the next began    *)
(* (deleteAllAfter, the order of the turn's writes).                        *)
RepliesInPlace ==
    \/ overlapped
    \/ \A i \in DOMAIN msgs : msgs[i].role = "assistant" =>
         i > 1 /\ msgs[i - 1].id = msgs[i].re

(* What Venice is asked ends with the message it is to answer: the prompt   *)
(* of a replay is the history re-read after the trim, a send's the history  *)
(* and the new message ([systemMsg, ...history] in the route).              *)
Asking(x) == turn[x].pc = "call" /\ turn[x].mode # "send"
PromptEndsWithAnchor ==
    \A x \in Turn : Asking(x) =>
      \/ overlapped
      \/ turn[x].history # <<>> /\ Last(turn[x].history).id = turn[x].anchor

(* A panel at rest shows the server's messages, failed replays and trims    *)
(* included.  What it may miss is what an abandoned turn wrote since, and,  *)
(* under the banner, user's messages stored by sends that then failed:      *)
(* never a reply, and never does it show a message that is gone (onMutate,  *)
(* onSuccess and onError of the send mutation).                             *)
PanelTruthful ==
    send.st = "idle" /\ fetch = NoFetch /\ ~behind =>
      \/ cache = msgs
      \/ /\ banner /\ IsPrefix(cache, msgs)
         /\ \A i \in Len(cache) + 1..Len(msgs) : msgs[i].role = "user"

(* When the banner's retry finds a reply at the end, the text it is about  *)
(* to send again was never stored (useBannerRetry: "the user did not        *)
(* persist").                                                               *)
RetriedTextUnstored ==
    send.st = "deciding" /\ fetch = NoFetch /\ cache # <<>> /\ Last(cache).role # "user"
      => \A i \in DOMAIN cache : cache[i].text # last

(* The panel comes back to rest from every send, replay and retry.          *)
ComesToRest == []<>(send.st = "idle")
=============================================================================
