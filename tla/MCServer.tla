------------------------------ MODULE MCServer ------------------------------
(***************************************************************************)
(* Three parts that share no state, checked in one run: the session store, *)
(* the turns of one chat with the panel that sends them, and one streamed  *)
(* answer on its way to the reader.  A behaviour is a behaviour of one of  *)
(* them, and the others stay as they began.                                *)
(***************************************************************************)
EXTENDS SessionStore

CONSTANTS Turn, Text, NoTurn, NoText, MaxSends, Length

VARIABLES
    part,       \* which of the three this behaviour is of
    msgs, turn, ids, send, entry, cache, fetch, last, unsaid, banner, overlapped, sends, behind,
    served, searched, fault, hints, ended, wire, cut, buffer, status, told, cited, code, http, wait

Chat == INSTANCE ChatTurn WITH draft <- entry
Sse == INSTANCE SseWire WITH text <- told

StoreVars == vars
ChatVars == <<msgs, turn, ids, send, entry, cache, fetch, last, unsaid, banner, overlapped,
              sends, behind>>
WireVars == <<served, searched, fault, hints, ended, wire, cut, buffer, status, told, cited,
              code, http, wait>>
MCVars == <<part, StoreVars, ChatVars, WireVars>>

MCInit ==
    /\ part \in {"store", "chat", "wire"}
    /\ Init /\ Chat!Init /\ Sse!Init

Stores(A) == part = "store" /\ A /\ UNCHANGED <<part, ChatVars, WireVars>>
Chats(A) == part = "chat" /\ A /\ UNCHANGED <<part, StoreVars, WireVars>>
Wires(A) == part = "wire" /\ A /\ UNCHANGED <<part, StoreVars, ChatVars>>

MCNext == Stores(Next) \/ Chats(Chat!Next) \/ Wires(Sse!Next)

(* The fairness of FairSpec of the store and of the chat, each in its own   *)
(* behaviours.                                                              *)
MCSpec ==
    /\ MCInit /\ [][MCNext]_MCVars
    /\ WF_MCVars(Stores(Sweep))
    /\ \A x \in Turn :
         /\ WF_MCVars(Chats(Chat!Serves(x)))
         /\ WF_MCVars(Chats(Chat!RetryReplays(x) \/ Chat!RetrySends(x)))
    /\ WF_MCVars(Chats(Chat!Serve)) /\ WF_MCVars(Chats(Chat!Receive))

(* A reply stands right behind the message it was made for, unless turns    *)
(* overlapped (chat.routes.ts, deleteAllAfter).                             *)
RepliesInPlace == Chat!RepliesInPlace

(* What Venice is asked ends with the message it is to answer, unless turns *)
(* overlapped (chat.routes.ts: the history read for a turn).                *)
PromptEndsWithAnchor == Chat!PromptEndsWithAnchor

(* A panel at rest shows the server's messages, but for what an abandoned   *)
(* turn has changed since (useSendChatMessageMutation).                     *)
PanelTruthful == Chat!PanelTruthful

(* What the reader has been told at the end of a streamed answer is what    *)
(* happened, unless the connection broke (parseAiSseStream, classify).      *)
OutcomeTruthful == Sse!OutcomeTruthful

(* Every send comes to rest (useSendChatMessageMutation, POST messages).    *)
ComesToRest == Chat!ComesToRest
=============================================================================
