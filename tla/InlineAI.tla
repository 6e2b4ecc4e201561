------------------------------- MODULE InlineAI -------------------------------
(***************************************************************************)
(* The two ways text from a model gets into the document: the result card  *)
(* of the selection bubble (components/SelectionBubble.tsx,                *)
(* InlineAIResult.tsx, store/inlineAIResult.ts, the handlers and effects   *)
(* of pages/EditorPage.tsx) and the continue-writing bar                   *)
(* (ContinueWriting.tsx), each over a useAICompletion of its own.          *)
(*                                                                         *)
(* A document is a chapter and one of its drafts, a text the number of the *)
(* run that wrote it.  The question is whether a text goes where it was    *)
(* asked for.                                                              *)
(***************************************************************************)
EXTENDS Naturals, Sequences

CONSTANTS
    Chapter,        \* the story's chapters
    Draft,          \* the drafts each has
    FirstDraft,     \* the one a chapter is opened with
    Passage,        \* the passages of a document
    Cursor,         \* the selection that holds no text
    MaxRuns         \* bound: requests to /ai/complete

InlineAIAssumption ==
    FirstDraft \in Draft /\ Cursor \notin Passage /\ MaxRuns \in Nat

Doc == Chapter \X Draft
Ask == [doc : Doc, pass : {Cursor} \cup Passage]
NoRun == 0
Run == 0..MaxRuns
Status == {"idle", "thinking", "streaming", "done", "error"}

VARIABLES
    viewed,         \* the document the editor holds
    selected,       \* the editor's selection
    model,          \* a model is chosen (selectedModelId # null)
    card,           \* inlineAIResult: what it was opened for, and the text it shows
    completion,     \* EditorPage's useAICompletion
    lastRun,        \* lastRunArgsRef, by the run it was last given to
    continuing,     \* ContinueWriting's useAICompletion
    lastArgs,       \* its lastArgsRef
    asks,           \* what each run was asked for
    strayed,        \* in what respect a placed text missed its place
    risks           \* which dangers there were; see AITextInPlace

page == <<viewed, selected, model>>
bubble == <<card, completion, lastRun>>
bar == <<continuing, lastArgs>>
history == <<strayed, risks>>
vars == <<page, bubble, bar, asks, history>>

Completion == [status : Status, run : Run, text : BOOLEAN]
Idle == [status |-> "idle", run |-> NoRun, text |-> FALSE]
InFlight(c) == c.status \in {"thinking", "streaming"}

TypeOK ==
    /\ viewed \in Doc /\ selected \in {Cursor} \cup Passage /\ model \in BOOLEAN
    /\ \A c \in card : c.at \in Ask /\ c.status \in Status /\ c.out \in Run
    /\ {completion, continuing} \subseteq Completion
    /\ lastRun \in Run /\ lastArgs \in Run
    /\ asks \in Seq(Ask) /\ Len(asks) <= MaxRuns
    /\ strayed \subseteq {"chapter", "draft", "passage"}
    /\ risks \subseteq {"moved", "redrafted", "carried", "unrun"}

Init ==
    /\ viewed \in Chapter \X {FirstDraft} /\ selected = Cursor /\ model \in BOOLEAN
    /\ card = {} /\ completion = Idle /\ lastRun = NoRun
    /\ continuing = Idle /\ lastArgs = NoRun
    /\ asks = <<>> /\ strayed = {} /\ risks = {}

Meets(cond, r) == risks' = IF cond THEN risks \cup {r} ELSE risks
Open == card # {} \/ continuing # Idle

(* run: the run before it is aborted, and no longer heard of. *)
Starts(ask) ==
    /\ Len(asks) < MaxRuns /\ asks' = Append(asks, ask)
Started == [status |-> "thinking", run |-> Len(asks) + 1, text |-> FALSE]

-----------------------------------------------------------------------------
(* The page.                                                                *)

(* The cursor is put elsewhere, by a click, a selection or typing. *)
Select(p) ==
    /\ p # selected /\ selected' = p /\ Meets(Open, "moved")
    /\ UNCHANGED <<viewed, model, bubble, bar, asks, strayed>>

(* Paper is mounted anew for another draft of the chapter. *)
ViewDraft(d) ==
    /\ d # viewed[2] /\ viewed' = <<viewed[1], d>> /\ selected' = Cursor
    /\ Meets(Open, "redrafted")
    /\ UNCHANGED <<model, bubble, bar, asks, strayed>>

(* Faulty variant: the card is kept. *)
KeepsCard == UNCHANGED <<card, lastRun>>

(* The effect on a change of chapter.  The run under way is not cancelled. *)
ClearsCard == card' = {} /\ lastRun' = NoRun

ViewChapter(c) ==
    /\ c # viewed[1] /\ viewed' = <<c, FirstDraft>> /\ selected' = Cursor
    /\ ClearsCard /\ Meets(continuing # Idle, "carried")
    /\ UNCHANGED <<model, completion, bar, asks, strayed>>

(* Without a model ContinueWriting is not rendered, and forgets. *)
ChooseModel ==
    /\ model' = ~model
    /\ IF model' THEN UNCHANGED bar ELSE continuing' = Idle /\ lastArgs' = NoRun
    /\ UNCHANGED <<viewed, selected, bubble, asks, history>>

(* A text of the run is put at the editor's selection, which it replaces or *)
(* follows; the cursor is behind it then.                                   *)
Places(run) ==
    LET ask == asks[run] IN
    /\ strayed' = strayed
          \cup {s \in {"chapter"} : ask.doc[1] # viewed[1]}
          \cup {s \in {"draft"} : ask.doc # viewed}
          \cup {s \in {"passage"} : ask.pass # selected}
    /\ selected' = Cursor

-----------------------------------------------------------------------------
(* The bubble and its card.                                                 *)

Shown(ask, status) == {[at |-> ask, status |-> status, out |-> NoRun]}

(* handleSelectionAction: rewrite, describe, expand. *)
Act ==
    LET ask == [doc |-> viewed, pass |-> selected] IN
    /\ selected # Cursor
    /\ \/ /\ ~model /\ card' = Shown(ask, "error")
          /\ Meets(InFlight(completion), "unrun")
          /\ UNCHANGED <<asks, completion, lastRun>>
       \/ /\ model /\ card' = Shown(ask, "thinking")
          /\ Starts(ask) /\ completion' = Started /\ lastRun' = Started.run
          /\ UNCHANGED risks
    /\ UNCHANGED <<page, bar, strayed>>

(* Retry, of the card or of its error banner: handleInlineRetry.  A card    *)
(* opened without a run retries the run before it.                          *)
RetryAct ==
    \E c \in card :
      /\ c.status \in {"done", "error"} /\ lastRun # NoRun
      /\ card' = Shown(asks[lastRun], "thinking")
      /\ Starts(asks[lastRun]) /\ completion' = Started /\ lastRun' = Started.run
      /\ Meets(c.at # asks[lastRun], "unrun")
      /\ UNCHANGED <<page, bar, strayed>>

(* Discard and Escape; the run goes on. *)
Dismiss ==
    /\ card # {} /\ card' = {}
    /\ UNCHANGED <<page, completion, lastRun, bar, asks, history>>

(* Replace, Insert after. *)
Accept ==
    \E c \in card :
      /\ c.status = "done" /\ c.out # NoRun
      /\ Places(c.out) /\ card' = {} /\ Meets(continuing # Idle, "moved")
      /\ UNCHANGED <<viewed, model, completion, lastRun, bar, asks>>

(* What the stream brings: a chunk, the end, an error. *)
Heard(c) ==
    {[c EXCEPT !.status = "streaming", !.text = TRUE],
     [c EXCEPT !.status = "done"], [c EXCEPT !.status = "error"]}

(* The mirror effect: whichever card is open shows the run's text. *)
Mirror(c) ==
    card' = {[k EXCEPT !.status = c.status,
                       !.out = IF c.text /\ c.status # "error" THEN c.run ELSE NoRun] :
               k \in card}

Hear ==
    \E c \in Heard(completion) :
      /\ InFlight(completion) /\ completion' = c /\ Mirror(c)
      /\ UNCHANGED <<page, lastRun, bar, asks, history>>

-----------------------------------------------------------------------------
(* The bar.                                                                 *)

(* trigger: the button, or Alt+Enter. *)
Continue ==
    /\ model /\ continuing = Idle
    /\ Starts([doc |-> viewed, pass |-> selected])
    /\ continuing' = Started /\ lastArgs' = Started.run
    /\ UNCHANGED <<page, bubble, history>>

(* handleRetry: with the arguments of the first call. *)
RetryContinue ==
    /\ continuing.status \in {"done", "error"} /\ lastArgs # NoRun
    /\ Starts(asks[lastArgs]) /\ continuing' = Started
    /\ UNCHANGED <<page, bubble, lastArgs, history>>

HearContinuation ==
    \E c \in Heard(continuing) :
      /\ InFlight(continuing) /\ continuing' = c
      /\ UNCHANGED <<page, bubble, lastArgs, asks, history>>

Keep ==
    /\ continuing.status = "done" /\ continuing.text /\ Places(continuing.run)
    /\ continuing' = Idle /\ lastArgs' = NoRun /\ Meets(card # {}, "moved")
    /\ UNCHANGED <<viewed, model, bubble, asks>>

DiscardContinuation ==
    /\ continuing # Idle /\ ~InFlight(continuing)
    /\ continuing' = Idle /\ lastArgs' = NoRun
    /\ UNCHANGED <<page, bubble, asks, history>>

Next ==
    \/ \E p \in {Cursor} \cup Passage : Select(p)
    \/ \E d \in Draft : ViewDraft(d)
    \/ \E c \in Chapter : ViewChapter(c)
    \/ ChooseModel
    \/ Act \/ RetryAct \/ Dismiss \/ Accept \/ Hear
    \/ Continue \/ RetryContinue \/ HearContinuation \/ Keep \/ DiscardContinuation

Spec == Init /\ [][Next]_vars

-----------------------------------------------------------------------------
(* A model's text goes into the chapter it was asked for, unless it is a    *)
(* continuation carried over a change of chapter, or a card opened without  *)
(* a run took up the text of one still streaming, or retried an older one:  *)
(* "Cancel + clear the inline card on chapter / story switch so a           *)
(* half-streamed rewrite doesn't bleed into the next chapter"               *)
(* (EditorPage.tsx:633).  It goes into its draft and to its passage unless, *)
(* besides, the draft was switched or the cursor moved while the text was   *)
(* on offer.                                                                *)
AITextInPlace ==
    /\ "chapter" \in strayed => risks \cap {"carried", "unrun"} # {}
    /\ "draft" \in strayed => risks \cap {"carried", "unrun", "redrafted"} # {}
    /\ "passage" \in strayed => risks # {}
=============================================================================
