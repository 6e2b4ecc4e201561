------------------------------ MODULE MCEditor ------------------------------
(***************************************************************************)
(* The editor's page: the text of a draft, and three parts of the page     *)
(* that share no state with it or with each other.  One run checks them    *)
(* all: a behaviour is a behaviour of one part, and since it is of no      *)
(* other, the parts keep their state in the same variables.                *)
(***************************************************************************)
EXTENDS TLC

CONSTANTS
    MaxMine, MaxOther, MaxVer,
    Chapter, Draft, FirstDraft, Passage, Cursor, MaxRuns,
    Character, Cast, Story, Summary, New, Field, MaxTyped, MaxSheets, MaxSaves,
    MaxCalls, Chat, NoChat, Text, NoText, MaxTurns

VARIABLES
    part,       \* which of the four this behaviour is of
    srv, page, cache, doc, buffer, base, pinned, conflict, save, fetch, flight, flushed,
    local, lookup, offer, summary, written, givenUp, clobbered, perils

Editor == INSTANCE EditorSession

Inline == INSTANCE InlineAI
    WITH viewed <- srv, selected <- page, model <- cache, card <- doc, completion <- buffer,
         lastRun <- base, continuing <- pinned, lastArgs <- conflict, asks <- save,
         strayed <- fetch, risks <- perils
Forms == INSTANCE EditForms
    WITH stored <- srv, data <- page, gets <- cache, sheet <- doc, saves <- buffer,
         generating <- base, opened <- pinned, typed <- conflict, others <- save,
         given <- fetch, trampled <- flight
Tab == INSTANCE ChatTab
    WITH chats <- srv, stored <- page, tail <- cache, list <- doc, stale <- buffer,
         drafts <- base, mounted <- pinned, active <- conflict, hidden <- save, box <- fetch,
         shownCall <- flight, banner <- flushed, last <- local, calls <- lookup,
         deletions <- offer, unsaid <- summary, home <- written, known <- givenUp,
         excuse <- clobbered, turns <- perils

ASSUME PartsAssumption ==
    /\ Editor!EditorSessionAssumption /\ Inline!InlineAIAssumption
    /\ Forms!EditFormsAssumption /\ Tab!ChatTabAssumption

MCVars == <<part, srv, page, cache, doc, buffer, base, pinned, conflict, save, fetch, flight,
            flushed, local, lookup, offer, summary, written, givenUp, clobbered, perils>>

(* What the smaller parts have no use for. *)
spare == <<flushed, local, lookup, offer, summary, written, givenUp, clobbered>>
Unused(v) == v = 0
Spare == /\ Unused(flushed) /\ Unused(local) /\ Unused(lookup) /\ Unused(offer)
         /\ Unused(summary) /\ Unused(written) /\ Unused(givenUp) /\ Unused(clobbered)

MCInit ==
    \/ part = "text" /\ Editor!Init
    \/ part = "inline" /\ Inline!Init /\ Unused(flight) /\ Spare
    \/ part = "forms" /\ Forms!Init /\ Spare
    \/ part = "chat" /\ Tab!Init

MCNext ==
    /\ UNCHANGED part
    /\ \/ part = "text" /\ Editor!Next
       \/ part = "inline" /\ Inline!Next /\ UNCHANGED <<flight, spare>>
       \/ part = "forms" /\ Forms!Next /\ UNCHANGED spare
       \/ part = "chat" /\ Tab!Next

MCSpec == MCInit /\ [][MCNext]_MCVars

(* Chapters, fields and chats are each interchangeable, and passages and    *)
(* the texts composed.                                                      *)
Symmetry == Permutations(Chapter) \cup Permutations(Passage)

-----------------------------------------------------------------------------
(* What the user typed and did not give up is on screen, on its way, in the *)
(* draft's row or in the local record, unless the text met a danger that    *)
(* the code is open to (useChapterDraft.ts, EditorPage.tsx).                *)
LostOnlyInPeril == part = "text" => Editor!LostOnlyInPeril

(* A conditional PATCH removes somebody else's edit only if a read had      *)
(* moved the version under older text (updatedAtByDraftRef).                *)
ClobberedOnlyIfMoved == part = "text" => Editor!ClobberedOnlyIfMoved

(* Typing and saving in one page alone never conflicts with itself          *)
(* (useDrafts.ts, onSuccess; EditorPage.tsx, handleSave).                   *)
ConflictExplained == part = "text" => Editor!ConflictExplained

(* Unsaved text is what the screen shows, unless it was typed while a save  *)
(* was awaited or a read came in over it (Paper.tsx, the setContent effect).*)
ScreenIsBuffer == part = "text" => Editor!ScreenIsBuffer

(* A summary shown as current is one of the draft's text, unless that was   *)
(* written while the model was asked (draft.repo.ts, update).               *)
SummaryFaithful == part = "text" => Editor!SummaryFaithful

(* A model's text goes to the chapter, draft and passage it was asked for,  *)
(* unless a continuation was carried over a change, a card took up another  *)
(* run's text, or the user moved on (EditorPage.tsx, ContinueWriting.tsx).  *)
AITextInPlace == part = "inline" => Inline!AITextInPlace

(* What was typed into a sheet is in it, on its way or stored, unless data  *)
(* from elsewhere came in, a late answer closed the sheet or a save failed  *)
(* unseen; no save replaces a text in a field nobody touched (StoryModal,   *)
(* CharacterSheet, ChapterSummarySheet).                                    *)
FormsLoseNothing == part = "forms" => Forms!FormsLoseNothing

(* A text that was composed is in the composer, on its way or in the chat   *)
(* it was sent to, unless something befell it (ChatSceneTab, ChatComposer). *)
MessageKept == part = "chat" => Tab!MessageKept
=============================================================================
