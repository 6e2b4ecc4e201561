---------------------------- MODULE PromptBudget ----------------------------
(***************************************************************************)
(* How a prompt is fitted to a model's context (backend/src/services/      *)
(* prompt.service.ts: buildPrompt; routes/chat.routes.ts appends the       *)
(* history).  Texts are their lengths in characters; the parts that are    *)
(* never cut are taken together, by their estimated tokens.                *)
(***************************************************************************)
EXTENDS Integers, SequencesExt

CONSTANTS
    Context, Response,  \* bounds: token counts of the models tried
    Fixed,              \* bound: tokens of the parts that are never cut
    Size, MaxEntries,   \* bounds: lengths of a previous chapter's rendering, how many
    Chapter, Escapes,   \* bounds: lengths of the chapter, characters escaping adds
    History             \* bound: tokens of the chat's earlier messages

(* The system prompt, a part that is never cut, is never blank. *)
PromptBudgetAssumption ==
    /\ Context \cup Response \cup Size \cup Chapter \cup Escapes \cup History \subseteq Nat
    /\ Fixed \subseteq Nat \ {0} /\ MaxEntries \in Nat

VARIABLES
    input,      \* what buildPrompt is called with
    entries,    \* previous chapters still in
    truncated,  \* truncatedCount
    chapter,    \* length of what is left of the chapter's text
    pc

vars == <<input, entries, truncated, chapter, pc>>

Init ==
    /\ input \in [context : Context, response : Response, fixed : Fixed, before : SeqOf(Size, MaxEntries),
                  chapter : Chapter, escapes : Escapes, history : History]
    /\ entries = input.before /\ truncated = 0 /\ chapter = input.chapter /\ pc = "fit"

SafetyMargin == 512

estimateTokens(chars) == (chars + 3) \div 4

AtLeast0(n) == IF n < 0 THEN 0 ELSE n

(* Faulty variant: no margin. *)
ToTheBrim == AtLeast0(input.context - input.response)

PromptBudgetTokens == AtLeast0(input.context - input.response - SafetyMargin)

(* renderPreviousChaptersBlock: the tags, the renderings, a line break each. *)
Block(kept, cut) ==
    IF kept = <<>> THEN 0
    ELSE (IF cut > 0 THEN 39 ELSE 19) + 20 + FoldSeq(+, 0, kept) + Len(kept) + 1

ChapterBudget(kept, cut) ==
    PromptBudgetTokens - input.fixed - estimateTokens(Block(kept, cut))

(* entries.shift() *)
Shifted(kept) == Tail(kept)

(* The loop. *)
Shift ==
    /\ pc = "fit" /\ ChapterBudget(entries, truncated) <= 0 /\ entries # <<>>
    /\ entries' = Shifted(entries) /\ truncated' = truncated + 1
    /\ UNCHANGED <<input, chapter, pc>>

(* What follows it: the end of the text is kept. *)
Cut ==
    /\ pc = "fit" /\ pc' = "done"
    /\ ChapterBudget(entries, truncated) > 0 \/ entries = <<>>
    /\ chapter' = LET room == 4 * AtLeast0(ChapterBudget(entries, truncated))
                  IN  IF chapter > room THEN room ELSE chapter
    /\ UNCHANGED <<input, entries, truncated>>

Next == Shift \/ Cut

Spec == Init /\ [][Next]_vars
(* What is sent, by the same estimate: the chapter escaped and in its tags, *)
(* the parts joined by blank lines, the history between.                    *)
Sent == input.fixed + estimateTokens(Block(entries, truncated)) + 3 + input.history
        + IF chapter = 0 THEN 0 ELSE estimateTokens(35 + chapter + input.escapes)

-----------------------------------------------------------------------------
(* Prompt and response together stay within the model's context, if the     *)
(* parts that are never cut do and if what is not counted fits the margin:  *)
(* the chapter is cut before it is escaped, the history is not counted      *)
(* ("so a request sized at exactly (context - response) doesn't fail").     *)
PromptFits ==
    (/\ pc = "done" /\ input.fixed <= PromptBudgetTokens
     /\ input.history + estimateTokens(input.escapes) + 12 <= SafetyMargin)
    => Sent + input.response <= input.context

(* The previous chapters still in are the latest, and the last one dropped  *)
(* would have left the chapter no room at all.                              *)
OnlyNeededDropped ==
    LET given == input.before
        Since(k) == SubSeq(given, k, Len(given))
    IN  /\ entries = Since(truncated + 1)
        /\ truncated > 0 => ChapterBudget(Since(truncated), truncated - 1) <= 0
=============================================================================
