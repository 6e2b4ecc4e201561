----------------------------- MODULE MCBackend -----------------------------
(***************************************************************************)
(* Requests on chapters' drafts, and five more parts of the server and the  *)
(* pages that use it.  They share no state, and one run checks them all: a *)
(* behaviour is a behaviour of one of them, and the others stay as they    *)
(* began.                                                                  *)
(***************************************************************************)
EXTENDS DraftRepo, SequencesExt

CONSTANTS
    TTL, MaxNow, MaxKeys, MaxRequests,
    Context, Response, Fixed, Size, MaxEntries, Length, Escapes, History,
    Item, Tab, Mutation, NoRow, NoTab, Stored, Kinds, Tries, MaxOps,
    Titled, Name, Old, NoName, MaxEdits,
    MaxChapter, MaxDraft, MaxCalls, MaxOther

VARIABLES
    part,        \* which of the six this behaviour is of
    top, gone, act, story, cur, sel, rows, meta, calls, choice, perils, ops, other

(* A chapter's drafts in display order: the i-th has i - 1 before it. *)
SortedBy(D, f) ==
    [i \in 1..Cardinality(D) |->
        CHOOSE d \in D : Cardinality({e \in D : f[e] < f[d]}) = i - 1]
Listing(c) == SortedBy(DraftsOf(c), order)
Book == INSTANCE ChapterDrafts WITH book <- [c \in Chapter |-> Listing(c)]

(* The other parts keep their state in the same variables. *)
Places == INSTANCE Navigation
Rows == INSTANCE OrderedRows
    WITH Row <- Item, Request <- Mutation, MaxAttempts <- Tries, kind <- story, at <- rows,
         fresh <- top, req <- calls, cache <- meta, fetch <- act, behind <- gone,
         raced <- perils
Names == INSTANCE RowNames
    WITH Row <- Titled, Blank <- NoName, kind <- story, names <- rows, shown <- meta,
         input <- sel, get <- act, turns <- top, edits <- ops, decided <- choice, named <- gone
Venice == INSTANCE VeniceModels
    WITH now <- top, key <- cur, keys <- rows, models <- meta, requests <- calls, made <- ops,
         changed <- choice, late <- perils
Prompt == INSTANCE PromptBudget
    WITH Chapter <- Length, input <- story, entries <- rows, truncated <- cur,
         chapter <- meta, pc <- act

ASSUME PartsAssumption ==
    /\ Rows!OrderedRowsAssumption /\ Places!NavigationAssumption
    /\ Names!RowNamesAssumption /\ Venice!VeniceModelsAssumption
    /\ Prompt!PromptBudgetAssumption

DraftVars == vars
PlacesVars == <<top, gone, act, story, cur, sel, rows, meta, calls, choice, perils, ops, other>>
MCVars == <<part, DraftVars, PlacesVars>>

Unused(v) == v = 0

MCInit ==
    /\ Init
    /\ \/ part \in {"drafts", "places"} /\ Places!Init
       \/ /\ part = "rows" /\ Rows!Init
          /\ Unused(cur) /\ Unused(sel) /\ Unused(choice) /\ Unused(other)
       \/ /\ part = "names" /\ Names!Init /\ Unused(cur) /\ Unused(other)
       \/ /\ part = "venice" /\ Venice!Init
          /\ Unused(gone) /\ Unused(act) /\ Unused(story) /\ Unused(sel) /\ Unused(other)
       \/ /\ part = "prompt" /\ Prompt!Init
          /\ Unused(top) /\ Unused(gone) /\ Unused(sel) /\ Unused(calls) /\ Unused(choice)
          /\ Unused(perils) /\ Unused(ops) /\ Unused(other)

MCNext ==
    /\ UNCHANGED part
    /\ \/ part = "drafts" /\ Next /\ UNCHANGED PlacesVars
       \/ part = "places" /\ Places!Next /\ UNCHANGED DraftVars
       \/ part = "rows" /\ Rows!Next /\ UNCHANGED <<cur, sel, choice, other, DraftVars>>
       \/ part = "names" /\ Names!Next /\ UNCHANGED <<cur, other, DraftVars>>
       \/ part = "venice" /\ Venice!Next
          /\ UNCHANGED <<gone, act, story, sel, other, DraftVars>>
       \/ part = "prompt" /\ Prompt!Next
          /\ UNCHANGED <<top, gone, sel, calls, choice, perils, ops, other, DraftVars>>

(* Requests, mutations and the names typed are each interchangeable, and so *)
(* are the chapters of the drafts, the tabs and the rows that are renamed.  *)
Symmetry == Permutations(Request) \cup Permutations(Chapter)

MCSpec == MCInit /\ [][MCNext]_MCVars

(* Concurrent requests implement the promise of the draft feature, each at  *)
(* one instant between its start and its end, as long as no guard has been  *)
(* overtaken: every step of DraftRepo maps to a step of ChapterDrafts or to *)
(* none (draft.repo.ts, drafts.routes.ts).                                  *)
ImplementsChapterDrafts ==
    Book!Init /\ [][raced' = {} => [Book!Next]_(Book!vars)]_vars

(* A request passes the gate with the list of the key in the row, but for a *)
(* TTL after the row was written (fetchModels).                             *)
GateFollowsKey == [][part = "venice" => Venice!GatesByKey]_MCVars

(* Prompt and response stay within the context, if the parts never cut do   *)
(* and what is not counted fits the margin (buildPrompt).                   *)
PromptFits == part = "prompt" => Prompt!PromptFits

(* A quiet tab shows the server's rows in the server's order, but for what  *)
(* it was not told of (onMutate, onError, onSettled of the list hooks).     *)
ListsAgree == part = "rows" => Rows!ListsAgree

(* Chapters and characters are numbered without gaps unless a create and a  *)
(* remove overlap or a row is placed by number (remove, reorder).           *)
DenseUnlessRaced == part = "rows" => Rows!DenseUnlessRaced

(* At rest every row has the name its user last confirmed, on screen too,   *)
(* unless a danger of its kind was met (Paper, DraftList, SessionPicker).   *)
NamesSettle == part = "names" => Names!NamesSettle

(* When nothing is under way and the lists are fresh, the editor shows the  *)
(* document that was chosen, if it still exists, unless an answer or        *)
(* another tab came in between (EditorPage, ChapterList, DraftList).        *)
ViewHolds == part = "places" => Places!ViewHolds
=============================================================================
