------------------------------ MODULE EditForms ------------------------------
(***************************************************************************)
(* The sheets in which the rows beside the text are edited: a character    *)
(* (components/CharacterSheet.tsx), the story (StoryModal.tsx) and a       *)
(* chapter's summary (ChapterSummarySheet.tsx, ChapterSummaryPopover.tsx), *)
(* as pages/EditorPage.tsx opens and closes them, over the queries and     *)
(* mutations of hooks/useCharacters.ts, useStories.ts and                  *)
(* useChapterSummary.ts.                                                   *)
(*                                                                         *)
(* A text is a number: blank, typed here, or written elsewhere (by another *)
(* tab, or by the model that makes a summary).                             *)
(***************************************************************************)
EXTENDS Integers, FiniteSets, Functions

CONSTANTS
    Character,      \* the characters there can be
    Cast,           \* the ones there are at first
    Story, Summary, \* the story; the summary of a chapter
    New,            \* stands for the row a create sheet is of
    Field,          \* the fields of a row
    MaxTyped,       \* bound: texts typed here
    MaxOther,       \* bound: texts written elsewhere
    MaxSheets,      \* bound: sheets opened
    MaxSaves        \* bound: saves and deletions under way at a time

EditFormsAssumption ==
    /\ Cast \subseteq Character /\ Story # Summary /\ New \notin Character
    /\ {Story, Summary} \cap (Character \cup {New}) = {}
    /\ MaxTyped \in Nat /\ MaxOther \in Nat /\ MaxSheets \in Nat /\ MaxSaves \in Nat

Blank == 0
Mine == 1..MaxTyped
Theirs == MaxTyped + 1..MaxTyped + MaxOther
Value == {Blank} \cup Mine \cup Theirs
Content == [Field -> Value]
Empty == [f \in Field |-> Blank]
Row == Character \cup {Story, Summary}
(* the page state that a row's sheet hangs on: characterModal, editStoryOpen, *)
(* summarySheetChapterId                                                      *)
Kind(r) == IF r \in {Story, Summary} THEN r ELSE New

VARIABLES
    stored,     \* the rows of the database: a function on those that exist
    data,       \* query.data, of the rows that have been loaded
    gets,       \* refetches under way, by row: what they will bring
    sheet,      \* the sheet that is open, if any
    saves,      \* the mutations under way
    generating, \* a summary is being generated
    opened, typed, others,          \* how many there were
    given,      \* texts typed here that the user gave up
    trampled,   \* a save replaced a text from elsewhere in a field nobody touched
    perils      \* the first danger the texts met, if any; see FormsLoseNothing

server == <<stored, generating>>
client == <<data, gets, sheet, saves>>
counts == <<opened, typed, others>>
history == <<given, trampled, perils>>
vars == <<server, client, counts, history>>

PartOf(f, S, T) == DOMAIN f \subseteq S /\ \A x \in DOMAIN f : f[x] \in T
Few(S) == Cardinality(S) <= 1

TypeOK ==
    /\ PartOf(stored, Row, Content) /\ PartOf(data, Row, Content)
    /\ PartOf(gets, Row, Content)
    /\ Few(sheet)
    /\ \A s \in sheet : /\ s.id \in 1..opened /\ s.row \in Row \cup {New}
                        /\ s.fields \in Content /\ s.touched \subseteq Field
                        /\ s.pending \in BOOLEAN /\ s.confirm \in BOOLEAN
    /\ \A s \in saves : /\ s.row \in Row \cup {New} /\ s.sheet \in 1..opened
                        /\ s.kind \in {"write", "delete"}
                        /\ PartOf(s.patch, Field, Value)
                        /\ s.touched \subseteq Field
                        /\ s.ans \in {"none", "ok", "failed"}
    /\ generating \in BOOLEAN
    /\ opened \in 0..MaxSheets /\ typed \in 0..MaxTyped /\ others \in 0..MaxOther
    /\ given \subseteq Mine /\ trampled \in BOOLEAN
    /\ Few(perils) /\ perils \subseteq {"reseeded", "closed", "over", "unheard"}

(* The three kinds of sheet have nothing in common but that one is open at  *)
(* a time: a behaviour is about one of them.                                *)
Init ==
    /\ \E rows \in {Cast, {Story}, {Summary}} :
         /\ stored = [r \in rows |-> Empty]
         /\ data = [r \in rows \cap {Story} |-> Empty]
    /\ gets = <<>>
    /\ sheet = {} /\ saves = {} /\ generating = FALSE
    /\ opened = 0 /\ typed = 0 /\ others = 0
    /\ given = {} /\ trampled = FALSE /\ perils = {}

Exists == DOMAIN stored
Typed(S) == S \cap Mine
OnTheWay == UNION {Range(s.patch) : s \in saves}
InRows == UNION {Range(stored[r]) : r \in Exists}
Without(f, r) == [x \in DOMAIN f \ {r} |-> f[x]]
With(f, r, v) == [x \in DOMAIN f \cup {r} |-> IF x = r THEN v ELSE f[x]]
Meets(cond, p) == perils' = IF cond /\ perils = {} THEN {p} ELSE perils

(* Texts of the sheet that no row holds yet, and of those the unsent ones. *)
Unsaved(s) == Typed(Range(s.fields)) \ InRows
Unsent(s) == Unsaved(s) \ OnTheWay

-----------------------------------------------------------------------------
(* The sheet.                                                               *)

(* The query of a row that is not fresh is fetched when it is mounted.  The *)
(* story's modal is always there, and knows of a save under way.            *)
Open(r) ==
    /\ sheet = {} /\ opened < MaxSheets /\ opened' = opened + 1
    /\ r \in Exists \/ (r = New /\ Exists \cap {Story, Summary} = {})
    /\ sheet' = {[id |-> opened', row |-> r, touched |-> {}, confirm |-> FALSE,
                  pending |-> r = Story /\ \E s \in saves : s.row = Story,
                  fields |-> IF r \in DOMAIN data THEN data[r] ELSE Empty]}
    /\ gets' = IF r \in Exists \ DOMAIN data THEN With(gets, r, stored[r]) ELSE gets
    /\ UNCHANGED <<server, data, saves, typed, others, history>>

(* The fields of a character are shown once it is loaded; the summary's at  *)
(* once.  A text typed over is given up.                                    *)
Type(f) ==
    \E s \in sheet :
      /\ s.row \in DOMAIN data \cup {New, Summary} /\ ~s.confirm
      /\ typed < MaxTyped /\ typed' = typed + 1
      /\ sheet' = {[s EXCEPT !.fields[f] = typed', !.touched = @ \cup {f}]}
      /\ given' = given \cup Typed({s.fields[f]})
      /\ UNCHANGED <<server, data, gets, saves, opened, others, trampled, perils>>

(* Cancel, the cross, the backdrop, Escape. *)
Cancel ==
    \E s \in sheet :
      /\ ~s.confirm /\ sheet' = {} /\ given' = given \cup Unsent(s)
      /\ UNCHANGED <<server, data, gets, saves, counts, trampled, perils>>

(* Faulty variant: the form as it is. *)
WholeForm(s) == s.fields

(* diffPatch, diffForPatch; a summary, and a new character, are sent whole. *)
Patch(s) ==
    IF s.row \in {New, Summary} THEN s.fields
    ELSE [f \in {g \in Field : s.fields[g] # data[s.row][g]} |-> s.fields[f]]

Request(s, kind, patch) ==
    [row |-> s.row, sheet |-> s.id, kind |-> kind, patch |-> patch,
     touched |-> IF s.row = Summary THEN Field ELSE s.touched, ans |-> "none", val |-> Empty]

(* handleSubmit.  A summary that was not loaded has no draft to be put to. *)
Submit ==
    \E s \in sheet :
      /\ ~s.pending /\ ~s.confirm /\ s.row \in DOMAIN data \cup {New, Summary}
      /\ s.row = New => s.touched # {}
      /\ IF Patch(s) = <<>> THEN sheet' = {} /\ UNCHANGED saves
         ELSE /\ Cardinality(saves) < MaxSaves /\ sheet' = {[s EXCEPT !.pending = TRUE]}
              /\ saves' = saves \cup
                   {[Request(s, "write", Patch(s)) EXCEPT
                       !.ans = IF s.row \in DOMAIN data \cup {New} THEN "none"
                               ELSE "failed"]}
      /\ UNCHANGED <<server, data, gets, counts, history>>

(* Delete, and its confirmation: Escape closes that, not the sheet. *)
AskDelete ==
    \E s \in sheet :
      /\ s.row \in Character \cap DOMAIN data /\ ~s.pending /\ ~s.confirm
      /\ sheet' = {[s EXCEPT !.confirm = TRUE]}
      /\ UNCHANGED <<server, data, gets, saves, counts, history>>

Deleting(s) == \E d \in saves : d.kind = "delete" /\ d.sheet = s.id

KeepIt ==
    \E s \in sheet :
      /\ s.confirm /\ sheet' = {[s EXCEPT !.confirm = FALSE]}
      /\ UNCHANGED <<server, data, gets, saves, counts, history>>

ConfirmDelete ==
    \E s \in sheet :
      /\ s.confirm /\ ~Deleting(s) /\ Cardinality(saves) < MaxSaves
      /\ saves' = saves \cup {Request(s, "delete", <<>>)}
      /\ given' = given \cup Typed(Range(s.fields))
      /\ UNCHANGED <<server, data, gets, sheet, counts, trampled, perils>>

-----------------------------------------------------------------------------
(* The server.                                                              *)

(* Only a story's answer is made use of. *)
Becomes(s, r, v) ==
    saves' = (saves \ {s}) \cup
      {[s EXCEPT !.row = r, !.ans = "ok", !.val = IF r = Story THEN v ELSE Empty]}

(* What a write takes out of a row: a text typed here is written over if    *)
(* it was not seen; a text in a field nobody touched is trampled, except by *)
(* a summary, which is put whole.                                           *)
Replaces(s, old, new) ==
    LET lost == {f \in Field : old[f] \notin {Blank, new[f]}} IN
    /\ Meets(\E f \in lost : old[f] \in Mine /\ old[f] \notin given, "over")
    /\ trampled' = (trampled \/ ~ lost \subseteq s.touched)

ServeWrite(s) ==
    LET new == [f \in Field |-> IF f \in DOMAIN s.patch THEN s.patch[f]
                                ELSE stored[s.row][f]]
    IN /\ s.row \in Exists /\ stored' = [stored EXCEPT ![s.row] = new]
       /\ Replaces(s, stored[s.row], new) /\ Becomes(s, s.row, new)
       /\ UNCHANGED given

ServeCreate(s) ==
    /\ s.row = New
    /\ \E c \in Character \ Exists :
         stored' = With(stored, c, s.patch) /\ Becomes(s, c, s.patch)
    /\ UNCHANGED history

ServeDelete(s) ==
    /\ s.row \in Exists /\ stored' = Without(stored, s.row)
    /\ given' = given \cup Typed(Range(stored[s.row]))
    /\ Becomes(s, s.row, Empty) /\ UNCHANGED <<trampled, perils>>

Serve(s) ==
    /\ s.ans = "none"
    /\ IF s.kind = "delete" THEN ServeDelete(s) ELSE ServeWrite(s) \/ ServeCreate(s)
    /\ UNCHANGED <<generating, data, gets, sheet, counts>>

(* The row is gone, the server fails, request or answer are lost. *)
Lose(s) ==
    /\ s.ans \in {"none", "ok"}
    /\ saves' = (saves \ {s}) \cup {[s EXCEPT !.ans = "failed"]}
    /\ UNCHANGED <<server, data, gets, sheet, counts, history>>

(* Another tab writes a field; or a model the whole summary. *)
Writes(r, fields) ==
    LET new == [f \in Field |-> IF f \in fields THEN MaxTyped + others'
                                ELSE stored[r][f]]
    IN /\ others < MaxOther /\ others' = others + 1
       /\ stored' = [stored EXCEPT ![r] = new]
       /\ Meets(\E f \in fields : stored[r][f] \in Mine /\ stored[r][f] \notin given, "over")

Elsewhere(r, f) ==
    /\ Writes(r, {f})
    /\ UNCHANGED <<generating, client, opened, typed, given, trampled>>

(* Generate, Regenerate; the popover's Cancel only closes it. *)
Generate ==
    /\ Summary \in Exists /\ sheet = {} /\ ~generating /\ generating' = TRUE
    /\ UNCHANGED <<stored, client, counts, history>>

-----------------------------------------------------------------------------
(* Answers.                                                                 *)

(* Faulty variant: the fields are set at every answer. *)
ReseedsAlways(r, v) ==
    sheet' = {IF s.row # r THEN s ELSE [s EXCEPT !.fields = v, !.touched = {}] :
                s \in sheet}

(* The seeding effect, which runs when the query's data are others. *)
Reseeds(r, v) ==
    sheet' = {IF s.row # r \/ (r \in DOMAIN data /\ data[r] = v) THEN s
              ELSE [s EXCEPT !.fields = v, !.touched = {}] : s \in sheet}

(* Structural sharing: equal data are the data there were. *)
Caches(r, v) ==
    /\ data' = With(data, r, v)
    /\ Meets(\E s \in sheet : /\ s.row = r /\ Unsaved(s) # {}
                              /\ ~(r \in DOMAIN data /\ data[r] = v), "reseeded")

(* On mounting, on reconnecting; only the story is there without a sheet. *)
Refetch(r) ==
    /\ r \in (Exists \cap DOMAIN data) \ DOMAIN gets
    /\ (r = Story \/ \E s \in sheet : s.row = r)
    /\ gets' = With(gets, r, stored[r])
    /\ UNCHANGED <<server, data, sheet, saves, counts, history>>

Arrive(r) ==
    /\ r \in DOMAIN gets /\ gets' = Without(gets, r)
    /\ Caches(r, gets[r]) /\ Reseeds(r, gets[r])
    /\ UNCHANGED <<server, saves, counts, given, trampled>>

GenerateEnds ==
    /\ generating /\ generating' = FALSE
    /\ \/ Writes(Summary, Field) /\ gets' = With(gets, Summary, stored'[Summary])
       \/ UNCHANGED <<stored, others, gets, perils>>
    /\ UNCHANGED <<data, sheet, saves, opened, typed, given, trampled>>

(* onClose of the sheet that asked closes whichever is open of its kind. *)
Closes(s) ==
    LET gone == {k \in sheet : Kind(k.row) = Kind(s.row)} IN
    /\ sheet' = sheet \ gone
    /\ Meets(\E k \in gone : ~ Unsaved(k) \subseteq given, "closed")

(* onSuccess: the story is put into the cache, a character or a summary     *)
(* fetched anew, a deleted one removed; then the sheet is closed.           *)
Done(s) ==
    /\ s.ans = "ok" /\ saves' = saves \ {s} /\ Closes(s)
    /\ data' = IF s.kind = "delete" THEN Without(data, s.row)
               ELSE IF s.row = Story THEN With(data, Story, s.val) ELSE data
    /\ gets' = IF s.kind = "delete" \/ s.row \notin Exists THEN Without(gets, s.row)
               ELSE IF s.row = Story THEN gets ELSE With(gets, s.row, stored[s.row])
    /\ UNCHANGED <<server, counts, given, trampled>>

(* The sheet that asked, if it is still there, says so. *)
Fails(s) ==
    /\ s.ans = "failed" /\ saves' = saves \ {s}
    /\ sheet' = {IF s.kind = "write" /\ (k.id = s.sheet \/ (k.row = Story /\ s.row = Story))
                 THEN [k EXCEPT !.pending = FALSE] ELSE k : k \in sheet}
    /\ Meets(\A k \in sheet : k.id # s.sheet, "unheard")
    /\ UNCHANGED <<server, data, gets, counts, given, trampled>>

Next ==
    \/ \E r \in Row \cup {New} : Open(r)
    \/ \E f \in Field : Type(f)
    \/ Cancel \/ Submit \/ AskDelete \/ KeepIt \/ ConfirmDelete
    \/ \E s \in saves : Serve(s) \/ Lose(s) \/ Done(s) \/ Fails(s)
    \/ \E r \in Exists, f \in Field : Elsewhere(r, f)
    \/ \E r \in Row : Refetch(r) \/ Arrive(r)
    \/ Generate \/ GenerateEnds

Spec == Init /\ [][Next]_vars

-----------------------------------------------------------------------------
Kept == InRows \cup OnTheWay \cup UNION {Range(s.fields) : s \in sheet}

(* What was typed into a sheet and not cancelled, typed over or deleted is  *)
(* in the sheet, on its way or stored; unless data that changed elsewhere   *)
(* came in over it ("a stable reference here prevents in-progress typing    *)
(* from being wiped on any EditorPage re-render", EditorPage.tsx:471), a    *)
(* late answer closed the sheet, the save failed when its sheet was gone,   *)
(* or the field was written elsewhere.  A save replaces nobody's text in a  *)
(* field that was not touched, a summary's excepted, which is put whole.    *)
FormsLoseNothing ==
    /\ ~ 1..typed \subseteq given \cup Kept => perils # {}
    /\ ~trampled
=============================================================================
