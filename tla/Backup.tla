------------------------------- MODULE Backup -------------------------------
(***************************************************************************)
(* Export and import of one user's stories (backend/src/services/          *)
(* export.service.ts, import.service.ts, repos/story.repo.ts, frontend/src/*)
(* components/SettingsDataTab.tsx, hooks/useBackup.ts) while the stories   *)
(* are edited elsewhere.                                                   *)
(*                                                                         *)
(* A story is a few pieces, each with a text and the instant of its last   *)
(* write; texts are numbered by the edit that made them, 0 is a piece that *)
(* is not there, and Root is the story's own row.  An export reads a story *)
(* in three steps, an import writes each story in one transaction.         *)
(***************************************************************************)
EXTENDS Naturals, SequencesExt

CONSTANTS
    Root, Part,    \* the story row, the rows below it
    Stories,       \* stories at the start
    MaxId,         \* bound: stories ever
    MaxEdits,      \* bound: edits and deletions elsewhere
    MaxFiles,      \* bound: files downloaded
    MaxImports     \* bound: imports requested

BackupAssumption == IsFiniteSet(Stories) /\ Stories = 1..Cardinality(Stories)

Id == 1..MaxId
Piece == {Root} \cup Part
Bucket == {"new", "unchanged", "conflict"}
Resolution == {"create", "replace", "skip"}

VARIABLES
    live,       \* the stories there are
    now,        \* edits and imported stories: the instants of writes
    edits,
    ids,        \* ids drawn
    exporting,  \* the export under way, if any
    files,      \* what has been downloaded
    phase,      \* the tab: idle, planning, ready, backing, importing
    staged,     \* the file picked,
    buckets,    \* how its stories were judged,
    chosen,     \* and what is to be done with each
    imports,    \* import requests the server has, by number
    (* history *)
    kept,       \* stories nobody has deleted
    lost,       \* rows replaced after a safety backup that holds no copy
    disturbed   \* was anything edited while a restore ran?

tab == <<phase, staged, buckets, chosen>>
vars == <<live, now, edits, ids, exporting, files, tab, imports, kept, lost, disturbed>>

Row == [text : Nat, at : Nat]
Entry == [id : Id, texts : [Piece -> Nat], mark : Nat, torn : BOOLEAN]

TypeOK ==
    /\ DOMAIN live \subseteq 1..ids /\ \A i \in DOMAIN live : live[i] \in [Piece -> Row]
    /\ edits \in 0..MaxEdits /\ ids \in 0..MaxId
    /\ \A x \in exporting : x.k \in 1..Len(x.entries) + 1
    /\ \A f \in files : f \in Seq(Entry)
    /\ phase \in {"idle", "planning", "ready", "backing", "importing"}
    /\ staged \in Seq(Entry) /\ buckets \in Seq(Bucket) /\ chosen \in Seq(Resolution)
    /\ \A j \in imports : j.k \in 1..Len(j.file) + 1
    /\ kept \subseteq Id /\ disturbed \in BOOLEAN
    /\ \A i \in DOMAIN live : live[i][Root].text # 0

Init ==
    /\ live = [i \in Stories |-> [p \in Piece |-> [text |-> 1, at |-> 1]]]
    /\ now = 1 /\ edits = 0 /\ ids = Cardinality(Stories)
    /\ exporting = {} /\ files = {}
    /\ phase = "idle" /\ staged = <<>> /\ buckets = <<>> /\ chosen = <<>>
    /\ imports = {} /\ kept = Stories /\ lost = {} /\ disturbed = FALSE

(* Faulty variant: the story's own row alone. *)
RootUpdatedAt(story) == story[Root].at

(* The newest of the rows that are there. *)
contentUpdatedAtMax(story) == Max({story[p].at : p \in Piece})

Texts(story) == [p \in Piece |-> story[p].text]

-----------------------------------------------------------------------------
(* Elsewhere: another tab, the editor below the settings.                   *)

Elsewhere ==
    /\ edits < MaxEdits /\ edits' = edits + 1
    /\ disturbed' = (disturbed \/ phase = "backing" \/ \E j \in imports : ~j.over)
    /\ UNCHANGED <<ids, exporting, files, tab, imports, lost>>

Edit(i, p) ==
    /\ Elsewhere /\ now' = now + 1
    /\ live' = [live EXCEPT ![i][p] = [text |-> now', at |-> now']]
    /\ UNCHANGED kept

(* Of a message, or the last of its siblings: no other row is written. *)
DeletePiece(i, p) ==
    /\ Elsewhere /\ live[i][p].text # 0
    /\ live' = [live EXCEPT ![i][p] = [text |-> 0, at |-> 0]]
    /\ UNCHANGED <<now, kept>>

DeleteStory(i) ==
    /\ Elsewhere
    /\ live' = Restrict(live, DOMAIN live \ {i}) /\ kept' = kept \ {i}
    /\ UNCHANGED now

-----------------------------------------------------------------------------
(* buildExport.                                                             *)

(* findManyForUser: the story's own row. *)
Listed(i) == [id |-> i, texts |-> [p \in Piece |-> IF p = Root THEN live[i][p].text ELSE 0],
              mark |-> 0, torn |-> FALSE]

(* Every story, the one whose row was written last first. *)
IsListing(s) ==
    /\ \A i \in DOMAIN live : \E n \in DOMAIN s : s[n] = i
    /\ \A m, n \in DOMAIN s : m < n => live[s[m]][Root].at >= live[s[n]][Root].at

BeginExport(why) ==
    /\ exporting = {} /\ Cardinality(files) < MaxFiles
    /\ \E s \in [1..Cardinality(DOMAIN live) -> DOMAIN live] :
          /\ IsListing(s)
          /\ exporting' = {[why |-> why, k |-> 1, read |-> FALSE,
                            entries |-> [n \in DOMAIN s |-> Listed(s[n])]]}

(* "Export my content" *)
Export ==
    /\ BeginExport("user")
    /\ UNCHANGED <<live, now, edits, ids, files, tab, imports, kept, lost, disturbed>>

(* The rows below the story; findManyForStory throws if it is gone. *)
ReadParts(x) ==
    /\ x.k <= Len(x.entries) /\ ~x.read /\ x.entries[x.k].id \in DOMAIN live
    /\ exporting' = {[x EXCEPT !.read = TRUE, !.entries[x.k].texts =
         [p \in Piece |-> IF p = Root THEN @[p] ELSE live[x.entries[x.k].id][p].text]]}
    /\ UNCHANGED <<live, now, edits, ids, files, tab, imports, kept, lost, disturbed>>

ReadMark(x) ==
    /\ x.k <= Len(x.entries) /\ x.read /\ x.entries[x.k].id \in DOMAIN live
    /\ LET e == x.entries[x.k]
       IN  exporting' = {[x EXCEPT !.read = FALSE, !.k = @ + 1,
                            !.entries[x.k].mark = contentUpdatedAtMax(live[e.id]),
                            !.entries[x.k].torn = Texts(live[e.id]) # e.texts]}
    /\ UNCHANGED <<live, now, edits, ids, files, tab, imports, kept, lost, disturbed>>

(* The request to import; k is the story it is at. *)
RequestImport(todo, safe) ==
    /\ Cardinality(imports) < MaxImports /\ phase' = "importing"
    /\ imports' = imports \cup {[n |-> Cardinality(imports) + 1, file |-> staged,
                                 todo |-> todo, k |-> 1, over |-> FALSE, safe |-> safe]}

Download(x) ==
    /\ x.k > Len(x.entries) /\ exporting' = {}
    /\ files' = files \cup {x.entries}
    /\ IF x.why = "safety" THEN RequestImport(chosen, TRUE) ELSE UNCHANGED <<phase, imports>>
    /\ UNCHANGED <<live, now, edits, ids, staged, buckets, chosen, kept, lost, disturbed>>

(* Faulty variant: the restore goes on without its backup. *)
GoesOn == RequestImport(chosen, TRUE)

(* "A failed safety export aborts the restore". *)
Aborts == phase' = "ready" /\ UNCHANGED imports

(* A story gone, an error, a lost answer. *)
ExportFails(x) ==
    /\ exporting' = {}
    /\ IF x.why = "safety" THEN Aborts ELSE UNCHANGED <<phase, imports>>
    /\ UNCHANGED <<live, now, edits, ids, files, staged, buckets, chosen, kept, lost, disturbed>>

-----------------------------------------------------------------------------
(* The tab.                                                                 *)

(* onFileChange: a newer choice replaces an older one and its late plan. *)
PickFile(f) ==
    /\ phase \in {"idle", "planning", "ready"} /\ f # <<>>
    /\ phase' = "planning" /\ staged' = f /\ buckets' = <<>> /\ chosen' = <<>>
    /\ UNCHANGED <<live, now, edits, ids, exporting, files, imports, kept, lost, disturbed>>

(* planImport *)
Judged(e) ==
    IF e.id \notin DOMAIN live THEN "new"
    ELSE IF contentUpdatedAtMax(live[e.id]) <= e.mark THEN "unchanged" ELSE "conflict"

Plan ==
    /\ phase = "planning" /\ phase' = "ready"
    /\ buckets' = [n \in DOMAIN staged |-> Judged(staged[n])]
    /\ UNCHANGED <<live, now, edits, ids, exporting, files, staged, chosen, imports,
                   kept, lost, disturbed>>

PlanFails ==
    /\ phase = "planning" /\ phase' = "idle" /\ staged' = <<>>
    /\ UNCHANGED <<live, now, edits, ids, exporting, files, buckets, chosen, imports,
                   kept, lost, disturbed>>

Allowed(bucket) == IF bucket = "new" THEN {"create", "skip"} ELSE Resolution

(* onRestore, with the resolutions chosen in the rows. *)
Restore(safety) ==
    /\ phase = "ready"
    /\ chosen' \in {c \in [DOMAIN staged -> Resolution] :
                      \A n \in DOMAIN staged : c[n] \in Allowed(buckets[n])}
    /\ IF safety /\ \E n \in DOMAIN staged : chosen'[n] = "replace"
       THEN /\ BeginExport("safety") /\ phase' = "backing"
            /\ UNCHANGED imports
       ELSE RequestImport(chosen', FALSE) /\ UNCHANGED exporting
    /\ UNCHANGED <<live, now, edits, ids, files, staged, buckets, kept, lost, disturbed>>

(* The answer: what was staged is cleared. *)
Answered(j) ==
    /\ phase = "importing" /\ j.over /\ j.n = Cardinality(imports)
    /\ phase' = "idle" /\ staged' = <<>> /\ buckets' = <<>> /\ chosen' = <<>>
    /\ UNCHANGED <<live, now, edits, ids, exporting, files, imports, kept, lost, disturbed>>

(* Or an error in its place, whatever the server has done and goes on to do. *)
AnswerLost ==
    /\ phase = "importing" /\ phase' = "ready"
    /\ UNCHANGED <<live, now, edits, ids, exporting, files, staged, buckets, chosen, imports,
                   kept, lost, disturbed>>

-----------------------------------------------------------------------------
(* runImport.                                                               *)

(* What is left of an import that is over: its answer. *)
Ended(j) == [n |-> j.n, file |-> <<>>, todo |-> <<>>, k |-> 1, over |-> TRUE, safe |-> FALSE]

Advance(j) == imports' = (imports \ {j}) \cup
    {IF j.k = Len(j.file) THEN Ended(j) ELSE [j EXCEPT !.k = @ + 1]}

Skip(j) ==
    /\ ~j.over /\ j.todo[j.k] = "skip" /\ Advance(j)
    /\ UNCHANGED <<live, now, edits, ids, exporting, files, tab, kept, lost, disturbed>>

(* The rows of a story that is deleted which no downloaded file holds. *)
NoCopy(i) == {<<i, p>> : p \in {p \in Piece : /\ live[i][p].text # 0
    /\ \A f \in files : \A n \in DOMAIN f : f[n].id # i \/ f[n].texts[p] # live[i][p].text}}

(* A replaced story keeps its id; any other gets a new one. *)
Target(j, e) == IF j.todo[j.k] = "replace" /\ e.id \in DOMAIN live THEN e.id ELSE ids + 1

(* importOneStory: one transaction. *)
ImportOneStory(j) ==
    LET e == j.file[j.k]
        over == j.todo[j.k] = "replace" /\ e.id \in DOMAIN live
        t == Target(j, e)
    IN  /\ ~j.over /\ j.todo[j.k] # "skip" /\ t \in Id
        /\ now' = now + 1 /\ ids' = IF t > ids THEN t ELSE ids
        /\ live' = [i \in (DOMAIN live \ {k \in {e.id} : over}) \cup {t} |->
              IF i # t THEN live[i]
              ELSE [p \in Piece |-> [text |-> e.texts[p],
                                     at |-> IF e.texts[p] = 0 THEN 0 ELSE now']]]
        /\ lost' = IF over /\ j.safe THEN lost \cup NoCopy(e.id) ELSE lost
        /\ kept' = kept \cup {t} /\ Advance(j)
        /\ UNCHANGED <<edits, exporting, files, tab, disturbed>>

(* An error rolls the story back and ends the import. *)
ImportFails(j) ==
    /\ ~j.over /\ imports' = (imports \ {j}) \cup {Ended(j)}
    /\ UNCHANGED <<live, now, edits, ids, exporting, files, tab, kept, lost, disturbed>>

Next ==
    \/ \E i \in DOMAIN live :
          \/ \E p \in Piece : Edit(i, p)
          \/ \E p \in Part : DeletePiece(i, p)
          \/ DeleteStory(i)
    \/ Export
    \/ \E x \in exporting : ReadParts(x) \/ ReadMark(x) \/ Download(x) \/ ExportFails(x)
    \/ \E f \in files : PickFile(f)
    \/ Plan \/ PlanFails
    \/ \E safety \in BOOLEAN : Restore(safety)
    \/ AnswerLost
    \/ \E j \in imports : Answered(j) \/ Skip(j) \/ ImportOneStory(j) \/ ImportFails(j)

Spec == Init /\ [][Next]_vars

-----------------------------------------------------------------------------
(* What a replace deletes after a safety backup is in a downloaded file     *)
(* ("never delete content we couldn't back up", onRestore), unless          *)
(* something was edited while the restore ran; and a restore, however it    *)
(* ends, leaves every story that nobody deleted: the replaced ones under    *)
(* their ids, the others beside the copies (importOneStory).                *)
RestoreLosesNothing == (disturbed \/ lost = {}) /\ kept \subseteq DOMAIN live

(* A story just judged "unchanged", whose default is to be skipped and      *)
(* which may be replaced without a second look, holds nothing the file does *)
(* not have, unless it was edited while the export was reading it.          *)
PassesCovered ==
    \A n \in DOMAIN buckets' :
        buckets = <<>> /\ buckets'[n] = "unchanged" /\ ~staged[n].torn
        => \A p \in Piece : live[staged[n].id][p].text \in {0, staged[n].texts[p]}
UnchangedIsCovered == [][PassesCovered]_vars
=============================================================================
