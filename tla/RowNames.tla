------------------------------- MODULE RowNames -------------------------------
(***************************************************************************)
(* Renaming in place: the title of the chapter above the text              *)
(* (ChapterTitleInput of components/Paper.tsx), the label of a draft in    *)
(* the sidebar (DraftList.tsx over InlineEdit of design/primitives.tsx)    *)
(* and the title of a chat session (SessionPicker.tsx, ChatSceneTab.tsx),  *)
(* over the mutations of hooks/useChapters.ts, useDrafts.ts and            *)
(* useChat.ts.                                                             *)
(*                                                                         *)
(* The question is whether a row ends up with the name its user decided    *)
(* upon, and whether that is the name on screen.                           *)
(***************************************************************************)
EXTENDS Naturals, FiniteSets

CONSTANTS
    Row,            \* the rows of one list
    Name,           \* the names
    Old, Blank,     \* of those, the one every row has at first; no name
    MaxEdits,       \* bound: times an input is entered
    MaxCalls        \* bound: renames under way at a time

RowNamesAssumption ==
    {Old, Blank} \subseteq Name /\ Old # Blank /\ MaxEdits \in Nat /\ MaxCalls \in Nat

VARIABLES
    kind,       \* which of the three lists this is
    names,      \* the rows' names in the database
    shown,      \* the names in the query cache
    input,      \* the input that is mounted, if any; a title's always is
    calls,      \* the PATCH requests under way
    get,        \* the list's refetch under way, if any: what it will bring
    turns,      \* sessions whose first turn is still to come
    edits,      \* how often an input was entered
    decided,    \* the name each row should have: its user's last decision
    named,      \* rows the user has named
    perils      \* which dangers the names met; see NamesSettle

lists == <<names, shown, get>>
history == <<decided, named, perils>>
vars == <<kind, lists, input, calls, turns, edits, history>>

Few(S) == Cardinality(S) <= 1

TypeOK ==
    /\ kind \in {"title", "label", "session"}
    /\ {names, shown, decided} \cup get \subseteq [Row -> Name] /\ Few(get)
    /\ Few(input)
    /\ \A i \in input : /\ i.row \in Row /\ i.text \in Name
                        /\ i.touched \in BOOLEAN /\ i.focus \in BOOLEAN
    /\ \A c \in calls : /\ c.id \in Nat /\ c.row \in Row /\ c.name \in Name
                        /\ c.ans \in {"none", "ok", "failed"}
    /\ turns \subseteq Row /\ named \subseteq Row /\ edits \in 0..MaxEdits
    /\ perils \subseteq {"escaped", "early", "stale", "resynced", "titled", "failed",
                         "overtaken"}

Input(r, focus) == {[row |-> r, text |-> shown[r], touched |-> FALSE, focus |-> focus]}

Init ==
    /\ kind \in {"title", "label", "session"}
    /\ names = [r \in Row |-> Old] /\ shown = names /\ decided = names
    /\ IF kind = "title" THEN \E r \in Row : input = Input(r, FALSE) ELSE input = {}
    /\ calls = {} /\ get = {} /\ edits = 0 /\ named = {} /\ perils = {}
    /\ turns = IF kind = "session" THEN Row ELSE {}

Meets(cond, p) == perils' = IF cond THEN perils \cup {p} ELSE perils

-----------------------------------------------------------------------------
(* The input.                                                               *)

(* A click into the title; the pencil of a row; for these the input is      *)
(* mounted, its text the name shown.                                        *)
Enter(r) ==
    /\ edits < MaxEdits /\ edits' = edits + 1
    /\ \A i \in input : ~i.focus /\ i.row = r
    /\ input' = IF kind = "title" THEN {[i EXCEPT !.focus = TRUE] : i \in input}
                ELSE Input(r, TRUE)
    /\ UNCHANGED <<kind, lists, calls, turns, history>>

Type(n) ==
    \E i \in input :
      /\ i.focus /\ i.text # n /\ input' = {[i EXCEPT !.text = n, !.touched = TRUE]}
      /\ UNCHANGED <<kind, lists, calls, turns, edits, history>>

(* What is sent when an input is left: a title or a label if it is not the  *)
(* one shown, a session's title always; neither title may be empty.         *)
Sent(i) ==
    /\ kind \in {"title", "label"} => i.text # shown[i.row]
    /\ kind \in {"title", "session"} => i.text # Blank

Ask(r, n) ==
    /\ Cardinality(calls) < MaxCalls
    /\ \E id \in 1..MaxCalls :
         /\ \A c \in calls : c.id # id
         /\ \A k \in 1..id - 1 : \E c \in calls : c.id = k
         /\ calls' = calls \cup {[id |-> id, row |-> r, name |-> n, ans |-> "none"]}

(* The title's input stays, and reverts if it is empty. *)
Left(i) ==
    IF kind # "title" THEN {}
    ELSE {[i EXCEPT !.focus = FALSE, !.touched = FALSE,
                    !.text = IF @ = Blank THEN shown[i.row] ELSE @]}

Decides(i) == i.touched /\ (i.text = Blank => kind = "label")
Renaming(r) == \E c \in calls : c.row = r

(* Return, and the input losing the focus: once for a label. *)
Commit ==
    \E i \in input :
      /\ i.focus /\ input' = Left(i)
      /\ IF Sent(i) THEN Ask(i.row, i.text) ELSE UNCHANGED calls
      /\ decided' = IF Decides(i) THEN [decided EXCEPT ![i.row] = i.text] ELSE decided
      /\ named' = IF Decides(i) THEN named \cup {i.row} ELSE named
      /\ perils' = perils
            \cup {p \in {"early"} : Decides(i) /\ (Renaming(i.row) \/ get # {})}
            \cup {p \in {"stale"} : Sent(i) /\ ~i.touched}
      /\ UNCHANGED <<kind, lists, turns, edits>>

(* Faulty variant: the blur after Escape commits. *)
EscapeCommits(i) == IF Sent(i) THEN Ask(i.row, i.text) ELSE UNCHANGED calls

(* The title's handler blurs the input itself, and the commit of that blur  *)
(* still sees what was typed.  A label's has settled, a session's is        *)
(* cancelled.                                                               *)
EscapesInput(i) ==
    IF kind = "title" /\ Sent(i) THEN Ask(i.row, i.text) ELSE UNCHANGED calls

Escape ==
    \E i \in input :
      /\ i.focus /\ EscapesInput(i)
      /\ input' = {[k EXCEPT !.text = shown[i.row]] : k \in Left(i)}
      /\ Meets(calls' # calls, "escaped")
      /\ UNCHANGED <<kind, lists, turns, edits, decided, named>>

(* A click outside the picker closes it, and what was typed is gone. *)
ClickOutside ==
    /\ kind = "session" /\ input # {} /\ input' = {}
    /\ UNCHANGED <<kind, lists, calls, turns, edits, history>>

(* Another chapter is opened, and Paper mounted anew. *)
View(r) ==
    /\ kind = "title" /\ \A i \in input : ~i.focus /\ i.row # r
    /\ input' = Input(r, FALSE)
    /\ UNCHANGED <<kind, lists, calls, turns, edits, history>>

(* onSend, when the first turn of a session is over. *)
NameAfterTurn(r, n) ==
    /\ r \in turns /\ n # Blank /\ turns' = turns \ {r} /\ Ask(r, n)
    /\ decided' = IF r \in named THEN decided ELSE [decided EXCEPT ![r] = n]
    /\ Meets(r \in named \/ (\E i \in input : i.row = r), "titled")
    /\ UNCHANGED <<kind, lists, input, edits, named>>

-----------------------------------------------------------------------------
(* Requests and answers.                                                    *)

Settled(c, ans) == calls' = (calls \ {c}) \cup {[c EXCEPT !.ans = ans]}

Serve(c) ==
    /\ c.ans = "none" /\ Settled(c, "ok") /\ names' = [names EXCEPT ![c.row] = c.name]
    /\ UNCHANGED <<kind, shown, input, get, turns, edits, history>>

Lose(c) ==
    /\ c.ans # "failed" /\ Settled(c, "failed") /\ Meets(TRUE, "failed")
    /\ UNCHANGED <<kind, lists, input, turns, edits, decided, named>>

(* The title's effect on its value. *)
Resyncs(new) ==
    input' = {IF kind = "title" /\ shown[i.row] # new[i.row]
              THEN [i EXCEPT !.text = new[i.row], !.touched = FALSE] ELSE i : i \in input}
Overwrites(new) == kind = "title" /\ \E i \in input : i.touched /\ shown[i.row] # new[i.row]

(* onSuccess: a chapter and a session are put into the list, and drafts and *)
(* sessions listed anew.                                                    *)
Shows(c) == IF kind = "label" THEN shown ELSE [shown EXCEPT ![c.row] = c.name]

Answer(c) ==
    /\ c.ans # "none" /\ calls' = calls \ {c}
    /\ IF c.ans = "ok"
       THEN /\ shown' = Shows(c) /\ Resyncs(shown') /\ Meets(Overwrites(shown'), "resynced")
            /\ get' = IF kind = "title" THEN get ELSE {names}
       ELSE UNCHANGED <<shown, input, get, perils>>
    /\ UNCHANGED <<kind, names, turns, edits, decided, named>>

(* The list is fetched again, for reasons of its own. *)
Refetch ==
    /\ get = {} /\ get' = {names}
    /\ UNCHANGED <<kind, names, shown, input, calls, turns, edits, history>>

Arrive ==
    \E g \in get :
      /\ get' = {} /\ shown' = g /\ Resyncs(g)
      /\ perils' = perils \cup {p \in {"resynced"} : Overwrites(g)}
                          \cup {p \in {"overtaken"} : kind = "title" /\ g # names}
      /\ UNCHANGED <<kind, names, calls, turns, edits, decided, named>>

Next ==
    \/ \E r \in Row : Enter(r) \/ View(r)
    \/ \E n \in Name : Type(n)
    \/ Commit \/ Escape \/ ClickOutside
    \/ \E r \in Row, n \in Name : NameAfterTurn(r, n)
    \/ \E c \in calls : Serve(c) \/ Lose(c) \/ Answer(c)
    \/ Refetch \/ Arrive

Spec == Init /\ [][Next]_vars

-----------------------------------------------------------------------------
Quiet == calls = {} /\ get = {} /\ \A i \in input : ~i.focus
Dangers ==
    CASE kind = "title" -> {"escaped", "early", "resynced", "overtaken", "failed"}
      [] kind = "label" -> {"early", "stale", "failed"}
      [] kind = "session" -> {"early", "stale", "titled", "failed"}

(* When no input has the focus and nothing is under way, every row has the  *)
(* name its user last confirmed, and that name is on screen, unless one of  *)
(* the dangers of its kind was met: a rename decided upon before the one    *)
(* before it was shown; one that failed; for a title besides, Escape, or a  *)
(* name from elsewhere or of before coming in; for a session, an untouched  *)
(* input left, or the name made of its first message.                       *)
NamesSettle ==
    Quiet /\ perils \cap Dangers = {} =>
      /\ names = decided /\ shown = names
      /\ \A i \in input : i.text = names[i.row]

(* Escape discards what was typed ("Escape reverts the chapter title draft  *)
(* without committing", tests/components/Paper.test.tsx:189).               *)
EscapeReverts == [][Escape => UNCHANGED calls]_vars
=============================================================================
