------------------------------ MODULE Navigation ------------------------------
(***************************************************************************)
(* What the editor shows: the chapter and the draft of pages/EditorPage.tsx *)
(* over store/activeChapter.ts and store/selectedDraft.ts, moved by        *)
(* ChapterList.tsx, DraftList.tsx, NewDraftDialog.tsx, StoryPicker.tsx and *)
(* by the answers of the mutations of useChapters.ts and useDrafts.ts,     *)
(* while other tabs delete and activate.                                   *)
(*                                                                         *)
(* A selected draft is shown if it is of the active chapter; otherwise the *)
(* chapter's active draft is, whichever that is by now.  Chapters are      *)
(* numbered in their order; the other story has one.                       *)
(***************************************************************************)
EXTENDS Naturals, FiniteSets, FiniteSetsExt

CONSTANTS
    MaxChapter,     \* bound: chapters ever created in the story; two at first
    MaxDraft,       \* bound: drafts ever created in a chapter
    MaxCalls,       \* bound: mutations under way at a time
    MaxOps,         \* bound: mutations asked for
    MaxOther        \* bound: what other tabs do

NavigationAssumption ==
    /\ {MaxChapter, MaxDraft, MaxCalls, MaxOps, MaxOther} \subseteq Nat
    /\ MaxChapter >= 2 /\ MaxDraft >= 2

None == 0                   \* no chapter, no draft
Far == MaxChapter + 1       \* the other story's chapter
ChapterId == 1..Far
DraftId == 1..MaxDraft
Stories == {"here", "there"}
Unloaded == {None}

VARIABLES
    (* the server *)
    top,        \* drafts created in each chapter so far; none, no chapter
    gone,       \* drafts deleted, <<chapter, None>> for a chapter
    act,        \* activeDraftId
    (* the browser *)
    story,      \* the story of the URL
    cur,        \* activeChapterId
    sel,        \* the selected draft, a pair, or {}
    rows,       \* the cached chapter lists
    meta,       \* the cached draft lists: their ids, the active one
    calls,      \* the mutations under way
    (* history *)
    choice,     \* what the user chose to see
    perils,     \* see ViewHolds
    ops, other  \* mutations asked for, and what other tabs did, so far

server == <<top, gone, act>>
browser == <<story, cur, sel, rows, meta>>
history == <<choice, perils>>
counters == <<ops, other>>
vars == <<server, browser, calls, history, counters>>

Lives(c) == top[c] > 0 /\ <<c, None>> \notin gone
Drafts(c) == {d \in 1..top[c] : <<c, d>> \notin gone}
In(s) == {c \in ChapterId : Lives(c) /\ (c = Far <=> s = "there")}
Fetched(c) == [ids |-> Drafts(c), act |-> act[c]]
NoMeta == [ids |-> {}, act |-> None]

TypeOK ==
    /\ top \in [ChapterId -> 0..MaxDraft] /\ gone \subseteq ChapterId \X (0..MaxDraft)
    /\ act \in [ChapterId -> 0..MaxDraft] /\ story \in Stories
    /\ cur \in ChapterId \cup {None} /\ sel \subseteq ChapterId \X DraftId /\ Cardinality(sel) <= 1
    /\ rows \in [Stories -> SUBSET (ChapterId \cup {None})]
    /\ meta \in [ChapterId -> [ids : SUBSET DraftId, act : 0..MaxDraft]]
    /\ \A k \in calls :
         /\ k.k \in {"add", "removeChapter", "fork", "removeDraft", "activate"}
         /\ k.c \in ChapterId \cup {None} /\ k.d \in 0..MaxDraft
         /\ k.seen \in ChapterId \cup {None} /\ k.before \subseteq ChapterId \cup {None}
         /\ k.st \in {"asked", "ok", "failed"}
    /\ choice \in (ChapterId \cup {None}) \X (0..MaxDraft)
    /\ perils \subseteq {"unlisted", "thrown", "followed", "dead"}
    /\ ops \in 0..MaxOps /\ other \in 0..MaxOther

Init ==
    /\ top = [c \in ChapterId |-> IF c = 1 THEN 2 ELSE IF c \in {2, Far} THEN 1 ELSE 0]
    /\ gone = {} /\ act = [c \in ChapterId |-> IF top[c] = 0 THEN None ELSE 1]
    /\ story = "here" /\ cur = 1 /\ sel = {}
    /\ rows = [s \in Stories |-> IF s = "here" THEN {1, 2} ELSE Unloaded]
    /\ meta = [c \in ChapterId |-> IF c = 1 THEN Fetched(1) ELSE NoMeta]
    /\ calls = {} /\ choice = <<1, 1>> /\ perils = {} /\ ops = 0 /\ other = 0

-----------------------------------------------------------------------------
(* The page.                                                                *)

Listed == rows[story] \ Unloaded
Loaded == rows[story] # Unloaded

ShownDraft(c, s, m) ==
    IF \E d \in DraftId : s = {<<c, d>>} THEN (CHOOSE p \in s : TRUE)[2]
    ELSE IF c = None THEN None ELSE m[c].act
Shown == <<cur, ShownDraft(cur, sel, meta)>>

(* resolveActiveChapterId: the active chapter if the list has it, or its    *)
(* first; nothing while there is no list.                                   *)
Resolved(c, list) ==
    IF list = Unloaded \/ c \in list THEN c ELSE IF list = {} THEN None ELSE Min(list)

(* A selection made for another chapter is cleared when the chapter changes *)
Kept(s, from, to) == IF from = to THEN s ELSE {p \in s : p[1] = to}

(* The two effects, after the store was given a chapter c and a selection s *)
Lands(c, s, list) ==
    LET to == Resolved(c, list) IN /\ cur' = to /\ sel' = Kept(Kept(s, cur, c), c, to)

(* Who opens a chapter whose active draft is being changed, or has been     *)
(* since it was listed, follows it and has chosen none.                     *)
Unsettled(c) == \/ \E k \in calls : k.k = "activate" /\ k.c = c
                \/ c # None /\ meta'[c].act # act[c]
Choice == <<cur', IF sel' = {} /\ Unsettled(cur') THEN None ELSE Shown'[2]>>
Chooses == choice' = Choice

(* What is not the user's doing leaves the choice, unless it was open yet,  *)
(* or is no longer in the lists.                                            *)
Open == \/ choice[1] \notin rows'[story'] \/ choice[2] = None
        \/ cur' = choice[1] /\ cur' # None /\ choice[2] \notin meta'[cur'].ids
Follows == choice' = IF Open THEN Choice ELSE choice
Meets(cond, p) == perils' = IF cond THEN perils \cup {p} ELSE perils

(* The new-draft dialog blocks the page until it is answered. *)
Free == \A k \in calls : k.k # "fork"

SelectChapter(c) ==
    /\ Free /\ c \in Listed /\ c # cur /\ UNCHANGED <<story, rows, meta>>
    /\ Lands(c, sel, rows[story]) /\ Chooses /\ UNCHANGED <<server, calls, perils, counters>>

SelectDraft(c, d) ==
    /\ Free /\ c \in Listed /\ d \in meta[c].ids /\ <<c, d>> # Shown
    /\ UNCHANGED <<story, rows, meta>> /\ Lands(c, {<<c, d>>}, rows[story]) /\ Chooses
    /\ Meets(d \notin Drafts(c), "dead") /\ UNCHANGED <<server, calls, counters>>

(* StoryPicker: the page stays, with the chapter of the other story until   *)
(* the list is there.                                                       *)
OpenStory(s) ==
    /\ Free /\ s # story /\ story' = s /\ UNCHANGED <<rows, meta>> /\ Lands(cur, sel, rows[s])
    /\ choice' = IF rows[s] = Unloaded THEN <<None, None>> ELSE Choice
    /\ UNCHANGED <<server, calls, perils, counters>>

LoadRows ==
    /\ rows[story] # In(story) /\ rows' = [rows EXCEPT ![story] = In(story)]
    /\ Lands(cur, sel, rows'[story]) /\ UNCHANGED <<story, meta>> /\ Follows
    /\ UNCHANGED <<server, calls, perils, counters>>

(* The drafts of a chapter, active or expanded. *)
LoadMeta(c) ==
    /\ Lives(c) /\ (c = cur \/ c \in Listed) /\ meta[c] # Fetched(c)
    /\ meta' = [meta EXCEPT ![c] = Fetched(c)] /\ UNCHANGED <<story, cur, sel, rows>> /\ Follows
    /\ UNCHANGED <<server, calls, perils, counters>>

-----------------------------------------------------------------------------
(* Mutations asked for.                                                     *)

Ask(k, c, d) ==
    /\ Free /\ ops < MaxOps /\ ops' = ops + 1 /\ Cardinality(calls) < MaxCalls
    /\ \A o \in calls : <<o.k, o.c, o.d>> # <<k, c, d>>
    /\ calls' = calls \cup {[k |-> k, c |-> c, d |-> d, st |-> "asked",
            seen |-> IF k \in {"removeChapter", "fork"} THEN cur ELSE None,
            before |-> IF k = "removeChapter" THEN rows[story] ELSE {}]}

(* The add button is disabled while a chapter is being created. *)
AddChapter ==
    /\ story = "here" /\ Loaded /\ (\A k \in calls : k.k # "add") /\ Ask("add", None, None)
    /\ UNCHANGED <<server, browser, history, other>>

(* onMutate takes the row away; the page moves on if it was the active one. *)
RemoveChapter(c) ==
    /\ story = "here" /\ c \in Listed /\ Ask("removeChapter", c, None)
    /\ rows' = [rows EXCEPT ![story] = @ \ {c}] /\ UNCHANGED <<story, meta>>
    /\ Lands(cur, sel, rows'[story]) /\ choice' = IF c = cur THEN Choice ELSE choice
    /\ UNCHANGED <<server, perils, other>>

NewDraft(c) ==
    /\ c \in Listed /\ Ask("fork", c, None) /\ UNCHANGED <<server, browser, history, other>>

RemoveDraft(c, d) ==
    /\ c \in Listed /\ d \in meta[c].ids /\ d # meta[c].act /\ Ask("removeDraft", c, d)
    /\ UNCHANGED <<server, browser, history, other>>

(* Faulty variant: the view goes on following the active draft. *)
Unpinned(c) == sel

(* The view is pinned to the draft it shows, if that is in this list. *)
Pinned(c) ==
    LET d == Shown[2] IN IF cur = c /\ d \in meta[c].ids THEN {<<c, d>>} ELSE sel

Activate(c, d) ==
    /\ c \in Listed /\ d \in meta[c].ids /\ d # meta[c].act /\ Ask("activate", c, d)
    /\ sel' = Pinned(c) /\ Meets(Shown[2] \notin Drafts(c), "dead")
    /\ UNCHANGED <<server, story, cur, rows, meta, choice, other>>

-----------------------------------------------------------------------------
(* The server, and what the page does with its answers.                     *)

Becomes(k, new) == calls' = (calls \ {k}) \cup {new}
Answered(k, st) == Becomes(k, [k EXCEPT !.st = st])

ServeAdd(k) ==
    \E c \in 1..MaxChapter :
      /\ k.k = "add" /\ top[c] = 0 /\ \A b \in 1..c - 1 : top[b] > 0
      /\ top' = [top EXCEPT ![c] = 1] /\ act' = [act EXCEPT ![c] = 1]
      /\ Becomes(k, [k EXCEPT !.c = c, !.st = "ok"]) /\ UNCHANGED gone

ServeRemoveChapter(k) ==
    /\ k.k = "removeChapter" /\ gone' = gone \cup {<<k.c, None>>} /\ UNCHANGED <<top, act>>
    /\ Answered(k, IF Lives(k.c) THEN "ok" ELSE "failed")

ServeFork(k) ==
    /\ k.k = "fork"
    /\ IF Lives(k.c)
       THEN /\ top[k.c] < MaxDraft /\ top' = [top EXCEPT ![k.c] = @ + 1]
            /\ Becomes(k, [k EXCEPT !.d = top[k.c] + 1, !.st = "ok"])
       ELSE Answered(k, "failed") /\ UNCHANGED top
    /\ UNCHANGED <<gone, act>>

(* Neither a chapter's last draft nor its active one is deleted. *)
ServeRemoveDraft(k) ==
    /\ k.k = "removeDraft" /\ UNCHANGED <<top, act>>
    /\ IF Lives(k.c) /\ k.d \in Drafts(k.c) \ {act[k.c]}
       THEN gone' = gone \cup {<<k.c, k.d>>} /\ Answered(k, "ok")
       ELSE Answered(k, "failed") /\ UNCHANGED gone

ServeActivate(k) ==
    /\ k.k = "activate" /\ UNCHANGED <<top, gone>>
    /\ IF Lives(k.c) /\ k.d \in Drafts(k.c)
       THEN act' = [act EXCEPT ![k.c] = k.d] /\ Answered(k, "ok")
       ELSE Answered(k, "failed") /\ UNCHANGED act

Serve(k) ==
    /\ k.st = "asked" /\ UNCHANGED <<browser, history, counters>>
    /\ \/ ServeAdd(k) \/ ServeRemoveChapter(k) \/ ServeFork(k) \/ ServeRemoveDraft(k)
       \/ ServeActivate(k)

Lose(k) ==
    /\ k.st # "failed" /\ Answered(k, "failed") /\ Meets(k.k = "removeDraft", "dead")
    /\ UNCHANGED <<server, browser, choice, counters>>

Answer(k, kind, st) == k.k = kind /\ k.st = st /\ calls' = calls \ {k}

(* The new chapter is selected while the list is still fetched again. *)
Added(k) ==
    /\ Answer(k, "add", "ok") /\ Lands(k.c, sel, rows[story]) /\ UNCHANGED <<story, rows, meta>>
    /\ choice' = (IF cur' = k.c THEN Choice ELSE <<k.c, None>>) /\ Meets(cur' # k.c, "unlisted")
    /\ UNCHANGED <<server, counters>>

(* onChapterDeleted compares with the chapter that was active at the click. *)
ChapterRemoved(k) ==
    /\ Answer(k, "removeChapter", "ok") /\ UNCHANGED <<story, rows, meta>>
    /\ IF k.seen = k.c THEN Lands(None, sel, rows[story]) ELSE UNCHANGED <<cur, sel>>
    /\ Meets(<<cur', sel'>> # <<cur, sel>>, "thrown") /\ Follows /\ UNCHANGED <<server, counters>>

(* onError: the list of before, once more. *)
ChapterStays(k) ==
    /\ Answer(k, "removeChapter", "failed") /\ rows' = [rows EXCEPT !["here"] = k.before]
    /\ Lands(cur, sel, rows'[story]) /\ UNCHANGED <<story, meta>> /\ Follows
    /\ UNCHANGED <<server, perils, counters>>

Forked(k) ==
    /\ Answer(k, "fork", "ok")
    /\ Lands(IF k.c # k.seen THEN k.c ELSE cur, {<<k.c, k.d>>}, rows[story])
    /\ UNCHANGED <<story, rows, meta>> /\ (IF k.c = cur' THEN Chooses ELSE Follows)
    /\ Meets(k.c # cur', "unlisted") /\ UNCHANGED <<server, counters>>

DraftRemoved(k) ==
    /\ Answer(k, "removeDraft", "ok") /\ sel' = sel \ {<<k.c, k.d>>}
    /\ UNCHANGED <<story, cur, rows, meta>>
    /\ choice' = IF sel' # sel THEN Choice ELSE choice
    /\ UNCHANGED <<server, perils, counters>>

NothingMore(k) ==
    /\ \/ Answer(k, "activate", "ok")
       \/ \E kind \in {"add", "fork", "removeDraft", "activate"} : Answer(k, kind, "failed")
    /\ UNCHANGED <<server, browser, history, counters>>

(* Other tabs and devices. *)
Elsewhere(c) ==
    /\ other < MaxOther /\ other' = other + 1 /\ Lives(c) /\ c # Far /\ UNCHANGED top
    /\ \/ gone' = gone \cup {<<c, None>>} /\ UNCHANGED <<act, perils>>
       \/ \E d \in Drafts(c) \ {act[c]} :
            \/ gone' = gone \cup {<<c, d>>} /\ Meets(TRUE, "dead") /\ UNCHANGED act
            \/ act' = [act EXCEPT ![c] = d] /\ Meets(TRUE, "followed") /\ UNCHANGED gone
    /\ UNCHANGED <<browser, calls, choice, ops>>

Next ==
    \/ \E c \in ChapterId :
         \/ SelectChapter(c) \/ LoadMeta(c) \/ RemoveChapter(c) \/ NewDraft(c) \/ Elsewhere(c)
         \/ \E d \in DraftId : SelectDraft(c, d) \/ RemoveDraft(c, d) \/ Activate(c, d)
    \/ \E s \in Stories : OpenStory(s)
    \/ LoadRows \/ AddChapter
    \/ \E k \in calls :
         \/ Serve(k) \/ Lose(k) \/ Added(k) \/ ChapterRemoved(k) \/ ChapterStays(k)
         \/ Forked(k) \/ DraftRemoved(k) \/ NothingMore(k)

Spec == Init /\ [][Next]_vars

-----------------------------------------------------------------------------
Quiet == /\ calls = {} /\ rows[story] = In(story)
         /\ cur \in ChapterId => meta[cur] = Fetched(cur)

(* When nothing is under way and the lists are fresh, the editor shows a    *)
(* chapter of the story if there is one, and a draft that exists, unless    *)
(* one was deleted in another tab, or selected from a list of before its    *)
(* deletion, or its deletion was not heard of.  It shows the document that  *)
(* was chosen unless that is gone, or a chapter was opened for one created  *)
(* while the list did not have it, or the answer to a deletion threw the    *)
(* user out of the chapter opened since, or the active draft was changed    *)
(* in another tab (EditorPage.tsx, ChapterList.tsx, DraftList.tsx).         *)
ViewHolds ==
    Quiet =>
      /\ IF In(story) = {} THEN cur = None ELSE cur \in In(story)
      /\ "dead" \notin perils /\ cur # None => Shown[2] \in Drafts(cur)
      /\ perils \cap {"unlisted", "thrown", "followed"} = {}
           => choice[1] = cur /\ choice[2] \in {None, Shown[2]}

(* A chapter that was added is opened ("new chapter appears, becomes        *)
(* active", docs/superpowers/plans/F51-mount-appshell.md:439).              *)
NewChapterOpens == [][\A k \in calls : Added(k) => cur' = k.c]_vars
===============================================================================
