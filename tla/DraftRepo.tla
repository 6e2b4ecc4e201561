------------------------------ MODULE DraftRepo -----------------------------
(***************************************************************************)
(* The drafts of chapters and their active pointers, as the draft routes   *)
(* and repository serve concurrent requests                                *)
(* (backend/src/repos/draft.repo.ts, routes/drafts.routes.ts; chapter      *)
(* creation and removal from repos/chapter.repo.ts).                       *)
(*                                                                         *)
(* A request is a process whose steps are the statements it sends to the   *)
(* database; PostgreSQL runs them at READ COMMITTED, so other requests     *)
(* commit in between, inside an interactive transaction as well.  The      *)
(* writes of one transaction take effect together at its commit: the rows  *)
(* they touch are locked until then.                                       *)
(***************************************************************************)
EXTENDS Integers, FiniteSets

CONSTANTS
    Chapter, Draft,       \* ids; an id is never used twice
    NoChapter, NoDraft,
    Request,              \* requests the server works on at a time
    Op,                   \* which operations clients send
    MaxAttempts           \* POST_ORDER_RETRY_ATTEMPTS

ASSUME DraftRepoAssumption ==
    /\ IsFiniteSet(Draft)
    /\ NoChapter \notin Chapter
    /\ NoDraft \notin Draft
    /\ Op \subseteq {"blank", "fork", "activate", "remove", "drop"}
    /\ MaxAttempts \in Nat \ {0}

VARIABLES
    (* the database *)
    chapterOf,    \* Draft.chapterId; NoChapter: no such row
    order,        \* Draft.orderIndex
    active,       \* Chapter.activeDraftId
    chapters,     \* the chapter rows
    fresh,        \* draft ids not used yet
    unborn,       \* chapter ids not used yet
    (* the requests *)
    pc,           \* the next statement
    op,           \* the operation
    chap,         \* the chapter it is about
    draft,        \* the draft it is about: to activate, to remove, to fork
    index,        \* orderIndex computed for a new draft
    attempts,     \* failed attempts to insert
    (* history *)
    raced         \* which guards have been overtaken by another request

dbVars == <<chapterOf, order, active, chapters, fresh, unborn>>
reqVars == <<pc, op, chap, draft, index, attempts>>
vars == <<dbVars, reqVars, raced>>

TypeOK ==
    /\ chapterOf \in [Draft -> Chapter \cup {NoChapter}]
    /\ order \in [Draft -> Nat]
    /\ active \in [Chapter -> Draft \cup {NoDraft}]
    /\ chapters \subseteq Chapter
    /\ fresh \subseteq Draft
    /\ unborn \subseteq Chapter
    /\ pc \in [Request -> {"idle", "source", "load", "order", "insert",
                           "activate", "count", "delete"}]
    /\ op \in [Request -> {"blank", "fork", "activate", "remove"}]
    /\ chap \in [Request -> Chapter \cup {NoChapter}]
    /\ draft \in [Request -> Draft \cup {NoDraft}]
    /\ index \in [Request -> Nat]
    /\ attempts \in [Request -> Nat]
    /\ raced \subseteq {"activation", "removal"}

DraftsOf(c) == {d \in Draft : chapterOf[d] = c}

Init ==
    /\ chapterOf = [d \in Draft |-> NoChapter]
    /\ order = [d \in Draft |-> 0]
    /\ active = [c \in Chapter |-> NoDraft]
    /\ chapters = {}
    /\ fresh = Draft
    /\ unborn = Chapter
    /\ pc = [r \in Request |-> "idle"]
    /\ op = [r \in Request |-> "blank"]
    /\ chap = [r \in Request |-> NoChapter]
    /\ draft = [r \in Request |-> NoDraft]
    /\ index = [r \in Request |-> 0]
    /\ attempts = [r \in Request |-> 0]
    /\ raced = {}

Goto(r, label) == pc' = [pc EXCEPT ![r] = label]

(* A request ends: with its response, or with an error that changed nothing. *)
Done(r) ==
    /\ Goto(r, "idle")
    /\ op' = [op EXCEPT ![r] = "blank"]
    /\ chap' = [chap EXCEPT ![r] = NoChapter]
    /\ draft' = [draft EXCEPT ![r] = NoDraft]
    /\ index' = [index EXCEPT ![r] = 0]
    /\ attempts' = [attempts EXCEPT ![r] = 0]

-----------------------------------------------------------------------------
(* Chapters: created with one draft and the pointer to it, and removed with *)
(* all their drafts, in one transaction each.                               *)

CreateChapter(c, d) ==
    /\ c \in unborn /\ d \in fresh
    /\ unborn' = unborn \ {c}
    /\ fresh' = fresh \ {d}
    /\ chapters' = chapters \cup {c}
    /\ chapterOf' = [chapterOf EXCEPT ![d] = c]
    /\ order' = [order EXCEPT ![d] = 0]
    /\ active' = [active EXCEPT ![c] = d]
    /\ UNCHANGED <<reqVars, raced>>

DropChapter(c) ==
    /\ "drop" \in Op
    /\ c \in chapters
    /\ chapters' = chapters \ {c}
    /\ chapterOf' = [d \in Draft |-> IF chapterOf[d] = c THEN NoChapter
                                     ELSE chapterOf[d]]
    /\ active' = [active EXCEPT ![c] = NoDraft]
    /\ UNCHANGED <<order, fresh, unborn, reqVars, raced>>

-----------------------------------------------------------------------------
(* POST /chapters/:chapterId/drafts: createBlank and createFork.            *)

BeginPost(r, c, kind) ==
    /\ pc[r] = "idle"
    /\ kind \in Op
    /\ c \in chapters
    /\ op' = [op EXCEPT ![r] = kind]
    /\ chap' = [chap EXCEPT ![r] = c]
    /\ Goto(r, IF kind = "fork" THEN "source" ELSE "order")
    /\ UNCHANGED <<dbVars, draft, index, attempts, raced>>

(* createFork reads the chapter's active pointer; it throws without one. *)
ReadSource(r) ==
    /\ pc[r] = "source"
    /\ IF chap[r] \in chapters /\ active[chap[r]] # NoDraft
       THEN /\ draft' = [draft EXCEPT ![r] = active[chap[r]]]
            /\ Goto(r, "load")
            /\ UNCHANGED <<op, chap, index, attempts>>
       ELSE Done(r)
    /\ UNCHANGED <<dbVars, raced>>

(* It loads that draft (and its chats); it throws if the row is gone. *)
LoadSource(r) ==
    /\ pc[r] = "load"
    /\ IF chapterOf[draft[r]] # NoChapter
       THEN /\ Goto(r, "order")
            /\ UNCHANGED <<op, chap, draft, index, attempts>>
       ELSE Done(r)
    /\ UNCHANGED <<dbVars, raced>>

(* nextOrderIndex: one past the largest index of the chapter's drafts. *)
IsNextOrderIndex(n, c) ==
    \/ /\ DraftsOf(c) = {}
       /\ n = 0
    \/ /\ \E d \in DraftsOf(c) : n = order[d] + 1
       /\ \A d \in DraftsOf(c) : order[d] < n

ReadNextOrderIndex(r) ==
    /\ pc[r] = "order"
    /\ \E n \in 0..Cardinality(Draft) :
           /\ IsNextOrderIndex(n, chap[r])
           /\ index' = [index EXCEPT ![r] = n]
    /\ Goto(r, "insert")
    /\ UNCHANGED <<dbVars, op, chap, draft, attempts, raced>>

(* Faulty variant: the table lacks its unique index. *)
NoUniqueIndex(c, n) == FALSE

(* @@unique([chapterId, orderIndex]) *)
IndexTaken(c, n) == \E d \in DraftsOf(c) : order[d] = n

Insert(r, d) ==
    /\ pc[r] = "insert"
    /\ d \in fresh
    /\ chap[r] \in chapters
    /\ ~IndexTaken(chap[r], index[r])
    /\ fresh' = fresh \ {d}
    /\ chapterOf' = [chapterOf EXCEPT ![d] = chap[r]]
    /\ order' = [order EXCEPT ![d] = index[r]]
    /\ Done(r)
    /\ UNCHANGED <<active, chapters, unborn, raced>>

(* A unique violation starts the creation over, so many times; every other  *)
(* failure ends the request.                                                *)
InsertFails(r) ==
    /\ pc[r] = "insert"
    /\ IF chap[r] \in chapters
       THEN /\ IndexTaken(chap[r], index[r])
            /\ IF attempts[r] + 1 < MaxAttempts
               THEN /\ attempts' = [attempts EXCEPT ![r] = @ + 1]
                    /\ Goto(r, IF op[r] = "fork" THEN "source" ELSE "order")
                    /\ UNCHANGED <<op, chap, draft, index>>
               ELSE Done(r)
       ELSE Done(r)
    /\ UNCHANGED <<dbVars, raced>>

-----------------------------------------------------------------------------
(* PUT /chapters/:chapterId/active-draft: setActive.                        *)

(* The first statement looks the draft up by its id and its chapter's. *)
MayActivate(c, d) == c \in chapters /\ chapterOf[d] = c

BeginActivate(r, c, d) ==
    /\ pc[r] = "idle"
    /\ "activate" \in Op
    /\ MayActivate(c, d)
    /\ op' = [op EXCEPT ![r] = "activate"]
    /\ chap' = [chap EXCEPT ![r] = c]
    /\ draft' = [draft EXCEPT ![r] = d]
    /\ Goto(r, "activate")
    /\ UNCHANGED <<dbVars, index, attempts, raced>>

(* The update fails if the chapter is gone, and, by the pointer's foreign   *)
(* key, if the draft is.                                                    *)
Activate(r) ==
    /\ pc[r] = "activate"
    /\ active' = IF chap[r] \in chapters /\ chapterOf[draft[r]] # NoChapter
                 THEN [active EXCEPT ![chap[r]] = draft[r]]
                 ELSE active
    /\ raced' = IF \E s \in Request : /\ pc[s] \in {"count", "delete"}
                                      /\ draft[s] = draft[r]
                THEN raced \cup {"activation"} ELSE raced
    /\ Done(r)
    /\ UNCHANGED <<chapterOf, order, chapters, fresh, unborn>>

-----------------------------------------------------------------------------
(* DELETE /drafts/:draftId: remove.                                         *)

(* Faulty variant: remove without its guard on the active draft. *)
MayRemoveActive(d) == chapterOf[d] # NoChapter

(* The first statement reads the draft and its chapter's pointer; the       *)
(* active draft is refused.                                                 *)
MayRemove(d) == chapterOf[d] # NoChapter /\ active[chapterOf[d]] # d

BeginRemove(r, d) ==
    /\ pc[r] = "idle"
    /\ "remove" \in Op
    /\ MayRemove(d)
    /\ op' = [op EXCEPT ![r] = "remove"]
    /\ chap' = [chap EXCEPT ![r] = chapterOf[d]]
    /\ draft' = [draft EXCEPT ![r] = d]
    /\ Goto(r, "count")
    /\ UNCHANGED <<dbVars, index, attempts, raced>>

(* The second counts the chapter's drafts; the last one is refused. *)
CountSiblings(r) ==
    /\ pc[r] = "count"
    /\ IF Cardinality(DraftsOf(chap[r])) <= 1
       THEN Done(r)
       ELSE /\ Goto(r, "delete")
            /\ UNCHANGED <<op, chap, draft, index, attempts>>
    /\ UNCHANGED <<dbVars, raced>>

(* Faulty variant: the survivors are numbered from the other end. *)
RepackedBackwards(d, gone) ==
    Cardinality({e \in DraftsOf(chapterOf[d]) \ {gone} : order[e] > order[d]})

(* The survivors are renumbered 0..N-1 in their order. *)
Repacked(d, gone) ==
    Cardinality({e \in DraftsOf(chapterOf[d]) \ {gone} : order[e] < order[d]})

(* The delete, the foreign key's SET NULL and the renumbering commit. *)
CommitRemove(r) ==
    LET gone == draft[r] IN
    /\ pc[r] = "delete"
    /\ chapterOf[gone] # NoChapter
    /\ chapterOf' = [chapterOf EXCEPT ![gone] = NoChapter]
    /\ active' = [c \in Chapter |-> IF active[c] = gone THEN NoDraft
                                    ELSE active[c]]
    /\ order' = [d \in Draft |->
                    IF d # gone /\ chapterOf[d] = chapterOf[gone]
                    THEN Repacked(d, gone) ELSE order[d]]
    /\ raced' = IF \E s \in Request : pc[s] = "insert" /\ chap[s] = chap[r]
                THEN raced \cup {"removal"} ELSE raced
    /\ Done(r)
    /\ UNCHANGED <<chapters, fresh, unborn>>

(* It rolls back if the row is gone, or as the victim of a deadlock with    *)
(* another removal (two renumberings lock the survivors in some order).     *)
AbortRemove(r) ==
    /\ pc[r] = "delete"
    /\ \/ chapterOf[draft[r]] = NoChapter
       \/ \E s \in Request \ {r} : pc[s] = "delete" /\ chap[s] = chap[r]
    /\ Done(r)
    /\ UNCHANGED <<dbVars, raced>>

Next ==
    \/ \E c \in Chapter : DropChapter(c) \/ \E d \in Draft : CreateChapter(c, d)
    \/ \E r \in Request :
           \/ \E c \in Chapter, kind \in {"blank", "fork"} : BeginPost(r, c, kind)
           \/ ReadSource(r) \/ LoadSource(r) \/ ReadNextOrderIndex(r)
           \/ \E d \in Draft : Insert(r, d)
           \/ InsertFails(r)
           \/ \E c \in Chapter, d \in Draft : BeginActivate(r, c, d)
           \/ Activate(r)
           \/ \E d \in Draft : BeginRemove(r, d)
           \/ CountSiblings(r) \/ CommitRemove(r) \/ AbortRemove(r)

Spec == Init /\ [][Next]_vars

-----------------------------------------------------------------------------
(* Whatever requests run together, a pointer that is set points to a draft  *)
(* of its own chapter, and drafts belong to chapters that exist (setActive  *)
(* checks the pair, the foreign keys do the rest).                          *)
ActivePointsHome ==
    /\ \A c \in Chapter : active[c] # NoDraft => chapterOf[active[c]] = c
    /\ \A d \in Draft : chapterOf[d] # NoChapter => chapterOf[d] \in chapters

(* "Every chapter has exactly one active draft" (chapter.repo's create);    *)
(* "the exactly-one-active-draft invariant can't be raced" (chapter-drafts  *)
(* design, section 7).  Reading a chapter without one throws.               *)
OneActiveDraft ==
    \A c \in chapters : active[c] # NoDraft

(* The only way to lose the active draft is a setActive that commits        *)
(* between remove's guard and its delete: forks, creations, other removals  *)
(* and chapter deletions, however interleaved, never do.                    *)
OneActiveUnlessRaced == "activation" \notin raced => OneActiveDraft

(* The order indexes of a chapter's drafts are 0..N-1 without gaps or       *)
(* duplicates: positional labels are computed from them ("the gap-free      *)
(* orderIndex", useDrafts).                                                 *)
GapFree ==
    \A c \in chapters :
        {order[d] : d \in DraftsOf(c)} = 0..(Cardinality(DraftsOf(c)) - 1)

(* The only way to a gap is a removal that commits between the reading of   *)
(* the next order index and the insert: for creations alone, the unique     *)
(* index and the retry suffice.                                             *)
GapFreeUnlessRaced == "removal" \notin raced => GapFree
=============================================================================
