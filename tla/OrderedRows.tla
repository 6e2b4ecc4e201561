---------------------------- MODULE OrderedRows -----------------------------
(***************************************************************************)
(* The ordered rows of one story - its chapters, its characters or its     *)
(* outline items - as the routes and repositories keep their order columns *)
(* and as the browser tabs keep them in the query cache, with the          *)
(* optimistic reorder and delete (backend/src/repos/chapter.repo.ts,       *)
(* character.repo.ts, outline.repo.ts, their routes, and                   *)
(* frontend/src/hooks/useChapters.ts, useCharacters.ts, useOutline.ts).    *)
(*                                                                         *)
(* The three collections share their code's shape; `kind` says which one   *)
(* the behaviour is about.  A request's steps are its statements at READ   *)
(* COMMITTED; a transaction's writes take effect together, and whoever     *)
(* wants a row it has locked waits.                                        *)
(***************************************************************************)
EXTENDS Integers, FiniteSets, Sequences, SequencesExt

CONSTANTS
    Row,            \* ids; an id is never used twice
    Tab,            \* browser tabs showing the story
    Request,        \* mutations under way at a time
    NoRow, NoTab,
    Stored,         \* the rows there are to begin with
    Kinds,          \* the collections to look at
    MaxAttempts,    \* POST_ORDER_RETRY_ATTEMPTS
    MaxOps          \* bound: mutations started

OrderedRowsAssumption ==
    /\ IsFiniteSet(Row) /\ Stored \subseteq Row
    /\ NoRow \notin Row /\ NoTab \notin Tab
    /\ Kinds \subseteq {"chapter", "character", "outline"}
    /\ MaxAttempts \in Nat \ {0} /\ MaxOps \in Nat

VARIABLES
    kind,       \* the collection
    at,         \* the rows' orderIndex / order: a function on the stored rows
    fresh,      \* ids not used yet
    req,        \* the mutations under way
    cache,      \* the list each tab shows
    fetch,      \* each tab's GET, and the list it is bringing
    behind,     \* tabs whose list something they were not told of has changed
    raced,      \* a create and a remove have overlapped, or a row been placed
    ops         \* mutations started

vars == <<kind, at, fresh, req, cache, fetch, behind, raced, ops>>

Idle == [pc |-> "idle", tab |-> NoTab, op |-> "none", row |-> NoRow,
         list |-> <<>>, index |-> 0, prev |-> <<>>, tries |-> 0]

NoFetch == [pc |-> "none", list |-> <<>>]
Asked == [pc |-> "asked", list |-> <<>>]

Elems(s) == {s[i] : i \in DOMAIN s}
Used(f) == {f[x] : x \in DOMAIN f}
Distinct(f) == \A x, y \in DOMAIN f : f[x] = f[y] => x = y

(* GET: the rows by their order column. *)
Listed(f) ==
    [i \in 1..Cardinality(DOMAIN f) |->
        CHOOSE x \in DOMAIN f : Cardinality({y \in DOMAIN f : f[y] < f[x]}) = i - 1]

(* withSequentialOrderIndex: the order column a list stands for. *)
Places(s) == [x \in Elems(s) |-> (CHOOSE i \in DOMAIN s : s[i] = x) - 1]

TypeOK ==
    /\ kind \in Kinds
    /\ DOMAIN at \subseteq Row /\ at \in [DOMAIN at -> Nat] /\ Distinct(at)
    /\ fresh \subseteq Row \ DOMAIN at
    /\ \A r \in Request :
         /\ req[r].pc \in {"idle", "max", "insert", "update", "check", "park",
                           "delete", "renumber", "ok", "failed"}
         /\ req[r].tab \in Tab \cup {NoTab} /\ req[r].row \in Row \cup {NoRow}
         /\ req[r].index \in Nat /\ req[r].tries \in 0..MaxAttempts
    /\ \A t \in Tab : cache[t] \in Seq(Row) /\ IsInjective(cache[t])
    /\ \A t \in Tab : fetch[t].pc \in {"none", "asked", "served"}
    /\ behind \subseteq Tab
    /\ raced \in BOOLEAN /\ ops \in 0..MaxOps

Init ==
    /\ kind \in Kinds
    /\ \E f \in [Stored -> 0..Cardinality(Stored) - 1] : Distinct(f) /\ at = f
    /\ fresh = Row \ Stored
    /\ req = [r \in Request |-> Idle]
    /\ cache = [t \in Tab |-> Listed(at)]
    /\ fetch = [t \in Tab |-> NoFetch]
    /\ behind = {} /\ raced = FALSE /\ ops = 0

-----------------------------------------------------------------------------
(* A tab starts a mutation.  onMutate of the optimistic ones cancels the    *)
(* tab's fetch, keeps the list as a snapshot and writes the expected one.   *)

Start(t, r, record) ==
    /\ req[r].pc = "idle"
    /\ req' = [req EXCEPT ![r] = record]
    /\ ops' = ops + 1
    /\ UNCHANGED <<kind, at, fresh, behind, raced>>

Plainly == UNCHANGED <<cache, fetch>>
Optimistically(t, s) ==
    /\ fetch' = [fetch EXCEPT ![t] = NoFetch]
    /\ cache' = [cache EXCEPT ![t] = s]

Post(t, r) ==
    /\ Cardinality({q \in Request : req[q].pc \in {"max", "insert"}})
         < Cardinality(fresh)        \* bound: ids
    /\ Start(t, r, [Idle EXCEPT !.pc = "max", !.tab = t, !.op = "create"])
    /\ Plainly
PostChapter(t, r)     == kind = "chapter" /\ Post(t, r)
PostCharacter(t, r)   == kind = "character" /\ Post(t, r)
PostOutlineItem(t, r) == kind = "outline" /\ Post(t, r)

(* PATCH with an order column, which characters do not take. *)
Patch(t, r, x, i) ==
    /\ x \in Elems(cache[t])
    /\ Start(t, r, [Idle EXCEPT !.pc = "update", !.tab = t, !.op = "place",
                                !.row = x, !.index = i])
    /\ Plainly
PatchChapter(t, r, x, i)     == kind = "chapter" /\ Patch(t, r, x, i)
PatchOutlineItem(t, r, x, i) == kind = "outline" /\ Patch(t, r, x, i)

(* filter(c => c.id !== id): the list without one of its rows. *)
Dropped(s, x) == RemoveAt(s, CHOOSE k \in DOMAIN s : s[k] = x)

DeleteRequest(t, x) ==
    [Idle EXCEPT !.pc = "delete", !.tab = t, !.op = "delete", !.row = x,
                 !.prev = cache[t]]
Dropping(t, r, x) ==
    /\ x \in Elems(cache[t])
    /\ Start(t, r, DeleteRequest(t, x))
    /\ Optimistically(t, Dropped(cache[t], x))
DeleteChapter(t, r, x)   == kind = "chapter" /\ Dropping(t, r, x)
DeleteCharacter(t, r, x) == kind = "character" /\ Dropping(t, r, x)
DeleteOutlineItem(t, r, x) ==
    /\ kind = "outline" /\ x \in Elems(cache[t])
    /\ Start(t, r, DeleteRequest(t, x))
    /\ Plainly

(* arrayMove, after a row has been dragged to another one's place. *)
Moved(s, x, i) == InsertAt(Dropped(s, x), i, x)

Drag(t, r, x, i) ==
    /\ x \in Elems(cache[t]) /\ i \in DOMAIN cache[t] /\ cache[t][i] # x
    /\ LET s == Moved(cache[t], x, i)
       IN  /\ Start(t, r, [Idle EXCEPT !.pc = "check", !.tab = t,
                             !.op = "reorder", !.list = s, !.prev = cache[t]])
           /\ Optimistically(t, s)
DragChapter(t, r, x, i)     == kind = "chapter" /\ Drag(t, r, x, i)
DragCharacter(t, r, x, i)   == kind = "character" /\ Drag(t, r, x, i)
DragOutlineItem(t, r, x, i) == kind = "outline" /\ Drag(t, r, x, i)

-----------------------------------------------------------------------------
(* The server.                                                              *)

Goto(r, label) == req' = [req EXCEPT ![r].pc = label]
Fails(r) ==
    /\ Goto(r, "failed")
    /\ UNCHANGED <<at, fresh, behind, raced>>

Server == UNCHANGED <<kind, cache, fetch, ops>>

(* Every other tab falls behind a commit until it fetches; so does the one  *)
(* that placed a chapter, whose onSuccess replaces the row where it stands. *)
Unseen(r) ==
    behind' = behind \cup (Tab \ {req[r].tab}) \cup
              IF req[r].op = "place" /\ kind = "chapter" THEN {req[r].tab} ELSE {}

NextPlace(f) == IF DOMAIN f = {} THEN 0
                ELSE 1 + CHOOSE i \in Used(f) : \A j \in Used(f) : j <= i

(* maxOrderIndex / maxOrder. *)
ReadMax(r) ==
    /\ req[r].pc = "max"
    /\ req' = [req EXCEPT ![r].pc = "insert", ![r].index = NextPlace(at)]
    /\ UNCHANGED <<at, fresh, behind, raced>> /\ Server

With(f, x, i) == [y \in DOMAIN f \cup {x} |-> IF y = x THEN i ELSE f[y]]

(* A create and a remove are under way together, past their reads. *)
Overlaps(r, label) == \E q \in Request \ {r} : req[q].pc = label

Insert(r, x) ==
    /\ req[r].pc = "insert" /\ req[r].index \notin Used(at) /\ x \in fresh
    /\ at' = With(at, x, req[r].index)
    /\ fresh' = fresh \ {x}
    /\ raced' = (raced \/ Overlaps(r, "renumber"))
    /\ Goto(r, "ok") /\ Unseen(r) /\ Server

(* P2002: read the maximum again, MaxAttempts times in all. *)
InsertFails(r) ==
    /\ req[r].pc = "insert" /\ req[r].index \in Used(at)
    /\ req' = [req EXCEPT ![r].tries = @ + 1,
                 ![r].pc = IF req[r].tries + 1 < MaxAttempts THEN "max" ELSE "failed"]
    /\ UNCHANGED <<at, fresh, behind, raced>> /\ Server

Touched(r) == Elems(req[r].list) \cup ({req[r].row} \ {NoRow})

(* The row another request is about to have deleted is locked until then. *)
Waits(r, q) ==
    /\ q # r /\ req[q].pc = "renumber"
    /\ req[q].row \in Touched(r)
Free(r) == \A q \in Request : ~Waits(r, q)

Place(r) ==
    /\ req[r].pc = "update" /\ Free(r) /\ Server
    /\ IF req[r].row \in DOMAIN at /\ Distinct(With(at, req[r].row, req[r].index))
       THEN /\ at' = With(at, req[r].row, req[r].index)
            /\ raced' = TRUE
            /\ Goto(r, "ok") /\ Unseen(r) /\ UNCHANGED fresh
       ELSE Fails(r)

(* reorder: the ids are counted before the transaction. *)
CheckReorder(r) ==
    /\ req[r].pc = "check" /\ Server
    /\ IF Elems(req[r].list) \subseteq DOMAIN at
       THEN Goto(r, "park") /\ UNCHANGED <<at, fresh, behind, raced>>
       ELSE Fails(r)

(* Faulty variant: a renumbering that writes nothing. *)
NotRenumbered(f, s) == f

(* Parking the rows first lets them trade places; a row that has gone, or a *)
(* place taken by a row the list lacks, rolls everything back.              *)
Renumbered(f, s) == [x \in DOMAIN f |-> IF x \in Elems(s) THEN Places(s)[x] ELSE f[x]]

CommitReorder(r) ==
    /\ req[r].pc = "park" /\ Free(r) /\ Server
    /\ IF /\ Elems(req[r].list) \subseteq DOMAIN at
          /\ Distinct(Renumbered(at, req[r].list))
       THEN /\ at' = Renumbered(at, req[r].list)
            /\ Goto(r, "ok") /\ Unseen(r)
            /\ UNCHANGED <<fresh, raced>>
       ELSE Fails(r)

Without(f, x) == [y \in DOMAIN f \ {x} |-> f[y]]

(* remove of an outline item: deleteMany, which leaves a gap. *)
RemoveOutlineItem(r) ==
    /\ kind = "outline" /\ req[r].pc = "delete" /\ Server
    /\ IF req[r].row \in DOMAIN at
       THEN /\ at' = Without(at, req[r].row)
            /\ Goto(r, "ok") /\ Unseen(r) /\ UNCHANGED <<fresh, raced>>
       ELSE Fails(r)

(* remove of a chapter or a character: the delete, and the read of the rest *)
(* the same transaction is going to renumber.                               *)
BeginRemove(r) ==
    /\ req[r].pc = "delete" /\ Free(r) /\ Server
    /\ IF req[r].row \in DOMAIN at
       THEN /\ req' = [req EXCEPT ![r].pc = "renumber",
                                  ![r].list = Listed(Without(at, req[r].row))]
            /\ UNCHANGED <<at, fresh, behind, raced>>
       ELSE Fails(r)

CommitRemove(r) ==
    /\ req[r].pc = "renumber" /\ Free(r) /\ Server
    /\ LET left == Renumbered(Without(at, req[r].row), req[r].list)
       IN  IF Elems(req[r].list) \subseteq DOMAIN at /\ Distinct(left)
           THEN /\ at' = left
                /\ raced' = (raced \/ Overlaps(r, "insert"))
                /\ Goto(r, "ok") /\ Unseen(r) /\ UNCHANGED fresh
           ELSE Fails(r)

(* Transactions that wait for each other's rows: PostgreSQL aborts one.     *)
(* A reorder holds the rows it has parked by the time it meets a locked one.*)
Deadlocked(r, q) ==
    \/ Waits(r, q) /\ Waits(q, r)
    \/ req[r].pc = "park" /\ Waits(r, q) /\ Touched(r) \cap Elems(req[q].list) # {}
    \/ req[q].pc = "park" /\ Waits(q, r) /\ Touched(q) \cap Elems(req[r].list) # {}

Abort(r) ==
    /\ \E q \in Request : Deadlocked(r, q)
    /\ Fails(r) /\ Server

-----------------------------------------------------------------------------
(* The answers, and the tabs' lists.                                        *)

(* The hooks that invalidate on success only: a mutation that was done but  *)
(* whose answer was lost leaves the list as it is.                          *)
OnSuccessOnly(r) ==
    req[r].op \in {"create", "place"} \/ (req[r].op = "delete" /\ kind = "outline")

(* Faulty variant: no onSettled, only a success refetches. *)
RefetchesOnSuccess(r, good) == good /\ ~(req[r].op = "place" /\ kind = "chapter")

Refetches(r, good) ==
    ~(OnSuccessOnly(r) /\ ~good) /\ ~(req[r].op = "place" /\ kind = "chapter")

RollsBack(r, good) == ~good /\ ~OnSuccessOnly(r)

(* onError, onSuccess and onSettled. *)
Settle(r, good) ==
    LET t == req[r].tab
    IN  /\ cache' = IF RollsBack(r, good)
                    THEN [cache EXCEPT ![t] = req[r].prev] ELSE cache
        /\ fetch' = IF Refetches(r, good)
                    THEN [fetch EXCEPT ![t] = Asked] ELSE fetch
        /\ req' = [req EXCEPT ![r] = Idle]
        /\ UNCHANGED <<kind, at, fresh, raced, ops>>

Answer(r) ==
    /\ req[r].pc \in {"ok", "failed"}
    /\ Settle(r, req[r].pc = "ok")
    /\ UNCHANGED behind

(* The answer to a mutation that was done does not arrive. *)
Lose(r) ==
    /\ req[r].pc = "ok"
    /\ Settle(r, FALSE)
    /\ behind' = IF OnSuccessOnly(r) THEN behind \cup {req[r].tab} ELSE behind

(* A list mounted again, or again in use, is refetched. *)
Refetch(t) ==
    /\ fetch[t] = NoFetch
    /\ fetch' = [fetch EXCEPT ![t] = Asked]
    /\ UNCHANGED <<kind, at, fresh, req, cache, behind, raced, ops>>

Serve(t) ==
    /\ fetch[t] = Asked
    /\ fetch' = [fetch EXCEPT ![t] = [pc |-> "served", list |-> Listed(at)]]
    /\ behind' = behind \ {t}
    /\ UNCHANGED <<kind, at, fresh, req, cache, raced, ops>>

Receive(t) ==
    /\ fetch[t].pc = "served"
    /\ cache' = [cache EXCEPT ![t] = fetch[t].list]
    /\ fetch' = [fetch EXCEPT ![t] = NoFetch]
    /\ UNCHANGED <<kind, at, fresh, req, behind, raced, ops>>

Mutate(t, r) ==
    /\ ops < MaxOps
    /\ \/ PostChapter(t, r) \/ PostCharacter(t, r) \/ PostOutlineItem(t, r)
       \/ \E x \in Row :
            \/ DeleteChapter(t, r, x) \/ DeleteCharacter(t, r, x)
            \/ DeleteOutlineItem(t, r, x)
            \/ \E i \in 0..Cardinality(Row) :
                 \/ PatchChapter(t, r, x, i) \/ PatchOutlineItem(t, r, x, i)
                 \/ DragChapter(t, r, x, i) \/ DragCharacter(t, r, x, i)
                 \/ DragOutlineItem(t, r, x, i)

(* The repositories share the steps. *)
InsertChapter(r, x)     == kind = "chapter" /\ Insert(r, x)
InsertCharacter(r, x)   == kind = "character" /\ Insert(r, x)
InsertOutlineItem(r, x) == kind = "outline" /\ Insert(r, x)
UpdateChapter(r)        == kind = "chapter" /\ Place(r)
UpdateOutlineItem(r)    == kind = "outline" /\ Place(r)
ReorderChapters(r)      == kind = "chapter" /\ (CheckReorder(r) \/ CommitReorder(r))
ReorderCharacters(r)    == kind = "character" /\ (CheckReorder(r) \/ CommitReorder(r))
ReorderOutline(r)       == kind = "outline" /\ (CheckReorder(r) \/ CommitReorder(r))
RemoveChapter(r)        == kind = "chapter" /\ (BeginRemove(r) \/ CommitRemove(r))
RemoveCharacter(r)      == kind = "character" /\ (BeginRemove(r) \/ CommitRemove(r))

Serves(r) ==
    \/ ReadMax(r) \/ InsertFails(r) \/ Abort(r)
    \/ \E x \in Row : \/ InsertChapter(r, x) \/ InsertCharacter(r, x)
                      \/ InsertOutlineItem(r, x)
    \/ UpdateChapter(r) \/ UpdateOutlineItem(r)
    \/ ReorderChapters(r) \/ ReorderCharacters(r) \/ ReorderOutline(r)
    \/ RemoveChapter(r) \/ RemoveCharacter(r) \/ RemoveOutlineItem(r)

Next ==
    \/ \E t \in Tab, r \in Request : Mutate(t, r)
    \/ \E r \in Request : Serves(r) \/ Answer(r) \/ Lose(r)
    \/ \E t \in Tab : Refetch(t) \/ Serve(t) \/ Receive(t)

Spec == Init /\ [][Next]_vars

-----------------------------------------------------------------------------
(* Properties.                                                              *)

Quiet(t) == fetch[t] = NoFetch /\ \A r \in Request : req[r].tab # t

(* A tab with nothing under way shows the server's rows in the server's     *)
(* order, whatever its overlapping optimistic writes, rollbacks, cancelled  *)
(* fetches and lost answers did meanwhile; it may only miss what another    *)
(* tab did, or what the hooks that refetch on success alone did not hear of *)
(* (onMutate / onError / onSettled of the reorder and delete hooks).        *)
ListsAgree == \A t \in Tab : Quiet(t) /\ t \notin behind => cache[t] = Listed(at)

(* The order columns of chapters and characters run from 0 without gaps,    *)
(* whatever reorders - of stale lists, too - run into creates and removes;  *)
(* only a create and a remove past their reads together, or a row placed by *)
(* number, break them (remove's renumbering, maxOrderIndex, reorder).       *)
DenseUnlessRaced ==
    kind # "outline" /\ ~raced => Used(at) = 0..Cardinality(DOMAIN at) - 1
=============================================================================
