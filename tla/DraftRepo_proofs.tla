-------------------------- MODULE DraftRepo_proofs --------------------------
(***************************************************************************)
(* Proofs about the draft routes, for any chapters, any finite set of      *)
(* drafts, any number of concurrent requests and any number of retries.    *)
(***************************************************************************)
EXTENDS DraftRepo, FiniteSetTheorems, TLAPS

(* What the assumption on the constants says. *)
LEMMA Constants ==
    /\ IsFiniteSet(Draft)
    /\ NoChapter \notin Chapter
    /\ NoDraft \notin Draft
    /\ Op \subseteq {"blank", "fork", "activate", "remove", "drop"}
    /\ MaxAttempts \in Nat
  BY DraftRepoAssumption DEF DraftRepoAssumption

(* Renumbering yields natural numbers. *)
LEMMA RepackedType ==
    ASSUME NEW d, NEW gone
    PROVE  Repacked(d, gone) \in Nat
  <1> DEFINE S == {e \in DraftsOf(chapterOf[d]) \ {gone} : order[e] < order[d]}
  <1>1. S \subseteq Draft
    BY DEF DraftsOf
  <1>2. Cardinality(S) \in Nat
    BY <1>1, Constants, FS_Subset, FS_CardinalityType
  <1>3. QED
    BY <1>2 DEF Repacked

(* A request that ends keeps the types of the requests. *)
LEMMA DoneType ==
    ASSUME TypeOK, NEW r \in Request, Done(r)
    PROVE  /\ pc' \in [Request -> {"idle", "source", "load", "order", "insert",
                                   "activate", "count", "delete"}]
           /\ op' \in [Request -> {"blank", "fork", "activate", "remove"}]
           /\ chap' \in [Request -> Chapter \cup {NoChapter}]
           /\ draft' \in [Request -> Draft \cup {NoDraft}]
           /\ index' \in [Request -> Nat]
           /\ attempts' \in [Request -> Nat]
  BY DEF TypeOK, Done, Goto

-----------------------------------------------------------------------------
(* The initial state and every step preserve the types. *)
LEMMA TypeInit == Init => TypeOK
  BY Constants DEF Init, TypeOK

LEMMA TypeStep == TypeOK /\ [Next]_vars => TypeOK'
  <1> SUFFICES ASSUME TypeOK, [Next]_vars PROVE TypeOK'
    OBVIOUS
  <1>1. ASSUME NEW c \in Chapter, DropChapter(c) PROVE TypeOK'
    BY <1>1, Constants DEF DropChapter, TypeOK, reqVars
  <1>2. ASSUME NEW c \in Chapter, NEW d \in Draft, CreateChapter(c, d)
        PROVE  TypeOK'
    BY <1>2, Constants DEF CreateChapter, TypeOK, reqVars
  <1>3. ASSUME NEW r \in Request, NEW c \in Chapter,
               NEW kind \in {"blank", "fork"}, BeginPost(r, c, kind)
        PROVE  TypeOK'
    BY <1>3 DEF BeginPost, TypeOK, dbVars, Goto
  <1>4. ASSUME NEW r \in Request, ReadSource(r) PROVE TypeOK'
    <2>1. CASE Done(r)
      BY <1>4, <2>1, DoneType DEF ReadSource, TypeOK, dbVars
    <2>2. CASE chap[r] \in chapters /\ active[chap[r]] # NoDraft /\ ~Done(r)
      <3>1. active[chap[r]] \in Draft
        BY <2>2 DEF TypeOK
      <3>2. QED
        BY <1>4, <2>2, <3>1 DEF ReadSource, TypeOK, dbVars, Goto
    <2>3. QED
      BY <1>4, <2>1, <2>2 DEF ReadSource
  <1>5. ASSUME NEW r \in Request, LoadSource(r) PROVE TypeOK'
    <2>1. CASE Done(r)
      BY <1>5, <2>1, DoneType DEF LoadSource, TypeOK, dbVars
    <2>2. CASE ~Done(r)
      BY <1>5, <2>2 DEF LoadSource, TypeOK, dbVars, Goto
    <2>3. QED
      BY <2>1, <2>2
  <1>6. ASSUME NEW r \in Request, ReadNextOrderIndex(r) PROVE TypeOK'
    BY <1>6 DEF ReadNextOrderIndex, TypeOK, dbVars, Goto
  <1>7. ASSUME NEW r \in Request, NEW d \in Draft, Insert(r, d) PROVE TypeOK'
    <2>1. chap[r] \in Chapter /\ index[r] \in Nat
      BY <1>7 DEF Insert, TypeOK
    <2>2. QED
      BY <1>7, <2>1, DoneType DEF Insert, TypeOK
  <1>8. ASSUME NEW r \in Request, InsertFails(r) PROVE TypeOK'
    <2>1. CASE Done(r)
      BY <1>8, <2>1, DoneType DEF InsertFails, TypeOK, dbVars
    <2>2. CASE ~Done(r)
      BY <1>8, <2>2 DEF InsertFails, TypeOK, dbVars, Goto
    <2>3. QED
      BY <2>1, <2>2
  <1>9. ASSUME NEW r \in Request, NEW c \in Chapter, NEW d \in Draft,
               BeginActivate(r, c, d)
        PROVE  TypeOK'
    BY <1>9 DEF BeginActivate, TypeOK, dbVars, Goto
  <1>10. ASSUME NEW r \in Request, Activate(r) PROVE TypeOK'
    <2>1. active' \in [Chapter -> Draft \cup {NoDraft}]
      BY <1>10 DEF Activate, TypeOK
    <2>2. raced' \subseteq {"activation", "removal"}
      BY <1>10 DEF Activate, TypeOK
    <2>3. QED
      BY <1>10, <2>1, <2>2, DoneType DEF Activate, TypeOK
  <1>11. ASSUME NEW r \in Request, NEW d \in Draft, BeginRemove(r, d)
         PROVE  TypeOK'
    BY <1>11 DEF BeginRemove, MayRemove, TypeOK, dbVars, Goto
  <1>12. ASSUME NEW r \in Request, CountSiblings(r) PROVE TypeOK'
    <2>1. CASE Done(r)
      BY <1>12, <2>1, DoneType DEF CountSiblings, TypeOK, dbVars
    <2>2. CASE ~Done(r)
      BY <1>12, <2>2 DEF CountSiblings, TypeOK, dbVars, Goto
    <2>3. QED
      BY <2>1, <2>2
  <1>13. ASSUME NEW r \in Request, CommitRemove(r) PROVE TypeOK'
    <2>1. order' \in [Draft -> Nat]
      BY <1>13, RepackedType DEF CommitRemove, TypeOK
    <2>2. chapterOf' \in [Draft -> Chapter \cup {NoChapter}]
      BY <1>13 DEF CommitRemove, TypeOK
    <2>3. active' \in [Chapter -> Draft \cup {NoDraft}]
      BY <1>13 DEF CommitRemove, TypeOK
    <2>4. raced' \subseteq {"activation", "removal"}
      BY <1>13 DEF CommitRemove, TypeOK
    <2>5. QED
      BY <1>13, <2>1, <2>2, <2>3, <2>4, DoneType DEF CommitRemove, TypeOK
  <1>14. ASSUME NEW r \in Request, AbortRemove(r) PROVE TypeOK'
    BY <1>14, DoneType DEF AbortRemove, TypeOK, dbVars
  <1>15. CASE UNCHANGED vars
    BY <1>15 DEF vars, dbVars, reqVars, TypeOK
  <1>16. QED
    BY <1>1, <1>2, <1>3, <1>4, <1>5, <1>6, <1>7, <1>8, <1>9, <1>10, <1>11,
       <1>12, <1>13, <1>14, <1>15 DEF Next

(* The variables keep their types: renumbering, in particular, yields no    *)
(* negative index.                                                          *)
THEOREM TypeCorrect == Spec => []TypeOK
  <1>1. Init => TypeOK
    BY TypeInit
  <1>2. TypeOK /\ [Next]_vars => TypeOK'
    BY TypeStep
  <1>3. QED
    BY <1>1, <1>2, PTL DEF Spec

-----------------------------------------------------------------------------
(* The inductive invariant of the pointers.  That an activation points home *)
(* although it checks first and writes later rests on drafts never moving   *)
(* between chapters; that a removal spares the active draft rests on its    *)
(* guard staying true until the delete, which only an activation can undo.  *)

(* Ids not used yet lead nowhere, and neither do chapters that are gone.    *)
UnusedIds ==
    /\ \A d \in fresh : chapterOf[d] = NoChapter
    /\ unborn \cap chapters = {}
    /\ \A c \in Chapter \ chapters : active[c] = NoDraft

(* The draft a request has found is its chapter's as long as it exists. *)
FoundStays ==
    \A r \in Request :
        pc[r] \in {"activate", "count", "delete"} =>
            /\ draft[r] \in Draft \ fresh
            /\ chapterOf[draft[r]] \in {chap[r], NoChapter}

RemovedIsInactive ==
    "activation" \notin raced =>
        \A r \in Request : pc[r] \in {"count", "delete"} =>
            \A c \in Chapter : active[c] # draft[r]

PointerInv ==
    /\ TypeOK
    /\ ActivePointsHome
    /\ UnusedIds
    /\ FoundStays
    /\ RemovedIsInactive
    /\ OneActiveUnlessRaced

(* The initial state satisfies it. *)
LEMMA PointerInit == Init => PointerInv
  BY TypeInit, Constants
     DEF Init, PointerInv, ActivePointsHome, UnusedIds, FoundStays,
         RemovedIsInactive, OneActiveUnlessRaced, OneActiveDraft

(* A step that leaves the database alone and moves one request on: to its   *)
(* end, or to a statement at which its draft is not spoken of, or, for a    *)
(* removal, from the first guard to the second.                             *)
LEMMA RequestStep ==
    ASSUME PointerInv, TypeOK', UNCHANGED <<dbVars, raced>>,
           NEW r \in Request,
           \A s \in Request \ {r} :
               pc'[s] = pc[s] /\ draft'[s] = draft[s] /\ chap'[s] = chap[s],
           \/ pc'[r] \notin {"activate", "count", "delete"}
           \/ /\ pc[r] = "count" /\ pc'[r] = "delete"
              /\ draft'[r] = draft[r] /\ chap'[r] = chap[r]
    PROVE  PointerInv'
  <1>1. ActivePointsHome' /\ UnusedIds' /\ OneActiveUnlessRaced'
    BY DEF PointerInv, dbVars, ActivePointsHome, UnusedIds,
           OneActiveUnlessRaced, OneActiveDraft
  <1>2. FoundStays'
    BY DEF PointerInv, dbVars, FoundStays
  <1>3. RemovedIsInactive'
    BY DEF PointerInv, dbVars, RemovedIsInactive
  <1>4. QED
    BY <1>1, <1>2, <1>3 DEF PointerInv

(* What a request that ends leaves of the others. *)
LEMMA DoneOthers ==
    ASSUME TypeOK, NEW r \in Request, Done(r)
    PROVE  /\ pc'[r] = "idle"
           /\ \A s \in Request \ {r} :
                  pc'[s] = pc[s] /\ draft'[s] = draft[s] /\ chap'[s] = chap[s]
  BY DEF TypeOK, Done, Goto

(* Every step preserves it. *)
LEMMA PointerStep == PointerInv /\ [Next]_vars => PointerInv'
  <1> SUFFICES ASSUME PointerInv, [Next]_vars PROVE PointerInv'
    OBVIOUS
  <1> USE DEF PointerInv
  <1>0. TypeOK'
    BY TypeStep
  <1>1. ASSUME NEW c \in Chapter, DropChapter(c) PROVE PointerInv'
    <2>1. ActivePointsHome'
      BY <1>1, Constants DEF DropChapter, ActivePointsHome, TypeOK
    <2>2. UnusedIds'
      BY <1>1, Constants DEF DropChapter, UnusedIds, TypeOK
    <2>3. FoundStays'
      BY <1>1 DEF DropChapter, FoundStays, reqVars, TypeOK
    <2>4. RemovedIsInactive'
      BY <1>1, Constants DEF DropChapter, RemovedIsInactive, FoundStays, reqVars, TypeOK
    <2>5. OneActiveUnlessRaced'
      BY <1>1 DEF DropChapter, OneActiveUnlessRaced, OneActiveDraft, TypeOK
    <2>6. QED
      BY <1>0, <2>1, <2>2, <2>3, <2>4, <2>5
  <1>2. ASSUME NEW c \in Chapter, NEW d \in Draft, CreateChapter(c, d)
        PROVE  PointerInv'
    <2>1. ActivePointsHome'
      BY <1>2, Constants DEF CreateChapter, ActivePointsHome, UnusedIds, TypeOK
    <2>2. UnusedIds'
      BY <1>2, Constants DEF CreateChapter, UnusedIds, TypeOK
    <2>3. FoundStays'
      BY <1>2 DEF CreateChapter, FoundStays, reqVars, TypeOK
    <2>4. RemovedIsInactive'
      BY <1>2 DEF CreateChapter, RemovedIsInactive, FoundStays, reqVars, TypeOK
    <2>5. OneActiveUnlessRaced'
      BY <1>2, Constants
         DEF CreateChapter, OneActiveUnlessRaced, OneActiveDraft, TypeOK
    <2>6. QED
      BY <1>0, <2>1, <2>2, <2>3, <2>4, <2>5
  <1>3. ASSUME NEW r \in Request, NEW c \in Chapter,
               NEW kind \in {"blank", "fork"}, BeginPost(r, c, kind)
        PROVE  PointerInv'
    BY <1>0, <1>3, RequestStep DEF BeginPost, Goto, TypeOK
  <1>4. ASSUME NEW r \in Request, ReadSource(r) PROVE PointerInv'
    <2>1. CASE Done(r)
      BY <1>0, <1>4, <2>1, DoneOthers, RequestStep DEF ReadSource
    <2>2. CASE ~Done(r)
      BY <1>0, <1>4, <2>2, RequestStep DEF ReadSource, Goto, TypeOK
    <2>3. QED
      BY <2>1, <2>2
  <1>5. ASSUME NEW r \in Request, LoadSource(r) PROVE PointerInv'
    <2>1. CASE Done(r)
      BY <1>0, <1>5, <2>1, DoneOthers, RequestStep DEF LoadSource
    <2>2. CASE ~Done(r)
      BY <1>0, <1>5, <2>2, RequestStep DEF LoadSource, Goto, TypeOK
    <2>3. QED
      BY <2>1, <2>2
  <1>6. ASSUME NEW r \in Request, ReadNextOrderIndex(r) PROVE PointerInv'
    BY <1>0, <1>6, RequestStep DEF ReadNextOrderIndex, Goto, TypeOK
  <1>7. ASSUME NEW r \in Request, NEW d \in Draft, Insert(r, d)
        PROVE  PointerInv'
    <2>0. /\ pc'[r] = "idle"
          /\ \A s \in Request \ {r} :
                 pc'[s] = pc[s] /\ draft'[s] = draft[s] /\ chap'[s] = chap[s]
      BY <1>7, DoneOthers DEF Insert
    <2>1. ActivePointsHome'
      BY <1>7, Constants DEF Insert, ActivePointsHome, UnusedIds, TypeOK
    <2>2. UnusedIds'
      BY <1>7 DEF Insert, UnusedIds, TypeOK
    <2>3. FoundStays'
      BY <1>7, <2>0 DEF Insert, FoundStays, TypeOK
    <2>4. RemovedIsInactive'
      BY <1>7, <2>0 DEF Insert, RemovedIsInactive
    <2>5. OneActiveUnlessRaced'
      BY <1>7 DEF Insert, OneActiveUnlessRaced, OneActiveDraft
    <2>6. QED
      BY <1>0, <2>1, <2>2, <2>3, <2>4, <2>5
  <1>8. ASSUME NEW r \in Request, InsertFails(r) PROVE PointerInv'
    <2>1. CASE Done(r)
      BY <1>0, <1>8, <2>1, DoneOthers, RequestStep DEF InsertFails
    <2>2. CASE ~Done(r)
      BY <1>0, <1>8, <2>2, RequestStep DEF InsertFails, Goto, TypeOK
    <2>3. QED
      BY <2>1, <2>2
  <1>9. ASSUME NEW r \in Request, NEW c \in Chapter, NEW d \in Draft,
               BeginActivate(r, c, d)
        PROVE  PointerInv'
    <2>1. d \notin fresh
      BY <1>9, Constants DEF BeginActivate, MayActivate, UnusedIds
    <2>2. FoundStays'
      BY <1>9, <2>1
         DEF BeginActivate, MayActivate, FoundStays, Goto, dbVars, TypeOK
    <2>3. RemovedIsInactive'
      BY <1>9 DEF BeginActivate, RemovedIsInactive, Goto, dbVars, TypeOK
    <2>4. ActivePointsHome' /\ UnusedIds' /\ OneActiveUnlessRaced'
      BY <1>9 DEF BeginActivate, dbVars, ActivePointsHome, UnusedIds,
                  OneActiveUnlessRaced, OneActiveDraft
    <2>5. QED
      BY <1>0, <2>2, <2>3, <2>4
  <1>10. ASSUME NEW r \in Request, Activate(r) PROVE PointerInv'
    <2>0. /\ pc'[r] = "idle"
          /\ \A s \in Request \ {r} :
                 pc'[s] = pc[s] /\ draft'[s] = draft[s] /\ chap'[s] = chap[s]
      BY <1>10, DoneOthers DEF Activate
    <2>1. /\ draft[r] \in Draft
          /\ chapterOf[draft[r]] \in {chap[r], NoChapter}
      BY <1>10 DEF Activate, FoundStays
    <2>2. ActivePointsHome'
      BY <1>10, <2>1 DEF Activate, ActivePointsHome, TypeOK
    <2>3. UnusedIds'
      BY <1>10 DEF Activate, UnusedIds, TypeOK
    <2>4. FoundStays'
      BY <1>10, <2>0 DEF Activate, FoundStays
    <2>5. RemovedIsInactive'
      BY <1>10, <2>0 DEF Activate, RemovedIsInactive, TypeOK
    <2>6. OneActiveUnlessRaced'
      BY <1>10, <2>1, Constants
         DEF Activate, OneActiveUnlessRaced, OneActiveDraft, TypeOK
    <2>7. QED
      BY <1>0, <2>2, <2>3, <2>4, <2>5, <2>6
  <1>11. ASSUME NEW r \in Request, NEW d \in Draft, BeginRemove(r, d)
         PROVE  PointerInv'
    <2>1. d \notin fresh
      BY <1>11 DEF BeginRemove, MayRemove, UnusedIds
    <2>2. \A c \in Chapter : active[c] # d
      BY <1>11, Constants DEF BeginRemove, MayRemove, ActivePointsHome, TypeOK
    <2>3. FoundStays'
      BY <1>11, <2>1 DEF BeginRemove, FoundStays, Goto, dbVars, TypeOK
    <2>4. RemovedIsInactive'
      BY <1>11, <2>2 DEF BeginRemove, RemovedIsInactive, Goto, dbVars, TypeOK
    <2>5. ActivePointsHome' /\ UnusedIds' /\ OneActiveUnlessRaced'
      BY <1>11 DEF BeginRemove, dbVars, ActivePointsHome, UnusedIds,
                   OneActiveUnlessRaced, OneActiveDraft
    <2>6. QED
      BY <1>0, <2>3, <2>4, <2>5
  <1>12. ASSUME NEW r \in Request, CountSiblings(r) PROVE PointerInv'
    <2>1. CASE Done(r)
      BY <1>0, <1>12, <2>1, DoneOthers, RequestStep DEF CountSiblings
    <2>2. CASE ~Done(r)
      BY <1>0, <1>12, <2>2, RequestStep DEF CountSiblings, Goto, TypeOK
    <2>3. QED
      BY <2>1, <2>2
  <1>13. ASSUME NEW r \in Request, CommitRemove(r) PROVE PointerInv'
    <2>0. /\ pc'[r] = "idle"
          /\ \A s \in Request \ {r} :
                 pc'[s] = pc[s] /\ draft'[s] = draft[s] /\ chap'[s] = chap[s]
      BY <1>13, DoneOthers DEF CommitRemove
    <2>1. draft[r] \in Draft /\ chapterOf[draft[r]] # NoChapter
      BY <1>13 DEF CommitRemove, FoundStays
    <2>2. ActivePointsHome'
      BY <1>13, <2>1, Constants DEF CommitRemove, ActivePointsHome, TypeOK
    <2>3. UnusedIds'
      BY <1>13, <2>1 DEF CommitRemove, UnusedIds, TypeOK
    <2>4. FoundStays'
      BY <1>13, <2>0, <2>1 DEF CommitRemove, FoundStays, TypeOK
    <2>5. RemovedIsInactive'
      <3> SUFFICES ASSUME "activation" \notin raced', NEW s \in Request,
                          pc'[s] \in {"count", "delete"}, NEW c \in Chapter
                   PROVE  active'[c] # draft'[s]
        BY DEF RemovedIsInactive
      <3>1. s # r /\ pc[s] \in {"count", "delete"} /\ draft'[s] = draft[s]
        BY <2>0
      <3>2. draft[s] \in Draft
        BY <3>1 DEF FoundStays
      <3>3. "activation" \notin raced
        BY <1>13 DEF CommitRemove
      <3>4. active[c] # draft[s]
        BY <3>1, <3>3 DEF RemovedIsInactive
      <3>5. QED
        BY <1>13, <3>1, <3>2, <3>4, Constants DEF CommitRemove
    <2>6. OneActiveUnlessRaced'
      <3>1. "activation" \notin raced' => "activation" \notin raced
        BY <1>13 DEF CommitRemove
      <3>2. "activation" \notin raced
                => \A c \in Chapter : active[c] # draft[r]
        BY <1>13 DEF CommitRemove, RemovedIsInactive
      <3>3. QED
        BY <1>13, <3>1, <3>2
           DEF CommitRemove, OneActiveUnlessRaced, OneActiveDraft, TypeOK
    <2>7. QED
      BY <1>0, <2>2, <2>3, <2>4, <2>5, <2>6
  <1>14. ASSUME NEW r \in Request, AbortRemove(r) PROVE PointerInv'
    BY <1>0, <1>14, DoneOthers, RequestStep DEF AbortRemove
  <1>15. CASE UNCHANGED vars
    BY <1>15 DEF vars, dbVars, reqVars, TypeOK, ActivePointsHome, UnusedIds,
                 FoundStays, RemovedIsInactive, OneActiveUnlessRaced,
                 OneActiveDraft
  <1>16. QED
    BY <1>1, <1>2, <1>3, <1>4, <1>5, <1>6, <1>7, <1>8, <1>9, <1>10, <1>11,
       <1>12, <1>13, <1>14, <1>15 DEF Next

(* It holds in every reachable state. *)
LEMMA PointerInvariant == Spec => []PointerInv
  <1>1. Init => PointerInv
    BY PointerInit
  <1>2. PointerInv /\ [Next]_vars => PointerInv'
    BY PointerStep
  <1>3. QED
    BY <1>1, <1>2, PTL DEF Spec

(* A pointer that is set points to a draft of its own chapter, however many *)
(* requests run together.                                                   *)
THEOREM PointersCorrect == Spec => []ActivePointsHome
  <1>1. PointerInv => ActivePointsHome
    BY DEF PointerInv
  <1>2. QED
    BY <1>1, PointerInvariant, PTL

(* Only an activation that overtakes a removal's guard can leave a chapter  *)
(* without its active draft.                                                *)
THEOREM OneActiveCorrect == Spec => []OneActiveUnlessRaced
  <1>1. PointerInv => OneActiveUnlessRaced
    BY DEF PointerInv
  <1>2. QED
    BY <1>1, PointerInvariant, PTL

-----------------------------------------------------------------------------
(* Counting.  A numbering of a finite set by 0..N-1 repeats no number, and  *)
(* as many elements are below a number as it says.                          *)
LEMMA Numbering ==
    ASSUME NEW D, IsFiniteSet(D), NEW f,
           {f[d] : d \in D} = 0..(Cardinality(D) - 1)
    PROVE  /\ \A d, e \in D : f[d] = f[e] => d = e
           /\ \A k \in 0..Cardinality(D) : Cardinality({e \in D : f[e] < k}) = k
  <1> DEFINE n == Cardinality(D)
             g == [d \in D |-> f[d]]
  <1>1. n \in Nat
    BY FS_CardinalityType
  <1>2. g \in Surjection(D, 0..(n - 1))
    BY DEF Surjection
  <1>3. Cardinality(0..(n - 1)) = n
    BY <1>1, FS_Interval
  <1>4. g \in Injection(D, 0..(n - 1))
    BY <1>2, <1>3, FS_Surjection
  <1>5. \A d, e \in D : f[d] = f[e] => d = e
    BY <1>4 DEF Injection, IsInjective
  <1>6. ASSUME NEW k \in 0..n PROVE Cardinality({e \in D : f[e] < k}) = k
    <2> DEFINE B == {e \in D : f[e] < k}
               h == [e \in B |-> f[e]]
    <2>1. k \in Nat /\ \A d \in D : f[d] \in 0..(n - 1)
      BY <1>1
    <2>2. h \in [B -> 0..(k - 1)]
      BY <2>1
    <2>3. \A i \in 0..(k - 1) : \E e \in B : h[e] = i
      <3> SUFFICES ASSUME NEW i \in 0..(k - 1) PROVE \E e \in B : h[e] = i
        OBVIOUS
      <3>1. i \in 0..(n - 1) /\ i < k
        BY <1>1, <2>1
      <3>2. PICK e \in D : f[e] = i
        BY <3>1
      <3>3. e \in B
        BY <3>1, <3>2
      <3> QED BY <3>2, <3>3
    <2>4. h \in Surjection(B, 0..(k - 1)) /\ h \in Injection(B, 0..(k - 1))
      BY <1>5, <2>2, <2>3 DEF Surjection, Injection, IsInjective
    <2>5. IsFiniteSet(B)
      BY FS_Subset
    <2>6. Cardinality(0..(k - 1)) = k
      BY <2>1, FS_Interval
    <2> HIDE DEF B, h
    <2>7. Cardinality(B) = k
      BY <2>4, <2>5, <2>6, FS_Surjection
    <2> QED BY <2>7 DEF B
  <1> QED BY <1>5, <1>6

(* f numbers D from zero, and below[d] holds what f puts below d, whose     *)
(* number is d's rank.                                                      *)
Numbered(D, f) ==
    /\ \A d \in D : f[d] \in 0..(Cardinality(D) - 1)
    /\ \A i \in 0..(Cardinality(D) - 1) : \E d \in D : f[d] = i
RankedBy(D, f, below, rank) ==
    \A d \in D : /\ \A e : e \in below[d] <=> e \in D /\ f[e] < f[d]
                 /\ rank[d] = Cardinality(below[d])

(* Without one of them, the survivors' ranks are a numbering again.         *)
LEMMA ClosedUp ==
    ASSUME NEW D, IsFiniteSet(D), NEW f, Numbered(D, f), NEW gone \in D,
           NEW below, NEW rank, RankedBy(D \ {gone}, f, below, rank)
    PROVE  Numbered(D \ {gone}, rank)
  <1> USE DEF Numbered, RankedBy
  <1> DEFINE n == Cardinality(D)
  <1>1. n \in Nat /\ Cardinality(D \ {gone}) = n - 1
    BY FS_CardinalityType, FS_RemoveElement
  <1>2. \A d \in D : f[d] \in 0..(n - 1)
    OBVIOUS
  <1>3. /\ \A d, e \in D : f[d] = f[e] => d = e
        /\ \A k \in 0..n : Cardinality({e \in D : f[e] < k}) = k
    <2>1. {f[d] : d \in D} = 0..(n - 1)
      OBVIOUS
    <2> QED BY <2>1, Numbering
  <1>4. ASSUME NEW d \in D, d # gone
        PROVE  rank[d] = IF f[d] < f[gone] THEN f[d] ELSE f[d] - 1
    <2> DEFINE B == {e \in D : f[e] < f[d]}
    <2>1. f[d] \in 0..n /\ f[d] \in Int /\ f[gone] \in Int /\ f[d] # f[gone]
      BY <1>1, <1>2, <1>3, <1>4
    <2>2. Cardinality(B) = f[d] /\ IsFiniteSet(B)
      BY <1>3, <2>1, FS_Subset
    <2>3. below[d] = B \ {gone}
      BY <1>4
    <2>4. rank[d] = IF gone \in B THEN f[d] - 1 ELSE f[d]
      <3> HIDE DEF B
      <3>1. rank[d] = Cardinality(B \ {gone})
        BY <1>4, <2>3
      <3> QED BY <2>2, <3>1, FS_RemoveElement
    <2>5. gone \in B <=> ~(f[d] < f[gone])
      BY <2>1
    <2> QED BY <2>4, <2>5
  <1>5. \A d \in D \ {gone} : rank[d] \in 0..(n - 2)
    <2> SUFFICES ASSUME NEW d \in D, d # gone PROVE rank[d] \in 0..(n - 2)
      OBVIOUS
    <2>1. f[d] \in 0..(n - 1) /\ f[gone] \in 0..(n - 1) /\ f[d] # f[gone]
      BY <1>2, <1>3
    <2> QED BY <1>1, <1>4, <2>1
  <1>6. ASSUME NEW i \in 0..(n - 2) PROVE \E d \in D \ {gone} : rank[d] = i
    <2>1. f[gone] \in 0..(n - 1)
      BY <1>2
    <2>2. CASE i < f[gone]
      <3>1. PICK d \in D : f[d] = i
        BY <1>1, <2>1, <1>6
      <3>2. d # gone
        BY <2>1, <2>2, <3>1
      <3> QED BY <1>4, <2>2, <3>1, <3>2
    <2>3. CASE ~(i < f[gone])
      <3>1. i + 1 \in 0..(n - 1)
        BY <1>1, <1>6
      <3>2. PICK d \in D : f[d] = i + 1
        BY <3>1
      <3>3. d # gone /\ ~(f[d] < f[gone]) /\ i = f[d] - 1
        BY <1>1, <2>1, <2>3, <3>2, <1>6
      <3> QED BY <1>4, <3>2, <3>3
    <2> QED BY <2>2, <2>3
  <1>7. Cardinality(D \ {gone}) - 1 = n - 2
    BY <1>1
  <1> QED BY <1>5, <1>6, <1>7

-----------------------------------------------------------------------------
(* The inductive invariant of the indexes: an index that was computed is    *)
(* at most the number of drafts, since creations only add to them.  A       *)
(* request's chapter has been there, so no new one takes its place.         *)
ChapterWasThere == \A r \in Request : chap[r] \notin unborn \/ pc[r] = "idle"
IndexWithin ==
    \A r \in Request : pc[r] = "insert" /\ chap[r] \in chapters
                          => index[r] <= Cardinality(DraftsOf(chap[r]))
OrderInv ==
    /\ PointerInv /\ ChapterWasThere
    /\ "removal" \notin raced => GapFree /\ IndexWithin

(* The drafts of a chapter are finite many.                                 *)
LEMMA Countable ==
    ASSUME NEW c
    PROVE  /\ IsFiniteSet(DraftsOf(c)) /\ Cardinality(DraftsOf(c)) \in Nat
  BY Constants, FS_Subset, FS_CardinalityType DEF DraftsOf

(* In a chapter without gaps the next index is the number of drafts.        *)
LEMMA NextIsCount ==
    ASSUME TypeOK, NEW c, NEW n \in Nat, IsNextOrderIndex(n, c),
           {order[d] : d \in DraftsOf(c)} = 0..(Cardinality(DraftsOf(c)) - 1)
    PROVE  n = Cardinality(DraftsOf(c))
  <1> DEFINE k == Cardinality(DraftsOf(c))
  <1>1. k \in Nat /\ IsFiniteSet(DraftsOf(c))
    BY Countable
  <1>2. CASE DraftsOf(c) = {}
    BY <1>2, FS_EmptySet DEF IsNextOrderIndex
  <1>3. CASE DraftsOf(c) # {}
    <2>1. PICK d \in DraftsOf(c) : n = order[d] + 1
      BY <1>3 DEF IsNextOrderIndex
    <2>2. \A e \in DraftsOf(c) : order[e] < n
      BY <1>3 DEF IsNextOrderIndex
    <2>3. order[d] \in 0..(k - 1)
      BY <2>1
    <2>4. k - 1 \in 0..(k - 1)
      BY <1>1, <2>3
    <2>5. PICK e \in DraftsOf(c) : order[e] = k - 1
      BY <2>4
    <2>6. k - 1 < n
      BY <2>2, <2>5
    <2> QED BY <1>1, <2>1, <2>3, <2>6
  <1> QED BY <1>2, <1>3

(* What a request that ends leaves of the others' creations.                *)
LEMMA DoneCreations ==
    ASSUME TypeOK, NEW r \in Request, Done(r)
    PROVE  /\ pc'[r] = "idle"
           /\ \A s \in Request \ {r} :
                  pc'[s] = pc[s] /\ chap'[s] = chap[s] /\ index'[s] = index[s]
  BY DEF TypeOK, Done, Goto

(* A step that leaves the database alone and moves one request on.          *)
LEMMA OrderRequestStep ==
    ASSUME OrderInv, PointerInv', UNCHANGED <<dbVars, raced>>, NEW r \in Request,
           \A s \in Request \ {r} :
               pc'[s] = pc[s] /\ chap'[s] = chap[s] /\ index'[s] = index[s],
           pc'[r] = "idle" \/ chap'[r] \notin unborn,
           pc'[r] = "insert" => index'[r] \in Nat /\ IsNextOrderIndex(index'[r], chap'[r])
    PROVE  OrderInv'
  <1> USE DEF OrderInv
  <1>1. ChapterWasThere'
    BY DEF ChapterWasThere, dbVars
  <1>2. GapFree <=> GapFree'
    BY DEF GapFree, DraftsOf, dbVars
  <1>3. ASSUME "removal" \notin raced PROVE IndexWithin'
    <2> SUFFICES ASSUME NEW s \in Request, pc'[s] = "insert", chap'[s] \in chapters
                 PROVE  index'[s] <= Cardinality(DraftsOf(chap'[s]))
      BY DEF IndexWithin, DraftsOf, dbVars
    <2>1. CASE s # r
      BY <1>3, <2>1 DEF IndexWithin
    <2>2. CASE s = r
      <3>1. index'[s] = Cardinality(DraftsOf(chap'[s]))
        BY <1>3, <2>2, NextIsCount DEF GapFree, PointerInv
      <3> QED BY <3>1, Countable
    <2> QED BY <2>1, <2>2
  <1> QED BY <1>1, <1>2, <1>3

(* A new draft in a chapter that exists, under an index that is free.       *)
LEMMA InsertKeepsOrder ==
    ASSUME OrderInv, PointerInv', NEW r \in Request, NEW d \in Draft, Insert(r, d)
    PROVE  OrderInv'
  <1> USE DEF OrderInv, PointerInv
  <1>0. PICK c : c = chap[r]
    OBVIOUS
  <1>1. /\ pc[r] = "insert" /\ c \in chapters /\ c \in Chapter /\ d \in fresh /\ index[r] \in Nat
        /\ chapterOf' = [chapterOf EXCEPT ![d] = c] /\ order' = [order EXCEPT ![d] = index[r]]
        /\ ~IndexTaken(c, index[r]) /\ UNCHANGED <<chapters, unborn, raced>>
    BY <1>0 DEF Insert, TypeOK
  <1>2. /\ pc'[r] = "idle"
        /\ \A s \in Request \ {r} : pc'[s] = pc[s] /\ chap'[s] = chap[s] /\ index'[s] = index[s]
    BY DoneCreations DEF Insert
  <1>3. chapterOf[d] = NoChapter /\ d \notin DraftsOf(c)
    BY <1>1, Constants DEF UnusedIds, DraftsOf
  <1>4. /\ DraftsOf(c)' = DraftsOf(c) \cup {d}
        /\ \A b \in Chapter : b # c => DraftsOf(b)' = DraftsOf(b) /\ d \notin DraftsOf(b)
    BY <1>1, <1>3, Constants DEF DraftsOf, TypeOK
  <1>5. \A e \in Draft : order'[e] = IF e = d THEN index[r] ELSE order[e]
    BY <1>1 DEF TypeOK
  <1>6. \A b \in Chapter : DraftsOf(b) \subseteq Draft
    BY DEF DraftsOf
  <1>7. Cardinality(DraftsOf(c)') = Cardinality(DraftsOf(c)) + 1 /\ Cardinality(DraftsOf(c)) \in Nat
    BY <1>3, <1>4, Countable, FS_AddElement
  <1>8. ChapterWasThere'
    BY <1>1, <1>2 DEF ChapterWasThere
  <1>9. ASSUME "removal" \notin raced', NEW b \in chapters'
        PROVE  {order'[e] : e \in DraftsOf(b)'} = 0..(Cardinality(DraftsOf(b)') - 1)
    <2>1. {order[e] : e \in DraftsOf(b)} = 0..(Cardinality(DraftsOf(b)) - 1) /\ b \in Chapter
      BY <1>1, <1>9 DEF GapFree, TypeOK
    <2>2. CASE b # c
      <3>1. DraftsOf(b)' = DraftsOf(b) /\ \A e \in DraftsOf(b) : order'[e] = order[e]
        BY <1>4, <1>5, <1>6, <2>1, <2>2
      <3> QED BY <2>1, <3>1
    <2>3. CASE b = c
      <3> DEFINE n == Cardinality(DraftsOf(c))
      <3>1. index[r] <= n
        BY <1>0, <1>1, <1>9 DEF IndexWithin
      <3>2. index[r] \notin 0..(n - 1)
        BY <1>1, <2>1, <2>3 DEF IndexTaken
      <3>3. index[r] = n
        BY <1>1, <1>7, <3>1, <3>2
      <3>4. {order'[e] : e \in DraftsOf(b)'} = {order[e] : e \in DraftsOf(c)} \cup {index[r]}
        BY <1>3, <1>4, <1>5, <1>6, <2>1, <2>3
      <3> QED BY <1>7, <2>1, <2>3, <3>3, <3>4
    <2> QED BY <2>2, <2>3
  <1>10. ASSUME "removal" \notin raced', NEW s \in Request, pc'[s] = "insert", NEW b \in chapters',
                chap'[s] = b
         PROVE  index'[s] <= Cardinality(DraftsOf(b)')
    <2>1. /\ s # r /\ index'[s] = index[s] /\ chap[s] = b /\ b \in Chapter
          /\ index[s] <= Cardinality(DraftsOf(b)) /\ index[s] \in Nat
      BY <1>1, <1>2, <1>10 DEF IndexWithin, TypeOK
    <2>2. Cardinality(DraftsOf(b)) <= Cardinality(DraftsOf(b)')
          /\ Cardinality(DraftsOf(b)) \in Nat /\ Cardinality(DraftsOf(b)') \in Nat
      <3>1. CASE b = c
        BY <1>7, <3>1
      <3>2. CASE b # c
        BY <1>4, <2>1, <3>2, Countable
      <3> QED BY <3>1, <3>2
    <2> QED BY <2>1, <2>2
  <1> QED BY <1>8, <1>9, <1>10 DEF GapFree, IndexWithin

(* A draft that goes: the others close up, and an index computed for the    *)
(* same chapter has been overtaken.                                         *)
LEMMA RemoveKeepsOrder ==
    ASSUME OrderInv, PointerInv', NEW r \in Request, CommitRemove(r)
    PROVE  OrderInv'
  <1> USE DEF OrderInv, PointerInv
  <1>0. PICK c, gone : c = chap[r] /\ gone = draft[r]
    OBVIOUS
  <1>1. /\ pc[r] = "delete" /\ gone \in Draft /\ chapterOf[gone] = c /\ c # NoChapter /\ c \in Chapter
        /\ chapterOf' = [chapterOf EXCEPT ![gone] = NoChapter]
        /\ order' = [d \in Draft |-> IF d # gone /\ chapterOf[d] = c THEN Repacked(d, gone) ELSE order[d]]
        /\ raced' = IF \E s \in Request : pc[s] = "insert" /\ chap[s] = c THEN raced \cup {"removal"} ELSE raced
        /\ UNCHANGED <<chapters, unborn>>
    <2>1. gone \in Draft /\ chapterOf[gone] = c /\ c # NoChapter
      BY <1>0 DEF CommitRemove, FoundStays
    <2> QED BY <1>0, <2>1 DEF CommitRemove, TypeOK
  <1>2. /\ pc'[r] = "idle"
        /\ \A s \in Request \ {r} : pc'[s] = pc[s] /\ chap'[s] = chap[s] /\ index'[s] = index[s]
    BY DoneCreations DEF CommitRemove
  <1>3. /\ gone \in DraftsOf(c) /\ DraftsOf(c)' = DraftsOf(c) \ {gone}
        /\ \A b \in Chapter : b # c => DraftsOf(b)' = DraftsOf(b)
    BY <1>1, Constants DEF DraftsOf, TypeOK
  <1>4. /\ \A d \in DraftsOf(c) \ {gone} :
              order'[d] = Cardinality({e \in DraftsOf(c) \ {gone} : order[e] < order[d]})
        /\ \A b \in Chapter : b # c => \A d \in DraftsOf(b) : order'[d] = order[d]
    BY <1>1 DEF DraftsOf, Repacked
  <1>5. ChapterWasThere'
    BY <1>1, <1>2 DEF ChapterWasThere
  <1>6. "removal" \notin raced' =>
          "removal" \notin raced /\ \A s \in Request : ~(pc[s] = "insert" /\ chap[s] = c)
    BY <1>1
  <1>7. ASSUME "removal" \notin raced', NEW b \in chapters'
        PROVE  {order'[e] : e \in DraftsOf(b)'} = 0..(Cardinality(DraftsOf(b)') - 1)
    <2>1. {order[e] : e \in DraftsOf(b)} = 0..(Cardinality(DraftsOf(b)) - 1) /\ b \in Chapter
      BY <1>1, <1>6, <1>7 DEF GapFree, TypeOK
    <2>2. CASE b # c
      BY <1>3, <1>4, <2>1, <2>2
    <2>3. CASE b = c
      <3>1. PICK D, f : D = DraftsOf(c) /\ f = order
        OBVIOUS
      <3>2. IsFiniteSet(D) /\ gone \in D /\ Numbered(D, f)
        BY <1>3, <2>1, <2>3, <3>1, Countable DEF Numbered
      <3>3. PICK below : below = [d \in D \ {gone} |-> {e \in D \ {gone} : f[e] < f[d]}]
        OBVIOUS
      <3>4. PICK rank : rank = order'
        OBVIOUS
      <3>5. RankedBy(D \ {gone}, f, below, rank)
        BY <1>4, <3>1, <3>3, <3>4 DEF RankedBy
      <3>6. Numbered(D \ {gone}, rank)
        BY <3>2, <3>5, ClosedUp
      <3>7. DraftsOf(b)' = D \ {gone}
        BY <1>3, <2>3, <3>1
      <3> QED BY <3>4, <3>6, <3>7 DEF Numbered
    <2> QED BY <2>2, <2>3
  <1>8. ASSUME "removal" \notin raced', NEW s \in Request, pc'[s] = "insert", NEW b \in chapters',
               chap'[s] = b
        PROVE  index'[s] <= Cardinality(DraftsOf(b)')
    <2>1. /\ s # r /\ index'[s] = index[s] /\ chap[s] = b /\ b \in Chapter /\ b # c
          /\ index[s] <= Cardinality(DraftsOf(b))
      BY <1>1, <1>2, <1>6, <1>8 DEF IndexWithin, TypeOK
    <2> QED BY <1>3, <2>1
  <1> QED BY <1>5, <1>7, <1>8 DEF GapFree, IndexWithin

(* A chapter comes with its first draft, and goes with all of its own.      *)
LEMMA ChaptersKeepOrder ==
    ASSUME OrderInv, PointerInv', NEW c \in Chapter,
           DropChapter(c) \/ \E d \in Draft : CreateChapter(c, d)
    PROVE  OrderInv'
  <1> USE DEF OrderInv, PointerInv
  <1>1. CASE DropChapter(c)
    <2>1. /\ chapters' = chapters \ {c} /\ UNCHANGED <<order, unborn, raced, pc, chap, index>>
          /\ chapterOf' = [d \in Draft |-> IF chapterOf[d] = c THEN NoChapter ELSE chapterOf[d]]
      BY <1>1 DEF DropChapter, reqVars
    <2>2. \A b \in chapters' : b \in chapters /\ DraftsOf(b)' = DraftsOf(b)
      BY <2>1, Constants DEF DraftsOf, TypeOK
    <2>3. ChapterWasThere'
      BY <2>1 DEF ChapterWasThere
    <2>4. "removal" \notin raced' => GapFree'
      BY <2>1, <2>2 DEF GapFree
    <2>5. ASSUME "removal" \notin raced', NEW s \in Request, pc'[s] = "insert", NEW b \in chapters',
                 chap'[s] = b
          PROVE  index'[s] <= Cardinality(DraftsOf(b)')
      BY <2>1, <2>2, <2>5 DEF IndexWithin
    <2> QED BY <2>3, <2>4, <2>5 DEF IndexWithin
  <1>2. ASSUME NEW d \in Draft, CreateChapter(c, d) PROVE OrderInv'
    <2>1. /\ c \in unborn /\ d \in fresh /\ unborn' = unborn \ {c} /\ chapters' = chapters \cup {c}
          /\ chapterOf' = [chapterOf EXCEPT ![d] = c] /\ order' = [order EXCEPT ![d] = 0]
          /\ UNCHANGED <<raced, pc, chap, index>>
      BY <1>2 DEF CreateChapter, reqVars
    <2>2. chapterOf[d] = NoChapter /\ c \notin chapters
      BY <2>1 DEF UnusedIds
    <2>3. DraftsOf(c) = {}
      BY <2>2, Constants DEF DraftsOf, ActivePointsHome
    <2>4. DraftsOf(c)' = {d} /\ \A b \in Chapter : b # c => DraftsOf(b)' = DraftsOf(b) /\ d \notin DraftsOf(b)
      BY <2>1, <2>2, <2>3, Constants DEF DraftsOf, TypeOK
    <2>5. \A e \in Draft : order'[e] = IF e = d THEN 0 ELSE order[e]
      BY <2>1 DEF TypeOK
    <2>6. \A b \in Chapter : DraftsOf(b) \subseteq Draft
      BY DEF DraftsOf
    <2>7. ChapterWasThere'
      BY <2>1 DEF ChapterWasThere
    <2>8. ASSUME "removal" \notin raced', NEW b \in chapters'
          PROVE  {order'[e] : e \in DraftsOf(b)'} = 0..(Cardinality(DraftsOf(b)') - 1)
      <3>1. CASE b = c
        <4>1. {order'[e] : e \in DraftsOf(b)'} = {0}
          BY <2>4, <2>5, <3>1
        <4>2. Cardinality(DraftsOf(b)') = 1
          BY <2>4, <3>1, FS_Singleton
        <4> QED BY <4>1, <4>2
      <3>2. CASE b # c
        <4>1. b \in chapters /\ b \in Chapter /\ DraftsOf(b)' = DraftsOf(b)
              /\ \A e \in DraftsOf(b) : order'[e] = order[e]
          BY <2>1, <2>4, <2>5, <2>6, <2>8, <3>2 DEF TypeOK
        <4>2. {order[e] : e \in DraftsOf(b)} = 0..(Cardinality(DraftsOf(b)) - 1)
          BY <2>1, <2>8, <4>1 DEF GapFree
        <4> QED BY <4>1, <4>2
      <3> QED BY <3>1, <3>2
    <2>9. ASSUME "removal" \notin raced', NEW s \in Request, pc'[s] = "insert", NEW b \in chapters',
                 chap'[s] = b
          PROVE  index'[s] <= Cardinality(DraftsOf(b)')
      <3>1. /\ index'[s] = index[s] /\ chap[s] = b /\ b # c /\ b \in chapters /\ b \in Chapter
        BY <2>1, <2>9 DEF ChapterWasThere, TypeOK
      <3> QED BY <2>1, <2>4, <2>9, <3>1 DEF IndexWithin
    <2> QED BY <2>7, <2>8, <2>9 DEF GapFree, IndexWithin
  <1> QED BY <1>1, <1>2

(* Every step keeps the indexes' invariant.                                 *)
LEMMA OrderStep == OrderInv /\ [Next]_vars => OrderInv'
  <1> SUFFICES ASSUME OrderInv, [Next]_vars PROVE OrderInv'
    OBVIOUS
  <1> USE DEF OrderInv
  <1>0. PointerInv'
    BY PointerStep
  <1>t. TypeOK
    BY DEF PointerInv
  <1>1. ASSUME NEW r \in Request, NEW c \in Chapter, NEW kind \in {"blank", "fork"}, BeginPost(r, c, kind)
        PROVE  OrderInv'
    <2>1. c \notin unborn
      BY <1>1 DEF BeginPost, PointerInv, UnusedIds
    <2> QED BY <1>0, <1>1, <1>t, <2>1, OrderRequestStep DEF BeginPost, Goto, TypeOK
  <1>2. ASSUME NEW r \in Request,
               ReadSource(r) \/ LoadSource(r) \/ InsertFails(r) \/ CountSiblings(r) \/ AbortRemove(r)
        PROVE  OrderInv'
    <2>1. UNCHANGED <<dbVars, raced>> /\ pc[r] # "idle"
      BY <1>2 DEF ReadSource, LoadSource, InsertFails, CountSiblings, AbortRemove
    <2>2. chap[r] \notin unborn
      BY <2>1 DEF ChapterWasThere
    <2>3. CASE Done(r)
      BY <1>0, <1>t, <2>1, <2>3, DoneCreations, OrderRequestStep
    <2>4. CASE ~Done(r)
      <3>1. /\ chap' = chap /\ index' = index
            /\ \E l \in {"load", "source", "order", "delete"} : Goto(r, l)
        BY <1>2, <2>4 DEF ReadSource, LoadSource, InsertFails, CountSiblings, AbortRemove
      <3> QED BY <1>0, <1>t, <2>1, <2>2, <3>1, OrderRequestStep DEF Goto, TypeOK
    <2> QED BY <2>3, <2>4
  <1>3. ASSUME NEW r \in Request, ReadNextOrderIndex(r) PROVE OrderInv'
    <2>1. PICK n \in 0..Cardinality(Draft) : IsNextOrderIndex(n, chap[r]) /\ index' = [index EXCEPT ![r] = n]
      BY <1>3 DEF ReadNextOrderIndex
    <2>2. n \in Nat
      BY Constants, FS_CardinalityType
    <2>3. chap[r] \notin unborn
      BY <1>3 DEF ReadNextOrderIndex, ChapterWasThere
    <2> QED BY <1>0, <1>3, <1>t, <2>1, <2>2, <2>3, OrderRequestStep DEF ReadNextOrderIndex, Goto, TypeOK
  <1>4. ASSUME NEW r \in Request, NEW c \in Chapter, NEW d \in Draft, BeginActivate(r, c, d)
        PROVE  OrderInv'
    <2>1. c \notin unborn
      BY <1>4 DEF BeginActivate, MayActivate, PointerInv, UnusedIds
    <2> QED BY <1>0, <1>4, <1>t, <2>1, OrderRequestStep DEF BeginActivate, Goto, TypeOK
  <1>5. ASSUME NEW r \in Request, NEW d \in Draft, BeginRemove(r, d) PROVE OrderInv'
    <2>1. chapterOf[d] \notin unborn
      BY <1>5 DEF BeginRemove, MayRemove, PointerInv, UnusedIds, ActivePointsHome
    <2> QED BY <1>0, <1>5, <1>t, <2>1, OrderRequestStep DEF BeginRemove, Goto, TypeOK
  <1>6. ASSUME NEW r \in Request, Activate(r) PROVE OrderInv'
    <2>1. /\ UNCHANGED <<chapterOf, order, chapters, unborn>>
          /\ "removal" \notin raced' => "removal" \notin raced
      BY <1>6 DEF Activate
    <2>2. /\ pc'[r] = "idle"
          /\ \A s \in Request \ {r} : pc'[s] = pc[s] /\ chap'[s] = chap[s] /\ index'[s] = index[s]
      BY <1>6, <1>t, DoneCreations DEF Activate
    <2>3. ChapterWasThere'
      BY <2>1, <2>2 DEF ChapterWasThere
    <2>4. "removal" \notin raced' => GapFree'
      BY <2>1 DEF GapFree, DraftsOf
    <2>5. "removal" \notin raced' => IndexWithin'
      <3> SUFFICES ASSUME "removal" \notin raced', NEW s \in Request, pc'[s] = "insert", NEW b \in chapters,
                          chap'[s] = b
                   PROVE  index'[s] <= Cardinality(DraftsOf(b)')
        BY <2>1 DEF IndexWithin
      <3> QED BY <2>1, <2>2 DEF IndexWithin, DraftsOf
    <2> QED BY <1>0, <2>3, <2>4, <2>5
  <1>7. CASE UNCHANGED vars
    <2>1. ChapterWasThere' /\ (GapFree <=> GapFree')
      BY <1>7 DEF vars, dbVars, reqVars, ChapterWasThere, GapFree, DraftsOf
    <2>2. IndexWithin <=> IndexWithin'
      BY <1>7 DEF vars, dbVars, reqVars, IndexWithin, DraftsOf
    <2> QED BY <1>0, <1>7, <2>1, <2>2 DEF vars
  <1> QED BY <1>0, <1>1, <1>2, <1>3, <1>4, <1>5, <1>6, <1>7, InsertKeepsOrder, RemoveKeepsOrder, ChaptersKeepOrder
          DEF Next

(* The indexes of a chapter's drafts are 0..N-1, however many requests run  *)
(* together and retry, unless a removal overtook the insert of a draft      *)
(* whose index had been computed.                                           *)
THEOREM GapFreeCorrect == Spec => []GapFreeUnlessRaced
  <1>1. Init => OrderInv
    BY PointerInit DEF Init, OrderInv, ChapterWasThere, GapFree, IndexWithin
  <1>2. OrderInv => GapFreeUnlessRaced
    BY DEF OrderInv, GapFreeUnlessRaced
  <1> QED BY <1>1, <1>2, OrderStep, PTL DEF Spec
=============================================================================
