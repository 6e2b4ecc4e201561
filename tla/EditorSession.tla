---------------------------- MODULE EditorSession ----------------------------
(***************************************************************************)
(* One draft, edited in one browser: the copies its text has there (the    *)
(* TipTap document, the page's buffer, the query cache, the IndexedDB      *)
(* record) and on the server, and the version each was taken at            *)
(* (frontend/src/pages/EditorPage.tsx, components/Paper.tsx,               *)
(* hooks/useDrafts.ts, useChapterDraft.ts, useUnloadFlush.ts,              *)
(* lib/chapterDrafts.ts; PATCH /drafts/:id in                              *)
(* backend/src/routes/drafts.routes.ts and repos/draft.repo.ts).           *)
(*                                                                         *)
(* A body is the set of the edits it contains; somebody else may edit the  *)
(* same draft elsewhere.  When a save starts is Autosave's subject: here a *)
(* dirty buffer may be sent whenever the hook is free to.                  *)
(***************************************************************************)
EXTENDS Integers, FiniteSets

CONSTANTS
    MaxMine,     \* bound: edits typed here
    MaxOther,    \* bound: edits made elsewhere
    MaxVer       \* bound: writes of the row, after which none is sent

EditorSessionAssumption ==
    MaxMine \in Nat /\ MaxOther \in Nat /\ MaxVer \in Nat \ {0}

Mine == 1..MaxMine
Theirs == MaxMine + 1..MaxMine + MaxOther
Body == SUBSET (Mine \cup Theirs)
Unconditional == 0
Row == [body : Body, ver : 1..MaxVer]
Request == [body : Body, exp : 0..MaxVer]
Record == [body : Body, ver : 1..MaxVer]
Peril == {"early", "outrun", "over", "other", "flush", "answer", "moved",
          "summary", "overtaken"}

VARIABLES
    srv,        \* the draft's row: its body and updatedAt
    page,       \* closed, loading, open
    cache,      \* the draft's record in the query cache; its ver is also the
                \* draft's entry of updatedAtByDraftRef
    doc,        \* the editor's document
    buffer,     \* draftBodyJson
    base,       \* the hook's lastSavedPayloadRef
    pinned,     \* restoreSeed # null
    conflict,
    save,       \* the PATCH awaited, if any: autosave's or Overwrite's
    fetch,      \* the GET under way, if any: a refetch's or Reload's
    flight,     \* PATCHes nobody hears of
    flushed,    \* lastFlushedBodyRef
    local,      \* the draft's IndexedDB record, if any
    lookup,     \* the record read at load, not decided upon yet
    offer,      \* pendingDraft
    summary,    \* the draft's summary: of which body, stored at which version
    written,    \* edits typed here
    givenUp,    \* of those, the ones the user chose to give up
    clobbered,  \* a conditional PATCH has removed somebody else's edit
    perils      \* which dangers the text has met; see Meets

copies == <<cache, doc, buffer, base, pinned>>
restore == <<local, lookup, offer>>
history == <<written, givenUp, perils>>
vars == <<srv, page, copies, conflict, save, fetch, flight, flushed, restore,
          summary, history, clobbered>>

Few(S) == Cardinality(S) <= 1

TypeOK ==
    /\ srv \in Row /\ cache \in Row
    /\ page \in {"closed", "loading", "open"}
    /\ {doc, buffer, base} \subseteq Body
    /\ pinned \in BOOLEAN /\ conflict \in BOOLEAN /\ clobbered \in BOOLEAN
    /\ Few(save)
    /\ \A s \in save : /\ [body |-> s.body, exp |-> s.exp] \in Request
                       /\ s.hook \in BOOLEAN /\ s.ans \in Row
                       /\ s.pc \in {"sent", "applied", "refused", "read"}
    /\ Few(fetch) /\ \A f \in fetch : f.reload \in BOOLEAN /\ f.row \in Row
    /\ flight \subseteq Request /\ flushed \subseteq Request /\ Few(flushed)
    /\ UNION {local, lookup, offer} \subseteq Record
    /\ Few(local) /\ Few(lookup) /\ Few(offer)
    /\ summary.of \in Body /\ summary.ver \in 0..MaxVer
    /\ summary.pc \in {"none", "asked", "stored"}
    /\ written \subseteq Mine /\ givenUp \subseteq written
    /\ perils \subseteq Peril

Init ==
    /\ srv = [body |-> {}, ver |-> 1] /\ cache = srv
    /\ page = "closed" /\ doc = {} /\ buffer = {} /\ base = {}
    /\ pinned = FALSE /\ conflict = FALSE
    /\ save = {} /\ fetch = {} /\ flight = {} /\ flushed = {}
    /\ local = {} /\ lookup = {} /\ offer = {}
    /\ summary = [pc |-> "none", of |-> {}, ver |-> 0]
    /\ written = {} /\ givenUp = {} /\ clobbered = FALSE /\ perils = {}

Fresh(e) == e = Cardinality(written) + 1 /\ e \in Mine
Dirty == buffer # base

(* What the text goes through: typed before the draft had loaded; typed     *)
(* while a PATCH was awaited; typed over an offered record; changed         *)
(* elsewhere; flushed; sent without an answer; its version moved by a read; *)
(* summarised; summarised as it was before its last change.                 *)
Meets(cond, p) == perils' = IF cond THEN perils \cup {p} ELSE perils

-----------------------------------------------------------------------------
(* Loading and typing.                                                      *)

Open ==
    /\ page = "closed" /\ page' = "loading"
    /\ doc' = {} /\ buffer' = {} /\ base' = {}
    /\ pinned' = FALSE /\ conflict' = FALSE /\ flushed' = {}
    /\ lookup' = {} /\ offer' = {}
    /\ UNCHANGED <<srv, cache, save, fetch, flight, local, history, clobbered, summary>>

(* The editor is on screen while the drafts are listed and the draft is     *)
(* fetched; no draft is saved to and no record kept.                        *)
TypeEarly(e) ==
    /\ page = "loading" /\ Fresh(e)
    /\ doc' = doc \cup {e} /\ written' = written \cup {e}
    /\ Meets(TRUE, "early")
    /\ UNCHANGED <<srv, page, cache, buffer, base, pinned, conflict, save, fetch,
                   flight, flushed, restore, givenUp, clobbered, summary>>

(* The seed effect, Paper's effect, and useChapterDraft's lookup. *)
Load ==
    /\ page = "loading" /\ page' = "open"
    /\ cache' = srv /\ doc' = srv.body /\ buffer' = srv.body /\ base' = srv.body
    /\ lookup' = local
    /\ UNCHANGED <<srv, pinned, conflict, save, fetch, flight, flushed, local,
                   offer, history, clobbered, summary>>

(* persistDraft: the record is based on the cached version. *)
Persist(body) == local' = {[body |-> body, ver |-> cache.ver]}

Type(e) ==
    /\ page = "open" /\ Fresh(e)
    /\ doc' = doc \cup {e} /\ buffer' = doc' /\ written' = written \cup {e}
    /\ Persist(buffer')
    /\ perils' = perils \cup {p \in {"outrun"} : save # {}}
                        \cup {p \in {"over"} : lookup # {} \/ offer # {}}
    /\ UNCHANGED <<srv, page, cache, base, pinned, conflict, save, fetch, flight,
                   flushed, lookup, offer, givenUp, clobbered, summary>>

-----------------------------------------------------------------------------
(* The local record.                                                        *)

(* Faulty variant: a record based on the version shown is taken for stale. *)
Forsaken(r) == IF r.ver > cache.ver THEN "offer" ELSE "discard"

(* resolveDraftDecision. *)
Decision(r) == IF r.ver = cache.ver THEN "offer" ELSE "discard"

Decide ==
    \E r \in lookup :
      /\ lookup' = {}
      /\ IF Decision(r) = "offer" THEN offer' = {r} /\ UNCHANGED local
         ELSE local' = {} /\ UNCHANGED offer
      /\ UNCHANGED <<srv, page, copies, conflict, save, fetch, flight, flushed,
                     history, clobbered, summary>>

(* onRestore: Paper is mounted anew with the record's body. *)
Restore ==
    \E r \in offer :
      /\ ~conflict /\ offer' = {}
      /\ doc' = r.body /\ buffer' = r.body /\ pinned' = TRUE
      /\ IF r.body = base THEN UNCHANGED local ELSE Persist(r.body)
      /\ givenUp' = givenUp \cup (Mine \cap ((doc \cup buffer) \ r.body))
      /\ UNCHANGED <<srv, page, cache, base, conflict, save, fetch, flight,
                     flushed, lookup, written, perils, clobbered, summary>>

Discard ==
    \E r \in offer :
      /\ ~conflict /\ offer' = {} /\ local' = {}
      /\ givenUp' = givenUp \cup (Mine \cap (r.body \ (doc \cup buffer)))
      /\ UNCHANGED <<srv, page, copies, conflict, save, fetch, flight, flushed,
                     lookup, written, perils, clobbered, summary>>

-----------------------------------------------------------------------------
(* Saving.                                                                  *)

Sends(exp, hook) ==
    /\ page = "open" /\ save = {} /\ srv.ver < MaxVer
    /\ save' = {[pc |-> "sent", body |-> buffer, exp |-> exp, hook |-> hook,
                 ans |-> srv]}
    /\ UNCHANGED <<srv, page, copies, conflict, fetch, flight, flushed, restore,
                   history, clobbered, summary>>

(* handleSave, for the hook's debounce, retry or follow-up. *)
Save == Dirty /\ ~conflict /\ Sends(cache.ver, TRUE)

Overwrite == conflict /\ fetch = {} /\ Sends(Unconditional, FALSE)

(* Faulty variant: the precondition is not looked at. *)
AdmitsAny(r) == TRUE

Admits(r) == r.exp \in {Unconditional, srv.ver}

(* Faulty variant: updatedAt is left as it is. *)
WritesQuietly(r) ==
    /\ srv' = [srv EXCEPT !.body = r.body]
    /\ UNCHANGED clobbered

Writes(r) ==
    /\ srv.ver < MaxVer
    /\ srv' = [body |-> r.body, ver |-> srv.ver + 1]
    /\ clobbered' = (clobbered \/ (/\ r.exp # Unconditional
                                   /\ Theirs \cap (srv.body \ r.body) # {}))

(* updateMany under the precondition. *)
Patch ==
    \E s \in save :
      /\ s.pc = "sent"
      /\ IF Admits(s) THEN Writes(s) /\ save' = {[s EXCEPT !.pc = "applied"]}
         ELSE save' = {[s EXCEPT !.pc = "refused"]} /\ UNCHANGED <<srv, clobbered>>
      /\ UNCHANGED <<page, copies, conflict, fetch, flight, flushed, restore, history, summary>>

(* The row the answer carries is read by a statement of its own. *)
ReadBack ==
    \E s \in save :
      /\ s.pc = "applied" /\ save' = {[s EXCEPT !.pc = "read", !.ans = srv]}
      /\ UNCHANGED <<srv, page, copies, conflict, fetch, flight, flushed, restore,
                     history, clobbered, summary>>

(* Faulty variant: the effect runs for an unchanged body, too. *)
ShowsAnew(body) == doc' = IF pinned THEN doc ELSE body

(* Paper's effect, when the cached body changes and nothing is pinned. *)
Shows(body) ==
    doc' = IF pinned \/ body = cache.body THEN doc ELSE body

(* Faulty variant: the answer's version is not taken over. *)
KeepVersion(row) == cache' = [row EXCEPT !.ver = cache.ver]

(* The query cache and, through its effect, updatedAtByDraftRef. *)
Caches(row) == cache' = row

(* onSuccess of the mutation, then of the save. *)
Settle ==
    \E s \in save :
      /\ s.pc = "read" /\ save' = {}
      /\ Caches(s.ans) /\ Shows(s.ans.body)
      /\ base' = IF s.hook THEN s.body ELSE base
      /\ local' = IF s.hook /\ buffer = s.body THEN {} ELSE local
      /\ conflict' = (conflict /\ s.hook)
      /\ Meets(s.ans.body # s.body, "moved")
      /\ UNCHANGED <<srv, page, buffer, pinned, fetch, flight, flushed, lookup,
                     offer, written, givenUp, clobbered, summary>>

(* A 409, or a request or an answer that does not arrive. *)
Fails ==
    \E s \in save :
      /\ save' = {} /\ conflict' = (conflict \/ s.pc = "refused")
      /\ Meets(s.pc \in {"applied", "read"}, "answer")
      /\ UNCHANGED <<srv, page, copies, fetch, flight, flushed, restore, written,
                     givenUp, clobbered, summary>>

-----------------------------------------------------------------------------
(* Refetches, Reload, the unload flush, the end of the page.                *)

Gets(reload) ==
    /\ page = "open" /\ fetch = {}
    /\ fetch' = {[reload |-> reload, row |-> srv]}
    /\ UNCHANGED <<srv, page, copies, conflict, save, flight, flushed, restore,
                   history, clobbered, summary>>

Refetch == ~conflict /\ Gets(FALSE)
Reload == conflict /\ save = {} /\ Gets(TRUE)

(* A read moves the version that the next save is conditional on, under    *)
(* text that was taken from another one; or moves it back.                 *)
Moves(row) == row.ver < cache.ver \/ (row.ver # cache.ver /\ (Dirty \/ pinned \/ save \cup offer # {}))

Arrive ==
    \E f \in fetch :
      /\ fetch' = {} /\ Caches(f.row)
      /\ IF f.reload
         THEN /\ doc' = f.row.body /\ buffer' = f.row.body
              /\ pinned' = TRUE /\ conflict' = FALSE
              /\ givenUp' = givenUp \cup (Mine \cap ((doc \cup buffer) \ f.row.body))
              /\ IF f.row.body = base THEN UNCHANGED local ELSE
                 local' = {[body |-> f.row.body, ver |-> f.row.ver]}
              /\ Meets(offer # {}, "moved")
         ELSE /\ Shows(f.row.body) /\ Meets(Moves(f.row), "moved")
              /\ UNCHANGED <<buffer, pinned, conflict, givenUp, local>>
      /\ UNCHANGED <<srv, page, base, save, flight, flushed, lookup, offer, written,
                     clobbered, summary>>

(* pagehide or a hidden tab: the page may live on. *)
Flush ==
    LET r == [body |-> buffer, exp |-> cache.ver] IN
    /\ page = "open" /\ ~conflict /\ (Dirty \/ save # {})
    /\ flight = {} /\ flushed # {r} /\ srv.ver < MaxVer
    /\ flight' = {r} /\ flushed' = {r} /\ Meets(TRUE, "flush")
    /\ UNCHANGED <<srv, page, copies, conflict, save, fetch, restore, written,
                   givenUp, clobbered, summary>>

FlushArrives ==
    \E r \in flight :
      /\ flight' = flight \ {r}
      /\ IF Admits(r) THEN Writes(r) ELSE UNCHANGED <<srv, clobbered>>
      /\ UNCHANGED <<page, copies, conflict, save, fetch, flushed, restore, history, summary>>

FlushIsLost ==
    \E r \in flight :
      /\ flight' = flight \ {r}
      /\ UNCHANGED <<srv, page, copies, conflict, save, fetch, flushed, restore,
                     history, clobbered, summary>>

(* The tab is closed, crashes or is reloaded. *)
Close ==
    /\ page # "closed" /\ page' = "closed"
    /\ flight' = flight \cup {[body |-> s.body, exp |-> s.exp] :
                                s \in {t \in save : t.pc = "sent"}}
    /\ save' = {} /\ fetch' = {}
    /\ doc' = {} /\ buffer' = {} /\ base' = {} /\ lookup' = {} /\ offer' = {}
    /\ Meets(save # {}, "answer")
    /\ UNCHANGED <<srv, cache, pinned, conflict, flushed, local, written, givenUp,
                   clobbered, summary>>

(* POST /drafts/:id/summarise: the body is read, a model asked, the summary *)
(* stored; that moves the draft's version, too.                             *)
Summarise ==
    /\ page = "open" /\ summary.pc = "none" /\ srv.ver < MaxVer
    /\ summary' = [summary EXCEPT !.pc = "asked", !.of = srv.body]
    /\ UNCHANGED <<srv, page, copies, conflict, save, fetch, flight, flushed, restore,
                   history, clobbered>>

SummaryStored ==
    /\ summary.pc = "asked" /\ srv.ver < MaxVer
    /\ srv' = [srv EXCEPT !.ver = @ + 1]
    /\ summary' = [summary EXCEPT !.pc = "stored", !.ver = srv'.ver]
    /\ perils' = perils \cup {"summary"}
                        \cup {p \in {"overtaken"} : summary.of # srv.body}
    /\ UNCHANGED <<page, copies, conflict, save, fetch, flight, flushed, restore,
                   written, givenUp, clobbered>>

(* summaryIsStale, negated *)
Current == summary.pc = "stored" /\ summary.ver = srv.ver

(* Somebody else's editor, with a copy that is up to date. *)
Elsewhere(e) ==
    /\ e \in Theirs \ srv.body /\ \A f \in Theirs : f < e => f \in srv.body
    /\ srv.ver < MaxVer
    /\ srv' = [body |-> srv.body \cup {e}, ver |-> srv.ver + 1]
    /\ Meets(TRUE, "other")
    /\ UNCHANGED <<page, copies, conflict, save, fetch, flight, flushed, restore,
                   written, givenUp, clobbered, summary>>

Next ==
    \/ Open \/ Load \/ Close
    \/ \E e \in Mine : TypeEarly(e) \/ Type(e)
    \/ Decide \/ Restore \/ Discard
    \/ Save \/ Overwrite \/ Patch \/ ReadBack \/ Settle \/ Fails
    \/ Refetch \/ Reload \/ Arrive
    \/ Flush \/ FlushArrives \/ FlushIsLost
    \/ Summarise \/ SummaryStored
    \/ \E e \in Theirs : Elsewhere(e)

Spec == Init /\ [][Next]_vars

-----------------------------------------------------------------------------
Bodies(S) == UNION {x.body : x \in S}

(* Where an edit can be, besides in the cache. *)
Kept == doc \cup buffer \cup srv.body \cup Bodies(save) \cup Bodies(flight)
            \cup Bodies(local) \cup Bodies(lookup) \cup Bodies(offer)
Lost == (written \ givenUp) \ Kept

(* What the user typed and did not give up is on screen, on its way, in the *)
(* draft's row or in the local record, to be offered again, unless the text *)
(* met one of eight dangers the code is open to: each of them alone can     *)
(* lose an edit (useChapterDraft.ts, EditorPage.tsx).                       *)
LostOnlyInPeril == Lost # {} => perils \ {"overtaken"} # {}

(* A conditional PATCH, a flush included, removes somebody else's edit only *)
(* if a read had moved the version under text taken from an older one       *)
(* (EditorPage.tsx, updatedAtByDraftRef; draft.repo.ts, update).            *)
ClobberedOnlyIfMoved == clobbered => "moved" \in perils

(* The conflict banner is up only if the row was written elsewhere, by a    *)
(* flush, a summary or a save not heard of, or if a late read had taken the *)
(* page back: typing and saving in one page alone never conflicts with itself    *)
(* (useDrafts.ts, onSuccess; EditorPage.tsx, handleSave).                   *)
ConflictExplained ==
    conflict => perils \cap {"other", "flush", "answer", "moved", "summary"} # {}

(* Unsaved text is what the screen shows, unless it was typed while a save  *)
(* was awaited or a read came in over it (Paper.tsx, the setContent effect).*)
ScreenIsBuffer ==
    page = "open" /\ Dirty /\ doc # buffer => perils \cap {"outrun", "moved"} # {}

(* A summary shown as current, that is, not older than the draft, is one of *)
(* the draft's text, unless the text was written while the model was asked  *)
(* (draft.repo.ts, update: summaryJsonUpdatedAt; serializeDraft).           *)
SummaryFaithful == Current => summary.of = srv.body \/ "overtaken" \in perils

(* What the plan for local drafts promises of a draft that is loaded and    *)
(* edited nowhere else: typed text survives the tab's end.  It does not     *)
(* when a save moved the version after the record was written: see README.  *)
TypedTextSurvives == Lost # {} => ~ perils \subseteq {"outrun"}
=============================================================================
