------------------------------ MODULE Autosave ------------------------------
(***************************************************************************)
(* The autosave hook of the chapter editor                                 *)
(* (frontend/src/hooks/useAutosave.ts) together with the part of           *)
(* EditorPage that feeds it: which draft is viewed, the page's copy of the *)
(* draft's body, the query cache entry that seeds that copy, and the two   *)
(* ways out of a conflict.                                                 *)
(*                                                                         *)
(* A payload is one body object.  TipTap hands the page a new object for   *)
(* every keystroke and the hook compares payloads with Object.is, so a     *)
(* payload is identified by the draft it was typed in and its revision;    *)
(* revision 0 is the body the draft was loaded with.                       *)
(*                                                                         *)
(* React commits are atomic: an action that changes the hook's props runs  *)
(* the effects of that commit, in the order the hook declares them.        *)
(* Timers, promise settlements and user input interleave freely between    *)
(* commits.                                                                *)
(***************************************************************************)
EXTENDS Integers, FiniteSets

CONSTANTS
    Doc,           \* draft ids
    NoDoc,         \* viewedDraftId = null; also "no timer is armed"
    NoPayload,     \* the null payload
    Cached,        \* drafts whose record is in the query cache from the start
    MaxRev,        \* bound: revisions typed per draft
    MaxFlushes,    \* bound: an unload flush leaves under so many in flight
    EagerTyping    \* BOOLEAN: may the user type before the body has loaded?

Payload == [doc : Doc, rev : 0..MaxRev]

ASSUME AutosaveAssumption ==
    /\ NoDoc \notin Doc
    /\ NoPayload \notin Payload
    /\ Cached \subseteq Doc
    /\ MaxRev \in Nat \ {0}
    /\ MaxFlushes \in Nat
    /\ EagerTyping \in BOOLEAN

VARIABLES
    (* the page *)
    view,          \* viewedDraftId, which is the hook's resetKey
    buffer,        \* draftBodyJson, which is the hook's payload
    seededFor,     \* seededForDraftIdRef
    loaded,        \* drafts whose query has data
    known,         \* drafts with an entry in updatedAtByDraftRef
    suspended,     \* conflict, which is the hook's `suspended`
    resolving,     \* the conflict action in flight: Reload or Overwrite
    typed,         \* newest revision of each draft's text
    (* the hook's refs and state *)
    mounted,       \* mountedRef
    baselineSet,   \* baselineSetRef
    lastSaved,     \* lastSavedPayloadRef
    debounce,      \* debounceTimerRef with its snapshotted save: its draft
    retry,         \* retryTimerRef: the draft of the save it closes over
    savingRef,     \* savingRef
    followup,      \* pendingFollowupRef
    status,        \* the status shown by the indicator
    retryShown,    \* retryAt # null
    (* the outside world *)
    runs,          \* runSave invocations awaiting their save
    flushes,       \* saves nobody awaits: reset flushes, unload flushes
    landed,        \* newest revision of each draft the server has accepted
    local,         \* revision in each draft's IndexedDB record (0: none typed)
    crossed        \* history: was the key ever reset under an awaited save?

viewVars == <<view, seededFor, loaded, known>>
pageVars == <<viewVars, buffer, suspended, resolving, typed>>
timerVars == <<debounce, retry, retryShown>>
hookVars == <<mounted, baselineSet, lastSaved, timerVars, savingRef, followup,
              status>>
worldVars == <<runs, flushes, landed, local, crossed>>
vars == <<pageVars, hookVars, worldVars>>

(* `page`: the mounted page's handleSave hears of the outcome. *)
Call == [fn : Doc, payload : Payload, page : BOOLEAN]
(* `sent`: handleSave knew a precondition; else it throws at once. *)
Run == [fn : Doc, payload : Payload, sent : BOOLEAN]
Resolution == [kind : {"reload", "overwrite"}, fn : Doc, payload : Payload]

TypeOK ==
    /\ view \in Doc \cup {NoDoc}
    /\ buffer \in Payload \cup {NoPayload}
    /\ seededFor \in Doc \cup {NoDoc}
    /\ loaded \subseteq Doc
    /\ known \subseteq Doc
    /\ suspended \in BOOLEAN
    /\ resolving \subseteq Resolution
    /\ typed \in [Doc -> 0..MaxRev]
    /\ mounted \in BOOLEAN
    /\ baselineSet \in BOOLEAN
    /\ lastSaved \in Payload \cup {NoPayload}
    /\ debounce \in Doc \cup {NoDoc}
    /\ retry \in Doc \cup {NoDoc}
    /\ savingRef \in BOOLEAN
    /\ followup \in BOOLEAN
    /\ status \in {"idle", "saving", "saved", "error"}
    /\ retryShown \in BOOLEAN
    /\ runs \subseteq Run
    /\ flushes \subseteq Call
    /\ landed \in [Doc -> 0..MaxRev]
    /\ local \in [Doc -> 0..MaxRev]
    /\ crossed \in BOOLEAN

-----------------------------------------------------------------------------
Init ==
    /\ view = NoDoc /\ buffer = NoPayload /\ seededFor = NoDoc
    /\ loaded = Cached /\ known = {}
    /\ suspended = FALSE /\ resolving = {}
    /\ typed = [d \in Doc |-> 0]
    /\ mounted = TRUE /\ baselineSet = FALSE /\ lastSaved = NoPayload
    /\ debounce = NoDoc /\ retry = NoDoc /\ retryShown = FALSE
    /\ savingRef = FALSE /\ followup = FALSE /\ status = "idle"
    /\ runs = {} /\ flushes = {}
    /\ landed = [d \in Doc |-> 0]
    /\ local = [d \in Doc |-> 0]
    /\ crossed = FALSE

(* scheduleDebouncedSave: both timers are cleared, and while suspended      *)
(* (`held`) nothing is armed in their place.                                *)
ScheduleDebouncedSave(fn, held) ==
    /\ debounce' = IF held THEN NoDoc ELSE fn
    /\ retry' = NoDoc
    /\ retryShown' = FALSE

PersistDirtyUnlessSaving(p) ==
    local' = IF savingRef THEN local ELSE [local EXCEPT ![view] = p.rev]

(* onDirty: the body goes into the viewed draft's local record; there is    *)
(* none to write as long as the draft has not been loaded.                  *)
PersistDirty(p) ==
    local' = IF view \in loaded THEN [local EXCEPT ![view] = p.rev] ELSE local

(* The payload effect for a new, non-null payload p, in a commit that       *)
(* renders `suspended` as held.                                             *)
PayloadEffect(p, held) ==
    /\ buffer' = p
    /\ IF ~baselineSet
       THEN /\ baselineSet' = TRUE
            /\ lastSaved' = p
            /\ UNCHANGED <<timerVars, followup, local>>
       ELSE /\ UNCHANGED <<baselineSet, lastSaved>>
            /\ IF p = lastSaved
               THEN UNCHANGED <<timerVars, followup, local>>
               ELSE /\ PersistDirty(p)
                    /\ IF savingRef
                       THEN /\ followup' = TRUE
                            /\ UNCHANGED timerVars
                       ELSE /\ ScheduleDebouncedSave(view, held)
                            /\ UNCHANGED followup

RunOf(fn) == [fn |-> fn, payload |-> buffer, sent |-> fn \in known]

(* Faulty variant: a run that does not mark itself as under way. *)
RunSaveUnmarked(fn) ==
    IF buffer = NoPayload \/ suspended
    THEN UNCHANGED <<runs, savingRef, status>>
    ELSE /\ runs' = runs \cup {RunOf(fn)}
         /\ status' = "saving"
         /\ UNCHANGED savingRef

(* runSave(fn) up to its await. *)
RunSave(fn) ==
    IF buffer = NoPayload \/ suspended
    THEN UNCHANGED <<runs, savingRef, status>>
    ELSE /\ runs' = runs \cup {RunOf(fn)}
         /\ savingRef' = TRUE
         /\ status' = "saving"

(* The latest payload outran the one that was being saved. *)
Outrun(r) == followup /\ buffer # NoPayload /\ buffer # r.payload

NoRetry(fn) == UNCHANGED <<retry, retryShown>>

(* A save whose text is still the latest is retried by a timer. *)
ArmRetry(fn) ==
    /\ retry' = fn
    /\ retryShown' = TRUE

(* The server keeps the newest revision it was sent for a draft; a body    *)
(* addressed to another draft is not a revision of that draft.             *)
Accepted(call) ==
    IF call.payload.doc = call.fn /\ call.payload.rev > landed[call.fn]
    THEN [landed EXCEPT ![call.fn] = call.payload.rev]
    ELSE landed

-----------------------------------------------------------------------------
(* The page. *)

(* The text of the viewed draft changes: by typing, or because a restore    *)
(* offer is accepted.  The editor is on screen even while the draft's body  *)
(* is still loading.                                                        *)
Type ==
    /\ mounted
    /\ view \in Doc
    /\ EagerTyping \/ view \in loaded
    /\ typed[view] < MaxRev
    /\ typed' = [typed EXCEPT ![view] = @ + 1]
    /\ PayloadEffect([doc |-> view, rev |-> typed[view] + 1], suspended)
    /\ UNCHANGED <<viewVars, suspended, resolving, mounted, savingRef, status,
                   runs, flushes, landed, crossed>>

(* The draft's query resolves.  If the draft is on screen its timestamp is  *)
(* noted, and, if its body has not been put into the buffer yet, the seed   *)
(* effect does so now.                                                      *)
Load(d) ==
    /\ mounted
    /\ d \notin loaded
    /\ loaded' = loaded \cup {d}
    /\ known' = IF view = d THEN known \cup {d} ELSE known
    /\ IF view = d /\ seededFor # d
       THEN /\ seededFor' = d
            /\ PayloadEffect([doc |-> d, rev |-> 0], suspended)
       ELSE UNCHANGED <<seededFor, buffer, baselineSet, lastSaved, timerVars,
                        followup, local>>
    /\ UNCHANGED <<view, suspended, resolving, typed, mounted, savingRef, status,
                   runs, flushes, landed, crossed>>

Flushed(fn) ==
    IF debounce # NoDoc /\ buffer # NoPayload /\ fn \in known
    THEN flushes \cup {[fn |-> fn, payload |-> buffer, page |-> TRUE]}
    ELSE flushes

FlushThroughCurrentSave(d) == flushes' = Flushed(d)

(* A pending debounce is flushed through the save it snapshotted when it    *)
(* was scheduled, not through the save of the draft d viewed now.           *)
FlushDebounce(d) == flushes' = Flushed(debounce)

(* The baseline is forgotten, and set again if d's body is there already.   *)
ResetBaseline(d, seeds) ==
    /\ baselineSet' = seeds
    /\ lastSaved' = IF seeds THEN [doc |-> d, rev |-> 0] ELSE NoPayload

(* Another draft is viewed (NoDoc: a chapter whose drafts are not listed    *)
(* yet).  The reset effect flushes a pending debounce to the draft it was   *)
(* scheduled for and cancels the timers; the await of a save in flight goes *)
(* on.  The seed effect fills the buffer if the draft is in the cache; if   *)
(* it is not, the buffer keeps the previous draft's body until it is.       *)
SwitchView(d) ==
    /\ mounted
    /\ d # view
    /\ view' = d
    /\ FlushDebounce(d)
    /\ debounce' = NoDoc /\ retry' = NoDoc /\ retryShown' = FALSE
    /\ followup' = FALSE
    /\ status' = "idle"
    /\ suspended' = FALSE
    /\ known' = known \cup ({d} \cap loaded)
    /\ LET seeds == d \in loaded /\ seededFor # d IN
         /\ ResetBaseline(d, seeds)
         /\ buffer' = IF seeds THEN [doc |-> d, rev |-> 0]
                      ELSE IF d = NoDoc THEN NoPayload ELSE buffer
         /\ seededFor' = IF seeds \/ d = NoDoc THEN d ELSE seededFor
    /\ crossed' = (crossed \/ runs # {} \/ resolving # {})
    /\ UNCHANGED <<loaded, resolving, typed, mounted, savingRef, runs, landed,
                   local>>

(* A button of the conflict banner, inert while the other one is at work. *)
Resolve(kind) ==
    /\ mounted /\ suspended
    /\ view # NoDoc /\ buffer # NoPayload
    /\ resolving = {}
    /\ resolving' = {[kind |-> kind, fn |-> view, payload |-> buffer]}
    /\ UNCHANGED <<viewVars, buffer, suspended, typed, hookVars, worldVars>>

(* Overwrite saves what was on screen when it was clicked, unconditionally, *)
(* and lifts whatever conflict there is then; or it fails.                  *)
OverwriteEnds(q) ==
    /\ q.kind = "overwrite"
    /\ resolving' = {}
    /\ \/ /\ landed' = Accepted(q)
          /\ suspended' = (suspended /\ ~mounted)
       \/ /\ landed' \in {landed, Accepted(q)}
          /\ UNCHANGED suspended
    /\ UNCHANGED <<viewVars, buffer, typed, hookVars, runs, flushes, local,
                   crossed>>

(* Reload puts the server's body into the buffer and lifts the conflict.    *)
(* The server's body is a text of its own, newer than the one given up.     *)
(* refetch resolves with what the query observer shows by then: the record  *)
(* of the draft viewed when it ends, or, that not being loaded, no body.    *)
ReloadEnds(q) ==
    LET sameDraft == view = q.fn
        rev == IF sameDraft THEN typed[view] + 1 ELSE 0 IN
    /\ q.kind = "reload"
    /\ resolving' = {}
    /\ IF mounted /\ view \in Doc
       THEN /\ rev <= MaxRev
            /\ suspended' = FALSE
            /\ typed' = IF sameDraft THEN [typed EXCEPT ![view] = rev] ELSE typed
            /\ landed' = IF sameDraft THEN [landed EXCEPT ![view] = rev]
                         ELSE landed
            /\ PayloadEffect([doc |-> view, rev |-> rev], FALSE)
       ELSE UNCHANGED <<buffer, suspended, typed, landed, baselineSet, lastSaved,
                        timerVars, followup, local>>
    /\ UNCHANGED <<viewVars, mounted, savingRef, status, runs, flushes, crossed>>

(* The editor page is left: timers are cleared, awaited saves go on. *)
Unmount ==
    /\ mounted
    /\ mounted' = FALSE
    /\ debounce' = NoDoc /\ retry' = NoDoc
    /\ UNCHANGED <<pageVars, baselineSet, lastSaved, savingRef, followup, status,
                   retryShown, worldVars>>

(* The editor page is entered again, with fresh refs: the saves that the    *)
(* previous instance awaited, nobody awaits any more, and an Overwrite of   *)
(* its has ended, one way or the other.                                     *)
Mount ==
    /\ ~mounted
    /\ mounted' = TRUE /\ baselineSet' = FALSE /\ lastSaved' = NoPayload
    /\ retryShown' = FALSE /\ savingRef' = FALSE /\ followup' = FALSE
    /\ status' = "idle"
    /\ view' = NoDoc /\ buffer' = NoPayload /\ seededFor' = NoDoc
    /\ known' = {} /\ suspended' = FALSE
    /\ runs' = {} /\ resolving' = {}
    /\ flushes' = {[fn |-> c.fn, payload |-> c.payload, page |-> FALSE] :
                      c \in flushes \cup {r \in runs : r.sent}}
    /\ landed' \in {landed} \cup
           {Accepted(q) : q \in {o \in resolving : o.kind = "overwrite"}}
    /\ UNCHANGED <<loaded, typed, debounce, retry, local, crossed>>

(* getPendingPayload *)
PendingPayload ==
    IF \/ suspended
       \/ buffer = NoPayload
       \/ ~baselineSet
       \/ ~savingRef /\ lastSaved # NoPayload /\ buffer = lastSaved
    THEN NoPayload
    ELSE buffer

(* The tab is hidden: the pending payload leaves in a keepalive request,    *)
(* whose response nobody reads.                                             *)
UnloadFlush ==
    /\ mounted
    /\ view \in known
    /\ PendingPayload # NoPayload
    /\ Cardinality(flushes) < MaxFlushes
    /\ flushes' = flushes \cup {[fn |-> view, payload |-> PendingPayload,
                                 page |-> FALSE]}
    /\ UNCHANGED <<pageVars, hookVars, runs, landed, local, crossed>>

-----------------------------------------------------------------------------
(* The hook's timers and the outcomes of the saves. *)

DebounceFires ==
    /\ debounce # NoDoc
    /\ debounce' = NoDoc
    /\ RunSave(debounce)
    /\ UNCHANGED <<pageVars, mounted, baselineSet, lastSaved, retry, retryShown,
                   followup, flushes, landed, local, crossed>>

RetryFires ==
    /\ retry # NoDoc
    /\ retry' = NoDoc
    /\ retryShown' = FALSE
    /\ RunSave(retry)
    /\ UNCHANGED <<pageVars, mounted, baselineSet, lastSaved, debounce,
                   followup, flushes, landed, local, crossed>>

(* The awaited save resolves.  onSaved deletes the local record of the      *)
(* draft now viewed.                                                        *)
SaveResolves(r) ==
    /\ r.sent
    /\ runs' = runs \ {r}
    /\ lastSaved' = r.payload
    /\ landed' = Accepted(r)
    /\ IF ~mounted
       THEN UNCHANGED <<timerVars, savingRef, status, followup, local>>
       ELSE /\ savingRef' = FALSE
            /\ status' = "saved"
            /\ followup' = FALSE
            /\ IF Outrun(r)
               THEN /\ ScheduleDebouncedSave(r.fn, suspended)
                    /\ UNCHANGED local
               ELSE /\ retryShown' = FALSE
                    /\ local' = [d \in Doc |-> IF d = view THEN 0 ELSE local[d]]
                    /\ UNCHANGED <<debounce, retry>>
    /\ UNCHANGED <<pageVars, mounted, baselineSet, flushes, crossed>>

(* A 409 raises the conflict if the save's draft is the one on screen; any  *)
(* other failure leaves open whether the server has accepted the body.      *)
Rejected(c, heard) ==
    \/ /\ landed' \in {landed, Accepted(c)}
       /\ UNCHANGED suspended
    \/ /\ UNCHANGED landed
       /\ suspended' = (suspended \/ (heard /\ c.fn = view))

(* The awaited save rejects.  The hook hears of it before the conflict has  *)
(* been rendered.                                                           *)
SaveRejects(r) ==
    /\ runs' = runs \ {r}
    /\ IF r.sent THEN Rejected(r, mounted) ELSE UNCHANGED <<landed, suspended>>
    /\ IF ~mounted
       THEN UNCHANGED <<timerVars, savingRef, status, followup>>
       ELSE /\ savingRef' = FALSE
            /\ status' = "error"
            /\ followup' = FALSE
            /\ IF Outrun(r)
               THEN ScheduleDebouncedSave(r.fn, suspended)
               ELSE /\ ArmRetry(r.fn)
                    /\ UNCHANGED debounce
    /\ UNCHANGED <<viewVars, buffer, resolving, typed, mounted, baselineSet,
                   lastSaved, flushes, local, crossed>>

(* A save nobody awaits ends, one way or the other. *)
FlushEnds(f) ==
    /\ flushes' = flushes \ {f}
    /\ \/ landed' = Accepted(f) /\ UNCHANGED suspended
       \/ Rejected(f, f.page /\ mounted)
    /\ UNCHANGED <<viewVars, buffer, resolving, typed, hookVars, runs, local,
                   crossed>>

Next ==
    \/ Type
    \/ \E d \in Doc : Load(d)
    \/ \E d \in Doc \cup {NoDoc} : SwitchView(d)
    \/ \E kind \in {"reload", "overwrite"} : Resolve(kind)
    \/ \E q \in resolving : OverwriteEnds(q) \/ ReloadEnds(q)
    \/ Unmount
    \/ Mount
    \/ UnloadFlush
    \/ DebounceFires
    \/ RetryFires
    \/ \E r \in runs : SaveResolves(r) \/ SaveRejects(r)
    \/ \E f \in flushes : FlushEnds(f)

Spec == Init /\ [][Next]_vars

(* Timers fire.  A save that is attempted again and again is accepted some  *)
(* time: the network is not down for ever.  Users owe nothing.              *)
FairSpec ==
    /\ Spec
    /\ WF_vars(DebounceFires)
    /\ WF_vars(RetryFires)
    /\ SF_vars(\E r \in runs : SaveResolves(r))

-----------------------------------------------------------------------------
(* Something will carry the buffer to the server. *)
Covered == debounce # NoDoc \/ retry # NoDoc \/ runs # {}

(* The buffer differs from what the hook believes saved. *)
Dirty == mounted /\ baselineSet /\ buffer # NoPayload /\ buffer # lastSaved

(* useAutosave's savingRef discipline: whatever the order of keystrokes,    *)
(* timers, draft switches and settlements, at most one awaited save is in   *)
(* flight, the ref says so exactly, and no timer is armed under a save nor  *)
(* two timers at once (so that no two saves of one editor can race).        *)
OneSaveAtATime ==
    mounted =>
        /\ \A r, s \in runs : r = s
        /\ savingRef <=> runs # {}
        /\ savingRef => debounce = NoDoc /\ retry = NoDoc
        /\ debounce = NoDoc \/ retry = NoDoc

(* EditorPage's unload flush reads the viewed draft's id from its closure;  *)
(* that is sound because the hook has a baseline only when its buffer holds *)
(* the body of the viewed draft.                                            *)
BufferBelongsToView ==
    baselineSet => buffer # NoPayload /\ buffer.doc = view

(* Every save carries a body of the draft it is addressed to: what the      *)
(* snapshotted save callbacks of useAutosave are there for.                 *)
OwnDocument ==
    /\ \A r \in runs : r.payload.doc = r.fn
    /\ \A f \in flushes : f.payload.doc = f.fn

(* As long as no reset happened under an awaited save, every save carries a *)
(* body of the draft it is addressed to.                                    *)
OwnDocumentUnlessCrossed == ~crossed => OwnDocument

(* The newest text of every draft is on the server or in the browser's      *)
(* local record, in every state, over any number of draft switches, failed  *)
(* and lost saves, conflicts and remounts: onSaved may delete the local     *)
(* record only when the server has that very text.                          *)
EditSafeUnlessCrossed ==
    ~crossed => \A d \in Doc : typed[d] \in {landed[d], local[d]}

(* The indicator: "retrying" is shown exactly when a retry is armed, and    *)
(* "saving" exactly when a save of this editor is awaited.                  *)
IndicatorTruth ==
    mounted => /\ retryShown <=> retry # NoDoc
               /\ ~crossed => (status = "saving" <=> runs # {})

(* No save starts while a conflict is unresolved: suspension is re-checked  *)
(* when a timer armed before it fires.                                      *)
NoSaveWhileSuspended ==
    [][suspended => runs' \subseteq runs]_vars

(* A buffer the hook has taken charge of is saved eventually, unless the    *)
(* user leaves the page or a conflict is raised.                            *)
SavedEventually ==
    (Dirty /\ Covered /\ ~crossed)
        ~> (~Dirty \/ suspended \/ ~mounted \/ crossed)
=============================================================================
