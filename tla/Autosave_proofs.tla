--------------------------- MODULE Autosave_proofs --------------------------
(***************************************************************************)
(* Proofs about the autosave hook, for every set of drafts and every       *)
(* number of revisions.                                                    *)
(***************************************************************************)
EXTENDS Autosave, TLAPS

(* What the assumption on the constants says. *)
LEMMA Constants ==
    /\ NoDoc \notin Doc
    /\ NoPayload \notin Payload
    /\ Cached \subseteq Doc
    /\ MaxRev \in Nat \ {0}
    /\ 0 \in 0..MaxRev
  BY AutosaveAssumption DEF AutosaveAssumption

(* What the payload effect does to the hook's types. *)
LEMMA PayloadEffectTypes ==
    ASSUME TypeOK, view \in Doc, NEW p \in Payload, NEW held,
           PayloadEffect(p, held)
    PROVE  /\ buffer' \in Payload
           /\ baselineSet' \in BOOLEAN
           /\ lastSaved' \in Payload \cup {NoPayload}
           /\ debounce' \in Doc \cup {NoDoc}
           /\ retry' \in Doc \cup {NoDoc}
           /\ retryShown' \in BOOLEAN
           /\ followup' \in BOOLEAN
           /\ local' \in [Doc -> 0..MaxRev]
  <1>1. p.rev \in 0..MaxRev
    BY DEF Payload
  <1>2. QED
    BY <1>1 DEF TypeOK, PayloadEffect, ScheduleDebouncedSave, PersistDirty,
                timerVars

LEMMA AcceptedType ==
    ASSUME TypeOK, NEW call, call.fn \in Doc, call.payload \in Payload
    PROVE  Accepted(call) \in [Doc -> 0..MaxRev]
  BY DEF TypeOK, Accepted, Payload

(* The initial state and every step preserve the types. *)
LEMMA TypeInit == Init => TypeOK
  <1> SUFFICES ASSUME Init PROVE TypeOK
    OBVIOUS
  <1> QED
    BY Constants DEF Init, TypeOK

LEMMA TypeStep == TypeOK /\ [Next]_vars => TypeOK'
  <1> SUFFICES ASSUME TypeOK, [Next]_vars PROVE TypeOK'
    OBVIOUS
  <1>1. CASE Type
    <2>1. [doc |-> view, rev |-> typed[view] + 1] \in Payload
      BY <1>1, Constants DEF Type, TypeOK, Payload
    <2>2. view \in Doc
      BY <1>1 DEF Type
    <2>3. typed' \in [Doc -> 0..MaxRev]
      BY <1>1, Constants DEF Type, TypeOK
    <2>4. QED
      BY <1>1, <2>1, <2>2, <2>3, PayloadEffectTypes DEF Type, TypeOK, viewVars
  <1>2. ASSUME NEW d \in Doc, Load(d) PROVE TypeOK'
    <2>1. [doc |-> d, rev |-> 0] \in Payload
      BY Constants DEF Payload
    <2>2. CASE view = d /\ seededFor # d
      BY <1>2, <2>1, <2>2, PayloadEffectTypes DEF Load, TypeOK
    <2>3. CASE ~(view = d /\ seededFor # d)
      BY <1>2, <2>3 DEF Load, TypeOK, timerVars
    <2>4. QED
      BY <2>2, <2>3
  <1>3. ASSUME NEW d \in Doc \cup {NoDoc}, SwitchView(d) PROVE TypeOK'
    <2>1. d \in Doc => [doc |-> d, rev |-> 0] \in Payload
      BY Constants DEF Payload
    <2>2. flushes' \subseteq Call
      <3>1. debounce # NoDoc /\ buffer # NoPayload
              => [fn |-> debounce, payload |-> buffer, page |-> TRUE] \in Call
        BY DEF TypeOK, Call
      <3>2. QED
        BY <1>3, <3>1 DEF SwitchView, FlushDebounce, Flushed, TypeOK
    <2>3. baselineSet' \in BOOLEAN /\ lastSaved' \in Payload \cup {NoPayload}
      BY <1>3, <2>1 DEF SwitchView, ResetBaseline, TypeOK
    <2>4. buffer' \in Payload \cup {NoPayload} /\ seededFor' \in Doc \cup {NoDoc}
      BY <1>3, <2>1 DEF SwitchView, TypeOK
    <2>5. QED
      BY <1>3, <2>2, <2>3, <2>4 DEF SwitchView, TypeOK
  <1>4. ASSUME NEW kind \in {"reload", "overwrite"}, Resolve(kind) PROVE TypeOK'
    <2>1. resolving' \subseteq Resolution
      BY <1>4 DEF Resolve, TypeOK, Resolution
    <2>2. QED
      BY <1>4, <2>1 DEF Resolve, TypeOK, viewVars, hookVars, timerVars, worldVars
  <1>5. ASSUME NEW q \in resolving, OverwriteEnds(q) PROVE TypeOK'
    <2>1. q.fn \in Doc /\ q.payload \in Payload
      BY DEF TypeOK, Resolution
    <2>2. landed' \in [Doc -> 0..MaxRev] /\ suspended' \in BOOLEAN
      BY <1>5, <2>1, AcceptedType DEF OverwriteEnds, TypeOK
    <2>3. QED
      BY <1>5, <2>2 DEF OverwriteEnds, TypeOK, viewVars, hookVars, timerVars
  <1>16. ASSUME NEW q \in resolving, ReloadEnds(q) PROVE TypeOK'
    <2> DEFINE rev == IF view = q.fn THEN typed[view] + 1 ELSE 0
    <2>1. CASE mounted /\ view \in Doc
      <3>1. rev \in 0..MaxRev
        BY <1>16, <2>1, Constants DEF ReloadEnds, TypeOK
      <3>2. [doc |-> view, rev |-> rev] \in Payload
        BY <2>1, <3>1 DEF Payload
      <3>3. PayloadEffect([doc |-> view, rev |-> rev], FALSE)
        BY <1>16, <2>1 DEF ReloadEnds
      <3>4. typed' \in [Doc -> 0..MaxRev] /\ landed' \in [Doc -> 0..MaxRev]
        BY <1>16, <2>1, <3>1 DEF ReloadEnds, TypeOK
      <3> HIDE DEF rev
      <3>5. QED
        BY <1>16, <2>1, <3>2, <3>3, <3>4, PayloadEffectTypes
           DEF ReloadEnds, TypeOK, viewVars
    <2>2. CASE ~(mounted /\ view \in Doc)
      <3>1. resolving' = {}
        BY <1>16 DEF ReloadEnds
      <3>2. /\ UNCHANGED <<buffer, suspended, typed, landed, baselineSet, lastSaved>>
            /\ UNCHANGED <<timerVars, followup, local>>
        BY <1>16, <2>2 DEF ReloadEnds
      <3>3. UNCHANGED <<viewVars, mounted, savingRef, status, runs, flushes, crossed>>
        BY <1>16 DEF ReloadEnds
      <3> HIDE DEF rev
      <3>4. QED
        BY <3>1, <3>2, <3>3 DEF TypeOK, viewVars, timerVars
    <2>3. QED
      BY <2>1, <2>2
  <1>6. CASE Unmount
    BY ZenonT(40), <1>6 DEF Unmount, TypeOK, pageVars, viewVars, worldVars
  <1>7. CASE Mount
    <2>1. \A c \in flushes \cup runs : c.fn \in Doc /\ c.payload \in Payload
      BY DEF TypeOK, Run, Call
    <2>2. flushes' \subseteq Call
      <3> SUFFICES ASSUME NEW f \in flushes' PROVE f \in Call
        OBVIOUS
      <3>1. PICK c \in flushes \cup runs :
                f = [fn |-> c.fn, payload |-> c.payload, page |-> FALSE]
        BY <1>7 DEF Mount
      <3>2. c.fn \in Doc /\ c.payload \in Payload
        BY <2>1
      <3>3. QED
        BY <3>1, <3>2 DEF Call
    <2>3. \A q \in resolving : Accepted(q) \in [Doc -> 0..MaxRev]
      BY AcceptedType DEF TypeOK, Resolution
    <2>4. landed' \in [Doc -> 0..MaxRev]
      BY <1>7, <2>3 DEF Mount, TypeOK
    <2>5. QED
      BY <1>7, <2>2, <2>4 DEF Mount, TypeOK
  <1>8. CASE UnloadFlush
    <2>1. PendingPayload \in Payload
      BY <1>8 DEF UnloadFlush, PendingPayload, TypeOK
    <2>2. flushes' \subseteq Call
      <3>1. view \in Doc
        BY <1>8 DEF UnloadFlush, TypeOK
      <3>2. [fn |-> view, payload |-> PendingPayload, page |-> FALSE] \in Call
        BY <2>1, <3>1 DEF Call
      <3>3. QED
        BY <1>8, <3>2 DEF UnloadFlush, TypeOK
    <2>3. QED
      BY <1>8, <2>2 DEF UnloadFlush, TypeOK, pageVars, viewVars, hookVars,
                        timerVars
  <1>9. ASSUME NEW fn \in Doc, RunSave(fn)
        PROVE  /\ runs' \subseteq Run /\ savingRef' \in BOOLEAN
               /\ status' \in {"idle", "saving", "saved", "error"}
    <2>1. buffer # NoPayload => RunOf(fn) \in Run
      BY DEF TypeOK, Run, RunOf
    <2>2. QED
      BY <1>9, <2>1 DEF RunSave, TypeOK
  <1>10. CASE DebounceFires
    BY <1>9, <1>10 DEF DebounceFires, TypeOK, pageVars, viewVars
  <1>11. CASE RetryFires
    BY <1>9, <1>11 DEF RetryFires, TypeOK, pageVars, viewVars
  <1>12. ASSUME NEW r \in runs, SaveResolves(r) PROVE TypeOK'
    <2>1. r.fn \in Doc /\ r.payload \in Payload
      BY DEF TypeOK, Run
    <2>2. landed' \in [Doc -> 0..MaxRev]
      BY <1>12, <2>1, AcceptedType DEF SaveResolves
    <2>3. local' \in [Doc -> 0..MaxRev]
      BY <1>12, Constants DEF SaveResolves, TypeOK
    <2>4. debounce' \in Doc \cup {NoDoc} /\ retry' \in Doc \cup {NoDoc}
             /\ retryShown' \in BOOLEAN
      BY <1>12, <2>1 DEF SaveResolves, ScheduleDebouncedSave, TypeOK, timerVars
    <2>5. QED
      BY <1>12, <2>1, <2>2, <2>3, <2>4 DEF SaveResolves, TypeOK, pageVars,
                                               viewVars
  <1>13. ASSUME NEW r \in runs, SaveRejects(r) PROVE TypeOK'
    <2>1. r.fn \in Doc /\ r.payload \in Payload
      BY DEF TypeOK, Run
    <2>2. landed' \in [Doc -> 0..MaxRev] /\ suspended' \in BOOLEAN
      BY <1>13, <2>1, AcceptedType DEF SaveRejects, Rejected, TypeOK
    <2>3. debounce' \in Doc \cup {NoDoc} /\ retry' \in Doc \cup {NoDoc}
             /\ retryShown' \in BOOLEAN
      BY <1>13, <2>1 DEF SaveRejects, ScheduleDebouncedSave, ArmRetry, TypeOK,
                         timerVars
    <2>4. QED
      BY <1>13, <2>1, <2>2, <2>3 DEF SaveRejects, TypeOK, viewVars
  <1>14. ASSUME NEW f \in flushes, FlushEnds(f) PROVE TypeOK'
    <2>1. f.fn \in Doc /\ f.payload \in Payload
      BY DEF TypeOK, Call
    <2>2. landed' \in [Doc -> 0..MaxRev] /\ suspended' \in BOOLEAN
      BY <1>14, <2>1, AcceptedType DEF FlushEnds, Rejected, TypeOK
    <2>3. QED
      BY <1>14, <2>2 DEF FlushEnds, TypeOK, viewVars, hookVars, timerVars
  <1>15. CASE UNCHANGED vars
    BY <1>15 DEF vars, pageVars, viewVars, hookVars, timerVars, worldVars, TypeOK
  <1>17. QED
    BY <1>1, <1>2, <1>3, <1>4, <1>5, <1>6, <1>7, <1>8, <1>10, <1>11, <1>12,
       <1>13, <1>14, <1>15, <1>16 DEF Next

(* The type invariant of the hook and its page. *)
THEOREM TypeCorrect == Spec => []TypeOK
  BY TypeInit, TypeStep, PTL DEF Spec

-----------------------------------------------------------------------------
(* The inductive invariant.  What useAutosave's refs promise each other is  *)
(* provable only together: that a timer never fires under a save rests on   *)
(* the timers being clear once the page is left, that a save carries its    *)
(* own draft's body rests on timers and awaited saves being those of the    *)
(* viewed draft, and both on the baseline being set only for that draft.    *)

(* The unmount cleanup has cleared the timers. *)
QuietWhenUnmounted == ~mounted => debounce = NoDoc /\ retry = NoDoc

(* What is armed or awaited was scheduled for the viewed draft. *)
WorkIsForView ==
    mounted /\ ~crossed =>
        /\ debounce # NoDoc => debounce = view /\ baselineSet
        /\ retry # NoDoc => retry = view /\ baselineSet
        /\ \A r \in runs : r.fn = view /\ baselineSet

HookInv ==
    /\ TypeOK
    /\ OneSaveAtATime
    /\ QuietWhenUnmounted
    /\ IndicatorTruth
    /\ BufferBelongsToView
    /\ WorkIsForView
    /\ OwnDocumentUnlessCrossed

LEMMA HookInit == Init => HookInv
  <1> SUFFICES ASSUME Init PROVE HookInv
    OBVIOUS
  <1>1. TypeOK
    BY TypeInit
  <1>2. QED
    BY <1>1 DEF Init, HookInv, OneSaveAtATime, QuietWhenUnmounted, IndicatorTruth,
                BufferBelongsToView, WorkIsForView, OwnDocumentUnlessCrossed,
                OwnDocument

(* What a keystroke or the arrival of the body does to the timers.          *)
LEMMA PayloadEffectWork ==
    ASSUME HookInv, mounted, view \in Doc, NEW p \in Payload, p.doc = view,
           NEW held, PayloadEffect(p, held),
           UNCHANGED <<view, mounted, savingRef, status, runs, flushes, crossed>>
    PROVE  /\ OneSaveAtATime' /\ QuietWhenUnmounted' /\ IndicatorTruth'
           /\ BufferBelongsToView' /\ WorkIsForView'
           /\ OwnDocumentUnlessCrossed'
  <1>1. \/ UNCHANGED timerVars
        \/ ~savingRef /\ baselineSet /\ ScheduleDebouncedSave(view, held)
    BY DEF PayloadEffect
  <1>2. buffer' = p /\ (baselineSet => baselineSet')
    BY DEF PayloadEffect
  <1>3. view # NoDoc /\ p # NoPayload
    BY Constants
  <1>4. OneSaveAtATime' /\ QuietWhenUnmounted'
    BY <1>1 DEF HookInv, OneSaveAtATime, QuietWhenUnmounted,
                ScheduleDebouncedSave, timerVars
  <1>5. IndicatorTruth'
    BY <1>1 DEF HookInv, IndicatorTruth, ScheduleDebouncedSave, timerVars
  <1>6. BufferBelongsToView'
    BY <1>2, <1>3 DEF BufferBelongsToView
  <1>7. WorkIsForView'
    BY <1>1, <1>2 DEF HookInv, WorkIsForView, ScheduleDebouncedSave, timerVars
  <1>8. OwnDocumentUnlessCrossed'
    BY DEF HookInv, OwnDocumentUnlessCrossed, OwnDocument
  <1>9. QED
    BY <1>4, <1>5, <1>6, <1>7, <1>8

(* A timer that fires finds no save in flight, and starts one for the       *)
(* viewed draft with the viewed draft's body.                               *)
LEMMA RunSaveWork ==
    ASSUME HookInv, mounted, ~savingRef, NEW fn \in Doc,
           ~crossed => fn = view /\ baselineSet,
           RunSave(fn), debounce' = NoDoc, retry' = NoDoc, ~retryShown',
           UNCHANGED <<view, buffer, mounted, baselineSet, flushes, crossed>>
    PROVE  /\ OneSaveAtATime' /\ QuietWhenUnmounted' /\ IndicatorTruth'
           /\ BufferBelongsToView' /\ WorkIsForView'
           /\ OwnDocumentUnlessCrossed'
  <1> DEFINE run == RunOf(fn)
  <1>1. runs = {}
    BY DEF HookInv, OneSaveAtATime
  <1>2. \/ runs' = {} /\ UNCHANGED <<savingRef, status>>
        \/ runs' = {run} /\ savingRef' = TRUE /\ status' = "saving"
    BY <1>1 DEF RunSave
  <1>3. OneSaveAtATime' /\ QuietWhenUnmounted'
    <2> HIDE DEF run
    <2>1. savingRef' <=> runs' # {}
      BY <1>2
    <2>2. QED
      BY <1>2, <2>1 DEF OneSaveAtATime, QuietWhenUnmounted
  <1>4. IndicatorTruth'
    BY <1>1, <1>2 DEF HookInv, IndicatorTruth
  <1>5. BufferBelongsToView'
    BY DEF HookInv, BufferBelongsToView
  <1>6. WorkIsForView'
    BY <1>2 DEF RunOf, HookInv, WorkIsForView
  <1>7. OwnDocumentUnlessCrossed'
    <2>1. ~crossed => buffer.doc = fn
      BY DEF HookInv, BufferBelongsToView
    <2>2. QED
      BY <1>2, <2>1 DEF RunOf, HookInv, OwnDocumentUnlessCrossed, OwnDocument
  <1>8. QED
    BY <1>3, <1>4, <1>5, <1>6, <1>7

(* A settled save leaves nothing awaited, and at most one timer armed, for  *)
(* the draft of that save.                                                  *)
LEMMA SettleWork ==
    ASSUME HookInv, mounted, NEW r \in runs, runs' = runs \ {r},
           savingRef' = FALSE, status' \in {"saved", "error"},
           \/ \E held \in BOOLEAN : ScheduleDebouncedSave(r.fn, held)
           \/ retryShown' = FALSE /\ UNCHANGED <<debounce, retry>>
           \/ ArmRetry(r.fn) /\ UNCHANGED debounce,
           UNCHANGED <<view, buffer, mounted, baselineSet, flushes, crossed>>
    PROVE  /\ OneSaveAtATime' /\ QuietWhenUnmounted' /\ IndicatorTruth'
           /\ BufferBelongsToView' /\ WorkIsForView'
           /\ OwnDocumentUnlessCrossed'
  <1>1. runs' = {} /\ debounce = NoDoc /\ retry = NoDoc
    BY DEF HookInv, OneSaveAtATime
  <1>2. r.fn \in Doc /\ r.fn # NoDoc
    BY Constants DEF HookInv, TypeOK, Run
  <1>3. OneSaveAtATime' /\ QuietWhenUnmounted'
    BY <1>1 DEF OneSaveAtATime, QuietWhenUnmounted, ScheduleDebouncedSave,
                ArmRetry
  <1>4. IndicatorTruth'
    BY <1>1, <1>2 DEF IndicatorTruth, ScheduleDebouncedSave, ArmRetry
  <1>5. BufferBelongsToView'
    BY DEF HookInv, BufferBelongsToView
  <1>6. WorkIsForView'
    <2>1. ~crossed => r.fn = view /\ baselineSet
      BY DEF HookInv, WorkIsForView
    <2>2. QED
      BY <1>1, <2>1 DEF WorkIsForView, ScheduleDebouncedSave, ArmRetry
  <1>7. OwnDocumentUnlessCrossed'
    BY DEF HookInv, OwnDocumentUnlessCrossed, OwnDocument
  <1>8. QED
    BY <1>3, <1>4, <1>5, <1>6, <1>7

LEMMA HookStep == HookInv /\ [Next]_vars => HookInv'
  <1> SUFFICES ASSUME HookInv, [Next]_vars
               PROVE  /\ OneSaveAtATime' /\ QuietWhenUnmounted' /\ IndicatorTruth'
                      /\ BufferBelongsToView' /\ WorkIsForView'
                      /\ OwnDocumentUnlessCrossed'
    BY TypeStep DEF HookInv
  <1> DEFINE Goal ==
                /\ OneSaveAtATime' /\ QuietWhenUnmounted' /\ IndicatorTruth'
                /\ BufferBelongsToView' /\ WorkIsForView'
                /\ OwnDocumentUnlessCrossed'
  <1>1. CASE Type
    <2>1. [doc |-> view, rev |-> typed[view] + 1] \in Payload
      BY <1>1, Constants DEF Type, HookInv, TypeOK, Payload
    <2>2. QED
      BY <1>1, <2>1, PayloadEffectWork DEF Type, viewVars
  <1>2. ASSUME NEW d \in Doc, Load(d) PROVE Goal
    <2>1. [doc |-> d, rev |-> 0] \in Payload
      BY Constants DEF Payload
    <2>2. CASE view = d /\ seededFor # d
      BY <1>2, <2>1, <2>2, PayloadEffectWork DEF Load
    <2>3. CASE ~(view = d /\ seededFor # d)
      BY <1>2, <2>3 DEF Load, timerVars, HookInv, OneSaveAtATime,
                        QuietWhenUnmounted, IndicatorTruth, BufferBelongsToView,
                        WorkIsForView, OwnDocumentUnlessCrossed, OwnDocument
    <2>4. QED
      BY <2>2, <2>3
  <1>3. ASSUME NEW d \in Doc \cup {NoDoc}, SwitchView(d) PROVE Goal
    <2>1. OneSaveAtATime' /\ QuietWhenUnmounted' /\ IndicatorTruth'
      BY <1>3 DEF SwitchView, HookInv, OneSaveAtATime, QuietWhenUnmounted,
                  IndicatorTruth
    <2>2. BufferBelongsToView'
      <3>1. d \in Doc => [doc |-> d, rev |-> 0] # NoPayload
        BY Constants DEF Payload
      <3>2. baselineSet' => d \in loaded /\ seededFor # d
        BY <1>3 DEF SwitchView, ResetBaseline
      <3>3. loaded \subseteq Doc
        BY DEF HookInv, TypeOK
      <3>4. QED
        BY <1>3, <3>1, <3>2, <3>3 DEF SwitchView, BufferBelongsToView
    <2>3. WorkIsForView'
      BY <1>3 DEF SwitchView, WorkIsForView
    <2>4. OwnDocumentUnlessCrossed'
      <3>1. ~crossed' => ~crossed /\ mounted
        BY <1>3 DEF SwitchView
      <3>2. ~crossed /\ debounce # NoDoc => buffer.doc = debounce
        BY <1>3 DEF SwitchView, HookInv, WorkIsForView, BufferBelongsToView
      <3>3. QED
        BY <1>3, <3>1, <3>2 DEF SwitchView, FlushDebounce, Flushed, HookInv,
                                OwnDocumentUnlessCrossed, OwnDocument
    <2>5. QED
      BY <2>1, <2>2, <2>3, <2>4
  <1>4. ASSUME UNCHANGED <<view, buffer, hookVars, runs, flushes, crossed>>
        PROVE  Goal
    BY <1>4 DEF hookVars, timerVars, HookInv, OneSaveAtATime,
                QuietWhenUnmounted, IndicatorTruth, BufferBelongsToView,
                WorkIsForView, OwnDocumentUnlessCrossed, OwnDocument
  <1>16. ASSUME NEW kind, Resolve(kind) PROVE Goal
    BY <1>4, <1>16 DEF Resolve, viewVars, worldVars
  <1>17. ASSUME NEW q, OverwriteEnds(q) PROVE Goal
    BY <1>4, <1>17 DEF OverwriteEnds, viewVars
  <1>18. ASSUME NEW q \in resolving, ReloadEnds(q) PROVE Goal
    <2>1. CASE mounted /\ view \in Doc
      <3> DEFINE rev == IF view = q.fn THEN typed[view] + 1 ELSE 0
      <3>1. rev \in 0..MaxRev
        <4>1. typed[view] \in 0..MaxRev
          BY <2>1 DEF HookInv, TypeOK
        <4>2. QED
          BY <1>18, <2>1, <4>1, Constants DEF ReloadEnds
      <3>2. PayloadEffect([doc |-> view, rev |-> rev], FALSE)
        BY <1>18, <2>1 DEF ReloadEnds
      <3> HIDE DEF rev
      <3>3. [doc |-> view, rev |-> rev] \in Payload
        BY <2>1, <3>1 DEF Payload
      <3>4. QED
        BY <1>18, <2>1, <3>2, <3>3, PayloadEffectWork DEF ReloadEnds, viewVars
    <2>2. CASE ~(mounted /\ view \in Doc)
      BY <1>4, <1>18, <2>2 DEF ReloadEnds, viewVars, hookVars, timerVars
    <2>3. QED
      BY <2>1, <2>2
  <1>5. CASE Unmount
    BY <1>5 DEF Unmount, pageVars, viewVars, worldVars, HookInv, OneSaveAtATime,
                QuietWhenUnmounted, IndicatorTruth, BufferBelongsToView,
                WorkIsForView, OwnDocumentUnlessCrossed, OwnDocument
  <1>6. CASE Mount
    <2>1. OneSaveAtATime' /\ QuietWhenUnmounted' /\ IndicatorTruth'
             /\ BufferBelongsToView' /\ WorkIsForView'
      BY <1>6 DEF Mount, HookInv, OneSaveAtATime, QuietWhenUnmounted,
                  IndicatorTruth, BufferBelongsToView, WorkIsForView
    <2>2. OwnDocumentUnlessCrossed'
      BY <1>6 DEF Mount, HookInv, OwnDocumentUnlessCrossed, OwnDocument
    <2>3. QED
      BY <2>1, <2>2
  <1>7. CASE UnloadFlush
    <2>1. ~crossed => PendingPayload.doc = view
      BY <1>7 DEF UnloadFlush, PendingPayload, HookInv, BufferBelongsToView
    <2>2. OwnDocumentUnlessCrossed'
      BY <1>7, <2>1 DEF UnloadFlush, HookInv, OwnDocumentUnlessCrossed, OwnDocument
    <2>3. QED
      BY <1>7, <2>2 DEF UnloadFlush, pageVars, viewVars, hookVars, timerVars, HookInv,
                        OneSaveAtATime, QuietWhenUnmounted, IndicatorTruth,
                        BufferBelongsToView, WorkIsForView
  <1>8. CASE DebounceFires
    <2>1. mounted /\ ~savingRef /\ retry = NoDoc /\ debounce \in Doc
      BY <1>8 DEF DebounceFires, HookInv, QuietWhenUnmounted, OneSaveAtATime,
                  TypeOK
    <2>2. ~crossed => debounce = view /\ baselineSet
      BY <1>8, <2>1 DEF DebounceFires, HookInv, WorkIsForView
    <2>3. ~retryShown
      BY <2>1 DEF HookInv, IndicatorTruth
    <2>4. QED
      BY <1>8, <2>1, <2>2, <2>3, RunSaveWork DEF DebounceFires, pageVars,
                                                      viewVars
  <1>9. CASE RetryFires
    <2>1. mounted /\ ~savingRef /\ debounce = NoDoc /\ retry \in Doc
      BY <1>9 DEF RetryFires, HookInv, QuietWhenUnmounted, OneSaveAtATime,
                  TypeOK
    <2>2. ~crossed => retry = view /\ baselineSet
      BY <1>9, <2>1 DEF RetryFires, HookInv, WorkIsForView
    <2>3. QED
      BY <1>9, <2>1, <2>2, RunSaveWork DEF RetryFires, pageVars, viewVars
  <1>10. ASSUME NEW r \in runs, ~mounted, runs' = runs \ {r},
                UNCHANGED <<timerVars, mounted, savingRef, view, buffer,
                            baselineSet, flushes, crossed>>
         PROVE  Goal
    BY <1>10 DEF timerVars, HookInv, OneSaveAtATime, QuietWhenUnmounted,
                 IndicatorTruth, BufferBelongsToView, WorkIsForView,
                 OwnDocumentUnlessCrossed, OwnDocument
  <1>11. ASSUME NEW r \in runs, SaveResolves(r) PROVE Goal
    <2>1. CASE mounted
      BY <1>11, <2>1, SettleWork DEF SaveResolves, pageVars, viewVars,
                                         HookInv, TypeOK
    <2>2. CASE ~mounted
      BY <1>10, <1>11, <2>2 DEF SaveResolves, pageVars, viewVars
    <2>3. QED
      BY <2>1, <2>2
  <1>12. ASSUME NEW r \in runs, SaveRejects(r) PROVE Goal
    <2>1. CASE mounted
      BY <1>12, <2>1, SettleWork DEF SaveRejects, viewVars, HookInv, TypeOK
    <2>2. CASE ~mounted
      BY <1>10, <1>12, <2>2 DEF SaveRejects, viewVars
    <2>3. QED
      BY <2>1, <2>2
  <1>13. ASSUME NEW f \in flushes, FlushEnds(f) PROVE Goal
    BY <1>13 DEF FlushEnds, viewVars, hookVars, timerVars, HookInv,
                 OneSaveAtATime, QuietWhenUnmounted, IndicatorTruth,
                 BufferBelongsToView, WorkIsForView, OwnDocumentUnlessCrossed,
                 OwnDocument
  <1>14. CASE UNCHANGED vars
    BY <1>4, <1>14 DEF vars, pageVars, viewVars, worldVars
  <1>15. QED
    BY <1>1, <1>2, <1>3, <1>5, <1>6, <1>7, <1>8, <1>9, <1>11, <1>12, <1>13,
       <1>14, <1>16, <1>17, <1>18 DEF Next

LEMMA HookInvariant == Spec => []HookInv
  BY HookInit, HookStep, PTL DEF Spec

(* Whatever the order of keystrokes, timers, draft switches, remounts and   *)
(* settlements, one editor never has two saves of its own in flight, nor a  *)
(* timer armed under one: savingRef tells the truth.                        *)
THEOREM SingleSave == Spec => []OneSaveAtATime
  BY HookInvariant, PTL DEF HookInv

(* The hook holds a baseline only for a body of the viewed draft, which is  *)
(* what lets EditorPage's unload flush address the body to that draft.      *)
THEOREM BufferOwned == Spec => []BufferBelongsToView
  BY HookInvariant, PTL DEF HookInv

(* As long as no reset happened under an awaited save, no save, retry,      *)
(* follow-up or flush carries a body of one draft to another.               *)
THEOREM OwnDocumentCorrect == Spec => []OwnDocumentUnlessCrossed
  BY HookInvariant, PTL DEF HookInv

(* The indicator shows "retrying" exactly while a retry is armed, and       *)
(* "saving" exactly while a save is awaited.                                *)
THEOREM IndicatorCorrect == Spec => []IndicatorTruth
  BY HookInvariant, PTL DEF HookInv

(* A conflict stops saving: no step of a suspended editor starts a save.    *)
THEOREM SuspensionHolds == Spec => NoSaveWhileSuspended
  <1>1. [Next]_vars => [suspended => runs' \subseteq runs]_vars
    BY DEF Next, vars, worldVars, hookVars, Type, Load, SwitchView, Resolve,
           OverwriteEnds, ReloadEnds, Unmount, Mount, UnloadFlush, DebounceFires, RetryFires,
           RunSave, SaveResolves, SaveRejects, FlushEnds
  <1>2. QED
    BY <1>1, PTL DEF Spec, NoSaveWhileSuspended

-----------------------------------------------------------------------------
(* No edit is lost while the drafts are at hand in the query cache, which   *)
(* is the instance the run checks: a draft viewed before its body has come  *)
(* is where the hook forgets its baseline.  The argument: a viewed draft's  *)
(* body is always in the buffer, no revision anywhere is newer than the     *)
(* draft's, and whatever is armed or awaited works on the newest one, or a  *)
(* follow-up is noted; so that when onSaved deletes the local record, the   *)
(* server has just got the newest text.                                     *)

(* The viewed draft's body has been put into the buffer. *)
Seated == mounted => seededFor = view /\ (view \in Doc => baselineSet)

Fits(p) == p.rev <= typed[p.doc]

(* No copy is newer than what was typed. *)
RevsFit ==
    /\ buffer # NoPayload => Fits(buffer)
    /\ lastSaved # NoPayload => Fits(lastSaved)
    /\ \A c \in runs \cup flushes \cup resolving : Fits(c.payload)
    /\ \A d \in Doc : landed[d] <= typed[d]

(* What is armed, awaited or being resolved is about the newest text. *)
WorkIsLatest ==
    ~crossed =>
        /\ debounce # NoDoc \/ retry # NoDoc \/ runs # {}
              => buffer # NoPayload /\ buffer.rev = typed[view]
        /\ \A r \in runs : r.payload = buffer \/ followup
        /\ \A q \in resolving : q.fn = view

EditInv ==
    /\ loaded = Doc
    /\ Seated
    /\ RevsFit
    /\ WorkIsLatest
    /\ EditSafeUnlessCrossed

LEMMA EditInit == Cached = Doc /\ Init => EditInv
  BY Constants DEF Init, EditInv, Seated, RevsFit, WorkIsLatest,
                   EditSafeUnlessCrossed

(* The server's copy only grows, and not beyond what was typed.             *)
LEMMA AcceptedGrows ==
    ASSUME TypeOK, RevsFit, NEW c, c.fn \in Doc, c.payload \in Payload, Fits(c.payload),
           NEW d \in Doc
    PROVE  landed[d] <= Accepted(c)[d] /\ Accepted(c)[d] <= typed[d]
  <1>1. /\ c.payload.rev \in Nat /\ typed[d] \in Nat /\ landed[d] \in Nat
        /\ landed[d] <= typed[d]
    BY DEF TypeOK, Payload, RevsFit
  <1>2. CASE c.payload.doc = c.fn /\ c.payload.rev > landed[c.fn] /\ d = c.fn
    <2>1. Accepted(c)[d] = c.payload.rev
      BY <1>2 DEF Accepted, TypeOK
    <2>2. c.payload.rev <= typed[d]
      BY <1>2 DEF Fits
    <2>3. landed[d] <= c.payload.rev
      BY <1>1, <1>2
    <2>4. QED
      BY <2>1, <2>2, <2>3
  <1>3. CASE ~(c.payload.doc = c.fn /\ c.payload.rev > landed[c.fn] /\ d = c.fn)
    <2>1. Accepted(c)[d] = landed[d]
      BY <1>3 DEF Accepted, TypeOK
    <2>2. QED
      BY <1>1, <2>1
  <1>4. QED
    BY <1>2, <1>3

(* A step that types nothing and deletes no local record is safe.           *)
LEMMA GrowingIsSafe ==
    ASSUME TypeOK, RevsFit, EditSafeUnlessCrossed, UNCHANGED <<typed, local>>,
           crossed => crossed', landed' \in [Doc -> 0..MaxRev],
           \A d \in Doc : landed[d] <= landed'[d] /\ landed'[d] <= typed[d]
    PROVE  EditSafeUnlessCrossed'
  <1> SUFFICES ASSUME ~crossed, NEW d \in Doc
               PROVE  typed[d] \in {landed'[d], local[d]}
    BY DEF EditSafeUnlessCrossed
  <1>1. typed[d] \in Nat /\ landed[d] \in Nat /\ landed'[d] \in Nat
    BY DEF TypeOK
  <1>2. typed[d] = landed[d] \/ typed[d] = local[d]
    BY DEF EditSafeUnlessCrossed
  <1>3. landed[d] <= landed'[d] /\ landed'[d] <= typed[d]
    OBVIOUS
  <1>4. QED
    BY <1>1, <1>2, <1>3

(* A new text enters the buffer of a draft whose baseline is set: it goes   *)
(* into the local record, and a save under way is followed up.              *)
LEMMA NewText ==
    ASSUME HookInv, EditInv, mounted, view \in Doc, NEW held,
           typed[view] + 1 <= MaxRev,
           typed' = [typed EXCEPT ![view] = typed[view] + 1],
           PayloadEffect([doc |-> view, rev |-> typed[view] + 1], held),
           landed' \in {landed, [landed EXCEPT ![view] = typed[view] + 1]},
           resolving' \subseteq resolving,
           UNCHANGED <<viewVars, mounted, savingRef, runs, flushes, crossed>>
    PROVE  EditInv'
  <1> DEFINE n == typed[view] + 1
  <1>0. /\ typed \in [Doc -> 0..MaxRev] /\ landed \in [Doc -> 0..MaxRev]
        /\ local \in [Doc -> 0..MaxRev] /\ typed[view] \in Nat /\ MaxRev \in Nat
    BY Constants DEF HookInv, TypeOK
  <1>1. baselineSet /\ seededFor = view /\ loaded = Doc
    BY DEF EditInv, Seated
  <1>2. [doc |-> view, rev |-> n] # lastSaved
    <2> SUFFICES ASSUME lastSaved = [doc |-> view, rev |-> n] PROVE FALSE
      OBVIOUS
    <2>1. [doc |-> view, rev |-> n] \in Payload
      BY <1>0 DEF Payload
    <2>2. lastSaved # NoPayload
      BY <2>1, Constants
    <2>3. n <= typed[view]
      BY <2>2 DEF EditInv, RevsFit, Fits
    <2>4. QED
      BY <1>0, <2>3
  <1>3. /\ buffer' = [doc |-> view, rev |-> n]
        /\ baselineSet' = baselineSet /\ lastSaved' = lastSaved
        /\ local' = [local EXCEPT ![view] = n]
        /\ savingRef => followup'
    BY <1>1, <1>2 DEF PayloadEffect, PersistDirty
  <1>4. typed'[view] = n /\ local'[view] = n
    BY <1>0, <1>3
  <1>5. \A d \in Doc : /\ d # view => typed'[d] = typed[d] /\ local'[d] = local[d]
                                       /\ landed'[d] = landed[d]
                       /\ typed[d] <= typed'[d]
                       /\ typed[d] \in Nat /\ typed'[d] \in Nat
                       /\ landed'[d] <= typed'[d]
    BY <1>0, <1>3 DEF EditInv, RevsFit
  <1> HIDE DEF n
  <1>6. \A p \in Payload : Fits(p) => Fits(p)'
    <2> SUFFICES ASSUME NEW p \in Payload, Fits(p) PROVE p.rev <= typed'[p.doc]
      BY DEF Fits
    <2>1. p.doc \in Doc /\ p.rev \in Nat
      BY DEF Payload
    <2>2. p.rev <= typed[p.doc]
      BY DEF Fits
    <2>3. QED
      BY <1>5, <2>1, <2>2
  <1>7. RevsFit'
    <2>1. Fits(buffer)'
      BY <1>3, <1>4, <1>5 DEF Fits
    <2>2. (lastSaved # NoPayload => Fits(lastSaved))'
      BY <1>3, <1>6 DEF EditInv, RevsFit, HookInv, TypeOK, Fits
    <2>3. \A c \in (runs \cup flushes \cup resolving)' : Fits(c.payload)'
      <3>1. \A c \in runs \cup flushes \cup resolving :
                 c.payload \in Payload /\ Fits(c.payload)
        BY DEF EditInv, RevsFit, HookInv, TypeOK, Run, Call, Resolution
      <3>2. QED
        BY <1>6, <3>1
    <2>4. QED
      BY <1>5, <2>1, <2>2, <2>3 DEF RevsFit, Fits
  <1>8. WorkIsLatest'
    <2>1. buffer' # NoPayload
      <3>1. [doc |-> view, rev |-> n] \in Payload
        BY <1>0 DEF Payload, n
      <3>2. QED
        BY <1>3, <3>1, Constants
    <2>2. runs # {} => followup'
      BY <1>3 DEF HookInv, OneSaveAtATime
    <2>3. \A q \in resolving' : ~crossed' => q.fn = view'
      BY DEF EditInv, WorkIsLatest, viewVars
    <2>4. QED
      BY <1>3, <1>4, <2>1, <2>2, <2>3 DEF WorkIsLatest, viewVars
  <1>9. EditSafeUnlessCrossed'
    BY <1>4, <1>5 DEF EditInv, EditSafeUnlessCrossed
  <1>10. QED
    BY <1>1, <1>3, <1>7, <1>8, <1>9 DEF EditInv, Seated, viewVars

(* A save that starts carries the newest text.                              *)
LEMMA RunSaveLatest ==
    ASSUME HookInv, EditInv, NEW fn \in Doc, debounce # NoDoc \/ retry # NoDoc,
           RunSave(fn), debounce' = NoDoc, retry' = NoDoc,
           UNCHANGED <<pageVars, mounted, baselineSet, lastSaved, followup,
                       flushes, landed, local, crossed>>
    PROVE  EditInv'
  <1>1. \A r \in runs' : r \in runs \/ (r.payload = buffer /\ buffer # NoPayload)
    BY DEF RunSave, RunOf
  <1>2. RevsFit'
    BY <1>1 DEF EditInv, RevsFit, Fits, pageVars, viewVars
  <1>3. WorkIsLatest'
    BY <1>1 DEF EditInv, WorkIsLatest, pageVars, viewVars
  <1>4. QED
    BY <1>2, <1>3 DEF EditInv, Seated, EditSafeUnlessCrossed, pageVars, viewVars

(* The end of a call leaves texts and view alone, and the server's copy     *)
(* grows at most.                                                           *)
LEMMA EndsKeepRevs ==
    ASSUME HookInv, EditInv, NEW c, c.fn \in Doc, c.payload \in Payload, Fits(c.payload),
           landed' = landed \/ landed' = Accepted(c),
           UNCHANGED <<typed, buffer, loaded, seededFor, view, mounted, baselineSet, crossed>>,
           lastSaved' = lastSaved \/ lastSaved' = c.payload,
           runs' \subseteq runs, flushes' \subseteq flushes, resolving' \subseteq resolving
    PROVE  /\ loaded' = Doc /\ Seated' /\ RevsFit'
           /\ local' = local => EditSafeUnlessCrossed'
  <1>1. \A d \in Doc : landed[d] <= landed'[d] /\ landed'[d] <= typed[d]
    BY AcceptedGrows DEF HookInv, EditInv, TypeOK, RevsFit
  <1>2. landed' \in [Doc -> 0..MaxRev]
    BY AcceptedType DEF HookInv, TypeOK
  <1>3. RevsFit'
    BY <1>1 DEF EditInv, RevsFit, Fits
  <1>4. local' = local => EditSafeUnlessCrossed'
    BY <1>1, <1>2, GrowingIsSafe DEF HookInv, EditInv
  <1>5. QED
    BY <1>3, <1>4 DEF EditInv, Seated

LEMMA EditStep == HookInv /\ EditInv /\ [Next]_vars => EditInv'
  <1> SUFFICES ASSUME HookInv, EditInv, [Next]_vars PROVE EditInv'
    OBVIOUS
  <1> USE DEF viewVars
  <1>0. /\ TypeOK /\ RevsFit /\ loaded = Doc /\ RevsFit /\ TypeOK'
    BY HookStep DEF HookInv, EditInv
  <1>1. CASE Type
    <2>1. typed[view] + 1 <= MaxRev
      BY <1>0, <1>1, Constants DEF Type, TypeOK
    <2>2. QED
      BY <1>1, <2>1, NewText DEF Type
  <1>2. ASSUME NEW d \in Doc, Load(d) PROVE EditInv'
    BY <1>0, <1>2 DEF Load
  <1>3. ASSUME NEW d \in Doc \cup {NoDoc}, SwitchView(d) PROVE EditInv'
    <2>1. d \in Doc => seededFor # d
      BY <1>3 DEF SwitchView, EditInv, Seated
    <2>2. seededFor' = d /\ (d \in Doc => baselineSet')
      BY <1>0, <1>3, <2>1 DEF SwitchView, ResetBaseline
    <2>3. /\ buffer' \in {buffer, NoPayload} \/ (d \in Doc /\ buffer' = [doc |-> d, rev |-> 0])
          /\ lastSaved' = NoPayload \/ (d \in Doc /\ lastSaved' = [doc |-> d, rev |-> 0])
      BY <1>0, <1>3 DEF SwitchView, ResetBaseline
    <2>4. \A e \in Doc : typed[e] \in Nat /\ 0 <= typed[e]
      BY <1>0 DEF TypeOK
    <2>5. \A f \in flushes' : f \in flushes \/ (f.payload = buffer /\ buffer # NoPayload)
      BY <1>3 DEF SwitchView, FlushDebounce, Flushed
    <2>6. RevsFit'
      <3>1. UNCHANGED <<typed, landed, runs, resolving>>
        BY <1>3 DEF SwitchView
      <3>2. (buffer # NoPayload => Fits(buffer))'
        BY <1>0, <2>3, <2>4, <3>1 DEF RevsFit, Fits
      <3>3. (lastSaved # NoPayload => Fits(lastSaved))'
        BY <1>0, <2>3, <2>4, <3>1 DEF RevsFit, Fits
      <3>4. \A c \in (runs \cup flushes \cup resolving)' : Fits(c.payload)'
        BY <1>0, <2>5, <3>1 DEF RevsFit, Fits
      <3>5. QED
        BY <1>0, <3>1, <3>2, <3>3, <3>4 DEF RevsFit
    <2>7. WorkIsLatest'
      BY <1>3 DEF SwitchView, WorkIsLatest
    <2>8. EditSafeUnlessCrossed'
      BY <1>3 DEF SwitchView, EditInv, EditSafeUnlessCrossed
    <2>9. QED
      BY <1>0, <1>3, <2>2, <2>6, <2>7, <2>8 DEF SwitchView, EditInv, Seated
  <1>4. ASSUME NEW kind, Resolve(kind) PROVE EditInv'
    <2>1. UNCHANGED <<viewVars, buffer, suspended, typed, hookVars, worldVars>>
      BY <1>4 DEF Resolve
    <2>2. /\ buffer # NoPayload
          /\ \A q \in resolving' : q.fn = view /\ q.payload = buffer
      BY <1>4 DEF Resolve
    <2>3. RevsFit'
      BY <1>0, <2>1, <2>2 DEF RevsFit, Fits, hookVars, worldVars
    <2>4. WorkIsLatest'
      BY <2>1, <2>2 DEF EditInv, WorkIsLatest, hookVars, worldVars, timerVars
    <2>5. QED
      BY <2>1, <2>3, <2>4 DEF EditInv, Seated, EditSafeUnlessCrossed, hookVars, worldVars
  <1>5. ASSUME NEW q \in resolving, OverwriteEnds(q) PROVE EditInv'
    <2>1. q.fn \in Doc /\ q.payload \in Payload /\ Fits(q.payload)
      BY <1>0 DEF TypeOK, Resolution, RevsFit
    <2>2. /\ landed' = landed \/ landed' = Accepted(q)
          /\ resolving' = {}
          /\ UNCHANGED <<viewVars, buffer, typed, hookVars, runs, flushes, local, crossed>>
      BY <1>5 DEF OverwriteEnds
    <2>3. WorkIsLatest'
      BY <2>2 DEF EditInv, WorkIsLatest, hookVars, timerVars
    <2>4. QED
      BY <2>1, <2>2, <2>3, EndsKeepRevs DEF EditInv, hookVars
  <1>6. ASSUME NEW q \in resolving, ReloadEnds(q) PROVE EditInv'
    <2>1. CASE mounted /\ view \in Doc /\ view = q.fn
      <3>1. typed[view] + 1 <= MaxRev
        BY <1>6, <2>1 DEF ReloadEnds
      <3>2. QED
        BY <1>6, <2>1, <3>1, NewText DEF ReloadEnds
    <2>2. CASE mounted /\ view \in Doc /\ view # q.fn
      <3>0. PICK p : p = [doc |-> view, rev |-> 0]
        OBVIOUS
      <3>1. crossed /\ crossed'
        BY <1>6, <2>2 DEF ReloadEnds, EditInv, WorkIsLatest
      <3>2. PayloadEffect(p, FALSE) /\ UNCHANGED <<typed, landed, runs, flushes>> /\ resolving' = {}
        BY <1>6, <2>2, <3>0 DEF ReloadEnds
      <3>3. buffer' = p /\ baselineSet' /\ lastSaved' \in {lastSaved, p}
        BY <3>2 DEF PayloadEffect, EditInv
      <3>4. p.rev <= typed[p.doc]
        BY <1>0, <2>2, <3>0 DEF TypeOK
      <3>5. RevsFit'
        <4>1. Fits(buffer)' /\ (lastSaved # NoPayload => Fits(lastSaved))'
          BY <1>0, <3>2, <3>3, <3>4 DEF RevsFit, Fits
        <4>2. \A c \in (runs \cup flushes \cup resolving)' : Fits(c.payload)'
          BY <1>0, <3>2 DEF RevsFit, Fits
        <4>3. QED
          BY <1>0, <3>2, <4>1, <4>2 DEF RevsFit
      <3>6. QED
        BY <1>6, <3>1, <3>3, <3>5 DEF ReloadEnds, EditInv, Seated, WorkIsLatest,
                                      EditSafeUnlessCrossed
    <2>3. CASE ~(mounted /\ view \in Doc)
      <3>1. /\ resolving' = {}
            /\ UNCHANGED <<buffer, typed, landed, baselineSet, lastSaved, timerVars, followup,
                           local>>
            /\ UNCHANGED <<viewVars, mounted, runs, flushes, crossed>>
        BY <1>6, <2>3 DEF ReloadEnds
      <3>2. RevsFit' /\ WorkIsLatest'
        BY <1>0, <3>1 DEF RevsFit, Fits, EditInv, WorkIsLatest, timerVars
      <3>3. QED
        BY <3>1, <3>2 DEF EditInv, Seated, EditSafeUnlessCrossed
    <2>4. QED
      BY <2>1, <2>2, <2>3
  <1>7. CASE Unmount
    <2>1. /\ debounce' = NoDoc /\ retry' = NoDoc /\ ~mounted'
          /\ UNCHANGED <<pageVars, baselineSet, lastSaved, followup, worldVars>>
      BY <1>7 DEF Unmount
    <2>2. RevsFit' /\ WorkIsLatest'
      BY <1>0, <2>1 DEF EditInv, RevsFit, Fits, WorkIsLatest, pageVars, worldVars
    <2>3. QED
      BY <2>1, <2>2 DEF EditInv, Seated, EditSafeUnlessCrossed, pageVars, worldVars
  <1>8. CASE Mount
    <2>1. /\ view' = NoDoc /\ seededFor' = NoDoc /\ buffer' = NoPayload
          /\ lastSaved' = NoPayload /\ runs' = {} /\ resolving' = {}
          /\ UNCHANGED <<loaded, typed, debounce, retry, local, crossed>>
      BY <1>8 DEF Mount
    <2>2. debounce = NoDoc /\ retry = NoDoc
      BY <1>8 DEF Mount, HookInv, QuietWhenUnmounted
    <2>3. \A f \in flushes' : \E c \in flushes \cup runs : f.payload = c.payload
      BY <1>8 DEF Mount
    <2>4. \A d \in Doc : landed[d] <= landed'[d] /\ landed'[d] <= typed[d]
      <3>1. landed' = landed \/ \E q \in resolving : landed' = Accepted(q)
        BY <1>8 DEF Mount
      <3>2. \A q \in resolving : q.fn \in Doc /\ q.payload \in Payload /\ Fits(q.payload)
        BY <1>0 DEF TypeOK, Resolution, RevsFit
      <3>3. \A d \in Doc : landed[d] <= landed[d] /\ landed[d] <= typed[d]
        BY <1>0 DEF TypeOK, RevsFit
      <3>4. QED
        BY <1>0, <3>1, <3>2, <3>3, AcceptedGrows
    <2>5. RevsFit'
      <3>1. \A f \in flushes' : Fits(f.payload)'
        BY <1>0, <2>1, <2>3 DEF RevsFit, Fits
      <3>2. QED
        BY <2>1, <2>4, <3>1 DEF RevsFit
    <2>6. EditSafeUnlessCrossed'
      BY <1>0, <2>1, <2>4, GrowingIsSafe DEF EditInv, TypeOK
    <2>7. QED
      BY <1>0, <2>1, <2>2, <2>5, <2>6, Constants DEF EditInv, Seated, WorkIsLatest
  <1>9. CASE UnloadFlush
    <2>1. /\ PendingPayload = buffer /\ buffer # NoPayload
          /\ flushes' = flushes \cup {[fn |-> view, payload |-> buffer, page |-> FALSE]}
          /\ UNCHANGED <<pageVars, hookVars, runs, landed, local, crossed>>
      BY <1>9 DEF UnloadFlush, PendingPayload
    <2>2. RevsFit' /\ WorkIsLatest'
      BY <1>0, <2>1 DEF EditInv, RevsFit, Fits, WorkIsLatest, pageVars, hookVars, timerVars
    <2>3. QED
      BY <2>1, <2>2 DEF EditInv, Seated, EditSafeUnlessCrossed, pageVars, hookVars
  <1>10. CASE DebounceFires
    <2>1. debounce \in Doc /\ retry = NoDoc
      BY <1>0, <1>10 DEF DebounceFires, TypeOK, HookInv, OneSaveAtATime, QuietWhenUnmounted
    <2>2. QED
      BY <1>10, <2>1, RunSaveLatest DEF DebounceFires
  <1>11. CASE RetryFires
    <2>1. retry \in Doc /\ debounce = NoDoc
      BY <1>0, <1>11 DEF RetryFires, TypeOK, HookInv, OneSaveAtATime, QuietWhenUnmounted
    <2>2. QED
      BY <1>11, <2>1, RunSaveLatest DEF RetryFires
  <1>12. ASSUME NEW r \in runs PROVE r.fn \in Doc /\ r.payload \in Payload /\ Fits(r.payload)
    BY <1>0, <1>12 DEF TypeOK, Run, RevsFit
  <1>13. ASSUME NEW r \in runs, runs' = runs \ {r}, mounted PROVE runs' = {}
    BY <1>13 DEF HookInv, OneSaveAtATime
  <1>14. ASSUME NEW r \in runs, SaveResolves(r) PROVE EditInv'
    <2>1. /\ landed' = Accepted(r) /\ lastSaved' = r.payload /\ runs' = runs \ {r}
          /\ UNCHANGED <<pageVars, mounted, baselineSet, flushes, crossed>>
      BY <1>14 DEF SaveResolves
    <2>2. loaded' = Doc /\ Seated' /\ RevsFit' /\ (local' = local => EditSafeUnlessCrossed')
      BY <1>12, <2>1, EndsKeepRevs DEF pageVars
    <2>3. WorkIsLatest'
      <3>1. CASE mounted
        <4>1. runs' = {}
          BY <1>13, <2>1, <3>1
        <4>2. QED
          BY <2>1, <4>1 DEF EditInv, WorkIsLatest, pageVars
      <3>2. CASE ~mounted
        <4>1. UNCHANGED <<timerVars, followup>>
          BY <1>14, <3>2 DEF SaveResolves
        <4>2. QED
          BY <2>1, <4>1 DEF EditInv, WorkIsLatest, pageVars, timerVars
      <3>3. QED
        BY <3>1, <3>2
    <2>4. EditSafeUnlessCrossed'
      <3>1. CASE mounted /\ ~Outrun(r) /\ ~crossed
        <4>1. local' = [d \in Doc |-> IF d = view THEN 0 ELSE local[d]]
          BY <1>14, <3>1 DEF SaveResolves
        <4>2. r.fn = view /\ baselineSet
          BY <3>1 DEF HookInv, WorkIsForView
        <4>3. buffer # NoPayload /\ buffer.doc = view
          BY <4>2 DEF HookInv, BufferBelongsToView
        <4>4. r.payload = buffer /\ buffer.rev = typed[view]
          BY <3>1, <4>3 DEF EditInv, WorkIsLatest, Outrun
        <4>5. view \in Doc /\ r.payload \in Payload
          BY <1>12, <4>2
        <4>6. landed'[view] = typed[view]
          BY <1>0, <2>1, <4>2, <4>3, <4>4, <4>5 DEF Accepted, RevsFit, TypeOK
        <4>7. \A d \in Doc : d # view => landed'[d] = landed[d] /\ local'[d] = local[d]
          BY <1>0, <2>1, <4>1, <4>2 DEF Accepted, TypeOK
        <4>8. QED
          BY <2>1, <3>1, <4>6, <4>7 DEF EditInv, EditSafeUnlessCrossed, pageVars
      <3>2. CASE crossed
        BY <2>1, <3>2 DEF EditSafeUnlessCrossed
      <3>3. CASE ~mounted \/ Outrun(r)
        <4>1. local' = local
          BY <1>14, <3>3 DEF SaveResolves
        <4>2. QED
          BY <2>2, <4>1
      <3>4. QED
        BY <3>1, <3>2, <3>3
    <2>5. QED
      BY <2>2, <2>3, <2>4 DEF EditInv
  <1>15. ASSUME NEW r \in runs, SaveRejects(r) PROVE EditInv'
    <2>1. /\ landed' = landed \/ landed' = Accepted(r)
          /\ runs' = runs \ {r}
          /\ UNCHANGED <<viewVars, buffer, resolving, typed, mounted, baselineSet, lastSaved,
                         flushes, local, crossed>>
      BY <1>15 DEF SaveRejects, Rejected
    <2>2. loaded' = Doc /\ Seated' /\ RevsFit' /\ EditSafeUnlessCrossed'
      BY <1>12, <2>1, EndsKeepRevs
    <2>3. WorkIsLatest'
      <3>1. CASE mounted
        <4>1. runs' = {}
          BY <1>13, <2>1, <3>1
        <4>2. QED
          BY <2>1, <4>1 DEF EditInv, WorkIsLatest
      <3>2. CASE ~mounted
        <4>1. UNCHANGED <<timerVars, followup>>
          BY <1>15, <3>2 DEF SaveRejects
        <4>2. QED
          BY <2>1, <4>1 DEF EditInv, WorkIsLatest, timerVars
      <3>3. QED
        BY <3>1, <3>2
    <2>4. QED
      BY <2>2, <2>3 DEF EditInv
  <1>16. ASSUME NEW f \in flushes, FlushEnds(f) PROVE EditInv'
    <2>1. f.fn \in Doc /\ f.payload \in Payload /\ Fits(f.payload)
      BY <1>0 DEF TypeOK, Call, RevsFit
    <2>2. /\ landed' = landed \/ landed' = Accepted(f)
          /\ flushes' = flushes \ {f}
          /\ UNCHANGED <<viewVars, buffer, resolving, typed, hookVars, runs, local, crossed>>
      BY <1>16 DEF FlushEnds, Rejected
    <2>3. loaded' = Doc /\ Seated' /\ RevsFit' /\ EditSafeUnlessCrossed'
      BY <2>1, <2>2, EndsKeepRevs DEF hookVars
    <2>4. WorkIsLatest'
      BY <2>2 DEF EditInv, WorkIsLatest, hookVars, timerVars
    <2>5. QED
      BY <2>3, <2>4 DEF EditInv
  <1>17. CASE UNCHANGED vars
    <2>1. UNCHANGED <<pageVars, hookVars, worldVars>>
      BY <1>17 DEF vars
    <2>2. RevsFit' /\ WorkIsLatest'
      BY <1>0, <2>1 DEF EditInv, RevsFit, Fits, WorkIsLatest, pageVars, hookVars, worldVars,
                        timerVars
    <2>3. QED
      BY <2>1, <2>2 DEF EditInv, Seated, EditSafeUnlessCrossed, pageVars, hookVars, worldVars
  <1>18. QED
    BY <1>1, <1>2, <1>3, <1>4, <1>5, <1>6, <1>7, <1>8, <1>9, <1>10, <1>11, <1>14, <1>15,
       <1>16, <1>17 DEF Next

(* With the drafts in the query cache, and no reset under an awaited save   *)
(* or a conflict's resolution, the newest text of every draft is on the     *)
(* server or in the browser's local record, however keystrokes, draft       *)
(* switches, failures, lost answers, conflicts and remounts interleave.     *)
THEOREM EditSafeCorrect == Cached = Doc => (Spec => []EditSafeUnlessCrossed)
  <1> SUFFICES ASSUME Cached = Doc PROVE Spec => []EditSafeUnlessCrossed
    OBVIOUS
  <1>1. Init => EditInv
    BY EditInit
  <1>2. HookInv /\ EditInv /\ [Next]_vars => EditInv'
    BY EditStep
  <1>3. EditInv => EditSafeUnlessCrossed
    BY DEF EditInv
  <1>4. QED
    BY <1>1, <1>2, <1>3, HookInvariant, PTL DEF Spec
=============================================================================
