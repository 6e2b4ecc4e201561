----------------------------- MODULE SoftDelete -----------------------------
(***************************************************************************)
(* Deletion with undo of the rows of a list (frontend/src/hooks/           *)
(* useSoftDelete.ts, as ChatSceneTab.tsx and StoryPicker.tsx use it): a    *)
(* row is hidden while its timer runs, the timer sends the DELETE, and the *)
(* row is hidden no longer, whether or not the list has lost it by then.   *)
(***************************************************************************)
EXTENDS Naturals, FiniteSets

CONSTANTS
    Item,
    MaxDeletes,   \* bound: deletions asked for
    MaxMounts     \* bound: times the list is shown

Deletion == [id : Item, n : 1..MaxDeletes]
Call == [id : Item, n : 1..MaxDeletes, state : {"sent", "ok", "failed"}]

VARIABLES
    exists,     \* the server's rows
    list,       \* the cached list
    pending,    \* each row's pending deletion, or 0
    timers,     \* pendingTimersRef, armed
    calls,      \* DELETE requests under way
    mounted, mounts,
    (* history *)
    asked,      \* deletions asked for
    kept,       \* rows the user last wanted to keep
    resurfaced  \* rows shown, and deleted again, while their DELETE was under way

vars == <<exists, list, pending, timers, calls, mounted, mounts, asked, kept, resurfaced>>

TypeOK ==
    /\ {exists, list, kept, resurfaced} \subseteq SUBSET Item
    /\ pending \in [Item -> 0..MaxDeletes]
    /\ timers \subseteq Deletion /\ calls \subseteq Call
    /\ mounted \in BOOLEAN /\ mounts \in 1..MaxMounts /\ asked \in 0..MaxDeletes
    /\ \A c, d \in calls : c.n = d.n => c = d

Init ==
    /\ exists = Item /\ list = Item /\ pending = [i \in Item |-> 0]
    /\ timers = {} /\ calls = {} /\ mounted = TRUE /\ mounts = 1
    /\ asked = 0 /\ kept = Item /\ resurfaced = {}

Shown == {i \in list : pending[i] = 0}

ScheduleDelete(i) ==
    /\ mounted /\ i \in Shown /\ asked < MaxDeletes
    /\ asked' = asked + 1
    /\ pending' = [pending EXCEPT ![i] = asked']
    /\ timers' = timers \cup {[id |-> i, n |-> asked']}
    /\ kept' = kept \ {i}
    /\ resurfaced' = resurfaced \cup {j \in {i} : \E c \in calls : c.id = i}
    /\ UNCHANGED <<exists, list, calls, mounted, mounts>>

(* The timer's callback. *)
Fire(t) ==
    /\ timers' = timers \ {t}
    /\ calls' = calls \cup {[id |-> t.id, n |-> t.n, state |-> "sent"]}
    /\ pending' = [pending EXCEPT ![t.id] = 0]
    /\ UNCHANGED <<exists, list, mounted, mounts, asked, kept, resurfaced>>

(* Faulty variant: the row is shown again, the timer runs on. *)
Forgets(i) == timers

(* clearTimeout of the entry's timer. *)
Cleared(i) == timers \ {[id |-> i, n |-> pending[i]]}

(* The toast is the last pending row's. *)
Undo(i) ==
    /\ pending[i] # 0 /\ \A j \in Item : pending[j] <= pending[i]
    /\ timers' = Cleared(i)
    /\ pending' = [pending EXCEPT ![i] = 0]
    /\ kept' = kept \cup {i}
    /\ UNCHANGED <<exists, list, calls, mounted, mounts, asked, resurfaced>>

Settled(c, state) == (calls \ {c}) \cup {[c EXCEPT !.state = state]}

(* The server: the first DELETE succeeds, a second finds nothing. *)
Serve(c) ==
    /\ c.state = "sent"
    /\ exists' = exists \ {c.id}
    /\ calls' = Settled(c, IF c.id \in exists THEN "ok" ELSE "failed")
    /\ UNCHANGED <<list, pending, timers, mounted, mounts, asked, kept, resurfaced>>

Lose(c) ==
    /\ c.state = "sent"
    /\ calls' = Settled(c, "failed")
    /\ UNCHANGED <<exists, list, pending, timers, mounted, mounts, asked, kept, resurfaced>>

(* The mutation's onSuccess; a failure is nobody's. *)
Answer(c) ==
    /\ c.state # "sent" /\ calls' = calls \ {c}
    /\ list' = IF c.state = "ok" THEN list \ {c.id} ELSE list
    /\ UNCHANGED <<exists, pending, timers, mounted, mounts, asked, kept, resurfaced>>

(* A refetch of the list. *)
Refetch ==
    /\ list' = exists
    /\ UNCHANGED <<exists, pending, timers, calls, mounted, mounts, asked, kept, resurfaced>>

(* The cleanup of the effect. *)
AfterUnmount == {}

(* The panel is closed or the tab left; what was pending is forgotten. *)
Unmount ==
    /\ mounted /\ mounted' = FALSE
    /\ timers' = AfterUnmount
    /\ kept' = kept \cup {i \in Item : pending[i] # 0}
    /\ UNCHANGED <<exists, list, pending, calls, mounts, asked, resurfaced>>

Mount ==
    /\ ~mounted /\ mounts < MaxMounts /\ mounted' = TRUE /\ mounts' = mounts + 1
    /\ pending' = [i \in Item |-> 0]
    /\ UNCHANGED <<exists, list, timers, calls, asked, kept, resurfaced>>

Next ==
    \/ \E i \in Item : ScheduleDelete(i) \/ (mounted /\ Undo(i))
    \/ \E t \in timers : Fire(t)
    \/ \E c \in calls : Serve(c) \/ Lose(c) \/ Answer(c)
    \/ Refetch \/ Unmount \/ Mount

Spec == Init /\ [][Next]_vars

-----------------------------------------------------------------------------
(* A row the user last wanted to keep, by undoing its deletion or by        *)
(* leaving before the timer, is not deleted ("stale API deletes never       *)
(* fire"), unless it was deleted again while an earlier DELETE was under    *)
(* way: the row resurfaces between the timer and the answer.                *)
KeptSurvives == \A i \in kept \ resurfaced : i \in exists

(* Every armed timer can still be stopped: its row is hidden, pending under *)
(* that very timer, in a list that is mounted.                              *)
TimersReachable ==
    /\ \A t \in timers : mounted /\ pending[t.id] = t.n
    /\ \A i \in Item : mounted /\ pending[i] # 0
          => [id |-> i, n |-> pending[i]] \in timers
=============================================================================
