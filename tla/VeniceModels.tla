---------------------------- MODULE VeniceModels ----------------------------
(***************************************************************************)
(* A user's Venice key and the list of models kept for them (backend/src/  *)
(* services/venice.models.service.ts, venice-key.service.ts, as routes/    *)
(* ai.routes.ts, chat.routes.ts and drafts.routes.ts use them): requests   *)
(* are gated on the list and then make their call with the key in the row. *)
(*                                                                         *)
(* A key stands for itself and its endpoint, which has the list.           *)
(***************************************************************************)
EXTENDS Naturals

CONSTANTS
    TTL,         \* TTL_MS
    MaxNow,      \* bound: the clock
    MaxKeys,     \* bound: keys stored
    MaxRequests  \* bound: requests made

VeniceModelsAssumption == TTL \in Nat /\ MaxNow \in Nat /\ MaxKeys \in Nat

Key == 0..MaxKeys   \* 0: no key
Asking == [n : 1..MaxRequests, pc : {"begun", "asking", "gated"}, key : Key]

VARIABLES
    now,
    key, keys,    \* the row's key, how many there have been
    models,       \* byUser's entry: none, or the list of a key and its instant
    requests,
    made,         \* requests made
    (* history *)
    changed,      \* when the row's key was last written
    late          \* keys whose list was being asked for as the row changed

vars == <<now, key, keys, models, requests, made, changed, late>>

TypeOK ==
    /\ {now, changed} \subseteq 0..MaxNow
    /\ key \in Key /\ keys \in Key /\ key <= keys /\ made \in 0..MaxRequests
    /\ \A m, k \in models : m = k /\ m.key \in 1..keys /\ m.at <= now
    /\ requests \subseteq Asking /\ late \subseteq Key
    /\ \A r, q \in requests : r.n = q.n => r = q

Init ==
    /\ now = 0 /\ key = 0 /\ keys = 0 /\ models = {} /\ requests = {} /\ made = 0
    /\ changed = 0 /\ late = {}

Tick ==
    /\ now < MaxNow /\ now' = now + 1
    /\ UNCHANGED <<key, keys, models, requests, made, changed, late>>

Rekey(k) ==
    /\ key' = k /\ changed' = now
    /\ late' = late \cup {r.key : r \in {q \in requests : q.pc = "asking"}}
    /\ UNCHANGED <<now, models, requests, made>>

(* store, once Venice has accepted the key; remove. *)
Store == keys < MaxKeys /\ keys' = keys + 1 /\ Rekey(keys')
Remove == key # 0 /\ Rekey(0) /\ UNCHANGED keys

Begin ==
    /\ made < MaxRequests /\ made' = made + 1
    /\ requests' = requests \cup {[n |-> made', pc |-> "begun", key |-> 0]}
    /\ UNCHANGED <<now, key, keys, models, changed, late>>

Becomes(r, next) == requests' = (requests \ {r}) \cup next

(* Faulty variant: what is cached is good for ever. *)
EverFresh(m) == TRUE

Fresh(m) == now - m.at < TTL

(* fetchModels: a hit, *)
Hit(r) ==
    /\ r.pc = "begun"
    /\ \E m \in models : Fresh(m) /\ Becomes(r, {[r EXCEPT !.pc = "gated", !.key = m.key]})
    /\ UNCHANGED <<now, key, keys, models, made, changed, late>>

(* a miss, with the row's key or NoVeniceKeyError, *)
Miss(r) ==
    /\ r.pc = "begun" /\ ~\E m \in models : Fresh(m)
    /\ Becomes(r, {q \in {[r EXCEPT !.pc = "asking", !.key = key]} : key # 0})
    /\ UNCHANGED <<now, key, keys, models, made, changed, late>>

(* byUser.set *)
Entry(r) == {[key |-> r.key, at |-> now]}

(* and Venice's answer. *)
Listed(r) ==
    /\ r.pc = "asking" /\ models' = Entry(r)
    /\ Becomes(r, {[r EXCEPT !.pc = "gated"]})
    /\ UNCHANGED <<now, key, keys, made, changed, late>>

Fails(r) ==
    /\ Becomes(r, {})
    /\ UNCHANGED <<now, key, keys, models, made, changed, late>>

(* getClient reads the row; the request is over, or refused. *)
Call(r) == r.pc = "gated" /\ Fails(r)

Next ==
    \/ Tick \/ Store \/ Remove \/ Begin
    \/ \E r \in requests : Hit(r) \/ Miss(r) \/ Listed(r) \/ Call(r) \/ (r.pc = "asking" /\ Fails(r))

Spec == Init /\ [][Next]_vars

-----------------------------------------------------------------------------
(* A request passes the gate with the list of the key in the row, and is    *)
(* refused there when the row has none, unless the row was written less     *)
(* than a TTL ago or the list was being fetched when it was: a key that is  *)
(* changed or removed is not forgotten by the cache ("a missing BYOK key    *)
(* surfaces immediately", ai.routes.ts:73), only outlived.                  *)
GatesByKey ==
    \A r \in requests' \ requests :
        r.pc = "gated" /\ r.key # key => now - changed < TTL \/ r.key \in late
GateFollowsKey == [][GatesByKey]_vars
=============================================================================
