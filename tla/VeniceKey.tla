----------------------------- MODULE VeniceKey -----------------------------
(***************************************************************************)
(* The user's Venice key as the server keeps it (backend/src/services/     *)
(* venice-key.service.ts, routes/venice-key.routes.ts, venice-account.     *)
(* routes.ts) and as the settings' Venice tab stores, removes, verifies    *)
(* and shows it (frontend/src/components/Settings.tsx: VeniceTab; hooks/   *)
(* useVeniceKey.ts, useVeniceAccount.ts).                                  *)
(*                                                                         *)
(* Endpoint 0 is the default one, and the field that is left blank.        *)
(***************************************************************************)
EXTENDS Naturals

CONSTANTS
    MaxOps,     \* bound: keys saved and removed
    MaxGets,    \* bound: fetches of the status
    MaxProbes,  \* bound: fetches of the account, but for those after a save
    MaxOpens    \* bound: times the tab is opened

Key == 0..2        \* 0: none
Endpoint == 0..1
Row == [key : Key, endpoint : Endpoint]
NoKey == [key |-> 0, endpoint |-> 0]

VARIABLES
    row,       \* veniceApiKeyEnc, veniceEndpoint
    ops,       \* PUTs and DELETEs under way
    made, asked, probes, opened,
    status,    \* the status query's data, or none
    gets,      \* its fetch under way, if any: what it has read, whether it is overtaken
    account,   \* the account query's data, or none: the row probed, whether verified,
    broken,    \* whether its last fetch failed,
    probe,     \* and its fetch under way, if any: the rows read, at most one
    mount,     \* which opening of the tab is mounted, or 0
    keyDraft, endpointDraft, seeded,
    (* history *)
    confirmed, \* what the user was last told is stored
    typed,     \* the key typed and neither stored nor taken away again
    perils

vars == <<row, ops, made, asked, probes, opened, status, gets, account, broken, probe, mount,
          keyDraft, endpointDraft, seeded, confirmed, typed, perils>>
fields == <<keyDraft, endpointDraft, seeded>>
accounts == <<account, broken, probe, probes>>

Op == [n : 1..MaxOps, do : {"put", "delete"}, key : Key, endpoint : Endpoint,
       expect : Endpoint, by : 1..MaxOpens, state : {"sent", "checked", "done"}]
Perils == {"overlap", "unheard", "crossed", "unseeded", "cleared"}

TypeOK ==
    /\ row \in Row /\ confirmed \in Row /\ ops \subseteq Op
    /\ \A x, y \in ops : x.n = y.n => x = y
    /\ made \in 0..MaxOps /\ asked \in 0..MaxGets /\ probes \in 0..MaxProbes
    /\ opened \in 0..MaxOpens /\ mount \in {0, opened}
    /\ status \subseteq Row /\ \A s, t \in status : s = t
    /\ \A g \in gets : g.row \in Row /\ g.old \in BOOLEAN
    /\ \A a, b \in account : a = b /\ a.of \in Row /\ a.verified \in BOOLEAN
    /\ broken \in BOOLEAN /\ probe \subseteq SUBSET Row
    /\ keyDraft \in Key /\ typed \in Key /\ endpointDraft \in Endpoint /\ seeded \in BOOLEAN
    /\ perils \subseteq Perils

Init ==
    /\ row \in {NoKey, [key |-> 1, endpoint |-> 1]}
    /\ ops = {} /\ made = 0 /\ asked = 0 /\ probes = 0 /\ opened = 0
    /\ status = {} /\ gets = {} /\ account = {} /\ broken = FALSE /\ probe = {}
    /\ mount = 0 /\ keyDraft = 0 /\ endpointDraft = 0 /\ seeded = FALSE
    /\ confirmed = row /\ typed = 0 /\ perils = {}

(* getStatus: no key, no endpoint. *)
HasKey(s) == \E r \in s : r.key # 0

(* The effect that seeds the endpoint, once, and not over an edit. *)
SeededBy(s) ==
    IF mount' # 0 /\ ~seeded /\ HasKey(s)
    THEN seeded' = TRUE /\ endpointDraft' = (CHOOSE r \in s : TRUE).endpoint
    ELSE UNCHANGED <<seeded, endpointDraft>>

(* The account is probed anew: what was under way is cancelled. *)
Probing == probe' = {{}}

(* Faulty variant: the account is not asked about again. *)
KeepsAccount == UNCHANGED probe

(* handleSave: invalidateQueries, after the key has been stored. *)
Invalidated == Probing

-----------------------------------------------------------------------------
(* The tab is opened, its queries fetched if they are stale, and closed. *)
Open ==
    /\ mount = 0 /\ opened < MaxOpens /\ opened' = opened + 1 /\ mount' = opened'
    /\ keyDraft' = 0 /\ typed' = 0
    /\ IF HasKey(status)
       THEN seeded' = TRUE /\ endpointDraft' = (CHOOSE r \in status : TRUE).endpoint
       ELSE seeded' = FALSE /\ endpointDraft' = 0
    /\ UNCHANGED <<row, ops, made, asked, status, gets, accounts, confirmed, perils>>

Close ==
    /\ mount # 0 /\ mount' = 0
    /\ UNCHANGED <<row, ops, made, asked, opened, status, gets, accounts, fields, confirmed,
                   typed, perils>>

Type(k) ==
    /\ mount # 0 /\ k # keyDraft /\ keyDraft' = k /\ typed' = k
    /\ UNCHANGED <<row, ops, made, asked, opened, status, gets, accounts, mount, endpointDraft,
                   seeded, confirmed, perils>>

EditEndpoint(e) ==
    /\ mount # 0 /\ e # endpointDraft /\ endpointDraft' = e /\ seeded' = TRUE
    /\ UNCHANGED <<row, ops, made, asked, opened, status, gets, accounts, mount, keyDraft,
                   confirmed, typed, perils>>

-----------------------------------------------------------------------------
Pending(do) == \E x \in ops : x.do = do /\ x.by = mount

Starts(do, k, e, expect) ==
    /\ mount # 0 /\ ~Pending(do) /\ made < MaxOps /\ made' = made + 1
    /\ ops' = ops \cup {[n |-> made', do |-> do, key |-> k, endpoint |-> e, expect |-> expect,
                         by |-> mount, state |-> "sent"]}
    /\ perils' = perils \cup {p \in {"overlap"} : ops # {}}
                        \cup {p \in {"unseeded"} : do = "put" /\ status = {} /\ ~seeded}
    /\ UNCHANGED <<row, asked, opened, status, gets, accounts, mount, fields, confirmed, typed>>

(* handleSave: a blank endpoint is sent as none; a user who has not seen    *)
(* the endpoint expects it to stay.                                         *)
Save ==
    /\ keyDraft # 0
    /\ Starts("put", keyDraft, endpointDraft, IF seeded THEN endpointDraft ELSE confirmed.endpoint)

(* handleRemove *)
Remove == HasKey(status) /\ Starts("delete", 0, 0, 0)

Becomes(x, s) == ops' = (ops \ {x}) \cup {[x EXCEPT !.state = s]}

(* store: validateAgainstVenice comes first, *)
Validate(x) ==
    /\ x.do = "put" /\ x.state = "sent" /\ Becomes(x, "checked")
    /\ UNCHANGED <<row, made, asked, opened, status, gets, accounts, mount, fields, confirmed,
                   typed, perils>>

(* then one update; remove is one update. *)
Write(x) ==
    /\ x.state = IF x.do = "put" THEN "checked" ELSE "sent"
    /\ row' = [key |-> x.key, endpoint |-> x.endpoint] /\ Becomes(x, "done")
    /\ UNCHANGED <<made, asked, opened, status, gets, accounts, mount, fields, confirmed, typed,
                   perils>>

(* Venice refuses the key, or an error, or the answer is lost.  A save's    *)
(* error is shown; a removal's is not.                                      *)
Fail(x) ==
    /\ ops' = ops \ {x}
    /\ perils' = perils \cup {p \in {"unheard"} : x.state = "done"}
    /\ UNCHANGED <<row, made, asked, opened, status, gets, accounts, mount, fields, confirmed,
                   typed>>

(* onSuccess, then the rest of handleSave and handleRemove, which clears    *)
(* the key field of its own tab whatever it holds by then.                  *)
Succeed(x) ==
    /\ x.state = "done" /\ ops' = ops \ {x}
    /\ status' = {[key |-> x.key, endpoint |-> x.endpoint]}
    /\ gets' = {[g EXCEPT !.old = TRUE] : g \in gets}
    /\ confirmed' = [key |-> x.key, endpoint |-> x.expect]
    /\ keyDraft' = IF x.by = mount THEN 0 ELSE keyDraft
    /\ typed' = IF x.by = mount /\ typed = x.key THEN 0 ELSE typed
    /\ perils' = perils \cup {p \in {"cleared"} : x.by = mount /\ keyDraft \notin {0, x.key}}
    /\ UNCHANGED <<row, made, asked, probes, opened, mount, account, broken>> /\ SeededBy(status')
    /\ IF x.do = "put" THEN Invalidated ELSE UNCHANGED probe

-----------------------------------------------------------------------------
(* GET venice-key, one at a time. *)
Get ==
    /\ gets = {} /\ asked < MaxGets /\ asked' = asked + 1
    /\ gets' = {[row |-> row, old |-> FALSE]}
    /\ UNCHANGED <<row, ops, made, opened, status, accounts, mount, fields, confirmed, typed,
                   perils>>

Got(g) ==
    /\ gets' = {} /\ status' = {g.row} /\ UNCHANGED <<mount, keyDraft>> /\ SeededBy(status')
    /\ perils' = perils \cup {p \in {"crossed"} : g.old}
    /\ UNCHANGED <<row, ops, made, asked, opened, accounts, confirmed, typed>>

GetFails ==
    /\ gets # {} /\ gets' = {}
    /\ UNCHANGED <<row, ops, made, asked, opened, status, accounts, mount, fields, confirmed,
                   typed, perils>>

(* The editor's page asks when it is opened, the tab when it finds the      *)
(* answer old, and handleVerify.                                            *)
Verify ==
    /\ probe = {} /\ probes < MaxProbes /\ probes' = probes + 1 /\ Probing
    /\ UNCHANGED <<row, ops, made, asked, opened, status, gets, account, broken, mount, fields,
                   confirmed, typed, perils>>

(* getAccount: the row is read, *)
ProbeReads ==
    /\ probe = {{}} /\ probe' = {{row}}
    /\ UNCHANGED <<row, ops, made, asked, probes, opened, status, gets, account, broken, mount,
                   fields, confirmed, typed, perils>>

(* and Venice asked, if there is a key: it says yes or no (401, 403), *)
Probed(r, yes) ==
    /\ probe = {{r}} /\ probe' = {} /\ (yes => r.key # 0)
    /\ account' = {[of |-> r, verified |-> yes]} /\ broken' = FALSE
    /\ UNCHANGED <<row, ops, made, asked, probes, opened, status, gets, mount, fields, confirmed,
                   typed, perils>>

(* or nothing of use. *)
ProbeFails ==
    /\ probe # {} /\ probe' = {} /\ broken' = TRUE
    /\ UNCHANGED <<row, ops, made, asked, probes, opened, status, gets, account, mount, fields,
                   confirmed, typed, perils>>

Next ==
    \/ Open \/ Close
    \/ \E k \in Key \ {0} : Type(k)
    \/ \E e \in Endpoint : EditEndpoint(e)
    \/ Save \/ Remove
    \/ \E x \in ops : Validate(x) \/ Write(x) \/ Fail(x) \/ Succeed(x)
    \/ Get \/ (\E g \in gets : Got(g)) \/ GetFails
    \/ Verify \/ ProbeReads \/ (\E r \in Row, yes \in BOOLEAN : Probed(r, yes)) \/ ProbeFails

Spec == Init /\ [][Next]_vars

-----------------------------------------------------------------------------
(* verifyPill *)
Pill ==
    IF ~HasKey(status) THEN "idle"
    ELSE IF probe # {} THEN "pending"
    ELSE IF broken THEN "err"
    ELSE IF account = {} THEN "idle"
    ELSE IF \A a \in account : a.verified THEN "ok" ELSE "err"

AtRest == ops = {} /\ gets = {} /\ probe = {}
Beyond(P) == perils \cap P # {}

(* At rest the tab shows the key and the endpoint that are stored, unless   *)
(* operations overlapped, an answer was lost, or one to a fetch came after  *)
(* that of a change; these are what the user was last told is stored,       *)
(* unless a save was sent before the status had arrived and put the default *)
(* endpoint in place of another; "Verified" is said of what is stored, and  *)
(* of nothing it replaced; and a typed key stays in its field until it is   *)
(* stored, unless it was typed while a save or a removal was under way.     *)
KeyPanelTruthful ==
    /\ AtRest /\ ~Beyond({"overlap", "unheard"}) =>
         /\ Beyond({"crossed"}) \/ status \subseteq {row}
         /\ Beyond({"crossed", "unseeded"}) \/ row = confirmed
         /\ Pill = "ok" => Beyond({"crossed"}) \/ \A a \in account : a.of = row
    /\ mount # 0 => Beyond({"cleared"}) \/ keyDraft = typed
=============================================================================
