---------------------------- MODULE UserSettings ----------------------------
(***************************************************************************)
(* The user's settings: one JSON column that PATCH reads, merges and       *)
(* writes back (backend/src/routes/user-settings.routes.ts, lib/           *)
(* deep-merge.ts), an optimistic cache that rolls back on an error         *)
(* (frontend/src/hooks/useUserSettings.ts), the document's theme tokens    *)
(* (ThemeApply.tsx, lib/themeApply.ts), and the modal's tabs, each with    *)
(* its own way of making a change (Settings.tsx and Settings*Tab.tsx).     *)
(*                                                                         *)
(* Every way has its setting here.  The models tab has a picker and the    *)
(* overrides of two models, which it sends together.                       *)
(***************************************************************************)
EXTENDS Naturals, FiniteSets

CONSTANTS
    MaxChanges,   \* bound: patches sent
    MaxGets,      \* bound: fetches
    MaxOpens      \* bound: tabs opened

TabOf == [theme |-> "appearance", size |-> "appearance", focusMode |-> "writing",
          goal |-> "writing", prompt |-> "prompts", model |-> "models", entryA |-> "models",
          entryB |-> "models", venicePrompt |-> "venice"]
Setting == DOMAIN TabOf
Slides == {"size", "goal"}               \* a draft, and a debounced PATCH
Toggles == {"focusMode"}                 \* disabled while a change is pending
Model == {"a", "b"}
EntryOf == [a |-> "entryA", b |-> "entryB"]   \* chat.overrides[model]
Themed == {"theme", "size"}              \* mirrored onto the document

(* 0 is the default; a prompt's 0 is null, 1 the built-in text as an        *)
(* override, 2 a text of the user's; the chat's model is null, "a" or "b".  *)
Values(s) == IF s \in {"prompt", "model"} THEN 0..2 ELSE 0..1
Number == [a |-> 1, b |-> 2]
Junk == 3                                \* a goal that is no number
Tree == {t \in [Setting -> 0..2] : \A s \in Setting : t[s] \in Values(s)}
Defaults == [s \in Setting |-> 0]

VARIABLES
    stored,    \* settingsJson
    cache,     \* the query's data, the defaults when there is none
    loaded,    \* whether there is
    patches,   \* changes under way
    gets,      \* fetches answered by the server and not yet here
    latest,    \* the newest change,
    heard,     \* and the one whose callbacks would run, or 0
    fetched, opened,
    tab,       \* the tab mounted, or "none"
    draft,     \* the text or thumb of the drafted settings
    timer,     \* the values of the pending debounces
    focus,     \* the prompt's textarea has the focus
    shown,     \* the document's tokens
    visible,   \* the models the picker lists,
    highlight, \* and the one it shows, or "none"
    (* history *)
    wanted,    \* what the user last chose, and was not told had failed
    perils

vars == <<stored, cache, loaded, patches, gets, latest, heard, fetched, opened, tab, draft,
          timer, focus, shown, visible, highlight, wanted, perils>>
picker == <<visible, highlight>>
page == <<tab, draft, timer, focus, picker>>

Drafted == Slides \cup {"prompt"}
Perils == {"overlap", "unheard", "overtaken", "closed", "unloaded", "dropped", "escaped", "stale"}

TypeOK ==
    /\ {stored, cache, wanted} \subseteq Tree /\ gets \subseteq Tree /\ loaded \in BOOLEAN
    /\ \A p \in patches : p.n \in 1..MaxChanges /\ DOMAIN p.set \subseteq Setting
    /\ \A p, q \in patches : p.n = q.n => p = q
    /\ {latest, heard} \subseteq 0..MaxChanges /\ fetched \in 0..MaxGets /\ opened \in 0..MaxOpens
    /\ tab \in {TabOf[s] : s \in Setting} \cup {"none"} /\ focus \in BOOLEAN
    /\ draft \in [Drafted -> 0..Junk] /\ timer \in [Slides -> SUBSET (0..1)]
    /\ shown \in [Themed -> 0..1] /\ visible \subseteq Model /\ highlight \in Model \cup {"none"}
    /\ perils \subseteq Perils

(* What a row shows when it is mounted: useState(settings...), and          *)
(* PromptRow's override ?? defaultText.                                     *)
Seed(tree) ==
    [s \in Drafted |-> IF s = "prompt" /\ tree[s] = 0 THEN 1 ELSE tree[s]]

(* A row that is from before, all of the defaults but one. *)
Init ==
    /\ stored \in {Defaults} \cup {[Defaults EXCEPT ![s] = 2] : s \in {"prompt", "model"}}
                             \cup {[Defaults EXCEPT !.entryB = 1]}
    /\ cache = Defaults /\ loaded = FALSE /\ patches = {} /\ gets = {}
    /\ latest = 0 /\ heard = 0 /\ fetched = 0 /\ opened = 0
    /\ tab = "none" /\ draft = Seed(cache) /\ timer = [s \in Slides |-> {}] /\ focus = FALSE
    /\ shown = [s \in Themed |-> 0] /\ visible = {} /\ highlight = "none"
    /\ wanted = stored /\ perils = {}

(* deepMerge, mergeSettings: what the patch does not name stays; a leaf and *)
(* a model's overrides are replaced.                                        *)
Merged(tree, set) == [s \in Setting |-> IF s \in DOMAIN set THEN set[s] ELSE tree[s]]

(* The effects after the cache has changed: a slide's draft follows its     *)
(* own value, a prompt's does not while its row is mounted, and ThemeApply  *)
(* repaints every token when one of them is new.                            *)
Reseeded(tree) ==
    [s \in Drafted |-> IF (s \in Slides /\ tree[s] # cache[s]) \/ TabOf[s] # tab
                       THEN Seed(tree)[s] ELSE draft[s]]
Repainted(tree, tokens) ==
    IF \E s \in Themed : tree[s] # cache[s] THEN [s \in Themed |-> tree[s]] ELSE tokens
Unseen(tree) == {p \in {"stale"} : tab = "prompts" /\ tree["prompt"] # cache["prompt"]}

-----------------------------------------------------------------------------
(* useUpdateUserSetting: snapshot, optimistic value, PATCH. *)
Sends(set, undo) ==
    /\ latest < MaxChanges /\ latest' = latest + 1 /\ heard' = latest'
    /\ patches' = patches \cup {[n |-> latest', set |-> set, undo |-> undo, read |-> stored,
                                 state |-> "sent"]}
    /\ perils' = perils \cup {p \in {"overlap"} : patches # {}}
                        \cup {p \in {"overtaken"} : gets # {}}
                        \cup {p \in {"unloaded"} : ~loaded}
    /\ UNCHANGED <<stored, gets, fetched, opened, tab>>

Changes(set) ==
    /\ Sends(set, {cache}) /\ loaded' = TRUE
    /\ cache' = Merged(cache, set) /\ shown' = Repainted(cache', shown)

Chosen(set) == wanted' = Merged(wanted, set)
Pending == \E p \in patches : p.n = heard

(* A change of a value that is at hand: theme tiles, font, *)
Pick(v) ==
    /\ tab = "appearance" /\ v # cache["theme"]
    /\ Changes([x \in {"theme"} |-> v]) /\ Chosen([x \in {"theme"} |-> v])
    /\ draft' = Reseeded(cache') /\ UNCHANGED <<timer, focus, picker>>

(* "Use this model", of the model shown, *)
UseModel ==
    /\ tab = "models" /\ visible # {} /\ cache["model"] # Number[highlight]
    /\ LET set == [x \in {"model"} |-> Number[highlight]] IN Changes(set) /\ Chosen(set)
    /\ draft' = Reseeded(cache') /\ UNCHANGED <<timer, focus, picker>>

(* a toggle of the writing tab, *)
Toggle(s) ==
    /\ tab = TabOf[s] /\ s \in Toggles /\ ~Pending
    /\ LET set == [x \in {s} |-> 1 - cache[s]] IN Changes(set) /\ Chosen(set)
    /\ draft' = Reseeded(cache') /\ UNCHANGED <<timer, focus, picker>>

(* a tick of a slider of the model shown, or a reset, with the overrides of *)
(* the other models as the cache has them (onTemperature, onReset, ...).    *)
Tune(v) ==
    /\ tab = "models" /\ visible # {}
    /\ LET entry == EntryOf[highlight]
           others == {EntryOf[x] : x \in {y \in Model : cache[EntryOf[y]] # 0}}
       IN  /\ v # cache[entry]
           /\ Changes([x \in others \cup {entry} |-> IF x = entry THEN v ELSE cache[x]])
           /\ Chosen([x \in {entry} |-> v])
    /\ draft' = Reseeded(cache') /\ UNCHANGED <<timer, focus, picker>>

(* The model the picker shows: it stays while it is listed; else the one in *)
(* use, when all are listed, or the first.                                  *)
Highlighted(prev, list) ==
    IF list = {} \/ prev \in list THEN prev
    ELSE IF list = Model /\ cache["model"] = 2 THEN "b"
    ELSE IF "a" \in list THEN "a" ELSE "b"

(* The models arrive, or the search lists some of them; a row is clicked. *)
Search(list) ==
    /\ tab = "models" /\ list # visible
    /\ visible' = list /\ highlight' = Highlighted(highlight, list)
    /\ UNCHANGED <<stored, cache, loaded, patches, gets, latest, heard, fetched, opened, tab,
                   draft, timer, focus, shown, wanted, perils>>
Highlight(x) ==
    /\ tab = "models" /\ x \in visible \ {highlight} /\ highlight' = x
    /\ UNCHANGED <<stored, cache, loaded, patches, gets, latest, heard, fetched, opened, tab,
                   draft, timer, focus, shown, visible, wanted, perils>>

(* handleToggleVenicePrompt: nothing optimistic, and only of loaded settings. *)
ToggleVenicePrompt ==
    /\ tab = "venice" /\ loaded /\ ~Pending
    /\ LET set == [x \in {"venicePrompt"} |-> 1 - cache["venicePrompt"]]
       IN  Sends(set, {}) /\ Chosen(set)
    /\ UNCHANGED <<cache, loaded, shown, draft, timer, focus, picker>>

(* handleSizeChange, handleLineHeightChange, handleGoalChange. *)
Slide(s, v) ==
    /\ tab = TabOf[s] /\ v # draft[s]
    /\ draft' = [draft EXCEPT ![s] = v] /\ timer' = [timer EXCEPT ![s] = {v}]
    /\ shown' = [x \in Themed |-> IF x = s THEN v ELSE shown[x]]
    /\ Chosen([x \in {s} |-> v])
    /\ UNCHANGED <<stored, cache, loaded, patches, gets, latest, heard, fetched, opened, tab,
                   focus, picker, perils>>

(* A goal that is no number is shown, and leaves the debounce as it is. *)
Mistype ==
    /\ tab = "writing" /\ draft["goal"] # Junk /\ draft' = [draft EXCEPT !["goal"] = Junk]
    /\ UNCHANGED <<stored, cache, loaded, patches, gets, latest, heard, fetched, opened, tab,
                   timer, focus, picker, shown, wanted, perils>>

(* flushSize, flushLineHeight, flushGoal *)
Flush(s) ==
    /\ \E v \in timer[s] : Changes([x \in {s} |-> v])
    /\ timer' = [timer EXCEPT ![s] = {}] /\ draft' = Reseeded(cache')
    /\ UNCHANGED <<focus, wanted, picker>>

(* PromptRow: handleToggle, *)
Override ==
    /\ tab = "prompts" /\ ~focus
    /\ LET set == [x \in {"prompt"} |-> IF cache["prompt"] = 0 THEN 1 ELSE 0]
       IN  Changes(set) /\ Chosen(set)
    /\ draft' = [draft EXCEPT !["prompt"] = 1] /\ UNCHANGED <<timer, focus, picker>>

(* the textarea of an override, *)
Focus ==
    /\ tab = "prompts" /\ cache["prompt"] # 0 /\ ~focus /\ focus' = TRUE
    /\ UNCHANGED <<stored, cache, loaded, patches, gets, latest, heard, fetched, opened, tab,
                   draft, timer, shown, picker, wanted, perils>>
Type(v) ==
    /\ focus /\ cache["prompt"] # 0 /\ v # draft["prompt"]
    /\ draft' = [draft EXCEPT !["prompt"] = v] /\ Chosen([x \in {"prompt"} |-> v])
    /\ UNCHANGED <<stored, cache, loaded, patches, gets, latest, heard, fetched, opened, tab,
                   timer, focus, shown, picker, perils>>

(* and handleBlur: a blank text is no override. *)
Blur ==
    /\ focus /\ focus' = FALSE /\ UNCHANGED <<timer, wanted, draft, picker>>
    /\ IF cache["prompt"] # 0 /\ draft["prompt"] # cache["prompt"]
       THEN Changes([x \in {"prompt"} |-> draft["prompt"]])
       ELSE UNCHANGED <<stored, cache, loaded, patches, gets, latest, heard, fetched, opened,
                        tab, shown, perils>>

-----------------------------------------------------------------------------
Becomes(p, q) == patches' = (patches \ {p}) \cup {q}

(* PATCH: the row is read, *)
Read(p) ==
    /\ p.state = "sent" /\ Becomes(p, [p EXCEPT !.state = "read", !.read = stored])
    /\ UNCHANGED <<stored, cache, loaded, gets, latest, heard, fetched, opened, page, shown,
                   wanted, perils>>

(* merged and written whole. *)
Write(p) ==
    /\ p.state = "read"
    /\ stored' = Merged(p.read, p.set)
    /\ Becomes(p, [p EXCEPT !.state = "written", !.read = stored'])
    /\ UNCHANGED <<cache, loaded, gets, latest, heard, fetched, opened, page, shown, wanted, perils>>

(* An error of the server or of the network, before or after the write; a   *)
(* prompt of more than 10,000 characters is refused.                        *)
Fail(p) ==
    /\ p.state # "failed" /\ Becomes(p, [p EXCEPT !.state = "failed"])
    /\ perils' = perils \cup {u \in {"unheard"} : p.state = "written"}
    /\ UNCHANGED <<stored, cache, loaded, gets, latest, heard, fetched, opened, page, shown, wanted>>

Arrives(tree) ==
    /\ cache' = tree /\ draft' = Reseeded(tree) /\ shown' = Repainted(tree, shown)
    /\ perils' = perils \cup Unseen(tree)
    /\ UNCHANGED <<stored, latest, heard, fetched, opened, tab, timer, focus, picker>>

(* onSuccess: the answer's tree replaces the cache's. *)
Succeed(p) ==
    /\ p.state = "written" /\ patches' = patches \ {p}
    /\ Arrives(p.read) /\ loaded' = TRUE
    /\ UNCHANGED <<gets, wanted>>

(* Faulty variant: the optimistic value stays. *)
KeepsOptimistic(p) == cache

(* The callbacks given to mutate run for the newest call only, *)
RolledBack(p) == IF p.n = heard /\ p.undo # {} THEN CHOOSE t \in p.undo : TRUE ELSE cache

Reject(p) ==
    /\ p.state = "failed" /\ patches' = patches \ {p}
    /\ Arrives(RolledBack(p))
    /\ wanted' = [s \in Setting |-> IF s \in DOMAIN p.set /\ (s \in Slides => timer[s] = {})
                                    THEN cache'[s] ELSE wanted[s]]
    /\ UNCHANGED <<gets, loaded>>

(* and for none once the tab that made it is closed. *)
Mounts(t) ==
    /\ visible' \in {{}} \cup {x \in {Model} : t = "models"}
    /\ highlight' = Highlighted("none", visible')
    /\ tab' = t /\ heard' = 0 /\ focus' = FALSE
    /\ timer' = [s \in Slides |-> {}] /\ draft' = Seed(cache)
    /\ UNCHANGED <<stored, cache, loaded, patches, gets, latest, fetched, shown, wanted>>
Leaves ==
    {p \in {"closed"} : heard # 0 /\ patches # {}} \cup {p \in {"dropped"} : \E s \in Slides : timer[s] # {}}

(* A tab is opened, in place of another; a click anywhere takes the focus   *)
(* first.                                                                   *)
Open(t) ==
    /\ opened < MaxOpens /\ opened' = opened + 1 /\ t # tab /\ ~focus
    /\ Mounts(t) /\ perils' = perils \cup Leaves
Close == tab # "none" /\ ~focus /\ Mounts("none") /\ perils' = perils \cup Leaves /\ UNCHANGED opened

(* Escape closes the modal with the focus in it, and no blur is heard. *)
Escape ==
    /\ focus /\ Mounts("none")
    /\ perils' = perils \cup Leaves \cup {p \in {"escaped"} : draft["prompt"] # cache["prompt"]}
    /\ UNCHANGED opened

(* GET, with its answer or none. *)
Get ==
    /\ fetched < MaxGets /\ fetched' = fetched + 1 /\ gets' = gets \cup {stored}
    /\ perils' = perils \cup {p \in {"overtaken"} : patches # {}}
    /\ UNCHANGED <<stored, cache, loaded, patches, latest, heard, opened, page, shown, wanted>>
Got(tree) ==
    /\ gets' = gets \ {tree} /\ Arrives(tree) /\ loaded' = TRUE /\ UNCHANGED <<patches, wanted>>
GetFails(tree) ==
    /\ gets' = gets \ {tree}
    /\ UNCHANGED <<stored, cache, loaded, patches, latest, heard, fetched, opened, page, shown,
                   wanted, perils>>

Next ==
    \/ \E v \in 0..1 : Pick(v) \/ Tune(v)
    \/ UseModel \/ \E list \in SUBSET Model : Search(list)
    \/ \E x \in Model : Highlight(x)
    \/ \E s \in Slides, v \in 0..1 : Slide(s, v)
    \/ \E s \in Setting : Toggle(s)
    \/ ToggleVenicePrompt \/ Mistype \/ \E s \in Slides : Flush(s)
    \/ Override \/ Focus \/ Blur \/ \E v \in 0..2 : Type(v)
    \/ \E p \in patches : Read(p) \/ Write(p) \/ Fail(p) \/ Succeed(p) \/ Reject(p)
    \/ \E s \in Setting : Open(TabOf[s])
    \/ Close \/ Escape \/ Get \/ \E tree \in gets : Got(tree) \/ GetFails(tree)

Spec == Init /\ [][Next]_vars

-----------------------------------------------------------------------------
AtRest == patches = {} /\ gets = {} /\ ~focus /\ \A s \in Slides : timer[s] = {}

(* When nothing is under way, the settings shown are the ones stored, the   *)
(* ones stored are the ones chosen, and the page and the tab's fields show  *)
(* them: unless changes overlapped, an answer was lost or its tab had been  *)
(* closed, a fetch crossed a change, a change was made before the settings  *)
(* had loaded or in a prompt's row that is older than its override, a tab   *)
(* was left within a debounce, or Escape closed a prompt ("Changes save     *)
(* automatically · tap outside or press Esc to close", Settings.tsx:182).   *)
SettingsSettle ==
    AtRest =>
      /\ loaded /\ perils \subseteq {"dropped", "escaped", "stale"} => cache = stored
      /\ perils = {} => stored = wanted
      /\ "dropped" \notin perils => \A s \in Themed : shown[s] = cache[s]
      /\ \A s \in Slides : draft[s] \in {cache[s], Junk}
=============================================================================
