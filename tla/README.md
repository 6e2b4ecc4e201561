# Inkwell: a verification development in TLA+

Inkwell is a story editor: a React single-page application
(`src/frontend`), an Express/Prisma server over PostgreSQL (`src/backend`) and
the schemas they share (`src/shared`).  A story has chapters, a chapter has
alternative drafts of which one is active, an account's narrative is encrypted
under a key that lives in the server's memory only as long as a session does,
and an AI collaborates through chats and completions.  This directory holds TLA+
modules translated from that code, the TLC configurations that model-check
them, and the theorems TLAPS proves about them.  `PROJECT.json` maps every
definition to the lines it models.

    tlc -workers 2 -config AutosaveCached.cfg MCAutosave     # check a run
    tlapm Autosave_proofs.tla                                # check the proofs

Contents: [1 Inventory](#1-inventory) - [2 How the modules are put
together](#2-how-the-modules-are-put-together) - [3 Modules](#3-modules) -
[4 Runs](#4-runs) - [5 Findings](#5-findings) - [6 Fairness](#6-fairness) -
[7 Proofs](#7-proofs) - [8 Only model-checked](#8-what-is-only-model-checked) -
[9 Not modelled](#9-what-is-not-modelled) - [10 Plan](#10-plan)

## 1. Inventory

Status: **M** modelled, **P** partly, **-** not modelled.  `PROJECT.json` says
for each component what is left out.

### Server (`src/backend/src`)

| Component | State it keeps | Hard behaviour | Correct when | Module | |
|---|---|---|---|---|---|
| Draft repository and routes (`repos/draft.repo.ts`, `routes/drafts.routes.ts`) | `Draft` rows with `orderIndex`, `Chapter.activeDraftId` | requests interleave between statements (READ COMMITTED); bounded retry on a unique violation | one active draft per chapter, indexes 0..N-1, no save over an unseen change | `DraftRepo`, `ChapterDrafts`, `EditorSession` | P |
| Chapters, characters, outline (`repos/chapter.repo.ts`, `character.repo.ts`, `outline.repo.ts`, their routes) | rows with an order column | reorder validates before its transaction; index taken outside the insert; row locks and deadlocks | positions form 0..N-1, reorder is all or nothing | `OrderedRows` | P |
| Stories (`repos/story.repo.ts`) | one row each | writes from several tabs | no field lost that a sheet did not change | `EditForms` | P |
| Session store, middleware, cookie (`services/session-store.ts`, `middleware/auth.middleware.ts`, `lib/session-cookie.ts`) | the sessions `Map`, the sweeper; the browser's cookie | two limits, a full store, a cookie with a life of its own, restart | expiry is the earlier limit; bounded; cookie and session agree | `SessionStore` | M |
| Account service (`services/auth.service.ts`), content encryption (`services/content-crypto.service.ts`) | account row, password hash, two wraps of the data key | many awaits (argon2) between reading the row and acting on it | every wrap and session holds the registration's key; a changed password leaves no older session | `Account` | P |
| Chat turns (`routes/chat.routes.ts`, `repos/chat.repo.ts`, `message.repo.ts`) | messages of a chat | model call between writes, streams aborted half-way, replay deletes before it asks | replies stand behind their messages; a failed replay loses nothing unseen | `ChatTurn` | P |
| AI streaming (`services/venice-stream.service.ts`, `lib/venice-errors.ts`, `routes/ai.routes.ts`) | a stream | client disconnects, errors before and after the headers | one terminal event, and it is true | `SseWire` | P |
| Prompt building (`services/prompt.service.ts`) | none (pure) | boundaries of the budget | prompt and response fit the context | `PromptBudget` | P |
| Venice models and key (`services/venice.models.service.ts`, `venice-key.service.ts`) | per-user cache, one encrypted key | a list that outlives its key | the gate follows the key in the row | `VeniceModels`, `VeniceKey` | P |
| Backup (`services/export.service.ts`, `import.service.ts`) | all rows of a user | export, plan and import while stories are edited; failure half-way | nothing replaced without a copy | `Backup` | P |
| User settings (`routes/user-settings.routes.ts`) | one JSON column | overlapping optimistic changes | settings shown are settings stored | `UserSettings` | P |
| Model parameters (`services/venice-call.service.ts`, ...) | none | a table of fallbacks | - | - | - |

### Client (`src/frontend/src`)

| Component | State it keeps | Hard behaviour | Correct when | Module | |
|---|---|---|---|---|---|
| Editor autosave (`hooks/useAutosave.ts`, `pages/EditorPage.tsx`) | refs for timers, baseline, save in flight, follow-up; buffer; conflict | effects, timers and promise settlements interleave; closures outlive what they close over | no edit forgotten or sent to another draft, one save at a time, nothing saved in a conflict | `Autosave` | P |
| The text's copies (`hooks/useChapterDraft.ts`, `useUnloadFlush.ts`, `lib/chapterDrafts.ts`, `components/Paper.tsx`) | TipTap document, buffer, query cache, IndexedDB record, row | crash between save and delete; refetch against typing; keepalive flush | the newest text is somewhere, and on screen | `EditorSession` | P |
| Inline AI (`store/inlineAIResult.ts`, `components/InlineAIResult.tsx`, `ContinueWriting.tsx`) | a card, a continuation | answers after the selection or the draft has gone | a text goes where it was asked for | `InlineAI` | P |
| Chat client (`hooks/useChat.ts`, `useMessageActions.ts`, `useBannerRetry.ts`, `components/ChatSceneTab.tsx`, `ChatComposer.tsx`) | composer, sessions, pending turn | late answers, stops, retries, chats deleted meanwhile | the panel shows the server's messages; a message is never nowhere | `ChatTurn`, `ChatTab` | P |
| Stream reader (`lib/sse.ts`, `streamingAI.ts`, `hooks/useAICompletion.ts`) | a partial line | frames cut anywhere | what the reader is told is what happened | `SseWire` | P |
| Query cache of lists (`hooks/useChapters.ts`, `useCharacters.ts`, `useOutline.ts`) | optimistic lists and snapshots | rollback against another's effect, cancelled fetches | a quiet tab shows the server's list | `OrderedRows` | P |
| Row names (`components/Paper.tsx`, `DraftList.tsx`, `SessionPicker.tsx`) | an input per row | Escape, blur, automatic titles | a row ends up with the name decided upon | `RowNames` | P |
| Navigation (`pages/EditorPage.tsx`, `components/ChapterList.tsx`, `store/activeChapter.ts`, `selectedDraft.ts`) | active chapter, selected draft | decisions of closures when answers come | the document chosen is the one shown | `Navigation` | P |
| Sheets and forms (`components/StoryModal.tsx`, `CharacterSheet.tsx`, `ChapterSummarySheet.tsx`) | fields, seeds | late data, late answers, other writers | no typed field lost unseen | `EditForms` | P |
| Client session (`lib/sessionReset.ts`, `lib/api.ts`, `store/session.ts`, `hooks/useAuth.ts`) | who is signed in, whose data is held | late answers of the previous user | nothing of one user is left to another | `ClientSession` | P |
| Account pages (`pages/LoginPage.tsx`, `RegisterPage.tsx`, `ResetPasswordPage.tsx`, `components/AccountPrivacyModal.tsx`) | forms, a recovery code shown once | unmounting while a call is under way | the code reaches its user | `AccountPages` | P |
| Soft delete (`hooks/useSoftDelete.ts`) | pending deletions and timers | timer against undo against unmount | a kept row survives | `SoftDelete` | M |
| Settings (`hooks/useUserSettings.ts`, `components/Settings*.tsx`), Venice tab | cached settings, drafts of fields, debounces | rollbacks, refetches, tabs left in the middle | as stored | `UserSettings`, `VeniceKey` | P |
| Views (`components/`, `design/`) | what is not above: none of interest | render | - | - | - |

How they interact: the page calls the server over HTTP through the query
cache; every request passes the authentication middleware, which hands the data
key of the session to the repositories; the repositories share nothing but the
database.  The autosave hook calls back into the page (`onDirty`, `onSaved`,
`save`), and page and hook see each other's state only as of the last render.

The hazards of this code, each at its line, are listed in `PROJECT.json`
("hazards") with the properties that watch them.

## 2. How the modules are put together

Each component has a module of its own: its state as variables, `Init`, one
action per handler or per stretch between two awaits, `Next`, and its
properties.  Five modules put components together for TLC:

| Module | Parts |
|---|---|
| `MCAutosave` | `Autosave`, with the symmetry of drafts |
| `MCServer` | `SessionStore`; `ChatTurn`; `SseWire` |
| `MCEditor` | `EditorSession`; `InlineAI`; `EditForms`; `ChatTab` |
| `MCClient` | `Account`; `ClientSession`; `SoftDelete`; `AccountPages`; `Backup`; `UserSettings`; `VeniceKey` |
| `MCBackend` | `DraftRepo` with the refinement of `ChapterDrafts`; `OrderedRows`; `RowNames`; `Navigation`; `VeniceModels`; `PromptBudget` |

The parts of one such module share no state in the code, so their product would
add states and no behaviour.  They are therefore summed: `part` says whose
behaviour this is, `MCInit` chooses it, `MCNext` takes that part's steps and
leaves everything else alone.  Since at most one part ever moves, parts keep
their state in the same variables, which the INSTANCE substitutes (`Rows ==
INSTANCE OrderedRows WITH at <- rows, cache <- meta, ...`); a variable's name
in an MC module says nothing, the part's own module says what it holds.  A part's
property is restated as `part = "rows" => Rows!ListsAgree`, an action property as
`[][part = "venice" => Venice!GatesByKey]_MCVars`.  What does interact is within
one module: `AccountPages` has pages, api client, session store and the
server's answers; `EditorSession` has editor, buffer, cache, record and the
server's row; `ChatTurn` has the panel and the server's turns; `OrderedRows` has
tabs, requests and table; `Backup` has page, server and the edits meanwhile.

Each module has a `TypeOK`.  The runs do not repeat them as invariants: they
were checked with each module on its own, and the theorem modules prove those
that proofs lean on.

## 3. Modules

For each: how state and actions correspond to the code, and what was noticed
while translating it ("Noted": behaviour the model has because the code has it,
no run of its own).

### Autosave

The hook and the part of `EditorPage` that feeds it.  One action is one event
the browser delivers, with all the effects of the React commit it causes, in the
order the hook declares them: `Type` (a keystroke, or an accepted restore
offer), `Load` (the draft's query resolves), `SwitchView` (another draft or
chapter: reset effect, then seed effect), `Resolve` / `OverwriteEnds` /
`ReloadEnds` (the conflict banner), `Unmount` and `Mount`, `UnloadFlush`,
`DebounceFires`, `RetryFires`, `SaveResolves`, `SaveRejects` (the two halves of
`runSave` around its `await`), `FlushEnds`.  The refs and states of the code are
variables of the same name where it is short: `savingRef`, `baselineSet`,
`lastSaved`, `debounce` (with the draft of the save it snapshotted), `retry`,
`followup`, `status`, `view` (`viewedDraftId`, the hook's `resetKey`), `buffer`
(the hook's payload), `seededFor`, `suspended` (`conflict`).  `runs` are the
awaited saves, `flushes` those nobody awaits, `landed` and `local` the newest
revision on the server and in the local record.  A body is a record `[doc,
rev]`: the hook compares bodies by identity only, and what can go wrong is whose
body is sent and which revision.  A failed request may or may not have reached
the server.

Noted: a save that keeps failing is retried without end, though the hook's
header says ONE retry (useAutosave.ts:289); after viewing A, an unloaded B and A
again the first keystroke is taken for the baseline and not scheduled
(EditorPage.tsx:290); text typed before the draft has loaded is replaced
(EditorPage.tsx:295); a Reload that ends after a switch puts its body into the
draft viewed by then (EditorPage.tsx:399).

### EditorSession

One draft's text: the TipTap document (`screen`), the page's `buffer`, the query
`cache`, the IndexedDB `record`, the `server` row with its version, a save, a
flush, a refetch, a summary under way, and the restore offer.  A body is the set
of edits it contains, so "lost" and "clobbered" can be said of an edit.
`perils` is a history variable: which of nine named dangers has been met.

Noted: a summary's write conflicts with the page's own next save; the restore
offer may be of a text the server has by then; the comment "can only no-op ...
never clobber" (useUnloadFlush.ts:7-8) overlooks a refetch under unsaved text.

### DraftRepo, ChapterDrafts

Requests are processes whose steps are the statements they send: a creation
reads its source (fork), reads the next index, inserts, and retries on a unique
violation; an activation checks, then writes; a removal checks the pointer,
counts, then deletes and renumbers.  Between the statements of one request any
statement of another may commit: Prisma's transactions run at READ COMMITTED.
The writes of one transaction are one action (`CommitRemove`), since the rows
stay locked; a deadlock of two renumberings aborts one (`AbortRemove`).
`CreateChapter` and `DropChapter` are single transactions whose draft side is
atomic.  `raced` notes that an activation committed while the same draft was
being removed, or a removal while a creation held an index: the invariants say
which interleavings break the promise.  `ChapterDrafts` is that promise: a
chapter is a sequence of drafts with one active, and every request takes effect
at once; `MCBackend` maps `book` to the drafts sorted by `orderIndex`.

Noted: the pointer lost between guard and delete (draft.repo.ts:272) and the gap
between index and insert (draft.repo.ts:370) are what `raced` excuses.

### OrderedRows

The rows of one story, `kind` saying which collection, as a function `at` from
stored rows to order columns; mutations `req` with their statements; each tab's
cached list and GET.  Create (`ReadMax`, `Insert`, `InsertFails`), placing by
PATCH (`Place`), reorder (`CheckReorder`, `CommitReorder`), remove (`BeginRemove`,
`CommitRemove`; the outline's deleteMany), locks (`Free`) and deadlocks (`Abort`);
in the tab the optimistic writes, `Answer` and `Lose` with roll-back and refetch,
`Refetch`, `Serve`, `Receive`.

### RowNames, Navigation

`RowNames` has the inputs in which a chapter, a draft or a session is renamed,
with the differences between the three (`kind`): what blur, Enter and Escape do,
what is sent, and when the shown name is reseeded.  Noted: failed renames are
silent; renaming back to the name still shown sends nothing; a session's rename
is discarded by a click outside; an untouched input may send its old text again;
an automatic title overwrites a rename.

`Navigation` has the active chapter, the selected draft, the cached lists and the
mutations whose answers move them.  Noted: the answer to a deletion acts on its
click's closure and may throw the user to the first chapter; a draft deleted in
another tab stays on screen; activation elsewhere changes what is shown; a story
just opened shows the other story's chapter until its list arrives.

### SessionStore, Account

`SessionStore` is the `Map` of sessions (a set of records), the sweeper, the
cookie in each browser, and the account operations that open and close sessions.
Operations that await are split: `Serve` lets the request in, `ChangePassword`,
`SignOutEverywhere` or `Fail` is its end.  Time is an integer; two events in one
unit have the same `Date.now()`, and `evictOldest` may meet ties.  Noted: the
re-issue of the cookie looks at the session's expiry, so after one re-issue a
daily user's cookie dies under a live session (auth.middleware.ts:56).

`Account` is one username's row (hash, two wraps), its sessions, and jobs split
at their awaits: what a job read is in its record, and its write is conditional
on what the code makes it conditional on.  Noted: a login that read the row
before a password change opens its session after it (auth.service.ts:226); the
invariant excuses exactly that.

### ClientSession, AccountPages

`ClientSession` is one tab's session store, the user whose data the caches hold,
the cookie, and requests of every kind (`me`, `login`, `logout`, queries, mutations,
streams) that are sent, decided and answered at different times.  Noted: a late
401 or logout answer of one session ends the next; a mutation answered late
writes into the next user's cache (useUserSettings.ts:127, useAccount.ts:148); a
boot's `/auth/me` may be answered after a login.

`AccountPages` has page instances, the recovery codes they were sent, and the
calls.  Noted: an update-profile answer after a sign-out leaves a user without a
session and LoginPage and RequireAuth redirecting to each other; the hint
"becomes invalid the moment you confirm" (AccountPrivacyModal.tsx:620) is not what the
server does; a registration whose answer is lost leaves an account whose code
nobody has seen.

### SoftDelete, UserSettings, VeniceKey, Backup

`SoftDelete`: the map of pending rows, their timers, the DELETEs and the list.
`UserSettings`: the server's row, the cache, the fields' own drafts and
debounces, PATCHes and GETs.  Noted: a change made before the settings have loaded
lays defaults under itself; the roll-back runs only for the newest call of a
mounted tab, against useUserSettings.ts:201-203; leaving a tab within the
debounce drops the change while the document keeps the dragged value.
`VeniceKey`: the stored key and endpoint, the fields, the badge.  Noted: saving
before the status has arrived replaces a custom endpoint by the default; what is
typed while a save is pending is cleared; a deletion's error is never shown.
`Backup`: the stories with their instants, the file, the plan, the safety copy,
the import story by story.  Noted: a deletion moves no instant; edits made during
a restore are deleted without a copy; a retry after a lost answer duplicates.

### ChatTurn, ChatTab, SseWire

`ChatTurn` has the panel's one mutation, the banner, and turns that go on at the
server after the panel has stopped listening.  `ChatTab` has the sessions of a
draft, composer texts and where each message ended up.  Noted: a session about
to be deleted may be selected again; a second send while the first chat is being
created makes a second chat; the Retry banner acts on whichever chat is active.
`SseWire` cuts every frame's line in two and lets a read end anywhere.  Noted: an
ended stream without `[DONE]` is presented as done; `retryAfterSeconds` of an error
frame is dropped.

### InlineAI, EditForms

`InlineAI`: the card and the continuation, each over a completion of its own, over
changes of selection, draft and chapter.  Noted: a card retried after a refusal
asks about the older passage; a continuation may be carried over a chapter switch.
`EditForms`: a sheet's seed, fields and mutation.  Noted: a summary generated again
meets the user's own PUT; a late answer closes a sheet opened since.

### VeniceModels, PromptBudget

`VeniceModels`: the per-user cached list with its age, requests at their awaits,
and the row's key.  `PromptBudget`: `buildPrompt` as a loop that drops previous
chapters and then cuts the chapter, over all combinations of a few lengths.
Noted: the chapter is cut before it is escaped, the history is not budgeted, and
previous chapters are kept while the chapter may be cut to four characters.
## 4. Runs

Six runs pass, six show a violation that section 5 explains.

| Run | Question | Distinct states | Time |
|---|---|---|---|
| `autosave` | with drafts in the cache: is typed text ever without a copy, or sent to the wrong draft? | 2,897,041 | 85 s |
| `autosave_live` | with drafts that still have to load: one save at a time, and is a dirty buffer saved in the end? | 2,043,662 | 158 s |
| `server` | sessions and cookies; one chat's turns; one streamed answer | 587,838 | 207 s |
| `editor` | a draft's text in its copies; inline AI; sheets; the chat tab | 6,466,611 | 221 s |
| `client` | account, sign-in, pages, deletions, backup, settings, Venice key | 7,068,876 | 226 s |
| `backend` | drafts, ordered rows, names, navigation, model gate, prompts | 2,762,996 | 237 s |
| `autosave_own_document` | does a save always carry its own draft's body? No | 299 | 2 s |
| `chat_retry` | is a text retried only when it was not stored? No | 6,842 | 3 s |
| `editor_crash` | does typed text survive the end of the tab? No | 11,281 | 3 s |
| `account_password` | does a wrong password leave one on the page? No | 7,918 | 3 s |
| `title_escape` | does Escape give up a rename? No | 89 | 1 s |
| `new_chapter` | is a new chapter the one opened? No | 295 | 1 s |

(Two workers.  A violation run's count is what TLC had seen when it stopped.)

The bounds, each a constant of the module it bounds, and why they are enough:

- **Autosave**: 2 drafts (whose body?), `MaxRev` 2 (one revision beyond the one
  being saved: was it outrun?), `MaxFlushes` 1 (one unawaited writer beside the
  awaited one), drafts interchangeable.  `autosave` has both cached, `autosave_live`
  neither, and no flush: the two ways a view is seeded.
- **SessionStore**: 2 users in 2 browsers, 3 logins into a store for 2 (so one is
  evicted), `IDLE_TTL` 2 under `ABSOLUTE_TTL` 3 (so the clamp acts), `REFRESH` 2,
  a clock that passes every limit of a session opened at 0.
- **ChatTurn**: 2 texts, 2 turns (the one the panel left and the one it
  listens to), `MaxSends` 2; 3 sends in `chat_retry`.
  **SseWire**: answers of at most 2 deltas, each frame in two halves, one read
  ending anywhere: the reader's buffer has met every cut a line can have.
- **EditorSession**: two edits here, one elsewhere, versions to 3 (open, saved,
  moved); `editor_crash` nothing elsewhere.  **InlineAI**: 2 chapters, 2 drafts,
  2 passages, 2 runs (a retry after a change).  **EditForms**: 2 characters of 2
  fields, 2 keystrokes, 2 sheets opened, 1 save elsewhere, 2 calls.  **ChatTab**: 2
  chats, 2 texts, 1 turn.
- **Account**: 3 passwords, 2 user ids, 2 codes, 2 jobs, 2 sessions: every anomaly
  needs two overlapping operations.  **ClientSession**: 2 users, 2 sessions, 2
  requests under way.  **SoftDelete**: 2 rows, 3 deletions, 2 mounts (a row deleted,
  kept and deleted again).  **AccountPages**: 2 mounts, 3 codes, 2 logins, 3 views,
  2 calls.  **Backup**: 2 ids, 1 edit, 2 files, 2 imports.  **UserSettings**: 2
  changes, 1 GET, 1 opening.  **VeniceKey**: 2 operations, 1 probe.
- **DraftRepo**: 2 chapters, 3 drafts, 2 requests (every race needs two),
  `MaxAttempts` 3 as in the code.  **OrderedRows**: 3 rows of which 2 stored, 2
  tabs, 2 mutations, 2 tries; rows interchangeable.  **RowNames**: the old name,
  the empty one and a new one, 2 edits.  **Navigation**: 3 chapters, 2 drafts, 2
  calls, 2 steps of the user, 1 elsewhere.  **VeniceModels**: 2 keys, a TTL of
  2, a clock to 5, 3 requests.  **PromptBudget**: a few lengths around the
  budget, at most three previous chapters.

Deadlock is checked where the system cannot stop; a cfg says `CHECK_DEADLOCK
FALSE` where ids and bounds run out or a server nobody calls is quiet.

What each property excludes is stated above its definition.  Every property of a
passing run has a mutant in `PROJECT.json`: a plausible bug (a dropped guard, a
flush through the wrong callback, a forgotten retry, a renumbering backwards, an
eviction before the sweep, a frame read before its blank line...) under which TLC
finds the property violated in that run.


## 5. Findings

Each is a run in which TLC finds the property violated by the code as it is;
`PROJECT.json` quotes the sentence it contradicts.

| Run, property | What happens |
|---|---|
| `autosave_own_document`, `OwnDocument` | Type in A, its save is awaited, switch to B: the reset cancels timers but not the await.  When A's save fails, its retry runs A's save callback with the *latest* payload, B's body, and A is overwritten with it.  A success that was outrun schedules the same. |
| `editor_crash`, `TypedTextSurvives` | A keystroke made while a save is awaited is recorded at the version before it; if the tab ends after the answer and before the follow-up, the record is judged stale at the next load and deleted. |
| `chat_retry`, `RetriedTextUnstored` | A send fails at the panel because its connection breaks, while its turn goes on and stores message and reply: the banner's Retry takes the trailing reply for "not stored" and sends the text again. |
| `account_password`, `WrongPasswordStays` | A wrong current password is answered 401, and the api client takes every 401 for the end of the session: the user is thrown out to /login. |
| `title_escape`, `EscapeReverts` | Escape in the chapter's title blurs the input within the same event, and the blur's commit still sees the typed text: the rename is sent. |
| `new_chapter`, `NewChapterOpens` | A chapter just created is made active while the cached list does not have it yet; the effect that resolves the active chapter moves to the first one. |

## 6. Fairness

Safety runs assume none.  `autosave_live` uses weak fairness of the two timers
(the browser fires a timer that stays armed) and strong fairness of a save's
success (the network is not down for ever: a save that is attempted again and
again succeeds some time).  Nothing is assumed of the user, who may
never type, switch or resolve a conflict; `SavedEventually` therefore ends also
when the page is left or a conflict raised.  `server` uses weak fairness of
`Sweep` (`setInterval` keeps firing while the process lives, and a new process
starts its sweeper with the first session) for `ExpiredSwept`, and of the chat's
turns, deliveries and receptions (each request is handled, each turn ends, each
answer or break arrives, and the banner's Retry goes on once its refetch has
answered) for `ComesToRest`; nothing is assumed of the user's
sends, stops and retries, and none of the network's being whole.

## 7. Proofs

The theorems hold for all values of the constants that satisfy the modules' named
assumptions, which TLC evaluates in every run: any number of drafts, chapters,
rows, users, sessions, requests, keystrokes.  Where a module is a part of a
composition, its theorem is proved of the composition, `MCSpec => []P`, from an
invariant of the form `part = "..." => IInv`: the part's own steps keep `IInv`,
the others leave its variables alone.  Most properties are not inductive; what was
added, and why:

**`Autosave_proofs`** (`AutosaveAssumption`).  `HookInv` adds to
`OneSaveAtATime`, `BufferBelongsToView`, `OwnDocumentUnlessCrossed`,
`IndicatorTruth` and `NoSaveWhileSuspended` the facts `QuietWhenUnmounted` (no timer
survives the page) and `WorkIsForView` (unless crossed, timers and awaited saves
are for the viewed draft and exist only once there is a baseline): without them
an armed timer could belong to anything.  `EditSafeCorrect` (no edit is without a
copy) needs `EditInv` besides: `Seated` (what is viewed has been seeded),
`RevsFit`, and `WorkIsLatest` (what a timer, save or follow-up will send is not
older than what is unsaved).  Its hypothesis `Cached = Doc` is necessary: viewing a
draft that is not loaded and coming back loses the baseline (section 3).

**`DraftRepo_proofs`** (`DraftRepoAssumption`).  `PointerInv` adds `UnusedIds`,
`FoundStays` (a draft a request has found stays in its chapter while it exists) and
`RemovedIsInactive` (unless overtaken, the draft being removed is not active): they
carry the check of `setActive` to its write and the guard of `remove` to its
delete.  `GapFreeCorrect` needs `OrderInv` (an index held by a creation is the number
of drafts, unless overtaken) and lemmas on counting: a chapter of n drafts with
distinct indexes below n has every index, and the renumbering assigns them.

**`SessionStore_proofs`** (`SessionAssumption`, `NoValueAssumption`).  `StoreInv`
adds finiteness of the map and `DrawnIds` (an id not yet drawn is in no entry and
no cookie), without which a login could open a second entry under an id a browser
still holds.  `LoginsSpareOthers` is an action property: a login evicts only
if the swept store is full, and then the least recently used.

**`Account_proofs`** (`AccountAssumption`).  `KeySurvives` (`OneKey`): `JobsSealed`
says what a suspended operation holds is sealed under the key of the row it read.
`SessionsCorrect` and `SecretsCorrect` add that a job which read the
current hash was not overtaken, and that a confirmed secret opens its own wrap.

**`MCClient_proofs`** (`PartsAssumption`).  Kept rows survive (`DeletingInv`: a
pending row has exactly one armed timer or none whose call is out); the key shown
is the one stored (`ConnectionInv` relates the cached status to the row through
what is on its way); the tab's data is its user's, and an expiry shown is one
(`TabsInv` follows each request kind by session and user); a restore replaces only
what its copy has, and what the plan calls unchanged is covered (`TransferInv`,
with the instants of stories never going back); the settings settle (`SettingsInv`);
a recovery code reaches the user (`PagesInv`: while nothing went wrong, a code on
its way is awaited by the one page that asked, the account's code is stored, on the
page or in that answer, and a page that holds one shows it until it is confirmed).

**`MCBackend_proofs`** (`PartsAssumption`).  The gate follows the key (`VeniceInv`:
an entry in the cache is of a key that was in the row no longer ago than the TTL);
names settle (`NamesInv`); lists agree and orders are dense (`ListsInv` says of
each tab what its cache may lack, `EvenInv` what positions a statement between
two others may rely on).
`ViewCorrect` rests on `ViewInv`, which says what a late answer may still do to the
view: `ActiveLives` and `SelectionLives` (a chapter's active draft exists; the selected
one does unless its deletion is still to be answered), `ForkLives` and `ForkApart` (what
a fork created exists and nobody here has asked to delete it), and, until a peril has
moved the view, `Chosen`: the selection and the choice are of the open chapter, a
choice with a draft is what is shown, and one that follows the active draft is of a
chapter whose activation has settled (`FollowsSettled`).
`DraftsImplementBook` is the refinement of `ChapterDrafts`, from `OrderInv` of
`DraftRepo_proofs`: a list in index order is chosen position by position, `InOrder`
and `OneOrder` say that without gaps it is the one sequence with each draft at its
index, so an insertion at the next index appends (`BookAdds`), and the renumbering
removes a draft at its index and leaves the order (`ClosesUp`, `BookRemoves`); an
activation moves the pointer only.  Outside `raced' = {}` nothing is claimed.
`FitCorrect` and `DropsCorrect` are about `buildPrompt`, from `PromptInv`: what is kept
is the end of what was given (`LatestKept`), the last one dropped had to go
(`DroppedInNeed`), and what is left of the chapter fits what the rest leaves
(`RestFits`).  The sum over the blocks is a fold; `SumIsNat` shows that it is a number
by the least counterexample, since there is no theorem on folds.  One
assumption on the constants is needed, `Fixed \subseteq Nat \ {0}`: the parts never cut
include the system prompt, which `resolvePrompt` never leaves blank.  With none of them
a context smaller than the response would be accepted.

**`MCServer_proofs`** (no assumption).  `ServerInv` relates the turns at the
server to one another: message ids rise, a turn trims only behind its own anchor, and
of the turns at most one is listened to.  From it follow `RepliesCorrect` and
`PromptCorrect`; `PanelInv` adds what the panel holds of the turn it listens to, by
phase, and gives `PanelCorrect`.  `WireInv` is about the bytes: `Carried` says that
what the reader has and has not parsed, together with what it has yet to read, is
frame by frame what was written and not told; `OutcomeCorrect` follows without any
bound on frames or on where a read cuts.

**`MCEditor_proofs`** (`PartsAssumption`).  Four invariants, one for each part.
`InlineInv`: a card, a retry and a continuation are of what was last asked, for the
passage and chapter they were asked from, until a named peril is met
(`AITextCorrect`).  `TextInv` and `CalmInv` are about the copies of a draft's text.
`Coherent` and `Past` say that versions never run ahead of the row's and that
equal versions have equal bodies; `QuietInv` that a page alone with its draft knows
the row's version, which gives `ConflictsExplained`; `ClobberInv` that, as long as no
read has moved a version, whatever is conditional on a version has all the edits
of others which that version has, which gives `ClobberingExplained`; `CalmInv` that
without any danger every edit is in the row, or in the buffer and in its record at
the row's version, which gives `LossExplained`.  `FormsInv` relates what was typed to
sheets, requests, caches and rows; that a patch has only touched fields rests on
`Seeded`.  `ChatInv` says that a text in the composer, or waiting for its chat to be
created, is nowhere else (`Composed`, `AwaitingAlone`), that a turn's chat exists and is
the one its text was sent to (`SentHome`), and that a row with a text is of a chat
that exists (`RowsLive`): `MessageKept` alone would not survive the next deletion.

## 8. What is only model-checked

- *Liveness*: `SavedEventually`, `ExpiredSwept`, `ComesToRest`.  Their proofs need
  fairness and ENABLED, which the prover does not handle.
- *The violations* of section 5 are counterexamples, found by model checking.

Every other property of a passing run is stated by a theorem of section 7.

Some properties are proved, or checked with a module on its own, that no run
repeats: `TypeOK` everywhere, `BufferBelongsToView`, `IndicatorTruth`,
`NoSaveWhileSuspended`, `ActivePointsHome`, `ExpiryExact`, `Bounded`, `OnlyNeededDropped`.

## 9. What is not modelled

- *Of the modelled components*: the model parameters of a Venice call, token
  counts and citations beyond their presence, the schemas' validation (inputs are
  valid), rate limits, the ciphers (a wrap opens with its secret or it does not),
  the deep copy of chats in a fork beyond its being one transaction, aggregates for
  the library page, ownership (ids of others are not found).
- *Keys*: the Escape layers and their order.  `useKeyboardShortcuts.ts` and the
  dialogs listen on the same window; which handler sees an event first
  is a matter of registration order and of `stopPropagation`, and the comment at
  `useKeyboardShortcuts.ts:13-15` describes it.
- *TipTap*: transactions, marks, the toolbar, typography rules, character
  references as nodes.  A text is what `getJSON` returns.
- *No behaviour of interest*: mock-ups (`src/mockups`), the seed, the scripts, the
  boot checks, declarations, design primitives and what only renders.

## 10. Plan

The safety and action properties of the runs and the refinement are proved.  What is
left is the liveness of section 8, for a prover that handles ENABLED, and the parts of
section 9.
