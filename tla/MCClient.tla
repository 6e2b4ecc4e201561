------------------------------ MODULE MCClient ------------------------------
(***************************************************************************)
(* The account on the server and six parts of the browser's side.  They   *)
(* share no state, and one run checks them all: a behaviour is a behaviour *)
(* of one of them, and the others stay as they began.                      *)
(***************************************************************************)
EXTENDS Account

CONSTANTS
    User, Nobody, MaxSession, MaxRequests,
    Item, MaxDeletes, MaxMounts,
    MaxCodes, MaxLogins, MaxViews, MaxCalls,
    Root, Part, Stories, MaxId, MaxEdits, MaxFiles, MaxImports,
    MaxChanges, MaxGets, MaxOpens,
    MaxOps, MaxProbes

VARIABLES
    part,        \* which of the seven this behaviour is of
    code, issued, live, minted, cookie, status, expired, page, view, stage, open, card,
    ticked, busy, calls, saved, perils, highlight

(* The parts of the browser's side keep their state in the same variables. *)
Pages == INSTANCE AccountPages
Tabs == INSTANCE ClientSession
    WITH user <- code, cache <- issued, stores <- minted, owner <- page, requests <- calls,
         mine <- view, era <- stage, lapsed <- open
Deleting == INSTANCE SoftDelete
    WITH exists <- live, list <- view, pending <- card, timers <- busy, mounted <- open,
         mounts <- minted, asked <- issued, kept <- saved, resurfaced <- perils
Transfer == INSTANCE Backup
    WITH now <- issued, edits <- minted, ids <- code, exporting <- open, files <- saved,
         phase <- stage, staged <- card, buckets <- ticked, chosen <- view, imports <- calls,
         kept <- busy, lost <- perils, disturbed <- expired
Settings == INSTANCE UserSettings
    WITH stored <- live, cache <- view, loaded <- stage, patches <- calls, gets <- open,
         latest <- issued, heard <- minted, fetched <- code, opened <- saved, tab <- page,
         draft <- cookie, timer <- busy, focus <- expired, shown <- ticked, visible <- status,
         wanted <- card
Connection == INSTANCE VeniceKey
    WITH row <- live, ops <- calls, made <- issued, asked <- minted, probes <- code,
         opened <- saved, gets <- stage, account <- view, broken <- expired, probe <- open,
         mount <- page, keyDraft <- card, endpointDraft <- ticked, seeded <- busy,
         confirmed <- cookie, typed <- highlight

ASSUME PartsAssumption ==
    Tabs!ClientAssumption /\ Pages!PagesAssumption /\ Transfer!BackupAssumption

AccountVars == vars
PagesVars == <<code, issued, live, minted, cookie, status, expired, page, view, stage, open,
               card, ticked, busy, calls, saved, perils>>
MCVars == <<part, highlight, AccountVars, PagesVars>>

Unused(v) == v = 0

MCInit ==
    /\ Init
    /\ \/ part = "account" /\ Pages!Init /\ code = 0 /\ page = "login"
       \/ part = "pages" /\ Pages!Init
       \/ /\ part = "session" /\ Tabs!Init
          /\ Unused(card) /\ Unused(ticked) /\ Unused(busy) /\ Unused(saved)
       \/ /\ part = "deleting" /\ Deleting!Init
          /\ Unused(code) /\ Unused(cookie) /\ Unused(status) /\ Unused(expired)
          /\ Unused(page) /\ Unused(stage) /\ Unused(ticked)
       \/ /\ part = "transfer" /\ Transfer!Init
          /\ Unused(cookie) /\ Unused(status) /\ Unused(page)
       \/ part = "settings" /\ Settings!Init
       \/ part = "key" /\ Connection!Init
    /\ part \in {"settings", "key"} \/ Unused(highlight)

MCNext ==
    /\ UNCHANGED part
    /\ \/ part = "account" /\ Next /\ UNCHANGED <<PagesVars, highlight>>
       \/ part = "pages" /\ Pages!Next /\ UNCHANGED <<AccountVars, highlight>>
       \/ part = "session" /\ Tabs!Next
          /\ UNCHANGED <<card, ticked, busy, saved, highlight, AccountVars>>
       \/ part = "deleting" /\ Deleting!Next
          /\ UNCHANGED <<code, cookie, status, expired, page, stage, ticked, highlight,
                         AccountVars>>
       \/ part = "transfer" /\ Transfer!Next
          /\ UNCHANGED <<cookie, status, page, highlight, AccountVars>>
       \/ part = "settings" /\ Settings!Next /\ UNCHANGED AccountVars
       \/ part = "key" /\ Connection!Next /\ UNCHANGED AccountVars

MCSpec == MCInit /\ [][MCNext]_MCVars

(* A tab holds the signed-in user's data and nobody else's, unless a        *)
(* mutation outlived its session, the boot's answer came after a login, or  *)
(* another tab changed the cookie (sessionReset.ts, streamRegistry.ts).     *)
NoStrangersData == part = "session" => Tabs!NoStrangersData

(* "Your session has expired" is shown of a session that did end without    *)
(* the user's doing here, unless an answer to an earlier session's request  *)
(* came late or a sign-out is under way (session.ts).                       *)
ExpiryIsReal == part = "session" => Tabs!ExpiryIsReal

(* A row whose deletion was undone, or left behind before its timer fired,  *)
(* is not deleted, unless it resurfaced and was deleted again               *)
(* (useSoftDelete.ts: undo, the cleanup at unmount).                        *)
KeptSurvives == part = "deleting" => Deleting!KeptSurvives

(* The recovery code is stored by the user or held by the page, unless the  *)
(* user left or reloaded it, the session ended, the answer was lost, or two *)
(* rotations overlapped (RecoveryCodeHandoff, AccountPrivacyModal).         *)
CodeReachesUser == part = "pages" => Pages!CodeReachesUser

(* What a replace deletes after a safety backup is in a downloaded file,    *)
(* unless something was edited while the restore ran, and a restore leaves  *)
(* every story that nobody deleted (onRestore, importOneStory).             *)
RestoreLosesNothing == part = "transfer" => Transfer!RestoreLosesNothing

(* A story judged "unchanged" holds nothing that the file lacks, unless it  *)
(* was edited while the export read it (planImport, contentUpdatedAtMax).   *)
UnchangedIsCovered == [][part = "transfer" => Transfer!PassesCovered]_MCVars

(* At rest the settings shown are the ones stored, and the ones stored the  *)
(* ones chosen, unless changes and answers crossed, a debounce was left     *)
(* behind or Escape closed a prompt (useUserSettings, Settings*Tab, PATCH   *)
(* /users/me/settings).                                                     *)
SettingsSettle == part = "settings" => Settings!SettingsSettle

(* At rest the Venice tab shows the key and endpoint stored, which are the  *)
(* ones the user was told of, and says "Verified" of them alone; a typed    *)
(* key stays until it is stored; unless operations, fetches and typing      *)
(* crossed (VeniceTab, venice-key.service.ts).                              *)
KeyPanelTruthful == part = "key" => Connection!KeyPanelTruthful
=============================================================================
