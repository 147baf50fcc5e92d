---------------------------- MODULE MCClientPages ----------------------------
(***************************************************************************)
(* Small instances of the parts of the client that share no state: a       *)
(* behaviour is one of ToolsSpec, SettingsSpec, SessionSpec or CodecSpec,  *)
(* and the other parts rest in a state where nothing is due.               *)
(***************************************************************************)
EXTENDS ClientTools, ClientSettings, ClientSession, ClientCodec

VARIABLE part   \* the part of the client that is in use

pageVars == <<part, fileVars, toolVars, settingsVars, sessionVars, codecVars>>

ToolsRest ==
    /\ remote = [files |-> [f \in Files |-> Nowhere], folders |-> {Root}]
    /\ fs = [files |-> {}, folders |-> {Root}, contents |-> [d \in Folders |-> Unfetched],
             rootKnown |-> TRUE, current |-> Root, history |-> <<Root>>, status |-> "idle",
             hydration |-> "hydrated", indexing |-> "complete", stale |-> FALSE, chunks |-> {}]
    /\ works = {} /\ rendered = Seen(fs) /\ builds = 0 /\ edits = 0
    /\ message = [results |-> NoResult, asks |-> FALSE, failed |-> FALSE, web |-> FALSE]
    /\ queued = FALSE /\ processing = FALSE /\ current = TRUE
    /\ runs = {} /\ processed = ToolsSeen /\ sent = {}

SettingsRest ==
    /\ index = [managed |-> "no", rules |-> {}, models |-> {}]
    /\ gov = [loading |-> FALSE, fetched |-> FALSE, manager |-> FALSE, unclaimed |-> FALSE,
              rules |-> {}, pool |-> FALSE]
    /\ page = FreshTab("other")
    /\ modelList = [models |-> {}, loading |-> FALSE, fetched |-> FALSE]
    /\ nodeLists = [l \in Lists |-> [loading |-> FALSE, fetched |-> FALSE]]
    /\ pending = {} /\ wizard = FreshWizard(0)
    /\ created = [p \in Reviewed |-> 0] /\ lost = created /\ started = 0

SessionRests ==
    /\ auth = [FreshAuth EXCEPT !.status = "UNAUTHENTICATED"]
    /\ cachedKey = NoKey /\ identity = [user |-> Nobody, valid |-> TRUE]
    /\ accounts = [u \in Users |-> "none"] /\ vaults = [u \in Users |-> NoKey]
    /\ held = FreshStores /\ calls = {} /\ shown = Showing /\ visits = 0 /\ setups = 0

CodecRest == call = [kind |-> "none", got |-> NoAnswer]

PagesInit ==
    /\ part \in {"tools", "settings", "session", "codec"}
    /\ IF part = "tools" THEN ToolsInit ELSE ToolsRest
    /\ IF part = "settings" THEN SettingsInit ELSE SettingsRest
    /\ IF part = "session" THEN SessionInit ELSE SessionRests
    /\ IF part = "codec" THEN CodecInit ELSE CodecRest

PagesNext ==
    \/ part = "tools" /\ ToolsNext /\ UNCHANGED <<part, settingsVars, sessionVars, codecVars>>
    \/ part = "settings" /\ SettingsNext /\ UNCHANGED <<part, fileVars, toolVars, sessionVars, codecVars>>
    \/ part = "session" /\ SessionNext /\ UNCHANGED <<part, fileVars, toolVars, settingsVars, codecVars>>
    \/ part = "codec" /\ CodecNext /\ UNCHANGED <<part, fileVars, toolVars, settingsVars, sessionVars>>

PagesSpec == PagesInit /\ [][PagesNext]_pageVars /\ ToolsFairness /\ SessionFairness
=============================================================================
