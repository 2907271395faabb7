------------------------------- MODULE Settings -------------------------------
(***************************************************************************)
(* The settings: one document with a section for each subject, which       *)
(* SettingsService reads, completes, changes and writes back as a whole,   *)
(* and the copy SettingsStore keeps for all others to read.                *)
(*                                                                         *)
(* A patch makes three calls to the database: it reads the document,       *)
(* writes it back with what it lacked, and writes the reply to that back   *)
(* with the section changed.  Calls of several patches mix.                *)
(***************************************************************************)
EXTENDS Actors, Naturals

CONSTANTS
    Section,            \* the sections, with the two whitelist fields as one of their own
    SettingsValue,      \* what a section can be set to
    WhitelistFeature    \* the whitelist settings are enabled

ASSUME SettingsAssumption ==
    /\ {"whitelist", "credentials"} \subseteq Section /\ None \notin Section
    /\ None \notin [Section -> SettingsValue \cup {"default", "missing"}]
    /\ {"default", "missing"} \cap SettingsValue = {}
    /\ WhitelistFeature \in BOOLEAN

VARIABLES
    settingsDb,     \* the document, None before the first boot
    settings,       \* what SettingsStore has, None until it has loaded
    settingsReq,    \* settingsReq[r]: what request r waits for, the document it holds, the
                    \* section it sets to a value, whether no other request has written
                    \* the document since r read it
    settingsWanted, \* history: what each section was last set to
    settingsLost,   \* history: a document was written that another request had written since
    settingsMixed   \* history: a request was made while another was under way

settingsVars == <<settingsDb, settings, settingsReq, settingsWanted, settingsLost, settingsMixed>>

\* "default" is what a section is created with; one that a release has introduced may be missing
Document == [Section -> SettingsValue \cup {"default", "missing"}]

\* The call that is out; "reply": the last one is made, its reply is under way
SettingsStage == {"idle", "find", "complete", "write", "reply"}

NoSettingsReq ==
    [stage |-> "idle", doc |-> None, section |-> None, value |-> "default", same |-> TRUE]

SettingsTypeOK ==
    /\ settingsDb \in Document \cup {None}
    /\ settings \in Document \cup {None}
    /\ settingsReq \in [Request -> [stage : SettingsStage, doc : Document \cup {None},
                                    section : Section \cup {None},
                                    value : SettingsValue \cup {"default"}, same : BOOLEAN]]
    /\ settingsWanted \in Document
    /\ settingsLost \in BOOLEAN /\ settingsMixed \in BOOLEAN

-----------------------------------------------------------------------------
(* Documents.                                                              *)

DefaultSettings == [s \in Section |-> "default"]

\* migrateSettingsRuntime
CompletedSettings(doc) ==
    [s \in Section |->
        IF doc[s] = "missing" \/ (s = "whitelist" /\ ~WhitelistFeature) THEN "default" ELSE doc[s]]

\* Variant: the section is all that is written
PatchedOnly(doc, section, value) == [DefaultSettings EXCEPT ![section] = value]

\* Variant: a value that is not there is assigned
PatchedNone(doc, section, value) == [doc EXCEPT ![section] = None]

\* Object.assign of the section
PatchedSettings(doc, section, value) == [doc EXCEPT ![section] = value]

-----------------------------------------------------------------------------
(* Requests.                                                               *)

SettingsBusy == \E r \in Request : settingsReq[r].stage # "idle"
HoldsSettings(r) == settingsReq[r].stage \in {"complete", "write"}

SettingsAsked(r, section, value) ==
    /\ settingsReq[r].stage = "idle"
    /\ settingsReq' = [settingsReq EXCEPT ![r] = [NoSettingsReq EXCEPT
                          !.stage = "find", !.section = section, !.value = value]]
    /\ settingsMixed' = (settingsMixed \/ SettingsBusy)
    /\ UNCHANGED <<settingsDb, settings, settingsWanted, settingsLost>>

\* The operations of the store: setWizardCompleted, setRegistrationEnabled, setLoginRequired,
\* setSentryDiagnosticsEnabled, updateServerSettings, updateTimeoutSettings, setWhitelist,
\* patchFileCleanSettings, updateCredentialSettings, updateFrontendSettings.  An input that
\* is not valid ends them before this; no whitelist is valid without the feature.
PatchSettings(r, section, value) ==
    /\ settings # None
    /\ section = "whitelist" => WhitelistFeature
    /\ SettingsAsked(r, section, value)

\* loadSettings, by the boot task, which runs before the requests of the process
LoadSettings(r) ==
    /\ settings = None /\ ~SettingsBusy
    /\ SettingsAsked(r, None, "default")

\* getOrCreate: findOne
FindSettings(r) ==
    /\ settingsReq[r].stage = "find"
    /\ settingsReq' = [settingsReq EXCEPT ![r] = [@ EXCEPT
          !.stage = "complete",
          !.doc = IF settingsDb = None THEN DefaultSettings ELSE CompletedSettings(settingsDb)]]
    /\ UNCHANGED <<settingsDb, settings, settingsWanted, settingsLost, settingsMixed>>

\* The document r holds is written as a whole; r goes on with q
Overwrite(r, q, wanted) ==
    /\ settingsDb' = settingsReq[r].doc
    /\ settingsReq' = [s \in Request |->
          IF s = r THEN q
          ELSE IF HoldsSettings(s) THEN [settingsReq[s] EXCEPT !.same = FALSE]
          ELSE settingsReq[s]]
    /\ settingsWanted' = wanted
    /\ settingsLost' = (settingsLost \/ ~settingsReq[r].same)
    /\ UNCHANGED <<settings, settingsMixed>>

\* getOrCreate: save of the defaults, or findOneAndUpdate, which answers with what it wrote.
\* A patch assigns to its section of that.
CompleteSettings(r) ==
    LET q == settingsReq[r] IN
    /\ q.stage = "complete"
    /\ Overwrite(r, IF q.section = None THEN [q EXCEPT !.stage = "reply"]
                    ELSE [q EXCEPT !.stage = "write", !.same = TRUE,
                                   !.doc = PatchedSettings(@, q.section, q.value)],
                 CompletedSettings(settingsWanted))

\* findOneAndUpdate
WriteSettings(r) ==
    LET q == settingsReq[r] IN
    /\ q.stage = "write"
    /\ Overwrite(r, [q EXCEPT !.stage = "reply"],
                 [settingsWanted EXCEPT ![q.section] = q.value])

\* Variant: the store keeps what it has loaded
StoreKeeps(old, doc) == IF old = None THEN doc ELSE old

\* The store has what the database answered
StoreTakes(old, doc) == doc

SettingsDone(r) == settingsReq' = [settingsReq EXCEPT ![r] = NoSettingsReq]

SettingsReplied(r) ==
    /\ settingsReq[r].stage = "reply"
    /\ settings' = StoreTakes(settings, settingsReq[r].doc)
    /\ SettingsDone(r)
    /\ UNCHANGED <<settingsDb, settingsWanted, settingsLost, settingsMixed>>

\* A call fails; if it was executed all the same, the store does not hear of it
SettingsFail(r) ==
    /\ settingsReq[r].stage # "idle"
    /\ settingsMixed' = (settingsMixed \/ settingsReq[r].stage \in {"write", "reply"})
    /\ SettingsDone(r)
    /\ UNCHANGED <<settingsDb, settings, settingsWanted, settingsLost>>

SettingsRestart ==
    /\ settings' = None
    /\ settingsReq' = [r \in Request |-> NoSettingsReq]
    /\ settingsMixed' = FALSE
    /\ UNCHANGED <<settingsDb, settingsWanted, settingsLost>>

-----------------------------------------------------------------------------
\* The first boot, or one of a newer release, with the whitelist of an older one
SettingsInit ==
    /\ \/ settingsWanted = DefaultSettings /\ settingsDb = None
       \/ /\ \E v \in SettingsValue :
                settingsWanted = [DefaultSettings EXCEPT !["credentials"] = "missing",
                                                         !["whitelist"] = v]
          /\ settingsDb = settingsWanted
    /\ settings = None
    /\ settingsReq = [r \in Request |-> NoSettingsReq]
    /\ settingsLost = FALSE /\ settingsMixed = FALSE

SettingsNext ==
    \/ \E r \in Request :
          \/ \E s \in Section, v \in SettingsValue : PatchSettings(r, s, v)
          \/ LoadSettings(r) \/ FindSettings(r) \/ CompleteSettings(r) \/ WriteSettings(r)
          \/ SettingsReplied(r) \/ SettingsFail(r)
    \/ SettingsRestart

SettingsSpec == SettingsInit /\ [][SettingsNext]_settingsVars

-----------------------------------------------------------------------------
(* Properties.                                                             *)

\* The document has in every section what that section was last set to, unless a request
\* wrote one that another had written since it was read: only then is a patch lost, whether
\* requests overlap, calls fail or the server restarts.
NoPatchLost ==
    settingsLost \/ settingsDb = None \/ settingsDb = settingsWanted

\* While no request is under way, everyone reads from the store what the database has,
\* unless requests have overlapped or a reply was lost since the server started.
StoreHasSettings ==
    settingsMixed \/ SettingsBusy \/ settings \in {None, settingsDb}
=============================================================================
