-------------------------- MODULE AdministrationProofs --------------------------
(***************************************************************************)
(* Theorems about what a server is administered with: the settings, the    *)
(* sessions of its users, and the releases it takes, for any numbers of    *)
(* requests, users, tokens, sections and versions; and about all of it     *)
(* together.                                                               *)
(***************************************************************************)
EXTENDS MCAdministration, AccountsProofs, YamlTransferProofs

-----------------------------------------------------------------------------
(* Settings: types.                                                        *)

SettingsRequest ==
    [stage : SettingsStage, doc : Document \cup {None}, section : Section \cup {None},
     value : SettingsValue \cup {"default"}, same : BOOLEAN]

\* Which fields of a request go with which of its stages
Fits(q) ==
    /\ q.stage \in {"complete", "write", "reply"} => q.doc \in Document
    /\ q.stage = "write" => q.section \in Section
    /\ q.stage = "find" => q.same

SettingsTyped == SettingsTypeOK /\ \A r \in Request : Fits(settingsReq[r])

LEMMA NoneIsNoDocument == None \notin Document
BY SettingsAssumption DEF Document

LEMMA CompletedType ==
    ASSUME NEW doc \in Document PROVE CompletedSettings(doc) \in Document
BY DEF CompletedSettings, Document

LEMMA PatchedType ==
    ASSUME NEW doc \in Document, NEW section \in Section, NEW value \in SettingsValue \cup {"default"}
    PROVE  PatchedSettings(doc, section, value) \in Document
BY DEF PatchedSettings, Document

LEMMA DefaultType == DefaultSettings \in Document /\ CompletedSettings(DefaultSettings) = DefaultSettings
BY DEF DefaultSettings, CompletedSettings, Document

LEMMA NoSettingsReqType == NoSettingsReq \in SettingsRequest /\ Fits(NoSettingsReq)
BY DEF NoSettingsReq, SettingsRequest, SettingsStage, Fits

\* The types hold at the start.
LEMMA SettingsTypedStart == SettingsInit => SettingsTyped
<1> SUFFICES ASSUME SettingsInit PROVE SettingsTyped
  OBVIOUS
<1>1. settingsWanted \in Document
  <2>1. CASE settingsWanted = DefaultSettings
    BY <2>1, DefaultType
  <2>2. CASE settingsWanted # DefaultSettings
    BY <2>2, DefaultType DEF SettingsInit, Document, DefaultSettings
  <2>3. QED
    BY <2>1, <2>2
<1>2. \A r \in Request : settingsReq[r] \in SettingsRequest /\ Fits(settingsReq[r])
  BY NoSettingsReqType DEF SettingsInit
<1>3. settingsReq \in [Request -> SettingsRequest]
  BY <1>2 DEF SettingsInit
<1>4. QED
  BY <1>1, <1>2, <1>3 DEF SettingsInit, SettingsTyped, SettingsTypeOK, SettingsRequest

\* A request is replaced by a well-typed one, the others at most lose `same` while they hold
\* a document.
LEMMA RequestsTyped ==
    ASSUME SettingsTyped, NEW r \in Request, NEW q \in SettingsRequest, Fits(q)
    PROVE  LET new == [s \in Request |->
                  IF s = r THEN q
                  ELSE IF HoldsSettings(s) THEN [settingsReq[s] EXCEPT !.same = FALSE]
                  ELSE settingsReq[s]]
           IN  new \in [Request -> SettingsRequest] /\ \A s \in Request : Fits(new[s])
<1>1. \A s \in Request : settingsReq[s] \in SettingsRequest /\ Fits(settingsReq[s])
  BY DEF SettingsTyped, SettingsTypeOK, SettingsRequest
<1>2. ASSUME NEW s \in Request, HoldsSettings(s)
      PROVE  LET t == [settingsReq[s] EXCEPT !.same = FALSE] IN t \in SettingsRequest /\ Fits(t)
  BY <1>1, <1>2 DEF SettingsRequest, Fits, HoldsSettings
<1>3. QED
  BY <1>1, <1>2

LEMMA RequestTyped ==
    ASSUME SettingsTyped, NEW r \in Request, NEW q \in SettingsRequest, Fits(q)
    PROVE  LET new == [settingsReq EXCEPT ![r] = q]
           IN  new \in [Request -> SettingsRequest] /\ \A s \in Request : Fits(new[s])
BY DEF SettingsTyped, SettingsTypeOK, SettingsRequest

\* What a request has after each of its steps
Found(r) ==
    [settingsReq[r] EXCEPT
        !.stage = "complete",
        !.doc = IF settingsDb = None THEN DefaultSettings ELSE CompletedSettings(settingsDb)]

Completed(r) ==
    LET q == settingsReq[r] IN
    IF q.section = None THEN [q EXCEPT !.stage = "reply"]
    ELSE [q EXCEPT !.stage = "write", !.same = TRUE,
                   !.doc = PatchedSettings(@, q.section, q.value)]

NewlyAsked(section, value) ==
    [NoSettingsReq EXCEPT !.stage = "find", !.section = section, !.value = value]

LEMMA AskedType ==
    ASSUME NEW section \in Section \cup {None}, NEW value \in SettingsValue \cup {"default"}
    PROVE  NewlyAsked(section, value) \in SettingsRequest /\ Fits(NewlyAsked(section, value))
BY DEF NewlyAsked, NoSettingsReq, SettingsRequest, SettingsStage, Fits

LEMMA FoundType ==
    ASSUME SettingsTyped, NEW r \in Request, settingsReq[r].stage = "find"
    PROVE  /\ Found(r) \in SettingsRequest /\ Fits(Found(r))
           /\ Found(r).stage = "complete" /\ Found(r).same
           /\ Found(r).doc = IF settingsDb = None THEN DefaultSettings
                             ELSE CompletedSettings(settingsDb)
<1>1. settingsReq[r] \in SettingsRequest /\ Fits(settingsReq[r]) /\ settingsDb \in Document \cup {None}
  BY DEF SettingsTyped, SettingsTypeOK, SettingsRequest
<1> DEFINE doc == IF settingsDb = None THEN DefaultSettings ELSE CompletedSettings(settingsDb)
<1>2. doc \in Document
  BY <1>1, DefaultType, CompletedType
<1> HIDE DEF doc
<1>3. Found(r) = [settingsReq[r] EXCEPT !.stage = "complete", !.doc = doc]
  BY DEF Found, doc
<1>4. /\ Found(r) \in SettingsRequest /\ Fits(Found(r))
      /\ Found(r).stage = "complete" /\ Found(r).same /\ Found(r).doc = doc
  BY <1>1, <1>2, <1>3 DEF SettingsRequest, SettingsStage, Fits
<1>5. QED
  BY <1>4 DEF doc

LEMMA CompletedReqType ==
    ASSUME SettingsTyped, NEW r \in Request, settingsReq[r].stage = "complete"
    PROVE  LET q == settingsReq[r] IN
           /\ Completed(r) \in SettingsRequest /\ Fits(Completed(r))
           /\ Completed(r).stage \in {"write", "reply"}
           /\ Completed(r).stage = "reply" => Completed(r).doc = q.doc
           /\ Completed(r).stage = "write" =>
                 Completed(r).doc = PatchedSettings(q.doc, Completed(r).section, Completed(r).value)
<1> DEFINE q == settingsReq[r]
<1>1. q \in SettingsRequest /\ q.doc \in Document
  BY DEF SettingsTyped, SettingsTypeOK, SettingsRequest, Fits
<1>2. CASE q.section = None
  BY <1>1, <1>2 DEF Completed, SettingsRequest, SettingsStage, Fits
<1>3. CASE q.section # None
  <2>1. q.section \in Section /\ q.value \in SettingsValue \cup {"default"}
    BY <1>1, <1>3 DEF SettingsRequest
  <2> DEFINE doc == PatchedSettings(q.doc, q.section, q.value)
  <2>2. doc \in Document
    BY <1>1, <2>1, PatchedType
  <2>3. Completed(r) = [q EXCEPT !.stage = "write", !.same = TRUE, !.doc = doc]
    BY <1>3 DEF Completed
  <2> HIDE DEF doc
  <2>4. /\ Completed(r) \in SettingsRequest /\ Fits(Completed(r))
        /\ Completed(r).stage = "write" /\ Completed(r).doc = doc
        /\ Completed(r).section = q.section /\ Completed(r).value = q.value
    BY <1>1, <2>1, <2>2, <2>3 DEF SettingsRequest, SettingsStage, Fits
  <2>5. QED
    BY <2>4 DEF doc
<1>4. QED
  BY <1>2, <1>3

LEMMA WrittenType ==
    ASSUME SettingsTyped, NEW r \in Request, settingsReq[r].stage = "write"
    PROVE  LET q == [settingsReq[r] EXCEPT !.stage = "reply"] IN
           q \in SettingsRequest /\ Fits(q) /\ q.stage = "reply" /\ q.doc = settingsReq[r].doc
BY DEF SettingsTyped, SettingsTypeOK, SettingsRequest, SettingsStage, Fits

\* Every step keeps the types.
LEMMA SettingsTypedStep == SettingsTyped /\ [SettingsNext]_settingsVars => SettingsTyped'
<1> SUFFICES ASSUME SettingsTyped, [SettingsNext]_settingsVars PROVE SettingsTyped'
  OBVIOUS
<1> DEFINE Typed(reqs) == reqs \in [Request -> SettingsRequest] /\ \A s \in Request : Fits(reqs[s])
<1>0. /\ Typed(settingsReq)
      /\ settingsDb \in Document \cup {None} /\ settings \in Document \cup {None}
      /\ settingsWanted \in Document /\ settingsLost \in BOOLEAN /\ settingsMixed \in BOOLEAN
  BY DEF SettingsTyped, SettingsTypeOK, SettingsRequest
<1>1. ASSUME Typed(settingsReq)', settingsDb' \in Document \cup {None}, settings' \in Document \cup {None},
             settingsWanted' \in Document, settingsLost' \in BOOLEAN, settingsMixed' \in BOOLEAN
      PROVE  SettingsTyped'
  BY <1>1 DEF SettingsTyped, SettingsTypeOK, SettingsRequest
<1>2. ASSUME NEW r \in Request, NEW section \in Section \cup {None},
             NEW value \in SettingsValue \cup {"default"}, SettingsAsked(r, section, value)
      PROVE  SettingsTyped'
  <2>1. Typed(settingsReq)'
    BY <1>2, AskedType, RequestTyped DEF SettingsAsked, NewlyAsked
  <2>2. settingsMixed' \in BOOLEAN
    BY <1>0, <1>2 DEF SettingsAsked, SettingsBusy
  <2>3. QED
    BY <1>0, <1>1, <1>2, <2>1, <2>2 DEF SettingsAsked
<1>3. ASSUME NEW r \in Request, FindSettings(r) PROVE SettingsTyped'
  <2>1. Typed(settingsReq)'
    BY <1>3, FoundType, RequestTyped DEF FindSettings, Found
  <2>2. QED
    BY <1>0, <1>1, <1>3, <2>1 DEF FindSettings
<1>4. ASSUME NEW r \in Request, CompleteSettings(r) PROVE SettingsTyped'
  <2>1. Overwrite(r, Completed(r), CompletedSettings(settingsWanted)) /\ settingsReq[r].stage = "complete"
    BY <1>4 DEF CompleteSettings, Completed
  <2>2. Typed(settingsReq)'
    BY <2>1, CompletedReqType, RequestsTyped DEF Overwrite
  <2>3. settingsReq[r].doc \in Document /\ settingsReq[r].same \in BOOLEAN
    BY <2>1, <1>0 DEF Fits, SettingsRequest
  <2>4. QED
    BY <1>0, <1>1, <2>1, <2>2, <2>3, CompletedType DEF Overwrite
<1>5. ASSUME NEW r \in Request, WriteSettings(r) PROVE SettingsTyped'
  <2>1. Typed(settingsReq)'
    BY <1>5, WrittenType, RequestsTyped DEF WriteSettings, Overwrite
  <2>2. /\ settingsReq[r].doc \in Document /\ settingsReq[r].same \in BOOLEAN
        /\ settingsReq[r].section \in Section /\ settingsReq[r].value \in SettingsValue \cup {"default"}
    BY <1>5, <1>0 DEF Fits, SettingsRequest, WriteSettings
  <2>3. settingsWanted' \in Document
    BY <1>0, <1>5, <2>2, PatchedType DEF WriteSettings, Overwrite, PatchedSettings
  <2>4. QED
    BY <1>0, <1>1, <1>5, <2>1, <2>2, <2>3 DEF WriteSettings, Overwrite
<1>6. ASSUME NEW r \in Request, SettingsReplied(r) PROVE SettingsTyped'
  <2>1. Typed(settingsReq)'
    BY <1>6, NoSettingsReqType, RequestTyped DEF SettingsReplied, SettingsDone
  <2>2. settingsReq[r].doc \in Document
    BY <1>6, <1>0 DEF Fits, SettingsReplied
  <2>3. QED
    BY <1>0, <1>1, <1>6, <2>1, <2>2 DEF SettingsReplied, StoreTakes
<1>7. ASSUME NEW r \in Request, SettingsFail(r) PROVE SettingsTyped'
  <2>1. Typed(settingsReq)'
    BY <1>7, NoSettingsReqType, RequestTyped DEF SettingsFail, SettingsDone
  <2>2. settingsMixed' \in BOOLEAN
    BY <1>0, <1>7 DEF SettingsFail
  <2>3. QED
    BY <1>0, <1>1, <1>7, <2>1, <2>2 DEF SettingsFail
<1>8. CASE SettingsRestart
  <2>1. Typed(settingsReq)'
    BY <1>8, NoSettingsReqType DEF SettingsRestart
  <2>2. QED
    BY <1>0, <1>1, <1>8, <2>1 DEF SettingsRestart
<1>9. CASE UNCHANGED settingsVars
  BY <1>0, <1>1, <1>9 DEF settingsVars
<1>10. QED
  <2>1. ASSUME NEW r \in Request, NEW s \in Section, NEW v \in SettingsValue, PatchSettings(r, s, v)
        PROVE  SettingsTyped'
    BY <1>2, <2>1 DEF PatchSettings
  <2>2. ASSUME NEW r \in Request, LoadSettings(r) PROVE SettingsTyped'
    BY <1>2, <2>2 DEF LoadSettings
  <2>3. QED
    BY <1>3, <1>4, <1>5, <1>6, <1>7, <1>8, <1>9, <2>1, <2>2 DEF SettingsNext

LEMMA SettingsAlwaysTyped == SettingsSpec => []SettingsTyped
BY SettingsTypedStart, SettingsTypedStep, PTL DEF SettingsSpec
-----------------------------------------------------------------------------
(* Settings: no patch is lost.                                             *)

\* What is stored, and a request that writes under `same` makes of what is stored.
Kept ==
    /\ settingsDb = None \/ settingsDb = settingsWanted
    /\ settingsDb = None => settingsWanted = DefaultSettings
    /\ \A r \in Request :
          LET q == settingsReq[r] IN
          /\ q.stage = "complete" /\ q.same =>
                q.doc = IF settingsDb = None THEN DefaultSettings ELSE CompletedSettings(settingsDb)
          /\ q.stage = "write" /\ q.same =>
                settingsDb # None /\ q.doc = PatchedSettings(settingsDb, q.section, q.value)

NothingMissing == settingsLost \/ Kept

\* A step that leaves the document alone, and the requests that hold one.
LEMMA StillKept ==
    ASSUME Kept, UNCHANGED <<settingsDb, settingsWanted>>,
           \A r \in Request : settingsReq'[r].stage \in {"complete", "write"} =>
               settingsReq'[r] = settingsReq[r]
    PROVE  Kept'
BY DEF Kept

\* A request r writes its document: what it goes on with is made of that, and no one else's is.
LEMMA OverwriteKeeps ==
    ASSUME SettingsTyped, NEW r \in Request, NEW q \in SettingsRequest, NEW wanted,
           Overwrite(r, q, wanted), settingsReq[r].doc \in Document, settingsReq[r].doc = wanted,
           q.stage \in {"write", "reply"},
           q.stage = "write" => q.doc = PatchedSettings(settingsReq[r].doc, q.section, q.value)
    PROVE  Kept'
<1>1. settingsDb' = settingsReq[r].doc /\ settingsWanted' = wanted /\ settingsDb' # None
  BY NoneIsNoDocument DEF Overwrite
<1>2. settingsReq'[r] = q
  BY DEF Overwrite
<1>3. ASSUME NEW s \in Request, s # r, settingsReq'[s].stage \in {"complete", "write"}
      PROVE  ~settingsReq'[s].same
  <2>1. settingsReq[s] \in SettingsRequest
    BY DEF SettingsTyped, SettingsTypeOK, SettingsRequest
  <2>2. CASE HoldsSettings(s)
    <3>1. settingsReq'[s] = [settingsReq[s] EXCEPT !.same = FALSE]
      BY <1>3, <2>2 DEF Overwrite
    <3>2. QED
      BY <2>1, <3>1 DEF SettingsRequest
  <2>3. CASE ~HoldsSettings(s)
    <3>1. settingsReq'[s] = settingsReq[s]
      BY <1>3, <2>3 DEF Overwrite
    <3>2. QED
      BY <1>3, <2>3, <3>1 DEF HoldsSettings
  <2>4. QED
    BY <2>2, <2>3
<1>4. QED
  BY <1>1, <1>2, <1>3 DEF Kept

LEMMA KeptStart == SettingsInit => NothingMissing
<1> SUFFICES ASSUME SettingsInit PROVE Kept
  BY DEF NothingMissing
<1>1. settingsWanted # None
  BY SettingsTypedStart, NoneIsNoDocument DEF SettingsTyped, SettingsTypeOK
<1>2. \A r \in Request : settingsReq[r].stage = "idle"
  BY DEF SettingsInit, NoSettingsReq
<1>3. settingsDb = settingsWanted \/ (settingsDb = None /\ settingsWanted = DefaultSettings)
  BY DEF SettingsInit
<1>4. QED
  BY <1>1, <1>2, <1>3 DEF Kept

LEMMA KeptStep == SettingsTyped /\ NothingMissing /\ [SettingsNext]_settingsVars => NothingMissing'
<1> SUFFICES ASSUME SettingsTyped, NothingMissing, [SettingsNext]_settingsVars, ~settingsLost'
             PROVE  Kept'
  BY DEF NothingMissing
<1>0. settingsReq \in [Request -> SettingsRequest] /\ \A r \in Request : Fits(settingsReq[r])
  BY DEF SettingsTyped, SettingsTypeOK, SettingsRequest
<1>1. ~settingsLost => Kept
  BY DEF NothingMissing
<1>2. ASSUME NEW r \in Request, NEW section, NEW value, SettingsAsked(r, section, value) PROVE Kept'
  <2>1. settingsReq'[r].stage = "find"
    BY <1>0, <1>2 DEF SettingsAsked, NoSettingsReq
  <2>2. \A s \in Request \ {r} : settingsReq'[s] = settingsReq[s]
    BY <1>0, <1>2 DEF SettingsAsked
  <2>3. QED
    BY <1>1, <1>2, <2>1, <2>2, StillKept DEF SettingsAsked
<1>3. ASSUME NEW r \in Request, FindSettings(r) PROVE Kept'
  <2>1. settingsReq' = [settingsReq EXCEPT ![r] = Found(r)]
    BY <1>3 DEF FindSettings, Found
  <2>2. /\ settingsReq'[r].stage = "complete"
        /\ settingsReq'[r].doc = IF settingsDb = None THEN DefaultSettings
                                 ELSE CompletedSettings(settingsDb)
    BY <1>0, <1>3, <2>1, FoundType DEF FindSettings
  <2>3. \A s \in Request \ {r} : settingsReq'[s] = settingsReq[s]
    BY <1>0, <2>1
  <2>4. Kept /\ UNCHANGED <<settingsDb, settingsWanted>>
    BY <1>1, <1>3 DEF FindSettings
  <2>5. QED
    BY <2>2, <2>3, <2>4 DEF Kept
<1>4. ASSUME NEW r \in Request, CompleteSettings(r) PROVE Kept'
  <2>1. Overwrite(r, Completed(r), CompletedSettings(settingsWanted)) /\ settingsReq[r].stage = "complete"
    BY <1>4 DEF CompleteSettings, Completed
  <2>2. Kept /\ settingsReq[r].same
    BY <1>1, <2>1 DEF Overwrite
  <2>3. settingsReq[r].doc = CompletedSettings(settingsWanted)
    BY <2>1, <2>2, DefaultType DEF Kept
  <2>4. settingsReq[r].doc \in Document
    BY <1>0, <2>1 DEF Fits
  <2>5. QED
    BY <2>1, <2>3, <2>4, CompletedReqType, OverwriteKeeps
<1>5. ASSUME NEW r \in Request, WriteSettings(r) PROVE Kept'
  <2> DEFINE q == settingsReq[r]
             wanted == [settingsWanted EXCEPT ![q.section] = q.value]
  <2>1. Overwrite(r, [q EXCEPT !.stage = "reply"], wanted) /\ q.stage = "write"
    BY <1>5 DEF WriteSettings
  <2>2. Kept /\ q.same
    BY <1>1, <2>1 DEF Overwrite
  <2>3. q.doc = wanted
    BY <2>1, <2>2 DEF Kept, PatchedSettings
  <2>4. q.doc \in Document
    BY <1>0, <2>1 DEF Fits
  <2> HIDE DEF wanted
  <2>5. QED
    BY <2>1, <2>3, <2>4, WrittenType, OverwriteKeeps
<1>6. ASSUME NEW r \in Request, SettingsDone(r), UNCHANGED <<settingsDb, settingsWanted, settingsLost>>
      PROVE  Kept'
  <2>1. settingsReq'[r].stage = "idle"
    BY <1>0, <1>6 DEF SettingsDone, NoSettingsReq
  <2>2. \A s \in Request \ {r} : settingsReq'[s] = settingsReq[s]
    BY <1>0, <1>6 DEF SettingsDone
  <2>3. QED
    BY <1>1, <1>6, <2>1, <2>2, StillKept
<1>7. CASE SettingsRestart
  <2>1. \A s \in Request : settingsReq'[s].stage = "idle"
    BY <1>7 DEF SettingsRestart, NoSettingsReq
  <2>2. QED
    BY <1>1, <1>7, <2>1, StillKept DEF SettingsRestart
<1>8. CASE UNCHANGED settingsVars
  BY <1>1, <1>8, StillKept DEF settingsVars
<1>9. QED
  <2>1. ASSUME NEW r \in Request, NEW s \in Section, NEW v \in SettingsValue, PatchSettings(r, s, v)
        PROVE  Kept'
    BY <1>2, <2>1 DEF PatchSettings
  <2>2. ASSUME NEW r \in Request, LoadSettings(r) PROVE Kept'
    BY <1>2, <2>2 DEF LoadSettings
  <2>3. ASSUME NEW r \in Request, SettingsReplied(r) PROVE Kept'
    BY <1>6, <2>3 DEF SettingsReplied
  <2>4. ASSUME NEW r \in Request, SettingsFail(r) PROVE Kept'
    BY <1>6, <2>4 DEF SettingsFail
  <2>5. QED
    BY <1>3, <1>4, <1>5, <1>7, <1>8, <2>1, <2>2, <2>3, <2>4 DEF SettingsNext

\* However patches overlap, fail and are interrupted by restarts: every section has what it was
\* last set to, unless a request wrote a document that another had written since it was read.
THEOREM NoPatchIsLost == SettingsSpec => []NoPatchLost
<1>1. NothingMissing => NoPatchLost
  BY DEF NothingMissing, Kept, NoPatchLost
<1>2. QED
  BY <1>1, KeptStart, KeptStep, SettingsAlwaysTyped, PTL DEF SettingsSpec

-----------------------------------------------------------------------------
(* Settings: the store.                                                    *)

\* As long as requests come one after the other and are answered, the document under way to
\* the store is the stored one, and the store has it unless it is still to come.
StoreFollows ==
    /\ \A r, s \in Request :
          settingsReq[r].stage # "idle" /\ settingsReq[s].stage # "idle" => r = s
    /\ \A r \in Request : settingsReq[r].stage = "reply" => settingsReq[r].doc = settingsDb
    /\ \/ settings \in {None, settingsDb}
       \/ \E r \in Request : settingsReq[r].stage \in {"write", "reply"}

StoreInv == settingsMixed \/ StoreFollows

LEMMA StoreStart == SettingsInit => StoreInv
BY DEF SettingsInit, StoreInv, StoreFollows, NoSettingsReq

LEMMA StoreStep == SettingsTyped /\ StoreInv /\ [SettingsNext]_settingsVars => StoreInv'
<1> SUFFICES ASSUME SettingsTyped, StoreInv, [SettingsNext]_settingsVars, ~settingsMixed'
             PROVE  StoreFollows'
  BY DEF StoreInv
<1>0. settingsReq \in [Request -> SettingsRequest] /\ \A r \in Request : Fits(settingsReq[r])
  BY DEF SettingsTyped, SettingsTypeOK, SettingsRequest
<1>1. ~settingsMixed => StoreFollows
  BY DEF StoreInv
<1>2. ASSUME NEW r \in Request, NEW section, NEW value, SettingsAsked(r, section, value)
      PROVE  StoreFollows'
  <2>1. settingsReq'[r].stage = "find"
    BY <1>0, <1>2 DEF SettingsAsked, NoSettingsReq
  <2>2. \A s \in Request \ {r} : settingsReq'[s] = settingsReq[s]
    BY <1>0, <1>2 DEF SettingsAsked
  <2>3. \A s \in Request : settingsReq[s].stage = "idle"
    BY <1>2 DEF SettingsAsked, SettingsBusy
  <2>4. StoreFollows /\ UNCHANGED <<settings, settingsDb>>
    BY <1>1, <1>2 DEF SettingsAsked
  <2>5. QED
    BY <2>1, <2>2, <2>3, <2>4 DEF StoreFollows
<1>3. ASSUME NEW r \in Request, FindSettings(r) PROVE StoreFollows'
  <2>1. settingsReq' = [settingsReq EXCEPT ![r] = Found(r)] /\ settingsReq[r].stage = "find"
    BY <1>3 DEF FindSettings, Found
  <2>2. settingsReq'[r].stage = "complete" /\ \A s \in Request \ {r} : settingsReq'[s] = settingsReq[s]
    BY <1>0, <2>1, FoundType
  <2>3. StoreFollows /\ UNCHANGED <<settings, settingsDb>>
    BY <1>1, <1>3 DEF FindSettings
  <2>4. QED
    BY <2>1, <2>2, <2>3 DEF StoreFollows
<1>4. ASSUME NEW r \in Request, NEW q, NEW wanted, Overwrite(r, q, wanted),
             settingsReq[r].stage # "idle", q.stage \in {"write", "reply"},
             q.stage = "reply" => q.doc = settingsReq[r].doc
      PROVE  StoreFollows'
  <2>1. settingsReq'[r] = q /\ settingsDb' = settingsReq[r].doc
    BY <1>4 DEF Overwrite
  <2>2. StoreFollows
    BY <1>1, <1>4 DEF Overwrite
  <2>3. \A s \in Request \ {r} : settingsReq[s].stage = "idle"
    BY <1>4, <2>2 DEF StoreFollows
  <2>4. \A s \in Request \ {r} : settingsReq'[s].stage = "idle"
    BY <1>4, <2>3 DEF Overwrite, HoldsSettings
  <2>5. QED
    BY <1>4, <2>1, <2>4 DEF StoreFollows
<1>5. ASSUME NEW r \in Request, CompleteSettings(r) PROVE StoreFollows'
  <2>1. Overwrite(r, Completed(r), CompletedSettings(settingsWanted)) /\ settingsReq[r].stage = "complete"
    BY <1>5 DEF CompleteSettings, Completed
  <2>2. QED
    BY <1>4, <2>1, CompletedReqType
<1>6. ASSUME NEW r \in Request, WriteSettings(r) PROVE StoreFollows'
  <2> DEFINE q == settingsReq[r]
             wanted == [settingsWanted EXCEPT ![q.section] = q.value]
  <2>1. Overwrite(r, [q EXCEPT !.stage = "reply"], wanted) /\ q.stage = "write"
    BY <1>6 DEF WriteSettings
  <2> HIDE DEF wanted
  <2>2. QED
    BY <1>4, <2>1, WrittenType
<1>7. ASSUME NEW r \in Request, SettingsDone(r)
      PROVE  settingsReq'[r].stage = "idle" /\ \A s \in Request \ {r} : settingsReq'[s] = settingsReq[s]
  BY <1>0, <1>7 DEF SettingsDone, NoSettingsReq
<1>8. ASSUME NEW r \in Request, SettingsReplied(r) PROVE StoreFollows'
  <2>1. StoreFollows /\ settings' = settingsDb /\ settingsDb' = settingsDb
    BY <1>1, <1>8 DEF SettingsReplied, StoreTakes, StoreFollows
  <2>2. SettingsDone(r)
    BY <1>8 DEF SettingsReplied
  <2>3. QED
    BY <1>7, <2>1, <2>2 DEF StoreFollows
<1>9. ASSUME NEW r \in Request, SettingsFail(r) PROVE StoreFollows'
  <2>1. StoreFollows /\ UNCHANGED <<settings, settingsDb>>
    BY <1>1, <1>9 DEF SettingsFail
  <2>2. settingsReq[r].stage \notin {"idle", "write", "reply"}
    BY <1>9 DEF SettingsFail
  <2>3. settings \in {None, settingsDb}
    BY <2>1, <2>2 DEF StoreFollows
  <2>4. SettingsDone(r)
    BY <1>9 DEF SettingsFail
  <2>5. QED
    BY <1>7, <2>1, <2>3, <2>4 DEF StoreFollows
<1>10. CASE SettingsRestart
  BY <1>10 DEF SettingsRestart, StoreFollows, NoSettingsReq
<1>11. CASE UNCHANGED settingsVars
  BY <1>1, <1>11 DEF settingsVars, StoreFollows
<1>12. QED
  <2>1. ASSUME NEW r \in Request, NEW s \in Section, NEW v \in SettingsValue, PatchSettings(r, s, v)
        PROVE  StoreFollows'
    BY <1>2, <2>1 DEF PatchSettings
  <2>2. ASSUME NEW r \in Request, LoadSettings(r) PROVE StoreFollows'
    BY <1>2, <2>2 DEF LoadSettings
  <2>3. QED
    BY <1>3, <1>5, <1>6, <1>8, <1>9, <1>10, <1>11, <2>1, <2>2 DEF SettingsNext

\* While no request is under way, the store has what the database has, unless requests have
\* overlapped or a reply was lost since the server started.
THEOREM StoreAgrees == SettingsSpec => []StoreHasSettings
<1>1. StoreInv => StoreHasSettings
  BY DEF StoreInv, StoreFollows, StoreHasSettings, SettingsBusy
<1>2. QED
  BY <1>1, StoreStart, StoreStep, SettingsAlwaysTyped, PTL DEF SettingsSpec
-----------------------------------------------------------------------------
(* Sessions: types.                                                        *)

SessionRequest ==
    [stage : SessionStage, u : Member \cup {None}, t : RefreshToken \cup {None}, used : Nat]

Renewing == {"find", "user", "renew", "find2", "read", "write", "drop"}

\* Which fields of a request go with which of its stages
FitsToken(q) ==
    /\ q.stage \in Renewing => q.t \in RefreshToken
    /\ q.stage \in {"idle", "sign", "purge", "create"} => q.t = None
    /\ q.stage \notin {"idle", "find"} => q.u \in Member

\* Requests are about tokens that were given out.
SessionsTyped ==
    /\ SessionsTypeOK
    /\ \A r \in Request : FitsToken(sessionReq[r])
    /\ \A r \in Request : sessionReq[r].t # None => sessionReq[r].t <= given

LEMMA NoSessionReqType ==
    /\ NoSessionReq \in SessionRequest /\ FitsToken(NoSessionReq)
    /\ NoSessionReq.stage = "idle" /\ NoSessionReq.t = None
BY DEF NoSessionReq, SessionRequest, SessionStage, FitsToken, Renewing

LEMMA SessionTyped ==
    ASSUME SessionsTyped, NEW r \in Request
    PROVE  sessionReq[r] \in SessionRequest /\ FitsToken(sessionReq[r])
BY DEF SessionsTyped, SessionsTypeOK, SessionRequest

\* Request r goes on with q, all others with what they have.
LEMMA SessionReplaced ==
    ASSUME SessionsTyped, NEW r \in Request, NEW q, sessionReq' = [sessionReq EXCEPT ![r] = q]
    PROVE  sessionReq'[r] = q /\ \A s \in Request \ {r} : sessionReq'[s] = sessionReq[s]
BY DEF SessionsTyped, SessionsTypeOK

\* A request proceeds to a stage for which it has what it takes.
LEMMA Proceeded ==
    ASSUME SessionsTyped, NEW r \in Request, NEW stage \in SessionStage \ {"idle", "find"}, Proceed(r, stage),
           sessionReq[r].u \in Member,
           stage \in Renewing => sessionReq[r].t \in RefreshToken,
           stage \in {"sign", "purge", "create"} => sessionReq[r].t = None
    PROVE  /\ sessionReq'[r] \in SessionRequest /\ FitsToken(sessionReq'[r])
           /\ sessionReq'[r].stage = stage
           /\ sessionReq'[r].t = sessionReq[r].t /\ sessionReq'[r].u = sessionReq[r].u
           /\ sessionReq'[r].used = sessionReq[r].used
           /\ \A s \in Request \ {r} : sessionReq'[s] = sessionReq[s]
           /\ sessionReq' = [sessionReq EXCEPT ![r] = [sessionReq[r] EXCEPT !.stage = stage]]
<1> DEFINE q == [sessionReq[r] EXCEPT !.stage = stage]
<1>1. sessionReq' = [sessionReq EXCEPT ![r] = q]
  BY DEF Proceed
<1>2. /\ q \in SessionRequest /\ FitsToken(q) /\ q.stage = stage
      /\ q.t = sessionReq[r].t /\ q.u = sessionReq[r].u /\ q.used = sessionReq[r].used
  BY SessionTyped DEF SessionRequest, FitsToken
<1> HIDE DEF q
<1>3. QED
  BY <1>1, <1>2, SessionReplaced DEF q

\* What FindToken makes of request r
LookedUp(r, stage) ==
    LET tok == tokens[sessionReq[r].t] IN
    IF tok.user = None THEN NoSessionReq
    ELSE [sessionReq[r] EXCEPT !.u = tok.user, !.used = tok.used,
              !.stage = IF tok.expired THEN "logout" ELSE IF stage = "find" THEN "user" ELSE "read"]

LEMMA LookedUpType ==
    ASSUME SessionsTyped, NEW r \in Request, NEW stage \in {"find", "find2"}, SessionAt(r, stage)
    PROVE  LET q == sessionReq[r]
               new == LookedUp(r, stage)
           IN  /\ new \in SessionRequest /\ FitsToken(new)
               /\ new.stage \in {"idle", "logout", "user", "read"}
               /\ new.t \in {None, q.t}
               /\ new.stage = "read" =>
                     /\ stage = "find2" /\ new.used = tokens[q.t].used
                     /\ tokens[q.t].user # None
<1> DEFINE q == sessionReq[r]
           tok == tokens[q.t]
           to == IF tok.expired THEN "logout" ELSE IF stage = "find" THEN "user" ELSE "read"
<1>1. q \in SessionRequest /\ q.t \in RefreshToken
  BY SessionTyped DEF FitsToken, Renewing, SessionAt
<1>2. tok \in [user : Member \cup {None}, used : Nat, expired : BOOLEAN]
  BY <1>1 DEF SessionsTyped, SessionsTypeOK
<1>3. CASE tok.user = None
  BY <1>3, NoSessionReqType DEF LookedUp
<1>4. CASE tok.user # None
  <2>1. to \in {"logout", "user", "read"} /\ (to = "read" => stage = "find2")
    OBVIOUS
  <2>2. tok.user \in Member /\ tok.used \in Nat
    BY <1>2, <1>4
  <2> DEFINE new == [q EXCEPT !.u = tok.user, !.used = tok.used, !.stage = to]
  <2>3. LookedUp(r, stage) = new
    BY <1>4 DEF LookedUp
  <2> HIDE DEF to, tok
  <2>4. /\ new \in SessionRequest /\ FitsToken(new) /\ new.stage = to
        /\ new.t = q.t /\ new.used = tok.used
    BY <1>1, <2>1, <2>2 DEF SessionRequest, SessionStage, FitsToken, Renewing
  <2> HIDE DEF new
  <2>5. QED
    BY <1>4, <2>1, <2>3, <2>4 DEF tok
<1>5. QED
  BY <1>3, <1>4

LEMMA TokenType ==
    ASSUME SessionsTyped, NEW ts
    PROVE  /\ Gone(ts) \in [RefreshToken -> [user : Member \cup {None}, used : Nat, expired : BOOLEAN]]
           /\ \A t \in RefreshToken : Gone(ts)[t] = IF t \in ts THEN NoToken ELSE tokens[t]
           /\ NoToken.user = None /\ NoToken.used = 0
BY DEF Gone, NoToken, SessionsTyped, SessionsTypeOK

TokenRec == [user : Member \cup {None}, used : Nat, expired : BOOLEAN]

\* Everything but the requests is well-typed.
RestTyped ==
    /\ member \in [Member -> {"verified", "unverified", "deleted"}]
    /\ tokens \in [RefreshToken -> TokenRec]
    /\ given \in 0..MaxToken
    /\ renewed \in [RefreshToken -> Nat]
    /\ sessionMixed \subseteq RefreshToken /\ strays \subseteq Member

\* One request goes on, about the token it was about or about one that was given out.
LEMMA TypedAfter ==
    ASSUME SessionsTyped, NEW r \in Request, NEW q \in SessionRequest, FitsToken(q),
           sessionReq' = [sessionReq EXCEPT ![r] = q],
           q.t # None => q.t = sessionReq[r].t \/ q.t <= given,
           RestTyped', given' >= given
    PROVE  SessionsTyped'
<1>1. sessionReq \in [Request -> SessionRequest] /\ given \in Nat /\ given' \in Nat
  BY SessionsAssumption DEF SessionsTyped, SessionsTypeOK, SessionRequest, RestTyped
<1>2. sessionReq' \in [Request -> SessionRequest]
  BY <1>1
<1>3. \A s \in Request : FitsToken(sessionReq'[s])
  BY SessionReplaced DEF SessionsTyped
<1>4. ASSUME NEW s \in Request, sessionReq'[s].t # None PROVE sessionReq'[s].t <= given'
  <2>1. sessionReq'[s].t \in RefreshToken
    BY <1>2, <1>4 DEF SessionRequest
  <2>2. sessionReq'[s].t <= given
    <3>1. CASE s = r
      BY <1>4, <3>1, SessionReplaced DEF SessionsTyped
    <3>2. CASE s # r
      BY <1>4, <3>2, SessionReplaced DEF SessionsTyped
    <3>3. QED
      BY <3>1, <3>2
  <2>3. QED
    BY <1>1, <2>1, <2>2, SessionsAssumption DEF RefreshToken
<1>5. QED
  BY <1>2, <1>3, <1>4 DEF SessionsTyped, SessionsTypeOK, SessionRequest, RestTyped, TokenRec

\* ... or all requests are gone, or unchanged.
LEMMA TypedIdle ==
    ASSUME SessionsTyped, RestTyped', UNCHANGED given,
           sessionReq' = sessionReq \/ sessionReq' = [r \in Request |-> NoSessionReq]
    PROVE  SessionsTyped'
<1>1. CASE sessionReq' = sessionReq
  BY <1>1 DEF SessionsTyped, SessionsTypeOK, RestTyped, TokenRec
<1>2. CASE sessionReq' = [r \in Request |-> NoSessionReq]
  BY <1>2, NoSessionReqType DEF SessionsTyped, SessionsTypeOK, SessionRequest, RestTyped, TokenRec
<1>3. QED
  BY <1>1, <1>2

LEMMA RestUnchanged ==
    ASSUME SessionsTyped PROVE RestTyped /\ given \in Nat
BY SessionsAssumption DEF SessionsTyped, SessionsTypeOK, RestTyped, TokenRec

LEMMA SessionsTypedStart == SessionsInit => SessionsTyped
<1> SUFFICES ASSUME SessionsInit PROVE SessionsTyped
  OBVIOUS
<1>1. sessionReq \in [Request -> SessionRequest]
  BY NoSessionReqType DEF SessionsInit
<1>2. \A r \in Request : FitsToken(sessionReq[r]) /\ sessionReq[r].t = None
  BY NoSessionReqType DEF SessionsInit
<1>3. RestTyped
  BY SessionsAssumption DEF SessionsInit, RestTyped, TokenRec, NoToken
<1>4. QED
  BY <1>1, <1>2, <1>3 DEF SessionsTyped, SessionsTypeOK, SessionRequest, RestTyped, TokenRec

\* A request starts.
LEMMA AskedTyped ==
    ASSUME SessionsTyped, NEW r \in Request, NEW stage \in SessionStage, NEW u, NEW t,
           AskSession(r, stage, u, t),
           \/ stage \in {"sign", "logout"} /\ u \in Member /\ t = None
           \/ stage = "find" /\ u = None /\ t \in RefreshToken /\ t <= given,
           RestTyped', UNCHANGED given
    PROVE  SessionsTyped'
<1> DEFINE q == [stage |-> stage, u |-> u, t |-> t, used |-> 0]
<1>1. q \in SessionRequest /\ FitsToken(q) /\ q.t = t
  BY DEF SessionRequest, FitsToken, Renewing
<1>2. sessionReq' = [sessionReq EXCEPT ![r] = q]
  BY DEF AskSession
<1> HIDE DEF q
<1>3. given' >= given
  BY RestUnchanged
<1>4. QED
  BY <1>1, <1>2, <1>3, TypedAfter

\* A request is answered.
LEMMA AnsweredTyped ==
    ASSUME SessionsTyped, NEW r \in Request, SessionAnswered(r), RestTyped', given' >= given
    PROVE  SessionsTyped'
BY NoSessionReqType, TypedAfter DEF SessionAnswered

\* A request proceeds.
LEMMA ProceededTyped ==
    ASSUME SessionsTyped, NEW r \in Request, NEW stage \in SessionStage \ {"idle", "find"}, Proceed(r, stage),
           sessionReq[r].u \in Member,
           stage \in Renewing => sessionReq[r].t \in RefreshToken,
           stage \in {"sign", "purge", "create"} => sessionReq[r].t = None,
           RestTyped', UNCHANGED given
    PROVE  SessionsTyped'
<1> DEFINE q == sessionReq'[r]
<1>1. /\ q \in SessionRequest /\ FitsToken(q) /\ q.t = sessionReq[r].t
      /\ sessionReq' = [sessionReq EXCEPT ![r] = q]
  BY Proceeded, SessionReplaced
<1> HIDE DEF q
<1>2. given' >= given
  BY RestUnchanged
<1>3. QED
  BY <1>1, <1>2, TypedAfter

\* What the stage of a request says of it
LEMMA StageFields ==
    ASSUME SessionsTyped, NEW r \in Request
    PROVE  /\ sessionReq[r].stage \in Renewing => sessionReq[r].t \in RefreshToken
           /\ sessionReq[r].stage \in {"idle", "sign", "purge", "create"} => sessionReq[r].t = None
           /\ sessionReq[r].stage \notin {"idle", "find"} => sessionReq[r].u \in Member
           /\ sessionReq[r].used \in Nat
BY SessionTyped DEF FitsToken, SessionRequest

LEMMA SessionsTypedStep == SessionsTyped /\ [SessionsNext]_sessionVars => SessionsTyped'
<1> SUFFICES ASSUME SessionsTyped, [SessionsNext]_sessionVars PROVE SessionsTyped'
  OBVIOUS
<1> USE DEF SessionAt
<1>0. RestTyped /\ given \in Nat
  BY RestUnchanged
<1>1. ASSUME NEW r \in Request, NEW u \in Member, Login(r, u) \/ Logout(r, u) \/ DeleteMember(r, u)
      PROVE  SessionsTyped'
  <2>1. RestTyped'
    BY <1>0, <1>1 DEF Login, Logout, DeleteMember, RestTyped
  <2>2. CASE Login(r, u)
    <3>1. AskSession(r, "sign", u, None) /\ UNCHANGED given
      BY <2>2 DEF Login
    <3>2. QED
      BY <2>1, <3>1, AskedTyped DEF SessionStage
  <2>3. CASE Logout(r, u) \/ DeleteMember(r, u)
    <3>1. AskSession(r, "logout", u, None) /\ UNCHANGED given
      BY <2>3 DEF Logout, DeleteMember
    <3>2. QED
      BY <2>1, <3>1, AskedTyped DEF SessionStage
  <2>4. QED
    BY <1>1, <2>2, <2>3
<1>2. ASSUME NEW r \in Request, NEW t \in RefreshToken, Renew(r, t) PROVE SessionsTyped'
  <2>1. RestTyped'
    BY <1>0, <1>2 DEF Renew, RestTyped
  <2>2. AskSession(r, "find", None, t) /\ UNCHANGED given /\ t <= given
    BY <1>2 DEF Renew
  <2>3. QED
    BY <2>1, <2>2, AskedTyped DEF SessionStage
<1>3. ASSUME NEW r \in Request, NEW stage \in {"find", "find2"}, FindToken(r, stage) PROVE SessionsTyped'
  <2> DEFINE q == LookedUp(r, stage)
  <2>1. sessionReq' = [sessionReq EXCEPT ![r] = q] /\ SessionAt(r, stage)
    BY <1>3 DEF FindToken, LookedUp
  <2>2. q \in SessionRequest /\ FitsToken(q) /\ q.t \in {None, sessionReq[r].t}
    BY <2>1, LookedUpType
  <2>3. RestTyped' /\ given' >= given
    BY <1>0, <1>3 DEF FindToken, RestTyped
  <2> HIDE DEF q
  <2>4. QED
    BY <2>1, <2>2, <2>3, TypedAfter
<1>4. ASSUME NEW r \in Request, LoginSigned(r) PROVE SessionsTyped'
  <2>1. RestTyped' /\ UNCHANGED given /\ given' >= given
    BY <1>0, <1>4 DEF LoginSigned, RestTyped
  <2>2. sessionReq[r].u \in Member /\ sessionReq[r].t = None
    BY <1>4, StageFields DEF LoginSigned
  <2>3. Proceed(r, "purge") \/ SessionAnswered(r)
    BY <1>4 DEF LoginSigned
  <2>4. QED
    BY <2>1, <2>2, <2>3, ProceededTyped, AnsweredTyped DEF SessionStage, Renewing
<1>5. ASSUME NEW r \in Request, PurgeOutdated(r) PROVE SessionsTyped'
  <2>1. RestTyped' /\ UNCHANGED given
    BY <1>0, <1>5, TokenType DEF PurgeOutdated, RestTyped, TokenRec
  <2>2. sessionReq[r].u \in Member /\ sessionReq[r].t = None
    BY <1>5, StageFields DEF PurgeOutdated
  <2>3. Proceed(r, "create")
    BY <1>5 DEF PurgeOutdated
  <2>4. QED
    BY <2>1, <2>2, <2>3, ProceededTyped DEF SessionStage, Renewing
<1>6. ASSUME NEW r \in Request, CreateToken(r) PROVE SessionsTyped'
  <2>1. sessionReq[r].u \in Member
    BY <1>6, StageFields DEF CreateToken
  <2>2. [NoToken EXCEPT !.user = sessionReq[r].u] \in TokenRec
    BY <2>1 DEF NoToken, TokenRec
  <2>3. given' \in 0..MaxToken /\ given' >= given
    BY <1>0, <1>6, SessionsAssumption DEF CreateToken, RestTyped
  <2>4. RestTyped'
    BY <1>0, <1>6, <2>2, <2>3 DEF CreateToken, RestTyped
  <2>5. QED
    BY <1>6, <2>3, <2>4, AnsweredTyped DEF CreateToken
<1>7. ASSUME NEW r \in Request, FindTokenUser(r) \/ RenewSigned(r) \/ CheckAttempts(r) PROVE SessionsTyped'
  <2>1. RestTyped' /\ UNCHANGED given /\ given' >= given
    BY <1>0, <1>7 DEF FindTokenUser, RenewSigned, CheckAttempts, RestTyped
  <2>2. sessionReq[r].u \in Member /\ sessionReq[r].t \in RefreshToken
    BY <1>7, StageFields DEF FindTokenUser, RenewSigned, CheckAttempts, Renewing
  <2>3. SessionAnswered(r) \/ \E stage \in {"drop", "renew", "find2", "logout", "write"} : Proceed(r, stage)
    BY <1>7 DEF FindTokenUser, RenewSigned, CheckAttempts
  <2>4. QED
    BY <2>1, <2>2, <2>3, ProceededTyped, AnsweredTyped DEF SessionStage
<1>8. ASSUME NEW r \in Request, DropToken(r) \/ EndSessions(r) PROVE SessionsTyped'
  <2>1. PICK ts : tokens' = Gone(ts)
    BY <1>8 DEF DropToken, EndSessions
  <2>2. RestTyped' /\ given' >= given
    BY <1>0, <1>8, <2>1, TokenType DEF DropToken, EndSessions, RestTyped, TokenRec
  <2>3. QED
    BY <1>8, <2>2, AnsweredTyped DEF DropToken, EndSessions
<1>9. ASSUME NEW r \in Request, CountAttempt(r) PROVE SessionsTyped'
  <2>1. sessionReq[r].t \in RefreshToken /\ sessionReq[r].used \in Nat
    BY <1>9, StageFields DEF CountAttempt, Renewing
  <2>2. renewed' \in [RefreshToken -> Nat]
    BY <1>0, <1>9, <2>1 DEF CountAttempt, RestTyped
  <2>3. tokens' \in [RefreshToken -> TokenRec]
    <3>1. [tokens[sessionReq[r].t] EXCEPT !.used = sessionReq[r].used + 1] \in TokenRec
      BY <1>0, <2>1 DEF RestTyped, TokenRec
    <3>2. QED
      BY <1>0, <1>9, <2>1, <3>1 DEF CountAttempt, RestTyped
  <2>4. RestTyped' /\ given' >= given
    BY <1>0, <1>9, <2>2, <2>3 DEF CountAttempt, RestTyped
  <2>5. QED
    BY <1>9, <2>4, AnsweredTyped DEF CountAttempt
<1>10. ASSUME NEW r \in Request, SessionFails(r) PROVE SessionsTyped'
  <2>1. RestTyped' /\ given' >= given
    BY <1>0, <1>10 DEF SessionFails, RestTyped, Unended
  <2>2. QED
    BY <1>10, <2>1, AnsweredTyped DEF SessionFails
<1>11. ASSUME NEW t \in RefreshToken, ExpireToken(t) PROVE SessionsTyped'
  <2>1. [tokens[t] EXCEPT !.expired = TRUE] \in TokenRec
    BY <1>0 DEF RestTyped, TokenRec
  <2>2. tokens' = [tokens EXCEPT ![t] = [tokens[t] EXCEPT !.expired = TRUE]]
    BY <1>11 DEF ExpireToken
  <2>3. RestTyped'
    BY <1>0, <1>11, <2>1, <2>2 DEF ExpireToken, RestTyped
  <2>4. QED
    BY <1>11, <2>3, TypedIdle DEF ExpireToken
<1>12. ASSUME NEW u \in Member, VerifyMember(u) PROVE SessionsTyped'
  <2>1. RestTyped'
    BY <1>0, <1>12 DEF VerifyMember, RestTyped
  <2>2. QED
    BY <1>12, <2>1, TypedIdle DEF VerifyMember
<1>13. CASE SessionsRestart
  <2>1. RestTyped'
    BY <1>0, <1>13 DEF SessionsRestart, RestTyped, Unended
  <2>2. QED
    BY <1>13, <2>1, TypedIdle DEF SessionsRestart
<1>14. CASE UNCHANGED sessionVars
  BY <1>0, <1>14, TypedIdle DEF sessionVars, RestTyped
<1>15. QED
  BY <1>1, <1>2, <1>3, <1>4, <1>5, <1>6, <1>7, <1>8, <1>9, <1>10, <1>11, <1>12, <1>13, <1>14
  DEF SessionsNext

LEMMA SessionsAlwaysTyped == SessionsSpec => []SessionsTyped
BY SessionsTypedStart, SessionsTypedStep, PTL DEF SessionsSpec
-----------------------------------------------------------------------------
(* Sessions: renewals are counted.                                         *)

\* A token that is renewed by one request at a time: what the request has read is what the
\* document says, which is at least what the token was exchanged for.
CountedToken(t) ==
    /\ \A r, s \in Request : sessionReq[r].t = t /\ sessionReq[s].t = t => r = s
    /\ t > given => tokens[t].user = None /\ renewed[t] = 0
    /\ RefreshAttempts = -1 \/ renewed[t] <= RefreshAttempts
    /\ tokens[t].user = None \/ renewed[t] <= tokens[t].used
    /\ \A r \in Request :
          LET q == sessionReq[r] IN
          q.t = t /\ q.stage \in {"read", "write"} =>
              /\ renewed[t] <= q.used
              /\ tokens[t].user = None \/ q.used = tokens[t].used
              /\ q.stage = "write" => ~Exceeded(q.used)

UsesCounted == \A t \in RefreshToken \ sessionMixed : CountedToken(t)

\* A step that neither counts nor lets a request about t come to the count.
LEMMA StillCounted ==
    ASSUME SessionsTyped, NEW t \in RefreshToken, CountedToken(t), renewed'[t] = renewed[t],
           given \in Nat, given' \in Nat, given' >= given,
           \/ tokens'[t].user = None
           \/ tokens'[t].user = tokens[t].user /\ tokens'[t].used = tokens[t].used,
           \A r \in Request : sessionReq'[r].t = t =>
               /\ sessionReq[r].t = t
               /\ sessionReq'[r].stage \notin {"read", "write"} \/ sessionReq'[r] = sessionReq[r]
    PROVE  CountedToken(t)'
<1>1. t \in Nat
  BY SessionsAssumption DEF RefreshToken
<1>2. t > given' => t > given
  BY <1>1
<1>3. \A n : Exceeded(n)' <=> Exceeded(n)
  BY DEF Exceeded
<1>4. QED
  BY <1>2, <1>3 DEF CountedToken

\* ... of one request, with no token other than its own
LEMMA StillCountedBy ==
    ASSUME SessionsTyped, UsesCounted, NEW r \in Request, NEW q, sessionReq' = [sessionReq EXCEPT ![r] = q],
           q.t \in {None, sessionReq[r].t}, q.stage \notin {"read", "write"},
           UNCHANGED <<renewed, given, sessionMixed>>,
           tokens' = tokens \/ \E ts : tokens' = Gone(ts)
    PROVE  UsesCounted'
<1> SUFFICES ASSUME NEW t \in RefreshToken \ sessionMixed PROVE CountedToken(t)'
  BY DEF UsesCounted
<1>1. CountedToken(t) /\ t # None /\ given \in Nat
  BY SessionsAssumption, RestUnchanged DEF UsesCounted, RefreshToken
<1>2. tokens'[t].user = None \/ tokens'[t] = tokens[t]
  BY TokenType
<1>3. \A s \in Request : sessionReq'[s].t = t =>
          /\ sessionReq[s].t = t
          /\ sessionReq'[s].stage \notin {"read", "write"} \/ sessionReq'[s] = sessionReq[s]
  <2>1. sessionReq'[r] = q /\ \A s \in Request \ {r} : sessionReq'[s] = sessionReq[s]
    BY SessionReplaced
  <2>2. QED
    BY <1>1, <2>1
<1>4. QED
  BY <1>1, <1>2, <1>3, StillCounted

\* ... of no request, or of all
LEMMA StillCountedIdle ==
    ASSUME SessionsTyped, UsesCounted,
           sessionReq' = sessionReq \/ sessionReq' = [r \in Request |-> NoSessionReq],
           UNCHANGED <<renewed, given, sessionMixed>>,
           \A t \in RefreshToken : tokens'[t].user = tokens[t].user /\ tokens'[t].used = tokens[t].used
    PROVE  UsesCounted'
<1> SUFFICES ASSUME NEW t \in RefreshToken \ sessionMixed PROVE CountedToken(t)'
  BY DEF UsesCounted
<1>1. CountedToken(t) /\ t # None /\ given \in Nat
  BY SessionsAssumption, RestUnchanged DEF UsesCounted, RefreshToken
<1>2. \A s \in Request : sessionReq'[s] = sessionReq[s] \/ sessionReq'[s].t = None
  BY NoSessionReqType
<1>3. QED
  BY <1>1, <1>2, StillCounted

LEMMA CountedStart == SessionsInit => UsesCounted
<1> SUFFICES ASSUME SessionsInit, NEW t \in RefreshToken PROVE CountedToken(t)
  BY DEF UsesCounted
<1>1. t # None /\ \A r \in Request : sessionReq[r].t = None
  BY SessionsAssumption, NoSessionReqType DEF SessionsInit, RefreshToken
<1>2. tokens[t].user = None /\ renewed[t] = 0
  BY DEF SessionsInit, NoToken
<1>3. QED
  BY <1>1, <1>2, SessionsAssumption DEF CountedToken

\* A renewal begins: if the token is not one of which two have overlapped now, it is alone.
LEMMA RenewCounted ==
    ASSUME SessionsTyped, UsesCounted, NEW r \in Request, NEW t \in RefreshToken, Renew(r, t)
    PROVE  UsesCounted'
<1> SUFFICES ASSUME NEW x \in RefreshToken \ sessionMixed' PROVE CountedToken(x)'
  BY DEF UsesCounted
<1> DEFINE q == [stage |-> "find", u |-> None, t |-> t, used |-> 0]
<1>1. x \notin sessionMixed /\ (x = t => \A s \in Request : sessionReq[s].t # t)
  BY DEF Renew
<1>2. CountedToken(x) /\ given \in Nat /\ UNCHANGED <<tokens, given, renewed>>
  BY <1>1, RestUnchanged DEF UsesCounted, Renew
<1>3. sessionReq'[r] = q /\ \A s \in Request \ {r} : sessionReq'[s] = sessionReq[s]
  BY SessionReplaced DEF Renew, AskSession
<1>4. CASE x # t
  <2>1. \A s \in Request : sessionReq'[s].t = x => s # r
    BY <1>3, <1>4
  <2>2. QED
    BY <1>2, <1>3, <2>1, StillCounted
<1>5. CASE x = t
  <2>1. \A s \in Request : sessionReq'[s].t = x => s = r
    BY <1>1, <1>3, <1>5
  <2>2. sessionReq'[r].stage = "find"
    BY <1>3
  <2>3. QED
    BY <1>2, <2>1, <2>2 DEF CountedToken
<1>6. QED
  BY <1>4, <1>5

\* A renewal reads the attempts a second time.
LEMMA FindCounted ==
    ASSUME SessionsTyped, UsesCounted, NEW r \in Request, NEW stage \in {"find", "find2"}, FindToken(r, stage)
    PROVE  UsesCounted'
<1> DEFINE q == LookedUp(r, stage)
           t == sessionReq[r].t
<1>1. sessionReq' = [sessionReq EXCEPT ![r] = q] /\ SessionAt(r, stage)
  BY DEF FindToken, LookedUp
<1>2. /\ q.stage \in {"idle", "logout", "user", "read"} /\ q.t \in {None, t}
      /\ q.stage = "read" => q.used = tokens[t].used /\ tokens[t].user # None
  BY <1>1, LookedUpType
<1> HIDE DEF q
<1>3. UNCHANGED <<tokens, renewed, given, sessionMixed>>
  BY DEF FindToken
<1>4. CASE q.stage # "read"
  BY <1>1, <1>2, <1>3, <1>4, StillCountedBy
<1>5. CASE q.stage = "read"
  <2> SUFFICES ASSUME NEW x \in RefreshToken \ sessionMixed PROVE CountedToken(x)'
    BY <1>3 DEF UsesCounted
  <2>1. CountedToken(x) /\ given \in Nat
    BY RestUnchanged DEF UsesCounted
  <2>2. sessionReq'[r] = q /\ \A s \in Request \ {r} : sessionReq'[s] = sessionReq[s]
    BY <1>1, SessionReplaced
  <2>3. x # None
    BY SessionsAssumption DEF RefreshToken
  <2>4. CASE x # t
    BY <1>2, <1>3, <2>1, <2>2, <2>3, <2>4, StillCounted
  <2>5. CASE x = t
    <3>1. \A s \in Request : sessionReq'[s].t = x => sessionReq[s].t = x
      BY <1>2, <2>2, <2>3, <2>5
    <3>2. \A s \in Request : sessionReq'[s].t = x => s = r
      BY <2>1, <2>5, <3>1 DEF CountedToken
    <3>3. renewed[x] <= q.used /\ q.used = tokens[x].used
      BY <1>2, <1>5, <2>1, <2>5 DEF CountedToken
    <3>4. QED
      BY <1>3, <1>5, <2>1, <2>2, <3>2, <3>3 DEF CountedToken
  <2>6. QED
    BY <2>4, <2>5
<1>6. QED
  BY <1>4, <1>5

\* ... and compares them with the limit.
LEMMA CheckCounted ==
    ASSUME SessionsTyped, UsesCounted, NEW r \in Request, CheckAttempts(r)
    PROVE  UsesCounted'
<1> DEFINE t == sessionReq[r].t
<1>0. SessionAt(r, "read") /\ UNCHANGED <<tokens, renewed, given, sessionMixed>>
  BY DEF CheckAttempts
<1>1. sessionReq[r].u \in Member /\ t \in RefreshToken
  BY <1>0, StageFields DEF SessionAt, Renewing
<1>2. CASE SessionAnswered(r)
  BY <1>0, <1>2, NoSessionReqType, StillCountedBy DEF SessionAnswered
<1>3. CASE Proceed(r, "logout")
  <2>1. /\ sessionReq'[r].stage = "logout" /\ sessionReq'[r].t = t
        /\ sessionReq' = [sessionReq EXCEPT ![r] = sessionReq'[r]]
    BY <1>1, <1>3, Proceeded, SessionReplaced DEF SessionStage
  <2>2. QED
    BY <1>0, <2>1, StillCountedBy
<1>4. CASE Proceed(r, "write") /\ ~Exceeded(sessionReq[r].used)
  <2> SUFFICES ASSUME NEW x \in RefreshToken \ sessionMixed PROVE CountedToken(x)'
    BY <1>0 DEF UsesCounted
  <2>1. CountedToken(x) /\ given \in Nat
    BY RestUnchanged DEF UsesCounted
  <2>2. /\ sessionReq'[r].stage = "write" /\ sessionReq'[r].t = t
        /\ sessionReq'[r].used = sessionReq[r].used
        /\ \A s \in Request \ {r} : sessionReq'[s] = sessionReq[s]
    BY <1>1, <1>4, Proceeded DEF SessionStage
  <2>3. CASE x # t
    BY <1>0, <2>1, <2>2, <2>3, StillCounted
  <2>4. CASE x = t
    <3>1. \A s \in Request : sessionReq'[s].t = x => s = r
      BY <2>1, <2>2, <2>4 DEF CountedToken
    <3>2. QED
      BY <1>0, <1>4, <2>1, <2>2, <2>4, <3>1 DEF CountedToken, SessionAt, Exceeded
  <2>5. QED
    BY <2>3, <2>4
<1>5. QED
  BY <1>2, <1>3, <1>4 DEF CheckAttempts

\* The renewal is counted, for the token alone: no other request is about it.
LEMMA CountAttemptCounted ==
    ASSUME SessionsTyped, UsesCounted, NEW r \in Request, CountAttempt(r)
    PROVE  UsesCounted'
<1> SUFFICES ASSUME NEW x \in RefreshToken \ sessionMixed PROVE CountedToken(x)'
  BY DEF UsesCounted, CountAttempt
<1> DEFINE t == sessionReq[r].t
           used == sessionReq[r].used
<1>1. t \in RefreshToken /\ used \in Nat /\ SessionAt(r, "write")
  BY StageFields DEF CountAttempt, SessionAt, Renewing
<1>2. CountedToken(x) /\ given \in Nat /\ RestTyped /\ UNCHANGED given
  BY RestUnchanged DEF UsesCounted, CountAttempt
<1>3. sessionReq'[r] = NoSessionReq /\ \A s \in Request \ {r} : sessionReq'[s] = sessionReq[s]
  BY SessionReplaced DEF CountAttempt, SessionAnswered
<1>4. x # None
  BY SessionsAssumption DEF RefreshToken
<1>5. CASE x # t
  <2>1. renewed'[x] = renewed[x] /\ tokens'[x] = tokens[x]
    BY <1>1, <1>2, <1>5 DEF CountAttempt, RestTyped
  <2>2. QED
    BY <1>2, <1>3, <1>4, <2>1, NoSessionReqType, StillCounted
<1>6. CASE x = t
  <2>1. \A s \in Request : sessionReq'[s].t # x
    BY <1>2, <1>3, <1>4, <1>6, NoSessionReqType DEF CountedToken
  <2>2. renewed[x] \in Nat /\ renewed'[x] = renewed[x] + 1
    BY <1>1, <1>2, <1>6 DEF CountAttempt, RestTyped
  <2>3. renewed[x] <= used /\ ~Exceeded(used)
    BY <1>1, <1>2, <1>6 DEF CountedToken, SessionAt
  <2>4. tokens'[x].user = None \/ tokens'[x].used = used + 1
    BY <1>1, <1>2, <1>6 DEF CountAttempt, RestTyped, TokenRec
  <2>5. x <= given
    BY <1>4, <1>6 DEF SessionsTyped
  <2>6. x \in Nat
    BY SessionsAssumption DEF RefreshToken
  <2>7. RefreshAttempts = -1 \/ renewed'[x] <= RefreshAttempts
    BY <1>1, <2>2, <2>3, SessionsAssumption DEF Exceeded
  <2>8. tokens'[x].user = None \/ renewed'[x] <= tokens'[x].used
    BY <1>1, <2>2, <2>3, <2>4
  <2>9. ~(x > given')
    BY <1>2, <2>5, <2>6
  <2>10. QED
    BY <2>1, <2>7, <2>8, <2>9 DEF CountedToken
<1>7. QED
  BY <1>5, <1>6

\* The token that is created is one no request is about.
LEMMA CreateCounted ==
    ASSUME SessionsTyped, UsesCounted, NEW r \in Request, CreateToken(r)
    PROVE  UsesCounted'
<1> SUFFICES ASSUME NEW x \in RefreshToken \ sessionMixed PROVE CountedToken(x)'
  BY DEF UsesCounted, CreateToken
<1>1. CountedToken(x) /\ given \in Nat /\ RestTyped /\ given' = given + 1 /\ UNCHANGED renewed
  BY RestUnchanged DEF UsesCounted, CreateToken
<1>2. sessionReq'[r] = NoSessionReq /\ \A s \in Request \ {r} : sessionReq'[s] = sessionReq[s]
  BY SessionReplaced DEF CreateToken, SessionAnswered
<1>3. x \in Nat /\ x # None
  BY SessionsAssumption DEF RefreshToken
<1>4. CASE x # given'
  <2>1. tokens'[x] = tokens[x]
    BY <1>1, <1>4 DEF CreateToken, RestTyped
  <2>2. QED
    BY <1>1, <1>2, <1>3, <2>1, NoSessionReqType, StillCounted
<1>5. CASE x = given'
  <2>1. x > given /\ ~(x > given')
    BY <1>1, <1>5
  <2>2. renewed'[x] = 0
    BY <1>1, <2>1 DEF CountedToken
  <2>3. \A s \in Request : sessionReq[s].t # x
    BY <1>1, <1>3, <2>1 DEF SessionsTyped
  <2>4. \A s \in Request : sessionReq'[s].t # x
    BY <1>2, <1>3, <2>3, NoSessionReqType
  <2>5. tokens'[x] = [NoToken EXCEPT !.user = sessionReq[r].u]
    BY <1>1, <1>5 DEF CreateToken, RestTyped
  <2>6. tokens'[x].used = 0
    BY <2>5 DEF NoToken
  <2>7. QED
    BY <2>1, <2>2, <2>4, <2>6, SessionsAssumption DEF CountedToken
<1>6. QED
  BY <1>4, <1>5

LEMMA CountedStep == SessionsTyped /\ UsesCounted /\ [SessionsNext]_sessionVars => UsesCounted'
<1> SUFFICES ASSUME SessionsTyped, UsesCounted, [SessionsNext]_sessionVars PROVE UsesCounted'
  OBVIOUS
<1>1. ASSUME NEW r \in Request, NEW u \in Member, Login(r, u) \/ Logout(r, u) \/ DeleteMember(r, u)
      PROVE  UsesCounted'
  <2>1. PICK stage \in {"sign", "logout"} : AskSession(r, stage, u, None)
    BY <1>1 DEF Login, Logout, DeleteMember
  <2> DEFINE q == [stage |-> stage, u |-> u, t |-> None, used |-> 0]
  <2>2. sessionReq' = [sessionReq EXCEPT ![r] = q] /\ q.t = None /\ q.stage \notin {"read", "write"}
    BY <2>1 DEF AskSession
  <2> HIDE DEF q
  <2>3. UNCHANGED <<tokens, renewed, given, sessionMixed>>
    BY <1>1 DEF Login, Logout, DeleteMember
  <2>4. QED
    BY <2>2, <2>3, StillCountedBy
<1>2. ASSUME NEW r \in Request,
             LoginSigned(r) \/ PurgeOutdated(r) \/ FindTokenUser(r) \/ DropToken(r) \/ RenewSigned(r)
                \/ EndSessions(r) \/ SessionFails(r)
      PROVE  UsesCounted'
  <2>1. UNCHANGED <<renewed, given, sessionMixed>> /\ (tokens' = tokens \/ \E ts : tokens' = Gone(ts))
    BY <1>2 DEF LoginSigned, PurgeOutdated, FindTokenUser, DropToken, RenewSigned, EndSessions, SessionFails
  <2>2. CASE SessionAnswered(r)
    BY <2>1, <2>2, NoSessionReqType, StillCountedBy DEF SessionAnswered
  <2>3. CASE ~SessionAnswered(r)
    <3>1. /\ \E stage \in {"purge", "create", "drop", "renew", "find2"} : Proceed(r, stage)
          /\ sessionReq' = [sessionReq EXCEPT ![r] = sessionReq'[r]]
          /\ sessionReq'[r].t = sessionReq[r].t /\ sessionReq'[r].stage \notin {"read", "write"}
      <4>1. CASE LoginSigned(r) \/ PurgeOutdated(r)
        <5>1. PICK stage \in {"purge", "create"} : Proceed(r, stage)
          BY <2>3, <4>1 DEF LoginSigned, PurgeOutdated
        <5>2. sessionReq[r].u \in Member /\ sessionReq[r].t = None
          BY <4>1, StageFields DEF LoginSigned, PurgeOutdated, SessionAt
        <5>3. QED
          BY <5>1, <5>2, Proceeded, SessionReplaced DEF SessionStage, Renewing
      <4>2. CASE FindTokenUser(r) \/ RenewSigned(r)
        <5>1. PICK stage \in {"drop", "renew", "find2"} : Proceed(r, stage)
          BY <2>3, <4>2 DEF FindTokenUser, RenewSigned
        <5>2. sessionReq[r].u \in Member /\ sessionReq[r].t \in RefreshToken
          BY <4>2, StageFields DEF FindTokenUser, RenewSigned, SessionAt, Renewing
        <5>3. QED
          BY <5>1, <5>2, Proceeded, SessionReplaced DEF SessionStage
      <4>3. QED
        BY <1>2, <2>3, <4>1, <4>2 DEF DropToken, EndSessions, SessionFails
    <3>2. QED
      BY <2>1, <3>1, StillCountedBy
  <2>4. QED
    BY <2>2, <2>3
<1>3. ASSUME NEW t \in RefreshToken, ExpireToken(t) PROVE UsesCounted'
  <2>1. tokens' = [tokens EXCEPT ![t] = [tokens[t] EXCEPT !.expired = TRUE]]
    BY <1>3 DEF ExpireToken
  <2>2. \A x \in RefreshToken : tokens'[x].user = tokens[x].user /\ tokens'[x].used = tokens[x].used
    BY <2>1, RestUnchanged DEF RestTyped, TokenRec
  <2>3. QED
    BY <1>3, <2>2, StillCountedIdle DEF ExpireToken
<1>4. ASSUME NEW u \in Member, VerifyMember(u) PROVE UsesCounted'
  BY <1>4, StillCountedIdle DEF VerifyMember
<1>5. CASE SessionsRestart
  BY <1>5, StillCountedIdle DEF SessionsRestart
<1>6. CASE UNCHANGED sessionVars
  BY <1>6, StillCountedIdle DEF sessionVars
<1>7. QED
  BY <1>1, <1>2, <1>3, <1>4, <1>5, <1>6, RenewCounted, FindCounted, CheckCounted,
     CountAttemptCounted, CreateCounted
  DEF SessionsNext

\* A refresh token is not exchanged more often than the settings allow, nor more often than
\* its document says, unless two renewals with it overlap (increaseRefreshTokenAttemptsUsed).
THEOREM RenewalsAreCounted == SessionsSpec => []RenewalsCounted
<1>1. UsesCounted => RenewalsCounted
  BY DEF UsesCounted, CountedToken, RenewalsCounted
<1>2. QED
  BY <1>1, CountedStart, CountedStep, SessionsAlwaysTyped, PTL DEF SessionsSpec
-----------------------------------------------------------------------------
(* Sessions: no token of a deleted user is left.                           *)

\* A login that is past its signature is for a user that is still there, or counted as stray.
LoginsKnown ==
    \A r \in Request :
        LET q == sessionReq[r] IN
        q.stage \in {"purge", "create"} => member[q.u] # "deleted" \/ q.u \in strays

\* A step of request r that deletes no user: if it no longer ends the sessions of its user,
\* that is known, and it creates no token of another user.
LEMMA StraysKept ==
    ASSUME SessionsTyped, NoStrayTokens, LoginsKnown,
           NEW r \in Request, NEW q, sessionReq' = [sessionReq EXCEPT ![r] = q],
           sessionReq[r].stage = "logout" => sessionReq[r].u \in strays',
           q.stage \in {"purge", "create"} => member[q.u] # "deleted" \/ q.u \in strays,
           UNCHANGED member, strays \subseteq strays',
           \A t \in RefreshToken : tokens'[t].user \in {None, tokens[t].user}
    PROVE  NoStrayTokens' /\ LoginsKnown'
<1>1. sessionReq'[r] = q /\ \A s \in Request \ {r} : sessionReq'[s] = sessionReq[s]
  BY SessionReplaced
<1>2. LoginsKnown'
  BY <1>1 DEF LoginsKnown
<1>3. Unended(Request) \subseteq strays' \cup Unended(Request)'
  BY <1>1 DEF Unended, SessionAt
<1>4. NoStrayTokens'
  BY <1>3, SessionsAssumption DEF NoStrayTokens
<1>5. QED
  BY <1>2, <1>4

\* ... or of none, or the end of all.
LEMMA StraysKeptIdle ==
    ASSUME SessionsTyped, NoStrayTokens, LoginsKnown,
           \/ sessionReq' = sessionReq
           \/ sessionReq' = [r \in Request |-> NoSessionReq] /\ Unended(Request) \subseteq strays',
           \A u \in Member : member'[u] = "deleted" => member[u] = "deleted", strays \subseteq strays',
           \A t \in RefreshToken : tokens'[t].user = tokens[t].user
    PROVE  NoStrayTokens' /\ LoginsKnown'
<1>1. \A r \in Request : sessionReq'[r] = sessionReq[r] \/ sessionReq'[r].stage = "idle"
  BY NoSessionReqType
<1>2. \A r \in Request : sessionReq[r].stage \in {"purge", "create"} => sessionReq[r].u \in Member
  BY StageFields
<1>3. LoginsKnown'
  BY <1>1, <1>2 DEF LoginsKnown
<1>4. Unended(Request) \subseteq strays' \cup Unended(Request)'
  BY DEF Unended, SessionAt
<1>5. NoStrayTokens'
  BY <1>4 DEF NoStrayTokens
<1>6. QED
  BY <1>3, <1>5

\* The user is deleted while logins of it are under way: they are stray.
LEMMA StraysDeleted ==
    ASSUME SessionsTyped, NoStrayTokens, LoginsKnown,
           NEW r \in Request, NEW u \in Member, DeleteMember(r, u)
    PROVE  NoStrayTokens' /\ LoginsKnown'
<1> DEFINE q == [stage |-> "logout", u |-> u, t |-> None, used |-> 0]
<1>1. /\ sessionReq'[r] = q /\ \A s \in Request \ {r} : sessionReq'[s] = sessionReq[s]
      /\ sessionReq[r].stage = "idle"
  BY SessionReplaced DEF DeleteMember, AskSession
<1>2. q.stage = "logout" /\ q.u = u
  OBVIOUS
<1> HIDE DEF q
<1>3. strays \subseteq strays' /\ \A v \in Member \ {u} : member'[v] = member[v]
  BY RestUnchanged DEF DeleteMember, RestTyped
<1>4. LoginsKnown'
  <2> SUFFICES ASSUME NEW s \in Request, sessionReq'[s].stage \in {"purge", "create"},
                      sessionReq'[s].u \notin strays'
               PROVE  member'[sessionReq'[s].u] # "deleted"
    BY DEF LoginsKnown
  <2>1. s # r /\ sessionReq'[s] = sessionReq[s]
    BY <1>1, <1>2
  <2>2. sessionReq[s].u \in Member
    BY <2>1, StageFields
  <2>3. sessionReq[s].u # u
    BY <2>1 DEF DeleteMember
  <2>4. QED
    BY <1>3, <2>1, <2>2, <2>3 DEF LoginsKnown
<1>5. Unended(Request) \cup {u} \subseteq Unended(Request)'
  BY <1>1, <1>2 DEF Unended, SessionAt
<1>6. NoStrayTokens'
  <2>1. UNCHANGED tokens
    BY DEF DeleteMember
  <2>2. QED
    BY <1>3, <1>5, <2>1 DEF NoStrayTokens
<1>7. QED
  BY <1>4, <1>6

\* A token is created for a user that is there, or stray.
LEMMA StraysCreated ==
    ASSUME SessionsTyped, NoStrayTokens, LoginsKnown, NEW r \in Request, CreateToken(r)
    PROVE  NoStrayTokens' /\ LoginsKnown'
<1> DEFINE u == sessionReq[r].u
<1>1. /\ SessionAt(r, "create") /\ UNCHANGED <<member, strays>>
      /\ sessionReq'[r] = NoSessionReq /\ \A s \in Request \ {r} : sessionReq'[s] = sessionReq[s]
  BY SessionReplaced DEF CreateToken, SessionAnswered
<1>2. LoginsKnown'
  BY <1>1, NoSessionReqType DEF LoginsKnown
<1>3. Unended(Request) \subseteq Unended(Request)'
  BY <1>1 DEF Unended, SessionAt
<1>4. member[u] # "deleted" \/ u \in strays
  BY <1>1 DEF LoginsKnown, SessionAt
<1>5. \A t \in RefreshToken : tokens'[t].user = u \/ tokens'[t] = tokens[t]
  BY RestUnchanged DEF CreateToken, RestTyped, NoToken
<1>6. NoStrayTokens'
  BY <1>1, <1>3, <1>4, <1>5 DEF NoStrayTokens
<1>7. QED
  BY <1>2, <1>6

\* The sessions of the user end, all of them.
LEMMA StraysEnded ==
    ASSUME SessionsTyped, NoStrayTokens, LoginsKnown, NEW r \in Request, EndSessions(r)
    PROVE  NoStrayTokens' /\ LoginsKnown'
<1> DEFINE u == sessionReq[r].u
<1>1. /\ SessionAt(r, "logout") /\ UNCHANGED <<member, strays>>
      /\ sessionReq'[r] = NoSessionReq /\ \A s \in Request \ {r} : sessionReq'[s] = sessionReq[s]
  BY SessionReplaced DEF EndSessions, SessionAnswered
<1>2. LoginsKnown'
  BY <1>1, NoSessionReqType DEF LoginsKnown
<1>3. Unended(Request) \ {u} \subseteq Unended(Request)'
  BY <1>1 DEF Unended, SessionAt
<1>4. \A t \in RefreshToken : tokens'[t].user = None \/ (tokens'[t] = tokens[t] /\ tokens[t].user # u)
  BY TokenType DEF EndSessions, SessionsOf, TokensOf
<1>5. NoStrayTokens'
  BY <1>1, <1>3, <1>4, SessionsAssumption DEF NoStrayTokens
<1>6. QED
  BY <1>2, <1>5

LEMMA StraysStart == SessionsInit => NoStrayTokens /\ LoginsKnown
<1> SUFFICES ASSUME SessionsInit PROVE NoStrayTokens /\ LoginsKnown
  OBVIOUS
<1>1. \A r \in Request : sessionReq[r].stage = "idle"
  BY NoSessionReqType DEF SessionsInit
<1>2. \A u \in Member : member[u] # "deleted"
  BY DEF SessionsInit
<1>3. QED
  BY <1>1, <1>2 DEF NoStrayTokens, LoginsKnown

LEMMA StraysStep ==
    SessionsTyped /\ NoStrayTokens /\ LoginsKnown /\ [SessionsNext]_sessionVars
        => NoStrayTokens' /\ LoginsKnown'
<1> SUFFICES ASSUME SessionsTyped, NoStrayTokens, LoginsKnown, [SessionsNext]_sessionVars
             PROVE  NoStrayTokens' /\ LoginsKnown'
  OBVIOUS
<1>1. ASSUME NEW r \in Request, NEW stage \in {"sign", "logout", "find"}, NEW u, NEW t,
             AskSession(r, stage, u, t), UNCHANGED <<member, tokens, strays>>
      PROVE  NoStrayTokens' /\ LoginsKnown'
  <2> DEFINE q == [stage |-> stage, u |-> u, t |-> t, used |-> 0]
  <2>1. /\ sessionReq' = [sessionReq EXCEPT ![r] = q] /\ sessionReq[r].stage = "idle"
        /\ q.stage \notin {"purge", "create"}
    BY <1>1 DEF AskSession
  <2> HIDE DEF q
  <2>2. QED
    BY <1>1, <2>1, StraysKept
<1>2. ASSUME NEW r \in Request, NEW u \in Member, Login(r, u) \/ Logout(r, u)
      PROVE  NoStrayTokens' /\ LoginsKnown'
  BY <1>1, <1>2 DEF Login, Logout
<1>3. ASSUME NEW r \in Request, NEW t \in RefreshToken, Renew(r, t)
      PROVE  NoStrayTokens' /\ LoginsKnown'
  BY <1>1, <1>3 DEF Renew
<1>4. ASSUME NEW r \in Request, NEW stage \in {"find", "find2"}, FindToken(r, stage)
      PROVE  NoStrayTokens' /\ LoginsKnown'
  <2> DEFINE q == LookedUp(r, stage)
  <2>1. sessionReq' = [sessionReq EXCEPT ![r] = q] /\ SessionAt(r, stage)
    BY <1>4 DEF FindToken, LookedUp
  <2>2. q.stage \in {"idle", "logout", "user", "read"} /\ sessionReq[r].stage # "logout"
    BY <2>1, LookedUpType DEF SessionAt
  <2>3. UNCHANGED <<member, tokens, strays>>
    BY <1>4 DEF FindToken
  <2> HIDE DEF q
  <2>4. QED
    BY <2>1, <2>2, <2>3, StraysKept
<1>5. ASSUME NEW r \in Request, SessionAnswered(r), UNCHANGED member, strays \subseteq strays',
             sessionReq[r].stage = "logout" => sessionReq[r].u \in strays',
             \A t \in RefreshToken : tokens'[t].user \in {None, tokens[t].user}
      PROVE  NoStrayTokens' /\ LoginsKnown'
  BY <1>5, NoSessionReqType, StraysKept DEF SessionAnswered
<1>6. ASSUME NEW r \in Request, NEW stage \in SessionStage \ {"idle", "find"}, Proceed(r, stage),
             sessionReq[r].stage \notin {"idle", "find", "logout"},
             stage \in Renewing => sessionReq[r].t \in RefreshToken,
             stage \in {"purge", "create"} =>
                 sessionReq[r].t = None
                 /\ (member[sessionReq[r].u] # "deleted" \/ sessionReq[r].u \in strays),
             stage # "sign",
             UNCHANGED <<member, strays>>,
             \A t \in RefreshToken : tokens'[t].user \in {None, tokens[t].user}
      PROVE  NoStrayTokens' /\ LoginsKnown'
  <2> DEFINE q == sessionReq'[r]
  <2>1. sessionReq[r].u \in Member
    BY <1>6, StageFields
  <2>2. /\ sessionReq' = [sessionReq EXCEPT ![r] = q]
        /\ q.stage = stage /\ q.u = sessionReq[r].u
    BY <1>6, <2>1, Proceeded, SessionReplaced
  <2> HIDE DEF q
  <2>3. QED
    BY <1>6, <2>2, StraysKept
<1>7. ASSUME NEW r \in Request, LoginSigned(r) \/ PurgeOutdated(r)
      PROVE  NoStrayTokens' /\ LoginsKnown'
  <2>1. /\ UNCHANGED <<member, strays>>
        /\ \A t \in RefreshToken : tokens'[t].user \in {None, tokens[t].user}
    BY <1>7, TokenType DEF LoginSigned, PurgeOutdated
  <2>2. sessionReq[r].stage \in {"sign", "purge"} /\ sessionReq[r].t = None
    BY <1>7, StageFields DEF LoginSigned, PurgeOutdated, SessionAt
  <2>3. CASE SessionAnswered(r)
    BY <1>5, <2>1, <2>2, <2>3
  <2>4. CASE Proceed(r, "purge") /\ MaySign(sessionReq[r].u)
    BY <1>6, <2>1, <2>2, <2>4 DEF MaySign, SessionStage, Renewing
  <2>5. CASE PurgeOutdated(r)
    <3>1. member[sessionReq[r].u] # "deleted" \/ sessionReq[r].u \in strays
      BY <2>5 DEF PurgeOutdated, SessionAt, LoginsKnown
    <3>2. Proceed(r, "create")
      BY <2>5 DEF PurgeOutdated
    <3>3. QED
      BY <1>6, <2>1, <2>2, <3>1, <3>2 DEF SessionStage, Renewing
  <2>6. QED
    BY <1>7, <2>3, <2>4, <2>5 DEF LoginSigned
<1>8. ASSUME NEW r \in Request, FindTokenUser(r) \/ RenewSigned(r) \/ CheckAttempts(r)
      PROVE  NoStrayTokens' /\ LoginsKnown'
  <2>1. UNCHANGED <<member, tokens, strays>>
    BY <1>8 DEF FindTokenUser, RenewSigned, CheckAttempts
  <2>2. sessionReq[r].stage \in {"user", "renew", "read"} /\ sessionReq[r].t \in RefreshToken
    BY <1>8, StageFields DEF FindTokenUser, RenewSigned, CheckAttempts, SessionAt, Renewing
  <2>3. CASE SessionAnswered(r)
    BY <1>5, <2>1, <2>2, <2>3
  <2>4. CASE \E stage \in {"drop", "renew", "find2", "logout", "write"} : Proceed(r, stage)
    BY <1>6, <2>1, <2>2, <2>4 DEF SessionStage
  <2>5. QED
    BY <1>8, <2>3, <2>4 DEF FindTokenUser, RenewSigned, CheckAttempts
<1>9. ASSUME NEW r \in Request, DropToken(r) \/ CountAttempt(r)
      PROVE  NoStrayTokens' /\ LoginsKnown'
  <2>1. \A t \in RefreshToken : tokens'[t].user \in {None, tokens[t].user}
    <3>1. CASE DropToken(r)
      BY <3>1, TokenType DEF DropToken
    <3>2. CASE CountAttempt(r)
      BY <3>2, RestUnchanged DEF CountAttempt, RestTyped, TokenRec
    <3>3. QED
      BY <1>9, <3>1, <3>2
  <2>2. QED
    BY <1>5, <1>9, <2>1 DEF DropToken, CountAttempt, SessionAt
<1>10. ASSUME NEW r \in Request, SessionFails(r) PROVE NoStrayTokens' /\ LoginsKnown'
  <2>1. sessionReq[r].stage = "logout" => sessionReq[r].u \in strays'
    <3>1. sessionReq[r].stage = "logout" => sessionReq[r].u \in Member
      BY StageFields
    <3>2. QED
      BY <1>10, <3>1 DEF SessionFails, Unended, SessionAt
  <2>2. QED
    BY <1>5, <1>10, <2>1 DEF SessionFails
<1>11. ASSUME NEW t \in RefreshToken, ExpireToken(t) PROVE NoStrayTokens' /\ LoginsKnown'
  <2>1. tokens' = [tokens EXCEPT ![t] = [tokens[t] EXCEPT !.expired = TRUE]]
    BY <1>11 DEF ExpireToken
  <2>2. \A x \in RefreshToken : tokens'[x].user = tokens[x].user
    BY <2>1, RestUnchanged DEF RestTyped, TokenRec
  <2>3. QED
    BY <1>11, <2>2, StraysKeptIdle DEF ExpireToken
<1>12. ASSUME NEW u \in Member, VerifyMember(u) PROVE NoStrayTokens' /\ LoginsKnown'
  <2>1. \A v \in Member : member'[v] = "deleted" => member[v] = "deleted"
    BY <1>12, RestUnchanged DEF VerifyMember, RestTyped
  <2>2. QED
    BY <1>12, <2>1, StraysKeptIdle DEF VerifyMember
<1>13. CASE SessionsRestart
  BY <1>13, StraysKeptIdle DEF SessionsRestart
<1>14. CASE UNCHANGED sessionVars
  BY <1>14, StraysKeptIdle DEF sessionVars
<1>15. QED
  BY <1>2, <1>3, <1>4, <1>7, <1>8, <1>9, <1>10, <1>11, <1>12, <1>13, <1>14,
     StraysDeleted, StraysCreated, StraysEnded
  DEF SessionsNext

\* No refresh token of a deleted user is left when the deletion is done (deleteUser and
\* logoutUserId), unless it overlapped with a login, or ending the sessions failed.
THEOREM NoTokenStrays == SessionsSpec => []NoStrayTokens
BY StraysStart, StraysStep, SessionsAlwaysTyped, PTL DEF SessionsSpec

-----------------------------------------------------------------------------
(* Releases: the invariant.                                                *)

Download == [tag : Release \cup {0}, left : SUBSET Part, step : {"idle", "fetch", "clear"}]

\* A client the download task would leave alone is whole
Trustworthy(c) == ShouldUpdate(c) \/ \A piece \in Part : c[piece] = c["package"]

\* What has been removed is not there; a client not yet touched is as trustworthy as ever
Cleared(d) ==
    /\ \A piece \in Part : piece \notin d.left => client[piece] = 0
    /\ d.left = Part => Trustworthy(client)

\* Unless it is torn, the client is trustworthy or one request is replacing it
Accounted ==
    \/ torn
    \/ Clearing = {} /\ Trustworthy(client)
    \/ \E r \in Request : Clearing = {r} /\ Cleared(download[r])

ReleasesTyped ==
    /\ client \in [Part -> Release \cup {0}]
    /\ download \in [Request -> Download]
    /\ torn \in BOOLEAN
    /\ bootFetch \in Request \cup {None, "done", "waiting"}
    /\ published \in Release
    /\ told \in [latest : Release \cup {0}, available : BOOLEAN]
    /\ syncing \in [Request -> Release \cup {0, -1}]

ReleasesInv == ReleasesTyped /\ Accounted

LEMMA ReleasesTypedIsTypeOK == ReleasesTyped => ReleasesTypeOK
BY DEF ReleasesTyped, ReleasesTypeOK, Download

LEMMA NoDownloadType == NoDownload \in Download /\ NoDownload.step = "idle"
BY DEF NoDownload, Download

LEMMA TheParts == Part = {"package", "index", "assets"} /\ Dist = {"index", "assets"}
BY DEF Part, Dist

\* A client of which nothing, or the package or all of dist is gone
LEMMA StoppedIsTrustworthy ==
    ASSUME NEW d, d.left \subseteq Part, Cleared(d), d.left \cap Dist \in {{}, Dist}
    PROVE  Trustworthy(client)
<1>1. CASE d.left = Part
  BY <1>1 DEF Cleared
<1>2. CASE "package" \notin d.left
  BY <1>2 DEF Cleared, Trustworthy, ShouldUpdate, Part
<1>3. CASE "index" \notin d.left
  BY <1>3 DEF Cleared, Trustworthy, ShouldUpdate, Part
<1>4. CASE "package" \in d.left /\ "index" \in d.left /\ d.left # Part
  <2>1. d.left \cap Dist = Dist
    BY <1>4 DEF Dist
  <2>2. "assets" \in d.left
    BY <2>1 DEF Dist
  <2>3. d.left = Part
    BY <1>4, <2>2 DEF Part
  <2>4. QED
    BY <1>4, <2>3
<1>5. QED
  BY <1>1, <1>2, <1>3, <1>4

-----------------------------------------------------------------------------
(* Releases: the actions.                                                  *)

\* A request whose download stays out of the directory
LEMMA ElsewhereKeeps ==
    ASSUME Accounted, UNCHANGED <<client, torn>>, Clearing' = Clearing,
           \A r \in Clearing : download'[r] = download[r]
    PROVE  Accounted'
<1>1. CASE torn
  BY <1>1 DEF Accounted
<1>2. CASE Clearing = {} /\ Trustworthy(client)
  BY <1>2 DEF Accounted, Trustworthy, ShouldUpdate
<1>3. ASSUME NEW r \in Request, Clearing = {r}, Cleared(download[r]) PROVE Accounted'
  <2>1. Clearing' = {r} /\ download'[r] = download[r]
    BY <1>3
  <2>2. Cleared(download[r])'
    BY <1>3, <2>1 DEF Cleared, Trustworthy, ShouldUpdate
  <2>3. QED
    BY <2>1, <2>2 DEF Accounted
<1>4. QED
  BY <1>1, <1>2, <1>3 DEF Accounted

LEMMA StartsFetching ==
    ASSUME ReleasesInv, NEW r \in Request, NEW tag \in Release, Unused(r),
           download' = [download EXCEPT ![r] = [tag |-> tag, left |-> {}, step |-> "fetch"]]
    PROVE  /\ download' \in [Request -> Download]
           /\ Clearing' = Clearing
           /\ \A s \in Clearing : download'[s] = download[s]
<1> DEFINE new == [tag |-> tag, left |-> {}, step |-> "fetch"]
<1>1. new \in Download /\ new.step = "fetch"
  BY DEF Download
<1> HIDE DEF new
<1>2. download \in [Request -> Download]
  BY DEF ReleasesInv, ReleasesTyped
<1>3. download' = [download EXCEPT ![r] = new]
  BY DEF new
<1>4. /\ download' \in [Request -> Download] /\ download'[r] = new
      /\ \A s \in Request : s # r => download'[s] = download[s]
  BY <1>1, <1>2, <1>3
<1>5. r \notin Clearing
  BY DEF Unused, Clearing
<1>6. QED
  BY <1>1, <1>4, <1>5 DEF Clearing

LEMMA TaskDecidesKeeps ==
    ASSUME ReleasesInv, NEW r \in Request, TaskDecides(r) PROVE ReleasesInv'
<1>1. Minimum \in Release
  BY ReleaseBounds DEF Release
<1>2. CASE ShouldUpdate(client)
  <2>1. /\ download' \in [Request -> Download] /\ Clearing' = Clearing
        /\ \A s \in Clearing : download'[s] = download[s]
    BY <1>1, <1>2, StartsFetching DEF TaskDecides
  <2>2. Accounted'
    BY <2>1, ElsewhereKeeps DEF TaskDecides, ReleasesInv
  <2>3. QED
    BY <1>2, <2>1, <2>2 DEF TaskDecides, ReleasesInv, ReleasesTyped
<1>3. CASE ~ShouldUpdate(client)
  <2>1. UNCHANGED <<client, download, torn, published, told, syncing>> /\ bootFetch' = "done"
    BY <1>3 DEF TaskDecides
  <2>2. Accounted'
    BY <2>1, ElsewhereKeeps DEF ReleasesInv, Clearing
  <2>3. QED
    BY <2>1, <2>2 DEF ReleasesInv, ReleasesTyped
<1>4. QED
  BY <1>2, <1>3

LEMMA AskUpdateKeeps ==
    ASSUME ReleasesInv, NEW r \in Request, NEW tag \in Release, AskUpdate(r, tag)
    PROVE  ReleasesInv'
<1>1. /\ download' \in [Request -> Download] /\ Clearing' = Clearing
      /\ \A s \in Clearing : download'[s] = download[s]
  BY StartsFetching DEF AskUpdate
<1>2. Accounted'
  BY <1>1, ElsewhereKeeps DEF AskUpdate, ReleasesInv
<1>3. QED
  BY <1>1, <1>2 DEF AskUpdate, ReleasesInv, ReleasesTyped

\* What is listed is all there is
LEMMA EntriesAreAll ==
    /\ Entries(client) \subseteq Part
    /\ \A piece \in Part : piece \notin Entries(client) => client[piece] = 0
BY DEF Entries, Present, Part, Dist

LEMMA FetchedKeeps ==
    ASSUME ReleasesInv, NEW r \in Request, Fetched(r) PROVE ReleasesInv'
<1> DEFINE new == [download[r] EXCEPT !.step = "clear", !.left = Entries(client)]
<1>1. download \in [Request -> Download] /\ download[r].step = "fetch"
  BY DEF ReleasesInv, ReleasesTyped, Fetched
<1>2. download' = [download EXCEPT ![r] = new]
  BY DEF Fetched
<1>3. new \in Download /\ new.step = "clear" /\ new.left = Entries(client)
  BY <1>1, EntriesAreAll DEF Download
<1> HIDE DEF new
<1>4. /\ download' \in [Request -> Download] /\ download'[r] = new
      /\ \A s \in Request : s # r => download'[s] = download[s]
  BY <1>1, <1>2, <1>3
<1>5. Accounted'
  <2>1. CASE torn \/ Clearing # {}
    BY <2>1 DEF Fetched, Accounted
  <2>2. CASE ~torn /\ Clearing = {}
    <3>1. Trustworthy(client)
      BY <2>2 DEF ReleasesInv, Accounted
    <3>2. Clearing' = {r}
      BY <1>3, <1>4, <2>2 DEF Clearing
    <3>3. client' = client
      BY DEF Fetched
    <3>4. download'[r].left = Entries(client)
      BY <1>3, <1>4
    <3>5. Cleared(download[r])'
      BY <3>1, <3>3, <3>4, EntriesAreAll DEF Cleared, Trustworthy, ShouldUpdate
    <3>6. QED
      BY <3>2, <3>5 DEF Accounted
  <2>3. QED
    BY <2>1, <2>2
<1>6. QED
  BY <1>4, <1>5 DEF Fetched, ReleasesInv, ReleasesTyped, Clearing

LEMMA UpdateEndsTypes ==
    ASSUME ReleasesInv, NEW r \in Request, NEW ok \in BOOLEAN, UpdateEnds(r, ok)
    PROVE  /\ download' \in [Request -> Download] /\ download'[r] = NoDownload
           /\ \A s \in Request : s # r => download'[s] = download[s]
           /\ Clearing' = Clearing \ {r}
           /\ bootFetch' \in Request \cup {None, "done", "waiting"}
<1>1. download \in [Request -> Download] /\ bootFetch \in Request \cup {None, "done", "waiting"}
  BY DEF ReleasesInv, ReleasesTyped
<1>2. /\ download' \in [Request -> Download] /\ download'[r] = NoDownload
      /\ \A s \in Request : s # r => download'[s] = download[s]
  BY <1>1, NoDownloadType DEF UpdateEnds
<1>3. Clearing' = Clearing \ {r}
  BY <1>2, NoDownloadType DEF Clearing
<1>4. QED
  BY <1>1, <1>2, <1>3 DEF UpdateEnds

LEMMA RemovePartKeeps ==
    ASSUME ReleasesInv, NEW r \in Request, NEW piece \in Part, RemovePart(r, piece)
    PROVE  ReleasesInv'
<1> DEFINE new == [download[r] EXCEPT !.left = @ \ {piece}]
<1>1. /\ download \in [Request -> Download] /\ download[r].step = "clear"
      /\ piece \in download[r].left /\ client \in [Part -> Release \cup {0}]
  BY DEF ReleasesInv, ReleasesTyped, RemovePart
<1>2. download[r] \in Download /\ download[r].left \subseteq Part
  BY <1>1 DEF Download
<1>3. download' = [download EXCEPT ![r] = new]
  BY DEF RemovePart
<1>4. new \in Download /\ new.step = "clear" /\ new.left = download[r].left \ {piece}
  BY <1>1, <1>2 DEF Download
<1> HIDE DEF new
<1>5. /\ download' \in [Request -> Download] /\ download'[r] = new
      /\ \A s \in Request : s # r => download'[s] = download[s]
  BY <1>1, <1>3, <1>4
<1>6. /\ client' \in [Part -> Release \cup {0}] /\ client'[piece] = 0
      /\ \A p \in Part : p # piece => client'[p] = client[p]
  BY <1>1 DEF RemovePart
<1>7. Clearing' = Clearing /\ r \in Clearing
  BY <1>1, <1>4, <1>5 DEF Clearing
<1>8. Accounted'
  <2>1. CASE torn
    BY <2>1 DEF RemovePart, Accounted
  <2>2. CASE ~torn
    <3>1. PICK s \in Request : Clearing = {s} /\ Cleared(download[s])
      BY <1>7, <2>2 DEF ReleasesInv, Accounted
    <3>2. s = r
      BY <1>7, <3>1
    <3>3. download'[r].left = download[r].left \ {piece}
      BY <1>4, <1>5
    <3>4. download'[r].left # Part
      BY <3>3
    <3>5. \A p \in Part : p \notin download'[r].left => client'[p] = 0
      BY <1>6, <3>1, <3>2, <3>3 DEF Cleared
    <3>6. Cleared(download[r])'
      BY <3>4, <3>5 DEF Cleared
    <3>7. QED
      BY <1>7, <3>1, <3>2, <3>6 DEF Accounted
  <2>3. QED
    BY <2>1, <2>2
<1>9. QED
  BY <1>5, <1>6, <1>8 DEF RemovePart, ReleasesInv, ReleasesTyped

LEMMA ExtractKeeps ==
    ASSUME ReleasesInv, NEW r \in Request, Extract(r) PROVE ReleasesInv'
<1>1. /\ UpdateEnds(r, TRUE) /\ download[r].step = "clear" /\ download[r] \in Download
      /\ client' = [piece \in Part |-> download[r].tag] /\ torn' = (torn /\ Clearing # {r})
      /\ UNCHANGED <<published, told, syncing>>
  BY DEF Extract, ReleasesInv, ReleasesTyped
<1>2. /\ download' \in [Request -> Download]
      /\ Clearing' = Clearing \ {r}
      /\ bootFetch' \in Request \cup {None, "done", "waiting"}
  BY <1>1, UpdateEndsTypes
<1>3. client' \in [Part -> Release \cup {0}]
  BY <1>1 DEF Download
<1>4. Trustworthy(client)'
  BY <1>1 DEF Trustworthy, Part
<1>5. r \in Clearing
  BY <1>1 DEF Clearing
<1>6. CASE torn'
  BY <1>1, <1>2, <1>3, <1>6 DEF ReleasesInv, ReleasesTyped, Accounted
<1>7. CASE ~torn'
  <2>1. Clearing = {r}
    BY <1>1, <1>5, <1>7 DEF ReleasesInv, Accounted
  <2>2. Clearing' = {}
    BY <1>2, <2>1
  <2>3. Accounted'
    BY <1>4, <2>2 DEF Accounted
  <2>4. torn' \in BOOLEAN
    BY <1>1
  <2>5. QED
    BY <1>1, <1>2, <1>3, <2>3, <2>4 DEF ReleasesInv, ReleasesTyped
<1>8. QED
  BY <1>6, <1>7

\* What a write that stops somewhere leaves
LEMMA PartlyWritten ==
    ASSUME ReleasesTyped, NEW r \in Request, NEW parts \in SUBSET Part,
           client' = [piece \in Part |-> IF piece \in parts THEN download[r].tag ELSE client[piece]]
    PROVE  client' \in [Part -> Release \cup {0}]
<1>1. download[r].tag \in Release \cup {0}
  BY DEF ReleasesTyped, Download
<1>2. QED
  BY <1>1 DEF ReleasesTyped

LEMMA ExtractFailsKeeps ==
    ASSUME ReleasesInv, NEW r \in Request, ExtractFails(r) PROVE ReleasesInv'
<1>1. torn' /\ UpdateEnds(r, FALSE) /\ UNCHANGED <<published, told, syncing>>
  BY DEF ExtractFails
<1>2. client' \in [Part -> Release \cup {0}]
  BY PartlyWritten DEF ExtractFails, ReleasesInv
<1>3. /\ download' \in [Request -> Download]
      /\ bootFetch' \in Request \cup {None, "done", "waiting"}
  BY <1>1, UpdateEndsTypes
<1>4. QED
  BY <1>1, <1>2, <1>3 DEF ExtractFails, ReleasesInv, ReleasesTyped, Accounted

LEMMA UpdateFailsKeeps ==
    ASSUME ReleasesInv, NEW r \in Request, UpdateFails(r) PROVE ReleasesInv'
<1>1. /\ UpdateEnds(r, FALSE) /\ torn' = (torn \/ HalfCleared(r))
      /\ UNCHANGED <<client, published, told, syncing>>
  BY DEF UpdateFails
<1>2. /\ download' \in [Request -> Download] /\ download'[r] = NoDownload
      /\ \A s \in Request : s # r => download'[s] = download[s]
      /\ Clearing' = Clearing \ {r}
      /\ bootFetch' \in Request \cup {None, "done", "waiting"}
  BY <1>1, UpdateEndsTypes
<1>3. Accounted'
  <2>1. CASE torn \/ HalfCleared(r)
    BY <1>1, <2>1 DEF Accounted
  <2>2. CASE ~torn /\ ~HalfCleared(r) /\ r \notin Clearing
    <3>1. Clearing' = Clearing /\ \A s \in Clearing : download'[s] = download[s]
      BY <1>2, <2>2 DEF Clearing
    <3>2. torn \in BOOLEAN
      BY DEF ReleasesInv, ReleasesTyped
    <3>3. UNCHANGED <<client, torn>>
      BY <1>1, <2>2, <3>2
    <3>4. QED
      BY <3>1, <3>3, ElsewhereKeeps DEF ReleasesInv
  <2>3. CASE ~torn /\ ~HalfCleared(r) /\ r \in Clearing
    <3>1. Clearing = {r} /\ Cleared(download[r])
      BY <2>3 DEF ReleasesInv, Accounted
    <3>2. download[r].left \subseteq Part
      BY DEF ReleasesInv, ReleasesTyped, Download
    <3>3. Trustworthy(client)
      BY <2>3, <3>1, <3>2, StoppedIsTrustworthy DEF HalfCleared
    <3>4. Clearing' = {} /\ Trustworthy(client)'
      BY <1>1, <1>2, <3>1, <3>3 DEF Trustworthy, ShouldUpdate
    <3>5. QED
      BY <3>4 DEF Accounted
  <2>4. QED
    BY <2>1, <2>2, <2>3
<1>4. torn' \in BOOLEAN
  BY <1>1 DEF ReleasesInv, ReleasesTyped, HalfCleared
<1>5. QED
  BY <1>1, <1>2, <1>3, <1>4 DEF ReleasesInv, ReleasesTyped

LEMMA ServerReleaseKeeps ==
    ASSUME ReleasesInv, NEW r \in Request, GetLatest(r) \/ Synced(r)
    PROVE  ReleasesInv'
<1>1. UNCHANGED <<client, download, torn, bootFetch>>
  BY DEF GetLatest, Synced
<1>2. Accounted'
  BY <1>1, ElsewhereKeeps DEF ReleasesInv, Clearing
<1>3. published' \in Release
  BY DEF ReleasesInv, ReleasesTyped, GetLatest, Synced
<1>4. syncing' \in [Request -> Release \cup {0, -1}]
  BY DEF ReleasesInv, ReleasesTyped, GetLatest, Synced
<1>5. told' \in [latest : Release \cup {0}, available : BOOLEAN]
  <2>1. \A latest \in Release : Compared(latest) \in [latest : Release \cup {0}, available : BOOLEAN]
    BY DEF Compared
  <2>2. CASE UNCHANGED told
    BY <2>2 DEF ReleasesInv, ReleasesTyped
  <2>3. CASE Synced(r) /\ ~UNCHANGED told
    BY <2>1, <2>3 DEF ReleasesInv, ReleasesTyped, Synced
  <2>4. QED
    BY <2>2, <2>3 DEF GetLatest
<1>6. QED
  BY <1>1, <1>2, <1>3, <1>4, <1>5 DEF ReleasesInv, ReleasesTyped

LEMMA RestartedKeeps == ASSUME ReleasesInv, Restarted PROVE ReleasesInv'
<1>1. PICK r \in Request, parts \in SUBSET Part :
          /\ client' = [piece \in Part |-> IF piece \in parts THEN download[r].tag ELSE client[piece]]
          /\ torn' = (torn \/ parts # {} \/ \E s \in Request : HalfCleared(s))
  BY DEF Restarted
<1>2. client' \in [Part -> Release \cup {0}]
  BY <1>1, PartlyWritten DEF ReleasesInv
<1>3. \A s \in Request : download'[s] = NoDownload
  BY DEF Restarted
<1>4. download' \in [Request -> Download] /\ Clearing' = {}
  BY <1>3, NoDownloadType DEF Restarted, Clearing
<1>5. Accounted'
  <2>1. CASE torn'
    BY <2>1 DEF Accounted
  <2>2. CASE ~torn'
    <3>1. ~torn /\ parts = {} /\ \A s \in Request : ~HalfCleared(s)
      BY <1>1, <2>2
    <3>2. client' = client
      BY <1>1, <3>1 DEF ReleasesInv, ReleasesTyped
    <3>3. Trustworthy(client)
      <4>1. CASE Clearing = {} /\ Trustworthy(client)
        BY <4>1
      <4>2. ASSUME NEW s \in Request, Cleared(download[s]) PROVE Trustworthy(client)
        <5>1. download[s].left \subseteq Part
          BY DEF ReleasesInv, ReleasesTyped, Download
        <5>2. QED
          BY <3>1, <4>2, <5>1, StoppedIsTrustworthy DEF HalfCleared
      <4>3. QED
        BY <3>1, <4>1, <4>2 DEF ReleasesInv, Accounted
    <3>4. Trustworthy(client)'
      BY <3>2, <3>3 DEF Trustworthy, ShouldUpdate
    <3>5. QED
      BY <1>4, <3>4 DEF Accounted
  <2>3. QED
    BY <2>1, <2>2
<1>6. torn' \in BOOLEAN
  BY <1>1 DEF ReleasesInv, ReleasesTyped, HalfCleared
<1>7. /\ bootFetch' = "waiting" /\ published' \in Release
      /\ told' \in [latest : Release \cup {0}, available : BOOLEAN]
      /\ syncing' \in [Request -> Release \cup {0, -1}]
  BY DEF Restarted, ReleasesInv, ReleasesTyped
<1>8. QED
  BY <1>2, <1>4, <1>5, <1>6, <1>7 DEF ReleasesInv, ReleasesTyped

LEMMA ReleasesStart == ReleasesInit => ReleasesInv
<1> SUFFICES ASSUME ReleasesInit PROVE ReleasesInv
  OBVIOUS
<1>1. client \in [Part -> Release \cup {0}] /\ Trustworthy(client)
  BY DEF ReleasesInit, Trustworthy, Part
<1>2. \A r \in Request : download[r] = NoDownload
  BY DEF ReleasesInit
<1>3. download \in [Request -> Download] /\ Clearing = {}
  BY <1>2, NoDownloadType DEF ReleasesInit, Clearing
<1>4. Installed \in Release
  BY ReleaseBounds DEF Release
<1>5. QED
  BY <1>1, <1>3, <1>4 DEF ReleasesInit, ReleasesInv, ReleasesTyped, Accounted

LEMMA ReleasesStep == ReleasesInv /\ [ReleasesNext]_releaseVars => ReleasesInv'
<1> SUFFICES ASSUME ReleasesInv, [ReleasesNext]_releaseVars PROVE ReleasesInv'
  OBVIOUS
<1>1. CASE UNCHANGED releaseVars
  <2>1. UNCHANGED <<client, download, torn, bootFetch, published, told, syncing>>
    BY <1>1 DEF releaseVars
  <2>2. Accounted'
    BY <2>1, ElsewhereKeeps DEF ReleasesInv, Clearing
  <2>3. QED
    BY <2>1, <2>2 DEF ReleasesInv, ReleasesTyped
<1>2. ASSUME NEW r \in Request,
             \/ TaskDecides(r) \/ Fetched(r) \/ Extract(r) \/ ExtractFails(r) \/ UpdateFails(r)
             \/ GetLatest(r) \/ Synced(r)
             \/ \E tag \in Release : AskUpdate(r, tag)
             \/ \E piece \in Part : RemovePart(r, piece)
      PROVE  ReleasesInv'
  BY <1>2, TaskDecidesKeeps, FetchedKeeps, ExtractKeeps, ExtractFailsKeeps, UpdateFailsKeeps,
     ServerReleaseKeeps, AskUpdateKeeps, RemovePartKeeps
<1>3. CASE ReleasePublished
  <2>1. UNCHANGED <<client, download, torn, bootFetch, told, syncing>>
    BY <1>3 DEF ReleasePublished
  <2>2. Accounted'
    BY <2>1, ElsewhereKeeps DEF ReleasesInv, Clearing
  <2>3. published' \in Release
    BY <1>3, ReleaseBounds DEF ReleasesInv, ReleasesTyped, ReleasePublished, Release
  <2>4. QED
    BY <2>1, <2>2, <2>3 DEF ReleasesInv, ReleasesTyped
<1>4. CASE Restarted
  BY <1>4, RestartedKeeps
<1>5. QED
  BY <1>1, <1>2, <1>3, <1>4 DEF ReleasesNext

LEMMA ReleasesAlways == ReleasesSpec => []ReleasesInv
BY ReleasesStart, ReleasesStep, PTL DEF ReleasesSpec

\* The state of the client, its updates and the releases is well-typed
\* (ClientBundleService, ServerReleaseService).
THEOREM ReleasesTypeCorrect == ReleasesSpec => []ReleasesTypeOK
<1>1. ReleasesInv => ReleasesTypeOK
  BY ReleasesTypedIsTypeOK DEF ReleasesInv
<1>2. QED
  BY <1>1, ReleasesAlways, PTL

\* A client that the download task would leave alone (shouldUpdateWithReason) is whole, unless an
\* update is under way, overlapped or was stopped in the middle of dist.
THEOREM TrustedClientIsWhole == ReleasesSpec => []TrustedIsWhole
<1>1. ReleasesInv => TrustedIsWhole
  BY DEF ReleasesInv, Accounted, TrustedIsWhole, Trustworthy
<1>2. QED
  BY <1>1, ReleasesAlways, PTL

-----------------------------------------------------------------------------
(* Types.                                                                  *)

\* The document of the settings, the store and the requests have the types the module gives them.
THEOREM SettingsTypeCorrect == SettingsSpec => []SettingsTypeOK
<1>1. SettingsTyped => SettingsTypeOK
  BY DEF SettingsTyped
<1>2. QED
  BY <1>1, SettingsAlwaysTyped, PTL

\* The users' sessions, their refresh tokens and the requests have the types the module gives them.
THEOREM SessionsTypeCorrect == SessionsSpec => []SessionsTypeOK
<1>1. SessionsTyped => SessionsTypeOK
  BY DEF SessionsTyped
<1>2. QED
  BY <1>1, SessionsAlwaysTyped, PTL

-----------------------------------------------------------------------------
(* All of them, side by side.                                              *)

allVars == <<part, accountVars, sessionVars, roleVars, settingsVars, yamlVars, releaseVars>>

LEMMA AllStart ==
    AllInit => /\ AccountsInit /\ SessionsInit /\ RolesInit
               /\ SettingsInit /\ YamlInit /\ ReleasesInit
BY DEF AllInit, SettingsAtRest, YamlAtRest, ReleasesAtRest

\* A step is one of one component, and leaves the others.
LEMMA AllStep ==
    ASSUME [AllNext]_allVars
    PROVE  /\ [AccountsNext]_accountVars /\ [SessionsNext]_sessionVars /\ [RolesNext]_roleVars
           /\ [SettingsNext]_settingsVars /\ [YamlNext]_yamlVars /\ [ReleasesNext]_releaseVars
BY DEF AllNext, allVars

\* What is checked side by side behaves, component by component, as each does alone: the theorems
\* about the components are theorems about the composition, and the runs that check the
\* composition check each.
THEOREM AdministrationIsItsComponents ==
    AllSpec => /\ AccountsSpec /\ SessionsSpec /\ RolesSpec
               /\ SettingsSpec /\ YamlSpec /\ ReleasesSpec
<1>1. AllSpec <=> AllInit /\ [][AllNext]_allVars
  BY DEF AllSpec, allVars
<1>2. QED
  BY <1>1, AllStart, AllStep, PTL
     DEF AccountsSpec, SessionsSpec, RolesSpec, SettingsSpec, YamlSpec, ReleasesSpec

\* The state of every component that a server is administered with is well-typed.
THEOREM AdministrationTypeCorrect == AllSpec => []AllTypeOK
<1>1. AccountsTypeOK /\ SessionsTypeOK /\ RolesTypeOK /\ SettingsTypeOK /\ YamlTypeOK /\ ReleasesTypeOK
      => AllTypeOK
  BY DEF AllTypeOK
<1>2. QED
  BY <1>1, AdministrationIsItsComponents, AccountsTypeCorrect, SessionsTypeCorrect, RolesTypeCorrect,
     SettingsTypeCorrect, YamlTypeCorrect, ReleasesTypeCorrect, PTL

=============================================================================
