---------------------------- MODULE MCAdministration ----------------------------
(***************************************************************************)
(* What a server is administered with: users, sessions, roles, settings,   *)
(* backups and releases.  They share no state: `part` says which of them   *)
(* moves, the others stay where they start.  Checked side by side, they do *)
(* not multiply each other's states.                                       *)
(***************************************************************************)
EXTENDS Accounts, Sessions, Roles, Settings, YamlTransfer, Releases

VARIABLE part

Names == <<"ADMIN", "OPERATOR", "GUEST">>
Lower == [u |-> "u", U |-> "u"]
SomeStrategies == {<<"name", "url">>, <<"url">>, <<"id">>}
TwoOnAFloor == <<{<<1, 0>>, <<2, 1>>}>>

\* One state of the parts that may start in several
SettingsAtRest == SettingsInit /\ settingsDb = None
YamlAtRest ==
    /\ YamlInit
    /\ floorDocs[1].level = 1
    /\ \A p \in 1..2 : printerDocs[p].name = "a" /\ printerDocs[p].url = "u"
ReleasesAtRest == ReleasesInit /\ client["package"] = 0

AllInit ==
    /\ part \in {"accounts", "sessions", "roles", "settings", "yaml", "releases"}
    /\ AccountsInit /\ SessionsInit /\ RolesInit
    /\ IF part = "settings" THEN SettingsInit ELSE SettingsAtRest
    /\ IF part = "yaml" THEN YamlInit ELSE YamlAtRest
    /\ IF part = "releases" THEN ReleasesInit ELSE ReleasesAtRest

AllNext ==
    \/ /\ part = "accounts" /\ AccountsNext
       /\ UNCHANGED <<part, sessionVars, roleVars, settingsVars, yamlVars, releaseVars>>
    \/ /\ part = "sessions" /\ SessionsNext
       /\ UNCHANGED <<part, accountVars, roleVars, settingsVars, yamlVars, releaseVars>>
    \/ /\ part = "roles" /\ RolesNext
       /\ UNCHANGED <<part, accountVars, sessionVars, settingsVars, yamlVars, releaseVars>>
    \/ /\ part = "settings" /\ SettingsNext
       /\ UNCHANGED <<part, accountVars, sessionVars, roleVars, yamlVars, releaseVars>>
    \/ /\ part = "yaml" /\ YamlNext
       /\ UNCHANGED <<part, accountVars, sessionVars, roleVars, settingsVars, releaseVars>>
    \/ /\ part = "releases" /\ ReleasesNext
       /\ UNCHANGED <<part, accountVars, sessionVars, roleVars, settingsVars, yamlVars>>

AllSpec ==
    AllInit /\ [][AllNext]_<<part, accountVars, sessionVars, roleVars, settingsVars, yamlVars,
                             releaseVars>>

\* The state of every part is well-typed.
AllTypeOK ==
    /\ AccountsTypeOK /\ SessionsTypeOK /\ RolesTypeOK
    /\ SettingsTypeOK /\ YamlTypeOK /\ ReleasesTypeOK

\* Histories of which all that is interesting has happened are not followed further
Bounded ==
    /\ sessionMixed # RefreshToken /\ strays # Member
    /\ ~(settingsLost /\ settingsMixed)

Symmetric == Permutations(Request)
=============================================================================
