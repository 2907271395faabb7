-------------------------------- MODULE Roles --------------------------------
(***************************************************************************)
(* The roles: documents RoleService.syncRoles looks up or creates one by   *)
(* one, the list it fills with them, and the ids of roles that accounts    *)
(* are given.  The boot task synchronises the roles; so does a request     *)
(* that finds the list empty, which it can be while a server that was      *)
(* waiting for its database loads.  Permissions are kept the same way.     *)
(***************************************************************************)
EXTENDS Actors, Naturals, SequencesExt

CONSTANTS
    RoleName,   \* names of the roles, a sequence
    MaxRole     \* bound: documents of roles, whose ids are given out in order

ASSUME RolesAssumption == RoleName \in Seq(STRING) /\ RoleName # <<>> /\ MaxRole \in Nat

VARIABLES
    roleDocs,   \* the stored documents in the order in which findOne meets them
    roles,      \* the list of RoleService
    roleReq,    \* roleReq[r]: what request r waits for, the index of the role it has come to,
                \* and the role it wants, None for the boot task
    granted,    \* ids of roles in the documents of users
    rolesMixed  \* history: two synchronisations overlapped

roleVars == <<roleDocs, roles, roleReq, granted, rolesMixed>>

RoleId == 1..MaxRole
Role == [id : RoleId, name : Range(RoleName)]
NoRoleReq == [stage |-> "idle", at |-> 0, name |-> None]

RolesTypeOK ==
    /\ roleDocs \in Seq(Role)
    /\ roles \in Seq(Role)
    /\ roleReq \in [Request -> [stage : {"idle", "find", "create"}, at : Nat,
                                name : Range(RoleName) \cup {None}]]
    /\ granted \subseteq RoleId
    /\ rolesMixed \in BOOLEAN

-----------------------------------------------------------------------------
HasName(list, name) == \E i \in DOMAIN list : list[i].name = name

\* No earlier one has its name
IsFirst(list, i) == \A j \in 1..(i - 1) : list[j].name # list[i].name

\* getRoleByName: the first of that name, if there is one
RoleByName(list, name) ==
    list[CHOOSE i \in DOMAIN list : list[i].name = name /\ IsFirst(list, i)]

Syncing(r) == roleReq[r].stage # "idle"

\* syncRoles starts with an empty list
SyncRoles(r, name) ==
    /\ roles' = <<>>
    /\ roleReq' = [roleReq EXCEPT ![r] = [stage |-> "find", at |-> 1, name |-> name]]
    /\ rolesMixed' = (rolesMixed \/ \E q \in Request : Syncing(q))
    /\ UNCHANGED <<roleDocs, granted>>

\* The boot task, once in a process; the requests of the last one are gone
BootRoles(r) ==
    /\ roles' = <<>>
    /\ roleReq' = [q \in Request |->
          IF q = r THEN [stage |-> "find", at |-> 1, name |-> None] ELSE NoRoleReq]
    /\ UNCHANGED <<roleDocs, granted, rolesMixed>>

\* A user is registered with a role: getSynchronizedRoleByName, getAppDefaultRoleIds.  An
\* unknown name is an error.
Grant(list, name) ==
    granted' = IF HasName(list, name) THEN granted \cup {RoleByName(list, name).id}
               ELSE granted

GrantRole(r, name) ==
    /\ ~Syncing(r)
    /\ IF roles = <<>> THEN SyncRoles(r, name)
       ELSE Grant(roles, name) /\ UNCHANGED <<roleDocs, roles, roleReq, rolesMixed>>

\* The next role, or the end: a request goes on with the list as it is then
NextRole(r, list) ==
    LET q == roleReq[r] IN
    /\ roles' = list
    /\ IF q.at < Len(RoleName)
       THEN roleReq' = [roleReq EXCEPT ![r] = [q EXCEPT !.stage = "find", !.at = q.at + 1]]
            /\ UNCHANGED granted
       ELSE /\ roleReq' = [roleReq EXCEPT ![r] = NoRoleReq]
            /\ IF q.name = None THEN UNCHANGED granted ELSE Grant(list, q.name)

\* Variant: no role is looked for
NeverStored(name) == <<>>

\* Role.findOne
Stored(name) == IF HasName(roleDocs, name) THEN <<RoleByName(roleDocs, name)>> ELSE <<>>

FindRole(r) ==
    LET q == roleReq[r]
        found == Stored(RoleName[q.at])
    IN
    /\ q.stage = "find"
    /\ IF found = <<>>
       THEN roleReq' = [roleReq EXCEPT ![r].stage = "create"] /\ UNCHANGED <<roles, granted>>
       ELSE NextRole(r, roles \o found)
    /\ UNCHANGED <<roleDocs, rolesMixed>>

\* Role.create: names are not unique
CreateRole(r) ==
    LET q == roleReq[r]
        role == [id |-> Len(roleDocs) + 1, name |-> RoleName[q.at]]
    IN
    /\ q.stage = "create"
    /\ Len(roleDocs) < MaxRole
    /\ roleDocs' = Append(roleDocs, role)
    /\ NextRole(r, Append(roles, role))
    /\ UNCHANGED rolesMixed

\* A call fails: the request is answered, or the boot ends
SyncFails(r) ==
    /\ Syncing(r)
    /\ roleReq' = [roleReq EXCEPT ![r] = NoRoleReq]
    /\ UNCHANGED <<roleDocs, roles, granted, rolesMixed>>

-----------------------------------------------------------------------------
RolesInit ==
    /\ roleDocs = <<>> /\ roles = <<>>
    /\ roleReq = [r \in Request |-> NoRoleReq]
    /\ granted = {}
    /\ rolesMixed = FALSE

RolesNext ==
    \E r \in Request :
        \/ BootRoles(r) \/ FindRole(r) \/ CreateRole(r) \/ SyncFails(r)
        \/ \E name \in Range(RoleName) : GrantRole(r, name)

RolesSpec == RolesInit /\ [][RolesNext]_roleVars

-----------------------------------------------------------------------------
(* Properties.                                                             *)

\* A user keeps the role it was given across restarts: the document it refers to is the one
\* every later synchronisation finds, unless two synchronisations have overlapped.
GrantsHold ==
    rolesMixed \/ \A id \in granted :
        \E i \in DOMAIN roleDocs :
            roleDocs[i].id = id /\ RoleByName(roleDocs, roleDocs[i].name).id = id
=============================================================================
