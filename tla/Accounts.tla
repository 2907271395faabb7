------------------------------- MODULE Accounts -------------------------------
(***************************************************************************)
(* The users: UserService and the operations of UserController, the first- *)
(* time set-up that creates the owner, registration, and the demo account  *)
(* of the boot task, which is repeated until it succeeds: its first run in *)
(* a process comes before the server listens, later ones while it serves.  *)
(*                                                                         *)
(* An operation reads a user, sometimes counts others, and writes in a     *)
(* later call, without a version check.  A name belongs to one account.    *)
(* Requests hold the id of an account: what is asked about one that is     *)
(* gone finds nothing and changes nothing, whoever takes its name.         *)
(***************************************************************************)
EXTENDS Actors, FiniteSets, Naturals

CONSTANTS
    User,       \* names of users
    DemoUser,   \* the name of the demo account, which no owner takes
    DemoRole    \* roles the demo account may be configured with

ASSUME AccountsAssumption ==
    /\ DemoUser \in User /\ None \notin User
    /\ DemoRole \subseteq {"ADMIN", "OPERATOR"} /\ None \notin DemoRole

VARIABLES
    users,          \* users[u]: the account of u
    wizardDone,     \* the wizard is completed
    accountsUp,     \* the server: "down"; "starting", in the first run of the boot; "loaded",
                    \* serving while a run is to be repeated; or "up"
    demoRole,       \* the role of the demo account, None without demo mode
    accountReq      \* accountReq[r]: what request r, or run r of the boot, waits for, the user
                    \* it is about, the value it sets, whether it found the user so already, and
                    \* (history) what an operation that overlapped with it is about as well

accountVars == <<users, wizardDone, accountsUp, demoRole, accountReq>>

Account == [exists : BOOLEAN, root : BOOLEAN, verified : BOOLEAN, admin : BOOLEAN]
NoAccount == [exists |-> FALSE, root |-> FALSE, verified |-> FALSE, admin |-> FALSE]

\* "demo": the boot creates the demo account, or finds it and sets "verified", "root" and "role"
Operation == {"root", "verified", "delete", "wizard", "demo", "role"}

\* The call that is out; "rest": what the boot does after the accounts
AccountStage == {"idle", "check", "find", "count", "save", "register", "complete", "rest"}

\* What is asked by a request, and by a run of the boot
Asked(stage, op, u, value) ==
    [stage |-> stage, op |-> op, u |-> u, value |-> value, boot |-> FALSE, was |-> FALSE,
     raced |-> {}]
AskedByBoot(stage, op, value) == [Asked(stage, op, DemoUser, value) EXCEPT !.boot = TRUE]

NoAccountReq == Asked("idle", "root", None, FALSE)

AccountsTypeOK ==
    /\ users \in [User -> Account]
    /\ wizardDone \in BOOLEAN
    /\ accountsUp \in {"down", "starting", "loaded", "up"}
    /\ demoRole \in DemoRole \cup {None}
    /\ accountReq \in [Request -> [stage : AccountStage, op : Operation, u : User \cup {None},
                                   value : BOOLEAN, boot : BOOLEAN, was : BOOLEAN,
                                   raced : SUBSET {"owners", "admins"}]]

Roots == {u \in User : users[u].root}
Admins == {u \in User : users[u].admin}
Verified == {u \in User : users[u].verified}

-----------------------------------------------------------------------------
(* Operations on a user.                                                   *)

Serving == accountsUp \in {"loaded", "up"}

InFlight(r) == accountReq[r].stage # "idle"

\* What two operations together may take away: the last owner, by a change of an owner and a
\* demotion or deletion; the last admin, by a deletion and another, or the demo account's role
Contended(p, q) ==
    {x \in {"owners", "admins"} :
        IF x = "admins"
        THEN {p.op, q.op} \in {{"delete"}, {"delete", "role"}} /\ ~p.value /\ ~q.value
        ELSE {p.op, q.op} \in {{"root"}, {"root", "delete"}} /\ ~(p.value /\ q.value)}

\* r begins an operation
Begins(r, new) ==
    LET with(q) == IF q # r /\ InFlight(q) THEN Contended(new, accountReq[q]) ELSE {} IN
    accountReq' = [q \in Request |->
        IF q = r THEN [new EXCEPT !.raced = UNION {with(s) : s \in Request}]
        ELSE [accountReq[q] EXCEPT !.raced = @ \cup with(q)]]

\* Request r starts an operation on u
AskAccount(r, stage, op, u, value) ==
    /\ Serving /\ ~InFlight(r)
    /\ Begins(r, Asked(stage, op, u, value))
    /\ UNCHANGED <<users, wizardDone, accountsUp, demoRole>>

\* setRootUser: whoever is logged in must be an owner
SetRootUser(r, u, value) ==
    wizardDone /\ users[u].exists /\ AskAccount(r, "find", "root", u, value)
SetVerified(r, u, value) ==
    wizardDone /\ users[u].exists /\ AskAccount(r, "check", "verified", u, value)
DeleteUser(r, u) ==
    /\ wizardDone /\ users[u].exists
    /\ u = DemoUser => demoRole = None
    /\ AskAccount(r, "check", "delete", u, FALSE)

\* Request r is answered; if it is a run of the boot it has failed, to be repeated if the
\* server listens already, and the end of the process if not
Answered(r) ==
    /\ accountReq' = [accountReq EXCEPT ![r] = NoAccountReq]
    /\ accountsUp' = IF accountReq[r].boot /\ accountsUp = "starting" THEN "down" ELSE accountsUp

Goes(r, stage) == accountReq' = [accountReq EXCEPT ![r].stage = stage] /\ UNCHANGED accountsUp

\* isUserRootUser: "Not allowed to delete root user", "... to change root user to unverified",
\* also when it is to be verified
CheckRootUser(r) ==
    /\ accountReq[r].stage = "check"
    /\ IF users[accountReq[r].u].root THEN Answered(r) ELSE Goes(r, "find")
    /\ UNCHANGED <<users, wizardDone, demoRole>>

\* What the found user must not be, what must be left of others
Forbidden(q) == users[q.u].root /\ (q.op = "delete" \/ (q.op = "verified" /\ ~q.value))
Counted(q) ==
    \/ q.op = "delete" /\ users[q.u].admin
    \/ q.op \in {"root", "verified"} /\ ~q.value
Others(op) ==
    CASE op = "root" -> Roots
      [] op = "verified" -> Verified
      [] OTHER -> Admins

\* findById
FindUser(r) ==
    LET q == accountReq[r] IN
    /\ q.stage = "find" /\ q.op \notin {"wizard", "demo"}
    /\ IF Forbidden(q) THEN Answered(r)
       ELSE /\ accountReq' = [accountReq EXCEPT
                  ![r].stage = IF Counted(q) THEN "count" ELSE "save",
                  ![r].was = CASE q.op = "root" -> users[q.u].root
                               [] q.op = "verified" -> users[q.u].verified
                               [] q.op = "role" -> users[q.u].admin
                               [] OTHER -> FALSE]
            /\ UNCHANGED accountsUp
    /\ UNCHANGED <<users, wizardDone, demoRole>>

\* Variant: none would have to be left
NoneLeft(set) == set = {}

\* "Cannot set the last root user to non-root user", "Cannot set the last user to unverified",
\* "Cannot delete the last user with ADMIN role": whoever the last one is
LastOne(set) == Cardinality(set) = 1

CountOthers(r) ==
    /\ accountReq[r].stage = "count"
    /\ IF LastOne(Others(accountReq[r].op)) THEN Answered(r) ELSE Goes(r, "save")
    /\ UNCHANGED <<users, wizardDone, demoRole>>

\* Whoever else asked about u asked about its account
Holds(s, u) == accountReq[s].u = u /\ accountReq[s].op # "wizard"

\* createOrUpdateDemoAccount goes on: setVerifiedById, setIsRootUserById, then the password, which
\* is not kept here, setUserRoleIds and setWizardCompleted
NextOfBoot(op) ==
    CASE op = "verified" -> AskedByBoot("find", "root", FALSE)
      [] op = "root" -> AskedByBoot("find", "role", demoRole = "ADMIN")
      [] OTHER -> AskedByBoot("complete", "demo", TRUE)

\* save() writes the field if it differs from what was found; findByIdAndDelete, after which the
\* other requests about the account find nothing
SaveUser(r) ==
    LET q == accountReq[r] IN
    /\ q.stage = "save"
    /\ users' = IF q.op = "delete" THEN [users EXCEPT ![q.u] = NoAccount]
                ELSE IF q.value = q.was THEN users
                ELSE IF q.op = "root" THEN [users EXCEPT ![q.u].root = q.value]
                ELSE IF q.op = "role" THEN [users EXCEPT ![q.u].admin = q.value]
                ELSE [users EXCEPT ![q.u].verified = q.value]
    /\ IF q.boot THEN Begins(r, NextOfBoot(q.op))
       ELSE accountReq' = [s \in Request |->
               IF s = r \/ (q.op = "delete" /\ Holds(s, q.u)) THEN NoAccountReq ELSE accountReq[s]]
    /\ UNCHANGED <<wizardDone, accountsUp, demoRole>>

-----------------------------------------------------------------------------
(* Creating users.                                                         *)

\* AuthController.register, once the roles are there; a name that is taken is refused
RegisterUser(u) ==
    /\ Serving /\ wizardDone
    /\ u # DemoUser /\ ~users[u].exists
    /\ users' = [users EXCEPT ![u] = [NoAccount EXCEPT !.exists = TRUE]]
    /\ UNCHANGED <<wizardDone, accountsUp, demoRole, accountReq>>

\* completeWizard: "Wizard already completed"
StartWizard(r, u) == ~wizardDone /\ u # DemoUser /\ AskAccount(r, "find", "wizard", u, TRUE)

Owner == [exists |-> TRUE, root |-> TRUE, verified |-> TRUE, admin |-> TRUE]

\* findRawByUsername: "This user already exists"
FindByUsername(r) ==
    LET q == accountReq[r] IN
    /\ q.stage = "find" /\ q.op = "wizard"
    /\ IF users[q.u].exists THEN Answered(r) ELSE Goes(r, "register")
    /\ UNCHANGED <<users, wizardDone, demoRole>>

\* getDemoUserId
FindDemoUser(r) ==
    /\ accountReq[r].stage = "find" /\ accountReq[r].op = "demo"
    /\ IF users[DemoUser].exists
       THEN Begins(r, AskedByBoot("find", "verified", TRUE)) /\ UNCHANGED accountsUp
       ELSE Goes(r, "register")
    /\ UNCHANGED <<users, wizardDone, demoRole>>

\* register: the index of usernames refuses a second one
RegisterOwner(r) ==
    LET q == accountReq[r]
        new == IF q.op = "wizard" THEN Owner
               ELSE [Owner EXCEPT !.root = FALSE, !.admin = demoRole = "ADMIN"]
    IN
    /\ q.stage = "register"
    /\ IF users[q.u].exists THEN Answered(r) /\ UNCHANGED users
       ELSE users' = [users EXCEPT ![q.u] = new] /\ Goes(r, "complete")
    /\ UNCHANGED <<wizardDone, demoRole>>

\* setLoginRequired, setRegistrationEnabled, setWizardCompleted
CompleteWizard(r) ==
    /\ accountReq[r].stage = "complete"
    /\ wizardDone' = TRUE
    /\ IF accountReq[r].boot THEN Goes(r, "rest") ELSE Answered(r)
    /\ UNCHANGED <<users, demoRole>>

-----------------------------------------------------------------------------
(* The server.                                                             *)

\* A call of an operation fails
AccountFails(r) ==
    /\ InFlight(r)
    /\ Answered(r)
    /\ UNCHANGED <<users, wizardDone, demoRole>>

ServerStops ==
    /\ accountsUp' = "down"
    /\ accountReq' = [r \in Request |-> NoAccountReq]
    /\ UNCHANGED <<users, wizardDone, demoRole>>

\* Without demo mode the boot changes no account
StartServer ==
    /\ accountsUp = "down"
    /\ accountsUp' = "up" /\ demoRole' = None
    /\ UNCHANGED <<users, wizardDone, accountReq>>

\* A boot in demo mode comes to the accounts, in the first run or, if that found no database, in
\* a repeated one; requests are answered once the settings are loaded
StartDemo(r, role) ==
    /\ accountsUp = "down"
    /\ accountsUp' \in {"starting", "loaded"} /\ demoRole' = role
    /\ Begins(r, AskedByBoot("find", "demo", TRUE))
    /\ UNCHANGED <<users, wizardDone>>

\* The boot is repeated after a failure; runs of it do not overlap
RepeatBoot(r) ==
    /\ accountsUp = "loaded" /\ ~InFlight(r)
    /\ \A q \in Request : ~accountReq[q].boot
    /\ Begins(r, AskedByBoot("find", "demo", TRUE))
    /\ UNCHANGED <<users, wizardDone, accountsUp, demoRole>>

BootSucceeds(r) ==
    /\ accountReq[r].stage = "rest"
    /\ accountReq' = [accountReq EXCEPT ![r] = NoAccountReq]
    /\ accountsUp' = "up"
    /\ UNCHANGED <<users, wizardDone, demoRole>>

-----------------------------------------------------------------------------
AccountsInit ==
    /\ users = [u \in User |-> NoAccount]
    /\ wizardDone = FALSE
    /\ accountsUp = "down"
    /\ demoRole = None
    /\ accountReq = [r \in Request |-> NoAccountReq]

AccountsNext ==
    \/ \E r \in Request :
          \/ \E u \in User : DeleteUser(r, u) \/ StartWizard(r, u)
          \/ \E u \in User, value \in BOOLEAN : SetRootUser(r, u, value) \/ SetVerified(r, u, value)
          \/ CheckRootUser(r) \/ FindUser(r) \/ CountOthers(r) \/ SaveUser(r)
          \/ FindByUsername(r) \/ RegisterOwner(r) \/ CompleteWizard(r) \/ AccountFails(r)
          \/ \E role \in DemoRole : StartDemo(r, role)
          \/ RepeatBoot(r) \/ FindDemoUser(r) \/ BootSucceeds(r)
    \/ \E u \in User : RegisterUser(u)
    \/ ServerStops \/ StartServer

AccountsSpec == AccountsInit /\ [][AccountsNext]_accountVars

-----------------------------------------------------------------------------
(* Properties.                                                             *)

Raced(x) == \E r \in Request : x \in accountReq[r].raced

\* "Ensure at least one user is root user": whatever else overlaps or is interrupted, in requests
\* and in a boot repeated while they are served, the last owner goes only in an operation that
\* the change of an owner overlapped with.
OwnerStays == [][Roots # {} => Roots' # {} \/ Raced("owners")]_accountVars

\* The last user with the ADMIN role goes only in a deletion that another one, or a change of the
\* demo account's role, overlapped with, or if it is the demo account, configured to be no admin.
AdminStays ==
    [][Admins # {} => \/ Admins' # {} \/ Raced("admins")
                      \/ Admins = {DemoUser} /\ demoRole \notin {None, "ADMIN"}]_accountVars
=============================================================================
