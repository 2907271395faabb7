--------------------------------- MODULE Boot ---------------------------------
(***************************************************************************)
(* The start of the server: BootTask.run, called directly when the process *)
(* starts and, after the database could not be reached, every five seconds *)
(* by a job of the task manager.  In that case the server listens before   *)
(* it has loaded anything.                                                 *)
(***************************************************************************)
EXTENDS TaskManager, Migrations

CONSTANTS
    BootTask, SocketTask,   \* two of the tasks: the boot task, PrinterWebsocketTask
    MaxFaults   \* bound: how often the process dies, the database goes away or refuses an index

ASSUME TaskAssumption == BootTask \in Task /\ SocketTask \in Task \ {BootTask}
ASSUME FaultAssumption == MaxFaults \in Nat
ASSUME BootPreset == \A t \in Task : Preset[t] = "disabled" <=> t = BootTask

VARIABLES
    alive,      \* the process runs
    dbUp,       \* the database can be reached
    bootAt,     \* bootAt[run]: the step run is at, 0 if it is not under way
    serving,    \* the server listens
    loaded,     \* the steps that have been done in this process
    docs,       \* the fields of the documents of each collection
    applied,    \* migrations recorded as applied
    calls,      \* calls of the next migration that have been made
    born,       \* history: what the database was when the server was installed
    faults      \* faults so far

bootVars == <<alive, dbUp, bootAt, serving, loaded, docs, applied, calls, born, faults, tasks>>

\* run() is under way because runOnce called it, or the job
Run == {"direct", "job"}

Steps == <<"connect", "indexes", "migrate", "settings", "permissions", "roles", "account",
           "credentials", "sockets", "files", "floors", "tasks">>
StepOf(s) == CHOOSE i \in DOMAIN Steps : Steps[i] = s

\* Steps that only load or write what the database has
Loading == {"settings", "permissions", "roles", "account", "credentials", "sockets", "files", "floors"}

BootTypeOK ==
    /\ alive \in BOOLEAN /\ dbUp \in BOOLEAN /\ serving \in BOOLEAN
    /\ bootAt \in [Run -> 0..Len(Steps)]
    /\ loaded \subseteq Loading \cup {"tasks"}
    /\ applied \in 0..Len(Migration)
    /\ calls \in Nat
    /\ faults \in 0..MaxFaults
    /\ TasksTypeOK

At(run, s) == alive /\ bootAt[run] = StepOf(s)
Advance(run) == bootAt' = [bootAt EXCEPT ![run] = @ + 1]

\* run() returns: after the direct one the server listens, after the job's the task has ended
Returned(run) == bootAt' = [bootAt EXCEPT ![run] = 0]
Listens(run) == serving' = (serving \/ run = "direct")

\* Variant: the direct run ends the task, too
AfterAnyRun(run, ts) == Ended(ts, BootTask)

AfterRun(run, ts) == IF run = "job" THEN Ended(ts, BootTask) ELSE ts

Fault == faults < MaxFaults /\ faults' = faults + 1

-----------------------------------------------------------------------------
(* Connecting and migrating.                                               *)

Connect(run) ==
    /\ At(run, "connect") /\ dbUp
    /\ Advance(run)
    /\ UNCHANGED <<alive, dbUp, serving, loaded, docs, applied, calls, born, faults, tasks>>

\* A mongoose.Error: the job is enabled, and run() returns
RetriedLater(run) ==
    /\ tasks' = AfterRun(run, Enabling(tasks, BootTask))
    /\ Returned(run) /\ Listens(run)

ConnectFails(run) ==
    /\ At(run, "connect") /\ ~dbUp
    /\ RetriedLater(run)
    /\ UNCHANGED <<alive, dbUp, loaded, docs, applied, calls, born, faults>>

\* The collections of the models, which syncIndexes creates
Modelled == Collection \ {"printerfloors"}
Created(cs) == [c \in Collection |-> IF docs[c] = None /\ c \in cs THEN {} ELSE docs[c]]

SyncIndexes(run) ==
    /\ At(run, "indexes") /\ dbUp
    /\ docs' = Created(Modelled)
    /\ Advance(run) /\ calls' = 0
    /\ UNCHANGED <<alive, dbUp, serving, loaded, applied, born, faults, tasks>>

\* It rejects, some collections created: the database is away, or an index cannot be built.
\* A mongoose.Error is answered like one of connect(); another error is swallowed, and the
\* migrations are left out.
SyncFails(run, cs) ==
    /\ At(run, "indexes")
    /\ IF dbUp THEN Fault ELSE UNCHANGED faults
    /\ docs' = Created(cs)
    /\ \/ RetriedLater(run)
       \/ /\ bootAt' = [bootAt EXCEPT ![run] = StepOf("settings")]
          /\ UNCHANGED <<serving, tasks>>
    /\ UNCHANGED <<alive, dbUp, loaded, applied, calls, born>>

\* Variant: a migration is recorded before its last call
AlmostMade(n, m) == n + 1 = Len(m)

AllMade(n, m) == n = Len(m)

Pending == applied < Len(Migration) /\ ~AllMade(calls, Migration[applied + 1])
NextCall == Migration[applied + 1][calls + 1]

MigrateCall(run) ==
    /\ At(run, "migrate") /\ dbUp
    /\ Pending /\ ~Impossible(docs, NextCall)
    /\ docs' = After(docs, NextCall)
    /\ calls' = calls + 1
    /\ UNCHANGED <<alive, dbUp, bootAt, serving, loaded, applied, born, faults, tasks>>

\* The changelog of migrate-mongo
MigrateRecord(run) ==
    /\ At(run, "migrate") /\ dbUp
    /\ applied < Len(Migration) /\ AllMade(calls, Migration[applied + 1])
    /\ applied' = applied + 1 /\ calls' = 0
    /\ UNCHANGED <<alive, dbUp, bootAt, serving, loaded, docs, born, faults, tasks>>

\* No migration is left, or one has failed: an error that is no mongoose.Error is swallowed
MigrateEnds(run) ==
    /\ At(run, "migrate")
    /\ \/ ~dbUp
       \/ applied = Len(Migration)
       \/ Pending /\ Impossible(docs, NextCall)
    /\ Advance(run)
    /\ UNCHANGED <<alive, dbUp, serving, loaded, docs, applied, calls, born, faults, tasks>>

-----------------------------------------------------------------------------
(* The other steps.                                                        *)

\* loadSettings, syncPermissions, syncRoles, the account and login settings, the sockets, the
\* files and the floors.  loadFilesStore logs errors.
Load(run, s) ==
    /\ At(run, s) /\ s \in Loading
    /\ dbUp \/ s = "files"
    /\ loaded' = loaded \cup {s}
    /\ Advance(run)
    /\ UNCHANGED <<alive, dbUp, serving, docs, applied, calls, born, faults, tasks>>

\* run() rejects: at the start of the server the process exits, the job's error is logged
LoadFails(run, s) ==
    /\ At(run, s) /\ s \in Loading \ {"files"} /\ ~dbUp
    /\ Returned(run)
    /\ alive' = (run = "job")
    /\ tasks' = AfterRun(run, tasks)
    /\ UNCHANGED <<dbUp, serving, loaded, docs, applied, calls, born, faults>>

\* BOOT_TASKS are registered; "Success so we disable this task"
RegisterTasks(run) ==
    /\ At(run, "tasks")
    /\ \E stops \in BOOLEAN : tasks' =
          LET all == [t \in Task |-> Registering(tasks, t)[t]] IN
          AfterRun(run, Disabling(all, BootTask, stops))
    /\ loaded' = loaded \cup {"tasks"}
    /\ Returned(run) /\ Listens(run)
    /\ UNCHANGED <<alive, dbUp, docs, applied, calls, born, faults>>

-----------------------------------------------------------------------------
(* The process, its tasks, and the database.                               *)

\* runOnce: the boot task is registered, disabled
Start ==
    /\ ~alive
    /\ alive' = TRUE /\ serving' = FALSE /\ loaded' = {} /\ calls' = 0
    /\ bootAt' = [run \in Run |-> IF run = "direct" THEN StepOf("connect") ELSE 0]
    /\ tasks' = Registering(NoTasks, BootTask)
    /\ UNCHANGED <<dbUp, docs, applied, born, faults>>

TaskStarts(t) ==
    /\ alive
    /\ TaskRuns(t)
    /\ IF t = BootTask THEN bootAt' = [bootAt EXCEPT !["job"] = StepOf("connect")]
       ELSE UNCHANGED bootAt
    /\ UNCHANGED <<alive, dbUp, serving, loaded, docs, applied, calls, born, faults>>

OtherEnds(t) ==
    /\ alive /\ t # BootTask
    /\ TaskEnds(t)
    /\ UNCHANGED <<alive, dbUp, bootAt, serving, loaded, docs, applied, calls, born, faults>>

ProcessDies ==
    /\ alive /\ Fault
    /\ alive' = FALSE
    /\ UNCHANGED <<dbUp, bootAt, serving, loaded, docs, applied, calls, born, tasks>>

DatabaseGoes ==
    /\ dbUp /\ Fault
    /\ dbUp' = FALSE
    /\ UNCHANGED <<alive, bootAt, serving, loaded, docs, applied, calls, born, tasks>>

DatabaseComes ==
    /\ ~dbUp
    /\ dbUp' = TRUE
    /\ UNCHANGED <<alive, bootAt, serving, loaded, docs, applied, calls, born, faults, tasks>>

BootInit ==
    /\ alive = FALSE /\ serving = FALSE /\ loaded = {} /\ calls = 0 /\ faults = 0
    /\ dbUp = TRUE
    /\ bootAt = [run \in Run |-> 0]
    /\ tasks = NoTasks
    /\ born \in {Oldest, Fresh}
    /\ applied \in 0..Len(Migration)
    /\ docs = Migrated(born, applied)

BootStep(run) ==
    \/ Connect(run) \/ ConnectFails(run) \/ SyncIndexes(run)
    \/ \E cs \in SUBSET Modelled : SyncFails(run, cs)
    \/ MigrateCall(run) \/ MigrateRecord(run) \/ MigrateEnds(run)
    \/ \E s \in Loading : Load(run, s) \/ LoadFails(run, s)
    \/ RegisterTasks(run)

BootNext ==
    \/ \E run \in Run : BootStep(run)
    \/ \E t \in Task : TaskStarts(t) \/ OtherEnds(t)
    \/ Start \/ ProcessDies \/ DatabaseGoes \/ DatabaseComes

\* Calls to the database are answered or fail, timers fire; a supervisor starts the process
\* again, and the database comes back
BootFairness ==
    /\ \A run \in Run : WF_bootVars(BootStep(run))
    /\ WF_bootVars(TaskStarts(BootTask))
    /\ WF_bootVars(Start) /\ WF_bootVars(DatabaseComes)

BootSpec == BootInit /\ [][BootNext]_bootVars /\ BootFairness

-----------------------------------------------------------------------------
(* Properties.                                                             *)

Ready == alive /\ serving /\ loaded = Loading \cup {"tasks"}

\* However often the connection is retried, the boot sequence never runs twice at once, the
\* direct run, the job's and those of timers that were not stopped included, and a task has one
\* timer of its own and one execution at most.
NothingTwice ==
    /\ alive => \E run \in Run : bootAt[run] = 0
    /\ \A t \in Task : tasks[t].timers <= 1 /\ tasks[t].runs <= 1

\* loadPrinterSockets replaces all adapters: it never runs once the tasks that open and
\* repair sockets do, as long as job.stop() has stopped the boot job.
NoReload ==
    alive /\ tasks[SocketTask].known /\ tasks[BootTask].strays = 0 =>
        \A run \in Run : bootAt[run] # StepOf("sockets")

\* When a migration is recorded, printers and users are what the migrations make of the
\* original database, whatever was interrupted and made again.
MigratedAsDesigned ==
    [][applied' > applied =>
          \A c \in {"printers", "users"} :
              Empty(docs'[c]) \/ docs'[c] = Migrated(born, applied')[c]]_bootVars

\* Once faults have stopped the server is up with everything loaded, and stays so.
BootCompletes == <>[]Ready
=============================================================================
