------------------------------ MODULE TaskManager ------------------------------
(***************************************************************************)
(* TaskManagerService: the tasks that were registered, the timers the      *)
(* scheduler runs for them, and their executions.  The operators give the  *)
(* effect of its methods on the state of the tasks; a module that uses     *)
(* them says when they are called.                                         *)
(***************************************************************************)
EXTENDS Naturals

CONSTANTS
    Task,       \* ids of tasks
    Preset      \* Preset[t]: when the task runs

\* runOnce, runDelayed, periodic, and periodic but disabled when it is registered
ASSUME PresetAssumption == Preset \in [Task -> {"once", "delayed", "periodic", "disabled"}]

VARIABLE
    tasks       \* tasks[t]: the entry of t in taskStates, its timers and its execution

\* timers: of periodic jobs; strays: timers of jobs that were stopped and go on; due: the timeout
\* of a delayed task; runs: executions under way
TaskRec == [known : BOOLEAN, disabled : BOOLEAN, timers : Nat, strays : Nat, due : BOOLEAN, runs : Nat]
Unknown == [known |-> FALSE, disabled |-> FALSE, timers |-> 0, strays |-> 0, due |-> FALSE, runs |-> 0]

TasksTypeOK == tasks \in [Task -> TaskRec]

NoTasks == [t \in Task |-> Unknown]

-----------------------------------------------------------------------------
(* Methods.                                                                *)

\* validateInput, of a well-formed task: "Cant register a key twice"
Valid(ts, t) == ~ts[t].known

\* #scheduleEnabledPeriodicJob: every call makes a new job
Scheduled(s) == IF s.disabled THEN s ELSE [s EXCEPT !.timers = @ + 1]

\* What registering makes of the entry of a task
Entered(s, preset) ==
    CASE preset = "once" -> [s EXCEPT !.runs = @ + 1]
      [] preset = "delayed" -> [s EXCEPT !.due = TRUE]
      [] OTHER -> Scheduled(s)

\* Variant: a disabled job is scheduled
RegisteringAll(ts, t) ==
    IF ~Valid(ts, t) THEN ts
    ELSE [ts EXCEPT ![t] = Entered([@ EXCEPT !.known = TRUE], Preset[t])]

\* registerJobOrTask: an invalid task is logged
Registering(ts, t) ==
    IF ~Valid(ts, t) THEN ts
    ELSE [ts EXCEPT ![t] = Entered([@ EXCEPT !.known = TRUE, !.disabled = Preset[t] = "disabled"],
                                   Preset[t])]

\* Variant: a job is enabled and not scheduled
EnablingOnly(ts, t) == [ts EXCEPT ![t].disabled = FALSE]

\* scheduleDisabledJob, not failing if the job is enabled
Enabling(ts, t) ==
    IF ts[t].disabled THEN [ts EXCEPT ![t] = Scheduled([@ EXCEPT !.disabled = FALSE])] ELSE ts

\* Variant: the job is disabled and not stopped
DisablingOnly(ts, t, stops) == [ts EXCEPT ![t].disabled = TRUE]

\* job.stop(), of which the code says that it "does not seem to work as intended": the timer is
\* stopped, or goes on unknown to the task manager
Halted(s, stops) ==
    IF s.timers = 0 THEN s
    ELSE [s EXCEPT !.timers = @ - 1, !.strays = IF stops THEN @ ELSE @ + 1]

\* disableJob, not failing if it is disabled
Disabling(ts, t, stops) ==
    IF ts[t].disabled THEN ts ELSE [ts EXCEPT ![t] = Halted([@ EXCEPT !.disabled = TRUE], stops)]

-----------------------------------------------------------------------------
(* The scheduler.                                                          *)

\* The timer of a periodic job: a task that is still running is not started again
Tick(ts, t) == ts[t].timers + ts[t].strays > 0 /\ ts[t].runs = 0

\* The timeout of a delayed task
Elapse(ts, t) == ts[t].due

Started(ts, t) == [ts EXCEPT ![t].runs = @ + 1, ![t].due = FALSE]

\* timeTask returns, or the error handler has logged the error
Ended(ts, t) == [ts EXCEPT ![t].runs = @ - 1]

\* A task runs, or does nothing, or ends
TaskRuns(t) ==
    /\ Tick(tasks, t) \/ Elapse(tasks, t)
    /\ tasks' = Started(tasks, t)

TaskEnds(t) ==
    /\ tasks[t].runs > 0
    /\ tasks' = Ended(tasks, t)
=============================================================================
