------------------------------- MODULE BootProofs -------------------------------
(***************************************************************************)
(* Theorems about Boot, for any tasks and their presets, and any number of *)
(* faults, and about the migrations it makes.                              *)
(***************************************************************************)
EXTENDS Boot, TLAPS

-----------------------------------------------------------------------------
(* The methods of the task manager.                                        *)

Others == Task \ {BootTask}

LEMMA UnknownType == Unknown \in TaskRec /\ NoTasks \in [Task -> TaskRec]
BY DEF Unknown, NoTasks, TaskRec

LEMMA ScheduledFacts ==
    ASSUME NEW s \in TaskRec
    PROVE  LET u == Scheduled(s) IN
           /\ u \in TaskRec /\ u.known = s.known /\ u.disabled = s.disabled
           /\ u.due = s.due /\ u.runs = s.runs /\ u.strays = s.strays
           /\ s.disabled => u.timers = s.timers
           /\ ~s.disabled => u.timers = s.timers + 1
BY DEF Scheduled, TaskRec

\* Registering a task that is not known gives it one timer, one timeout, one execution or none.
LEMMA RegisteringFacts ==
    ASSUME NEW ts \in [Task -> TaskRec], NEW t \in Task
    PROVE  LET us == Registering(ts, t) IN
           /\ us \in [Task -> TaskRec] /\ \A x \in Task \ {t} : us[x] = ts[x]
           /\ ts[t].known => us[t] = ts[t]
           /\ ts[t] = Unknown =>
                 /\ us[t].known /\ us[t].timers \in {0, 1} /\ us[t].runs \in {0, 1} /\ us[t].strays = 0
                 /\ us[t].due => us[t].timers = 0 /\ us[t].runs = 0
                 /\ Preset[t] = "disabled" =>
                       us[t].disabled /\ us[t].timers = 0 /\ us[t].runs = 0 /\ ~us[t].due
<1>1. CASE ts[t].known
  <2>1. Registering(ts, t) = ts
    BY <1>1 DEF Registering, Valid
  <2>2. ts[t] # Unknown
    BY <1>1 DEF Unknown
  <2>3. QED
    BY <1>1, <2>1, <2>2
<1>2. CASE ~ts[t].known
  <2> DEFINE s == [ts[t] EXCEPT !.known = TRUE, !.disabled = Preset[t] = "disabled"]
             u == Entered(s, Preset[t])
  <2>1. Registering(ts, t) = [ts EXCEPT ![t] = u]
    BY <1>2 DEF Registering, Valid
  <2>2. /\ s \in TaskRec /\ s.known /\ s.disabled = (Preset[t] = "disabled")
        /\ s.timers = ts[t].timers /\ s.due = ts[t].due /\ s.runs = ts[t].runs
        /\ s.strays = ts[t].strays
    BY DEF TaskRec
  <2>3. ts[t] = Unknown => s.timers = 0 /\ s.runs = 0 /\ ~s.due /\ s.strays = 0
    BY <2>2 DEF Unknown
  <2> HIDE DEF s
  <2>4. /\ u \in TaskRec /\ (ts[t] = Unknown =>
                 /\ u.known /\ u.timers \in {0, 1} /\ u.runs \in {0, 1} /\ u.strays = 0
                 /\ u.due => u.timers = 0 /\ u.runs = 0
                 /\ Preset[t] = "disabled" => u.disabled /\ u.timers = 0 /\ u.runs = 0 /\ ~u.due)
    <3>1. CASE Preset[t] = "once"
      <4>1. u = [s EXCEPT !.runs = @ + 1]
        BY <3>1 DEF Entered
      <4>2. QED
        BY <2>2, <2>3, <3>1, <4>1 DEF TaskRec
    <3>2. CASE Preset[t] = "delayed"
      <4>1. u = [s EXCEPT !.due = TRUE]
        BY <3>2 DEF Entered
      <4>2. QED
        BY <2>2, <2>3, <3>2, <4>1 DEF TaskRec
    <3>3. CASE Preset[t] \notin {"once", "delayed"}
      <4>1. u = Scheduled(s)
        BY <3>3 DEF Entered
      <4> HIDE DEF u
      <4>2. /\ u \in TaskRec /\ u.known = s.known /\ u.disabled = s.disabled
            /\ u.due = s.due /\ u.runs = s.runs /\ u.strays = s.strays
            /\ s.disabled => u.timers = s.timers
            /\ ~s.disabled => u.timers = s.timers + 1
        BY <2>2, <4>1, ScheduledFacts
      <4>3. Preset[t] = "disabled" => s.disabled
        BY <2>2
      <4>4. s.disabled \/ ~s.disabled
        OBVIOUS
      <4>5. QED
        BY <2>2, <2>3, <4>2, <4>3, <4>4
    <3>4. QED
      BY <3>1, <3>2, <3>3
  <2> HIDE DEF u
  <2>5. QED
    BY <1>2, <2>1, <2>4
<1>3. QED
  BY <1>1, <1>2

LEMMA EnablingFacts ==
    ASSUME NEW ts \in [Task -> TaskRec], NEW t \in Task
    PROVE  LET us == Enabling(ts, t) IN
           /\ us \in [Task -> TaskRec] /\ \A x \in Task \ {t} : us[x] = ts[x]
           /\ us[t].known = ts[t].known /\ us[t].due = ts[t].due /\ us[t].runs = ts[t].runs
           /\ us[t].strays = ts[t].strays /\ ~us[t].disabled
           /\ us[t].timers = IF ts[t].disabled THEN ts[t].timers + 1 ELSE ts[t].timers
<1>1. CASE ts[t].disabled
  <2> DEFINE s == [ts[t] EXCEPT !.disabled = FALSE]
             u == Scheduled(s)
  <2>1. Enabling(ts, t) = [ts EXCEPT ![t] = u]
    BY <1>1 DEF Enabling
  <2>2. /\ s \in TaskRec /\ ~s.disabled /\ s.known = ts[t].known
        /\ s.timers = ts[t].timers /\ s.due = ts[t].due /\ s.runs = ts[t].runs
        /\ s.strays = ts[t].strays
    BY DEF TaskRec
  <2> HIDE DEF s
  <2>3. /\ u \in TaskRec /\ ~u.disabled /\ u.known = ts[t].known
        /\ u.timers = ts[t].timers + 1 /\ u.due = ts[t].due /\ u.runs = ts[t].runs
        /\ u.strays = ts[t].strays
    BY <2>2, ScheduledFacts
  <2> HIDE DEF u
  <2>4. QED
    BY <1>1, <2>1, <2>3
<1>2. CASE ~ts[t].disabled
  BY <1>2 DEF Enabling
<1>3. QED
  BY <1>1, <1>2

LEMMA DisablingFacts ==
    ASSUME NEW ts \in [Task -> TaskRec], NEW t \in Task, NEW stops \in BOOLEAN
    PROVE  LET us == Disabling(ts, t, stops) IN
           /\ us \in [Task -> TaskRec] /\ \A x \in Task \ {t} : us[x] = ts[x]
           /\ us[t].known = ts[t].known /\ us[t].due = ts[t].due /\ us[t].runs = ts[t].runs
           /\ us[t].disabled
           /\ ts[t].disabled => us[t].timers = ts[t].timers
           /\ ~ts[t].disabled /\ ts[t].timers \in {0, 1} => us[t].timers = 0
<1>1. CASE ts[t].disabled
  BY <1>1 DEF Disabling
<1>2. CASE ~ts[t].disabled
  <2> DEFINE d == [ts[t] EXCEPT !.disabled = TRUE]
             u == Halted(d, stops)
  <2>1. Disabling(ts, t, stops) = [ts EXCEPT ![t] = u]
    BY <1>2 DEF Disabling
  <2>2. /\ d \in TaskRec /\ d.disabled /\ d.known = ts[t].known /\ d.timers = ts[t].timers
        /\ d.due = ts[t].due /\ d.runs = ts[t].runs
    BY DEF TaskRec
  <2> HIDE DEF d
  <2>3. /\ u \in TaskRec /\ u.disabled /\ u.known = ts[t].known
        /\ (ts[t].timers \in {0, 1} => u.timers = 0) /\ u.due = ts[t].due /\ u.runs = ts[t].runs
    <3>1. CASE d.timers = 0
      BY <2>2, <3>1 DEF Halted
    <3>2. CASE d.timers # 0
      <4> DEFINE n == d.timers - 1
                 k == IF stops THEN d.strays ELSE d.strays + 1
      <4>1. n \in Nat /\ k \in Nat /\ (d.timers \in {0, 1} => n = 0)
        BY <2>2, <3>2 DEF TaskRec
      <4>2. u = [d EXCEPT !.timers = n, !.strays = k]
        BY <3>2 DEF Halted
      <4> HIDE DEF n, k, u
      <4>3. u \in TaskRec /\ u.timers = n /\ u.disabled = d.disabled /\ u.known = d.known
            /\ u.due = d.due /\ u.runs = d.runs
        BY <2>2, <4>1, <4>2 DEF TaskRec
      <4>4. QED
        BY <2>2, <4>1, <4>3
    <3>3. QED
      BY <3>1, <3>2
  <2> HIDE DEF u
  <2>4. QED
    BY <1>2, <2>1, <2>3
<1>3. QED
  BY <1>1, <1>2

LEMMA StartedFacts ==
    ASSUME NEW ts \in [Task -> TaskRec], NEW t \in Task
    PROVE  LET us == Started(ts, t) IN
           /\ us \in [Task -> TaskRec] /\ \A x \in Task \ {t} : us[x] = ts[x]
           /\ us[t].known = ts[t].known /\ us[t].disabled = ts[t].disabled
           /\ us[t].timers = ts[t].timers /\ ~us[t].due /\ us[t].runs = ts[t].runs + 1
           /\ us[t].strays = ts[t].strays
<1> DEFINE n == ts[t].runs + 1
           u == [ts[t] EXCEPT !.runs = n, !.due = FALSE]
<1>1. Started(ts, t) = [ts EXCEPT ![t] = u]
  BY DEF Started
<1>2. n \in Nat
  <2>1. ts[t].runs \in Nat
    BY DEF TaskRec
  <2>2. QED
    BY <2>1
<1> HIDE DEF n
<1>3. /\ u \in TaskRec /\ u.disabled = ts[t].disabled /\ u.known = ts[t].known
      /\ u.timers = ts[t].timers /\ ~u.due /\ u.runs = n /\ u.strays = ts[t].strays
  BY <1>2 DEF TaskRec
<1> HIDE DEF u
<1>4. QED
  BY <1>1, <1>3 DEF n

LEMMA EndedFacts ==
    ASSUME NEW ts \in [Task -> TaskRec], NEW t \in Task, ts[t].runs > 0
    PROVE  LET us == Ended(ts, t) IN
           /\ us \in [Task -> TaskRec] /\ \A x \in Task \ {t} : us[x] = ts[x]
           /\ us[t].known = ts[t].known /\ us[t].disabled = ts[t].disabled
           /\ us[t].timers = ts[t].timers /\ us[t].due = ts[t].due /\ us[t].runs = ts[t].runs - 1
           /\ us[t].strays = ts[t].strays
<1> DEFINE n == ts[t].runs - 1
           u == [ts[t] EXCEPT !.runs = n]
<1>1. Ended(ts, t) = [ts EXCEPT ![t] = u]
  BY DEF Ended
<1>2. n \in Nat
  <2>1. ts[t].runs \in Nat
    BY DEF TaskRec
  <2>2. QED
    BY <2>1
<1> HIDE DEF n
<1>3. /\ u \in TaskRec /\ u.disabled = ts[t].disabled /\ u.known = ts[t].known
      /\ u.timers = ts[t].timers /\ u.due = ts[t].due /\ u.runs = n /\ u.strays = ts[t].strays
  BY <1>2 DEF TaskRec
<1> HIDE DEF u
<1>4. QED
  BY <1>1, <1>3 DEF n

-----------------------------------------------------------------------------
(* The steps of the boot task and their order.                             *)

LEMMA StepNumbers ==
    /\ Len(Steps) = 12
    /\ StepOf("connect") = 1 /\ StepOf("indexes") = 2 /\ StepOf("migrate") = 3
    /\ StepOf("settings") = 4 /\ StepOf("permissions") = 5 /\ StepOf("roles") = 6
    /\ StepOf("account") = 7 /\ StepOf("credentials") = 8 /\ StepOf("sockets") = 9
    /\ StepOf("files") = 10 /\ StepOf("floors") = 11 /\ StepOf("tasks") = 12
<1>1. Len(Steps) = 12 /\ DOMAIN Steps = 1..12
  BY DEF Steps
<1>2. /\ Steps[1] = "connect" /\ Steps[2] = "indexes" /\ Steps[3] = "migrate"
      /\ Steps[4] = "settings" /\ Steps[5] = "permissions" /\ Steps[6] = "roles"
      /\ Steps[7] = "account" /\ Steps[8] = "credentials" /\ Steps[9] = "sockets"
      /\ Steps[10] = "files" /\ Steps[11] = "floors" /\ Steps[12] = "tasks"
  BY DEF Steps
<1> HIDE DEF Steps
<1>3. ASSUME NEW n \in 1..12 PROVE StepOf(Steps[n]) = n
  <2>1. \A m \in 1..12 : Steps[m] = Steps[n] => m = n
    BY <1>2
  <2>2. QED
    BY <1>1, <2>1 DEF StepOf
<1>4. QED
  BY <1>1, <1>2, <1>3

LEMMA LoadingSteps == \A s \in Loading : StepOf(s) \in 4..11
BY StepNumbers DEF Loading
-----------------------------------------------------------------------------
(* The invariant.                                                          *)

OneEach(t) ==
    /\ tasks[t].timers \in {0, 1} /\ tasks[t].runs \in {0, 1}
    /\ tasks[t].due => tasks[t].timers = 0 /\ tasks[t].runs = 0
    /\ ~tasks[t].known => tasks[t] = Unknown

OthersUnknown == \A t \in Others : ~tasks[t].known

\* The direct run is under way; or the job repeats the sequence, because it has not succeeded yet
\* or its timer was not stopped; or the task has done its work.
Starting ==
    /\ bootAt["direct"] # 0 /\ bootAt["job"] = 0
    /\ tasks[BootTask].disabled /\ tasks[BootTask].runs = 0 /\ tasks[BootTask].strays = 0
    /\ OthersUnknown
Repeating ==
    /\ bootAt["direct"] = 0
    /\ bootAt["job"] = 0 <=> tasks[BootTask].runs = 0
    /\ tasks[BootTask].strays = 0 => ~tasks[BootTask].disabled /\ OthersUnknown
Done ==
    /\ bootAt["direct"] = 0 /\ bootAt["job"] = 0
    /\ tasks[BootTask].disabled /\ tasks[BootTask].runs = 0

BootTaskIsOne ==
    /\ tasks[BootTask].known /\ ~tasks[BootTask].due
    /\ tasks[BootTask].disabled => tasks[BootTask].timers = 0

Phase == alive => BootTaskIsOne /\ (Starting \/ Repeating \/ Done)

BootInv == BootTypeOK /\ (\A t \in Task : OneEach(t)) /\ Phase

LEMMA BootInvInit == BootInit => BootInv
<1> SUFFICES ASSUME BootInit PROVE BootInv
  OBVIOUS
<1>1. /\ alive = FALSE /\ dbUp = TRUE /\ serving = FALSE /\ loaded = {} /\ calls = 0 /\ faults = 0
      /\ bootAt = [run \in Run |-> 0] /\ tasks = NoTasks /\ applied \in 0..Len(Migration)
  BY DEF BootInit
<1>2. BootTypeOK
  <2>1. bootAt \in [Run -> 0..Len(Steps)]
    BY <1>1, StepNumbers
  <2>2. faults \in 0..MaxFaults /\ calls \in Nat
    BY <1>1, FaultAssumption
  <2>3. TasksTypeOK
    BY <1>1, UnknownType DEF TasksTypeOK
  <2>4. QED
    BY <1>1, <2>1, <2>2, <2>3 DEF BootTypeOK
<1>3. \A t \in Task : OneEach(t)
  BY <1>1 DEF OneEach, NoTasks, Unknown
<1>4. QED
  BY <1>1, <1>2, <1>3 DEF BootInv, Phase

\* Steps that leave the tasks alone, and go on with a run at most.
LEMMA GoesOn ==
    ASSUME BootInv, BootTypeOK', tasks' = tasks, alive' => alive,
           \/ bootAt' = bootAt
           \/ \E run \in Run : bootAt[run] # 0 /\ bootAt'[run] # 0 /\ \A x \in Run \ {run} : bootAt'[x] = bootAt[x]
    PROVE  BootInv'
<1>1. bootAt'["direct"] = 0 <=> bootAt["direct"] = 0
  BY DEF Run
<1>2. bootAt'["job"] = 0 <=> bootAt["job"] = 0
  BY DEF Run
<1>3. Phase'
  BY <1>1, <1>2 DEF BootInv, Phase, BootTaskIsOne, Starting, Repeating, Done, OthersUnknown
<1>4. QED
  BY <1>3 DEF BootInv, OneEach

\* What a run finds of the task
LEMMA RunFacts ==
    ASSUME BootInv, alive, NEW run \in Run, bootAt[run] # 0
    PROVE  /\ tasks \in [Task -> TaskRec] /\ BootTask \in Task /\ bootAt \in [Run -> 0..12]
           /\ BootTaskIsOne
           /\ run = "direct" => Starting
           /\ run = "job" => Repeating /\ tasks[BootTask].runs = 1
<1>1. BootTypeOK /\ Phase /\ OneEach(BootTask)
  BY TaskAssumption DEF BootInv
<1>2. /\ tasks \in [Task -> TaskRec] /\ BootTask \in Task /\ bootAt \in [Run -> 0..12]
  BY <1>1, StepNumbers, TaskAssumption DEF BootTypeOK, TasksTypeOK
<1>3. run \in {"direct", "job"}
  BY DEF Run
<1>4. run = "direct" => Starting
  BY <1>1 DEF Phase, Starting, Repeating, Done
<1>5. run = "job" => Repeating
  BY <1>1 DEF Phase, Starting, Repeating, Done
<1>6. Repeating /\ run = "job" => tasks[BootTask].runs = 1
  BY <1>1 DEF Repeating, OneEach
<1>7. QED
  BY <1>1, <1>2, <1>3, <1>4, <1>5, <1>6 DEF Phase, Starting, Repeating

\* A run advances.
LEMMA Advancing ==
    ASSUME BootInv, NEW run \in Run, bootAt[run] \in 1..11, Advance(run), tasks' = tasks, alive' = alive,
           dbUp' = dbUp, serving' = serving, loaded' \subseteq Loading \cup {"tasks"},
           applied' = applied, calls' \in Nat, faults' = faults
    PROVE  BootInv'
<1>1. BootTypeOK /\ bootAt \in [Run -> 0..12]
  BY StepNumbers DEF BootInv, BootTypeOK
<1>2. bootAt[run] + 1 \in 0..12 /\ bootAt[run] + 1 # 0 /\ bootAt[run] # 0
  OBVIOUS
<1>3. /\ bootAt' \in [Run -> 0..12] /\ bootAt'[run] # 0 /\ \A x \in Run \ {run} : bootAt'[x] = bootAt[x]
  BY <1>1, <1>2 DEF Advance
<1>4. BootTypeOK'
  BY <1>1, <1>3, StepNumbers DEF BootTypeOK, TasksTypeOK
<1>5. QED
  BY <1>2, <1>3, <1>4, GoesOn

LEMMA ReturnedFacts ==
    ASSUME BootInv, NEW run \in Run, Returned(run)
    PROVE  /\ bootAt' \in [Run -> 0..12] /\ bootAt'[run] = 0
           /\ \A x \in Run \ {run} : bootAt'[x] = bootAt[x]
BY StepNumbers DEF BootInv, BootTypeOK, Returned

\* The sequence is left to the job.
LEMMA RetriedStep ==
    ASSUME BootInv, NEW run \in Run, alive, bootAt[run] # 0, RetriedLater(run),
           alive' = alive, dbUp' = dbUp, loaded' = loaded, applied' = applied, calls' = calls,
           faults' \in 0..MaxFaults
    PROVE  BootInv'
<1> DEFINE ts == Enabling(tasks, BootTask)
<1>1. tasks' = AfterRun(run, ts) /\ Returned(run) /\ Listens(run)
  BY DEF RetriedLater
<1>2. /\ tasks \in [Task -> TaskRec] /\ BootTask \in Task /\ BootTaskIsOne
      /\ run = "direct" => Starting
      /\ run = "job" => Repeating /\ tasks[BootTask].runs = 1
  BY <1>1, RunFacts
<1>3. /\ ts \in [Task -> TaskRec] /\ \A x \in Others : ts[x] = tasks[x]
      /\ ts[BootTask].known = tasks[BootTask].known /\ ts[BootTask].due = tasks[BootTask].due
      /\ ts[BootTask].runs = tasks[BootTask].runs /\ ~ts[BootTask].disabled
      /\ ts[BootTask].strays = tasks[BootTask].strays
      /\ ts[BootTask].timers = IF tasks[BootTask].disabled THEN tasks[BootTask].timers + 1
                                                           ELSE tasks[BootTask].timers
  BY <1>2, EnablingFacts DEF Others
<1>4. ts[BootTask].timers \in {0, 1}
  BY <1>2, <1>3 DEF BootInv, OneEach, BootTaskIsOne
<1> HIDE DEF ts
<1>5. /\ tasks' \in [Task -> TaskRec] /\ (\A x \in Others : tasks'[x] = tasks[x])
      /\ tasks'[BootTask].known /\ ~tasks'[BootTask].due /\ ~tasks'[BootTask].disabled
      /\ tasks'[BootTask].timers \in {0, 1} /\ tasks'[BootTask].runs = 0
      /\ tasks'[BootTask].strays = tasks[BootTask].strays
  <2>1. CASE run = "direct"
    <3>1. tasks' = ts /\ tasks[BootTask].runs = 0
      BY <1>1, <1>2, <2>1 DEF AfterRun, Starting
    <3>2. QED
      BY <1>2, <1>3, <1>4, <3>1 DEF BootTaskIsOne
  <2>2. CASE run = "job"
    <3>1. tasks' = Ended(ts, BootTask) /\ ts[BootTask].runs = 1
      BY <1>1, <1>2, <1>3, <2>2 DEF AfterRun
    <3>2. /\ tasks' \in [Task -> TaskRec] /\ (\A x \in Others : tasks'[x] = ts[x])
          /\ tasks'[BootTask].known = ts[BootTask].known /\ tasks'[BootTask].disabled = ts[BootTask].disabled
          /\ tasks'[BootTask].timers = ts[BootTask].timers /\ tasks'[BootTask].due = ts[BootTask].due
          /\ tasks'[BootTask].runs = ts[BootTask].runs - 1
          /\ tasks'[BootTask].strays = ts[BootTask].strays
      BY <1>2, <1>3, <3>1, EndedFacts DEF Others
    <3>3. QED
      BY <1>2, <1>3, <1>4, <3>1, <3>2 DEF BootTaskIsOne
  <2>3. QED
    BY <2>1, <2>2 DEF Run
<1>6. /\ bootAt' \in [Run -> 0..12] /\ bootAt'["direct"] = 0 /\ bootAt'["job"] = 0
  BY <1>1, <1>2, ReturnedFacts DEF Starting, Repeating, Run
<1>7. BootTypeOK'
  BY <1>1, <1>5, <1>6, StepNumbers DEF BootInv, BootTypeOK, TasksTypeOK, Listens
<1>8. \A t \in Task : OneEach(t)'
  <2>1. OneEach(BootTask)'
    BY <1>5 DEF OneEach
  <2>2. \A t \in Others : OneEach(t)'
    BY <1>5 DEF BootInv, OneEach, Others
  <2>3. QED
    BY <2>1, <2>2 DEF Others
<1>9. Phase'
  <2>1. tasks[BootTask].strays = 0 => OthersUnknown
    BY <1>2 DEF Starting, Repeating, Run
  <2>2. QED
    BY <1>5, <1>6, <2>1 DEF Phase, BootTaskIsOne, Repeating, OthersUnknown
<1>10. QED
  BY <1>7, <1>8, <1>9 DEF BootInv

LEMMA LoadFailsStep ==
    ASSUME BootInv, NEW run \in Run, NEW s, LoadFails(run, s)
    PROVE  BootInv'
<1>1. /\ alive /\ bootAt[run] # 0 /\ tasks' = AfterRun(run, tasks) /\ Returned(run)
      /\ alive' = (run = "job") /\ serving' = serving
      /\ dbUp' = dbUp /\ loaded' = loaded /\ applied' = applied /\ calls' = calls
      /\ faults' = faults
  BY LoadingSteps DEF LoadFails, At
<1>2. /\ tasks \in [Task -> TaskRec] /\ BootTask \in Task /\ BootTaskIsOne
      /\ run = "direct" => Starting
      /\ run = "job" => Repeating /\ tasks[BootTask].runs = 1
  BY <1>1, RunFacts
<1>3. bootAt' \in [Run -> 0..12] /\ bootAt'[run] = 0 /\ \A x \in Run \ {run} : bootAt'[x] = bootAt[x]
  BY <1>1, ReturnedFacts
<1>4. CASE run = "direct"
  <2>1. tasks' = tasks /\ alive' = FALSE
    BY <1>1, <1>4 DEF AfterRun
  <2>2. BootTypeOK'
    BY <1>1, <1>3, <2>1, StepNumbers DEF BootInv, BootTypeOK, TasksTypeOK
  <2>3. QED
    BY <2>1, <2>2 DEF BootInv, OneEach, Phase
<1>5. CASE run = "job"
  <2>1. tasks' = Ended(tasks, BootTask) /\ alive' = TRUE /\ tasks[BootTask].runs = 1 /\ Repeating
    BY <1>1, <1>2, <1>5 DEF AfterRun
  <2>2. /\ tasks' \in [Task -> TaskRec] /\ (\A x \in Others : tasks'[x] = tasks[x])
        /\ tasks'[BootTask].known = tasks[BootTask].known
        /\ tasks'[BootTask].disabled = tasks[BootTask].disabled
        /\ tasks'[BootTask].timers = tasks[BootTask].timers /\ tasks'[BootTask].due = tasks[BootTask].due
        /\ tasks'[BootTask].runs = tasks[BootTask].runs - 1
        /\ tasks'[BootTask].strays = tasks[BootTask].strays
    BY <1>2, <2>1, EndedFacts DEF Others
  <2>3. bootAt'["direct"] = 0 /\ bootAt'["job"] = 0
    BY <1>3, <1>5, <2>1 DEF Repeating, Run
  <2>4. BootTypeOK'
    BY <1>1, <1>3, <2>1, <2>2, StepNumbers DEF BootInv, BootTypeOK, TasksTypeOK
  <2>5. \A t \in Task : OneEach(t)'
    <3>1. OneEach(BootTask)'
      BY <1>2, <2>1, <2>2 DEF BootInv, OneEach, BootTaskIsOne
    <3>2. \A t \in Others : OneEach(t)'
      BY <2>2 DEF BootInv, OneEach, Others
    <3>3. QED
      BY <3>1, <3>2 DEF Others
  <2>6. Phase'
    BY <1>2, <2>1, <2>2, <2>3 DEF Phase, BootTaskIsOne, Repeating, OthersUnknown
  <2>7. QED
    BY <2>4, <2>5, <2>6 DEF BootInv
<1>6. QED
  BY <1>4, <1>5 DEF Run

LEMMA RegisterTasksStep ==
    ASSUME BootInv, NEW run \in Run, RegisterTasks(run)
    PROVE  BootInv'
<1> DEFINE all == [t \in Task |-> Registering(tasks, t)[t]]
<1>0. PICK stops \in BOOLEAN : tasks' = AfterRun(run, Disabling(all, BootTask, stops))
  BY DEF RegisterTasks
<1> DEFINE ts == Disabling(all, BootTask, stops)
<1>1. /\ alive /\ bootAt[run] # 0 /\ tasks' = AfterRun(run, ts) /\ Returned(run) /\ Listens(run)
      /\ alive' = alive /\ dbUp' = dbUp /\ loaded' = loaded \cup {"tasks"} /\ applied' = applied
      /\ calls' = calls /\ faults' = faults
  BY <1>0, StepNumbers DEF RegisterTasks, At
<1>2. /\ tasks \in [Task -> TaskRec] /\ BootTask \in Task /\ BootTaskIsOne
      /\ run = "direct" => Starting
      /\ run = "job" => Repeating /\ tasks[BootTask].runs = 1
  BY <1>1, RunFacts
<1>3. bootAt' \in [Run -> 0..12] /\ bootAt'["direct"] = 0 /\ bootAt'["job"] = 0
  BY <1>1, <1>2, ReturnedFacts DEF Starting, Repeating, Run
<1>4. ASSUME NEW t \in Others
      PROVE  /\ all[t] \in TaskRec /\ all[t].known /\ all[t].timers \in {0, 1}
             /\ all[t].runs \in {0, 1} /\ (all[t].due => all[t].timers = 0 /\ all[t].runs = 0)
  <2>1. t \in Task /\ OneEach(t)
    BY DEF Others, BootInv
  <2>2. CASE tasks[t] = Unknown
    BY <1>2, <2>1, <2>2, RegisteringFacts
  <2>3. CASE tasks[t].known
    BY <1>2, <2>1, <2>3, RegisteringFacts DEF OneEach
  <2>4. QED
    BY <2>1, <2>2, <2>3 DEF OneEach
<1>5. all[BootTask] = tasks[BootTask]
  BY <1>2, RegisteringFacts DEF BootTaskIsOne
<1>6. all \in [Task -> TaskRec]
  BY <1>2, <1>4, <1>5 DEF Others
<1> HIDE DEF all
<1>7. /\ ts \in [Task -> TaskRec] /\ \A x \in Others : ts[x] = all[x]
      /\ ts[BootTask].known /\ ~ts[BootTask].due /\ ts[BootTask].disabled
      /\ ts[BootTask].runs = tasks[BootTask].runs
      /\ tasks[BootTask].disabled => ts[BootTask].timers = tasks[BootTask].timers
      /\ ~tasks[BootTask].disabled => ts[BootTask].timers = 0
  <2>1. tasks[BootTask].timers \in {0, 1}
    BY <1>2 DEF BootInv, OneEach
  <2>2. QED
    BY <1>2, <1>5, <1>6, <2>1, DisablingFacts DEF BootTaskIsOne, Others
<1> HIDE DEF ts
<1>8. ts[BootTask].timers = 0
  BY <1>2, <1>7 DEF BootTaskIsOne
<1>9. /\ tasks' \in [Task -> TaskRec] /\ (\A x \in Others : tasks'[x] = all[x])
      /\ tasks'[BootTask].known /\ ~tasks'[BootTask].due /\ tasks'[BootTask].disabled
      /\ tasks'[BootTask].timers = 0 /\ tasks'[BootTask].runs = 0
  <2>1. CASE run = "direct"
    BY <1>1, <1>2, <1>7, <1>8, <2>1 DEF AfterRun, Starting
  <2>2. CASE run = "job"
    <3>1. tasks' = Ended(ts, BootTask) /\ ts[BootTask].runs = 1
      BY <1>1, <1>2, <1>7, <2>2 DEF AfterRun
    <3>2. ts \in [Task -> TaskRec] /\ ts[BootTask].runs > 0 /\ BootTask \in Task
      BY <1>2, <1>7, <3>1
    <3>3. /\ tasks' \in [Task -> TaskRec] /\ (\A x \in Others : tasks'[x] = ts[x])
          /\ tasks'[BootTask].known = ts[BootTask].known /\ tasks'[BootTask].disabled = ts[BootTask].disabled
          /\ tasks'[BootTask].timers = ts[BootTask].timers /\ tasks'[BootTask].due = ts[BootTask].due
          /\ tasks'[BootTask].runs = ts[BootTask].runs - 1
      BY ONLY <3>1, <3>2, EndedFacts DEF Others
    <3>4. QED
      BY <1>7, <1>8, <3>1, <3>3
  <2>3. QED
    BY <2>1, <2>2 DEF Run
<1>10. BootTypeOK'
  BY <1>1, <1>3, <1>9, StepNumbers DEF BootInv, BootTypeOK, TasksTypeOK, Listens
<1>11. \A t \in Task : OneEach(t)'
  <2>1. OneEach(BootTask)'
    BY <1>9 DEF OneEach
  <2>2. \A t \in Others : OneEach(t)'
    BY <1>4, <1>9 DEF OneEach
  <2>3. QED
    BY <2>1, <2>2 DEF Others
<1>12. Phase'
  BY <1>3, <1>9 DEF Phase, BootTaskIsOne, Done
<1>13. QED
  BY <1>10, <1>11, <1>12 DEF BootInv

LEMMA StartStep ==
    ASSUME BootInv, Start
    PROVE  BootInv'
<1>1. /\ alive' = TRUE /\ serving' = FALSE /\ loaded' = {} /\ calls' = 0
      /\ bootAt' = [run \in Run |-> IF run = "direct" THEN 1 ELSE 0]
      /\ tasks' = Registering(NoTasks, BootTask)
      /\ dbUp' = dbUp /\ applied' = applied /\ faults' = faults
  BY StepNumbers DEF Start
<1>2. BootTask \in Task /\ NoTasks[BootTask] = Unknown /\ Preset[BootTask] = "disabled"
      /\ \A t \in Task : NoTasks[t] = Unknown
  BY TaskAssumption, BootPreset DEF NoTasks
<1>3. /\ tasks' \in [Task -> TaskRec] /\ (\A t \in Others : tasks'[t] = Unknown)
      /\ tasks'[BootTask].known /\ tasks'[BootTask].disabled /\ tasks'[BootTask].timers = 0
      /\ tasks'[BootTask].runs = 0 /\ ~tasks'[BootTask].due /\ tasks'[BootTask].strays = 0
  BY <1>1, <1>2, UnknownType, RegisteringFacts DEF Others
<1>4. bootAt' \in [Run -> 0..12] /\ bootAt'["direct"] = 1 /\ bootAt'["job"] = 0
  BY <1>1 DEF Run
<1>5. BootTypeOK'
  <2>1. loaded' \subseteq Loading \cup {"tasks"} /\ calls' \in Nat
    BY <1>1
  <2>2. QED
    BY <1>1, <1>3, <1>4, <2>1, StepNumbers DEF BootInv, BootTypeOK, TasksTypeOK
<1>6. \A t \in Task : OneEach(t)'
  <2>1. OneEach(BootTask)'
    BY <1>3 DEF OneEach
  <2>2. \A t \in Others : OneEach(t)'
    BY <1>3 DEF OneEach, Unknown
  <2>3. QED
    BY <2>1, <2>2 DEF Others
<1>7. Phase'
  BY <1>3, <1>4 DEF Phase, BootTaskIsOne, Starting, OthersUnknown, Unknown
<1>8. QED
  BY <1>5, <1>6, <1>7 DEF BootInv

LEMMA TaskStartsStep ==
    ASSUME BootInv, NEW t \in Task, TaskStarts(t)
    PROVE  BootInv'
<1>1. /\ alive /\ alive' = alive /\ dbUp' = dbUp /\ serving' = serving /\ loaded' = loaded
      /\ applied' = applied /\ calls' = calls /\ faults' = faults
      /\ tasks' = Started(tasks, t) /\ (Tick(tasks, t) \/ Elapse(tasks, t))
      /\ IF t = BootTask THEN bootAt' = [bootAt EXCEPT !["job"] = 1] ELSE bootAt' = bootAt
  BY StepNumbers DEF TaskStarts, TaskRuns
<1>2. /\ BootTypeOK /\ tasks \in [Task -> TaskRec] /\ bootAt \in [Run -> 0..12]
      /\ OneEach(t) /\ BootTask \in Task
      /\ BootTaskIsOne /\ (Starting \/ Repeating \/ Done)
  BY <1>1, StepNumbers, TaskAssumption DEF BootInv, BootTypeOK, TasksTypeOK, Phase
<1>3. /\ tasks' \in [Task -> TaskRec] /\ (\A x \in Task \ {t} : tasks'[x] = tasks[x])
      /\ tasks'[t].known = tasks[t].known /\ tasks'[t].disabled = tasks[t].disabled
      /\ tasks'[t].timers = tasks[t].timers /\ ~tasks'[t].due
      /\ tasks'[t].runs = tasks[t].runs + 1 /\ tasks'[t].strays = tasks[t].strays
  BY <1>1, <1>2, StartedFacts
\* It had no execution, and a timer or a timeout.
<1>4. tasks[t].runs = 0 /\ tasks[t].known
  <2>1. ~tasks[t].known => tasks[t].timers = 0 /\ tasks[t].strays = 0 /\ ~tasks[t].due
    BY <1>2 DEF OneEach, Unknown
  <2>2. QED
    BY <1>1, <1>2, <2>1 DEF OneEach, Tick, Elapse
<1>5. \A x \in Task : OneEach(x)'
  <2>1. OneEach(t)'
    BY <1>2, <1>3, <1>4 DEF OneEach
  <2>2. QED
    BY <1>3, <2>1 DEF BootInv, OneEach
<1>6. CASE t = BootTask
  <2>1. tasks[BootTask].timers # 0 \/ tasks[BootTask].strays # 0
    BY <1>1, <1>2, <1>6 DEF BootTaskIsOne, Tick, Elapse
  <2>2. Repeating
    BY <1>2, <2>1 DEF BootTaskIsOne, Starting, Done, Repeating
  <2>3. bootAt' \in [Run -> 0..12] /\ bootAt'["direct"] = 0 /\ bootAt'["job"] = 1
    BY <1>1, <1>2, <1>6, <2>2 DEF Run, Repeating
  <2>4. tasks'[BootTask].runs = 1
    BY <1>3, <1>4, <1>6
  <2>5. Phase'
    BY <1>2, <1>3, <1>6, <2>2, <2>3, <2>4 DEF Phase, BootTaskIsOne, Repeating, OthersUnknown, Others
  <2>6. BootTypeOK'
    BY <1>1, <1>2, <1>3, <2>3, StepNumbers DEF BootTypeOK, TasksTypeOK
  <2>7. QED
    BY <1>5, <2>5, <2>6 DEF BootInv
<1>7. CASE t # BootTask
  <2>1. tasks'[BootTask] = tasks[BootTask] /\ \A x \in Task : tasks'[x].known = tasks[x].known
    BY <1>2, <1>3, <1>7
  <2>2. Phase'
    BY <1>1, <1>2, <1>7, <2>1 DEF Phase, BootTaskIsOne, Starting, Repeating, Done, OthersUnknown, Others
  <2>3. BootTypeOK'
    BY <1>1, <1>2, <1>3, <1>7 DEF BootTypeOK, TasksTypeOK
  <2>4. QED
    BY <1>5, <2>2, <2>3 DEF BootInv
<1>8. QED
  BY <1>6, <1>7

LEMMA OtherEndsStep ==
    ASSUME BootInv, NEW t \in Task, OtherEnds(t)
    PROVE  BootInv'
<1>1. /\ alive /\ alive' = alive /\ dbUp' = dbUp /\ serving' = serving /\ loaded' = loaded
      /\ applied' = applied /\ calls' = calls /\ faults' = faults /\ bootAt' = bootAt
      /\ tasks' = Ended(tasks, t) /\ tasks[t].runs > 0 /\ t # BootTask
  BY DEF OtherEnds, TaskEnds
<1>2. /\ BootTypeOK /\ tasks \in [Task -> TaskRec] /\ OneEach(t) /\ BootTask \in Task
      /\ BootTaskIsOne /\ (Starting \/ Repeating \/ Done)
  BY <1>1, TaskAssumption DEF BootInv, BootTypeOK, TasksTypeOK, Phase
<1>3. /\ tasks' \in [Task -> TaskRec] /\ (\A x \in Task \ {t} : tasks'[x] = tasks[x])
      /\ tasks'[t].known = tasks[t].known /\ tasks'[t].disabled = tasks[t].disabled
      /\ tasks'[t].timers = tasks[t].timers /\ tasks'[t].due = tasks[t].due
      /\ tasks'[t].runs = tasks[t].runs - 1
  BY <1>1, <1>2, EndedFacts
<1>4. \A x \in Task : OneEach(x)'
  <2>1. tasks[t].known /\ tasks[t].runs = 1 /\ ~tasks[t].due
    BY <1>1, <1>2 DEF OneEach, Unknown
  <2>2. OneEach(t)'
    BY <1>2, <1>3, <2>1 DEF OneEach
  <2>3. QED
    BY <1>3, <2>2 DEF BootInv, OneEach
<1>5. tasks'[BootTask] = tasks[BootTask] /\ \A x \in Task : tasks'[x].known = tasks[x].known
  BY <1>1, <1>2, <1>3
<1>6. Phase'
  BY <1>1, <1>2, <1>5 DEF Phase, BootTaskIsOne, Starting, Repeating, Done, OthersUnknown, Others
<1>7. BootTypeOK'
  BY <1>1, <1>2, <1>3 DEF BootTypeOK, TasksTypeOK
<1>8. QED
  BY <1>4, <1>6, <1>7 DEF BootInv

-----------------------------------------------------------------------------
(* The theorems.                                                           *)

LEMMA MigrationCount == Len(Migration) \in Nat
BY DEF Migration

LEMMA BootStepInv ==
    ASSUME BootInv, NEW run \in Run, BootStep(run)
    PROVE  BootInv'
<1>1. BootTypeOK
  BY DEF BootInv
<1>2. CASE Connect(run)
  <2>1. bootAt[run] \in 1..11
    BY <1>2, StepNumbers DEF Connect, At
  <2>2. QED
    BY <1>1, <1>2, <2>1, Advancing DEF Connect, BootTypeOK
<1>3. CASE SyncIndexes(run)
  <2>1. bootAt[run] \in 1..11
    BY <1>3, StepNumbers DEF SyncIndexes, At
  <2>2. QED
    BY <1>1, <1>3, <2>1, Advancing DEF SyncIndexes, BootTypeOK
<1>4. CASE MigrateEnds(run)
  <2>1. bootAt[run] \in 1..11
    BY <1>4, StepNumbers DEF MigrateEnds, At
  <2>2. QED
    BY <1>1, <1>4, <2>1, Advancing DEF MigrateEnds, BootTypeOK
<1>5. ASSUME NEW s \in Loading, Load(run, s) PROVE BootInv'
  <2>1. bootAt[run] \in 1..11 /\ loaded' \subseteq Loading \cup {"tasks"}
    BY <1>1, <1>5, LoadingSteps DEF Load, At, BootTypeOK
  <2>2. QED
    BY <1>1, <1>5, <2>1, Advancing DEF Load, BootTypeOK
<1>6. CASE MigrateCall(run)
  <2>1. BootTypeOK'
    BY <1>1, <1>6 DEF MigrateCall, BootTypeOK, TasksTypeOK
  <2>2. QED
    BY <1>6, <2>1, GoesOn DEF MigrateCall
<1>7. CASE MigrateRecord(run)
  <2>1. applied' \in 0..Len(Migration)
    BY <1>1, <1>7, MigrationCount DEF MigrateRecord, BootTypeOK
  <2>2. BootTypeOK'
    BY <1>1, <1>7, <2>1 DEF MigrateRecord, BootTypeOK, TasksTypeOK
  <2>3. QED
    BY <1>7, <2>2, GoesOn DEF MigrateRecord
<1>8. CASE ConnectFails(run)
  <2>1. alive /\ bootAt[run] # 0 /\ faults' \in 0..MaxFaults
    BY <1>1, <1>8, StepNumbers DEF ConnectFails, At, BootTypeOK
  <2>2. QED
    BY <1>8, <2>1, RetriedStep DEF ConnectFails
<1>9. ASSUME NEW s \in Loading, LoadFails(run, s) PROVE BootInv'
  BY <1>9, LoadFailsStep
<1>10. CASE RegisterTasks(run)
  BY <1>10, RegisterTasksStep
<1>11. ASSUME NEW cs \in SUBSET Modelled, SyncFails(run, cs) PROVE BootInv'
  <2>1. /\ alive /\ bootAt[run] = 2 /\ alive' = alive /\ dbUp' = dbUp /\ loaded' = loaded
        /\ applied' = applied /\ calls' = calls
    BY <1>11, StepNumbers DEF SyncFails, At
  <2>2. faults' \in 0..MaxFaults
    BY <1>1, <1>11, FaultAssumption DEF SyncFails, Fault, BootTypeOK
  <2>3. CASE RetriedLater(run)
    BY <2>1, <2>2, <2>3, RetriedStep
  <2>4. CASE bootAt' = [bootAt EXCEPT ![run] = StepOf("settings")] /\ serving' = serving /\ tasks' = tasks
    <3>1. /\ bootAt' \in [Run -> 0..12] /\ bootAt'[run] # 0
          /\ \A x \in Run \ {run} : bootAt'[x] = bootAt[x]
      BY <1>1, <2>4, StepNumbers DEF BootTypeOK
    <3>2. BootTypeOK'
      BY <1>1, <2>1, <2>2, <2>4, <3>1, StepNumbers DEF BootTypeOK, TasksTypeOK
    <3>3. QED
      BY <2>1, <2>4, <3>1, <3>2, GoesOn
  <2>5. QED
    BY <1>11, <2>3, <2>4 DEF SyncFails
<1>12. QED
  BY <1>2, <1>3, <1>4, <1>5, <1>6, <1>7, <1>8, <1>9, <1>10, <1>11 DEF BootStep

LEMMA FaultsStep ==
    ASSUME BootInv, ProcessDies \/ DatabaseGoes \/ DatabaseComes
    PROVE  BootInv'
<1>1. /\ bootAt' = bootAt /\ serving' = serving /\ loaded' = loaded /\ applied' = applied
      /\ calls' = calls /\ tasks' = tasks
  BY DEF ProcessDies, DatabaseGoes, DatabaseComes
<1>2. alive' \in BOOLEAN /\ dbUp' \in BOOLEAN /\ (alive' => alive)
  <2>1. alive \in BOOLEAN /\ dbUp \in BOOLEAN
    BY DEF BootInv, BootTypeOK
  <2>2. CASE ProcessDies
    <3>1. alive' = FALSE /\ dbUp' = dbUp
      BY <2>2 DEF ProcessDies
    <3>2. QED
      BY <2>1, <3>1, Zenon
  <2>3. CASE DatabaseGoes \/ DatabaseComes
    <3>1. alive' = alive /\ (dbUp' = FALSE \/ dbUp' = TRUE)
      BY <2>3 DEF DatabaseGoes, DatabaseComes
    <3>2. QED
      BY <2>1, <3>1, Zenon
  <2>4. QED
    BY <2>2, <2>3
<1>3. faults' \in 0..MaxFaults
  <2>1. faults \in 0..MaxFaults
    BY DEF BootInv, BootTypeOK
  <2>2. faults' = faults \/ (faults < MaxFaults /\ faults' = faults + 1)
    BY DEF ProcessDies, DatabaseGoes, DatabaseComes, Fault
  <2>3. QED
    BY <2>1, <2>2, FaultAssumption
<1>4. BootTypeOK'
  BY <1>1, <1>2, <1>3 DEF BootInv, BootTypeOK, TasksTypeOK
<1>5. QED
  BY <1>1, <1>2, <1>4, GoesOn

LEMMA BootInvNext == BootInv /\ [BootNext]_bootVars => BootInv'
<1> SUFFICES ASSUME BootInv, [BootNext]_bootVars PROVE BootInv'
  OBVIOUS
<1>1. CASE \E run \in Run : BootStep(run)
  BY <1>1, BootStepInv
<1>2. CASE \E t \in Task : TaskStarts(t) \/ OtherEnds(t)
  BY <1>2, TaskStartsStep, OtherEndsStep
<1>3. CASE Start
  BY <1>3, StartStep
<1>4. CASE ProcessDies \/ DatabaseGoes \/ DatabaseComes
  BY <1>4, FaultsStep
<1>5. CASE UNCHANGED bootVars
  BY <1>5 DEF bootVars, BootInv, BootTypeOK, TasksTypeOK, OneEach, Phase, BootTaskIsOne,
              Starting, Repeating, Done, OthersUnknown
<1>6. QED
  BY <1>1, <1>2, <1>3, <1>4, <1>5 DEF BootNext

LEMMA BootInvariance == BootSpec => []BootInv
BY BootInvInit, BootInvNext, PTL DEF BootSpec

\* The state of the boot sequence and of the tasks is well-typed.
THEOREM BootTypeCorrect == BootSpec => []BootTypeOK
<1>1. BootInv => BootTypeOK
  BY DEF BootInv
<1>2. QED
  BY <1>1, BootInvariance, PTL

\* The boot sequence never runs twice at once, and TaskManagerService keeps every task to one
\* timer and one execution, however often the connection fails, the process dies, and timers of
\* stopped jobs go on.
THEOREM NothingRunsTwice == BootSpec => []NothingTwice
<1>1. BootInv => NothingTwice
  <2> SUFFICES ASSUME BootInv PROVE NothingTwice
    OBVIOUS
  <2>1. alive => \E run \in Run : bootAt[run] = 0
    BY DEF BootInv, Phase, Starting, Repeating, Done, Run
  <2>2. \A t \in Task : tasks[t].timers \in {0, 1} /\ tasks[t].runs \in {0, 1}
    BY DEF BootInv, OneEach
  <2>3. QED
    BY <2>1, <2>2 DEF NothingTwice
<1>2. QED
  BY <1>1, BootInvariance, PTL

\* loadPrinterSockets is not called once the task that opens sockets is registered, unless
\* job.stop() has left the timer of the boot job running.
THEOREM SocketsAreLoadedOnce == BootSpec => []NoReload
<1>1. BootInv => NoReload
  <2> SUFFICES ASSUME BootInv, alive, tasks[SocketTask].known, tasks[BootTask].strays = 0,
                      NEW run \in Run
               PROVE  bootAt[run] # StepOf("sockets")
    BY DEF NoReload
  <2>1. SocketTask \in Others
    BY TaskAssumption DEF Others
  <2>2. Done
    BY <2>1 DEF BootInv, Phase, Starting, Repeating, OthersUnknown
  <2>3. QED
    BY <2>2, StepNumbers DEF Done, Run
<1>2. QED
  BY <1>1, BootInvariance, PTL

-----------------------------------------------------------------------------
(* Migrations: what they make of the database of the first release.        *)

\* The fields of printers and of users that have gone through the first n migrations and j calls
\* of the next one
OldPrinter == {"apperance:named", "apikey", "sortIndex", "fileList:object"}
NamedPrinter == {"appearance:named", "apikey", "sortIndex", "fileList:object"}
KeyedPrinter == {"appearance:named", "apiKey", "sortIndex", "fileList:object"}
EnabledPrinter == {"appearance:named", "apiKey", "enabled", "sortIndex", "fileList:object"}
UnsortedPrinter == {"appearance:named", "apiKey", "enabled", "fileList:object"}
FlatPrinter == {"appearance", "name", "apiKey", "enabled", "fileList:object"}
PlainPrinter == {"name", "apiKey", "enabled", "fileList:object"}
NewPrinter == {"name", "apiKey", "enabled", "fileList"}
PrinterFields ==
    <<<<OldPrinter, NamedPrinter, KeyedPrinter>>, <<KeyedPrinter, EnabledPrinter>>,
      <<EnabledPrinter, EnabledPrinter>>,
      <<EnabledPrinter, EnabledPrinter, EnabledPrinter, EnabledPrinter>>,
      <<EnabledPrinter, UnsortedPrinter>>, <<UnsortedPrinter, UnsortedPrinter>>,
      <<UnsortedPrinter, FlatPrinter>>, <<FlatPrinter, PlainPrinter>>,
      <<PlainPrinter, NewPrinter>>, <<NewPrinter>>>>

OldUser == {"password", "name"}
HashedUser == {"passwordHash", "name"}
NewUser == {"passwordHash"}
UserFields ==
    <<<<OldUser, OldUser, OldUser>>, <<OldUser, OldUser>>, <<OldUser, HashedUser>>,
      <<HashedUser, HashedUser, HashedUser, HashedUser>>,
      <<HashedUser, HashedUser>>, <<HashedUser, NewUser>>,
      <<NewUser, NewUser>>, <<NewUser, NewUser>>, <<NewUser, NewUser>>, <<NewUser>>>>

Migrating == {"printers", "users"}
Reached(c, n, j) == (IF c = "printers" THEN PrinterFields ELSE UserFields)[n + 1][j + 1]

\* How many calls a database that has gone through n migrations may have gone through, too
CallsOf(n) == IF n < Len(Migration) THEN Len(Migration[n + 1]) ELSE 0

\* What a call does to the fields of printers or of users.
Seen(fields, s, c) == IF s.on = c THEN Called(fields, s) ELSE fields

\* Only floors are moved.
Harmless(s) == s.call = "move" => s.on \notin Migrating /\ s.to \notin Migrating

LEMMA AfterIsSeen ==
    ASSUME NEW d, Migrating \subseteq DOMAIN d, NEW s, Harmless(s), NEW c \in Migrating
    PROVE  After(d, s)[c] = Seen(d[c], s, c) /\ DOMAIN After(d, s) = DOMAIN d
<1>1. CASE s.call = "move"
  BY <1>1 DEF After, Seen, Harmless
<1>2. CASE s.call # "move"
  BY <1>2 DEF After, Seen
<1>3. QED
  BY <1>1, <1>2

LEMMA MigrationLength == Len(Migration) = 9
BY DEF Migration

LEMMA CallCounts ==
    /\ CallsOf(0) = 2 /\ CallsOf(1) = 1 /\ CallsOf(2) = 1 /\ CallsOf(3) = 3 /\ CallsOf(4) = 1
    /\ CallsOf(5) = 1 /\ CallsOf(6) = 1 /\ CallsOf(7) = 1 /\ CallsOf(8) = 1 /\ CallsOf(9) = 0
BY DEF CallsOf, Migration, PrintersSettingsApiKey, PrintersEnabled, UserPasswordHash,
       FloorRemoveGroup, PrinterRemoveSortIndex, UserRemoveName, PrinterFlattenName,
       PrinterRemoveAppearance, PrinterFilesSimpler

LEMMA MigrationsMoveFloors ==
    ASSUME NEW n \in 0..8, NEW k \in 0..2, k < CallsOf(n) PROVE Harmless(Migration[n + 1][k + 1])
BY CallCounts DEF Migration, PrintersSettingsApiKey, PrintersEnabled, UserPasswordHash,
       FloorRemoveGroup, PrinterRemoveSortIndex, UserRemoveName, PrinterFlattenName,
       PrinterRemoveAppearance, PrinterFilesSimpler,
       Harmless, Migrating, Rename, Unset, Assign, Move

LEMMA TableFields ==
    /\ OldPrinter \subseteq Field /\ OldPrinter # {}
    /\ NamedPrinter \subseteq Field /\ NamedPrinter # {}
    /\ KeyedPrinter \subseteq Field /\ KeyedPrinter # {}
    /\ EnabledPrinter \subseteq Field /\ EnabledPrinter # {}
    /\ UnsortedPrinter \subseteq Field /\ UnsortedPrinter # {}
    /\ FlatPrinter \subseteq Field /\ FlatPrinter # {}
    /\ PlainPrinter \subseteq Field /\ PlainPrinter # {}
    /\ NewPrinter \subseteq Field /\ NewPrinter # {}
    /\ OldUser \subseteq Field /\ OldUser # {}
    /\ HashedUser \subseteq Field /\ HashedUser # {}
    /\ NewUser \subseteq Field /\ NewUser # {}
<1>1. OldPrinter \subseteq Field /\ OldPrinter # {}
  BY DEF OldPrinter, Field
<1>2. NamedPrinter \subseteq Field /\ NamedPrinter # {}
  BY DEF NamedPrinter, Field
<1>3. KeyedPrinter \subseteq Field /\ KeyedPrinter # {}
  BY DEF KeyedPrinter, Field
<1>4. EnabledPrinter \subseteq Field /\ EnabledPrinter # {}
  BY DEF EnabledPrinter, Field
<1>5. UnsortedPrinter \subseteq Field /\ UnsortedPrinter # {}
  BY DEF UnsortedPrinter, Field
<1>6. FlatPrinter \subseteq Field /\ FlatPrinter # {}
  BY DEF FlatPrinter, Field
<1>7. PlainPrinter \subseteq Field /\ PlainPrinter # {}
  BY DEF PlainPrinter, Field
<1>8. NewPrinter \subseteq Field /\ NewPrinter # {}
  BY DEF NewPrinter, Field
<1>9. OldUser \subseteq Field /\ OldUser # {}
  BY DEF OldUser, Field
<1>10. HashedUser \subseteq Field /\ HashedUser # {}
  BY DEF HashedUser, Field
<1>11. NewUser \subseteq Field /\ NewUser # {}
  BY DEF NewUser, Field
<1>12. QED
  BY <1>1, <1>2, <1>3, <1>4, <1>5, <1>6, <1>7, <1>8, <1>9, <1>10, <1>11

LEMMA ReachedFields ==
    ASSUME NEW c \in Migrating, NEW n \in 0..9, NEW j \in 0..CallsOf(n)
    PROVE  Reached(c, n, j) \subseteq Field /\ Reached(c, n, j) # {}
<1>1. \A f \in {OldPrinter, NamedPrinter, KeyedPrinter, EnabledPrinter, UnsortedPrinter,
               FlatPrinter, PlainPrinter, NewPrinter, OldUser, HashedUser, NewUser} :
          f \subseteq Field /\ f # {}
  BY TableFields
<1>2. Reached(c, n, j) \in {OldPrinter, NamedPrinter, KeyedPrinter, EnabledPrinter, UnsortedPrinter,
                           FlatPrinter, PlainPrinter, NewPrinter, OldUser, HashedUser, NewUser}
  <2>1. CASE c = "printers"
    BY <2>1, CallCounts DEF Reached, PrinterFields
  <2>2. CASE c = "users"
    BY <2>2, CallCounts DEF Reached, UserFields
  <2>3. QED
    BY <2>1, <2>2 DEF Migrating
<1>3. QED
  BY <1>1, <1>2

\* A call, made at its turn or again after an interruption, when calls after it have been
\* made already.
LEMMA CallAgain ==
    ASSUME NEW c \in Migrating, NEW n \in 0..8, NEW k \in 0..2, k < CallsOf(n),
           NEW j \in k..CallsOf(n)
    PROVE  Seen(Reached(c, n, j), Migration[n + 1][k + 1], c) =
               Reached(c, n, IF j = k THEN k + 1 ELSE j)
<1> DEFINE v == Reached(c, n, j)
           s == Migration[n + 1][k + 1]
<1>1. ~Empty(v)
  <2>1. v \in SUBSET Field /\ v # {}
    BY CallCounts, ReachedFields DEF Migrating
  <2>2. v # {} /\ v # None
    BY <2>1, MigrationAssumption
  <2>3. QED
    BY <2>1, <2>2 DEF Empty
<1>2. Seen(v, s, c) = IF s.on # c \/ (s.call = "rename" /\ s.from \notin v) THEN v
                      ELSE (v \ {s.from}) \cup s.to
  BY <1>1 DEF Seen, Called
<1> USE DEF Reached, PrinterFields, UserFields, Migrating, Migration
<1>3. CASE n = 0 /\ c = "printers"
  <2>1. CASE k = 0 /\ j = 0
    BY <1>2, <1>3, <2>1 DEF PrintersSettingsApiKey, Rename, OldPrinter, NamedPrinter
  <2>2. CASE k = 0 /\ j = 1
    BY <1>2, <1>3, <2>2 DEF PrintersSettingsApiKey, Rename, NamedPrinter
  <2>3. CASE k = 0 /\ j = 2
    BY <1>2, <1>3, <2>3 DEF PrintersSettingsApiKey, Rename, KeyedPrinter
  <2>4. CASE k = 1 /\ j = 1
    BY <1>2, <1>3, <2>4 DEF PrintersSettingsApiKey, Rename, NamedPrinter, KeyedPrinter
  <2>5. CASE k = 1 /\ j = 2
    BY <1>2, <1>3, <2>5 DEF PrintersSettingsApiKey, Rename, KeyedPrinter
  <2>6. QED
    BY <1>3, <2>1, <2>2, <2>3, <2>4, <2>5, CallCounts
<1>4. CASE n = 1 /\ c = "printers"
  <2>1. CASE k = 0 /\ j = 0
    BY <1>2, <1>4, <2>1 DEF PrintersEnabled, Assign, KeyedPrinter, EnabledPrinter
  <2>2. CASE k = 0 /\ j = 1
    BY <1>2, <1>4, <2>2 DEF PrintersEnabled, Assign, EnabledPrinter
  <2>3. QED
    BY <1>4, <2>1, <2>2, CallCounts
<1>5. CASE n = 2 /\ c = "users"
  BY <1>2, <1>5, CallCounts DEF UserPasswordHash, Rename, OldUser, HashedUser
<1>6. CASE n = 4 /\ c = "printers"
  BY <1>2, <1>6, CallCounts DEF PrinterRemoveSortIndex, Unset, EnabledPrinter, UnsortedPrinter
<1>7. CASE n = 5 /\ c = "users"
  BY <1>2, <1>7, CallCounts DEF UserRemoveName, Unset, HashedUser, NewUser
<1>8. CASE n = 6 /\ c = "printers"
  BY <1>2, <1>8, CallCounts DEF PrinterFlattenName, Rename, UnsortedPrinter, FlatPrinter
<1>9. CASE n = 7 /\ c = "printers"
  <2>1. CASE k = 0 /\ j = 0
    BY <1>2, <1>9, <2>1 DEF PrinterRemoveAppearance, Unset, FlatPrinter, PlainPrinter
  <2>2. CASE k = 0 /\ j = 1
    BY <1>2, <1>9, <2>2 DEF PrinterRemoveAppearance, Unset, PlainPrinter
  <2>3. QED
    BY <1>9, <2>1, <2>2, CallCounts
<1>10. CASE n = 8 /\ c = "printers"
  BY <1>2, <1>10, CallCounts DEF PrinterFilesSimpler, Assign, PlainPrinter, NewPrinter
\* The migrations of the other collections
<1>11. CASE n = 3
  BY <1>2, <1>11, CallCounts DEF FloorRemoveGroup, Unset, Assign, Move
<1>12. CASE c = "users" /\ n \in {0, 1, 4, 6, 7, 8}
  BY <1>2, <1>12, CallCounts DEF PrintersSettingsApiKey, PrintersEnabled, PrinterRemoveSortIndex,
     PrinterFlattenName, PrinterRemoveAppearance, PrinterFilesSimpler, Rename, Unset, Assign
<1>13. CASE c = "printers" /\ n \in {2, 5}
  BY <1>2, <1>13, CallCounts DEF UserPasswordHash, UserRemoveName, Rename, Unset
<1>14. QED
  BY <1>3, <1>4, <1>5, <1>6, <1>7, <1>8, <1>9, <1>10, <1>11, <1>12, <1>13

\* Calls one after the other.
LEMMA AfterOne == ASSUME NEW d, NEW a PROVE AfterCalls(d, <<a>>) = After(d, a)
<1> DEFINE F(f) == f = [i \in 0..Len(<<a>>) |-> IF i = 0 THEN d ELSE After(f[i - 1], <<a>>[i])]
           g == [i \in 0..1 |-> IF i = 0 THEN d ELSE After(d, a)]
           f == CHOOSE f : F(f)
<1>1. AfterCalls(d, <<a>>) = f[Len(<<a>>)]
  BY DEF AfterCalls
<1>2. F(g)
  OBVIOUS
<1>3. F(f)
  <2> HIDE DEF F, g
  <2> QED BY <1>2
<1> HIDE DEF f
<1>4. f[0] = d /\ f[1] = After(f[0], a)
  BY <1>3
<1>5. QED
  BY <1>1, <1>4

LEMMA AfterTwo ==
    ASSUME NEW d, NEW a, NEW b PROVE AfterCalls(d, <<a, b>>) = After(After(d, a), b)
<1> DEFINE F(f) == f = [i \in 0..Len(<<a, b>>) |->
                          IF i = 0 THEN d ELSE After(f[i - 1], <<a, b>>[i])]
           g == [i \in 0..2 |-> CASE i = 0 -> d
                                 [] i = 1 -> After(d, a)
                                 [] i = 2 -> After(After(d, a), b)]
           f == CHOOSE f : F(f)
<1>1. AfterCalls(d, <<a, b>>) = f[Len(<<a, b>>)]
  BY DEF AfterCalls
<1>2. F(g)
  <2>1. g[0] = d /\ g[1] = After(d, a) /\ g[2] = After(After(d, a), b)
    OBVIOUS
  <2> DEFINE h == [i \in 0..2 |-> IF i = 0 THEN d ELSE After(g[i - 1], <<a, b>>[i])]
  <2>2. \A i \in 0..2 : g[i] = h[i]
    <3> HIDE DEF g
    <3> QED BY <2>1
  <2>3. g = h
    BY <2>2
  <2>4. QED
    BY <2>3
<1>3. F(f)
  <2> HIDE DEF F, g
  <2> QED BY <1>2
<1> HIDE DEF f
<1>4. f[0] = d /\ f[1] = After(f[0], a) /\ f[2] = After(f[1], b)
  BY <1>3
<1>5. QED
  BY <1>1, <1>4

LEMMA AfterThree ==
    ASSUME NEW d, NEW a, NEW b, NEW e
    PROVE  AfterCalls(d, <<a, b, e>>) = After(After(After(d, a), b), e)
<1> DEFINE m == <<a, b, e>>
           F(f) == f = [i \in 0..Len(m) |-> IF i = 0 THEN d ELSE After(f[i - 1], m[i])]
           d1 == After(d, a)
           d2 == After(d1, b)
           d3 == After(d2, e)
           g == [i \in 0..3 |-> <<d, d1, d2, d3>>[i + 1]]
           f == CHOOSE f : F(f)
<1>1. AfterCalls(d, m) = f[Len(m)]
  BY DEF AfterCalls
<1>2. F(g)
  <2>1. d1 = After(d, a) /\ d2 = After(d1, b) /\ d3 = After(d2, e)
    OBVIOUS
  <2> HIDE DEF d1, d2, d3
  <2>2. QED
    BY <2>1
<1>3. F(f)
  <2> HIDE DEF F, g
  <2> QED BY <1>2
<1> HIDE DEF f
<1>4. f[0] = d /\ f[1] = After(f[0], a) /\ f[2] = After(f[1], b) /\ f[3] = After(f[2], e)
  BY <1>3
<1>5. QED
  BY <1>1, <1>4

\* Migrations one after the other.
LEMMA MigratedOneByOne ==
    ASSUME NEW d
    PROVE  /\ Migrated(d, 0) = d
           /\ \A n \in 0..8 : Migrated(d, n + 1) = AfterCalls(Migrated(d, n), Migration[n + 1])
<1> DEFINE d1 == AfterCalls(d, Migration[1])
           d2 == AfterCalls(d1, Migration[2])
           d3 == AfterCalls(d2, Migration[3])
           d4 == AfterCalls(d3, Migration[4])
           d5 == AfterCalls(d4, Migration[5])
           d6 == AfterCalls(d5, Migration[6])
           d7 == AfterCalls(d6, Migration[7])
           d8 == AfterCalls(d7, Migration[8])
           d9 == AfterCalls(d8, Migration[9])
           g == [i \in 0..9 |-> <<d, d1, d2, d3, d4, d5, d6, d7, d8, d9>>[i + 1]]
<1>1. g[0] = d /\ \A i \in 0..8 : g[i + 1] = AfterCalls(g[i], Migration[i + 1])
  <2>1. /\ d1 = AfterCalls(d, Migration[1]) /\ d2 = AfterCalls(d1, Migration[2])
        /\ d3 = AfterCalls(d2, Migration[3]) /\ d4 = AfterCalls(d3, Migration[4])
        /\ d5 = AfterCalls(d4, Migration[5]) /\ d6 = AfterCalls(d5, Migration[6])
        /\ d7 = AfterCalls(d6, Migration[7]) /\ d8 = AfterCalls(d7, Migration[8])
        /\ d9 = AfterCalls(d8, Migration[9])
    OBVIOUS
  <2> HIDE DEF d1, d2, d3, d4, d5, d6, d7, d8, d9
  <2>2. QED
    BY <2>1
<1> HIDE DEF g
<1>2. \A n \in 0..9 : Migrated(d, n) = g[n]
  <2> TAKE n \in 0..9
  <2> DEFINE F(f) == f = [i \in 0..n |-> IF i = 0 THEN d ELSE AfterCalls(f[i - 1], Migration[i])]
             h == [i \in 0..n |-> g[i]]
             f == CHOOSE f : F(f)
             P(i) == i <= n => f[i] = g[i]
  <2>1. Migrated(d, n) = f[n]
    BY DEF Migrated
  <2>2. F(h)
    <3>1. \A i \in 0..n : i # 0 => i - 1 \in 0..8 /\ g[i] = AfterCalls(h[i - 1], Migration[i])
      <4> TAKE i \in 0..n
      <4> HAVE i # 0
      <4>1. i - 1 \in 0..8 /\ i - 1 \in 0..n /\ (i - 1) + 1 = i
        OBVIOUS
      <4>2. g[i] = AfterCalls(g[i - 1], Migration[i])
        BY <1>1, <4>1
      <4>3. QED
        BY <4>1, <4>2
    <3>2. QED
      BY <1>1, <3>1
  <2>3. F(f)
    <3> HIDE DEF F, h
    <3> QED BY <2>2
  <2> HIDE DEF f
  <2>4. f[0] = d /\ \A i \in 0..8 : i + 1 <= n => f[i + 1] = AfterCalls(f[i], Migration[i + 1])
    <3>1. f[0] = d
      BY <2>3
    <3>2. ASSUME NEW i \in 0..8, i + 1 <= n PROVE f[i + 1] = AfterCalls(f[i], Migration[i + 1])
      <4>1. i + 1 \in 0..n /\ i + 1 # 0 /\ (i + 1) - 1 = i
        BY <3>2
      <4>2. QED
        BY <2>3, <4>1
    <3>3. QED
      BY <3>1, <3>2
  <2>5. P(0)
    BY <1>1, <2>4
  <2>6. \A i \in 0..8 : P(i) => P(i + 1)
    BY <1>1, <2>4
  <2>7. P(n)
    <3> HIDE DEF P
    <3> QED BY <2>5, <2>6
  <2>8. QED
    BY <2>1, <2>7
<1>3. QED
  BY <1>1, <1>2

\* A migration, made as a whole.
LEMMA TableEnds ==
    ASSUME NEW c \in Migrating, NEW n \in 0..8
    PROVE  Reached(c, n, CallsOf(n)) = Reached(c, n + 1, 0)
BY CallCounts DEF Reached, PrinterFields, UserFields, Migrating

LEMMA CalledEmpty == ASSUME NEW fields, NEW s, NEW c, Empty(fields) PROVE Empty(Seen(fields, s, c))
BY DEF Seen, Called

LEMMA CallAtItsTurn ==
    ASSUME NEW c \in Migrating, NEW n \in 0..8, NEW k \in 0..2, k < CallsOf(n)
    PROVE  Seen(Reached(c, n, k), Migration[n + 1][k + 1], c) = Reached(c, n, k + 1)
BY CallAgain, CallCounts

LEMMA MigrationReaches ==
    ASSUME NEW c \in Migrating, NEW n \in 0..8, NEW d, Migrating \subseteq DOMAIN d
    PROVE  LET e == AfterCalls(d, Migration[n + 1]) IN
           /\ Migrating \subseteq DOMAIN e
           /\ d[c] = Reached(c, n, 0) => e[c] = Reached(c, n + 1, 0)
           /\ Empty(d[c]) => Empty(e[c])
<1> DEFINE m == Migration[n + 1]
           Good(e, k) == /\ Migrating \subseteq DOMAIN e
                         /\ d[c] = Reached(c, n, 0) => e[c] = Reached(c, n, k)
                         /\ Empty(d[c]) => Empty(e[c])
<1>1. CallsOf(n) \in 1..3 /\ (n \in {0} => CallsOf(n) = 2) /\ (n \in {3} => CallsOf(n) = 3)
                         /\ (n \in {1, 2, 4, 5, 6, 7, 8} => CallsOf(n) = 1)
  BY CallCounts
<1>2. ASSUME NEW e, NEW k \in 0..2, k < CallsOf(n), Good(e, k) PROVE Good(After(e, m[k + 1]), k + 1)
  <2>1. Harmless(m[k + 1])
    BY <1>2, MigrationsMoveFloors
  <2>2. After(e, m[k + 1])[c] = Seen(e[c], m[k + 1], c) /\ DOMAIN After(e, m[k + 1]) = DOMAIN e
    BY <1>2, <2>1, AfterIsSeen
  <2>3. d[c] = Reached(c, n, 0) => Seen(e[c], m[k + 1], c) = Reached(c, n, k + 1)
    BY <1>2, CallAtItsTurn
  <2>4. Empty(d[c]) => Empty(Seen(e[c], m[k + 1], c))
    BY <1>2, CalledEmpty
  <2>5. QED
    BY <1>2, <2>2, <2>3, <2>4
<1>3. Good(d, 0)
  OBVIOUS
<1>4. Good(AfterCalls(d, m), CallsOf(n))
  <2> DEFINE e1 == After(d, m[1])
             e2 == After(e1, m[2])
             e3 == After(e2, m[3])
  <2> HIDE DEF Good
  <2>1. CASE n \in {1, 2, 4, 5, 6, 7, 8}
    <3>1. AfterCalls(d, m) = e1
      <4>1. m = <<m[1]>>
        BY <2>1 DEF Migration, PrintersEnabled, UserPasswordHash, PrinterRemoveSortIndex,
           UserRemoveName, PrinterFlattenName, PrinterRemoveAppearance, PrinterFilesSimpler
      <4>2. QED
        BY <4>1, AfterOne
    <3>2. QED
      BY <1>1, <1>2, <1>3, <2>1, <3>1
  <2>2. CASE n = 0
    <3>1. AfterCalls(d, m) = e2
      <4>1. m = <<m[1], m[2]>>
        BY <2>2 DEF Migration, PrintersSettingsApiKey
      <4>2. QED
        BY <4>1, AfterTwo
    <3>2. Good(e1, 1)
      BY <1>1, <1>2, <1>3, <2>2
    <3> HIDE DEF e1
    <3>3. QED
      BY <1>1, <1>2, <2>2, <3>1, <3>2
  <2>3. CASE n = 3
    <3>1. AfterCalls(d, m) = e3
      <4>1. m = <<m[1], m[2], m[3]>>
        BY <2>3 DEF Migration, FloorRemoveGroup
      <4>2. QED
        BY <4>1, AfterThree
    <3>2. Good(e1, 1)
      BY <1>1, <1>2, <1>3, <2>3
    <3> HIDE DEF e1
    <3>3. Good(e2, 2)
      BY <1>1, <1>2, <2>3, <3>2
    <3> HIDE DEF e2
    <3>4. QED
      BY <1>1, <1>2, <2>3, <3>1, <3>3
  <2>4. QED
    BY <2>1, <2>2, <2>3
<1>5. QED
  BY <1>4, TableEnds

\* A database that has gone through the first n migrations and nothing else.
LEMMA MigratedFields ==
    ASSUME NEW n \in 0..9, NEW c \in Migrating
    PROVE  /\ Migrated(Oldest, n)[c] = Reached(c, n, 0)
           /\ Empty(Migrated(Fresh, n)[c])
           /\ Migrating \subseteq DOMAIN Migrated(Oldest, n)
           /\ Migrating \subseteq DOMAIN Migrated(Fresh, n)
<1> DEFINE P(i) == /\ Migrated(Oldest, i)[c] = Reached(c, i, 0)
                   /\ Empty(Migrated(Fresh, i)[c])
                   /\ Migrating \subseteq DOMAIN Migrated(Oldest, i)
                   /\ Migrating \subseteq DOMAIN Migrated(Fresh, i)
<1>1. P(0)
  <2>1. Migrated(Oldest, 0) = Oldest /\ Migrated(Fresh, 0) = Fresh
    BY MigratedOneByOne
  <2>2. Empty(Fresh[c]) /\ Migrating \subseteq DOMAIN Fresh
    BY DEF Fresh, Empty, Migrating, Collection
  <2>3. Oldest[c] = Reached(c, 0, 0) /\ Migrating \subseteq DOMAIN Oldest
    BY DEF Oldest, Reached, PrinterFields, UserFields, OldPrinter, OldUser, Migrating, Collection
  <2>4. QED
    BY <2>1, <2>2, <2>3
<1>2. \A i \in 0..8 : P(i) => P(i + 1)
  <2> TAKE i \in 0..8
  <2> HAVE P(i)
  <2>1. /\ Migrated(Oldest, i + 1) = AfterCalls(Migrated(Oldest, i), Migration[i + 1])
        /\ Migrated(Fresh, i + 1) = AfterCalls(Migrated(Fresh, i), Migration[i + 1])
    BY MigratedOneByOne
  <2>2. QED
    BY <2>1, MigrationReaches
<1>3. P(n)
  <2> HIDE DEF P
  <2> QED BY <1>1, <1>2
<1>4. QED
  BY <1>3

\* The database is between the migrations recorded and the calls made since.  It may be ahead of
\* `calls`, which an interruption sets back.
MigrationInv ==
    /\ born \in {Oldest, Fresh}
    /\ applied \in 0..9
    /\ calls \in 0..CallsOf(applied)
    /\ Migrating \subseteq DOMAIN docs
    /\ \A c \in Migrating :
          \/ Empty(docs[c])
          \/ /\ born = Oldest
             /\ \E j \in calls..CallsOf(applied) : docs[c] = Reached(c, applied, j)

LEMMA CallsAreCounted == \A n \in 0..9 : CallsOf(n) \in 0..3
BY CallCounts

LEMMA CallsOfNext == \A n \in 0..8 : Len(Migration[n + 1]) = CallsOf(n)
BY MigrationLength DEF CallsOf

LEMMA MigrationInvInit == BootInit => MigrationInv
<1> SUFFICES ASSUME BootInit PROVE MigrationInv
  OBVIOUS
<1>1. born \in {Oldest, Fresh} /\ applied \in 0..9 /\ calls = 0 /\ docs = Migrated(born, applied)
  BY MigrationLength DEF BootInit
<1>2. 0 \in 0..CallsOf(applied)
  BY <1>1, CallsAreCounted
<1>3. CASE born = Oldest
  <2>1. \A c \in Migrating : docs[c] = Reached(c, applied, 0)
    BY <1>1, <1>3, MigratedFields
  <2>2. Migrating \subseteq DOMAIN docs
    BY <1>1, <1>3, MigratedFields DEF Migrating
  <2>3. QED
    BY <1>1, <1>2, <1>3, <2>1, <2>2 DEF MigrationInv
<1>4. CASE born = Fresh
  <2>1. \A c \in Migrating : Empty(docs[c])
    BY <1>1, <1>4, MigratedFields
  <2>2. Migrating \subseteq DOMAIN docs
    BY <1>1, <1>4, MigratedFields DEF Migrating
  <2>3. QED
    BY <1>1, <1>2, <2>1, <2>2 DEF MigrationInv
<1>5. QED
  BY <1>1, <1>3, <1>4

\* Set back, the invariant holds as before.
LEMMA SetBack ==
    ASSUME MigrationInv, UNCHANGED <<born, applied>>, calls' \in {0, calls},
           Migrating \subseteq DOMAIN docs',
           \A c \in Migrating : docs'[c] = docs[c] \/ Empty(docs'[c])
    PROVE  MigrationInv'
<1>1. CallsOf(applied) \in 0..3 /\ calls \in 0..CallsOf(applied) /\ applied \in 0..9
  BY CallsAreCounted DEF MigrationInv
<1>2. calls' \in 0..CallsOf(applied') /\ CallsOf(applied') = CallsOf(applied)
  BY <1>1
<1>3. \A j \in calls..CallsOf(applied) : j \in calls'..CallsOf(applied')
  BY <1>1, <1>2
<1>4. ASSUME NEW c \in Migrating, ~Empty(docs'[c])
      PROVE  /\ born' = Oldest
             /\ \E j \in calls'..CallsOf(applied') : docs'[c] = Reached(c, applied', j)
  <2>1. docs'[c] = docs[c] /\ ~Empty(docs[c])
    BY <1>4
  <2>2. born = Oldest /\ \E j \in calls..CallsOf(applied) : docs[c] = Reached(c, applied, j)
    BY <2>1 DEF MigrationInv
  <2>3. PICK j \in calls..CallsOf(applied) : docs[c] = Reached(c, applied, j)
    BY <2>2
  <2>4. docs'[c] = Reached(c, applied', j)
    BY <2>1, <2>3
  <2>5. QED
    BY <1>3, <2>2, <2>4
<1>5. QED
  BY <1>1, <1>2, <1>4 DEF MigrationInv

LEMMA MigrateCallStep == ASSUME MigrationInv, NEW run, MigrateCall(run) PROVE MigrationInv'
<1>1. applied \in 0..8 /\ calls \in 0..2 /\ calls < CallsOf(applied)
  <2>1. applied \in 0..8 /\ calls # Len(Migration[applied + 1])
    BY MigrationLength DEF MigrateCall, Pending, AllMade, MigrationInv
  <2>2. Len(Migration[applied + 1]) = CallsOf(applied) /\ CallsOf(applied) \in 0..3
    BY <2>1, CallsOfNext, CallsAreCounted
  <2>3. calls \in 0..CallsOf(applied)
    BY DEF MigrationInv
  <2>4. QED
    BY <2>1, <2>2, <2>3
<1>2. docs' = After(docs, NextCall) /\ calls' = calls + 1 /\ UNCHANGED <<applied, born>>
  BY DEF MigrateCall
<1>3. Harmless(NextCall)
  BY <1>1, MigrationsMoveFloors DEF NextCall
<1>4. \A c \in Migrating : docs'[c] = Seen(docs[c], NextCall, c) /\ DOMAIN docs' = DOMAIN docs
  BY <1>2, <1>3, AfterIsSeen DEF MigrationInv
<1>5. Migrating \subseteq DOMAIN docs' /\ calls' \in 0..CallsOf(applied') /\ applied' \in 0..9
      /\ born' \in {Oldest, Fresh}
  BY <1>1, <1>2, <1>4, CallsAreCounted DEF MigrationInv
<1>6. ASSUME NEW c \in Migrating, ~Empty(docs'[c])
      PROVE  /\ born' = Oldest
             /\ \E j \in calls'..CallsOf(applied') : docs'[c] = Reached(c, applied', j)
  <2>1. ~Empty(docs[c])
    BY <1>4, <1>6, CalledEmpty
  <2>2. born = Oldest /\ \E j \in calls..CallsOf(applied) : docs[c] = Reached(c, applied, j)
    BY <2>1 DEF MigrationInv
  <2>3. PICK j \in calls..CallsOf(applied) : docs[c] = Reached(c, applied, j)
    BY <2>2
  <2> DEFINE i == IF j = calls THEN calls + 1 ELSE j
  <2>4. docs'[c] = Reached(c, applied, i)
    BY <1>1, <1>4, <2>3, CallAgain DEF NextCall
  <2>5. i \in calls'..CallsOf(applied')
    BY <1>1, <1>2, <2>3, CallsAreCounted
  <2> HIDE DEF i
  <2>6. QED
    BY <1>2, <2>2, <2>4, <2>5
<1>7. QED
  BY <1>5, <1>6 DEF MigrationInv

\* When the calls have been made the fields are those of the next migration's start.
LEMMA RecordedFields ==
    ASSUME MigrationInv, NEW run, MigrateRecord(run), NEW c \in Migrating, ~Empty(docs[c])
    PROVE  born = Oldest /\ docs[c] = Reached(c, applied', 0)
<1>1. /\ applied \in 0..8 /\ applied' = applied + 1
      /\ calls = CallsOf(applied) /\ CallsOf(applied) \in 0..3
  <2>1. applied \in 0..8 /\ calls = Len(Migration[applied + 1]) /\ applied' = applied + 1
    BY MigrationLength DEF MigrateRecord, AllMade, MigrationInv
  <2>2. applied \in 0..8 /\ applied \in 0..9
    BY <2>1
  <2>3. Len(Migration[applied + 1]) = CallsOf(applied)
    BY <2>2, CallsOfNext
  <2>4. CallsOf(applied) \in 0..3
    BY <2>2, CallsAreCounted
  <2>5. QED
    BY <2>1, <2>3, <2>4
<1>2. born = Oldest /\ \E j \in calls..CallsOf(applied) : docs[c] = Reached(c, applied, j)
  BY DEF MigrationInv
<1>3. docs[c] = Reached(c, applied, CallsOf(applied))
  BY <1>1, <1>2
<1>4. QED
  BY <1>1, <1>2, <1>3, TableEnds

LEMMA MigrateRecordStep == ASSUME MigrationInv, NEW run, MigrateRecord(run) PROVE MigrationInv'
<1>1. applied' \in 0..9 /\ calls' = 0 /\ UNCHANGED <<docs, born>>
  BY MigrationLength DEF MigrateRecord, MigrationInv
<1>2. 0 \in calls'..CallsOf(applied') /\ calls' \in 0..CallsOf(applied')
  BY <1>1, CallsAreCounted
<1>3. ASSUME NEW c \in Migrating, ~Empty(docs'[c])
      PROVE  born' = Oldest /\ docs'[c] = Reached(c, applied', 0)
  BY <1>1, <1>3, RecordedFields
<1>4. QED
  BY <1>1, <1>2, <1>3 DEF MigrationInv

\* Collections that are created have no documents.
LEMMA CreatedStep ==
    ASSUME MigrationInv, NEW cs, docs' = Created(cs), UNCHANGED <<born, applied>>,
           calls' \in {0, calls}
    PROVE  MigrationInv'
<1>1. Migrating \subseteq DOMAIN docs'
  BY DEF Created, Migrating, Collection
<1>2. \A c \in Migrating : docs'[c] = docs[c] \/ Empty(docs'[c])
  BY DEF Created, Migrating, Collection, Empty
<1>3. QED
  BY <1>1, <1>2, SetBack

LEMMA SyncIndexesStep == ASSUME MigrationInv, NEW run, SyncIndexes(run) PROVE MigrationInv'
BY CreatedStep DEF SyncIndexes

LEMMA SyncFailsStep == ASSUME MigrationInv, NEW run, NEW cs, SyncFails(run, cs) PROVE MigrationInv'
<1>1. docs' = Created(cs) /\ UNCHANGED <<born, applied>> /\ calls' = calls
  BY DEF SyncFails
<1>2. QED
  BY <1>1, CreatedStep

LEMMA MigrationInvNext == MigrationInv /\ [BootNext]_bootVars => MigrationInv'
<1> SUFFICES ASSUME MigrationInv, [BootNext]_bootVars PROVE MigrationInv'
  OBVIOUS
<1>1. ASSUME UNCHANGED <<docs, applied, born>>, calls' \in {0, calls} PROVE MigrationInv'
  <2>1. Migrating \subseteq DOMAIN docs' /\ \A c \in Migrating : docs'[c] = docs[c]
    BY <1>1 DEF MigrationInv
  <2>2. QED
    BY <1>1, <2>1, SetBack
<1>2. CASE \E run \in Run : BootStep(run)
  <2>1. PICK run \in Run : BootStep(run)
    BY <1>2
  <2>2. CASE SyncIndexes(run)
    BY <2>2, SyncIndexesStep
  <2>3. CASE MigrateCall(run)
    BY <2>3, MigrateCallStep
  <2>4. CASE MigrateRecord(run)
    BY <2>4, MigrateRecordStep
  <2>5. CASE \/ Connect(run) \/ ConnectFails(run) \/ MigrateEnds(run) \/ RegisterTasks(run)
             \/ \E s \in Loading : Load(run, s) \/ LoadFails(run, s)
    BY <1>1, <2>5 DEF Connect, ConnectFails, MigrateEnds, RegisterTasks, Load, LoadFails
  <2>6. ASSUME NEW cs, SyncFails(run, cs) PROVE MigrationInv'
    BY <2>6, SyncFailsStep
  <2>7. QED
    BY <2>1, <2>2, <2>3, <2>4, <2>5, <2>6 DEF BootStep
<1>3. CASE \/ \E t \in Task : TaskStarts(t) \/ OtherEnds(t)
           \/ Start \/ ProcessDies \/ DatabaseGoes \/ DatabaseComes
  BY <1>1, <1>3 DEF TaskStarts, OtherEnds, Start, ProcessDies, DatabaseGoes, DatabaseComes
<1>4. CASE UNCHANGED bootVars
  BY <1>1, <1>4 DEF bootVars
<1>5. QED
  BY <1>2, <1>3, <1>4 DEF BootNext

LEMMA RecordedAsDesigned ==
    MigrationInv /\ [BootNext]_bootVars =>
        [applied' > applied => \A c \in {"printers", "users"} :
            Empty(docs'[c]) \/ docs'[c] = Migrated(born, applied')[c]]_bootVars
<1> SUFFICES ASSUME MigrationInv, BootNext, applied' > applied, NEW c \in {"printers", "users"}
             PROVE  Empty(docs'[c]) \/ docs'[c] = Migrated(born, applied')[c]
  OBVIOUS
<1>1. ~(applied' = applied)
  BY DEF MigrationInv
<1>2. PICK run \in Run : MigrateRecord(run)
  <2>1. ~\E t \in Task : TaskStarts(t) \/ OtherEnds(t)
    BY <1>1 DEF TaskStarts, OtherEnds
  <2>2. ~Start /\ ~ProcessDies /\ ~DatabaseGoes /\ ~DatabaseComes
    BY <1>1 DEF Start, ProcessDies, DatabaseGoes, DatabaseComes
  <2>3. PICK run \in Run : BootStep(run)
    BY <2>1, <2>2 DEF BootNext
  <2>4. MigrateRecord(run)
    BY <1>1, <2>3 DEF BootStep, Connect, ConnectFails, SyncIndexes, SyncFails, MigrateCall, MigrateEnds,
       RegisterTasks, Load, LoadFails
  <2>5. QED
    BY <2>4
<1>3. docs' = docs /\ applied' \in 0..9 /\ c \in Migrating
  BY <1>2, MigrationLength DEF MigrateRecord, MigrationInv, Migrating
<1>4. CASE ~Empty(docs[c])
  <2>1. born = Oldest /\ docs[c] = Reached(c, applied', 0)
    BY <1>2, <1>3, <1>4, RecordedFields
  <2>2. QED
    BY <1>3, <2>1, MigratedFields
<1>5. QED
  BY <1>3, <1>4

\* However a migration is interrupted and made again, when it is recorded printers and users have
\* the fields that all the migrations up to it, each made once, give them.
THEOREM MigrationsAreResumable == BootSpec => MigratedAsDesigned
<1>1. BootSpec => []MigrationInv
  BY MigrationInvInit, MigrationInvNext, PTL DEF BootSpec
<1>2. BootSpec => [][BootNext]_bootVars
  BY PTL DEF BootSpec
<1>3. QED
  BY <1>1, <1>2, RecordedAsDesigned, PTL DEF MigratedAsDesigned

=============================================================================
