------------------------------ MODULE PrinterCalls ------------------------------
(***************************************************************************)
(* Calls about one printer, and batches of them: BatchCallService, the     *)
(* patches of PrinterService it makes, and the commands of                 *)
(* PrinterController to OctoPrint.  A batch decides about all its printers *)
(* at once, from the cache; then its calls run on their own.               *)
(*                                                                         *)
(* External: OctoPrint, of which the job of each printer is kept.          *)
(***************************************************************************)
EXTENDS Actors, Sequences, SequencesExt

ASSUME CallsAssumption == IsFiniteSet(Printer)

VARIABLES
    mode,       \* mode[p] in the database, "gone" if the printer is deleted
    listed,     \* ... and in the printer cache
    job,        \* job[p] of OctoPrint
    calls,      \* calls under way
    batch,      \* batch[r]: what request r does
    suspect     \* history: printers of whom the cache may be wrong after overlapping calls

callVars == <<mode, listed, job, calls, batch, suspect>>

Mode == {"on", "off", "maintenance"}
Patch == {"enable", "disable", "maintain", "release", "delete"}
Command == {"connect", "disconnect", "pause", "resume", "cancel"}
Job == {"none", "printing", "paused"}
BatchKind == {"toggle", "usb", "single"}

\* A call of request req; seen is the document that was written, raced whether another
\* patch of the printer was under way meanwhile
Call == [req : Request, printer : Printer, do : Patch \cup Command,
         seen : Mode \cup {"gone", "unwritten"}, raced : BOOLEAN]

CallsTypeOK ==
    /\ mode \in [Printer -> Mode \cup {"gone"}]
    /\ listed \in [Printer -> Mode \cup {"gone"}]
    /\ job \in [Printer -> Job]
    /\ calls \subseteq Call
    /\ batch \in [Request -> BatchKind \cup {"idle"}]
    /\ suspect \subseteq Printer

Idle(r) == batch[r] = "idle"
CallsOf(r) == {c \in calls : c.req = r}
Free(r) == Idle(r) /\ CallsOf(r) = {}
Patching(p) == {c \in calls : c.printer = p /\ c.do \in Patch}
Known(p) == listed[p] # "gone"

Asked(r, p, do) ==
    [req |-> r, printer |-> p, do |-> do, seen |-> "unwritten",
     raced |-> do \in Patch /\ Patching(p) # {}]

\* Calls that overlap from now on with new ones about ps
Racing(ps) == {[c EXCEPT !.raced = @ \/ (c.do \in Patch /\ c.printer \in ps)] : c \in calls}

Ask(r, kind, new) ==
    /\ calls' = Racing({c.printer : c \in {d \in new : d.do \in Patch}}) \cup new
    /\ batch' = [batch EXCEPT ![r] = kind]

-----------------------------------------------------------------------------
(* Batches.                                                                *)

\* Variant: a printer in maintenance is one that is not enabled
AnyDisabled(p) == listed[p] \in {"off", "maintenance"}

\* "If disabled, but not in maintenance"
Enables(p) == listed[p] = "off"

\* batchTogglePrintersEnabled; printers the cache does not know are passed over
Toggle(r, ps, enabled) ==
    LET do == IF enabled THEN "enable" ELSE "disable"
        chosen == {p \in ps : IF enabled THEN Enables(p) ELSE listed[p] = "on"}
    IN  /\ Free(r)
        /\ Ask(r, "toggle", {Asked(r, p, do) : p \in chosen})
        /\ UNCHANGED <<mode, listed, job, suspect>>

\* batchConnectUsb sends command after command; the first unknown printer ends it with an
\* error, and the commands sent before go on
ConnectUsb(r, ids) ==
    LET unknown == SelectInSeq(ids, LAMBDA p : ~Known(p))
        sent == IF unknown = 0 THEN ids ELSE SubSeq(ids, 1, unknown - 1)
    IN  /\ Free(r)
        /\ Ask(r, IF unknown = 0 THEN "usb" ELSE "idle", {Asked(r, p, "connect") : p \in ToSet(sent)})
        /\ UNCHANGED <<mode, listed, job, suspect>>

\* updateEnabled, updateDisabledReason, delete; the commands about connection and job: the
\* middleware finds the printer in the cache
Single(r, p, do) ==
    /\ Free(r) /\ Known(p)
    /\ Ask(r, "single", {Asked(r, p, do)})
    /\ UNCHANGED <<mode, listed, job, suspect>>

\* Promise.all over promises that catch their errors
AllSettled(r) == CallsOf(r) = {}

Answer(r) ==
    /\ ~Idle(r) /\ AllSettled(r)
    /\ batch' = [batch EXCEPT ![r] = "idle"]
    /\ UNCHANGED <<mode, listed, job, calls, suspect>>

-----------------------------------------------------------------------------
(* The calls.                                                              *)

\* The document after findByIdAndUpdate of updateEnabled and updateDisabledReason, or delete
Patched(do, old) ==
    CASE do = "enable" -> "on"
      [] do = "disable" -> IF old = "maintenance" THEN old ELSE "off"
      [] do = "maintain" -> "maintenance"
      [] do = "release" -> "on"
      [] do = "delete" -> "gone"

\* The database patches the document; one that is gone makes the call fail
Write(c) ==
    /\ c.do \in Patch /\ c.seen = "unwritten"
    /\ IF mode[c.printer] = "gone"
       THEN calls' = calls \ {c} /\ UNCHANGED mode
       ELSE LET new == Patched(c.do, mode[c.printer]) IN
            /\ mode' = [mode EXCEPT ![c.printer] = new]
            /\ calls' = (calls \ {c}) \cup {[c EXCEPT !.seen = new]}
    /\ UNCHANGED <<listed, job, batch, suspect>>

\* Its reply is there: the cache hears of the document
Publish(c) ==
    /\ c.do \in Patch /\ c.seen # "unwritten"
    /\ listed' = [listed EXCEPT ![c.printer] = c.seen]
    /\ calls' = calls \ {c}
    /\ suspect' = IF c.raced THEN suspect \cup {c.printer} ELSE suspect \ {c.printer}
    /\ UNCHANGED <<mode, job, batch>>

\* What OctoPrint makes of the commands of octoprint-api.routes
Executed(do, old) ==
    CASE old = "none" -> old
      [] do = "pause" -> "paused"
      [] do = "resume" -> "printing"
      [] do \in {"cancel", "disconnect"} -> "none"
      [] OTHER -> old

\* A command arrives and is answered, gets lost, or is executed after the call has failed by
\* its timeout
CommandEnds(c) ==
    /\ c.do \in Command
    /\ \/ job' = [job EXCEPT ![c.printer] = Executed(c.do, @)]
       \/ UNCHANGED job
    /\ calls' = calls \ {c}
    /\ UNCHANGED <<mode, listed, batch, suspect>>

\* Someone starts a print at the printer
PrintStarts(p) ==
    /\ job[p] = "none" /\ mode[p] # "gone"
    /\ job' = [job EXCEPT ![p] = "printing"]
    /\ UNCHANGED <<mode, listed, calls, batch, suspect>>

-----------------------------------------------------------------------------
CallsInit ==
    /\ mode \in [Printer -> Mode]
    /\ listed = mode
    /\ job = [p \in Printer |-> "none"]
    /\ calls = {} /\ batch = [r \in Request |-> "idle"]
    /\ suspect = {}

\* What changes printers, and the batches
PatchNext ==
    \/ \E r \in Request :
          \/ Answer(r)
          \/ \E ps \in SUBSET Printer \ {{}}, enabled \in BOOLEAN : Toggle(r, ps, enabled)
          \/ \E ids \in SetToSeqs(Printer) : ConnectUsb(r, ids)
          \/ \E p \in Printer, do \in Patch : Single(r, p, do)
    \/ \E c \in calls : Write(c) \/ Publish(c) \/ CommandEnds(c)

\* What changes jobs
CommandNext ==
    \/ \E r \in Request : Answer(r) \/ \E p \in Printer, do \in Command : Single(r, p, do)
    \/ \E c \in calls : CommandEnds(c)
    \/ \E p \in Printer : PrintStarts(p)

CallsNext == PatchNext \/ CommandNext

CallsSpec == CallsInit /\ [][CallsNext]_callVars

-----------------------------------------------------------------------------
(* Properties.                                                             *)

\* Enabling printers in a batch takes none out of maintenance ("If disabled, but not in
\* maintenance, enable the printer"), unless another change of that printer was under way
\* at the same time, or overlapping ones have left the cache wrong.
MaintenanceKept ==
    \A c \in calls :
        c.do = "enable" /\ c.seen = "unwritten" /\ batch[c.req] = "toggle" =>
            c.raced \/ c.printer \in suspect \/ mode[c.printer] # "maintenance"

\* A batch of patches that has answered has no effect any more, whatever of its calls
\* failed; only a batch of USB connections that met an unknown printer goes on.
AnsweredIsOver == \A c \in calls : Idle(c.req) => c.do = "connect"
=============================================================================
