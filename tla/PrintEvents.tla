------------------------------ MODULE PrintEvents ------------------------------
(***************************************************************************)
(* What becomes of the messages of the printers' sockets: the latest of    *)
(* each kind is kept (PrinterEventsCache), and the ends of prints should   *)
(* be recorded (PrintCompletionSocketIoTask).                              *)
(*                                                                         *)
(* The task listens for (octoPrintEvent, data), but the adapter emits one  *)
(* object: handleMessage returns at its first condition, so nothing beyond *)
(* it is modelled.                                                         *)
(***************************************************************************)
EXTENDS Actors, Sequences

VARIABLES
    printers,       \* printers that are not deleted
    lastEvents,     \* lastEvents[p]: what the events cache has of p
    recorded,       \* printers with an end of a print in the collection of completions
    ended,          \* history: printers of which the end of a print was handled
    stray           \* history: printers that a message came of after their deletion

printVars == <<printers, lastEvents, recorded, ended, stray>>

Labels == {"current", "event"}    \* likewise history and timelapse, plugin

PrintEventsTypeOK ==
    /\ printers \subseteq Printer
    /\ lastEvents \in [Printer -> (SUBSET Labels) \cup {None}]
    /\ recorded \subseteq ended /\ ended \subseteq Printer
    /\ stray \subseteq Printer

-----------------------------------------------------------------------------
(* The events cache.  Its awaits are of values at hand: nothing comes      *)
(* between them.                                                           *)

\* getOrCreateEvents, setEvent, setSubEvent
Noted(entry, label) == (IF entry = None THEN {} ELSE entry) \cup {label}

\* onPrinterSocketMessage; a socket that is being closed still delivers, and so does its
\* close event
CacheEvent(p, label) ==
    /\ lastEvents' = [lastEvents EXCEPT ![p] = Noted(@, label)]
    /\ stray' = stray \cup ({p} \ printers)

\* A message that is not about the end of a print
OtherMessage(p, label) ==
    /\ CacheEvent(p, label)
    /\ UNCHANGED <<printers, recorded, ended>>

\* Variant: handlePrintersDeleted is not subscribed
NoneForgotten(ps) == {}

\* deleteKeysBatch
Forgotten(ps) == ps

\* handlePrintersDeleted
PrintersDeleted(ps) ==
    /\ ps # {} /\ ps \subseteq printers
    /\ printers' = printers \ ps
    /\ lastEvents' = [p \in Printer |-> IF p \in Forgotten(ps) THEN None ELSE lastEvents[p]]
    /\ UNCHANGED <<recorded, ended, stray>>

-----------------------------------------------------------------------------
(* The records of prints.                                                  *)

\* emitEvent: one object, with the event's name, its payload and the printer
Emitted == <<"object">>

\* handleMessage: octoPrintEvent, the listener's first argument, must be the name "event"
Accepted(arguments) == Head(arguments) = "event"

\* PrintDone, PrintFailed: the message reaches both subscribers
PrintEnds(p) ==
    /\ CacheEvent(p, "event")
    /\ ended' = ended \cup {p}
    /\ recorded' = IF Accepted(Emitted) THEN recorded \cup {p} ELSE recorded
    /\ UNCHANGED printers

\* The memory is lost
PrintsRestart ==
    /\ lastEvents' = [p \in Printer |-> None]
    /\ stray' = {}
    /\ UNCHANGED <<printers, recorded, ended>>

-----------------------------------------------------------------------------
PrintEventsInit ==
    /\ printers = Printer
    /\ lastEvents = [p \in Printer |-> None]
    /\ recorded = {} /\ ended = {} /\ stray = {}

PrintEventsNext ==
    \/ \E p \in Printer : PrintEnds(p) \/ \E label \in Labels : OtherMessage(p, label)
    \/ \E ps \in SUBSET Printer : PrintersDeleted(ps)
    \/ PrintsRestart

PrintEventsSpec == PrintEventsInit /\ [][PrintEventsNext]_printVars

-----------------------------------------------------------------------------
(* Properties.                                                             *)

\* The cache has nothing of a deleted printer, in whatever order messages and deletions come,
\* unless its socket went on to deliver.
EventsOfPrinters == \A p \in Printer \ (printers \cup stray) : lastEvents[p] = None

\* "Printer completion/failure tracking": of every printer whose print was reported to have
\* ended, an end is recorded.
PrintsTracked == ended \subseteq recorded
=============================================================================
