------------------------------- MODULE MCPrinters -------------------------------
(***************************************************************************)
(* What is kept per printer, and the requests about single printers: their *)
(* files, uploads, messages, connection tests, switches and commands.      *)
(* They share no state: `part` says which of them moves, the others stay.  *)
(***************************************************************************)
EXTENDS PrinterFiles, PrintEvents, ConnectionTests, PrinterCalls

VARIABLE part

\* One state of the parts that may start in several
FilesAtRest == FilesInit /\ \A p \in Printer : fileDb[p] = <<>>
CallsAtRest == CallsInit /\ \A p \in Printer : mode[p] = "on"

\* Uploads are checked apart from the other changes of the files, the patches of printers
\* apart from the commands to their jobs
AllInit ==
    /\ part \in {"files", "uploads", "prints", "tests", "patches", "commands"}
    /\ PrintEventsInit /\ TestsInit
    /\ IF part = "files" THEN FilesInit ELSE FilesAtRest
    /\ IF part = "patches" THEN CallsInit ELSE CallsAtRest

AllNext ==
    \/ part \in {"files", "uploads"} /\ FilesNext /\ UNCHANGED <<part, printVars, testVars, callVars>>
    \/ part = "prints" /\ PrintEventsNext /\ UNCHANGED <<part, fileVars, testVars, callVars>>
    \/ part = "tests" /\ TestsNext /\ UNCHANGED <<part, fileVars, printVars, callVars>>
    \/ /\ \/ part = "patches" /\ PatchNext
          \/ part = "commands" /\ CommandNext
       /\ UNCHANGED <<part, fileVars, printVars, testVars>>

AllSpec == AllInit /\ [][AllNext]_<<part, fileVars, printVars, testVars, callVars>>

\* The state of every part is well-typed.
AllTypeOK == FilesTypeOK /\ PrintEventsTypeOK /\ TestsTypeOK /\ CallsTypeOK

\* Histories of which all that is interesting has happened are not followed further; changes
\* of several lists are followed without uploads, uploads for one printer
Bounded ==
    /\ fileSuspect # Printer
    /\ part = "files" => \A t \in Token : uploads[t].at = "unused"
    /\ part = "uploads" => \E p \in Printer : \A q \in Printer \ {p} :
          fileDb[q] = <<>> /\ fileCache[q] = <<>>

Symmetric == Permutations(Request) \cup Permutations(Printer)
=============================================================================
