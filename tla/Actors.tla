-------------------------------- MODULE Actors --------------------------------
(***************************************************************************)
(* What the modules of the server's data have in common: the printers, and *)
(* the HTTP requests and task runs that may be under way at once.  Between *)
(* two awaits a handler runs alone; at every await others may run.         *)
(***************************************************************************)
CONSTANTS
    Printer,    \* ids of printers
    Request,    \* requests and runs of tasks that may be under way at once
    None        \* nothing

ASSUME NoneIsOther == None \notin Printer \cup Request
=============================================================================
