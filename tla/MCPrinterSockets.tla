-------------------------- MODULE MCPrinterSockets --------------------------
(* Instances of PrinterSockets for TLC. *)
EXTENDS PrinterSockets, TLC

Symmetry == Permutations(Printer) \cup Permutations(Adapter)
                \cup Permutations(Conn) \cup Permutations(Run)

=============================================================================
