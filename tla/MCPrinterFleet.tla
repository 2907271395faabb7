---------------------------- MODULE MCPrinterFleet ----------------------------
(* Symmetric instances of PrinterFleet for TLC: every action treats printers, *)
(* requests and logins alike, and the properties are invariants.              *)
EXTENDS PrinterFleet, TLC

Symmetry == Permutations(Printer) \cup Permutations(Request) \cup Permutations(Login)
=============================================================================
