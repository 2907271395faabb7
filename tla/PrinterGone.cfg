\* A printer is deleted while it is placed.
SPECIFICATION Spec
CONSTANTS
    Printer = {p1, p2}
    Floor = {f1}
    Place = {x1, x2}
    Request = {r1, r2}
    Operation = {"add", "deletePrinter"}
    MaxGiven = 0
    None = None
SYMMETRY Symmetry
INVARIANTS
    PrinterExists
