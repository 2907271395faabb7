\* Two printers are placed at once.
SPECIFICATION Spec
CONSTANTS
    Printer = {p1, p2}
    Floor = {f1}
    Place = {x1, x2}
    Request = {r1, r2}
    Operation = {"add"}
    MaxGiven = 0
    None = None
SYMMETRY Symmetry
INVARIANTS
    PositionTakenOnce
