\* Everything clients can do, two requests at once.
SPECIFICATION Spec
CONSTANTS
    Printer = {p1, p2}
    Floor = {f1, f2}
    Place = {x1, x2}
    Request = {r1, r2}
    Operation = {"add", "text", "remove", "rename", "create", "delete", "get", "deletePrinter", "deleteAllPrinters", "restart"}
    MaxGiven = 2
    None = None
SYMMETRY Symmetry
CONSTRAINT Followed
INVARIANTS
    TypeOK
    
    PlacesAreUnique
    NoOrphans
    IndexIsOwn
