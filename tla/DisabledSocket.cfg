\* The operator disables or deletes printers; no fault at all.
SPECIFICATION Spec
CONSTANTS
    Printer = {p1}
    Adapter = {a1}
    Conn = {c1, c2}
    Run = {r1}
    Disturbance = {"drop"}
    MaxDisturb = 3
    PromptClose = TRUE
    None = None
SYMMETRY Symmetry
INVARIANTS
    DisabledHasNoSocket
