\* Faults and operator reconnects, overlapping reconnect runs, prompt closing.
SPECIFICATION FairSpec
CONSTANTS
    Printer = {p1}
    Adapter = {a1}
    Conn = {c1, c2}
    Run = {r1, r2}
    Disturbance = {"reconnect", "httpFault", "wsFault"}
    MaxDisturb = 3
    PromptClose = TRUE
    None = None
INVARIANTS
    NoLeakedConnection
PROPERTIES
    FaultRecovery
