\* A re-authentication request and an operator reconnect; no fault at all.
SPECIFICATION FairSpec
CONSTANTS
    Printer = {p1}
    Adapter = {a1}
    Conn = {c1, c2}
    Run = {r1}
    Disturbance = {"reauth", "reconnect"}
    MaxDisturb = 3
    PromptClose = TRUE
    None = None
PROPERTIES
    ReconnectPicksUp
