\* Everything the environment can do, closing events as late as they like.
SPECIFICATION FairSpec
CONSTANTS
    Printer = {p1}
    Adapter = {a1, a2}
    Conn = {c1, c2, c3}
    Run = {r1}
    Disturbance = {"save", "drop", "reconnect", "reauth", "httpFault", "wsFault"}
    MaxDisturb = 3
    PromptClose = FALSE
    None = None
INVARIANTS
    TypeOK
    AttachedIsLive
    StatesAgree
PROPERTIES
    OneSocketAtATime
    RunEnds
    NeverForgotten
