\* The end of a print is reported by a printer's socket.
SPECIFICATION PrintEventsSpec
CONSTANTS
    None = None
    Printer = {p1, p2}
    Request = {}
INVARIANTS
    PrintsTracked
