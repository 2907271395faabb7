SPECIFICATION AllSpec
CONSTANTS
    None = None
    Printer = {p1, p2}
    Request = {r1, r2}
    File = {f1}
    Old = {f1}
    Listing = Listing
    Token = {t1}
SYMMETRY Symmetric
CONSTRAINT Bounded
INVARIANTS AllTypeOK FilesAgree NothingLost UploadsHeard EventsOfPrinters LoneTestIsOwn MaintenanceKept
CHECK_DEADLOCK FALSE
