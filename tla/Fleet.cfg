\* Two requests, overlapping or not, two printers, two logins.
SPECIFICATION Spec
CONSTANTS
    Printer = {p1, p2}
    Request = {r1, r2}
    Login = {l1, l2}
    None = None
SYMMETRY Symmetry
INVARIANTS
    TypeOK
    SocketsFollowCache
    CacheIsDb
