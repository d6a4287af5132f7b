SPECIFICATION Spec
CONSTANTS
    Procs = {p1, p2}
    Images = {i1, i2}
    SpareKeys = {}
    Paths = {q1}
    AliasIDs = {a1, a2}
    Requests = {"import"}
    Faults = {}
    None = None
INVARIANTS
    ImportPublishesAtOnce
