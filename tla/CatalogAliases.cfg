SPECIFICATION Spec
CONSTANTS
    Procs = {p1, p2, p3}
    Images = {i1, i2}
    SpareKeys = {}
    Paths = {q1}
    AliasIDs = {a1, a2}
    Requests = {"upload", "import", "delete", "createAlias", "deleteAlias", "rebuild"}
    Faults = {}
    None = None
SYMMETRY Symmetry
INVARIANTS
    NoStaleAlias
    NoDeadlock
