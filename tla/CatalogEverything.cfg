SPECIFICATION Spec
CONSTANTS
    Procs = {p1, p2}
    Images = {i1}
    SpareKeys = {s1}
    Paths = {q1}
    AliasIDs = {a1, a2}
    Requests = {"upload", "import", "visibility", "delete", "convert", "createAlias", "deleteAlias", "rebuild"}
    Faults = {"databaseError", "thumbnailError", "removeError", "fileLoss", "restart"}
    None = None
SYMMETRY Symmetry
INVARIANTS
    EveryAliasIsServed
    AliasHasTarget
