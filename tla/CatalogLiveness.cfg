SPECIFICATION FairSpec
CONSTANTS
    Procs = {p1, p2}
    Images = {i1}
    SpareKeys = {s1}
    Paths = {q1}
    AliasIDs = {a1}
    Requests = {"upload", "import", "visibility", "delete", "convert", "createAlias", "deleteAlias", "rebuild"}
    Faults = {}
    None = None
PROPERTIES
    RequestsReturn
