SPECIFICATION Spec
CONSTANTS
    Procs = {p1, p2, p3}
    Images = {i1}
    SpareKeys = {s1}
    Paths = {}
    AliasIDs = {}
    Requests = {"upload", "visibility", "delete", "convert", "rebuild"}
    Faults = {"databaseError", "thumbnailError", "removeError", "fileLoss", "restart"}
    None = None
SYMMETRY Symmetry
INVARIANTS
    NoStaleTarget
    EveryRowIsServed
    PrivateIsNotServed
    RowsKeepTheirFile
PROPERTIES
    PublishesCurrentRows
