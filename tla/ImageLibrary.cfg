\* Lists and detail pages, the filter form, the browser's history.
SPECIFICATION TabSpec
CONSTANTS
    NoData = NoData
    Blank = Blank
    None = None
    Images = {1, 2}
    Filters = {"all", "public"}
    PageSize = 1
    SelectionLimit = 1
    MaxMutations = 2
    Tenths = {0, 1, 3, 25}
    Bytes = {1, 52428, 52429, 1048577}
    LocalDays = {10, 11}
    Zones <- MCZones
    MaxEntries = 4
    ScrollLimit = 2
    TotalImages = 2
INVARIANTS
    ConfirmedChangesAreShown
    DeletionIsAsShown
    FormStandsForAddress
    RestorationProceeds
PROPERTIES
    DeletionReturnsToLibrary
\* An empty library leaves nothing to do.
CHECK_DEADLOCK FALSE
