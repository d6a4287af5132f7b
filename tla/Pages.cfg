\* Migration images, settings, aliases and tokens, dialogs.
SPECIFICATION TabSpec
CONSTANTS
    NoData = NoData
    a = a
    b = b
    Paths = {a, b}
    Filters = {"all", "some"}
    Matches <- MCMatches
    SelectionLimit = 2
    MutationsEnabled = TRUE
    MaxAbandoned = 1
    Kinds = {"visibility", "processing", "profile", "password"}
    Visibilities = {"public", "private"}
    Profiles = {"admin", "owner"}
    Raws = {"", "0", "1", "2"}
    Number <- MCNumber
    MinLevel = 0
    MaxLevel = 1
    Labels = {"name"}
    MaxRecords = 2
    Dialogs = {"navigation", "search", "confirm"}
    Triggers = {"button"}
INVARIANTS
    MigrationListIsTrue
    SettingsAreCurrent
    ListShowsWhatIsConfirmed
    ModalsAreSound
PROPERTIES
    OnlyConfirmedAreDeleted
    EditsSurvive
\* Nothing happens on a page nobody uses.
CHECK_DEADLOCK FALSE
