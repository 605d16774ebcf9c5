SPECIFICATION Spec
CONSTANTS
    Procs = {p1, p2}
    Main = p1
    Reserved = "reserved"
    LegacyNames <- Two
    OwnNames = {}
    Contents = {"part"}
    NoFile = NoFile
    Builtin = {"index", "sector"}
    UserFolders = {"user"}
    Bundled = {"builtin"}
    Custom <- CustomNames
    Top = "top"
    Unset = "unset"
    DefaultParent <- Nested
    DefaultPlace <- Shown
    MaxDepth = 3
    Symbols = {"a", "b"}
    LastDay = 3
    FirstDay = 1
    ListDay <- Listing
    SplitDay <- Splits
    Providers <- TwoProviders
    Adjusting = {"yfinance"}
    Metered = {"tiingo"}
    MaxAttempts = 2
    UniverseIds <- AllNames
    Definitions = {"whole", "part"}
    Members <- Lists
    Starts = {1, 3}
    Ends = {0, 1}
    EdgeTolerance = 0
    Jobs = {1, 2}
    Absent = Absent
    Broken = Broken
    Asks = {1, 2}
    Lookback = 2
    Window = 3
    MinNames = 1
    MinCoverage = 90
    NoSnapshot = NoSnapshot
    Catalog = "whole"
    Budgets <- Mixes
INVARIANTS
    DataTypeOK
    HistoryIsOneSeries
    LegacyFileKept
    SnapshotsAreOfTheirDay
PROPERTIES
    DeletedFolderMovesUp
CHECK_DEADLOCK FALSE
