SPECIFICATION SessionSpec
CONSTANTS
    Names = {a, b}
    None = None
    Absent = Absent
    MaxWorkers = 1
    MaxOps = 1
    MaxReconciles = 2
    MaxTroubles = 1
    Themes = {dark, light}
    DefaultTheme = dark
    Unset = Unset
    Garbage = Garbage
    Found = {Unset, Garbage}
    MaxPicks = 2
    MaxRestarts = 1
    MaxBeside = 0
CHECK_DEADLOCK FALSE
INVARIANTS
    OverviewIsTruthful
    ThemeIsKept
PROPERTIES
    ChangesComeToLight
