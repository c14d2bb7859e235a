\* Two releases, one installed; two core processes; two crashes are answered.
SPECIFICATION Spec
CONSTANTS
    Releases = {r1, r2}
    NoRelease = NoRelease
    First = r1
    NoMarker = NoMarker
    Cores = {g1, g2}
    NoCore = NoCore
    Budget = 2
    DiskMayFail = TRUE
INVARIANTS NoStrayCore SwitchedAtRest ReadyIsTrue
PROPERTIES DriftsOnlyWhenOvertaken UnprovenOnlyByOverlap OperationsEnd CrashIsAnswered
