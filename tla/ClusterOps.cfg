SPECIFICATION Spec
CONSTANTS
    alpha = alpha
    beta = beta
    Clusters = {alpha, beta}
    NoCluster = NoCluster
    Nothing = Nothing
    Own = Own
    OwnData = OwnData
    MaxOps = 2
    MaxRestarts = 1
    MaxOutside = 1
INVARIANTS
    RunningOpIsCancellable
    RecordsComeFromCompletedPlans
    CurrentHasEntry
    OkMeansDone
    StoredSpecUntouched
    CleanupOnlyWhenGone
    EditsAreExact
CHECK_DEADLOCK FALSE
