SPECIFICATION Spec
CONSTANTS
    alpha = alpha
    beta = beta
    Clusters = {alpha, beta}
    NoCluster = NoCluster
    Nothing = Nothing
    Own = Own
    OwnData = OwnData
    MaxOps = 2
    MaxRestarts = 0
    MaxOutside = 0
PROPERTIES
    ExportTouchesOnlyItsContext
CHECK_DEADLOCK FALSE
