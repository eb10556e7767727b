SPECIFICATION Spec
CONSTANTS
  Writers = {w1, w2}
  Values = {v1, v2}
  None = None
  MaxWrites = 3
  MaxFailures = 2
INVARIANT FilesAreWhole
PROPERTY BackupIsPrevious
PROPERTY ImplementsRegister
