\* Writes go on after a failed append; the process dies.
SPECIFICATION Spec
CONSTANTS
    Settings <- FailedAppend
    MaxWrites = 2
    MaxCrashes = 1
INVARIANT AcknowledgedSurvive
