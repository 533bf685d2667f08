\* Two crashes anywhere, of processes and of the machine, with and without reused logs.
SPECIFICATION Spec
CONSTANTS
    Settings <- Crashes
    MaxWrites = 3
    MaxCrashes = 2
INVARIANTS SurvivesUnlessFailed  NumbersFresh DirectoryExact
