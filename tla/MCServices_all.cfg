\* Requests one character away from a good one, and uris of two characters, one
\* connection; two connections with plain requests; four work items.
SPECIFICATION ServicesSpec
CONSTANTS
    Files <- MCFiles
    Connections = {1, 2}
    Sent <- MCSent
    Requests <- MCRequests
    Chunks = {5}
    MaxScheduled = 4
INVARIANTS ConnectionsAccounted RepliesMatch
PROPERTIES ServerStops ScheduledWorkRuns
