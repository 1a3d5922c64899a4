SPECIFICATION Spec
CONSTANTS
    Reconciler = Reconciler
    Shutdown = Shutdown
    Clients = {c1}
    MaxRuns = 2
    MaxRestarts = 1
    Autorestart = "unexpected"
    HealthCheck = TRUE
    CanWedge = FALSE
CONSTRAINTS CalmOrMeeting NotKilled NoClientInShutdown
INVARIANTS
    StopRequestedOpen
    HealthHasOwner
    OneLiveChild
    StoppedMeansNoChild
    CompletedIsLatestRun
PROPERTY KeepsLife
