SPECIFICATION FairSpec
CONSTANTS
    Reconciler = Reconciler
    Shutdown = Shutdown
    Clients = {}
    MaxRuns = 1
    MaxRestarts = 0
    Autorestart = "never"
    HealthCheck = TRUE
    CanWedge = TRUE
PROPERTIES
    StopReturns
    ExitIsSettled
