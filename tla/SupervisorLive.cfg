SPECIFICATION FairSpec
CONSTANTS
    web = web
    app = app
    db = db
    None = None
    Programs = {app, db}
    Order <- PairOrder
    Tier <- PairTier
    DependsOn <- PairCompleted
    Autorestart <- OneOffPolicy
    HealthChecked = {}
    c1 = c1
    Clients = {c1}
    MaxOps = 1
PROPERTIES
    WantedIsStarted
    
    ShutdownEnds
