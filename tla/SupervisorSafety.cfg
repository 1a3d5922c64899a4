SPECIFICATION Spec
CONSTANTS
    web = web
    app = app
    db = db
    None = None
    Programs = {app, db}
    Order <- PairOrder
    Tier <- PairTier
    DependsOn <- PairHealthy
    Autorestart <- PairPolicy
    HealthChecked = {db}
    c1 = c1
    Clients = {c1}
    MaxOps = 1
INVARIANTS
    DependenciesCameFirst
    
    
PROPERTY ActionsDoNotOverlap
