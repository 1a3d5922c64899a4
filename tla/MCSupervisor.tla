---------------------------- MODULE MCSupervisor ----------------------------
(* Instances of Supervisor: a pair, and a chain of three. *)
EXTENDS Supervisor, TLC

CONSTANTS web, app, db

Needs(p, c) == <<[on |-> p, cond |-> c]>>

\* app waits for db, by priority the later of the two.
PairOrder == <<app, db>>
PairTier == (db :> 0) @@ (app :> 1)
PairHealthy == (db :> <<>>) @@ (app :> Needs(db, "healthy"))
PairCompleted == (db :> <<>>) @@ (app :> Needs(db, "completed"))

PairPolicy == (db :> "always") @@ (app :> "unexpected")
OneOffPolicy == (db :> "never") @@ (app :> "unexpected")

ChainOrder == <<web, app, db>>
ChainTier == (db :> 0) @@ (app :> 1) @@ (web :> 2)
ChainPolicy == [p \in Programs |-> "always"]
Chain == (db :> <<>>) @@ (app :> Needs(db, "started")) @@ (web :> Needs(app, "started"))
=============================================================================
