---------------------------- MODULE JobLifecycle ----------------------------
(* What a generation job promises its user, with no queue, outbox, worker or *)
(* crash: credits are held when it is submitted; it starts at most once; it  *)
(* ends once, either delivered and paid for, or not delivered and given back *)
(* in full.  Generation.tla (repo.ts, pipeline.ts, the dispatcher and the    *)
(* administrator's repairs) implements this module.                          *)

VARIABLES
    status,                       \* of the job, as the user sees it
    credits,                      \* "none", "held", "paid" or "refunded"
    delivered                     \* the user has the result

lifecycleVars == <<status, credits, delivered>>

LifecycleInit == status = "NONE" /\ credits = "none" /\ delivered = FALSE

Submit ==
    /\ status = "NONE"
    /\ status' = "QUEUED" /\ credits' = "held"
    /\ UNCHANGED delivered

Start ==
    /\ status = "QUEUED"
    /\ status' = "RUNNING"
    /\ UNCHANGED <<credits, delivered>>

(* A job may end before it was seen running: a worker that was cut off may   *)
(* still finish, and a QUEUED job can be cancelled.                          *)
Deliver ==
    /\ status = "RUNNING" /\ credits = "held"
    /\ status' = "SUCCEEDED" /\ credits' = "paid" /\ delivered' = TRUE

GiveBack ==
    /\ status \in {"QUEUED", "RUNNING"} /\ credits = "held"
    /\ status' \in {"FAILED", "CANCELED"} /\ credits' = "refunded"
    /\ UNCHANGED delivered

LifecycleNext == Submit \/ Start \/ Deliver \/ GiveBack

LifecycleSpec == LifecycleInit /\ [][LifecycleNext]_lifecycleVars
=============================================================================
