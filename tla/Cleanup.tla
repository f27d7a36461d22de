------------------------------- MODULE Cleanup -------------------------------
(* The worker's resource cleanup: instances that take a lock in Redis and    *)
(* delete the objects and the rows of assets past their retention, while the *)
(* pipeline stores new ones and the worker's storage is replaced.            *)
(*                                                                           *)
(* Storages: what WorkerResources.storage is, one after the other; "none" is *)
(* the storage of a configuration that is not complete.                      *)
EXTENDS Naturals, Sequences

CONSTANTS Instances, Assets, Storages, MaxCleanupFaults

ASSUME CleanupAssumption ==
    /\ Storages \in Seq(STRING) /\ Storages # <<>>
    /\ "free" \notin Instances
    /\ MaxCleanupFaults \in Nat

VARIABLES
    storageAt,      \* the worker's storage is Storages[storageAt]
    asset,          \* job, object (the storage that has it, or "gone") and row
    cleanupLock,    \* who holds enova:cleanup:lock, or "free"
    cleaner,        \* runCleanup of each instance
    cleanupFaults

cleanupVars == <<storageAt, asset, cleanupLock, cleaner, cleanupFaults>>

NoRun == [at |-> "idle"]
NoAsset == [job |-> "RUNNING", object |-> "gone", row |-> "never", expired |-> FALSE, storedAt |-> 0]

CleanupInit ==
    /\ storageAt = 1
    /\ asset = [a \in Assets |-> NoAsset]
    /\ cleanupLock = "free"
    /\ cleaner = [i \in Instances |-> NoRun]
    /\ cleanupFaults = 0

-----------------------------------------------------------------------------
(* Around the cleanup.                                                       *)

(* The pipeline stores an object and, if the job is still RUNNING then,      *)
(* inserts the row in the transaction that makes it SUCCEEDED.               *)
Ingest(a) ==
    /\ asset[a] = NoAsset /\ Storages[storageAt] # "none"
    /\ \E job \in {"SUCCEEDED", "FAILED", "CANCELED"} :
          asset' = [asset EXCEPT ![a] =
              [job |-> job, object |-> Storages[storageAt],
               row |-> IF job = "SUCCEEDED" THEN "there" ELSE "never",
               expired |-> FALSE, storedAt |-> storageAt]]
    /\ UNCHANGED <<storageAt, cleanupLock, cleaner, cleanupFaults>>

(* Days pass: no run lasts from before the upload until then.                *)
Expires(a) ==
    /\ asset[a].row = "there" /\ ~asset[a].expired
    /\ \A i \in Instances : cleaner[i] # NoRun => cleaner[i].storage >= asset[a].storedAt
    /\ asset' = [asset EXCEPT ![a].expired = TRUE]
    /\ UNCHANGED <<storageAt, cleanupLock, cleaner, cleanupFaults>>

ReplaceStorage ==
    /\ storageAt < Len(Storages) /\ storageAt' = storageAt + 1
    /\ UNCHANGED <<asset, cleanupLock, cleaner, cleanupFaults>>

-----------------------------------------------------------------------------
(* A cycle.                                                                  *)

Turns(i, run) == cleaner' = [cleaner EXCEPT ![i] = run]

(* SET NX with a token of its own; the storage is fetched before the rows    *)
(* are.                                                                      *)
CleanupCycle(phase, renewed) == [at |-> "select", phase |-> phase, storage |-> storageAt, renewed |-> renewed]
AcquireLock(i) ==
    /\ cleaner[i] = NoRun /\ cleanupLock = "free"
    /\ cleanupLock' = i
    /\ Turns(i, CleanupCycle("expired", TRUE))
    /\ UNCHANGED <<storageAt, asset, cleanupFaults>>

Due(phase) ==
    {a \in Assets : /\ asset[a].row = "there"
                    /\ \/ phase = "expired" /\ asset[a].expired
                       \/ phase = "orphaned" /\ asset[a].job \in {"FAILED", "CANCELED"}}

(* The rows that are due: those of some workspaces (the query takes a batch  *)
(* of them, those whose retention can not be read are skipped).              *)
SelectRows(i) ==
    /\ cleaner[i].at = "select"
    /\ \E rows \in SUBSET Due(cleaner[i].phase) :
          Turns(i, [at |-> "delete", phase |-> cleaner[i].phase, storage |-> cleaner[i].storage,
                    renewed |-> cleaner[i].renewed, rows |-> rows, deleted |-> "none"])
    /\ UNCHANGED <<storageAt, asset, cleanupLock, cleanupFaults>>

(* safeDeleteAsset: the object first.  Deleting what the storage does not    *)
(* have is a success; after an error the row is left for the next cycle.     *)
ObjectAfterDelete(a, i) ==
    IF asset[a].object = Storages[cleaner[i].storage] THEN "gone" ELSE asset[a].object
AfterError_GoesOn(i, a) == Turns(i, [cleaner[i] EXCEPT !.deleted = a])
AfterError(i, a) == Turns(i, [cleaner[i] EXCEPT !.rows = @ \ {a}])
DeleteObject(i) ==
    /\ cleaner[i].at = "delete" /\ cleaner[i].deleted = "none"
    /\ \E a \in cleaner[i].rows :
          \/ /\ asset' = [asset EXCEPT ![a].object = ObjectAfterDelete(a, i)]
             /\ Turns(i, [cleaner[i] EXCEPT !.deleted = a])
          \/ AfterError(i, a) /\ UNCHANGED asset
    /\ UNCHANGED <<storageAt, cleanupLock, cleanupFaults>>

DeleteRow(i) ==
    /\ cleaner[i].at = "delete" /\ cleaner[i].deleted # "none"
    /\ \/ asset' = [asset EXCEPT ![cleaner[i].deleted].row = "gone"]
       \/ UNCHANGED asset
    /\ Turns(i, [cleaner[i] EXCEPT !.rows = @ \ {cleaner[i].deleted}, !.deleted = "none"])
    /\ UNCHANGED <<storageAt, cleanupLock, cleanupFaults>>

AllDone(i) == cleaner[i].at = "delete" /\ cleaner[i].rows = {}

CleanupOrphanedAssets(i) ==
    /\ AllDone(i) /\ cleaner[i].phase = "expired"
    /\ Turns(i, CleanupCycle("orphaned", cleaner[i].renewed))
    /\ UNCHANGED <<storageAt, asset, cleanupLock, cleanupFaults>>

(* releaseLock deletes the key when it holds the token of this run; also     *)
(* when the queries of a phase fail.                                         *)
LockAfterRelease_AnyToken(i) == "free"
LockAfterRelease(i) == IF cleanupLock = i THEN "free" ELSE cleanupLock
ReleaseLock(i) ==
    /\ cleaner[i].at = "select" \/ (AllDone(i) /\ cleaner[i].phase = "orphaned")
    /\ cleanupLock' = LockAfterRelease(i)
    /\ Turns(i, NoRun)
    /\ UNCHANGED <<storageAt, asset, cleanupFaults>>

-----------------------------------------------------------------------------
(* Faults.                                                                   *)

CleanupFault == cleanupFaults < MaxCleanupFaults /\ cleanupFaults' = cleanupFaults + 1

(* The worker dies, or Redis refuses the release: the lock is left to lapse. *)
CleanerDies(i) ==
    /\ cleaner[i] # NoRun /\ Turns(i, NoRun)
    /\ CleanupFault /\ UNCHANGED <<storageAt, asset, cleanupLock>>

(* Ten minutes without a renewal: the run that holds the lock has died, or   *)
(* its renewals failed.                                                      *)
LockLapses(i) ==
    /\ cleanupLock = i /\ cleanupLock' = "free"
    /\ \/ cleaner[i] = NoRun /\ UNCHANGED <<cleaner, cleanupFaults>>
       \/ cleaner[i] # NoRun /\ Turns(i, [cleaner[i] EXCEPT !.renewed = FALSE]) /\ CleanupFault
    /\ UNCHANGED <<storageAt, asset>>

CleanupNext ==
    \/ \E a \in Assets : Ingest(a) \/ Expires(a)
    \/ ReplaceStorage
    \/ \E i \in Instances :
          \/ AcquireLock(i) \/ SelectRows(i) \/ DeleteObject(i) \/ DeleteRow(i)
          \/ CleanupOrphanedAssets(i) \/ ReleaseLock(i)
          \/ CleanerDies(i) \/ LockLapses(i)

CleanupSpec == CleanupInit /\ [][CleanupNext]_cleanupVars

-----------------------------------------------------------------------------
(* Properties.                                                               *)

(* A row is only deleted when its object is, whichever step fails and        *)
(* however many instances clean at once; the objects left behind were stored *)
(* before the worker's storage was replaced                                  *)
(* (resource-cleanup.service.ts:251-300, 372-393).                           *)
LeftoversAreOfOldStorages ==
    \A a \in Assets : asset[a].row = "gone" /\ asset[a].object # "gone" =>
        asset[a].storedAt < storageAt

(* A run whose renewals arrive has the lock until it ends: no other run ends *)
(* it, neither one that lost the lock nor one that follows a crash           *)
(* (resource-cleanup.service.ts:122-178).                                    *)
RunsKeepTheirLock ==
    \A i \in Instances : cleaner[i] # NoRun /\ cleaner[i].renewed => cleanupLock = i
=============================================================================
