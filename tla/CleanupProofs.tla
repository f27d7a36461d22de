---------------------------- MODULE CleanupProofs ----------------------------
(* The lock of the cleanup and what it leaves behind, for any number of      *)
(* instances, assets and storages.                                           *)
EXTENDS Cleanup, TLAPS

Phases == {"expired", "orphaned"}
Selecting == [at : {"select"}, phase : Phases, storage : Nat, renewed : BOOLEAN]
Deleting == [at : {"delete"}, phase : Phases, storage : Nat, renewed : BOOLEAN,
             rows : SUBSET Assets, deleted : Assets \cup {"none"}]
Runs == {NoRun} \cup Selecting \cup Deleting
Objects == {"gone"} \cup {Storages[k] : k \in 1..Len(Storages)}
AssetRecord == [job : {"RUNNING", "SUCCEEDED", "FAILED", "CANCELED"}, object : Objects,
                row : {"never", "there", "gone"}, expired : BOOLEAN, storedAt : Nat]

CleanupTypes ==
    /\ storageAt \in 1..Len(Storages)
    /\ asset \in [Assets -> AssetRecord]
    /\ cleaner \in [Instances -> Runs]

(* The object is gone, or the worker has another storage by now.             *)
Settled(a) == asset[a].object = "gone" \/ asset[a].storedAt < storageAt

(* Assets are where they were stored; a row that expired does so for runs    *)
(* that fetched the storage it was stored in, or a later one.                *)
AssetsInv ==
    \A a \in Assets :
        /\ asset[a].storedAt <= storageAt
        /\ asset[a].object \in {"gone", Storages[asset[a].storedAt]}
        /\ asset[a].row = "there" => asset[a].job = "SUCCEEDED"
        /\ asset[a].row = "gone" => Settled(a)
        /\ asset[a].expired => \A i \in Instances :
              cleaner[i] # NoRun => asset[a].storedAt <= cleaner[i].storage

(* Runs delete what has expired, and rows of objects they have deleted.      *)
RunsInv ==
    \A i \in Instances :
        /\ cleaner[i] # NoRun => cleaner[i].storage <= storageAt
        /\ cleaner[i] \in Deleting =>
              /\ \A a \in cleaner[i].rows : asset[a].expired
              /\ cleaner[i].deleted # "none" =>
                    asset[cleaner[i].deleted].expired /\ Settled(cleaner[i].deleted)

CleanupInv == CleanupTypes /\ RunsKeepTheirLock /\ AssetsInv /\ RunsInv

-----------------------------------------------------------------------------
(* The kinds of runs are told apart by what they do.                         *)
LEMMA KindsOfRuns ==
    /\ \A r \in Selecting : r.at = "select" /\ r # NoRun /\ r \notin Deleting
    /\ \A r \in Deleting : r.at = "delete" /\ r # NoRun /\ r \notin Selecting
    /\ NoRun.at = "idle" /\ NoRun \notin Selecting /\ NoRun \notin Deleting
BY DEF Selecting, Deleting, NoRun

LEMMA CleanupInitially == CleanupInit => CleanupInv
<1> SUFFICES ASSUME CleanupInit PROVE CleanupInv
    OBVIOUS
<1>1. Len(Storages) \in Nat \ {0}
    BY CleanupAssumption
<1>2. NoAsset \in AssetRecord
    BY DEF NoAsset, AssetRecord, Objects
<1>3. CleanupTypes
    BY <1>1, <1>2 DEF CleanupInit, CleanupTypes, Runs
<1>4. RunsKeepTheirLock /\ RunsInv
    BY KindsOfRuns DEF CleanupInit, RunsKeepTheirLock, RunsInv
<1>5. AssetsInv
    <2>1. storageAt = 1 /\ (\A a \in Assets : asset[a] = NoAsset) /\ (\A i \in Instances : cleaner[i] = NoRun)
        BY DEF CleanupInit
    <2>2. /\ NoAsset.storedAt = 0 /\ NoAsset.object = "gone" /\ NoAsset.row = "never"
          /\ NoAsset.expired = FALSE
        BY DEF NoAsset
    <2>3. QED
        BY <2>1, <2>2 DEF AssetsInv
<1>6. QED
    BY <1>3, <1>4, <1>5 DEF CleanupInv

-----------------------------------------------------------------------------
(* What a deletion does to an asset: its object or its row goes.             *)
Fades(a) ==
    /\ asset'[a].job = asset[a].job
    /\ asset'[a].storedAt = asset[a].storedAt
    /\ asset'[a].expired = asset[a].expired
    /\ asset'[a].object \in {"gone", asset[a].object}
    /\ asset'[a].row \in {"gone", asset[a].row}
    /\ asset'[a].row = "gone" => asset[a].row = "gone" \/ Settled(a)

(* A step of a cleaner: its run becomes next, assets fade or stay.           *)
LEMMA CleanerSteps ==
    ASSUME CleanupInv, NEW i \in Instances, NEW next \in Runs, Turns(i, next), UNCHANGED storageAt,
           asset' \in [Assets -> AssetRecord], \A a \in Assets : Fades(a),
           next # NoRun => /\ \/ next.storage = storageAt
                              \/ cleaner[i] # NoRun /\ next.storage = cleaner[i].storage
                           /\ next.renewed => cleanupLock' = i,
           next \in Deleting =>
              /\ \A a \in next.rows : asset[a].expired
              /\ next.deleted # "none" => asset[next.deleted].expired /\ Settled(next.deleted)',
           \A j \in Instances \ {i} : cleanupLock = j => cleanupLock' = j
    PROVE  CleanupInv'
<1>1. cleaner' = [cleaner EXCEPT ![i] = next] /\ cleaner \in [Instances -> Runs]
    BY DEF Turns, CleanupInv, CleanupTypes
<1>2. cleaner'[i] = next /\ \A j \in Instances \ {i} : cleaner'[j] = cleaner[j]
    BY <1>1
<1>3. CleanupTypes'
    BY <1>1 DEF CleanupInv, CleanupTypes
<1>4. RunsKeepTheirLock'
    BY <1>2 DEF CleanupInv, RunsKeepTheirLock
<1>5. storageAt \in Nat /\ \A a \in Assets : asset[a].storedAt \in Nat
    BY DEF CleanupInv, CleanupTypes, AssetRecord
<1>6. \A a \in Assets : Settled(a) => Settled(a)'
    BY DEF Settled, Fades
<1>7. AssetsInv'
    <2>1. ASSUME NEW a \in Assets, asset[a].expired, NEW j \in Instances, cleaner'[j] # NoRun
          PROVE  asset[a].storedAt <= cleaner'[j].storage
        BY <1>2, <2>1 DEF CleanupInv, AssetsInv
    <2>2. ASSUME NEW a \in Assets
          PROVE  /\ asset'[a].storedAt <= storageAt'
                 /\ asset'[a].object \in {"gone", Storages[asset'[a].storedAt]}
                 /\ asset'[a].row = "there" => asset'[a].job = "SUCCEEDED"
                 /\ asset'[a].row = "gone" => Settled(a)'
        BY <1>6 DEF CleanupInv, AssetsInv, Fades
    <2>3. QED
        BY <2>1, <2>2 DEF AssetsInv, Fades
<1>8. RunsInv'
    <2>1. next # NoRun => next.storage <= storageAt
        BY <1>5 DEF CleanupInv, RunsInv
    <2>2. ASSUME NEW j \in Instances \ {i}, cleaner[j] \in Deleting
          PROVE  /\ \A a \in cleaner'[j].rows : asset'[a].expired
                 /\ cleaner'[j].deleted # "none" =>
                       asset'[cleaner'[j].deleted].expired /\ Settled(cleaner[j].deleted)'
        <3>1. cleaner[j].rows \subseteq Assets /\ (cleaner[j].deleted # "none" => cleaner[j].deleted \in Assets)
            BY <2>2 DEF Deleting
        <3>2. /\ \A a \in cleaner[j].rows : asset[a].expired
              /\ cleaner[j].deleted # "none" => asset[cleaner[j].deleted].expired /\ Settled(cleaner[j].deleted)
            BY <2>2 DEF CleanupInv, RunsInv
        <3>3. \A a \in Assets : asset'[a].expired = asset[a].expired
            BY DEF Fades
        <3>4. QED
            BY <1>2, <1>6, <3>1, <3>2, <3>3 DEF Settled
    <2>3. ASSUME next \in Deleting
          PROVE  /\ \A a \in next.rows : asset'[a].expired
                 /\ next.deleted # "none" => asset'[next.deleted].expired /\ Settled(next.deleted)'
        <3>1. next.rows \subseteq Assets /\ (next.deleted # "none" => next.deleted \in Assets)
            BY <2>3 DEF Deleting
        <3>2. \A a \in Assets : asset'[a].expired = asset[a].expired
            BY DEF Fades
        <3>3. \A a \in next.rows : asset[a].expired
            BY <2>3
        <3>4. next.deleted # "none" => asset[next.deleted].expired /\ Settled(next.deleted)'
            BY <2>3
        <3>5. QED
            BY <3>1, <3>2, <3>3, <3>4
    <2>4. QED
        BY <1>2, <2>1, <2>2, <2>3 DEF CleanupInv, RunsInv, Settled
<1>9. QED
    BY <1>3, <1>4, <1>7, <1>8 DEF CleanupInv

(* As above, and the assets stay.                                            *)
LEMMA NothingFades ==
    ASSUME CleanupInv, UNCHANGED asset
    PROVE  asset' \in [Assets -> AssetRecord] /\ \A a \in Assets : Fades(a) /\ (Settled(a) /\ UNCHANGED storageAt => Settled(a)')
BY DEF CleanupInv, CleanupTypes, Fades, Settled

-----------------------------------------------------------------------------
(* Around the cleanup.                                                       *)

LEMMA IngestKeepsInv ==
    ASSUME CleanupInv, NEW a \in Assets, Ingest(a)
    PROVE  CleanupInv'
<1>1. PICK job \in {"SUCCEEDED", "FAILED", "CANCELED"} :
          asset' = [asset EXCEPT ![a] =
              [job |-> job, object |-> Storages[storageAt],
               row |-> IF job = "SUCCEEDED" THEN "there" ELSE "never",
               expired |-> FALSE, storedAt |-> storageAt]]
    BY DEF Ingest
<1>2. UNCHANGED <<storageAt, cleaner, cleanupLock>> /\ asset[a] = NoAsset
    BY DEF Ingest
<1>3. storageAt \in 1..Len(Storages) /\ asset \in [Assets -> AssetRecord] /\ storageAt \in Nat
    BY DEF CleanupInv, CleanupTypes
<1>4. Storages[storageAt] \in Objects
    BY <1>3 DEF Objects
<1>5. asset'[a] = [job |-> job, object |-> Storages[storageAt],
                   row |-> IF job = "SUCCEEDED" THEN "there" ELSE "never",
                   expired |-> FALSE, storedAt |-> storageAt]
    BY <1>1, <1>3
<1>6. asset'[a] \in AssetRecord
    BY <1>3, <1>4, <1>5 DEF AssetRecord
<1>7. \A b \in Assets \ {a} : asset'[b] = asset[b]
    BY <1>1, <1>3
<1>8. CleanupTypes' /\ RunsKeepTheirLock'
    BY <1>1, <1>2, <1>3, <1>6, <1>7 DEF CleanupInv, CleanupTypes, RunsKeepTheirLock
<1>9. AssetsInv'
    BY <1>2, <1>3, <1>5, <1>7 DEF CleanupInv, AssetsInv, Settled
<1>10. ~asset[a].expired
    BY <1>2 DEF NoAsset
<1>11. RunsInv'
    BY <1>2, <1>7, <1>10 DEF CleanupInv, RunsInv, Deleting, Settled
<1>12. QED
    BY <1>8, <1>9, <1>11 DEF CleanupInv

LEMMA ExpiryKeepsInv ==
    ASSUME CleanupInv, NEW a \in Assets, Expires(a)
    PROVE  CleanupInv'
<1>1. /\ asset' = [asset EXCEPT ![a].expired = TRUE] /\ asset \in [Assets -> AssetRecord]
      /\ UNCHANGED <<storageAt, cleaner, cleanupLock>>
      /\ \A i \in Instances : cleaner[i] # NoRun => asset[a].storedAt <= cleaner[i].storage
    <2>1. \A i \in Instances : cleaner[i] \in Selecting \cup Deleting \/ cleaner[i] = NoRun
        BY DEF CleanupInv, CleanupTypes, Runs
    <2>2. \A i \in Instances : cleaner[i] # NoRun => cleaner[i].storage \in Nat
        BY <2>1 DEF Selecting, Deleting
    <2>3. QED
        BY <2>2 DEF Expires, CleanupInv, CleanupTypes, AssetRecord
<1>2. \A b \in Assets :
          /\ asset'[b] \in AssetRecord
          /\ asset'[b].job = asset[b].job /\ asset'[b].object = asset[b].object
          /\ asset'[b].row = asset[b].row /\ asset'[b].storedAt = asset[b].storedAt
          /\ asset[b].expired => asset'[b].expired
          /\ b # a => asset'[b] = asset[b]
    BY <1>1 DEF AssetRecord
<1>3. CleanupTypes' /\ RunsKeepTheirLock'
    BY <1>1, <1>2 DEF CleanupInv, CleanupTypes, RunsKeepTheirLock
<1>4. AssetsInv'
    BY <1>1, <1>2 DEF CleanupInv, AssetsInv, Settled
<1>5. RunsInv'
    BY <1>1, <1>2 DEF CleanupInv, RunsInv, Deleting, Settled
<1>6. QED
    BY <1>3, <1>4, <1>5 DEF CleanupInv

LEMMA ReplacementKeepsInv ==
    ASSUME CleanupInv, ReplaceStorage
    PROVE  CleanupInv'
<1>1. /\ storageAt' \in 1..Len(Storages) /\ storageAt \in Nat /\ storageAt' = storageAt + 1
      /\ UNCHANGED <<asset, cleaner, cleanupLock>>
    BY CleanupAssumption DEF ReplaceStorage, CleanupInv, CleanupTypes
<1>2. \A a \in Assets : asset[a].storedAt \in Nat
    BY DEF CleanupInv, CleanupTypes, AssetRecord
<1>3. \A i \in Instances : cleaner[i] # NoRun => cleaner[i].storage \in Nat
    BY DEF CleanupInv, CleanupTypes, Runs, Selecting, Deleting
<1>4. CleanupTypes' /\ RunsKeepTheirLock'
    BY <1>1 DEF CleanupInv, CleanupTypes, RunsKeepTheirLock
<1>5. \A a \in Assets : Settled(a) => Settled(a)'
    BY <1>1, <1>2 DEF Settled
<1>6. AssetsInv'
    BY <1>1, <1>2, <1>5 DEF CleanupInv, AssetsInv
<1>7. RunsInv'
    BY <1>1, <1>3, <1>5 DEF CleanupInv, RunsInv, Deleting
<1>8. QED
    BY <1>4, <1>6, <1>7 DEF CleanupInv

-----------------------------------------------------------------------------
(* The cycle.                                                                *)

LEMMA AcquireKeepsInv ==
    ASSUME CleanupInv, NEW i \in Instances, AcquireLock(i)
    PROVE  CleanupInv'
<1>1. storageAt \in Nat
    BY DEF CleanupInv, CleanupTypes
<1>2. CleanupCycle("expired", TRUE) \in Selecting
    BY <1>1 DEF CleanupCycle, Selecting, Phases
<1>3. CleanupCycle("expired", TRUE) \in Runs /\ CleanupCycle("expired", TRUE).storage = storageAt
      /\ CleanupCycle("expired", TRUE) \notin Deleting
    BY <1>2, KindsOfRuns DEF Runs, CleanupCycle
<1>4. \A j \in Instances \ {i} : cleanupLock # j
    BY CleanupAssumption DEF AcquireLock
<1>5. QED
    BY <1>3, <1>4, CleanerSteps, NothingFades DEF AcquireLock

LEMMA SelectKeepsInv ==
    ASSUME CleanupInv, NEW i \in Instances, SelectRows(i)
    PROVE  CleanupInv'
<1>1. cleaner[i] \in Selecting
    BY KindsOfRuns DEF SelectRows, CleanupInv, CleanupTypes, Runs
<1>2. PICK rows \in SUBSET Due(cleaner[i].phase) :
          Turns(i, [at |-> "delete", phase |-> cleaner[i].phase, storage |-> cleaner[i].storage,
                    renewed |-> cleaner[i].renewed, rows |-> rows, deleted |-> "none"])
    BY DEF SelectRows
<1>3. \A a \in rows : a \in Assets /\ asset[a].expired
    BY <1>2 DEF Due, CleanupInv, AssetsInv
<1>. DEFINE next == [at |-> "delete", phase |-> cleaner[i].phase, storage |-> cleaner[i].storage,
                     renewed |-> cleaner[i].renewed, rows |-> rows, deleted |-> "none"]
<1>4. next \in Deleting
    BY <1>1, <1>3 DEF Selecting, Deleting
<1>5. /\ next \in Runs /\ next.storage = cleaner[i].storage /\ cleaner[i] # NoRun
      /\ next.renewed => cleanupLock = i
      /\ next.rows = rows /\ next.deleted = "none"
    BY <1>1, <1>4, KindsOfRuns DEF Runs, CleanupInv, RunsKeepTheirLock
<1>6. Turns(i, next) /\ UNCHANGED <<storageAt, asset, cleanupLock>>
    BY <1>2 DEF SelectRows
<1>. HIDE DEF next
<1>7. QED
    BY <1>3, <1>5, <1>6, CleanerSteps, NothingFades

(* The asset that was selected has expired, and was stored where the run     *)
(* deletes, or before.                                                       *)
LEMMA SelectedHaveExpired ==
    ASSUME CleanupInv, NEW i \in Instances, cleaner[i] \in Deleting, NEW a \in cleaner[i].rows
    PROVE  /\ a \in Assets /\ asset[a].expired
           /\ asset[a].storedAt \in Nat /\ cleaner[i].storage \in Nat /\ storageAt \in Nat
           /\ asset[a].storedAt <= cleaner[i].storage /\ cleaner[i].storage <= storageAt
           /\ asset[a].object \in {"gone", Storages[asset[a].storedAt]}
<1>1. a \in Assets /\ asset[a].expired
    BY DEF Deleting, CleanupInv, RunsInv
<1>2. cleaner[i].storage \in Nat /\ asset[a].storedAt \in Nat /\ storageAt \in Nat
    BY <1>1 DEF Deleting, CleanupInv, CleanupTypes, AssetRecord
<1>3. QED
    BY <1>1, <1>2, KindsOfRuns DEF CleanupInv, AssetsInv, RunsInv

LEMMA DeleteObjectKeepsInv ==
    ASSUME CleanupInv, NEW i \in Instances, DeleteObject(i)
    PROVE  CleanupInv'
<1>1. cleaner[i] \in Deleting /\ cleaner[i] # NoRun
    BY KindsOfRuns DEF DeleteObject, CleanupInv, CleanupTypes, Runs
<1>2. cleaner[i].renewed => cleanupLock = i
    BY <1>1 DEF CleanupInv, RunsKeepTheirLock
<1>3. UNCHANGED <<storageAt, cleanupLock>> /\ cleaner[i].deleted = "none"
    BY DEF DeleteObject
<1>4. \A b \in cleaner[i].rows : asset[b].expired
    BY <1>1, SelectedHaveExpired
<1>5. cleaner[i].rows \subseteq Assets
    BY <1>1 DEF Deleting
<1>6. ASSUME NEW a \in cleaner[i].rows, asset' = [asset EXCEPT ![a].object = ObjectAfterDelete(a, i)],
             Turns(i, [cleaner[i] EXCEPT !.deleted = a])
      PROVE  CleanupInv'
    <2>1. /\ a \in Assets /\ asset[a].expired
          /\ asset[a].storedAt \in Nat /\ cleaner[i].storage \in Nat /\ storageAt \in Nat
          /\ asset[a].storedAt <= cleaner[i].storage /\ cleaner[i].storage <= storageAt
          /\ asset[a].object \in {"gone", Storages[asset[a].storedAt]}
        BY <1>1, SelectedHaveExpired
    <2>2. ObjectAfterDelete(a, i) \in {"gone", asset[a].object} /\ "gone" \in Objects
        BY DEF ObjectAfterDelete, Objects
    <2>3. asset \in [Assets -> AssetRecord]
        BY DEF CleanupInv, CleanupTypes
    <2>4. /\ asset' \in [Assets -> AssetRecord]
          /\ asset'[a].object = ObjectAfterDelete(a, i) /\ asset'[a].storedAt = asset[a].storedAt
          /\ asset'[a].job = asset[a].job /\ asset'[a].row = asset[a].row /\ asset'[a].expired = asset[a].expired
          /\ \A b \in Assets \ {a} : asset'[b] = asset[b]
        BY <1>6, <2>1, <2>2, <2>3 DEF AssetRecord
    <2>5. \A b \in Assets : Fades(b)
        BY <2>2, <2>4 DEF Fades, CleanupInv, AssetsInv
    <2>6. ObjectAfterDelete(a, i) = "gone" \/ asset[a].storedAt < storageAt
        <3>1. CASE asset[a].storedAt = cleaner[i].storage
            BY <2>1, <3>1 DEF ObjectAfterDelete
        <3>2. CASE asset[a].storedAt < cleaner[i].storage
            BY <2>1, <3>2
        <3>3. QED
            BY <2>1, <3>1, <3>2
    <2>7. Settled(a)'
        BY <1>3, <2>4, <2>6 DEF Settled
    <2>8. PICK next : next = [cleaner[i] EXCEPT !.deleted = a]
        OBVIOUS
    <2>9. /\ next \in Runs /\ next.storage = cleaner[i].storage /\ next.renewed = cleaner[i].renewed
          /\ next.rows = cleaner[i].rows /\ next.deleted = a
        BY <1>1, <2>1, <2>8 DEF Deleting, Runs
    <2>10. Turns(i, next)
        BY <1>6, <2>8
    <2>11. \A b \in next.rows : asset[b].expired
        BY <1>4, <2>9
    <2>12. next.deleted # "none" => asset[next.deleted].expired /\ Settled(next.deleted)'
        BY <2>1, <2>7, <2>9
    <2>13. QED
        BY <1>1, <1>2, <1>3, <2>4, <2>5, <2>9, <2>10, <2>11, <2>12, CleanerSteps
<1>7. ASSUME NEW a \in cleaner[i].rows, AfterError(i, a), UNCHANGED asset
      PROVE  CleanupInv'
    <2>1. PICK next : next = [cleaner[i] EXCEPT !.rows = @ \ {a}]
        OBVIOUS
    <2>2. /\ next \in Runs /\ next.storage = cleaner[i].storage /\ next.renewed = cleaner[i].renewed
          /\ next.rows = cleaner[i].rows \ {a} /\ next.deleted = "none"
        BY <1>1, <1>3, <1>5, <2>1 DEF Deleting, Runs
    <2>3. Turns(i, next)
        BY <1>7, <2>1 DEF AfterError
    <2>4. \A b \in next.rows : asset[b].expired
        BY <1>4, <2>2
    <2>5. QED
        BY <1>1, <1>2, <1>3, <1>7, <2>2, <2>3, <2>4, CleanerSteps, NothingFades
<1>8. QED
    BY <1>6, <1>7 DEF DeleteObject

LEMMA DeleteRowKeepsInv ==
    ASSUME CleanupInv, NEW i \in Instances, DeleteRow(i)
    PROVE  CleanupInv'
<1>1. cleaner[i] \in Deleting /\ cleaner[i] # NoRun
    BY KindsOfRuns DEF DeleteRow, CleanupInv, CleanupTypes, Runs
<1>2. cleaner[i].renewed => cleanupLock = i
    BY <1>1 DEF CleanupInv, RunsKeepTheirLock
<1>3. UNCHANGED <<storageAt, cleanupLock>>
    BY DEF DeleteRow
<1>4. PICK d \in Assets : d = cleaner[i].deleted /\ Settled(d)
    BY <1>1 DEF DeleteRow, Deleting, CleanupInv, RunsInv
<1>5. PICK next : next = [cleaner[i] EXCEPT !.rows = @ \ {d}, !.deleted = "none"]
    OBVIOUS
<1>6. cleaner[i].rows \subseteq Assets
    BY <1>1 DEF Deleting
<1>7. /\ next \in Runs /\ next.storage = cleaner[i].storage /\ next.renewed = cleaner[i].renewed
      /\ next.rows = cleaner[i].rows \ {d} /\ next.deleted = "none"
    BY <1>1, <1>5, <1>6 DEF Deleting, Runs
<1>8. Turns(i, next)
    BY <1>4, <1>5 DEF DeleteRow
<1>9. \A b \in next.rows : asset[b].expired
    BY <1>1, <1>7, SelectedHaveExpired
<1>10. asset' \in [Assets -> AssetRecord] /\ \A b \in Assets : Fades(b)
    <2>1. CASE asset' = [asset EXCEPT ![d].row = "gone"]
        <3>1. asset \in [Assets -> AssetRecord]
            BY DEF CleanupInv, CleanupTypes
        <3>2. /\ asset' \in [Assets -> AssetRecord]
              /\ asset'[d].object = asset[d].object /\ asset'[d].storedAt = asset[d].storedAt
              /\ asset'[d].job = asset[d].job /\ asset'[d].row = "gone" /\ asset'[d].expired = asset[d].expired
              /\ \A b \in Assets \ {d} : asset'[b] = asset[b]
            BY <2>1, <3>1 DEF AssetRecord
        <3>3. QED
            BY <1>4, <3>2 DEF Fades, CleanupInv, AssetsInv
    <2>2. CASE UNCHANGED asset
        BY <2>2, NothingFades
    <2>3. QED
        BY <1>4, <2>1, <2>2 DEF DeleteRow
<1>11. QED
    BY <1>1, <1>2, <1>3, <1>7, <1>8, <1>9, <1>10, CleanerSteps

LEMMA OrphansKeepInv ==
    ASSUME CleanupInv, NEW i \in Instances, CleanupOrphanedAssets(i)
    PROVE  CleanupInv'
<1>1. cleaner[i] \in Deleting /\ cleaner[i] # NoRun
    BY KindsOfRuns DEF CleanupOrphanedAssets, AllDone, CleanupInv, CleanupTypes, Runs
<1>2. cleaner[i].renewed \in BOOLEAN /\ storageAt \in Nat
    BY <1>1 DEF Deleting, CleanupInv, CleanupTypes
<1>3. PICK next : next = CleanupCycle("orphaned", cleaner[i].renewed)
    OBVIOUS
<1>4. next \in Selecting /\ next.storage = storageAt /\ next.renewed = cleaner[i].renewed
    BY <1>2, <1>3 DEF CleanupCycle, Selecting, Phases
<1>5. next \in Runs /\ next \notin Deleting
    BY <1>4, KindsOfRuns DEF Runs
<1>6. cleaner[i].renewed => cleanupLock = i
    BY <1>1 DEF CleanupInv, RunsKeepTheirLock
<1>7. Turns(i, next) /\ UNCHANGED <<storageAt, asset, cleanupLock>>
    BY <1>3 DEF CleanupOrphanedAssets
<1>8. QED
    BY <1>4, <1>5, <1>6, <1>7, CleanerSteps, NothingFades

(* A run ends, by itself or not: it takes no other run's lock with it.       *)
LEMMA EndsKeepInv ==
    ASSUME CleanupInv, NEW i \in Instances, ReleaseLock(i) \/ CleanerDies(i)
    PROVE  CleanupInv'
<1>1. Turns(i, NoRun) /\ UNCHANGED <<storageAt, asset>>
    BY DEF ReleaseLock, CleanerDies
<1>2. \A j \in Instances \ {i} : cleanupLock = j => cleanupLock' = j
    BY DEF ReleaseLock, LockAfterRelease, CleanerDies
<1>3. NoRun \in Runs /\ NoRun \notin Deleting
    BY KindsOfRuns DEF Runs
<1>4. QED
    BY <1>1, <1>2, <1>3, CleanerSteps, NothingFades

LEMMA LapseKeepsInv ==
    ASSUME CleanupInv, NEW i \in Instances, LockLapses(i)
    PROVE  CleanupInv'
<1>1. cleanupLock = i /\ UNCHANGED <<storageAt, asset>>
    BY DEF LockLapses
<1>2. CASE cleaner[i] = NoRun /\ UNCHANGED cleaner
    BY <1>1, <1>2 DEF CleanupInv, CleanupTypes, RunsKeepTheirLock, AssetsInv, RunsInv, Settled
<1>3. CASE cleaner[i] # NoRun /\ Turns(i, [cleaner[i] EXCEPT !.renewed = FALSE])
    <2>1. PICK next : next = [cleaner[i] EXCEPT !.renewed = FALSE]
        OBVIOUS
    <2>2. cleaner[i] \in Selecting \/ cleaner[i] \in Deleting
        BY <1>3 DEF CleanupInv, CleanupTypes, Runs
    <2>3. /\ next \in Runs /\ next.storage = cleaner[i].storage /\ next.renewed = FALSE
          /\ next \in Deleting => cleaner[i] \in Deleting /\ next.rows = cleaner[i].rows
                                  /\ next.deleted = cleaner[i].deleted
        <3>1. CASE cleaner[i] \in Selecting
            <4>1. next \in Selecting /\ next.storage = cleaner[i].storage /\ next.renewed = FALSE
                BY <2>1, <3>1 DEF Selecting
            <4>2. QED
                BY <4>1, KindsOfRuns DEF Runs
        <3>2. CASE cleaner[i] \in Deleting
            BY <2>1, <3>2 DEF Deleting, Runs
        <3>3. QED
            BY <2>2, <3>1, <3>2
    <2>4. Turns(i, next)
        BY <1>3, <2>1
    <2>5. next \in Deleting =>
              /\ \A a \in next.rows : asset[a].expired
              /\ next.deleted # "none" => asset[next.deleted].expired /\ Settled(next.deleted)'
        <3>1. SUFFICES ASSUME next \in Deleting
                       PROVE  /\ \A a \in next.rows : asset[a].expired
                              /\ next.deleted # "none" => asset[next.deleted].expired /\ Settled(next.deleted)'
            OBVIOUS
        <3>2. /\ \A a \in next.rows : asset[a].expired
              /\ next.deleted # "none" => asset[next.deleted].expired /\ Settled(next.deleted)
            BY <2>3, <3>1 DEF CleanupInv, RunsInv
        <3>3. QED
            BY <1>1, <3>2 DEF Settled
    <2>6. \A j \in Instances \ {i} : cleanupLock = j => cleanupLock' = j
        BY <1>1
    <2>7. QED
        BY <1>1, <1>3, <2>3, <2>4, <2>5, <2>6, CleanerSteps, NothingFades
<1>4. QED
    BY <1>2, <1>3 DEF LockLapses

-----------------------------------------------------------------------------
LEMMA CleanupInductive == CleanupInv /\ [CleanupNext]_cleanupVars => CleanupInv'
<1> SUFFICES ASSUME CleanupInv, [CleanupNext]_cleanupVars PROVE CleanupInv'
    OBVIOUS
<1>1. CASE UNCHANGED cleanupVars
    BY <1>1 DEF cleanupVars, CleanupInv, CleanupTypes, RunsKeepTheirLock, AssetsInv, RunsInv, Settled
<1>2. QED
    BY <1>1, IngestKeepsInv, ExpiryKeepsInv, ReplacementKeepsInv, AcquireKeepsInv, SelectKeepsInv,
       DeleteObjectKeepsInv, DeleteRowKeepsInv, OrphansKeepInv, EndsKeepInv, LapseKeepsInv
       DEF CleanupNext

LEMMA CleanupInvHolds == CleanupSpec => []CleanupInv
BY CleanupInitially, CleanupInductive, PTL DEF CleanupSpec

(* No run ends the lock of another one: the release compares the token       *)
(* (resource-cleanup.service.ts:122-178).                                    *)
THEOREM LocksAreKept == CleanupSpec => []RunsKeepTheirLock
BY CleanupInvHolds, PTL DEF CleanupInv

(* Rows go after their objects, and what is left behind is in a storage that *)
(* was replaced: a run deletes in the storage it fetched before it read the  *)
(* rows, which is never older than theirs                                    *)
(* (resource-cleanup.service.ts:251-300, 372-393).                           *)
THEOREM OldStoragesKeepLeftovers == CleanupSpec => []LeftoversAreOfOldStorages
<1>1. CleanupInv => LeftoversAreOfOldStorages
    BY DEF CleanupInv, AssetsInv, Settled, LeftoversAreOfOldStorages
<1>2. QED
    BY <1>1, CleanupInvHolds, PTL
=============================================================================
