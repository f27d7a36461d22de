------------------------------ MODULE Settings ------------------------------
(* Dynamic settings: the settings and settings_history rows, administrators  *)
(* who change them one by one or as a group, the invalidations published     *)
(* after the commit, and a worker that caches values and rebuilds storage,   *)
(* registry and credentials from them.                                       *)
(*                                                                           *)
(* Key: a setting.  CachedKeys are read through WorkerSettings' cache, the   *)
(* others (secrets and the storage location) straight from the store.        *)
(* RebuildOrder: the settings a rebuild reads, in the order it reads them.   *)
(* A value is a member of Values or "env", the fallback without a row.       *)
EXTENDS Naturals, Sequences, FiniteSets

CONSTANTS Keys, CachedKeys, RebuildOrder, Groups, Values, Admins, Readers,
          MaxVersion, MaxSettingFaults

ASSUME SettingsAssumption ==
    /\ CachedKeys \subseteq Keys /\ RebuildOrder \in Seq(Keys)
    /\ Groups \subseteq SUBSET Keys
    /\ "env" \notin Values
    /\ MaxVersion \in Nat /\ MaxSettingFaults \in Nat

VARIABLES
    row,          \* settings: version (0: no row) and value
    history,      \* settings_history of each key, oldest first
    admin,        \* what each administrator's request is doing
    inbox,        \* invalidations on their way to the worker
    cache,        \* WorkerSettings.cache: values that have not expired
    reader,       \* getRaw calls of the pipeline between the read and cache.set
    rebuild,      \* WorkerResources: the rebuild that runs, and dirty
    holder,       \* WorkerResources.holder: what the resources were built from
    settingFaults

tables == <<row, history>>
workerVars == <<cache, reader, rebuild, holder>>
settingsVars == <<tables, admin, inbox, workerVars, settingFaults>>

NoAdmin == [at |-> "idle"]
NoReader == [at |-> "idle"]
ResourceKeys == {RebuildOrder[i] : i \in 1..Len(RebuildOrder)}
NoRebuild == [at |-> "idle"]
NotCached == "none"

SettingsInit ==
    /\ row = [k \in Keys |-> [version |-> 0, value |-> "env"]]
    /\ history = [k \in Keys |-> <<>>]
    /\ admin = [a \in Admins |-> NoAdmin]
    /\ inbox = <<>>
    /\ cache = [k \in CachedKeys |-> NotCached]
    /\ reader = [g \in Readers |-> NoReader]
    /\ rebuild = [run |-> NoRebuild, dirty |-> FALSE]
    /\ holder = [k \in ResourceKeys |-> "env"]
    /\ settingFaults = 0

-----------------------------------------------------------------------------
(* Administrators.                                                           *)

(* update and updateGroup read the rows they change (or come with the version*)
(* the form was loaded with) ...                                             *)
ReadVersions(a) ==
    /\ admin[a] = NoAdmin
    /\ \E G \in Groups :
          /\ \A k \in G : row[k].version < MaxVersion
          /\ \E change \in [G -> Values] :
                admin' = [admin EXCEPT ![a] =
                    [at |-> "write", change |-> change, seen |-> [k \in G |-> row[k]]]]
    /\ UNCHANGED <<tables, inbox, workerVars, settingFaults>>

Unchanged_IgnoresVersion(seen) == TRUE
Unchanged(seen) == \A k \in DOMAIN seen : row[k].version = seen[k].version

Written(seen, change) ==
    /\ row' = [k \in Keys |->
           IF k \in DOMAIN change THEN [version |-> seen[k].version + 1, value |-> change[k]]
           ELSE row[k]]
    /\ history' = [k \in Keys |->
           IF k \in DOMAIN change
           THEN Append(history[k], [version |-> seen[k].version + 1,
                                    before |-> seen[k].value, after |-> change[k]])
           ELSE history[k]]

(* ... and write them WHERE version is still the one they read: all of them, *)
(* with their history, or none.                                              *)
WriteRows(a) ==
    /\ admin[a].at = "write"
    /\ Unchanged(admin[a].seen)
    /\ Written(admin[a].seen, admin[a].change)
    /\ admin' = [admin EXCEPT ![a] = [at |-> "publish", keys |-> DOMAIN admin[a].change]]
    /\ UNCHANGED <<inbox, workerVars, settingFaults>>

VersionConflict(a) ==
    /\ admin[a].at = "write"
    /\ ~Unchanged(admin[a].seen)
    /\ admin' = [admin EXCEPT ![a] = NoAdmin]
    /\ UNCHANGED <<tables, inbox, workerVars, settingFaults>>

(* Invalidations are published after the commit, key by key.                 *)
Publish(a) ==
    /\ admin[a].at = "publish"
    /\ \E k \in admin[a].keys :
          /\ inbox' = Append(inbox, k)
          /\ admin' = [admin EXCEPT ![a] =
                 IF @.keys = {k} THEN NoAdmin ELSE [at |-> "publish", keys |-> @.keys \ {k}]]
    /\ UNCHANGED <<tables, workerVars, settingFaults>>

(* At its start an instance writes rows for what only the environment sets:  *)
(* no history, and nothing when another one was faster.                      *)
migrateFromEnv(k) ==
    /\ row[k].version = 0
    /\ row' = [row EXCEPT ![k].version = 1]
    /\ inbox' = Append(inbox, k)
    /\ UNCHANGED <<history, admin, workerVars, settingFaults>>

(* The API dies between commit and publication, or the subscription is down. *)
MessageLost ==
    /\ settingFaults < MaxSettingFaults
    /\ settingFaults' = settingFaults + 1
    /\ \/ \E a \in Admins : admin[a].at = "publish" /\ admin' = [admin EXCEPT ![a] = NoAdmin] /\ UNCHANGED inbox
       \/ inbox # <<>> /\ inbox' = Tail(inbox) /\ UNCHANGED admin
    /\ UNCHANGED <<tables, workerVars>>

-----------------------------------------------------------------------------
(* The worker.                                                               *)

Building == [at |-> "read", todo |-> RebuildOrder, got |-> holder]

(* A rebuild that is running is told to run once more.                       *)
Requested_Once == IF rebuild.run = NoRebuild THEN [rebuild EXCEPT !.run = Building] ELSE rebuild
Requested == IF rebuild.run = NoRebuild THEN [rebuild EXCEPT !.run = Building]
             ELSE [rebuild EXCEPT !.dirty = TRUE]

Invalidate ==
    /\ inbox # <<>>
    /\ LET k == Head(inbox)
       IN  /\ cache' = [c \in CachedKeys |-> IF c = k THEN NotCached ELSE cache[c]]
           /\ rebuild' = IF k \in ResourceKeys THEN Requested ELSE rebuild
    /\ inbox' = Tail(inbox)
    /\ UNCHANGED <<tables, admin, reader, holder, settingFaults>>

(* getRaw of the pipeline: a miss reads the database, the answer is stored   *)
(* when it arrives.                                                          *)
GetRawMisses(g) ==
    /\ reader[g] = NoReader
    /\ \E k \in CachedKeys :
          /\ cache[k] = NotCached
          /\ reader' = [reader EXCEPT ![g] = [at |-> "answer", key |-> k, value |-> row[k].value]]
    /\ UNCHANGED <<tables, admin, inbox, cache, rebuild, holder, settingFaults>>

GetRawStores(g) ==
    /\ reader[g].at = "answer"
    /\ cache' = [cache EXCEPT ![reader[g].key] = reader[g].value]
    /\ reader' = [reader EXCEPT ![g] = NoReader]
    /\ UNCHANGED <<tables, admin, inbox, rebuild, holder, settingFaults>>

Expired_Never(k) == FALSE
Expired(k) == cache[k] # NotCached
Expire(k) ==
    /\ Expired(k)
    /\ cache' = [cache EXCEPT ![k] = NotCached]
    /\ UNCHANGED <<tables, admin, inbox, reader, rebuild, holder, settingFaults>>

Got(k, v) == [rebuild EXCEPT !.run = [at |-> "read", todo |-> Tail(@.todo), got |-> [@.got EXCEPT ![k] = v]]]

(* doRebuild reads its settings one after the other, cached ones from the    *)
(* cache when they are there.                                                *)
RebuildReads ==
    /\ rebuild.run.at = "read" /\ rebuild.run.todo # <<>>
    /\ LET k == Head(rebuild.run.todo)
       IN  IF k \in CachedKeys
           THEN rebuild' = IF cache[k] # NotCached THEN Got(k, cache[k])
                           ELSE [rebuild EXCEPT !.run =
                                    [at |-> "answer", todo |-> @.todo, got |-> @.got, value |-> row[k].value]]
           ELSE rebuild' = Got(k, row[k].value)
    /\ UNCHANGED <<tables, admin, inbox, cache, reader, holder, settingFaults>>

RebuildStores ==
    /\ rebuild.run.at = "answer"
    /\ LET k == Head(rebuild.run.todo)
       IN  /\ cache' = [cache EXCEPT ![k] = rebuild.run.value]
           /\ rebuild' = Got(k, rebuild.run.value)
    /\ UNCHANGED <<tables, admin, inbox, reader, holder, settingFaults>>

(* The end of a rebuild: the next one starts when an invalidation came.      *)
RebuildEnds == rebuild' = [run |-> IF rebuild.dirty THEN [Building EXCEPT !.got = holder'] ELSE NoRebuild,
                           dirty |-> FALSE]

Swap ==
    /\ rebuild.run.at = "read" /\ rebuild.run.todo = <<>>
    /\ holder' = rebuild.run.got
    /\ RebuildEnds
    /\ UNCHANGED <<tables, admin, inbox, cache, reader, settingFaults>>

(* Building failed: the old resources stay, the error is logged.             *)
RebuildFails ==
    /\ rebuild.run # NoRebuild
    /\ settingFaults < MaxSettingFaults
    /\ settingFaults' = settingFaults + 1
    /\ holder' = holder
    /\ RebuildEnds
    /\ UNCHANGED <<tables, admin, inbox, cache, reader>>

AdminStep(a) == ReadVersions(a) \/ WriteRows(a) \/ VersionConflict(a) \/ Publish(a)
WorkerStep ==
    \/ Invalidate \/ RebuildReads \/ RebuildStores \/ Swap \/ RebuildFails
    \/ \E g \in Readers : GetRawMisses(g) \/ GetRawStores(g)
    \/ \E k \in CachedKeys : Expire(k)

SettingsNext ==
    \/ \E a \in Admins : AdminStep(a)
    \/ \E k \in Keys : migrateFromEnv(k)
    \/ MessageLost
    \/ WorkerStep

SettingsSpec == SettingsInit /\ [][SettingsNext]_settingsVars

(* Requests, messages, answers and rebuilds go on; time goes on.  Nobody has *)
(* to change a setting or to read one.                                       *)
SettingsFairness ==
    /\ \A a \in Admins : WF_settingsVars(WriteRows(a) \/ VersionConflict(a) \/ Publish(a))
    /\ WF_settingsVars(Invalidate)
    /\ WF_settingsVars(RebuildReads \/ RebuildStores \/ Swap)
    /\ \A g \in Readers : WF_settingsVars(GetRawStores(g))
    /\ \A k \in CachedKeys : WF_settingsVars(Expire(k))

-----------------------------------------------------------------------------
(* Properties.                                                               *)

(* The history of a setting explains its row: each entry starts from the     *)
(* value and follows the version of the one before, and the last one is what *)
(* the row holds, however many administrators write at once                  *)
(* (settings-store.ts:195-226, 412-454).                                     *)
HistoryExplainsRow ==
    \A k \in Keys : LET h == history[k] IN
        /\ \A i \in 1..(Len(h) - 1) :
              h[i+1].version = h[i].version + 1 /\ h[i+1].before = h[i].after
        /\ h # <<>> => row[k] = [version |-> h[Len(h)].version, value |-> h[Len(h)].after]

(* A value the database no longer holds leaves the worker's cache for good,  *)
(* lost messages and reads that end after the invalidation included: the     *)
(* expiry is the fallback (worker-settings.ts:26, 130-138).                  *)
CacheConverges == <>[](\A k \in CachedKeys : cache[k] \in {NotCached, row[k].value})

(* The resources are built from the last change of the settings a rebuild    *)
(* reads from the store, as long as no message is lost and no rebuild fails: *)
(* invalidations during a rebuild are not forgotten                          *)
(* (worker-resources.ts:43-47, 66-92).                                       *)
StoredConfigurationWins ==
    <>[](settingFaults = 0 => \A k \in ResourceKeys \ CachedKeys : holder[k] = row[k].value)
=============================================================================
