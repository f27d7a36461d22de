---------------------------- MODULE SystemUpdate ----------------------------
(* Updates and rollbacks of the deployment: the operations administrators    *)
(* start through the API (a lock and a record in Redis, a docker client that *)
(* waits for the deploy-tool container), update.sh and rollback.sh (which    *)
(* operators also run over ssh), and the files under .deploy they keep.      *)
(*                                                                           *)
(* A run of a script is an operation or a shell.  A service that is stopped  *)
(* or does not answer is "down"; web and worker are one, "front".            *)
EXTENDS Naturals, FiniteSets

CONSTANTS Ops, Shells, Versions, First, MaxUpdateFaults

ASSUME UpdateAssumption ==
    /\ First \in Versions /\ "down" \notin Versions /\ "none" \notin Versions
    /\ Ops \cap Shells = {} /\ "none" \notin Ops \cup Shells
    /\ MaxUpdateFaults \in Nat

VARIABLES
    services,     \* the containers: version of api and front, state of postgres
    versionEnv,   \* .deploy/version.env
    record,       \* .deploy/state.json: status, previous and current version
    script,       \* the scripts that run; those past acquire_lock hold the flock
    op,           \* operation records in Redis
    client,       \* operations whose docker client lives in the api container
    redisLock,    \* the operation that holds the lock in Redis
    updateFaults

deployed == <<services, versionEnv, record>>
apiVars == <<op, client, redisLock>>
updateVars == <<deployed, script, apiVars, updateFaults>>

Runs == Ops \cup Shells
NoScript == [at |-> "none"]
Exit(code) == [at |-> "done", code |-> code]
Locked(s) == script[s].at \notin {"none", "start", "done"}

UpdateInit ==
    /\ services = [api |-> First, front |-> First, postgres |-> "up"]
    /\ versionEnv = First
    /\ record = [status |-> "none", previous |-> "none", current |-> "none"]
    /\ script = [s \in Runs |-> NoScript]
    /\ op = [o \in Ops |-> "none"]
    /\ client = {}
    /\ redisLock = "none"
    /\ updateFaults = 0

-----------------------------------------------------------------------------
(* The API.                                                                  *)

Plans == [kind : {"update"}, goal : Versions]
Rollback(mode) == [kind |-> mode, goal |-> "none"]
Starts(s, plan) == script' = [script EXCEPT ![s] = [at |-> "start", kind |-> plan.kind, goal |-> plan.goal]]
NoUpdateFault == UNCHANGED updateFaults

(* startUpdate, and startRollback to a version (update.sh with a target) or  *)
(* to the previous one: SET NX, the record, then docker run.                 *)
StartOperation(o) ==
    /\ op[o] = "none" /\ services.api # "down"
    /\ redisLock = "none" /\ redisLock' = o
    /\ op' = [op EXCEPT ![o] = "running"]
    /\ client' = client \cup {o}
    /\ \E plan \in Plans \cup {Rollback("code-only")} : Starts(o, plan)
    /\ NoUpdateFault /\ UNCHANGED deployed

(* docker can not be started.                                                *)
ExecutorError(o) ==
    /\ op[o] = "none" /\ services.api # "down" /\ redisLock = "none"
    /\ op' = [op EXCEPT ![o] = "failed"]
    /\ NoUpdateFault /\ UNCHANGED <<deployed, script, client, redisLock>>

Released(o) == IF redisLock = o THEN "none" ELSE redisLock

(* The docker client reports the exit of the script.                         *)
Close(o) ==
    /\ o \in client /\ script[o].at = "done"
    /\ op' = [op EXCEPT ![o] = IF script[o].code = 0 THEN "success" ELSE "failed"]
    /\ client' = client \ {o}
    /\ redisLock' = Released(o)
    /\ NoUpdateFault /\ UNCHANGED <<deployed, script>>

(* UPDATE_EXEC_TIMEOUT_MS after the lock was taken.                          *)
LockExpires ==
    /\ redisLock # "none" /\ redisLock' = "none"
    /\ NoUpdateFault /\ UNCHANGED <<deployed, script, op, client>>

(* A script replaces or stops the api container: its docker clients die and  *)
(* their operations stay "running"; the lock is released if the process gets *)
(* to it, or else expires.                                                   *)
ApiReplaced ==
    /\ client' = {} /\ UNCHANGED op
    /\ redisLock' \in {redisLock} \cup {Released(o) : o \in client}
SameApi == UNCHANGED apiVars

-----------------------------------------------------------------------------
(* The scripts.                                                              *)

(* An operator runs a script over ssh.                                       *)
RunOverSsh(s) ==
    /\ script[s] = NoScript
    /\ \E plan \in Plans \cup {Rollback("code-only"), Rollback("restore-db")} : Starts(s, plan)
    /\ SameApi /\ NoUpdateFault /\ UNCHANGED deployed

Moves(s, at) == script' = [script EXCEPT ![s].at = at]
Exits(s, code) == script' = [script EXCEPT ![s] = Exit(code)]

Busy_Never(s) == FALSE
Busy(s) == \E t \in Runs \ {s} : Locked(t)

(* acquire_lock, then what the files say.  In the states this reaches:       *)
(* rolling is "no" until a rollback begins, then the phase that led to it.   *)
Begin(s) ==
    /\ script[s].at = "start"
    /\ \/ Busy(s) /\ Exits(s, 1)
       \/ /\ ~Busy(s) /\ script[s].kind = "update"
          /\ IF script[s].goal = versionEnv THEN Exits(s, 0)
             ELSE script' = [script EXCEPT ![s] =
                      [at |-> "prepare", kind |-> "update", goal |-> @.goal, rolling |-> "no"]]
       \/ /\ ~Busy(s) /\ script[s].kind # "update"
          /\ IF record.previous = "none" THEN Exits(s, 1)
             ELSE IF record.previous = versionEnv THEN Exits(s, 0)
             ELSE script' = [script EXCEPT ![s] =
                      [at |-> "stop", kind |-> @.kind, goal |-> record.previous, rolling |-> "rollback.sh"]]
    /\ SameApi /\ NoUpdateFault /\ UNCHANGED deployed

Up(svc) == svc # "down"

(* Checks and backup, then the state: previous is what version.env says.     *)
Prepare(s) ==
    /\ script[s].at = "prepare"
    /\ \/ Exits(s, 1) /\ UNCHANGED record
       \/ /\ Up(services.api) /\ Up(services.front) /\ Up(services.postgres)
          /\ record' = [status |-> "in_progress", previous |-> versionEnv, current |-> script[s].goal]
          /\ Moves(s, "pull")
    /\ SameApi /\ NoUpdateFault /\ UNCHANGED <<services, versionEnv>>

(* The images are pulled and their digests checked, or the script ends and   *)
(* leaves the state as it is.                                                *)
Pull(s) ==
    /\ script[s].at = "pull"
    /\ Moves(s, "version") \/ Exits(s, 1)
    /\ SameApi /\ NoUpdateFault /\ UNCHANGED deployed

RollsBack(s, phase) == 
    script' = [script EXCEPT ![s] = [script[s] EXCEPT !.at = "stop", !.rolling = phase]]

WriteVersion(s) ==
    /\ script[s].at = "version"
    /\ versionEnv' = script[s].goal
    /\ \/ Moves(s, "api")
       \/ script[s].rolling = "no" /\ RollsBack(s, "switch")
    /\ SameApi /\ NoUpdateFault /\ UNCHANGED <<services, record>>

(* perform_rollback: docker compose stop stops every service.                *)
Stop(s) ==
    /\ script[s].at = "stop"
    /\ services' = [svc \in DOMAIN services |-> "down"]
    /\ script' = [script EXCEPT ![s] =
           [script[s] EXCEPT !.at = IF script[s].kind = "restore-db" THEN "restore" ELSE "version",
                             !.goal = record.previous]]
    /\ ApiReplaced /\ NoUpdateFault /\ UNCHANGED <<versionEnv, record>>

(* restore_database runs psql in the postgres container.                     *)
Restore(s) ==
    /\ script[s].at = "restore"
    /\ \/ Up(services.postgres) /\ Moves(s, "version")
       \/ Exits(s, 1)
    /\ SameApi /\ NoUpdateFault /\ UNCHANGED deployed

(* A phase of the switch fails: the first time the update is rolled back; a  *)
(* rollback that fails is recorded when a switch led to it.                  *)
Fails(s, phase) ==
    \/ script[s].rolling = "no" /\ RollsBack(s, phase) /\ UNCHANGED record
    \/ /\ script[s].rolling # "no" /\ Exits(s, 1)
       /\ record' = IF script[s].rolling = "switch" THEN [record EXCEPT !.status = "failed_rollback"]
                    ELSE record

(* compose_switch_services: postgres, redis and api first.                   *)
SwitchApi(s) ==
    /\ script[s].at = "api"
    /\ \/ /\ services' = [services EXCEPT !.api = script[s].goal, !.postgres = "up"]
          /\ Moves(s, "front") /\ UNCHANGED record
       \/ /\ \E api \in {services.api, "down"}, postgres \in {services.postgres, "up"} :
                services' = [services EXCEPT !.api = api, !.postgres = postgres]
          /\ Fails(s, "switch")
    /\ IF services'.api = services.api THEN SameApi ELSE ApiReplaced
    /\ NoUpdateFault /\ UNCHANGED versionEnv

SwitchFront(s) ==
    /\ script[s].at = "front"
    /\ \/ services' = [services EXCEPT !.front = script[s].goal] /\ Moves(s, "health") /\ UNCHANGED record
       \/ /\ \E front \in {services.front, "down"} : services' = [services EXCEPT !.front = front]
          /\ Fails(s, "switch")
    /\ SameApi /\ NoUpdateFault /\ UNCHANGED versionEnv

(* wait_healthy and reported_version_matches, then the record of the end.    *)
Health(s) ==
    /\ script[s].at = "health"
    /\ \/ /\ services.api = script[s].goal /\ Up(services.front)
          /\ record' = CASE script[s].rolling = "no" -> [record EXCEPT !.status = "success"]
                         [] script[s].rolling = "rollback.sh" ->
                                [record EXCEPT !.status = "rollback_success", !.current = script[s].goal]
                         [] OTHER -> [record EXCEPT !.status = "failed_rolled_back", !.current = script[s].goal]
          /\ Exits(s, IF script[s].rolling \in {"no", "rollback.sh"} THEN 0 ELSE 1)
       \/ Fails(s, "health")
    /\ SameApi /\ NoUpdateFault /\ UNCHANGED <<services, versionEnv>>

(* The script or its container is killed, its lock goes with it.             *)
Kill(s) ==
    /\ Locked(s) /\ Exits(s, 1)
    /\ updateFaults < MaxUpdateFaults /\ updateFaults' = updateFaults + 1
    /\ SameApi /\ UNCHANGED deployed

ScriptStep(s) ==
    \/ Begin(s) \/ Prepare(s) \/ Pull(s) \/ WriteVersion(s)
    \/ Stop(s) \/ Restore(s) \/ SwitchApi(s) \/ SwitchFront(s) \/ Health(s)

UpdateNext ==
    \/ \E o \in Ops : StartOperation(o) \/ ExecutorError(o) \/ Close(o)
    \/ LockExpires
    \/ \E s \in Shells : RunOverSsh(s)
    \/ \E s \in Runs : ScriptStep(s) \/ Kill(s)

UpdateSpec == UpdateInit /\ [][UpdateNext]_updateVars

-----------------------------------------------------------------------------
(* Properties.                                                               *)

(* What is recorded as the end of an update or a rollback is what runs: when *)
(* a script writes success, rollback_success or failed_rolled_back, all      *)
(* services and version.env are at the recorded version, although the lock   *)
(* in Redis is released or expires while a script goes on and operators run  *)
(* scripts without it (update.sh:226-254, rollback.sh:65-103, lib.sh:111).   *)
RecordIsWhatRuns ==
    [][record' # record /\ record'.status \in {"success", "rollback_success", "failed_rolled_back"} =>
          /\ services' = [api |-> record'.current, front |-> record'.current, postgres |-> "up"]
          /\ versionEnv' = record'.current
      ]_updateVars

(* README.md:358-364, rollback.sh --restore-db "restores the PostgreSQL      *)
(* backup taken before the update": the database runs when psql is called.   *)
RestoreFindsPostgres == \A s \in Runs : script[s].at = "restore" => Up(services.postgres)
=============================================================================
