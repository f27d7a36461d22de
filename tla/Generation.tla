----------------------------- MODULE Generation -----------------------------
(* The life of one generation job: created and cancelled by the API, handed  *)
(* to BullMQ by the outbox dispatcher, recovered by the reconciler and by an *)
(* administrator, executed, polled and finished by worker processes that may *)
(* crash, lose their BullMQ lock or meet an error at any step.               *)
(*                                                                           *)
(* A database transaction is one step: the row lock on the job serialises    *)
(* the transactions that end it, and WalletTx.tla shows that the wallet      *)
(* calls inside them behave like single steps.  Everything between two       *)
(* awaits that touch different systems is a step of its own.                 *)
EXTENDS Integers, FiniteSets

CONSTANTS
    Types,                        \* generation_jobs.type of what may be created
    Workers,                      \* slots of worker processes
    Polls,                        \* BullMQ poll jobs that may exist at one time
    MaxAttempts,                  \* queue.jobAttempts
    MaxPolls,                     \* VIDEO_MAX_POLLS
    MaxDispatch,                  \* outboxMaxAttempts
    MaxFaults                     \* crashes, lost locks and errors in a behaviour

ASSUME GenerationAssumption ==
    /\ Types \subseteq {"IMAGE", "VIDEO"}
    /\ IsFiniteSet(Workers) /\ IsFiniteSet(Polls)
    /\ Polls \cap {"process", "cancel", "none"} = {}
    /\ MaxAttempts \in Nat \ {0} /\ MaxPolls \in Nat \ {0}
    /\ MaxDispatch \in Nat \ {0} /\ MaxFaults \in Nat

VARIABLES
    job,                          \* generation_jobs row; provider 0 is NULL
    hold,                         \* credit_reservations.status, and whether captured
    asset,                        \* the assets and usage_events rows exist
    outbox,                       \* the PROCESS row of generation_dispatch_outbox
    queue,                        \* BullMQ: job id -> its state there
    worker,                       \* what each worker slot does and has seen
    submitted,                    \* provider tasks whose id a worker has received
    client,                       \* API cancel request in flight
    dispatcher,                   \* dispatchBatch transaction in flight
    reconciler,                   \* reconcileOrphanJobs in flight
    operator,                     \* administrator's replayOutbox in flight
    faults                        \* faults so far

rows == <<job, hold, asset, outbox>>
actors == <<client, dispatcher, reconciler, operator>>
vars == <<rows, queue, worker, submitted, actors, faults>>

Tasks == {"process", "cancel"} \cup Polls

(* state.ts.                                                                 *)
Terminal == {"SUCCEEDED", "FAILED", "CANCELED"}
isTerminal(status) == status \in Terminal
Open == {"QUEUED", "RUNNING"}

NoTask == [state |-> "absent", made |-> 0, stalls |-> 0]
Idle == [at |-> "idle", task |-> "none", owns |-> FALSE, provider |-> 0]

Init ==
    /\ job = [status |-> "NONE", type |-> "NONE", provider |-> 0, polls |-> 0, valid |-> TRUE]
    /\ hold = [status |-> "NONE", charged |-> FALSE]
    /\ asset = FALSE
    /\ outbox = [status |-> "NONE", attempts |-> 0]
    /\ queue = [t \in Tasks |-> NoTask]
    /\ worker = [w \in Workers |-> Idle]
    /\ submitted = 0
    /\ client = "idle" /\ dispatcher = "idle" /\ reconciler = "idle" /\ operator = "idle"
    /\ faults = 0

-----------------------------------------------------------------------------
(* BullMQ.  An id that is in the queue in any state is not added again.      *)

(* Variants named X_<what is wrong> are the mistakes the properties must     *)
(* catch; nothing else uses them.                                            *)
Add_NoDedup(q, t) == IF q[t].state = "active" THEN q ELSE [q EXCEPT ![t].state = "waiting"]
Add(q, t) == IF q[t].state = "absent" THEN [q EXCEPT ![t].state = "waiting"] ELSE q

(* queue.remove fails on a job a worker has locked.                          *)
Remove(q, t) == IF q[t].state = "active" THEN q ELSE [q EXCEPT ![t] = NoTask]

(* A task that ends keeps its id (removeOnComplete, removeOnFail); a poll is *)
(* added without an id, so its slot is free again.                           *)
Ended(q, t, state) ==
    IF t \in Polls THEN [q EXCEPT ![t] = NoTask] ELSE [q EXCEPT ![t].state = state]

(* Polls are added with attempts: 1, the others with queue.jobAttempts.      *)
AttemptsOf(t) == IF t \in Polls THEN 1 ELSE MaxAttempts

-----------------------------------------------------------------------------
(* Wallet calls, as Wallet.tla has them, seen from one job: releaseInTx      *)
(* gives back what is held and overwrites the status in any case, settleInTx *)
(* throws on a released reservation.                                         *)

Releases(h) == [h EXCEPT !.status = "RELEASED"]

CanSettle(h) == h.status \in {"RESERVED", "CAPTURED"}
Settles_OtherName(h) == [status |-> "SETTLED", charged |-> TRUE]
Settles(h) == [status |-> "CAPTURED", charged |-> TRUE]

(* finalizeFailureInTx, finalizeCancelInTx: the update matches an open job   *)
(* or nothing.                                                               *)
EndedAs_Always(j, status) == [j EXCEPT !.status = status]
EndedAs(j, status) == IF j.status \in Open THEN [j EXCEPT !.status = status] ELSE j

-----------------------------------------------------------------------------
(* The API.                                                                  *)

(* One transaction: job row, reservation, outbox row.  Whether the input has *)
(* what a video needs is seen by the worker only.                            *)
Create ==
    /\ job.status = "NONE"
    /\ \E type \in Types, valid \in BOOLEAN :
          /\ type = "IMAGE" => valid
          /\ job' = [job EXCEPT !.status = "QUEUED", !.type = type, !.valid = valid]
    /\ hold' = [status |-> "RESERVED", charged |-> FALSE]
    /\ outbox' = [status |-> "PENDING", attempts |-> 0]
    /\ UNCHANGED <<asset, queue, worker, submitted, actors, faults>>

(* cancel() reads the status first and acts on what it read.                 *)
CancelRead ==
    /\ client = "idle"
    /\ job.status \in Open
    /\ client' = IF job.status = "RUNNING" THEN "enqueue" ELSE "direct"
    /\ UNCHANGED <<rows, queue, worker, submitted, dispatcher, reconciler, operator, faults>>

CancelEnqueue ==
    /\ client = "enqueue"
    /\ client' = "idle"
    /\ queue' = Add(queue, "cancel")
    /\ UNCHANGED <<rows, worker, submitted, dispatcher, reconciler, operator, faults>>

(* The dispatcher's FOR UPDATE makes the update of a PENDING outbox row wait. *)
OutboxLocked == dispatcher # "idle"

CancelDirect_Unconditional ==
    /\ client = "direct"
    /\ ~(OutboxLocked /\ outbox.status = "PENDING")
    /\ client' = "remove"
    /\ job' = [job EXCEPT !.status = "CANCELED"]
    /\ hold' = Releases(hold)
    /\ outbox' = [outbox EXCEPT !.status = "SUPERSEDED"]
    /\ UNCHANGED <<asset, queue, worker, submitted, dispatcher, reconciler, operator, faults>>

(* Throws 409, and rolls back, when the job is no longer QUEUED.             *)
CancelDirect ==
    /\ client = "direct"
    /\ ~(OutboxLocked /\ outbox.status = "PENDING")
    /\ IF job.status = "QUEUED"
       THEN /\ client' = "remove"
            /\ job' = [job EXCEPT !.status = "CANCELED"]
            /\ hold' = Releases(hold)
            /\ outbox' = IF outbox.status = "PENDING"
                         THEN [outbox EXCEPT !.status = "SUPERSEDED"] ELSE outbox
       ELSE /\ client' = "idle"
            /\ UNCHANGED <<job, hold, outbox>>
    /\ UNCHANGED <<asset, queue, worker, submitted, dispatcher, reconciler, operator, faults>>

(* Best effort: an error, or the end of the API process, skips it.           *)
CancelRemove ==
    /\ client = "remove"
    /\ client' = "idle"
    /\ queue' \in {queue, Remove(queue, "process")}
    /\ UNCHANGED <<rows, worker, submitted, dispatcher, reconciler, operator, faults>>

-----------------------------------------------------------------------------
(* The outbox dispatcher: one transaction holds the PENDING row while it     *)
(* adds the job to BullMQ.                                                   *)

Dispatcher(at) ==
    /\ dispatcher' = at
    /\ UNCHANGED <<job, hold, asset, worker, submitted, client, reconciler, operator>>

DispatchPick ==
    /\ dispatcher = "idle"
    /\ outbox.status = "PENDING"
    /\ IF outbox.attempts >= MaxDispatch
       THEN outbox' = [outbox EXCEPT !.status = "SUPERSEDED"] /\ Dispatcher("idle")
       ELSE Dispatcher("add") /\ UNCHANGED outbox
    /\ UNCHANGED <<queue, faults>>

DispatchAdd ==
    /\ dispatcher = "add"
    /\ queue' = Add(queue, "process")
    /\ Dispatcher("mark")
    /\ UNCHANGED <<outbox, faults>>

DispatchMark ==
    /\ dispatcher = "mark"
    /\ outbox' = [status |-> "DISPATCHED", attempts |-> outbox.attempts + 1]
    /\ Dispatcher("idle")
    /\ UNCHANGED <<queue, faults>>

(* queue.add throws: the row stays PENDING with one more attempt.            *)
DispatchAddFails ==
    /\ dispatcher = "add" /\ faults < MaxFaults
    /\ outbox' = [outbox EXCEPT !.attempts = @ + 1]
    /\ faults' = faults + 1
    /\ Dispatcher("idle")
    /\ UNCHANGED queue

(* The process dies, or the commit fails: rolled back, whatever BullMQ has.  *)
DispatchCrash ==
    /\ dispatcher # "idle" /\ faults < MaxFaults
    /\ faults' = faults + 1
    /\ Dispatcher("idle")
    /\ UNCHANGED <<outbox, queue>>

(* reconcileOrphanJobs reads the QUEUED jobs, then updates their outbox rows. *)
ReconcileRead ==
    /\ reconciler = "idle"
    /\ job.status = "QUEUED"
    /\ reconciler' = "revive"
    /\ UNCHANGED <<rows, queue, worker, submitted, client, dispatcher, operator, faults>>

Revive_SupersededOnly ==
    /\ reconciler = "revive"
    /\ reconciler' = "idle"
    /\ outbox' = IF outbox.status = "SUPERSEDED"
                 THEN [status |-> "PENDING", attempts |-> 0] ELSE outbox
    /\ UNCHANGED <<job, hold, asset, queue, worker, submitted, client, dispatcher, operator, faults>>

Revive ==
    /\ reconciler = "revive"
    /\ reconciler' = "idle"
    /\ outbox' = IF outbox.status \in {"SUPERSEDED", "DISPATCHED"}
                 THEN [status |-> "PENDING", attempts |-> 0] ELSE outbox
    /\ UNCHANGED <<job, hold, asset, queue, worker, submitted, client, dispatcher, operator, faults>>

-----------------------------------------------------------------------------
(* The administrator.                                                        *)

(* replayOutbox reads the job, then resets the outbox row.                   *)
ReplayRead ==
    /\ operator = "idle"
    /\ job.status \in Open
    /\ operator' = "reset"
    /\ UNCHANGED <<rows, queue, worker, submitted, client, dispatcher, reconciler, faults>>

ReplayReset ==
    /\ operator = "reset"
    /\ operator' = "idle"
    /\ outbox' = IF outbox.status \in {"SUPERSEDED", "DISPATCHED"}
                 THEN [status |-> "PENDING", attempts |-> 0] ELSE outbox
    /\ UNCHANGED <<job, hold, asset, queue, worker, submitted, client, dispatcher, reconciler, faults>>

(* One transaction on the locked job row.                                    *)
ForceFail ==
    /\ job.status \in Open
    /\ job' = [job EXCEPT !.status = "FAILED"]
    /\ hold' = IF hold.status = "RELEASED" THEN hold ELSE Releases(hold)
    /\ UNCHANGED <<asset, outbox, queue, worker, submitted, actors, faults>>

-----------------------------------------------------------------------------
(* A worker slot.                                                            *)

At(w, place) == worker[w].at = place
Goes(w, place) == worker' = [worker EXCEPT ![w].at = place]
Stays == UNCHANGED <<rows, queue, submitted, actors, faults>>

(* The processor returns.  BullMQ refuses the result of a worker that has    *)
(* lost the job's lock.                                                      *)
Completes(w) ==
    /\ worker' = [worker EXCEPT ![w] = Idle]
    /\ queue' = IF worker[w].owns THEN Ended(queue, worker[w].task, "completed") ELSE queue

Take(w, t) ==
    /\ At(w, "idle")
    /\ queue[t].state = "waiting"
    /\ queue' = [queue EXCEPT ![t].state = "active"]
    /\ worker' = [worker EXCEPT ![w] = [at |-> "load", task |-> t, owns |-> TRUE, provider |-> 0]]
    /\ UNCHANGED <<rows, submitted, actors, faults>>

(* processGenerationPayload and the first lines of execute, poll and cancel. *)
AfterLoad(task) ==
    CASE task = "cancel" -> "cancel"
      [] task \in Polls /\ job.provider # 0 -> "status"
      [] OTHER -> "run"

SkipsLoaded(task) ==
    isTerminal(job.status) \/ (task \in Polls /\ job.status # "RUNNING")

Load(w) ==
    /\ At(w, "load")
    /\ IF SkipsLoaded(worker[w].task)
       THEN Completes(w) /\ UNCHANGED <<rows, submitted, actors, faults>>
       ELSE /\ worker' = [worker EXCEPT ![w].at = AfterLoad(worker[w].task),
                                        ![w].provider = job.provider]
            /\ Stays

(* toRunning, and the dispatch on the job's type.  A video that was already  *)
(* submitted when it was loaded goes straight to its next poll.              *)
AfterRun(w) ==
    CASE job.type = "VIDEO" /\ ~job.valid -> "fail"
      [] job.type = "VIDEO" /\ worker[w].provider # 0 -> "enqueue"
      [] OTHER -> "call"

Run_Unconditional(w) ==
    /\ At(w, "run")
    /\ job' = [job EXCEPT !.status = "RUNNING"]
    /\ Goes(w, AfterRun(w))
    /\ UNCHANGED <<hold, asset, outbox, queue, submitted, actors, faults>>

Run(w) ==
    /\ At(w, "run")
    /\ IF job.status \in Open
       THEN /\ job' = [job EXCEPT !.status = "RUNNING"]
            /\ Goes(w, AfterRun(w))
            /\ UNCHANGED <<hold, asset, outbox, queue, submitted, actors, faults>>
       ELSE Completes(w) /\ UNCHANGED <<rows, submitted, actors, faults>>

Call_EnqueuesFirst(w) ==
    /\ At(w, "call")
    /\ \/ /\ submitted' = submitted + 1
          /\ worker' = [worker EXCEPT ![w].at = IF job.type = "IMAGE" THEN "ingest" ELSE "enqueue",
                                      ![w].provider = submitted + 1]
       \/ Goes(w, "throw") /\ UNCHANGED submitted
    /\ UNCHANGED <<rows, queue, actors, faults>>

(* generateImage or submitVideo, through withCredential.                     *)
Call(w) ==
    /\ At(w, "call")
    /\ \/ /\ submitted' = submitted + 1
          /\ worker' = [worker EXCEPT ![w].at = IF job.type = "IMAGE" THEN "ingest" ELSE "persist",
                                      ![w].provider = submitted + 1]
       \/ Goes(w, "throw") /\ UNCHANGED submitted
    /\ UNCHANGED <<rows, queue, actors, faults>>

Persist_Overwrites(w) ==
    /\ At(w, "persist")
    /\ job' = [job EXCEPT !.provider = worker[w].provider]
    /\ Goes(w, "enqueue")
    /\ UNCHANGED <<hold, asset, outbox, queue, submitted, actors, faults>>

(* persistProviderJob writes into a NULL column only; otherwise the id of    *)
(* the other worker is loaded and used.                                      *)
Persist(w) ==
    /\ At(w, "persist")
    /\ job' = IF job.provider = 0 THEN [job EXCEPT !.provider = worker[w].provider] ELSE job
    /\ worker' = [worker EXCEPT ![w].at = "enqueue", ![w].provider = job'.provider]
    /\ UNCHANGED <<hold, asset, outbox, queue, submitted, actors, faults>>

(* enqueuePoll, and the end of the processor: a crash may come in between.   *)
Enqueue(w) ==
    /\ At(w, "enqueue")
    /\ \E p \in Polls : queue[p].state = "absent" /\ queue' = Add(queue, p)
    /\ Goes(w, "done")
    /\ UNCHANGED <<rows, submitted, actors, faults>>

Done(w) ==
    /\ At(w, "done")
    /\ Completes(w)
    /\ UNCHANGED <<rows, submitted, actors, faults>>

(* getVideoStatus: processing (or a transient error), succeeded, failed.     *)
Status(w) ==
    /\ At(w, "status")
    /\ \E next \in {"count", "ingest", "fail"} : Goes(w, next)
    /\ Stays

(* handleVideoProcessing: incrementPoll, then the next poll or the limit on  *)
(* polls or on elapsed time.                                                 *)
Count(w) ==
    /\ At(w, "count")
    /\ job' = [job EXCEPT !.polls = @ + 1]
    /\ \E next \in {"enqueue", "fail"} :
          /\ job'.polls >= MaxPolls => next = "fail"
          /\ Goes(w, next)
    /\ UNCHANGED <<hold, asset, outbox, queue, submitted, actors, faults>>

(* ingestAndFinalize up to the transaction: no source url fails the job, a   *)
(* download that fails throws, a failing upload is tolerated.                *)
Ingest(w) ==
    /\ At(w, "ingest")
    /\ \E next \in {"finalize", "fail", "throw"} : Goes(w, next)
    /\ Stays

Finalize_AssetOutsideTx(w) ==
    /\ At(w, "finalize")
    /\ asset' = TRUE
    /\ IF job.status \in Open \cup {"SUCCEEDED"} /\ CanSettle(hold)
       THEN /\ job' = [job EXCEPT !.status = "SUCCEEDED"]
            /\ hold' = Settles(hold)
            /\ Goes(w, "done")
       ELSE Goes(w, "throw") /\ UNCHANGED <<job, hold>>
    /\ UNCHANGED <<outbox, queue, submitted, actors, faults>>

(* finalizeSuccess: asset and usage rows, the job's update, the settlement.  *)
(* Throws, and leaves nothing behind, when the job was cancelled or failed   *)
(* meanwhile or its reservation released.                                    *)
Finalize(w) ==
    /\ At(w, "finalize")
    /\ IF job.status \in Open \cup {"SUCCEEDED"} /\ CanSettle(hold)
       THEN /\ job' = [job EXCEPT !.status = "SUCCEEDED"]
            /\ hold' = Settles(hold)
            /\ asset' = TRUE
            /\ Goes(w, "done")
       ELSE /\ Goes(w, "throw")
            /\ UNCHANGED <<job, hold, asset>>
    /\ UNCHANGED <<outbox, queue, submitted, actors, faults>>

(* pipeline.fail: the release runs even when the update matched nothing.     *)
Fail(w) ==
    /\ At(w, "fail")
    /\ job' = EndedAs(job, "FAILED")
    /\ hold' = Releases(hold)
    /\ Goes(w, "done")
    /\ UNCHANGED <<asset, outbox, queue, submitted, actors, faults>>

(* pipeline.cancel's transaction, after the best-effort upstream cancel.     *)
Cancel(w) ==
    /\ At(w, "cancel")
    /\ job' = EndedAs(job, "CANCELED")
    /\ hold' = Releases(hold)
    /\ Goes(w, "done")
    /\ UNCHANGED <<asset, outbox, queue, submitted, actors, faults>>

Throw_NoHandler(w) ==
    /\ At(w, "throw")
    /\ worker' = [worker EXCEPT ![w] = Idle]
    /\ LET t == worker[w].task
           made == queue[t].made + 1
       IN  IF ~worker[w].owns
           THEN UNCHANGED queue
           ELSE queue' = IF made >= AttemptsOf(t)
                         THEN Ended([queue EXCEPT ![t].made = made], t, "failed")
                         ELSE [queue EXCEPT ![t].made = made, ![t].state = "waiting"]
    /\ UNCHANGED <<rows, submitted, actors, faults>>

(* The processor throws: BullMQ retries, or the final attempt has failed and *)
(* the failed handler runs.                                                  *)
Throw(w) ==
    /\ At(w, "throw")
    /\ LET t == worker[w].task
           made == queue[t].made + 1
           final == made >= AttemptsOf(t)
       IN  IF ~worker[w].owns
           THEN worker' = [worker EXCEPT ![w] = Idle] /\ UNCHANGED queue
           ELSE /\ queue' = IF final
                            THEN Ended([queue EXCEPT ![t].made = made], t, "failed")
                            ELSE [queue EXCEPT ![t].made = made, ![t].state = "waiting"]
                /\ worker' = [worker EXCEPT ![w] =
                                 IF final THEN [Idle EXCEPT !.at = "handler"] ELSE Idle]
    /\ UNCHANGED <<rows, submitted, actors, faults>>

(* worker.on('failed'): load, skip a terminal job.                           *)
HandlerLoad(w) ==
    /\ At(w, "handler")
    /\ IF isTerminal(job.status)
       THEN worker' = [worker EXCEPT ![w] = Idle]
       ELSE Goes(w, "release")
    /\ Stays

(* Its transaction: releaseInTx, then finalizeFailureInTx.                   *)
HandlerRelease(w) ==
    /\ At(w, "release")
    /\ hold' = Releases(hold)
    /\ job' = EndedAs(job, "FAILED")
    /\ worker' = [worker EXCEPT ![w] = Idle]
    /\ UNCHANGED <<asset, outbox, queue, submitted, actors, faults>>

Step(w) ==
    \/ Load(w) \/ Run(w) \/ Call(w) \/ Persist(w) \/ Enqueue(w) \/ Done(w)
    \/ Status(w) \/ Count(w) \/ Ingest(w) \/ Finalize(w) \/ Fail(w) \/ Cancel(w)
    \/ Throw(w) \/ HandlerLoad(w) \/ HandlerRelease(w)

-----------------------------------------------------------------------------
(* Faults.                                                                   *)

InHandler(w) == worker[w].at \in {"handler", "release"}

Faulty ==
    /\ faults < MaxFaults
    /\ faults' = faults + 1
    /\ UNCHANGED <<rows, submitted, actors>>

(* The process dies; BullMQ still has the job as active.                     *)
Crash(w) ==
    /\ ~At(w, "idle")
    /\ worker' = [worker EXCEPT ![w] = Idle]
    /\ Faulty /\ UNCHANGED queue

(* The database or Redis refuses a call.  The processor throws; the failed   *)
(* handler logs the error and is done.                                       *)
Error(w) ==
    /\ worker[w].at \notin {"idle", "throw", "done", "status"}
    /\ worker' = [worker EXCEPT ![w] = IF InHandler(w) THEN Idle ELSE [@ EXCEPT !.at = "throw"]]
    /\ Faulty /\ UNCHANGED queue

(* The lock is not renewed in time; the worker does not notice.              *)
LoseLock(w) ==
    /\ worker[w].owns
    /\ worker' = [worker EXCEPT ![w].owns = FALSE]
    /\ Faulty /\ UNCHANGED queue

(* Redis loses a job that waits, or drops the record of one that ended       *)
(* (removeOnComplete: 1000, removeOnFail: 5000).                             *)
Evict(t) ==
    /\ queue[t].state \in {"waiting", "completed", "failed"}
    /\ queue' = [queue EXCEPT ![t] = NoTask]
    /\ Faulty /\ UNCHANGED worker

(* An active job nobody owns is put back once; the second time it fails, and *)
(* the worker that noticed runs the failed handler.                          *)
Stalled(w, t) ==
    /\ queue[t].state = "active"
    /\ ~\E v \in Workers : worker[v].owns /\ worker[v].task = t
    /\ At(w, "idle")
    /\ IF queue[t].stalls = 0
       THEN /\ queue' = [queue EXCEPT ![t].state = "waiting", ![t].stalls = 1]
            /\ UNCHANGED worker
       ELSE /\ queue' = Ended(queue, t, "failed")
            /\ Goes(w, "handler")
    /\ UNCHANGED <<rows, submitted, actors, faults>>

-----------------------------------------------------------------------------

Api == Create \/ CancelRead \/ CancelEnqueue \/ CancelDirect \/ CancelRemove
Outbox ==
    \/ DispatchPick \/ DispatchAdd \/ DispatchMark \/ DispatchAddFails \/ DispatchCrash
    \/ ReconcileRead \/ Revive
Admin == ReplayRead \/ ReplayReset \/ ForceFail
Consume == \E w \in Workers : Step(w) \/ \E t \in Tasks : Take(w, t) \/ Stalled(w, t)
Fault == (\E w \in Workers : Crash(w) \/ Error(w) \/ LoseLock(w)) \/ (\E t \in Tasks : Evict(t))

Next == Api \/ Outbox \/ Admin \/ Consume \/ Fault

Spec == Init /\ [][Next]_vars

(* Intervals and processors go on: the dispatcher and the reconciler run     *)
(* every five seconds, an idle worker takes a waiting job, a provider call   *)
(* returns or times out.  Users and administrators need not do anything.     *)
Fairness ==
    /\ WF_vars(DispatchPick) /\ WF_vars(DispatchAdd) /\ WF_vars(DispatchMark)
    /\ WF_vars(ReconcileRead) /\ WF_vars(Revive)
    /\ \A w \in Workers : WF_vars(Step(w))
    /\ \A t \in Tasks : SF_vars(\E w \in Workers : Take(w, t) \/ Stalled(w, t))

FairSpec == Spec /\ Fairness

-----------------------------------------------------------------------------
(* Properties.                                                               *)

Places ==
    {"idle", "load", "run", "call", "persist", "enqueue", "done", "status", "count",
     "ingest", "finalize", "fail", "cancel", "throw", "handler", "release"}

JobRow ==
    [status : {"NONE"} \cup Open \cup Terminal, type : {"NONE", "IMAGE", "VIDEO"},
     provider : Nat, polls : Nat, valid : BOOLEAN]

HoldRow == [status : {"NONE", "RESERVED", "CAPTURED", "RELEASED"}, charged : BOOLEAN]

Task == [state : {"absent", "waiting", "active", "completed", "failed"}, made : Nat, stalls : 0..1]

Slot == [at : Places, task : Tasks \cup {"none"}, owns : BOOLEAN, provider : Nat]

(* Every variable holds a value of its type.                                 *)
GenerationTypeOK ==
    /\ job \in JobRow
    /\ hold \in HoldRow
    /\ asset \in BOOLEAN
    /\ outbox \in [status : {"NONE", "PENDING", "DISPATCHED", "SUPERSEDED"}, attempts : Nat]
    /\ queue \in [Tasks -> Task]
    /\ worker \in [Workers -> Slot]
    /\ submitted \in Nat
    /\ client \in {"idle", "enqueue", "direct", "remove"}
    /\ dispatcher \in {"idle", "add", "mark"}
    /\ reconciler \in {"idle", "revive"}
    /\ operator \in {"idle", "reset"}
    /\ faults \in Nat

(* The credits follow the job, whoever ends it and however often: held while *)
(* it is open, captured for a delivered result, given back in full when it   *)
(* failed or was cancelled (repo.ts:262-280, pipeline.ts:230-233, 654-658).  *)
CreditsFollowJob ==
    /\ job.status \in Open => hold = [status |-> "RESERVED", charged |-> FALSE]
    /\ job.status = "SUCCEEDED" => hold.charged
    /\ job.status \in {"FAILED", "CANCELED"} => hold = [status |-> "RELEASED", charged |-> FALSE]

(* A result is delivered exactly when the user is charged for it: no asset   *)
(* of a cancelled job, no charge without an asset (repo.ts:197-281).         *)
DeliveredIffCharged == asset = hold.charged

(* How the rows read as what the user was promised.                          *)
Credits ==
    IF hold.charged THEN "paid"
    ELSE CASE hold.status = "RESERVED" -> "held"
           [] hold.status = "RELEASED" -> "refunded"
           [] OTHER -> "none"

Lifecycle == INSTANCE JobLifecycle WITH
    status <- job.status,
    credits <- Credits,
    delivered <- asset

(* Whatever late poll, retry, cancellation, failed event or replay arrives,  *)
(* and wherever a worker crashes, the user sees a job that is submitted,     *)
(* started and ended once, delivered and paid for or given back in full; no  *)
(* end is ever taken back (state.ts:11, repo.ts:197-281).                    *)
ImplementsLifecycle == Lifecycle!LifecycleSpec

(* A provider task id, once recorded, is never replaced (repo.ts:128-139).   *)
ProviderIdIsStable ==
    [][job.provider # 0 => job'.provider = job.provider]_vars

(* A poll always finds the provider's task: the id is recorded before the    *)
(* poll exists, through crashes, retries and two workers on one job          *)
(* (pipeline.ts:307-335).                                                    *)
PollsKnowTheirTask ==
    \A p \in Polls : queue[p].state # "absent" => job.provider # 0

(* Where polling goes on: in a task that waits, or comes back because the    *)
(* worker that had it is gone, and in a worker whose next poll is still to   *)
(* be added.                                                                 *)
Continues(t) ==
    \/ queue[t].state = "waiting"
    \/ queue[t].state = "active" /\ ~\E w \in Workers : worker[w].owns /\ worker[w].task = t
Continuing(w) == worker[w].task \in Polls \cup {"process"} /\ ~At(w, "done")

(* Polling does not multiply by itself: every chain of polls after the first *)
(* needs a fault of its own, a crash after the poll was added, a lost lock,  *)
(* a record that BullMQ dropped.  No cancellation, retry, replay of the      *)
(* administrator or revival of the reconciler, which all add the process     *)
(* task again, starts another (pipeline.ts:299-337, 367-377,                 *)
(* outbox.dispatcher.ts:107-117).                                            *)
ChainsNeedFaults ==
    Cardinality({t \in Polls \cup {"process"} : Continues(t)})
        + Cardinality({w \in Workers : Continuing(w)})
    <= 1 + faults

(* As long as there is no fault every job goes on to its end, whatever users *)
(* and administrators do.                                                    *)
JobsEnd == (job.status = "QUEUED") ~> (isTerminal(job.status) \/ faults > 0)

(* repo.ts:130, "prevents a duplicate submission, and a duplicate charge,    *)
(* when a crashed worker's job is run again".                                *)
SubmittedOnce == job.type = "VIDEO" => submitted <= 1

(* outbox.dispatcher.ts:194-198, "a job that is still QUEUED must be         *)
(* recovered, or it is stuck for ever; adding it again is safe".             *)
QueuedJobsAreRecovered == (job.status = "QUEUED") ~> (job.status # "QUEUED")
=============================================================================
