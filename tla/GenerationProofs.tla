-------------------------- MODULE GenerationProofs --------------------------
(* Theorems about Generation, for any number of workers, polls and attempts, *)
(* and any number of faults.                                                 *)
EXTENDS Generation, FiniteSetTheorems, TLAPS

(* The types of the rows the money depends on; what workers and queue hold   *)
(* does not matter to it.                                                    *)
MoneyTypes == job \in JobRow /\ hold \in HoldRow /\ asset \in BOOLEAN

(* What the invariants need besides themselves: nothing is delivered before  *)
(* the job exists.                                                           *)
NothingBefore == job.status = "NONE" => ~asset /\ ~hold.charged

Money == MoneyTypes /\ NothingBefore /\ CreditsFollowJob /\ DeliveredIffCharged

(* The transactions that change the money rows, stripped of everything else. *)
Created ==
    /\ job.status = "NONE"
    /\ \E type \in Types, valid \in BOOLEAN :
          job' = [job EXCEPT !.status = "QUEUED", !.type = type, !.valid = valid]
    /\ hold' = [status |-> "RESERVED", charged |-> FALSE]
    /\ asset' = asset

Started ==
    /\ job.status \in Open
    /\ job' = [job EXCEPT !.status = "RUNNING"]
    /\ hold' = hold /\ asset' = asset

Delivered ==
    /\ job.status \in Open \cup {"SUCCEEDED"}
    /\ job' = [job EXCEPT !.status = "SUCCEEDED"]
    /\ hold' = Settles(hold) /\ asset' = TRUE

EndedBy(status) ==
    /\ job' = EndedAs(job, status)
    /\ hold' = Releases(hold) /\ asset' = asset

Kept ==
    /\ \/ job' = job
       \/ \E n \in Nat : job' = [job EXCEPT !.provider = n] \/ job' = [job EXCEPT !.polls = n]
    /\ hold' = hold /\ asset' = asset

(* Every step is one of these transactions as far as the money is concerned. *)
MoneyStep ==
    \/ Created \/ Started \/ Delivered \/ Kept
    \/ \E status \in {"FAILED", "CANCELED"} : EndedBy(status)

-----------------------------------------------------------------------------
(* Type correctness.                                                         *)

(* The records the actions build.                                            *)
LEMMA SlotRecords ==
    /\ Idle \in Slot /\ [Idle EXCEPT !.at = "handler"] \in Slot
    /\ \A s \in Slot, place \in Places : [s EXCEPT !.at = place] \in Slot
<1>1. Idle \in Slot
  BY DEF Idle, Slot, Places
<1>2. \A s \in Slot, place \in Places : [s EXCEPT !.at = place] \in Slot
  BY DEF Slot
<1>3. "handler" \in Places
  BY DEF Places
<1>4. QED
  BY <1>1, <1>2, <1>3

TaskStates == {"absent", "waiting", "active", "completed", "failed"}

LEMMA TaskRecords ==
    /\ NoTask \in Task
    /\ \A t \in Task, st \in TaskStates : [t EXCEPT !.state = st] \in Task
    /\ \A t \in Task, n \in Nat : [t EXCEPT !.made = n] \in Task
    /\ \A t \in Task, n \in Nat, st \in TaskStates : [t EXCEPT !.made = n, !.state = st] \in Task
    /\ \A t \in Task, st \in TaskStates : [t EXCEPT !.state = st, !.stalls = 1] \in Task
<1>1. NoTask \in Task
  BY DEF NoTask, Task
<1>2. \A t \in Task, st \in TaskStates : [t EXCEPT !.state = st] \in Task
  BY DEF Task, TaskStates
<1>3. \A t \in Task, n \in Nat : [t EXCEPT !.made = n] \in Task
  BY DEF Task
<1>4. \A t \in Task : [t EXCEPT !.stalls = 1] \in Task
  BY DEF Task
<1>5. QED
  BY <1>1, <1>2, <1>3, <1>4

LEMMA QueueOps ==
    ASSUME NEW q \in [Tasks -> Task], NEW t \in Tasks
    PROVE  /\ Add(q, t) \in [Tasks -> Task]
           /\ Remove(q, t) \in [Tasks -> Task]
           /\ \A st \in {"completed", "failed"} : Ended(q, t, st) \in [Tasks -> Task]
BY TaskRecords DEF Add, Remove, Ended, TaskStates

LEMMA JobOps ==
    ASSUME NEW j \in JobRow, NEW h \in HoldRow
    PROVE  /\ \A st \in Open \cup Terminal : [j EXCEPT !.status = st] \in JobRow
           /\ \A n \in Nat : [j EXCEPT !.provider = n] \in JobRow /\ [j EXCEPT !.polls = n] \in JobRow
           /\ EndedAs(j, "FAILED") \in JobRow /\ EndedAs(j, "CANCELED") \in JobRow
           /\ Releases(h) \in HoldRow /\ Settles(h) \in HoldRow
BY DEF JobRow, HoldRow, EndedAs, Releases, Settles, Open, Terminal

LEMMA GoesTyped ==
    ASSUME GenerationTypeOK, NEW w \in Workers, NEW place \in Places, Goes(w, place)
    PROVE  worker' \in [Workers -> Slot]
BY SlotRecords DEF GenerationTypeOK, Goes

LEMMA CompletesTyped ==
    ASSUME GenerationTypeOK, NEW w \in Workers, Completes(w), worker[w].task \in Tasks
    PROVE  worker' \in [Workers -> Slot] /\ queue' \in [Tasks -> Task]
BY SlotRecords, QueueOps DEF GenerationTypeOK, Completes

LEMMA GenInit == Init => GenerationTypeOK
<1> SUFFICES ASSUME Init PROVE GenerationTypeOK
  OBVIOUS
<1>1. worker \in [Workers -> Slot] /\ queue \in [Tasks -> Task]
  BY SlotRecords, TaskRecords DEF Init
<1>2. job \in JobRow /\ hold \in HoldRow
  BY DEF Init, JobRow, HoldRow
<1>3. QED
  BY <1>1, <1>2 DEF Init, GenerationTypeOK

(* A slot that is neither idle nor in the failed handler works on a task.    *)
Busy == \A w \in Workers : worker[w].at \notin {"idle", "handler", "release"} => worker[w].task \in Tasks

Typed == GenerationTypeOK /\ Busy

LEMMA ApiTyped == Typed /\ (Api \/ Outbox \/ Admin) => Typed'
<1> SUFFICES ASSUME Typed, Api \/ Outbox \/ Admin PROVE Typed'
  OBVIOUS
<1> USE DEF Typed, GenerationTypeOK, Busy
<1> DEFINE OutboxRow == [status : {"NONE", "PENDING", "DISPATCHED", "SUPERSEDED"}, attempts : Nat]
<1>1. \A o \in OutboxRow : /\ [o EXCEPT !.status = "SUPERSEDED"] \in OutboxRow
                           /\ [o EXCEPT !.attempts = @ + 1] \in OutboxRow
                           /\ o.attempts + 1 \in Nat
  OBVIOUS
<1>2. "process" \in Tasks /\ "cancel" \in Tasks
  BY DEF Tasks
<1>3. Add(queue, "process") \in [Tasks -> Task] /\ Add(queue, "cancel") \in [Tasks -> Task]
      /\ Remove(queue, "process") \in [Tasks -> Task]
  BY <1>2, QueueOps
<1>4. CASE Create
  <2>1. \A j \in JobRow, type \in {"IMAGE", "VIDEO"}, v \in BOOLEAN :
           [[[j EXCEPT !.status = "QUEUED"] EXCEPT !.type = type] EXCEPT !.valid = v] \in JobRow
    BY DEF JobRow, Open
  <2>2. [status |-> "RESERVED", charged |-> FALSE] \in HoldRow
    BY DEF HoldRow
  <2>3. job' \in JobRow
    <3>1. PICK type \in Types, v \in BOOLEAN :
             job' = [[[job EXCEPT !.status = "QUEUED"] EXCEPT !.type = type] EXCEPT !.valid = v]
      BY <1>4 DEF Create
    <3>2. type \in {"IMAGE", "VIDEO"}
      BY GenerationAssumption
    <3> QED
      BY <2>1, <3>1, <3>2
  <2>4. outbox' \in OutboxRow
    BY <1>4 DEF Create
  <2> QED
    BY <1>4, <2>2, <2>3, <2>4 DEF Create, actors
<1>5. CASE CancelRead \/ CancelEnqueue \/ CancelRemove
  BY <1>3, <1>5 DEF CancelRead, CancelEnqueue, CancelRemove, rows
<1>6. CASE CancelDirect
  <2>1. [job EXCEPT !.status = "CANCELED"] \in JobRow /\ Releases(hold) \in HoldRow
    BY JobOps DEF Terminal
  <2> QED
    BY <1>1, <1>6, <2>1 DEF CancelDirect
<1>7. CASE DispatchPick \/ DispatchAdd \/ DispatchMark \/ DispatchAddFails \/ DispatchCrash
  <2>1. outbox' \in OutboxRow /\ queue' \in [Tasks -> Task]
    BY <1>1, <1>3, <1>7 DEF DispatchPick, DispatchAdd, DispatchMark, DispatchAddFails, DispatchCrash
  <2>2. dispatcher' \in {"idle", "add", "mark"} /\ faults' \in Nat
    BY <1>7 DEF DispatchPick, DispatchAdd, DispatchMark, DispatchAddFails, DispatchCrash, Dispatcher
  <2>3. UNCHANGED <<job, hold, asset, worker, submitted, client, reconciler, operator>>
    BY <1>7 DEF DispatchPick, DispatchAdd, DispatchMark, DispatchAddFails, DispatchCrash, Dispatcher
  <2> QED
    BY <2>1, <2>2, <2>3
<1>8. CASE ReconcileRead \/ Revive \/ ReplayRead \/ ReplayReset
  BY <1>8 DEF ReconcileRead, Revive, ReplayRead, ReplayReset, rows
<1>9. CASE ForceFail
  <2>1. [job EXCEPT !.status = "FAILED"] \in JobRow /\ Releases(hold) \in HoldRow
    BY JobOps DEF Terminal
  <2> QED
    BY <1>9, <2>1 DEF ForceFail, actors
<1>10. QED
  BY <1>4, <1>5, <1>6, <1>7, <1>8, <1>9 DEF Api, Outbox, Admin

LEMMA StepTyped == ASSUME Typed, NEW w \in Workers, Step(w) PROVE Typed'
<1> USE DEF Typed
<1>0. /\ worker \in [Workers -> Slot] /\ queue \in [Tasks -> Task]
      /\ job \in JobRow /\ hold \in HoldRow /\ submitted \in Nat
      /\ worker[w].at \notin {"idle", "handler", "release"} => worker[w].task \in Tasks
  BY DEF GenerationTypeOK, Busy
<1>01. ASSUME NEW place \in Places, NEW n \in Nat, worker[w].task \in Tasks,
              worker' = [worker EXCEPT ![w].at = place, ![w].provider = n]
       PROVE  worker' \in [Workers -> Slot] /\ Busy'
  <2> DEFINE s == [worker[w] EXCEPT !.at = place, !.provider = n]
  <2>1. s \in Slot /\ s.task \in Tasks
    BY <1>0, <1>01 DEF Slot
  <2>2. worker' = [worker EXCEPT ![w] = s]
    BY <1>0, <1>01
  <2> HIDE DEF s
  <2> QED
    BY <1>0, <2>1, <2>2 DEF Busy
<1>1. ASSUME NEW place \in Places, Goes(w, place), worker[w].task \in Tasks \/ place \in {"release"}
      PROVE  worker' \in [Workers -> Slot] /\ Busy'
  BY <1>0, <1>1, GoesTyped DEF Goes, Busy, Slot
<1>2. ASSUME worker' = [worker EXCEPT ![w] = Idle]
      PROVE  worker' \in [Workers -> Slot] /\ Busy'
  BY <1>0, <1>2, SlotRecords DEF Busy, Idle
<1>3. ASSUME Completes(w), worker[w].task \in Tasks
      PROVE  worker' \in [Workers -> Slot] /\ Busy' /\ queue' \in [Tasks -> Task]
  BY <1>2, <1>3, CompletesTyped DEF Completes
<1>4. ASSUME worker' \in [Workers -> Slot] /\ Busy', queue' \in [Tasks -> Task],
             job' \in JobRow, hold' \in HoldRow, asset' \in BOOLEAN, outbox' = outbox,
             submitted' \in Nat, UNCHANGED <<actors, faults>>
      PROVE  Typed'
  BY <1>4 DEF GenerationTypeOK, actors
<1> USE <1>0
<1>5. CASE Load(w)
  <2>0. worker[w].task \in Tasks
    BY <1>5 DEF Load, At
  <2>1. CASE SkipsLoaded(worker[w].task)
    BY <1>3, <1>4, <1>5, <2>0, <2>1 DEF Load, rows, GenerationTypeOK
  <2>2. CASE ~SkipsLoaded(worker[w].task)
    <3> DEFINE s == [worker[w] EXCEPT !.at = AfterLoad(worker[w].task), !.provider = job.provider]
    <3>1. AfterLoad(worker[w].task) \in Places /\ job.provider \in Nat
      BY DEF AfterLoad, Places, JobRow
    <3>2. worker' = [worker EXCEPT ![w] = s] /\ Stays
      BY <1>5, <2>2 DEF Load
    <3>3. s \in Slot /\ s.task \in Tasks
      BY <2>0, <3>1 DEF Slot
    <3> HIDE DEF s
    <3>4. worker' \in [Workers -> Slot] /\ Busy'
      BY <3>2, <3>3 DEF Busy, GenerationTypeOK
    <3> QED
      BY <1>4, <3>2, <3>4 DEF Stays, rows, GenerationTypeOK
  <2> QED
    BY <2>1, <2>2
<1>6. CASE Run(w)
  <2>0. worker[w].task \in Tasks
    BY <1>6 DEF Run, At
  <2>1. CASE job.status \in Open
    <3>1. AfterRun(w) \in Places
      BY DEF AfterRun, Places
    <3>2. job' \in JobRow
      BY <1>6, <2>1, JobOps DEF Run, Open
    <3>3. worker' \in [Workers -> Slot] /\ Busy'
      BY <1>1, <1>6, <2>0, <2>1, <3>1 DEF Run
    <3> QED
      BY <1>4, <1>6, <2>1, <3>2, <3>3 DEF Run, GenerationTypeOK
  <2>2. CASE job.status \notin Open
    BY <1>3, <1>4, <1>6, <2>0, <2>2 DEF Run, rows, GenerationTypeOK
  <2> QED
    BY <2>1, <2>2
<1>7. CASE Call(w)
  <2>0. worker[w].task \in Tasks
    BY <1>7 DEF Call, At
  <2>1. CASE Goes(w, "throw") /\ UNCHANGED submitted
    <3>1. worker' \in [Workers -> Slot] /\ Busy'
      BY <1>1, <2>0, <2>1 DEF Places
    <3> QED
      BY <1>4, <1>7, <2>1, <3>1 DEF Call, rows, GenerationTypeOK
  <2>2. CASE /\ submitted' = submitted + 1
             /\ worker' = [worker EXCEPT ![w].at = IF job.type = "IMAGE" THEN "ingest" ELSE "persist",
                                         ![w].provider = submitted + 1]
    <3> DEFINE place == IF job.type = "IMAGE" THEN "ingest" ELSE "persist"
               n == submitted + 1
    <3>1. place \in Places /\ place # "idle"
      BY DEF Places
    <3>2. n \in Nat
      OBVIOUS
    <3>3. worker' = [worker EXCEPT ![w].at = place, ![w].provider = n]
      BY <2>2
    <3> HIDE DEF place, n
    <3>4. worker' \in [Workers -> Slot] /\ Busy'
      BY <1>01, <2>0, <3>1, <3>2, <3>3
    <3> QED
      BY <1>4, <1>7, <2>2, <3>4 DEF Call, rows, GenerationTypeOK
  <2> QED
    BY <1>7, <2>1, <2>2 DEF Call
<1>8. CASE Persist(w)
  <2>0. worker[w].task \in Tasks /\ worker[w].provider \in Nat
    BY <1>8 DEF Persist, At, Slot
  <2>1. job' \in JobRow
    BY <1>8, <2>0, JobOps DEF Persist
  <2> DEFINE n == job'.provider
  <2>2. n \in Nat
    BY <2>1 DEF JobRow
  <2>3. worker' = [worker EXCEPT ![w].at = "enqueue", ![w].provider = n]
    BY <1>8 DEF Persist
  <2> HIDE DEF n
  <2>4. worker' \in [Workers -> Slot] /\ Busy'
    BY <1>01, <2>0, <2>2, <2>3 DEF Places
  <2> QED
    BY <1>4, <1>8, <2>1, <2>4 DEF Persist, GenerationTypeOK
<1>9. CASE Enqueue(w)
  <2>1. worker' \in [Workers -> Slot] /\ Busy'
    BY <1>1, <1>9 DEF Enqueue, At, Places
  <2>2. queue' \in [Tasks -> Task]
    <3>1. PICK p \in Polls : queue' = Add(queue, p)
      BY <1>9 DEF Enqueue
    <3>2. p \in Tasks
      BY DEF Tasks
    <3> QED
      BY <1>4, <3>1, <3>2, QueueOps
  <2> QED
    BY <1>4, <1>9, <2>1, <2>2 DEF Enqueue, rows, GenerationTypeOK
<1>10. CASE Done(w)
  <2>1. worker[w].task \in Tasks
    BY <1>10 DEF Done, At
  <2> QED
    BY <1>3, <1>4, <1>10, <2>1 DEF Done, rows, GenerationTypeOK
<1>11. CASE Status(w) \/ Ingest(w)
  <2>1. worker' \in [Workers -> Slot] /\ Busy'
    BY <1>1, <1>11 DEF Status, Ingest, At, Places
  <2> QED
    BY <1>4, <1>11, <2>1 DEF Status, Ingest, Stays, rows, GenerationTypeOK
<1>12. CASE Count(w)
  <2>1. worker' \in [Workers -> Slot] /\ Busy'
    BY <1>1, <1>12 DEF Count, At, Places
  <2>2. job.polls + 1 \in Nat
    BY DEF JobRow
  <2>3. job' \in JobRow
    BY <1>12, <2>2, JobOps DEF Count
  <2> QED
    BY <1>4, <1>12, <2>1, <2>3 DEF Count, GenerationTypeOK
<1>13. CASE Finalize(w)
  <2>1. worker' \in [Workers -> Slot] /\ Busy'
    BY <1>1, <1>13 DEF Finalize, At, Places
  <2>2. job' \in JobRow /\ hold' \in HoldRow
    BY <1>13, JobOps DEF Finalize, Terminal
  <2> QED
    BY <1>4, <1>13, <2>1, <2>2 DEF Finalize, GenerationTypeOK
<1>14. CASE Fail(w) \/ Cancel(w)
  <2>1. worker' \in [Workers -> Slot] /\ Busy'
    BY <1>1, <1>14 DEF Fail, Cancel, At, Places
  <2> QED
    BY <1>4, <1>14, <2>1, JobOps DEF Fail, Cancel, GenerationTypeOK
<1>15. CASE Throw(w)
  <2>0. worker[w].task \in Tasks
    BY <1>15 DEF Throw, At
  <2>1. worker' \in [Workers -> Slot] /\ Busy'
    <3>1. CASE worker' = [worker EXCEPT ![w] = Idle]
      BY <1>2, <3>1
    <3>2. CASE worker' = [worker EXCEPT ![w] = [Idle EXCEPT !.at = "handler"]]
      <4> DEFINE s == [Idle EXCEPT !.at = "handler"]
      <4>1. s \in Slot
        BY SlotRecords
      <4>2. s.at = "handler"
        BY DEF Idle
      <4>3. worker' = [worker EXCEPT ![w] = s]
        BY <3>2
      <4> HIDE DEF s
      <4> QED
        BY <4>1, <4>2, <4>3 DEF Busy
    <3> QED
      BY <1>15, <3>1, <3>2 DEF Throw
  <2>2. queue' \in [Tasks -> Task]
    <3> DEFINE t == worker[w].task
               made == queue[t].made + 1
               q == [queue EXCEPT ![t].made = made]
    <3>1. made \in Nat /\ queue[t] \in Task
      BY <2>0 DEF Task
    <3>2. q \in [Tasks -> Task]
      BY <2>0, <3>1, TaskRecords
    <3>3. [queue EXCEPT ![t].made = made, ![t].state = "waiting"] \in [Tasks -> Task]
      BY <2>0, <3>1, TaskRecords DEF TaskStates
    <3>4. \/ queue' = queue
          \/ queue' = Ended(q, t, "failed")
          \/ queue' = [queue EXCEPT ![t].made = made, ![t].state = "waiting"]
      BY <1>15 DEF Throw
    <3> HIDE DEF q, made, t
    <3>5. Ended(q, t, "failed") \in [Tasks -> Task]
      BY <2>0, <3>2, QueueOps DEF t
    <3> QED
      BY <3>3, <3>4, <3>5
  <2> QED
    BY <1>4, <1>15, <2>1, <2>2 DEF Throw, rows, GenerationTypeOK
<1>16. CASE HandlerLoad(w)
  <2>1. worker' \in [Workers -> Slot] /\ Busy'
    BY <1>1, <1>2, <1>16 DEF HandlerLoad, Places
  <2> QED
    BY <1>4, <1>16, <2>1 DEF HandlerLoad, Stays, rows, GenerationTypeOK
<1>17. CASE HandlerRelease(w)
  <2>1. worker' \in [Workers -> Slot] /\ Busy'
    BY <1>2, <1>17 DEF HandlerRelease
  <2> QED
    BY <1>4, <1>17, <2>1, JobOps DEF HandlerRelease, GenerationTypeOK
<1>18. QED
  BY <1>5, <1>6, <1>7, <1>8, <1>9, <1>10, <1>11, <1>12, <1>13, <1>14, <1>15, <1>16, <1>17 DEF Step

LEMMA QueueTyped == Typed /\ ((\E w \in Workers, t \in Tasks : Take(w, t) \/ Stalled(w, t)) \/ Fault) => Typed'
<1> SUFFICES ASSUME Typed, (\E w \in Workers, t \in Tasks : Take(w, t) \/ Stalled(w, t)) \/ Fault
             PROVE  Typed'
  OBVIOUS
<1>0. worker \in [Workers -> Slot] /\ queue \in [Tasks -> Task] /\ Busy /\ GenerationTypeOK
  BY DEF Typed, GenerationTypeOK
<1>1. ASSUME worker' \in [Workers -> Slot], Busy', queue' \in [Tasks -> Task],
             UNCHANGED <<rows, submitted, actors>>, faults' \in Nat
      PROVE  Typed'
  BY <1>0, <1>1 DEF Typed, GenerationTypeOK, rows, actors
<1>2. faults \in Nat
  BY <1>0 DEF GenerationTypeOK
<1>3. ASSUME NEW w \in Workers, NEW s \in Slot, worker' = [worker EXCEPT ![w] = s],
             s.at \notin {"idle", "handler", "release"} => s.task \in Tasks
      PROVE  worker' \in [Workers -> Slot] /\ Busy'
  BY <1>0, <1>3 DEF Busy
<1>4. ASSUME NEW w \in Workers, NEW t \in Tasks, Take(w, t) PROVE Typed'
  <2> DEFINE s == [at |-> "load", task |-> t, owns |-> TRUE, provider |-> 0]
  <2>1. s \in Slot /\ s.task \in Tasks
    BY DEF Slot, Places
  <2>2. worker' = [worker EXCEPT ![w] = s]
    BY <1>4 DEF Take
  <2> HIDE DEF s
  <2>3. worker' \in [Workers -> Slot] /\ Busy'
    BY <1>3, <2>1, <2>2
  <2>4. queue' \in [Tasks -> Task]
    BY <1>0, <1>4, TaskRecords DEF Take, TaskStates
  <2> QED
    BY <1>1, <1>2, <1>4, <2>3, <2>4 DEF Take
<1>5. ASSUME NEW w \in Workers, NEW t \in Tasks, Stalled(w, t) PROVE Typed'
  <2>1. worker' \in [Workers -> Slot] /\ Busy'
    <3>1. CASE worker' = worker
      BY <1>0, <3>1 DEF Busy
    <3>2. CASE Goes(w, "handler")
      <4> DEFINE s == [worker[w] EXCEPT !.at = "handler"]
      <4>1. s \in Slot /\ s.at = "handler"
        BY <1>0 DEF Slot, Places
      <4>2. worker' = [worker EXCEPT ![w] = s]
        BY <1>0, <3>2 DEF Goes
      <4> HIDE DEF s
      <4> QED
        BY <1>3, <4>1, <4>2
    <3> QED
      BY <1>5, <3>1, <3>2 DEF Stalled
  <2>2. queue' \in [Tasks -> Task]
    <3>1. CASE queue' = Ended(queue, t, "failed")
      BY <1>0, <3>1, QueueOps
    <3>2. CASE queue' = [queue EXCEPT ![t].state = "waiting", ![t].stalls = 1]
      <4> DEFINE r == [queue[t] EXCEPT !.state = "waiting", !.stalls = 1]
      <4>1. r \in Task
        <5>1. queue[t] \in Task
          BY <1>0
        <5>2. "waiting" \in TaskStates
          BY DEF TaskStates
        <5> QED
          BY <5>1, <5>2, TaskRecords
      <4>2. queue' = [queue EXCEPT ![t] = r]
        BY <1>0, <3>2
      <4> HIDE DEF r
      <4> QED
        BY <1>0, <4>1, <4>2
    <3> QED
      BY <1>5, <3>1, <3>2 DEF Stalled
  <2> QED
    BY <1>1, <1>2, <1>5, <2>1, <2>2 DEF Stalled
<1>6. ASSUME NEW w \in Workers, Crash(w) \/ Error(w) \/ LoseLock(w) PROVE Typed'
  <2>1. UNCHANGED <<rows, submitted, actors, queue>> /\ faults' \in Nat
    BY <1>2, <1>6 DEF Crash, Error, LoseLock, Faulty
  <2>2. worker' \in [Workers -> Slot] /\ Busy'
    <3>1. CASE worker' = [worker EXCEPT ![w] = Idle]
      BY <1>3, <3>1, SlotRecords DEF Idle
    <3>2. CASE worker' = [worker EXCEPT ![w] = [@ EXCEPT !.at = "throw"]] /\ Error(w) /\ ~InHandler(w)
      <4> DEFINE s == [worker[w] EXCEPT !.at = "throw"]
      <4>1. worker[w] \in Slot /\ worker[w].task \in Tasks
        BY <1>0, <3>2 DEF Error, InHandler, Busy
      <4>2. s \in Slot /\ s.task \in Tasks
        BY <4>1 DEF Slot, Places
      <4> HIDE DEF s
      <4> QED
        BY <1>3, <3>2, <4>2 DEF s
    <3>3. CASE worker' = [worker EXCEPT ![w].owns = FALSE]
      <4> DEFINE s == [worker[w] EXCEPT !.owns = FALSE]
      <4>1. worker[w] \in Slot
        BY <1>0
      <4>2. s \in Slot /\ s.at = worker[w].at /\ s.task = worker[w].task
        BY <4>1 DEF Slot
      <4>3. worker' = [worker EXCEPT ![w] = s]
        BY <3>3
      <4> HIDE DEF s
      <4> QED
        BY <1>0, <1>3, <4>2, <4>3 DEF Busy
    <3> QED
      BY <1>6, <3>1, <3>2, <3>3 DEF Crash, Error, LoseLock
  <2> QED
    BY <1>0, <1>1, <2>1, <2>2
<1>7. ASSUME NEW t \in Tasks, Evict(t) PROVE Typed'
  <2>1. queue' \in [Tasks -> Task]
    BY <1>0, <1>7, TaskRecords DEF Evict
  <2>2. worker' = worker /\ UNCHANGED <<rows, submitted, actors>> /\ faults' \in Nat
    BY <1>2, <1>7 DEF Evict, Faulty
  <2> QED
    BY <1>0, <1>1, <2>1, <2>2 DEF Busy
<1>8. QED
  BY <1>4, <1>5, <1>6, <1>7 DEF Fault

LEMMA NextTyped == Typed /\ [Next]_vars => Typed'
<1>1. CASE UNCHANGED vars
  BY <1>1 DEF vars, rows, actors, Typed, GenerationTypeOK, Busy
<1>2. QED
  BY <1>1, ApiTyped, StepTyped, QueueTyped DEF Next, Consume

(* Every variable keeps its type, for any number of workers and faults.      *)
THEOREM GenerationTypes == Spec => []GenerationTypeOK
<1>1. Init => Typed
  BY GenInit DEF Typed, Busy, Init, Idle
<1>2. Typed => GenerationTypeOK
  BY DEF Typed
<1>3. QED
  BY <1>1, <1>2, NextTyped, PTL DEF Spec

-----------------------------------------------------------------------------
(* The money.                                                                *)

(* Every step is one of the transactions of MoneyStep as far as the job, its *)
(* reservation and its asset are concerned.                                  *)
LEMMA StepIsMoneyStep == ASSUME Typed, NEW w \in Workers, Step(w) PROVE MoneyStep
<1>0. worker[w].provider \in Nat /\ job.polls + 1 \in Nat
  BY DEF Typed, GenerationTypeOK, Slot, JobRow
<1> USE DEF MoneyStep
<1>1. CASE Load(w) \/ Call(w) \/ Enqueue(w) \/ Done(w) \/ Status(w) \/ Ingest(w) \/ Throw(w) \/ HandlerLoad(w)
  BY <1>1 DEF Load, Call, Enqueue, Done, Status, Ingest, Throw, HandlerLoad, Stays, rows, Kept
<1>2. CASE Run(w)
  BY <1>2 DEF Run, rows, Kept, Started
<1>3. CASE Persist(w) \/ Count(w)
  <2>1. \/ job' = job
        \/ \E n \in Nat : job' = [job EXCEPT !.provider = n] \/ job' = [job EXCEPT !.polls = n]
    BY <1>0, <1>3 DEF Persist, Count
  <2> QED
    BY <1>3, <2>1 DEF Persist, Count, Kept
<1>4. CASE Finalize(w)
  BY <1>4 DEF Finalize, Delivered, Kept
<1>5. CASE Fail(w) \/ Cancel(w) \/ HandlerRelease(w)
  BY <1>5 DEF Fail, Cancel, HandlerRelease, EndedBy
<1>6. QED
  BY <1>1, <1>2, <1>3, <1>4, <1>5 DEF Step

LEMMA NextIsMoneyStep == Typed /\ CreditsFollowJob /\ [Next]_vars => MoneyStep
<1> SUFFICES ASSUME Typed, CreditsFollowJob, [Next]_vars PROVE MoneyStep
  OBVIOUS
<1> USE DEF MoneyStep
<1>1. CASE UNCHANGED vars
  BY <1>1 DEF vars, rows, Kept
<1>2. CASE Create
  BY <1>2 DEF Create, Created
<1>3. CASE CancelDirect
  <2>1. CASE job.status = "QUEUED"
    BY <1>3, <2>1 DEF CancelDirect, EndedBy, EndedAs, Open
  <2>2. CASE job.status # "QUEUED"
    BY <1>3, <2>2 DEF CancelDirect, Kept
  <2> QED
    BY <2>1, <2>2
<1>4. CASE ForceFail
  BY <1>4 DEF ForceFail, EndedBy, EndedAs, CreditsFollowJob
<1>5. CASE CancelRead \/ CancelEnqueue \/ CancelRemove \/ Outbox \/ ReplayRead \/ ReplayReset
  BY <1>5 DEF CancelRead, CancelEnqueue, CancelRemove, Outbox, DispatchPick, DispatchAdd, DispatchMark,
              DispatchAddFails, DispatchCrash, Dispatcher, ReconcileRead, Revive, ReplayRead,
              ReplayReset, rows, Kept
<1>6. CASE \E w \in Workers : Step(w)
  BY <1>6, StepIsMoneyStep
<1>7. CASE (\E w \in Workers, t \in Tasks : Take(w, t) \/ Stalled(w, t)) \/ Fault
  BY <1>7 DEF Take, Stalled, Fault, Crash, Error, LoseLock, Evict, Faulty, rows, Kept
<1>8. QED
  BY <1>1, <1>2, <1>3, <1>4, <1>5, <1>6, <1>7 DEF Next, Api, Admin, Consume

(* The invariant that carries the theorems below.                            *)
LEMMA MoneyInductive == Money /\ MoneyStep => Money'
<1> SUFFICES ASSUME Money, MoneyStep PROVE Money'
  OBVIOUS
<1>0. job \in JobRow /\ hold \in HoldRow /\ asset \in BOOLEAN
  BY DEF Money, MoneyTypes
<1> USE DEF Money, MoneyTypes, NothingBefore, CreditsFollowJob, DeliveredIffCharged
<1>1. CASE Created
  <2>1. job' \in JobRow /\ job'.status = "QUEUED"
    <3>1. \A type \in Types, v \in BOOLEAN :
             LET j == [job EXCEPT !.status = "QUEUED", !.type = type, !.valid = v]
             IN  j \in JobRow /\ j.status = "QUEUED"
      BY <1>0, GenerationAssumption DEF JobRow, Open
    <3> QED
      BY <1>1, <3>1 DEF Created
  <2>2. hold' = [status |-> "RESERVED", charged |-> FALSE] /\ ~asset' /\ asset' \in BOOLEAN
    BY <1>0, <1>1 DEF Created
  <2> QED
    BY <2>1, <2>2 DEF HoldRow, Open
<1>2. CASE Started
  <2>1. job' \in JobRow /\ job'.status = "RUNNING"
    BY <1>0, <1>2 DEF Started, JobRow, Open
  <2> QED
    BY <1>2, <2>1 DEF Started, Open
<1>3. CASE Delivered
  <2>1. job' \in JobRow /\ job'.status = "SUCCEEDED"
    BY <1>0, <1>3 DEF Delivered, JobRow, Terminal
  <2>2. hold' \in HoldRow /\ hold'.charged = TRUE /\ asset' = TRUE
    BY <1>3 DEF Delivered, Settles, HoldRow
  <2> QED
    BY <2>1, <2>2 DEF Open
<1>4. ASSUME NEW status \in {"FAILED", "CANCELED"}, EndedBy(status) PROVE Money'
  <2>1. hold' = [hold EXCEPT !.status = "RELEASED"] /\ asset' = asset
    BY <1>4 DEF EndedBy, Releases
  <2>2. hold' \in HoldRow /\ hold'.charged = hold.charged /\ hold'.status = "RELEASED"
    BY <1>0, <2>1 DEF HoldRow
  <2>5. hold' = [status |-> "RELEASED", charged |-> hold.charged]
    BY <2>2 DEF HoldRow
  <2>3. CASE job.status \in Open
    <3>1. job' \in JobRow /\ job'.status = status
      BY <1>0, <1>4, <2>3 DEF EndedBy, EndedAs, JobRow, Terminal
    <3>2. hold = [status |-> "RESERVED", charged |-> FALSE]
      BY <2>3
    <3>3. hold.charged = FALSE
      BY <3>2
    <3>4. hold' = [status |-> "RELEASED", charged |-> FALSE]
      BY <2>5, <3>3
    <3> QED
      BY <1>0, <2>1, <2>2, <2>3, <3>1, <3>3, <3>4 DEF Open
  <2>4. CASE job.status \notin Open
    <3>1. job' = job
      BY <1>4, <2>4 DEF EndedBy, EndedAs
    <3>2. ASSUME job.status \in {"FAILED", "CANCELED"}
          PROVE  hold' = [status |-> "RELEASED", charged |-> FALSE]
      <4>1. hold = [status |-> "RELEASED", charged |-> FALSE]
        BY <3>2
      <4>2. hold.charged = FALSE
        BY <4>1
      <4> QED
        BY <2>5, <4>2
    <3> QED
      BY <1>0, <2>1, <2>2, <2>4, <3>1, <3>2
  <2> QED
    BY <2>3, <2>4
<1>5. CASE Kept
  <2>1. job' \in JobRow /\ job'.status = job.status
    BY <1>0, <1>5 DEF Kept, JobRow
  <2> QED
    BY <1>5, <2>1 DEF Kept
<1>6. QED
  BY <1>1, <1>2, <1>3, <1>4, <1>5 DEF MoneyStep

LEMMA MoneyInvariant == Spec => [](Typed /\ Money)
<1>1. Init => Typed
  BY GenInit DEF Typed, Busy, Init, Idle
<1>2. Init => Money
  <2> SUFFICES ASSUME Init PROVE Money
    OBVIOUS
  <2>1. MoneyTypes
    BY DEF Init, MoneyTypes, JobRow, HoldRow
  <2>2. job.status = "NONE" /\ hold.charged = FALSE /\ asset = FALSE
    BY DEF Init
  <2> QED
    BY <2>1, <2>2 DEF Money, NothingBefore, CreditsFollowJob, DeliveredIffCharged, Open
<1>3. Typed /\ Money /\ [Next]_vars => (Typed /\ Money)'
  BY NextTyped, NextIsMoneyStep, MoneyInductive DEF Money
<1>4. QED
  BY <1>1, <1>2, <1>3, PTL DEF Spec

(* Through any interleaving, any number of crashes, lost locks, retries and  *)
(* replays: held while the job is open, captured when it succeeded, given    *)
(* back when it failed or was cancelled.                                     *)
THEOREM CreditsAlwaysFollowTheJob == Spec => []CreditsFollowJob
<1>1. Money => CreditsFollowJob
  BY DEF Money
<1>2. QED
  BY <1>1, MoneyInvariant, PTL

(* An asset exists exactly when the user was charged.                        *)
THEOREM DeliveryAndChargeGoTogether == Spec => []DeliveredIffCharged
<1>1. Money => DeliveredIffCharged
  BY DEF Money
<1>2. QED
  BY <1>1, MoneyInvariant, PTL

-----------------------------------------------------------------------------
(* What a step means for the slots of the workers and for the queue.         *)

InTask(s) == s.at \notin {"idle", "handler", "release"}
Moves(w, s) == worker' = [worker EXCEPT ![w] = s]

(* From place to place within a task.                                        *)
Edges ==
    {<<"load", "run">>, <<"load", "status">>, <<"load", "cancel">>,
     <<"run", "fail">>, <<"run", "enqueue">>, <<"run", "call">>,
     <<"call", "ingest">>, <<"call", "persist">>, <<"call", "throw">>,
     <<"persist", "enqueue">>,
     <<"status", "count">>, <<"status", "ingest">>, <<"status", "fail">>,
     <<"count", "enqueue">>, <<"count", "fail">>,
     <<"ingest", "finalize">>, <<"ingest", "fail">>, <<"ingest", "throw">>,
     <<"finalize", "done">>, <<"finalize", "throw">>,
     <<"fail", "done">>, <<"cancel", "done">>}

StepsOn(w, s) ==
    /\ queue' = queue
    /\ s.task = worker[w].task /\ s.owns = worker[w].owns
    /\ <<worker[w].at, s.at>> \in Edges
    /\ worker[w].at = "load" =>
          /\ ~isTerminal(job.status)
          /\ s.task = "cancel" <=> s.at = "cancel"
          /\ s.at = "status" => s.task \in Polls /\ job.provider # 0 /\ job.status = "RUNNING"
          /\ s.provider = job.provider
    /\ worker[w].at = "run" =>
          /\ job.status \in Open /\ job'.status = "RUNNING"
          /\ s.at = "enqueue" => worker[w].provider # 0
    /\ s.at = "persist" => s.provider # 0
    /\ worker[w].at = "persist" /\ worker[w].provider # 0 => job'.provider # 0

(* The next poll is added.                                                   *)
AddsPoll(w, s) ==
    /\ worker[w].at = "enqueue" /\ s.at = "done"
    /\ s.task = worker[w].task /\ s.owns = worker[w].owns
    /\ \E p \in Polls :
          /\ queue[p].state = "absent" /\ queue'[p].state = "waiting"
          /\ \A t \in Tasks : t # p => queue'[t] = queue[t]

(* The task is over, or is tried again.                                      *)
Leaves(w, s) ==
    /\ worker[w].at \in {"load", "run", "done", "throw"}
    /\ s.at \in {"idle", "handler"} /\ ~s.owns /\ s.task = "none"
    /\ ~worker[w].owns => queue' = queue
    /\ worker[w].owns =>
          /\ \A t \in Tasks : t # worker[w].task => queue'[t] = queue[t]
          /\ IF worker[w].task \in Polls
             THEN queue'[worker[w].task].state = "absent"
             ELSE \/ queue'[worker[w].task].state \in {"completed", "failed"}
                  \/ queue'[worker[w].task].state = "waiting" /\ worker[w].at = "throw"

(* The failed handler goes on.                                               *)
Handles(w, s) ==
    /\ ~InTask(worker[w]) /\ ~InTask(s)
    /\ queue' = queue
    /\ s = Idle \/ (s.task = worker[w].task /\ s.owns = worker[w].owns)

WorkerStep(w, s) == StepsOn(w, s) \/ AddsPoll(w, s) \/ Leaves(w, s) \/ Handles(w, s)

LEMMA TaskNames == "process" \notin Polls /\ "cancel" \notin Polls /\ "none" \notin Polls
BY GenerationAssumption

(* A worker that goes to another place of its task.                          *)
LEMMA GoesSlot ==
    ASSUME Typed, NEW w \in Workers, NEW place \in Places, Goes(w, place)
    PROVE  \E s \in Slot :
              /\ Moves(w, s) /\ s.at = place /\ s.task = worker[w].task
              /\ s.owns = worker[w].owns /\ s.provider = worker[w].provider
<1> DEFINE s == [worker[w] EXCEPT !.at = place]
<1>1. worker \in [Workers -> Slot] /\ worker[w] \in Slot
  BY DEF Typed, GenerationTypeOK
<1>2. /\ s \in Slot /\ s.at = place /\ s.task = worker[w].task
      /\ s.owns = worker[w].owns /\ s.provider = worker[w].provider
  BY <1>1 DEF Slot
<1>3. Moves(w, s)
  BY DEF Goes, Moves
<1> HIDE DEF s
<1>4. QED
  BY <1>2, <1>3

(* A worker that goes to another place with a provider's id.                 *)
Carries(w, place, n) == worker' = [worker EXCEPT ![w].at = place, ![w].provider = n]

LEMMA CarriesSlot ==
    ASSUME Typed, NEW w \in Workers, NEW place \in Places, NEW n \in Nat, Carries(w, place, n)
    PROVE  \E s \in Slot :
              /\ Moves(w, s) /\ s.at = place /\ s.task = worker[w].task
              /\ s.owns = worker[w].owns /\ s.provider = n
<1> DEFINE s == [worker[w] EXCEPT !.at = place, !.provider = n]
<1>1. worker \in [Workers -> Slot] /\ worker[w] \in Slot
  BY DEF Typed, GenerationTypeOK
<1>2. /\ s \in Slot /\ s.at = place /\ s.task = worker[w].task
      /\ s.owns = worker[w].owns /\ s.provider = n
  BY <1>1 DEF Slot
<1>3. Moves(w, s)
  BY <1>1 DEF Carries, Moves
<1> HIDE DEF s
<1>4. QED
  BY <1>2, <1>3

(* What a task's end, in any state, does to the queue.                       *)
LEMMA EndedFields ==
    ASSUME NEW q \in [Tasks -> Task], NEW t \in Tasks, NEW st \in {"completed", "failed"}
    PROVE  /\ \A u \in Tasks : u # t => Ended(q, t, st)[u] = q[u]
           /\ Ended(q, t, st)[t].state = IF t \in Polls THEN "absent" ELSE st
BY DEF Ended, NoTask, Task

LEMMA CompletesLeaves ==
    ASSUME Typed, NEW w \in Workers, Completes(w), InTask(worker[w]),
           worker[w].at \in {"load", "run", "done", "throw"}
    PROVE  \E s \in Slot : Moves(w, s) /\ WorkerStep(w, s)
<1>1. queue \in [Tasks -> Task] /\ worker[w].task \in Tasks
  BY DEF Typed, GenerationTypeOK, Busy, InTask
<1>2. /\ \A u \in Tasks : u # worker[w].task => Ended(queue, worker[w].task, "completed")[u] = queue[u]
      /\ Ended(queue, worker[w].task, "completed")[worker[w].task].state
             = IF worker[w].task \in Polls THEN "absent" ELSE "completed"
  BY <1>1, EndedFields
<1>3. Leaves(w, Idle)
  BY <1>2 DEF Leaves, Completes, Idle
<1>4. Idle \in Slot /\ Moves(w, Idle)
  BY SlotRecords DEF Completes, Moves
<1>5. QED
  BY <1>3, <1>4 DEF WorkerStep

LEMMA WorkerMeaning ==
    ASSUME Typed, NEW w \in Workers, Step(w)
    PROVE  \E s \in Slot : Moves(w, s) /\ WorkerStep(w, s)
<1>0. /\ worker \in [Workers -> Slot] /\ queue \in [Tasks -> Task] /\ job \in JobRow
      /\ worker[w] \in Slot /\ submitted \in Nat
      /\ InTask(worker[w]) => worker[w].task \in Tasks
  BY DEF Typed, GenerationTypeOK, Busy, InTask
<1>1. ASSUME NEW a \in Places, NEW b \in Places, worker[w].at = a, a \notin {"load", "run", "persist"},
             b # "persist", <<a, b>> \in Edges, Goes(w, b), queue' = queue
      PROVE  \E s \in Slot : Moves(w, s) /\ WorkerStep(w, s)
  <2>1. PICK s \in Slot : /\ Moves(w, s) /\ s.at = b /\ s.task = worker[w].task
                          /\ s.owns = worker[w].owns
    BY <1>1, GoesSlot
  <2>2. StepsOn(w, s)
    BY <1>1, <2>1 DEF StepsOn
  <2> QED
    BY <2>1, <2>2 DEF WorkerStep
<1>2. CASE Load(w)
  <2>1. CASE SkipsLoaded(worker[w].task)
    BY <1>2, <2>1, CompletesLeaves DEF Load, At, InTask
  <2>2. CASE ~SkipsLoaded(worker[w].task)
    <3> DEFINE a == AfterLoad(worker[w].task)
    <3>1. job.provider \in Nat /\ a \in {"cancel", "status", "run"}
          /\ (worker[w].task = "cancel" <=> a = "cancel")
          /\ (a = "status" => worker[w].task \in Polls /\ job.provider # 0)
      BY <1>0, TaskNames DEF AfterLoad, JobRow
    <3>2. Carries(w, a, job.provider) /\ queue' = queue
      BY <1>2, <2>2 DEF Load, Stays, Carries
    <3>3. ~isTerminal(job.status) /\ (worker[w].task \in Polls => job.status = "RUNNING")
      BY <2>2 DEF SkipsLoaded
    <3> HIDE DEF a
    <3>4. PICK s \in Slot : /\ Moves(w, s) /\ s.at = a /\ s.task = worker[w].task
                            /\ s.owns = worker[w].owns /\ s.provider = job.provider
      <4>1. a \in Places
        BY <3>1 DEF Places
      <4> QED
        BY <3>1, <3>2, <4>1, CarriesSlot
    <3>5. worker[w].at = "load" /\ <<"load", a>> \in Edges
      BY <1>2, <3>1 DEF Load, At, Edges
    <3>6. StepsOn(w, s)
      BY <3>1, <3>2, <3>3, <3>4, <3>5 DEF StepsOn
    <3> QED
      BY <3>4, <3>6 DEF WorkerStep
  <2> QED
    BY <2>1, <2>2
<1>3. CASE Run(w)
  <2>1. CASE job.status \in Open
    <3> DEFINE a == AfterRun(w)
    <3>1. a \in {"fail", "enqueue", "call"} /\ (a = "enqueue" => worker[w].provider # 0)
      BY DEF AfterRun
    <3>2. worker[w].at = "run" /\ Goes(w, a) /\ queue' = queue /\ job'.status = "RUNNING"
      BY <1>0, <1>3, <2>1 DEF Run, At, JobRow
    <3> HIDE DEF a
    <3>3. a \in Places /\ <<"run", a>> \in Edges
      BY <3>1 DEF Places, Edges
    <3>4. PICK s \in Slot : /\ Moves(w, s) /\ s.at = a /\ s.task = worker[w].task
                            /\ s.owns = worker[w].owns
      BY <3>2, <3>3, GoesSlot
    <3>5. StepsOn(w, s)
      BY <2>1, <3>1, <3>2, <3>3, <3>4 DEF StepsOn
    <3> QED
      BY <3>4, <3>5 DEF WorkerStep
  <2>2. CASE job.status \notin Open
    BY <1>3, <2>2, CompletesLeaves DEF Run, At, InTask
  <2> QED
    BY <2>1, <2>2
<1>4. CASE Call(w)
  <2>1. CASE Goes(w, "throw")
    BY <1>1, <1>4, <2>1 DEF Call, At, Places, Edges
  <2>2. CASE worker' = [worker EXCEPT ![w].at = IF job.type = "IMAGE" THEN "ingest" ELSE "persist",
                                      ![w].provider = submitted + 1]
    <3> DEFINE a == IF job.type = "IMAGE" THEN "ingest" ELSE "persist"
               n == submitted + 1
    <3>1. a \in {"ingest", "persist"} /\ a \in Places /\ n \in Nat /\ n # 0
      BY <1>0 DEF Places
    <3>2. Carries(w, a, n)
      BY <2>2 DEF Carries
    <3> HIDE DEF a, n
    <3>3. PICK s \in Slot : /\ Moves(w, s) /\ s.at = a /\ s.task = worker[w].task
                            /\ s.owns = worker[w].owns /\ s.provider = n
      BY <3>1, <3>2, CarriesSlot
    <3>4. worker[w].at = "call" /\ queue' = queue /\ <<"call", a>> \in Edges
      BY <1>4, <3>1 DEF Call, At, Edges
    <3>5. StepsOn(w, s)
      BY <3>1, <3>3, <3>4 DEF StepsOn
    <3> QED
      BY <3>3, <3>5 DEF WorkerStep
  <2> QED
    BY <1>4, <2>1, <2>2 DEF Call
<1>5. CASE Persist(w)
  <2>1. job' \in JobRow /\ (worker[w].provider # 0 => job'.provider # 0)
    BY <1>0, <1>5 DEF Persist, JobRow, Slot
  <2>2. PICK n \in Nat : n = job'.provider
    BY <2>1 DEF JobRow
  <2> DEFINE a == "enqueue"
  <2>3. a \in Places /\ a = "enqueue" /\ n \in Nat
    BY DEF Places
  <2> HIDE DEF a
  <2>4. PICK s \in Slot : /\ Moves(w, s) /\ s.at = a /\ s.task = worker[w].task
                          /\ s.owns = worker[w].owns /\ s.provider = n
    <3>1. Carries(w, a, n)
      BY <1>5, <2>2, <2>3 DEF Persist, Carries
    <3> QED
      BY <2>3, <3>1, CarriesSlot
  <2>5. worker[w].at = "persist" /\ queue' = queue /\ <<"persist", "enqueue">> \in Edges
    BY <1>5 DEF Persist, At, Edges
  <2>6. StepsOn(w, s)
    BY <2>1, <2>3, <2>4, <2>5 DEF StepsOn
  <2> QED
    BY <2>4, <2>6 DEF WorkerStep
<1>6. CASE Enqueue(w)
  <2>1. PICK s \in Slot : /\ Moves(w, s) /\ s.at = "done" /\ s.task = worker[w].task
                          /\ s.owns = worker[w].owns
    BY <1>6, GoesSlot DEF Enqueue, Places
  <2>2. PICK p \in Polls : queue[p].state = "absent" /\ queue' = Add(queue, p)
    BY <1>6 DEF Enqueue
  <2>3. queue'[p].state = "waiting" /\ \A t \in Tasks : t # p => queue'[t] = queue[t]
    <3>1. p \in Tasks /\ queue[p] \in Task
      BY <1>0 DEF Tasks
    <3>2. queue' = [queue EXCEPT ![p].state = "waiting"]
      BY <2>2 DEF Add
    <3> QED
      BY <1>0, <3>1, <3>2 DEF Task
  <2>4. AddsPoll(w, s)
    BY <1>6, <2>1, <2>2, <2>3 DEF AddsPoll, Enqueue, At
  <2> QED
    BY <2>1, <2>4 DEF WorkerStep
<1>7. CASE Done(w)
  BY <1>7, CompletesLeaves DEF Done, At, InTask
<1>8. CASE Status(w) \/ Count(w) \/ Ingest(w) \/ Finalize(w) \/ Fail(w) \/ Cancel(w)
  BY <1>1, <1>8 DEF Status, Count, Ingest, Finalize, Fail, Cancel, Stays, At, Places, Edges
<1>9. CASE Throw(w)
  <2> DEFINE t == worker[w].task
             made == queue[t].made + 1
             q == [queue EXCEPT ![t].made = made]
  <2>0. t \in Tasks /\ worker[w].at = "throw" /\ queue[t] \in Task /\ made \in Nat /\ made >= 1
    BY <1>0, <1>9 DEF Throw, At, InTask, Task
  <2>1. q \in [Tasks -> Task] /\ \A u \in Tasks : u # t => q[u] = queue[u]
    BY <1>0, <2>0, TaskRecords
  <2>2. PICK s \in Slot : Moves(w, s) /\ s.at \in {"idle", "handler"} /\ ~s.owns /\ s.task = "none"
    <3> DEFINE h == [Idle EXCEPT !.at = "handler"]
    <3>1. Moves(w, Idle) \/ Moves(w, h)
      BY <1>9 DEF Throw, Moves
    <3>2. Idle \in Slot /\ h \in Slot
      BY SlotRecords
    <3>3. /\ Idle.at = "idle" /\ ~Idle.owns /\ Idle.task = "none"
          /\ h.at = "handler" /\ ~h.owns /\ h.task = "none"
      BY DEF Idle
    <3> HIDE DEF h
    <3> QED
      BY <3>1, <3>2, <3>3
  <2>3. /\ \A u \in Tasks : u # t => Ended(q, t, "failed")[u] = queue[u]
        /\ Ended(q, t, "failed")[t].state = IF t \in Polls THEN "absent" ELSE "failed"
    <3> HIDE DEF q, t
    <3> QED
      BY <2>0, <2>1, EndedFields
  <2>4. CASE ~worker[w].owns
    BY <1>9, <2>0, <2>2, <2>4 DEF Throw, Leaves, WorkerStep
  <2>5. CASE worker[w].owns /\ made >= AttemptsOf(t)
    <3>1. queue' = Ended(q, t, "failed")
      BY <1>9, <2>5 DEF Throw
    <3> HIDE DEF q, made
    <3>2. Leaves(w, s)
      BY <2>0, <2>2, <2>3, <2>5, <3>1 DEF Leaves
    <3> QED
      BY <2>2, <3>2 DEF WorkerStep
  <2>6. CASE worker[w].owns /\ ~(made >= AttemptsOf(t))
    <3>1. queue' = [queue EXCEPT ![t].made = made, ![t].state = "waiting"]
      BY <1>9, <2>6 DEF Throw
    <3>2. t \notin Polls
      BY <2>0, <2>6 DEF AttemptsOf
    <3>3. queue'[t].state = "waiting" /\ \A u \in Tasks : u # t => queue'[u] = queue[u]
      BY <1>0, <2>0, <3>1 DEF Task
    <3> HIDE DEF q, made
    <3>4. Leaves(w, s)
      BY <2>0, <2>2, <2>6, <3>2, <3>3 DEF Leaves
    <3> QED
      BY <2>2, <3>4 DEF WorkerStep
  <2> QED
    BY <2>4, <2>5, <2>6
<1>10. CASE HandlerLoad(w) \/ HandlerRelease(w)
  <2>1. queue' = queue /\ ~InTask(worker[w])
    BY <1>10 DEF HandlerLoad, HandlerRelease, At, Stays, InTask
  <2>2. CASE worker' = [worker EXCEPT ![w] = Idle]
    <3>1. Idle \in Slot /\ ~InTask(Idle) /\ Moves(w, Idle)
      BY <2>2, SlotRecords DEF Moves, Idle, InTask
    <3> QED
      BY <2>1, <3>1 DEF Handles, WorkerStep
  <2>3. CASE Goes(w, "release")
    <3>1. PICK s \in Slot : /\ Moves(w, s) /\ s.at = "release" /\ s.task = worker[w].task
                            /\ s.owns = worker[w].owns
      BY <2>3, GoesSlot DEF Places
    <3> QED
      BY <2>1, <3>1 DEF Handles, WorkerStep, InTask
  <2> QED
    BY <1>10, <2>2, <2>3 DEF HandlerLoad, HandlerRelease
<1>11. QED
  BY <1>2, <1>3, <1>4, <1>5, <1>6, <1>7, <1>8, <1>9, <1>10 DEF Step

-----------------------------------------------------------------------------
(* Polls and the provider's id.                                              *)

(* A job that left the queue never waits again.                              *)
NotStarted == {"NONE", "QUEUED"}

(* What a slot has seen of the provider's id, and that it works for a job    *)
(* that has started.                                                         *)
Knows(s) ==
    /\ s.at = "run" /\ s.provider # 0 => job.provider # 0
    /\ s.at = "persist" => s.provider # 0
    /\ s.at \in {"status", "count", "enqueue"} => job.provider # 0
    /\ s.at \in {"call", "persist", "enqueue", "status", "count", "ingest", "finalize"} =>
          job.status \notin NotStarted

KnowsInv == PollsKnowTheirTask /\ \A w \in Workers : Knows(worker[w])

(* Once it is recorded, the id stays; once it is started, the job stays so.  *)
ProviderStep ==
    /\ job.provider # 0 => job'.provider = job.provider
    /\ job'.status \in NotStarted => job.status \in NotStarted

LEMMA ProviderNext == ASSUME Typed, [Next]_vars PROVE ProviderStep
<1>0. job \in JobRow
  BY DEF Typed, GenerationTypeOK
<1> DEFINE Effect ==
              \/ job' = job
              \/ \E status \in {"RUNNING"} \cup Terminal : job' = [job EXCEPT !.status = status]
              \/ /\ job.status = "NONE"
                 /\ \E type, valid :
                       job' = [job EXCEPT !.status = "QUEUED", !.type = type, !.valid = valid]
              \/ \E n : job' = [job EXCEPT !.polls = n]
              \/ job.provider = 0 /\ \E n : job' = [job EXCEPT !.provider = n]
<1>1. Effect
  <2>1. CASE UNCHANGED vars
    BY <2>1 DEF vars, rows
  <2>2. CASE Api \/ Outbox \/ Admin
    BY <2>2 DEF Api, Create, CancelRead, CancelEnqueue, CancelDirect, CancelRemove, Outbox,
                DispatchPick, DispatchAdd, DispatchMark, DispatchAddFails, DispatchCrash, Dispatcher,
                ReconcileRead, Revive, Admin, ReplayRead, ReplayReset, ForceFail, rows, Open, Terminal
  <2>3. ASSUME NEW w \in Workers, Step(w) PROVE Effect
    <3>1. CASE Run(w) \/ Finalize(w) \/ Fail(w) \/ Cancel(w) \/ HandlerRelease(w)
      BY <3>1 DEF Run, Finalize, Fail, Cancel, HandlerRelease, EndedAs, rows, Open, Terminal
    <3>2. CASE Count(w) \/ Persist(w)
      BY <3>2 DEF Count, Persist
    <3>3. CASE Load(w) \/ Call(w) \/ Enqueue(w) \/ Done(w) \/ Status(w) \/ Ingest(w) \/ Throw(w)
               \/ HandlerLoad(w)
      BY <3>3 DEF Load, Call, Enqueue, Done, Status, Ingest, Throw, HandlerLoad, Stays, rows
    <3> QED
      BY <2>3, <3>1, <3>2, <3>3 DEF Step
  <2>4. CASE (\E w \in Workers, t \in Tasks : Take(w, t) \/ Stalled(w, t)) \/ Fault
    BY <2>4 DEF Take, Stalled, Fault, Crash, Error, LoseLock, Evict, Faulty, rows
  <2> QED
    BY <2>1, <2>2, <2>3, <2>4 DEF Next, Consume
<1>2. QED
  BY <1>0, <1>1 DEF ProviderStep, JobRow, NotStarted, Terminal

(* A slot that changes knows what it must; the polls that are there were     *)
(* there before or are known.                                                *)
LEMMA KnowsKept ==
    ASSUME Typed, KnowsInv, ProviderStep,
           \A w \in Workers : worker'[w] = worker[w] \/ Knows(worker[w])',
           \A p \in Polls : queue'[p].state # "absent" =>
                               queue[p].state # "absent" \/ job.provider # 0
    PROVE  KnowsInv'
BY DEF KnowsInv, ProviderStep, Knows, PollsKnowTheirTask

(* Steps of others than workers in a task: what they do to the queue.        *)
QueueStep ==
    /\ worker' = worker
    /\ \/ queue' = queue
       \/ queue' = Add(queue, "process") \/ queue' = Add(queue, "cancel")
       \/ client = "remove" /\ queue' = Remove(queue, "process")

LEMMA OthersMeaning == ASSUME Api \/ Outbox \/ Admin PROVE QueueStep
BY DEF Api, Create, CancelRead, CancelEnqueue, CancelDirect, CancelRemove, Outbox,
       DispatchPick, DispatchAdd, DispatchMark, DispatchAddFails, DispatchCrash, Dispatcher,
       ReconcileRead, Revive, Admin, ReplayRead, ReplayReset, ForceFail, rows, QueueStep

(* They do not touch the polls.                                              *)
LEMMA OthersLeavePolls ==
    ASSUME Typed, QueueStep
    PROVE  \A p \in Polls : queue'[p] = queue[p]
<1>1. queue \in [Tasks -> Task] /\ Polls \subseteq Tasks
  BY DEF Typed, GenerationTypeOK, Tasks
<1>2. QED
  BY <1>1, TaskNames DEF QueueStep, Add, Remove

LEMMA KnowsNext == ASSUME Typed, KnowsInv, [Next]_vars PROVE KnowsInv'
<1>0. /\ ProviderStep
      /\ worker \in [Workers -> Slot] /\ queue \in [Tasks -> Task] /\ Polls \subseteq Tasks
  BY ProviderNext DEF Typed, GenerationTypeOK, Tasks
<1>1. CASE UNCHANGED vars
  BY <1>0, <1>1, KnowsKept DEF vars
<1>2. CASE Api \/ Outbox \/ Admin
  <2>1. worker' = worker /\ \A p \in Polls : queue'[p] = queue[p]
    BY <1>2, OthersMeaning, OthersLeavePolls DEF QueueStep
  <2> QED
    BY <1>0, <2>1, KnowsKept
<1>3. ASSUME NEW w \in Workers, Step(w) PROVE KnowsInv'
  <2>1. PICK s \in Slot : Moves(w, s) /\ WorkerStep(w, s)
    BY <1>3, WorkerMeaning
  <2>2. Knows(worker[w])
    BY DEF KnowsInv
  <2>3. worker'[w] = s /\ \A v \in Workers : v # w => worker'[v] = worker[v]
    BY <1>0, <2>1 DEF Moves
  <2>4. CASE StepsOn(w, s)
    <3>1. job'.provider # 0 \/ s.at \notin {"status", "count", "enqueue"}
      BY <1>0, <2>2, <2>4 DEF StepsOn, Knows, ProviderStep, Edges
    <3>2. s.at = "run" /\ s.provider # 0 => job'.provider # 0
      BY <1>0, <2>4 DEF StepsOn, ProviderStep, Edges
    <3>3. s.at = "persist" => s.provider # 0
      BY <2>4 DEF StepsOn
    <3>4. s.at \in {"call", "persist", "enqueue", "status", "count", "ingest", "finalize"} =>
             job'.status \notin NotStarted
      <4>1. worker[w].at = "run" => job'.status \notin NotStarted
        BY <2>4 DEF StepsOn, NotStarted
      <4>2. worker[w].at = "load" /\ s.at = "status" => job.status \notin NotStarted
        BY <2>4 DEF StepsOn, NotStarted
      <4> QED
        BY <1>0, <2>2, <2>4, <4>1, <4>2 DEF StepsOn, Knows, ProviderStep, Edges
    <3>5. Knows(worker[w])'
      BY <2>3, <3>1, <3>2, <3>3, <3>4 DEF Knows
    <3>6. queue' = queue
      BY <2>4 DEF StepsOn
    <3> QED
      BY <1>0, <2>3, <3>5, <3>6, KnowsKept
  <2>5. CASE AddsPoll(w, s)
    <3>1. Knows(worker[w])' /\ job.provider # 0
      BY <2>2, <2>3, <2>5 DEF AddsPoll, Knows
    <3> QED
      BY <1>0, <2>3, <3>1, KnowsKept
  <2>6. CASE Leaves(w, s)
    <3>1. Knows(worker[w])'
      BY <2>3, <2>6 DEF Leaves, Knows
    <3>2. \A p \in Polls : queue'[p].state # "absent" => queue[p].state # "absent"
      BY <1>0, <2>6 DEF Leaves
    <3> QED
      BY <1>0, <2>3, <3>1, <3>2, KnowsKept
  <2>7. CASE Handles(w, s)
    <3>1. Knows(worker[w])' /\ queue' = queue
      BY <2>3, <2>7 DEF Handles, Knows, InTask
    <3> QED
      BY <1>0, <2>3, <3>1, KnowsKept
  <2> QED
    BY <2>1, <2>4, <2>5, <2>6, <2>7 DEF WorkerStep
<1>4. ASSUME NEW w \in Workers, NEW s, worker' = [worker EXCEPT ![w] = s],
             s.at \in {"idle", "load", "throw", "handler"}
      PROVE  \A v \in Workers : worker'[v] = worker[v] \/ Knows(worker[v])'
  BY <1>0, <1>4 DEF Knows
<1>5. ASSUME NEW w \in Workers, NEW t \in Tasks, Take(w, t) PROVE KnowsInv'
  <2>1. \A p \in Polls : queue'[p].state # "absent" => queue[p].state # "absent"
    BY <1>0, <1>5 DEF Take
  <2>2. \A v \in Workers : worker'[v] = worker[v] \/ Knows(worker[v])'
    <3> DEFINE s == [at |-> "load", task |-> t, owns |-> TRUE, provider |-> 0]
    <3>1. worker' = [worker EXCEPT ![w] = s] /\ s.at = "load"
      BY <1>5 DEF Take
    <3> HIDE DEF s
    <3> QED
      BY <1>4, <3>1
  <2> QED
    BY <1>0, <2>1, <2>2, KnowsKept
<1>6. ASSUME NEW w \in Workers, NEW t \in Tasks, Stalled(w, t) PROVE KnowsInv'
  <2>1. \A p \in Polls : queue'[p].state # "absent" => queue[p].state # "absent"
    <3>1. CASE queue' = [queue EXCEPT ![t].state = "waiting", ![t].stalls = 1]
      BY <1>0, <1>6, <3>1 DEF Stalled
    <3>2. CASE queue' = Ended(queue, t, "failed")
      <4>1. \A p \in Polls : p # t => queue'[p] = queue[p]
        BY <1>0, <3>2, EndedFields
      <4>2. t \in Polls => queue'[t].state = "absent"
        BY <1>0, <3>2, EndedFields
      <4> QED
        BY <4>1, <4>2
    <3> QED
      BY <1>6, <3>1, <3>2 DEF Stalled
  <2>2. \A v \in Workers : worker'[v] = worker[v] \/ Knows(worker[v])'
    <3>1. CASE Goes(w, "handler")
      <4>1. PICK s \in Slot : Moves(w, s) /\ s.at = "handler"
        BY <3>1, GoesSlot DEF Places
      <4> QED
        BY <1>4, <4>1 DEF Moves
    <3> QED
      BY <1>6, <3>1 DEF Stalled
  <2> QED
    BY <1>0, <2>1, <2>2, KnowsKept
<1>7. ASSUME NEW w \in Workers, Crash(w) \/ Error(w) \/ LoseLock(w) PROVE KnowsInv'
  <2>1. queue' = queue
    BY <1>7 DEF Crash, Error, LoseLock
  <2>2. CASE worker' = [worker EXCEPT ![w] = Idle]
    BY <1>0, <1>4, <2>1, <2>2, KnowsKept DEF Idle
  <2>3. CASE worker' = [worker EXCEPT ![w] = [@ EXCEPT !.at = "throw"]]
    <3>1. PICK s : worker' = [worker EXCEPT ![w] = s] /\ s.at = "throw"
      <4> DEFINE s == [worker[w] EXCEPT !.at = "throw"]
      <4>1. worker' = [worker EXCEPT ![w] = s]
        BY <2>3
      <4>2. s.at = "throw"
        BY <1>0 DEF Slot
      <4> HIDE DEF s
      <4> QED
        BY <4>1, <4>2
    <3> QED
      BY <1>0, <1>4, <2>1, <3>1, KnowsKept
  <2>4. CASE worker' = [worker EXCEPT ![w].owns = FALSE] /\ UNCHANGED rows
    <3> DEFINE s == [worker[w] EXCEPT !.owns = FALSE]
    <3>1. worker' = [worker EXCEPT ![w] = s]
      BY <2>4
    <3>2. s.at = worker[w].at /\ s.provider = worker[w].provider
      BY <1>0 DEF Slot
    <3> HIDE DEF s
    <3>3. Knows(worker[w])'
      BY <1>0, <2>4, <3>1, <3>2 DEF KnowsInv, Knows, rows
    <3> QED
      BY <1>0, <2>1, <3>1, <3>3, KnowsKept
  <2> QED
    BY <1>7, <2>2, <2>3, <2>4 DEF Crash, Error, LoseLock, Faulty
<1>8. ASSUME NEW t \in Tasks, Evict(t) PROVE KnowsInv'
  <2>1. worker' = worker /\ \A p \in Polls : queue'[p].state # "absent" => queue[p].state # "absent"
    BY <1>0, <1>8 DEF Evict, NoTask
  <2> QED
    BY <1>0, <2>1, KnowsKept
<1>9. QED
  BY <1>1, <1>2, <1>3, <1>5, <1>6, <1>7, <1>8 DEF Next, Consume, Fault

LEMMA KnowsHolds == Spec => [](Typed /\ KnowsInv)
<1>1. Init => Typed
  BY GenInit DEF Typed, Busy, Init, Idle
<1>2. Init => KnowsInv
  <2> SUFFICES ASSUME Init PROVE KnowsInv
    OBVIOUS
  <2>1. \A p \in Polls : queue[p].state = "absent"
    BY DEF Init, Tasks, NoTask
  <2> QED
    BY <2>1 DEF Init, KnowsInv, PollsKnowTheirTask, Knows, Idle
<1>3. Typed /\ KnowsInv /\ [Next]_vars => (Typed /\ KnowsInv)'
  BY NextTyped, KnowsNext
<1>4. QED
  BY <1>1, <1>2, <1>3, PTL DEF Spec

(* A poll always finds the provider's task, through crashes, lost locks,     *)
(* retries and any number of workers on the job (pipeline.ts:307-335).       *)
THEOREM PollsFindTheirTask == Spec => []PollsKnowTheirTask
<1>1. KnowsInv => PollsKnowTheirTask
  BY DEF KnowsInv
<1>2. QED
  BY <1>1, KnowsHolds, PTL

(* The provider's id, once recorded, is never replaced (repo.ts:128-139).    *)
THEOREM ProviderIdsStay == Spec => ProviderIdIsStable
<1>1. Typed /\ [Next]_vars => [job.provider # 0 => job'.provider = job.provider]_vars
  BY ProviderNext DEF ProviderStep
<1>2. QED
  BY <1>1, KnowsHolds, PTL DEF Spec, ProviderIdIsStable

-----------------------------------------------------------------------------
(* Polling does not multiply by itself.                                      *)

(* Where polling goes on; the process task also does while BullMQ does not   *)
(* know it, since anybody may add it then.                                   *)
Carriers == Polls \cup {"process"}
Waits(t) == Continues(t) \/ (t = "process" /\ queue[t].state = "absent")
Waiting == {t \in Carriers : Waits(t)}
Going == {w \in Workers : Continuing(w)}

(* A worker that lost its lock goes on beside the one that has it.           *)
Lost == {w \in Going : ~worker[w].owns}

(* The lock of a task is held by one worker, which is in the active task, ...*)
Locks ==
    /\ \A w \in Workers :
          IF InTask(worker[w])
          THEN worker[w].owns => queue[worker[w].task].state = "active"
          ELSE ~worker[w].owns /\ worker[w].task = "none"
    /\ \A v, w \in Workers :
          worker[v].owns /\ worker[w].owns /\ worker[v].task = worker[w].task => v = w

(* ... and the cancel task adds no poll.                                     *)
CancelsOnly ==
    \A w \in Workers : worker[w].task = "cancel" => worker[w].at \in {"load", "cancel", "done", "throw"}

Line == Locks /\ CancelsOnly

(* Nothing has been submitted, and nothing will be if the job was cancelled. *)
NotBegun ==
    /\ \A p \in Polls : queue[p].state = "absent"
    /\ \A w \in Workers :
          /\ worker[w].task \notin Polls
          /\ worker[w].task = "process" => worker[w].at \in {"load", "run", "throw"}

Begins == job.status \in Open /\ job'.status = "RUNNING"

(* Without a fault a chain moves from a task to a worker or back, or ends; a *)
(* fault leaves one task more to be taken, and one worker without its lock.  *)
Balance ==
    \/ Waiting' \subseteq Waiting /\ Going' \subseteq Going
    \/ \E t \in Waiting, w \in Workers : Waiting' \subseteq Waiting \ {t} /\ Going' \subseteq Going \cup {w}
    \/ \E t \in Carriers, w \in Going : Waiting' \subseteq Waiting \cup {t} /\ Going' \subseteq Going \ {w}

Quiet == Balance /\ Lost' \subseteq Lost

Disturbed ==
    \E t, w : Waiting' \subseteq Waiting \cup {t} /\ Going' \subseteq Going /\ Lost' \subseteq Lost \cup {w}

Chained ==
    /\ Cardinality(Lost) <= faults
    /\ \/ Cardinality(Waiting) + Cardinality(Going) <= 1 + faults
       \/ job.status = "CANCELED" /\ NotBegun

ChainInv ==
    /\ Line
    /\ job.status \in {"NONE", "QUEUED"} => NotBegun
    /\ client = "remove" => job.status = "CANCELED" /\ NotBegun
    /\ Chained

Owned(t) == \E w \in Workers : worker[w].owns /\ worker[w].task = t

(* A task that did not change and did not lose its owner.                    *)
LEMMA WaitsNoMore ==
    ASSUME NEW t \in Carriers, queue'[t] = queue[t], Owned(t) => Owned(t)', Waits(t)'
    PROVE  Waits(t)
BY DEF Waits, Continues, Owned

LEMMA FiniteChains ==
    ASSUME NEW S, S \subseteq Carriers \/ S \subseteq Workers
    PROVE  IsFiniteSet(S) /\ Cardinality(S) \in Nat
<1>1. IsFiniteSet(Carriers) /\ IsFiniteSet(Workers)
  BY GenerationAssumption, FS_AddElement DEF Carriers
<1>2. IsFiniteSet(S)
  BY <1>1, FS_Subset
<1>3. QED
  BY <1>2, FS_CardinalityType

(* What others than workers do to the queue adds no chain, but for the       *)
(* removal of the process task of a cancelled job.                           *)
LEMMA QueueKeeps ==
    ASSUME Typed, Line, QueueStep
    PROVE  /\ Line' /\ (NotBegun => NotBegun')
           /\ Lost' \subseteq Lost
           /\ Balance \/ client = "remove"
<1>0. /\ queue \in [Tasks -> Task] /\ "process" \in Tasks /\ "cancel" \in Tasks /\ Polls \subseteq Tasks
      /\ worker' = worker /\ \A w \in Workers : InTask(worker[w]) => worker[w].task \in Tasks
  BY DEF Typed, GenerationTypeOK, Tasks, QueueStep, Busy, InTask
<1>1. \A t \in Tasks : queue'[t].state = "active" <=> queue[t].state = "active"
  BY <1>0 DEF QueueStep, Add, Remove, NoTask, Task
<1>2. \A p \in Polls : queue'[p] = queue[p]
  BY OthersLeavePolls
<1>3. Line'
  BY <1>0, <1>1 DEF Line, Locks, CancelsOnly, InTask
<1>4. NotBegun => NotBegun'
  BY <1>0, <1>2 DEF NotBegun
<1>5. Going' = Going /\ Lost' = Lost
  BY <1>0 DEF Going, Lost, Continuing, At
<1>6. \A t \in Tasks : Owned(t)' <=> Owned(t)
  BY <1>0 DEF Owned
<1>7. Balance \/ client = "remove"
  <2>1. ASSUME client # "remove", Waits("process")' PROVE Waits("process")
    <3>1. queue' = queue \/ queue' = Add(queue, "process") \/ queue' = Add(queue, "cancel")
      BY <2>1 DEF QueueStep
    <3>2. queue'["process"] = queue["process"] \/ queue["process"].state = "absent"
      BY <1>0, <3>1 DEF Add
    <3> QED
      BY <1>0, <1>6, <2>1, <3>2, WaitsNoMore DEF Waits, Carriers
  <2>2. ASSUME client # "remove", NEW t \in Carriers, Waits(t)' PROVE Waits(t)
    BY <1>0, <1>2, <1>6, <2>1, <2>2, WaitsNoMore DEF Carriers
  <2> QED
    BY <1>5, <2>2 DEF Balance, Waiting
<1>8. QED
  BY <1>3, <1>4, <1>5, <1>7

(* Of a worker's steps only Run begins the job.                              *)
LEMMA WorkerKeeps ==
    ASSUME Typed, Line, NEW w \in Workers, NEW s \in Slot, Moves(w, s), WorkerStep(w, s)
    PROVE  Line' /\ (NotBegun => NotBegun' \/ Begins) /\ Quiet
<1>0. /\ queue \in [Tasks -> Task] /\ "process" \in Tasks /\ "cancel" \in Tasks /\ Polls \subseteq Tasks
      /\ \A v \in Workers : InTask(worker[v]) => worker[v].task \in Tasks
      /\ worker \in [Workers -> Slot]
      /\ "none" \notin Tasks /\ Carriers \subseteq Tasks
  BY TaskNames DEF Typed, GenerationTypeOK, Tasks, Busy, InTask, Carriers
<1>1. worker'[w] = s /\ \A v \in Workers : v # w => worker'[v] = worker[v]
  BY <1>0 DEF Moves
<1>2. Locks /\ CancelsOnly
  BY DEF Line
<1>3. CASE StepsOn(w, s)
  <2>0. /\ queue' = queue /\ s.task = worker[w].task /\ s.owns = worker[w].owns
        /\ InTask(worker[w]) /\ InTask(s) /\ worker[w].at # "done"
    BY <1>3 DEF StepsOn, Edges, InTask
  <2>1. Locks'
    BY <1>1, <1>2, <2>0 DEF Locks, InTask
  <2>2. CancelsOnly'
    <3>1. s.task = "cancel" => s.at \in {"load", "cancel", "done"}
      BY <1>2, <1>3, <2>0 DEF CancelsOnly, StepsOn, Edges
    <3> QED
      BY <1>1, <1>2, <3>1 DEF CancelsOnly
  <2>3. NotBegun => NotBegun' \/ Begins
    <3>1. worker[w].at = "run" => Begins
      BY <1>3 DEF StepsOn, Begins
    <3>2. s.task = "process" /\ worker[w].at = "load" => s.at = "run"
      BY <1>3, TaskNames DEF StepsOn, Edges
    <3>3. worker[w].at # "throw"
      BY <1>3 DEF StepsOn, Edges
    <3>4. NotBegun /\ s.task = "process" => s.at = "run" \/ Begins
      BY <1>0, <2>0, <3>1, <3>2, <3>3 DEF NotBegun
    <3> QED
      BY <1>1, <2>0, <3>4 DEF NotBegun
  <2>4. \A t \in Carriers : Owned(t) => Owned(t)'
    BY <1>1, <2>0 DEF Owned
  <2>5. Waiting' \subseteq Waiting
    BY <2>0, <2>4, WaitsNoMore DEF Waiting
  <2>6. Going' \subseteq Going /\ Lost' \subseteq Lost
    BY <1>1, <2>0 DEF Going, Lost, Continuing, At
  <2> QED
    BY <2>1, <2>2, <2>3, <2>5, <2>6 DEF Line, Quiet, Balance
<1>4. CASE AddsPoll(w, s)
  <2>0. /\ worker[w].at = "enqueue" /\ s.at = "done"
        /\ s.task = worker[w].task /\ s.owns = worker[w].owns
        /\ InTask(worker[w]) /\ InTask(s)
    BY <1>4 DEF AddsPoll, InTask
  <2>1. PICK p \in Polls :
           /\ queue[p].state = "absent" /\ queue'[p].state = "waiting"
           /\ \A t \in Tasks : t # p => queue'[t] = queue[t]
    BY <1>4 DEF AddsPoll
  <2>2. worker[w].task \in Carriers
    BY <1>0, <1>2, <2>0 DEF CancelsOnly, Tasks, Carriers
  <2>3. \A v \in Workers : worker'[v].task = worker[v].task /\ worker'[v].owns = worker[v].owns
                           /\ (InTask(worker'[v]) <=> InTask(worker[v]))
    BY <1>1, <2>0
  <2>4. Locks'
    <3>1. \A t \in Tasks : queue[t].state = "active" => queue'[t].state = "active"
      BY <2>1
    <3> QED
      BY <1>0, <1>2, <2>3, <3>1 DEF Locks
  <2>5. CancelsOnly'
    BY <1>1, <1>2, <2>0 DEF CancelsOnly
  <2>6. ~NotBegun
    BY <2>0, <2>2 DEF NotBegun, Carriers
  <2>7. Waiting' \subseteq Waiting \cup {p}
    <3>1. \A t \in Carriers : Owned(t) => Owned(t)'
      BY <2>3 DEF Owned
    <3>2. \A t \in Carriers : t # p => queue'[t] = queue[t]
      BY <1>0, <2>1
    <3> QED
      BY <3>1, <3>2, WaitsNoMore DEF Waiting
  <2>8. w \in Going /\ Going' \subseteq Going \ {w} /\ Lost' \subseteq Lost
    BY <1>1, <2>0, <2>2 DEF Going, Lost, Continuing, At, Carriers
  <2>9. Balance
    <3>1. p \in Carriers
      BY DEF Carriers
    <3> QED
      BY <2>7, <2>8, <3>1 DEF Balance
  <2> QED
    BY <2>4, <2>5, <2>6, <2>8, <2>9 DEF Line, Quiet
<1>5. CASE Leaves(w, s)
  <2>0. /\ InTask(worker[w]) /\ ~InTask(s) /\ ~s.owns /\ s.task = "none"
        /\ worker[w].at # "enqueue"
    BY <1>5 DEF Leaves, InTask
  <2>1. PICK u \in Tasks : u = worker[w].task
    BY <1>0, <2>0
  <2>2. \A t \in Tasks : t # u => queue'[t] = queue[t]
    BY <1>5, <2>1 DEF Leaves
  <2>3. worker[w].owns =>
           /\ \A v \in Workers : v # w => ~(worker[v].owns /\ worker[v].task = u)
           /\ \/ queue'[u].state \in {"completed", "failed"} \/ (u \in Polls /\ queue'[u].state = "absent")
              \/ queue'[u].state = "waiting" /\ worker[w].at = "throw"
    BY <1>2, <1>5, <2>1 DEF Leaves, Locks
  <2>4. ~worker[w].owns => queue' = queue
    BY <1>5 DEF Leaves
  <2>5. Locks'
    <3>1. ASSUME NEW v \in Workers, v # w, worker[v].owns, InTask(worker[v])
          PROVE  queue'[worker[v].task].state = "active"
      <4>1. queue[worker[v].task].state = "active" /\ worker[v].task \in Tasks
        BY <1>0, <1>2, <3>1 DEF Locks
      <4> QED
        BY <2>2, <2>3, <2>4, <3>1, <4>1
    <3> QED
      BY <1>1, <1>2, <2>0, <3>1 DEF Locks
  <2>6. CancelsOnly'
    BY <1>1, <1>2, <2>0 DEF CancelsOnly
  <2>7. NotBegun => NotBegun'
    <3>1. \A p \in Polls : queue[p].state = "absent" => queue'[p].state = "absent"
      BY <1>0, <1>2, <2>0, <2>1, <2>2, <2>3, <2>4 DEF Locks
    <3> QED
      BY <1>1, <2>0, <3>1, TaskNames DEF NotBegun
  <2>8. Going' \subseteq Going \ {w} /\ Lost' \subseteq Lost
    <3>1. ~Continuing(w)'
      BY <1>1, <2>0, TaskNames DEF Continuing
    <3> QED
      BY <1>1, <3>1 DEF Going, Lost, Continuing, At
  <2>9. \A t \in Carriers : t # u => (Owned(t) => Owned(t)')
    BY <1>1, <2>1 DEF Owned
  <2>10. \A t \in Carriers : t # u => (Waits(t)' => Waits(t))
    BY <1>0, <2>2, <2>9, WaitsNoMore
  <2>11. CASE ~worker[w].owns
    <3>1. Owned(u) => Owned(u)'
      BY <1>1, <2>11 DEF Owned
    <3>2. \A t \in Carriers : Waits(t)' => Waits(t)
      BY <2>4, <2>10, <2>11, <3>1, WaitsNoMore
    <3> QED
      BY <2>5, <2>6, <2>7, <2>8, <3>2 DEF Line, Quiet, Balance, Waiting
  <2>12. CASE worker[w].owns /\ queue'[u].state # "waiting"
    <3>1. ~Waits(u)'
      BY <2>3, <2>12, TaskNames DEF Waits, Continues
    <3>2. Waiting' \subseteq Waiting
      BY <2>10, <3>1 DEF Waiting
    <3> QED
      BY <2>5, <2>6, <2>7, <2>8, <3>2 DEF Line, Quiet, Balance
  <2>13. CASE worker[w].owns /\ queue'[u].state = "waiting"
    <3>1. worker[w].at = "throw"
      BY <2>3, <2>13
    <3>2. CASE u \in Carriers
      <4>1. w \in Going
        BY <2>1, <3>1, <3>2 DEF Going, Continuing, At, Carriers
      <4>2. Waiting' \subseteq Waiting \cup {u}
        BY <2>10 DEF Waiting
      <4>3. Balance
        BY <2>8, <3>2, <4>1, <4>2 DEF Balance
      <4> QED
        BY <2>5, <2>6, <2>7, <2>8, <4>3 DEF Line, Quiet
    <3>3. CASE u \notin Carriers
      <4>1. Waiting' \subseteq Waiting
        BY <2>10, <3>3 DEF Waiting
      <4> QED
        BY <2>5, <2>6, <2>7, <2>8, <4>1 DEF Line, Quiet, Balance
    <3> QED
      BY <3>2, <3>3
  <2> QED
    BY <2>11, <2>12, <2>13
<1>6. CASE Handles(w, s)
  <2>0. /\ queue' = queue /\ ~InTask(worker[w]) /\ ~InTask(s)
        /\ s.task = "none" /\ ~s.owns /\ worker[w].task = "none" /\ ~worker[w].owns
    BY <1>2, <1>6 DEF Handles, Locks, Idle
  <2>1. Locks' /\ CancelsOnly'
    BY <1>1, <1>2, <2>0 DEF Locks, CancelsOnly
  <2>2. NotBegun => NotBegun'
    BY <1>1, <2>0, TaskNames DEF NotBegun
  <2>3. \A t \in Carriers : Owned(t) => Owned(t)'
    BY <1>1, <2>0 DEF Owned
  <2>4. Waiting' \subseteq Waiting
    BY <2>0, <2>3, WaitsNoMore DEF Waiting
  <2>5. Going' \subseteq Going /\ Lost' \subseteq Lost
    BY <1>1, <2>0, TaskNames DEF Going, Lost, Continuing, At
  <2> QED
    BY <2>1, <2>2, <2>4, <2>5 DEF Line, Quiet, Balance
<1>7. QED
  BY <1>3, <1>4, <1>5, <1>6 DEF WorkerStep
LEMMA TakeKeeps ==
    ASSUME Typed, Line, NEW w \in Workers, NEW t \in Tasks, Take(w, t)
    PROVE  Line' /\ (NotBegun => NotBegun') /\ Quiet
<1>0. /\ queue \in [Tasks -> Task] /\ "process" \in Tasks /\ Polls \subseteq Tasks
      /\ \A v \in Workers : InTask(worker[v]) => worker[v].task \in Tasks
      /\ worker \in [Workers -> Slot] /\ Carriers \subseteq Tasks
  BY DEF Typed, GenerationTypeOK, Tasks, Busy, InTask, Carriers
<1>1. /\ worker'[w].at = "load" /\ worker'[w].task = t /\ worker'[w].owns
      /\ \A v \in Workers : v # w => worker'[v] = worker[v]
  BY <1>0 DEF Take
<1>2. /\ queue[t].state = "waiting" /\ queue'[t].state = "active"
      /\ \A u \in Tasks : u # t => queue'[u] = queue[u]
  <2>1. queue[t] \in Task
    BY <1>0
  <2> QED
    BY <1>0, <2>1 DEF Take, Task
<1>3. Locks /\ CancelsOnly
  BY DEF Line
<1>4. ~worker[w].owns /\ worker[w].task = "none"
  BY <1>3 DEF Take, At, InTask, Locks
<1>5. \A v \in Workers : worker[v].owns => InTask(worker[v]) /\ worker[v].task # t
  BY <1>2, <1>3 DEF Locks
<1>6. Locks'
  BY <1>0, <1>1, <1>2, <1>3, <1>5 DEF Locks, InTask
<1>7. CancelsOnly'
  BY <1>1, <1>3 DEF CancelsOnly
<1>8. NotBegun => NotBegun'
  <2>1. NotBegun => t \notin Polls
    BY <1>2 DEF NotBegun
  <2> QED
    BY <1>0, <1>1, <1>2, <2>1 DEF NotBegun
<1>9. Lost' \subseteq Lost /\ Going' \subseteq Going \cup {w}
  BY <1>1 DEF Lost, Going, Continuing, At
<1>10. \A u \in Carriers : u # t => (Waits(u)' => Waits(u))
  <2>1. \A u \in Carriers : Owned(u) => Owned(u)'
    BY <1>1, <1>4 DEF Owned
  <2> QED
    BY <1>0, <1>2, <2>1, WaitsNoMore
<1>11. ~Waits(t)'
  BY <1>1, <1>2 DEF Waits, Continues
<1>12. Balance
  <2>1. CASE t \in Carriers
    <3>1. t \in Waiting
      BY <1>2, <2>1 DEF Waiting, Waits, Continues
    <3>2. Waiting' \subseteq Waiting \ {t}
      BY <1>10, <1>11 DEF Waiting
    <3> QED
      BY <1>9, <3>1, <3>2 DEF Balance
  <2>2. CASE t \notin Carriers
    <3>1. Waiting' \subseteq Waiting
      BY <1>10, <2>2 DEF Waiting
    <3>2. Going' \subseteq Going
      BY <1>1, <2>2 DEF Going, Continuing, At, Carriers
    <3> QED
      BY <3>1, <3>2 DEF Balance
  <2> QED
    BY <2>1, <2>2
<1>13. QED
  BY <1>6, <1>7, <1>8, <1>9, <1>12 DEF Line, Quiet

(* A task nobody holds is put back, or fails: it waited already.             *)
LEMMA StalledKeeps ==
    ASSUME Typed, Line, NEW w \in Workers, NEW t \in Tasks, Stalled(w, t)
    PROVE  Line' /\ (NotBegun => NotBegun') /\ Quiet
<1>0. /\ queue \in [Tasks -> Task] /\ "process" \in Tasks /\ Polls \subseteq Tasks
      /\ \A v \in Workers : InTask(worker[v]) => worker[v].task \in Tasks
      /\ worker \in [Workers -> Slot] /\ Carriers \subseteq Tasks
  BY DEF Typed, GenerationTypeOK, Tasks, Busy, InTask, Carriers
<1>1. Locks /\ CancelsOnly
  BY DEF Line
<1>2. /\ queue[t].state = "active" /\ ~Owned(t)
      /\ ~InTask(worker[w]) /\ ~worker[w].owns /\ worker[w].task = "none"
  BY <1>1 DEF Stalled, Owned, At, InTask, Locks
<1>3. /\ \A v \in Workers : v # w => worker'[v] = worker[v]
      /\ ~InTask(worker'[w]) /\ ~worker'[w].owns /\ worker'[w].task = "none"
  <2>1. CASE worker' = worker
    BY <1>2, <2>1
  <2>2. CASE Goes(w, "handler")
    <3>1. PICK s \in Slot : Moves(w, s) /\ s.at = "handler" /\ s.task = worker[w].task /\ s.owns = worker[w].owns
      BY <2>2, GoesSlot DEF Places
    <3> QED
      BY <1>0, <1>2, <3>1 DEF Moves, InTask
  <2> QED
    BY <2>1, <2>2 DEF Stalled
<1>4. \A u \in Tasks : u # t => queue'[u] = queue[u]
  <2>1. CASE queue' = [queue EXCEPT ![t].state = "waiting", ![t].stalls = 1]
    BY <1>0, <2>1
  <2>2. CASE queue' = Ended(queue, t, "failed")
    BY <1>0, <2>2, EndedFields
  <2> QED
    BY <2>1, <2>2 DEF Stalled
<1>5. \A u \in Tasks : Owned(u)' <=> Owned(u)
  BY <1>2, <1>3 DEF Owned
<1>6. Waiting' \subseteq Waiting
  <2>1. t \in Carriers => Waits(t)
    BY <1>2 DEF Waits, Continues, Owned
  <2>2. \A u \in Carriers : u # t => (Waits(u)' => Waits(u))
    BY <1>0, <1>4, <1>5, WaitsNoMore
  <2> QED
    BY <2>1, <2>2 DEF Waiting
<1>7. Going' \subseteq Going /\ Lost' \subseteq Lost
  BY <1>3, TaskNames DEF Going, Lost, Continuing, At
<1>8. Locks'
  <2>1. \A v \in Workers : worker[v].owns => worker[v].task # t
    BY <1>2 DEF Owned
  <2> QED
    BY <1>0, <1>1, <1>2, <1>3, <1>4, <2>1 DEF Locks
<1>9. CancelsOnly' /\ (NotBegun => NotBegun')
  <2>1. NotBegun => t \notin Polls
    BY <1>2 DEF NotBegun
  <2> QED
    BY <1>0, <1>1, <1>3, <1>4, <2>1, TaskNames DEF CancelsOnly, NotBegun
<1>10. QED
  BY <1>6, <1>7, <1>8, <1>9 DEF Line, Quiet, Balance

(* A fault makes one more task wait at most, and takes one lock at most.     *)
LEMMA FaultKeeps ==
    ASSUME Typed, Line, Fault
    PROVE  Line' /\ (NotBegun => NotBegun') /\ Disturbed
<1>0. /\ queue \in [Tasks -> Task] /\ "process" \in Tasks /\ Polls \subseteq Tasks
      /\ \A v \in Workers : InTask(worker[v]) => worker[v].task \in Tasks
      /\ worker \in [Workers -> Slot] /\ Carriers \subseteq Tasks
  BY DEF Typed, GenerationTypeOK, Tasks, Busy, InTask, Carriers
<1>1. Locks /\ CancelsOnly
  BY DEF Line
<1>2. ASSUME NEW w \in Workers, NEW s \in Slot, Moves(w, s), queue' = queue,
             s.owns => worker[w].owns, s.task = worker[w].task \/ (~s.owns /\ s.task = "none"),
             \/ s.at = worker[w].at /\ s.task = worker[w].task
             \/ s.at = "throw" /\ s.task = worker[w].task /\ InTask(worker[w]) /\ worker[w].at # "done"
             \/ ~InTask(s) /\ ~s.owns /\ s.task = "none"
      PROVE  Line' /\ (NotBegun => NotBegun') /\ Disturbed
  <2>1. worker'[w] = s /\ \A v \in Workers : v # w => worker'[v] = worker[v]
    BY <1>0, <1>2 DEF Moves
  <2>2. Locks'
    BY <1>0, <1>1, <1>2, <2>1 DEF Locks, InTask
  <2>3. CancelsOnly' /\ (NotBegun => NotBegun')
    BY <1>0, <1>1, <1>2, <2>1, TaskNames DEF CancelsOnly, NotBegun
  <2>4. Going' \subseteq Going /\ Lost' \subseteq Lost \cup {w}
    BY <1>2, <2>1, TaskNames DEF Going, Lost, Continuing, At
  <2>5. \A t \in Carriers : t # worker[w].task => (Waits(t)' => Waits(t))
    <3>1. \A t \in Carriers : t # worker[w].task => (Owned(t) => Owned(t)')
      BY <2>1 DEF Owned
    <3> QED
      BY <1>2, <3>1, WaitsNoMore
  <2>6. Waiting' \subseteq Waiting \cup {worker[w].task}
    BY <2>5 DEF Waiting
  <2> QED
    BY <2>2, <2>3, <2>4, <2>6 DEF Line, Disturbed
<1>3. ASSUME NEW w \in Workers, worker' = [worker EXCEPT ![w] = Idle], queue' = queue
      PROVE  Line' /\ (NotBegun => NotBegun') /\ Disturbed
  <2>1. Idle \in Slot /\ ~Idle.owns /\ Idle.task = "none" /\ ~InTask(Idle)
    BY SlotRecords DEF Idle, InTask
  <2> QED
    BY <1>2, <1>3, <2>1 DEF Moves
<1>4. ASSUME NEW w \in Workers, Crash(w) \/ Error(w) PROVE Line' /\ (NotBegun => NotBegun') /\ Disturbed
  <2>1. queue' = queue
    BY <1>4 DEF Crash, Error
  <2>2. CASE worker' = [worker EXCEPT ![w] = Idle]
    BY <1>3, <2>1, <2>2
  <2>3. CASE worker' = [worker EXCEPT ![w] = [@ EXCEPT !.at = "throw"]] /\ Error(w) /\ ~InHandler(w)
    <3> DEFINE s == [worker[w] EXCEPT !.at = "throw"]
    <3>1. Moves(w, s)
      BY <2>3 DEF Moves
    <3>2. s \in Slot /\ s.at = "throw" /\ s.task = worker[w].task /\ s.owns = worker[w].owns
      <4>1. "throw" \in Places /\ worker[w] \in Slot
        BY <1>0 DEF Places
      <4>2. s \in Slot
        BY <4>1, SlotRecords
      <4> QED
        BY <4>1, <4>2 DEF Slot
    <3>3. InTask(worker[w]) /\ worker[w].at # "done"
      BY <2>3 DEF Error, InHandler, InTask
    <3> HIDE DEF s
    <3> QED
      BY <1>2, <2>1, <3>1, <3>2, <3>3
  <2> QED
    BY <1>4, <2>2, <2>3 DEF Crash, Error
<1>5. ASSUME NEW w \in Workers, LoseLock(w) PROVE Line' /\ (NotBegun => NotBegun') /\ Disturbed
  <2> DEFINE s == [worker[w] EXCEPT !.owns = FALSE]
  <2>1. Moves(w, s) /\ queue' = queue
    BY <1>5 DEF LoseLock, Moves
  <2>2. s \in Slot /\ s.at = worker[w].at /\ s.task = worker[w].task /\ ~s.owns
    BY <1>0 DEF Slot
  <2> HIDE DEF s
  <2> QED
    BY <1>2, <2>1, <2>2
<1>6. ASSUME NEW t \in Tasks, Evict(t) PROVE Line' /\ (NotBegun => NotBegun') /\ Disturbed
  <2>1. /\ worker' = worker /\ queue[t].state # "active" /\ queue'[t].state = "absent"
        /\ \A u \in Tasks : u # t => queue'[u] = queue[u]
    BY <1>0, <1>6 DEF Evict, NoTask
  <2>2. Line' /\ (NotBegun => NotBegun')
    BY <1>0, <1>1, <2>1 DEF Line, Locks, CancelsOnly, NotBegun
  <2>3. \A u \in Carriers : u # t => (Waits(u)' => Waits(u))
    <3>1. \A u \in Carriers : Owned(u) => Owned(u)'
      BY <2>1 DEF Owned
    <3> QED
      BY <1>0, <2>1, <3>1, WaitsNoMore
  <2>4. Waiting' \subseteq Waiting \cup {t} /\ Going' = Going /\ Lost' = Lost
    BY <2>1, <2>3 DEF Waiting, Going, Lost, Continuing, At
  <2> QED
    BY <2>2, <2>4 DEF Disturbed
<1>7. QED
  BY <1>4, <1>5, <1>6 DEF Fault

(* What a step means for the job's status.                                   *)
LEMMA StatusStep ==
    ASSUME Typed, Money, [Next]_vars
    PROVE  /\ job'.status \in {"NONE", "QUEUED"} => job.status \in {"NONE", "QUEUED"}
           /\ job.status = "CANCELED" => job'.status = "CANCELED"
<1>0. MoneyStep /\ job \in JobRow
  BY NextIsMoneyStep DEF Money, MoneyTypes
<1>1. CASE Created
  BY <1>1 DEF Created
<1>2. CASE Started
  BY <1>0, <1>2 DEF Started, Open, JobRow
<1>3. CASE Delivered
  BY <1>0, <1>3 DEF Delivered, Open, JobRow
<1>4. CASE \E status \in {"FAILED", "CANCELED"} : EndedBy(status)
  BY <1>0, <1>4 DEF EndedBy, EndedAs, Open, JobRow
<1>5. CASE Kept
  BY <1>0, <1>5 DEF Kept, JobRow
<1>6. QED
  BY <1>0, <1>1, <1>2, <1>3, <1>4, <1>5 DEF MoneyStep

(* The API removes the process task of a job it has just cancelled.          *)
CancelsFirst ==
    client' = "remove" =>
       \/ client = "remove"
       \/ job.status = "QUEUED" /\ job'.status = "CANCELED" /\ worker' = worker /\ queue' = queue

LEMMA ClientStep == ASSUME Typed, [Next]_vars PROVE CancelsFirst
<1>0. job \in JobRow
  BY DEF Typed, GenerationTypeOK
<1>1. CASE CancelDirect
  BY <1>0, <1>1 DEF CancelDirect, CancelsFirst, JobRow
<1>2. CASE CancelRead \/ CancelEnqueue \/ CancelRemove
  BY <1>2 DEF CancelRead, CancelEnqueue, CancelRemove, CancelsFirst
<1>3. CASE Create \/ Outbox \/ Admin \/ Consume \/ Fault \/ UNCHANGED vars
  <2>1. client' = client
    <3>1. CASE Create \/ Outbox \/ Admin \/ UNCHANGED vars
      BY <3>1 DEF Create, Outbox, DispatchPick, DispatchAdd, DispatchMark, DispatchAddFails, DispatchCrash,
                  Dispatcher, ReconcileRead, Revive, Admin, ReplayRead, ReplayReset, ForceFail, actors, vars
    <3>2. ASSUME NEW w \in Workers, Step(w) PROVE client' = client
      BY <3>2 DEF Step, Load, Run, Call, Persist, Enqueue, Done, Status, Count, Ingest, Finalize, Fail, Cancel,
                  Throw, HandlerLoad, HandlerRelease, Stays, actors
    <3>3. CASE (\E w \in Workers, t \in Tasks : Take(w, t) \/ Stalled(w, t)) \/ Fault
      BY <3>3 DEF Take, Stalled, Fault, Crash, Error, LoseLock, Evict, Faulty, actors
    <3> QED
      BY <1>3, <3>1, <3>2, <3>3 DEF Consume
  <2> QED
    BY <2>1 DEF CancelsFirst
<1>4. QED
  BY <1>1, <1>2, <1>3 DEF Next, Api

(* How the numbers of tasks and workers follow.                              *)
LEMMA ChainCount ==
    ASSUME NEW A, NEW B, NEW C, NEW D, IsFiniteSet(A), IsFiniteSet(B)
    PROVE  /\ C \subseteq A /\ D \subseteq B
              => Cardinality(C) + Cardinality(D) <= Cardinality(A) + Cardinality(B)
           /\ \A a \in A : \A b : C \subseteq A \ {a} /\ D \subseteq B \cup {b}
              => Cardinality(C) + Cardinality(D) <= Cardinality(A) + Cardinality(B)
           /\ \A a : \A b \in B : C \subseteq A \cup {a} /\ D \subseteq B \ {b}
              => Cardinality(C) + Cardinality(D) <= Cardinality(A) + Cardinality(B)
           /\ \A a : C \subseteq A \cup {a} /\ D \subseteq B
              => Cardinality(C) + Cardinality(D) <= Cardinality(A) + Cardinality(B) + 1
<1>0. Cardinality(A) \in Nat /\ Cardinality(B) \in Nat
  BY FS_CardinalityType
<1>1. ASSUME NEW S, NEW T, IsFiniteSet(T), S \subseteq T
      PROVE  Cardinality(S) \in Nat /\ Cardinality(T) \in Nat /\ Cardinality(S) <= Cardinality(T)
  <2>1. IsFiniteSet(S) /\ Cardinality(S) <= Cardinality(T)
    BY <1>1, FS_Subset
  <2> QED
    BY <1>1, <2>1, FS_CardinalityType
<1>2. ASSUME NEW T, NEW x, IsFiniteSet(T)
      PROVE  /\ IsFiniteSet(T \cup {x}) /\ Cardinality(T \cup {x}) <= Cardinality(T) + 1
             /\ IsFiniteSet(T \ {x}) /\ (x \in T => Cardinality(T \ {x}) = Cardinality(T) - 1)
  <2>1. Cardinality(T) \in Nat
    BY <1>2, FS_CardinalityType
  <2>2. /\ IsFiniteSet(T \cup {x})
        /\ Cardinality(T \cup {x}) = IF x \in T THEN Cardinality(T) ELSE Cardinality(T) + 1
    BY <1>2, FS_AddElement
  <2>3. /\ IsFiniteSet(T \ {x})
        /\ Cardinality(T \ {x}) = IF x \in T THEN Cardinality(T) - 1 ELSE Cardinality(T)
    BY <1>2, FS_RemoveElement
  <2> QED
    BY <2>1, <2>2, <2>3
<1>3. C \subseteq A /\ D \subseteq B => Cardinality(C) + Cardinality(D) <= Cardinality(A) + Cardinality(B)
  BY <1>0, <1>1
<1>4. ASSUME NEW a \in A, NEW b, C \subseteq A \ {a}, D \subseteq B \cup {b}
      PROVE  Cardinality(C) + Cardinality(D) <= Cardinality(A) + Cardinality(B)
  <2>0. IsFiniteSet(A \ {a}) /\ Cardinality(A \ {a}) = Cardinality(A) - 1
    BY <1>2
  <2>1. Cardinality(C) \in Nat /\ Cardinality(C) <= Cardinality(A) - 1
    BY <1>1, <1>4, <2>0
  <2>2. /\ Cardinality(D) \in Nat /\ Cardinality(B \cup {b}) \in Nat
        /\ Cardinality(D) <= Cardinality(B \cup {b}) /\ Cardinality(B \cup {b}) <= Cardinality(B) + 1
    BY <1>1, <1>2, <1>4
  <2> QED
    BY <1>0, <2>1, <2>2
<1>5. ASSUME NEW a, NEW b \in B, C \subseteq A \cup {a}, D \subseteq B \ {b}
      PROVE  Cardinality(C) + Cardinality(D) <= Cardinality(A) + Cardinality(B)
  <2>0. IsFiniteSet(B \ {b}) /\ Cardinality(B \ {b}) = Cardinality(B) - 1
    BY <1>2
  <2>1. Cardinality(D) \in Nat /\ Cardinality(D) <= Cardinality(B) - 1
    BY <1>1, <1>5, <2>0
  <2>2. /\ Cardinality(C) \in Nat /\ Cardinality(A \cup {a}) \in Nat
        /\ Cardinality(C) <= Cardinality(A \cup {a}) /\ Cardinality(A \cup {a}) <= Cardinality(A) + 1
    BY <1>1, <1>2, <1>5
  <2> QED
    BY <1>0, <2>1, <2>2
<1>6. ASSUME NEW a, C \subseteq A \cup {a}, D \subseteq B
      PROVE  Cardinality(C) + Cardinality(D) <= Cardinality(A) + Cardinality(B) + 1
  <2>1. /\ Cardinality(C) \in Nat /\ Cardinality(A \cup {a}) \in Nat
        /\ Cardinality(C) <= Cardinality(A \cup {a}) /\ Cardinality(A \cup {a}) <= Cardinality(A) + 1
    BY <1>1, <1>2, <1>6
  <2>2. Cardinality(D) \in Nat /\ Cardinality(D) <= Cardinality(B)
    BY <1>1, <1>6
  <2> QED
    BY <1>0, <2>1, <2>2
<1>7. QED
  BY <1>3, <1>4, <1>5, <1>6

LEMMA ChainNext == ASSUME Typed, Money, ChainInv, [Next]_vars PROVE ChainInv'
<1>0. /\ faults \in Nat /\ faults' \in Nat /\ faults <= faults'
      /\ Fault => faults' = faults + 1
  <2>1. ASSUME NEW w \in Workers, Step(w) PROVE faults' = faults
    BY <2>1 DEF Step, Load, Run, Call, Persist, Enqueue, Done, Status, Count, Ingest, Finalize, Fail, Cancel,
                Throw, HandlerLoad, HandlerRelease, Stays
  <2>2. ASSUME Api \/ Outbox \/ Admin \/ UNCHANGED vars PROVE faults' = faults \/ faults' = faults + 1
    BY <2>2 DEF Api, Create, CancelRead, CancelEnqueue, CancelDirect, CancelRemove, Outbox,
                DispatchPick, DispatchAdd, DispatchMark, DispatchAddFails, DispatchCrash, Dispatcher,
                ReconcileRead, Revive, Admin, ReplayRead, ReplayReset, ForceFail, vars
  <2>3. ASSUME NEW w \in Workers, NEW t \in Tasks, Take(w, t) \/ Stalled(w, t) PROVE faults' = faults
    BY <2>3 DEF Take, Stalled
  <2>4. Fault => faults' = faults + 1
    BY DEF Fault, Crash, Error, LoseLock, Evict, Faulty
  <2>5. faults' = faults \/ faults' = faults + 1
    BY <2>1, <2>2, <2>3, <2>4 DEF Next, Consume
  <2>6. faults \in Nat
    BY DEF Typed, GenerationTypeOK
  <2> QED
    BY <2>4, <2>5, <2>6
<1>1. /\ Line
      /\ job.status \in {"NONE", "QUEUED"} => NotBegun
      /\ client = "remove" => job.status = "CANCELED" /\ NotBegun
      /\ Chained
  BY DEF ChainInv
<1>2. /\ Line' /\ (NotBegun => NotBegun' \/ Begins)
      /\ \/ Lost' \subseteq Lost /\ (Balance \/ client = "remove")
         \/ Disturbed /\ faults' = faults + 1
  <2>1. CASE Api \/ Outbox \/ Admin \/ UNCHANGED vars
    <3>1. QueueStep
      BY <2>1, OthersMeaning DEF QueueStep, vars
    <3> QED
      BY <1>1, <3>1, QueueKeeps
  <2>2. ASSUME NEW w \in Workers, Step(w) PROVE Line' /\ (NotBegun => NotBegun' \/ Begins) /\ Quiet
    <3>1. PICK s \in Slot : Moves(w, s) /\ WorkerStep(w, s)
      BY <2>2, WorkerMeaning
    <3> QED
      BY <1>1, <3>1, WorkerKeeps
  <2>3. ASSUME NEW w \in Workers, NEW t \in Tasks, Take(w, t) \/ Stalled(w, t)
        PROVE  Line' /\ (NotBegun => NotBegun') /\ Quiet
    BY <1>1, <2>3, TakeKeeps, StalledKeeps
  <2>4. CASE Fault
    BY <1>0, <1>1, <2>4, FaultKeeps
  <2> QED
    BY <2>1, <2>2, <2>3, <2>4 DEF Next, Consume, Quiet
<1>3. job.status = "CANCELED" /\ NotBegun => (job.status = "CANCELED" /\ NotBegun)'
  <2>1. job.status = "CANCELED" => job'.status = "CANCELED" /\ ~Begins
    BY StatusStep DEF Begins, Open
  <2> QED
    BY <1>2, <2>1
<1>4. job'.status \in {"NONE", "QUEUED"} => NotBegun'
  <2>1. job'.status \in {"NONE", "QUEUED"} => job.status \in {"NONE", "QUEUED"} /\ ~Begins
    BY StatusStep DEF Begins
  <2> QED
    BY <1>1, <1>2, <2>1
<1>5. client' = "remove" => job'.status = "CANCELED" /\ NotBegun'
  <2>1. CASE client = "remove"
    BY <1>1, <1>3, <2>1
  <2>2. CASE client' = "remove" /\ client # "remove"
    <3>1. job.status = "QUEUED" /\ job'.status = "CANCELED"
      BY <2>2, ClientStep DEF CancelsFirst
    <3>2. NotBegun /\ ~Begins
      BY <1>1, <3>1 DEF Begins
    <3> QED
      BY <1>2, <3>1, <3>2
  <2> QED
    BY <2>1, <2>2
<1>6. Chained'
  <2> DEFINE W == Cardinality(Waiting)  G == Cardinality(Going)  L == Cardinality(Lost)
  <2>1. /\ IsFiniteSet(Waiting) /\ IsFiniteSet(Going) /\ IsFiniteSet(Lost)
        /\ W \in Nat /\ G \in Nat /\ L \in Nat
    BY FiniteChains DEF Waiting, Going, Lost
  <2>2. W' \in Nat /\ G' \in Nat /\ L' \in Nat
    BY FiniteChains DEF Waiting, Going, Lost
  <2>3. Cardinality({}) = 0
    BY FS_EmptySet
  <2>4. CASE Lost' \subseteq Lost /\ (Balance \/ client = "remove")
    <3>1. L' <= L
      BY <2>1, <2>4, FS_Subset
    <3>2. Balance => W' + G' <= W + G
      <4>1. CASE Waiting' \subseteq Waiting /\ Going' \subseteq Going
        BY <2>1, <4>1, ChainCount
      <4>2. ASSUME NEW t \in Waiting, NEW w \in Workers,
                   Waiting' \subseteq Waiting \ {t}, Going' \subseteq Going \cup {w}
            PROVE  W' + G' <= W + G
        BY <2>1, <4>2, ChainCount
      <4>3. ASSUME NEW t \in Carriers, NEW w \in Going,
                   Waiting' \subseteq Waiting \cup {t}, Going' \subseteq Going \ {w}
            PROVE  W' + G' <= W + G
        BY <2>1, <4>3, ChainCount
      <4> QED
        BY <4>1, <4>2, <4>3 DEF Balance
    <3>3. L <= faults /\ (W + G <= 1 + faults \/ (job.status = "CANCELED" /\ NotBegun))
      BY <1>1 DEF Chained
    <3>4. L' <= faults'
      BY <1>0, <2>1, <2>2, <3>1, <3>3
    <3>5. CASE Balance /\ W + G <= 1 + faults
      <4>1. W' + G' <= 1 + faults'
        BY <1>0, <2>1, <2>2, <3>2, <3>5
      <4> QED
        BY <3>4, <4>1 DEF Chained
    <3>6. CASE job.status = "CANCELED" /\ NotBegun
      BY <1>3, <3>4, <3>6 DEF Chained
    <3> QED
      BY <1>1, <2>4, <3>3, <3>5, <3>6
  <2>5. CASE Disturbed /\ faults' = faults + 1
    <3>1. PICK t, w : Waiting' \subseteq Waiting \cup {t} /\ Going' \subseteq Going /\ Lost' \subseteq Lost \cup {w}
      BY <2>5 DEF Disturbed
    <3>2. W' + G' <= W + G + 1
      BY <2>1, <3>1, ChainCount
    <3>3. Cardinality(Lost') + Cardinality({}) <= Cardinality(Lost) + Cardinality({}) + 1
      BY <2>1, <3>1, ChainCount, FS_EmptySet
    <3>4. L' <= L + 1
      BY <2>1, <2>2, <2>3, <3>3
    <3>5. L <= faults /\ (W + G <= 1 + faults \/ (job.status = "CANCELED" /\ NotBegun))
      BY <1>1 DEF Chained
    <3>6. L' <= faults' /\ (W + G <= 1 + faults => W' + G' <= 1 + faults')
      BY <1>0, <2>1, <2>2, <2>5, <3>2, <3>4, <3>5
    <3> QED
      BY <1>3, <3>5, <3>6 DEF Chained
  <2> QED
    BY <1>2, <2>4, <2>5
<1>7. QED
  BY <1>2, <1>4, <1>5, <1>6 DEF ChainInv

LEMMA ChainInit == Init => ChainInv
<1> SUFFICES ASSUME Init PROVE ChainInv
  OBVIOUS
<1>1. /\ \A w \in Workers : worker[w].at = "idle" /\ worker[w].task = "none" /\ worker[w].owns = FALSE
      /\ \A t \in Tasks : queue[t].state = "absent"
      /\ Polls \subseteq Tasks /\ "process" \in Tasks
      /\ client = "idle" /\ faults = 0
  BY DEF Init, Idle, NoTask, Tasks
<1>2. Line /\ NotBegun
  BY <1>1, TaskNames DEF Line, Locks, CancelsOnly, NotBegun, InTask
<1>3. Going = {} /\ Lost = {}
  BY <1>1, TaskNames DEF Going, Lost, Continuing
<1>4. Waiting \subseteq {"process"}
  BY <1>1 DEF Waiting, Waits, Continues, Carriers
<1>5. Cardinality(Waiting) <= 1 /\ Cardinality(Waiting) \in Nat
  <2>1. Cardinality(Waiting) \in Nat
    BY <1>4, FiniteChains DEF Carriers
  <2>2. IsFiniteSet({"process"}) /\ Cardinality({"process"}) = 1
    BY FS_Singleton
  <2>3. Cardinality(Waiting) <= Cardinality({"process"})
    BY <1>4, <2>2, FS_Subset
  <2> QED
    BY <2>1, <2>2, <2>3
<1>6. Cardinality(Going) = 0 /\ Cardinality(Lost) = 0
  BY <1>3, FS_EmptySet
<1>7. QED
  BY <1>1, <1>2, <1>5, <1>6 DEF ChainInv, Chained

(* Every chain of polls but the first has a fault of its own, whatever       *)
(* users, administrators and the reconciler do and however many faults there *)
(* are: crashes after the poll was added, lost locks and records that BullMQ *)
(* dropped start another one each at most (pipeline.ts:299-337, 367-377).    *)
THEOREM ChainsNeedAFaultEach == Spec => []ChainsNeedFaults
<1>1. Typed /\ Money /\ ChainInv /\ [Next]_vars => ChainInv'
  BY ChainNext
<1>2. Spec => [](Typed /\ ChainInv)
  BY <1>1, ChainInit, MoneyInvariant, PTL DEF Spec
<1>3. Typed /\ ChainInv => ChainsNeedFaults
  <2> SUFFICES ASSUME Typed, ChainInv PROVE ChainsNeedFaults
    OBVIOUS
  <2> DEFINE S == {t \in Polls \cup {"process"} : Continues(t)}
  <2>1. /\ IsFiniteSet(Waiting) /\ IsFiniteSet(Going) /\ IsFiniteSet(Lost)
        /\ Cardinality(Waiting) \in Nat /\ Cardinality(Going) \in Nat /\ Cardinality(Lost) \in Nat
        /\ faults \in Nat
    BY FiniteChains DEF Waiting, Going, Lost, Typed, GenerationTypeOK
  <2>2. S \subseteq Waiting
    BY DEF Waiting, Waits, Carriers
  <2>3. Cardinality(S) \in Nat /\ Cardinality(S) <= Cardinality(Waiting)
    BY <2>1, <2>2, FS_Subset, FS_CardinalityType
  <2>4. SUFFICES Cardinality(S) + Cardinality(Going) <= 1 + faults
    BY DEF ChainsNeedFaults, Going
  <2>5. CASE Cardinality(Waiting) + Cardinality(Going) <= 1 + faults
    BY <2>1, <2>3, <2>5
  <2>6. CASE NotBegun
    <3>1. Cardinality(Lost) <= faults /\ Locks
      BY DEF ChainInv, Chained, Line
    <3>2. S \subseteq {"process"}
      BY <2>6 DEF NotBegun, Continues, Locks
    <3>3. \A v \in Going : worker[v].task = "process"
      BY <2>6 DEF NotBegun, Going, Continuing
    <3>4. CASE \E v \in Workers : worker[v].owns /\ worker[v].task = "process"
      <4>1. PICK v \in Workers : worker[v].owns /\ worker[v].task = "process"
        BY <3>4
      <4>2. queue["process"].state = "active"
        BY <3>1, <4>1 DEF Locks
      <4>3. S = {}
        BY <3>2, <4>1, <4>2 DEF Continues
      <4>4. Going \subseteq Lost \cup {v}
        BY <3>1, <3>3, <4>1 DEF Lost, Going, Locks
      <4>5. Cardinality(Going) + Cardinality({}) <= Cardinality(Lost) + Cardinality({}) + 1
        BY <2>1, <4>4, ChainCount, FS_EmptySet
      <4> HIDE DEF S
      <4> QED
        BY <2>1, <3>1, <4>3, <4>5, FS_EmptySet
    <3>5. CASE ~\E v \in Workers : worker[v].owns /\ worker[v].task = "process"
      <4>1. Going \subseteq Lost
        BY <3>3, <3>5 DEF Lost, Going
      <4>2. Cardinality(Going) <= Cardinality(Lost)
        BY <2>1, <4>1, FS_Subset
      <4>3. Cardinality(S) <= 1
        <5> HIDE DEF S
        <5>1. IsFiniteSet({"process"}) /\ Cardinality({"process"}) = 1
          BY FS_Singleton
        <5>2. Cardinality(S) <= Cardinality({"process"})
          BY <3>2, <5>1, FS_Subset
        <5> QED
          BY <5>1, <5>2
      <4> HIDE DEF S
      <4> QED
        BY <2>1, <2>3, <3>1, <4>2, <4>3
    <3> QED
      BY <3>4, <3>5
  <2> QED
    BY <2>5, <2>6 DEF ChainInv, Chained
<1>4. QED
  BY <1>2, <1>3, PTL

-----------------------------------------------------------------------------
(* The job keeps the promise of JobLifecycle.                                *)

(* Before the job exists nothing has happened, and nothing else can.         *)
Pristine == job.status = "NONE" => Init

LEMMA FromNothing == ASSUME Init, [Next]_vars PROVE Create \/ UNCHANGED vars
<1>0. \A w \in Workers : worker[w].at = "idle" /\ worker[w].owns = FALSE
  BY DEF Init, Idle
<1>1. \A t \in Tasks : queue[t].state = "absent"
  BY DEF Init, NoTask
<1>2. /\ job.status = "NONE" /\ outbox.status = "NONE"
      /\ client = "idle" /\ dispatcher = "idle" /\ reconciler = "idle" /\ operator = "idle"
  BY DEF Init
<1>3. ASSUME NEW w \in Workers PROVE ~Step(w)
  BY <1>0 DEF Step, Load, Run, Call, Persist, Enqueue, Done, Status, Count, Ingest, Finalize, Fail, Cancel,
              Throw, HandlerLoad, HandlerRelease, At
<1>4. ~Consume
  BY <1>1, <1>3 DEF Consume, Take, Stalled
<1>5. ~Fault
  BY <1>0, <1>1 DEF Fault, Crash, Error, LoseLock, Evict, At
<1>6. ~Outbox /\ ~Admin
  BY <1>2 DEF Outbox, DispatchPick, DispatchAdd, DispatchMark, DispatchAddFails, DispatchCrash,
              ReconcileRead, Revive, Admin, ReplayRead, ReplayReset, ForceFail, Open
<1>7. ~(CancelRead \/ CancelEnqueue \/ CancelDirect \/ CancelRemove)
  BY <1>2 DEF CancelRead, CancelEnqueue, CancelDirect, CancelRemove, Open
<1>8. QED
  BY <1>4, <1>5, <1>6, <1>7 DEF Next, Api

LEMMA PristineNext == ASSUME Typed, Money, Pristine, [Next]_vars PROVE Pristine'
<1>1. CASE job.status = "NONE"
  <2>1. CASE Create
    <3>1. job'.status = "QUEUED"
      BY <2>1 DEF Create, Typed, GenerationTypeOK, JobRow
    <3> QED
      BY <3>1 DEF Pristine
  <2>2. CASE UNCHANGED vars
    BY <1>1, <2>2 DEF Pristine, Init, vars, rows, actors
  <2> QED
    BY <1>1, <2>1, <2>2, FromNothing DEF Pristine
<1>2. CASE job.status # "NONE"
  <2>1. job'.status # "NONE"
    <3>1. MoneyStep /\ job \in JobRow
      BY NextIsMoneyStep DEF Money, MoneyTypes
    <3>2. CASE Created \/ Started \/ Delivered
      BY <3>1, <3>2 DEF Created, Started, Delivered, JobRow
    <3>3. CASE \E status \in {"FAILED", "CANCELED"} : EndedBy(status)
      BY <1>2, <3>1, <3>3 DEF EndedBy, EndedAs, JobRow
    <3>4. CASE Kept
      BY <1>2, <3>1, <3>4 DEF Kept, JobRow
    <3> QED
      BY <3>1, <3>2, <3>3, <3>4 DEF MoneyStep
  <2> QED
    BY <2>1 DEF Pristine
<1>3. QED
  BY <1>1, <1>2

LEMMA PristineHolds == Spec => []Pristine
<1>1. Init => Pristine
  BY DEF Pristine
<1>2. Typed /\ Money /\ Pristine /\ [Next]_vars => Pristine'
  BY PristineNext
<1>3. QED
  BY <1>1, <1>2, MoneyInvariant, PTL DEF Spec

(* Only a worker delivers, and it works for a job that has started.          *)
LEMMA DeliversStarted ==
    ASSUME Typed, KnowsInv, [Next]_vars, job'.status = "SUCCEEDED"
    PROVE  job.status \in {"RUNNING", "SUCCEEDED"}
<1>0. job \in JobRow
  BY DEF Typed, GenerationTypeOK
<1>1. CASE Api \/ Outbox \/ Admin \/ UNCHANGED vars
  BY <1>0, <1>1 DEF Api, Create, CancelRead, CancelEnqueue, CancelDirect, CancelRemove, Outbox,
              DispatchPick, DispatchAdd, DispatchMark, DispatchAddFails, DispatchCrash, Dispatcher,
              ReconcileRead, Revive, Admin, ReplayRead, ReplayReset, ForceFail, rows, vars, EndedAs, JobRow
<1>2. ASSUME NEW w \in Workers, Step(w) PROVE job.status \in {"RUNNING", "SUCCEEDED"}
  <2>1. CASE Finalize(w)
    <3>1. job.status \in Open \cup {"SUCCEEDED"}
      BY <2>1 DEF Finalize
    <3>2. job.status \notin NotStarted
      BY <2>1 DEF Finalize, At, KnowsInv, Knows
    <3> QED
      BY <3>1, <3>2 DEF Open, NotStarted
  <2>2. CASE Run(w) \/ Fail(w) \/ Cancel(w) \/ HandlerRelease(w)
    BY <1>0, <2>2 DEF Run, Fail, Cancel, HandlerRelease, EndedAs, rows, JobRow
  <2>3. CASE Count(w) \/ Persist(w)
    BY <1>0, <2>3 DEF Count, Persist, JobRow
  <2>4. CASE Load(w) \/ Call(w) \/ Enqueue(w) \/ Done(w) \/ Status(w) \/ Ingest(w) \/ Throw(w)
             \/ HandlerLoad(w)
    BY <2>4 DEF Load, Call, Enqueue, Done, Status, Ingest, Throw, HandlerLoad, Stays, rows
  <2> QED
    BY <1>2, <2>1, <2>2, <2>3, <2>4 DEF Step
<1>3. CASE (\E w \in Workers, t \in Tasks : Take(w, t) \/ Stalled(w, t)) \/ Fault
  BY <1>3 DEF Take, Stalled, Fault, Crash, Error, LoseLock, Evict, Faulty, rows
<1>4. QED
  BY <1>1, <1>2, <1>3 DEF Next, Consume

(* The transactions on the rows are the steps of the promise, or none.       *)
LEMMA LifecycleStep ==
    ASSUME Typed, Money, KnowsInv, Pristine, [Next]_vars
    PROVE  [Lifecycle!LifecycleNext]_(Lifecycle!lifecycleVars)
<1>0. /\ MoneyStep /\ job \in JobRow /\ hold \in HoldRow /\ asset \in BOOLEAN
      /\ CreditsFollowJob /\ NothingBefore
  BY NextIsMoneyStep DEF Money, MoneyTypes
<1>1. ASSUME hold' = hold PROVE Credits' = Credits
  BY <1>1, Zenon DEF Credits
<1>2. job.status \in Open => Credits = "held"
  BY <1>0 DEF CreditsFollowJob, Credits
<1>3. CASE Created
  <2>1. job'.status = "QUEUED" /\ asset' = asset /\ job.status = "NONE"
    BY <1>0, <1>3 DEF Created, JobRow
  <2>2. Credits' = "held"
    BY <1>3 DEF Created, Credits
  <2> QED
    BY <2>1, <2>2 DEF Lifecycle!LifecycleNext, Lifecycle!Submit
<1>4. CASE Started
  <2>1. job'.status = "RUNNING" /\ job.status \in {"QUEUED", "RUNNING"}
        /\ asset' = asset /\ Credits' = Credits
    BY <1>0, <1>1, <1>4 DEF Started, JobRow, Open
  <2> QED
    BY <2>1 DEF Lifecycle!LifecycleNext, Lifecycle!Start, Lifecycle!lifecycleVars
<1>5. CASE Delivered
  <2>1. job'.status = "SUCCEEDED" /\ asset' = TRUE
    BY <1>0, <1>5 DEF Delivered, JobRow
  <2>2. Credits' = "paid"
    BY <1>5 DEF Delivered, Settles, Credits
  <2>3. CASE job.status = "RUNNING"
    BY <1>2, <2>1, <2>2, <2>3 DEF Open, Lifecycle!LifecycleNext, Lifecycle!Deliver
  <2>4. CASE job.status = "SUCCEEDED"
    <3>1. hold.charged = TRUE /\ asset = TRUE /\ Credits = "paid"
      BY <1>0, <2>4 DEF CreditsFollowJob, Money, DeliveredIffCharged, Credits, HoldRow
    <3> QED
      BY <2>1, <2>2, <2>4, <3>1 DEF Lifecycle!lifecycleVars
  <2> QED
    BY <2>1, <2>3, <2>4, DeliversStarted
<1>6. ASSUME NEW status \in {"FAILED", "CANCELED"}, EndedBy(status)
      PROVE  [Lifecycle!LifecycleNext]_(Lifecycle!lifecycleVars)
  <2>0. CASE job.status = "NONE"
    <3>1. CASE Create
      BY <1>0, <1>3, <3>1 DEF Create, Created
    <3>2. CASE UNCHANGED vars
      BY <1>1, <3>2 DEF vars, rows, Lifecycle!lifecycleVars
    <3> QED
      BY <2>0, <3>1, <3>2, FromNothing DEF Pristine
  <2>1. CASE job.status \in Open
    <3>1. job'.status = status /\ asset' = asset
      BY <1>0, <1>6, <2>1 DEF EndedBy, EndedAs, JobRow
    <3>2. Credits' = "refunded"
      <4>1. hold' = [hold EXCEPT !.status = "RELEASED"] /\ hold.charged = FALSE
        BY <1>0, <1>6, <2>1 DEF EndedBy, Releases, CreditsFollowJob
      <4> QED
        BY <1>0, <4>1 DEF Credits, HoldRow
    <3> QED
      BY <1>2, <2>1, <3>1, <3>2 DEF Open, Lifecycle!LifecycleNext, Lifecycle!GiveBack
  <2>2. CASE job.status \in Terminal
    <3>1. job' = job /\ asset' = asset /\ hold' = [hold EXCEPT !.status = "RELEASED"]
      BY <1>6, <2>2 DEF EndedBy, EndedAs, Releases, Open, Terminal
    <3>2. hold' \in HoldRow /\ hold'.charged = hold.charged /\ hold'.status = "RELEASED"
      BY <1>0, <3>1 DEF HoldRow
    <3>3. hold.charged = TRUE \/ hold.status = "RELEASED"
      BY <1>0, <2>2 DEF Terminal, CreditsFollowJob, HoldRow
    <3>4. Credits' = Credits
      BY <1>0, <3>2, <3>3 DEF Credits, HoldRow
    <3> QED
      BY <3>1, <3>4 DEF Lifecycle!lifecycleVars
  <2> QED
    BY <1>0, <2>0, <2>1, <2>2 DEF JobRow, Open
<1>7. CASE Kept
  <2>1. job'.status = job.status /\ asset' = asset /\ Credits' = Credits
    BY <1>0, <1>1, <1>7 DEF Kept, JobRow
  <2> QED
    BY <2>1 DEF Lifecycle!lifecycleVars
<1>8. QED
  BY <1>0, <1>3, <1>4, <1>5, <1>6, <1>7 DEF MoneyStep

(* The job as its user sees it, through queue, outbox, crashes, retries and  *)
(* repairs: submitted and started once, ended once, and then delivered and   *)
(* paid for or given back in full.                                           *)
THEOREM GenerationImplementsLifecycle == Spec => ImplementsLifecycle
<1>1. Init => Lifecycle!LifecycleInit
  BY DEF Init, Lifecycle!LifecycleInit, Credits
<1>2. Typed /\ Money /\ KnowsInv /\ Pristine /\ [Next]_vars
      => [Lifecycle!LifecycleNext]_(Lifecycle!lifecycleVars)
  BY LifecycleStep
<1>3. QED
  BY <1>1, <1>2, MoneyInvariant, KnowsHolds, PristineHolds, PTL
     DEF Spec, ImplementsLifecycle, Lifecycle!LifecycleSpec
=============================================================================
