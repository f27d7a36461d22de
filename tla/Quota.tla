-------------------------------- MODULE Quota --------------------------------
(* The limits of a plan: generation requests of one workspace are checked    *)
(* against its running jobs and those of the day in one transaction, and     *)
(* insert their job in another.  The subscription stays ACTIVE and its plan  *)
(* as it is.                                                                 *)
(*                                                                           *)
(* Clients: the requests the workspace has in flight at once.  Jobs are      *)
(* counted, not told apart.  The month is like the day and left out, so are  *)
(* the limits of credits and the checks of a request by itself.  overlap is  *)
(* a history variable: no step of the program reads it.                      *)
EXTENDS Naturals, FiniteSets

CONSTANTS Clients, maxConcurrentGenerations, dailyGenerationLimit

ASSUME QuotaAssumption ==
    /\ IsFiniteSet(Clients) /\ "nobody" \notin Clients
    /\ maxConcurrentGenerations \in Nat \ {0} /\ dailyGenerationLimit \in Nat \ {0}

VARIABLES
    queued, running,    \* jobs by status
    today, yesterday,   \* jobs by the day they were created
    asking,             \* what each request is doing; late: midnight has passed
    subscriptionLock,   \* who holds the row of the subscription
    overlap             \* the most requests that ever were between check and insert at once

jobCounts == <<queued, running, today, yesterday>>
programVars == <<jobCounts, asking, subscriptionLock>>
quotaVars == <<programVars, overlap>>

NoRequest == [at |-> "idle", late |-> FALSE]

QuotaInit ==
    /\ queued = 0 /\ running = 0 /\ today = 0 /\ yesterday = 0
    /\ asking = [c \in Clients |-> NoRequest]
    /\ subscriptionLock = "nobody"
    /\ overlap = 0

-----------------------------------------------------------------------------
(* checkRunningAndQuotaInTx: statement by statement, jobs come and go.       *)

GoesTo(c, at) == asking' = [asking EXCEPT ![c].at = at]
Refuses(c) == asking' = [asking EXCEPT ![c] = NoRequest] /\ subscriptionLock' = "nobody"

LockSubscription(c) ==
    /\ asking[c].at = "idle" /\ subscriptionLock = "nobody"
    /\ subscriptionLock' = c /\ GoesTo(c, "active")
    /\ UNCHANGED jobCounts

activeCount_Running == running
activeCount == queued + running
CountActive(c) ==
    /\ asking[c].at = "active"
    /\ \/ activeCount < maxConcurrentGenerations /\ GoesTo(c, "today") /\ UNCHANGED subscriptionLock
       \/ activeCount >= maxConcurrentGenerations /\ Refuses(c)
    /\ UNCHANGED jobCounts

(* The day of a request is that of its start.                                *)
CountToday(c) ==
    LET count == today + (IF asking[c].late THEN yesterday ELSE 0)
    IN  /\ asking[c].at = "today"
        /\ \/ count < dailyGenerationLimit /\ GoesTo(c, "create") /\ subscriptionLock' = "nobody"
           \/ count >= dailyGenerationLimit /\ Refuses(c)
        /\ UNCHANGED jobCounts

(* The transaction of create, or its rollback when the credits are short.    *)
Create(c) ==
    /\ asking[c].at = "create"
    /\ \/ queued' = queued + 1 /\ today' = today + 1
       \/ UNCHANGED <<queued, today>>
    /\ asking' = [asking EXCEPT ![c] = NoRequest]
    /\ UNCHANGED <<running, yesterday, subscriptionLock>>

-----------------------------------------------------------------------------
(* Jobs go on, days too; no request lasts a day.                             *)

JobStarts ==
    /\ queued > 0 /\ queued' = queued - 1 /\ running' = running + 1
    /\ UNCHANGED <<today, yesterday, asking, subscriptionLock>>

JobEnds ==
    /\ \/ queued > 0 /\ queued' = queued - 1 /\ UNCHANGED running
       \/ running > 0 /\ running' = running - 1 /\ UNCHANGED queued
    /\ UNCHANGED <<today, yesterday, asking, subscriptionLock>>

Midnight ==
    /\ \A c \in Clients : ~asking[c].late
    /\ today' = 0 /\ yesterday' = today
    /\ asking' = [c \in Clients |-> [asking[c] EXCEPT !.late = asking[c].at # "idle"]]
    /\ UNCHANGED <<queued, running, subscriptionLock>>

Passed == {c \in Clients : asking[c].at \in {"today", "create"}}
Larger(a, b) == IF a >= b THEN a ELSE b

QuotaNext ==
    /\ \/ \E c \in Clients : LockSubscription(c) \/ CountActive(c) \/ CountToday(c) \/ Create(c)
       \/ JobStarts \/ JobEnds \/ Midnight
    /\ overlap' = Larger(overlap, Cardinality(Passed'))

QuotaSpec == QuotaInit /\ [][QuotaNext]_quotaVars

-----------------------------------------------------------------------------
(* Properties.                                                               *)

(* A limit is passed only by requests that were between their check and      *)
(* their insert at once, and by one job less than they were: a workspace     *)
(* that sends one request at a time stays within its limits, whatever jobs   *)
(* start, end and days begin in between                                      *)
(* (entitlement.ts:183-298, generations.service.ts:77-167).                  *)
OvershootNeedsOverlap ==
    /\ queued + running < maxConcurrentGenerations + overlap
    /\ today < dailyGenerationLimit + overlap

(* What entitlement.ts:41-44 says the lock on the subscription is for, and   *)
(* entitlement.integration.spec.ts:6 that concurrent requests do: stay       *)
(* within the limit of running jobs and that of the day.  The lock is        *)
(* released before the job is inserted (entitlement.ts:297,                  *)
(* generations.service.ts:122-150).                                          *)
LimitsAreKept ==
    /\ queued + running <= maxConcurrentGenerations
    /\ today <= dailyGenerationLimit
=============================================================================
