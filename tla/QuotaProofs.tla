----------------------------- MODULE QuotaProofs -----------------------------
(* How far a workspace can pass its limits, for any number of clients and    *)
(* any limits.                                                               *)
EXTENDS Quota, FiniteSetTheorems, TLAPS

Steps == {"idle", "active", "today", "create"}

QuotaTypes ==
    /\ queued \in Nat /\ running \in Nat /\ today \in Nat /\ yesterday \in Nat
    /\ asking \in [Clients -> [at : Steps, late : BOOLEAN]]

(* Requests that have passed the check of the day as well.                   *)
PassedToday == {c \in Clients : asking[c].at = "create"}

(* What has passed a check counts as if its job were there already.          *)
QuotaInv ==
    /\ QuotaTypes /\ overlap \in Nat
    /\ queued + running + Cardinality(Passed) < maxConcurrentGenerations + overlap
    /\ today + Cardinality(PassedToday) < dailyGenerationLimit + overlap

-----------------------------------------------------------------------------
(* Counting clients.                                                         *)

LEMMA SubsetsAreCounted ==
    ASSUME NEW S \in SUBSET Clients
    PROVE  IsFiniteSet(S) /\ Cardinality(S) \in Nat
BY FS_Subset, FS_CardinalityType, QuotaAssumption

(* A set without one of its members is smaller by one.                       *)
LEMMA OneLess ==
    ASSUME NEW S \in SUBSET Clients, NEW c \in S
    PROVE  Cardinality(S \ {c}) = Cardinality(S) - 1
BY SubsetsAreCounted, FS_RemoveElement

(* A smaller set is counted as such.                                         *)
LEMMA Smaller ==
    ASSUME NEW S \in SUBSET Clients, NEW T \in SUBSET S
    PROVE  Cardinality(T) <= Cardinality(S)
BY SubsetsAreCounted, FS_Subset

-----------------------------------------------------------------------------
(* The history counts every overlap and forgets none.                        *)
LEMMA OverlapGrows ==
    ASSUME overlap \in Nat, [QuotaNext]_quotaVars
    PROVE  /\ overlap' \in Nat /\ overlap <= overlap'
           /\ UNCHANGED quotaVars \/ Cardinality(Passed') <= overlap'
<1>1. Cardinality(Passed') \in Nat
    <2>1. Passed' \in SUBSET Clients
        BY DEF Passed
    <2>2. QED
        BY <2>1, SubsetsAreCounted
<1>2. CASE QuotaNext
    BY <1>1, <1>2 DEF QuotaNext, Larger
<1>3. CASE UNCHANGED quotaVars
    BY <1>3 DEF quotaVars
<1>4. QED
    BY <1>2, <1>3

LEMMA QuotaInitially == QuotaInit => QuotaInv
<1> SUFFICES ASSUME QuotaInit PROVE QuotaInv
    OBVIOUS
<1>1. QuotaTypes
    BY DEF QuotaInit, QuotaTypes, NoRequest, Steps
<1>2. Passed = {} /\ PassedToday = {}
    BY DEF QuotaInit, Passed, PassedToday, NoRequest
<1>3. Cardinality({}) = 0
    BY FS_EmptySet
<1>4. QED
    BY <1>1, <1>2, <1>3, QuotaAssumption DEF QuotaInv, QuotaInit

(* Requests stay requests, wherever they go.                                 *)
LEMMA RequestsStayTyped ==
    ASSUME QuotaTypes, NEW c \in Clients, NEW at \in Steps, GoesTo(c, at) \/ Refuses(c)
    PROVE  asking' \in [Clients -> [at : Steps, late : BOOLEAN]]
<1>1. CASE GoesTo(c, at)
    BY <1>1 DEF GoesTo, QuotaTypes
<1>2. CASE Refuses(c)
    BY <1>2 DEF Refuses, NoRequest, QuotaTypes, Steps
<1>3. QED
    BY <1>1, <1>2

LEMMA QuotaTypesInductive == QuotaTypes /\ [QuotaNext]_quotaVars => QuotaTypes'
<1> SUFFICES ASSUME QuotaTypes, [QuotaNext]_quotaVars PROVE QuotaTypes'
    OBVIOUS
<1> USE DEF QuotaTypes, Steps, jobCounts, NoRequest
<1>1. ASSUME NEW c \in Clients, LockSubscription(c) PROVE QuotaTypes'
    BY <1>1 DEF LockSubscription, GoesTo
<1>2. ASSUME NEW c \in Clients, CountActive(c) PROVE QuotaTypes'
    <2>1. asking' \in [Clients -> [at : Steps, late : BOOLEAN]]
        BY <1>2, RequestsStayTyped DEF CountActive
    <2>2. QED
        BY <1>2, <2>1 DEF CountActive
<1>3. ASSUME NEW c \in Clients, CountToday(c) PROVE QuotaTypes'
    <2>1. asking' \in [Clients -> [at : Steps, late : BOOLEAN]]
        BY <1>3, RequestsStayTyped DEF CountToday
    <2>2. QED
        BY <1>3, <2>1 DEF CountToday
<1>4. ASSUME NEW c \in Clients, Create(c) PROVE QuotaTypes'
    BY <1>4 DEF Create
<1>5. CASE JobStarts
    BY <1>5 DEF JobStarts
<1>6. CASE JobEnds
    BY <1>6 DEF JobEnds
<1>7. CASE Midnight
    BY <1>7 DEF Midnight
<1>8. CASE UNCHANGED quotaVars
    BY <1>8 DEF quotaVars, programVars
<1>9. QED
    BY <1>1, <1>2, <1>3, <1>4, <1>5, <1>6, <1>7, <1>8 DEF QuotaNext

(* Jobs of two statuses are counted together.                                *)
LEMMA SumsAreNat ==
    ASSUME NEW x \in Nat, NEW y \in Nat
    PROVE  x + y \in Nat
OBVIOUS

(* Counts that go up only by what another one goes down.                     *)
LEMMA SumGoesDown ==
    ASSUME NEW x \in Nat, NEW y \in Nat, NEW x2 \in Nat, NEW y2 \in Nat,
           NEW limit \in Nat, NEW o \in Nat, NEW o2 \in Nat, o <= o2,
           x + y < limit + o, (x2 <= x /\ y2 <= y) \/ (x2 <= x + 1 /\ y2 = y - 1)
    PROVE  x2 + y2 < limit + o2
OBVIOUS

(* A request that passes: only those that pass with it are over the limit.   *)
LEMMA LastOfMany ==
    ASSUME NEW x2 \in Nat, NEW y2 \in Nat, NEW limit \in Nat, NEW o2 \in Nat,
           x2 < limit, y2 <= o2
    PROVE  x2 + y2 < limit + o2
OBVIOUS

(* No step passes more requests than the limits allow.                       *)
LEMMA QuotaInductive == QuotaInv /\ [QuotaNext]_quotaVars => QuotaInv'
<1>1. SUFFICES ASSUME QuotaInv, [QuotaNext]_quotaVars PROVE QuotaInv'
    OBVIOUS
<1>2. QuotaTypes /\ QuotaTypes'
    BY <1>1, QuotaTypesInductive DEF QuotaInv
<1>3. /\ Passed \in SUBSET Clients /\ PassedToday \in SUBSET Clients
      /\ Passed' \in SUBSET Clients /\ PassedToday' \in SUBSET Clients
    BY DEF Passed, PassedToday
<1>4. /\ Cardinality(Passed) \in Nat /\ Cardinality(PassedToday) \in Nat
      /\ Cardinality(Passed') \in Nat /\ Cardinality(PassedToday') \in Nat
    BY <1>3, SubsetsAreCounted
<1>5. /\ queued + running \in Nat /\ today \in Nat
      /\ queued' + running' \in Nat /\ today' \in Nat
    <2>1. queued \in Nat /\ running \in Nat /\ today \in Nat
        BY <1>2 DEF QuotaTypes
    <2>2. queued' \in Nat /\ running' \in Nat /\ today' \in Nat
        BY <1>2 DEF QuotaTypes
    <2>3. QED
        BY <2>1, <2>2, SumsAreNat
<1>6. /\ overlap \in Nat /\ overlap' \in Nat /\ overlap <= overlap'
      /\ maxConcurrentGenerations \in Nat /\ dailyGenerationLimit \in Nat
    BY <1>1, OverlapGrows, QuotaAssumption DEF QuotaInv
<1>7. /\ queued + running + Cardinality(Passed) < maxConcurrentGenerations + overlap
      /\ today + Cardinality(PassedToday) < dailyGenerationLimit + overlap
    BY <1>1 DEF QuotaInv
<1>8. ASSUME queued' + running' + Cardinality(Passed') < maxConcurrentGenerations + overlap',
             today' + Cardinality(PassedToday') < dailyGenerationLimit + overlap'
      PROVE  QuotaInv'
    BY <1>2, <1>6, <1>8 DEF QuotaInv
<1>stutter. CASE UNCHANGED quotaVars
    BY <1>1, <1>2, <1>stutter DEF QuotaInv, Passed, PassedToday, quotaVars, programVars, jobCounts
<1>counted. ASSUME ~UNCHANGED quotaVars
       PROVE  Cardinality(Passed') <= overlap' /\ Cardinality(PassedToday') <= overlap'
    <2>1. Cardinality(Passed') <= overlap'
        BY <1>1, <1>counted, OverlapGrows DEF QuotaInv
    <2>2. PassedToday' \in SUBSET Passed'
        BY DEF Passed, PassedToday
    <2>3. Cardinality(PassedToday') <= Cardinality(Passed')
        BY <1>3, <2>2, Smaller
    <2>4. QED
        BY <1>4, <1>6, <2>1, <2>3
<1>9. ASSUME Passed' \subseteq Passed, queued' + running' <= queued + running
      PROVE  queued' + running' + Cardinality(Passed') < maxConcurrentGenerations + overlap'
    <2>1. Cardinality(Passed') <= Cardinality(Passed)
        BY <1>3, <1>9, Smaller
    <2>2. QED
        BY <1>4, <1>5, <1>6, <1>7, <1>9, <2>1, SumGoesDown
<1>10. ASSUME PassedToday' \subseteq PassedToday, today' <= today
       PROVE  today' + Cardinality(PassedToday') < dailyGenerationLimit + overlap'
    <2>1. Cardinality(PassedToday') <= Cardinality(PassedToday)
        BY <1>3, <1>10, Smaller
    <2>2. QED
        BY <1>4, <1>5, <1>6, <1>7, <1>10, <2>1, SumGoesDown
<1>11. ASSUME jobCounts' = jobCounts PROVE queued' + running' <= queued + running /\ today' <= today
    BY <1>5, <1>11 DEF jobCounts
<1>12. ASSUME NEW c \in Clients, LockSubscription(c) PROVE QuotaInv'
    <2>1. Passed' \subseteq Passed /\ PassedToday' \subseteq PassedToday
        BY <1>2, <1>12 DEF LockSubscription, GoesTo, Passed, PassedToday, QuotaTypes
    <2>2. QED
        BY <1>8, <1>9, <1>10, <1>11, <1>12, <2>1 DEF LockSubscription, jobCounts
<1>13. ASSUME NEW c \in Clients, Refuses(c), UNCHANGED jobCounts PROVE QuotaInv'
    <2>1. Passed' \subseteq Passed /\ PassedToday' \subseteq PassedToday
        BY <1>2, <1>13 DEF Refuses, NoRequest, Passed, PassedToday, QuotaTypes
    <2>2. QED
        BY <1>8, <1>9, <1>10, <1>11, <1>13, <2>1
<1>14. ASSUME NEW c \in Clients, CountActive(c) PROVE QuotaInv'
    <2>1. UNCHANGED jobCounts
        BY <1>14 DEF CountActive
    <2>2. CASE queued + running < maxConcurrentGenerations /\ GoesTo(c, "today")
        <3>1. PassedToday' \subseteq PassedToday
            BY <1>2, <2>2 DEF GoesTo, PassedToday, QuotaTypes
        <3>moves. ~UNCHANGED quotaVars
            BY <1>2, <1>14, <2>2 DEF CountActive, GoesTo, quotaVars, programVars, QuotaTypes
        <3>2. queued' + running' < maxConcurrentGenerations
            BY <2>1, <2>2 DEF jobCounts
        <3>3. queued' + running' + Cardinality(Passed') < maxConcurrentGenerations + overlap'
            BY <1>2, <1>4, <1>5, <1>6, <1>counted, <3>2, <3>moves, LastOfMany
        <3>4. QED
            BY <1>8, <1>10, <1>11, <2>1, <3>1, <3>3
    <2>3. QED
        BY <1>13, <1>14, <2>1, <2>2 DEF CountActive, activeCount
<1>15. ASSUME NEW c \in Clients, CountToday(c) PROVE QuotaInv'
    <2>1. UNCHANGED jobCounts
        BY <1>15 DEF CountToday
    <2>2. CASE today < dailyGenerationLimit /\ asking[c].at = "today" /\ GoesTo(c, "create")
        <3>1. Passed' \subseteq Passed
            BY <1>2, <2>2 DEF GoesTo, Passed, QuotaTypes
        <3>moves. ~UNCHANGED quotaVars
            BY <1>2, <1>15, <2>2 DEF CountToday, GoesTo, quotaVars, programVars, QuotaTypes
        <3>2. today' < dailyGenerationLimit
            BY <2>1, <2>2 DEF jobCounts
        <3>3. today' + Cardinality(PassedToday') < dailyGenerationLimit + overlap'
            BY <1>2, <1>4, <1>5, <1>6, <1>counted, <3>2, <3>moves, LastOfMany
        <3>4. QED
            BY <1>8, <1>9, <1>11, <2>1, <3>1, <3>3
    <2>3. ASSUME today + (IF asking[c].late THEN yesterday ELSE 0) < dailyGenerationLimit
          PROVE  today < dailyGenerationLimit
        BY <1>2, <1>6, <2>3 DEF QuotaTypes
    <2>4. QED
        BY <1>13, <1>15, <2>1, <2>2, <2>3 DEF CountToday
<1>16. ASSUME NEW c \in Clients, Create(c) PROVE QuotaInv'
    <2>1. c \in Passed /\ c \in PassedToday
        BY <1>16 DEF Create, Passed, PassedToday
    <2>2. Passed' = Passed \ {c} /\ PassedToday' = PassedToday \ {c}
        BY <1>2, <1>16 DEF Create, NoRequest, Passed, PassedToday, QuotaTypes
    <2>3. /\ Cardinality(Passed') = Cardinality(Passed) - 1
          /\ Cardinality(PassedToday') = Cardinality(PassedToday) - 1
        BY <1>3, <2>1, <2>2, OneLess
    <2>4. queued' + running' <= queued + running + 1 /\ today' <= today + 1
        <3>1. queued \in Nat /\ running \in Nat /\ today \in Nat
            BY <1>2 DEF QuotaTypes
        <3>2. CASE queued' = queued + 1 /\ today' = today + 1 /\ running' = running
            BY <3>1, <3>2
        <3>3. CASE queued' = queued /\ today' = today /\ running' = running
            BY <3>1, <3>3
        <3>4. QED
            BY <1>16, <3>2, <3>3 DEF Create
    <2>5. queued' + running' + Cardinality(Passed') < maxConcurrentGenerations + overlap'
        BY <1>4, <1>5, <1>6, <1>7, <2>3, <2>4, SumGoesDown
    <2>6. today' + Cardinality(PassedToday') < dailyGenerationLimit + overlap'
        BY <1>4, <1>5, <1>6, <1>7, <2>3, <2>4, SumGoesDown
    <2>7. QED
        BY <1>8, <2>5, <2>6
<1>17. CASE JobStarts
    <2>1. Passed' = Passed /\ PassedToday' = PassedToday
        BY <1>17 DEF JobStarts, Passed, PassedToday
    <2>2. queued' + running' <= queued + running /\ today' <= today
        BY <1>2, <1>17 DEF JobStarts, QuotaTypes
    <2>3. QED
        BY <1>8, <1>9, <1>10, <2>1, <2>2
<1>18. CASE JobEnds
    <2>1. Passed' = Passed /\ PassedToday' = PassedToday
        BY <1>18 DEF JobEnds, Passed, PassedToday
    <2>2. queued' + running' <= queued + running /\ today' <= today
        <3>1. CASE queued' = queued - 1 /\ running' = running
            BY <1>2, <1>18, <3>1 DEF JobEnds, QuotaTypes
        <3>2. CASE running' = running - 1 /\ queued' = queued
            BY <1>2, <1>18, <3>2 DEF JobEnds, QuotaTypes
        <3>3. QED
            BY <1>18, <3>1, <3>2 DEF JobEnds
    <2>3. QED
        BY <1>8, <1>9, <1>10, <2>1, <2>2
<1>19. CASE Midnight
    <2>1. Passed' \subseteq Passed /\ PassedToday' \subseteq PassedToday
        BY <1>2, <1>19 DEF Midnight, Passed, PassedToday, QuotaTypes
    <2>2. queued' + running' <= queued + running /\ today' <= today
        BY <1>2, <1>19 DEF Midnight, QuotaTypes
    <2>3. QED
        BY <1>8, <1>9, <1>10, <2>1, <2>2
<1>20. QED
    BY <1>1, <1>12, <1>14, <1>15, <1>16, <1>17, <1>18, <1>19, <1>stutter DEF QuotaNext

(* A limit is passed by fewer jobs than there were requests between their    *)
(* check and their insert at once: the check of entitlement.ts and the       *)
(* insert of create are two transactions (entitlement.ts:183-298,            *)
(* generations.service.ts:77-167).                                           *)
THEOREM LimitsArePassedByOverlaps == QuotaSpec => []OvershootNeedsOverlap
<1>1. QuotaInv => OvershootNeedsOverlap
    <2> SUFFICES ASSUME QuotaInv PROVE OvershootNeedsOverlap
        OBVIOUS
    <2>1. Cardinality(Passed) \in Nat /\ Cardinality(PassedToday) \in Nat
        BY SubsetsAreCounted DEF Passed, PassedToday
    <2>2. QED
        BY <2>1, QuotaAssumption DEF QuotaInv, QuotaTypes, OvershootNeedsOverlap
<1>2. QED
    BY <1>1, QuotaInitially, QuotaInductive, PTL DEF QuotaSpec
=============================================================================
