----------------------- MODULE TriggerLifecycleProofs -----------------------
(***************************************************************************)
(* Proofs about TriggerLifecycle, for any number of triggers, vehicles,    *)
(* API calls and workers, and any threshold.                               *)
(***************************************************************************)
EXTENDS TriggerLifecycle, TLAPS

USE DEF vars, storeVars, historyVars, callVars, jobVars, cacheVars
USE DEF InsertTrigger, SetTrigger, InsertSubscription, DeleteSubscriptions, SubscriptionsOf
USE DEF GetTriggerByIDAndDeveloperLicense, GetWebhooks
USE DEF AssignVehicle, SubscribeList, SubscribeAll, GetSharedVehicles, RemoveVehicle,
        UnsubscribeList

-----------------------------------------------------------------------------
(* Type correctness                                                        *)

LEMMA TypeInit == Init => TypeOK
<1> SUFFICES ASSUME Init
             PROVE  TypeOK
  OBVIOUS
<1> USE DEF Init, Statuses
<1>1. StoreTypeOK
  BY MaxFailureCountAssumption DEF StoreInit, StoreTypeOK
<1>2. ApiTypeOK
  BY DEF ApiInit, ApiTypeOK, PCs
<1>3. NoRow \in Rows
  BY DEF NoRow, Rows
<1> QED
  BY <1>1, <1>2, <1>3 DEF TypeOK, JobPCs

LEMMA PopulateType ==
  ASSUME TypeOK, NEW skipped, Populate(skipped)
  PROVE  /\ cachedSubs' \in SUBSET (Triggers \X Vehicles)
         /\ cachedRow' \in [Triggers -> Rows]
BY DEF Populate, TypeOK, StoreTypeOK, Rows, NoRow, Row, Statuses

\* The API handlers keep the types.
LEMMA ApiType ==
  ASSUME TypeOK, ApiNext, UNCHANGED <<jobVars, cacheVars>>
  PROVE  TypeOK'
<1> USE DEF TypeOK, StoreTypeOK, ApiTypeOK, Statuses, ChosenStatuses, PCs, Goto
<1> USE DEF OwnerCheck, Return, ScheduleRefresh, Contexts, Choose
<1>1. ASSUME NEW t \in Triggers, NEW s \in ChosenStatuses, RegisterWebhook(t, s)
      PROVE  TypeOK'
  BY <1>1, MaxFailureCountAssumption DEF RegisterWebhook, CreateTrigger
<1>2. ASSUME NEW c \in Calls, ApiFinish(c)
      PROVE  TypeOK'
  <2>1. ASSUME NEW payload \in ChosenStatuses \cup {"none"}, UpdateWrite(c, payload)
        PROVE  TypeOK'
    BY <2>1, MaxFailureCountAssumption DEF UpdateWrite, UpdateTrigger
  <2>2. CASE DeleteRead(c)
    BY <2>2 DEF DeleteRead
  <2>3. CASE SoftDelete(c) \/ DeleteSubs(c)
    BY <2>3 DEF SoftDelete, BeginDelete, DeleteSubs, DeleteRelated
  <2>4. CASE PermissionsGranted(c)
    BY <2>4 DEF PermissionsGranted
  <2>5. ASSUME NEW v \in Vehicles, Subscribe(c, v)
        PROVE  TypeOK'
    BY <2>5 DEF Subscribe, CreateVehicleSubscription
  <2>6. ASSUME NEW v \in Vehicles, Unsubscribe(c, v)
        PROVE  TypeOK'
    BY <2>6 DEF Unsubscribe, DeleteVehicleSubscription
  <2>7. ASSUME NEW v \in Vehicles, VehicleFails(c, v)
        PROVE  TypeOK'
    BY <2>7 DEF VehicleFails
  <2>8. CASE ListDone(c)
    BY <2>8 DEF ListDone
  <2>9. CASE UnsubscribeAll(c)
    BY <2>9 DEF UnsubscribeAll, DeleteAllVehicleSubscriptionsForTrigger
  <2>10. CASE ReturnError(c)
    BY <2>10 DEF ReturnError, Rollback
  <2>11. CASE DeleteCommit(c)
    BY <2>11 DEF DeleteCommit, CommitDelete
  <2> QED
    BY <1>2, <2>1, <2>2, <2>3, <2>4, <2>5, <2>6, <2>7, <2>8, <2>9, <2>10, <2>11
       DEF ApiFinish
<1>3. ASSUME NEW c \in Calls, NEW t \in Triggers, ApiStart(c, t)
      PROVE  TypeOK'
  BY <1>3 DEF ApiStart, UpdateRead, DeleteCheck, UnsubscribeAllCheck,
              SubscribeCheck, UnsubscribeCheck
<1> QED
  BY <1>1, <1>2, <1>3 DEF ApiNext

\* The listener's steps keep the types.
LEMMA ListenerType ==
  ASSUME TypeOK, ListenerNext
  PROVE  TypeOK'
<1> USE DEF TypeOK, StoreTypeOK, ApiTypeOK, Statuses, JobPCs, Rows, NoRow
<1> USE DEF JobGoto, JobDone, Sent
<1>1. ASSUME NEW w \in Workers, NEW t \in Triggers, NEW v \in Vehicles,
             Attempt(w, t, v)
      PROVE  TypeOK'
  BY <1>1 DEF Attempt
<1>2. ASSUME NEW w \in Workers,
             DeliveryAccepted(w) \/ DeliveryRefused(w) \/ DeliveryAborted(w)
      PROVE  TypeOK'
  <2>1. CASE DeliveryAccepted(w)
    BY <2>1 DEF DeliveryAccepted
  <2>2. CASE DeliveryRefused(w)
    BY <2>2 DEF DeliveryRefused
  <2>3. CASE DeliveryAborted(w)
    BY <2>3 DEF DeliveryAborted
  <2> QED
    BY <1>2, <2>1, <2>2, <2>3
<1>3. ASSUME NEW w \in Workers, ResetFailures(w)
      PROVE  TypeOK'
  BY <1>3 DEF ResetFailures, ResetTriggerFailureCount, ChosenStatuses
<1>4. ASSUME NEW w \in Workers, IncrementRead(w)
      PROVE  TypeOK'
  BY <1>4 DEF IncrementRead, SelectForUpdate, Row
<1>5. ASSUME NEW w \in Workers, IncrementCommit(w)
      PROVE  TypeOK'
  BY <1>5, MaxFailureCountAssumption DEF IncrementCommit, CommitIncrement, StatusAfter
<1>6. ASSUME NEW w \in Workers, ReportFails(w)
      PROVE  TypeOK'
  BY <1>6 DEF ReportFails, Rollback
<1>7. ASSUME NEW t \in Triggers, NEW v \in Vehicles, AutoUnsubscribe(t, v)
      PROVE  TypeOK'
  BY <1>7 DEF AutoUnsubscribe, DeleteVehicleSubscription, ScheduleRefresh, Contexts
<1> QED
  BY <1>1, <1>2, <1>3, <1>4, <1>5, <1>6, <1>7 DEF ListenerNext, Report

LEMMA TypeStep == TypeOK /\ [Next]_vars => TypeOK'
<1> SUFFICES ASSUME TypeOK, [Next]_vars
             PROVE  TypeOK'
  OBVIOUS
<1>1. CASE ApiNext /\ UNCHANGED <<jobVars, cacheVars>>
  BY <1>1, ApiType
<1>2. CASE ListenerNext
  BY <1>2, ListenerType
<1>3. ASSUME NEW skipped \in SUBSET Triggers, Refresh(skipped)
      PROVE  TypeOK'
  BY <1>3, PopulateType DEF Refresh, TypeOK, StoreTypeOK, ApiTypeOK
<1>4. CASE RefreshFails
  BY <1>4 DEF RefreshFails, TypeOK, StoreTypeOK, ApiTypeOK
<1>5. CASE Tick
  BY <1>5 DEF Tick, ScheduleRefresh, Contexts, TypeOK, StoreTypeOK, ApiTypeOK
<1>6. CASE Restart
  BY <1>6, PopulateType
     DEF Restart, TypeOK, StoreTypeOK, ApiTypeOK, Statuses, PCs, JobPCs, Rows, NoRow
<1>7. CASE UNCHANGED vars
  BY <1>7 DEF TypeOK, StoreTypeOK, ApiTypeOK, Rows
<1> QED
  BY <1>1, <1>2, <1>3, <1>4, <1>5, <1>6, <1>7 DEF Next

\* Every variable keeps its type.
THEOREM TypeCorrect == Spec => []TypeOK
BY TypeInit, TypeStep, PTL DEF Spec

-----------------------------------------------------------------------------
(* The circuit breaker                                                     *)

\* Nobody can delete the row a worker has locked.
LockedRowIsLive ==
  \A w \in Workers : jpc[w] = "locked" => Live(job[w])

\* A deletion holds its row from its first statement to its end.
DeleterHoldsLock ==
  \A c \in Calls : pc[c] \in Deleting => lock[target[c]] = c

\* The inductive invariant.  CountBelowThreshold alone is not inductive: an
\* increment writes a copy, and only the lock says the copy is the row.
BreakerInv ==
  /\ TypeOK
  /\ CountBelowThreshold
  /\ LockedCopyIsCurrent /\ LockedRowIsLive
  /\ DeleterHoldsLock

LEMMA BreakerInit == Init => BreakerInv
BY TypeInit, MaxFailureCountAssumption
   DEF Init, StoreInit, ApiInit, BreakerInv, CountBelowThreshold, LockedCopyIsCurrent,
       LockedRowIsLive, DeleterHoldsLock, Deleting, ChosenStatuses

LEMMA DeleterStep ==
  ASSUME BreakerInv, [Next]_vars
  PROVE  DeleterHoldsLock'
<1> USE DEF BreakerInv, TypeOK, StoreTypeOK, ApiTypeOK, DeleterHoldsLock, Deleting
<1>1. ASSUME UNCHANGED lock,
             \A c \in Calls : pc'[c] \in Deleting => pc[c] \in Deleting /\ target'[c] = target[c]
      PROVE  DeleterHoldsLock'
  BY <1>1
<1>2. ASSUME ApiNext
      PROVE  DeleterHoldsLock'
  <2>1. ASSUME NEW t \in Triggers, NEW s \in ChosenStatuses, RegisterWebhook(t, s)
        PROVE  DeleterHoldsLock'
    BY <1>1, <2>1 DEF RegisterWebhook, CreateTrigger
  <2>2. ASSUME NEW c \in Calls, NEW t \in Triggers, ApiStart(c, t)
        PROVE  DeleterHoldsLock'
    <3>1. /\ UNCHANGED lock
          /\ target' = [target EXCEPT ![c] = t]
          /\ \E label \in PCs \ Deleting : pc' = [pc EXCEPT ![c] = label]
      BY <2>2 DEF ApiStart, UpdateRead, DeleteCheck, UnsubscribeAllCheck, SubscribeCheck,
                  UnsubscribeCheck, OwnerCheck, Goto, PCs
    <3> QED
      BY <1>1, <3>1
  <2>3. ASSUME NEW c \in Calls, ApiFinish(c)
        PROVE  DeleterHoldsLock'
    <3>1. CASE SoftDelete(c)
      BY <3>1, WorkersAssumption DEF SoftDelete, BeginDelete, Unlocked, Goto
    <3>2. CASE DeleteSubs(c)
      BY <3>2 DEF DeleteSubs, DeleteRelated, Goto
    <3>3. CASE DeleteCommit(c)
      BY <3>3 DEF DeleteCommit, CommitDelete, Return, Goto
    <3>4. CASE ReturnError(c)
      BY <3>4 DEF ReturnError, Rollback, Return, Goto
    <3>5. ASSUME NEW payload \in ChosenStatuses \cup {"none"}, UpdateWrite(c, payload)
          PROVE  DeleterHoldsLock'
      BY <1>1, <3>5 DEF UpdateWrite, UpdateTrigger, Return, Goto
    <3>6. ASSUME NEW v \in Vehicles,
                 Subscribe(c, v) \/ Unsubscribe(c, v) \/ VehicleFails(c, v)
          PROVE  DeleterHoldsLock'
      BY <1>1, <3>6 DEF Subscribe, CreateVehicleSubscription, Unsubscribe,
                        DeleteVehicleSubscription, VehicleFails
    <3>7. CASE DeleteRead(c) \/ PermissionsGranted(c) \/ ListDone(c) \/ UnsubscribeAll(c)
      BY <1>1, <3>7
         DEF DeleteRead, PermissionsGranted, ListDone, UnsubscribeAll,
             DeleteAllVehicleSubscriptionsForTrigger, Return, Goto
    <3> QED
      BY <2>3, <3>1, <3>2, <3>3, <3>4, <3>5, <3>6, <3>7 DEF ApiFinish
  <2> QED
    BY <1>2, <2>1, <2>2, <2>3 DEF ApiNext
<1>3. ASSUME ListenerNext
      PROVE  DeleterHoldsLock'
  <2>1. ASSUME NEW w \in Workers, IncrementRead(w)
        PROVE  DeleterHoldsLock'
    BY <2>1, WorkersAssumption DEF IncrementRead, SelectForUpdate, Unlocked
  <2>2. ASSUME NEW w \in Workers, IncrementCommit(w)
        PROVE  DeleterHoldsLock'
    BY <2>2, WorkersAssumption
       DEF IncrementCommit, CommitIncrement, LockedCopyIsCurrent, JobDone
  <2>3. ASSUME NEW w \in Workers, ReportFails(w)
        PROVE  DeleterHoldsLock'
    BY <2>3, WorkersAssumption DEF ReportFails, Rollback, JobDone
  <2>4. ASSUME NEW w \in Workers,
               \/ \E t \in Triggers, v \in Vehicles : Attempt(w, t, v)
               \/ DeliveryAccepted(w) \/ DeliveryRefused(w) \/ DeliveryAborted(w)
               \/ ResetFailures(w)
        PROVE  UNCHANGED <<lock, pc, target>>
    BY <2>4 DEF Attempt, DeliveryAccepted, DeliveryRefused, DeliveryAborted, Sent, JobDone,
                ResetFailures, ResetTriggerFailureCount
  <2>5. ASSUME NEW t \in Triggers, NEW v \in Vehicles, AutoUnsubscribe(t, v)
        PROVE  UNCHANGED <<lock, pc, target>>
    BY <2>5 DEF AutoUnsubscribe, DeleteVehicleSubscription
  <2> QED
    BY <1>3, <2>1, <2>2, <2>3, <2>4, <2>5 DEF ListenerNext, Report
<1>4. CASE \/ \E skipped \in SUBSET Triggers : Refresh(skipped)
           \/ RefreshFails \/ Tick \/ UNCHANGED vars
  BY <1>4 DEF Refresh, RefreshFails, Tick
<1>5. CASE Restart
  BY <1>5 DEF Restart
<1> QED
  BY <1>2, <1>3, <1>4, <1>5 DEF Next

\* A step that leaves the rows, the workers and their locks alone.
LEMMA BreakerFrame ==
  ASSUME BreakerInv, TypeOK', DeleterHoldsLock',
         UNCHANGED <<status, failures, jpc, job, copy>>,
         \A t \in Triggers : lock'[t] # lock[t] => lock[t] \notin Workers
  PROVE  BreakerInv'
<1> USE DEF BreakerInv, TypeOK
<1>1. CountBelowThreshold' /\ LockedRowIsLive'
  BY DEF CountBelowThreshold, LockedRowIsLive, Live
<1>2. LockedCopyIsCurrent'
  BY DEF LockedCopyIsCurrent, Row
<1> QED
  BY <1>1, <1>2

\* A step that writes a row no worker has locked, within the breaker's bounds.
LEMMA BreakerWrite ==
  ASSUME BreakerInv, TypeOK', DeleterHoldsLock',
         NEW t \in Triggers, lock[t] \notin Workers,
         NEW s, NEW n,
         s \in ChosenStatuses => n < MaxFailureCount,
         status' = [status EXCEPT ![t] = s],
         failures' = [failures EXCEPT ![t] = n],
         \A x \in Triggers \ {t} : lock'[x] = lock[x],
         UNCHANGED <<jpc, job, copy>>
  PROVE  BreakerInv'
<1> USE DEF BreakerInv, TypeOK, StoreTypeOK
<1>1. CountBelowThreshold'
  BY DEF CountBelowThreshold
<1>2. ASSUME NEW w \in Workers, jpc[w] = "locked"
      PROVE  job[w] # t
  BY <1>2 DEF LockedCopyIsCurrent
<1>3. LockedCopyIsCurrent'
  BY <1>2 DEF LockedCopyIsCurrent, Row
<1>4. LockedRowIsLive'
  BY <1>2 DEF LockedRowIsLive, Live
<1> QED
  BY <1>1, <1>3, <1>4

LEMMA BreakerApi ==
  ASSUME BreakerInv, TypeOK', DeleterHoldsLock', ApiNext, UNCHANGED <<jobVars, cacheVars>>
  PROVE  BreakerInv'
<1> USE MaxFailureCountAssumption
<1>1. ASSUME NEW t \in Triggers, NEW s \in ChosenStatuses, RegisterWebhook(t, s)
      PROVE  BreakerInv'
  <2>1. /\ status[t] = "absent"
        /\ status' = [status EXCEPT ![t] = s]
        /\ failures' = [failures EXCEPT ![t] = 0]
        /\ UNCHANGED lock
    BY <1>1 DEF RegisterWebhook, CreateTrigger
  <2>2. ASSUME NEW w \in Workers, jpc[w] = "locked"
        PROVE  job[w] # t
    BY <2>1, <2>2 DEF BreakerInv, LockedRowIsLive, Live
  <2>3. CountBelowThreshold'
    BY <2>1 DEF BreakerInv, CountBelowThreshold, TypeOK, StoreTypeOK
  <2>4. LockedCopyIsCurrent'
    BY <2>1, <2>2 DEF BreakerInv, LockedCopyIsCurrent, Row, TypeOK, StoreTypeOK
  <2>5. LockedRowIsLive'
    BY <2>1, <2>2 DEF BreakerInv, LockedRowIsLive, Live, TypeOK, StoreTypeOK
  <2> QED
    BY <2>3, <2>4, <2>5 DEF BreakerInv
<1>2. ASSUME NEW c \in Calls, ApiFinish(c)
      PROVE  BreakerInv'
  <2>0. target[c] \in Triggers
    BY DEF BreakerInv, TypeOK, ApiTypeOK
  <2>1. ASSUME NEW payload \in ChosenStatuses \cup {"none"}, UpdateWrite(c, payload)
        PROVE  BreakerInv'
    <3> DEFINE s == IF payload = "none" THEN seen[c] ELSE payload
    <3>1. /\ lock[target[c]] \notin Workers
          /\ status' = [status EXCEPT ![target[c]] = s]
          /\ failures' = [failures EXCEPT ![target[c]] = 0]
          /\ UNCHANGED lock
      BY <2>1, WorkersAssumption DEF UpdateWrite, UpdateTrigger, Unlocked
    <3>2. s \in ChosenStatuses => 0 < MaxFailureCount
      BY MaxFailureCountAssumption
    <3> HIDE DEF s
    <3> QED
      BY <2>0, <3>1, <3>2, BreakerWrite
  <2>2. CASE DeleteCommit(c)
    <3>1. /\ lock[target[c]] \notin Workers
          /\ status' = [status EXCEPT ![target[c]] = "deleted"]
          /\ failures' = [failures EXCEPT ![target[c]] = failures[target[c]]]
          /\ lock' = [lock EXCEPT ![target[c]] = NoWorker]
      BY <2>2, WorkersAssumption
         DEF DeleteCommit, CommitDelete, BreakerInv, DeleterHoldsLock, Deleting
    <3>2. "deleted" \notin ChosenStatuses
      BY DEF ChosenStatuses
    <3> QED
      BY <2>0, <3>1, <3>2, BreakerWrite DEF BreakerInv, TypeOK, StoreTypeOK
  <2>3. ASSUME NEW v \in Vehicles,
               Subscribe(c, v) \/ Unsubscribe(c, v) \/ VehicleFails(c, v)
        PROVE  BreakerInv'
    BY <2>3, BreakerFrame DEF Subscribe, CreateVehicleSubscription, Unsubscribe,
                              DeleteVehicleSubscription, VehicleFails
  <2>4. CASE DeleteRead(c) \/ PermissionsGranted(c) \/ ListDone(c)
             \/ UnsubscribeAll(c)
    BY <2>4, BreakerFrame
       DEF DeleteRead, PermissionsGranted, ListDone, UnsubscribeAll,
           DeleteAllVehicleSubscriptionsForTrigger
  <2>5. CASE SoftDelete(c) \/ DeleteSubs(c) \/ ReturnError(c)
    <3>1. /\ UNCHANGED <<status, failures>>
          /\ \A t \in Triggers : lock'[t] # lock[t] => lock[t] \notin Workers
      BY <2>0, <2>5, WorkersAssumption
         DEF SoftDelete, BeginDelete, DeleteSubs, DeleteRelated, ReturnError, Rollback,
             Unlocked, BreakerInv, TypeOK, StoreTypeOK
    <3> QED
      BY <3>1, BreakerFrame
  <2> QED
    BY <1>2, <2>1, <2>2, <2>3, <2>4, <2>5 DEF ApiFinish
<1>3. ASSUME NEW c \in Calls, NEW t \in Triggers, ApiStart(c, t)
      PROVE  BreakerInv'
  BY <1>3, BreakerFrame
     DEF ApiStart, UpdateRead, DeleteCheck, UnsubscribeAllCheck, SubscribeCheck,
         UnsubscribeCheck, OwnerCheck
<1> QED
  BY <1>1, <1>2, <1>3 DEF ApiNext

LEMMA BreakerListener ==
  ASSUME BreakerInv, TypeOK', DeleterHoldsLock', ListenerNext
  PROVE  BreakerInv'
<1> USE DEF BreakerInv, TypeOK, StoreTypeOK, JobGoto, JobDone
<1>1. ASSUME NEW w \in Workers, NEW t \in Triggers, NEW v \in Vehicles,
             Attempt(w, t, v)
      PROVE  BreakerInv'
  BY <1>1 DEF Attempt, CountBelowThreshold, LockedCopyIsCurrent, LockedRowIsLive,
              Live, Row
<1>2. ASSUME NEW w \in Workers,
             DeliveryAccepted(w) \/ DeliveryRefused(w) \/ DeliveryAborted(w)
      PROVE  BreakerInv'
  BY <1>2 DEF DeliveryAccepted, DeliveryRefused, DeliveryAborted, Sent,
              CountBelowThreshold, LockedCopyIsCurrent, LockedRowIsLive, Live, Row
<1>3. ASSUME NEW w \in Workers, ResetFailures(w)
      PROVE  BreakerInv'
  <2>1. /\ failures[job[w]] > 0 => Unlocked(job[w])
        /\ status' = IF failures[job[w]] > 0 /\ status[job[w]] = "failed"
                       THEN [status EXCEPT ![job[w]] = "enabled"] ELSE status
        /\ failures' = [failures EXCEPT ![job[w]] = 0]
        /\ UNCHANGED <<lock, job>>
        /\ jpc' = [jpc EXCEPT ![w] = "idle"]
        /\ copy' = [copy EXCEPT ![w] = NoRow]
    BY <1>3 DEF ResetFailures, ResetTriggerFailureCount
  <2>2. ASSUME NEW x \in Workers, jpc'[x] = "locked"
        PROVE  /\ jpc[x] = "locked" /\ copy'[x] = copy[x]
               /\ status'[job[x]] = status[job[x]]
               /\ failures'[job[x]] = failures[job[x]]
    <3>1. jpc[x] = "locked" /\ copy'[x] = copy[x] /\ lock[job[x]] = x
      BY <2>1, <2>2 DEF LockedCopyIsCurrent
    <3>2. job[x] = job[w] => failures[job[w]] = 0
      BY <2>1, <3>1, WorkersAssumption DEF Unlocked
    <3> QED
      BY <2>1, <3>1, <3>2
  <2>3. CountBelowThreshold'
    BY <2>1, MaxFailureCountAssumption DEF CountBelowThreshold, ChosenStatuses
  <2>4. LockedCopyIsCurrent'
    BY <2>1, <2>2 DEF LockedCopyIsCurrent, Row
  <2>5. LockedRowIsLive'
    BY <2>1, <2>2 DEF LockedRowIsLive, Live
  <2> QED
    BY <2>3, <2>4, <2>5
<1>4. ASSUME NEW w \in Workers, IncrementRead(w)
      PROVE  BreakerInv'
  BY <1>4, WorkersAssumption
     DEF IncrementRead, SelectForUpdate, Unlocked, CountBelowThreshold,
         LockedCopyIsCurrent, LockedRowIsLive, Live, Row
<1>5. ASSUME NEW w \in Workers, IncrementCommit(w)
      PROVE  BreakerInv'
  <2>1. /\ jpc[w] = "locked"
        /\ lock[job[w]] = w
        /\ Live(job[w])
        /\ copy[w] = Row(job[w])
    BY <1>5 DEF IncrementCommit, LockedCopyIsCurrent, LockedRowIsLive
  <2>2. /\ failures' = [failures EXCEPT ![job[w]] = failures[job[w]] + 1]
        /\ status' = [status EXCEPT ![job[w]] =
                        StatusAfter(status[job[w]], failures[job[w]] + 1)]
        /\ lock' = [lock EXCEPT ![job[w]] = NoWorker]
        /\ jpc' = [jpc EXCEPT ![w] = "idle"]
        /\ copy' = [copy EXCEPT ![w] = NoRow]
        /\ UNCHANGED job
    BY <1>5, <2>1 DEF IncrementCommit, CommitIncrement, Row
  <2>3. CountBelowThreshold'
    BY <2>2, MaxFailureCountAssumption
       DEF CountBelowThreshold, StatusAfter, ChosenStatuses
  <2>4. ASSUME NEW x \in Workers, jpc'[x] = "locked"
        PROVE  x # w /\ jpc[x] = "locked" /\ job[x] # job[w]
    BY <2>1, <2>2, <2>4 DEF LockedCopyIsCurrent
  <2>5. LockedCopyIsCurrent'
    BY <2>2, <2>4 DEF LockedCopyIsCurrent, Row
  <2>6. LockedRowIsLive'
    BY <2>2, <2>4 DEF LockedRowIsLive, Live
  <2> QED
    BY <2>3, <2>5, <2>6
<1>6. ASSUME NEW w \in Workers, ReportFails(w)
      PROVE  BreakerInv'
  BY <1>6 DEF ReportFails, Rollback, CountBelowThreshold, LockedCopyIsCurrent,
              LockedRowIsLive, Live, Row
<1>7. ASSUME NEW t \in Triggers, NEW v \in Vehicles, AutoUnsubscribe(t, v)
      PROVE  BreakerInv'
  BY <1>7, BreakerFrame DEF AutoUnsubscribe, DeleteVehicleSubscription
<1> QED
  BY <1>1, <1>2, <1>3, <1>4, <1>5, <1>6, <1>7 DEF ListenerNext, Report

LEMMA BreakerStep == BreakerInv /\ [Next]_vars => BreakerInv'
<1> SUFFICES ASSUME BreakerInv, [Next]_vars
             PROVE  BreakerInv'
  OBVIOUS
<1>1. TypeOK' /\ DeleterHoldsLock'
  BY TypeStep, DeleterStep DEF BreakerInv
<1>2. CASE ApiNext /\ UNCHANGED <<jobVars, cacheVars>>
  BY <1>1, <1>2, BreakerApi
<1>3. CASE ListenerNext
  BY <1>1, <1>3, BreakerListener
<1>4. CASE (\E skipped \in SUBSET Triggers : Refresh(skipped)) \/ RefreshFails \/ Tick
  BY <1>1, <1>4, BreakerFrame DEF Refresh, RefreshFails, Tick
<1>5. CASE Restart
  BY <1>1, <1>5 DEF Restart, BreakerInv, CountBelowThreshold, LockedCopyIsCurrent,
                    LockedRowIsLive
<1>6. CASE UNCHANGED vars
  BY <1>1, <1>6, BreakerFrame
<1> QED
  BY <1>2, <1>3, <1>4, <1>5, <1>6 DEF Next

THEOREM BreakerInvariant == Spec => []BreakerInv
BY BreakerInit, BreakerStep, PTL DEF Spec

\* The circuit breaker trips in time, whatever updates, deletions, restarts
\* and delivery reports interleave.
THEOREM BreakerTripsInTime == Spec => []CountBelowThreshold
<1>1. BreakerInv => CountBelowThreshold
  BY DEF BreakerInv
<1> QED
  BY <1>1, BreakerInvariant, PTL

\* The row lock of IncrementTriggerFailureCount protects the copy it writes.
THEOREM LockProtectsCopy == Spec => []LockedCopyIsCurrent
<1>1. BreakerInv => LockedCopyIsCurrent
  BY DEF BreakerInv
<1> QED
  BY <1>1, BreakerInvariant, PTL

\* No counted failure is lost.
THEOREM FailuresAreNotLost == Spec => NoFailureLost
<1>1. BreakerInv =>
        \A w \in Workers : IncrementCommit(w) => failures'[job[w]] = failures[job[w]] + 1
  BY DEF BreakerInv, LockedCopyIsCurrent, IncrementCommit, CommitIncrement, Row,
         TypeOK, StoreTypeOK
<1> QED
  BY <1>1, BreakerInvariant, PTL DEF NoFailureLost

-----------------------------------------------------------------------------
(* The developer's choice of status                                        *)

\* A row has no more failures than have been counted since the choice.
CountedCovers ==
  \A t \in Triggers : counted[t] < MaxFailureCount => failures[t] <= counted[t]

ChoiceInv == CountedCovers /\ OnlyTrippingOverrides

\* A step that writes no row, or deletes one.
LEMMA ChoiceFrame ==
  ASSUME BreakerInv, ChoiceInv, UNCHANGED <<failures, chosen, counted>>,
         \A t \in Triggers : status'[t] # "deleted" => status'[t] = status[t]
  PROVE  ChoiceInv'
BY DEF ChoiceInv, CountedCovers, OnlyTrippingOverrides, Live, BreakerInv, TypeOK, StoreTypeOK

\* A step by which the developer chooses a status.
LEMMA ChoiceIsTaken ==
  ASSUME BreakerInv, ChoiceInv, NEW t \in Triggers, NEW s, SetTrigger(t, s, 0), Choose(t, s)
  PROVE  ChoiceInv'
BY MaxFailureCountAssumption
   DEF ChoiceInv, CountedCovers, OnlyTrippingOverrides, Choose, Live, BreakerInv, TypeOK,
       StoreTypeOK

LEMMA ChoiceApi ==
  ASSUME BreakerInv, ChoiceInv, ApiNext
  PROVE  ChoiceInv'
<1> USE DEF BreakerInv, TypeOK, StoreTypeOK, ApiTypeOK
<1>1. ASSUME NEW t \in Triggers, NEW s \in ChosenStatuses, RegisterWebhook(t, s)
      PROVE  ChoiceInv'
  BY <1>1, ChoiceIsTaken DEF RegisterWebhook, CreateTrigger
<1>2. ASSUME NEW c \in Calls, ApiFinish(c)
      PROVE  ChoiceInv'
  <2>1. ASSUME NEW payload \in ChosenStatuses \cup {"none"}, UpdateWrite(c, payload)
        PROVE  ChoiceInv'
    BY <2>1, ChoiceIsTaken DEF UpdateWrite, UpdateTrigger
  <2>2. CASE DeleteCommit(c)
    BY <2>2, ChoiceFrame DEF DeleteCommit, CommitDelete
  <2>3. ASSUME NEW v \in Vehicles,
               Subscribe(c, v) \/ Unsubscribe(c, v) \/ VehicleFails(c, v)
        PROVE  ChoiceInv'
    BY <2>3, ChoiceFrame DEF Subscribe, CreateVehicleSubscription, Unsubscribe,
                             DeleteVehicleSubscription, VehicleFails
  <2>4. CASE DeleteRead(c) \/ SoftDelete(c) \/ DeleteSubs(c) \/ PermissionsGranted(c)
             \/ ListDone(c) \/ UnsubscribeAll(c) \/ ReturnError(c)
    BY <2>4, ChoiceFrame
       DEF DeleteRead, SoftDelete, BeginDelete, DeleteSubs, DeleteRelated,
           PermissionsGranted, ListDone, UnsubscribeAll,
           DeleteAllVehicleSubscriptionsForTrigger, ReturnError, Rollback
  <2> QED
    BY <1>2, <2>1, <2>2, <2>3, <2>4 DEF ApiFinish
<1>3. ASSUME NEW c \in Calls, NEW t \in Triggers, ApiStart(c, t)
      PROVE  ChoiceInv'
  BY <1>3, ChoiceFrame
     DEF ApiStart, UpdateRead, DeleteCheck, UnsubscribeAllCheck, SubscribeCheck,
         UnsubscribeCheck, OwnerCheck
<1> QED
  BY <1>1, <1>2, <1>3 DEF ApiNext

LEMMA ChoiceListener ==
  ASSUME BreakerInv, ChoiceInv, ListenerNext
  PROVE  ChoiceInv'
<1> USE DEF BreakerInv, TypeOK, StoreTypeOK
<1>1. ASSUME NEW w \in Workers, IncrementCommit(w)
      PROVE  ChoiceInv'
  <2>1. copy[w] = Row(job[w]) /\ Live(job[w])
    BY <1>1 DEF IncrementCommit, LockedCopyIsCurrent, LockedRowIsLive
  <2>2. /\ failures' = [failures EXCEPT ![job[w]] = failures[job[w]] + 1]
        /\ status' = [status EXCEPT ![job[w]] =
                        StatusAfter(status[job[w]], failures[job[w]] + 1)]
        /\ counted' = [counted EXCEPT ![job[w]] =
                         IF counted[job[w]] < MaxFailureCount
                           THEN counted[job[w]] + 1 ELSE counted[job[w]]]
        /\ UNCHANGED chosen
    BY <1>1, <2>1 DEF IncrementCommit, CommitIncrement, Row
  <2>3. CountedCovers'
    BY <2>2, MaxFailureCountAssumption DEF ChoiceInv, CountedCovers
  <2>4. ASSUME NEW t \in Triggers, counted'[t] < MaxFailureCount
        PROVE  status'[t] = status[t] /\ counted[t] < MaxFailureCount
    BY <2>2, <2>4, MaxFailureCountAssumption DEF ChoiceInv, CountedCovers, StatusAfter
  <2>5. OnlyTrippingOverrides'
    BY <2>2, <2>4 DEF ChoiceInv, OnlyTrippingOverrides, Live
  <2> QED
    BY <2>3, <2>5 DEF ChoiceInv
<1>2. ASSUME NEW w \in Workers, ResetFailures(w)
      PROVE  ChoiceInv'
  <2>1. /\ status' = IF failures[job[w]] > 0 /\ status[job[w]] = "failed"
                       THEN [status EXCEPT ![job[w]] = "enabled"] ELSE status
        /\ failures' = [failures EXCEPT ![job[w]] = 0]
        /\ UNCHANGED <<chosen, counted>>
    BY <1>2 DEF ResetFailures, ResetTriggerFailureCount
  <2>2. CountedCovers'
    BY <2>1 DEF ChoiceInv, CountedCovers
  <2>3. OnlyTrippingOverrides'
    BY <2>1 DEF ChoiceInv, OnlyTrippingOverrides, Live, ChosenStatuses
  <2> QED
    BY <2>2, <2>3 DEF ChoiceInv
<1>3. ASSUME NEW w \in Workers,
             \/ \E x \in Triggers, v \in Vehicles : Attempt(w, x, v)
             \/ DeliveryAccepted(w) \/ DeliveryRefused(w) \/ DeliveryAborted(w)
             \/ IncrementRead(w) \/ ReportFails(w)
      PROVE  UNCHANGED <<status, failures, chosen, counted>>
  BY <1>3 DEF Attempt, DeliveryAccepted, DeliveryRefused, DeliveryAborted, Sent,
              IncrementRead, SelectForUpdate, ReportFails, Rollback
<1>4. ASSUME NEW x \in Triggers, NEW v \in Vehicles, AutoUnsubscribe(x, v)
      PROVE  UNCHANGED <<status, failures, chosen, counted>>
  BY <1>4 DEF AutoUnsubscribe, DeleteVehicleSubscription
<1> QED
  BY <1>1, <1>2, <1>3, <1>4, ChoiceFrame DEF ListenerNext, Report

\* OnlyTrippingOverrides: however many API calls and deliveries overlap, the
\* status a developer has chosen stands until as many failures as the
\* threshold have been counted since.
THEOREM ChoiceStandsUntilThreshold == Spec => []OnlyTrippingOverrides
<1>1. Init => ChoiceInv
  BY DEF Init, StoreInit, ChoiceInv, CountedCovers, OnlyTrippingOverrides, ChosenStatuses
<1>2. BreakerInv /\ ChoiceInv /\ [Next]_vars => ChoiceInv'
  <2> SUFFICES ASSUME BreakerInv, ChoiceInv, [Next]_vars
               PROVE  ChoiceInv'
    OBVIOUS
  <2>1. CASE ApiNext
    BY <2>1, ChoiceApi
  <2>2. CASE ListenerNext
    BY <2>2, ChoiceListener
  <2>3. CASE \/ \E skipped \in SUBSET Triggers : Refresh(skipped)
             \/ RefreshFails \/ Tick \/ Restart \/ UNCHANGED vars
    BY <2>3, ChoiceFrame DEF Refresh, RefreshFails, Tick, Restart
  <2> QED
    BY <2>1, <2>2, <2>3 DEF Next
<1>3. ChoiceInv => OnlyTrippingOverrides
  BY DEF ChoiceInv
<1> QED
  BY <1>1, <1>2, <1>3, BreakerInvariant, PTL DEF Spec

-----------------------------------------------------------------------------
(* One API call at a time                                                  *)

\* What developers must keep to, for want of a lock between the lookup of a
\* handler and its write.  Deliveries stay as concurrent as they are.
OneCall == \A c, d \in Calls : c = d

\* The webhook a handler has looked up is still there,
CallTargetIsLive ==
  \A c \in Calls : pc[c] # "idle" => Live(target[c])

\* and the status an update may write back is not "deleted".
SeenIsLive ==
  \A c \in Calls : pc[c] = "update" => seen[c] \in ChosenStatuses \cup {"failed"}

SerialInv == BreakerInv /\ CallTargetIsLive /\ SeenIsLive

LEMMA SerialInit == Init => SerialInv
BY BreakerInit
   DEF Init, ApiInit, SerialInv, CallTargetIsLive, SeenIsLive

\* A step that deletes no row, and leaves the calls where they are.
LEMMA SerialFrame ==
  ASSUME SerialInv, BreakerInv',
         \A t \in Triggers : Live(t) => Live(t)',
         UNCHANGED <<pc, target, seen>>
  PROVE  SerialInv'
BY DEF SerialInv, BreakerInv, TypeOK, StoreTypeOK, ApiTypeOK, CallTargetIsLive,
       SeenIsLive

\* No delivery report deletes a row or brings one back.
LEMMA ListenerKeepsLive ==
  ASSUME BreakerInv, ListenerNext
  PROVE  /\ subs' \subseteq subs
         /\ \A t \in Triggers : Live(t) => Live(t)'
         /\ UNCHANGED <<pc, target, seen>>
<1> USE DEF BreakerInv, TypeOK, StoreTypeOK, JobDone, Live
<1>1. ASSUME NEW w \in Workers, IncrementCommit(w)
      PROVE  /\ subs' \subseteq subs
             /\ \A t \in Triggers : Live(t) => Live(t)'
             /\ UNCHANGED <<pc, target, seen>>
  BY <1>1 DEF IncrementCommit, CommitIncrement, StatusAfter, LockedCopyIsCurrent, Row
<1>2. ASSUME NEW w \in Workers, ResetFailures(w)
      PROVE  /\ subs' \subseteq subs
             /\ \A t \in Triggers : Live(t) => Live(t)'
             /\ UNCHANGED <<pc, target, seen>>
  BY <1>2 DEF ResetFailures, ResetTriggerFailureCount
<1>3. ASSUME NEW w \in Workers, IncrementRead(w) \/ ReportFails(w)
      PROVE  UNCHANGED <<status, subs, pc, target, seen>>
  BY <1>3 DEF IncrementRead, SelectForUpdate, ReportFails, Rollback
<1>4. ASSUME NEW w \in Workers,
             \/ \E t \in Triggers, v \in Vehicles : Attempt(w, t, v)
             \/ DeliveryAccepted(w) \/ DeliveryRefused(w) \/ DeliveryAborted(w)
      PROVE  UNCHANGED <<status, subs, pc, target, seen>>
  BY <1>4 DEF Attempt, DeliveryAccepted, DeliveryRefused, DeliveryAborted, Sent
<1>5. ASSUME NEW t \in Triggers, NEW v \in Vehicles, AutoUnsubscribe(t, v)
      PROVE  subs' \subseteq subs /\ UNCHANGED <<status, pc, target, seen>>
  BY <1>5 DEF AutoUnsubscribe, DeleteVehicleSubscription
<1> QED
  BY <1>1, <1>2, <1>3, <1>4, <1>5 DEF ListenerNext, Report

LEMMA ListenerKeepsDeleted ==
  ASSUME BreakerInv, ListenerNext, NEW t \in Triggers, ~Live(t)
  PROVE  status'[t] = status[t]
<1> USE DEF BreakerInv, TypeOK, StoreTypeOK, Live
<1>1. ASSUME NEW w \in Workers, IncrementCommit(w)
      PROVE  status'[t] = status[t]
  BY <1>1 DEF IncrementCommit, CommitIncrement, LockedRowIsLive
<1>2. ASSUME NEW w \in Workers, ResetFailures(w)
      PROVE  status'[t] = status[t]
  BY <1>2 DEF ResetFailures, ResetTriggerFailureCount
<1>3. ASSUME NEW w \in Workers,
             \/ \E x \in Triggers, v \in Vehicles : Attempt(w, x, v)
             \/ DeliveryAccepted(w) \/ DeliveryRefused(w) \/ DeliveryAborted(w)
             \/ IncrementRead(w) \/ ReportFails(w)
      PROVE  UNCHANGED status
  BY <1>3 DEF Attempt, DeliveryAccepted, DeliveryRefused, DeliveryAborted, Sent,
              IncrementRead, SelectForUpdate, ReportFails, Rollback
<1>4. ASSUME NEW x \in Triggers, NEW v \in Vehicles, AutoUnsubscribe(x, v)
      PROVE  UNCHANGED status
  BY <1>4 DEF AutoUnsubscribe, DeleteVehicleSubscription
<1> QED
  BY <1>1, <1>2, <1>3, <1>4 DEF ListenerNext, Report

\* A step of the only call.
LEMMA SerialApi ==
  ASSUME OneCall, SerialInv, BreakerInv', ApiNext
  PROVE  SerialInv'
<1> USE DEF SerialInv, BreakerInv, TypeOK, StoreTypeOK, ApiTypeOK, ChosenStatuses
<1>1. ASSUME NEW t \in Triggers, NEW s \in ChosenStatuses, RegisterWebhook(t, s)
      PROVE  SerialInv'
  BY <1>1, SerialFrame DEF RegisterWebhook, CreateTrigger, Live
<1>2. ASSUME NEW c \in Calls, NEW t \in Triggers, ApiStart(c, t)
      PROVE  SerialInv'
  <2>1. /\ Live(t)
        /\ UNCHANGED status
        /\ target' = [target EXCEPT ![c] = t]
        /\ \E label \in PCs : pc' = [pc EXCEPT ![c] = label]
        /\ \/ seen' = [seen EXCEPT ![c] = status[t]]
           \/ UNCHANGED seen /\ pc'[c] # "update"
    BY <1>2 DEF ApiStart, UpdateRead, DeleteCheck, UnsubscribeAllCheck, SubscribeCheck,
                UnsubscribeCheck, OwnerCheck, Goto, PCs
  <2>2. CallTargetIsLive'
    BY <2>1 DEF CallTargetIsLive, Live
  <2>3. SeenIsLive'
    BY <2>1 DEF SeenIsLive, Live, Statuses
  <2> QED
    BY <2>2, <2>3
<1>3. ASSUME NEW c \in Calls, ApiFinish(c)
      PROVE  SerialInv'
  <2>1. ASSUME pc' = [pc EXCEPT ![c] = "idle"]
        PROVE  SerialInv'
    <3>1. \A d \in Calls : pc'[d] = "idle"
      BY <2>1 DEF OneCall
    <3> QED
      BY <3>1 DEF CallTargetIsLive, SeenIsLive
  <2>2. CASE \/ \E payload \in ChosenStatuses \cup {"none"} : UpdateWrite(c, payload)
             \/ DeleteCommit(c) \/ ListDone(c) \/ UnsubscribeAll(c) \/ ReturnError(c)
    BY <2>1, <2>2 DEF UpdateWrite, DeleteCommit, ListDone, UnsubscribeAll, ReturnError,
                      Return, Goto
  <2>3. CASE DeleteRead(c) \/ SoftDelete(c) \/ DeleteSubs(c) \/ PermissionsGranted(c)
    <3>1. /\ pc[c] # "idle"
          /\ \E label \in PCs \ {"update"} : pc' = [pc EXCEPT ![c] = label]
          /\ UNCHANGED <<status, target, seen>>
      BY <2>3 DEF DeleteRead, SoftDelete, BeginDelete, DeleteSubs, DeleteRelated,
                  PermissionsGranted, Goto, PCs
    <3>2. CallTargetIsLive'
      BY <3>1 DEF CallTargetIsLive, Live
    <3>3. SeenIsLive'
      BY <3>1 DEF SeenIsLive
    <3> QED
      BY <3>2, <3>3
  <2>4. ASSUME NEW v \in Vehicles,
               Subscribe(c, v) \/ Unsubscribe(c, v) \/ VehicleFails(c, v)
        PROVE  SerialInv'
    BY <2>4, SerialFrame
       DEF Subscribe, CreateVehicleSubscription, Unsubscribe, DeleteVehicleSubscription,
           VehicleFails, Live
  <2> QED
    BY <1>3, <2>2, <2>3, <2>4 DEF ApiFinish
<1> QED
  BY <1>1, <1>2, <1>3 DEF ApiNext

LEMMA SerialStep ==
  ASSUME OneCall
  PROVE  SerialInv /\ [Next]_vars => SerialInv'
<1> SUFFICES ASSUME SerialInv, [Next]_vars
             PROVE  SerialInv'
  OBVIOUS
<1>1. BreakerInv'
  BY BreakerStep DEF SerialInv
<1>2. CASE ApiNext
  BY <1>1, <1>2, SerialApi
<1>3. CASE ListenerNext
  BY <1>1, <1>3, ListenerKeepsLive, SerialFrame DEF SerialInv
<1>4. CASE \/ \E skipped \in SUBSET Triggers : Refresh(skipped)
           \/ RefreshFails \/ Tick \/ UNCHANGED vars
  BY <1>1, <1>4, SerialFrame DEF Refresh, RefreshFails, Tick, Live
<1>5. CASE Restart
  BY <1>1, <1>5 DEF Restart, SerialInv, CallTargetIsLive, SeenIsLive, Live
<1> QED
  BY <1>2, <1>3, <1>4, <1>5 DEF Next

-----------------------------------------------------------------------------
(* Any number of API calls at a time                                       *)

\* The webhook a handler has looked up has a row, deleted or not.
CallTargetExists ==
  \A c \in Calls : pc[c] # "idle" => status[target[c]] # "absent"

CallsInv == BreakerInv /\ CallTargetExists /\ SeenIsLive

LEMMA CallsInit == Init => CallsInv
BY BreakerInit DEF Init, ApiInit, CallsInv, CallTargetExists, SeenIsLive

LEMMA SerialIsCalls == SerialInv => CallsInv
BY DEF SerialInv, CallsInv, CallTargetIsLive, CallTargetExists, Live

\* A step that takes no row away.
LEMMA CallsFrame ==
  ASSUME CallsInv, BreakerInv',
         \A t \in Triggers : status[t] # "absent" => status'[t] # "absent",
         \/ UNCHANGED <<pc, target, seen>>
         \/ \E c \in Calls : pc' = [pc EXCEPT ![c] = "idle"] /\ UNCHANGED target
                             /\ seen' = [seen EXCEPT ![c] = "absent"]
  PROVE  CallsInv'
BY DEF CallsInv, BreakerInv, TypeOK, ApiTypeOK, CallTargetExists, SeenIsLive

LEMMA CallsApi ==
  ASSUME CallsInv, BreakerInv', ApiNext
  PROVE  CallsInv'
<1> USE DEF CallsInv, BreakerInv, TypeOK, StoreTypeOK, ApiTypeOK, ChosenStatuses
<1>1. ASSUME NEW t \in Triggers, NEW s \in ChosenStatuses, RegisterWebhook(t, s)
      PROVE  CallsInv'
  BY <1>1, CallsFrame DEF RegisterWebhook, CreateTrigger
<1>2. ASSUME NEW c \in Calls, NEW t \in Triggers, ApiStart(c, t)
      PROVE  CallsInv'
  <2>1. /\ Live(t)
        /\ UNCHANGED status
        /\ target' = [target EXCEPT ![c] = t]
        /\ \E label \in PCs : pc' = [pc EXCEPT ![c] = label]
        /\ \/ seen' = [seen EXCEPT ![c] = status[t]]
           \/ UNCHANGED seen /\ pc'[c] # "update"
    BY <1>2 DEF ApiStart, UpdateRead, DeleteCheck, UnsubscribeAllCheck, SubscribeCheck,
                UnsubscribeCheck, OwnerCheck, Goto, PCs
  <2>2. CallTargetExists'
    BY <2>1 DEF CallTargetExists, Live
  <2>3. SeenIsLive'
    BY <2>1 DEF SeenIsLive, Live, Statuses
  <2> QED
    BY <2>2, <2>3
<1>3. ASSUME NEW c \in Calls, ApiFinish(c)
      PROVE  CallsInv'
  <2>1. ASSUME NEW payload \in ChosenStatuses \cup {"none"}, UpdateWrite(c, payload)
        PROVE  CallsInv'
    BY <2>1, CallsFrame DEF UpdateWrite, UpdateTrigger, Return, Goto, SeenIsLive
  <2>2. CASE DeleteCommit(c)
    BY <2>2, CallsFrame DEF DeleteCommit, CommitDelete, Return, Goto
  <2>3. CASE DeleteRead(c) \/ SoftDelete(c) \/ DeleteSubs(c) \/ PermissionsGranted(c)
    BY <2>3 DEF DeleteRead, SoftDelete, BeginDelete, DeleteSubs, DeleteRelated,
                PermissionsGranted, Goto, CallTargetExists, SeenIsLive
  <2>4. ASSUME NEW v \in Vehicles,
               Subscribe(c, v) \/ Unsubscribe(c, v) \/ VehicleFails(c, v)
        PROVE  CallsInv'
    BY <2>4, CallsFrame DEF Subscribe, CreateVehicleSubscription, Unsubscribe,
                            DeleteVehicleSubscription, VehicleFails
  <2>5. CASE ListDone(c) \/ UnsubscribeAll(c) \/ ReturnError(c)
    BY <2>5, CallsFrame
       DEF ListDone, UnsubscribeAll, DeleteAllVehicleSubscriptionsForTrigger,
           ReturnError, Rollback, Return, Goto
  <2> QED
    BY <1>3, <2>1, <2>2, <2>3, <2>4, <2>5 DEF ApiFinish
<1> QED
  BY <1>1, <1>2, <1>3 DEF ApiNext

LEMMA CallsStep == CallsInv /\ [Next]_vars => CallsInv'
<1> SUFFICES ASSUME CallsInv, [Next]_vars
             PROVE  CallsInv'
  OBVIOUS
<1>1. BreakerInv'
  BY BreakerStep DEF CallsInv
<1>2. CASE ApiNext
  BY <1>1, <1>2, CallsApi
<1>3. CASE ListenerNext
  <2>1. \A t \in Triggers : status[t] # "absent" => status'[t] # "absent"
    BY <1>3, ListenerKeepsLive, ListenerKeepsDeleted DEF CallsInv, Live
  <2> QED
    BY <1>1, <1>3, <2>1, ListenerKeepsLive, CallsFrame DEF CallsInv
<1>4. CASE \/ \E skipped \in SUBSET Triggers : Refresh(skipped)
           \/ RefreshFails \/ Tick \/ UNCHANGED vars
  BY <1>1, <1>4, CallsFrame DEF Refresh, RefreshFails, Tick
<1>5. CASE Restart
  BY <1>1, <1>5 DEF Restart, CallsInv, CallTargetExists, SeenIsLive
<1> QED
  BY <1>2, <1>3, <1>4, <1>5 DEF Next

LEMMA CallsInvariant == Spec => []CallsInv
BY CallsInit, CallsStep, PTL DEF Spec

-----------------------------------------------------------------------------
(* The lifecycle implements CircuitBreaker                                 *)

\* The update of a row that was deleted after it had been found.
LateUpdate(t) ==
  /\ Breaker!Revive(t)
  /\ \E c \in Calls, payload \in ChosenStatuses \cup {"none"} :
       target[c] = t /\ UpdateWrite(c, payload)

\* What a step does to the rows: a step of the breaker, or a late update.
LEMMA RowStep ==
  ASSUME CallsInv, [Next]_vars
  PROVE  [Breaker!Next \/ \E t \in Triggers : LateUpdate(t)]_<<status, failures>>
<1> USE DEF CallsInv, BreakerInv, TypeOK, StoreTypeOK, ApiTypeOK
<1> USE DEF Breaker!Next, Breaker!Set, Breaker!Usable
<1>1. ASSUME NEW t \in Triggers, NEW s \in ChosenStatuses, RegisterWebhook(t, s)
      PROVE  Breaker!Next
  BY <1>1 DEF RegisterWebhook, CreateTrigger, Breaker!Register, ChosenStatuses
<1>2. ASSUME NEW c \in Calls, ApiFinish(c)
      PROVE  \/ Breaker!Next
             \/ \E t \in Triggers : LateUpdate(t)
             \/ UNCHANGED <<status, failures>>
  <2>0. target[c] \in Triggers
    OBVIOUS
  <2>1. ASSUME NEW payload \in ChosenStatuses \cup {"none"}, UpdateWrite(c, payload)
        PROVE  Breaker!Next \/ LateUpdate(target[c])
    <3> DEFINE s == IF payload = "none" THEN seen[c] ELSE payload
    <3>1. /\ status[target[c]] # "absent"
          /\ s \in ChosenStatuses \cup {"failed"}
          /\ status' = [status EXCEPT ![target[c]] = s]
          /\ failures' = [failures EXCEPT ![target[c]] = 0]
      BY <2>1 DEF UpdateWrite, UpdateTrigger, SeenIsLive
    <3> HIDE DEF s
    <3>2. CASE status[target[c]] = "deleted"
      <4>1. Breaker!Revive(target[c])
        BY <3>1, <3>2 DEF Breaker!Revive, ChosenStatuses
      <4> QED
        BY <2>0, <2>1, <4>1 DEF LateUpdate
    <3>3. CASE status[target[c]] # "deleted"
      <4>1. Breaker!Update(target[c])
        BY <2>0, <3>1, <3>3 DEF Breaker!Update, ChosenStatuses, Statuses
      <4> QED
        BY <2>0, <4>1
    <3> QED
      BY <3>2, <3>3
  <2>2. CASE DeleteCommit(c)
    <3>1. /\ status[target[c]] # "absent"
          /\ status' = [status EXCEPT ![target[c]] = "deleted"]
          /\ UNCHANGED failures
      BY <2>2 DEF DeleteCommit, CommitDelete, CallTargetExists
    <3>2. CASE status[target[c]] = "deleted"
      BY <2>0, <3>1, <3>2
    <3>3. CASE status[target[c]] # "deleted"
      <4>1. Breaker!Delete(target[c])
        BY <2>0, <3>1, <3>3 DEF Breaker!Delete, ChosenStatuses, Statuses
      <4> QED
        BY <2>0, <4>1
    <3> QED
      BY <3>2, <3>3
  <2>3. ASSUME NEW v \in Vehicles,
               Subscribe(c, v) \/ Unsubscribe(c, v) \/ VehicleFails(c, v)
        PROVE  UNCHANGED <<status, failures>>
    BY <2>3 DEF Subscribe, CreateVehicleSubscription, Unsubscribe,
                DeleteVehicleSubscription, VehicleFails
  <2>4. CASE DeleteRead(c) \/ SoftDelete(c) \/ DeleteSubs(c) \/ PermissionsGranted(c)
             \/ ListDone(c) \/ UnsubscribeAll(c) \/ ReturnError(c)
    BY <2>4 DEF DeleteRead, SoftDelete, BeginDelete, DeleteSubs, DeleteRelated,
                PermissionsGranted, ListDone, UnsubscribeAll,
                DeleteAllVehicleSubscriptionsForTrigger, ReturnError, Rollback
  <2> QED
    BY <1>2, <2>0, <2>1, <2>2, <2>3, <2>4 DEF ApiFinish
<1>3. ASSUME NEW c \in Calls, NEW t \in Triggers, ApiStart(c, t)
      PROVE  UNCHANGED <<status, failures>>
  BY <1>3 DEF ApiStart, UpdateRead, DeleteCheck, UnsubscribeAllCheck,
              SubscribeCheck, UnsubscribeCheck, OwnerCheck
<1>4. ASSUME NEW w \in Workers, ResetFailures(w)
      PROVE  [Breaker!Next]_<<status, failures>>
  <2>1. job[w] \in Triggers
    OBVIOUS
  <2>2. CASE failures[job[w]] = 0
    BY <1>4, <2>1, <2>2 DEF ResetFailures, ResetTriggerFailureCount
  <2>3. CASE failures[job[w]] > 0
    <3>1. Breaker!Succeed(job[w])
      BY <1>4, <2>1, <2>3
         DEF ResetFailures, ResetTriggerFailureCount, Breaker!Succeed
    <3> QED
      BY <2>1, <3>1
  <2> QED
    BY <2>1, <2>2, <2>3
<1>5. ASSUME NEW w \in Workers, IncrementCommit(w)
      PROVE  Breaker!Next
  <2>0. Live(job[w]) /\ copy[w] = Row(job[w])
    BY <1>5 DEF IncrementCommit, LockedCopyIsCurrent, LockedRowIsLive
  <2>1. /\ Live(job[w])
        /\ failures' = [failures EXCEPT ![job[w]] = failures[job[w]] + 1]
        /\ status' = [status EXCEPT ![job[w]] =
                        StatusAfter(status[job[w]], failures[job[w]] + 1)]
    BY <1>5, <2>0 DEF IncrementCommit, CommitIncrement, Row
  <2>2. Breaker!Fail(job[w])
    BY <2>1 DEF Breaker!Fail, StatusAfter, Live, Statuses, ChosenStatuses
  <2> QED
    BY <2>2
<1>6. ASSUME NEW w \in Workers,
             \/ \E t \in Triggers, v \in Vehicles : Attempt(w, t, v)
             \/ DeliveryAccepted(w) \/ DeliveryRefused(w) \/ DeliveryAborted(w)
             \/ IncrementRead(w) \/ ReportFails(w)
      PROVE  UNCHANGED <<status, failures>>
  BY <1>6 DEF Attempt, DeliveryAccepted, DeliveryRefused, DeliveryAborted, Sent,
              IncrementRead, SelectForUpdate, ReportFails, Rollback
<1>7. ASSUME NEW t \in Triggers, NEW v \in Vehicles, AutoUnsubscribe(t, v)
      PROVE  UNCHANGED <<status, failures>>
  BY <1>7 DEF AutoUnsubscribe, DeleteVehicleSubscription
<1>8. CASE \/ \E skipped \in SUBSET Triggers : Refresh(skipped)
           \/ RefreshFails \/ Tick \/ Restart \/ UNCHANGED vars
  BY <1>8 DEF Refresh, RefreshFails, Tick, Restart
<1>9. CASE ApiNext
  BY <1>1, <1>2, <1>3, <1>9 DEF ApiNext
<1>10. CASE ListenerNext
  BY <1>4, <1>5, <1>6, <1>7, <1>10 DEF ListenerNext, Report
<1> QED
  BY <1>8, <1>9, <1>10 DEF Next

LEMMA RefinementInit == Init => Breaker!Init
BY DEF Init, StoreInit, Breaker!Init

\* A late update takes two calls.
LEMMA RefinementStep ==
  ASSUME SerialInv, [Next]_vars
  PROVE  [Breaker!Next]_<<status, failures>>
<1>1. ASSUME NEW t \in Triggers, LateUpdate(t)
      PROVE  FALSE
  BY <1>1 DEF LateUpdate, Breaker!Revive, UpdateWrite, SerialInv, CallTargetIsLive, Live
<1> QED
  BY <1>1, SerialIsCalls, RowStep

\* The breaker keeps a deleted row deleted.
LEMMA BreakerKeepsDeleted ==
  ASSUME NEW t \in Triggers, status \in [Triggers -> Statuses], status[t] = "deleted",
         [Breaker!Next]_<<status, failures>>
  PROVE  status'[t] = "deleted"
<1>1. ASSUME NEW x \in Triggers, Breaker!Succeed(x)
      PROVE  status'[t] = "deleted"
  BY <1>1 DEF Breaker!Succeed, Breaker!Set
<1>2. ASSUME NEW x \in Triggers,
             \/ Breaker!Register(x) \/ Breaker!Update(x)
             \/ Breaker!Delete(x) \/ Breaker!Fail(x)
      PROVE  status'[t] = "deleted"
  BY <1>2 DEF Breaker!Register, Breaker!Update, Breaker!Delete, Breaker!Fail,
              Breaker!Set, Breaker!Usable
<1> QED
  BY <1>1, <1>2 DEF Breaker!Next

\* When a developer's calls do not overlap, the rows change as if every
\* update, deletion and delivery report were a single step.
THEOREM SerialCallsRefineBreaker ==
  ASSUME OneCall
  PROVE  Spec => RefinesBreaker
<1>1. SerialInv /\ [Next]_vars => SerialInv' /\ [Breaker!Next]_<<status, failures>>
  BY SerialStep, RefinementStep
<1> QED
  BY <1>1, SerialInit, RefinementInit, PTL DEF Spec, RefinesBreaker, Breaker!Spec

\* In particular a deleted webhook stays deleted.
THEOREM SerialCallsKeepDeleted ==
  ASSUME OneCall
  PROVE  Spec => DeletedIsFinal
<1>1. SerialInv /\ [Next]_vars =>
        \A t \in Triggers : status[t] = "deleted" => status'[t] = "deleted"
  BY RefinementStep, BreakerKeepsDeleted DEF SerialInv, BreakerInv, TypeOK, StoreTypeOK
<1>2. SerialInv /\ [Next]_vars => SerialInv'
  BY SerialStep
<1> QED
  BY <1>1, <1>2, SerialInit, PTL DEF Spec, DeletedIsFinal

\* However many calls overlap, every change of a row is one of the breaker's,
\* or the update of a deleted row: counts and statuses stay in step.
THEOREM AnyCallsRefineRacyBreaker == Spec => RefinesRacyBreaker
<1>1. CallsInv /\ [Next]_vars => [Breaker!RacyNext]_<<status, failures>>
  BY RowStep DEF LateUpdate, Breaker!RacyNext
<1> QED
  BY <1>1, CallsInvariant, RefinementInit, PTL
     DEF Spec, RefinesRacyBreaker, Breaker!RacySpec

\* However many calls overlap, a deleted webhook comes back only by the update
\* of a call that had found it: no delivery report, restart or refresh does it.
THEOREM DeletedUntilUpdated == Spec => OnlyUpdatesRevive
<1>1. CallsInv /\ [Next]_vars =>
        \A t \in Triggers :
          status[t] = "deleted" /\ status'[t] # "deleted" =>
            \E c \in Calls, payload \in ChosenStatuses \cup {"none"} :
              target[c] = t /\ UpdateWrite(c, payload)
  <2> SUFFICES ASSUME CallsInv, [Next]_vars, NEW t \in Triggers,
                      status[t] = "deleted", status'[t] # "deleted"
               PROVE  LateUpdate(t)
    BY DEF LateUpdate
  <2>1. status \in [Triggers -> Statuses]
    BY DEF CallsInv, BreakerInv, TypeOK, StoreTypeOK
  <2>2. ~[Breaker!Next]_<<status, failures>>
    BY <2>1, BreakerKeepsDeleted
  <2>3. PICK x \in Triggers : LateUpdate(x)
    BY <2>2, RowStep
  <2>4. x = t
    BY <2>1, <2>3 DEF LateUpdate, Breaker!Revive, Breaker!Set
  <2> QED
    BY <2>3, <2>4
<1> QED
  BY <1>1, CallsInvariant, PTL DEF Spec, OnlyUpdatesRevive

-----------------------------------------------------------------------------
(* What a deletion takes with it                                           *)

\* A deletion about to commit has found the subscriptions that were there when
\* it began, of those that still are.
DoomedBeforeCommit ==
  \A c \in Calls : pc[c] = "deleteCommit" =>
    \A s \in early : s[1] = target[c] => s \in doomed

\* The inductive invariant: between its statements only the lock on the row
\* keeps another deletion from beginning, and a revived row from a new one.
DeletionInv == early \subseteq subs /\ NoEarlyOrphan /\ DoomedBeforeCommit

\* A step that begins no deletion and ends none.
LEMMA DeletionFrame ==
  ASSUME CallsInv, DeletionInv, early' \subseteq early \cap subs',
         \A t \in Triggers : Live(t) => Live(t)',
         doomed \subseteq doomed',
         \A c \in Calls : pc'[c] = "deleteCommit" =>
           pc[c] = "deleteCommit" /\ target'[c] = target[c]
  PROVE  DeletionInv'
<1> USE DEF CallsInv, BreakerInv, TypeOK, StoreTypeOK, DeletionInv
<1>1. NoEarlyOrphan'
  BY DEF NoEarlyOrphan
<1>2. DoomedBeforeCommit'
  BY DEF DoomedBeforeCommit
<1> QED
  BY <1>1, <1>2

LEMMA DeletionApi ==
  ASSUME CallsInv, DeletionInv, ApiNext
  PROVE  DeletionInv'
<1> USE DEF CallsInv, BreakerInv, TypeOK, StoreTypeOK, ApiTypeOK
<1>0. early \subseteq subs /\ early \subseteq Triggers \X Vehicles
  BY DEF DeletionInv
<1>1. ASSUME NEW t \in Triggers, NEW s \in ChosenStatuses, RegisterWebhook(t, s)
      PROVE  DeletionInv'
  BY <1>0, <1>1, DeletionFrame DEF RegisterWebhook, CreateTrigger, Live, ChosenStatuses
<1>2. ASSUME NEW c \in Calls, ApiFinish(c)
      PROVE  DeletionInv'
  <2>0. target[c] \in Triggers
    OBVIOUS
  <2>1. ASSUME NEW payload \in ChosenStatuses \cup {"none"}, UpdateWrite(c, payload)
        PROVE  DeletionInv'
    <3>1. /\ UNCHANGED <<subs, early, doomed, target>>
          /\ pc' = [pc EXCEPT ![c] = "idle"]
          /\ \E r \in ChosenStatuses \cup {"failed"} :
                status' = [status EXCEPT ![target[c]] = r]
      BY <2>1 DEF UpdateWrite, UpdateTrigger, Choose, SeenIsLive, Return, Goto
    <3>2. \A t \in Triggers : Live(t) => Live(t)'
      BY <3>1 DEF Live, ChosenStatuses
    <3> QED
      BY <1>0, <3>1, <3>2, DeletionFrame
  <2>2. CASE SoftDelete(c)
    <3>1. /\ pc' = [pc EXCEPT ![c] = "deleteSubs"]
          /\ Unlocked(target[c])
          /\ early' = IF Live(target[c]) THEN early \cup SubscriptionsOf(target[c]) ELSE early
          /\ UNCHANGED <<status, subs, doomed, target>>
      BY <2>2 DEF SoftDelete, BeginDelete, Goto
    <3>2. early' \subseteq subs'
      BY <1>0, <3>1
    <3>3. NoEarlyOrphan'
      BY <3>1 DEF DeletionInv, NoEarlyOrphan, Live
    <3>4. DoomedBeforeCommit'
      <4>1. SUFFICES ASSUME NEW d \in Calls, pc'[d] = "deleteCommit",
                            NEW s \in early', s[1] = target'[d]
                     PROVE  s \in doomed'
        BY DEF DoomedBeforeCommit
      <4>2. pc[d] = "deleteCommit" /\ s[1] = target[d]
        BY <3>1, <4>1
      <4>3. target[d] # target[c]
        BY <3>1, <4>2, WorkersAssumption DEF DeleterHoldsLock, Deleting, Unlocked
      <4>4. s \in early
        BY <3>1, <4>1, <4>2, <4>3
      <4> QED
        BY <3>1, <4>2, <4>4 DEF DeletionInv, DoomedBeforeCommit
    <3> QED
      BY <3>2, <3>3, <3>4 DEF DeletionInv
  <2>3. CASE DeleteSubs(c)
    <3>1. /\ pc' = [pc EXCEPT ![c] = "deleteCommit"]
          /\ doomed' = doomed \cup SubscriptionsOf(target[c])
          /\ UNCHANGED <<status, subs, early, target>>
      BY <2>3 DEF DeleteSubs, DeleteRelated, Goto
    <3>2. NoEarlyOrphan'
      BY <3>1 DEF DeletionInv, NoEarlyOrphan, Live
    <3>3. DoomedBeforeCommit'
      BY <1>0, <3>1 DEF DeletionInv, DoomedBeforeCommit
    <3> QED
      BY <1>0, <3>1, <3>2, <3>3 DEF DeletionInv
  <2>4. CASE DeleteCommit(c)
    <3> DEFINE gone == doomed \cap SubscriptionsOf(target[c])
    <3>1. /\ pc[c] = "deleteCommit" /\ pc' = [pc EXCEPT ![c] = "idle"]
          /\ status' = [status EXCEPT ![target[c]] = "deleted"]
          /\ subs' = subs \ gone
          /\ early' = early \ gone
          /\ doomed' = doomed \ SubscriptionsOf(target[c])
          /\ UNCHANGED target
      BY <2>4 DEF DeleteCommit, CommitDelete, Return, Goto
    <3>2. \A s \in early' : s[1] # target[c]
      BY <1>0, <3>1 DEF DeletionInv, DoomedBeforeCommit
    <3>3. NoEarlyOrphan'
      BY <1>0, <3>1, <3>2 DEF DeletionInv, NoEarlyOrphan, Live
    <3>4. DoomedBeforeCommit'
      BY <1>0, <3>1, <3>2 DEF DeletionInv, DoomedBeforeCommit
    <3> QED
      BY <1>0, <3>1, <3>3, <3>4 DEF DeletionInv
  <2>5. CASE ReturnError(c)
    <3>1. /\ pc' = [pc EXCEPT ![c] = "idle"]
          /\ doomed' = {s \in doomed : lock[s[1]] # c}
          /\ UNCHANGED <<status, subs, early, target>>
      BY <2>5 DEF ReturnError, Rollback, Return, Goto
    <3>2. NoEarlyOrphan'
      BY <3>1 DEF DeletionInv, NoEarlyOrphan, Live
    <3>3. DoomedBeforeCommit'
      BY <3>1 DEF DeletionInv, DoomedBeforeCommit, DeleterHoldsLock, Deleting
    <3> QED
      BY <1>0, <3>1, <3>2, <3>3 DEF DeletionInv
  <2>6. ASSUME NEW v \in Vehicles,
               Subscribe(c, v) \/ Unsubscribe(c, v) \/ VehicleFails(c, v)
        PROVE  DeletionInv'
    BY <1>0, <2>6, DeletionFrame
       DEF Subscribe, CreateVehicleSubscription, Unsubscribe, DeleteVehicleSubscription,
           VehicleFails, Live
  <2>7. CASE DeleteRead(c) \/ PermissionsGranted(c) \/ ListDone(c) \/ UnsubscribeAll(c)
    BY <1>0, <2>7, DeletionFrame
       DEF DeleteRead, PermissionsGranted, ListDone, UnsubscribeAll,
           DeleteAllVehicleSubscriptionsForTrigger, Return, Goto, Live
  <2> QED
    BY <1>2, <2>1, <2>2, <2>3, <2>4, <2>5, <2>6, <2>7 DEF ApiFinish
<1>3. ASSUME NEW c \in Calls, NEW t \in Triggers, ApiStart(c, t)
      PROVE  DeletionInv'
  <2>1. /\ UNCHANGED <<status, subs, early, doomed>>
        /\ target' = [target EXCEPT ![c] = t]
        /\ \E label \in PCs \ {"deleteCommit"} : pc' = [pc EXCEPT ![c] = label]
    BY <1>3 DEF ApiStart, UpdateRead, DeleteCheck, UnsubscribeAllCheck, SubscribeCheck,
                UnsubscribeCheck, OwnerCheck, Goto, PCs
  <2> QED
    BY <1>0, <2>1, DeletionFrame DEF Live
<1> QED
  BY <1>1, <1>2, <1>3 DEF ApiNext

LEMMA DeletionListener ==
  ASSUME CallsInv, DeletionInv, ListenerNext
  PROVE  DeletionInv'
<1> USE DEF CallsInv, BreakerInv, TypeOK, StoreTypeOK, ApiTypeOK
<1>0. early \subseteq subs /\ early \subseteq Triggers \X Vehicles
  BY DEF DeletionInv
<1>1. UNCHANGED <<pc, target>> /\ \A t \in Triggers : Live(t) => Live(t)'
  BY ListenerKeepsLive
<1>2. ASSUME NEW w \in Workers, ReportFails(w)
      PROVE  DeletionInv'
  <2>1. /\ doomed' = {s \in doomed : lock[s[1]] # w}
        /\ UNCHANGED <<status, subs, early>>
    BY <1>2 DEF ReportFails, Rollback
  <2>2. DoomedBeforeCommit'
    BY <1>1, <2>1, WorkersAssumption
       DEF DeletionInv, DoomedBeforeCommit, DeleterHoldsLock, Deleting
  <2> QED
    BY <2>1, <2>2 DEF DeletionInv, NoEarlyOrphan, Live
<1>3. ASSUME NEW w \in Workers,
             \/ \E t \in Triggers, v \in Vehicles : Attempt(w, t, v)
             \/ DeliveryAccepted(w) \/ DeliveryRefused(w) \/ DeliveryAborted(w)
             \/ ResetFailures(w) \/ IncrementRead(w) \/ IncrementCommit(w)
      PROVE  UNCHANGED <<subs, early, doomed>>
  BY <1>3 DEF Attempt, DeliveryAccepted, DeliveryRefused, DeliveryAborted, Sent,
              ResetFailures, ResetTriggerFailureCount, IncrementRead, SelectForUpdate,
              IncrementCommit, CommitIncrement
<1>4. ASSUME NEW t \in Triggers, NEW v \in Vehicles, AutoUnsubscribe(t, v)
      PROVE  early' \subseteq early \cap subs' /\ UNCHANGED doomed
  BY <1>0, <1>4 DEF AutoUnsubscribe, DeleteVehicleSubscription
<1> QED
  BY <1>0, <1>1, <1>2, <1>3, <1>4, DeletionFrame DEF ListenerNext, Report

\* NoEarlyOrphan: however many calls overlap, of the subscriptions there were
\* when a deletion began, none is left when it has committed.
THEOREM DeletionTakesSubscriptions == Spec => []NoEarlyOrphan
<1>1. Init => DeletionInv
  BY DEF Init, StoreInit, ApiInit, DeletionInv, NoEarlyOrphan, DoomedBeforeCommit
<1>2. CallsInv /\ DeletionInv /\ [Next]_vars => DeletionInv'
  <2> SUFFICES ASSUME CallsInv, DeletionInv, [Next]_vars
               PROVE  DeletionInv'
    OBVIOUS
  <2>0. early \subseteq subs /\ early \subseteq Triggers \X Vehicles
    BY DEF DeletionInv, CallsInv, BreakerInv, TypeOK, StoreTypeOK
  <2>1. CASE ApiNext
    BY <2>1, DeletionApi
  <2>2. CASE ListenerNext
    BY <2>2, DeletionListener
  <2>3. CASE \/ \E skipped \in SUBSET Triggers : Refresh(skipped)
             \/ RefreshFails \/ Tick \/ UNCHANGED vars
    BY <2>0, <2>3, DeletionFrame DEF Refresh, RefreshFails, Tick, Live
  <2>4. CASE Restart
    BY <2>4 DEF Restart, DeletionInv, NoEarlyOrphan, DoomedBeforeCommit, Live
  <2> QED
    BY <2>1, <2>2, <2>3, <2>4 DEF Next
<1>3. DeletionInv => NoEarlyOrphan
  BY DEF DeletionInv
<1> QED
  BY <1>1, <1>2, <1>3, CallsInvariant, PTL DEF Spec
=============================================================================
