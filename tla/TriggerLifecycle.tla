-------------------------- MODULE TriggerLifecycle --------------------------
(***************************************************************************)
(* The life of a webhook: the developer's API calls (WebhookApi) and the   *)
(* deliveries of the metric listener change the same rows concurrently.    *)
(* A worker is one webhook being attempted for one message                 *)
(* (MetricListener.handleTriggeredWebhook); it decides from the listener's *)
(* cached copy of the row, which may be stale, and reports the outcome to  *)
(* the row itself.  The cache appears here only as a copy replaced as a    *)
(* whole now and then; how refreshes are scheduled, fail and overlap is    *)
(* the subject of WebhookCache.                                            *)
(***************************************************************************)
EXTENDS WebhookApi

\* A bound of the model: no delivery starts for a row with FailureCap
\* failures, so the count exceeds it by at most the number of workers.
CONSTANT FailureCap

ASSUME FailureCapAssumption == FailureCap \in Nat /\ FailureCap > MaxFailureCount

VARIABLES jpc,          \* where each worker stands
          job,          \* the webhook it attempts
          copy,         \* the row it read under the lock
          cachedSubs,   \* the listener's cache: who is subscribed to what,
          cachedRow     \* and the trigger rows it holds

jobVars == <<jpc, job, copy>>
cacheVars == <<cachedSubs, cachedRow>>
vars == <<storeVars, callVars, pending, jobVars, cacheVars>>

JobPCs == {"idle", "sending", "resetting", "counting", "locked"}
Rows == [status : Statuses, failures : Nat]
NoRow == [status |-> "absent", failures |-> 0]

Row(t) == [status |-> status[t], failures |-> failures[t]]

TypeOK ==
  /\ StoreTypeOK
  /\ ApiTypeOK
  /\ jpc \in [Workers -> JobPCs]
  /\ job \in [Workers -> Triggers]
  /\ copy \in [Workers -> Rows]
  /\ cachedSubs \in SUBSET (Triggers \X Vehicles)
  /\ cachedRow \in [Triggers -> Rows]

Init ==
  /\ StoreInit
  /\ ApiInit
  /\ jpc = [w \in Workers |-> "idle"]
  /\ job \in [Workers -> Triggers]
  /\ copy = [w \in Workers |-> NoRow]
  /\ cachedSubs = {}
  /\ cachedRow = [t \in Triggers |-> NoRow]

-----------------------------------------------------------------------------
(* The listener's cache                                                    *)

\* What fetchVehicleWebhooks keeps of the store: the enabled triggers with a
\* subscription, unless their own fetch or compilation failed.
Cacheable(t, skipped) ==
  status[t] = "enabled" /\ Subscribed(t) /\ t \notin skipped

\* Mutant: the new map is merged into the old one.
Populate_merges(skipped) ==
  /\ cachedSubs' = cachedSubs \cup {s \in subs : Cacheable(s[1], skipped)}
  /\ cachedRow' = [t \in Triggers |->
                     IF Cacheable(t, skipped) THEN Row(t) ELSE cachedRow[t]]

\* PopulateCache, from a refresh that ran with a live context.
Populate(skipped) ==
  /\ cachedSubs' = {s \in subs : Cacheable(s[1], skipped)}
  /\ cachedRow' = [t \in Triggers |-> IF Cacheable(t, skipped) THEN Row(t) ELSE NoRow]

Refresh(skipped) ==
  /\ pending # "none"
  /\ Populate(skipped)
  /\ pending' = "none"
  /\ UNCHANGED <<storeVars, callVars, jobVars>>

\* The error of PopulateCache is logged; nobody tries again.
RefreshFails ==
  /\ pending # "none"
  /\ pending' = "none"
  /\ UNCHANGED <<storeVars, callVars, jobVars, cacheVars>>

\* The five-minute ticker.
Tick ==
  /\ ScheduleRefresh("lasting")
  /\ UNCHANGED <<storeVars, callVars, jobVars, cacheVars>>

-----------------------------------------------------------------------------
(* Deliveries                                                              *)

JobGoto(w, label) == jpc' = [jpc EXCEPT ![w] = label]

JobDone(w) ==
  /\ JobGoto(w, "idle")
  /\ copy' = [copy EXCEPT ![w] = NoRow]
  /\ UNCHANGED <<job, callVars, pending, cacheVars>>

ShouldAttemptWebhook(row) ==
  row.status = "enabled" /\ row.failures < MaxFailureCount

\* GetWebhooks of the cache, for any metric.
GetWebhooks(v) == {t \in Triggers : <<t, v>> \in cachedSubs}

\* A cached webhook of the vehicle fires.
Attempt(w, t, v) ==
  /\ jpc[w] = "idle"
  /\ t \in GetWebhooks(v)
  /\ ShouldAttemptWebhook(cachedRow[t])
  /\ failures[t] < FailureCap
  /\ JobGoto(w, "sending")
  /\ job' = [job EXCEPT ![w] = t]
  /\ UNCHANGED <<storeVars, callVars, pending, copy, cacheVars>>

\* The evaluation finds the permission gone: the vehicle is unsubscribed, and
\* the cache nudged with the context of the message's errgroup.
AutoUnsubscribe(t, v) ==
  /\ t \in GetWebhooks(v)
  /\ DeleteVehicleSubscription(t, v)
  /\ ScheduleRefresh("passing")
  /\ UNCHANGED <<callVars, jobVars, cacheVars>>

Sent(w, label) ==
  /\ jpc[w] = "sending"
  /\ JobGoto(w, label)
  /\ UNCHANGED <<storeVars, callVars, pending, job, copy, cacheVars>>

DeliveryAccepted(w) == Sent(w, "resetting")
DeliveryRefused(w) == Sent(w, "counting")

\* Not the endpoint's fault (the request could not be built, shutdown).
DeliveryAborted(w) ==
  /\ jpc[w] = "sending"
  /\ JobDone(w)
  /\ UNCHANGED storeVars

ResetFailures(w) ==
  /\ jpc[w] = "resetting"
  /\ ResetTriggerFailureCount(job[w])
  /\ JobDone(w)

IncrementRead(w) ==
  /\ jpc[w] = "counting"
  /\ SelectForUpdate(w, job[w])
  /\ JobGoto(w, "locked")
  /\ copy' = [copy EXCEPT ![w] = Row(job[w])]
  /\ UNCHANGED <<job, callVars, pending, cacheVars>>

IncrementCommit(w) ==
  /\ jpc[w] = "locked"
  /\ CommitIncrement(job[w], copy[w])
  /\ JobDone(w)

\* The row is gone, or the database fails: logged, nothing is counted.
ReportFails(w) ==
  /\ jpc[w] \in {"resetting", "counting", "locked"}
  /\ Rollback(w)
  /\ JobDone(w)

-----------------------------------------------------------------------------
(* The process                                                             *)

\* A crash or a redeployment: calls and workers are gone, the database rolls
\* their transactions back, and startup populates the cache.
Restart ==
  /\ lock' = [t \in Triggers |-> NoWorker]
  /\ doomed' = {}
  /\ pc' = [c \in Calls |-> "idle"]
  /\ seen' = [c \in Calls |-> "absent"]
  /\ todo' = [c \in Calls |-> {}]
  /\ failed' = [c \in Calls |-> FALSE]
  /\ pending' = "none"
  /\ jpc' = [w \in Workers |-> "idle"]
  /\ copy' = [w \in Workers |-> NoRow]
  /\ \E skipped \in SUBSET Triggers : Populate(skipped)
  /\ UNCHANGED <<status, failures, subs, historyVars, target, job>>

Report(w) ==
  \/ ResetFailures(w)
  \/ IncrementRead(w)
  \/ IncrementCommit(w)
  \/ ReportFails(w)

ListenerNext ==
  \/ \E w \in Workers :
       \/ \E t \in Triggers, v \in Vehicles : Attempt(w, t, v)
       \/ DeliveryAccepted(w)
       \/ DeliveryRefused(w)
       \/ DeliveryAborted(w)
       \/ Report(w)
  \/ \E t \in Triggers, v \in Vehicles : AutoUnsubscribe(t, v)

Next ==
  \/ ApiNext /\ UNCHANGED <<jobVars, cacheVars>>
  \/ ListenerNext
  \/ \E skipped \in SUBSET Triggers : Refresh(skipped)
  \/ RefreshFails
  \/ Tick
  \/ Restart

Spec == Init /\ [][Next]_vars

-----------------------------------------------------------------------------
(* Fairness                                                                *)

\* A goroutine that can go on does: a send ends, by its 30-second timeout if
\* by nothing else, a deletion ends its transaction, and a report that waits
\* for a row lock gets it in turn (Postgres queues the waiters), hence SF.  The
\* ticker ticks, a refresh goroutine wakes up, and of those with a lasting
\* context not every one fails; nothing is said of the others.  Nothing says
\* that a developer calls, a vehicle reports or a delivery succeeds.
Fairness ==
  /\ \A w \in Workers :
       /\ WF_vars(DeliveryAccepted(w) \/ DeliveryRefused(w) \/ DeliveryAborted(w))
       /\ SF_vars(Report(w))
  /\ \A c \in Calls : WF_vars(pc[c] \in Deleting /\ ApiFinish(c) /\ UNCHANGED <<jobVars, cacheVars>>)
  /\ WF_vars(Tick)
  /\ WF_vars(RefreshFails \/ \E skipped \in SUBSET Triggers : Refresh(skipped))
  /\ SF_vars(pending = "lasting" /\ Refresh({}))

FairSpec == Spec /\ Fairness

-----------------------------------------------------------------------------
(* Properties                                                              *)

\* The circuit breaker trips in time: a webhook the service may still call
\* has fewer failures than the threshold, however deliveries and updates
\* interleave (IncrementTriggerFailureCount against UpdateWebhook).
CountBelowThreshold ==
  \A t \in Triggers : status[t] \in ChosenStatuses => failures[t] < MaxFailureCount

\* Between SELECT ... FOR UPDATE and COMMIT the row is still the one that
\* was read, so writing the whole row back undoes nobody's write.
LockedCopyIsCurrent ==
  \A w \in Workers :
    jpc[w] = "locked" => lock[job[w]] = w /\ copy[w] = Row(job[w])

\* No failure is lost: every failed delivery that is counted raises the
\* count the row has at that moment by one.
NoFailureLost ==
  [][\A w \in Workers :
       IncrementCommit(w) => failures'[job[w]] = failures[job[w]] + 1]_vars

\* The status a developer has chosen, by registering or updating the webhook,
\* stands until as many failures have been counted since as the threshold:
\* reports of deliveries that began before the update do not undo it sooner
\* (UpdateWebhook against IncrementTriggerFailureCount and
\* ResetTriggerFailureCount).  From the threshold on they do: the failures make
\* the webhook failed, a disabled one too, and a late success then enables it.
OnlyTrippingOverrides ==
  \A t \in Triggers :
    Live(t) /\ chosen[t] \in ChosenStatuses /\ counted[t] < MaxFailureCount
      => status[t] = chosen[t]

\* A deleted webhook stays deleted (DeleteWebhook against UpdateWebhook,
\* which writes the row back by id, and against late delivery reports).
DeletedIsFinal ==
  [][\A t \in Triggers : status[t] = "deleted" => status'[t] = "deleted"]_vars

\* A deletion takes the subscriptions with it that it found: however inserts,
\* unsubscribing and other calls interleave with its statements, no subscription
\* that was there when it began is left once it has committed.  A row inserted
\* between its DELETE and its COMMIT, or later by a call whose owner check came
\* first, is left: the foreign key is content with a soft-deleted trigger.
NoEarlyOrphan == \A s \in early : Live(s[1])

\* A row lock is always given back, whichever way the report or the deletion
\* ends (COMMIT, or RollbackTx on an error), so updates and other reports get
\* their turn.
LocksAreReleased ==
  \A t \in Triggers : lock[t] # NoWorker ~> lock[t] = NoWorker

\* A tripped breaker reaches the listener: when a webhook has failed too
\* often, the copy the listener decides from says so in the end, unless the
\* count is reset first.  This once permissions stop going missing: as long as
\* vehicles are unsubscribed, ticks may be debounced into refreshes whose
\* context has passed.
TrippedBreakerIsSeen ==
  <>[][\A t \in Triggers, v \in Vehicles : ~AutoUnsubscribe(t, v)]_vars =>
    \A t \in Triggers :
      failures[t] >= MaxFailureCount
        ~> failures[t] < MaxFailureCount \/ ~ShouldAttemptWebhook(cachedRow[t])

\* The breaker, with every operation one step (CircuitBreaker): the rows
\* change as it says when developers make one API call at a time.
Breaker == INSTANCE CircuitBreaker
             WITH Triggers <- Triggers, MaxFailureCount <- MaxFailureCount,
                  status <- status, failures <- failures
RefinesBreaker == Breaker!Spec

\* However the calls overlap, the rows change as the breaker says, but for the
\* update of a deleted row: counts and statuses are never torn apart.
RefinesRacyBreaker == Breaker!RacySpec

\* Only an API call undoes a deletion: neither a late delivery report nor a
\* restart brings a webhook back, an update that had found it does.
OnlyUpdatesRevive ==
  [][\A t \in Triggers :
       status[t] = "deleted" /\ status'[t] # "deleted" =>
         \E c \in Calls, payload \in ChosenStatuses \cup {"none"} :
           target[c] = t /\ UpdateWrite(c, payload)]_vars

\* A failed webhook whose failure count an update has reset is enabled again
\* by a successful delivery: its vehicles go on reporting and its endpoint
\* accepts what it is sent, as long as it has a subscription.
Healthy ==
  \A w \in Workers :
    /\ SF_vars(\E t \in Triggers, v \in Vehicles : Attempt(w, t, v))
    /\ SF_vars(DeliveryAccepted(w))
    /\ SF_vars(ResetFailures(w))
HealthySpec == FairSpec /\ Healthy
UpdatedWebhookRecovers ==
  \A t \in Triggers :
    status[t] = "failed" /\ failures[t] = 0
      ~> status[t] # "failed" \/ ~Subscribed(t)
=============================================================================
