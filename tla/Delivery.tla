------------------------------ MODULE Delivery ------------------------------
(***************************************************************************)
(* One vehicle's messages about one metric, evaluated for the webhooks on  *)
(* that metric: TriggerEvaluator.EvaluateSignalTrigger, or, when the       *)
(* metric is the name of an event, EvaluateEventTrigger, and the rest of   *)
(* MetricListener.handleTriggeredWebhook, with the trigger log that the    *)
(* cooldown and the previous value are read from.                          *)
(*                                                                         *)
(* A message is its number, and so is the snapshot a log row keeps of it.  *)
(* The webhooks of one message are evaluated side by side; a lane is a     *)
(* goroutine handling messages of the vehicle.  One lane is the rule       *)
(* (Dispatcher.OneLiveDelivery); a second one is what a rebalance or a     *)
(* producer that spreads the vehicle over partitions gives.                *)
(***************************************************************************)
EXTENDS Integers, FiniteSets

CONSTANTS Triggers,         \* the webhooks on the metric
          Lanes,
          Cooldown,         \* triggers.cooldown_period
          MaxMessages,      \* bound: the messages of the vehicle
          MaxRedeliveries,  \* bound: messages delivered again
          MaxTime           \* bound: the clock

ASSUME CooldownAssumption == Cooldown \in Nat
ASSUME BoundsAssumption ==
  MaxMessages \in Nat /\ MaxRedeliveries \in Nat /\ MaxTime \in Nat

VARIABLES service,       \* what the metric is: a signal or an event
          now,           \* the clock; 0 is the zero time
          logs,          \* trigger_logs of the vehicle
          message,       \* the number of the newest message
          redeliveries,  \* counts towards MaxRedeliveries
          msg,           \* the message each lane handles
          pc,            \* where each evaluation stands
          last,          \* the last_triggered_at it has read
          prev,          \* the snapshot it has read as the previous value
          calls          \* history: the calls made, as <<trigger, lane, time>>

vars == <<service, now, logs, message, redeliveries, msg, pc, last, prev, calls>>

Jobs == Triggers \X Lanes
PCs == {"idle", "permission", "loading", "cooldown", "metric", "condition",
        "sending", "logging"}
\* A row of the log; the lane that has written it is history, not a column.
LogRows == [trigger : Triggers, lane : Lanes, at : Nat, snapshot : Nat]

\* What getLastLogValue makes up when no row is found.
NoRow == [at |-> 0, snapshot |-> 0]

TypeOK ==
  /\ service \in {"signals", "events"}
  /\ now \in Nat
  /\ logs \in SUBSET LogRows
  /\ message \in Nat
  /\ redeliveries \in Nat
  /\ msg \in [Lanes -> Nat]
  /\ pc \in [Jobs -> PCs]
  /\ last \in [Jobs -> Nat]
  /\ prev \in [Jobs -> Nat]
  /\ calls \in SUBSET (Triggers \X Lanes \X Nat)

Init ==
  /\ service \in {"signals", "events"}
  /\ now = 1
  /\ logs = {}
  /\ message = 0
  /\ redeliveries = 0
  /\ msg = [l \in Lanes |-> 0]
  /\ pc = [j \in Jobs |-> "idle"]
  /\ last = [j \in Jobs |-> 0]
  /\ prev = [j \in Jobs |-> 0]
  /\ calls = {}

-----------------------------------------------------------------------------
(* Messages                                                                *)

\* The lane takes message m and evaluates the cached webhooks it concerns; a
\* message that concerns none is not counted.
Handle(l, m) ==
  /\ \A t \in Triggers : pc[<<t, l>>] = "idle"
  /\ msg' = [msg EXCEPT ![l] = m]
  /\ \E cached \in SUBSET Triggers \ {{}} :
       pc' = [j \in Jobs |-> IF j[2] = l /\ j[1] \in cached THEN "permission" ELSE pc[j]]
  /\ UNCHANGED <<now, logs, last, prev, calls>>

Arrive(l) ==
  /\ message < MaxMessages
  /\ message' = message + 1
  /\ Handle(l, message')
  /\ UNCHANGED redeliveries

Redeliver(l) ==
  /\ message > 0
  /\ redeliveries < MaxRedeliveries
  /\ redeliveries' = redeliveries + 1
  /\ Handle(l, message)
  /\ UNCHANGED message

Tick ==
  /\ now < MaxTime
  /\ now' = now + 1
  /\ UNCHANGED <<logs, message, redeliveries, msg, pc, last, prev, calls>>

\* The process crashes; the log stays.
Crash ==
  /\ \E j \in Jobs : pc[j] # "idle"
  /\ pc' = [j \in Jobs |-> "idle"]
  /\ last' = [j \in Jobs |-> 0]
  /\ prev' = [j \in Jobs |-> 0]
  /\ UNCHANGED <<now, logs, message, redeliveries, msg, calls>>

-----------------------------------------------------------------------------
(* Evaluation                                                              *)

Goto(j, from, to) ==
  /\ pc[j] = from
  /\ pc' = [pc EXCEPT ![j] = to]

\* The evaluation is over and its local variables are gone.
Done(j, from) ==
  /\ Goto(j, from, "idle")
  /\ last' = [last EXCEPT ![j] = 0]
  /\ prev' = [prev EXCEPT ![j] = 0]

HasVehiclePermissions(j) ==
  /\ Goto(j, "permission", "loading")
  /\ UNCHANGED <<now, logs, message, redeliveries, msg, last, prev, calls>>

LogsOf(t) == {r \in logs : r.trigger = t}

\* Mutant: the oldest row first.
Newest_oldest(rows) ==
  IF rows = {} THEN {NoRow} ELSE {r \in rows : \A q \in rows : r.at <= q.at}

\* ORDER BY last_triggered_at DESC LIMIT 1.
Newest(rows) ==
  IF rows = {} THEN {NoRow} ELSE {r \in rows : \A q \in rows : q.at <= r.at}

\* getLastLogValue: the newest row of the webhook.  An event's previous value
\* comes from the same row, a signal's from a query of its own.
GetLastLogValue(j) ==
  /\ Goto(j, "loading", "cooldown")
  /\ \E r \in Newest(LogsOf(j[1])) :
       /\ last' = [last EXCEPT ![j] = r.at]
       /\ prev' = IF service = "events" THEN [prev EXCEPT ![j] = r.snapshot] ELSE prev
  /\ UNCHANGED <<now, logs, message, redeliveries, msg, calls>>

\* Mutant: the comparison is the wrong way round.
checkCooldown_swapped(at) == at = 0 \/ now - at <= Cooldown

checkCooldown(at) == at = 0 \/ now - at >= Cooldown

CooldownPassed(j) ==
  /\ Goto(j, "cooldown", IF service = "events" THEN "condition" ELSE "metric")
  /\ checkCooldown(last[j])
  /\ UNCHANGED <<now, logs, message, redeliveries, msg, last, prev, calls>>

CooldownNotMet(j) ==
  /\ Done(j, "cooldown")
  /\ ~checkCooldown(last[j])
  /\ UNCHANGED <<now, logs, message, redeliveries, msg, calls>>

\* Mutant: the rows of the webhook alone.
GetLastLogForMetric_ownRows(j) ==
  /\ Goto(j, "metric", "condition")
  /\ \E r \in Newest(LogsOf(j[1])) : prev' = [prev EXCEPT ![j] = r.snapshot]
  /\ UNCHANGED <<now, logs, message, redeliveries, msg, last, calls>>

\* Mutant: the sentinel of a missing row is taken for a signal.
GetLastLogForMetric_noRow(j) ==
  /\ Goto(j, "metric", "condition")
  /\ \E r \in Newest(logs) : prev' = [prev EXCEPT ![j] = IF logs = {} THEN -1 ELSE r.snapshot]
  /\ UNCHANGED <<now, logs, message, redeliveries, msg, last, calls>>

\* The newest row of any webhook on the metric, or a zero signal.
GetLastLogForMetric(j) ==
  /\ Goto(j, "metric", "condition")
  /\ \E r \in Newest(logs) : prev' = [prev EXCEPT ![j] = r.snapshot]
  /\ UNCHANGED <<now, logs, message, redeliveries, msg, last, calls>>

\* The permission is denied or cannot be checked, the log cannot be read, the
\* condition is not met, or the circuit breaker is open.
NotFired(j) ==
  /\ \E from \in {"permission", "loading", "metric", "condition"} : Done(j, from)
  /\ UNCHANGED <<now, logs, message, redeliveries, msg, calls>>

-----------------------------------------------------------------------------
(* Delivery                                                                *)

\* The condition is met, and SendWebhook posts to the target.
Fire(j) ==
  /\ Goto(j, "condition", "sending")
  /\ calls' = calls \cup {<<j[1], j[2], now>>}
  /\ UNCHANGED <<now, logs, message, redeliveries, msg, last, prev>>

\* The failure count is reset (TriggerLifecycle.ResetFailures).
Accepted(j) ==
  /\ Goto(j, "sending", "logging")
  /\ UNCHANGED <<now, logs, message, redeliveries, msg, last, prev, calls>>

\* The failure is counted (TriggerLifecycle.IncrementRead); nothing is logged.
Refused(j) ==
  /\ Done(j, "sending")
  /\ UNCHANGED <<now, logs, message, redeliveries, msg, calls>>

\* TriggerLog.Insert; the id of the row is a new one.
InsertTriggerLog(j, at, snapshot) ==
  logs' = logs \cup {[trigger |-> j[1], lane |-> j[2], at |-> at, snapshot |-> snapshot]}

\* logWebhookTrigger; no two rows have the same time, down to the microsecond.
CreateTriggerLog(j) ==
  /\ Done(j, "logging")
  /\ now < MaxTime
  /\ now' = now + 1
  /\ InsertTriggerLog(j, now, msg[j[2]])
  /\ UNCHANGED <<message, redeliveries, msg, calls>>

LogFails(j) ==
  /\ Done(j, "logging")
  /\ UNCHANGED <<now, logs, message, redeliveries, msg, calls>>

-----------------------------------------------------------------------------

Evaluate(j) ==
  \/ HasVehiclePermissions(j)
  \/ GetLastLogValue(j)
  \/ CooldownPassed(j) \/ CooldownNotMet(j)
  \/ GetLastLogForMetric(j)
  \/ NotFired(j)

Deliver(j) ==
  \/ Fire(j)
  \/ Accepted(j) \/ Refused(j)
  \/ CreateTriggerLog(j) \/ LogFails(j)

Step ==
  \/ \E l \in Lanes : Arrive(l) \/ Redeliver(l)
  \/ \E j \in Jobs : Evaluate(j) \/ Deliver(j)
  \/ Tick
  \/ Crash

Next == Step /\ UNCHANGED service

Spec == Init /\ [][Next]_vars

-----------------------------------------------------------------------------
(* Properties                                                              *)

\* The deliveries a webhook has logged for a vehicle are at least the
\* cooldown apart: checking the cooldown and logging the delivery are far
\* apart in the code, and the check must still hold when the row is written.
LogsSpaced ==
  \A r, q \in logs :
    r.trigger = q.trigger /\ r.at < q.at => q.at - r.at >= Cooldown

\* A call that comes after a delivery the webhook has logged comes at least
\* the cooldown after it, also a call that is then refused and logs nothing.
CallsRespectCooldown ==
  \A c \in calls, r \in logs :
    r.trigger = c[1] /\ r.at < c[3] => c[3] - r.at >= Cooldown

\* With several goroutines the check can pass in each of them before any of
\* them logs.  The log never shows more than that: within one cooldown, one
\* delivery of a webhook for each goroutine.
BurstBounded ==
  \A t \in Triggers, from \in 0 .. now :
    Cardinality({r \in logs : r.trigger = t /\ from <= r.at /\ r.at < from + Cooldown})
      <= Cardinality(Lanes)

\* One goroutine never calls an endpoint within the cooldown of a delivery it
\* has logged itself, whatever the others do.
LaneRespectsCooldown ==
  \A c \in calls, r \in logs :
    r.trigger = c[1] /\ r.lane = c[2] /\ r.at < c[3] => c[3] - r.at >= Cooldown

\* The rows a condition's previous value is looked for in: those of all the
\* webhooks on a signal, those of the webhook itself for an event.
Relevant(t) == IF service = "events" THEN LogsOf(t) ELSE logs

\* The previous value a condition sees is not older than the newest earlier
\* message that has been logged where it is looked for.
PreviousIsNotStale ==
  \A j \in Jobs : pc[j] = "condition" =>
    \A r \in Relevant(j[1]) : r.snapshot < msg[j[2]] => prev[j] >= r.snapshot
=============================================================================
