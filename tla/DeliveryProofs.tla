--------------------------- MODULE DeliveryProofs ---------------------------
(***************************************************************************)
(* Proofs about Delivery: what the cooldown promises when any number of    *)
(* goroutines evaluate a vehicle's messages side by side, and what it      *)
(* promises when one at a time does; and, with one, that the previous      *)
(* value of a condition is never older than what has been logged.          *)
(***************************************************************************)
EXTENDS Delivery, FiniteSetTheorems, TLAPS

USE DEF vars, InsertTriggerLog

LEMMA TypeInit == Init => TypeOK
BY DEF Init, TypeOK, PCs, LogRows

\* What the newest row is, when there are rows and when there are none.
LEMMA NewestRow ==
  ASSUME TypeOK, NEW rows \in SUBSET logs, NEW r \in Newest(rows)
  PROVE  /\ r.at \in Nat /\ r.snapshot \in Nat
         /\ r \in rows \/ (rows = {} /\ r = NoRow)
         /\ \A q \in rows : q.at <= r.at
<1>1. CASE rows = {}
  BY <1>1 DEF Newest, NoRow
<1>2. CASE rows # {}
  BY <1>2 DEF Newest, TypeOK, LogRows
<1> QED
  BY <1>1, <1>2

LEMMA TypeStep == TypeOK /\ [Next]_vars => TypeOK'
<1> SUFFICES ASSUME TypeOK, [Next]_vars
             PROVE  TypeOK'
  OBVIOUS
<1>0. (Step \/ UNCHANGED vars) /\ service' \in {"signals", "events"}
  BY DEF Next, TypeOK
<1> USE DEF TypeOK, PCs, Goto, Done
<1>1. ASSUME NEW l \in Lanes, Arrive(l) \/ Redeliver(l)
      PROVE  TypeOK'
  BY <1>0, <1>1 DEF Arrive, Redeliver, Handle, LogRows
<1>2. ASSUME NEW j \in Jobs, Evaluate(j)
      PROVE  TypeOK'
  <2>1. CASE GetLastLogValue(j)
    <3>1. PICK r \in Newest(LogsOf(j[1])) :
            /\ last' = [last EXCEPT ![j] = r.at]
            /\ prev' = IF service = "events" THEN [prev EXCEPT ![j] = r.snapshot] ELSE prev
      BY <2>1 DEF GetLastLogValue
    <3>2. LogsOf(j[1]) \in SUBSET logs
      BY DEF LogsOf
    <3>3. r.at \in Nat /\ r.snapshot \in Nat
      BY <3>2, NewestRow
    <3> QED
      BY <1>0, <2>1, <3>1, <3>3 DEF GetLastLogValue
  <2>2. CASE GetLastLogForMetric(j)
    <3>1. PICK r \in Newest(logs) : prev' = [prev EXCEPT ![j] = r.snapshot]
      BY <2>2 DEF GetLastLogForMetric
    <3>2. r.snapshot \in Nat
      BY NewestRow
    <3> QED
      BY <1>0, <2>2, <3>1, <3>2 DEF GetLastLogForMetric
  <2>3. CASE NotFired(j)
    BY <1>0, <2>3 DEF NotFired
  <2>4. CASE HasVehiclePermissions(j) \/ CooldownPassed(j) \/ CooldownNotMet(j)
    BY <1>0, <2>4 DEF HasVehiclePermissions, CooldownPassed, CooldownNotMet
  <2> QED
    BY <1>2, <2>1, <2>2, <2>3, <2>4 DEF Evaluate
<1>3. ASSUME NEW j \in Jobs, Deliver(j)
      PROVE  TypeOK'
  <2>1. j[1] \in Triggers /\ j[2] \in Lanes
    BY DEF Jobs
  <2>2. CASE Fire(j)
    BY <1>0, <2>1, <2>2 DEF Fire
  <2>3. CASE CreateTriggerLog(j)
    <3>1. [trigger |-> j[1], lane |-> j[2], at |-> now, snapshot |-> msg[j[2]]] \in LogRows
      BY <2>1 DEF LogRows
    <3> QED
      BY <1>0, <2>3, <3>1 DEF CreateTriggerLog
  <2>4. CASE Accepted(j) \/ Refused(j) \/ LogFails(j)
    BY <1>0, <2>4 DEF Accepted, Refused, LogFails
  <2> QED
    BY <1>3, <2>2, <2>3, <2>4 DEF Deliver
<1>4. CASE Tick \/ Crash \/ UNCHANGED vars
  BY <1>0, <1>4 DEF Tick, Crash
<1> QED
  BY <1>0, <1>1, <1>2, <1>3, <1>4 DEF Step

\* TypeOK: every variable of the evaluation keeps its type.
THEOREM DeliveryTypeCorrect == Spec => []TypeOK
<1> QED
  BY TypeInit, TypeStep, PTL DEF Spec

-----------------------------------------------------------------------------
(* The cooldown                                                            *)

Passed == {"metric", "condition", "sending", "logging"}

\* The rows of j's webhook that j's own lane has written.
OwnRows(j) == {r \in logs : r.trigger = j[1] /\ r.lane = j[2]}

Cooled(j) == \A r \in OwnRows(j) : now - r.at >= Cooldown

\* Two deliveries that one lane has logged for a webhook are a cooldown apart.
LaneLogsSpaced ==
  \A r, q \in logs :
    r.trigger = q.trigger /\ r.lane = q.lane /\ r.at < q.at => q.at - r.at >= Cooldown

\* The inductive invariant, of each lane on its own: an evaluation that has
\* passed the check satisfies it until it logs as far as the rows of its lane
\* go, because no other evaluation of the lane logs for its webhook.
CooldownInv ==
  /\ now >= 1
  /\ \A r \in logs : 1 <= r.at /\ r.at < now
  /\ \A r, q \in logs : r.at = q.at => r = q
  /\ LaneLogsSpaced
  /\ \A c \in calls : c[3] <= now
  /\ LaneRespectsCooldown
  /\ \A j \in Jobs :
       /\ pc[j] = "cooldown" => \A r \in OwnRows(j) : r.at <= last[j]
       /\ pc[j] \in Passed => Cooled(j)

LEMMA CooldownInit == Init => CooldownInv
BY DEF Init, CooldownInv, LaneLogsSpaced, LaneRespectsCooldown, Passed

\* A step that logs nothing and lets no evaluation past the check.
LEMMA CooldownFrame ==
  ASSUME TypeOK, CooldownInv, logs' = logs, calls' = calls, now' \in Nat, now' >= now,
         \A j \in Jobs :
           /\ pc'[j] = "cooldown" => pc[j] = "cooldown" /\ last'[j] = last[j]
           /\ pc'[j] \in Passed => pc[j] \in Passed
  PROVE  CooldownInv'
<1> USE CooldownAssumption
<1>1. \A r \in logs : r.at \in Nat
  BY DEF TypeOK, LogRows
<1>2. \A j : Cooled(j) => Cooled(j)'
  BY <1>1 DEF Cooled, OwnRows, TypeOK
<1>3. \A r \in logs' : 1 <= r.at /\ r.at < now'
  BY <1>1 DEF CooldownInv, TypeOK
<1>4. LaneLogsSpaced' /\ LaneRespectsCooldown' /\ now' >= 1
  BY DEF CooldownInv, LaneLogsSpaced, LaneRespectsCooldown, TypeOK
<1>5. ASSUME NEW j \in Jobs
      PROVE  /\ pc'[j] = "cooldown" => \A r \in OwnRows(j)' : r.at <= last'[j]
             /\ pc'[j] \in Passed => Cooled(j)'
  BY <1>2 DEF CooldownInv, OwnRows
<1>6. \A c \in calls' : c[3] <= now'
  BY DEF CooldownInv, TypeOK
<1> QED
  BY <1>3, <1>4, <1>5, <1>6 DEF CooldownInv

LEMMA CooldownStep ==
  ASSUME TypeOK, CooldownInv, [Next]_vars
  PROVE  CooldownInv'
<1> USE CooldownAssumption
<1> USE DEF Goto, Done
<1>1. ASSUME NEW l \in Lanes, Arrive(l) \/ Redeliver(l)
      PROVE  CooldownInv'
  BY <1>1, CooldownFrame DEF Arrive, Redeliver, Handle, TypeOK, Passed
<1>2. ASSUME NEW j \in Jobs, GetLastLogValue(j)
      PROVE  CooldownInv'
  <2>1. \A i \in Jobs \ {j} : pc'[i] = pc[i] /\ last'[i] = last[i]
    BY <1>2 DEF GetLastLogValue, TypeOK
  <2>2. pc'[j] = "cooldown" /\ UNCHANGED <<now, logs, calls>>
    BY <1>2 DEF GetLastLogValue, TypeOK
  <2>3. \A r \in OwnRows(j) : r.at <= last'[j]
    <3>1. LogsOf(j[1]) \in SUBSET logs /\ OwnRows(j) \subseteq LogsOf(j[1])
      BY DEF LogsOf, OwnRows
    <3> QED
      BY <1>2, <3>1, NewestRow DEF GetLastLogValue, TypeOK
  <2> QED
    BY <2>1, <2>2, <2>3
    DEF CooldownInv, LaneLogsSpaced, LaneRespectsCooldown, OwnRows, Cooled, Passed
<1>3. ASSUME NEW j \in Jobs, CooldownPassed(j)
      PROVE  CooldownInv'
  <2>1. UNCHANGED <<now, logs, last, calls>> /\ \A i \in Jobs \ {j} : pc'[i] = pc[i]
    BY <1>3 DEF CooldownPassed, TypeOK
  <2>2. pc'[j] \in {"metric", "condition"}
    BY <1>3 DEF CooldownPassed, TypeOK
  <2>3. Cooled(j)
    BY <1>3 DEF CooldownPassed, checkCooldown, CooldownInv, OwnRows, Cooled, TypeOK, LogRows
  <2> QED
    BY <2>1, <2>2, <2>3
    DEF CooldownInv, LaneLogsSpaced, LaneRespectsCooldown, OwnRows, Cooled, Passed
<1>4. ASSUME NEW j \in Jobs, CreateTriggerLog(j)
      PROVE  CooldownInv'
  <2> DEFINE new == [trigger |-> j[1], lane |-> j[2], at |-> now, snapshot |-> msg[j[2]]]
  <2>1. /\ logs' = logs \cup {new}
        /\ now' = now + 1 /\ now \in Nat
        /\ calls' = calls
        /\ pc'[j] = "idle"
        /\ \A i \in Jobs \ {j} : pc'[i] = pc[i] /\ last'[i] = last[i]
    BY <1>4 DEF CreateTriggerLog, TypeOK
  <2>2. Cooled(j)
    BY <1>4 DEF CreateTriggerLog, CooldownInv, Passed
  <2>3. \A r \in logs : r.at \in Nat /\ r.at < now
    BY DEF TypeOK, LogRows, CooldownInv
  <2>4. \A i \in Jobs \ {j} : i[1] # j[1] \/ i[2] # j[2]
    BY DEF Jobs
  <2>5. LaneLogsSpaced'
    <3> SUFFICES ASSUME NEW r \in logs', NEW q \in logs',
                        r.trigger = q.trigger, r.lane = q.lane, r.at < q.at
                 PROVE  q.at - r.at >= Cooldown
      BY DEF LaneLogsSpaced
    <3>1. CASE r \in logs /\ q \in logs
      BY <3>1 DEF LaneLogsSpaced, CooldownInv
    <3>2. CASE r \in logs /\ q = new
      BY <2>2, <3>2 DEF Cooled, OwnRows
    <3>3. r # new
      BY <2>1, <2>3
    <3> QED
      BY <2>1, <3>1, <3>2, <3>3
  <2>6. \A r \in logs' : 1 <= r.at /\ r.at < now'
    BY <2>1, <2>3 DEF CooldownInv
  <2>7. ASSUME NEW i \in Jobs \ {j}
        PROVE  /\ pc'[i] = "cooldown" => \A r \in OwnRows(i)' : r.at <= last'[i]
               /\ pc'[i] \in Passed => Cooled(i)'
    <3>1. OwnRows(i)' = OwnRows(i)
      BY <2>1, <2>4 DEF OwnRows
    <3>2. Cooled(i) => Cooled(i)'
      BY <2>1, <2>3, <3>1 DEF Cooled, OwnRows
    <3> QED
      BY <2>1, <3>1, <3>2 DEF CooldownInv
  <2>8. LaneRespectsCooldown' /\ \A c \in calls' : c[3] <= now'
    <3>1. \A c \in calls : c[3] \in Nat /\ c[3] <= now
      BY DEF CooldownInv, TypeOK
    <3> QED
      BY <2>1, <3>1 DEF LaneRespectsCooldown, CooldownInv
  <2>9. \A r, q \in logs' : r.at = q.at => r = q
    BY <2>1, <2>3 DEF CooldownInv
  <2> QED
    BY <2>1, <2>5, <2>6, <2>7, <2>8, <2>9 DEF CooldownInv, Passed
<1>5. ASSUME NEW j \in Jobs,
             \/ HasVehiclePermissions(j) \/ CooldownNotMet(j)
             \/ GetLastLogForMetric(j) \/ NotFired(j)
             \/ Accepted(j) \/ Refused(j) \/ LogFails(j)
      PROVE  CooldownInv'
  BY <1>5, CooldownFrame
  DEF HasVehiclePermissions, CooldownNotMet, GetLastLogForMetric, NotFired, Accepted,
      Refused, LogFails, TypeOK, Passed
<1>6. CASE Tick \/ Crash \/ UNCHANGED vars
  BY <1>6, CooldownFrame DEF Tick, Crash, TypeOK, Passed
<1>7. ASSUME NEW j \in Jobs, Fire(j)
      PROVE  CooldownInv'
  <2>1. /\ UNCHANGED <<now, logs, last>>
        /\ calls' = calls \cup {<<j[1], j[2], now>>}
        /\ pc[j] \in Passed /\ pc'[j] = "sending"
        /\ \A i \in Jobs \ {j} : pc'[i] = pc[i]
    BY <1>7 DEF Fire, TypeOK, Passed
  <2>2. Cooled(j)
    BY <2>1 DEF CooldownInv
  <2>3. LaneRespectsCooldown'
    <3> SUFFICES ASSUME NEW c \in calls', NEW r \in logs,
                        r.trigger = c[1], r.lane = c[2], r.at < c[3]
                 PROVE  c[3] - r.at >= Cooldown
      BY <2>1 DEF LaneRespectsCooldown
    <3>1. CASE c \in calls
      BY <3>1 DEF CooldownInv, LaneRespectsCooldown
    <3>2. CASE c = <<j[1], j[2], now>>
      BY <2>2, <3>2 DEF Cooled, OwnRows
    <3> QED
      BY <2>1, <3>1, <3>2
  <2>4. \A c \in calls' : c[3] <= now'
    BY <2>1 DEF CooldownInv, TypeOK
  <2> QED
    BY <2>1, <2>2, <2>3, <2>4 DEF CooldownInv, LaneLogsSpaced, OwnRows, Cooled, Passed
<1> QED
  BY <1>1, <1>2, <1>3, <1>4, <1>5, <1>6, <1>7 DEF Next, Step, Evaluate, Deliver

LEMMA CooldownAlways == Spec => [](TypeOK /\ CooldownInv)
<1>1. TypeOK /\ CooldownInv /\ [Next]_vars => CooldownInv'
  BY CooldownStep
<1> QED
  BY <1>1, CooldownInit, DeliveryTypeCorrect, PTL DEF Spec

\* LaneRespectsCooldown: whatever the goroutines do side by side, none calls
\* an endpoint within the cooldown of a delivery it has logged itself.
THEOREM EachLaneCools == Spec => []LaneRespectsCooldown
<1>1. CooldownInv => LaneRespectsCooldown
  BY DEF CooldownInv
<1> QED
  BY <1>1, CooldownAlways, PTL

\* BurstBounded: with n goroutines evaluating a webhook for a vehicle, no
\* stretch of time as long as the cooldown holds more than n of its logged
\* deliveries: each row of the stretch is of a lane of its own.
THEOREM BurstIsBounded ==
  ASSUME IsFiniteSet(Lanes)
  PROVE  Spec => []BurstBounded
<1>1. ASSUME TypeOK, CooldownInv
      PROVE  BurstBounded
  <2> SUFFICES ASSUME NEW t \in Triggers, NEW from \in 0 .. now
               PROVE  Cardinality({r \in logs : /\ r.trigger = t
                                                /\ from <= r.at /\ r.at < from + Cooldown})
                        <= Cardinality(Lanes)
    BY DEF BurstBounded
  <2> DEFINE rows == {r \in logs : r.trigger = t /\ from <= r.at /\ r.at < from + Cooldown}
             laneOf == [r \in rows |-> r.lane]
  <2>0. now \in Nat /\ \A r \in logs : r.at \in Nat /\ r.lane \in Lanes
    BY <1>1 DEF TypeOK, LogRows
  <2>1. from \in Nat /\ Cooldown \in Nat
    BY <2>0, CooldownAssumption
  <2>2. ASSUME NEW r \in rows, NEW q \in rows, r.lane = q.lane, r.at < q.at
        PROVE  FALSE
    <3>1. q.at - r.at >= Cooldown
      BY <1>1, <2>2 DEF CooldownInv, LaneLogsSpaced
    <3> QED
      BY <2>0, <2>1, <3>1
  <2>3. ASSUME NEW r \in rows, NEW q \in rows, r.lane = q.lane
        PROVE  r = q
    <3>1. r.at = q.at
      BY <2>0, <2>2, <2>3
    <3> QED
      BY <1>1, <3>1 DEF CooldownInv
  <2>4. laneOf \in Injection(rows, Lanes)
    <3>1. laneOf \in [rows -> Lanes]
      BY <2>0
    <3>2. \A r, q \in rows : laneOf[r] = laneOf[q] => r = q
      BY <2>3
    <3> HIDE DEF laneOf, rows
    <3> QED
      BY <3>1, <3>2 DEF Injection, IsInjective
  <2> HIDE DEF laneOf, rows
  <2>5. Cardinality(rows) <= Cardinality(Lanes)
    BY <2>4, FS_Injection
  <2> QED
    BY <2>5 DEF rows
<1> QED
  BY <1>1, CooldownAlways, PTL

\* One goroutine at a time handles the vehicle's messages (OneLiveDelivery).
OneLane == \A k, l \in Lanes : k = l

\* LogsSpaced: when one goroutine at a time handles the vehicle's messages,
\* two deliveries a webhook has logged are at least its cooldown apart,
\* however many webhooks, crashes and redeliveries there are.
THEOREM CooldownHolds ==
  ASSUME OneLane
  PROVE  Spec => []LogsSpaced
<1>1. TypeOK /\ CooldownInv => LogsSpaced
  BY DEF CooldownInv, LogsSpaced, LaneLogsSpaced, OneLane, TypeOK, LogRows
<1> QED
  BY <1>1, CooldownAlways, PTL

\* CallsRespectCooldown: with one goroutine at a time, the endpoint is not
\* called within the cooldown of a logged delivery, whether the call is
\* accepted or refused.
THEOREM CallsHoldCooldown ==
  ASSUME OneLane
  PROVE  Spec => []CallsRespectCooldown
<1>1. TypeOK /\ CooldownInv => CallsRespectCooldown
  BY DEF CooldownInv, CallsRespectCooldown, LaneRespectsCooldown, OneLane, TypeOK, LogRows
<1> QED
  BY <1>1, CooldownAlways, PTL

-----------------------------------------------------------------------------
(* The previous value                                                      *)

\* The evaluation holds its previous value: an event's is read with the
\* cooldown, a signal's just before the condition.
HasPrevious(j) ==
  \/ pc[j] = "condition"
  \/ service = "events" /\ pc[j] = "cooldown"

\* The inductive invariant: the log grows in the order of the messages, so
\* its newest row is of the newest message logged.
PreviousInv ==
  /\ \A l \in Lanes : msg[l] = message
  /\ \A r \in logs : r.at < now /\ r.snapshot <= message
  /\ \A r, q \in logs : r.at <= q.at => r.snapshot <= q.snapshot
  /\ \A j \in Jobs : HasPrevious(j) =>
       \A r \in Relevant(j[1]) : r.snapshot < msg[j[2]] => prev[j] >= r.snapshot

LEMMA PreviousInit == Init => PreviousInv
BY DEF Init, PreviousInv, HasPrevious

\* A step that logs nothing and handles no new message.
LEMMA PreviousFrame ==
  ASSUME TypeOK, PreviousInv, UNCHANGED <<service, logs, message, msg>>,
         now' \in Nat, now' >= now,
         \A j \in Jobs : HasPrevious(j)' => HasPrevious(j) /\ prev'[j] = prev[j]
  PROVE  PreviousInv'
<1>1. \A r \in logs : r.at < now'
  BY DEF PreviousInv, TypeOK, LogRows
<1>2. \A t : Relevant(t)' = Relevant(t)
  BY DEF Relevant, LogsOf
<1> QED
  BY <1>1, <1>2 DEF PreviousInv

\* The newest of the rows looked at is as new as any of them.
LEMMA NewestIsLatest ==
  ASSUME TypeOK, PreviousInv, NEW rows \in SUBSET logs, NEW n \in Newest(rows)
  PROVE  \A r \in rows : n.snapshot >= r.snapshot
<1> SUFFICES ASSUME NEW r \in rows
             PROVE  n.snapshot >= r.snapshot
  OBVIOUS
<1>1. n \in rows /\ r.at <= n.at
  BY NewestRow
<1> QED
  BY <1>1 DEF PreviousInv, TypeOK, LogRows

LEMMA PreviousStep ==
  ASSUME OneLane, TypeOK, PreviousInv, [Next]_vars
  PROVE  PreviousInv'
<1>0. service' = service
  BY DEF Next
<1> USE DEF Goto, Done
<1>1. ASSUME NEW l \in Lanes, Arrive(l) \/ Redeliver(l)
      PROVE  PreviousInv'
  <2>1. /\ message' >= message /\ message' \in Nat
        /\ \A k \in Lanes : msg'[k] = message'
        /\ \A j \in Jobs : pc'[j] \in {"idle", "permission"}
        /\ UNCHANGED <<now, logs>>
    BY <1>1 DEF Arrive, Redeliver, Handle, OneLane, Jobs, TypeOK, PreviousInv
  <2>2. \A r \in logs : r.snapshot <= message'
    BY <2>1 DEF PreviousInv, TypeOK, LogRows
  <2> QED
    BY <2>1, <2>2 DEF PreviousInv, HasPrevious
<1>2. ASSUME NEW j \in Jobs, GetLastLogForMetric(j)
      PROVE  PreviousInv'
  <2>1. /\ UNCHANGED <<now, logs, message, msg>>
        /\ \A i \in Jobs \ {j} : pc'[i] = pc[i] /\ prev'[i] = prev[i]
    BY <1>2 DEF GetLastLogForMetric, TypeOK
  <2>2. \A r \in logs : prev'[j] >= r.snapshot
    BY <1>2, NewestIsLatest DEF GetLastLogForMetric, TypeOK
  <2> QED
    BY <1>0, <2>1, <2>2 DEF PreviousInv, HasPrevious, Relevant, LogsOf
<1>6. ASSUME NEW j \in Jobs, GetLastLogValue(j)
      PROVE  PreviousInv'
  <2>1. /\ UNCHANGED <<now, logs, message, msg>>
        /\ \A i \in Jobs \ {j} : pc'[i] = pc[i] /\ prev'[i] = prev[i]
        /\ pc'[j] = "cooldown"
    BY <1>6 DEF GetLastLogValue, TypeOK
  <2>2. service = "events" => \A r \in LogsOf(j[1]) : prev'[j] >= r.snapshot
    <3>1. LogsOf(j[1]) \in SUBSET logs
      BY DEF LogsOf
    <3> QED
      BY <1>6, <3>1, NewestIsLatest DEF GetLastLogValue, TypeOK
  <2> QED
    BY <1>0, <2>1, <2>2 DEF PreviousInv, HasPrevious, Relevant, LogsOf
<1>3. ASSUME NEW j \in Jobs, CreateTriggerLog(j)
      PROVE  PreviousInv'
  <2> DEFINE new == [trigger |-> j[1], lane |-> j[2], at |-> now, snapshot |-> msg[j[2]]]
  <2>1. /\ logs' = logs \cup {new}
        /\ now' = now + 1 /\ now \in Nat
        /\ pc'[j] = "idle"
        /\ \A i \in Jobs \ {j} : pc'[i] = pc[i] /\ prev'[i] = prev[i]
        /\ UNCHANGED <<message, msg>>
    BY <1>3 DEF CreateTriggerLog, TypeOK
  <2>2. new.snapshot = message /\ message \in Nat
    BY DEF PreviousInv, Jobs, TypeOK
  <2>3. \A r \in logs : r.at \in Nat /\ r.snapshot \in Nat
    BY DEF TypeOK, LogRows
  <2>4. \A r \in logs' : r.at < now' /\ r.snapshot <= message
    BY <2>1, <2>2, <2>3 DEF PreviousInv
  <2>5. \A r, q \in logs' : r.at <= q.at => r.snapshot <= q.snapshot
    BY <2>1, <2>2, <2>3 DEF PreviousInv
  <2>6. ASSUME NEW i \in Jobs, HasPrevious(i)',
               NEW r \in Relevant(i[1])', r.snapshot < msg'[i[2]]
        PROVE  prev'[i] >= r.snapshot
    <3>1. i # j /\ i[2] \in Lanes /\ HasPrevious(i)
      BY <1>0, <2>1, <2>6 DEF Jobs, HasPrevious
    <3>2. r # new
      BY <2>1, <2>2, <2>6, <3>1 DEF PreviousInv
    <3>3. r \in Relevant(i[1])
      BY <1>0, <2>1, <2>6, <3>2 DEF Relevant, LogsOf
    <3> QED
      BY <2>1, <2>6, <3>1, <3>3 DEF PreviousInv
  <2> QED
    BY <2>1, <2>4, <2>5, <2>6 DEF PreviousInv
<1>4. ASSUME NEW j \in Jobs,
             \/ HasVehiclePermissions(j) \/ CooldownPassed(j)
             \/ CooldownNotMet(j) \/ NotFired(j)
             \/ Fire(j) \/ Accepted(j) \/ Refused(j) \/ LogFails(j)
      PROVE  PreviousInv'
  BY <1>0, <1>4, PreviousFrame
  DEF HasVehiclePermissions, CooldownPassed, CooldownNotMet, NotFired, Fire, Accepted,
      Refused, LogFails, TypeOK, HasPrevious
<1>5. CASE Tick \/ Crash \/ UNCHANGED vars
  BY <1>0, <1>5, PreviousFrame DEF Tick, Crash, TypeOK, HasPrevious
<1> QED
  BY <1>1, <1>2, <1>3, <1>4, <1>5, <1>6 DEF Next, Step, Evaluate, Deliver

\* PreviousIsNotStale: when one goroutine at a time handles the vehicle's
\* messages, no condition is evaluated with a previous value older than an
\* earlier message already logged.
THEOREM PreviousKeepsUp ==
  ASSUME OneLane
  PROVE  Spec => []PreviousIsNotStale
<1>1. TypeOK /\ PreviousInv /\ [Next]_vars => PreviousInv'
  BY PreviousStep
<1>2. PreviousInv => PreviousIsNotStale
  BY DEF PreviousInv, HasPrevious, PreviousIsNotStale
<1> QED
  BY <1>1, <1>2, PreviousInit, DeliveryTypeCorrect, PTL DEF Spec
=============================================================================
