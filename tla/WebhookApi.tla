----------------------------- MODULE WebhookApi -----------------------------
(***************************************************************************)
(* The HTTP handlers that change the store (internal/controllers/webhook). *)
(* A handler looks the webhook up, outside any transaction that lasts, and *)
(* acts on it later: a call of Calls is between those steps while its      *)
(* pc is not "idle".  Each handler starts with the lookup of a live        *)
(* webhook of the caller, its owner; a lookup that fails, or another       *)
(* developer's call, changes nothing and is not a step.                    *)
(***************************************************************************)
EXTENDS TriggerStore

VARIABLES pc,        \* where the handler stands
          target,    \* the webhook the call is about
          seen,      \* the status an update read with the row
          todo,      \* the vehicles of a list not handled yet
          failed,    \* some vehicle of the list failed
          pending    \* the scheduled cache refresh, by the context it has

callVars == <<pc, target, seen, todo, failed>>

PCs == {"idle", "update", "delete", "softDelete", "deleteSubs", "deleteCommit",
        "permission", "subscribe", "unsubscribe", "unsubscribeAll"}

\* A deletion between its first statement and its end.
Deleting == {"deleteSubs", "deleteCommit"}

\* The context a refresh goroutine was given lasts (an API request's, the
\* ticker's) or may pass before it is needed (that of a message's errgroup).
Contexts == {"lasting", "passing"}

ApiTypeOK ==
  /\ pc \in [Calls -> PCs]
  /\ target \in [Calls -> Triggers]
  /\ seen \in [Calls -> Statuses]
  /\ todo \in [Calls -> SUBSET Vehicles]
  /\ failed \in [Calls -> BOOLEAN]
  /\ pending \in Contexts \cup {"none"}

ApiInit ==
  /\ pc = [c \in Calls |-> "idle"]
  /\ target \in [Calls -> Triggers]
  /\ seen = [c \in Calls |-> "absent"]
  /\ todo = [c \in Calls |-> {}]
  /\ failed = [c \in Calls |-> FALSE]
  /\ pending = "none"

Goto(c, label) == pc' = [pc EXCEPT ![c] = label]

\* The handler returns; its local variables are gone.
Return(c) ==
  /\ Goto(c, "idle")
  /\ seen' = [seen EXCEPT ![c] = "absent"]
  /\ todo' = [todo EXCEPT ![c] = {}]
  /\ failed' = [failed EXCEPT ![c] = FALSE]
  /\ UNCHANGED target

\* A nudge while a refresh is scheduled is dropped, and with it its context.
ScheduleRefresh(ctx) == pending' = IF pending = "none" THEN ctx ELSE pending

\* ownerCheck, and the lookup UpdateWebhook does itself: a live webhook is
\* found and the handler goes on to label with the vehicles vs to handle.
OwnerCheck(c, t, label, vs) ==
  /\ pc[c] = "idle"
  /\ GetTriggerByIDAndDeveloperLicense(t)
  /\ Goto(c, label)
  /\ target' = [target EXCEPT ![c] = t]
  /\ todo' = [todo EXCEPT ![c] = vs]
  /\ UNCHANGED <<failed, storeVars, pending>>

-----------------------------------------------------------------------------
(* Webhooks                                                                *)

\* RegisterWebhook: one INSERT, and no ScheduleRefresh.
RegisterWebhook(t, s) ==
  /\ s \in ChosenStatuses
  /\ CreateTrigger(t, s)
  /\ UNCHANGED <<callVars, pending>>

UpdateRead(c, t) ==
  /\ OwnerCheck(c, t, "update", {})
  /\ seen' = [seen EXCEPT ![c] = status[t]]

\* Mutant: a payload without a status overwrites it.
UpdateWrite_rawPayload(c, payload) ==
  /\ pc[c] = "update"
  /\ payload \in ChosenStatuses \cup {"none"}
  /\ UpdateTrigger(target[c], payload, 0)
  /\ Return(c)
  /\ ScheduleRefresh("lasting")

\* The payload's status when it has one, else the status read with the row;
\* the failure count is always written as 0.
UpdateWrite(c, payload) ==
  /\ pc[c] = "update"
  /\ payload \in ChosenStatuses \cup {"none"}
  /\ UpdateTrigger(target[c], IF payload = "none" THEN seen[c] ELSE payload, 0)
  /\ Return(c)
  /\ ScheduleRefresh("lasting")

DeleteCheck(c, t) ==
  /\ OwnerCheck(c, t, "delete", {})
  /\ UNCHANGED seen

\* DeleteTrigger reads the row again before it opens its transaction.
DeleteRead(c) ==
  /\ pc[c] = "delete"
  /\ Live(target[c])
  /\ Goto(c, "softDelete")
  /\ UNCHANGED <<target, seen, todo, failed, storeVars, pending>>

SoftDelete(c) ==
  /\ pc[c] = "softDelete"
  /\ BeginDelete(c, target[c])
  /\ Goto(c, "deleteSubs")
  /\ UNCHANGED <<target, seen, todo, failed, pending>>

DeleteSubs(c) ==
  /\ pc[c] = "deleteSubs"
  /\ DeleteRelated(target[c])
  /\ Goto(c, "deleteCommit")
  /\ UNCHANGED <<target, seen, todo, failed, pending>>

DeleteCommit(c) ==
  /\ pc[c] = "deleteCommit"
  /\ CommitDelete(target[c])
  /\ Return(c)
  /\ ScheduleRefresh("lasting")

-----------------------------------------------------------------------------
(* Subscriptions                                                           *)

\* The handler checks the permission on all vehicles before it inserts the
\* first.
SubscribeCheck(c, t, vs) ==
  /\ OwnerCheck(c, t, "permission", vs)
  /\ UNCHANGED seen

AssignVehicle(c, t, v) == SubscribeCheck(c, t, {v})

\* Whatever list the request holds.
SubscribeList(c, t) == \E vs \in SUBSET Vehicles : SubscribeCheck(c, t, vs)

\* The identity API answers with the vehicles shared with the developer, the
\* first hundred of them; whose they are is the owners' business.  An answer
\* that is an error, or names a vehicle of another contract, ends the call.
GetSharedVehicles == SUBSET Vehicles

SubscribeAll(c, t) == \E vs \in GetSharedVehicles : SubscribeCheck(c, t, vs)

PermissionsGranted(c) ==
  /\ pc[c] = "permission"
  /\ Goto(c, "subscribe")
  /\ UNCHANGED <<target, seen, todo, failed, storeVars, pending>>

Subscribe(c, v) ==
  /\ pc[c] = "subscribe"
  /\ v \in todo[c]
  /\ CreateVehicleSubscription(target[c], v)
  /\ todo' = [todo EXCEPT ![c] = @ \ {v}]
  /\ UNCHANGED <<pc, target, seen, failed, pending>>

UnsubscribeCheck(c, t, vs) ==
  /\ OwnerCheck(c, t, "unsubscribe", vs)
  /\ UNCHANGED seen

RemoveVehicle(c, t, v) == UnsubscribeCheck(c, t, {v})

UnsubscribeList(c, t) == \E vs \in SUBSET Vehicles : UnsubscribeCheck(c, t, vs)

Unsubscribe(c, v) ==
  /\ pc[c] = "unsubscribe"
  /\ v \in todo[c]
  /\ DeleteVehicleSubscription(target[c], v)
  /\ todo' = [todo EXCEPT ![c] = @ \ {v}]
  /\ UNCHANGED <<pc, target, seen, failed, pending>>

\* "Already subscribed", or a database error: noted, and the loop goes on.
VehicleFails(c, v) ==
  /\ pc[c] \in {"subscribe", "unsubscribe"}
  /\ v \in todo[c]
  /\ todo' = [todo EXCEPT ![c] = @ \ {v}]
  /\ failed' = [failed EXCEPT ![c] = TRUE]
  /\ UNCHANGED <<pc, target, seen, storeVars, pending>>

\* The cache hears of the list only when no vehicle of it failed.
ListDone(c) ==
  /\ pc[c] \in {"subscribe", "unsubscribe"}
  /\ todo[c] = {}
  /\ Return(c)
  /\ IF failed[c] THEN UNCHANGED pending ELSE ScheduleRefresh("lasting")
  /\ UNCHANGED storeVars

UnsubscribeAllCheck(c, t) ==
  /\ OwnerCheck(c, t, "unsubscribeAll", {})
  /\ UNCHANGED seen

UnsubscribeAll(c) ==
  /\ pc[c] = "unsubscribeAll"
  /\ DeleteAllVehicleSubscriptionsForTrigger(target[c])
  /\ Return(c)
  /\ ScheduleRefresh("lasting")

\* An early return: the payload or the vehicles' permissions are refused, the
\* row is gone, the display name is taken, or the database fails the write.
ReturnError(c) ==
  /\ pc[c] \in {"update", "delete", "softDelete", "permission", "unsubscribeAll"}
               \cup Deleting
  /\ Rollback(c)
  /\ Return(c)
  /\ UNCHANGED pending

-----------------------------------------------------------------------------

ApiFinish(c) ==
  \/ \E payload \in ChosenStatuses \cup {"none"} : UpdateWrite(c, payload)
  \/ DeleteRead(c) \/ SoftDelete(c) \/ DeleteSubs(c) \/ DeleteCommit(c)
  \/ PermissionsGranted(c)
  \/ \E v \in Vehicles : Subscribe(c, v) \/ Unsubscribe(c, v) \/ VehicleFails(c, v)
  \/ ListDone(c)
  \/ UnsubscribeAll(c)
  \/ ReturnError(c)

ApiStart(c, t) ==
  \/ UpdateRead(c, t)
  \/ DeleteCheck(c, t)
  \/ SubscribeList(c, t) \/ SubscribeAll(c, t)
  \/ UnsubscribeList(c, t) \/ UnsubscribeAllCheck(c, t)
  \/ \E v \in Vehicles : AssignVehicle(c, t, v) \/ RemoveVehicle(c, t, v)

ApiNext ==
  \/ \E t \in Triggers, s \in ChosenStatuses : RegisterWebhook(t, s)
  \/ \E c \in Calls : ApiFinish(c) \/ \E t \in Triggers : ApiStart(c, t)
=============================================================================
