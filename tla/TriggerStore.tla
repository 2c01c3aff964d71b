---------------------------- MODULE TriggerStore ----------------------------
(***************************************************************************)
(* The two tables every part of the service shares, and the repository     *)
(* operations on them (internal/services/triggersrepo): the triggers (the  *)
(* code's name for webhooks) and the vehicle subscriptions.                *)
(*                                                                         *)
(* A trigger row keeps the two columns the circuit breaker lives on, its   *)
(* status and its failure count.  The developer's own columns (condition,  *)
(* target URI, cooldown, names) are not told apart by any property here.   *)
(* Postgres runs each statement atomically at READ COMMITTED.  Two         *)
(* transactions of the code have more than one statement, and hold a row   *)
(* between them: the increment of the failure count, by SELECT ... FOR     *)
(* UPDATE, and the deletion of a trigger, by the UPDATE it starts with.    *)
(* The variable lock says who; the deletion shows in status and subs when  *)
(* it commits.                                                             *)
(***************************************************************************)
EXTENDS Integers

CONSTANTS Triggers,         \* the ids a trigger may get; an id is used once
          Vehicles,         \* the asset DIDs
          Workers,          \* the transactions that increment a failure count
          Calls,            \* the API calls that may be in flight at once
          NoWorker,         \* "no one holds the lock"
          MaxFailureCount   \* MAX_WEBHOOK_FAILURE_COUNT

ASSUME MaxFailureCountAssumption == MaxFailureCount \in Nat \ {0}
ASSUME WorkersAssumption == NoWorker \notin Workers \cup Calls /\ Workers \cap Calls = {}

VARIABLES status,     \* triggers.status, "absent" before the row exists
          failures,   \* triggers.failure_count
          subs,       \* vehicle_subscriptions, as <<trigger, vehicle>>
          lock,       \* who holds the row lock of a trigger
          doomed      \* the subscriptions a deletion has yet to commit

\* History, for the properties.
VARIABLES early,      \* the subscriptions that were there when a deletion of
                      \* their live trigger began
          chosen,     \* the status the last registration or update gave,
          counted     \* and the failures counted since, up to the threshold

historyVars == <<early, chosen, counted>>
storeVars == <<status, failures, subs, lock, doomed, historyVars>>

\* What a developer may store, and what the service adds to it.
ChosenStatuses == {"enabled", "disabled"}
Statuses == ChosenStatuses \cup {"failed", "deleted", "absent"}

StoreTypeOK ==
  /\ status \in [Triggers -> Statuses]
  /\ failures \in [Triggers -> Nat]
  /\ subs \in SUBSET (Triggers \X Vehicles)
  /\ lock \in [Triggers -> Workers \cup Calls \cup {NoWorker}]
  /\ doomed \in SUBSET (Triggers \X Vehicles)
  /\ early \in SUBSET (Triggers \X Vehicles)
  /\ chosen \in [Triggers -> Statuses]
  /\ counted \in [Triggers -> 0..MaxFailureCount]

StoreInit ==
  /\ status = [t \in Triggers |-> "absent"]
  /\ failures = [t \in Triggers |-> 0]
  /\ subs = {}
  /\ lock = [t \in Triggers |-> NoWorker]
  /\ doomed = {}
  /\ early = {}
  /\ chosen = [t \in Triggers |-> "absent"]
  /\ counted = [t \in Triggers |-> 0]

-----------------------------------------------------------------------------
(* Reading                                                                 *)

\* The row is there and not soft-deleted: what every lookup asks for.
Live(t) == status[t] \notin {"absent", "deleted"}

\* A transaction of its own, over before the caller acts on what it read.
GetTriggerByIDAndDeveloperLicense(t) == Live(t)

Unlocked(t) == lock[t] = NoWorker

Subscribed(t) == \E v \in Vehicles : <<t, v>> \in subs

-----------------------------------------------------------------------------
(* Statements: the methods of the generated models, one each               *)

\* Trigger.Insert: the columns a request leaves at zero get their default.
InsertTrigger(t, s) ==
  /\ status[t] = "absent"
  /\ status' = [status EXCEPT ![t] = s]
  /\ failures' = [failures EXCEPT ![t] = 0]

\* Trigger.Update: UPDATE ... WHERE id = ...; nothing else is asked of the row.
SetTrigger(t, s, n) ==
  /\ status' = [status EXCEPT ![t] = s]
  /\ failures' = [failures EXCEPT ![t] = n]

\* VehicleSubscription.Insert.  The foreign key asks for a row, and a
\* soft-deleted row is one.  The check locks the row FOR KEY SHARE: it waits
\* for a FOR UPDATE lock, and not for a deletion, whose UPDATE changes no key.
\* The primary key asks that the vehicle is not subscribed.
InsertSubscription(t, v) ==
  /\ status[t] # "absent"
  /\ lock[t] \notin Workers
  /\ <<t, v>> \notin subs
  /\ subs' = subs \cup {<<t, v>>}

\* DeleteAll of a query on vehicle_subscriptions: no row is no error, and a
\* row another transaction has deleted is waited for.
DeleteSubscriptions(found) ==
  /\ found \cap doomed = {}
  /\ subs' = subs \ found
  /\ early' = early \ found

SubscriptionsOf(t) == {s \in subs : s[1] = t}

-----------------------------------------------------------------------------
(* Operations of the repository                                            *)

\* History: the developer has chosen status s for t.
Choose(t, s) ==
  /\ chosen' = [chosen EXCEPT ![t] = s]
  /\ counted' = [counted EXCEPT ![t] = 0]

CreateTrigger(t, s) ==
  /\ InsertTrigger(t, s)
  /\ Choose(t, s)
  /\ UNCHANGED <<subs, lock, doomed, early>>

\* The row is overwritten whatever it has become.
UpdateTrigger(t, s, n) ==
  /\ status[t] # "absent"
  /\ Unlocked(t)
  /\ SetTrigger(t, s, n)
  /\ Choose(t, s)
  /\ UNCHANGED <<subs, lock, doomed, early>>

\* The transaction of DeleteTrigger, by its statements: the soft deletion,
BeginDelete(c, t) ==
  /\ Unlocked(t)
  /\ lock' = [lock EXCEPT ![t] = c]
  /\ early' = IF Live(t) THEN early \cup SubscriptionsOf(t) ELSE early
  /\ UNCHANGED <<status, failures, subs, doomed, chosen, counted>>

\* Mutant: an error of the DELETE is passed over.
DeleteRelated_unchecked(t) ==
  /\ doomed' \in {doomed, doomed \cup SubscriptionsOf(t)}
  /\ UNCHANGED <<status, failures, subs, lock, historyVars>>

\* the deletion of the subscriptions there are now,
DeleteRelated(t) ==
  /\ doomed' = doomed \cup SubscriptionsOf(t)
  /\ UNCHANGED <<status, failures, subs, lock, historyVars>>

\* and the commit.
CommitDelete(t) ==
  /\ SetTrigger(t, "deleted", failures[t])
  /\ subs' = subs \ (doomed \cap SubscriptionsOf(t))
  /\ early' = early \ (doomed \cap SubscriptionsOf(t))
  /\ doomed' = doomed \ SubscriptionsOf(t)
  /\ lock' = [lock EXCEPT ![t] = NoWorker]
  /\ UNCHANGED <<chosen, counted>>

CreateVehicleSubscription(t, v) ==
  /\ InsertSubscription(t, v)
  /\ UNCHANGED <<status, failures, lock, doomed, historyVars>>

DeleteVehicleSubscription(t, v) ==
  /\ DeleteSubscriptions({<<t, v>>})
  /\ UNCHANGED <<status, failures, lock, doomed, chosen, counted>>

DeleteAllVehicleSubscriptionsForTrigger(t) ==
  /\ DeleteSubscriptions(SubscriptionsOf(t))
  /\ UNCHANGED <<status, failures, lock, doomed, chosen, counted>>

\* Mutant: the status is set without looking at the one it replaces.
ResetTriggerFailureCount_anyStatus(t) ==
  /\ failures[t] > 0 => Unlocked(t)
  /\ status' = IF failures[t] > 0
                 THEN [status EXCEPT ![t] = "enabled"] ELSE status
  /\ failures' = [failures EXCEPT ![t] = 0]
  /\ UNCHANGED <<subs, lock, doomed, historyVars>>

\* One conditional UPDATE; it touches, and waits for, only a row with
\* something to reset.
ResetTriggerFailureCount(t) ==
  /\ failures[t] > 0 => Unlocked(t)
  /\ status' = IF failures[t] > 0 /\ status[t] = "failed"
                 THEN [status EXCEPT ![t] = "enabled"] ELSE status
  /\ failures' = [failures EXCEPT ![t] = 0]
  /\ UNCHANGED <<subs, lock, doomed, historyVars>>

\* Mutant: a plain SELECT.
SelectForUpdate_noLock(w, t) ==
  /\ Live(t)
  /\ UNCHANGED storeVars

\* Mutant: the lookup forgets that a deleted row is not there.
SelectForUpdate_anyStatus(w, t) ==
  /\ Unlocked(t)
  /\ lock' = [lock EXCEPT ![t] = w]
  /\ UNCHANGED <<status, failures, subs, doomed, historyVars>>

\* SELECT ... FOR UPDATE of a live row: take its lock.
SelectForUpdate(w, t) ==
  /\ Live(t)
  /\ Unlocked(t)
  /\ lock' = [lock EXCEPT ![t] = w]
  /\ UNCHANGED <<status, failures, subs, doomed, historyVars>>

\* Mutant: one failure late.
StatusAfter_late(s, n) == IF n > MaxFailureCount THEN "failed" ELSE s

\* The status an incremented failure count leads to.
StatusAfter(s, n) == IF n >= MaxFailureCount THEN "failed" ELSE s

\* Write the row copied under the lock with one more failure, commit.
CommitIncrement(t, row) ==
  /\ SetTrigger(t, StatusAfter(row.status, row.failures + 1), row.failures + 1)
  /\ lock' = [lock EXCEPT ![t] = NoWorker]
  /\ counted' = [counted EXCEPT ![t] = IF @ < MaxFailureCount THEN @ + 1 ELSE @]
  /\ UNCHANGED <<subs, doomed, early, chosen>>

\* Mutant: the transaction is forgotten.
Rollback_forgotten(w) == UNCHANGED storeVars

\* RollbackTx: what the transaction holds is given back.
Rollback(w) ==
  /\ lock' = [t \in Triggers |-> IF lock[t] = w THEN NoWorker ELSE lock[t]]
  /\ doomed' = {s \in doomed : lock[s[1]] # w}
  /\ UNCHANGED <<status, failures, subs, historyVars>>
=============================================================================
