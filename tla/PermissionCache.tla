--------------------------- MODULE PermissionCache ---------------------------
(***************************************************************************)
(* The permission of a developer on a vehicle, as the two halves of the    *)
(* service see it: the listener asks through tokenexchange.Cache, which    *)
(* keeps an answer for a while, and deletes the subscription of a vehicle  *)
(* it is denied; the API asks the token exchange itself before it          *)
(* subscribes a vehicle.  The owner grants and revokes in the meantime.    *)
(*                                                                         *)
(* Time is a count of ticks since something happened, and counts stop at   *)
(* a cap, so nothing here runs out of time.  One developer and one list of *)
(* permissions: the key of the cache tells them apart, and every key has   *)
(* an entry of its own that goes through the same steps.                   *)
(***************************************************************************)
EXTENDS Integers

CONSTANTS Vehicles,
          Listeners,   \* goroutines that evaluate a webhook for a vehicle
          Calls,       \* API calls that subscribe a vehicle
          Expiration,  \* TOKEN_EXCHANGE_CACHE_EXPIRATION
          Latency      \* the most a step after an answer may take

ASSUME AgentsAssumption == Listeners \cap Calls = {}
ASSUME TimesAssumption == Expiration \in Nat /\ Latency \in Nat

VARIABLES granted,  \* what the token exchange would answer now
          since,    \* history: ticks since it would have answered b
          cache,    \* the cached answers and their age
          pc,       \* where a goroutine or a call stands
          vehicle,  \* the vehicle it is about
          answer,   \* the answer it has received
          age,      \* ticks since it has received it
          subs,     \* vehicle_subscriptions of the webhook
          webhooks  \* the vehicles the webhook cache shows for it

vars == <<granted, since, cache, pc, vehicle, answer, age, subs, webhooks>>

Agents == Listeners \cup Calls
ListenerPCs == {"idle", "check", "asking", "received", "decided"}
CallPCs == {"idle", "asking", "granted"}

\* How old the truth of an answer may be when the listener acts on it: it was
\* received, cached at once or Latency later, used until it expires, and the
\* act takes Latency at most.
MaxAge == Expiration + 2 * Latency
Ages == 0 .. MaxAge + 1
Older(n) == IF n > MaxAge THEN n ELSE n + 1

NotCached == [has |-> FALSE, age |-> Expiration + 1]
Entries == [has : BOOLEAN, age : 0 .. Expiration + 1]

\* An entry is found until it is older than the expiration.
Found(v) == cache[v].age <= Expiration

\* A call is never at "check": the handlers are given the client and not the
\* cache, which is a choice of two arguments of one type.
TypeOK ==
  /\ granted \in [Vehicles -> BOOLEAN]
  /\ since \in [Vehicles -> [BOOLEAN -> Ages]]
  /\ cache \in [Vehicles -> Entries]
  /\ pc \in [Agents -> ListenerPCs \cup CallPCs]
  /\ \A c \in Calls : pc[c] \in CallPCs
  /\ vehicle \in [Agents -> Vehicles]
  /\ answer \in [Agents -> BOOLEAN]
  /\ age \in [Agents -> 0 .. Latency]
  /\ subs \in SUBSET Vehicles
  /\ webhooks \in SUBSET Vehicles

Init ==
  /\ granted \in [Vehicles -> BOOLEAN]
  /\ since = [v \in Vehicles |-> [b \in BOOLEAN |-> IF b = granted[v] THEN 0 ELSE MaxAge + 1]]
  /\ cache = [v \in Vehicles |-> NotCached]
  /\ pc = [a \in Agents |-> "idle"]
  /\ vehicle \in [Agents -> Vehicles]
  /\ answer = [a \in Agents |-> FALSE]
  /\ age = [a \in Agents |-> 0]
  /\ subs \in SUBSET Vehicles
  /\ webhooks = subs

-----------------------------------------------------------------------------
(* The owner of the vehicle, and time                                      *)

\* The permission is granted or revoked.
ChangePermission(v) ==
  /\ granted' = [granted EXCEPT ![v] = ~@]
  /\ since' = [since EXCEPT ![v] = [b \in BOOLEAN |-> IF b = granted'[v] THEN 0 ELSE @[b]]]
  /\ UNCHANGED <<cache, pc, vehicle, answer, age, subs, webhooks>>

\* Holding an answer: it has been received and not been acted on.
Holding(a) == pc[a] \in {"received", "decided", "granted"}

Tick ==
  /\ \A a \in Agents : Holding(a) => age[a] < Latency
  /\ since' = [v \in Vehicles |->
                 [b \in BOOLEAN |-> IF b = granted[v] THEN 0 ELSE Older(since[v][b])]]
  /\ cache' = [v \in Vehicles |->
                 IF cache[v].age < Expiration THEN [cache[v] EXCEPT !.age = @ + 1]
                 ELSE NotCached]
  /\ age' = [a \in Agents |-> IF Holding(a) THEN age[a] + 1 ELSE age[a]]
  /\ UNCHANGED <<granted, pc, vehicle, answer, subs, webhooks>>

-----------------------------------------------------------------------------
(* tokenexchange.Cache and tokenexchange.Client                            *)

Goto(a, from, to) ==
  /\ pc[a] = from
  /\ pc' = [pc EXCEPT ![a] = to]

\* The goroutine or the call is over, and its local variables are gone.
Done(a, from) ==
  /\ Goto(a, from, "idle")
  /\ answer' = [answer EXCEPT ![a] = FALSE]
  /\ age' = [age EXCEPT ![a] = 0]

Receive(a, b) ==
  /\ answer' = [answer EXCEPT ![a] = b]
  /\ age' = [age EXCEPT ![a] = 0]

\* Mutant: a hit renews the entry.
CacheHit_renews(l) ==
  /\ Goto(l, "check", "decided")
  /\ Found(vehicle[l])
  /\ Receive(l, cache[vehicle[l]].has)
  /\ cache' = [cache EXCEPT ![vehicle[l]].age = 0]
  /\ UNCHANGED <<granted, since, vehicle, subs, webhooks>>

CacheHit(l) ==
  /\ Goto(l, "check", "decided")
  /\ Found(vehicle[l])
  /\ Receive(l, cache[vehicle[l]].has)
  /\ UNCHANGED <<granted, since, cache, vehicle, subs, webhooks>>

CacheMiss(l) ==
  /\ Goto(l, "check", "asking")
  /\ ~Found(vehicle[l])
  /\ UNCHANGED <<granted, since, cache, vehicle, answer, age, subs, webhooks>>

\* The token exchange answers: access, or 403.
AccessCheck(a, from, to) ==
  /\ Goto(a, from, to)
  /\ Receive(a, granted[vehicle[a]])
  /\ UNCHANGED <<granted, since, cache, vehicle, subs, webhooks>>

\* The call fails, or its answer is an error other than 403: it is returned,
\* and nothing is cached.
AccessCheckFails(a) ==
  /\ Done(a, "asking")
  /\ UNCHANGED <<granted, since, cache, vehicle, subs, webhooks>>

\* The answer is cached, whatever another goroutine has cached since it was
\* given, and returned.
CacheSet(l) ==
  /\ Goto(l, "received", "decided")
  /\ age' = [age EXCEPT ![l] = 0]
  /\ cache' = [cache EXCEPT ![vehicle[l]] = [has |-> answer[l], age |-> 0]]
  /\ UNCHANGED <<granted, since, vehicle, answer, subs, webhooks>>

-----------------------------------------------------------------------------
(* The listener                                                            *)

\* A message of a vehicle the webhook cache shows as subscribed.
Evaluate(l, v) ==
  /\ Goto(l, "idle", "check")
  /\ v \in webhooks
  /\ vehicle' = [vehicle EXCEPT ![l] = v]
  /\ UNCHANGED <<granted, since, cache, answer, age, subs, webhooks>>

\* The evaluation goes on, and the target may be called.
Permitted(l) ==
  /\ Done(l, "decided")
  /\ answer[l]
  /\ UNCHANGED <<granted, since, cache, vehicle, subs, webhooks>>

\* Mutant: the vehicle keeps its subscription.
PermissionDenied_keeps(l) ==
  /\ Done(l, "decided")
  /\ ~answer[l]
  /\ UNCHANGED <<granted, since, cache, vehicle, subs, webhooks>>

\* DeleteVehicleSubscription; it may fail, and nothing is tried again.
PermissionDenied(l) ==
  /\ Done(l, "decided")
  /\ ~answer[l]
  /\ subs' \in {subs, subs \ {vehicle[l]}}
  /\ UNCHANGED <<granted, since, cache, vehicle, webhooks>>

\* The refresh of the webhook cache, from ScheduleRefresh or the ticker.
Refresh ==
  /\ webhooks' = subs
  /\ UNCHANGED <<granted, since, cache, pc, vehicle, answer, age, subs>>

-----------------------------------------------------------------------------
(* The API                                                                 *)

\* Mutant: the handlers are given the cache.
AssignVehicle_cached(c, v) ==
  /\ Goto(c, "idle", "check")
  /\ vehicle' = [vehicle EXCEPT ![c] = v]
  /\ UNCHANGED <<granted, since, cache, answer, age, subs, webhooks>>

\* A handler is about to ask for the permission on v.
AssignVehicle(c, v) ==
  /\ Goto(c, "idle", "asking")
  /\ vehicle' = [vehicle EXCEPT ![c] = v]
  /\ UNCHANGED <<granted, since, cache, answer, age, subs, webhooks>>

\* Mutant: the error is written, and the handler goes on.
AssignDenied_continues(c) ==
  /\ Done(c, "granted")
  /\ ~answer[c]
  /\ subs' = subs \cup {vehicle[c]}
  /\ UNCHANGED <<granted, since, cache, vehicle, webhooks>>

\* Insufficient permissions: the handler returns an error.
AssignDenied(c) ==
  /\ Done(c, "granted")
  /\ ~answer[c]
  /\ UNCHANGED <<granted, since, cache, vehicle, subs, webhooks>>

\* CreateVehicleSubscription; a vehicle already subscribed stays so, and the
\* insert may fail, which ends the call all the same.
CreateVehicleSubscription(c) ==
  /\ Done(c, "granted")
  /\ answer[c]
  /\ subs' \in {subs, subs \cup {vehicle[c]}}
  /\ UNCHANGED <<granted, since, cache, vehicle, webhooks>>

\* The developer unsubscribes a vehicle; no permission is asked for.
RemoveVehicle(v) ==
  /\ subs' = subs \ {v}
  /\ UNCHANGED <<granted, since, cache, pc, vehicle, answer, age, webhooks>>

\* The process ends and starts again: goroutines, calls and the permission
\* cache are gone, the webhook cache is built anew.
Restart ==
  /\ pc' = [a \in Agents |-> "idle"]
  /\ answer' = [a \in Agents |-> FALSE]
  /\ age' = [a \in Agents |-> 0]
  /\ cache' = [v \in Vehicles |-> NotCached]
  /\ webhooks' = subs
  /\ UNCHANGED <<granted, since, vehicle, subs>>

-----------------------------------------------------------------------------

HasVehiclePermissions(l) ==
  \/ CacheHit(l)
  \/ CacheMiss(l)
  \/ AccessCheck(l, "asking", "received")
  \/ AccessCheckFails(l)
  \/ CacheSet(l)

Decide(l) == Permitted(l) \/ PermissionDenied(l)

Assign(c) ==
  \/ AccessCheck(c, "asking", "granted")
  \/ AccessCheckFails(c)
  \/ AssignDenied(c)
  \/ CreateVehicleSubscription(c)

Next ==
  \/ \E v \in Vehicles : ChangePermission(v) \/ RemoveVehicle(v)
  \/ Tick
  \/ \E l \in Listeners :
       HasVehiclePermissions(l) \/ Decide(l) \/ \E v \in Vehicles : Evaluate(l, v)
  \/ \E c \in Calls : Assign(c) \/ \E v \in Vehicles : AssignVehicle(c, v)
  \/ Refresh
  \/ Restart

Spec == Init /\ [][Next]_vars

\* Time passes, no goroutine or call keeps an answer for ever, and the ticker
\* refreshes (weak fairness).  The vehicle keeps reporting, the token exchange
\* and the database work now and then, and the process is not restarted at
\* the same step for ever (strong fairness).
Fairness ==
  /\ WF_vars(Tick) /\ WF_vars(Refresh)
  /\ \A l \in Listeners : WF_vars(CacheSet(l) \/ Decide(l))
  /\ \A c \in Calls : WF_vars(AssignDenied(c) \/ CreateVehicleSubscription(c))
  /\ \A v \in Vehicles : SF_vars(\E l \in Listeners : Evaluate(l, v))
  /\ SF_vars(\E l \in Listeners : CacheHit(l) \/ CacheMiss(l))
  /\ SF_vars(\E l \in Listeners : AccessCheck(l, "asking", "received"))
  /\ SF_vars(\E l \in Listeners : CacheSet(l))
  /\ SF_vars(\E l \in Listeners : PermissionDenied(l) /\ vehicle[l] \notin subs')

FairSpec == Spec /\ Fairness

-----------------------------------------------------------------------------
(* Properties                                                              *)

\* What the token exchange would have answered within the last n ticks.
WasTrue(v, b, n) == since[v][b] <= n

\* However the answers of two goroutines overtake each other in the cache, a
\* target is called, and a vehicle unsubscribed, only on an answer that was
\* the truth at most MaxAge ago; a subscription is made on one that was the
\* truth at most Latency ago (HasVehiclePermissions, cached and not).
ActsOnRecentAnswer ==
  [][/\ \A l \in Listeners :
          Permitted(l) \/ PermissionDenied(l) => WasTrue(vehicle[l], answer[l], MaxAge)
     /\ \A c \in Calls :
          CreateVehicleSubscription(c) => WasTrue(vehicle[c], TRUE, Latency)]_vars

\* Once the owner's decision has settled the subscriptions follow it: a vehicle
\* revoked for longer than Latency is not subscribed by a call that asked
\* before, and one granted for longer than MaxAge is unsubscribed by its
\* developer alone, not by a goroutine that still holds or finds a denial.
SettledDecisionHolds ==
  [][\A v \in Vehicles :
       /\ ~WasTrue(v, TRUE, Latency) /\ v \notin subs => v \notin subs'
       /\ ~WasTrue(v, FALSE, MaxAge) /\ v \in subs /\ v \notin subs' => RemoveVehicle(v)]_vars

\* A vehicle whose permission is gone for good is unsubscribed, and stays so,
\* though the listener sees the change through the cache only and a failed
\* delete is not tried again (processSignalWebhook, PermissionDenied).
RevokedIsUnsubscribed ==
  \A v \in Vehicles : <>[](~granted[v]) => <>[](v \notin subs)
=============================================================================
