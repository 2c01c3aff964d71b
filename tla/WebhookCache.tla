---------------------------- MODULE WebhookCache ----------------------------
(***************************************************************************)
(* The listener's in-memory copy of the enabled, subscribed webhooks       *)
(* (internal/services/webhookcache) and how it follows the store.          *)
(*                                                                         *)
(* ScheduleRefresh starts a goroutine, unless one is scheduled already;    *)
(* the goroutine sleeps the debounce time, gives up the schedule flag and  *)
(* rebuilds the cache with the context of whoever scheduled it.  A rebuild *)
(* reads the subscriptions first and each trigger on its own afterwards,   *)
(* so it interleaves with writes and with other rebuilds.                  *)
(*                                                                         *)
(* A context is "live" for the life of the process (API calls, ticker),    *)
(* or it is a message's, "group", and "cancelled" once the message's       *)
(* errgroup has returned from Wait.                                        *)
(***************************************************************************)
EXTENDS Integers, FiniteSets

CONSTANTS Triggers,
          Vehicles,
          Enabled,       \* the enabled rows a trigger may have: its configurations
          Off,           \* a row that is disabled or failed
          Gone,          \* no row, or a soft-deleted one
          Refreshers,    \* bound: the refresh goroutines alive at once
          Denied,        \* vehicles whose permission the listener finds missing
          MaxWrites,     \* bound: changes made to the store
          MaxFaults      \* bound: database errors met by rebuilds

ASSUME RowsAssumption == Off \notin Enabled /\ Gone \notin Enabled /\ Off # Gone
ASSUME BoundsAssumption == MaxWrites \in Nat /\ MaxFaults \in Nat

VARIABLES row,        \* the store: each trigger's row,
          subs,       \* and who is subscribed to what
          cache,      \* WebhookCache.webhooks, as <<trigger, vehicle, row>>
          schedule,   \* WebhookCache.schedule
          rpc,        \* where each refresh goroutine stands
          ctx,        \* its context
          loaded,     \* the subscriptions it read
          todo,       \* the triggers it has not fetched yet
          fetched,    \* the triggers it fetched, as <<trigger, row>>
          writes,     \* counts towards MaxWrites
          faults,     \* counts towards MaxFaults
          unread,     \* history: a nudge came and no rebuild has started since
          outdated    \* history: the rebuilds overtaken by a change of the store

storeVars == <<row, subs>>
buildVars == <<loaded, todo, fetched>>
vars == <<storeVars, cache, schedule, rpc, ctx, buildVars, writes, faults, unread, outdated>>

Rows == Enabled \cup {Off, Gone}
Pairs == Triggers \X Vehicles
Contexts == {"live", "group", "cancelled"}
RPCs == {"none", "sleeping", "clearing", "populate", "fetching"}

TypeOK ==
  /\ row \in [Triggers -> Rows]
  /\ subs \in SUBSET Pairs
  /\ cache \in SUBSET (Triggers \X Vehicles \X Enabled)
  /\ schedule \in BOOLEAN
  /\ rpc \in [Refreshers -> RPCs]
  /\ ctx \in [Refreshers -> Contexts]
  /\ loaded \in [Refreshers -> SUBSET Pairs]
  /\ todo \in [Refreshers -> SUBSET Triggers]
  /\ fetched \in [Refreshers -> SUBSET (Triggers \X Rows)]
  /\ writes \in Nat
  /\ faults \in Nat
  /\ unread \in BOOLEAN
  /\ outdated \in SUBSET Refreshers

\* Mutant: rows that are not enabled are kept.
Built_anyStatus(pairs, rows) ==
  {e \in Triggers \X Vehicles \X Rows : <<e[1], e[2]>> \in pairs /\ <<e[1], e[3]>> \in rows}

\* The map fetchVehicleWebhooks builds from subscriptions and fetched rows.
Built(pairs, rows) ==
  {e \in Triggers \X Vehicles \X Enabled : <<e[1], e[2]>> \in pairs /\ <<e[1], e[3]>> \in rows}

\* The map a rebuild would install if nothing else happened.
View == Built(subs, {<<t, row[t]>> : t \in Triggers})

\* startWebhookCache populates the cache before anything is served.
Init ==
  /\ row \in [Triggers -> Rows]
  /\ subs \in SUBSET {s \in Pairs : row[s[1]] # Gone}
  /\ cache = View
  /\ schedule = FALSE
  /\ rpc = [r \in Refreshers |-> "none"]
  /\ ctx = [r \in Refreshers |-> "live"]
  /\ loaded = [r \in Refreshers |-> {}]
  /\ todo = [r \in Refreshers |-> {}]
  /\ fetched = [r \in Refreshers |-> {}]
  /\ writes = 0
  /\ faults = 0
  /\ unread = FALSE
  /\ outdated = {}

-----------------------------------------------------------------------------
(* Nudging                                                                 *)

\* Mutant: the flag is set without being compared.
ScheduleRefresh_noCompare(c) ==
  /\ schedule' = TRUE
  /\ \E r \in Refreshers :
       /\ rpc[r] = "none"
       /\ rpc' = [rpc EXCEPT ![r] = "sleeping"]
       /\ ctx' = [ctx EXCEPT ![r] = c]

\* CompareAndSwap(false, true): the first caller's context is the one used.
ScheduleRefresh(c) ==
  \/ schedule /\ UNCHANGED <<schedule, rpc, ctx>>
  \/ /\ ~schedule
     /\ schedule' = TRUE
     /\ \E r \in Refreshers :
          /\ rpc[r] = "none"
          /\ rpc' = [rpc EXCEPT ![r] = "sleeping"]
          /\ ctx' = [ctx EXCEPT ![r] = c]

\* The rebuilds that have read part of the store no longer show all of it.
StoreChanged ==
  outdated' = {r \in Refreshers : rpc[r] = "fetching"}

\* A change of the store: a row, or a subscription to a row that exists.
Change ==
  /\ writes < MaxWrites
  /\ writes' = writes + 1
  /\ \/ \E t \in Triggers, new \in Rows :
          /\ row[t] # new
          /\ row' = [row EXCEPT ![t] = new]
          /\ subs' = IF new = Gone THEN {s \in subs : s[1] # t} ELSE subs
     \/ \E s \in Pairs :
          /\ row[s[1]] # Gone
          /\ subs' = IF s \in subs THEN subs \ {s} ELSE subs \cup {s}
          /\ UNCHANGED row
  /\ StoreChanged
  /\ UNCHANGED <<cache, buildVars, faults>>

\* A handler of this process writes and then nudges the cache.
ApiWrite ==
  /\ Change
  /\ ScheduleRefresh("live")
  /\ unread' = TRUE

\* Nobody nudges this cache: the other replica's API, a delivery report, or
\* a list call some vehicle of which failed.
SilentWrite ==
  /\ Change
  /\ UNCHANGED <<schedule, rpc, ctx, unread>>

\* The five-minute ticker.
Tick ==
  /\ ScheduleRefresh("live")
  /\ unread' = TRUE
  /\ UNCHANGED <<storeVars, cache, buildVars, writes, faults, outdated>>

\* A cached webhook's vehicle has lost the permission: the listener deletes
\* the subscription and nudges with the context of the message's group.
Deny(s) ==
  /\ s[2] \in Denied
  /\ \E e \in cache : <<e[1], e[2]>> = s
  /\ subs' = subs \ {s}
  /\ ScheduleRefresh("group")
  /\ unread' = TRUE
  /\ IF s \in subs THEN StoreChanged ELSE UNCHANGED outdated
  /\ UNCHANGED <<row, cache, buildVars, writes, faults>>

\* errgroup.Wait returns when the message's webhooks are handled.
GroupEnds(r) ==
  /\ ctx[r] = "group"
  /\ ctx' = [ctx EXCEPT ![r] = "cancelled"]
  /\ UNCHANGED <<storeVars, cache, schedule, rpc, buildVars, writes, faults, unread, outdated>>

-----------------------------------------------------------------------------
(* Refreshing                                                              *)

Step(r, from, to) ==
  /\ rpc[r] = from
  /\ rpc' = [rpc EXCEPT ![r] = to]

Leave(r) ==
  /\ ctx' = [ctx EXCEPT ![r] = "live"]
  /\ loaded' = [loaded EXCEPT ![r] = {}]
  /\ todo' = [todo EXCEPT ![r] = {}]
  /\ fetched' = [fetched EXCEPT ![r] = {}]
  /\ outdated' = outdated \ {r}

\* The debounce time is over and a refresh is still wanted.  It always is
\* (ScheduleHasOneOwner), so the other branch of the test is not modelled.
WakeUp(r) ==
  /\ Step(r, "sleeping", "clearing")
  /\ schedule
  /\ UNCHANGED <<storeVars, cache, schedule, ctx, buildVars, writes, faults, unread, outdated>>

\* Mutant: the flag stays set.
ClearSchedule_forgotten(r) ==
  /\ Step(r, "clearing", "populate")
  /\ UNCHANGED <<storeVars, cache, schedule, ctx, buildVars, writes, faults, unread, outdated>>

ClearSchedule(r) ==
  /\ Step(r, "clearing", "populate")
  /\ schedule' = FALSE
  /\ UNCHANGED <<storeVars, cache, ctx, buildVars, writes, faults, unread, outdated>>

\* InternalGetAllVehicleSubscriptions, of the triggers not deleted.
LoadSubscriptions(r) ==
  /\ Step(r, "populate", "fetching")
  /\ ctx[r] # "cancelled"
  /\ loaded' = [loaded EXCEPT ![r] = {s \in subs : row[s[1]] # Gone}]
  /\ todo' = [todo EXCEPT ![r] = {s[1] : s \in loaded'[r]}]
  /\ unread' = FALSE
  /\ UNCHANGED <<storeVars, cache, schedule, ctx, fetched, writes, faults, outdated>>

DatabaseFails ==
  /\ faults < MaxFaults
  /\ faults' = faults + 1

\* The rebuild fails as a whole: the error is logged, the cache stays.
LoadFails(r) ==
  /\ Step(r, "populate", "none")
  /\ \/ ctx[r] = "cancelled" /\ UNCHANGED faults
     \/ DatabaseFails
  /\ Leave(r)
  /\ unread' = FALSE
  /\ UNCHANGED <<storeVars, cache, schedule, writes>>

\* Mutant: the worker returns after its first trigger.
FetchTrigger_returns(r, t) ==
  /\ t \in todo[r]
  /\ ctx[r] # "cancelled"
  /\ row[t] # Gone
  /\ todo' = [todo EXCEPT ![r] = {}]
  /\ fetched' = [fetched EXCEPT ![r] = @ \cup {<<t, row[t]>>}]
  /\ UNCHANGED <<storeVars, cache, schedule, rpc, ctx, loaded, writes, faults, unread, outdated>>

\* compileTriggersParallel: InternalGetTriggerByID.
FetchTrigger(r, t) ==
  /\ t \in todo[r]
  /\ ctx[r] # "cancelled"
  /\ row[t] # Gone
  /\ todo' = [todo EXCEPT ![r] = @ \ {t}]
  /\ fetched' = [fetched EXCEPT ![r] = @ \cup {<<t, row[t]>>}]
  /\ UNCHANGED <<storeVars, cache, schedule, rpc, ctx, loaded, writes, faults, unread, outdated>>

\* A trigger that cannot be fetched is logged and skipped.
SkipTrigger(r, t) ==
  /\ t \in todo[r]
  /\ \/ (ctx[r] = "cancelled" \/ row[t] = Gone) /\ UNCHANGED faults
     \/ DatabaseFails
  /\ todo' = [todo EXCEPT ![r] = @ \ {t}]
  /\ UNCHANGED <<storeVars, cache, schedule, rpc, ctx, loaded, fetched, writes, unread, outdated>>

\* Mutant: the new map is merged into the old one.
Install_merges(r) ==
  /\ Step(r, "fetching", "none")
  /\ todo[r] = {}
  /\ cache' = cache \cup Built(loaded[r], fetched[r])
  /\ Leave(r)
  /\ UNCHANGED <<storeVars, schedule, writes, faults, unread>>

\* Update replaces the map, by an empty one when nothing was built.
Install(r) ==
  /\ Step(r, "fetching", "none")
  /\ todo[r] = {}
  /\ cache' = Built(loaded[r], fetched[r])
  /\ Leave(r)
  /\ UNCHANGED <<storeVars, schedule, writes, faults, unread>>

-----------------------------------------------------------------------------

Refresh(r) ==
  \/ WakeUp(r) \/ ClearSchedule(r)
  \/ LoadSubscriptions(r) \/ LoadFails(r)
  \/ \E t \in Triggers : FetchTrigger(r, t) \/ SkipTrigger(r, t)
  \/ Install(r)

Next ==
  \/ ApiWrite \/ SilentWrite \/ Tick
  \/ \E s \in Pairs : Deny(s)
  \/ \E r \in Refreshers : GroupEnds(r) \/ Refresh(r)

Spec == Init /\ [][Next]_vars

\* Goroutines run, groups end (a delivery has a timeout), and the ticker
\* ticks; nothing says a tick falls where no refresh is scheduled (no SF).
Fairness ==
  /\ WF_vars(Tick)
  /\ \A r \in Refreshers : WF_vars(Refresh(r)) /\ WF_vars(GroupEnds(r))

FairSpec == Spec /\ Fairness

-----------------------------------------------------------------------------
(* Properties                                                              *)

\* The schedule flag belongs to one sleeping goroutine: two refreshes are
\* never scheduled at once, and the flag is never left set with nobody to
\* clear it, which would switch refreshing off for good.
ScheduleHasOneOwner ==
  /\ \A r \in Refreshers : rpc[r] \in {"sleeping", "clearing"} => schedule
  /\ schedule => \E r \in Refreshers : rpc[r] \in {"sleeping", "clearing"}
  /\ \A r, q \in Refreshers :
       rpc[r] \in {"sleeping", "clearing"} /\ rpc[q] \in {"sleeping", "clearing"} => r = q

\* No nudge is lost by the debouncing: from the nudge until a rebuild starts
\* to read, some goroutine is on its way to that rebuild.
NudgeIsServed ==
  unread => \E r \in Refreshers : rpc[r] \in {"sleeping", "clearing", "populate"}

\* A rebuild during which the store does not change, no query fails and the
\* context lasts installs exactly what the store holds, whatever other
\* rebuilds and cancelled contexts go on beside it.
QuietRebuildIsExact ==
  [][\A r \in Refreshers :
       Install(r) /\ r \notin outdated /\ faults = 0 /\ ctx[r] # "cancelled"
         => cache' = View]_vars

\* The cache follows the store: once the store no longer changes and no more
\* permission is found missing, the cache is in the end what the store holds,
\* whatever order rebuilds finish in and whatever nudges cancelled contexts have
\* swallowed.  While denials go on, ticks may be debounced into refreshes whose
\* context is cancelled, one after the other.
CacheConverges == <>[][\A s \in Pairs : ~Deny(s)]_vars => <>[](cache = View)

\* A nudge is on its way to a rebuild whose context lets it read the store.
NudgeIsServedAlive ==
  unread => \E r \in Refreshers :
    rpc[r] \in {"sleeping", "clearing", "populate"} /\ ctx[r] # "cancelled"
=============================================================================
