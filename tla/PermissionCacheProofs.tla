------------------------ MODULE PermissionCacheProofs ------------------------
(***************************************************************************)
(* Proofs about PermissionCache: for any number of vehicles, goroutines    *)
(* and calls, and any expiration and latency, nobody acts on an answer     *)
(* that has not been the truth for longer than the cache and the latency   *)
(* together explain.                                                       *)
(***************************************************************************)
EXTENDS PermissionCache, TLAPS

USE AgentsAssumption, TimesAssumption DEF vars, NotCached, Found, Holding, Agents

LEMMA TypeInit == Init => TypeOK
BY DEF Init, TypeOK, Entries, Ages, MaxAge, ListenerPCs, CallPCs

LEMMA DoneType ==
  ASSUME TypeOK, NEW a \in Agents, NEW from, Done(a, from)
  PROVE  /\ pc' \in [Agents -> ListenerPCs \cup CallPCs]
         /\ \A c \in Calls : pc'[c] \in CallPCs
         /\ answer' \in [Agents -> BOOLEAN]
         /\ age' \in [Agents -> 0 .. Latency]
<1>1. answer' \in [Agents -> BOOLEAN]
  BY Zenon DEF TypeOK, Done
<1> QED
  BY <1>1 DEF TypeOK, Done, Goto, ListenerPCs, CallPCs

LEMMA TypeStep == TypeOK /\ [Next]_vars => TypeOK'
<1> SUFFICES ASSUME TypeOK, [Next]_vars
             PROVE  TypeOK'
  OBVIOUS
<1> USE DEF TypeOK, Goto, Receive, ListenerPCs, CallPCs
<1>1. ASSUME NEW v \in Vehicles, ChangePermission(v) \/ RemoveVehicle(v)
      PROVE  TypeOK'
  <2>1. CASE ChangePermission(v)
    <3>1. 0 \in Ages
      BY DEF Ages, MaxAge
    <3> QED
      BY <2>1, <3>1 DEF ChangePermission
  <2> QED
    BY <1>1, <2>1 DEF RemoveVehicle
<1>2. CASE Tick
  <2>1. \A n \in Ages : Older(n) \in Ages
    BY DEF Older, Ages, MaxAge
  <2>2. 0 \in Ages
    BY DEF Ages, MaxAge
  <2>3. since' \in [Vehicles -> [BOOLEAN -> Ages]]
    BY <1>2, <2>1, <2>2 DEF Tick
  <2>4. cache' \in [Vehicles -> Entries]
    <3>1. ASSUME NEW v \in Vehicles
          PROVE  cache'[v] \in Entries
      <4>1. CASE cache[v].age < Expiration
        <5>1. cache'[v] = [cache[v] EXCEPT !.age = @ + 1]
          BY <1>2, <4>1 DEF Tick
        <5>2. cache[v] \in [has : BOOLEAN, age : 0 .. Expiration + 1]
          BY DEF Entries
        <5> HIDE DEF TypeOK
        <5>3. cache[v].age + 1 \in 0 .. Expiration + 1 /\ cache[v].has \in BOOLEAN
          BY <4>1, <5>2
        <5>4. cache'[v] = [has |-> cache[v].has, age |-> cache[v].age + 1]
          BY <5>1, <5>2
        <5> QED
          BY <5>3, <5>4 DEF Entries
      <4>2. CASE ~(cache[v].age < Expiration)
        BY <1>2, <4>2 DEF Tick, Entries
      <4> QED
        BY <4>1, <4>2
    <3> QED
      BY <1>2, <3>1 DEF Tick
  <2>5. age' \in [Agents -> 0 .. Latency]
    BY <1>2 DEF Tick
  <2> QED
    BY <1>2, <2>3, <2>4, <2>5 DEF Tick
<1>3. ASSUME NEW l \in Listeners, HasVehiclePermissions(l)
      PROVE  TypeOK'
  <2>1. CASE CacheHit(l)
    BY <2>1 DEF CacheHit, Entries
  <2>2. CASE AccessCheckFails(l)
    BY <2>2, DoneType DEF AccessCheckFails
  <2>5. CASE CacheMiss(l)
    BY <2>5 DEF CacheMiss
  <2>3. CASE AccessCheck(l, "asking", "received")
    BY <2>3 DEF AccessCheck
  <2>4. CASE CacheSet(l)
    <3>1. [has |-> answer[l], age |-> 0] \in Entries
      BY DEF Entries
    <3> QED
      BY <2>4, <3>1 DEF CacheSet
  <2> QED
    BY <1>3, <2>1, <2>2, <2>3, <2>4, <2>5 DEF HasVehiclePermissions
<1>4. ASSUME NEW l \in Listeners, Decide(l)
      PROVE  TypeOK'
  BY <1>4, DoneType DEF Decide, Permitted, PermissionDenied
<1>5. ASSUME NEW l \in Listeners, NEW v \in Vehicles, Evaluate(l, v)
      PROVE  TypeOK'
  BY <1>5 DEF Evaluate
<1>6. ASSUME NEW c \in Calls, Assign(c)
      PROVE  TypeOK'
  <2>1. CASE AccessCheck(c, "asking", "granted")
    BY <2>1 DEF AccessCheck
  <2>2. CASE AccessCheckFails(c) \/ AssignDenied(c) \/ CreateVehicleSubscription(c)
    BY <2>2, DoneType DEF AccessCheckFails, AssignDenied, CreateVehicleSubscription
  <2> QED
    BY <1>6, <2>1, <2>2 DEF Assign
<1>7. ASSUME NEW c \in Calls, NEW v \in Vehicles, AssignVehicle(c, v)
      PROVE  TypeOK'
  BY <1>7 DEF AssignVehicle
<1>8. CASE Refresh \/ UNCHANGED vars
  BY <1>8 DEF Refresh
<1>9. CASE Restart
  BY <1>9 DEF Restart, Entries
<1> QED
  BY <1>1, <1>2, <1>3, <1>4, <1>5, <1>6, <1>7, <1>8, <1>9 DEF Next

\* TypeOK: every variable of the two permission checks keeps its type, and
\* every age its bound.
THEOREM PermissionTypeCorrect == Spec => []TypeOK
<1> QED
  BY TypeInit, TypeStep, PTL DEF Spec

-----------------------------------------------------------------------------

\* The inductive invariant: an answer in the cache, or in the hands of a
\* goroutine or a call, was the truth when it was received.
RecentInv ==
  /\ \A v \in Vehicles : since[v][granted[v]] = 0
  /\ \A v \in Vehicles : Found(v) => WasTrue(v, cache[v].has, cache[v].age + Latency)
  /\ \A a \in Agents :
       /\ pc[a] \in {"received", "granted"} => WasTrue(vehicle[a], answer[a], age[a])
       /\ pc[a] = "decided" =>
            WasTrue(vehicle[a], answer[a], Expiration + Latency + age[a])

LEMMA RecentInit == Init => RecentInv
BY DEF Init, RecentInv

\* A step that makes no answer older and gives nobody a new one.
LEMMA RecentFrame ==
  ASSUME TypeOK, RecentInv, UNCHANGED cache,
         \A v \in Vehicles, b \in BOOLEAN : since'[v][b] = since[v][b] \/ since'[v][b] = 0,
         \A v \in Vehicles : since'[v][granted'[v]] = 0,
         \A a \in Agents :
           \/ pc'[a] \in {"idle", "check", "asking"}
           \/ /\ pc'[a] = pc[a] /\ answer'[a] = answer[a] /\ age'[a] = age[a]
              /\ vehicle'[a] = vehicle[a]
  PROVE  RecentInv'
<1>1. \A v \in Vehicles, b \in BOOLEAN : since[v][b] \in Nat
  BY DEF TypeOK, Ages
<1>2. ASSUME NEW v \in Vehicles, Found(v)'
      PROVE  since'[v][cache'[v].has] <= cache'[v].age + Latency
  <2>1. cache[v].has \in BOOLEAN /\ cache[v].age \in Nat
    BY DEF TypeOK, Entries
  <2> QED
    BY <1>1, <1>2, <2>1 DEF RecentInv, WasTrue
<1>3. ASSUME NEW a \in Agents
      PROVE  /\ pc'[a] \in {"received", "granted"} =>
                  since'[vehicle'[a]][answer'[a]] <= age'[a]
             /\ pc'[a] = "decided" =>
                  since'[vehicle'[a]][answer'[a]] <= Expiration + Latency + age'[a]
  <2>1. vehicle[a] \in Vehicles /\ answer[a] \in BOOLEAN /\ age[a] \in Nat
    BY DEF TypeOK
  <2> QED
    BY <1>1, <2>1 DEF RecentInv, WasTrue
<1> QED
  BY <1>2, <1>3 DEF RecentInv, WasTrue

LEMMA RecentStep == TypeOK /\ RecentInv /\ [Next]_vars => RecentInv'
<1> SUFFICES ASSUME TypeOK, RecentInv, [Next]_vars
             PROVE  RecentInv'
  OBVIOUS
<1> USE DEF Goto, Done, Receive
<1>t. /\ \A v \in Vehicles : cache[v] \in Entries /\ granted[v] \in BOOLEAN
      /\ \A a \in Agents : vehicle[a] \in Vehicles /\ answer[a] \in BOOLEAN /\ age[a] \in 0 .. Latency
      /\ \A v \in Vehicles, b \in BOOLEAN : since[v][b] \in Nat
  BY DEF TypeOK, Ages
<1>1. CASE Tick
  <2>1. ASSUME NEW v \in Vehicles, NEW b \in BOOLEAN, NEW n \in 0 .. MaxAge, since[v][b] <= n
        PROVE  since'[v][b] <= n + 1
    BY <1>1, <1>t, <2>1 DEF Tick, Older, MaxAge
  <2>2. ASSUME NEW v \in Vehicles, Found(v)'
        PROVE  since'[v][cache'[v].has] <= cache'[v].age + Latency
    <3>1. cache[v].age < Expiration
      <4> SUFFICES ASSUME ~(cache[v].age < Expiration)
                   PROVE  FALSE
        OBVIOUS
      <4>1. cache'[v] = NotCached
        BY <1>1 DEF Tick
      <4> QED
        BY <2>2, <4>1
    <3>2. cache'[v] = [cache[v] EXCEPT !.age = @ + 1]
      BY <1>1, <3>1 DEF Tick
    <3>3. /\ cache[v].age + Latency \in 0 .. MaxAge /\ cache[v].has \in BOOLEAN
          /\ cache'[v].age = cache[v].age + 1 /\ cache'[v].has = cache[v].has
      BY <1>t, <3>1, <3>2 DEF Entries, MaxAge
    <3>4. since[v][cache[v].has] <= cache[v].age + Latency
      BY <1>t, <3>1 DEF RecentInv, WasTrue, Entries
    <3>5. since'[v][cache[v].has] <= cache[v].age + Latency + 1
      BY <2>1, <3>3, <3>4
    <3> QED
      BY <1>t, <3>3, <3>5 DEF Entries
  <2>3. ASSUME NEW a \in Agents, Holding(a)
        PROVE  /\ pc[a] \in {"received", "granted"} => since'[vehicle[a]][answer[a]] <= age'[a]
               /\ pc[a] = "decided" =>
                    since'[vehicle[a]][answer[a]] <= Expiration + Latency + age'[a]
    <3>1. age[a] < Latency /\ age'[a] = age[a] + 1
      BY <1>1, <2>3 DEF Tick
    <3>2. ASSUME pc[a] \in {"received", "granted"}
          PROVE  since'[vehicle[a]][answer[a]] <= age'[a]
      <4>1. age[a] \in 0 .. MaxAge
        BY <1>t DEF MaxAge
      <4> QED
        BY <1>t, <2>1, <3>1, <3>2, <4>1 DEF RecentInv, WasTrue
    <3>3. ASSUME pc[a] = "decided"
          PROVE  since'[vehicle[a]][answer[a]] <= Expiration + Latency + age'[a]
      <4>1. Expiration + Latency + age[a] \in 0 .. MaxAge
        BY <1>t DEF MaxAge
      <4>2. since'[vehicle[a]][answer[a]] <= Expiration + Latency + age[a] + 1
        BY <1>t, <2>1, <3>3, <4>1 DEF RecentInv, WasTrue
      <4> QED
        BY <1>t, <3>1, <4>2
    <3> QED
      BY <3>2, <3>3
  <2>4. UNCHANGED <<pc, vehicle, answer, granted>>
    BY <1>1 DEF Tick
  <2>5. \A v \in Vehicles : since'[v][granted'[v]] = 0
    BY <1>1, <1>t DEF Tick
  <2> QED
    BY <2>2, <2>3, <2>4, <2>5 DEF RecentInv, WasTrue
<1>2. ASSUME NEW l \in Listeners, CacheHit(l)
      PROVE  RecentInv'
  <2>1. /\ UNCHANGED <<granted, since, cache, vehicle>>
        /\ \A a \in Agents \ {l} : pc'[a] = pc[a] /\ answer'[a] = answer[a] /\ age'[a] = age[a]
        /\ pc'[l] = "decided" /\ answer'[l] = cache[vehicle[l]].has /\ age'[l] = 0
    BY <1>2 DEF CacheHit, TypeOK
  <2>2. /\ WasTrue(vehicle[l], cache[vehicle[l]].has, cache[vehicle[l]].age + Latency)
        /\ cache[vehicle[l]].age \in 0 .. Expiration
        /\ cache[vehicle[l]].has \in BOOLEAN
    BY <1>2, <1>t DEF CacheHit, RecentInv, Entries
  <2>3. since'[vehicle'[l]][answer'[l]] <= Expiration + Latency + age'[l]
    BY <1>t, <2>1, <2>2 DEF WasTrue
  <2> QED
    BY <2>1, <2>3 DEF RecentInv, WasTrue
<1>3. ASSUME NEW a \in Agents, NEW to \in {"received", "granted"}, AccessCheck(a, "asking", to)
      PROVE  RecentInv'
  <2>1. /\ UNCHANGED <<granted, since, cache, vehicle>>
        /\ \A i \in Agents \ {a} : pc'[i] = pc[i] /\ answer'[i] = answer[i] /\ age'[i] = age[i]
        /\ pc'[a] = to /\ answer'[a] = granted[vehicle[a]] /\ age'[a] = 0
    BY <1>3 DEF AccessCheck, TypeOK
  <2>2. since[vehicle[a]][granted[vehicle[a]]] = 0
    BY <1>t DEF RecentInv
  <2> QED
    BY <2>1, <2>2 DEF RecentInv, WasTrue
<1>4. ASSUME NEW l \in Listeners, CacheSet(l)
      PROVE  RecentInv'
  <2>1. /\ UNCHANGED <<granted, since, vehicle, answer>>
        /\ \A a \in Agents \ {l} : pc'[a] = pc[a] /\ age'[a] = age[a]
        /\ pc'[l] = "decided" /\ age'[l] = 0
        /\ pc[l] = "received"
    BY <1>4 DEF CacheSet, TypeOK
  <2>2. /\ cache'[vehicle[l]] = [has |-> answer[l], age |-> 0]
        /\ \A v \in Vehicles \ {vehicle[l]} : cache'[v] = cache[v]
    BY <1>4, <1>t DEF CacheSet, TypeOK
  <2>3. since[vehicle[l]][answer[l]] <= Latency
    BY <1>t, <2>1 DEF RecentInv, WasTrue
  <2>4. since'[vehicle'[l]][answer'[l]] <= Expiration + Latency + age'[l]
    BY <1>t, <2>1, <2>3
  <2>5. \A v \in Vehicles : Found(v)' => since'[v][cache'[v].has] <= cache'[v].age + Latency
    BY <2>1, <2>2, <2>3 DEF RecentInv, WasTrue
  <2>6. \A a \in Agents :
          /\ pc'[a] \in {"received", "granted"} => since'[vehicle'[a]][answer'[a]] <= age'[a]
          /\ pc'[a] = "decided" =>
               since'[vehicle'[a]][answer'[a]] <= Expiration + Latency + age'[a]
    BY <2>1, <2>4 DEF RecentInv, WasTrue
  <2> QED
    BY <2>1, <2>5, <2>6 DEF RecentInv, WasTrue
<1>5. ASSUME NEW v \in Vehicles, ChangePermission(v)
      PROVE  RecentInv'
  <2>1. \A w \in Vehicles, b \in BOOLEAN : since'[w][b] = since[w][b] \/ since'[w][b] = 0
    BY <1>5 DEF ChangePermission, TypeOK
  <2>2. \A w \in Vehicles : since'[w][granted'[w]] = 0
    BY <1>5, <1>t DEF ChangePermission, TypeOK, RecentInv
  <2> QED
    BY <1>5, <2>1, <2>2, RecentFrame DEF ChangePermission
<1>6. ASSUME NEW a \in Agents,
             \/ CacheMiss(a) \/ AccessCheckFails(a) \/ Permitted(a) \/ PermissionDenied(a)
             \/ AssignDenied(a) \/ CreateVehicleSubscription(a)
      PROVE  RecentInv'
  <2>1. /\ UNCHANGED <<granted, since, cache, vehicle>>
        /\ pc'[a] \in {"idle", "asking"}
        /\ \A i \in Agents \ {a} : pc'[i] = pc[i] /\ answer'[i] = answer[i] /\ age'[i] = age[i]
    BY <1>6 DEF CacheMiss, AccessCheckFails, Permitted, PermissionDenied, AssignDenied,
                CreateVehicleSubscription, TypeOK
  <2>2. \A w \in Vehicles : since[w][granted[w]] = 0
    BY DEF RecentInv
  <2> QED
    BY <2>1, <2>2, RecentFrame
<1>7. ASSUME NEW a \in Agents, NEW v \in Vehicles, Evaluate(a, v) \/ AssignVehicle(a, v)
      PROVE  RecentInv'
  <2>1. /\ UNCHANGED <<granted, since, cache, answer, age>>
        /\ pc'[a] \in {"check", "asking"}
        /\ \A i \in Agents \ {a} : pc'[i] = pc[i] /\ vehicle'[i] = vehicle[i]
    BY <1>7 DEF Evaluate, AssignVehicle, TypeOK
  <2>2. \A w \in Vehicles : since[w][granted[w]] = 0
    BY DEF RecentInv
  <2> QED
    BY <2>1, <2>2, RecentFrame
<1>8. ASSUME NEW v \in Vehicles, RemoveVehicle(v)
      PROVE  RecentInv'
  BY <1>8 DEF RemoveVehicle, RecentInv, WasTrue
<1>9. CASE Restart
  <2>1. \A v \in Vehicles : ~Found(v)'
    BY <1>9 DEF Restart
  <2> QED
    BY <1>9, <2>1 DEF Restart, RecentInv, WasTrue
<1>10. CASE Refresh \/ UNCHANGED vars
  BY <1>10 DEF Refresh, RecentInv, WasTrue
<1> QED
  BY <1>1, <1>2, <1>3, <1>4, <1>5, <1>6, <1>7, <1>8, <1>9, <1>10
  DEF Next, HasVehiclePermissions, Decide, Assign

\* The truth of an answer when it is acted on.
LEMMA ActsOnRecentStep ==
  ASSUME TypeOK, RecentInv
  PROVE  /\ \A l \in Listeners :
              Permitted(l) \/ PermissionDenied(l) => WasTrue(vehicle[l], answer[l], MaxAge)
         /\ \A c \in Calls :
              CreateVehicleSubscription(c) => WasTrue(vehicle[c], TRUE, Latency)
<1>1. /\ \A a \in Agents : /\ vehicle[a] \in Vehicles /\ answer[a] \in BOOLEAN
                           /\ age[a] \in 0 .. Latency
      /\ \A v \in Vehicles, b \in BOOLEAN : since[v][b] \in Nat
  BY DEF TypeOK, Ages
<1>2. ASSUME NEW l \in Listeners, Permitted(l) \/ PermissionDenied(l)
      PROVE  WasTrue(vehicle[l], answer[l], MaxAge)
  BY <1>1, <1>2 DEF Permitted, PermissionDenied, Done, Goto, RecentInv, WasTrue, MaxAge
<1>3. ASSUME NEW c \in Calls, CreateVehicleSubscription(c)
      PROVE  WasTrue(vehicle[c], TRUE, Latency)
  <2>1. answer[c] = TRUE /\ pc[c] = "granted"
    BY <1>1, <1>3 DEF CreateVehicleSubscription, Done, Goto
  <2>2. since[vehicle[c]][answer[c]] <= age[c]
    BY <2>1 DEF RecentInv, WasTrue
  <2>3. since[vehicle[c]][answer[c]] <= Latency
    BY <1>1, <2>2
  <2> QED
    BY <2>1, <2>3, Zenon DEF WasTrue
<1> QED
  BY <1>2, <1>3

\* ActsOnRecentAnswer: no target is called and no vehicle unsubscribed on an
\* answer that stopped being the truth more than Expiration + 2 * Latency ago,
\* and no vehicle subscribed on one that did more than Latency ago, however
\* the goroutines interleave and the owner changes the permission.
THEOREM ActsOnRecent == Spec => ActsOnRecentAnswer
<1> QED
  BY ActsOnRecentStep, RecentInit, RecentStep, PermissionTypeCorrect, PTL
  DEF Spec, ActsOnRecentAnswer

\* SettledDecisionHolds: a permission revoked for longer than Latency is not
\* subscribed again, and one granted for longer than MaxAge costs a vehicle
\* its subscription only if the developer removes it.
THEOREM SettledHolds == Spec => SettledDecisionHolds
<1>1. ASSUME TypeOK, RecentInv, [Next]_vars, NEW v \in Vehicles
      PROVE  /\ ~WasTrue(v, TRUE, Latency) /\ v \notin subs => v \notin subs'
             /\ ~WasTrue(v, FALSE, MaxAge) /\ v \in subs /\ v \notin subs' => RemoveVehicle(v)
  <2>1. ASSUME NEW c \in Calls, CreateVehicleSubscription(c)
        PROVE  WasTrue(vehicle[c], TRUE, Latency)
    BY <1>1, <2>1, ActsOnRecentStep
  <2>2. ASSUME NEW l \in Listeners, PermissionDenied(l)
        PROVE  WasTrue(vehicle[l], FALSE, MaxAge)
    <3>1. answer[l] = FALSE
      BY <1>1, <2>2, Zenon DEF TypeOK, PermissionDenied
    <3> QED
      BY <1>1, <2>2, <3>1, ActsOnRecentStep
  <2>3. \/ UNCHANGED subs
        \/ \E w \in Vehicles : RemoveVehicle(w)
        \/ \E l \in Listeners : PermissionDenied(l)
        \/ \E c \in Calls : CreateVehicleSubscription(c)
    BY <1>1 DEF Next, ChangePermission, Tick, HasVehiclePermissions, CacheHit, CacheMiss,
                AccessCheck, AccessCheckFails, CacheSet, Decide, Permitted, Evaluate, Assign,
                AssignDenied, AssignVehicle, Refresh, Restart
  <2>4. CASE \E w \in Vehicles : RemoveVehicle(w)
    BY <2>4 DEF RemoveVehicle
  <2>5. ASSUME NEW l \in Listeners, PermissionDenied(l)
        PROVE  subs' \in {subs, subs \ {vehicle[l]}}
    BY <2>5 DEF PermissionDenied
  <2>6. ASSUME NEW c \in Calls, CreateVehicleSubscription(c)
        PROVE  subs' \in {subs, subs \cup {vehicle[c]}}
    BY <2>6 DEF CreateVehicleSubscription
  <2> QED
    BY <2>1, <2>2, <2>3, <2>4, <2>5, <2>6
<1>2. TypeOK /\ RecentInv /\ [Next]_vars =>
        \A v \in Vehicles :
          /\ ~WasTrue(v, TRUE, Latency) /\ v \notin subs => v \notin subs'
          /\ ~WasTrue(v, FALSE, MaxAge) /\ v \in subs /\ v \notin subs' => RemoveVehicle(v)
  BY <1>1
<1> QED
  BY <1>2, RecentInit, RecentStep, PermissionTypeCorrect, PTL DEF Spec, SettledDecisionHolds
=============================================================================
