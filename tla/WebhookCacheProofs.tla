------------------------- MODULE WebhookCacheProofs -------------------------
(***************************************************************************)
(* Proofs about the debouncing of WebhookCache, for any store and any      *)
(* number of refresh goroutines.                                           *)
(***************************************************************************)
EXTENDS WebhookCache, TLAPS

USE DEF vars, storeVars, buildVars

\* What the debouncing depends on has its type.
DebounceTypeOK ==
  /\ schedule \in BOOLEAN
  /\ unread \in BOOLEAN
  /\ rpc \in [Refreshers -> RPCs]

\* The inductive invariant.  That a nudge is served rests on the flag having
\* an owner: a nudge that finds the flag set relies on that goroutine.
DebounceInv == DebounceTypeOK /\ ScheduleHasOneOwner /\ NudgeIsServed

LEMMA DebounceInit == Init => DebounceInv
<1> SUFFICES ASSUME Init
             PROVE  DebounceInv
  OBVIOUS
<1>1. DebounceTypeOK
  BY DEF Init, DebounceTypeOK, RPCs
<1>2. ScheduleHasOneOwner /\ NudgeIsServed
  BY DEF Init, ScheduleHasOneOwner, NudgeIsServed
<1> QED
  BY <1>1, <1>2 DEF DebounceInv

\* A nudge finds an owner of the flag or makes one.
LEMMA NudgeStep ==
  ASSUME DebounceInv, NEW c, ScheduleRefresh(c), unread' \in BOOLEAN
  PROVE  DebounceInv'
<1> USE DEF DebounceInv, DebounceTypeOK, ScheduleHasOneOwner, NudgeIsServed, RPCs
<1>1. CASE schedule /\ UNCHANGED <<schedule, rpc, ctx>>
  BY <1>1
<1>2. ASSUME NEW r \in Refreshers, ~schedule, schedule',
             rpc' = [rpc EXCEPT ![r] = "sleeping"]
      PROVE  DebounceInv'
  BY <1>2
<1> QED
  BY <1>1, <1>2 DEF ScheduleRefresh

\* A step that leaves the flag, the goroutines and the nudge alone.
LEMMA DebounceFrame ==
  ASSUME DebounceInv, UNCHANGED <<schedule, rpc, unread>>
  PROVE  DebounceInv'
BY DEF DebounceInv, DebounceTypeOK, ScheduleHasOneOwner, NudgeIsServed

LEMMA DebounceStep == DebounceInv /\ [Next]_vars => DebounceInv'
<1> SUFFICES ASSUME DebounceInv, [Next]_vars
             PROVE  DebounceInv'
  OBVIOUS
<1>1. CASE ApiWrite
  BY <1>1, NudgeStep DEF ApiWrite
<1>2. CASE Tick
  BY <1>2, NudgeStep DEF Tick
<1>3. ASSUME NEW s \in Pairs, Deny(s)
      PROVE  DebounceInv'
  BY <1>3, NudgeStep DEF Deny
<1>4. CASE SilentWrite \/ UNCHANGED vars
  BY <1>4, DebounceFrame DEF SilentWrite
<1>5. ASSUME NEW r \in Refreshers, GroupEnds(r)
      PROVE  DebounceInv'
  BY <1>5, DebounceFrame DEF GroupEnds
<1>6. ASSUME NEW r \in Refreshers, Refresh(r)
      PROVE  DebounceInv'
  <2> USE DEF DebounceInv, DebounceTypeOK, ScheduleHasOneOwner, NudgeIsServed, RPCs, Step
  <2>1. CASE WakeUp(r)
    BY <2>1 DEF WakeUp
  <2>2. CASE ClearSchedule(r)
    BY <2>2 DEF ClearSchedule
  <2>3. CASE LoadSubscriptions(r) \/ LoadFails(r)
    <3>1. /\ rpc[r] = "populate"
          /\ rpc' \in {[rpc EXCEPT ![r] = "fetching"], [rpc EXCEPT ![r] = "none"]}
          /\ unread' = FALSE
          /\ UNCHANGED schedule
      BY <2>3 DEF LoadSubscriptions, LoadFails
    <3>2. /\ rpc' \in [Refreshers -> RPCs]
          /\ \A q \in Refreshers : rpc'[q] = rpc[q] \/ (q = r /\ rpc'[q] \in {"fetching", "none"})
      BY <3>1
    <3> QED
      BY <3>1, <3>2
  <2>4. CASE \E t \in Triggers : FetchTrigger(r, t) \/ SkipTrigger(r, t)
    BY <2>4, DebounceFrame DEF FetchTrigger, SkipTrigger
  <2>5. CASE Install(r)
    BY <2>5 DEF Install
  <2> QED
    BY <1>6, <2>1, <2>2, <2>3, <2>4, <2>5 DEF Refresh
<1> QED
  BY <1>1, <1>2, <1>3, <1>4, <1>5, <1>6 DEF Next

THEOREM DebounceInvariant == Spec => []DebounceInv
BY DebounceInit, DebounceStep, PTL DEF Spec

\* The schedule flag always has exactly one goroutine to clear it.
THEOREM OneOwner == Spec => []ScheduleHasOneOwner
<1>1. DebounceInv => ScheduleHasOneOwner
  BY DEF DebounceInv
<1> QED
  BY <1>1, DebounceInvariant, PTL

\* Debouncing loses no nudge.
THEOREM NudgesAreServed == Spec => []NudgeIsServed
<1>1. DebounceInv => NudgeIsServed
  BY DEF DebounceInv
<1> QED
  BY <1>1, DebounceInvariant, PTL

-----------------------------------------------------------------------------
(* A rebuild nothing interferes with                                       *)

\* What a rebuild has read so far, as long as the store has not changed and
\* no query has failed: all the subscriptions, and every trigger it is done
\* with, as the store has them.
Exact(r) ==
  /\ loaded[r] = {s \in subs : row[s[1]] # Gone}
  /\ fetched[r] \subseteq {<<t, row[t]>> : t \in Triggers}
  /\ \A s \in loaded[r] : s[1] \in todo[r] \/ <<s[1], row[s[1]]>> \in fetched[r]
  /\ \A t \in todo[r] : row[t] # Gone

ReadTypeOK ==
  /\ row \in [Triggers -> Rows]
  /\ subs \in SUBSET Pairs
  /\ rpc \in [Refreshers -> RPCs]
  /\ ctx \in [Refreshers -> Contexts]
  /\ loaded \in [Refreshers -> SUBSET Pairs]
  /\ todo \in [Refreshers -> SUBSET Triggers]
  /\ fetched \in [Refreshers -> SUBSET (Triggers \X Rows)]
  /\ faults \in Nat
  /\ outdated \in SUBSET Refreshers

ReadInv ==
  /\ ReadTypeOK
  /\ \A r \in Refreshers : rpc[r] \in {"none", "sleeping", "clearing", "populate"}
       => fetched[r] = {} /\ todo[r] = {} /\ r \notin outdated
  /\ \A r \in Refreshers :
       rpc[r] = "fetching" /\ r \notin outdated /\ faults = 0 /\ ctx[r] # "cancelled"
         => Exact(r)

LEMMA ReadInit == Init => ReadInv
<1> SUFFICES ASSUME Init
             PROVE  ReadInv
  OBVIOUS
<1>1. ReadTypeOK
  BY DEF Init, ReadTypeOK, RPCs, Contexts
<1> QED
  BY <1>1 DEF Init, ReadInv

\* A nudge does not touch what is being read.
LEMMA ReadNudge ==
  ASSUME ReadInv, NEW c \in {"live", "group"}, ScheduleRefresh(c),
         UNCHANGED <<buildVars, faults>>,
         \/ UNCHANGED <<row, subs, outdated>>
         \/ StoreChanged /\ row' \in [Triggers -> Rows] /\ subs' \in SUBSET Pairs
  PROVE  ReadInv'
<1> USE DEF ReadInv, ReadTypeOK, RPCs, Contexts
<1>1. /\ rpc' \in [Refreshers -> RPCs]
      /\ ctx' \in [Refreshers -> Contexts]
      /\ \A r \in Refreshers :
           \/ rpc'[r] = rpc[r] /\ ctx'[r] = ctx[r]
           \/ rpc[r] = "none" /\ rpc'[r] = "sleeping"
  BY DEF ScheduleRefresh
<1>2. CASE UNCHANGED <<row, subs, outdated>>
  BY <1>1, <1>2 DEF Exact
<1>3. CASE StoreChanged /\ row' \in [Triggers -> Rows] /\ subs' \in SUBSET Pairs
  BY <1>1, <1>3 DEF StoreChanged
<1> QED
  BY <1>2, <1>3

LEMMA ReadChange ==
  ASSUME ReadInv, Change
  PROVE  /\ row' \in [Triggers -> Rows]
         /\ subs' \in SUBSET Pairs
         /\ StoreChanged
         /\ UNCHANGED <<buildVars, faults>>
BY DEF ReadInv, ReadTypeOK, Change, Pairs

LEMMA ReadRefresh ==
  ASSUME ReadInv, NEW r \in Refreshers, Refresh(r)
  PROVE  ReadInv'
<1> USE DEF ReadInv, ReadTypeOK, RPCs, Contexts, Step
<1>1. CASE WakeUp(r)
  BY <1>1 DEF WakeUp, Exact
<1>2. CASE ClearSchedule(r)
  BY <1>2 DEF ClearSchedule, Exact
<1>3. CASE LoadSubscriptions(r)
  <2> DEFINE live == {s \in subs : row[s[1]] # Gone}
  <2>1. /\ loaded' = [loaded EXCEPT ![r] = live]
        /\ todo' = [todo EXCEPT ![r] = {s[1] : s \in live}]
        /\ rpc' = [rpc EXCEPT ![r] = "fetching"]
        /\ rpc[r] = "populate"
        /\ UNCHANGED <<row, subs, ctx, fetched, faults, outdated>>
    BY <1>3 DEF LoadSubscriptions
  <2>2. live \in SUBSET Pairs /\ {s[1] : s \in live} \in SUBSET Triggers
    BY DEF Pairs
  <2>3. ReadTypeOK'
    BY <2>1, <2>2
  <2>4. Exact(r)'
    BY <2>1, <2>2 DEF Exact
  <2>5. ASSUME NEW q \in Refreshers, q # r
        PROVE  rpc'[q] = rpc[q] /\ (Exact(q) => Exact(q)')
    BY <2>1, <2>5 DEF Exact
  <2> QED
    BY <2>1, <2>3, <2>4, <2>5
<1>4. CASE LoadFails(r)
  BY <1>4 DEF LoadFails, DatabaseFails, Leave, Exact
<1>5. ASSUME NEW t \in Triggers, FetchTrigger(r, t)
      PROVE  ReadInv'
  <2>1. /\ t \in todo[r]
        /\ todo' = [todo EXCEPT ![r] = todo[r] \ {t}]
        /\ fetched' = [fetched EXCEPT ![r] = fetched[r] \cup {<<t, row[t]>>}]
        /\ UNCHANGED <<row, subs, rpc, ctx, loaded, faults, outdated>>
    BY <1>5 DEF FetchTrigger
  <2>2. ReadTypeOK' /\ rpc[r] = "fetching"
    BY <2>1
  <2>3. Exact(r) => Exact(r)'
    BY <2>1 DEF Exact
  <2>4. ASSUME NEW q \in Refreshers, q # r
        PROVE  /\ fetched'[q] = fetched[q] /\ todo'[q] = todo[q]
               /\ Exact(q) => Exact(q)'
    BY <2>1, <2>4 DEF Exact
  <2> QED
    BY <2>1, <2>2, <2>3, <2>4
<1>6. ASSUME NEW t \in Triggers, SkipTrigger(r, t)
      PROVE  ReadInv'
  BY <1>6 DEF SkipTrigger, DatabaseFails, Exact
<1>7. CASE Install(r)
  BY <1>7 DEF Install, Leave, Exact
<1> QED
  BY <1>1, <1>2, <1>3, <1>4, <1>5, <1>6, <1>7 DEF Refresh

LEMMA ReadStep == ReadInv /\ [Next]_vars => ReadInv'
<1> SUFFICES ASSUME ReadInv, [Next]_vars
             PROVE  ReadInv'
  OBVIOUS
<1>1. CASE ApiWrite
  BY <1>1, ReadChange, ReadNudge DEF ApiWrite
<1>2. CASE SilentWrite
  BY <1>2, ReadChange DEF SilentWrite, StoreChanged, ReadInv, ReadTypeOK
<1>3. CASE Tick
  BY <1>3, ReadNudge DEF Tick
<1>4. ASSUME NEW s \in Pairs, Deny(s)
      PROVE  ReadInv'
  <2>1. subs \in SUBSET Pairs /\ row \in [Triggers -> Rows]
    BY DEF ReadInv, ReadTypeOK
  <2>2. subs' \in SUBSET Pairs /\ UNCHANGED row /\ (s \notin subs => UNCHANGED subs)
    BY <1>4, <2>1 DEF Deny
  <2> QED
    BY <1>4, <2>1, <2>2, ReadNudge DEF Deny
<1>5. ASSUME NEW r \in Refreshers, GroupEnds(r)
      PROVE  ReadInv'
  BY <1>5 DEF GroupEnds, ReadInv, ReadTypeOK, Contexts, Exact
<1>6. ASSUME NEW r \in Refreshers, Refresh(r)
      PROVE  ReadInv'
  BY <1>6, ReadRefresh
<1>7. CASE UNCHANGED vars
  BY <1>7 DEF ReadInv, ReadTypeOK, Exact
<1> QED
  BY <1>1, <1>2, <1>3, <1>4, <1>5, <1>6, <1>7 DEF Next

\* A rebuild nothing interferes with installs what the store holds: no other
\* rebuild, nudge or message that ends beside it takes anything away.
THEOREM QuietRebuildsAreExact == Spec => QuietRebuildIsExact
<1>1. ReadInv => \A r \in Refreshers :
        Install(r) /\ r \notin outdated /\ faults = 0 /\ ctx[r] # "cancelled"
          => cache' = View
  <2> SUFFICES ASSUME ReadInv, NEW r \in Refreshers, Install(r), r \notin outdated, faults = 0,
                      ctx[r] # "cancelled"
               PROVE  cache' = View
    OBVIOUS
  <2>1. Exact(r) /\ todo[r] = {} /\ cache' = Built(loaded[r], fetched[r])
    BY DEF ReadInv, Install, Step
  <2>2. \A t \in Triggers, v \in Vehicles, e \in Enabled :
          (<<t, v>> \in loaded[r] /\ <<t, e>> \in fetched[r])
            <=> (<<t, v>> \in subs /\ row[t] = e)
    BY <2>1, RowsAssumption DEF Exact, ReadInv, ReadTypeOK
  <2>3. Built(loaded[r], fetched[r]) = View
    BY <2>2 DEF Built, View
  <2> QED
    BY <2>1, <2>3
<1> QED
  BY <1>1, ReadInit, ReadStep, PTL DEF Spec, QuietRebuildIsExact

-----------------------------------------------------------------------------
(* Types                                                                   *)

LEMMA BuiltType ==
  ASSUME NEW pairs, NEW rows
  PROVE  Built(pairs, rows) \in SUBSET (Triggers \X Vehicles \X Enabled)
BY DEF Built

LEMMA TypeInit == Init => TypeOK
<1> SUFFICES ASSUME Init
             PROVE  TypeOK
  OBVIOUS
<1>1. cache \in SUBSET (Triggers \X Vehicles \X Enabled)
  BY BuiltType DEF Init, View
<1>2. subs \in SUBSET Pairs
  BY DEF Init
<1> QED
  BY <1>1, <1>2 DEF Init, TypeOK, Contexts, RPCs

\* What a nudge assigns.
LEMMA NudgeType ==
  ASSUME TypeOK, NEW c \in Contexts, ScheduleRefresh(c)
  PROVE  /\ schedule' \in BOOLEAN
         /\ rpc' \in [Refreshers -> RPCs]
         /\ ctx' \in [Refreshers -> Contexts]
BY DEF TypeOK, ScheduleRefresh, RPCs

LEMMA ChangeType ==
  ASSUME TypeOK, Change
  PROVE  /\ row' \in [Triggers -> Rows]
         /\ subs' \in SUBSET Pairs
         /\ writes' \in Nat
         /\ outdated' \in SUBSET Refreshers
<1>1. row' \in [Triggers -> Rows] /\ subs' \in SUBSET Pairs
  BY DEF TypeOK, Change, Pairs
<1>2. writes' \in Nat
  BY DEF TypeOK, Change
<1>3. outdated' \in SUBSET Refreshers
  BY DEF Change, StoreChanged
<1> QED
  BY <1>1, <1>2, <1>3

LEMMA TypeRefresh ==
  ASSUME TypeOK, NEW r \in Refreshers, Refresh(r)
  PROVE  TypeOK'
<1> USE DEF TypeOK, Step
<1>1. CASE WakeUp(r)
  BY <1>1 DEF WakeUp, RPCs
<1>2. CASE ClearSchedule(r)
  BY <1>2 DEF ClearSchedule, RPCs
<1>3. CASE LoadSubscriptions(r)
  <2> DEFINE live == {s \in subs : row[s[1]] # Gone}
  <2>1. /\ loaded' = [loaded EXCEPT ![r] = live]
        /\ todo' = [todo EXCEPT ![r] = {s[1] : s \in live}]
    BY <1>3 DEF LoadSubscriptions
  <2>2. live \in SUBSET Pairs /\ {s[1] : s \in live} \in SUBSET Triggers
    BY DEF Pairs
  <2>3. loaded' \in [Refreshers -> SUBSET Pairs] /\ todo' \in [Refreshers -> SUBSET Triggers]
    BY <2>1, <2>2
  <2> QED
    BY <1>3, <2>3 DEF LoadSubscriptions, RPCs
<1>4. CASE LoadFails(r)
  <2>1. faults' \in Nat
    BY <1>4 DEF LoadFails, DatabaseFails
  <2> QED
    BY <1>4, <2>1 DEF LoadFails, Leave, RPCs, Contexts
<1>5. ASSUME NEW t \in Triggers, FetchTrigger(r, t)
      PROVE  TypeOK'
  <2>1. <<t, row[t]>> \in Triggers \X Rows
    OBVIOUS
  <2> QED
    BY <1>5, <2>1 DEF FetchTrigger
<1>6. ASSUME NEW t \in Triggers, SkipTrigger(r, t)
      PROVE  TypeOK'
  <2>1. faults' \in Nat
    BY <1>6 DEF SkipTrigger, DatabaseFails
  <2> QED
    BY <1>6, <2>1 DEF SkipTrigger
<1>7. CASE Install(r)
  <2>1. cache' \in SUBSET (Triggers \X Vehicles \X Enabled)
    BY <1>7, BuiltType DEF Install
  <2> QED
    BY <1>7, <2>1 DEF Install, Leave, RPCs, Contexts
<1> QED
  BY <1>1, <1>2, <1>3, <1>4, <1>5, <1>6, <1>7 DEF Refresh

LEMMA TypeStep == TypeOK /\ [Next]_vars => TypeOK'
<1> SUFFICES ASSUME TypeOK, [Next]_vars
             PROVE  TypeOK'
  OBVIOUS
<1>1. CASE ApiWrite
  <2>1. Change /\ ScheduleRefresh("live") /\ unread' = TRUE
    BY <1>1 DEF ApiWrite
  <2>2. UNCHANGED <<cache, buildVars, faults>>
    BY <2>1 DEF Change
  <2> QED
    BY <2>1, <2>2, ChangeType, NudgeType DEF TypeOK, Contexts
<1>2. CASE SilentWrite
  <2>1. Change /\ UNCHANGED <<schedule, rpc, ctx, unread>>
    BY <1>2 DEF SilentWrite
  <2>2. UNCHANGED <<cache, buildVars, faults>>
    BY <2>1 DEF Change
  <2> QED
    BY <2>1, <2>2, ChangeType DEF TypeOK
<1>3. CASE Tick
  BY <1>3, NudgeType DEF Tick, TypeOK, Contexts
<1>4. ASSUME NEW s \in Pairs, Deny(s)
      PROVE  TypeOK'
  <2>1. subs' \in SUBSET Pairs /\ outdated' \in SUBSET Refreshers
    BY <1>4 DEF Deny, StoreChanged, TypeOK
  <2> QED
    BY <1>4, <2>1, NudgeType DEF Deny, TypeOK, Contexts
<1>5. ASSUME NEW r \in Refreshers, GroupEnds(r)
      PROVE  TypeOK'
  BY <1>5 DEF GroupEnds, TypeOK, Contexts
<1>6. ASSUME NEW r \in Refreshers, Refresh(r)
      PROVE  TypeOK'
  BY <1>6, TypeRefresh
<1>7. CASE UNCHANGED vars
  BY <1>7 DEF TypeOK
<1> QED
  BY <1>1, <1>2, <1>3, <1>4, <1>5, <1>6, <1>7 DEF Next

\* Every variable of the cache keeps its type.
THEOREM CacheTypeCorrect == Spec => []TypeOK
BY TypeInit, TypeStep, PTL DEF Spec

=============================================================================
