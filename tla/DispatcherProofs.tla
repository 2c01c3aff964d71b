-------------------------- MODULE DispatcherProofs --------------------------
(***************************************************************************)
(* Proofs about Dispatcher: the semaphore counts the busy goroutines, so   *)
(* the loop returns drained, and offsets never run ahead of processing.    *)
(***************************************************************************)
EXTENDS Dispatcher, FiniteSetTheorems, TLAPS

USE DEF vars

-----------------------------------------------------------------------------
(* The semaphore                                                           *)

\* The slots taken are the goroutines busy; a message is held, or has a
\* goroutine, exactly where the code says so.
SlotsCounted == free + Cardinality(Busy) = MaxInFlight

Placed ==
  /\ stage = "acquire" <=> held # Nothing
  /\ \A g \in Busy : job[g] # Nothing
  /\ stage \in {"subscribing", "returned", "stopped"} => Busy = {}

SlotInv == TypeOK /\ SlotsCounted /\ Placed

LEMMA BusyIsFinite == IsFiniteSet(Busy) /\ Cardinality(Busy) \in Nat
BY GoroutinesAssumption, FS_Subset, FS_CardinalityType DEF Busy

\* The state of a process that has just started has its type.
LEMMA FreshTypes ==
  /\ MaxInFlight \in 0..MaxInFlight
  /\ [g \in Goroutines |-> "idle"]
       \in [Goroutines -> {"idle", "processing", "acking", "releasing"}]
  /\ [g \in Goroutines |-> Nothing] \in [Goroutines -> Deliveries \cup {Nothing}]
  /\ [p \in Partitions |-> FALSE] \in [Partitions -> BOOLEAN]
<1>1. MaxInFlight \in 0..MaxInFlight
  BY LimitsAssumption
<1> QED
  BY <1>1

LEMMA SlotInit == Init => SlotInv
<1> SUFFICES ASSUME Init
             PROVE  SlotInv
  OBVIOUS
<1>1. Busy = {}
  BY DEF Init, Busy
<1>2. TypeOK
  BY FreshTypes DEF Init, TypeOK, Stages
<1>3. SlotsCounted
  <2>1. Cardinality(Busy) = 0
    BY <1>1, FS_EmptySet
  <2>2. free = MaxInFlight /\ MaxInFlight \in Nat
    BY LimitsAssumption DEF Init
  <2> QED
    BY <2>1, <2>2 DEF SlotsCounted
<1>4. Placed
  BY <1>1 DEF Init, Placed
<1> QED
  BY <1>2, <1>3, <1>4 DEF SlotInv

\* A step after which the same goroutines are busy.
LEMMA SameBusy ==
  ASSUME SlotInv, TypeOK', free' = free, Busy' = Busy,
         stage' = "acquire" <=> held' # Nothing,
         \A g \in Busy : job[g] # Nothing => job'[g] # Nothing,
         stage' \in {"subscribing", "returned", "stopped"}
           => stage \in {"subscribing", "returned", "stopped"}
  PROVE  SlotInv'
BY DEF SlotInv, SlotsCounted, Placed

LEMMA SlotStep == SlotInv /\ [Next]_vars => SlotInv'
<1> SUFFICES ASSUME SlotInv, [Next]_vars
             PROVE  SlotInv'
  OBVIOUS
<1> USE LimitsAssumption, NothingAssumption
<1> USE DEF SlotInv, TypeOK, Stages, Goto, WorkGoto
<1>1. CASE Subscribe
  BY <1>1, SameBusy DEF Subscribe, Busy, Placed
<1>2. CASE SubscribeFails
  BY <1>2, SameBusy DEF SubscribeFails, Disrupt, Busy, Placed
<1>3. CASE SeeShutdown
  BY <1>3, SameBusy DEF SeeShutdown, Busy, Placed
<1>4. ASSUME NEW p \in Partitions, Receive(p)
      PROVE  SlotInv'
  <2>1. [part |-> p, seq |-> committed[p] + 1, live |-> TRUE] \in Deliveries
    BY DEF Deliveries
  <2>2. /\ TypeOK'
        /\ stage' = "acquire" <=> held' # Nothing
    <3>1. CASE cancelled
      BY <1>4, <3>1 DEF Receive, Placed
    <3>2. CASE ~cancelled
      <4>1. attempts' \in [Partitions -> Nat]
        BY <1>4, <3>2 DEF Receive
      <4> QED
        BY <1>4, <2>1, <3>2, <4>1 DEF Receive
    <3> QED
      BY <3>1, <3>2
  <2>3. Busy' = Busy /\ stage' \notin {"subscribing", "returned", "stopped"}
    BY <1>4 DEF Receive, Busy
  <2> QED
    BY <1>4, <2>2, <2>3, SameBusy DEF Receive
<1>5. ASSUME NEW g \in Goroutines, Acquire(g)
      PROVE  SlotInv'
  <2>1. Busy' = Busy \cup {g} /\ g \notin Busy
    BY <1>5 DEF Acquire, Busy
  <2>2. Cardinality(Busy') = Cardinality(Busy) + 1
    BY <2>1, BusyIsFinite, FS_AddElement
  <2>3. SlotsCounted'
    BY <1>5, <2>2, BusyIsFinite DEF Acquire, SlotsCounted
  <2>4. TypeOK' /\ Placed'
    BY <1>5, <2>1 DEF Acquire, Placed, Busy
  <2> QED
    BY <2>3, <2>4
<1>6. CASE AcquireFails
  BY <1>6, SameBusy DEF AcquireFails, Busy, Placed
<1>7. CASE WaitForInFlight
  <2>1. Cardinality(Busy) = 0
    BY <1>7, BusyIsFinite DEF WaitForInFlight, SlotsCounted
  <2>2. Busy' = {} /\ Busy = {}
    BY <1>7, <2>1, BusyIsFinite, FS_EmptySet DEF WaitForInFlight, Busy
  <2>3. TypeOK' /\ Placed'
    BY <1>7, <2>2 DEF WaitForInFlight, Placed
  <2> QED
    BY <1>7, <2>2, <2>3 DEF WaitForInFlight, SlotsCounted
<1>8. CASE Stop
  BY <1>8, SameBusy DEF Stop, Busy, Placed
<1>9. ASSUME NEW g \in Goroutines, ProcessorReturns(g)
      PROVE  SlotInv'
  <2>1. Busy' = Busy /\ g \in Busy
    BY <1>9 DEF ProcessorReturns, Busy
  <2>2. job[g] \in Deliveries
    BY <2>1 DEF Placed
  <2>3. TypeOK'
    BY <1>9, <2>2 DEF ProcessorReturns, Deliveries
  <2> QED
    BY <1>9, <2>1, <2>3, SameBusy DEF ProcessorReturns, Placed
<1>10. ASSUME NEW g \in Goroutines, Ack(g)
       PROVE  SlotInv'
  <2>1. Busy' = Busy /\ g \in Busy
    BY <1>10 DEF Ack, Busy
  <2>2. job[g] \in Deliveries
    BY <2>1 DEF Placed
  <2>3. TypeOK'
    <3>1. /\ committed' \in [Partitions -> Nat]
          /\ waiting' \in [Partitions -> BOOLEAN]
          /\ attempts' \in [Partitions -> Nat]
      <4>1. job[g].part \in Partitions /\ job[g].seq \in Nat
        BY <2>2 DEF Deliveries
      <4>2. Commit(job[g]) \/ UNCHANGED <<committed, waiting, attempts>>
        BY <1>10 DEF Ack
      <4>3. CASE UNCHANGED <<committed, waiting, attempts>>
        BY <4>3
      <4>4. CASE Commit(job[g]) /\ job[g].live
        <5>1. /\ committed' = [committed EXCEPT ![job[g].part] = job[g].seq]
              /\ waiting' = [waiting EXCEPT ![job[g].part] = FALSE]
              /\ attempts' = [attempts EXCEPT ![job[g].part] = 0]
          BY <4>4 DEF Commit
        <5>2. committed' \in [Partitions -> Nat] /\ attempts' \in [Partitions -> Nat]
          BY <4>1, <5>1
        <5>3. waiting' \in [Partitions -> BOOLEAN]
          BY <5>1
        <5> QED
          BY <5>2, <5>3
      <4> QED
        BY <4>2, <4>3, <4>4 DEF Commit
    <3> QED
      BY <1>10, <3>1 DEF Ack
  <2> QED
    BY <1>10, <2>1, <2>3, SameBusy DEF Ack, Placed
<1>11. ASSUME NEW g \in Goroutines, Release(g)
       PROVE  SlotInv'
  <2>1. Busy' = Busy \ {g} /\ g \in Busy
    BY <1>11 DEF Release, Busy
  <2>2. Cardinality(Busy') = Cardinality(Busy) - 1 /\ Cardinality(Busy') \in Nat
    BY <2>1, BusyIsFinite, FS_RemoveElement, FS_CardinalityType
  <2>3. SlotsCounted'
    BY <1>11, <2>2, BusyIsFinite DEF Release, SlotsCounted
  <2>4. free' \in 0..MaxInFlight
    BY <1>11, <2>2, <2>3, BusyIsFinite DEF Release, SlotsCounted
  <2>5. TypeOK' /\ Placed'
    BY <1>11, <2>1, <2>4 DEF Release, Placed
  <2> QED
    BY <2>3, <2>5
<1>12. CASE Cancel
  BY <1>12, SameBusy DEF Cancel, Disrupt, Busy, Placed
<1>13. CASE CloseChannel
  BY <1>13, SameBusy DEF CloseChannel, Busy, Placed
<1>14. ASSUME NEW p \in Partitions, Rebalance(p)
       PROVE  SlotInv'
  <2>1. \A d \in Deliveries \cup {Nothing} :
          /\ Expire(d, p) \in Deliveries \cup {Nothing}
          /\ Expire(d, p) = Nothing <=> d = Nothing
    BY DEF Expire, Deliveries
  <2>2. TypeOK' /\ Busy' = Busy
    BY <1>14, <2>1 DEF Rebalance, Disrupt, Busy
  <2> QED
    BY <1>14, <2>1, <2>2, SameBusy DEF Rebalance, Placed, Busy
<1>15. CASE StartOver /\ disruptions' \in Nat
  <2>1. Busy' = {}
    BY <1>15 DEF StartOver, Busy
  <2>2. SlotsCounted'
    BY <1>15, <2>1, FS_EmptySet DEF StartOver, SlotsCounted
  <2>3. TypeOK'
    BY <1>15, FreshTypes DEF StartOver
  <2>4. Placed'
    BY <1>15, <2>1 DEF StartOver, Placed
  <2> QED
    BY <2>2, <2>3, <2>4
<1>16. CASE Crash \/ Restart
  BY <1>15, <1>16 DEF Crash, Restart, Disrupt
<1>17. CASE UNCHANGED vars
  BY <1>17, SameBusy DEF Busy, Placed
<1> QED
  BY <1>1, <1>2, <1>3, <1>4, <1>5, <1>6, <1>7, <1>8, <1>9, <1>10, <1>11, <1>12,
     <1>13, <1>14, <1>16, <1>17
  DEF Next, Loop, Goroutine, World

\* The semaphore counts the busy goroutines in every reachable state.
THEOREM SlotInvariant == Spec => []SlotInv
<1> QED
  BY SlotInit, SlotStep, PTL DEF Spec

\* TypeOK: every variable of the consumer keeps its type.
THEOREM DispatcherTypeCorrect == Spec => []TypeOK
<1>1. SlotInv => TypeOK
  BY DEF SlotInv
<1> QED
  BY <1>1, SlotInvariant, PTL

\* InFlightBounded: at most MAX_IN_FLIGHT messages are handled at once.
THEOREM InFlightIsBounded == Spec => []InFlightBounded
<1>1. SlotInv => InFlightBounded
  BY LimitsAssumption, BusyIsFinite
  DEF SlotInv, TypeOK, SlotsCounted, InFlightBounded
<1> QED
  BY <1>1, SlotInvariant, PTL

\* ReturnsDrained: the loop returns only when no message is being handled.
THEOREM LoopReturnsDrained == Spec => []ReturnsDrained
<1>1. SlotInv => ReturnsDrained
  BY DEF SlotInv, Placed, ReturnsDrained
<1> QED
  BY <1>1, SlotInvariant, PTL

-----------------------------------------------------------------------------
(* Offsets                                                                 *)

\* A delivery that is live and not acknowledged is its partition's next
\* message, and the partition waits for it.
Expected(d) == waiting[d.part] /\ d.seq = committed[d.part] + 1

\* Everything before a message in the process has been handled.
Reached(d) == \A i \in 1..(d.seq - 1) : <<d.part, i>> \in handled

LiveAreExpected ==
  /\ held # Nothing /\ held.live => Expected(held)
  /\ \A g \in Unacked : job[g].live => Expected(job[g])

HeldIsAlone ==
  held # Nothing /\ held.live =>
    \A g \in Unacked : job[g].live => job[g].part # held.part

AllReached ==
  /\ held # Nothing => Reached(held)
  /\ \A g \in Busy : Reached(job[g])

AckedWasHandled ==
  \A g \in Goroutines : work[g] = "acking" => <<job[g].part, job[g].seq>> \in handled

\* The inductive invariant: a commit moves an offset to the next message,
\* because only one live delivery of a partition is unacknowledged.
OffsetInv ==
  /\ LiveAreExpected
  /\ HeldIsAlone
  /\ OneLiveDelivery
  /\ AllReached
  /\ AckedWasHandled
  /\ CommittedWasHandled

LEMMA OffsetInit == Init => OffsetInv
BY DEF Init, OffsetInv, LiveAreExpected, HeldIsAlone, OneLiveDelivery, AllReached,
       AckedWasHandled, CommittedWasHandled, Unacked, Busy

\* A step that leaves messages, goroutines and offsets alone, or only drops
\* the message held.
LEMMA OffsetFrame ==
  ASSUME OffsetInv, UNCHANGED <<work, job, waiting, committed, handled>>,
         held' \in {held, Nothing}
  PROVE  OffsetInv'
BY DEF OffsetInv, LiveAreExpected, Expected, HeldIsAlone, OneLiveDelivery, AllReached,
       Reached, AckedWasHandled, CommittedWasHandled, Unacked, Busy

LEMMA OffsetStep == SlotInv /\ OffsetInv /\ [Next]_vars => OffsetInv'
<1> SUFFICES ASSUME SlotInv, OffsetInv, [Next]_vars
             PROVE  OffsetInv'
  OBVIOUS
<1> USE NothingAssumption
<1> USE DEF Goto, WorkGoto
<1>1. CASE \/ Subscribe \/ SubscribeFails \/ SeeShutdown \/ AcquireFails
           \/ WaitForInFlight \/ Stop \/ Cancel \/ CloseChannel \/ UNCHANGED vars
  BY <1>1, OffsetFrame
  DEF Subscribe, SubscribeFails, SeeShutdown, AcquireFails, WaitForInFlight, Stop,
      Cancel, CloseChannel
<1>2. ASSUME NEW p \in Partitions, Receive(p)
      PROVE  OffsetInv'
  <2> DEFINE d == [part |-> p, seq |-> committed[p] + 1, live |-> TRUE]
  <2>1. \A g \in Unacked : job[g].live => job[g].part # p
    BY <1>2 DEF Receive, OffsetInv, LiveAreExpected, Expected
  <2>2. /\ held = Nothing
        /\ held' \in {Nothing, d}
        /\ UNCHANGED <<work, job, committed, handled>>
    BY <1>2 DEF Receive, SlotInv, Placed
  <2>3. \A q \in Partitions : waiting[q] => waiting'[q]
    BY <1>2 DEF Receive, SlotInv, TypeOK
  <2>4. \A g \in Unacked : job[g] \in Deliveries
    BY DEF Unacked, Busy, SlotInv, TypeOK, Placed
  <2>5. LiveAreExpected'
    <3>1. d.part = p /\ d.seq = committed[p] + 1
      OBVIOUS
    <3>2. waiting'[p]
      BY <1>2 DEF Receive, SlotInv, TypeOK
    <3>3. \A g \in Unacked : job[g].part \in Partitions
      BY <2>4 DEF Deliveries
    <3> QED
      BY <2>2, <2>3, <3>1, <3>2, <3>3 DEF OffsetInv, LiveAreExpected, Expected, Unacked
  <2>6. HeldIsAlone'
    BY <2>1, <2>2 DEF HeldIsAlone, Unacked
  <2>7. AllReached'
    <3>1. Reached(d)
      BY DEF Reached, OffsetInv, CommittedWasHandled, SlotInv, TypeOK
    <3> QED
      BY <2>2, <3>1 DEF AllReached, Reached, OffsetInv, Busy
  <2>8. OneLiveDelivery' /\ AckedWasHandled' /\ CommittedWasHandled'
    BY <2>2 DEF OneLiveDelivery, Unacked, AckedWasHandled, CommittedWasHandled, OffsetInv
  <2> QED
    BY <2>5, <2>6, <2>7, <2>8 DEF OffsetInv
<1>3. ASSUME NEW g \in Goroutines, Acquire(g)
      PROVE  OffsetInv'
  <2>1. /\ Unacked' = Unacked \cup {g}
        /\ Busy' = Busy \cup {g}
        /\ g \notin Unacked
        /\ job'[g] = held
        /\ \A h \in Goroutines : h # g => job'[h] = job[h] /\ work'[h] = work[h]
        /\ work'[g] = "processing"
        /\ held # Nothing /\ held' = Nothing
        /\ UNCHANGED <<waiting, committed, handled>>
    BY <1>3 DEF Acquire, Unacked, Busy, SlotInv, TypeOK, Placed
  <2>2. LiveAreExpected'
    BY <2>1 DEF LiveAreExpected, Expected, OffsetInv, Unacked
  <2>3. HeldIsAlone' /\ AckedWasHandled' /\ CommittedWasHandled'
    BY <2>1 DEF HeldIsAlone, AckedWasHandled, CommittedWasHandled, OffsetInv
  <2>4. OneLiveDelivery'
    BY <2>1 DEF HeldIsAlone, OneLiveDelivery, OffsetInv, Unacked
  <2>5. AllReached'
    BY <2>1 DEF AllReached, Reached, OffsetInv, Busy
  <2> QED
    BY <2>2, <2>3, <2>4, <2>5 DEF OffsetInv
<1>4. ASSUME NEW g \in Goroutines, ProcessorReturns(g)
      PROVE  OffsetInv'
  <2>1. /\ Unacked' = Unacked
        /\ Busy' = Busy
        /\ handled \subseteq handled'
        /\ <<job[g].part, job[g].seq>> \in handled'
        /\ \A h \in Goroutines : h # g => work'[h] = work[h]
        /\ UNCHANGED <<held, job, waiting, committed>>
    BY <1>4 DEF ProcessorReturns, Unacked, Busy, SlotInv, TypeOK
  <2>2. LiveAreExpected' /\ HeldIsAlone' /\ OneLiveDelivery'
    BY <2>1 DEF LiveAreExpected, Expected, HeldIsAlone, OneLiveDelivery, OffsetInv, Unacked
  <2>3. AllReached' /\ AckedWasHandled' /\ CommittedWasHandled'
    BY <2>1 DEF AllReached, Reached, AckedWasHandled, CommittedWasHandled, OffsetInv
  <2> QED
    BY <2>2, <2>3 DEF OffsetInv
<1>5. ASSUME NEW g \in Goroutines, Ack(g)
      PROVE  OffsetInv'
  <2>1. /\ Unacked' = Unacked \ {g}
        /\ Busy' = Busy
        /\ g \in Unacked
        /\ work[g] = "acking" /\ work'[g] = "releasing"
        /\ \A h \in Goroutines : h # g => work'[h] = work[h]
        /\ UNCHANGED <<held, job, handled>>
        /\ job[g] \in Deliveries
    BY <1>5 DEF Ack, Unacked, Busy, SlotInv, TypeOK, Placed
  <2>2. AllReached' /\ HeldIsAlone' /\ OneLiveDelivery' /\ AckedWasHandled'
    BY <2>1
    DEF AllReached, Reached, HeldIsAlone, OneLiveDelivery, AckedWasHandled, OffsetInv, Unacked
  <2>3. CASE UNCHANGED <<committed, waiting>>
    BY <2>1, <2>2, <2>3 DEF LiveAreExpected, Expected, CommittedWasHandled, OffsetInv
  <2>4. CASE job[g].live /\ Commit(job[g])
    <3> DEFINE p == job[g].part
    <3>1. /\ p \in Partitions
          /\ committed[p] \in Nat
          /\ job[g].seq = committed[p] + 1
          /\ committed'[p] = committed[p] + 1
          /\ \A q \in Partitions \ {p} :
               committed'[q] = committed[q] /\ waiting'[q] = waiting[q]
      BY <2>1, <2>4 DEF Commit, SlotInv, TypeOK, Deliveries, OffsetInv, LiveAreExpected, Expected
    <3>2. CommittedWasHandled'
      <4>1. <<p, committed[p] + 1>> \in handled
        BY <2>1, <3>1 DEF OffsetInv, AckedWasHandled
      <4>2. \A i \in 1..(committed[p] + 1) : i \in 1..committed[p] \/ i = committed[p] + 1
        BY <3>1
      <4> QED
        BY <2>1, <3>1, <4>1, <4>2 DEF CommittedWasHandled, OffsetInv
    <3>3. LiveAreExpected'
      <4>1. \A h \in Unacked' : job[h].live => job[h].part \in Partitions \ {p}
        BY <2>1, <2>4
        DEF OneLiveDelivery, OffsetInv, Unacked, SlotInv, TypeOK, Placed, Busy, Deliveries
      <4>2. held # Nothing /\ held.live => held.part \in Partitions \ {p}
        BY <2>1, <2>4 DEF HeldIsAlone, OffsetInv, SlotInv, TypeOK, Deliveries
      <4> QED
        BY <2>1, <3>1, <4>1, <4>2 DEF LiveAreExpected, Expected, OffsetInv
    <3> QED
      BY <2>2, <3>2, <3>3 DEF OffsetInv
  <2> QED
    BY <1>5, <2>3, <2>4 DEF Ack, Commit
<1>6. ASSUME NEW g \in Goroutines, Release(g)
      PROVE  OffsetInv'
  <2>1. /\ Unacked' = Unacked
        /\ Busy' = Busy \ {g}
        /\ work[g] = "releasing" /\ work'[g] = "idle"
        /\ \A h \in Goroutines : h # g => job'[h] = job[h] /\ work'[h] = work[h]
        /\ UNCHANGED <<held, handled, waiting, committed>>
    BY <1>6 DEF Release, Unacked, Busy, SlotInv, TypeOK
  <2>2. \A h \in Unacked : job'[h] = job[h]
    BY <2>1 DEF Unacked
  <2>3. LiveAreExpected' /\ HeldIsAlone' /\ OneLiveDelivery'
    BY <2>1, <2>2 DEF LiveAreExpected, Expected, HeldIsAlone, OneLiveDelivery, OffsetInv, Unacked
  <2>4. AllReached' /\ AckedWasHandled' /\ CommittedWasHandled'
    BY <2>1 DEF AllReached, Reached, AckedWasHandled, CommittedWasHandled, OffsetInv, Busy
  <2> QED
    BY <2>3, <2>4 DEF OffsetInv
<1>7. ASSUME NEW p \in Partitions, Rebalance(p)
      PROVE  OffsetInv'
  <2>1. \A d \in Deliveries \cup {Nothing} :
          /\ Expire(d, p) = Nothing <=> d = Nothing
          /\ d # Nothing => /\ Expire(d, p).part = d.part
                            /\ Expire(d, p).seq = d.seq
                            /\ Expire(d, p).live <=> d.live /\ d.part # p
    BY DEF Expire, Deliveries
  <2>2. /\ Unacked' = Unacked /\ Busy' = Busy
        /\ held' = Expire(held, p)
        /\ \A g \in Goroutines : job'[g] = Expire(job[g], p)
        /\ \A q \in Partitions \ {p} : waiting'[q] = waiting[q]
        /\ UNCHANGED <<work, committed, handled>>
    BY <1>7 DEF Rebalance, Unacked, Busy, SlotInv, TypeOK
  <2>3. held \in Deliveries \cup {Nothing} /\ \A g \in Busy : job[g] \in Deliveries
    BY DEF SlotInv, TypeOK, Placed, Busy
  <2>4. Unacked \subseteq Busy
    BY DEF Unacked, Busy
  <2>5. \A g \in Busy :
          /\ job'[g].part = job[g].part
          /\ job'[g].seq = job[g].seq
          /\ job'[g].live <=> job[g].live /\ job[g].part # p
    BY <2>1, <2>2, <2>3 DEF Busy
  <2>6. /\ held' = Nothing <=> held = Nothing
        /\ held # Nothing => /\ held'.part = held.part
                             /\ held'.seq = held.seq
                             /\ held'.live <=> held.live /\ held.part # p
    BY <2>1, <2>2, <2>3
  <2>7. LiveAreExpected'
    <3>1. ASSUME held' # Nothing, held'.live
          PROVE  Expected(held)'
      <4>1. held.part \in Partitions \ {p} /\ Expected(held)
        BY <2>3, <2>6, <3>1 DEF OffsetInv, LiveAreExpected, Deliveries
      <4> QED
        BY <2>2, <2>6, <3>1, <4>1 DEF Expected
    <3>2. ASSUME NEW g \in Unacked, job'[g].live
          PROVE  Expected(job[g])'
      <4>1. job[g].part \in Partitions \ {p} /\ Expected(job[g])
        BY <2>3, <2>4, <2>5, <3>2 DEF OffsetInv, LiveAreExpected, Deliveries
      <4> QED
        BY <2>2, <2>4, <2>5, <3>2, <4>1 DEF Expected
    <3> QED
      BY <2>2, <3>1, <3>2 DEF LiveAreExpected
  <2>8. HeldIsAlone' /\ OneLiveDelivery'
    BY <2>2, <2>4, <2>5, <2>6 DEF HeldIsAlone, OneLiveDelivery, OffsetInv, Unacked
  <2>9. AllReached'
    <3>1. held' # Nothing => Reached(held)'
      BY <2>2, <2>6 DEF AllReached, Reached, OffsetInv
    <3>2. \A g \in Busy : Reached(job[g])'
      BY <2>2, <2>5 DEF AllReached, Reached, OffsetInv
    <3> QED
      BY <2>2, <3>1, <3>2 DEF AllReached
  <2>10. AckedWasHandled' /\ CommittedWasHandled'
    <3>1. ASSUME NEW g \in Goroutines, work'[g] = "acking"
          PROVE  <<job'[g].part, job'[g].seq>> \in handled'
      <4>1. g \in Busy /\ work[g] = "acking"
        BY <2>2, <3>1 DEF Busy
      <4> QED
        BY <2>2, <2>5, <4>1 DEF OffsetInv, AckedWasHandled
    <3> QED
      BY <2>2, <3>1 DEF AckedWasHandled, CommittedWasHandled, OffsetInv
  <2> QED
    BY <2>7, <2>8, <2>9, <2>10 DEF OffsetInv
<1>8. CASE Crash \/ Restart
  BY <1>8
  DEF Crash, Restart, StartOver, OffsetInv, LiveAreExpected, HeldIsAlone, OneLiveDelivery,
      AllReached, AckedWasHandled, CommittedWasHandled, Unacked, Busy
<1> QED
  BY <1>1, <1>2, <1>3, <1>4, <1>5, <1>6, <1>7, <1>8 DEF Next, Loop, Goroutine, World

\* A partition's live deliveries, offsets and handled messages agree in every
\* reachable state.
THEOREM OffsetInvariant == Spec => []OffsetInv
<1> QED
  BY SlotInvariant, OffsetInit, OffsetStep, PTL DEF Spec

\* CommittedWasHandled: no offset is committed past a message that no
\* processor has returned from, whatever crashes and rebalances come.
THEOREM CommitsFollowHandling == Spec => []CommittedWasHandled
<1>1. OffsetInv => CommittedWasHandled
  BY DEF OffsetInv
<1> QED
  BY <1>1, OffsetInvariant, PTL

\* HandledInOrder: a partition's messages get their first turn in order.
THEOREM HandlingInOrder == Spec => []HandledInOrder
<1>1. OffsetInv => HandledInOrder
  BY DEF OffsetInv, AllReached, Reached, HandledInOrder
<1> QED
  BY <1>1, OffsetInvariant, PTL

\* OneLiveDelivery: in one session a partition's messages are handled one at
\* a time.
THEOREM OneDeliveryAtATime == Spec => []OneLiveDelivery
<1>1. OffsetInv => OneLiveDelivery
  BY DEF OffsetInv
<1> QED
  BY <1>1, OffsetInvariant, PTL

-----------------------------------------------------------------------------
(* Messages that wait, and messages that come back                         *)

LEMMA ForgottenInit == Init => NoPartitionForgotten
BY DEF Init, NoPartitionForgotten

\* A step that leaves sessions, messages and goroutines alone.
LEMMA ForgottenFrame ==
  ASSUME NoPartitionForgotten, UNCHANGED <<held, work, job, waiting>>, cancelled => cancelled'
  PROVE  NoPartitionForgotten'
BY DEF NoPartitionForgotten, Carries, Unacked

LEMMA ForgottenStep == SlotInv /\ NoPartitionForgotten /\ [Next]_vars => NoPartitionForgotten'
<1> SUFFICES ASSUME SlotInv, NoPartitionForgotten, [Next]_vars, ~cancelled',
                    NEW p \in Partitions, waiting'[p]
             PROVE  \/ Carries(held, p)'
                    \/ \E g \in Unacked' : Carries(job[g], p)'
  BY DEF NoPartitionForgotten
<1> USE NothingAssumption
<1> USE DEF Goto, WorkGoto
<1>1. CASE \/ Subscribe \/ SubscribeFails \/ SeeShutdown \/ WaitForInFlight \/ Stop
           \/ Cancel \/ CloseChannel \/ UNCHANGED vars
  BY <1>1, ForgottenFrame
  DEF Subscribe, SubscribeFails, SeeShutdown, WaitForInFlight, Stop, Cancel, CloseChannel,
      NoPartitionForgotten
<1>2. CASE AcquireFails
  BY <1>2 DEF AcquireFails
<1>3. ASSUME NEW q \in Partitions, Receive(q)
      PROVE  \/ Carries(held, p)'
             \/ \E g \in Unacked' : Carries(job[g], p)'
  <2> DEFINE d == [part |-> q, seq |-> committed[q] + 1, live |-> TRUE]
  <2>1. d \in Deliveries
    BY DEF Deliveries, SlotInv, TypeOK
  <2>2. d # Nothing /\ d.live /\ d.part = q
    BY <2>1
  <2>3. ~cancelled /\ held' = d /\ held = Nothing /\ UNCHANGED <<work, job>>
    BY <1>3 DEF Receive, SlotInv, Placed
  <2>4. p # q => waiting[p]
    BY <1>3 DEF Receive, SlotInv, TypeOK
  <2>5. CASE p = q
    BY <2>2, <2>3, <2>5 DEF Carries
  <2>6. CASE p # q
    BY <2>3, <2>4, <2>6 DEF NoPartitionForgotten, Carries, Unacked
  <2> QED
    BY <2>5, <2>6
<1>4. ASSUME NEW g \in Goroutines, Acquire(g)
      PROVE  \/ Carries(held, p)'
             \/ \E h \in Unacked' : Carries(job[h], p)'
  <2>1. /\ job'[g] = held /\ g \in Unacked'
        /\ \A h \in Unacked : h \in Unacked' /\ job'[h] = job[h]
        /\ UNCHANGED <<cancelled, waiting>>
    BY <1>4 DEF Acquire, Unacked, SlotInv, TypeOK
  <2> QED
    BY <2>1 DEF NoPartitionForgotten, Carries
<1>5. ASSUME NEW g \in Goroutines, ProcessorReturns(g) \/ Release(g)
      PROVE  \/ Carries(held, p)'
             \/ \E h \in Unacked' : Carries(job[h], p)'
  <2>1. /\ \A h \in Unacked : h \in Unacked' /\ job'[h] = job[h]
        /\ UNCHANGED <<held, cancelled, waiting>>
    BY <1>5 DEF ProcessorReturns, Release, Unacked, SlotInv, TypeOK
  <2> QED
    BY <2>1 DEF NoPartitionForgotten, Carries
<1>6. ASSUME NEW g \in Goroutines, Ack(g)
      PROVE  \/ Carries(held, p)'
             \/ \E h \in Unacked' : Carries(job[h], p)'
  <2>1. /\ \A h \in Unacked \ {g} : h \in Unacked'
        /\ UNCHANGED <<held, job, cancelled>>
        /\ Commit(job[g])
    BY <1>6 DEF Ack, Unacked, SlotInv, TypeOK
  <2>2. waiting[p] /\ ~(job[g].live /\ job[g].part = p)
    <3>1. CASE job[g].live
      <4>1. job[g] \in Deliveries /\ waiting \in [Partitions -> BOOLEAN]
        BY <1>6 DEF Ack, Busy, SlotInv, TypeOK, Placed
      <4> QED
        BY <2>1, <3>1, <4>1 DEF Commit, Deliveries
    <3>2. CASE ~job[g].live
      BY <2>1, <3>2 DEF Commit
    <3> QED
      BY <3>1, <3>2
  <2> QED
    BY <2>1, <2>2 DEF NoPartitionForgotten, Carries
<1>7. ASSUME NEW q \in Partitions, Rebalance(q)
      PROVE  \/ Carries(held, p)'
             \/ \E g \in Unacked' : Carries(job[g], p)'
  <2>1. p # q /\ waiting[p] /\ UNCHANGED <<work, cancelled>>
    BY <1>7 DEF Rebalance, SlotInv, TypeOK
  <2>2. held' = Expire(held, q) /\ \A g \in Goroutines : job'[g] = Expire(job[g], q)
    BY <1>7 DEF Rebalance
  <2>3. \A d : Carries(d, p) => Carries(Expire(d, q), p)
    BY <2>1 DEF Carries, Expire
  <2>4. Unacked' = Unacked
    BY <2>1 DEF Unacked
  <2>5. CASE Carries(held, p)
    BY <2>2, <2>3, <2>5 DEF Carries
  <2>6. ASSUME NEW g \in Unacked, Carries(job[g], p)
        PROVE  Carries(job[g], p)'
    BY <2>2, <2>3, <2>6 DEF Carries, Unacked
  <2> QED
    BY <2>1, <2>4, <2>5, <2>6 DEF NoPartitionForgotten
<1>8. CASE Crash \/ Restart
  BY <1>8 DEF Crash, Restart, StartOver
<1> QED
  BY <1>1, <1>2, <1>3, <1>4, <1>5, <1>6, <1>7, <1>8 DEF Next, Loop, Goroutine, World

\* NoPartitionForgotten: until the context is done, a partition that waits has
\* a live delivery on the way to its acknowledgement.
THEOREM NothingIsForgotten == Spec => []NoPartitionForgotten
<1> QED
  BY SlotInvariant, ForgottenInit, ForgottenStep, PTL DEF Spec

\* The consumer is on its way out: the next start is paid for already.
Leaving == cancelled \/ stage \in {"returned", "stopped"}

\* The inductive invariant: a partition that may receive its message again has
\* a disruption left that has not brought the message back.
RepeatsInv ==
  /\ stage = "draining" => cancelled
  /\ closed => cancelled \/ stage = "stopped"
  /\ Leaving => \A p \in Partitions : attempts[p] <= disruptions
  /\ \A p \in Partitions : attempts[p] <= 1 + disruptions
  /\ ~Leaving => \A p \in Partitions : ~waiting[p] => attempts[p] <= disruptions

LEMMA RepeatsInit == Init => RepeatsInv
BY DEF Init, RepeatsInv, Leaving

LEMMA RepeatsStep == SlotInv /\ RepeatsInv /\ [Next]_vars => RepeatsInv'
<1> SUFFICES ASSUME SlotInv, RepeatsInv, [Next]_vars
             PROVE  RepeatsInv'
  OBVIOUS
<1> USE DEF Goto, WorkGoto
<1>t. /\ attempts \in [Partitions -> Nat] /\ waiting \in [Partitions -> BOOLEAN]
      /\ disruptions \in Nat /\ cancelled \in BOOLEAN /\ closed \in BOOLEAN
  BY DEF SlotInv, TypeOK
<1>1. CASE \/ Subscribe \/ SeeShutdown \/ AcquireFails \/ WaitForInFlight \/ Stop
           \/ CloseChannel \/ (\E g \in Goroutines : Acquire(g))
           \/ UNCHANGED vars
  BY <1>1, <1>t
  DEF Subscribe, SeeShutdown, AcquireFails, WaitForInFlight, Stop, CloseChannel, Acquire,
      RepeatsInv, Leaving
<1>2. CASE SubscribeFails
  BY <1>2, <1>t DEF SubscribeFails, Disrupt, RepeatsInv, Leaving
<1>3. ASSUME NEW p \in Partitions, Receive(p)
      PROVE  RepeatsInv'
  <2>1. CASE cancelled
    BY <1>3, <1>t, <2>1 DEF Receive, RepeatsInv, Leaving
  <2>2. CASE ~cancelled
    <3>1. /\ attempts' = [attempts EXCEPT ![p] = attempts[p] + 1]
          /\ waiting' = [waiting EXCEPT ![p] = TRUE]
          /\ stage = "select" /\ stage' = "acquire" /\ ~waiting[p]
          /\ UNCHANGED <<cancelled, closed, disruptions>>
      BY <1>3, <2>2 DEF Receive
    <3>2. attempts'[p] <= 1 + disruptions
      BY <1>t, <2>2, <3>1 DEF RepeatsInv, Leaving
    <3> QED
      BY <1>t, <2>2, <3>1, <3>2 DEF RepeatsInv, Leaving
  <2> QED
    BY <2>1, <2>2
<1>4. ASSUME NEW g \in Goroutines, ProcessorReturns(g) \/ Release(g)
      PROVE  RepeatsInv'
  BY <1>4, <1>t DEF ProcessorReturns, Release, RepeatsInv, Leaving
<1>5. ASSUME NEW g \in Goroutines, Ack(g)
      PROVE  RepeatsInv'
  <2>1. UNCHANGED <<stage, cancelled, closed, disruptions>>
    BY <1>5 DEF Ack
  <2>2. CASE UNCHANGED <<waiting, attempts>>
    BY <1>t, <2>1, <2>2 DEF RepeatsInv, Leaving
  <2>3. CASE Commit(job[g]) /\ job[g].live
    <3>1. job[g].part \in Partitions
      BY <1>5 DEF Ack, Busy, SlotInv, TypeOK, Placed, Deliveries
    <3>2. \A p \in Partitions :
            \/ attempts'[p] = 0
            \/ attempts'[p] = attempts[p] /\ waiting'[p] = waiting[p]
      BY <1>t, <2>3, <3>1 DEF Commit
    <3> QED
      BY <1>t, <2>1, <3>2 DEF RepeatsInv, Leaving
  <2> QED
    BY <1>5, <2>2, <2>3 DEF Ack, Commit
<1>6. CASE Cancel
  BY <1>6, <1>t DEF Cancel, Disrupt, RepeatsInv, Leaving
<1>7. ASSUME NEW p \in Partitions, Rebalance(p)
      PROVE  RepeatsInv'
  BY <1>7, <1>t DEF Rebalance, Disrupt, RepeatsInv, Leaving
<1>8. CASE Crash \/ Restart
  BY <1>8, <1>t DEF Crash, Restart, StartOver, Disrupt, RepeatsInv, Leaving
<1> QED
  BY <1>1, <1>2, <1>3, <1>4, <1>5, <1>6, <1>7, <1>8 DEF Next, Loop, Goroutine, World

\* RepeatsBounded: no message is handed to a processor more often than once
\* and once for each disruption.
THEOREM RepeatsAreBounded == Spec => []RepeatsBounded
<1>1. RepeatsInv => RepeatsBounded
  BY DEF RepeatsInv, RepeatsBounded
<1> QED
  BY <1>1, SlotInvariant, RepeatsInit, RepeatsStep, PTL DEF Spec

-----------------------------------------------------------------------------
(* The promise                                                             *)

\* Every message in the process is one of its partition's.
InRange ==
  /\ held # Nothing => held.seq \in 1..Length
  /\ \A g \in Busy : job[g].seq \in 1..Length

LEMMA RangeInit == Init => InRange
BY DEF Init, InRange, Busy

LEMMA RangeStep == SlotInv /\ InRange /\ [Next]_vars => InRange'
<1> SUFFICES ASSUME SlotInv, InRange, [Next]_vars
             PROVE  InRange'
  OBVIOUS
<1> USE NothingAssumption
<1> USE DEF Goto, WorkGoto
<1>1. CASE \/ UNCHANGED <<held, work, job>>
           \/ held' = Nothing /\ UNCHANGED <<work, job>>
  BY <1>1 DEF InRange, Busy
<1>2. ASSUME NEW p \in Partitions, Receive(p)
      PROVE  InRange'
  <2> DEFINE d == [part |-> p, seq |-> committed[p] + 1, live |-> TRUE]
  <2>1. committed[p] + 1 \in 1..Length
    BY <1>2, LimitsAssumption DEF Receive, SlotInv, TypeOK
  <2>2. d.seq \in 1..Length
    BY <2>1
  <2>3. held' \in {held, d} /\ UNCHANGED <<work, job>>
    BY <1>2 DEF Receive
  <2> QED
    BY <2>2, <2>3 DEF InRange, Busy
<1>3. ASSUME NEW g \in Goroutines, Acquire(g)
      PROVE  InRange'
  <2>1. /\ held # Nothing /\ held' = Nothing
        /\ job'[g] = held
        /\ \A h \in Goroutines : h # g => job'[h] = job[h] /\ work'[h] = work[h]
    BY <1>3 DEF Acquire, SlotInv, TypeOK, Placed
  <2> QED
    BY <2>1 DEF InRange, Busy
<1>4. ASSUME NEW g \in Goroutines, ProcessorReturns(g) \/ Ack(g)
      PROVE  InRange'
  BY <1>4 DEF ProcessorReturns, Ack, InRange, Busy, SlotInv, TypeOK
<1>5. ASSUME NEW g \in Goroutines, Release(g)
      PROVE  InRange'
  BY <1>5 DEF Release, InRange, Busy, SlotInv, TypeOK
<1>6. ASSUME NEW p \in Partitions, Rebalance(p)
      PROVE  InRange'
  <2>1. \A d \in Deliveries \cup {Nothing} :
          /\ Expire(d, p) # Nothing => d # Nothing
          /\ d # Nothing => Expire(d, p).seq = d.seq
    BY DEF Expire, Deliveries
  <2>2. /\ held' = Expire(held, p)
        /\ \A g \in Goroutines : job'[g] = Expire(job[g], p)
        /\ UNCHANGED work
    BY <1>6 DEF Rebalance
  <2>3. held \in Deliveries \cup {Nothing} /\ \A g \in Busy : job[g] \in Deliveries
    BY DEF SlotInv, TypeOK, Placed, Busy
  <2>4. held' # Nothing => held'.seq \in 1..Length
    BY <2>1, <2>2, <2>3 DEF InRange
  <2>5. ASSUME NEW g \in Busy'
        PROVE  job'[g].seq \in 1..Length
    <3>1. g \in Busy
      BY <2>2 DEF Busy
    <3> QED
      BY <2>1, <2>2, <2>3, <3>1 DEF InRange, Busy
  <2> QED
    BY <2>4, <2>5 DEF InRange
<1>7. CASE Crash \/ Restart
  BY <1>7 DEF Crash, Restart, StartOver, InRange, Busy
<1>8. CASE \/ Subscribe \/ SubscribeFails \/ SeeShutdown \/ AcquireFails
           \/ WaitForInFlight \/ Stop \/ Cancel \/ CloseChannel \/ UNCHANGED vars
  BY <1>1, <1>8
  DEF Subscribe, SubscribeFails, SeeShutdown, AcquireFails, WaitForInFlight, Stop,
      Cancel, CloseChannel
<1> QED
  BY <1>2, <1>3, <1>4, <1>5, <1>6, <1>7, <1>8 DEF Next, Loop, Goroutine, World

\* Every step is a step of the promise, or none of its business.
LEMMA PromiseStep ==
  ASSUME SlotInv, OffsetInv, InRange, [Next]_vars
  PROVE  [Promise!Next]_(Promise!vars)
<1> USE NothingAssumption
<1> USE DEF Goto, WorkGoto, Promise!vars
<1>1. CASE UNCHANGED <<committed, handled>>
  BY <1>1
<1>2. ASSUME NEW g \in Goroutines, ProcessorReturns(g)
      PROVE  [Promise!Next]_(Promise!vars)
  <2> DEFINE p == job[g].part
             i == job[g].seq
  <2>1. g \in Busy /\ job[g] \in Deliveries
    BY <1>2 DEF ProcessorReturns, Busy, SlotInv, TypeOK, Placed
  <2>2. p \in Partitions /\ i \in 1..Length
    BY <2>1 DEF InRange, Deliveries
  <2>3. Promise!Handle(p, i)
    BY <1>2, <2>1 DEF ProcessorReturns, OffsetInv, AllReached, Reached, Promise!Handle
  <2> QED
    BY <2>2, <2>3 DEF Promise!Next
<1>3. ASSUME NEW g \in Goroutines, Ack(g)
      PROVE  [Promise!Next]_(Promise!vars)
  <2> DEFINE p == job[g].part
  <2>1. CASE UNCHANGED <<committed, handled>>
    BY <2>1
  <2>2. CASE job[g].live /\ Commit(job[g])
    <3>1. g \in Unacked /\ work[g] = "acking" /\ job[g] \in Deliveries
      BY <1>3 DEF Ack, Unacked, Busy, SlotInv, TypeOK, Placed
    <3>2. p \in Partitions /\ job[g].seq = committed[p] + 1
      BY <2>2, <3>1 DEF Deliveries, OffsetInv, LiveAreExpected, Expected
    <3>3. <<p, committed[p] + 1>> \in handled
      BY <3>1, <3>2 DEF OffsetInv, AckedWasHandled
    <3>4. committed' = [committed EXCEPT ![p] = committed[p] + 1] /\ UNCHANGED handled
      BY <1>3, <2>2, <3>2 DEF Ack, Commit
    <3> QED
      BY <3>2, <3>3, <3>4 DEF Promise!Next, Promise!Commit
  <2> QED
    BY <1>3, <2>1, <2>2 DEF Ack, Commit
<1>4. CASE \/ \E p \in Partitions : Receive(p) \/ Rebalance(p)
           \/ \E g \in Goroutines : Acquire(g) \/ Release(g)
           \/ Crash \/ Restart
  BY <1>1, <1>4 DEF Receive, Rebalance, Acquire, Release, Crash, Restart, StartOver
<1>5. CASE \/ Subscribe \/ SubscribeFails \/ SeeShutdown \/ AcquireFails
           \/ WaitForInFlight \/ Stop \/ Cancel \/ CloseChannel \/ UNCHANGED vars
  BY <1>1, <1>5
  DEF Subscribe, SubscribeFails, SeeShutdown, AcquireFails, WaitForInFlight, Stop,
      Cancel, CloseChannel
<1> QED
  BY <1>2, <1>3, <1>4, <1>5 DEF Next, Loop, Goroutine, World

\* RefinesAtLeastOnce: the consumer implements AtLeastOnce, for any number of
\* partitions, messages, slots, goroutines and disruptions.
THEOREM KeepsPromise == Spec => RefinesAtLeastOnce
<1>1. Init => Promise!Init
  BY DEF Init, Promise!Init
<1>2. Spec => []InRange
  BY SlotInvariant, RangeInit, RangeStep, PTL DEF Spec
<1> QED
  BY <1>1, <1>2, SlotInvariant, OffsetInvariant, PromiseStep, PTL
  DEF Spec, RefinesAtLeastOnce, Promise!Spec
=============================================================================
