----------------------------- MODULE Dispatcher -----------------------------
(***************************************************************************)
(* The consumer of one topic: kafka.Consumer.Start and Stop, and the loop  *)
(* they wrap, metriclistener.processMessage.  The loop takes messages from *)
(* a channel and hands each to a goroutine, at most MaxInFlight at a time  *)
(* (a semaphore); a goroutine acknowledges its message whatever came of    *)
(* it, and the loop returns only when every goroutine is done.             *)
(*                                                                         *)
(* The broker and the client library behind the channel are outside the    *)
(* repository.  As the code uses them: a partition's next message comes    *)
(* when the last one is acknowledged, which commits its offset; a consumer *)
(* that starts over, or gets a partition back, goes on from the committed  *)
(* offset.                                                                 *)
(***************************************************************************)
EXTENDS Integers, FiniteSets

CONSTANTS Partitions,
          Length,          \* bound: the messages of each partition
          MaxInFlight,     \* MAX_IN_FLIGHT, at least 1 (NewConsumer)
          Goroutines,      \* names for the goroutines of messages
          Nothing,         \* no message
          MaxDisruptions   \* bound: shutdowns, crashes and rebalances

\* A message on its way through the process; live while the session that
\* delivered it lasts, so that its acknowledgement counts.
Deliveries == [part : Partitions, seq : Nat, live : BOOLEAN]

ASSUME LimitsAssumption ==
  MaxInFlight \in Nat \ {0} /\ Length \in Nat /\ MaxDisruptions \in Nat
ASSUME NothingAssumption == Nothing \notin Deliveries
ASSUME GoroutinesAssumption == IsFiniteSet(Goroutines)

VARIABLES stage,        \* where the loop stands
          held,         \* the message it has received and not handed on
          free,         \* the semaphore: slots left
          work,         \* where each goroutine stands
          job,          \* the message it handles
          cancelled,    \* the context is done
          closed,       \* the channel is closed
          waiting,      \* the partition's message is out, not acknowledged
          committed,    \* the broker: messages acknowledged per partition
          attempts,     \* history: how often its next message was handed on
          handled,      \* history: the messages a processor has returned from
          disruptions   \* counts towards MaxDisruptions

vars == <<stage, held, free, work, job, cancelled, closed, waiting, committed,
          attempts, handled, disruptions>>

Stages == {"subscribing", "select", "acquire", "draining", "returned", "stopped"}

TypeOK ==
  /\ stage \in Stages
  /\ held \in Deliveries \cup {Nothing}
  /\ free \in 0..MaxInFlight
  /\ work \in [Goroutines -> {"idle", "processing", "acking", "releasing"}]
  /\ job \in [Goroutines -> Deliveries \cup {Nothing}]
  /\ cancelled \in BOOLEAN
  /\ closed \in BOOLEAN
  /\ waiting \in [Partitions -> BOOLEAN]
  /\ committed \in [Partitions -> Nat]
  /\ attempts \in [Partitions -> Nat]
  /\ handled \in SUBSET (Partitions \X Nat)
  /\ disruptions \in Nat

Init ==
  /\ stage = "subscribing"
  /\ held = Nothing
  /\ free = MaxInFlight
  /\ work = [g \in Goroutines |-> "idle"]
  /\ job = [g \in Goroutines |-> Nothing]
  /\ cancelled = FALSE
  /\ closed = FALSE
  /\ waiting = [p \in Partitions |-> FALSE]
  /\ committed = [p \in Partitions |-> 0]
  /\ attempts = [p \in Partitions |-> 0]
  /\ handled = {}
  /\ disruptions = 0

-----------------------------------------------------------------------------
(* The loop                                                                *)

Goto(from, to) ==
  /\ stage = from
  /\ stage' = to

Disrupt ==
  /\ disruptions < MaxDisruptions
  /\ disruptions' = disruptions + 1

Subscribe ==
  /\ Goto("subscribing", "select")
  /\ UNCHANGED <<held, free, work, job, cancelled, closed, waiting, committed, attempts,
                 handled, disruptions>>

\* Start returns at once: the broker refuses, or the context is done.
SubscribeFails ==
  /\ Goto("subscribing", "returned")
  /\ Disrupt \/ (cancelled /\ UNCHANGED disruptions)
  /\ UNCHANGED <<held, free, work, job, cancelled, closed, waiting, committed, attempts, handled>>

\* One branch of the select: the context is done, or the channel is closed.
SeeShutdown ==
  /\ Goto("select", "draining")
  /\ cancelled \/ closed
  /\ UNCHANGED <<held, free, work, job, cancelled, closed, waiting, committed, attempts,
                 handled, disruptions>>

\* The other branch.  A message received with the context already done is
\* dropped, unacknowledged.
Receive(p) ==
  /\ stage = "select"
  /\ ~closed
  /\ ~waiting[p]
  /\ committed[p] < Length
  /\ waiting' = [waiting EXCEPT ![p] = TRUE]
  /\ IF cancelled
       THEN stage' = "draining" /\ UNCHANGED <<held, attempts>>
       ELSE /\ stage' = "acquire"
            /\ held' = [part |-> p, seq |-> committed[p] + 1, live |-> TRUE]
            /\ attempts' = [attempts EXCEPT ![p] = @ + 1]
  /\ UNCHANGED <<free, work, job, cancelled, closed, committed, handled, disruptions>>

\* The library commits the offset of a message acknowledged in its session,
\* and lets the partition's next message through.
Commit(d) ==
  IF d.live
    THEN /\ committed' = [committed EXCEPT ![d.part] = d.seq]
         /\ waiting' = [waiting EXCEPT ![d.part] = FALSE]
         /\ attempts' = [attempts EXCEPT ![d.part] = 0]
    ELSE UNCHANGED <<committed, waiting, attempts>>

\* Mutant: the loop does not wait for a slot.
Acquire_noWait(g) ==
  /\ Goto("acquire", "select")
  /\ work[g] = "idle"
  /\ free' = free - 1
  /\ work' = [work EXCEPT ![g] = "processing"]
  /\ job' = [job EXCEPT ![g] = held]
  /\ held' = Nothing
  /\ UNCHANGED <<cancelled, closed, waiting, committed, attempts, handled, disruptions>>

\* Mutant: the message is acknowledged when its goroutine starts.
Acquire_acks(g) ==
  /\ Goto("acquire", "select")
  /\ free > 0
  /\ work[g] = "idle"
  /\ free' = free - 1
  /\ work' = [work EXCEPT ![g] = "processing"]
  /\ job' = [job EXCEPT ![g] = held]
  /\ Commit(held)
  /\ held' = Nothing
  /\ UNCHANGED <<cancelled, closed, handled, disruptions>>

\* A slot is free: the message gets a goroutine.
Acquire(g) ==
  /\ Goto("acquire", "select")
  /\ free > 0
  /\ work[g] = "idle"
  /\ free' = free - 1
  /\ work' = [work EXCEPT ![g] = "processing"]
  /\ job' = [job EXCEPT ![g] = held]
  /\ held' = Nothing
  /\ UNCHANGED <<cancelled, closed, waiting, committed, attempts, handled, disruptions>>

\* Mutant: the message given up is acknowledged.
AcquireFails_acks ==
  /\ Goto("acquire", "draining")
  /\ cancelled
  /\ Commit(held)
  /\ held' = Nothing
  /\ UNCHANGED <<free, work, job, cancelled, closed, handled, disruptions>>

\* Mutant: the wait for a slot times out, and the loop takes the next message.
AcquireFails_timeout ==
  /\ Goto("acquire", "select")
  /\ held' = Nothing
  /\ UNCHANGED <<free, work, job, cancelled, closed, waiting, committed, attempts, handled,
                 disruptions>>

\* The context is done before a slot is free: the message is given up.
AcquireFails ==
  /\ Goto("acquire", "draining")
  /\ cancelled
  /\ held' = Nothing
  /\ UNCHANGED <<free, work, job, cancelled, closed, waiting, committed, attempts, handled,
                 disruptions>>

\* Mutant: the loop waits for one slot instead of all of them.
WaitForInFlight_one ==
  /\ Goto("draining", "returned")
  /\ free > 0
  /\ UNCHANGED <<held, free, work, job, cancelled, closed, waiting, committed, attempts,
                 handled, disruptions>>

\* waitForInFlight takes every slot, whatever has become of the context.
WaitForInFlight ==
  /\ Goto("draining", "returned")
  /\ free >= MaxInFlight
  /\ UNCHANGED <<held, free, work, job, cancelled, closed, waiting, committed, attempts,
                 handled, disruptions>>

\* RunConsumer closes the subscriber after Start has returned.
Stop ==
  /\ Goto("returned", "stopped")
  /\ closed' = TRUE
  /\ UNCHANGED <<held, free, work, job, cancelled, waiting, committed, attempts, handled,
                 disruptions>>

-----------------------------------------------------------------------------
(* A message's goroutine                                                   *)

WorkGoto(g, from, to) ==
  /\ work[g] = from
  /\ work' = [work EXCEPT ![g] = to]

\* The processor returns, with an error (a message that cannot be parsed, a
\* context that is done) or without.
ProcessorReturns(g) ==
  /\ WorkGoto(g, "processing", "acking")
  /\ handled' = handled \cup {<<job[g].part, job[g].seq>>}
  /\ UNCHANGED <<stage, held, free, job, cancelled, closed, waiting, committed, attempts,
                 disruptions>>

\* Mutant: the message is not acknowledged.
Ack_missing(g) ==
  /\ WorkGoto(g, "acking", "releasing")
  /\ UNCHANGED <<stage, held, free, job, cancelled, closed, waiting, committed, attempts,
                 handled, disruptions>>

\* Mutant: a message that failed is handed back, to be delivered again.
Ack_nacks(g) ==
  /\ WorkGoto(g, "acking", "releasing")
  /\ \/ Commit(job[g])
     \/ cancelled /\ UNCHANGED <<committed, waiting, attempts>>
     \/ /\ job[g].live
        /\ waiting' = [waiting EXCEPT ![job[g].part] = FALSE]
        /\ UNCHANGED <<committed, attempts>>
  /\ UNCHANGED <<stage, held, free, job, cancelled, closed, handled, disruptions>>

\* While the consumer shuts down, the library may have stopped listening.
Ack(g) ==
  /\ WorkGoto(g, "acking", "releasing")
  /\ \/ Commit(job[g])
     \/ cancelled /\ UNCHANGED <<committed, waiting, attempts>>
  /\ UNCHANGED <<stage, held, free, job, cancelled, closed, handled, disruptions>>

\* Mutant: the slot is not given back.
Release_forgotten(g) ==
  /\ WorkGoto(g, "releasing", "idle")
  /\ job' = [job EXCEPT ![g] = Nothing]
  /\ UNCHANGED <<stage, held, free, cancelled, closed, waiting, committed, attempts, handled,
                 disruptions>>

Release(g) ==
  /\ WorkGoto(g, "releasing", "idle")
  /\ free' = free + 1
  /\ job' = [job EXCEPT ![g] = Nothing]
  /\ UNCHANGED <<stage, held, cancelled, closed, waiting, committed, attempts, handled,
                 disruptions>>

-----------------------------------------------------------------------------
(* The world around                                                        *)

\* A termination signal, or another member of the errgroup has failed.
Cancel ==
  /\ Disrupt
  /\ ~cancelled
  /\ cancelled' = TRUE
  /\ UNCHANGED <<stage, held, free, work, job, closed, waiting, committed, attempts, handled>>

\* The library closes the channel of a context that is done.
CloseChannel ==
  /\ cancelled
  /\ ~closed
  /\ closed' = TRUE
  /\ UNCHANGED <<stage, held, free, work, job, cancelled, waiting, committed, attempts,
                 handled, disruptions>>

Expire(d, p) == IF d # Nothing /\ d.part = p THEN [d EXCEPT !.live = FALSE] ELSE d

\* The group rebalances and the partition comes back with a new session: its
\* message is delivered again, while the first delivery goes on.
Rebalance(p) ==
  /\ Disrupt
  /\ waiting[p]
  /\ waiting' = [waiting EXCEPT ![p] = FALSE]
  /\ held' = Expire(held, p)
  /\ job' = [g \in Goroutines |-> Expire(job[g], p)]
  /\ UNCHANGED <<stage, free, work, cancelled, closed, committed, attempts, handled>>

\* The process is gone, and a new one starts.
StartOver ==
  /\ stage' = "subscribing"
  /\ held' = Nothing
  /\ free' = MaxInFlight
  /\ work' = [g \in Goroutines |-> "idle"]
  /\ job' = [g \in Goroutines |-> Nothing]
  /\ cancelled' = FALSE
  /\ closed' = FALSE
  /\ waiting' = [p \in Partitions |-> FALSE]
  /\ UNCHANGED <<committed, attempts, handled>>

Crash == Disrupt /\ StartOver

\* The consumer has stopped, the process exits and the pod is started again.
Restart == stage = "stopped" /\ StartOver /\ UNCHANGED disruptions

-----------------------------------------------------------------------------

Loop ==
  \/ Subscribe \/ SubscribeFails
  \/ SeeShutdown
  \/ \E p \in Partitions : Receive(p)
  \/ \E g \in Goroutines : Acquire(g)
  \/ AcquireFails
  \/ WaitForInFlight
  \/ Stop

Goroutine(g) == ProcessorReturns(g) \/ Ack(g) \/ Release(g)

World ==
  \/ Cancel \/ CloseChannel
  \/ \E p \in Partitions : Rebalance(p)
  \/ Crash \/ Restart

Next == Loop \/ (\E g \in Goroutines : Goroutine(g)) \/ World

Spec == Init /\ [][Next]_vars

\* Goroutines run, a processor returns (the call of a target has a timeout, the
\* queries and the permission checks are taken to be answered), the channel
\* offers each partition its turn, and the pod is restarted.
Fairness ==
  /\ WF_vars(Loop)
  /\ \A p \in Partitions : SF_vars(Receive(p))
  /\ \A g \in Goroutines : WF_vars(Goroutine(g))
  /\ WF_vars(Restart)

FairSpec == Spec /\ Fairness

-----------------------------------------------------------------------------
(* Properties                                                              *)

Busy == {g \in Goroutines : work[g] # "idle"}

\* The goroutines whose message is not acknowledged yet.
Unacked == {g \in Goroutines : work[g] \in {"processing", "acking"}}

\* Never more than MaxInFlight messages are handled at once, however
\* goroutines end and partitions move.
InFlightBounded == Cardinality(Busy) <= MaxInFlight

\* processMessage returns, and the subscriber is closed, only when no
\* message is being handled any more: a delivery is not cut off half-way.
ReturnsDrained == stage \in {"returned", "stopped"} => Busy = {}

\* A committed offset never skips a message that no processor returned from,
\* so that a crash, a shutdown or a rebalance repeats messages, never drops
\* one.
CommittedWasHandled ==
  \A p \in Partitions : \A i \in 1..committed[p] : <<p, i>> \in handled

\* A partition's messages are handled in order: while one is handled, no
\* earlier one still waits for its first turn.
HandledInOrder ==
  \A g \in Busy : \A i \in 1..(job[g].seq - 1) : <<job[g].part, i>> \in handled

\* Two goroutines work on the same partition at once only when a rebalance
\* has come between: in one session a partition is handled one message at a
\* time, which is all that keeps a vehicle's messages apart.
OneLiveDelivery ==
  \A g, h \in Unacked :
    job[g].live /\ job[h].live /\ job[g].part = job[h].part => g = h

Carries(d, p) == d # Nothing /\ d.live /\ d.part = p

\* While the context is not done, a partition that waits for an acknowledgement
\* has its message in the loop's hands or in a goroutine that will acknowledge
\* it: no path of processMessage drops a message and leaves its partition
\* blocked.
NoPartitionForgotten ==
  ~cancelled =>
    \A p \in Partitions : waiting[p] => \/ Carries(held, p)
                                        \/ \E g \in Unacked : Carries(job[g], p)

\* A message is handed to a processor once, and once more for each shutdown,
\* crash or rebalance at most: a processor that fails, a full semaphore or a
\* stale acknowledgement never brings a message back.
RepeatsBounded == \A p \in Partitions : attempts[p] <= 1 + disruptions

\* A shutdown comes to its end: the loop returns and the consumer stops.
ShutdownEnds == cancelled ~> stage = "stopped" \/ ~cancelled

\* Every message is handled and committed in the end.
EverythingCommitted == <>(\A p \in Partitions : committed[p] = Length)

\* The consumer keeps the promise of AtLeastOnce through shutdowns, crashes
\* and rebalances: whatever a processor, an acknowledgement or a stale session
\* does, the offsets and the handled messages change as it says.
Promise == INSTANCE AtLeastOnce
             WITH Partitions <- Partitions, Length <- Length,
                  committed <- committed, handled <- handled
RefinesAtLeastOnce == Promise!Spec
=============================================================================
