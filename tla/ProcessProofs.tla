---------------------------- MODULE ProcessProofs ----------------------------
(***************************************************************************)
(* Proofs about Process: for any number of consumers and any limit of      *)
(* messages in flight, what the process owes its messages and its operator *)
(* when it ends, whichever part ends it and at whatever moment.            *)
(***************************************************************************)
EXTENDS Process, TLAPS

USE MaxInFlightAssumption DEF vars, groupVars, serverVars, consumerVars, Servers, Running

LEMMA TypeInit == Init => TypeOK
<1> SUFFICES ASSUME Init
             PROVE  TypeOK
  OBVIOUS
<1>1. inFlight \in [Consumers -> 0 .. MaxInFlight]
  BY DEF Init
<1>2. err \in [Consumers -> BOOLEAN] /\ closed \in [Consumers -> BOOLEAN]
  BY Zenon DEF Init
<1> QED
  BY <1>1, <1>2 DEF Init, TypeOK

LEMMA TypeMain == TypeOK /\ Main => TypeOK'
<1> SUFFICES ASSUME TypeOK, Main
             PROVE  TypeOK'
  OBVIOUS
<1> USE DEF TypeOK, MainGoto, MainExit
<1>1. CASE Configure \/ ConfigureFails \/ MigrateOnly
  BY <1>1 DEF Configure, ConfigureFails, MigrateOnly
<1>2. CASE StartMonitoring
  BY <1>2 DEF StartMonitoring, Launch
<1>3. CASE PopulateCache \/ CreateServersFails
  BY <1>3 DEF PopulateCache, CreateServersFails, startWebhookCacheFails, createConsumerFails
<1>4. CASE StartServers
  BY <1>4 DEF StartServers, Launch
<1>5. CASE Wait
  BY <1>5 DEF Wait
<1> QED
  BY <1>1, <1>2, <1>3, <1>4, <1>5 DEF Main

LEMMA TypeServe ==
  ASSUME TypeOK, NEW s \in Servers, Serve(s)
  PROVE  TypeOK'
<1>1. CASE ListenBegins(s)
  BY <1>1 DEF TypeOK, ListenBegins, Listen
<1>2. CASE ListenFails(s)
  BY <1>2 DEF TypeOK, ListenFails, Listen, Return
<1>3. CASE ListenReturns(s)
  BY <1>3 DEF TypeOK, ListenReturns, Listen
<1>4. CASE ShutdownBegins(s)
  BY <1>4 DEF TypeOK, ShutdownBegins
<1>5. CASE ShutdownReturns(s)
  BY <1>5 DEF TypeOK, ShutdownReturns, Shutdown, Return
<1> QED
  BY <1>1, <1>2, <1>3, <1>4, <1>5 DEF Serve

LEMMA TypeConsume ==
  ASSUME TypeOK, NEW c \in Consumers, Consume(c)
  PROVE  TypeOK'
<1>1. CASE Subscribe(c) \/ waitForInFlight(c)
  BY <1>1 DEF TypeOK, Subscribe, waitForInFlight, ConsumerGoto
<1>5. CASE SubscribeFails(c)
  <2>1. err' \in [Consumers -> BOOLEAN]
    BY <1>5, Zenon DEF TypeOK, SubscribeFails
  <2> QED
    BY <1>5, <2>1 DEF TypeOK, SubscribeFails, ConsumerGoto
<1>2. CASE Process(c) \/ Acknowledge(c)
  BY <1>2 DEF TypeOK, Process, Acknowledge
<1>3. CASE Leave(c)
  BY <1>3 DEF TypeOK, Leave, ConsumerGoto
<1>4. CASE Stop(c)
  BY <1>4 DEF TypeOK, Stop, ConsumerGoto, Return
<1> QED
  BY <1>1, <1>2, <1>3, <1>4, <1>5 DEF Consume

LEMMA TypeStep == TypeOK /\ [Next]_vars => TypeOK'
<1> SUFFICES ASSUME TypeOK, [Next]_vars
             PROVE  TypeOK'
  OBVIOUS
<1>1. CASE Signal
  BY <1>1 DEF Signal, TypeOK
<1>2. CASE UNCHANGED vars
  BY <1>2 DEF TypeOK
<1> QED
  BY <1>1, <1>2, TypeMain, TypeServe, TypeConsume DEF Next

\* TypeOK: every variable keeps its type; no consumer exceeds its limit of
\* messages in flight.
THEOREM ProcessTypeCorrect == Spec => []TypeOK
<1> QED
  BY TypeInit, TypeStep, PTL DEF Spec

-----------------------------------------------------------------------------

Before == {"configuring", "starting", "populating", "creating"}

\* The inductive invariant: what main has started by now, what a consumer may
\* have in flight where it stands, and where a cancelled context comes from.
LifeInv ==
  /\ main \in Before =>
       /\ server["api"].listen = "none" /\ server["api"].shutdown = "none"
       /\ \A c \in Consumers : consumer[c] = "none"
  /\ main \in {"creating", "waiting"} => populated
  /\ ServesPopulated
  /\ \A c \in Consumers :
       /\ consumer[c] \in {"none", "subscribing", "stopping", "done"} => inFlight[c] = 0
       /\ closed[c] => consumer[c] = "done"
       /\ main = "exited" => consumer[c] \in {"none", "done"}
  /\ \A s \in Servers : server[s].shutdown \in {"closing", "done"} => cancelled
  /\ cancelled => signalled \/ failed
  /\ UnaskedExitIsFailure

LEMMA LifeInit == Init => LifeInv
BY DEF Init, LifeInv, ServesPopulated, UnaskedExitIsFailure

LEMMA LifeMain == TypeOK /\ LifeInv /\ Main => LifeInv'
<1> SUFFICES ASSUME TypeOK, LifeInv, Main
             PROVE  LifeInv'
  OBVIOUS
<1> USE DEF LifeInv, ServesPopulated, UnaskedExitIsFailure, Before, MainGoto, MainExit
<1>1. CASE Configure \/ ConfigureFails \/ MigrateOnly
  BY <1>1 DEF Configure, ConfigureFails, MigrateOnly
<1>2. CASE StartMonitoring
  BY <1>2 DEF StartMonitoring, Launch, TypeOK
<1>3. CASE PopulateCache \/ CreateServersFails
  BY <1>3 DEF PopulateCache, CreateServersFails, startWebhookCacheFails, createConsumerFails
<1>4. CASE StartServers
  BY <1>4 DEF StartServers, Launch, TypeOK
<1>5. CASE Wait
  BY <1>5 DEF Wait, Returned
<1> QED
  BY <1>1, <1>2, <1>3, <1>4, <1>5 DEF Main

LEMMA LifeServe ==
  ASSUME TypeOK, LifeInv, NEW s \in Servers, Serve(s)
  PROVE  LifeInv'
<1> USE DEF LifeInv, ServesPopulated, UnaskedExitIsFailure, Before, TypeOK
<1>1. CASE ListenBegins(s)
  BY <1>1 DEF ListenBegins, Listen
<1>2. CASE ListenFails(s)
  BY <1>2 DEF ListenFails, Listen, Return
<1>3. CASE ListenReturns(s)
  BY <1>3 DEF ListenReturns, Listen
<1>4. CASE ShutdownBegins(s)
  BY <1>4 DEF ShutdownBegins
<1>5. CASE ShutdownReturns(s)
  BY <1>5 DEF ShutdownReturns, Shutdown, Return
<1> QED
  BY <1>1, <1>2, <1>3, <1>4, <1>5 DEF Serve

LEMMA LifeConsume ==
  ASSUME TypeOK, LifeInv, NEW c \in Consumers, Consume(c)
  PROVE  LifeInv'
<1> USE DEF LifeInv, ServesPopulated, UnaskedExitIsFailure, Before, TypeOK
<1>1. CASE Subscribe(c) \/ SubscribeFails(c) \/ waitForInFlight(c)
  BY <1>1 DEF Subscribe, SubscribeFails, waitForInFlight, ConsumerGoto
<1>2. CASE Process(c) \/ Acknowledge(c)
  BY <1>2 DEF Process, Acknowledge
<1>3. CASE Leave(c)
  BY <1>3 DEF Leave, ConsumerGoto
<1>4. CASE Stop(c)
  BY <1>4 DEF Stop, ConsumerGoto, Return
<1> QED
  BY <1>1, <1>2, <1>3, <1>4 DEF Consume

LEMMA LifeStep == TypeOK /\ LifeInv /\ [Next]_vars => LifeInv'
<1> SUFFICES ASSUME TypeOK, LifeInv, [Next]_vars
             PROVE  LifeInv'
  OBVIOUS
<1>1. CASE Signal \/ UNCHANGED vars
  BY <1>1 DEF Signal, LifeInv, ServesPopulated, UnaskedExitIsFailure
<1> QED
  BY <1>1, LifeMain, LifeServe, LifeConsume DEF Next

LEMMA LifeInvariant == Spec => []LifeInv
<1> QED
  BY LifeInit, LifeStep, ProcessTypeCorrect, PTL DEF Spec

\* ServesPopulated: neither the API nor a consumer starts before the cache is
\* filled.
THEOREM ServesOnlyPopulated == Spec => []ServesPopulated
<1>1. LifeInv => ServesPopulated
  BY DEF LifeInv
<1> QED
  BY <1>1, LifeInvariant, PTL

\* DrainedBeforeClosed: no subscriber is closed, and no process ends, with a
\* message in flight, for any number of consumers and any limit.
THEOREM DrainsBeforeClosing == Spec => []DrainedBeforeClosed
<1>1. LifeInv /\ TypeOK => DrainedBeforeClosed
  BY DEF LifeInv, DrainedBeforeClosed, TypeOK
<1> QED
  BY <1>1, LifeInvariant, ProcessTypeCorrect, PTL

\* UnaskedExitIsFailure: without a signal the process never says that it has
\* merely stopped.
THEOREM UnaskedExitFails == Spec => []UnaskedExitIsFailure
<1>1. LifeInv => UnaskedExitIsFailure
  BY DEF LifeInv
<1> QED
  BY <1>1, LifeInvariant, PTL

-----------------------------------------------------------------------------

Launched(s) == server[s].listen # "none" /\ server[s].shutdown # "none"

\* Why a cancelled process moves on: whoever main has started is there, and a
\* listener stays open behind its shutdown only where it came too late.
StuckInv ==
  /\ main \in {"populating", "creating", "waiting"} => Launched("monitoring")
  /\ main = "waiting" => Launched("api") /\ \A c \in Consumers : consumer[c] # "none"
  /\ \A s \in Servers :
       server[s].listen = "listening" /\ server[s].shutdown \in {"closing", "done"} => orphan

LEMMA StuckMain == TypeOK /\ StuckInv /\ Main => StuckInv'
<1> SUFFICES ASSUME TypeOK, StuckInv, Main
             PROVE  StuckInv'
  OBVIOUS
<1> USE DEF StuckInv, Launched, MainGoto, MainExit
<1>1. CASE Configure \/ ConfigureFails \/ MigrateOnly
  BY <1>1 DEF Configure, ConfigureFails, MigrateOnly
<1>2. CASE StartMonitoring
  BY <1>2 DEF StartMonitoring, Launch, TypeOK
<1>3. CASE PopulateCache \/ CreateServersFails
  BY <1>3 DEF PopulateCache, CreateServersFails, startWebhookCacheFails, createConsumerFails
<1>4. CASE StartServers
  BY <1>4 DEF StartServers, Launch, TypeOK
<1>5. CASE Wait
  BY <1>5 DEF Wait
<1> QED
  BY <1>1, <1>2, <1>3, <1>4, <1>5 DEF Main

LEMMA StuckServe ==
  ASSUME TypeOK, StuckInv, NEW s \in Servers, Serve(s)
  PROVE  StuckInv'
<1> USE DEF StuckInv, Launched, TypeOK
<1>1. CASE ListenBegins(s)
  BY <1>1 DEF ListenBegins, Listen
<1>2. CASE ListenFails(s)
  BY <1>2 DEF ListenFails, Listen
<1>3. CASE ListenReturns(s)
  BY <1>3 DEF ListenReturns, Listen
<1>4. CASE ShutdownBegins(s)
  BY <1>4 DEF ShutdownBegins
<1>5. CASE ShutdownReturns(s)
  BY <1>5 DEF ShutdownReturns, Shutdown
<1> QED
  BY <1>1, <1>2, <1>3, <1>4, <1>5 DEF Serve

LEMMA StuckConsume ==
  ASSUME TypeOK, StuckInv, NEW c \in Consumers, Consume(c)
  PROVE  StuckInv'
<1> USE DEF StuckInv, Launched, TypeOK
<1>1. CASE Process(c) \/ Acknowledge(c)
  BY <1>1 DEF Process, Acknowledge
<1>2. CASE Subscribe(c) \/ SubscribeFails(c) \/ Leave(c) \/ waitForInFlight(c) \/ Stop(c)
  BY <1>2 DEF Subscribe, SubscribeFails, Leave, waitForInFlight, Stop, ConsumerGoto
<1> QED
  BY <1>1, <1>2 DEF Consume

\* CancelledIsNotStuck: whichever part ends the group and at whatever moment of
\* the start, there is no state in which main waits for goroutines of which
\* none can go on.  It holds in every state of Spec and needs no fairness;
\* that the steps are then taken, and are finitely many, is CancelledEnds.
THEOREM CancelledNeverStuck == Spec => []CancelledIsNotStuck
<1>1. Init => StuckInv
  BY DEF Init, StuckInv
<1>2. TypeOK /\ StuckInv /\ [Next]_vars => StuckInv'
  <2> SUFFICES ASSUME TypeOK, StuckInv, [Next]_vars
               PROVE  StuckInv'
    OBVIOUS
  <2>1. CASE Signal \/ UNCHANGED vars
    BY <2>1 DEF Signal, StuckInv, Launched
  <2> QED
    BY <2>1, StuckMain, StuckServe, StuckConsume DEF Next
<1>3. TypeOK /\ StuckInv => CancelledIsNotStuck
  BY DEF TypeOK, StuckInv, Launched, CancelledIsNotStuck, ServerCanGoOn, Returned
<1> QED
  BY <1>1, <1>2, <1>3, ProcessTypeCorrect, PTL DEF Spec
=============================================================================
