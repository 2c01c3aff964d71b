------------------------------- MODULE Process -------------------------------
(***************************************************************************)
(* The life of the process (cmd/vehicle-triggers-api/main.go, app.go): it  *)
(* migrates if asked to, starts the monitoring server, fills the webhook   *)
(* cache, starts the API and the two consumers, and waits for all of them. *)
(* The goroutines of one errgroup share a context: a signal, or the first  *)
(* error of any of them, cancels it, and everybody is expected to end.     *)
(*                                                                         *)
(* The message loop of a consumer is Dispatcher; here it is the number of  *)
(* messages in flight.                                                     *)
(***************************************************************************)
EXTENDS Naturals

CONSTANTS Consumers,   \* signals and events
          MaxInFlight  \* settings.MaxInFlight

ASSUME MaxInFlightAssumption == MaxInFlight \in Nat \ {0}

VARIABLES mode,       \* the -migrate-only flag: "serve" or "migrate"
          main,       \* where main stands
          exit,       \* how it has ended: "failed" is logger.Fatal
          signalled,  \* SIGTERM or an interrupt has come
          cancelled,  \* runnerCtx is done
          failed,     \* a goroutine of the group has returned an error
          populated,  \* the webhook cache has been filled
          server,     \* the listen and the shutdown goroutine of each server
          orphan,     \* history: the API began to listen after its shutdown
          consumer,   \* the goroutine of each consumer
          err,        \* the error its Start has returned
          closed,     \* its subscriber has been closed
          inFlight    \* its messages in flight

groupVars == <<cancelled, failed>>
serverVars == <<server, orphan>>
consumerVars == <<consumer, err, closed, inFlight>>
vars == <<mode, main, exit, signalled, groupVars, populated, serverVars, consumerVars>>

Servers == {"monitoring", "api"}

TypeOK ==
  /\ mode \in {"serve", "migrate"}
  /\ main \in {"configuring", "starting", "populating", "creating", "waiting", "exited"}
  /\ exit \in {"none", "stopped", "failed"}
  /\ signalled \in BOOLEAN
  /\ cancelled \in BOOLEAN /\ failed \in BOOLEAN /\ populated \in BOOLEAN
  /\ server \in [Servers -> [listen : {"none", "starting", "listening", "closed", "done"},
                             shutdown : {"none", "waiting", "closing", "done"}]]
  /\ orphan \in BOOLEAN
  /\ consumer \in [Consumers ->
       {"none", "subscribing", "processing", "draining", "stopping", "done"}]
  /\ err \in [Consumers -> BOOLEAN]
  /\ closed \in [Consumers -> BOOLEAN]
  /\ inFlight \in [Consumers -> 0 .. MaxInFlight]

Init ==
  /\ mode \in {"serve", "migrate"}
  /\ main = "configuring"
  /\ exit = "none"
  /\ signalled = FALSE /\ cancelled = FALSE /\ failed = FALSE /\ populated = FALSE
  /\ server = [s \in Servers |-> [listen |-> "none", shutdown |-> "none"]]
  /\ orphan = FALSE
  /\ consumer = [c \in Consumers |-> "none"]
  /\ err = [c \in Consumers |-> FALSE]
  /\ closed = [c \in Consumers |-> FALSE]
  /\ inFlight = [c \in Consumers |-> 0]

Running == main # "exited"

\* A goroutine of the group returns; its error cancels the others.
Return(error) ==
  /\ failed' = (failed \/ error)
  /\ cancelled' = (cancelled \/ error)

Signal ==
  /\ Running /\ ~signalled
  /\ signalled' = TRUE
  /\ cancelled' = TRUE
  /\ UNCHANGED <<mode, main, exit, failed, populated, serverVars, consumerVars>>

-----------------------------------------------------------------------------
(* main                                                                    *)

MainGoto(from, to) ==
  /\ main = from
  /\ main' = to
  /\ UNCHANGED <<mode, exit, signalled>>

MainExit(from, how) ==
  /\ main = from
  /\ main' = "exited"
  /\ exit' = how
  /\ UNCHANGED <<mode, signalled, groupVars, populated, serverVars, consumerVars>>

\* The settings do not load, or a migration fails.
ConfigureFails == MainExit("configuring", "failed")

MigrateOnly == mode = "migrate" /\ MainExit("configuring", "stopped")

Configure ==
  /\ mode = "serve"
  /\ MainGoto("configuring", "starting")
  /\ UNCHANGED <<groupVars, populated, serverVars, consumerVars>>

\* The two goroutines of a server.
Launch(s) == server' = [server EXCEPT ![s] = [listen |-> "starting", shutdown |-> "waiting"]]

StartMonitoring ==
  /\ MainGoto("starting", "populating")
  /\ Launch("monitoring")
  /\ UNCHANGED <<groupVars, populated, orphan, consumerVars>>

\* Mutant: a cache that cannot be filled is filled later.
PopulateCache_optional ==
  /\ MainGoto("populating", "creating")
  /\ populated' = ~cancelled
  /\ UNCHANGED <<groupVars, serverVars, consumerVars>>

\* The store is read with runnerCtx.
PopulateCache ==
  /\ ~cancelled
  /\ MainGoto("populating", "creating")
  /\ populated' = TRUE
  /\ UNCHANGED <<groupVars, serverVars, consumerVars>>

\* The store cannot be read, or the context is done.
startWebhookCacheFails == MainExit("populating", "failed")

\* A consumer cannot be built.
createConsumerFails == MainExit("creating", "failed")

\* CreateServers returns the first error: the cache's, a consumer's, a client's.
CreateServersFails == startWebhookCacheFails \/ createConsumerFails

StartServers ==
  /\ MainGoto("creating", "waiting")
  /\ Launch("api")
  /\ consumer' = [c \in Consumers |-> "subscribing"]
  /\ UNCHANGED <<groupVars, populated, orphan, err, closed, inFlight>>

Returned ==
  /\ \A s \in Servers : server[s].listen = "done" /\ server[s].shutdown = "done"
  /\ \A c \in Consumers : consumer[c] = "done"

\* runnerGroup.Wait: every goroutine has returned.
Wait ==
  /\ Returned
  /\ MainExit("waiting", IF failed THEN "failed" ELSE "stopped")

-----------------------------------------------------------------------------
(* Servers                                                                 *)

Listen(s, from, to) ==
  /\ Running
  /\ server[s].listen = from
  /\ server' = [server EXCEPT ![s].listen = to]
  /\ UNCHANGED <<mode, main, exit, signalled, populated, consumerVars>>

Shutdown(s, from, to) ==
  /\ Running
  /\ server[s].shutdown = from
  /\ server' = [server EXCEPT ![s].shutdown = to]
  /\ UNCHANGED <<mode, main, exit, signalled, populated, orphan, consumerVars>>

\* The port is bound.  net/http remembers that it has been shut down and
\* returns ErrServerClosed, fasthttp does not.
ListenBegins(s) ==
  LET late == server[s].shutdown \in {"closing", "done"} IN
  /\ Listen(s, "starting", IF late /\ s = "monitoring" THEN "closed" ELSE "listening")
  /\ orphan' = (orphan \/ (late /\ s = "api"))
  /\ UNCHANGED groupVars

ListenFails(s) ==
  /\ Listen(s, "starting", "done")
  /\ Return(TRUE)
  /\ UNCHANGED orphan

\* The listener is closed, and Listen returns without an error.
ListenReturns(s) ==
  /\ Listen(s, "closed", "done")
  /\ UNCHANGED <<groupVars, orphan>>

\* Mutant: the server is told to shut down, and its listener stays open.
ShutdownBegins_keepsListener(s) ==
  /\ cancelled
  /\ Shutdown(s, "waiting", "closing")
  /\ UNCHANGED groupVars

\* The context is done, and the listener, if there is one, is closed.
ShutdownBegins(s) ==
  /\ cancelled
  /\ Running
  /\ server[s].shutdown = "waiting"
  /\ server' = [server EXCEPT ![s] =
                  [listen |-> IF @.listen = "listening" THEN "closed" ELSE @.listen,
                   shutdown |-> "closing"]]
  /\ UNCHANGED <<mode, main, exit, signalled, groupVars, populated, orphan, consumerVars>>

\* The requests in progress have been answered; or, on the monitoring server,
\* the ten seconds are over; or the listener could not be closed.
ShutdownReturns(s) ==
  /\ Shutdown(s, "closing", "done")
  /\ Return(FALSE) \/ Return(TRUE)

-----------------------------------------------------------------------------
(* Consumers                                                               *)

ConsumerGoto(c, from, to) ==
  /\ Running
  /\ consumer[c] = from
  /\ consumer' = [consumer EXCEPT ![c] = to]
  /\ UNCHANGED <<mode, main, exit, signalled, populated, serverVars>>

SubscribeFails(c) ==
  /\ ConsumerGoto(c, "subscribing", "stopping")
  /\ err' = [err EXCEPT ![c] = TRUE]
  /\ UNCHANGED <<groupVars, closed, inFlight>>

Subscribe(c) ==
  /\ ConsumerGoto(c, "subscribing", "processing")
  /\ UNCHANGED <<groupVars, err, closed, inFlight>>

\* Mutant: no slot is acquired.
Process_unlimited(c) ==
  /\ Running /\ consumer[c] = "processing" /\ inFlight[c] <= MaxInFlight
  /\ inFlight' = [inFlight EXCEPT ![c] = @ + 1]
  /\ UNCHANGED <<mode, main, exit, signalled, groupVars, populated, serverVars,
                 consumer, err, closed>>

\* A message is taken from the channel, and its goroutine acknowledges it.
Process(c) ==
  /\ Running /\ consumer[c] = "processing" /\ inFlight[c] < MaxInFlight
  /\ inFlight' = [inFlight EXCEPT ![c] = @ + 1]
  /\ UNCHANGED <<mode, main, exit, signalled, groupVars, populated, serverVars,
                 consumer, err, closed>>

Acknowledge(c) ==
  /\ Running /\ inFlight[c] > 0
  /\ inFlight' = [inFlight EXCEPT ![c] = @ - 1]
  /\ UNCHANGED <<mode, main, exit, signalled, groupVars, populated, serverVars,
                 consumer, err, closed>>

\* Mutant: the loop waits for the signal, not for the context.
Leave_signal(c) ==
  /\ signalled
  /\ ConsumerGoto(c, "processing", "draining")
  /\ err' \in {[err EXCEPT ![c] = b] : b \in BOOLEAN}
  /\ UNCHANGED <<groupVars, closed, inFlight>>

\* The loop sees the context, or the channel that the library has closed
\* because of it: an error in the one case, none in the other.
Leave(c) ==
  /\ cancelled
  /\ ConsumerGoto(c, "processing", "draining")
  /\ err' \in {[err EXCEPT ![c] = b] : b \in BOOLEAN}
  /\ UNCHANGED <<groupVars, closed, inFlight>>

\* Mutant: the loop leaves its messages behind.
waitForInFlight_skipped(c) ==
  /\ ConsumerGoto(c, "draining", "stopping")
  /\ UNCHANGED <<groupVars, err, closed, inFlight>>

waitForInFlight(c) ==
  /\ inFlight[c] = 0
  /\ ConsumerGoto(c, "draining", "stopping")
  /\ UNCHANGED <<groupVars, err, closed, inFlight>>

\* Mutant: a consumer that ends takes the others with it, but its error is
\* logged and dropped.
Stop_dropsError(c) ==
  /\ ConsumerGoto(c, "stopping", "done")
  /\ closed' = [closed EXCEPT ![c] = TRUE]
  /\ cancelled' = TRUE
  /\ UNCHANGED <<failed, err, inFlight>>

\* The subscriber is closed, and the goroutine returns the error of Start, or
\* that of Stop.
Stop(c) ==
  /\ ConsumerGoto(c, "stopping", "done")
  /\ closed' = [closed EXCEPT ![c] = TRUE]
  /\ \E stopErr \in BOOLEAN : Return(err[c] \/ stopErr)
  /\ UNCHANGED <<err, inFlight>>

-----------------------------------------------------------------------------

Main ==
  \/ Configure \/ ConfigureFails \/ MigrateOnly
  \/ StartMonitoring
  \/ PopulateCache \/ CreateServersFails
  \/ StartServers
  \/ Wait

Serve(s) ==
  \/ ListenBegins(s) \/ ListenFails(s) \/ ListenReturns(s)
  \/ ShutdownBegins(s) \/ ShutdownReturns(s)

Consume(c) ==
  \/ Subscribe(c) \/ SubscribeFails(c)
  \/ Process(c) \/ Acknowledge(c)
  \/ Leave(c) \/ waitForInFlight(c) \/ Stop(c)

Next ==
  \/ Signal
  \/ Main
  \/ \E s \in Servers : Serve(s)
  \/ \E c \in Consumers : Consume(c)

Spec == Init /\ [][Next]_vars

\* Main and the goroutines go on; what they wait for, a request in progress
\* and a message in flight, ends in time (the sender gives up after 30
\* seconds, and the API has no endless request).  A consumer that can take a
\* message and can leave does not choose the message for ever.
Fairness ==
  /\ WF_vars(Main)
  /\ \A s \in Servers : WF_vars(Serve(s))
  /\ \A c \in Consumers :
       /\ WF_vars(Subscribe(c) \/ SubscribeFails(c))
       /\ WF_vars(Acknowledge(c))
       /\ SF_vars(Leave(c))
       /\ WF_vars(waitForInFlight(c) \/ Stop(c))

FairSpec == Spec /\ Fairness

-----------------------------------------------------------------------------
(* Properties                                                              *)

\* Nobody listens to vehicles or developers before the cache is filled
\* (startWebhookCache, "so GetWebhooks() won't be empty").
ServesPopulated ==
  \/ populated
  \/ server["api"].listen = "none" /\ \A c \in Consumers : consumer[c] = "none"

\* The subscriber is closed, and the process gone, only when every message
\* taken has been acknowledged and Start has returned (RunConsumer).
DrainedBeforeClosed ==
  \A c \in Consumers :
    closed[c] \/ ~Running => inFlight[c] = 0 /\ consumer[c] \in {"none", "done"}

\* The process says that it has stopped only when it was asked to: the end of
\* a single part of it is a failure of the whole.
UnaskedExitIsFailure == exit = "stopped" => signalled \/ mode = "migrate"

ServerCanGoOn(s) ==
  server[s].listen \in {"starting", "closed"} \/ server[s].shutdown \in {"waiting", "closing"}

\* Once the context is done nobody waits for something that will not come: as
\* long as the process runs, main, a server or a consumer has a step of its
\* own to take, unless the API began to listen after its shutdown.  What main
\* waits for at the end are the goroutines of the group, all of them.
CancelledIsNotStuck ==
  cancelled /\ Running /\ ~orphan =>
    \/ main # "waiting" \/ Returned
    \/ \E s \in Servers : ServerCanGoOn(s)
    \/ \E c \in Consumers : consumer[c] \notin {"none", "done"}

\* One part failing, or a signal, ends the process, unless the API began to
\* listen after it had been told to shut down.
CancelledEnds == cancelled ~> ~Running \/ orphan
=============================================================================
