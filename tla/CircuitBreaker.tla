--------------------------- MODULE CircuitBreaker ---------------------------
(***************************************************************************)
(* What the life of a webhook promises, with every operation one step: a   *)
(* delivery outcome is counted at once, a deleted webhook stays deleted,   *)
(* and the count, not the order of concurrent writes, decides when a       *)
(* webhook fails.                                                          *)
(***************************************************************************)
EXTENDS Integers

CONSTANTS Triggers, MaxFailureCount

VARIABLES status, failures

Usable(t) == status[t] \in {"enabled", "disabled", "failed"}

Set(t, s, n) ==
  /\ status' = [status EXCEPT ![t] = s]
  /\ failures' = [failures EXCEPT ![t] = n]

Init ==
  /\ status = [t \in Triggers |-> "absent"]
  /\ failures = [t \in Triggers |-> 0]

Register(t) ==
  /\ status[t] = "absent"
  /\ \E s \in {"enabled", "disabled"} : Set(t, s, 0)

\* An update starts the count again, with the status the developer asks for
\* or a status the webhook had.
Update(t) ==
  /\ Usable(t)
  /\ \E s \in {"enabled", "disabled", "failed"} : Set(t, s, 0)

Delete(t) ==
  /\ Usable(t)
  /\ Set(t, "deleted", failures[t])

Fail(t) ==
  /\ Usable(t)
  /\ Set(t, IF failures[t] + 1 >= MaxFailureCount THEN "failed" ELSE status[t],
         failures[t] + 1)

Succeed(t) ==
  /\ failures[t] > 0
  /\ Set(t, IF status[t] = "failed" THEN "enabled" ELSE status[t], 0)

Next == \E t \in Triggers : Register(t) \/ Update(t) \/ Delete(t) \/ Fail(t) \/ Succeed(t)

Spec == Init /\ [][Next]_<<status, failures>>

\* What remains of the promise when API calls overlap: an update writes a row
\* it has read before it was deleted.
Revive(t) ==
  /\ status[t] = "deleted"
  /\ \E s \in {"enabled", "disabled", "failed"} : Set(t, s, 0)

RacyNext == Next \/ \E t \in Triggers : Revive(t)

RacySpec == Init /\ [][RacyNext]_<<status, failures>>
=============================================================================
