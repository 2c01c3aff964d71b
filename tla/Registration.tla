---------------------------- MODULE Registration ----------------------------
(***************************************************************************)
(* What the API lets into a row of triggers: the validation of a           *)
(* registration, and updates that read the row, put the columns of the     *)
(* request into it, and write every column but the fixed ones.  Updates    *)
(* of one webhook run side by side, and beside the circuit breaker, which  *)
(* writes the status (how it counts is TriggerStore).                      *)
(***************************************************************************)
EXTENDS Conditions, FiniteSets, Integers

CONSTANTS Calls,        \* updates of the webhook
          Registered,   \* bound: the conditions it may be registered with,
          Replacements, \* and those an update may bring
          MaxColumns    \* bound: the columns an update may provide

ASSUME ConditionsAssumption ==
  Registered \cup Replacements \subseteq Conditions(DOMAIN signalEnv \cup DOMAIN eventEnv)

VARIABLES row,       \* the row of the webhook
          pc,        \* where each update stands
          copy,      \* the row as the update will write it
          provided,  \* the columns of its request
          overtaken  \* history: the row has been written since it read it

vars == <<row, pc, copy, provided, overtaken>>

Conds == Registered \cup Replacements

\* A target echoes the verification token, is served over https but does not,
\* or is not an https URL.
Targets == {"echoing", "silent", "other"}

Rows == [metric : Metrics, condition : Conds, target : Targets,
         cooldown : Int, status : {"enabled", "disabled", "failed", "deleted", "other"}]
NoRow == [status |-> "absent"]
Columns == {"condition", "target", "cooldown", "status"}

TypeOK ==
  /\ row \in Rows \cup {NoRow}
  /\ pc \in [Calls -> {"idle", "writing"}]
  /\ copy \in [Calls -> Rows \cup {NoRow}]
  /\ provided \in [Calls -> SUBSET Columns]
  /\ overtaken \in [Calls -> BOOLEAN]

Init ==
  /\ row = NoRow
  /\ pc = [k \in Calls |-> "idle"]
  /\ copy = [k \in Calls |-> NoRow]
  /\ provided = [k \in Calls |-> {}]
  /\ overtaken = [k \in Calls |-> FALSE]

\* What a lookup asks of the row.
Live == row.status \notin {"absent", "deleted"}

-----------------------------------------------------------------------------

validateTargetURL(target) == target # "other"
validateCoolDownPeriod(cooldown) == cooldown >= 0
validateStatus(status) == status \in {"enabled", "disabled"}

\* Every column a request provides passes its validation.
validate(m, columns, r) ==
  /\ "target" \in columns => validateTargetURL(r.target)
  /\ "condition" \in columns => PrepareCondition(m, r.condition)
  /\ "cooldown" \in columns => validateCoolDownPeriod(r.cooldown)
  /\ "status" \in columns => validateStatus(r.status)

\* What may be stored: the status a webhook has failed with is no developer's.
Valid(m, r) ==
  validate(m, IF r.status = "failed" THEN Columns \ {"status"} ELSE Columns, r)

\* The target answers a request of the service with the token.
verifyWebhookURL(target) == target = "echoing"

\* CreateTriggerRequest.Validate asks again, and for columns no request of this
\* model lacks.
Validate(r) == r.cooldown >= 0

\* The columns an update may provide.
Selections == {s \in SUBSET Columns : Cardinality(s) <= MaxColumns}

\* The values a request may hold.
Requests(conds) ==
  [condition : conds, target : Targets, cooldown : {-1, 0},
   status : {"enabled", "disabled", "other"}]

NewRow(m, r) ==
  [metric |-> m, condition |-> r.condition, target |-> r.target,
   cooldown |-> r.cooldown, status |-> r.status]

\* A request that is refused leaves nothing behind.
RegisterWebhook(m) ==
  /\ row = NoRow
  /\ \E r \in Requests(Registered) :
       /\ validate(m, Columns, r)
       /\ verifyWebhookURL(r.target)
       /\ Validate(r)
       /\ row' = NewRow(m, r)
  /\ UNCHANGED <<pc, copy, provided, overtaken>>

\* Mutant: the row is what the request says.
Merge_request(old, columns, r) == IF columns = {} THEN old ELSE r

\* The row with the columns of the request.
Merge(old, columns, r) ==
  [metric |-> old.metric,
   condition |-> IF "condition" \in columns THEN r.condition ELSE old.condition,
   target |-> IF "target" \in columns THEN r.target ELSE old.target,
   cooldown |-> IF "cooldown" \in columns THEN r.cooldown ELSE old.cooldown,
   status |-> IF "status" \in columns THEN r.status ELSE old.status]

\* Mutant: the condition is compiled when the cache is next built.
UpdateRead_unchecked(k) ==
  /\ pc[k] = "idle" /\ Live
  /\ \E columns \in Selections, r \in Requests(Replacements) :
       /\ validate(row.metric, columns \ {"condition"}, r)
       /\ copy' = [copy EXCEPT ![k] = Merge(row, columns, r)]
       /\ provided' = [provided EXCEPT ![k] = columns]
  /\ pc' = [pc EXCEPT ![k] = "writing"]
  /\ overtaken' = [overtaken EXCEPT ![k] = FALSE]
  /\ UNCHANGED row

\* UpdateWebhook, up to the write.
UpdateRead(k) ==
  /\ pc[k] = "idle" /\ Live
  /\ \E columns \in Selections, r \in Requests(Replacements) :
       /\ validate(row.metric, columns, r)
       /\ copy' = [copy EXCEPT ![k] = Merge(row, columns, r)]
       /\ provided' = [provided EXCEPT ![k] = columns]
  /\ pc' = [pc EXCEPT ![k] = "writing"]
  /\ overtaken' = [overtaken EXCEPT ![k] = FALSE]
  /\ UNCHANGED row

Return(k) ==
  /\ pc[k] = "writing"
  /\ pc' = [pc EXCEPT ![k] = "idle"]
  /\ copy' = [copy EXCEPT ![k] = NoRow]
  /\ provided' = [provided EXCEPT ![k] = {}]
Overtake(k) ==
  overtaken' = [c \in Calls |-> c # k /\ (overtaken[c] \/ pc[c] = "writing")]

\* Mutant: a status that is not provided is the default one.
UpdateWrite_defaults(k) ==
  /\ Return(k) /\ Overtake(k)
  /\ row' = IF "status" \in provided[k] THEN copy[k]
            ELSE [copy[k] EXCEPT !.status = "enabled"]

\* UpdateTrigger: every column is written, whatever the row holds by now.
UpdateWrite(k) ==
  /\ Return(k) /\ Overtake(k)
  /\ row' = copy[k]

\* The database refuses the write: the name is taken, or it is down.
UpdateFails(k) ==
  /\ Return(k)
  /\ overtaken' = [overtaken EXCEPT ![k] = FALSE]
  /\ UNCHANGED row

\* A write of the status by someone else.
SetStatus(status) ==
  /\ row' = [row EXCEPT !.status = status]
  /\ overtaken' = [c \in Calls |-> overtaken[c] \/ pc[c] = "writing"]
  /\ UNCHANGED <<pc, copy, provided>>

\* DeleteTrigger, in one step.
DeleteWebhook == Live /\ SetStatus("deleted")

\* The failure that reaches the threshold; the others change no column here.
IncrementTriggerFailureCount == Live /\ SetStatus("failed")

\* A success reported after the failure.
ResetTriggerFailureCount == row.status = "failed" /\ SetStatus("enabled")

Next ==
  \/ \E m \in Metrics : RegisterWebhook(m)
  \/ \E k \in Calls : UpdateRead(k) \/ UpdateWrite(k) \/ UpdateFails(k)
  \/ DeleteWebhook
  \/ IncrementTriggerFailureCount
  \/ ResetTriggerFailureCount

Spec == Init /\ [][Next]_vars

-----------------------------------------------------------------------------
(* Properties                                                              *)

\* However updates interleave, the row of a live webhook is one that a single
\* request could have asked for, but for the status the circuit breaker gives
\* it: the cache can compile its condition for its metric, and no column
\* escapes its validation.
StoredRowsAreValid == Live => Valid(row.metric, row)

\* An update no other write has overtaken changes the columns of its request
\* and no other ("All fields are optional; only provided fields will be
\* updated.", types.go).
OnlyProvidedChanges ==
  [][\A k \in Calls : UpdateWrite(k) /\ ~overtaken[k] =>
       \A f \in DOMAIN row \ provided[k] : row'[f] = row[f]]_vars

\* What the made-up values do not tell: the type of a number in arithmetic,
\* what is behind a guard, and the value of a signal the schema does not know.
Unforeseen(m, c) ==
  \/ c.factor \in {"int", "double"}
  \/ c.guarded
  \/ m = "unknown" /\ c.var \in {"value", "previousValue"}

\* A condition the API has accepted is evaluated without an error, however
\* the metric and the condition are combined, but for the three cases above.
EvaluatesUnlessUnforeseen ==
  Live => (EvaluateFails(row.metric, row.condition) => Unforeseen(row.metric, row.condition))
=============================================================================
