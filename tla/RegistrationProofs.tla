------------------------- MODULE RegistrationProofs -------------------------
(***************************************************************************)
(* Proofs about Registration: for any set of conditions and any number of  *)
(* updates side by side, what a row holds has passed its validation, an    *)
(* update changes what it was asked to, and an accepted condition can be   *)
(* evaluated unless the reason why not is one the trial run cannot see.    *)
(***************************************************************************)
EXTENDS Registration, TLAPS

USE DEF vars, Conds

\* Every value a valid request holds is one a row may hold.
LEMMA MergeType ==
  ASSUME NEW old \in Rows, NEW columns \in SUBSET Columns,
         NEW conds \in SUBSET Conds, NEW r \in Requests(conds)
  PROVE  Merge(old, columns, r) \in Rows
BY DEF Rows, Requests, Merge

\* What the deletion and the circuit breaker have in common.
LEMMA OthersSetStatus ==
  ASSUME DeleteWebhook \/ IncrementTriggerFailureCount \/ ResetTriggerFailureCount
  PROVE  Live /\ \E status \in {"enabled", "failed", "deleted"} : SetStatus(status)
BY DEF DeleteWebhook, IncrementTriggerFailureCount, ResetTriggerFailureCount, Live

LEMMA TypeInit == Init => TypeOK
BY DEF Init, TypeOK

LEMMA TypeStep == TypeOK /\ [Next]_vars => TypeOK'
<1> SUFFICES ASSUME TypeOK, [Next]_vars
             PROVE  TypeOK'
  OBVIOUS
<1> USE DEF TypeOK
<1>1. ASSUME NEW m \in Metrics, RegisterWebhook(m)
      PROVE  TypeOK'
  <2>1. \A r \in Requests(Registered) : NewRow(m, r) \in Rows
    BY DEF Requests, NewRow, Rows
  <2> QED
    BY <1>1, <2>1 DEF RegisterWebhook
<1>2. ASSUME NEW k \in Calls, UpdateRead(k)
      PROVE  TypeOK'
  <2>1. PICK columns \in Selections, r \in Requests(Replacements) :
          /\ copy' = [copy EXCEPT ![k] = Merge(row, columns, r)]
          /\ provided' = [provided EXCEPT ![k] = columns]
    BY <1>2 DEF UpdateRead
  <2>2. row \in Rows /\ columns \in SUBSET Columns
    BY <1>2 DEF UpdateRead, Live, NoRow, Selections
  <2>3. Merge(row, columns, r) \in Rows
    BY <2>2, MergeType, Replacements \in SUBSET Conds
  <2> QED
    BY <1>2, <2>1, <2>2, <2>3 DEF UpdateRead
<1>3. ASSUME NEW k \in Calls, UpdateWrite(k) \/ UpdateFails(k)
      PROVE  TypeOK'
  <2>1. overtaken' \in [Calls -> BOOLEAN]
    <3>1. CASE UpdateWrite(k)
      <4>1. \A c \in Calls : (c # k /\ (overtaken[c] \/ pc[c] = "writing")) \in BOOLEAN
        OBVIOUS
      <4> QED
        BY <3>1, <4>1 DEF UpdateWrite, Overtake
    <3> QED
      BY <1>3, <3>1 DEF UpdateFails
  <2> QED
    BY <1>3, <2>1 DEF UpdateWrite, UpdateFails, Return
<1>4. ASSUME Live, NEW status \in {"enabled", "failed", "deleted"}, SetStatus(status)
      PROVE  TypeOK'
  <2>1. row' \in Rows
    <3>1. row \in Rows
      BY <1>4 DEF Live, NoRow
    <3> QED
      BY <1>4, <3>1 DEF SetStatus, Rows
  <2>2. \A c \in Calls : (overtaken[c] \/ pc[c] = "writing") \in BOOLEAN
    OBVIOUS
  <2> QED
    BY <1>4, <2>1, <2>2 DEF SetStatus
<1>5. CASE UNCHANGED vars
  BY <1>5
<1> QED
  BY <1>1, <1>2, <1>3, <1>4, <1>5, OthersSetStatus DEF Next

\* TypeOK: the row and the copies of it keep their shape.
THEOREM RegistrationTypeCorrect == Spec => []TypeOK
<1> QED
  BY TypeInit, TypeStep, PTL DEF Spec

-----------------------------------------------------------------------------

\* The inductive invariant: what an update is about to write is valid for the
\* metric of the row, and is the row as it stands but for its own columns
\* unless another write has come in between.
UpdateInv ==
  /\ StoredRowsAreValid
  /\ \A k \in Calls : pc[k] = "writing" =>
       /\ row \in Rows
       /\ copy[k] \in Rows
       /\ copy[k].metric = row.metric
       /\ Valid(row.metric, copy[k])
       /\ ~overtaken[k] => \A f \in DOMAIN row \ provided[k] : copy[k][f] = row[f]

LEMMA UpdateInit == Init => UpdateInv
BY DEF Init, UpdateInv, StoredRowsAreValid, Live, NoRow

\* A copy is valid: each of its columns is the row's or the request's, and
\* the other columns are the row's.
LEMMA MergeValid ==
  ASSUME NEW old \in Rows, NEW columns \in SUBSET Columns, NEW r \in Requests(Replacements),
         Valid(old.metric, old), validate(old.metric, columns, r)
  PROVE  /\ Merge(old, columns, r).metric = old.metric
         /\ Valid(old.metric, Merge(old, columns, r))
         /\ \A f \in DOMAIN old \ columns : Merge(old, columns, r)[f] = old[f]
<1>1. Valid(old.metric, Merge(old, columns, r))
  BY DEF Valid, validate, validateStatus, Merge, Columns
<1>2. DOMAIN old = {"metric", "condition", "target", "cooldown", "status"}
  BY DEF Rows
<1> QED
  BY <1>1, <1>2 DEF Merge, Rows

LEMMA UpdateStep == TypeOK /\ UpdateInv /\ [Next]_vars => UpdateInv'
<1> SUFFICES ASSUME TypeOK, UpdateInv, [Next]_vars
             PROVE  UpdateInv'
  OBVIOUS
<1> USE DEF UpdateInv
<1>1. ASSUME NEW m \in Metrics, RegisterWebhook(m)
      PROVE  UpdateInv'
  <2>1. \A k \in Calls : pc[k] # "writing"
    BY <1>1 DEF RegisterWebhook, Rows, NoRow
  <2>2. PICK r \in Requests(Registered) : validate(m, Columns, r) /\ row' = NewRow(m, r)
    BY <1>1 DEF RegisterWebhook
  <2>3. Valid(row'.metric, row')
    BY <2>2 DEF Valid, validate, NewRow, Columns
  <2> QED
    BY <1>1, <2>1, <2>3 DEF RegisterWebhook, StoredRowsAreValid
<1>2. ASSUME NEW k \in Calls, UpdateRead(k)
      PROVE  UpdateInv'
  <2>1. PICK columns \in Selections, r \in Requests(Replacements) :
          /\ validate(row.metric, columns, r)
          /\ copy' = [copy EXCEPT ![k] = Merge(row, columns, r)]
          /\ provided' = [provided EXCEPT ![k] = columns]
    BY <1>2 DEF UpdateRead
  <2>2. row \in Rows /\ columns \in SUBSET Columns
    BY <1>2 DEF UpdateRead, Live, NoRow, Selections, TypeOK
  <2>3. Valid(row.metric, row)
    BY <1>2 DEF UpdateRead, StoredRowsAreValid
  <2>4. Merge(row, columns, r) \in Rows
    BY <2>2, MergeType, Replacements \in SUBSET Conds
  <2>5. /\ copy'[k] \in Rows /\ copy'[k].metric = row.metric
        /\ Valid(row.metric, copy'[k])
        /\ \A f \in DOMAIN row \ provided'[k] : copy'[k][f] = row[f]
    BY <2>1, <2>2, <2>3, <2>4, MergeValid DEF TypeOK
  <2>6. /\ row' = row
        /\ \A c \in Calls \ {k} : /\ pc'[c] = pc[c] /\ copy'[c] = copy[c]
                                  /\ provided'[c] = provided[c] /\ overtaken'[c] = overtaken[c]
    BY <1>2, <2>1 DEF UpdateRead, TypeOK
  <2>7. StoredRowsAreValid'
    BY <2>6 DEF StoredRowsAreValid, Live
  <2> QED
    BY <2>2, <2>5, <2>6, <2>7
<1>3. ASSUME NEW k \in Calls, UpdateWrite(k)
      PROVE  UpdateInv'
  <2>1. pc[k] = "writing" /\ row' = copy[k] /\ pc'[k] = "idle"
    BY <1>3 DEF UpdateWrite, Return, TypeOK
  <2>2. row' \in Rows /\ row'.metric = row.metric /\ StoredRowsAreValid'
    BY <2>1 DEF StoredRowsAreValid
  <2>3. \A c \in Calls \ {k} : pc'[c] = pc[c] /\ copy'[c] = copy[c]
    BY <1>3 DEF UpdateWrite, Return, TypeOK
  <2>4. \A c \in Calls \ {k} : pc[c] = "writing" => overtaken'[c]
    BY <1>3 DEF UpdateWrite, Overtake
  <2> QED
    BY <2>1, <2>2, <2>3, <2>4
<1>4. ASSUME NEW k \in Calls, UpdateFails(k)
      PROVE  UpdateInv'
  <2>1. row' = row /\ pc'[k] = "idle"
    BY <1>4 DEF UpdateFails, Return, TypeOK
  <2>2. \A c \in Calls \ {k} : /\ pc'[c] = pc[c] /\ copy'[c] = copy[c]
                               /\ provided'[c] = provided[c] /\ overtaken'[c] = overtaken[c]
    BY <1>4 DEF UpdateFails, Return, TypeOK
  <2> QED
    BY <2>1, <2>2 DEF StoredRowsAreValid, Live
<1>5. ASSUME Live, NEW status \in {"enabled", "failed", "deleted"}, SetStatus(status)
      PROVE  UpdateInv'
  <2>1. row \in Rows
    BY <1>5 DEF Live, NoRow, TypeOK
  <2>2. row' \in Rows /\ row'.metric = row.metric
    BY <1>5, <2>1 DEF SetStatus, Rows
  <2>3. StoredRowsAreValid'
    <3>1. Valid(row.metric, row)
      BY <1>5 DEF StoredRowsAreValid
    <3>2. row' = [row EXCEPT !.status = status]
      BY <1>5 DEF SetStatus
    <3>3. status # "deleted" => Valid(row'.metric, row')
      BY <2>1, <3>1, <3>2 DEF Valid, validate, validateStatus, Columns, Rows
    <3>4. row'.status = status
      BY <2>1, <3>2 DEF Rows
    <3> QED
      BY <3>3, <3>4 DEF StoredRowsAreValid, Live
  <2>4. UNCHANGED <<pc, copy>> /\ \A c \in Calls : pc[c] = "writing" => overtaken'[c]
    BY <1>5 DEF SetStatus
  <2> QED
    BY <2>2, <2>3, <2>4
<1>6. CASE UNCHANGED vars
  BY <1>6 DEF StoredRowsAreValid, Live
<1> QED
  BY <1>1, <1>2, <1>3, <1>4, <1>5, <1>6, OthersSetStatus DEF Next

LEMMA UpdateInvariant == Spec => []UpdateInv
<1> QED
  BY UpdateInit, UpdateStep, RegistrationTypeCorrect, PTL DEF Spec

\* StoredRowsAreValid: however many updates of a webhook interleave, the row
\* of a live webhook has a condition its metric compiles, an https target and
\* a cooldown that is not negative.
THEOREM StoredRowsValid == Spec => []StoredRowsAreValid
<1>1. UpdateInv => StoredRowsAreValid
  BY DEF UpdateInv
<1> QED
  BY <1>1, UpdateInvariant, PTL

\* OnlyProvidedChanges: an update that no other write has overtaken leaves
\* the columns its request does not name as they are.
THEOREM OnlyProvided == Spec => OnlyProvidedChanges
<1>1. TypeOK /\ UpdateInv =>
        \A k \in Calls : UpdateWrite(k) /\ ~overtaken[k] =>
          \A f \in DOMAIN row \ provided[k] : row'[f] = row[f]
  BY DEF UpdateWrite, Return, UpdateInv
<1> QED
  BY <1>1, UpdateInvariant, RegistrationTypeCorrect, PTL DEF OnlyProvidedChanges

-----------------------------------------------------------------------------
(* The types of conditions                                                 *)

\* A number of one type can be compared with what a number of another can.
LEMMA NumbersCompare ==
  ASSUME NEW lit \in Literals, NEW kind \in Numeric, Comparable("int", lit)
  PROVE  Comparable(kind, lit)
BY DEF Comparable, Literals, Numeric

\* What passes the trial run does not fail on the values of a message of the
\* same type.
LEMMA TrialIsEnough ==
  ASSUME NEW v, NEW c \in Conditions(v), NEW trial, NEW kind,
         kind = trial \/ (trial = "int" /\ kind \in Numeric),
         ~Fails(trial, c), c.factor \in {"none", "geoDistance"}, ~c.guarded
  PROVE  ~Fails(kind, c)
<1>1. c.right \in Literals
  BY DEF Conditions
<1>2. Left(kind, c) = Left(trial, c) \/ (Left(trial, c) = "int" /\ Left(kind, c) \in Numeric)
  BY DEF Left, geoDistance, Numeric
<1>3. Left(kind, c) # "unbound"
  BY <1>2 DEF Fails, Numeric
<1>4. c.op = "<" => Comparable(Left(kind, c), c.right)
  BY <1>1, <1>2, NumbersCompare DEF Fails
<1> QED
  BY <1>3, <1>4 DEF Fails

\* EvaluatesUnlessUnforeseen: a condition that has been accepted, of whatever
\* metric, fails on a message only for one of the three reasons.
THEOREM AcceptedEvaluate == Spec => []EvaluatesUnlessUnforeseen
<1>1. TypeOK /\ StoredRowsAreValid => EvaluatesUnlessUnforeseen
  <2> SUFFICES ASSUME TypeOK, StoredRowsAreValid, Live,
                      ~Unforeseen(row.metric, row.condition)
               PROVE  ~EvaluateFails(row.metric, row.condition)
    BY DEF EvaluatesUnlessUnforeseen
  <2> DEFINE m == row.metric
             c == row.condition
             v == DOMAIN signalEnv \cup DOMAIN eventEnv
  <2>1. row \in Rows
    BY DEF TypeOK, Live, NoRow
  <2>2. m \in Metrics /\ c \in Conditions(v)
    BY <2>1, ConditionsAssumption DEF Rows
  <2>3. c.factor \in {"none", "geoDistance"} /\ ~c.guarded
    BY <2>2 DEF Unforeseen, Conditions
  <2>4. PrepareCondition(m, c)
    BY DEF StoredRowsAreValid, Valid, validate, Columns
  <2>5. CASE m = "event"
    <3>1. ~Fails(BindEvent("int", c.var), c)
      BY <2>3, <2>4, <2>5 DEF PrepareCondition, PrepareEventCondition
    <3>2. ~Fails(BindEvent("uint", c.var), c)
      <4> DEFINE trial == BindEvent("int", c.var)
                 kind == BindEvent("uint", c.var)
      <4>1. kind = trial \/ (trial = "int" /\ kind \in Numeric)
        BY DEF BindEvent, Numeric
      <4> HIDE DEF m, c, v, trial, kind
      <4> QED
        BY <2>2, <2>3, <3>1, <4>1, TrialIsEnough DEF trial, kind
    <3> QED
      BY <2>5, <3>2 DEF EvaluateFails, EvaluateEventFails
  <2>6. CASE m # "event"
    <3>1. ~Fails(Bind(ValueType(m), "int", c.var), c)
      BY <2>3, <2>4, <2>6 DEF PrepareCondition, PrepareSignalCondition
    <3>2. ASSUME NEW type \in inferSignalValueType(m)
          PROVE  ~Fails(Bind(type, "double", c.var), c)
      <4> DEFINE trial == Bind(ValueType(m), "int", c.var)
                 kind == Bind(type, "double", c.var)
      <4>1. CASE m # "unknown"
        <5>1. type = ValueType(m)
          BY <4>1 DEF inferSignalValueType, ValueType
        <5>2. kind = trial \/ (trial = "int" /\ kind \in Numeric)
          BY <5>1 DEF Bind, Numeric
        <5> HIDE DEF m, c, v, trial, kind
        <5> QED
          BY <2>2, <2>3, <3>1, <5>2, TrialIsEnough DEF trial, kind
      <4>2. CASE m = "unknown"
        <5>1. c.var \notin {"value", "previousValue"}
          BY <4>2 DEF Unforeseen
        <5>2. trial # "unbound"
          BY <2>3, <3>1 DEF Fails, Left, geoDistance
        <5>3. kind = trial \/ (trial = "int" /\ kind \in Numeric)
          BY <4>2, <5>1, <5>2 DEF Bind, Numeric, ValueType
        <5> HIDE DEF m, c, v, trial, kind
        <5> QED
          BY <2>2, <2>3, <3>1, <5>3, TrialIsEnough DEF trial, kind
      <4> QED
        BY <4>1, <4>2
    <3> QED
      BY <2>6, <3>2 DEF EvaluateFails, EvaluateSignalFails
  <2> QED
    BY <2>5, <2>6
<1> QED
  BY <1>1, RegistrationTypeCorrect, StoredRowsValid, PTL
=============================================================================
