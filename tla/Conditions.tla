----------------------------- MODULE Conditions -----------------------------
(***************************************************************************)
(* The types of CEL conditions (internal/celcondition).  A condition is    *)
(* compiled against the declared types of the variables, then run once on  *)
(* values made up for the occasion, when a webhook is registered or        *)
(* updated and when it enters the cache; a message is evaluated on its     *)
(* own values.  Nothing makes the three agree.                             *)
(*                                                                         *)
(* A condition is "var op literal", "var * literal op literal",            *)
(* "geoDistance(var, ...) op literal" or the bare variable, and it may be  *)
(* guarded: "guard && ...", with a guard the made-up values do not pass.   *)
(* A literal is its type.  The run-time types are CEL's: int, uint,        *)
(* double, string.                                                         *)
(***************************************************************************)

\* What a webhook is about: a signal of the schema, by the type of its
\* value, a signal that is not in it, or an event.
Metrics == {"number", "string", "location", "unknown", "event"}
Literals == {"int", "double", "string"}
Numeric == {"int", "uint", "double"}

Conditions(vars) ==
  [var : vars, factor : {"none", "int", "double", "geoDistance"}, op : {"<", "==", "bare"},
   right : Literals, guarded : BOOLEAN]

\* Name -> declared type.
signalEnv ==
  [valueNumber |-> "dyn", valueString |-> "string", value |-> "dyn", valueLatitude |-> "dyn",
   source |-> "double", previousValueNumber |-> "double", previousValueString |-> "string",
   previousValue |-> "dyn", previousValueLatitude |-> "dyn", previousSource |-> "string"]

eventEnv ==
  [source |-> "string", name |-> "string", durationNs |-> "dyn", metadata |-> "string",
   previousSource |-> "string", previousName |-> "string", previousDurationNs |-> "dyn",
   previousMetadata |-> "string"]

Env(m) == IF m = "event" THEN eventEnv ELSE signalEnv

-----------------------------------------------------------------------------
(* cel.Env.Compile: the overloads of the operators                         *)

Comparable(l, r) == l = r \/ {l, r} \subseteq Numeric

\* The function takes arguments of any type (what is not a number counts as 0)
\* and returns a double.
geoDistance(kind) == IF kind = "unbound" THEN "unbound" ELSE "double"

\* Where it is declared.
geoDistanceOpt(env) == env = signalEnv

\* The static type of the left operand.
StaticLeft(env, c) ==
  CASE c.factor = "none" -> env[c.var]
    [] c.factor = "geoDistance" -> geoDistance(env[c.var])
    [] c.factor \in Numeric /\ env[c.var] \in {"dyn", c.factor} -> c.factor
    [] OTHER -> "error"

\* Order compares across the numeric types, equality does not, and the
\* operands of && are Boolean.
Compile(env, c) ==
  LET l == StaticLeft(env, c) IN
  /\ c.var \in DOMAIN env
  /\ l # "error"
  /\ c.factor = "geoDistance" => geoDistanceOpt(env)
  /\ CASE c.op = "<"    -> l = "dyn" \/ Comparable(l, c.right)
       [] c.op = "=="   -> l \in {"dyn", c.right}
       [] c.op = "bare" -> c.guarded => l = "dyn"

-----------------------------------------------------------------------------
(* cel.Program.Eval                                                        *)

\* The variables of a location are bound one by one, the value itself is not.
Bind(type, number, var) ==
  CASE var \in {"valueNumber", "previousValueNumber"} -> number
    [] var \in {"valueString", "previousValueString", "source", "previousSource"} -> "string"
    [] var \in {"value", "previousValue"} ->
         (CASE type = "number" -> number [] type = "string" -> "string" [] OTHER -> "unbound")
    [] OTHER -> IF type = "location" THEN number ELSE "unbound"

BindEvent(duration, var) ==
  IF var \in {"durationNs", "previousDurationNs"} THEN duration ELSE "string"

\* The type of the left operand: arithmetic wants two operands of one type.
Left(kind, c) ==
  CASE c.factor = "none" -> kind
    [] c.factor = "geoDistance" -> geoDistance(kind)
    [] c.factor = kind -> kind
    [] OTHER -> "unbound"

\* Order compares two strings or two numbers, && wants a Boolean; equality
\* takes anything.
Fails(kind, c) ==
  \/ Left(kind, c) = "unbound"
  \/ c.op = "<" /\ ~Comparable(Left(kind, c), c.right)
  \/ c.op = "bare" /\ c.guarded

\* Mutant: what compiles is accepted.
PrepareSignalCondition_compiles(c, type) == Compile(signalEnv, c) /\ type \in Metrics

\* The made-up values: every number is the int 0.  A guard hides what is
\* behind it.
PrepareSignalCondition(c, type) ==
  /\ Compile(signalEnv, c)
  /\ c.guarded \/ (~Fails(Bind(type, "int", c.var), c) /\ c.op # "bare")

PrepareEventCondition(c) ==
  /\ Compile(eventEnv, c)
  /\ c.guarded \/ (~Fails(BindEvent("int", c.var), c) /\ c.op # "bare")

\* GetSignalDefinitionOrDefault, for a signal of which there is no value yet.
ValueType(m) == IF m = "unknown" THEN "number" ELSE m

PrepareCondition(m, c) ==
  IF m = "event" THEN PrepareEventCondition(c)
  ELSE PrepareSignalCondition(c, ValueType(m))

\* inferSignalValueType: a signal that is not in the schema has the type of
\* the value it comes with.
inferSignalValueType(m) ==
  IF m = "unknown" THEN {"number", "string", "location"} ELSE {m}

\* A message on which the evaluation of the condition is an error: the numbers
\* of a signal are doubles,
EvaluateSignalFails(c, type) == Fails(Bind(type, "double", c.var), c)

\* and the duration of an event is unsigned.
EvaluateEventFails(c) == Fails(BindEvent("uint", c.var), c)

EvaluateFails(m, c) ==
  IF m = "event" THEN EvaluateEventFails(c)
  ELSE \E type \in inferSignalValueType(m) : EvaluateSignalFails(c, type)
=============================================================================
