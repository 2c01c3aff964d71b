--------------------------- MODULE MCRegistration ---------------------------
(* Registration for TLC: every condition over the variables below may be    *)
(* registered; an update brings one that is good for any signal, or one     *)
(* that is good for events.                                                 *)
EXTENDS Registration, TLC

\* One variable of each declared and bound type: the others are like one of
\* these.
Variables == {"valueNumber", "previousValueNumber", "value", "valueLatitude", "source",
              "previousSource", "durationNs"}

\* What is behind a guard is not run; one literal is enough there.
AllConditions == {c \in Conditions(Variables) : c.guarded => c.right = "string"}

Comparison(v, lit) ==
  [var |-> v, factor |-> "none", op |-> "<", right |-> lit, guarded |-> FALSE]

Updates == {Comparison("valueNumber", "int"), Comparison("durationNs", "int")}

Symmetry == Permutations(Calls)
=============================================================================
