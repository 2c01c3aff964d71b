---------------------------- MODULE AtLeastOnce ----------------------------
(***************************************************************************)
(* What the consumer of a topic promises, with nothing said of loops,      *)
(* goroutines, sessions or crashes: every message of a partition is        *)
(* handled, the first time in the order of the partition, perhaps again    *)
(* later; and an offset is committed one message at a time, each after the *)
(* message it passes has been handled.                                     *)
(***************************************************************************)
EXTENDS Integers

CONSTANTS Partitions, Length

VARIABLES committed,   \* how many messages of each partition are committed
          handled      \* the messages handled at least once

vars == <<committed, handled>>

Init ==
  /\ committed = [p \in Partitions |-> 0]
  /\ handled = {}

Handle(p, i) ==
  /\ \A k \in 1..(i - 1) : <<p, k>> \in handled
  /\ handled' = handled \cup {<<p, i>>}
  /\ UNCHANGED committed

Commit(p) ==
  /\ <<p, committed[p] + 1>> \in handled
  /\ committed' = [committed EXCEPT ![p] = @ + 1]
  /\ UNCHANGED handled

Next == \E p \in Partitions : Commit(p) \/ \E i \in 1..Length : Handle(p, i)

Spec == Init /\ [][Next]_vars
=============================================================================
