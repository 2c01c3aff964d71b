--------------------------- MODULE PermissionSort ---------------------------
(***************************************************************************)
(* The key of the permission cache sorts the list of permissions in place  *)
(* (accessRequestCacheKey), and the list is not the request's own: every   *)
(* event, and every signal the schema does not know, is evaluated with the *)
(* one slice signals.DefaultPermissions.  The goroutines of one message    *)
(* (errgroup, at most 100) sort it side by side, without a lock.           *)
(*                                                                         *)
(* slices.Sort is an insertion sort for a list this short.  A permission   *)
(* is its place in the order of the strings.  An element is loaded and     *)
(* stored in one piece here; a string is two words, and the torn values    *)
(* the memory model allows besides are left out.                           *)
(***************************************************************************)
EXTENDS Naturals, Sequences

CONSTANTS Goroutines,
          DefaultPermissions  \* as the source lists them

VARIABLES permissions,  \* the shared slice
          pc,
          i, j,         \* the indexes of the sort
          lower, upper  \* what the swap has loaded from j - 1 and j

vars == <<permissions, pc, i, j, lower, upper>>

Init ==
  /\ permissions = DefaultPermissions
  /\ pc = [g \in Goroutines |-> "compare"]
  /\ i = [g \in Goroutines |-> 2] /\ j = [g \in Goroutines |-> 2]
  /\ lower = [g \in Goroutines |-> 0] /\ upper = [g \in Goroutines |-> 0]

Goto(g, from, to) ==
  /\ pc[g] = from
  /\ pc' = [pc EXCEPT ![g] = to]

Sinks(g) == j[g] > 1 /\ permissions[j[g]] < permissions[j[g] - 1]

\* The element at j belongs further down.
Compare(g) ==
  /\ i[g] <= Len(permissions) /\ Sinks(g)
  /\ Goto(g, "compare", "load")
  /\ UNCHANGED <<permissions, i, j, lower, upper>>

\* The element has found its place: on to the next one.
NextElement(g) ==
  /\ pc[g] = "compare"
  /\ i[g] <= Len(permissions) /\ ~Sinks(g)
  /\ i' = [i EXCEPT ![g] = @ + 1]
  /\ j' = [j EXCEPT ![g] = i'[g]]
  /\ UNCHANGED <<permissions, pc, lower, upper>>

\* data[j], data[j-1] = data[j-1], data[j]
Load(g) ==
  /\ Goto(g, "load", "storeUpper")
  /\ lower' = [lower EXCEPT ![g] = permissions[j[g] - 1]]
  /\ upper' = [upper EXCEPT ![g] = permissions[j[g]]]
  /\ UNCHANGED <<permissions, i, j>>

StoreUpper(g) ==
  /\ Goto(g, "storeUpper", "storeLower")
  /\ permissions' = [permissions EXCEPT ![j[g]] = lower[g]]
  /\ UNCHANGED <<i, j, lower, upper>>

StoreLower(g) ==
  /\ Goto(g, "storeLower", "compare")
  /\ permissions' = [permissions EXCEPT ![j[g] - 1] = upper[g]]
  /\ j' = [j EXCEPT ![g] = @ - 1]
  /\ UNCHANGED <<i, lower, upper>>

\* The key is made, and the token exchange is asked for what the list holds.
AccessCheck(g) ==
  /\ i[g] > Len(permissions)
  /\ Goto(g, "compare", "asking")
  /\ UNCHANGED <<permissions, i, j, lower, upper>>

Sort(g) ==
  Compare(g) \/ NextElement(g) \/ Load(g) \/ StoreUpper(g) \/ StoreLower(g)

Next == \E g \in Goroutines : Sort(g) \/ AccessCheck(g)

Spec == Init /\ [][Next]_vars

Elements(list) == {list[n] : n \in DOMAIN list}

\* When every goroutine has made its key, the list they share still holds the
\* default permissions: nothing puts back one that is lost, and every later
\* event is checked with what is left (trigger_evaluator.go: "Check
\* permissions for events (use standard permissions)").
PermissionsKept ==
  (\A g \in Goroutines : pc[g] = "asking") =>
    Elements(permissions) = Elements(DefaultPermissions)
=============================================================================
