------------------------- MODULE PermissionSortProofs -------------------------
(***************************************************************************)
(* Proofs about PermissionSort.  For any number of goroutines and any list *)
(* of permissions the race stays within the list and invents nothing; for  *)
(* one goroutine the sort is a sort, so that the permissions the run       *)
(* permissions_lost loses are lost to the race and to nothing else.        *)
(***************************************************************************)
EXTENDS PermissionSort, TLAPS

USE DEF vars, Goto, Elements

N == Len(DefaultPermissions)
Defaults == Elements(DefaultPermissions)

\* A list of permissions: their places in the order of the strings.
ListAssumption == DefaultPermissions \in Seq(Nat)

\* The inductive invariant of the race: the indexes stay in the list, and what
\* a swap carries is one of the list's own elements.
RaceInv ==
  /\ permissions \in [1 .. N -> Defaults]
  /\ pc \in [Goroutines -> {"compare", "load", "storeUpper", "storeLower", "asking"}]
  /\ i \in [Goroutines -> Nat] /\ j \in [Goroutines -> Nat]
  /\ lower \in [Goroutines -> Nat] /\ upper \in [Goroutines -> Nat]
  /\ \A g \in Goroutines :
       /\ 1 <= j[g] /\ j[g] <= i[g]
       /\ pc[g] \in {"load", "storeUpper", "storeLower"} => 1 < j[g] /\ i[g] <= N
       /\ pc[g] \in {"storeUpper", "storeLower"} => lower[g] \in Defaults /\ upper[g] \in Defaults
       /\ pc[g] = "asking" => i[g] > N

LEMMA ListIsFunction ==
  ASSUME ListAssumption
  PROVE  /\ N \in Nat
         /\ Defaults \subseteq Nat
         /\ DefaultPermissions \in [1 .. N -> Defaults]
BY DEF ListAssumption, N, Defaults

\* Every list the race can leave has the length of the first.
LEMMA ListLength ==
  ASSUME ListAssumption, RaceInv
  PROVE  Len(permissions) = N /\ DOMAIN permissions = 1 .. N
<1>1. DOMAIN permissions = 1 .. N /\ N \in Nat
  BY ListIsFunction DEF RaceInv
<1>2. permissions \in Seq(Defaults)
  BY <1>1, SMT DEF RaceInv
<1>3. Len(permissions) \in Nat /\ DOMAIN permissions = 1 .. Len(permissions)
  BY <1>2
<1> QED
  BY <1>1, <1>3

LEMMA RaceInit ==
  ASSUME ListAssumption
  PROVE  Init => RaceInv
BY ListIsFunction DEF Init, RaceInv

LEMMA RaceStep ==
  ASSUME ListAssumption
  PROVE  RaceInv /\ [Next]_vars => RaceInv'
<1> SUFFICES ASSUME RaceInv, [Next]_vars
             PROVE  RaceInv'
  OBVIOUS
<1>0. Len(permissions) = N /\ N \in Nat /\ Defaults \subseteq Nat
  BY ListLength, ListIsFunction
<1>1. ASSUME NEW g \in Goroutines, Compare(g)
      PROVE  RaceInv'
  BY <1>0, <1>1 DEF Compare, Sinks, RaceInv
<1>2. ASSUME NEW g \in Goroutines, NextElement(g)
      PROVE  RaceInv'
  BY <1>0, <1>2 DEF NextElement, RaceInv
<1>3. ASSUME NEW g \in Goroutines, Load(g)
      PROVE  RaceInv'
  <2>1. permissions[j[g]] \in Defaults /\ permissions[j[g] - 1] \in Defaults
    BY <1>0, <1>3 DEF Load, RaceInv
  <2> QED
    BY <1>0, <1>3, <2>1 DEF Load, RaceInv
<1>4. ASSUME NEW g \in Goroutines, StoreUpper(g)
      PROVE  RaceInv'
  BY <1>0, <1>4 DEF StoreUpper, RaceInv
<1>5. ASSUME NEW g \in Goroutines, StoreLower(g)
      PROVE  RaceInv'
  BY <1>0, <1>5 DEF StoreLower, RaceInv
<1>6. ASSUME NEW g \in Goroutines, AccessCheck(g)
      PROVE  RaceInv'
  BY <1>0, <1>6 DEF AccessCheck, RaceInv
<1>7. CASE UNCHANGED vars
  BY <1>7 DEF RaceInv
<1> QED
  BY <1>1, <1>2, <1>3, <1>4, <1>5, <1>6, <1>7 DEF Next, Sort

\* However many goroutines sort the shared list side by side, none indexes it
\* out of range, and every element is one of the default permissions at all
\* times: an access check asks for too little, never for something else.
NothingInvented ==
  /\ DOMAIN permissions = DOMAIN DefaultPermissions
  /\ Elements(permissions) \subseteq Elements(DefaultPermissions)
  /\ \A g \in Goroutines :
       pc[g] \in {"load", "storeUpper", "storeLower"} =>
         {j[g], j[g] - 1} \subseteq DOMAIN permissions

THEOREM RaceInventsNothing ==
  ASSUME ListAssumption
  PROVE  Spec => []NothingInvented
<1>1. RaceInv => NothingInvented
  <2> SUFFICES ASSUME RaceInv
               PROVE  NothingInvented
    OBVIOUS
  <2>1. DOMAIN permissions = 1 .. N /\ DOMAIN DefaultPermissions = 1 .. N /\ N \in Nat
    BY ListLength, ListIsFunction
  <2> QED
    BY <2>1 DEF NothingInvented, RaceInv, Defaults
<1>2. RaceInv /\ [Next]_vars => RaceInv'
  BY RaceStep
<1> QED
  BY <1>1, <1>2, RaceInit, PTL DEF Spec

-----------------------------------------------------------------------------
(* One goroutine at a time                                                 *)

OneGoroutine == \E g : Goroutines = {g}

\* The list is sorted up to b, but for the element at the index hole.
SortedBut(hole, b) ==
  \A k, l \in 1 .. b : k < l /\ l # hole => permissions[k] <= permissions[l]

\* The inductive invariant of the sort.  Between the two stores of a swap one
\* element is only in upper, and the other stands twice in the list.
SortInv ==
  \A g \in Goroutines :
    /\ pc[g] \in {"compare", "asking", "load", "storeUpper"} => Elements(permissions) = Defaults
    /\ pc[g] \in {"compare", "load", "storeUpper"} /\ i[g] <= N => SortedBut(j[g], i[g])
    /\ pc[g] \in {"compare", "asking"} /\ i[g] > N => SortedBut(N + 1, N)
    /\ pc[g] \in {"load", "storeUpper"} => permissions[j[g]] < permissions[j[g] - 1]
    /\ pc[g] = "storeUpper" => lower[g] = permissions[j[g] - 1] /\ upper[g] = permissions[j[g]]
    /\ pc[g] = "storeLower" =>
         /\ lower[g] = permissions[j[g]] /\ lower[g] = permissions[j[g] - 1]
         /\ upper[g] < lower[g]
         /\ Elements(permissions) \cup {upper[g]} = Defaults
         /\ SortedBut(N + 1, i[g])
         /\ \A l \in j[g] + 1 .. i[g] : upper[g] <= permissions[l]

LEMMA SortInit ==
  ASSUME ListAssumption
  PROVE  Init => SortInv
<1> SUFFICES ASSUME Init
             PROVE  SortInv
  OBVIOUS
<1>1. permissions = DefaultPermissions /\ Elements(permissions) = Defaults /\ N \in Nat
  BY ListIsFunction DEF Init, Defaults
<1>2. 2 <= N => SortedBut(2, 2)
  BY <1>1 DEF SortedBut
<1>3. 2 > N => SortedBut(N + 1, N)
  BY <1>1 DEF SortedBut
<1> QED
  BY <1>1, <1>2, <1>3 DEF Init, SortInv

LEMMA SortStep ==
  ASSUME ListAssumption, OneGoroutine
  PROVE  RaceInv /\ SortInv /\ [Next]_vars => SortInv'
<1> SUFFICES ASSUME RaceInv, SortInv, [Next]_vars
             PROVE  SortInv'
  OBVIOUS
<1>0. /\ Len(permissions) = N /\ DOMAIN permissions = 1 .. N /\ N \in Nat
      /\ \A k \in 1 .. N : permissions[k] \in Nat
  BY ListLength, ListIsFunction DEF RaceInv
<1>1. ASSUME NEW g \in Goroutines, Compare(g)
      PROVE  SortInv'
  BY <1>0, <1>1 DEF Compare, Sinks, RaceInv, SortInv, SortedBut, OneGoroutine
<1>2. ASSUME NEW g \in Goroutines, NextElement(g)
      PROVE  SortInv'
  <2>1. /\ Goroutines = {g} /\ UNCHANGED permissions
        /\ pc[g] = "compare" /\ pc'[g] = "compare"
        /\ i'[g] = i[g] + 1 /\ j'[g] = i[g] + 1 /\ i[g] <= N /\ i[g] \in Nat
        /\ j[g] \in 1 .. i[g]
    BY <1>0, <1>2 DEF NextElement, RaceInv, OneGoroutine
  <2>2. j[g] > 1 => permissions[j[g] - 1] <= permissions[j[g]]
    BY <1>0, <1>2, <2>1 DEF NextElement, Sinks, RaceInv
  <2>3. SortedBut(j[g], i[g]) /\ Elements(permissions) = Defaults
    BY <2>1 DEF SortInv
  <2>4. \A k, l \in 1 .. i[g] : k < l => permissions[k] <= permissions[l]
    <3> SUFFICES ASSUME NEW k \in 1 .. i[g], NEW l \in 1 .. i[g], k < l
                 PROVE  permissions[k] <= permissions[l]
      OBVIOUS
    <3>1. CASE l # j[g]
      BY <2>3, <3>1 DEF SortedBut
    <3>2. CASE l = j[g]
      <4>1. j[g] > 1 /\ k \in 1 .. j[g] - 1 /\ j[g] - 1 \in 1 .. i[g]
        BY <2>1, <3>2
      <4>2. k < j[g] - 1 => permissions[k] <= permissions[j[g] - 1]
        BY <2>1, <2>3, <4>1 DEF SortedBut
      <4>3. k \in 1 .. N /\ j[g] - 1 \in 1 .. N /\ j[g] \in 1 .. N
        BY <1>0, <2>1, <4>1
      <4>4. /\ permissions[k] \in Nat /\ permissions[j[g] - 1] \in Nat
            /\ permissions[j[g]] \in Nat
        BY <1>0, <4>3
      <4> QED
        BY <2>2, <3>2, <4>1, <4>2, <4>4
    <3> QED
      BY <3>1, <3>2
  <2>5. i'[g] <= N => SortedBut(j[g], i[g])'
    BY <2>1, <2>4 DEF SortedBut
  <2>6. i'[g] > N => SortedBut(N + 1, N)'
    BY <1>0, <2>1, <2>4 DEF SortedBut
  <2> QED
    BY <2>1, <2>3, <2>5, <2>6 DEF SortInv
<1>3. ASSUME NEW g \in Goroutines, Load(g)
      PROVE  SortInv'
  BY <1>0, <1>3 DEF Load, RaceInv, SortInv, SortedBut, OneGoroutine
<1>4. ASSUME NEW g \in Goroutines, StoreUpper(g)
      PROVE  SortInv'
  <2>0. Goroutines = {g}
    BY DEF OneGoroutine
  <2>1. /\ pc[g] = "storeUpper" /\ pc'[g] = "storeLower"
        /\ UNCHANGED <<i, j, lower, upper>>
        /\ permissions' = [permissions EXCEPT ![j[g]] = lower[g]]
        /\ i[g] \in 1 .. N /\ j[g] \in 2 .. i[g]
    BY <1>0, <1>4 DEF StoreUpper, RaceInv
  <2>2. /\ lower[g] = permissions[j[g] - 1] /\ upper[g] = permissions[j[g]]
        /\ upper[g] < lower[g]
        /\ SortedBut(j[g], i[g]) /\ Elements(permissions) = Defaults
    BY <1>0, <2>1 DEF SortInv
  <2>3. /\ permissions'[j[g]] = lower[g]
        /\ \A k \in 1 .. N : k # j[g] => permissions'[k] = permissions[k]
        /\ DOMAIN permissions' = 1 .. N
    BY <1>0, <2>1
  <2>4. Elements(permissions') \cup {upper[g]} = Defaults
    BY <1>0, <2>1, <2>2, <2>3
  <2>5. \A k, l \in 1 .. i[g] : k < l => permissions'[k] <= permissions'[l]
    <3> SUFFICES ASSUME NEW k \in 1 .. i[g], NEW l \in 1 .. i[g], k < l
                 PROVE  permissions'[k] <= permissions'[l]
      OBVIOUS
    <3>1. CASE l # j[g] /\ k # j[g]
      BY <2>1, <2>2, <2>3, <3>1 DEF SortedBut
    <3>2. CASE k = j[g]
      <4>1. permissions[j[g] - 1] <= permissions[l]
        BY <2>1, <2>2, <3>2 DEF SortedBut
      <4>2. permissions'[l] = permissions[l] /\ permissions'[k] = permissions[j[g] - 1]
        BY <1>0, <2>1, <2>2, <2>3, <3>2
      <4> QED
        BY <4>1, <4>2
    <3>3. CASE l = j[g]
      <4>1. k < j[g] - 1 => permissions[k] <= permissions[j[g] - 1]
        BY <2>1, <2>2, <3>3 DEF SortedBut
      <4>2. permissions[k] <= permissions[j[g] - 1]
        BY <1>0, <2>1, <3>3, <4>1
      <4>3. permissions'[k] = permissions[k] /\ permissions'[l] = permissions[j[g] - 1]
        BY <1>0, <2>1, <2>2, <2>3, <3>3
      <4> QED
        BY <4>2, <4>3
    <3> QED
      BY <3>1, <3>2, <3>3
  <2>6. \A l \in j[g] + 1 .. i[g] : upper[g] <= permissions'[l]
    BY <2>1, <2>2, <2>3 DEF SortedBut
  <2>7. SortedBut(N + 1, i[g])'
    BY <2>1, <2>5 DEF SortedBut
  <2> QED
    BY <2>0, <2>1, <2>2, <2>3, <2>4, <2>6, <2>7 DEF SortInv
<1>5. ASSUME NEW g \in Goroutines, StoreLower(g)
      PROVE  SortInv'
  <2>0. Goroutines = {g}
    BY DEF OneGoroutine
  <2>1. /\ pc[g] = "storeLower" /\ pc'[g] = "compare"
        /\ UNCHANGED i /\ j'[g] = j[g] - 1
        /\ permissions' = [permissions EXCEPT ![j[g] - 1] = upper[g]]
        /\ i[g] \in 1 .. N /\ j[g] \in 2 .. i[g]
    BY <1>0, <1>5 DEF StoreLower, RaceInv
  <2>2. /\ lower[g] = permissions[j[g]] /\ lower[g] = permissions[j[g] - 1]
        /\ upper[g] < lower[g]
        /\ Elements(permissions) \cup {upper[g]} = Defaults
        /\ SortedBut(N + 1, i[g])
        /\ \A l \in j[g] + 1 .. i[g] : upper[g] <= permissions[l]
    BY <2>1 DEF SortInv
  <2>3. /\ permissions'[j[g] - 1] = upper[g]
        /\ \A k \in 1 .. N : k # j[g] - 1 => permissions'[k] = permissions[k]
        /\ DOMAIN permissions' = 1 .. N
    BY <1>0, <2>1
  <2>4. Elements(permissions') = Defaults
    <3>1. ASSUME NEW k \in 1 .. N
          PROVE  permissions'[k] \in Defaults
      BY <1>0, <2>2, <2>3
    <3>2. ASSUME NEW x \in Defaults
          PROVE  \E k \in 1 .. N : permissions'[k] = x
      <4>1. j[g] - 1 \in 1 .. N /\ j[g] \in 1 .. N /\ j[g] # j[g] - 1
        BY <1>0, <2>1
      <4>2. permissions'[j[g]] = permissions[j[g] - 1]
        BY <2>2, <2>3, <4>1
      <4>3. x = upper[g] \/ \E n \in 1 .. N : x = permissions[n]
        BY <1>0, <2>2
      <4> QED
        BY <2>3, <4>1, <4>2, <4>3
    <3> QED
      BY <2>3, <3>1, <3>2
  <2>5. ASSUME NEW k \in 1 .. i[g], NEW l \in 1 .. i[g], k < l, l # j[g] - 1
        PROVE  permissions'[k] <= permissions'[l]
    <3>1. k \in 1 .. N /\ l \in 1 .. N /\ permissions'[l] = permissions[l]
      BY <1>0, <2>1, <2>3, <2>5
    <3>2. CASE k = j[g] - 1
      <4>1. l = j[g] \/ l \in j[g] + 1 .. i[g]
        BY <2>1, <2>5, <3>2
      <4>2. permissions[j[g]] \in Nat /\ upper[g] \in Nat
        BY <1>0, <2>1 DEF RaceInv
      <4>3. upper[g] < permissions[j[g]]
        BY <2>2
      <4>4. upper[g] <= permissions[j[g]]
        BY <4>2, <4>3
      <4>5. upper[g] <= permissions[l]
        BY <2>2, <4>1, <4>4
      <4> QED
        BY <2>3, <3>1, <3>2, <4>5
    <3>3. CASE k # j[g] - 1
      <4>1. permissions'[k] = permissions[k] /\ l # N + 1
        BY <1>0, <2>3, <3>1, <3>3
      <4>2. permissions[k] <= permissions[l]
        BY <2>2, <2>5, <4>1 DEF SortedBut
      <4> QED
        BY <3>1, <4>1, <4>2
    <3> QED
      BY <3>2, <3>3
  <2>6. SortedBut(j[g], i[g])'
    BY <2>1, <2>5 DEF SortedBut
  <2> QED
    <3>1. i'[g] <= N /\ ~(i'[g] > N)
      BY <1>0, <2>1
    <3> QED
      BY <2>0, <2>1, <2>4, <2>6, <3>1 DEF SortInv
<1>6. ASSUME NEW g \in Goroutines, AccessCheck(g)
      PROVE  SortInv'
  BY <1>0, <1>6 DEF AccessCheck, RaceInv, SortInv, SortedBut, OneGoroutine
<1>7. CASE UNCHANGED vars
  BY <1>7 DEF SortInv, SortedBut
<1> QED
  BY <1>1, <1>2, <1>3, <1>4, <1>5, <1>6, <1>7 DEF Next, Sort

\* The key of the cache does not depend on the order of the list.
KeyIsSorted ==
  (\A g \in Goroutines : pc[g] = "asking") =>
    \A k, l \in DOMAIN permissions : k < l => permissions[k] <= permissions[l]

\* A goroutine that is alone with the list sorts it and keeps every permission
\* of it: it takes a second one to lose a permission (PermissionsKept).
THEOREM AloneItSorts ==
  ASSUME ListAssumption, OneGoroutine
  PROVE  Spec => [](PermissionsKept /\ KeyIsSorted)
<1>1. RaceInv /\ SortInv => PermissionsKept /\ KeyIsSorted
  <2> SUFFICES ASSUME RaceInv, SortInv, \A g \in Goroutines : pc[g] = "asking"
               PROVE  /\ Elements(permissions) = Defaults
                      /\ \A k, l \in DOMAIN permissions :
                           k < l => permissions[k] <= permissions[l]
    BY DEF PermissionsKept, KeyIsSorted, Defaults
  <2>1. DOMAIN permissions = 1 .. N /\ N \in Nat
    BY ListLength, ListIsFunction
  <2>2. PICK g \in Goroutines : pc[g] = "asking"
    BY DEF OneGoroutine
  <2> QED
    BY <2>1, <2>2 DEF RaceInv, SortInv, SortedBut
<1>2. RaceInv /\ SortInv /\ [Next]_vars => RaceInv' /\ SortInv'
  BY RaceStep, SortStep
<1>3. Init => RaceInv /\ SortInv
  BY RaceInit, SortInit
<1> QED
  BY <1>1, <1>2, <1>3, PTL DEF Spec
=============================================================================
