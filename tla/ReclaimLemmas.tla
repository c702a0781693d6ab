---------------------------- MODULE ReclaimLemmas ---------------------------
(***************************************************************************)
(* The data structures of reclamation: the linked lists of delete nodes,   *)
(* the array deleted that a context keeps, and the array of a snapshot.    *)
(***************************************************************************)
EXTENDS HazptrReclaim, Snapshot, ListLemmas, FiniteSetTheorems, TLAPS

-----------------------------------------------------------------------------
(***************************************************************************)
(* What pushing, delinking and taking over do to the nodes of a list.      *)
(***************************************************************************)
(* No node of the list that starts at h is met again after it. *)
Acyclic(nx, h) == \A o \in ChainOf(nx, h) : o \notin ChainOf(nx, nx[o])

NodeLinks == [Objects -> Pointer]

(* The lemmas on lists, for the lists of delete nodes. *)
LEMMA ChainClosed ==
  ASSUME NEW nx \in NodeLinks, NEW h \in Pointer
  PROVE  /\ ChainOf(nx, h) \in SUBSET Objects
         /\ Follows(NULL, nx, h, ChainOf(nx, h))
BY ListClosed, ObjectsAssumption DEF ChainOf, NodeLinks, Links, Pointer

(* A set that holds the head and, with a node, the next one. *)
LEMMA ChainLeast ==
  ASSUME NEW nx, NEW h, NEW set \in SUBSET Objects, Follows(NULL, nx, h, set)
  PROVE  ChainOf(nx, h) \subseteq set
BY ListLeast, ObjectsAssumption DEF ChainOf

(* The list of a null head is empty. *)
LEMMA ChainNull ==
  ASSUME NEW nx PROVE ChainOf(nx, NULL) = {}
BY ListNull, ObjectsAssumption DEF ChainOf

(* A list is its head and the list after the head. *)
LEMMA ChainHead ==
  ASSUME NEW nx \in NodeLinks, NEW h \in Objects
  PROVE  ChainOf(nx, h) = {h} \cup ChainOf(nx, nx[h])
BY ListHead, ObjectsAssumption DEF ChainOf, NodeLinks, Links, Pointer

(* The lists that start at a node of a list, and after it. *)
LEMMA ChainSuffix ==
  ASSUME NEW nx \in NodeLinks, NEW h \in Pointer, NEW o \in ChainOf(nx, h)
  PROVE  /\ o \in Objects /\ nx[o] \in Pointer
         /\ ChainOf(nx, o) \subseteq ChainOf(nx, h)
         /\ ChainOf(nx, nx[o]) \subseteq ChainOf(nx, h)
BY ListSuffix, ObjectsAssumption DEF ChainOf, NodeLinks, Links, Pointer

(* Of two nodes of a list one comes after the other. *)
LEMMA ChainOrdered ==
  ASSUME NEW nx \in NodeLinks, NEW h \in Pointer,
         NEW a \in ChainOf(nx, h), NEW b \in ChainOf(nx, h)
  PROVE  a \in ChainOf(nx, b) \/ b \in ChainOf(nx, a)
BY ListOrdered, ObjectsAssumption DEF ChainOf, NodeLinks, Links, Pointer

(* A list does not depend on the links of other nodes. *)
LEMMA ChainFrame ==
  ASSUME NEW nx \in NodeLinks, NEW ny \in NodeLinks, NEW h \in Pointer,
         \A o \in ChainOf(nx, h) : ny[o] = nx[o]
  PROVE  ChainOf(ny, h) = ChainOf(nx, h)
BY ListFrame, ObjectsAssumption DEF ChainOf, NodeLinks, Links, Pointer

(* A list whose links do not change stays the same and without a cycle. *)
LEMMA AcyclicFrame ==
  ASSUME NEW nx \in NodeLinks, NEW ny \in NodeLinks, NEW h \in Pointer, Acyclic(nx, h),
         \A o \in ChainOf(nx, h) : ny[o] = nx[o]
  PROVE  ChainOf(ny, h) = ChainOf(nx, h) /\ Acyclic(ny, h)
<1>1. ChainOf(ny, h) = ChainOf(nx, h)
  BY ChainFrame
<1>2. ASSUME NEW o \in ChainOf(nx, h) PROVE o \notin ChainOf(ny, ny[o])
  <2>1. nx[o] \in Pointer /\ ChainOf(nx, nx[o]) \subseteq ChainOf(nx, h)
    BY ChainSuffix
  <2>2. ChainOf(ny, nx[o]) = ChainOf(nx, nx[o])
    BY <2>1, ChainFrame
  <2> QED BY <2>2 DEF Acyclic
<1> QED BY <1>1, <1>2 DEF Acyclic

(* A node that is not in the list h, and whose link leads to h, is pushed. *)
LEMMA ChainPush ==
  ASSUME NEW nx \in NodeLinks, NEW h \in Pointer, Acyclic(nx, h),
         NEW node \in Objects, node \notin ChainOf(nx, h), nx[node] = h
  PROVE  ChainOf(nx, node) = {node} \cup ChainOf(nx, h) /\ Acyclic(nx, node)
<1>1. ChainOf(nx, node) = {node} \cup ChainOf(nx, h)
  BY ChainHead
<1> QED BY <1>1 DEF Acyclic

(* The head is taken off a list. *)
LEMMA ChainPop ==
  ASSUME NEW nx \in NodeLinks, NEW h \in Objects, Acyclic(nx, h)
  PROVE  /\ nx[h] \in Pointer
         /\ ChainOf(nx, nx[h]) = ChainOf(nx, h) \ {h}
         /\ h \in ChainOf(nx, h)
         /\ Acyclic(nx, nx[h])
<1>1. ChainOf(nx, h) = {h} \cup ChainOf(nx, nx[h])
  BY ChainHead
<1>2. nx[h] \in Pointer
  BY DEF NodeLinks
<1> QED BY <1>1, <1>2 DEF Acyclic

(* The node after prev is delinked. *)
LEMMA ChainDelink ==
  ASSUME NEW nx \in NodeLinks, NEW h \in Pointer, Acyclic(nx, h),
         NEW prev \in ChainOf(nx, h), nx[prev] # NULL,
         NEW ny, ny = [nx EXCEPT ![prev] = nx[nx[prev]], ![nx[prev]] = NULL]
  PROVE  /\ ny \in NodeLinks
         /\ nx[prev] \in ChainOf(nx, h)
         /\ prev # nx[prev]
         /\ ChainOf(ny, h) = ChainOf(nx, h) \ {nx[prev]}
         /\ Acyclic(ny, h)
<1> DEFINE cur == nx[prev]
<1>1. Follows(NULL, nx, h, ChainOf(nx, h)) /\ ChainOf(nx, h) \in SUBSET Objects
  BY ChainClosed
<1>2. prev \in Objects /\ cur \in ChainOf(nx, h) /\ cur \in Objects /\ cur \in Pointer
  BY <1>1 DEF Follows, Pointer
<1>3. ny \in NodeLinks /\ nx[cur] \in Pointer
  BY <1>2 DEF NodeLinks, Pointer
<1>4. prev \notin ChainOf(nx, cur) /\ cur \notin ChainOf(nx, nx[cur])
  BY <1>2 DEF Acyclic
<1>5. cur \in ChainOf(nx, cur)
  BY <1>2, ChainHead
<1>6. prev # cur /\ nx[cur] # cur
  <2>1. nx[cur] # NULL => nx[cur] \in ChainOf(nx, nx[cur])
    BY <1>3, ChainClosed DEF Follows
  <2> QED BY <1>2, <1>4, <1>5, <2>1, ObjectsAssumption
<1>7. ny[prev] = nx[cur] /\ ny[cur] = NULL /\ \A o \in Objects \ {prev, cur} : ny[o] = nx[o]
  BY <1>2, <1>6 DEF NodeLinks
<1>8. h # cur
  BY <1>4
<1>9. ASSUME NEW q \in ChainOf(nx, h), q # prev PROVE nx[q] # cur
  <2> SUFFICES ASSUME nx[q] = cur PROVE FALSE
    OBVIOUS
  <2>1. q \in Objects
    BY <1>1
  <2>2. q \in ChainOf(nx, prev) \/ prev \in ChainOf(nx, q)
    BY ChainOrdered
  <2>3. ChainOf(nx, prev) = {prev} \cup ChainOf(nx, cur) /\ ChainOf(nx, q) = {q} \cup ChainOf(nx, cur)
    BY <1>2, <2>1, ChainHead
  <2>4. q \in ChainOf(nx, cur)
    BY <1>4, <1>9, <2>2, <2>3
  <2> QED BY <2>4 DEF Acyclic
<1> HIDE DEF cur
<1>10. ChainOf(ny, h) \subseteq ChainOf(nx, h) \ {cur}
  <2>1. ASSUME NEW q \in ChainOf(nx, h) \ {cur}
        PROVE  ny[q] \in (ChainOf(nx, h) \ {cur}) \cup {NULL}
    <3>1. nx[q] \in ChainOf(nx, h) \cup {NULL} /\ nx[cur] \in ChainOf(nx, h) \cup {NULL}
      BY <1>1, <1>2 DEF Follows
    <3> QED BY <1>1, <1>6, <1>7, <1>9, <3>1
  <2>2. Follows(NULL, ny, h, ChainOf(nx, h) \ {cur})
    BY <1>1, <1>8, <2>1 DEF Follows
  <2> QED BY <1>1, <2>2, ChainLeast
<1>11. Follows(NULL, ny, h, ChainOf(ny, h)) /\ ChainOf(ny, h) \in SUBSET Objects
  BY <1>3, ChainClosed
<1>12. Follows(NULL, nx, cur, ChainOf(nx, cur)) /\ ChainOf(nx, cur) \in SUBSET Objects
  BY <1>2, ChainClosed
<1>13. prev \in ChainOf(ny, h)
  <2> DEFINE set == ChainOf(ny, h) \cup ChainOf(nx, cur)
  <2>1. ASSUME NEW q \in set PROVE nx[q] \in set \cup {NULL}
    <3>1. CASE q \in ChainOf(nx, cur)
      BY <1>12, <3>1 DEF Follows
    <3>2. CASE q = prev
      BY <1>5, <3>2 DEF cur
    <3>3. CASE q \in ChainOf(ny, h) /\ q # prev /\ q # cur
      BY <1>7, <1>11, <3>3 DEF Follows
    <3> QED BY <1>5, <3>1, <3>2, <3>3
  <2>2. Follows(NULL, nx, h, set)
    BY <1>11, <2>1 DEF Follows
  <2>3. ChainOf(nx, h) \subseteq set
    <3>1. set \in SUBSET Objects
      BY <1>11, <1>12
    <3> HIDE DEF set
    <3> QED BY <2>2, <3>1, ChainLeast
  <2> QED BY <1>4, <2>3
<1>14. ChainOf(nx, h) \subseteq ChainOf(ny, h) \cup {cur}
  <2> DEFINE set == ChainOf(ny, h) \cup {cur}
  <2>1. ASSUME NEW q \in set PROVE nx[q] \in set \cup {NULL}
    <3>1. CASE q = cur
      BY <1>7, <1>11, <1>13, <3>1 DEF Follows
    <3>2. CASE q = prev
      BY <3>2 DEF cur
    <3>3. CASE q \in ChainOf(ny, h) /\ q # prev /\ q # cur
      BY <1>7, <1>11, <3>3 DEF Follows
    <3> QED BY <3>1, <3>2, <3>3
  <2>2. Follows(NULL, nx, h, set)
    BY <1>11, <2>1 DEF Follows
  <2>3. set \in SUBSET Objects
    BY <1>2, <1>11
  <2> HIDE DEF set
  <2>4. ChainOf(nx, h) \subseteq set
    BY <2>2, <2>3, ChainLeast
  <2> QED BY <2>4 DEF set
<1>15. ASSUME NEW x \in Pointer PROVE ChainOf(ny, x) \subseteq ChainOf(nx, x)
  <2>1. Follows(NULL, nx, x, ChainOf(nx, x)) /\ ChainOf(nx, x) \in SUBSET Objects
    BY ChainClosed
  <2>2. ASSUME NEW q \in ChainOf(nx, x) PROVE ny[q] \in ChainOf(nx, x) \cup {NULL}
    <3>1. CASE q = prev
      <4>1. cur \in ChainOf(nx, x)
        BY <1>2, <2>1, <3>1, ObjectsAssumption DEF cur, Follows
      <4> QED BY <1>7, <2>1, <3>1, <4>1 DEF Follows
    <3>2. CASE q # prev
      BY <1>7, <2>1, <3>2 DEF Follows
    <3> QED BY <3>1, <3>2
  <2>3. Follows(NULL, ny, x, ChainOf(nx, x))
    BY <2>1, <2>2 DEF Follows
  <2> QED BY <2>1, <2>3, ChainLeast
<1>16. ASSUME NEW o \in ChainOf(ny, h) PROVE o \notin ChainOf(ny, ny[o])
  <2>1. o \in ChainOf(nx, h) /\ o # cur /\ o \in Objects
    BY <1>10, <1>11
  <2>2. ny[o] \in Pointer
    BY <1>3, <2>1 DEF NodeLinks
  <2>3. ChainOf(ny, ny[o]) \subseteq ChainOf(nx, ny[o])
    BY <1>15, <2>2
  <2>4. CASE o = prev
    <3>1. ChainOf(nx, nx[cur]) \subseteq ChainOf(nx, cur)
      BY <1>2, ChainHead
    <3> QED BY <1>4, <1>7, <2>3, <2>4, <3>1
  <2>5. CASE o # prev
    BY <1>7, <2>1, <2>3, <2>5 DEF Acyclic
  <2> QED BY <2>4, <2>5
<1> QED BY <1>2, <1>3, <1>6, <1>10, <1>14, <1>16 DEF Acyclic, cur

-----------------------------------------------------------------------------
(***************************************************************************)
(* The compaction of the array deleted at the end of reclaim: it neither   *)
(* loses nor repeats an entry, and leaves the used entries at the front.   *)
(***************************************************************************)
(* The arrays of n entries, and the state of the loop. *)
ArrayOfLength(n) == [0 .. n - 1 -> Pointer]
LoopState(n) == [d : ArrayOfLength(n), ixd : 0 .. n, ixs : -1 .. n - 1]

Used(d, n) == {d[x] : x \in 0 .. n - 1} \ {NULL}
NoRepeats(d, n) ==
  \A x, y \in 0 .. n - 1 : d[x] = d[y] /\ d[x] # NULL => x = y

(* The loop invariant: the entries of the array d are still there, those   *)
(* below ixd are used, and those above ixs are not.                        *)
LoopInv(d, n, s) ==
  /\ s \in LoopState(n)
  /\ Used(s.d, n) = Used(d, n)
  /\ NoRepeats(s.d, n)
  /\ \A x \in 0 .. n - 1 : x < s.ixd => s.d[x] # NULL
  /\ \A x \in 0 .. n - 1 : s.ixs < x => s.d[x] = NULL

(* The first index scan stops at an unused entry, or at ixs. *)
LEMMA FirstUnusedFound ==
  ASSUME NEW n \in Nat, NEW d \in ArrayOfLength(n), NEW ixd \in 0 .. n, NEW ixs \in -1 .. n - 1,
         ixd <= ixs
  PROVE  LET x == FirstUnused(d, ixd, ixs) IN
         /\ x \in ixd .. ixs
         /\ d[x] = NULL \/ x = ixs
         /\ \A y \in ixd .. x - 1 : d[y] # NULL
<1> DEFINE T == {x \in ixd .. ixs : d[x] = NULL \/ x = ixs}
<1>1. T \in SUBSET Nat /\ ixs \in T
  OBVIOUS
<1>2. PICK x \in T : \A y \in T : x <= y
  <2> HIDE DEF T
  <2> QED BY <1>1, LeastElement
<1>3. \A y \in ixd .. x - 1 : y \in ixd .. ixs /\ ~(x <= y)
  OBVIOUS
<1>4. \A y \in ixd .. x - 1 : d[y] # NULL
  BY <1>2, <1>3
<1> QED BY <1>4 DEF FirstUnused

(* The second one stops at a used entry, or at ixd. *)
LEMMA LastUsedFound ==
  ASSUME NEW n \in Nat, NEW d \in ArrayOfLength(n), NEW ixd \in 0 .. n, NEW ixs \in -1 .. n - 1,
         ixd <= ixs
  PROVE  LET x == LastUsed(d, ixd, ixs) IN
         /\ x \in ixd .. ixs
         /\ d[x] # NULL \/ x = ixd
         /\ \A y \in x + 1 .. ixs : d[y] = NULL
<1> DEFINE T == {z \in 0 .. ixs - ixd : d[ixs - z] # NULL \/ ixs - z = ixd}
<1>1. T \in SUBSET Nat /\ ixs - ixd \in T
  OBVIOUS
<1>2. PICK z \in T : \A y \in T : z <= y
  <2> HIDE DEF T
  <2> QED BY <1>1, LeastElement
<1>3. ixs - z \in ixd .. ixs
  OBVIOUS
<1>4. ASSUME NEW y \in ixs - z + 1 .. ixs PROVE d[y] = NULL
  <2>1. ixs - y \in 0 .. ixs - ixd /\ ~(z <= ixs - y) /\ ixs - (ixs - y) = y
    OBVIOUS
  <2> QED BY <1>2, <2>1
<1> QED BY <1>3, <1>4 DEF LastUsed

(* An iteration keeps the loop invariant, and ends the loop or brings the  *)
(* two indexes closer.                                                     *)
LEMMA CompactStepInv ==
  ASSUME NEW n \in Nat, NEW d, NEW s, LoopInv(d, n, s), s.ixd < s.ixs
  PROVE  LET u == CompactStep(s) IN
         /\ LoopInv(d, n, u)
         /\ u.ixd >= u.ixs \/ u.ixs - u.ixd < s.ixs - s.ixd
<1> DEFINE x == FirstUnused(s.d, s.ixd, s.ixs)
           y == LastUsed(s.d, x, s.ixs)
<1>1. s.d \in ArrayOfLength(n) /\ s.ixd \in 0 .. n /\ s.ixs \in -1 .. n - 1
  BY DEF LoopInv, LoopState
<1>2. /\ x \in s.ixd .. s.ixs
      /\ s.d[x] = NULL \/ x = s.ixs
      /\ \A z \in s.ixd .. x - 1 : s.d[z] # NULL
  BY <1>1, FirstUnusedFound
<1> HIDE DEF x
<1>3. x \in 0 .. n /\ x <= s.ixs
  BY <1>1, <1>2
<1>4. /\ y \in x .. s.ixs
      /\ s.d[y] # NULL \/ y = x
      /\ \A z \in y + 1 .. s.ixs : s.d[z] = NULL
  BY <1>1, <1>3, LastUsedFound
<1> HIDE DEF y
<1>5. x \in 0 .. n - 1 /\ y \in 0 .. n - 1 /\ x <= y /\ s.ixd <= x /\ y <= s.ixs
  BY <1>1, <1>2, <1>4
<1>6. \A z \in 0 .. n - 1 : z < x => s.d[z] # NULL
  <2> TAKE z \in 0 .. n - 1
  <2> HAVE z < x
  <2>1. z < s.ixd \/ z \in s.ixd .. x - 1
    BY <1>1, <1>5
  <2> QED BY <1>2, <2>1 DEF LoopInv
<1>7. \A z \in 0 .. n - 1 : y < z => s.d[z] = NULL
  <2> TAKE z \in 0 .. n - 1
  <2> HAVE y < z
  <2>1. s.ixs < z \/ z \in y + 1 .. s.ixs
    BY <1>1, <1>5
  <2> QED BY <1>4, <2>1 DEF LoopInv
<1>8. CASE s.d[x] = NULL /\ s.d[y] # NULL
  <2> DEFINE e == [s.d EXCEPT ![x] = s.d[y], ![y] = s.d[x]]
             u == [d |-> e, ixd |-> x + 1, ixs |-> y - 1]
  <2>1. CompactStep(s) = u
    BY <1>8 DEF CompactStep, x, y
  <2>2. x < y
    BY <1>5, <1>8
  <2>3. /\ e \in ArrayOfLength(n)
        /\ e[x] = s.d[y] /\ e[y] = s.d[x]
        /\ \A z \in 0 .. n - 1 : z # x /\ z # y => e[z] = s.d[z]
    BY <1>1, <1>5, <2>2 DEF ArrayOfLength
  <2> HIDE DEF e
  <2>4. u \in LoopState(n) /\ u.d = e /\ u.ixd = x + 1 /\ u.ixs = y - 1
    BY <1>5, <2>3 DEF LoopState
  <2>5. Used(e, n) = Used(d, n)
    <3>1. Used(e, n) \subseteq Used(s.d, n)
      BY <1>5, <2>3 DEF Used
    <3>2. Used(s.d, n) \subseteq Used(e, n)
      BY <1>5, <2>3 DEF Used
    <3> QED BY <3>1, <3>2 DEF LoopInv
  <2>6. NoRepeats(e, n)
    BY <1>5, <1>8, <2>3 DEF NoRepeats, LoopInv
  <2>7. \A z \in 0 .. n - 1 : z < x + 1 => e[z] # NULL
    BY <1>5, <1>6, <1>8, <2>2, <2>3
  <2>8. \A z \in 0 .. n - 1 : y - 1 < z => e[z] = NULL
    BY <1>5, <1>7, <1>8, <2>2, <2>3
  <2> HIDE DEF u
  <2>9. LoopInv(d, n, u)
    BY <2>4, <2>5, <2>6, <2>7, <2>8 DEF LoopInv
  <2> QED BY <1>1, <1>5, <2>1, <2>4, <2>9
<1>9. CASE ~(s.d[x] = NULL /\ s.d[y] # NULL)
  <2> DEFINE u == [d |-> s.d, ixd |-> x, ixs |-> y]
  <2>1. CompactStep(s) = u
    BY <1>9 DEF CompactStep, x, y
  <2>2. u \in LoopState(n) /\ u.d = s.d /\ u.ixd = x /\ u.ixs = y
    BY <1>1, <1>5 DEF LoopState
  <2>3. x = y
    BY <1>2, <1>4, <1>5, <1>9
  <2> HIDE DEF u
  <2>4. LoopInv(d, n, u)
    BY <1>6, <1>7, <2>2 DEF LoopInv
  <2> QED BY <1>5, <2>1, <2>2, <2>3, <2>4
<1> QED BY <1>8, <1>9

(* The compaction of an array without repetitions. *)
LEMMA Compacted ==
  ASSUME NEW n \in Nat \ {0}, NEW d \in ArrayOfLength(n), NoRepeats(d, n)
  PROVE  LET e == Compact(d, n) IN
         /\ e \in ArrayOfLength(n)
         /\ Used(e, n) = Used(d, n)
         /\ NoRepeats(e, n)
         /\ \A x, y \in 0 .. n - 1 : x < y /\ e[y] # NULL => e[x] # NULL
<1> DEFINE start == [d |-> d, ixd |-> 0, ixs |-> n - 1]
           X == {s \in LoopState(n) : LoopInv(d, n, s)}
           G == [s \in X |-> IF s.ixd >= s.ixs THEN s ELSE CompactStep(s)]
           Body(f) == [k \in 0 .. n |-> IF k = 0 THEN start
                                        ELSE IF f[k - 1].ixd >= f[k - 1].ixs THEN f[k - 1]
                                        ELSE CompactStep(f[k - 1])]
           loop == CHOOSE f : f = Body(f)
<1>1. start \in X
  <2>1. start \in LoopState(n) /\ start.d = d /\ start.ixd = 0 /\ start.ixs = n - 1
    BY DEF LoopState
  <2> HIDE DEF start
  <2> QED BY <2>1 DEF LoopInv
<1>2. ASSUME NEW s \in X, ~(s.ixd >= s.ixs)
      PROVE  LET u == CompactStep(s) IN
             u \in X /\ (u.ixd >= u.ixs \/ u.ixs - u.ixd < s.ixs - s.ixd)
  <2>1. s.ixd < s.ixs
    BY <1>2 DEF LoopState
  <2> QED BY <2>1, CompactStepInv DEF LoopInv
<1>3. G \in [X -> X]
  BY <1>2
<1>4. \A s \in X : s.ixd \in Int /\ s.ixs \in Int
  BY DEF LoopState
<1> HIDE DEF start, X
<1>5. PICK f \in [0 .. n -> X] : f[0] = start /\ \A k \in 1 .. n : f[k] = G[f[k - 1]]
  <2> HIDE DEF G
  <2>1. PICK f : ListsIterates(f, n, X, start, G)
    BY <1>1, <1>3, Iterates
  <2> QED BY <2>1 DEF ListsIterates
<1>6. f = Body(f)
  <2>1. ASSUME NEW k \in 0 .. n, k # 0
        PROVE  G[f[k - 1]] = IF f[k - 1].ixd >= f[k - 1].ixs THEN f[k - 1]
                             ELSE CompactStep(f[k - 1])
    <3>1. f[k - 1] \in X
      BY <2>1
    <3> QED BY <3>1
  <2>2. ASSUME NEW k \in 0 .. n PROVE f[k] = Body(f)[k]
    <3>1. k = 0 \/ k \in 1 .. n
      OBVIOUS
    <3> HIDE DEF G
    <3> QED BY <1>5, <2>1, <3>1
  <2>3. f = [k \in 0 .. n |-> f[k]]
    OBVIOUS
  <2> QED BY <2>2, <2>3
<1>7. loop = Body(loop)
  BY <1>6
<1>8. Compact(d, n) = loop[n].d
  BY DEF Compact, start
<1> HIDE DEF loop
<1>9. loop[0] = start
  BY <1>7
<1>10. ASSUME NEW k \in Nat, k + 1 <= n
      PROVE  loop[k + 1] = IF loop[k].ixd >= loop[k].ixs THEN loop[k] ELSE CompactStep(loop[k])
  <2>1. k + 1 \in 0 .. n /\ k + 1 # 0 /\ (k + 1) - 1 = k
    BY <1>10
  <2> QED BY <1>7, <2>1
<1> DEFINE Done(s) == s.ixd >= s.ixs
           T == {k \in Nat : k <= n =>
                   /\ loop[k] \in X
                   /\ Done(loop[k]) \/ loop[k].ixs - loop[k].ixd <= n - 1 - k}
<1>11. 0 \in T
  BY <1>1, <1>9 DEF start
<1>12. ASSUME NEW k \in Nat, k \in T PROVE k + 1 \in T
  <2> SUFFICES ASSUME k + 1 <= n
               PROVE  /\ loop[k + 1] \in X
                      /\ Done(loop[k + 1]) \/ loop[k + 1].ixs - loop[k + 1].ixd <= n - 1 - (k + 1)
    OBVIOUS
  <2>1. loop[k] \in X /\ (Done(loop[k]) \/ loop[k].ixs - loop[k].ixd <= n - 1 - k)
    BY <1>12
  <2>2. CASE Done(loop[k])
    BY <1>10, <2>1, <2>2
  <2>3. CASE ~Done(loop[k])
    <3>1. loop[k + 1] = CompactStep(loop[k])
      BY <1>10, <2>3
    <3>2. loop[k + 1] \in X /\ (Done(loop[k + 1]) \/
              loop[k + 1].ixs - loop[k + 1].ixd < loop[k].ixs - loop[k].ixd)
      BY <1>2, <2>1, <2>3, <3>1
    <3> DEFINE u == loop[k]  v == loop[k + 1]
    <3>3. u.ixs \in Int /\ u.ixd \in Int /\ v.ixs \in Int /\ v.ixd \in Int
      BY <1>4, <2>1, <3>2
    <3>4. u.ixs - u.ixd <= n - 1 - k /\ v \in X
      BY <2>1, <2>3, <3>2
    <3>5. Done(v) \/ v.ixs - v.ixd < u.ixs - u.ixd
      BY <3>2
    <3> HIDE DEF u, v
    <3>6. Done(v) \/ v.ixs - v.ixd <= n - 1 - (k + 1)
      BY <3>3, <3>4, <3>5
    <3> QED BY <3>4, <3>6 DEF v
  <2> QED BY <2>2, <2>3
<1>13. n \in T
  <2> HIDE DEF T
  <2> QED BY <1>11, <1>12, SetInduction
<1> DEFINE s == loop[n]
<1>14. LoopInv(d, n, s) /\ s.ixd >= s.ixs /\ s.ixd \in Int /\ s.ixs \in Int
  BY <1>13 DEF X, LoopState
<1> HIDE DEF s
<1>15. \A x, y \in 0 .. n - 1 : x < y /\ s.d[y] # NULL => s.d[x] # NULL
  <2> TAKE x, y \in 0 .. n - 1
  <2> HAVE x < y /\ s.d[y] # NULL
  <2>1. ~(s.ixs < y)
    BY <1>14 DEF LoopInv
  <2>2. x < s.ixd
    BY <1>14, <2>1
  <2> QED BY <1>14, <2>2 DEF LoopInv
<1>16. s.d \in ArrayOfLength(n) /\ Used(s.d, n) = Used(d, n) /\ NoRepeats(s.d, n)
  BY <1>14 DEF LoopInv, LoopState
<1>17. Compact(d, n) = s.d
  BY <1>8 DEF s
<1> QED BY <1>15, <1>16, <1>17

(* There are as many objects in the array as used entries. *)
LEMMA CountOfBijection ==
  ASSUME NEW A, NEW B, IsFiniteSet(A), NEW f \in [A -> B],
         \A x, y \in A : f[x] = f[y] => x = y,
         \A z \in B : \E x \in A : f[x] = z
  PROVE  IsFiniteSet(B) /\ Cardinality(B) = Cardinality(A)
<1>1. f \in Bijection(A, B)
  BY DEF Bijection, Injection, Surjection, IsInjective
<1> QED BY <1>1, FS_Bijection DEF ExistsBijection

(* A full array without repetitions. *)
LEMMA FullCount ==
  ASSUME NEW n \in Nat, NEW d \in ArrayOfLength(n), NoRepeats(d, n),
         \A x \in 0 .. n - 1 : d[x] # NULL
  PROVE  IsFiniteSet(Used(d, n)) /\ Cardinality(Used(d, n)) = n
<1>1. d \in [0 .. n - 1 -> Used(d, n)]
  BY DEF ArrayOfLength, Used
<1>2. /\ \A x, y \in 0 .. n - 1 : d[x] = d[y] => x = y
      /\ \A z \in Used(d, n) : \E x \in 0 .. n - 1 : d[x] = z
  BY DEF NoRepeats, Used
<1>3. IsFiniteSet(0 .. n - 1) /\ Cardinality(0 .. n - 1) = n
  BY FS_Interval
<1> DEFINE A == 0 .. n - 1  B == Used(d, n)
<1> HIDE DEF A, B
<1>4. /\ IsFiniteSet(A) /\ d \in [A -> B]
      /\ \A x, y \in A : d[x] = d[y] => x = y
      /\ \A z \in B : \E x \in A : d[x] = z
  BY <1>1, <1>2, <1>3 DEF A, B
<1>5. IsFiniteSet(B) /\ Cardinality(B) = Cardinality(A)
  BY <1>4, CountOfBijection
<1> QED BY <1>3, <1>5 DEF A, B

(* The used entries come first. *)
LEMMA CompactedExact ==
  ASSUME NEW n \in Nat \ {0}, NEW d \in ArrayOfLength(n), NoRepeats(d, n)
  PROVE  \A x \in 0 .. n - 1 :
           Compact(d, n)[x] # NULL <=> x < Cardinality(Used(d, n))
<1> DEFINE e == Compact(d, n)
<1>1. /\ e \in ArrayOfLength(n)
      /\ Used(e, n) = Used(d, n)
      /\ NoRepeats(e, n)
      /\ \A x, y \in 0 .. n - 1 : x < y /\ e[y] # NULL => e[x] # NULL
  BY Compacted
<1> HIDE DEF e
<1> DEFINE T == {z \in 0 .. n : z = n \/ e[z] = NULL}
<1>2. PICK k \in T : \A z \in T : k <= z
  <2>1. T \in SUBSET Nat /\ n \in T
    OBVIOUS
  <2> HIDE DEF T
  <2> QED BY <2>1, LeastElement
<1>3. k \in 0 .. n
  OBVIOUS
<1>4. ASSUME NEW x \in 0 .. n - 1 PROVE e[x] # NULL <=> x < k
  <2>1. x < k => x \notin T
    BY <1>2, <1>3
  <2>2. x < k => e[x] # NULL
    BY <2>1
  <2>3. k < x => e[k] = NULL /\ k \in 0 .. n - 1
    BY <1>3
  <2>4. ~(x < k) => e[x] = NULL
    BY <1>1, <1>3, <2>3
  <2> QED BY <2>2, <2>4
<1> DEFINE g == [x \in 0 .. k - 1 |-> e[x]]
<1>5. \A x \in 0 .. k - 1 : x \in 0 .. n - 1 /\ g[x] = e[x] /\ e[x] # NULL
  BY <1>3, <1>4
<1>6. g \in [0 .. k - 1 -> Used(e, n)]
  BY <1>5 DEF Used
<1>7. \A x, y \in 0 .. k - 1 : g[x] = g[y] => x = y
  BY <1>1, <1>5 DEF NoRepeats
<1>8. \A z \in Used(e, n) : \E x \in 0 .. k - 1 : g[x] = z
  <2> TAKE z \in Used(e, n)
  <2>1. PICK x \in 0 .. n - 1 : e[x] = z /\ z # NULL
    BY DEF Used
  <2>2. x \in 0 .. k - 1
    BY <1>3, <1>4, <2>1
  <2> QED BY <1>5, <2>1, <2>2
<1>9. IsFiniteSet(0 .. k - 1) /\ Cardinality(0 .. k - 1) = k
  BY <1>3, FS_Interval
<1> HIDE DEF g
<1>10. Cardinality(Used(e, n)) = k
  BY <1>6, <1>7, <1>8, <1>9, CountOfBijection
<1> QED BY <1>1, <1>4, <1>10 DEF e

-----------------------------------------------------------------------------
(***************************************************************************)
(* The search of a snapshot.                                               *)
(***************************************************************************)
(* The halving keeps what it has to find between first and first + len. *)
Bounds(b, n, v) ==
  {s \in [first : Nat, len : Nat] :
     /\ s.first + s.len <= n
     /\ \A i \in 0 .. n - 1 : i < s.first => b[i] < v
     /\ \A i \in 0 .. n - 1 : s.first + s.len <= i => ~(b[i] < v)}

LEMMA HalveBounds ==
  ASSUME NEW n \in Nat, NEW b \in [0 .. n - 1 -> Nat], Sorted(b, n), NEW v \in Nat,
         NEW s \in Bounds(b, n, v), s.len # 0
  PROVE  Halve(b, v, s) \in Bounds(b, n, v) /\ Halve(b, v, s).len < s.len
<1> DEFINE half == s.len \div 2  mid == s.first + half
<1>1. s.first \in Nat /\ s.len \in Nat \ {0} /\ s.first + s.len <= n
  BY DEF Bounds
<1>2. half \in Nat /\ half < s.len
  <2> DEFINE l == s.len
  <2>1. l \in Nat \ {0}
    BY <1>1
  <2> HIDE DEF l
  <2>2. l \div 2 \in Nat /\ l \div 2 < l
    BY <2>1
  <2> QED BY <2>2 DEF l
<1>3. mid \in 0 .. n - 1
  BY <1>1, <1>2
<1> HIDE DEF half
<1>4. CASE b[mid] < v
  <2> DEFINE u == [first |-> mid + 1, len |-> s.len - half - 1]
  <2>1. Halve(b, v, s) = u
    BY <1>4 DEF Halve, half
  <2>2. u.first = mid + 1 /\ u.len = s.len - half - 1 /\ u \in [first : Nat, len : Nat]
    <3>1. \A x, y, z \in Nat : z < y => (x + z) + 1 \in Nat /\ y - z - 1 \in Nat
      OBVIOUS
    <3>2. (s.first + half) + 1 \in Nat /\ s.len - half - 1 \in Nat
      <4>1. s.first \in Nat /\ s.len \in Nat
        BY <1>1
      <4> QED BY <1>2, <3>1, <4>1, Zenon
    <3>3. \A x, y \in Nat : [first |-> x, len |-> y] \in [first : Nat, len : Nat]
      OBVIOUS
    <3>4. u \in [first : Nat, len : Nat]
      BY <3>2, <3>3, Zenon
    <3>5. u.first = mid + 1 /\ u.len = s.len - half - 1
      OBVIOUS
    <3> QED BY <3>4, <3>5, Zenon
  <2> HIDE DEF u
  <2>3. \A i \in 0 .. n - 1 : i < u.first => b[i] < v
    <3> SUFFICES ASSUME NEW i \in 0 .. n - 1, i < u.first PROVE b[i] < v
      OBVIOUS
    <3>1. b[i] <= b[mid]
      BY <1>1, <1>2, <1>3, <2>2 DEF Sorted
    <3> QED BY <1>3, <1>4, <3>1
  <2>4. u.first + u.len = s.first + s.len
    <3>1. \A x, y, z \in Int : ((x + z) + 1) + (y - z - 1) = x + y
      OBVIOUS
    <3>2. s.first \in Int /\ s.len \in Int /\ half \in Int
      BY <1>1, <1>2
    <3>3. ((s.first + half) + 1) + (s.len - half - 1) = s.first + s.len
      BY <3>1, <3>2, Zenon
    <3> QED BY <2>2, <3>3, Zenon
  <2>5. u \in Bounds(b, n, v)
    BY <1>1, <2>2, <2>3, <2>4 DEF Bounds
  <2> QED BY <1>1, <1>2, <2>1, <2>2, <2>5
<1>5. CASE ~(b[mid] < v)
  <2> DEFINE u == [first |-> s.first, len |-> half]
  <2>1. Halve(b, v, s) = u
    BY <1>5 DEF Halve, half
  <2>2. u.first = s.first /\ u.len = half /\ u \in [first : Nat, len : Nat]
    BY <1>1, <1>2
  <2> HIDE DEF u
  <2>3. \A i \in 0 .. n - 1 : u.first + u.len <= i => ~(b[i] < v)
    <3> SUFFICES ASSUME NEW i \in 0 .. n - 1, mid <= i PROVE ~(b[i] < v)
      BY <2>2
    <3>1. b[mid] <= b[i]
      BY <1>3 DEF Sorted
    <3> QED BY <1>3, <1>5, <3>1
  <2>4. u.first + u.len <= n
    BY <1>1, <1>2, <2>2
  <2>5. u \in Bounds(b, n, v)
    BY <2>2, <2>3, <2>4 DEF Bounds
  <2> QED BY <1>2, <2>1, <2>2, <2>5
<1> QED BY <1>4, <1>5

(* std::lower_bound on a sorted array. *)
LEMMA LowerBoundFound ==
  ASSUME NEW n \in Nat, NEW b \in [0 .. n - 1 -> Nat], Sorted(b, n), NEW v \in Nat
  PROVE  /\ LowerBound(b, n, v) \in 0 .. n
         /\ \A i \in 0 .. n - 1 : b[i] < v <=> i < LowerBound(b, n, v)
<1> DEFINE start == [first |-> 0, len |-> n]
           X == Bounds(b, n, v)
           G == [s \in X |-> IF s.len = 0 THEN s ELSE Halve(b, v, s)]
           Body(f) == [k \in 0 .. n |-> IF k = 0 THEN start
                                        ELSE IF f[k - 1].len = 0 THEN f[k - 1]
                                        ELSE Halve(b, v, f[k - 1])]
           loop == CHOOSE f : f = Body(f)
<1>1. start \in X /\ start.len = n
  BY DEF Bounds
<1>2. \A s \in X : s.len # 0 => Halve(b, v, s) \in X /\ Halve(b, v, s).len < s.len
  BY HalveBounds
<1>3. G \in [X -> X]
  BY <1>2
<1>4. \A s \in X : s.len \in Nat
  BY DEF Bounds
<1> HIDE DEF start, X
<1>5. PICK f \in [0 .. n -> X] : f[0] = start /\ \A k \in 1 .. n : f[k] = G[f[k - 1]]
  <2> HIDE DEF G
  <2>1. PICK f : ListsIterates(f, n, X, start, G)
    BY <1>1, <1>3, Iterates
  <2> QED BY <2>1 DEF ListsIterates
<1>6. f = Body(f)
  <2>1. ASSUME NEW k \in 0 .. n, k # 0
        PROVE  G[f[k - 1]] = IF f[k - 1].len = 0 THEN f[k - 1] ELSE Halve(b, v, f[k - 1])
    <3>1. f[k - 1] \in X
      BY <2>1
    <3> QED BY <3>1
  <2>2. ASSUME NEW k \in 0 .. n PROVE f[k] = Body(f)[k]
    <3>1. k = 0 \/ k \in 1 .. n
      OBVIOUS
    <3> HIDE DEF G
    <3> QED BY <1>5, <2>1, <3>1
  <2>3. f = [k \in 0 .. n |-> f[k]]
    OBVIOUS
  <2> QED BY <2>2, <2>3
<1>7. loop = Body(loop)
  BY <1>6
<1>8. LowerBound(b, n, v) = loop[n].first
  BY DEF LowerBound, start
<1> HIDE DEF loop
<1>9. loop[0] = start
  BY <1>7
<1>10. ASSUME NEW k \in Nat, k + 1 <= n
       PROVE  loop[k + 1] = IF loop[k].len = 0 THEN loop[k] ELSE Halve(b, v, loop[k])
  <2>1. k + 1 \in 0 .. n /\ k + 1 # 0 /\ (k + 1) - 1 = k
    BY <1>10
  <2> QED BY <1>7, <2>1
<1> DEFINE T == {k \in Nat : k <= n => loop[k] \in X /\ loop[k].len <= n - k}
<1>11. 0 \in T
  BY <1>1, <1>9
<1>12. ASSUME NEW k \in Nat, k \in T PROVE k + 1 \in T
  <2> SUFFICES ASSUME k + 1 <= n PROVE loop[k + 1] \in X /\ loop[k + 1].len <= n - (k + 1)
    OBVIOUS
  <2>1. loop[k] \in X /\ loop[k].len <= n - k /\ loop[k].len \in Nat
    BY <1>4, <1>12
  <2>2. CASE loop[k].len = 0
    <3>1. loop[k + 1] = loop[k]
      BY <1>10, <2>2
    <3> QED BY <2>1, <2>2, <3>1
  <2>3. CASE loop[k].len # 0
    <3>1. loop[k + 1] = Halve(b, v, loop[k])
      BY <1>10, <2>3
    <3>2. loop[k + 1] \in X /\ loop[k + 1].len < loop[k].len
      BY <1>2, <2>1, <2>3, <3>1
    <3>3. loop[k + 1].len \in Nat
      BY <1>4, <3>2
    <3> QED BY <2>1, <3>2, <3>3
  <2> QED BY <2>2, <2>3
<1>13. n \in T
  <2> HIDE DEF T
  <2> QED BY <1>11, <1>12, SetInduction
<1> DEFINE s == loop[n]
<1>14. s \in X /\ s.len = 0
  BY <1>4, <1>13
<1> HIDE DEF s
<1>15. /\ s.first \in 0 .. n
       /\ \A i \in 0 .. n - 1 : i < s.first => b[i] < v
       /\ \A i \in 0 .. n - 1 : s.first <= i => ~(b[i] < v)
  BY <1>14 DEF X, Bounds
<1>16. LowerBound(b, n, v) = s.first
  BY <1>8 DEF s
<1> QED BY <1>15, <1>16

(* The search answers whether the value is in the array, though the marks  *)
(* come off only after the array has been sorted.                          *)
LEMMA SearchFinds ==
  ASSUME NEW n \in Nat, NEW b \in [0 .. n - 1 -> Nat], Sorted(b, n), NEW v \in Nat
  PROVE  search(Masked(b, n), n, v) <=> \E i \in 0 .. n - 1 : MaskOff(b[i]) = v
<1> DEFINE e == Masked(b, n)  x == LowerBound(e, n, v)
<1>1. \A y, z \in Nat : MaskOff(y) \in Nat /\ (y <= z => MaskOff(y) <= MaskOff(z))
  BY DEF MaskOff
<1>2. e \in [0 .. n - 1 -> Nat] /\ \A i \in 0 .. n - 1 : e[i] = MaskOff(b[i])
  BY <1>1 DEF Masked
<1>3. Sorted(e, n)
  BY <1>1, <1>2 DEF Sorted
<1>4. search(e, n, v) <=> x < n /\ ~(v < e[x])
  BY DEF search
<1> HIDE DEF e
<1>5. x \in 0 .. n /\ \A i \in 0 .. n - 1 : e[i] < v <=> i < x
  BY <1>2, <1>3, LowerBoundFound
<1> HIDE DEF x
<1>6. ASSUME x < n, ~(v < e[x]) PROVE \E i \in 0 .. n - 1 : e[i] = v
  <2>1. x \in 0 .. n - 1
    BY <1>5, <1>6
  <2>2. ~(e[x] < v) /\ e[x] \in Nat
    BY <1>2, <1>5, <2>1
  <2> QED BY <1>6, <2>1, <2>2
<1>7. ASSUME NEW i \in 0 .. n - 1, e[i] = v PROVE x < n /\ ~(v < e[x])
  <2>1. ~(i < x)
    BY <1>2, <1>5, <1>7
  <2>2. x \in 0 .. n - 1 /\ x <= i
    BY <1>5, <2>1
  <2>3. e[x] <= e[i]
    BY <1>3, <2>2 DEF Sorted
  <2> QED BY <1>2, <1>7, <2>2, <2>3
<1> QED BY <1>2, <1>4, <1>6, <1>7 DEF e

(* The array that collect and reclaim search stands for the set of the     *)
(* pointers that were read from the hazard pointers, marked or not: the    *)
(* search finds a deleted object if and only if it is in that set.         *)
THEOREM SearchIsMembership ==
  ASSUME NEW n \in Nat, NEW w \in [0 .. n - 1 -> WordOver(Pointer)],
         NEW addr \in [Pointer -> Nat],
         \A p \in Pointer : addr[p] % 2 = 0,
         \A p, q \in Pointer : addr[p] = addr[q] => p = q,
         NEW b \in [0 .. n - 1 -> Nat],
         Sorts([i \in 0 .. n - 1 |-> Number(addr, w[i])], b, n),
         NEW o \in Objects
  PROVE  search(Masked(b, n), n, addr[o]) <=> o \in {get(w[i]) : i \in 0 .. n - 1} \ {NULL}
<1> DEFINE a == [i \in 0 .. n - 1 |-> Number(addr, w[i])]
<1>1. o \in Pointer /\ o # NULL /\ addr[o] \in Nat
  BY ObjectsAssumption DEF Pointer
<1>2. ASSUME NEW i \in 0 .. n - 1
      PROVE  MaskOff(a[i]) = addr[get(w[i])] /\ get(w[i]) \in Pointer
  <2>1. w[i] \in WordOver(Pointer) /\ get(w[i]) \in Pointer /\ w[i].mark \in BOOLEAN
    BY DEF WordOver, get
  <2> DEFINE y == addr[get(w[i])]
  <2>2. y \in Nat /\ y % 2 = 0
    BY <2>1
  <2>3. a[i] = y \/ a[i] = y + 1
    BY <2>2 DEF Number
  <2>4. MaskOff(a[i]) = y
    <3>1. ASSUME NEW z \in Nat, z % 2 = 0 PROVE MaskOff(z) = z /\ MaskOff(z + 1) = z
      BY <3>1 DEF MaskOff
    <3> HIDE DEF y, a
    <3> QED BY <2>2, <2>3, <3>1, Zenon
  <2> QED BY <2>1, <2>4 DEF y
<1>3. Sorted(b, n) /\ {b[i] : i \in 0 .. n - 1} = {a[i] : i \in 0 .. n - 1}
  BY DEF Sorts
<1> HIDE DEF a
<1>4. search(Masked(b, n), n, addr[o]) <=> \E i \in 0 .. n - 1 : MaskOff(b[i]) = addr[o]
  BY <1>1, <1>3, SearchFinds
<1>5. (\E i \in 0 .. n - 1 : MaskOff(b[i]) = addr[o]) <=> (\E i \in 0 .. n - 1 : MaskOff(a[i]) = addr[o])
  <2>1. ASSUME NEW i \in 0 .. n - 1, MaskOff(b[i]) = addr[o]
        PROVE  \E j \in 0 .. n - 1 : MaskOff(a[j]) = addr[o]
    <3>1. PICK j \in 0 .. n - 1 : b[i] = a[j]
      BY <1>3, Zenon
    <3> QED BY <2>1, <3>1, Zenon
  <2>2. ASSUME NEW i \in 0 .. n - 1, MaskOff(a[i]) = addr[o]
        PROVE  \E j \in 0 .. n - 1 : MaskOff(b[j]) = addr[o]
    <3>1. PICK j \in 0 .. n - 1 : a[i] = b[j]
      BY <1>3, Zenon
    <3> QED BY <2>2, <3>1, Zenon
  <2> QED BY <2>1, <2>2
<1>6. (\E i \in 0 .. n - 1 : MaskOff(a[i]) = addr[o]) <=> (\E i \in 0 .. n - 1 : get(w[i]) = o)
  BY <1>1, <1>2
<1> QED BY <1>1, <1>4, <1>5, <1>6

=============================================================================
