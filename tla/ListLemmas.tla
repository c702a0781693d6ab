----------------------------- MODULE ListLemmas -----------------------------
(***************************************************************************)
(* The lemmas that the proofs share: induction and recursion over the      *)
(* natural numbers, and linked lists.                                      *)
(***************************************************************************)
EXTENDS Integers, Lists, WellFoundedInduction, TLAPS

-----------------------------------------------------------------------------
(***************************************************************************)
(* Induction and recursion over the natural numbers, with sets and         *)
(* functions in the place of predicates and operators.                     *)
(***************************************************************************)
(* A nonempty set of natural numbers has a least element. *)
LEMMA LeastElement ==
  ASSUME NEW T \in SUBSET Nat, T # {}
  PROVE  \E x \in T : \A y \in T : x <= y
<1>1. PICK x \in T : \A y \in T : ~(<<y, x>> \in OpToRel(<, Nat))
  BY WFMin, NatLessThanWellFounded
<1>2. ASSUME NEW y \in T PROVE x <= y
  <2>1. x \in Nat /\ y \in Nat
    OBVIOUS
  <2>2. <<y, x>> \notin OpToRel(<, Nat)
    BY <1>1
  <2>3. y < x => <<y, x>> \in OpToRel(<, Nat)
    <3> DEFINE pair == <<y, x>>
    <3>1. pair \in Nat \X Nat /\ pair[1] = y /\ pair[2] = x
      BY <2>1
    <3> HIDE DEF pair
    <3>2. y < x => pair \in OpToRel(<, Nat)
      BY <3>1 DEF OpToRel
    <3> QED BY <3>2 DEF pair
  <2>4. ~(y < x)
    BY <2>2, <2>3
  <2> QED BY <2>1, <2>4
<1> QED BY <1>2

(* A set that holds 0 and the successor of each of its numbers is Nat. *)
LEMMA SetInduction ==
  ASSUME NEW T, 0 \in T, \A n \in Nat : n \in T => n + 1 \in T
  PROVE  \A n \in Nat : n \in T
<1> DEFINE rest == {n \in Nat : n \notin T}
<1> SUFFICES ASSUME rest # {} PROVE FALSE
  OBVIOUS
<1>1. PICK x \in rest : \A y \in rest : x <= y
  <2> rest \in SUBSET Nat
    OBVIOUS
  <2> HIDE DEF rest
  <2> QED BY LeastElement
<1>2. x \in Nat \ {0}
  BY <1>1
<1>3. x - 1 \in Nat /\ x - 1 < x
  BY <1>2
<1>4. x - 1 \in T
  BY <1>1, <1>3
<1> QED BY <1>1, <1>2, <1>3, <1>4

(* f lists start and its first n iterates under G, all in the set X. *)
ListsIterates(f, n, X, start, G) ==
  /\ f \in [0 .. n -> X]
  /\ f[0] = start
  /\ \A i \in 1 .. n : f[i] = G[f[i - 1]]

(* The first n iterates of a function exist. *)
LEMMA Iterates ==
  ASSUME NEW X, NEW start \in X, NEW G \in [X -> X]
  PROVE  \A n \in Nat : \E f : ListsIterates(f, n, X, start, G)
<1> DEFINE Good(n, f) == f[0] = start /\ \A i \in 1 .. n : f[i] = G[f[i - 1]]
           T == {n \in Nat : \E f \in [0 .. n -> X] : Good(n, f)}
<1>1. 0 \in T
  <2> DEFINE f == [i \in 0 .. 0 |-> start]
  <2>1. f \in [0 .. 0 -> X]
    OBVIOUS
  <2>2. Good(0, f)
    OBVIOUS
  <2> QED BY <2>1, <2>2
<1>2. ASSUME NEW n \in Nat, n \in T PROVE n + 1 \in T
  <2>1. PICK f \in [0 .. n -> X] : Good(n, f)
    BY <1>2
  <2> DEFINE g == [i \in 0 .. n + 1 |-> IF i = n + 1 THEN G[f[n]] ELSE f[i]]
  <2>2. g \in [0 .. n + 1 -> X]
    OBVIOUS
  <2>3. ASSUME NEW i \in 1 .. n + 1 PROVE g[i] = G[g[i - 1]]
    <3>1. CASE i = n + 1
      BY <3>1
    <3>2. CASE i \in 1 .. n
      BY <2>1, <3>2
    <3> QED BY <3>1, <3>2
  <2>4. Good(n + 1, g)
    BY <2>1, <2>3
  <2> HIDE DEF g, Good
  <2> QED BY <2>2, <2>4
<1>3. \A n \in Nat : n \in T
  <2> HIDE DEF T
  <2> QED BY <1>1, <1>2, SetInduction
<1> QED BY <1>3 DEF ListsIterates

(* A function is defined by recursion over the natural numbers. *)
LEMMA Recursion ==
  ASSUME NEW X, NEW start \in X, NEW G \in [X -> X]
  PROVE  \E F \in [Nat -> X] : F[0] = start /\ \A i \in Nat : F[i + 1] = G[F[i]]
<1> DEFINE Upto(n) == CHOOSE f : ListsIterates(f, n, X, start, G)
           F == [i \in Nat |-> Upto(i)[i]]
<1>1. \A n \in Nat : ListsIterates(Upto(n), n, X, start, G)
  BY Iterates
<1> HIDE DEF Upto
<1>2. ASSUME NEW n \in Nat
      PROVE  \A i \in Nat : i <= n => Upto(n + 1)[i] = Upto(n)[i]
  <2> DEFINE f == Upto(n)
             g == Upto(n + 1)
             T == {i \in Nat : i <= n => g[i] = f[i]}
  <2>1. /\ f[0] = start /\ \A i \in 1 .. n : f[i] = G[f[i - 1]]
        /\ g[0] = start /\ \A i \in 1 .. n + 1 : g[i] = G[g[i - 1]]
    BY <1>1 DEF ListsIterates
  <2> HIDE DEF f, g
  <2>2. 0 \in T
    BY <2>1
  <2>3. ASSUME NEW i \in Nat, i \in T PROVE i + 1 \in T
    <3> SUFFICES ASSUME i + 1 <= n PROVE g[i + 1] = f[i + 1]
      OBVIOUS
    <3>1. g[i] = f[i] /\ i + 1 \in 1 .. n /\ i + 1 \in 1 .. n + 1 /\ (i + 1) - 1 = i
      BY <2>3
    <3> QED BY <2>1, <3>1
  <2> HIDE DEF T
  <2>4. \A i \in Nat : i \in T
    BY <2>2, <2>3, SetInduction
  <2> QED BY <2>4 DEF T, f, g
<1>3. F \in [Nat -> X]
  BY <1>1 DEF ListsIterates
<1>4. F[0] = start
  BY <1>1 DEF ListsIterates
<1>5. ASSUME NEW i \in Nat PROVE F[i + 1] = G[F[i]]
  <2>1. i + 1 \in Nat /\ i + 1 \in 1 .. i + 1 /\ (i + 1) - 1 = i
    OBVIOUS
  <2>2. Upto(i + 1)[i + 1] = G[Upto(i + 1)[i]]
    BY <1>1, <2>1 DEF ListsIterates
  <2>3. Upto(i + 1)[i] = Upto(i)[i]
    BY <1>2
  <2> QED BY <2>1, <2>2, <2>3
<1> QED BY <1>3, <1>4, <1>5

-----------------------------------------------------------------------------
(***************************************************************************)
(* Linked lists.                                                           *)
(***************************************************************************)
Links(nodes, null) == [nodes -> nodes \cup {null}]

(* The head of a list and the successors of its nodes are in the list. *)
LEMMA ListClosed ==
  ASSUME NEW nodes, NEW null, null \notin nodes,
         NEW nx \in Links(nodes, null), NEW h \in nodes \cup {null}
  PROVE  /\ ListFrom(nodes, null, nx, h) \in SUBSET nodes
         /\ Follows(null, nx, h, ListFrom(nodes, null, nx, h))
<1> DEFINE list(f, x) == ListFrom(nodes, null, f, x)
<1>1. h # null => h \in list(nx, h)
  BY DEF ListFrom, Follows
<1>2. ASSUME NEW o \in list(nx, h), nx[o] # null PROVE nx[o] \in list(nx, h)
  <2>1. nx[o] \in nodes
    BY <1>2 DEF ListFrom, Links
  <2>2. ASSUME NEW set \in SUBSET nodes, Follows(null, nx, h, set) PROVE nx[o] \in set
    <3>1. o \in set
      BY <2>2 DEF ListFrom
    <3> QED BY <1>2, <2>2, <3>1 DEF Follows
  <2> QED BY <2>1, <2>2 DEF ListFrom
<1>3. list(nx, h) \in SUBSET nodes
  BY DEF ListFrom
<1> QED BY <1>1, <1>2, <1>3 DEF Follows

(* A set with these properties holds all of the list. *)
LEMMA ListLeast ==
  ASSUME NEW nodes, NEW null, null \notin nodes,
         NEW nx, NEW h, NEW set \in SUBSET nodes, Follows(null, nx, h, set)
  PROVE  ListFrom(nodes, null, nx, h) \subseteq set
BY DEF ListFrom

(* The list of a null head is empty. *)
LEMMA ListNull ==
  ASSUME NEW nodes, NEW null, null \notin nodes,
         NEW nx
  PROVE  ListFrom(nodes, null, nx, null) = {}
<1>1. Follows(null, nx, null, {})
  BY DEF Follows
<1> QED BY <1>1, ListLeast

(* A list is its head and the list after the head. *)
LEMMA ListHead ==
  ASSUME NEW nodes, NEW null, null \notin nodes,
         NEW nx \in Links(nodes, null), NEW h \in nodes
  PROVE  ListFrom(nodes, null, nx, h) = {h} \cup ListFrom(nodes, null, nx, nx[h])
<1> DEFINE list(f, x) == ListFrom(nodes, null, f, x)
<1> h \in nodes \cup {null} /\ nx[h] \in nodes \cup {null}
  BY DEF Links
<1>1. Follows(null, nx, h, list(nx, h)) /\ Follows(null, nx, nx[h], list(nx, nx[h]))
  BY ListClosed
<1>2. list(nx, h) \in SUBSET nodes /\ list(nx, nx[h]) \in SUBSET nodes
  BY ListClosed
<1>3. Follows(null, nx, h, {h} \cup list(nx, nx[h]))
  BY <1>1 DEF Follows
<1>4. list(nx, h) \subseteq {h} \cup list(nx, nx[h])
  BY <1>2, <1>3, ListLeast
<1>5. h \in list(nx, h)
  BY <1>1 DEF Follows
<1>6. Follows(null, nx, nx[h], list(nx, h))
  BY <1>1, <1>5 DEF Follows
<1>7. list(nx, nx[h]) \subseteq list(nx, h)
  BY <1>2, <1>6, ListLeast
<1> QED BY <1>4, <1>5, <1>7

(* The list that starts at a node of a list, and the one after the node,   *)
(* are part of it.                                                         *)
LEMMA ListSuffix ==
  ASSUME NEW nodes, NEW null, null \notin nodes,
         NEW nx \in Links(nodes, null), NEW h \in nodes \cup {null},
         NEW o \in ListFrom(nodes, null, nx, h)
  PROVE  /\ o \in nodes /\ nx[o] \in nodes \cup {null}
         /\ ListFrom(nodes, null, nx, o) \subseteq ListFrom(nodes, null, nx, h)
         /\ ListFrom(nodes, null, nx, nx[o]) \subseteq ListFrom(nodes, null, nx, h)
<1> DEFINE list(f, x) == ListFrom(nodes, null, f, x)
<1>1. Follows(null, nx, h, list(nx, h)) /\ list(nx, h) \in SUBSET nodes
  BY ListClosed
<1>2. Follows(null, nx, o, list(nx, h)) /\ Follows(null, nx, nx[o], list(nx, h))
  BY <1>1 DEF Follows
<1>3. o \in nodes /\ nx[o] \in nodes \cup {null}
  BY <1>1 DEF Links
<1> QED BY <1>1, <1>2, <1>3, ListLeast

(* Of two nodes of a list one comes after the other. *)
LEMMA ListOrdered ==
  ASSUME NEW nodes, NEW null, null \notin nodes,
         NEW nx \in Links(nodes, null), NEW h \in nodes \cup {null},
         NEW a \in ListFrom(nodes, null, nx, h), NEW b \in ListFrom(nodes, null, nx, h)
  PROVE  a \in ListFrom(nodes, null, nx, b) \/ b \in ListFrom(nodes, null, nx, a)
<1> DEFINE list(f, x) == ListFrom(nodes, null, f, x)
           set == {o \in list(nx, h) : a \in list(nx, o) \/ o \in list(nx, a)}
<1>1. Follows(null, nx, h, list(nx, h)) /\ list(nx, h) \in SUBSET nodes
  BY ListClosed
<1>2. a \in nodes /\ a \in nodes \cup {null}
  BY <1>1
<1>3. Follows(null, nx, a, list(nx, a))
  BY <1>2, ListClosed
<1>4. a \in list(nx, a)
  BY <1>2, <1>3 DEF Follows
<1>5. h \in set \cup {null}
  BY <1>1 DEF Follows
<1>6. ASSUME NEW o \in set PROVE nx[o] \in set \cup {null}
  <2>1. o \in nodes
    BY <1>1
  <2>2. nx[o] \in list(nx, h) \cup {null}
    BY <1>1 DEF Follows
  <2>3. CASE o \in list(nx, a)
    BY <1>3, <2>2, <2>3 DEF Follows
  <2>4. CASE a \in list(nx, o)
    <3>1. a = o \/ a \in list(nx, nx[o])
      BY <2>1, <2>4, ListHead
    <3> QED BY <1>3, <1>4, <2>2, <3>1 DEF Follows
  <2> QED BY <2>3, <2>4
<1>7. list(nx, h) \subseteq set
  <2>1. Follows(null, nx, h, set)
    BY <1>5, <1>6 DEF Follows
  <2>2. set \in SUBSET nodes
    BY <1>1
  <2> HIDE DEF set
  <2> QED BY <2>1, <2>2, ListLeast
<1> QED BY <1>7

(* A list does not depend on the links of other nodes. *)
LEMMA ListFrame ==
  ASSUME NEW nodes, NEW null, null \notin nodes,
         NEW nx \in Links(nodes, null), NEW ny \in Links(nodes, null),
         NEW h \in nodes \cup {null},
         \A o \in ListFrom(nodes, null, nx, h) : ny[o] = nx[o]
  PROVE  ListFrom(nodes, null, ny, h) = ListFrom(nodes, null, nx, h)
<1> DEFINE list(f, x) == ListFrom(nodes, null, f, x)
<1>1. Follows(null, nx, h, list(nx, h)) /\ list(nx, h) \in SUBSET nodes
  BY ListClosed
<1>2. Follows(null, ny, h, list(ny, h)) /\ list(ny, h) \in SUBSET nodes
  BY ListClosed
<1>3. Follows(null, ny, h, list(nx, h))
  BY <1>1 DEF Follows
<1>4. list(ny, h) \subseteq list(nx, h)
  BY <1>1, <1>3, ListLeast
<1>5. Follows(null, nx, h, list(ny, h))
  BY <1>2, <1>4 DEF Follows
<1>6. list(nx, h) \subseteq list(ny, h)
  BY <1>2, <1>5, ListLeast
<1> QED BY <1>4, <1>6

=============================================================================
