------------------------ MODULE HazptrReclaimProofs ------------------------
(***************************************************************************)
(* Proofs, for any number of contexts, hazard pointers and objects, that   *)
(* hazard pointers protect: no object is freed while a validated hazard    *)
(* pointer points to it, none is lost, and none is freed twice.            *)
(***************************************************************************)
EXTENDS ReclaimLemmas

(***************************************************************************)
(* Where a context is in its calls.                                        *)
(***************************************************************************)
Resting == {"idle", "store", "validate", "delete", "release"}
Pushing == {"push_load", "push_cas", "push_count"}
Reclaiming(t) == t.pc = "reclaim" \/ (t.pc = "snapshot" /\ t.ret = "reclaim")
Sweeping(t) == t.pc = "sweep" \/ (t.pc = "snapshot" /\ t.ret = "sweep")
Draining(t) == t.pc = "enqueue" \/ (t.pc \in Pushing /\ t.ret = "enqueue")
PushingBack(t) == t.pc = "push_back" \/ (t.pc \in Pushing /\ t.ret = "push_back")
PassedOn(t) ==
  \/ t.pc \in {"check", "read_dc", "count_cas", "collect"}
  \/ t.pc \in Pushing /\ t.ret = "check"
  \/ Sweeping(t)
  \/ PushingBack(t)

(* The entries of deleted that are in use. *)
Empty(c, t) == \A ix \in Index(c) : t.deleted[ix] = NULL
Full(c, t) == R[c] > 0 /\ t.del_index = R[c] /\ \A ix \in Index(c) : t.deleted[ix] # NULL
Exact(c, t) ==
  /\ \A ix \in Index(c) : t.deleted[ix] # NULL <=> ix < t.del_index
  /\ R[c] > 0 => t.del_index < R[c]
Injective(c, t) ==
  \A ix, iy \in Index(c) : t.deleted[ix] = t.deleted[iy] /\ t.deleted[ix] # NULL => ix = iy

(* What the locals of a context hold at each point of its calls, and how   *)
(* much of the array deleted is in use there.                              *)
ArrayOf(c, t) ==
  /\ t.pc \in {"none", "gone"} => t.call = "none" /\ Empty(c, t)
  /\ t.pc \in Resting => t.call = "none" /\ Exact(c, t)
  /\ Reclaiming(t) => t.call = "none" /\ Full(c, t)
  /\ Draining(t) => t.call \in {"overflow", "dtor"}
  /\ PassedOn(t) => t.call # "none" /\ Empty(c, t)
  /\ t.call = "delete" => R[c] = 0
  /\ Injective(c, t)
LocalsOf(t) ==
  /\ t.pc = "snapshot" => t.scan < NSlots /\ t.ret \in {"reclaim", "sweep"}
  /\ t.pc \in Pushing => t.ret \in {"check", "enqueue", "push_back"}
  /\ t.pc \in {"push_load", "push_cas"} => t.node # NULL
  /\ t.pc \in {"delete", "validate"} => t.p # NULL
  /\ t.local # NULL => Sweeping(t) \/ PushingBack(t)
  /\ t.prev # NULL => t.pc = "sweep"
  /\ t.pc = "idle" => t.i = 0
ControlOK == \A c \in Contexts : ArrayOf(c, ctx[c]) /\ LocalsOf(ctx[c])

(* The hazard pointers of a context that does not exist, those that a      *)
(* destructor has cleared and those of no context protect nothing.         *)
Cleared(t, i) ==
  \/ t.pc \in {"none", "gone"}
  \/ t.call \in {"dtor", "dtor_collect"}
  \/ t.pc = "release" /\ i < t.i
SlotsOK ==
  /\ \A c \in Contexts : \A i \in 0 .. S[c] - 1 :
       Cleared(ctx[c], i) => hp[SlotOf(c, i)] = NullWord /\ SlotOf(c, i) \notin valid
  /\ \A s \in Slot :
       (\A c \in Contexts : s \notin SlotsOf(c)) => hp[s] = NullWord /\ s \notin valid
  /\ \A c \in Contexts :
       ctx[c].pc = "validate" => hp[SlotOf(c, ctx[c].i)] = Word(ctx[c].p, Mark[c])

(* The object in the cell is live, a validated hazard pointer points to an *)
(* object that has not been freed.                                         *)
CellLive == cell # NULL => obj[cell] = "live"
ValidGuards == \A s \in valid : get(hp[s]) \in Objects /\ obj[get(hp[s])] # "free"

(* The objects that a context in state t, with links nx, will free unless  *)
(* its snapshot holds them.  A validated hazard pointer to one of them is  *)
(* in the snapshot, or still to be read.                                   *)
ItemsOf(c, t) == {t.deleted[ix] : ix \in Index(c)} \ {NULL}
Doomed(c, t, nx) ==
  IF Reclaiming(t) THEN ItemsOf(c, t)
  ELSE IF Sweeping(t) THEN ChainOf(nx, t.local) ELSE {}
CoveredIn(t, set, v, h) ==
  \A s \in v : get(h[s]) \in set =>
    get(h[s]) \in t.snap \/ (t.pc = "snapshot" /\ t.scan <= s)
Covered == \A c \in Contexts : CoveredIn(ctx[c], Doomed(c, ctx[c], next), valid, hp)

(* Every retired object is in one place, for the objects a[c] in the       *)
(* arrays, f[c] in flight and m[c] in the local lists of the contexts, and *)
(* those of the delete list l.                                             *)
Apart(a, f, m, l) ==
  /\ \A c, d \in Contexts : c # d => /\ a[c] \cap a[d] = {}
                                     /\ f[c] \cap f[d] = {}
                                     /\ m[c] \cap m[d] = {}
  /\ \A c, d \in Contexts : /\ a[c] \cap f[d] = {}
                            /\ a[c] \cap m[d] = {}
                            /\ f[c] \cap m[d] = {}
  /\ \A c \in Contexts : l \cap a[c] = {} /\ l \cap f[c] = {} /\ l \cap m[c] = {}
Complete(a, f, m, l, ob) ==
  \A o \in Objects :
    ob[o] = "retired" <=> o \in l \/ \E c \in Contexts : o \in a[c] \/ o \in f[c] \/ o \in m[c]
FlightOf(t) ==
  IF t.pc = "delete" THEN {t.p}
  ELSE IF t.pc \in {"push_load", "push_cas"} THEN {t.node} ELSE {}
Arrays == [c \in Contexts |-> InArray(c)]
Flights == [c \in Contexts |-> InFlight(c)]
Locals == [c \in Contexts |-> InLocal(c)]
OnePlace ==
  /\ Apart(Arrays, Flights, Locals, Chain(delete_head))
  /\ Complete(Arrays, Flights, Locals, Chain(delete_head), obj)

(* No list runs into itself, and the node that a sweep has kept last is in *)
(* the list.                                                               *)
ListsOK ==
  /\ Acyclic(next, delete_head)
  /\ \A c \in Contexts :
       /\ Acyclic(next, ctx[c].local)
       /\ ctx[c].prev # NULL => ctx[c].prev \in Chain(ctx[c].local)

(* A delete list that is longer than delete_count says: a context is about *)
(* to take it.  That is inductive as long as hp_count stays; for a counter *)
(* of zero it is whatever hp_count becomes.                                *)
Responsible(t, n, h) ==
  \/ t.pc = "collect"
  \/ t.pc = "check" /\ t.do_collect
  \/ n > h /\ t.pc \in {"check", "read_dc", "count_cas"}
CountOK ==
  \/ Cardinality(Chain(delete_head)) <= delete_count + Cardinality(Uncounted)
  \/ \E c \in Contexts : Responsible(ctx[c], delete_count, hp_count)
CountZero == delete_count = 0 => CountOK
CountStep == (CountOK => CountOK') /\ (CountZero => CountZero')

(* The domain outlives its contexts. *)
DestroyedLast ==
  destroyed => /\ \A c \in Contexts : ctx[c].pc \in {"none", "gone"}
               /\ delete_head = NULL

IInv ==
  /\ TypeOK
  /\ ControlOK
  /\ SlotsOK
  /\ CellLive
  /\ ValidGuards
  /\ Covered
  /\ OnePlace
  /\ ListsOK
  /\ CountZero
  /\ DestroyedLast

-----------------------------------------------------------------------------
(***************************************************************************)
(* The effect of a step of one context on each part of the invariant.      *)
(***************************************************************************)
(* The blocks of hazard pointers do not overlap. *)
LEMMA SlotFacts ==
  /\ \A c \in Contexts : \A i \in 0 .. S[c] - 1 : SlotOf(c, i) \in Slot /\ SlotOf(c, i) \in SlotsOf(c)
  /\ \A c \in Contexts : \A i, j \in 0 .. S[c] - 1 : SlotOf(c, i) = SlotOf(c, j) => i = j
  /\ \A c, d \in Contexts : c # d => \A i \in 0 .. S[c] - 1 : SlotOf(c, i) \notin SlotsOf(d)
  /\ NSlots \in Nat \ {0}
<1>1. \A c \in Contexts : \A i \in 0 .. S[c] - 1 : SlotOf(c, i) \in SlotsOf(c)
  BY DEF SlotsOf
<1>2. \A c \in Contexts : \A i \in 0 .. S[c] - 1 : SlotOf(c, i) \in Slot
  BY <1>1, BlocksAssumption
<1>3. \A c \in Contexts : \A i, j \in 0 .. S[c] - 1 : SlotOf(c, i) = SlotOf(c, j) => i = j
  BY SizesAssumption DEF SlotOf
<1>4. \A c, d \in Contexts : c # d => \A i \in 0 .. S[c] - 1 : SlotOf(c, i) \notin SlotsOf(d)
  BY <1>1, BlocksAssumption
<1>5. NSlots \in Nat \ {0}
  <2>1. 0 \in Contexts /\ 0 \in 0 .. S[0] - 1
    BY SizesAssumption DEF Contexts
  <2>2. SlotOf(0, 0) \in 0 .. NSlots - 1
    BY <1>2, <2>1 DEF Slot
  <2> QED BY <2>2, SizesAssumption
<1> QED BY <1>1, <1>2, <1>3, <1>4, <1>5

(* A context about to act exists, and the domain with it. *)
LEMMA NotDestroyed ==
  ASSUME DestroyedLast, NEW c \in Contexts, ctx[c].pc \notin {"none", "gone"}
  PROVE  ~destroyed
BY DEF DestroyedLast

(* The contexts after a step of c. *)
LEMMA ContextStep ==
  ASSUME TypeOK, ControlOK, NEW c \in Contexts, NEW u \in Context(c),
         ArrayOf(c, u), LocalsOf(u), ctx' = [ctx EXCEPT ![c] = u]
  PROVE  /\ ctx'[c] = u
         /\ \A d \in Contexts \ {c} : ctx'[d] = ctx[d]
         /\ ctx' = [d \in Contexts |-> ctx'[d]]
         /\ \A d \in Contexts : ctx'[d] \in Context(d)
         /\ ControlOK'
<1>1. /\ ctx'[c] = u
      /\ \A d \in Contexts \ {c} : ctx'[d] = ctx[d]
      /\ ctx' = [d \in Contexts |-> ctx'[d]]
  BY DEF TypeOK
<1>2. \A d \in Contexts : ctx'[d] \in Context(d)
  BY <1>1 DEF TypeOK
<1>3. \A d \in Contexts : ArrayOf(d, ctx'[d]) /\ LocalsOf(ctx'[d])
  BY <1>1 DEF ControlOK
<1>4. ControlOK'
  BY <1>3 DEF ControlOK
<1> QED BY <1>1, <1>2, <1>4

(* The places of deleted objects, as they depend on the context. *)
LEMMA PlacesOfContext ==
  ASSUME TypeOK, NEW c \in Contexts
  PROVE  /\ Arrays[c] = ItemsOf(c, ctx[c]) /\ ItemsOf(c, ctx[c]) \in SUBSET Objects
         /\ Flights[c] = FlightOf(ctx[c])
         /\ Locals[c] = ChainOf(next, ctx[c].local) /\ Locals[c] \in SUBSET Objects
         /\ Chain(delete_head) = ChainOf(next, delete_head) /\ Chain(delete_head) \in SUBSET Objects
<1>1. ctx[c].deleted \in [Index(c) -> Pointer] /\ ctx[c].local \in Pointer
  BY DEF TypeOK, Context
<1>2. ItemsOf(c, ctx[c]) \in SUBSET Objects
  BY <1>1 DEF ItemsOf, Pointer
<1>3. next \in NodeLinks /\ delete_head \in Pointer
  BY DEF TypeOK, NodeLinks
<1>4. ChainOf(next, ctx[c].local) \in SUBSET Objects /\ ChainOf(next, delete_head) \in SUBSET Objects
  BY <1>1, <1>3, ChainClosed
<1> QED BY <1>2, <1>4 DEF Arrays, InArray, ItemsOf, Flights, InFlight, FlightOf, At, Locals,
                          InLocal, Chain

(* What the contexts hold after a step of c to state u that leaves the     *)
(* links in the other local lists alone.                                   *)
LEMMA PlacesStep ==
  ASSUME TypeOK, NEW c \in Contexts, NEW u, ctx' = [ctx EXCEPT ![c] = u],
         next' \in NodeLinks, u.local \in Pointer, delete_head' \in Pointer,
         \A d \in Contexts \ {c} : \A o \in Locals[d] : next'[o] = next[o]
  PROVE  /\ Arrays' = [Arrays EXCEPT ![c] = ItemsOf(c, u)]
         /\ Flights' = [Flights EXCEPT ![c] = FlightOf(u)]
         /\ Locals' = [Locals EXCEPT ![c] = ChainOf(next', u.local)]
         /\ ChainOf(next', u.local) \in SUBSET Objects
         /\ Chain(delete_head)' = ChainOf(next', delete_head')
         /\ ChainOf(next', delete_head') \in SUBSET Objects
<1>1. ctx'[c] = u /\ \A d \in Contexts \ {c} : ctx'[d] = ctx[d]
  BY DEF TypeOK
<1>2. \A d \in Contexts : ctx[d].local \in Pointer
  BY DEF TypeOK, Context
<1>3. next \in NodeLinks
  BY DEF TypeOK, NodeLinks
<1>4. ASSUME NEW d \in Contexts \ {c}
      PROVE  ChainOf(next', ctx[d].local) = ChainOf(next, ctx[d].local)
  <2>1. Locals[d] = ChainOf(next, ctx[d].local)
    BY PlacesOfContext
  <2> QED BY <1>2, <1>3, <2>1, ChainFrame
<1>5. ASSUME NEW d \in Contexts
      PROVE  /\ InArray(d)' = IF d = c THEN ItemsOf(c, u) ELSE InArray(d)
             /\ InFlight(d)' = IF d = c THEN FlightOf(u) ELSE InFlight(d)
             /\ InLocal(d)' = IF d = c THEN ChainOf(next', u.local) ELSE InLocal(d)
  <2>1. CASE d = c
    BY <1>1, <2>1 DEF InArray, ItemsOf, InFlight, FlightOf, At, InLocal, Chain
  <2>2. CASE d # c
    BY <1>1, <1>4, <2>2 DEF InArray, ItemsOf, InFlight, FlightOf, At, InLocal, Chain
  <2> QED BY <2>1, <2>2
<1>6. /\ Arrays' = [Arrays EXCEPT ![c] = ItemsOf(c, u)]
      /\ Flights' = [Flights EXCEPT ![c] = FlightOf(u)]
      /\ Locals' = [Locals EXCEPT ![c] = ChainOf(next', u.local)]
  BY <1>5 DEF Arrays, Flights, Locals
<1>7. /\ ChainOf(next', u.local) \in SUBSET Objects
      /\ ChainOf(next', delete_head') \in SUBSET Objects
  BY ChainClosed
<1> QED BY <1>6, <1>7 DEF Chain

(* A step of c moves objects between the delete list and its own places,   *)
(* adds objects that were not retired and frees others: afterwards it      *)
(* holds the objects of A, F and M, and L are those of the delete list.    *)
Moved(a, f, m, l, ob, c, A, F, M, L, ob2) ==
  /\ A \cap F = {} /\ A \cap M = {} /\ A \cap L = {}
  /\ F \cap M = {} /\ F \cap L = {} /\ M \cap L = {}
  /\ \A o \in A \cup F \cup M \cup L :
       o \in Objects /\ (ob[o] # "retired" \/ o \in a[c] \/ o \in f[c] \/ o \in m[c] \/ o \in l)
  /\ \A o \in Objects : ob2[o] = "retired" <=>
       \/ o \in A \cup F \cup M \cup L
       \/ ob[o] = "retired" /\ ~(o \in a[c] \/ o \in f[c] \/ o \in m[c] \/ o \in l)

(* A step that moves objects as Moved says keeps them in one place each. *)
LEMMA PlacesMove ==
  ASSUME NEW a, NEW f, NEW m, NEW l, NEW ob, NEW c \in Contexts,
         NEW A, NEW F, NEW M, NEW L, NEW ob2,
         a = [d \in Contexts |-> a[d]], f = [d \in Contexts |-> f[d]],
         m = [d \in Contexts |-> m[d]],
         Apart(a, f, m, l), Complete(a, f, m, l, ob),
         Moved(a, f, m, l, ob, c, A, F, M, L, ob2)
  PROVE  /\ Apart([a EXCEPT ![c] = A], [f EXCEPT ![c] = F], [m EXCEPT ![c] = M], L)
         /\ Complete([a EXCEPT ![c] = A], [f EXCEPT ![c] = F], [m EXCEPT ![c] = M], L, ob2)
<1> DEFINE a2 == [a EXCEPT ![c] = A]  f2 == [f EXCEPT ![c] = F]  m2 == [m EXCEPT ![c] = M]
<1>1. /\ a2[c] = A /\ f2[c] = F /\ m2[c] = M
      /\ \A d \in Contexts \ {c} : a2[d] = a[d] /\ f2[d] = f[d] /\ m2[d] = m[d]
  OBVIOUS
<1>2. \A d \in Contexts \ {c} : \A o \in A \cup F \cup M \cup L :
        o \notin a[d] /\ o \notin f[d] /\ o \notin m[d]
  BY DEF Apart, Complete, Moved
<1> HIDE DEF a2, f2, m2
<1>3. Apart(a2, f2, m2, L)
  BY <1>1, <1>2 DEF Apart, Moved
<1>4. Complete(a2, f2, m2, L, ob2)
  <2> SUFFICES ASSUME NEW o \in Objects
               PROVE  ob2[o] = "retired" <=>
                        o \in L \/ \E d \in Contexts : o \in a2[d] \/ o \in f2[d] \/ o \in m2[d]
    BY DEF Complete
  <2>1. CASE o \in A \cup F \cup M \cup L
    BY <1>1, <2>1 DEF Moved
  <2>2. CASE o \notin A \cup F \cup M \cup L
    <3>1. ob2[o] = "retired" => \E d \in Contexts \ {c} : o \in a[d] \/ o \in f[d] \/ o \in m[d]
      BY <2>2 DEF Complete, Moved
    <3>2. ASSUME NEW d \in Contexts \ {c}, o \in a[d] \/ o \in f[d] \/ o \in m[d]
          PROVE  ob2[o] = "retired"
      BY <2>2, <3>2 DEF Apart, Complete, Moved
    <3> QED BY <1>1, <2>2, <3>1, <3>2
  <2> QED BY <2>1, <2>2
<1> QED BY <1>3, <1>4 DEF a2, f2, m2

(* The lists after a step of c. *)
LEMMA ListsStep ==
  ASSUME TypeOK, ListsOK, NEW c \in Contexts, NEW u, ctx' = [ctx EXCEPT ![c] = u],
         next' \in NodeLinks,
         \A d \in Contexts \ {c} : \A o \in Locals[d] : next'[o] = next[o],
         Acyclic(next', delete_head'), Acyclic(next', u.local),
         u.prev # NULL => u.prev \in ChainOf(next', u.local)
  PROVE  ListsOK'
<1>1. ctx'[c] = u /\ \A d \in Contexts \ {c} : ctx'[d] = ctx[d]
  BY DEF TypeOK
<1>2. next \in NodeLinks /\ \A d \in Contexts : ctx[d].local \in Pointer
  BY DEF TypeOK, NodeLinks, Context
<1>3. ASSUME NEW d \in Contexts \ {c}
      PROVE  /\ Acyclic(next', ctx[d].local)
             /\ ctx[d].prev # NULL => ctx[d].prev \in ChainOf(next', ctx[d].local)
  <2>1. Locals[d] = ChainOf(next, ctx[d].local)
    BY PlacesOfContext
  <2>2. /\ ChainOf(next', ctx[d].local) = ChainOf(next, ctx[d].local)
        /\ Acyclic(next', ctx[d].local)
    BY <1>2, <2>1, AcyclicFrame DEF ListsOK
  <2> QED BY <2>2 DEF ListsOK, Chain
<1>4. \A d \in Contexts : /\ Acyclic(next', ctx'[d].local)
                          /\ ctx'[d].prev # NULL => ctx'[d].prev \in ChainOf(next', ctx'[d].local)
  BY <1>1, <1>3
<1> QED BY <1>4 DEF ListsOK, Chain

(* What a context is about to free has been retired. *)
LEMMA DoomedRetired ==
  ASSUME TypeOK, OnePlace, NEW c \in Contexts
  PROVE  \A o \in Doomed(c, ctx[c], next) : o \in Objects /\ obj[o] = "retired"
<1>1. /\ Arrays[c] = ItemsOf(c, ctx[c]) /\ Arrays[c] \in SUBSET Objects
      /\ Locals[c] = ChainOf(next, ctx[c].local) /\ Locals[c] \in SUBSET Objects
  BY PlacesOfContext
<1>2. Doomed(c, ctx[c], next) \subseteq Arrays[c] \cup Locals[c]
  BY <1>1 DEF Doomed
<1> QED BY <1>1, <1>2 DEF OnePlace, Complete

(* The snapshots of the other contexts still hold what they must: after a  *)
(* step of c the validated hazard pointers point to objects that are not   *)
(* retired, or that one read no later pointed to before.                   *)
LEMMA CoverStep ==
  ASSUME TypeOK, OnePlace, Covered, NEW c \in Contexts, NEW u, ctx' = [ctx EXCEPT ![c] = u],
         valid \subseteq Slot, valid' \subseteq Slot,
         next' \in NodeLinks,
         \A d \in Contexts \ {c} : \A o \in Locals[d] : next'[o] = next[o],
         \A s \in valid' :
           \/ get(hp'[s]) \notin Objects \/ obj[get(hp'[s])] # "retired"
           \/ \E r \in valid : r <= s /\ get(hp[r]) = get(hp'[s]),
         CoveredIn(u, Doomed(c, u, next'), valid', hp')
  PROVE  Covered'
<1>1. ctx'[c] = u /\ \A d \in Contexts \ {c} : ctx'[d] = ctx[d]
  BY DEF TypeOK
<1>2. ASSUME NEW d \in Contexts \ {c}
      PROVE  CoveredIn(ctx[d], Doomed(d, ctx[d], next'), valid', hp')
  <2>1. Doomed(d, ctx[d], next') = Doomed(d, ctx[d], next)
    <3>1. next \in NodeLinks /\ ctx[d].local \in Pointer
      BY DEF TypeOK, NodeLinks, Context
    <3>2. Locals[d] = ChainOf(next, ctx[d].local)
      BY PlacesOfContext
    <3>3. ChainOf(next', ctx[d].local) = ChainOf(next, ctx[d].local)
      BY <3>1, <3>2, ChainFrame
    <3> QED BY <3>3 DEF Doomed
  <2>2. \A o \in Doomed(d, ctx[d], next) : o \in Objects /\ obj[o] = "retired"
    BY DoomedRetired
  <2> DEFINE doomed == Doomed(d, ctx[d], next)
  <2>3. CoveredIn(ctx[d], doomed, valid, hp)
    BY DEF Covered
  <2>4. ctx[d].scan \in Int
    BY DEF TypeOK, Context
  <2> HIDE DEF doomed
  <2>5. ASSUME NEW s \in valid', get(hp'[s]) \in doomed
        PROVE  get(hp'[s]) \in ctx[d].snap \/ (ctx[d].pc = "snapshot" /\ ctx[d].scan <= s)
    <3>1. PICK r \in valid : r <= s /\ get(hp[r]) = get(hp'[s])
      BY <2>2, <2>5 DEF doomed
    <3>2. get(hp[r]) \in ctx[d].snap \/ (ctx[d].pc = "snapshot" /\ ctx[d].scan <= r)
      BY <2>3, <2>5, <3>1 DEF CoveredIn
    <3>3. r \in Int /\ s \in Int
      BY DEF Slot
    <3> QED BY <2>4, <3>1, <3>2, <3>3
  <2> QED BY <2>1, <2>5 DEF CoveredIn, doomed
<1>3. \A d \in Contexts : CoveredIn(ctx'[d], Doomed(d, ctx'[d], next'), valid', hp')
  BY <1>1, <1>2
<1> QED BY <1>3 DEF Covered

(* The slots after a step of c that does not write to them. *)
LEMMA SlotsFrame ==
  ASSUME TypeOK, SlotsOK, NEW c \in Contexts, NEW u, ctx' = [ctx EXCEPT ![c] = u],
         hp' = hp, valid' = valid, u.pc # "validate",
         \A i \in 0 .. S[c] - 1 : Cleared(u, i) => Cleared(ctx[c], i)
  PROVE  SlotsOK'
<1>1. ctx'[c] = u /\ \A d \in Contexts \ {c} : ctx'[d] = ctx[d]
  BY DEF TypeOK
<1>2. \A d \in Contexts : \A i \in 0 .. S[d] - 1 : Cleared(ctx'[d], i) => Cleared(ctx[d], i)
  BY <1>1
<1>3. \A d \in Contexts : ctx'[d].pc = "validate" => ctx'[d] = ctx[d]
  BY <1>1
<1> QED BY <1>2, <1>3 DEF SlotsOK

(* Finite sets of contexts and objects. *)
LEMMA Finite ==
  /\ IsFiniteSet(Contexts)
  /\ \A set \in SUBSET Contexts : IsFiniteSet(set) /\ Cardinality(set) \in Nat
  /\ \A set \in SUBSET Objects : IsFiniteSet(set) /\ Cardinality(set) \in Nat
<1>1. IsFiniteSet(Contexts)
  BY FS_Interval, SizesAssumption DEF Contexts
<1> QED BY <1>1, FS_Subset, FS_CardinalityType, ObjectsAssumption

(* A delete list that is empty is not too long. *)
LEMMA CountEmpty ==
  ASSUME delete_count' \in Nat, ChainOf(next', delete_head') = {}
  PROVE  CountStep
<1>1. Cardinality(Chain(delete_head)') = 0
  BY FS_EmptySet DEF Chain
<1>2. Cardinality(Uncounted') \in Nat
  BY Finite DEF Uncounted
<1> QED BY <1>1, <1>2 DEF CountOK, CountZero, CountStep

(* A step of c that leaves the delete list and its counter alone. *)
LEMMA CountFrame ==
  ASSUME TypeOK, NEW c \in Contexts, NEW u, ctx' = [ctx EXCEPT ![c] = u],
         ChainOf(next', delete_head') = ChainOf(next, delete_head), delete_count' = delete_count,
         hp_count' = hp_count,
         u.pc = "push_count" <=> ctx[c].pc = "push_count",
         Responsible(ctx[c], delete_count, hp_count) => Responsible(u, delete_count, hp_count)
  PROVE  CountStep
<1>1. ctx'[c] = u /\ \A d \in Contexts \ {c} : ctx'[d] = ctx[d]
  BY DEF TypeOK
<1>2. Uncounted' = Uncounted
  BY <1>1 DEF Uncounted, At
<1>3. \A d \in Contexts :
        Responsible(ctx[d], delete_count, hp_count) => Responsible(ctx'[d], delete_count', hp_count')
  BY <1>1
<1>4. CountOK => CountOK'
  BY <1>2, <1>3 DEF CountOK, Chain
<1> QED BY <1>4 DEF CountZero, CountStep

(* A step of c that moves no object and writes to no hazard pointer. *)
LEMMA QuietStep ==
  ASSUME IInv, NEW c \in Contexts, NEW u \in Context(c), ArrayOf(c, u), LocalsOf(u),
         ctx' = [ctx EXCEPT ![c] = u], ~destroyed,
         UNCHANGED <<cell, exchanges, obj, hp, valid, delete_head, next, destroyed, null_reclaimed>>,
         delete_count' \in Nat, hp_count' = hp_count,
         ItemsOf(c, u) = ItemsOf(c, ctx[c]), FlightOf(u) = FlightOf(ctx[c]),
         u.local = ctx[c].local, u.prev = NULL \/ u.prev = ctx[c].prev,
         \A i \in 0 .. S[c] - 1 : Cleared(u, i) => Cleared(ctx[c], i),
         u.pc # "validate",
         CoveredIn(u, Doomed(c, u, next), valid, hp),
         CountStep
  PROVE  IInv'
<1> USE DEF IInv
<1>1. /\ ctx'[c] = u
      /\ \A d \in Contexts \ {c} : ctx'[d] = ctx[d]
      /\ ctx' = [d \in Contexts |-> ctx'[d]]
      /\ \A d \in Contexts : ctx'[d] \in Context(d)
      /\ ControlOK'
  BY ContextStep
<1>2. TypeOK'
  BY <1>1 DEF TypeOK
<1>3. SlotsOK'
  BY SlotsFrame
<1>4. CellLive' /\ ValidGuards'
  BY DEF CellLive, ValidGuards
<1>5. next' \in NodeLinks /\ u.local \in Pointer /\ delete_head' \in Pointer /\ valid \subseteq Slot
  BY DEF TypeOK, NodeLinks, Context
<1>6. /\ Arrays' = [Arrays EXCEPT ![c] = ItemsOf(c, u)]
      /\ Flights' = [Flights EXCEPT ![c] = FlightOf(u)]
      /\ Locals' = [Locals EXCEPT ![c] = ChainOf(next', u.local)]
      /\ Chain(delete_head)' = ChainOf(next', delete_head')
  BY <1>5, PlacesStep
<1>7. Arrays' = Arrays /\ Flights' = Flights /\ Locals' = Locals
      /\ Chain(delete_head)' = Chain(delete_head)
  <2>1. /\ Arrays[c] = ItemsOf(c, u) /\ Flights[c] = FlightOf(u)
        /\ Locals[c] = ChainOf(next', u.local)
        /\ Chain(delete_head) = ChainOf(next', delete_head')
    BY PlacesOfContext
  <2> QED BY <1>6, <2>1 DEF Arrays, Flights, Locals
<1>8. OnePlace'
  BY <1>7 DEF OnePlace
<1>9. ListsOK'
  <2>1. Acyclic(next', delete_head') /\ Acyclic(next', u.local)
    BY DEF ListsOK
  <2>2. u.prev # NULL => u.prev \in ChainOf(next', u.local)
    BY DEF ListsOK, Chain
  <2> QED BY <1>5, <2>1, <2>2, ListsStep
<1>10. Covered'
  <2>1. \A s \in valid' : \E r \in valid : r <= s /\ get(hp[r]) = get(hp'[s])
    BY <1>5 DEF Slot
  <2> QED BY <1>5, <2>1, CoverStep
<1>11. DestroyedLast'
  BY DEF DestroyedLast
<1> QED BY <1>1, <1>2, <1>3, <1>4, <1>8, <1>9, <1>10, <1>11 DEF CountStep

-----------------------------------------------------------------------------
(***************************************************************************)
(* The steps that move no object and write to no hazard pointer.           *)
(***************************************************************************)
(* A context without a call, or that goes on to collect. *)
LEMMA FreshContext ==
  ASSUME NEW c \in Contexts, NEW pc \in {"idle", "gone", "collect", "none"}
  PROVE  LET u == NewContext(c, pc) IN
         /\ u \in Context(c)
         /\ u.pc = pc /\ u.call = "none" /\ u.ret = "none"
         /\ Empty(c, u) /\ u.deleted \in [Index(c) -> Pointer] /\ u.del_index = 0
         /\ u.local = NULL /\ u.prev = NULL /\ u.i = 0
<1>1. S[c] \in Nat \ {0} /\ NSlots \in Nat /\ R[c] \in Nat
  BY SizesAssumption
<1> QED BY <1>1 DEF NewContext, Context, Pointer, Empty

(* A context between calls. *)
LEMMA IdleContext ==
  ASSUME TypeOK, NEW c \in Contexts
  PROVE  LET u == Idle(c) IN
         /\ u \in Context(c)
         /\ u.pc = "idle" /\ u.call = "none" /\ u.ret = "none"
         /\ u.deleted = ctx[c].deleted /\ u.del_index = ctx[c].del_index
         /\ u.local = NULL /\ u.prev = NULL /\ u.i = 0
<1>1. ctx[c].deleted \in [Index(c) -> Pointer] /\ ctx[c].del_index \in 0 .. R[c]
  BY DEF TypeOK, Context
<1> DEFINE v == NewContext(c, "idle")
           u == [v EXCEPT !.deleted = ctx[c].deleted, !.del_index = ctx[c].del_index]
<1>2. /\ v \in Context(c) /\ v.pc = "idle" /\ v.call = "none" /\ v.ret = "none"
      /\ v.local = NULL /\ v.prev = NULL /\ v.i = 0
  BY FreshContext
<1>3. Idle(c) = u
  BY DEF Idle
<1> HIDE DEF v
<1>4. /\ u \in Context(c)
      /\ u.pc = "idle" /\ u.call = "none" /\ u.ret = "none"
      /\ u.deleted = ctx[c].deleted /\ u.del_index = ctx[c].del_index
      /\ u.local = NULL /\ u.prev = NULL /\ u.i = 0
  BY <1>1, <1>2 DEF Context
<1> QED BY <1>3, <1>4

(* The end of a call of enqueue_for_delete or collect. *)
LEMMA ReturnContext ==
  ASSUME TypeOK, ControlOK, NEW c \in Contexts, PassedOn(ctx[c])
  PROVE  LET u == Return(c) IN
         /\ u \in Context(c) /\ ArrayOf(c, u) /\ LocalsOf(u)
         /\ u.pc \in {"idle", "collect", "gone"} /\ u.local = NULL /\ u.prev = NULL
         /\ \A i \in 0 .. S[c] - 1 : Cleared(u, i) => Cleared(ctx[c], i)
         /\ ItemsOf(c, u) = {} /\ ItemsOf(c, ctx[c]) = {} /\ FlightOf(u) = {}
         /\ \A nx : Doomed(c, u, nx) = {}
<1> DEFINE t == ctx[c]
           u == Return(c)
<1>1. t.call # "none" /\ Empty(c, t) /\ (t.call = "delete" => R[c] = 0)
  BY DEF ControlOK, ArrayOf
<1>2. t.call \in {"delete", "overflow", "dtor", "dtor_collect"}
  BY <1>1 DEF TypeOK, Context
<1>3. R[c] \in Nat /\ S[c] \in Nat \ {0}
  BY SizesAssumption
<1>4. ItemsOf(c, t) = {}
  BY <1>1 DEF ItemsOf, Empty
<1>5. /\ u \in Context(c) /\ u.pc \in {"idle", "collect", "gone"} /\ u.local = NULL /\ u.prev = NULL
      /\ Empty(c, u) /\ u.i = 0
      /\ u.pc = "idle" => u.call = "none" /\ (R[c] > 0 => u.del_index = 0)
      /\ u.pc = "collect" => u.call = "dtor_collect"
      /\ u.pc = "gone" => u.call = "none"
      /\ u.pc # "idle" => t.call \in {"dtor", "dtor_collect"}
  <2>1. CASE t.call = "delete"
    <3>1. u = Idle(c)
      BY <2>1 DEF Return
    <3> HIDE DEF u
    <3> QED BY <1>1, <2>1, <3>1, IdleContext DEF Empty
  <2>2. CASE t.call = "overflow"
    <3>1. u = [Idle(c) EXCEPT !.del_index = 0]
      BY <2>2 DEF Return, OverflowIndex
    <3> HIDE DEF u
    <3>2. /\ u \in Context(c) /\ u.pc = "idle" /\ u.call = "none" /\ u.del_index = 0
          /\ u.local = NULL /\ u.prev = NULL /\ u.deleted = t.deleted /\ u.i = 0
      <4> DEFINE v == Idle(c)
      <4>1. /\ v \in Context(c) /\ v.pc = "idle" /\ v.call = "none"
            /\ v.local = NULL /\ v.prev = NULL /\ v.deleted = t.deleted /\ v.i = 0
        BY IdleContext
      <4>2. u = [v EXCEPT !.del_index = 0]
        BY <3>1
      <4> HIDE DEF v
      <4> QED BY <1>3, <4>1, <4>2 DEF Context
    <3> QED BY <1>1, <3>2 DEF Empty
  <2>3. CASE t.call = "dtor"
    <3>1. u = [NewContext(c, "collect") EXCEPT !.call = "dtor_collect"]
      BY <2>3 DEF Return
    <3> HIDE DEF u
    <3>2. /\ u \in Context(c) /\ u.pc = "collect" /\ u.call = "dtor_collect"
          /\ u.local = NULL /\ u.prev = NULL /\ Empty(c, u) /\ u.i = 0
      <4> DEFINE v == NewContext(c, "collect")
      <4>1. /\ v \in Context(c) /\ v.pc = "collect" /\ v.local = NULL /\ v.prev = NULL /\ Empty(c, v)
            /\ v.i = 0
        BY FreshContext
      <4>2. u = [v EXCEPT !.call = "dtor_collect"]
        BY <3>1
      <4> HIDE DEF v
      <4> QED BY <4>1, <4>2 DEF Context, Empty
    <3> QED BY <2>3, <3>2
  <2>4. CASE t.call = "dtor_collect"
    <3>1. u = NewContext(c, "gone")
      BY <2>4 DEF Return
    <3> HIDE DEF u
    <3> QED BY <2>4, <3>1, FreshContext
  <2> QED BY <1>2, <2>1, <2>2, <2>3, <2>4
<1> HIDE DEF u
<1>6. Injective(c, u)
  BY <1>5 DEF Injective, Empty
<1>7. u.pc = "idle" => Exact(c, u)
  BY <1>3, <1>5 DEF Exact, Empty, Index
<1>8. ArrayOf(c, u)
  BY <1>5, <1>6, <1>7 DEF ArrayOf, Resting, Reclaiming, Draining, Pushing, PassedOn,
                          Sweeping, PushingBack
<1>9. LocalsOf(u)
  BY <1>5 DEF LocalsOf, Pushing
<1>10. \A i \in 0 .. S[c] - 1 : Cleared(u, i) => Cleared(t, i)
  BY <1>5 DEF Cleared
<1>11. ItemsOf(c, u) = {} /\ FlightOf(u) = {} /\ \A nx : Doomed(c, u, nx) = {}
  BY <1>5 DEF ItemsOf, Empty, FlightOf, Doomed, Reclaiming, Sweeping
<1> QED BY <1>4, <1>5, <1>8, <1>9, <1>10, <1>11 DEF u

(* The first read of the cell. *)
LEMMA LoadInv ==
  ASSUME IInv, NEW c \in Contexts, Load(c) PROVE IInv' /\ CountStep
<1> USE DEF IInv
<1>1. PICK i \in 0 .. S[c] - 1 :
        ctx' = [ctx EXCEPT ![c].pc = "store", ![c].p = cell, ![c].i = i]
  BY DEF Load
<1> DEFINE t == ctx[c]
           u == [t EXCEPT !.pc = "store", !.p = cell, !.i = i]
<1>2. ctx' = [ctx EXCEPT ![c] = u]
  BY <1>1 DEF TypeOK
<1>3. t \in Context(c) /\ t.pc = "idle" /\ ~destroyed /\ t.local = NULL
  BY NotDestroyed DEF Load, At, TypeOK, ControlOK, LocalsOf, Sweeping, PushingBack, Pushing
<1>4. /\ u \in Context(c) /\ u.pc = "store" /\ u.deleted = t.deleted
      /\ u.del_index = t.del_index /\ u.call = t.call /\ u.local = t.local /\ u.prev = t.prev
  BY <1>3 DEF Context, TypeOK
<1> HIDE DEF u
<1>5. ArrayOf(c, u)
  BY <1>3, <1>4 DEF ControlOK, ArrayOf, Resting, Reclaiming, Draining, Pushing, PassedOn,
                    Sweeping, PushingBack, Exact, Injective
<1>6. LocalsOf(u)
  BY <1>3, <1>4 DEF ControlOK, LocalsOf, Pushing, Sweeping, PushingBack
<1>7. /\ ItemsOf(c, u) = ItemsOf(c, t) /\ FlightOf(u) = FlightOf(t)
      /\ Doomed(c, u, next) = {}
      /\ \A i_1 \in 0 .. S[c] - 1 : Cleared(u, i_1) => Cleared(t, i_1)
  BY <1>3, <1>4 DEF ItemsOf, FlightOf, Doomed, Reclaiming, Sweeping, Cleared
<1>8. CountStep
  BY <1>2, <1>3, <1>4, CountFrame DEF Load, list, Responsible
<1>9. CoveredIn(u, Doomed(c, u, next), valid, hp)
  BY <1>7 DEF CoveredIn
<1> QED BY <1>2, <1>3, <1>4, <1>5, <1>6, <1>7, <1>8, <1>9, QuietStep
        DEF Load, client, list, ended, TypeOK

(* The destructor of a context begins. *)
LEMMA DestroyInv ==
  ASSUME IInv, NEW c \in Contexts, Destroy(c) PROVE IInv' /\ CountStep
<1> USE DEF IInv
<1> DEFINE t == ctx[c]
           u == [t EXCEPT !.pc = "release"]
<1>1. ctx' = [ctx EXCEPT ![c] = u]
  BY DEF Destroy, TypeOK
<1>2. t \in Context(c) /\ t.pc = "idle" /\ ~destroyed
  BY NotDestroyed DEF Destroy, At, TypeOK
<1>3. ArrayOf(c, t) /\ LocalsOf(t)
  BY DEF ControlOK
<1>4. /\ u \in Context(c) /\ u.pc = "release" /\ u.deleted = t.deleted /\ u.i = t.i
      /\ u.del_index = t.del_index /\ u.call = t.call /\ u.local = t.local /\ u.prev = t.prev
  BY <1>2 DEF Context
<1> HIDE DEF u
<1>5. ArrayOf(c, u) /\ LocalsOf(u)
  BY <1>2, <1>3, <1>4 DEF ArrayOf, LocalsOf, Resting, Reclaiming, Draining, Pushing, PassedOn,
                          Sweeping, PushingBack, Exact, Injective
<1>6. t.i = 0
  BY <1>2, <1>3 DEF LocalsOf
<1>7. /\ ItemsOf(c, u) = ItemsOf(c, t) /\ FlightOf(u) = FlightOf(t)
      /\ Doomed(c, u, next) = {}
      /\ \A i \in 0 .. S[c] - 1 : Cleared(u, i) => Cleared(t, i)
  BY <1>2, <1>4, <1>6 DEF ItemsOf, FlightOf, Doomed, Reclaiming, Sweeping, Cleared
<1>8. CountStep
  BY <1>1, <1>2, <1>4, CountFrame DEF Destroy, list, Responsible
<1>9. CoveredIn(u, Doomed(c, u, next), valid, hp)
  BY <1>7 DEF CoveredIn
<1> QED BY <1>1, <1>2, <1>4, <1>5, <1>7, <1>8, <1>9, QuietStep
        DEF Destroy, client, list, ended, TypeOK

(* The test of the loop in collect_if_required. *)
LEMMA CheckInv ==
  ASSUME IInv, NEW c \in Contexts, Check(c) PROVE IInv' /\ CountStep
<1> USE DEF IInv
<1> DEFINE t == ctx[c]
           u == IF delete_count > hp_count THEN [t EXCEPT !.pc = "read_dc"]
                ELSE IF t.do_collect THEN [t EXCEPT !.pc = "collect"] ELSE Return(c)
<1>1. ctx' = [ctx EXCEPT ![c] = u]
  BY DEF Check, TypeOK
<1>2. t \in Context(c) /\ t.pc = "check" /\ ~destroyed
  BY NotDestroyed DEF Check, At, TypeOK
<1>3. ArrayOf(c, t) /\ LocalsOf(t) /\ PassedOn(t)
  BY <1>2 DEF ControlOK, PassedOn
<1>4. t.local = NULL /\ t.prev = NULL /\ FlightOf(t) = {}
  BY <1>2, <1>3 DEF LocalsOf, Sweeping, PushingBack, Pushing, FlightOf
<1>5. /\ u \in Context(c) /\ ArrayOf(c, u) /\ LocalsOf(u) /\ u.local = NULL /\ u.prev = NULL
      /\ ItemsOf(c, u) = ItemsOf(c, t) /\ FlightOf(u) = {} /\ Doomed(c, u, next) = {}
      /\ \A i \in 0 .. S[c] - 1 : Cleared(u, i) => Cleared(t, i)
      /\ u.pc \notin {"validate", "push_count"}
      /\ Responsible(t, delete_count, hp_count) => Responsible(u, delete_count, hp_count)
  <2>1. CASE delete_count > hp_count \/ t.do_collect
    <3>1. PICK pc \in {"read_dc", "collect"} :
            /\ u = [t EXCEPT !.pc = pc]
            /\ pc = "read_dc" => delete_count > hp_count
      BY <2>1
    <3> HIDE DEF u
    <3>2. /\ u \in Context(c) /\ u.pc = pc /\ u.deleted = t.deleted
          /\ u.del_index = t.del_index /\ u.call = t.call /\ u.local = t.local /\ u.prev = t.prev
      BY <1>2, <3>1 DEF Context
    <3>3. ArrayOf(c, u) /\ LocalsOf(u)
      BY <1>2, <1>3, <1>4, <3>2
         DEF ArrayOf, LocalsOf, Resting, Reclaiming, Draining, Pushing, PassedOn,
             Sweeping, PushingBack, Empty, Injective
    <3>4. /\ ItemsOf(c, u) = ItemsOf(c, t) /\ FlightOf(u) = {} /\ Doomed(c, u, next) = {}
          /\ \A i \in 0 .. S[c] - 1 : Cleared(u, i) => Cleared(t, i)
      BY <1>2, <3>2 DEF ItemsOf, FlightOf, Doomed, Reclaiming, Sweeping, Cleared
    <3>5. Responsible(u, delete_count, hp_count)
      BY <3>1, <3>2 DEF Responsible
    <3> QED BY <1>4, <3>2, <3>3, <3>4, <3>5
  <2>2. CASE ~(delete_count > hp_count) /\ ~t.do_collect
    <3>1. u = Return(c)
      BY <2>2
    <3>2. ~Responsible(t, delete_count, hp_count)
      BY <1>2, <2>2 DEF Responsible
    <3> HIDE DEF u
    <3> QED BY <1>3, <3>1, <3>2, ReturnContext
  <2> QED BY <2>1, <2>2
<1> HIDE DEF u
<1>6. CountStep
  BY <1>1, <1>2, <1>5, CountFrame DEF Check, list
<1>7. CoveredIn(u, Doomed(c, u, next), valid, hp)
  BY <1>5 DEF CoveredIn
<1> QED BY <1>1, <1>2, <1>4, <1>5, <1>6, <1>7, QuietStep
        DEF Check, client, list, ended, TypeOK

(* The read of delete_count in collect_if_required. *)
LEMMA ReadDcInv ==
  ASSUME IInv, NEW c \in Contexts, ReadDc(c) PROVE IInv' /\ CountStep
<1> USE DEF IInv
<1> DEFINE t == ctx[c]
           u == [t EXCEPT !.pc = "count_cas", !.dc = delete_count]
<1>1. ctx' = [ctx EXCEPT ![c] = u]
  BY DEF ReadDc, TypeOK
<1>2. t \in Context(c) /\ t.pc = "read_dc" /\ ~destroyed
  BY NotDestroyed DEF ReadDc, At, TypeOK
<1>3. ArrayOf(c, t) /\ LocalsOf(t)
  BY DEF ControlOK
<1>4. /\ u \in Context(c) /\ u.pc = "count_cas" /\ u.deleted = t.deleted
      /\ u.del_index = t.del_index /\ u.call = t.call /\ u.local = t.local /\ u.prev = t.prev
  BY <1>2 DEF Context, TypeOK
<1> HIDE DEF u
<1>5. ArrayOf(c, u) /\ LocalsOf(u)
  BY <1>2, <1>3, <1>4 DEF ArrayOf, LocalsOf, Resting, Reclaiming, Draining, Pushing, PassedOn,
                          Sweeping, PushingBack, Empty, Injective
<1>6. /\ ItemsOf(c, u) = ItemsOf(c, t) /\ FlightOf(u) = FlightOf(t)
      /\ Doomed(c, u, next) = {}
      /\ \A i \in 0 .. S[c] - 1 : Cleared(u, i) => Cleared(t, i)
  BY <1>2, <1>4 DEF ItemsOf, FlightOf, Doomed, Reclaiming, Sweeping, Cleared
<1>7. CountStep
  BY <1>1, <1>2, <1>4, CountFrame DEF ReadDc, list, Responsible
<1>8. CoveredIn(u, Doomed(c, u, next), valid, hp)
  BY <1>6 DEF CoveredIn
<1> QED BY <1>1, <1>2, <1>4, <1>5, <1>6, <1>7, <1>8, QuietStep
        DEF ReadDc, client, list, ended, TypeOK

(* A context that clears the counter makes itself responsible. *)
LEMMA CountCasInv ==
  ASSUME IInv, NEW c \in Contexts, CountCas(c) PROVE IInv' /\ CountStep
<1> USE DEF IInv
<1> DEFINE t == ctx[c]
           won == delete_count = t.dc
           u == [t EXCEPT !.pc = "check", !.dc = 0, !.do_collect = won]
<1>1. ctx' = [ctx EXCEPT ![c] = u]
  BY DEF CountCas, TypeOK
<1>2. t \in Context(c) /\ t.pc = "count_cas" /\ ~destroyed
  BY NotDestroyed DEF CountCas, At, TypeOK
<1>3. ArrayOf(c, t) /\ LocalsOf(t)
  BY DEF ControlOK
<1>4. /\ u \in Context(c) /\ u.pc = "check" /\ u.deleted = t.deleted /\ u.do_collect = won
      /\ u.del_index = t.del_index /\ u.call = t.call /\ u.local = t.local /\ u.prev = t.prev
  BY <1>2 DEF Context
<1> HIDE DEF u
<1>5. ArrayOf(c, u) /\ LocalsOf(u)
  BY <1>2, <1>3, <1>4 DEF ArrayOf, LocalsOf, Resting, Reclaiming, Draining, Pushing, PassedOn,
                          Sweeping, PushingBack, Empty, Injective
<1>6. /\ ItemsOf(c, u) = ItemsOf(c, t) /\ FlightOf(u) = FlightOf(t)
      /\ Doomed(c, u, next) = {}
      /\ \A i \in 0 .. S[c] - 1 : Cleared(u, i) => Cleared(t, i)
  BY <1>2, <1>4 DEF ItemsOf, FlightOf, Doomed, Reclaiming, Sweeping, Cleared
<1>7. CountStep
  <2>1. CASE won
    <3>1. ctx'[c] = u
      BY <1>1 DEF TypeOK
    <3>2. Responsible(ctx'[c], delete_count', hp_count')
      BY <1>4, <2>1, <3>1 DEF Responsible
    <3> QED BY <3>2 DEF CountOK, CountZero, CountStep
  <2>2. CASE ~won
    BY <1>1, <1>2, <1>4, <2>2, CountFrame DEF CountCas, Responsible
  <2> QED BY <2>1, <2>2
<1>8. CoveredIn(u, Doomed(c, u, next), valid, hp)
  BY <1>6 DEF CoveredIn
<1>9. delete_count' \in Nat /\ hp_count' = hp_count
  BY DEF CountCas, TypeOK
<1> QED BY <1>1, <1>2, <1>4, <1>5, <1>6, <1>7, <1>8, <1>9, QuietStep
        DEF CountCas, client, ended

(* A node that has been pushed is counted. *)
LEMMA PushCountInv ==
  ASSUME IInv, NEW c \in Contexts, PushCount(c) PROVE IInv' /\ CountStep
<1> USE DEF IInv
<1> DEFINE t == ctx[c]
           u == [t EXCEPT !.pc = t.ret, !.node = NULL]
<1>1. ctx' = [ctx EXCEPT ![c] = u]
  BY DEF PushCount, TypeOK
<1>2. t \in Context(c) /\ t.pc = "push_count" /\ ~destroyed
  BY NotDestroyed DEF PushCount, At, TypeOK
<1>3. ArrayOf(c, t) /\ LocalsOf(t)
  BY DEF ControlOK
<1>4. t.ret \in {"check", "enqueue", "push_back"}
  BY <1>2, <1>3 DEF LocalsOf, Pushing
<1>5. /\ u \in Context(c) /\ u.pc = t.ret /\ u.deleted = t.deleted
      /\ u.del_index = t.del_index /\ u.call = t.call /\ u.local = t.local /\ u.prev = t.prev
  BY <1>2, <1>4 DEF Context, Pointer
<1> HIDE DEF u
<1>6. ArrayOf(c, u) /\ LocalsOf(u)
  BY <1>2, <1>3, <1>4, <1>5
     DEF ArrayOf, LocalsOf, Resting, Reclaiming, Draining, Pushing, PassedOn,
         Sweeping, PushingBack, Empty, Injective
<1>7. /\ ItemsOf(c, u) = ItemsOf(c, t) /\ FlightOf(u) = FlightOf(t)
      /\ Doomed(c, u, next) = {}
      /\ \A i \in 0 .. S[c] - 1 : Cleared(u, i) => Cleared(t, i)
  BY <1>2, <1>4, <1>5 DEF ItemsOf, FlightOf, Doomed, Reclaiming, Sweeping, Cleared
<1>8. CountStep
  <2>1. ctx'[c] = u /\ \A d \in Contexts \ {c} : ctx'[d] = ctx[d]
    BY <1>1 DEF TypeOK
  <2>2. Uncounted' = Uncounted \ {c} /\ c \in Uncounted
    BY <1>2, <1>4, <1>5, <2>1 DEF Uncounted, At
  <2>3. /\ IsFiniteSet(Uncounted) /\ Cardinality(Uncounted) \in Nat
        /\ Cardinality(Uncounted') = Cardinality(Uncounted) - 1
    BY <2>2, Finite, FS_RemoveElement DEF Uncounted
  <2>4. Chain(delete_head)' = Chain(delete_head) /\ Cardinality(Chain(delete_head)) \in Nat
    BY PlacesOfContext, Finite DEF PushCount, Chain
  <2>5. /\ delete_count \in Nat /\ delete_count' = delete_count + 1
        /\ hp_count \in Nat /\ hp_count' = hp_count
    BY DEF PushCount, TypeOK
  <2>6. ASSUME Cardinality(Chain(delete_head)) <= delete_count + Cardinality(Uncounted)
        PROVE  CountOK'
    BY <2>3, <2>4, <2>5, <2>6 DEF CountOK
  <2>7. ASSUME \E d \in Contexts : Responsible(ctx[d], delete_count, hp_count)
        PROVE  CountOK'
    <3>1. PICK d \in Contexts : Responsible(ctx[d], delete_count, hp_count)
      BY <2>7
    <3>2. d # c
      BY <1>2, <3>1 DEF Responsible
    <3>3. Responsible(ctx'[d], delete_count', hp_count')
      BY <2>1, <2>5, <3>1, <3>2 DEF Responsible
    <3> QED BY <3>3 DEF CountOK
  <2>8. CountOK => CountOK'
    BY <2>6, <2>7 DEF CountOK
  <2> QED BY <2>5, <2>8 DEF CountZero, CountStep
<1>9. CoveredIn(u, Doomed(c, u, next), valid, hp)
  BY <1>7 DEF CoveredIn
<1>10. delete_count' \in Nat /\ hp_count' = hp_count /\ u.pc # "validate"
  BY <1>4, <1>5 DEF PushCount, TypeOK
<1> QED BY <1>1, <1>2, <1>5, <1>6, <1>7, <1>8, <1>9, <1>10, QuietStep
        DEF PushCount, client, ended

(* The snapshot: the slot that is read is in the snapshot from then on. *)
LEMMA ScanInv ==
  ASSUME IInv, NEW c \in Contexts, Scan(c) PROVE IInv' /\ CountStep
<1> USE DEF IInv
<1> DEFINE t == ctx[c]
           n == t.scan
           pc == IF n = NSlots - 1 THEN t.ret ELSE "snapshot"
           u == [t EXCEPT !.snap = @ \cup SnapshotValues(n), !.scan = n + 1, !.pc = pc]
<1>1. ctx' = [ctx EXCEPT ![c] = u]
  BY DEF Scan, ReadAt, TypeOK
<1>2. t \in Context(c) /\ t.pc = "snapshot" /\ ~destroyed
  BY NotDestroyed DEF Scan, At, TypeOK
<1>3. ArrayOf(c, t) /\ LocalsOf(t)
  BY DEF ControlOK
<1>4. t.ret \in {"reclaim", "sweep"} /\ n \in 0 .. NSlots - 1 /\ NSlots \in Nat
  BY <1>2, <1>3, SizesAssumption DEF LocalsOf, Context
<1>5. SnapshotValues(n) \in SUBSET Objects /\ pc \in {"snapshot", "reclaim", "sweep"}
  BY <1>4 DEF SnapshotValues, TypeOK, Slot, WordOver, get, Pointer
<1>6. /\ u \in Context(c) /\ u.pc = pc /\ u.deleted = t.deleted /\ u.ret = t.ret
      /\ u.del_index = t.del_index /\ u.call = t.call /\ u.local = t.local /\ u.prev = t.prev
      /\ u.snap = t.snap \cup SnapshotValues(n) /\ u.scan = n + 1
  <2> DEFINE set == t.snap \cup SnapshotValues(n)  k == n + 1
  <2>1. set \in SUBSET Objects /\ k \in 0 .. NSlots
    BY <1>2, <1>4, <1>5 DEF Context
  <2>2. u = [t EXCEPT !.snap = set, !.scan = k, !.pc = pc]
    OBVIOUS
  <2> HIDE DEF pc, set, k, u
  <2>3. /\ u \in Context(c) /\ u.pc = pc /\ u.deleted = t.deleted /\ u.ret = t.ret
        /\ u.del_index = t.del_index /\ u.call = t.call /\ u.local = t.local /\ u.prev = t.prev
        /\ u.snap = set /\ u.scan = k
    BY <1>2, <1>5, <2>1, <2>2 DEF Context
  <2> QED BY <2>3 DEF set, k
<1> HIDE DEF u
<1>7. ArrayOf(c, u)
  BY <1>2, <1>3, <1>4, <1>6
     DEF ArrayOf, Resting, Reclaiming, Draining, Pushing, PassedOn,
         Sweeping, PushingBack, Empty, Full, Injective
<1>8. LocalsOf(u)
  BY <1>2, <1>3, <1>4, <1>6 DEF LocalsOf, Pushing, Sweeping, PushingBack
<1>9. /\ ItemsOf(c, u) = ItemsOf(c, t) /\ FlightOf(u) = FlightOf(t)
      /\ Doomed(c, u, next) = Doomed(c, t, next)
      /\ \A i \in 0 .. S[c] - 1 : Cleared(u, i) => Cleared(t, i)
  BY <1>2, <1>4, <1>6 DEF ItemsOf, FlightOf, Doomed, Reclaiming, Sweeping, Cleared
<1>10. CountStep
  BY <1>1, <1>2, <1>4, <1>6, CountFrame DEF Scan, list, Responsible
<1>11. CoveredIn(u, Doomed(c, u, next), valid, hp)
  <2> DEFINE doomed == Doomed(c, t, next)
  <2>1. CoveredIn(t, doomed, valid, hp)
    BY DEF Covered
  <2>2. NULL \notin doomed
    BY DoomedRetired, ObjectsAssumption
  <2> HIDE DEF doomed
  <2>3. ASSUME NEW s \in valid, get(hp[s]) \in doomed
        PROVE  get(hp[s]) \in u.snap \/ (u.pc = "snapshot" /\ u.scan <= s)
    <3>1. s \in 0 .. NSlots - 1
      BY DEF TypeOK, Slot
    <3>2. CASE get(hp[s]) \in t.snap
      BY <1>6, <3>2
    <3>3. CASE s = n
      BY <1>6, <2>2, <2>3, <3>3 DEF SnapshotValues
    <3>4. CASE n < s
      BY <1>4, <1>6, <3>1, <3>4
    <3>5. get(hp[s]) \in t.snap \/ n <= s
      BY <2>1, <2>3 DEF CoveredIn
    <3> QED BY <1>4, <3>1, <3>2, <3>3, <3>4, <3>5
  <2> QED BY <1>9, <2>3 DEF CoveredIn, doomed
<1>12. u.pc # "validate"
  BY <1>4, <1>6
<1> QED BY <1>1, <1>2, <1>6, <1>7, <1>8, <1>9, <1>10, <1>11, <1>12, QuietStep
        DEF Scan, client, list, ended, TypeOK

-----------------------------------------------------------------------------
(***************************************************************************)
(* The steps that write to hazard pointers.                                *)
(***************************************************************************)
(* A step of c that writes to its own hazard pointers: those that it       *)
(* leaves validated point to live objects, or to what one with a lower     *)
(* index protected before.                                                 *)
LEMMA HazardStep ==
  ASSUME IInv, NEW c \in Contexts, NEW u \in Context(c), ArrayOf(c, u), LocalsOf(u),
         ctx' = [ctx EXCEPT ![c] = u], ~destroyed,
         UNCHANGED <<cell, exchanges, obj, delete_head, next, delete_count, hp_count,
                     destroyed, null_reclaimed>>,
         hp' \in [Slot -> WordOver(Pointer)], valid' \subseteq Slot,
         \A s \in Slot \ SlotsOf(c) : hp'[s] = hp[s] /\ (s \in valid' => s \in valid),
         ItemsOf(c, u) = ItemsOf(c, ctx[c]), FlightOf(u) = FlightOf(ctx[c]),
         u.local = ctx[c].local, u.prev = NULL \/ u.prev = ctx[c].prev,
         \A i \in 0 .. S[c] - 1 :
           Cleared(u, i) => hp'[SlotOf(c, i)] = NullWord /\ SlotOf(c, i) \notin valid',
         u.pc = "validate" => hp'[SlotOf(c, u.i)] = Word(u.p, Mark[c]),
         \A s \in valid' :
           \/ get(hp'[s]) \in Objects /\ obj[get(hp'[s])] = "live"
           \/ \E r \in valid : r <= s /\ get(hp[r]) = get(hp'[s]),
         Doomed(c, u, next) = {},
         CountStep
  PROVE  IInv'
<1> USE DEF IInv
<1>1. /\ ctx'[c] = u
      /\ \A d \in Contexts \ {c} : ctx'[d] = ctx[d]
      /\ ctx' = [d \in Contexts |-> ctx'[d]]
      /\ \A d \in Contexts : ctx'[d] \in Context(d)
      /\ ControlOK'
  BY ContextStep
<1>2. TypeOK'
  BY <1>1 DEF TypeOK
<1>3. SlotsOK'
  <2>1. ASSUME NEW d \in Contexts, NEW i \in 0 .. S[d] - 1, Cleared(ctx'[d], i)
        PROVE  hp'[SlotOf(d, i)] = NullWord /\ SlotOf(d, i) \notin valid'
    <3>1. CASE d = c
      BY <1>1, <2>1, <3>1
    <3>2. CASE d # c
      <4>1. SlotOf(d, i) \in Slot \ SlotsOf(c)
        BY <3>2, SlotFacts
      <4> QED BY <1>1, <2>1, <3>2, <4>1 DEF SlotsOK
    <3> QED BY <3>1, <3>2
  <2>2. ASSUME NEW s \in Slot, \A d \in Contexts : s \notin SlotsOf(d)
        PROVE  hp'[s] = NullWord /\ s \notin valid'
    BY <2>2 DEF SlotsOK
  <2>3. ASSUME NEW d \in Contexts, ctx'[d].pc = "validate"
        PROVE  hp'[SlotOf(d, ctx'[d].i)] = Word(ctx'[d].p, Mark[d])
    <3>1. CASE d = c
      BY <1>1, <2>3, <3>1
    <3>2. CASE d # c
      <4>1. ctx[d].i \in 0 .. S[d] - 1
        BY DEF TypeOK, Context
      <4>2. SlotOf(d, ctx[d].i) \in Slot \ SlotsOf(c)
        BY <3>2, <4>1, SlotFacts
      <4> QED BY <1>1, <2>3, <3>2, <4>2 DEF SlotsOK
    <3> QED BY <3>1, <3>2
  <2> QED BY <2>1, <2>2, <2>3 DEF SlotsOK
<1>4. CellLive' /\ ValidGuards'
  BY DEF CellLive, ValidGuards
<1>5. next' \in NodeLinks /\ u.local \in Pointer /\ delete_head' \in Pointer /\ valid \subseteq Slot
  BY DEF TypeOK, NodeLinks, Context
<1>6. /\ Arrays' = [Arrays EXCEPT ![c] = ItemsOf(c, u)]
      /\ Flights' = [Flights EXCEPT ![c] = FlightOf(u)]
      /\ Locals' = [Locals EXCEPT ![c] = ChainOf(next', u.local)]
      /\ Chain(delete_head)' = ChainOf(next', delete_head')
  BY <1>5, PlacesStep
<1>7. Arrays' = Arrays /\ Flights' = Flights /\ Locals' = Locals
      /\ Chain(delete_head)' = Chain(delete_head)
  <2>1. /\ Arrays[c] = ItemsOf(c, u) /\ Flights[c] = FlightOf(u)
        /\ Locals[c] = ChainOf(next', u.local)
        /\ Chain(delete_head) = ChainOf(next', delete_head')
    BY PlacesOfContext
  <2> QED BY <1>6, <2>1 DEF Arrays, Flights, Locals
<1>8. OnePlace'
  BY <1>7 DEF OnePlace
<1>9. ListsOK'
  <2>1. Acyclic(next', delete_head') /\ Acyclic(next', u.local)
    BY DEF ListsOK
  <2>2. u.prev # NULL => u.prev \in ChainOf(next', u.local)
    BY DEF ListsOK, Chain
  <2> QED BY <1>5, <2>1, <2>2, ListsStep
<1>10. Covered'
  <2>1. CoveredIn(u, Doomed(c, u, next'), valid', hp')
    BY DEF CoveredIn
  <2>2. \A s \in valid' :
          \/ get(hp'[s]) \notin Objects \/ obj[get(hp'[s])] # "retired"
          \/ \E r \in valid : r <= s /\ get(hp[r]) = get(hp'[s])
    OBVIOUS
  <2> QED BY <1>5, <2>1, <2>2, CoverStep
<1>11. DestroyedLast'
  BY DEF DestroyedLast
<1> QED BY <1>1, <1>2, <1>3, <1>4, <1>8, <1>9, <1>10, <1>11 DEF CountStep

(* A validated hazard pointer that is not written to. *)
LEMMA ValidKept ==
  ASSUME TypeOK, NEW s \in valid, hp'[s] = hp[s]
  PROVE  \E r \in valid : r <= s /\ get(hp[r]) = get(hp'[s])
BY DEF TypeOK, Slot

(* The constructor of a context clears a block that nobody uses. *)
LEMMA ConstructInv ==
  ASSUME IInv, NEW c \in Contexts, Construct(c) PROVE IInv' /\ CountStep
<1> USE DEF IInv
<1> DEFINE t == ctx[c]
           u == NewContext(c, "idle")
<1>1. /\ ctx' = [ctx EXCEPT ![c] = u] /\ ~destroyed /\ t.pc = "none"
      /\ UNCHANGED <<cell, exchanges, valid, obj, delete_head, next, delete_count, hp_count,
                     destroyed, null_reclaimed>>
      /\ hp' = [s \in Slot |-> IF s \in SlotsOf(c) THEN NullWord ELSE hp[s]]
  BY DEF Construct, At, client, list, ended
<1>2. /\ u \in Context(c) /\ u.pc = "idle" /\ u.call = "none" /\ u.ret = "none" /\ Empty(c, u)
      /\ u.del_index = 0 /\ u.local = NULL /\ u.prev = NULL /\ u.i = 0
      /\ u.deleted \in [Index(c) -> Pointer]
  BY FreshContext
<1> HIDE DEF u
<1>3. t \in Context(c) /\ Empty(c, t) /\ t.local = NULL
  BY <1>1 DEF TypeOK, ControlOK, ArrayOf, LocalsOf, Sweeping, PushingBack, Pushing
<1>4. ArrayOf(c, u) /\ LocalsOf(u)
  BY <1>2, SizesAssumption DEF ArrayOf, LocalsOf, Resting, Reclaiming, Draining, Pushing, PassedOn,
                          Sweeping, PushingBack, Exact, Injective, Empty, Index
<1>5. /\ ItemsOf(c, u) = ItemsOf(c, t) /\ FlightOf(u) = FlightOf(t) /\ Doomed(c, u, next) = {}
      /\ \A i \in 0 .. S[c] - 1 : ~Cleared(u, i)
  BY <1>1, <1>2, <1>3 DEF Empty, ItemsOf, FlightOf, Doomed, Reclaiming, Sweeping, Cleared
<1>6. hp' \in [Slot -> WordOver(Pointer)] /\ valid' \subseteq Slot
  BY <1>1 DEF TypeOK, NullWord, Word, WordOver, Pointer
<1>7. \A s \in valid : s \notin SlotsOf(c)
  BY <1>1 DEF SlotsOK, Cleared, SlotsOf
<1>8. \A s \in valid' : \E r \in valid : r <= s /\ get(hp[r]) = get(hp'[s])
  BY <1>1, <1>6, <1>7, ValidKept
<1>9. CountStep
  BY <1>1, <1>2, CountFrame DEF Responsible
<1> QED BY <1>1, <1>2, <1>3, <1>4, <1>5, <1>6, <1>8, <1>9, HazardStep

(* The store of a hazard pointer: what it held before is validated no      *)
(* longer.                                                                 *)
LEMMA StoreInv ==
  ASSUME IInv, NEW c \in Contexts, Store(c) PROVE IInv' /\ CountStep
<1> USE DEF IInv
<1> DEFINE t == ctx[c]
           s == SlotOf(c, t.i)
           w == IF t.p = NULL THEN NullWord ELSE Word(t.p, Mark[c])
           u == IF t.p = NULL THEN Idle(c) ELSE [t EXCEPT !.pc = "validate"]
<1>1. /\ ctx' = [ctx EXCEPT ![c] = u] /\ t.pc = "store"
      /\ UNCHANGED <<cell, exchanges, obj, delete_head, next, delete_count, hp_count,
                     destroyed, null_reclaimed>>
      /\ hp' = [hp EXCEPT ![s] = w]
      /\ valid' = valid \ {s}
  BY DEF Store, At, list, ended
<1>2. t \in Context(c) /\ ~destroyed
  BY <1>1, NotDestroyed DEF TypeOK
<1>3. ArrayOf(c, t) /\ LocalsOf(t)
  BY DEF ControlOK
<1>4. t.local = NULL /\ t.prev = NULL
  BY <1>1, <1>3 DEF LocalsOf, Sweeping, PushingBack, Pushing
<1>5. /\ u \in Context(c) /\ u.deleted = t.deleted /\ u.del_index = t.del_index
      /\ u.call = "none" /\ u.local = NULL /\ u.prev = NULL
      /\ \/ t.p = NULL /\ u.pc = "idle" /\ u.i = 0
         \/ t.p # NULL /\ u.pc = "validate" /\ u.i = t.i /\ u.p = t.p
  <2>1. CASE t.p = NULL
    <3>1. u = Idle(c)
      BY <2>1
    <3> HIDE DEF u
    <3> QED BY <2>1, <3>1, IdleContext
  <2>2. CASE t.p # NULL
    <3>1. t.call = "none"
      BY <1>1, <1>3 DEF ArrayOf, Resting
    <3>2. u = [t EXCEPT !.pc = "validate"]
      BY <2>2
    <3> HIDE DEF u
    <3> QED BY <1>2, <1>4, <2>2, <3>1, <3>2 DEF Context
  <2> QED BY <2>1, <2>2
<1> HIDE DEF u
<1>6. ArrayOf(c, u) /\ LocalsOf(u)
  BY <1>1, <1>3, <1>5 DEF ArrayOf, LocalsOf, Resting, Reclaiming, Draining, Pushing, PassedOn,
                          Sweeping, PushingBack, Exact, Injective
<1>7. /\ ItemsOf(c, u) = ItemsOf(c, t) /\ FlightOf(u) = FlightOf(t) /\ Doomed(c, u, next) = {}
      /\ \A i \in 0 .. S[c] - 1 : ~Cleared(u, i)
  BY <1>1, <1>5 DEF ItemsOf, FlightOf, Doomed, Reclaiming, Sweeping, Cleared
<1>8. s \in Slot /\ s \in SlotsOf(c)
  BY <1>2, SlotFacts DEF Context
<1>9. w \in WordOver(Pointer)
  BY <1>2, ClientsAssumption DEF NullWord, Word, WordOver, Pointer, Context
<1> HIDE DEF w, s
<1>10. /\ hp' \in [Slot -> WordOver(Pointer)] /\ valid' \subseteq Slot
       /\ hp'[s] = w /\ \A r \in Slot \ {s} : hp'[r] = hp[r]
  BY <1>1, <1>8, <1>9 DEF TypeOK
<1>11. \A r \in valid' : \E q \in valid : q <= r /\ get(hp[q]) = get(hp'[r])
  BY <1>1, <1>10, ValidKept
<1>12. u.pc = "validate" => hp'[SlotOf(c, u.i)] = Word(u.p, Mark[c])
  BY <1>5, <1>10 DEF w, s
<1>13. CountStep
  BY <1>1, <1>5, CountFrame DEF Responsible
<1>14. \A r \in Slot \ SlotsOf(c) : hp'[r] = hp[r] /\ (r \in valid' => r \in valid)
  BY <1>1, <1>8, <1>10
<1> QED BY <1>1, <1>2, <1>4, <1>5, <1>6, <1>7, <1>10, <1>11, <1>12, <1>13, <1>14, HazardStep

(* The second read: what is validated is live. *)
LEMMA ValidateInv ==
  ASSUME IInv, NEW c \in Contexts, Validate(c) PROVE IInv' /\ CountStep
<1> USE DEF IInv
<1> DEFINE t == ctx[c]
           s == SlotOf(c, t.i)
           u == IF cell = t.p THEN Idle(c) ELSE [t EXCEPT !.pc = "store", !.p = cell]
<1>1. /\ t.pc = "validate"
      /\ UNCHANGED <<cell, exchanges, obj, hp, delete_head, next, delete_count, hp_count,
                     destroyed, null_reclaimed>>
      /\ valid' = IF cell = t.p THEN valid \cup {s} ELSE valid
  BY DEF Validate, At, list, ended
<1>2. ctx' = [ctx EXCEPT ![c] = u]
  BY DEF Validate, TypeOK
<1>3. t \in Context(c) /\ ~destroyed
  BY <1>1, NotDestroyed DEF TypeOK
<1>4. ArrayOf(c, t) /\ LocalsOf(t)
  BY DEF ControlOK
<1>5. t.local = NULL /\ t.prev = NULL /\ t.p # NULL /\ t.call = "none"
  BY <1>1, <1>4 DEF ArrayOf, LocalsOf, Sweeping, PushingBack, Pushing, Resting
<1>6. /\ u \in Context(c) /\ u.deleted = t.deleted /\ u.del_index = t.del_index
      /\ u.call = "none" /\ u.local = NULL /\ u.prev = NULL
      /\ (u.pc = "idle" /\ u.i = 0) \/ u.pc = "store"
  <2>1. CASE cell = t.p
    <3>1. u = Idle(c)
      BY <2>1
    <3> HIDE DEF u
    <3> QED BY <3>1, IdleContext
  <2>2. CASE cell # t.p
    <3>1. u = [t EXCEPT !.pc = "store", !.p = cell]
      BY <2>2
    <3> HIDE DEF u
    <3> QED BY <1>3, <1>5, <3>1 DEF Context, TypeOK
  <2> QED BY <2>1, <2>2
<1> HIDE DEF u
<1>7. ArrayOf(c, u) /\ LocalsOf(u)
  BY <1>1, <1>4, <1>6 DEF ArrayOf, LocalsOf, Resting, Reclaiming, Draining, Pushing, PassedOn,
                          Sweeping, PushingBack, Exact, Injective
<1>8. /\ ItemsOf(c, u) = ItemsOf(c, t) /\ FlightOf(u) = FlightOf(t) /\ Doomed(c, u, next) = {}
      /\ \A i \in 0 .. S[c] - 1 : ~Cleared(u, i)
  BY <1>1, <1>6 DEF ItemsOf, FlightOf, Doomed, Reclaiming, Sweeping, Cleared
<1>9. s \in Slot /\ s \in SlotsOf(c)
  BY <1>3, SlotFacts DEF Context
<1>10. cell = t.p => get(hp'[s]) \in Objects /\ obj[get(hp'[s])] = "live"
  <2>1. hp'[s] = Word(t.p, Mark[c])
    BY <1>1 DEF SlotsOK
  <2>2. get(hp'[s]) = t.p
    BY <2>1 DEF Word, get
  <2> QED BY <1>1, <1>5, <2>2 DEF CellLive, TypeOK, Pointer
<1> HIDE DEF s
<1>11. \A r \in valid' :
          \/ get(hp'[r]) \in Objects /\ obj[get(hp'[r])] = "live"
          \/ \E q \in valid : q <= r /\ get(hp[q]) = get(hp'[r])
  BY <1>1, <1>10, ValidKept
<1>12. hp' \in [Slot -> WordOver(Pointer)] /\ valid' \subseteq Slot
  BY <1>1, <1>9 DEF TypeOK
<1>13. CountStep
  BY <1>1, <1>2, <1>6, CountFrame DEF Responsible
<1>14. \A r \in Slot \ SlotsOf(c) : hp'[r] = hp[r] /\ (r \in valid' => r \in valid)
  BY <1>1, <1>9
<1>15. u.pc # "validate"
  BY <1>6
<1> QED BY <1>1, <1>2, <1>3, <1>5, <1>6, <1>7, <1>8, <1>11, <1>12, <1>13, <1>14, <1>15, HazardStep

(* Between calls a context may write to its hazard pointers. *)
LEMMA BetweenCalls ==
  ASSUME IInv, NEW c \in Contexts, ctx[c].pc = "idle",
         UNCHANGED <<cell, exchanges, obj, delete_head, next, delete_count, hp_count,
                     ctx, destroyed, null_reclaimed>>,
         hp' \in [Slot -> WordOver(Pointer)], valid' \subseteq Slot,
         \A s \in Slot \ SlotsOf(c) : hp'[s] = hp[s] /\ (s \in valid' => s \in valid),
         \A s \in valid' : \E r \in valid : r <= s /\ get(hp[r]) = get(hp'[s])
  PROVE  IInv' /\ CountStep
<1> USE DEF IInv
<1> DEFINE t == ctx[c]
<1>1. t \in Context(c) /\ ArrayOf(c, t) /\ LocalsOf(t) /\ ~destroyed
  BY NotDestroyed DEF TypeOK, ControlOK
<1>2. ctx' = [ctx EXCEPT ![c] = t]
  BY DEF TypeOK
<1>3. Doomed(c, t, next) = {} /\ \A i \in 0 .. S[c] - 1 : ~Cleared(t, i)
  BY <1>1 DEF Doomed, Reclaiming, Sweeping, Cleared, ArrayOf, Resting
<1>4. CountStep
  BY <1>2, CountFrame
<1> QED BY <1>1, <1>2, <1>3, <1>4, HazardStep

(* Protection passes to a slot that a snapshot reads later. *)
LEMMA MoveInv ==
  ASSUME IInv, NEW c \in Contexts, Move(c) PROVE IInv' /\ CountStep
<1> USE DEF IInv
<1>1. PICK i, j \in 0 .. S[c] - 1 :
        /\ i < j /\ SlotOf(c, i) \in valid
        /\ hp' = [hp EXCEPT ![SlotOf(c, j)] = hp[SlotOf(c, i)]]
        /\ valid' = valid \cup {SlotOf(c, j)}
  BY DEF Move
<1> DEFINE from == SlotOf(c, i)  to == SlotOf(c, j)
<1>2. from \in Slot /\ to \in Slot /\ to \in SlotsOf(c) /\ from <= to
  BY <1>1, SlotFacts, SizesAssumption DEF SlotOf
<1> HIDE DEF from, to
<1>3. hp' = [hp EXCEPT ![to] = hp[from]] /\ valid' = valid \cup {to} /\ from \in valid
  BY <1>1 DEF from, to
<1>4. hp' \in [Slot -> WordOver(Pointer)] /\ valid' \subseteq Slot
  BY <1>2, <1>3 DEF TypeOK
<1>5. hp'[to] = hp[from] /\ \A s \in Slot \ {to} : hp'[s] = hp[s]
  BY <1>2, <1>3 DEF TypeOK
<1>6. ASSUME NEW s \in valid' PROVE \E r \in valid : r <= s /\ get(hp[r]) = get(hp'[s])
  <2>1. CASE s = to
    BY <1>2, <1>3, <1>5, <2>1
  <2>2. CASE s # to
    BY <1>3, <1>4, <1>5, <2>2, ValidKept
  <2> QED BY <2>1, <2>2
<1>7. \A s \in Slot \ SlotsOf(c) : hp'[s] = hp[s] /\ (s \in valid' => s \in valid)
  BY <1>2, <1>3, <1>5
<1> QED BY <1>4, <1>6, <1>7, BetweenCalls DEF Move, At, list, ended

(* A hazard pointer is cleared. *)
LEMMA ClearInv ==
  ASSUME IInv, NEW c \in Contexts, Clear(c) PROVE IInv' /\ CountStep
<1> USE DEF IInv
<1>1. PICK s \in SlotsOf(c) : hp' = [hp EXCEPT ![s] = NullWord] /\ valid' = valid \ {s}
  BY DEF Clear
<1>2. NullWord \in WordOver(Pointer) /\ s \in Slot
  BY BlocksAssumption DEF NullWord, Word, WordOver, Pointer
<1>3. hp' \in [Slot -> WordOver(Pointer)] /\ valid' \subseteq Slot
  BY <1>1, <1>2 DEF TypeOK
<1>4. \A r \in Slot \ {s} : hp'[r] = hp[r]
  BY <1>1, <1>2 DEF TypeOK
<1>5. \A r \in valid' : \E q \in valid : q <= r /\ get(hp[q]) = get(hp'[r])
  BY <1>1, <1>3, <1>4, ValidKept
<1>6. \A r \in Slot \ SlotsOf(c) : hp'[r] = hp[r] /\ (r \in valid' => r \in valid)
  BY <1>1, <1>4
<1> QED BY <1>3, <1>5, <1>6, BetweenCalls DEF Clear, At, list, ended

(* A destructor clears the hazard pointers one by one. *)
LEMMA ReleaseInv ==
  ASSUME IInv, NEW c \in Contexts, Release(c) PROVE IInv' /\ CountStep
<1> USE DEF IInv
<1> DEFINE t == ctx[c]
           s == SlotOf(c, t.i)
           u == IF t.i < S[c] - 1 THEN [t EXCEPT !.i = t.i + 1]
                ELSE [t EXCEPT !.i = 0, !.pc = "enqueue", !.call = "dtor"]
<1>1. /\ t.pc = "release"
      /\ UNCHANGED <<cell, exchanges, obj, delete_head, next, delete_count, hp_count,
                     destroyed, null_reclaimed>>
      /\ hp' = [hp EXCEPT ![s] = NullWord]
      /\ valid' = valid \ {s}
  BY DEF Release, At, list, ended
<1>2. ctx' = [ctx EXCEPT ![c] = u]
  BY DEF Release
<1>3. t \in Context(c) /\ ~destroyed
  BY <1>1, NotDestroyed DEF TypeOK
<1>4. ArrayOf(c, t) /\ LocalsOf(t)
  BY DEF ControlOK
<1>5. t.local = NULL /\ t.prev = NULL /\ t.call = "none" /\ t.i \in 0 .. S[c] - 1
      /\ S[c] \in Nat \ {0}
  BY <1>1, <1>3, <1>4, SizesAssumption
     DEF Context, ArrayOf, LocalsOf, Sweeping, PushingBack, Pushing, Resting
<1>6. /\ u \in Context(c) /\ u.deleted = t.deleted /\ u.del_index = t.del_index
      /\ u.local = NULL /\ u.prev = NULL
      /\ \/ t.i < S[c] - 1 /\ u.pc = "release" /\ u.i = t.i + 1 /\ u.call = "none"
         \/ t.i = S[c] - 1 /\ u.pc = "enqueue" /\ u.call = "dtor"
  <2>1. CASE t.i < S[c] - 1
    <3> DEFINE k == t.i + 1
    <3>1. u = [t EXCEPT !.i = k]
      BY <2>1
    <3>2. k \in 0 .. S[c] - 1
      BY <1>5, <2>1
    <3> HIDE DEF u, k
    <3>3. /\ u \in Context(c) /\ u.deleted = t.deleted /\ u.del_index = t.del_index
          /\ u.local = NULL /\ u.prev = NULL /\ u.pc = "release" /\ u.i = k /\ u.call = "none"
      BY <1>1, <1>3, <1>5, <3>1, <3>2 DEF Context
    <3> QED BY <2>1, <3>3 DEF k
  <2>2. CASE ~(t.i < S[c] - 1)
    <3> DEFINE k == 0
    <3>1. u = [t EXCEPT !.i = k, !.pc = "enqueue", !.call = "dtor"] /\ t.i = S[c] - 1
      BY <1>5, <2>2
    <3>2. k \in 0 .. S[c] - 1
      BY <1>5
    <3> HIDE DEF u, k
    <3>3. /\ u \in Context(c) /\ u.deleted = t.deleted /\ u.del_index = t.del_index
          /\ u.local = NULL /\ u.prev = NULL /\ u.pc = "enqueue" /\ u.call = "dtor"
      BY <1>3, <1>5, <3>1, <3>2 DEF Context
    <3> QED BY <3>1, <3>3
  <2> QED BY <2>1, <2>2
<1> HIDE DEF u
<1>7. ArrayOf(c, u) /\ LocalsOf(u)
  BY <1>1, <1>4, <1>6 DEF ArrayOf, LocalsOf, Resting, Reclaiming, Draining, Pushing, PassedOn,
                          Sweeping, PushingBack, Exact, Injective
<1>8. /\ ItemsOf(c, u) = ItemsOf(c, t) /\ FlightOf(u) = FlightOf(t) /\ Doomed(c, u, next) = {}
  BY <1>1, <1>6 DEF ItemsOf, FlightOf, Doomed, Reclaiming, Sweeping
<1>9. s \in Slot /\ s \in SlotsOf(c)
  BY <1>5, SlotFacts
<1>10. NullWord \in WordOver(Pointer)
  BY DEF NullWord, Word, WordOver, Pointer
<1>11. /\ hp' \in [Slot -> WordOver(Pointer)] /\ valid' \subseteq Slot
       /\ hp'[s] = NullWord /\ \A r \in Slot \ {s} : hp'[r] = hp[r]
  <2> HIDE DEF s
  <2> QED BY <1>1, <1>9, <1>10 DEF TypeOK
<1>12. ASSUME NEW i \in 0 .. S[c] - 1, Cleared(u, i)
       PROVE  hp'[SlotOf(c, i)] = NullWord /\ SlotOf(c, i) \notin valid'
  <2>1. CASE i = t.i
    BY <1>1, <1>11, <2>1
  <2>2. CASE i # t.i
    <3>1. i < t.i
      BY <1>5, <1>6, <1>12, <2>2 DEF Cleared
    <3>2. Cleared(t, i)
      BY <1>1, <3>1 DEF Cleared
    <3>3. hp[SlotOf(c, i)] = NullWord /\ SlotOf(c, i) \notin valid
      BY <3>2 DEF SlotsOK
    <3>4. SlotOf(c, i) # s /\ SlotOf(c, i) \in Slot
      BY <1>5, <2>2, SlotFacts
    <3> QED BY <1>1, <1>11, <3>3, <3>4
  <2> QED BY <2>1, <2>2
<1> HIDE DEF s
<1>13. \A r \in valid' : \E q \in valid : q <= r /\ get(hp[q]) = get(hp'[r])
  BY <1>1, <1>11, ValidKept
<1>14. CountStep
  BY <1>1, <1>2, <1>6, CountFrame DEF Responsible
<1>15. \A r \in Slot \ SlotsOf(c) : hp'[r] = hp[r] /\ (r \in valid' => r \in valid)
  BY <1>1, <1>9, <1>11
<1>16. u.pc # "validate"
  BY <1>6
<1> QED BY <1>1, <1>2, <1>3, <1>5, <1>6, <1>7, <1>8, <1>11, <1>12, <1>13, <1>14, <1>15, <1>16,
           HazardStep

-----------------------------------------------------------------------------
(***************************************************************************)
(* The steps that move deleted objects.                                    *)
(***************************************************************************)
(* The objects that a context holds, and those of the delete list. *)
LEMMA PlacesBefore ==
  ASSUME TypeOK, OnePlace, NEW c \in Contexts
  PROVE  LET a == ItemsOf(c, ctx[c])
             f == FlightOf(ctx[c])
             m == ChainOf(next, ctx[c].local)
             l == ChainOf(next, delete_head)
         IN
         /\ a \cap f = {} /\ a \cap m = {} /\ a \cap l = {}
         /\ f \cap m = {} /\ f \cap l = {} /\ m \cap l = {}
         /\ a \in SUBSET Objects /\ m \in SUBSET Objects /\ l \in SUBSET Objects
         /\ \A o \in Objects : o \in a \cup f \cup m \cup l => obj[o] = "retired"
         /\ \A d \in Contexts \ {c} : \A o \in Locals[d] : o \notin a \cup f \cup m \cup l
<1>1. /\ Arrays[c] = ItemsOf(c, ctx[c]) /\ ItemsOf(c, ctx[c]) \in SUBSET Objects
      /\ Flights[c] = FlightOf(ctx[c])
      /\ Locals[c] = ChainOf(next, ctx[c].local) /\ Locals[c] \in SUBSET Objects
      /\ Chain(delete_head) = ChainOf(next, delete_head) /\ Chain(delete_head) \in SUBSET Objects
  BY PlacesOfContext
<1>2. /\ Arrays[c] \cap Flights[c] = {} /\ Arrays[c] \cap Locals[c] = {}
      /\ Arrays[c] \cap Chain(delete_head) = {} /\ Flights[c] \cap Locals[c] = {}
      /\ Flights[c] \cap Chain(delete_head) = {} /\ Locals[c] \cap Chain(delete_head) = {}
  BY DEF OnePlace, Apart
<1>3. \A o \in Objects :
        o \in Arrays[c] \cup Flights[c] \cup Locals[c] \cup Chain(delete_head) => obj[o] = "retired"
  BY DEF OnePlace, Complete
<1>4. \A d \in Contexts \ {c} : \A o \in Locals[d] :
        o \notin Arrays[c] \cup Flights[c] \cup Locals[c] \cup Chain(delete_head)
  BY DEF OnePlace, Apart
<1> QED BY <1>1, <1>2, <1>3, <1>4

(* c goes from state t to state u, while the links, the head of the delete *)
(* list and the states of the objects change: what it holds or put on the  *)
(* list is what it held, what was on the list and what was not retired;    *)
(* the rest of it is retired no longer.                                    *)
Transfer(c, t, u, nx, nx2, h, h2, ob, ob2) ==
  LET A == ItemsOf(c, u)
      F == FlightOf(u)
      M == ChainOf(nx2, u.local)
      L == ChainOf(nx2, h2)
      held == ItemsOf(c, t) \cup FlightOf(t) \cup ChainOf(nx, t.local) \cup ChainOf(nx, h)
  IN
  /\ A \cap F = {} /\ A \cap M = {} /\ A \cap L = {}
  /\ F \cap M = {} /\ F \cap L = {} /\ M \cap L = {}
  /\ \A o \in A \cup F \cup M \cup L : o \in Objects /\ (ob[o] # "retired" \/ o \in held)
  /\ \A o \in Objects : ob2[o] = "retired" <=>
       \/ o \in A \cup F \cup M \cup L
       \/ ob[o] = "retired" /\ o \notin held

(* A step of c that moves deleted objects and writes to no hazard pointer. *)
LEMMA MoveStep ==
  ASSUME IInv, NEW c \in Contexts, NEW u \in Context(c), ArrayOf(c, u), LocalsOf(u),
         ctx' = [ctx EXCEPT ![c] = u], ~destroyed,
         UNCHANGED <<hp, valid, destroyed, null_reclaimed>>,
         cell' \in Pointer, exchanges' \in 0 .. Exchanges,
         obj' \in [Objects -> {"free", "live", "retired"}],
         delete_head' \in Pointer, next' \in NodeLinks, delete_count' \in Nat,
         hp_count' = hp_count,
         CellLive', \A s \in valid : obj'[get(hp[s])] # "free",
         Transfer(c, ctx[c], u, next, next', delete_head, delete_head', obj, obj'),
         \A d \in Contexts \ {c} : \A o \in Locals[d] : next'[o] = next[o],
         Acyclic(next', delete_head'), Acyclic(next', u.local),
         u.prev # NULL => u.prev \in ChainOf(next', u.local),
         \A i \in 0 .. S[c] - 1 : Cleared(u, i) => Cleared(ctx[c], i),
         u.pc # "validate",
         CoveredIn(u, Doomed(c, u, next'), valid, hp),
         CountStep
  PROVE  IInv'
<1> USE DEF IInv
<1> DEFINE A == ItemsOf(c, u)
           F == FlightOf(u)
           M == ChainOf(next', u.local)
           L == ChainOf(next', delete_head')
<1>1. /\ ctx'[c] = u
      /\ \A d \in Contexts \ {c} : ctx'[d] = ctx[d]
      /\ ctx' = [d \in Contexts |-> ctx'[d]]
      /\ \A d \in Contexts : ctx'[d] \in Context(d)
      /\ ControlOK'
  BY ContextStep
<1>2. TypeOK'
  BY <1>1 DEF TypeOK, NodeLinks
<1>3. SlotsOK'
  BY SlotsFrame
<1>4. ValidGuards'
  BY DEF ValidGuards
<1>5. u.local \in Pointer /\ valid \subseteq Slot
  BY DEF TypeOK, Context
<1>6. /\ Arrays' = [Arrays EXCEPT ![c] = A]
      /\ Flights' = [Flights EXCEPT ![c] = F]
      /\ Locals' = [Locals EXCEPT ![c] = M]
      /\ Chain(delete_head)' = L
  BY <1>5, PlacesStep
<1>7. OnePlace'
  <2>1. /\ Arrays = [d \in Contexts |-> Arrays[d]] /\ Flights = [d \in Contexts |-> Flights[d]]
        /\ Locals = [d \in Contexts |-> Locals[d]]
    BY DEF Arrays, Flights, Locals
  <2>2. /\ Apart(Arrays, Flights, Locals, Chain(delete_head))
        /\ Complete(Arrays, Flights, Locals, Chain(delete_head), obj)
    BY DEF OnePlace
  <2>3. /\ Arrays[c] = ItemsOf(c, ctx[c]) /\ Flights[c] = FlightOf(ctx[c])
        /\ Locals[c] = ChainOf(next, ctx[c].local)
        /\ Chain(delete_head) = ChainOf(next, delete_head)
    BY PlacesOfContext
  <2>4. Moved(Arrays, Flights, Locals, Chain(delete_head), obj, c, A, F, M, L, obj')
    BY <2>3 DEF Moved, Transfer
  <2> HIDE DEF A, F, M, L
  <2>6. /\ Apart([Arrays EXCEPT ![c] = A], [Flights EXCEPT ![c] = F], [Locals EXCEPT ![c] = M], L)
        /\ Complete([Arrays EXCEPT ![c] = A], [Flights EXCEPT ![c] = F],
                    [Locals EXCEPT ![c] = M], L, obj')
    BY <2>1, <2>2, <2>4, PlacesMove
  <2> QED BY <1>6, <2>6 DEF OnePlace
<1>8. ListsOK'
  BY <1>5, ListsStep
<1>9. Covered'
  <2>1. \A s \in valid' : \E r \in valid : r <= s /\ get(hp[r]) = get(hp'[s])
    BY <1>5 DEF Slot
  <2> QED BY <1>5, <2>1, CoverStep
<1>10. DestroyedLast'
  BY DEF DestroyedLast
<1> QED BY <1>1, <1>2, <1>3, <1>4, <1>7, <1>8, <1>9, <1>10 DEF CountStep

(* The state of a context that begins a snapshot. *)
LEMMA SnapshotContext ==
  ASSUME NEW c \in Contexts, NEW t \in Context(c), NEW ret \in {"reclaim", "sweep"}
  PROVE  LET u == begin_snapshot(t, ret) IN
         /\ u \in Context(c) /\ u.pc = "snapshot" /\ u.ret = ret /\ u.snap = {} /\ u.scan = 0
         /\ u.deleted = t.deleted /\ u.del_index = t.del_index /\ u.call = t.call
         /\ u.local = t.local /\ u.prev = t.prev /\ u.p = t.p /\ u.i = t.i
         /\ u.do_collect = t.do_collect
<1> DEFINE z == 0
           e == {}
           u == begin_snapshot(t, ret)
<1>1. z \in 0 .. NSlots /\ e \in SUBSET Objects
  BY SizesAssumption
<1>2. u = [t EXCEPT !.pc = "snapshot", !.ret = ret, !.snap = e, !.scan = z]
  BY DEF begin_snapshot
<1>3. z = 0 /\ e = {}
  OBVIOUS
<1> HIDE DEF z, e, u
<1>4. u \in Context(c)
  BY <1>1, <1>2 DEF Context
<1>5. /\ u.pc = "snapshot" /\ u.ret = ret /\ u.snap = e /\ u.scan = z
      /\ u.deleted = t.deleted /\ u.del_index = t.del_index /\ u.call = t.call
      /\ u.local = t.local /\ u.prev = t.prev /\ u.p = t.p /\ u.i = t.i
      /\ u.do_collect = t.do_collect
  BY <1>2 DEF Context
<1> QED BY <1>3, <1>4, <1>5 DEF u

(* The object in the cell is retired and in flight to delete_item. *)
LEMMA ExchangeInv ==
  ASSUME IInv, NEW c \in Contexts, Exchange(c) PROVE IInv' /\ CountStep
<1> USE DEF IInv
<1> DEFINE t == ctx[c]
           u == IF cell = NULL THEN t ELSE [t EXCEPT !.pc = "delete", !.p = cell]
<1>1. PICK new \in {o \in Objects : obj[o] = "free"} \cup {NULL} :
        /\ new # cell /\ cell' = new
        /\ exchanges + Changes(new) <= Exchanges /\ exchanges' = exchanges + Changes(new)
        /\ obj' = [o \in Objects |-> IF o = cell THEN "retired"
                                     ELSE IF o = new THEN "live" ELSE obj[o]]
  BY DEF Exchange
<1>2. /\ t.pc = "idle"
      /\ UNCHANGED <<hp, valid, delete_head, next, delete_count, hp_count, destroyed, null_reclaimed>>
  BY DEF Exchange, At, list, ended
<1>3. ctx' = [ctx EXCEPT ![c] = u]
  BY DEF Exchange, TypeOK
<1>4. t \in Context(c) /\ ~destroyed /\ cell \in Pointer
  BY <1>2, NotDestroyed DEF TypeOK
<1>5. ArrayOf(c, t) /\ LocalsOf(t)
  BY DEF ControlOK
<1>6. /\ u \in Context(c) /\ u.deleted = t.deleted /\ u.del_index = t.del_index
      /\ u.call = t.call /\ u.local = t.local /\ u.prev = t.prev
      /\ \/ cell = NULL /\ u.pc = "idle" /\ u.i = t.i
         \/ cell # NULL /\ u.pc = "delete" /\ u.p = cell
  <2>1. CASE cell = NULL
    BY <1>2, <1>4, <2>1
  <2>2. CASE cell # NULL
    <3>1. u = [t EXCEPT !.pc = "delete", !.p = cell]
      BY <2>2
    <3> HIDE DEF u
    <3> QED BY <1>4, <2>2, <3>1 DEF Context
  <2> QED BY <2>1, <2>2
<1> HIDE DEF u
<1>7. ArrayOf(c, u) /\ LocalsOf(u)
  BY <1>2, <1>5, <1>6 DEF ArrayOf, LocalsOf, Resting, Reclaiming, Draining, Pushing, PassedOn,
                          Sweeping, PushingBack, Exact, Injective
<1>8. /\ cell' \in Pointer /\ exchanges' \in 0 .. Exchanges
      /\ obj' \in [Objects -> {"free", "live", "retired"}]
      /\ delete_head' \in Pointer /\ next' \in NodeLinks /\ delete_count' \in Nat
      /\ hp_count' = hp_count
  BY <1>1, <1>2, ClientsAssumption DEF TypeOK, Pointer, NodeLinks, Changes
<1>9. CellLive' /\ \A s \in valid : obj'[get(hp[s])] # "free"
  BY <1>1 DEF CellLive, ValidGuards, TypeOK
<1>10. /\ ItemsOf(c, u) = ItemsOf(c, t) /\ FlightOf(t) = {} /\ FlightOf(u) = {cell} \ {NULL}
       /\ Doomed(c, u, next') = {}
       /\ \A i \in 0 .. S[c] - 1 : Cleared(u, i) => Cleared(t, i)
  BY <1>2, <1>6 DEF ItemsOf, FlightOf, Doomed, Reclaiming, Sweeping, Cleared
<1>11. Transfer(c, t, u, next, next', delete_head, delete_head', obj, obj')
  <2> DEFINE a == ItemsOf(c, t)
             m == ChainOf(next, t.local)
             l == ChainOf(next, delete_head)
  <2>1. /\ a \cap m = {} /\ a \cap l = {} /\ m \cap l = {}
        /\ a \in SUBSET Objects /\ m \in SUBSET Objects /\ l \in SUBSET Objects
        /\ \A o \in Objects : o \in a \cup m \cup l => obj[o] = "retired"
    BY PlacesBefore
  <2>2. cell # NULL => cell \in Objects /\ obj[cell] = "live"
    BY <1>4 DEF CellLive, Pointer
  <2>3. \A o \in Objects : obj'[o] = "retired" <=> o = cell \/ obj[o] = "retired"
    <3> TAKE o \in Objects
    <3>1. obj'[o] = IF o = cell THEN "retired" ELSE IF o = new THEN "live" ELSE obj[o]
      BY <1>1
    <3>2. o = new => obj[o] = "free"
      BY <1>1, ObjectsAssumption
    <3> QED BY <3>1, <3>2
  <2>4. ItemsOf(c, u) = a /\ ChainOf(next', u.local) = m /\ ChainOf(next', delete_head') = l
    BY <1>2, <1>6, <1>10
  <2> HIDE DEF a, m, l
  <2>5. {cell} \ {NULL} \subseteq Objects /\ \A o \in {cell} \ {NULL} : obj[o] # "retired"
    BY <2>2
  <2> QED BY <1>10, <2>1, <2>3, <2>4, <2>5, ObjectsAssumption DEF Transfer, a, m, l
<1>12. Acyclic(next', delete_head') /\ Acyclic(next', u.local)
       /\ (u.prev # NULL => u.prev \in ChainOf(next', u.local))
  BY <1>2, <1>6 DEF ListsOK, Chain
<1>13. CoveredIn(u, Doomed(c, u, next'), valid, hp)
  BY <1>10 DEF CoveredIn
<1>14. CountStep
  BY <1>2, <1>3, <1>6, CountFrame DEF Responsible
<1>15. u.pc # "validate" /\ \A d \in Contexts \ {c} : \A o \in Locals[d] : next'[o] = next[o]
  BY <1>2, <1>6
<1> QED BY <1>2, <1>3, <1>4, <1>6, <1>7, <1>8, <1>9, <1>10, <1>11, <1>12, <1>13, <1>14, <1>15, MoveStep

(* delete_item: the object goes to the delete list when there is no array, *)
(* else to the first unused entry, and a snapshot begins when it was the   *)
(* last.                                                                   *)
LEMMA DeleteItemInv ==
  ASSUME IInv, NEW c \in Contexts, DeleteItem(c) PROVE IInv' /\ CountStep
<1> USE DEF IInv
<1> DEFINE t == ctx[c]
<1>1. /\ t.pc = "delete"
      /\ UNCHANGED <<cell, exchanges, obj, hp, valid, delete_head, next, delete_count, hp_count,
                     destroyed, null_reclaimed>>
  BY DEF DeleteItem, At, client, list, ended
<1>2. t \in Context(c) /\ ~destroyed
  BY <1>1, NotDestroyed DEF TypeOK
<1>3. ArrayOf(c, t) /\ LocalsOf(t)
  BY DEF ControlOK
<1>4. /\ t.p \in Objects /\ t.local = NULL /\ t.prev = NULL /\ t.call = "none" /\ FlightOf(t) = {t.p}
      /\ Exact(c, t) /\ Injective(c, t) /\ R[c] \in Nat
  BY <1>1, <1>2, <1>3, SizesAssumption
     DEF Context, Pointer, ArrayOf, LocalsOf, Sweeping, PushingBack, Pushing, Resting, FlightOf
<1>5. CASE R[c] = 0
  <2> DEFINE u == [t EXCEPT !.pc = "push_load", !.node = t.p, !.p = NULL,
                            !.ret = "check", !.call = "delete"]
  <2>1. ctx' = [ctx EXCEPT ![c] = u]
    BY <1>5 DEF DeleteItem
  <2>2. /\ u \in Context(c) /\ u.pc = "push_load" /\ u.node = t.p /\ u.ret = "check"
        /\ u.call = "delete" /\ u.deleted = t.deleted /\ u.local = t.local /\ u.prev = t.prev
    BY <1>2, <1>4 DEF Context, Pointer
  <2> HIDE DEF u
  <2>3. Index(c) = {}
    BY <1>5 DEF Index
  <2>4. ArrayOf(c, u) /\ LocalsOf(u)
    BY <1>4, <1>5, <2>2, <2>3, ObjectsAssumption
       DEF ArrayOf, LocalsOf, Resting, Reclaiming, Draining, Pushing, PassedOn,
           Sweeping, PushingBack, Empty, Injective
  <2>5. /\ ItemsOf(c, u) = ItemsOf(c, t) /\ FlightOf(u) = FlightOf(t)
        /\ Doomed(c, u, next) = {}
        /\ \A i \in 0 .. S[c] - 1 : Cleared(u, i) => Cleared(t, i)
    BY <1>4, <2>2 DEF ItemsOf, FlightOf, Doomed, Reclaiming, Sweeping, Cleared
  <2>6. CountStep
    BY <1>1, <2>1, <2>2, CountFrame DEF Responsible
  <2>7. CoveredIn(u, Doomed(c, u, next), valid, hp)
    BY <2>5 DEF CoveredIn
  <2> QED BY <1>1, <1>2, <2>1, <2>2, <2>4, <2>5, <2>6, <2>7, QuietStep DEF TypeOK
<1>6. CASE R[c] # 0
  <2> DEFINE n == t.del_index
             e == [t.deleted EXCEPT ![n] = t.p]
             k == n + 1
             v == [Idle(c) EXCEPT !.deleted = e, !.del_index = k]
             u == IF k = R[c] THEN begin_snapshot(v, "reclaim") ELSE v
  <2>1. ctx' = [ctx EXCEPT ![c] = u]
    <3> DEFINE w == [Idle(c) EXCEPT !.deleted[n] = t.p, !.del_index = @ + 1]
    <3>1. Idle(c).deleted = t.deleted /\ Idle(c).del_index = n /\ Idle(c) \in Context(c)
      BY IdleContext
    <3>2. w = v
      BY <3>1
    <3>3. w.del_index = k
      <4>1. v.del_index = k
        BY <3>1 DEF Context
      <4> QED BY <3>2, <4>1
    <3>4. ctx' = [ctx EXCEPT ![c] = IF w.del_index = R[c] THEN begin_snapshot(w, "reclaim") ELSE w]
      BY <1>6 DEF DeleteItem, ArrayFull
    <3> HIDE DEF w, v
    <3> QED BY <3>2, <3>3, <3>4
  <2>2. n \in 0 .. R[c] - 1 /\ k \in 0 .. R[c] /\ n \in Index(c) /\ k = n + 1
    BY <1>2, <1>4, <1>6 DEF Exact, Context, Index
  <2>3. /\ e \in [Index(c) -> Pointer] /\ e[n] = t.p /\ \A ix \in Index(c) \ {n} : e[ix] = t.deleted[ix]
    BY <1>2, <1>4, <2>2 DEF Context, Pointer
  <2>4. t.deleted[n] = NULL /\ \A ix \in Index(c) : t.deleted[ix] # NULL <=> ix < n
    BY <1>4, <2>2 DEF Exact
  <2> HIDE DEF e, k
  <2>5. /\ v \in Context(c) /\ v.pc = "idle" /\ v.deleted = e /\ v.del_index = k /\ v.call = "none"
        /\ v.local = NULL /\ v.prev = NULL /\ v.i = 0
    <3> DEFINE w == Idle(c)
    <3>1. /\ w \in Context(c) /\ w.pc = "idle" /\ w.call = "none"
          /\ w.local = NULL /\ w.prev = NULL /\ w.i = 0
      BY IdleContext
    <3> HIDE DEF w
    <3>2. v = [w EXCEPT !.deleted = e, !.del_index = k]
      BY DEF w
    <3> HIDE DEF v
    <3>3. k \in 0 .. R[c] /\ e \in [Index(c) -> Pointer]
      BY <2>2, <2>3
    <3> HIDE DEF n, t
    <3>4. v \in Context(c)
      BY <3>1, <3>2, <3>3 DEF Context
    <3>5. v.pc = "idle" /\ v.call = "none" /\ v.local = NULL /\ v.prev = NULL /\ v.i = w.i
          /\ v.deleted = e /\ v.del_index = k
      BY <3>1, <3>2 DEF Context
    <3> QED BY <3>1, <3>4, <3>5
  <2> HIDE DEF v
  <2>6. /\ u \in Context(c) /\ u.deleted = e /\ u.del_index = k /\ u.call = "none"
        /\ u.local = NULL /\ u.prev = NULL
        /\ \/ k = R[c] /\ u.pc = "snapshot" /\ u.ret = "reclaim" /\ u.scan = 0
           \/ k # R[c] /\ u.pc = "idle" /\ u.i = 0
    <3>1. CASE k = R[c]
      <4>1. u = begin_snapshot(v, "reclaim")
        BY <3>1
      <4> HIDE DEF u
      <4>2. /\ u \in Context(c) /\ u.pc = "snapshot" /\ u.ret = "reclaim" /\ u.scan = 0
            /\ u.deleted = v.deleted /\ u.del_index = v.del_index /\ u.call = v.call
            /\ u.local = v.local /\ u.prev = v.prev
        BY <2>5, <4>1, SnapshotContext
      <4> QED BY <2>5, <3>1, <4>2
    <3>2. CASE k # R[c]
      BY <2>5, <3>2
    <3> QED BY <3>1, <3>2
  <2> HIDE DEF u
  <2> DEFINE a == ItemsOf(c, t)
             m == ChainOf(next, t.local)
             l == ChainOf(next, delete_head)
  <2>7. /\ a \cap {t.p} = {} /\ a \cap m = {} /\ a \cap l = {} /\ {t.p} \cap m = {}
        /\ {t.p} \cap l = {} /\ m \cap l = {}
        /\ a \in SUBSET Objects /\ m \in SUBSET Objects /\ l \in SUBSET Objects
        /\ \A o \in Objects : o \in a \cup {t.p} \cup m \cup l => obj[o] = "retired"
    BY <1>4, PlacesBefore
  <2>8. ItemsOf(c, u) = a \cup {t.p}
    <3>1. ItemsOf(c, u) \subseteq a \cup {t.p}
      BY <2>3, <2>6 DEF ItemsOf
    <3>2. a \cup {t.p} \subseteq ItemsOf(c, u)
      BY <1>4, <2>2, <2>3, <2>4, <2>6, ObjectsAssumption DEF ItemsOf
    <3> QED BY <3>1, <3>2
  <2>9. Injective(c, u)
    <3>1. \A ix \in Index(c) : t.deleted[ix] # t.p
      BY <1>4, <2>7, ObjectsAssumption DEF ItemsOf
    <3> QED BY <1>4, <2>2, <2>3, <2>6, <3>1 DEF Injective
  <2>10. \A ix \in Index(c) : u.deleted[ix] # NULL <=> ix < k
    <3> TAKE ix \in Index(c)
    <3>1. ix \in Int
      BY DEF Index
    <3>2. CASE ix = n
      BY <1>4, <2>2, <2>3, <2>6, <3>2, ObjectsAssumption
    <3>3. CASE ix # n
      BY <2>2, <2>3, <2>4, <2>6, <3>1, <3>3
    <3> QED BY <3>2, <3>3
  <2>11. (k # R[c] => Exact(c, u)) /\ (k = R[c] => Full(c, u))
    BY <1>4, <1>6, <2>2, <2>6, <2>10 DEF Exact, Full, Index
  <2>12. ArrayOf(c, u)
    BY <2>6, <2>9, <2>11 DEF ArrayOf, Resting, Reclaiming, Draining, Pushing, PassedOn,
                             Sweeping, PushingBack
  <2>13. LocalsOf(u)
    BY <2>6, SlotFacts DEF LocalsOf, Pushing
  <2>14. /\ FlightOf(u) = {} /\ (k # R[c] => Doomed(c, u, next') = {})
         /\ \A i \in 0 .. S[c] - 1 : Cleared(u, i) => Cleared(t, i)
    BY <2>6 DEF FlightOf, Doomed, Reclaiming, Sweeping, Cleared
  <2>15. CoveredIn(u, Doomed(c, u, next'), valid, hp)
    <3>1. CASE k = R[c]
      BY <2>6, <3>1 DEF CoveredIn, TypeOK, Slot
    <3>2. CASE k # R[c]
      BY <2>14, <3>2 DEF CoveredIn
    <3> QED BY <3>1, <3>2
  <2>16. Transfer(c, t, u, next, next', delete_head, delete_head', obj, obj')
    <3>1. ChainOf(next', u.local) = m /\ ChainOf(next', delete_head') = l
      BY <1>1, <1>4, <2>6
    <3> HIDE DEF a, m, l
    <3> QED BY <1>1, <1>4, <2>7, <2>8, <2>14, <3>1 DEF Transfer, a, m, l
  <2>17. CountStep
    BY <1>1, <2>1, <2>6, CountFrame DEF Responsible
  <2>18. /\ cell' \in Pointer /\ exchanges' \in 0 .. Exchanges
         /\ obj' \in [Objects -> {"free", "live", "retired"}]
         /\ delete_head' \in Pointer /\ next' \in NodeLinks /\ delete_count' \in Nat
         /\ hp_count' = hp_count
         /\ CellLive' /\ \A s \in valid : obj'[get(hp[s])] # "free"
    BY <1>1 DEF TypeOK, NodeLinks, CellLive, ValidGuards
  <2>19. Acyclic(next', delete_head') /\ Acyclic(next', u.local) /\ u.prev = NULL
         /\ u.pc # "validate" /\ \A d \in Contexts \ {c} : \A o \in Locals[d] : next'[o] = next[o]
    BY <1>1, <1>4, <2>6 DEF ListsOK
  <2> QED BY <1>1, <1>2, <2>1, <2>6, <2>12, <2>13, <2>14, <2>15, <2>16, <2>17, <2>18, <2>19, MoveStep
<1> QED BY <1>5, <1>6


(* enqueue_for_delete takes the first object that is left in the array. *)
LEMMA EnqueueInv ==
  ASSUME IInv, NEW c \in Contexts, Enqueue(c) PROVE IInv' /\ CountStep
<1> USE DEF IInv
<1> DEFINE t == ctx[c]
           used == {x \in Index(c) : t.deleted[x] # NULL}
           first == CHOOSE x \in used : \A y \in used : x <= y
<1>1. /\ t.pc = "enqueue"
      /\ UNCHANGED <<cell, exchanges, obj, hp, valid, delete_head, next, delete_count, hp_count,
                     destroyed, null_reclaimed>>
  BY DEF Enqueue, At, client, list, ended
<1>2. t \in Context(c) /\ ~destroyed
  BY <1>1, NotDestroyed DEF TypeOK
<1>3. ArrayOf(c, t) /\ LocalsOf(t)
  BY DEF ControlOK
<1>4. /\ t.local = NULL /\ t.prev = NULL /\ t.call \in {"overflow", "dtor"} /\ FlightOf(t) = {}
      /\ Injective(c, t) /\ t.deleted \in [Index(c) -> Pointer] /\ R[c] \in Nat
  BY <1>1, <1>2, <1>3, SizesAssumption
     DEF Context, ArrayOf, LocalsOf, Sweeping, PushingBack, Pushing, Draining, FlightOf
<1>5. CASE used = {}
  <2> DEFINE u == [t EXCEPT !.pc = "check"]
  <2>1. ctx' = [ctx EXCEPT ![c] = u]
    BY <1>5 DEF Enqueue
  <2>2. /\ u \in Context(c) /\ u.pc = "check" /\ u.call = t.call
        /\ u.deleted = t.deleted /\ u.local = t.local /\ u.prev = t.prev
    BY <1>2 DEF Context
  <2> HIDE DEF u
  <2>3. Empty(c, u)
    BY <1>5, <2>2 DEF Empty
  <2>4. ArrayOf(c, u) /\ LocalsOf(u)
    BY <1>4, <2>2, <2>3
       DEF ArrayOf, LocalsOf, Resting, Reclaiming, Draining, Pushing, PassedOn,
           Sweeping, PushingBack, Injective
  <2>5. /\ ItemsOf(c, u) = ItemsOf(c, t) /\ FlightOf(u) = FlightOf(t)
        /\ Doomed(c, u, next) = {}
        /\ \A i \in 0 .. S[c] - 1 : Cleared(u, i) => Cleared(t, i)
    BY <1>4, <2>2 DEF ItemsOf, FlightOf, Doomed, Reclaiming, Sweeping, Cleared
  <2>6. CountStep
    BY <1>1, <2>1, <2>2, CountFrame DEF Responsible
  <2>7. CoveredIn(u, Doomed(c, u, next), valid, hp)
    BY <2>5 DEF CoveredIn
  <2> QED BY <1>1, <1>2, <2>1, <2>2, <2>4, <2>5, <2>6, <2>7, QuietStep DEF TypeOK
<1>6. CASE used # {}
  <2>1. first \in Index(c) /\ t.deleted[first] # NULL
    <3>1. used \in SUBSET Nat
      BY DEF Index
    <3>2. \E x \in used : \A y \in used : x <= y
      BY <1>6, <3>1, LeastElement
    <3>3. first \in used
      BY <3>2
    <3> QED BY <3>3
  <2> DEFINE o == t.deleted[first]
             e == [t.deleted EXCEPT ![first] = NULL]
             u == [t EXCEPT !.pc = "push_load", !.node = o, !.deleted = e, !.ret = "enqueue"]
  <2> DEFINE w == [t EXCEPT !.pc = "push_load", !.node = o, !.deleted[first] = NULL, !.ret = "enqueue"]
  <2>0. ctx' = [ctx EXCEPT ![c] = w]
    BY <1>6 DEF Enqueue
  <2> HIDE DEF first
  <2>2. ctx' = [ctx EXCEPT ![c] = u]
    <3>1. w = u
      OBVIOUS
    <3> QED BY <2>0, <3>1
  <2>3. /\ o \in Objects /\ e \in [Index(c) -> Pointer] /\ e[first] = NULL
        /\ \A x \in Index(c) \ {first} : e[x] = t.deleted[x]
    BY <1>4, <2>1 DEF Pointer
  <2> HIDE DEF e
  <2>4. /\ u \in Context(c) /\ u.pc = "push_load" /\ u.node = o /\ u.ret = "enqueue"
        /\ u.deleted = e /\ u.call = t.call /\ u.local = t.local /\ u.prev = t.prev
    <3>1. o \in Pointer
      BY <2>3 DEF Pointer
    <3> HIDE DEF o, t
    <3>2. u \in Context(c)
      BY <1>2, <2>3, <3>1 DEF Context
    <3>3. /\ u.pc = "push_load" /\ u.node = o /\ u.ret = "enqueue"
          /\ u.deleted = e /\ u.call = t.call /\ u.local = t.local /\ u.prev = t.prev
      BY <1>2 DEF Context
    <3> QED BY <3>2, <3>3
  <2> HIDE DEF u
  <2> DEFINE a == ItemsOf(c, t)
             m == ChainOf(next, t.local)
             l == ChainOf(next, delete_head)
  <2>5. /\ a \cap m = {} /\ a \cap l = {} /\ m \cap l = {}
        /\ a \in SUBSET Objects /\ m \in SUBSET Objects /\ l \in SUBSET Objects
        /\ \A x \in Objects : x \in a \cup m \cup l => obj[x] = "retired"
    BY PlacesBefore
  <2>6. ItemsOf(c, u) = a \ {o} /\ o \in a
    <3>1. ItemsOf(c, u) \subseteq a
      BY <2>3, <2>4 DEF ItemsOf
    <3>2. o \notin ItemsOf(c, u)
      BY <1>4, <2>1, <2>3, <2>4 DEF ItemsOf, Injective
    <3>3. a \ {o} \subseteq ItemsOf(c, u)
      BY <2>3, <2>4 DEF ItemsOf
    <3>4. o \in a
      BY <2>1 DEF ItemsOf
    <3> QED BY <3>1, <3>2, <3>3, <3>4
  <2>7. Injective(c, u)
    BY <1>4, <2>3, <2>4 DEF Injective
  <2>8. ArrayOf(c, u) /\ LocalsOf(u)
    BY <1>4, <2>3, <2>4, <2>7, ObjectsAssumption
       DEF ArrayOf, LocalsOf, Resting, Reclaiming, Draining, Pushing, PassedOn, Sweeping, PushingBack
  <2>9. /\ FlightOf(u) = {o} /\ Doomed(c, u, next') = {}
        /\ \A i \in 0 .. S[c] - 1 : Cleared(u, i) => Cleared(t, i)
    BY <1>4, <2>4 DEF FlightOf, Doomed, Reclaiming, Sweeping, Cleared
  <2>10. Transfer(c, t, u, next, next', delete_head, delete_head', obj, obj')
    <3>1. ChainOf(next', u.local) = m /\ ChainOf(next', delete_head') = l
      BY <1>1, <1>4, <2>4
    <3> HIDE DEF a, m, l, o
    <3> QED BY <1>1, <1>4, <2>5, <2>6, <2>9, <3>1 DEF Transfer, a, m, l
  <2>11. CountStep
    BY <1>1, <2>2, <2>4, CountFrame DEF Responsible
  <2>12. CoveredIn(u, Doomed(c, u, next'), valid, hp)
    BY <2>9 DEF CoveredIn
  <2>13. /\ cell' \in Pointer /\ exchanges' \in 0 .. Exchanges
         /\ obj' \in [Objects -> {"free", "live", "retired"}]
         /\ delete_head' \in Pointer /\ next' \in NodeLinks /\ delete_count' \in Nat
         /\ hp_count' = hp_count
         /\ CellLive' /\ \A s \in valid : obj'[get(hp[s])] # "free"
    BY <1>1 DEF TypeOK, NodeLinks, CellLive, ValidGuards
  <2>14. Acyclic(next', delete_head') /\ Acyclic(next', u.local) /\ u.prev = NULL
         /\ u.pc # "validate" /\ \A d \in Contexts \ {c} : \A x \in Locals[d] : next'[x] = next[x]
    BY <1>1, <1>4, <2>4 DEF ListsOK
  <2> QED BY <1>1, <1>2, <2>2, <2>4, <2>8, <2>9, <2>10, <2>11, <2>12, <2>13, <2>14, MoveStep
<1> QED BY <1>5, <1>6

(* push_delete_node sets the link of the node that it is about to push:    *)
(* no other context can reach the node.                                    *)
LEMMA LinkStep ==
  ASSUME IInv, NEW c \in Contexts, NEW pc \in {"push_load", "push_cas"},
         ctx[c].pc \in {"push_load", "push_cas"},
         ctx' = [ctx EXCEPT ![c].pc = pc],
         next' = [next EXCEPT ![ctx[c].node] = delete_head],
         UNCHANGED <<cell, exchanges, obj, hp, valid, delete_head, delete_count, hp_count,
                     destroyed, null_reclaimed>>
  PROVE  IInv' /\ CountStep
<1> USE DEF IInv
<1> DEFINE t == ctx[c]
           u == [t EXCEPT !.pc = pc]
<1>1. t \in Context(c) /\ ~destroyed
  BY NotDestroyed DEF TypeOK
<1>2. ArrayOf(c, t) /\ LocalsOf(t)
  BY DEF ControlOK
<1>3. t.node \in Objects /\ t.prev = NULL /\ FlightOf(t) = {t.node} /\ t.local \in Pointer
      /\ delete_head \in Pointer
  BY <1>1, <1>2 DEF Context, LocalsOf, FlightOf, TypeOK, Pointer
<1>4. ctx' = [ctx EXCEPT ![c] = u]
  BY DEF TypeOK
<1>5. /\ u \in Context(c) /\ u.pc = pc /\ u.node = t.node /\ u.ret = t.ret
      /\ u.deleted = t.deleted /\ u.del_index = t.del_index /\ u.call = t.call
      /\ u.local = t.local /\ u.prev = t.prev
  BY <1>1 DEF Context
<1> HIDE DEF u
<1>6. ArrayOf(c, u) /\ LocalsOf(u)
  BY <1>2, <1>5
     DEF ArrayOf, LocalsOf, Resting, Reclaiming, Draining, Pushing, PassedOn,
         Sweeping, PushingBack, Empty, Injective
<1>7. /\ ItemsOf(c, u) = ItemsOf(c, t) /\ FlightOf(u) = FlightOf(t)
      /\ Doomed(c, u, next') = {}
      /\ \A i \in 0 .. S[c] - 1 : Cleared(u, i) => Cleared(t, i)
  BY <1>3, <1>5 DEF ItemsOf, FlightOf, Doomed, Reclaiming, Sweeping, Cleared
<1> DEFINE a == ItemsOf(c, t)
           f == FlightOf(t)
           m == ChainOf(next, t.local)
           l == ChainOf(next, delete_head)
<1>8. /\ a \cap f = {} /\ a \cap m = {} /\ a \cap l = {} /\ f \cap m = {}
      /\ f \cap l = {} /\ m \cap l = {}
      /\ a \in SUBSET Objects /\ m \in SUBSET Objects /\ l \in SUBSET Objects
      /\ \A o \in Objects : o \in a \cup f \cup m \cup l => obj[o] = "retired"
      /\ \A d \in Contexts \ {c} : \A o \in Locals[d] : o \notin f
  BY PlacesBefore
<1>9. next \in NodeLinks /\ next' \in NodeLinks /\ \A o \in Objects \ {t.node} : next'[o] = next[o]
  BY <1>3 DEF TypeOK, NodeLinks, Pointer
<1>10. \A d \in Contexts \ {c} : Locals[d] \in SUBSET Objects
  BY PlacesOfContext
<1>11. \A d \in Contexts \ {c} : \A o \in Locals[d] : next'[o] = next[o]
  BY <1>3, <1>8, <1>9, <1>10
<1>12. ChainOf(next', t.local) = m /\ Acyclic(next', t.local)
  <2>1. \A o \in m : next'[o] = next[o]
    BY <1>3, <1>8, <1>9
  <2>2. Acyclic(next, t.local)
    BY DEF ListsOK
  <2> QED BY <1>3, <1>9, <2>1, <2>2, AcyclicFrame
<1>13. ChainOf(next', delete_head) = l /\ Acyclic(next', delete_head)
  <2>1. \A o \in l : next'[o] = next[o]
    BY <1>3, <1>8, <1>9
  <2>2. Acyclic(next, delete_head)
    BY DEF ListsOK
  <2> QED BY <1>3, <1>9, <2>1, <2>2, AcyclicFrame
<1>14. Transfer(c, t, u, next, next', delete_head, delete_head', obj, obj')
  <2>1. ChainOf(next', u.local) = m /\ ChainOf(next', delete_head') = l
    BY <1>5, <1>12, <1>13
  <2>2. f \in SUBSET Objects
    BY <1>3
  <2> HIDE DEF a, f, m, l
  <2> QED BY <1>7, <1>8, <2>1, <2>2 DEF Transfer, a, f, m, l
<1>15. CountStep
  BY <1>4, <1>5, <1>13, CountFrame DEF Responsible
<1>16. CoveredIn(u, Doomed(c, u, next'), valid, hp)
  BY <1>7 DEF CoveredIn
<1>17. /\ cell' \in Pointer /\ exchanges' \in 0 .. Exchanges
       /\ obj' \in [Objects -> {"free", "live", "retired"}]
       /\ delete_head' \in Pointer /\ delete_count' \in Nat /\ hp_count' = hp_count
       /\ CellLive' /\ \A s \in valid : obj'[get(hp[s])] # "free"
  BY DEF TypeOK, CellLive, ValidGuards
<1>18. Acyclic(next', delete_head') /\ Acyclic(next', u.local) /\ u.prev = NULL /\ u.pc # "validate"
  BY <1>3, <1>5, <1>12, <1>13
<1> QED BY <1>1, <1>4, <1>5, <1>6, <1>7, <1>9, <1>11, <1>14, <1>15, <1>16, <1>17, <1>18, MoveStep

(* push_delete_node reads the head into the link of the node. *)
LEMMA PushLoadInv ==
  ASSUME IInv, NEW c \in Contexts, PushLoad(c) PROVE IInv' /\ CountStep
BY LinkStep DEF PushLoad, At, client, ended

(* The compare and exchange of push_delete_node. *)
LEMMA PushCasInv ==
  ASSUME IInv, NEW c \in Contexts, PushCas(c) PROVE IInv' /\ CountStep
<1> USE DEF IInv
<1> DEFINE t == ctx[c]
<1>1. /\ t.pc = "push_cas"
      /\ UNCHANGED <<cell, exchanges, obj, hp, valid, delete_count, hp_count, destroyed,
                     null_reclaimed>>
  BY DEF PushCas, At, client, ended
<1>2. CASE ~HeadMatches(c)
  BY <1>1, <1>2, LinkStep DEF PushCas
<1>3. CASE HeadMatches(c)
  <2> DEFINE u == [t EXCEPT !.pc = "push_count"]
  <2>1. /\ delete_head' = t.node /\ next' = next /\ ctx' = [ctx EXCEPT ![c] = u]
        /\ next[t.node] = delete_head
    BY <1>3 DEF PushCas, HeadMatches, TypeOK
  <2>2. t \in Context(c) /\ ~destroyed
    BY <1>1, NotDestroyed DEF TypeOK
  <2>3. ArrayOf(c, t) /\ LocalsOf(t)
    BY DEF ControlOK
  <2>4. /\ t.node \in Objects /\ t.prev = NULL /\ FlightOf(t) = {t.node}
        /\ delete_head \in Pointer /\ next \in NodeLinks /\ Acyclic(next, delete_head)
    BY <1>1, <2>2, <2>3 DEF Context, LocalsOf, FlightOf, TypeOK, Pointer, NodeLinks, ListsOK
  <2>5. /\ u \in Context(c) /\ u.pc = "push_count" /\ u.ret = t.ret
        /\ u.deleted = t.deleted /\ u.del_index = t.del_index /\ u.call = t.call
        /\ u.local = t.local /\ u.prev = t.prev
    BY <2>2 DEF Context
  <2> HIDE DEF u
  <2>6. ArrayOf(c, u) /\ LocalsOf(u)
    BY <1>1, <2>3, <2>5
       DEF ArrayOf, LocalsOf, Resting, Reclaiming, Draining, Pushing, PassedOn,
           Sweeping, PushingBack, Empty, Injective
  <2>7. /\ ItemsOf(c, u) = ItemsOf(c, t) /\ FlightOf(u) = {}
        /\ Doomed(c, u, next') = {}
        /\ \A i \in 0 .. S[c] - 1 : Cleared(u, i) => Cleared(t, i)
    BY <1>1, <2>5 DEF ItemsOf, FlightOf, Doomed, Reclaiming, Sweeping, Cleared
  <2> DEFINE a == ItemsOf(c, t)
             f == FlightOf(t)
             m == ChainOf(next, t.local)
             l == ChainOf(next, delete_head)
  <2>8. /\ a \cap f = {} /\ a \cap m = {} /\ a \cap l = {} /\ f \cap m = {}
        /\ f \cap l = {} /\ m \cap l = {}
        /\ a \in SUBSET Objects /\ m \in SUBSET Objects /\ l \in SUBSET Objects
        /\ \A o \in Objects : o \in a \cup f \cup m \cup l => obj[o] = "retired"
    BY PlacesBefore
  <2>9. ChainOf(next, t.node) = {t.node} \cup l /\ Acyclic(next, t.node) /\ t.node \notin l
    BY <2>1, <2>4, <2>8, ChainPush
  <2>10. Transfer(c, t, u, next, next', delete_head, delete_head', obj, obj')
    <3>1. ChainOf(next', u.local) = m /\ ChainOf(next', delete_head') = f \cup l
      BY <2>1, <2>4, <2>5, <2>9
    <3>2. f \in SUBSET Objects
      BY <2>4
    <3> HIDE DEF a, f, m, l
    <3> QED BY <1>1, <2>7, <2>8, <3>1, <3>2 DEF Transfer, a, f, m, l
  <2>11. CountStep
    <3>1. ctx'[c] = u /\ \A d \in Contexts \ {c} : ctx'[d] = ctx[d]
      BY <2>1 DEF TypeOK
    <3>2. Uncounted' = Uncounted \cup {c} /\ c \notin Uncounted
      BY <1>1, <2>5, <3>1 DEF Uncounted, At
    <3>3. /\ Cardinality(Uncounted) \in Nat
          /\ Cardinality(Uncounted') = Cardinality(Uncounted) + 1
      BY <3>2, Finite, FS_AddElement DEF Uncounted
    <3>4. Chain(delete_head) = l /\ Chain(delete_head)' = l \cup {t.node}
      BY <2>1, <2>9 DEF Chain
    <3>5. /\ Cardinality(Chain(delete_head)) \in Nat
          /\ Cardinality(Chain(delete_head)') = Cardinality(Chain(delete_head)) + 1
      <4>1. IsFiniteSet(l) /\ Cardinality(l) \in Nat
        BY <2>8, Finite
      <4>2. Cardinality(l \cup {t.node}) = Cardinality(l) + 1
        <5> HIDE DEF l
        <5> QED BY <2>9, <4>1, FS_AddElement
      <4> QED BY <3>4, <4>1, <4>2
    <3>6. delete_count \in Nat /\ delete_count' = delete_count /\ hp_count' = hp_count
      BY <1>1 DEF TypeOK
    <3>7. ASSUME Cardinality(Chain(delete_head)) <= delete_count + Cardinality(Uncounted)
          PROVE  CountOK'
      BY <3>3, <3>5, <3>6, <3>7 DEF CountOK
    <3>8. ASSUME \E d \in Contexts : Responsible(ctx[d], delete_count, hp_count)
          PROVE  CountOK'
      <4>1. PICK d \in Contexts : Responsible(ctx[d], delete_count, hp_count)
        BY <3>8
      <4>2. d # c
        BY <1>1, <4>1 DEF Responsible
      <4>3. Responsible(ctx'[d], delete_count', hp_count')
        BY <3>1, <3>6, <4>1, <4>2
      <4> QED BY <4>3 DEF CountOK
    <3>9. CountOK => CountOK'
      BY <3>7, <3>8 DEF CountOK
    <3> QED BY <3>6, <3>9 DEF CountZero, CountStep
  <2>12. CoveredIn(u, Doomed(c, u, next'), valid, hp)
    BY <2>7 DEF CoveredIn
  <2>13. /\ cell' \in Pointer /\ exchanges' \in 0 .. Exchanges
         /\ obj' \in [Objects -> {"free", "live", "retired"}]
         /\ delete_head' \in Pointer /\ next' \in NodeLinks /\ delete_count' \in Nat
         /\ hp_count' = hp_count
         /\ CellLive' /\ \A s \in valid : obj'[get(hp[s])] # "free"
    BY <1>1, <2>1, <2>4 DEF TypeOK, CellLive, ValidGuards, Pointer
  <2>14. /\ Acyclic(next', delete_head') /\ Acyclic(next', u.local) /\ u.prev = NULL
         /\ u.pc # "validate" /\ \A d \in Contexts \ {c} : \A o \in Locals[d] : next'[o] = next[o]
    BY <2>1, <2>4, <2>5, <2>9 DEF ListsOK
  <2> QED BY <1>1, <2>1, <2>2, <2>5, <2>6, <2>7, <2>10, <2>11, <2>12, <2>13, <2>14, MoveStep
<1> QED BY <1>2, <1>3

(* collect takes the delete list and begins a snapshot. *)
LEMMA CollectInv ==
  ASSUME IInv, NEW c \in Contexts, Collect(c) PROVE IInv' /\ CountStep
<1> USE DEF IInv
<1> DEFINE t == ctx[c]
<1>1. /\ t.pc = "collect" /\ delete_head' = NULL
      /\ UNCHANGED <<cell, exchanges, obj, hp, valid, next, delete_count, hp_count,
                     destroyed, null_reclaimed>>
  BY DEF Collect, TakenList, At, client, ended
<1>2. t \in Context(c) /\ ~destroyed /\ delete_head \in Pointer /\ next \in NodeLinks
      /\ Acyclic(next, delete_head)
  BY <1>1, NotDestroyed DEF TypeOK, NodeLinks, ListsOK
<1>3. ArrayOf(c, t) /\ LocalsOf(t)
  BY DEF ControlOK
<1>4. /\ t.local = NULL /\ t.prev = NULL /\ FlightOf(t) = {} /\ PassedOn(t)
      /\ t.call # "none" /\ Empty(c, t)
  BY <1>1, <1>3 DEF ArrayOf, LocalsOf, Sweeping, PushingBack, PassedOn, Pushing, FlightOf
<1>5. CountStep
  <2>1. delete_count' \in Nat /\ ChainOf(next', delete_head') = {}
    BY <1>1, ChainNull DEF TypeOK
  <2> QED BY <2>1, CountEmpty
<1>6. CASE delete_head = NULL
  <2> DEFINE u == Return(c)
  <2>1. ctx' = [ctx EXCEPT ![c] = u]
    BY <1>6 DEF Collect
  <2>2. /\ u \in Context(c) /\ ArrayOf(c, u) /\ LocalsOf(u)
        /\ u.pc \in {"idle", "collect", "gone"} /\ u.local = NULL /\ u.prev = NULL
        /\ \A i \in 0 .. S[c] - 1 : Cleared(u, i) => Cleared(ctx[c], i)
        /\ ItemsOf(c, u) = {} /\ ItemsOf(c, ctx[c]) = {} /\ FlightOf(u) = {}
        /\ Doomed(c, u, next) = {}
    BY <1>4, ReturnContext
  <2> HIDE DEF u
  <2>3. CoveredIn(u, Doomed(c, u, next), valid, hp)
    BY <2>2 DEF CoveredIn
  <2>4. delete_head' = delete_head /\ delete_count' \in Nat /\ hp_count' = hp_count /\ u.pc # "validate"
    BY <1>1, <1>6, <2>2 DEF TypeOK
  <2> QED BY <1>1, <1>2, <1>4, <1>5, <2>1, <2>2, <2>3, <2>4, QuietStep
<1>7. CASE delete_head # NULL
  <2> DEFINE v == [t EXCEPT !.local = delete_head, !.do_collect = FALSE]
             u == begin_snapshot(v, "sweep")
  <2>1. ctx' = [ctx EXCEPT ![c] = u]
    BY <1>7 DEF Collect
  <2>2. /\ v \in Context(c) /\ v.deleted = t.deleted /\ v.del_index = t.del_index /\ v.call = t.call
        /\ v.local = delete_head /\ v.prev = t.prev
    BY <1>2 DEF Context
  <2> HIDE DEF v
  <2>3. /\ u \in Context(c) /\ u.pc = "snapshot" /\ u.ret = "sweep" /\ u.scan = 0
        /\ u.deleted = t.deleted /\ u.del_index = t.del_index /\ u.call = t.call
        /\ u.local = delete_head /\ u.prev = NULL
    BY <1>4, <2>2, SnapshotContext
  <2> HIDE DEF u
  <2>4. ArrayOf(c, u)
    BY <1>3, <1>4, <2>3
       DEF ArrayOf, Resting, Reclaiming, Draining, Pushing, PassedOn, Sweeping, PushingBack,
           Empty, Injective
  <2>5. LocalsOf(u)
    BY <2>3, SlotFacts DEF LocalsOf, Pushing, Sweeping
  <2>6. /\ ItemsOf(c, u) = ItemsOf(c, t) /\ FlightOf(u) = {}
        /\ \A i \in 0 .. S[c] - 1 : Cleared(u, i) => Cleared(t, i)
    BY <1>1, <2>3 DEF ItemsOf, FlightOf, Cleared
  <2> DEFINE a == ItemsOf(c, t)
             m == ChainOf(next, t.local)
             l == ChainOf(next, delete_head)
  <2>7. /\ a \cap l = {} /\ a \in SUBSET Objects /\ l \in SUBSET Objects
        /\ \A o \in Objects : o \in a \cup m \cup l => obj[o] = "retired"
    BY PlacesBefore
  <2>8. m = {} /\ ChainOf(next', u.local) = l /\ ChainOf(next', delete_head') = {}
    BY <1>1, <1>4, <2>3, ChainNull
  <2>9. Transfer(c, t, u, next, next', delete_head, delete_head', obj, obj')
    <3> HIDE DEF a, m, l
    <3> QED BY <1>1, <1>4, <2>6, <2>7, <2>8 DEF Transfer, a, m, l
  <2>10. CoveredIn(u, Doomed(c, u, next'), valid, hp)
    BY <2>3 DEF CoveredIn, TypeOK, Slot
  <2>11. /\ cell' \in Pointer /\ exchanges' \in 0 .. Exchanges
         /\ obj' \in [Objects -> {"free", "live", "retired"}]
         /\ delete_head' \in Pointer /\ next' \in NodeLinks /\ delete_count' \in Nat
         /\ hp_count' = hp_count
         /\ CellLive' /\ \A s \in valid : obj'[get(hp[s])] # "free"
    BY <1>1, <1>2 DEF TypeOK, CellLive, ValidGuards, Pointer
  <2>12. /\ Acyclic(next', delete_head') /\ Acyclic(next', u.local)
         /\ u.pc # "validate" /\ \A d \in Contexts \ {c} : \A o \in Locals[d] : next'[o] = next[o]
    BY <1>1, <1>2, <2>3, <2>8 DEF Acyclic
  <2> QED BY <1>1, <1>2, <1>5, <2>1, <2>3, <2>4, <2>5, <2>6, <2>9, <2>10, <2>11, <2>12, MoveStep
<1> QED BY <1>6, <1>7

(* After a sweep the nodes that are left are pushed back one by one. *)
LEMMA PushBackInv ==
  ASSUME IInv, NEW c \in Contexts, PushBack(c) PROVE IInv' /\ CountStep
<1> USE DEF IInv
<1> DEFINE t == ctx[c]
<1>1. /\ t.pc = "push_back"
      /\ UNCHANGED <<cell, exchanges, obj, hp, valid, delete_head, next, delete_count, hp_count,
                     destroyed, null_reclaimed>>
  BY DEF PushBack, At, client, list, ended
<1>2. t \in Context(c) /\ ~destroyed /\ t.local \in Pointer /\ next \in NodeLinks
      /\ Acyclic(next, delete_head) /\ Acyclic(next, t.local)
  BY <1>1, NotDestroyed DEF TypeOK, Context, NodeLinks, ListsOK
<1>3. ArrayOf(c, t) /\ LocalsOf(t)
  BY DEF ControlOK
<1>4. /\ t.prev = NULL /\ FlightOf(t) = {} /\ PassedOn(t) /\ t.call # "none" /\ Empty(c, t)
  BY <1>1, <1>3 DEF ArrayOf, LocalsOf, PassedOn, PushingBack, FlightOf
<1>5. CASE t.local = NULL
  <2> DEFINE u == Return(c)
  <2>1. ctx' = [ctx EXCEPT ![c] = u]
    BY <1>5 DEF PushBack
  <2>2. /\ u \in Context(c) /\ ArrayOf(c, u) /\ LocalsOf(u)
        /\ u.pc \in {"idle", "collect", "gone"} /\ u.local = NULL /\ u.prev = NULL
        /\ \A i \in 0 .. S[c] - 1 : Cleared(u, i) => Cleared(ctx[c], i)
        /\ ItemsOf(c, u) = {} /\ ItemsOf(c, ctx[c]) = {} /\ FlightOf(u) = {}
        /\ Doomed(c, u, next) = {}
    BY <1>4, ReturnContext
  <2> HIDE DEF u
  <2>3. CoveredIn(u, Doomed(c, u, next), valid, hp)
    BY <2>2 DEF CoveredIn
  <2>4. CountStep
    BY <1>1, <2>1, <2>2, CountFrame DEF Responsible
  <2>5. delete_count' \in Nat /\ hp_count' = hp_count /\ u.pc # "validate"
    BY <1>1, <2>2 DEF TypeOK
  <2> QED BY <1>1, <1>2, <1>4, <1>5, <2>1, <2>2, <2>3, <2>4, <2>5, QuietStep
<1>6. CASE t.local # NULL
  <2> DEFINE h == t.local
             n == next[t.local]
             u == [t EXCEPT !.pc = "push_load", !.node = h, !.local = n, !.ret = "push_back"]
  <2>1. ctx' = [ctx EXCEPT ![c] = u]
    BY <1>6 DEF PushBack
  <2>2. /\ h \in Objects /\ n \in Pointer /\ ChainOf(next, n) = ChainOf(next, h) \ {h}
        /\ h \in ChainOf(next, h) /\ Acyclic(next, n)
    <3>1. h \in Objects
      BY <1>2, <1>6 DEF Pointer
    <3> QED BY <1>2, <3>1, ChainPop
  <2>3. /\ u \in Context(c) /\ u.pc = "push_load" /\ u.ret = "push_back" /\ u.node = h
        /\ u.deleted = t.deleted /\ u.del_index = t.del_index /\ u.call = t.call
        /\ u.local = n /\ u.prev = t.prev
    <3>1. h \in Pointer /\ n \in Pointer
      BY <2>2 DEF Pointer
    <3> HIDE DEF h, n
    <3> QED BY <1>2, <3>1 DEF Context
  <2> HIDE DEF u
  <2>4. ArrayOf(c, u)
    BY <1>3, <1>4, <2>3
       DEF ArrayOf, Resting, Reclaiming, Draining, Pushing, PassedOn, Sweeping, PushingBack,
           Empty, Injective
  <2>5. LocalsOf(u)
    BY <1>4, <2>2, <2>3, ObjectsAssumption DEF LocalsOf, Pushing, PushingBack
  <2>6. /\ ItemsOf(c, u) = ItemsOf(c, t) /\ FlightOf(u) = {h} /\ Doomed(c, u, next') = {}
        /\ \A i \in 0 .. S[c] - 1 : Cleared(u, i) => Cleared(t, i)
    BY <1>1, <2>3 DEF ItemsOf, FlightOf, Doomed, Reclaiming, Sweeping, Cleared
  <2> DEFINE a == ItemsOf(c, t)
             m == ChainOf(next, t.local)
             l == ChainOf(next, delete_head)
  <2>7. /\ a \cap m = {} /\ a \cap l = {} /\ m \cap l = {}
        /\ a \in SUBSET Objects /\ m \in SUBSET Objects /\ l \in SUBSET Objects
        /\ \A o \in Objects : o \in a \cup m \cup l => obj[o] = "retired"
    BY PlacesBefore
  <2>8. ChainOf(next', u.local) = m \ {h} /\ ChainOf(next', delete_head') = l /\ h \in m
    BY <1>1, <2>2, <2>3
  <2>9. Transfer(c, t, u, next, next', delete_head, delete_head', obj, obj')
    <3> HIDE DEF a, m, l, h
    <3> QED BY <1>1, <1>4, <2>6, <2>7, <2>8 DEF Transfer, a, m, l
  <2>10. CoveredIn(u, Doomed(c, u, next'), valid, hp)
    BY <2>6 DEF CoveredIn
  <2>11. CountStep
    BY <1>1, <2>1, <2>3, CountFrame DEF Responsible
  <2>12. /\ cell' \in Pointer /\ exchanges' \in 0 .. Exchanges
         /\ obj' \in [Objects -> {"free", "live", "retired"}]
         /\ delete_head' \in Pointer /\ next' \in NodeLinks /\ delete_count' \in Nat
         /\ hp_count' = hp_count
         /\ CellLive' /\ \A s \in valid : obj'[get(hp[s])] # "free"
    BY <1>1, <1>2 DEF TypeOK, CellLive, ValidGuards, Pointer
  <2>13. /\ Acyclic(next', delete_head') /\ Acyclic(next', u.local) /\ u.prev = NULL
         /\ u.pc # "validate" /\ \A d \in Contexts \ {c} : \A o \in Locals[d] : next'[o] = next[o]
    BY <1>1, <1>2, <1>4, <2>2, <2>3
  <2> QED BY <1>1, <1>2, <2>1, <2>3, <2>4, <2>5, <2>6, <2>9, <2>10, <2>11, <2>12, <2>13, MoveStep
<1> QED BY <1>5, <1>6

(* The node that a sweep has come to is retired. *)
LEMMA SweptNode ==
  ASSUME IInv, NEW c \in Contexts
  PROVE  LET cur == IF ctx[c].prev = NULL THEN ctx[c].local ELSE next[ctx[c].prev] IN
         cur # NULL => /\ cur \in ChainOf(next, ctx[c].local)
                       /\ cur \in Objects /\ obj[cur] = "retired"
<1> USE DEF IInv
<1> DEFINE t == ctx[c]
           m == ChainOf(next, t.local)
           cur == IF t.prev = NULL THEN t.local ELSE next[t.prev]
<1>1. next \in NodeLinks /\ t.local \in Pointer /\ (t.prev # NULL => t.prev \in m)
  BY DEF TypeOK, NodeLinks, Context, ListsOK, Chain
<1>2. t.prev = NULL => cur \in m \cup {NULL}
  BY <1>1, ChainClosed DEF Follows
<1>3. t.prev # NULL => cur \in m \cup {NULL}
  BY <1>1, ChainClosed DEF Follows
<1>4. \A o \in m : o \in Objects /\ obj[o] = "retired"
  BY PlacesBefore
<1> HIDE DEF m
<1>5. cur # NULL => cur \in m
  BY <1>2, <1>3
<1> QED BY <1>4, <1>5 DEF m

(* One step of a sweep: no validated hazard pointer points to the node     *)
(* that is freed, since the snapshot holds those that do.                  *)
LEMMA SweepInv ==
  ASSUME IInv, NEW c \in Contexts, Sweep(c) PROVE IInv' /\ CountStep
<1> USE DEF IInv
<1> DEFINE t == ctx[c]
           cur == IF t.prev = NULL THEN t.local ELSE next[t.prev]
<1>1. /\ t.pc = "sweep"
      /\ UNCHANGED <<cell, exchanges, hp, valid, delete_head, delete_count, hp_count,
                     destroyed, null_reclaimed>>
  BY DEF Sweep, At, client, ended
<1>2. t \in Context(c) /\ ~destroyed /\ t.local \in Pointer /\ next \in NodeLinks
      /\ Acyclic(next, delete_head) /\ Acyclic(next, t.local) /\ delete_head \in Pointer
  BY <1>1, NotDestroyed DEF TypeOK, Context, NodeLinks, ListsOK
<1>3. ArrayOf(c, t) /\ LocalsOf(t) /\ FlightOf(t) = {}
  BY <1>1 DEF ControlOK, FlightOf
<1> DEFINE a == ItemsOf(c, t)
           m == ChainOf(next, t.local)
           l == ChainOf(next, delete_head)
<1>4. /\ a \cap m = {} /\ a \cap l = {} /\ m \cap l = {}
      /\ a \in SUBSET Objects /\ m \in SUBSET Objects /\ l \in SUBSET Objects
      /\ \A o \in Objects : o \in a \cup m \cup l => obj[o] = "retired"
      /\ \A d \in Contexts \ {c} : \A o \in Locals[d] : o \notin m
  BY PlacesBefore
<1>5. t.prev # NULL => t.prev \in m
  BY DEF ListsOK, Chain
<1>6. CoveredIn(t, m, valid, hp)
  BY <1>1 DEF Covered, Doomed, Reclaiming, Sweeping
<1>7. cur # NULL => cur \in m
  BY SweptNode
<1>8. CASE cur = NULL
  <2> DEFINE u == [t EXCEPT !.pc = "push_back", !.snap = {}, !.prev = NULL]
  <2>1. ctx' = [ctx EXCEPT ![c] = u] /\ UNCHANGED <<obj, next>>
    BY <1>8 DEF Sweep, TypeOK
  <2>2. /\ u \in Context(c) /\ u.pc = "push_back" /\ u.deleted = t.deleted
        /\ u.call = t.call /\ u.local = t.local /\ u.prev = NULL
    BY <1>2 DEF Context, Pointer
  <2> HIDE DEF u
  <2>3. ArrayOf(c, u) /\ LocalsOf(u)
    BY <1>1, <1>3, <2>2
       DEF ArrayOf, LocalsOf, Resting, Reclaiming, Draining, Pushing, PassedOn,
           Sweeping, PushingBack, Empty, Injective
  <2>4. /\ ItemsOf(c, u) = ItemsOf(c, t) /\ FlightOf(u) = FlightOf(t) /\ Doomed(c, u, next) = {}
        /\ \A i \in 0 .. S[c] - 1 : Cleared(u, i) => Cleared(t, i)
    BY <1>1, <1>3, <2>2 DEF ItemsOf, FlightOf, Doomed, Reclaiming, Sweeping, Cleared
  <2>5. CountStep
    BY <1>1, <2>1, <2>2, CountFrame DEF Responsible
  <2>6. CoveredIn(u, Doomed(c, u, next), valid, hp)
    BY <2>4 DEF CoveredIn
  <2> QED BY <1>1, <1>2, <2>1, <2>2, <2>3, <2>4, <2>5, <2>6, QuietStep DEF TypeOK
<1>9. CASE cur # NULL /\ cur \in t.snap
  <2> DEFINE u == [t EXCEPT !.prev = cur]
  <2>1. ctx' = [ctx EXCEPT ![c] = u] /\ UNCHANGED <<obj, next>>
    BY <1>9 DEF Sweep, TypeOK
  <2>2. cur \in m /\ cur \in Pointer
    BY <1>4, <1>7, <1>9 DEF Pointer
  <2>3. /\ u \in Context(c) /\ u.pc = t.pc /\ u.deleted = t.deleted /\ u.snap = t.snap
        /\ u.call = t.call /\ u.local = t.local /\ u.prev = cur
    <3> HIDE DEF cur
    <3> QED BY <1>2, <2>2 DEF Context
  <2> HIDE DEF u, cur
  <2>4. ArrayOf(c, u) /\ LocalsOf(u)
    BY <1>1, <1>3, <2>3
       DEF ArrayOf, LocalsOf, Resting, Reclaiming, Draining, Pushing, PassedOn,
           Sweeping, PushingBack, Empty, Injective
  <2>5. /\ ItemsOf(c, u) = ItemsOf(c, t) /\ FlightOf(u) = FlightOf(t) /\ Doomed(c, u, next') = m
        /\ \A i \in 0 .. S[c] - 1 : Cleared(u, i) => Cleared(t, i)
    BY <1>1, <1>3, <2>1, <2>3 DEF ItemsOf, FlightOf, Doomed, Reclaiming, Sweeping, Cleared
  <2>6. CountStep
    BY <1>1, <2>1, <2>3, CountFrame DEF Responsible
  <2>7. CoveredIn(u, Doomed(c, u, next'), valid, hp)
    BY <1>1, <1>6, <2>3, <2>5 DEF CoveredIn
  <2>8. Transfer(c, t, u, next, next', delete_head, delete_head', obj, obj')
    <3>1. ChainOf(next', u.local) = m /\ ChainOf(next', delete_head') = l
      BY <1>1, <2>1, <2>3
    <3> HIDE DEF a, m, l
    <3> QED BY <1>3, <1>4, <2>1, <2>5, <3>1 DEF Transfer, a, m, l
  <2>9. /\ cell' \in Pointer /\ exchanges' \in 0 .. Exchanges
        /\ obj' \in [Objects -> {"free", "live", "retired"}]
        /\ delete_head' \in Pointer /\ next' \in NodeLinks /\ delete_count' \in Nat
        /\ hp_count' = hp_count
        /\ CellLive' /\ \A s \in valid : obj'[get(hp[s])] # "free"
    BY <1>1, <1>2, <2>1 DEF TypeOK, CellLive, ValidGuards
  <2>10. /\ Acyclic(next', delete_head') /\ Acyclic(next', u.local)
         /\ u.prev \in ChainOf(next', u.local)
         /\ u.pc # "validate" /\ \A d \in Contexts \ {c} : \A o \in Locals[d] : next'[o] = next[o]
    BY <1>1, <1>2, <2>1, <2>2, <2>3
  <2> QED BY <1>1, <1>2, <2>3, <2>1, <2>4, <2>5, <2>6, <2>7, <2>8, <2>9, <2>10, MoveStep
<1>10. CASE cur # NULL /\ cur \notin t.snap
  <2>1. /\ cur \in m /\ cur \in Objects /\ obj[cur] = "retired"
        /\ \A s \in valid : get(hp[s]) # cur
    BY <1>1, <1>4, <1>6, <1>7, <1>10 DEF CoveredIn
  <2>2. obj' = [obj EXCEPT ![cur] = "free"]
    BY <1>10 DEF Sweep
  <2>3. PICK loc \in Pointer :
          /\ ctx' = [ctx EXCEPT ![c] = [t EXCEPT !.local = loc]]
          /\ next' \in NodeLinks /\ \A o \in Objects \ m : next'[o] = next[o]
          /\ ChainOf(next', loc) = m \ {cur} /\ Acyclic(next', loc)
          /\ t.prev # NULL => t.prev # cur
    <3>1. CASE t.prev = NULL
      <4>1. cur = t.local /\ ctx' = [ctx EXCEPT ![c] = [t EXCEPT !.local = next[cur]]]
            /\ next' = [next EXCEPT ![cur] = NULL]
        BY <1>10, <3>1 DEF Sweep, TypeOK
      <4> HIDE DEF cur
      <4>2. /\ next[cur] \in Pointer /\ ChainOf(next, next[cur]) = m \ {cur}
            /\ Acyclic(next, next[cur])
        BY <1>2, <2>1, <4>1, ChainPop
      <4>3. next' \in NodeLinks /\ \A o \in Objects \ {cur} : next'[o] = next[o]
        BY <1>2, <4>1 DEF NodeLinks, Pointer
      <4>4. \A o \in ChainOf(next, next[cur]) : next'[o] = next[o]
        BY <1>4, <4>2, <4>3
      <4>5. ChainOf(next', next[cur]) = m \ {cur} /\ Acyclic(next', next[cur])
        BY <1>2, <4>2, <4>3, <4>4, AcyclicFrame
      <4>6. \A o \in Objects \ m : next'[o] = next[o]
        BY <2>1, <4>3
      <4> HIDE DEF m
      <4> QED BY <3>1, <4>1, <4>2, <4>3, <4>5, <4>6
    <3>2. CASE t.prev # NULL
      <4>1. cur = next[t.prev] /\ ctx' = ctx
            /\ next' = [next EXCEPT ![t.prev] = next[cur], ![cur] = NULL]
        BY <1>10, <3>2 DEF Sweep
      <4>2. ctx' = [ctx EXCEPT ![c] = [t EXCEPT !.local = t.local]]
        <5>1. [t EXCEPT !.local = t.local] = t
          BY <1>2 DEF Context
        <5> QED BY <4>1, <5>1 DEF TypeOK
      <4> HIDE DEF cur
      <4>3. t.prev \in m
        BY <1>5, <3>2
      <4>4. /\ next' \in NodeLinks /\ t.prev # cur
            /\ ChainOf(next', t.local) = m \ {cur} /\ Acyclic(next', t.local)
        <5> DEFINE prev == t.prev
        <5>1. /\ prev \in ChainOf(next, t.local) /\ next[prev] # NULL
              /\ next' = [next EXCEPT ![prev] = next[next[prev]], ![next[prev]] = NULL]
          BY <1>10, <4>1, <4>3
        <5> HIDE DEF prev
        <5>2. /\ next' \in NodeLinks /\ prev # next[prev]
              /\ ChainOf(next', t.local) = ChainOf(next, t.local) \ {next[prev]}
              /\ Acyclic(next', t.local)
          BY <1>2, <5>1, ChainDelink
        <5> QED BY <4>1, <5>2 DEF prev
      <4>5. \A o \in Objects \ m : next'[o] = next[o]
        BY <1>2, <2>1, <4>1, <4>3 DEF NodeLinks
      <4> HIDE DEF m
      <4> QED BY <1>2, <4>2, <4>4, <4>5
    <3> QED BY <3>1, <3>2
  <2> DEFINE u == [t EXCEPT !.local = loc]
  <2>4. /\ u \in Context(c) /\ u.pc = t.pc /\ u.deleted = t.deleted /\ u.snap = t.snap
        /\ u.call = t.call /\ u.local = loc /\ u.prev = t.prev /\ u.scan = t.scan
    BY <1>2 DEF Context
  <2>5. ctx' = [ctx EXCEPT ![c] = u]
    BY <2>3
  <2> HIDE DEF u, cur
  <2>6. ArrayOf(c, u) /\ LocalsOf(u)
    BY <1>1, <1>3, <2>4
       DEF ArrayOf, LocalsOf, Resting, Reclaiming, Draining, Pushing, PassedOn,
           Sweeping, PushingBack, Empty, Injective
  <2>7. /\ ItemsOf(c, u) = ItemsOf(c, t) /\ FlightOf(u) = FlightOf(t)
        /\ Doomed(c, u, next') = m \ {cur}
        /\ \A i \in 0 .. S[c] - 1 : Cleared(u, i) => Cleared(t, i)
    BY <1>1, <1>3, <2>3, <2>4 DEF ItemsOf, FlightOf, Doomed, Reclaiming, Sweeping, Cleared
  <2>8. ChainOf(next', delete_head') = l /\ Acyclic(next', delete_head')
    <3>1. \A o \in l : next'[o] = next[o]
      BY <1>4, <2>3
    <3> QED BY <1>1, <1>2, <2>3, <3>1, AcyclicFrame
  <2>9. CountStep
    BY <1>1, <2>4, <2>5, <2>8, CountFrame DEF Responsible
  <2>10. CoveredIn(u, Doomed(c, u, next'), valid, hp)
    BY <1>1, <1>6, <2>4, <2>7 DEF CoveredIn
  <2>11. Transfer(c, t, u, next, next', delete_head, delete_head', obj, obj')
    <3>1. ChainOf(next', u.local) = m \ {cur}
      BY <2>3, <2>4
    <3>2. \A o \in Objects : obj'[o] = "retired" <=> obj[o] = "retired" /\ o # cur
      BY <2>1, <2>2 DEF TypeOK
    <3> HIDE DEF a, m, l
    <3> QED BY <1>3, <1>4, <2>1, <2>7, <2>8, <3>1, <3>2 DEF Transfer, a, m, l
  <2>12. /\ cell' \in Pointer /\ exchanges' \in 0 .. Exchanges
         /\ delete_head' \in Pointer /\ delete_count' \in Nat /\ hp_count' = hp_count
    BY <1>1, <1>2 DEF TypeOK
  <2>13. /\ obj' \in [Objects -> {"free", "live", "retired"}]
         /\ \A s \in valid : obj'[get(hp[s])] # "free"
    BY <2>1, <2>2 DEF TypeOK, ValidGuards
  <2>14. CellLive'
    BY <1>1, <2>1, <2>2 DEF TypeOK, CellLive, Pointer
  <2>15. \A d \in Contexts \ {c} : \A o \in Locals[d] : next'[o] = next[o]
    <3>1. \A d \in Contexts : Locals[d] \in SUBSET Objects
      BY PlacesOfContext
    <3> QED BY <1>4, <2>3, <3>1
  <2>16. /\ u.prev # NULL => u.prev \in ChainOf(next', u.local)
         /\ Acyclic(next', u.local) /\ u.pc # "validate"
    BY <1>1, <1>5, <2>3, <2>4
  <2> QED BY <1>1, <1>2, <2>3, <2>4, <2>5, <2>6, <2>7, <2>8, <2>9, <2>10, <2>11, <2>12, <2>13,
             <2>14, <2>15, <2>16, MoveStep
<1> QED BY <1>8, <1>9, <1>10

(* reclaim frees what its snapshot does not hold and compacts the array,   *)
(* or passes the whole array to the domain.                                *)
LEMMA ReclaimInv ==
  ASSUME IInv, NEW c \in Contexts, Reclaim(c) PROVE IInv' /\ CountStep
<1> USE DEF IInv
<1> DEFINE t == ctx[c]
           freed == Unprotected(c)
           items == ItemsOf(c, t)
           kept == [ix \in Index(c) |-> IF t.deleted[ix] \in freed THEN NULL ELSE t.deleted[ix]]
           left == t.del_index - Cardinality(freed)
<1>1. /\ t.pc = "reclaim" /\ NULL \notin freed
      /\ UNCHANGED <<cell, exchanges, hp, valid, delete_head, next, delete_count, hp_count,
                     destroyed, null_reclaimed>>
  BY DEF Reclaim, At, client, list, ended
<1>2. t \in Context(c) /\ ~destroyed /\ next \in NodeLinks
  BY <1>1, NotDestroyed DEF TypeOK, NodeLinks
<1>3. ArrayOf(c, t) /\ LocalsOf(t)
  BY DEF ControlOK
<1>4. /\ t.local = NULL /\ t.prev = NULL /\ FlightOf(t) = {} /\ Injective(c, t)
      /\ R[c] \in Nat \ {0} /\ t.del_index = R[c] /\ \A ix \in Index(c) : t.deleted[ix] # NULL
      /\ t.deleted \in [Index(c) -> Pointer]
  BY <1>1, <1>2, <1>3, SizesAssumption
     DEF Context, ArrayOf, LocalsOf, Reclaiming, Full, Sweeping, PushingBack, Pushing, FlightOf
<1>5. Index(c) = 0 .. R[c] - 1
  BY DEF Index
<1>6. freed = items \ t.snap
  BY <1>4 DEF Unprotected, ItemsOf
<1>7. /\ IsFiniteSet(items) /\ Cardinality(items) = R[c]
  <2>1. t.deleted \in ArrayOfLength(R[c]) /\ NoRepeats(t.deleted, R[c])
    BY <1>4, <1>5 DEF ArrayOfLength, NoRepeats, Injective
  <2>2. items = Used(t.deleted, R[c])
    BY <1>5 DEF ItemsOf, Used
  <2> QED BY <1>4, <1>5, <2>1, <2>2, FullCount
<1>8. \A s \in valid : get(hp[s]) \notin freed
  <2>1. CoveredIn(t, items, valid, hp)
    BY <1>1 DEF Covered, Doomed, Reclaiming
  <2> QED BY <1>1, <1>6, <2>1 DEF CoveredIn
<1> DEFINE w == Idle(c)
<1>9. /\ w \in Context(c) /\ w.pc = "idle" /\ w.call = "none"
      /\ w.deleted = t.deleted /\ w.del_index = t.del_index
      /\ w.local = NULL /\ w.prev = NULL /\ w.i = 0
  BY IdleContext
<1>10. CASE left = R[c]
  <2> DEFINE u == [w EXCEPT !.pc = "enqueue", !.call = "overflow"]
  <2>1. ctx' = [ctx EXCEPT ![c] = u] /\ obj' = obj
    BY <1>10 DEF Reclaim
  <2> HIDE DEF w
  <2>2. /\ u \in Context(c) /\ u.pc = "enqueue" /\ u.call = "overflow" /\ u.deleted = t.deleted
        /\ u.local = NULL /\ u.prev = NULL
    BY <1>9 DEF Context
  <2> HIDE DEF u
  <2>3. ArrayOf(c, u) /\ LocalsOf(u)
    BY <1>4, <2>2
       DEF ArrayOf, LocalsOf, Resting, Reclaiming, Draining, Pushing, PassedOn,
           Sweeping, PushingBack, Injective
  <2>4. /\ ItemsOf(c, u) = ItemsOf(c, t) /\ FlightOf(u) = FlightOf(t) /\ Doomed(c, u, next) = {}
        /\ \A i \in 0 .. S[c] - 1 : Cleared(u, i) => Cleared(t, i)
    BY <1>1, <1>4, <2>2 DEF ItemsOf, FlightOf, Doomed, Reclaiming, Sweeping, Cleared
  <2>5. CountStep
    BY <1>1, <2>1, <2>2, CountFrame DEF Responsible
  <2>6. CoveredIn(u, Doomed(c, u, next), valid, hp)
    BY <2>4 DEF CoveredIn
  <2> QED BY <1>1, <1>2, <1>4, <2>1, <2>2, <2>3, <2>4, <2>5, <2>6, QuietStep DEF TypeOK
<1>11. CASE left # R[c]
  <2> DEFINE e == Compact(kept, R[c])
             u == [w EXCEPT !.deleted = e, !.del_index = left]
  <2>1. /\ obj' = [o \in Objects |-> IF o \in freed THEN "free" ELSE obj[o]]
        /\ ctx' = [ctx EXCEPT ![c] = u]
    BY <1>11 DEF Reclaim
  <2>2. kept \in ArrayOfLength(R[c]) /\ NoRepeats(kept, R[c]) /\ Used(kept, R[c]) = items \ freed
    <3>1. kept \in ArrayOfLength(R[c])
      BY <1>4, <1>5 DEF ArrayOfLength, Pointer
    <3>2. \A ix \in Index(c) : kept[ix] = IF t.deleted[ix] \in freed THEN NULL ELSE t.deleted[ix]
      OBVIOUS
    <3> HIDE DEF kept, freed
    <3>3. NoRepeats(kept, R[c])
      BY <1>4, <1>5, <3>2 DEF NoRepeats, Injective
    <3>4. Used(kept, R[c]) = items \ freed
      BY <1>4, <1>5, <3>2 DEF Used, ItemsOf
    <3> QED BY <3>1, <3>3, <3>4
  <2>3. left = Cardinality(items \ freed) /\ left \in 0 .. R[c] /\ left < R[c]
    <3>1. items \cap freed = freed /\ freed \subseteq items
      BY <1>6
    <3>2. /\ IsFiniteSet(items \ freed) /\ IsFiniteSet(freed)
          /\ Cardinality(items \ freed) = Cardinality(items) - Cardinality(freed)
      <4> HIDE DEF items, freed
      <4>1. IsFiniteSet(freed)
        BY <1>7, <3>1, FS_Subset
      <4>2. /\ IsFiniteSet(items \ freed)
            /\ Cardinality(items \ freed) = Cardinality(items) - Cardinality(items \cap freed)
        BY <1>7, FS_Difference
      <4> QED BY <3>1, <4>1, <4>2
    <3>3. Cardinality(items \ freed) \in Nat /\ Cardinality(freed) \in Nat
      BY <3>2, FS_CardinalityType
    <3> HIDE DEF items, freed
    <3> QED BY <1>4, <1>7, <1>11, <3>2, <3>3
  <2> HIDE DEF kept, freed, w, left
  <2>4. /\ e \in ArrayOfLength(R[c]) /\ Used(e, R[c]) = items \ freed /\ NoRepeats(e, R[c])
        /\ \A x \in 0 .. R[c] - 1 : e[x] # NULL <=> x < left
    BY <1>4, <2>2, <2>3, Compacted, CompactedExact
  <2> HIDE DEF e
  <2>5. /\ u \in Context(c) /\ u.pc = "idle" /\ u.call = "none" /\ u.deleted = e
        /\ u.del_index = left /\ u.local = NULL /\ u.prev = NULL /\ u.i = 0
    <3>1. e \in [Index(c) -> Pointer] /\ left \in 0 .. R[c]
      BY <1>5, <2>3, <2>4 DEF ArrayOfLength
    <3> HIDE DEF t
    <3>2. u \in Context(c)
      BY <1>9, <3>1 DEF Context
    <3>3. /\ u.pc = w.pc /\ u.call = w.call /\ u.deleted = e
          /\ u.del_index = left /\ u.local = w.local /\ u.prev = w.prev /\ u.i = w.i
      BY <1>9 DEF Context
    <3> QED BY <1>9, <3>2, <3>3
  <2> HIDE DEF u
  <2>6. ItemsOf(c, u) = items \ freed /\ Exact(c, u) /\ Injective(c, u)
    <3>1. ItemsOf(c, u) = items \ freed
      BY <1>5, <2>4, <2>5 DEF ItemsOf, Used
    <3>2. Exact(c, u)
      BY <1>5, <2>3, <2>4, <2>5 DEF Exact
    <3>3. Injective(c, u)
      BY <1>5, <2>4, <2>5 DEF Injective, NoRepeats
    <3> QED BY <3>1, <3>2, <3>3
  <2>7. ArrayOf(c, u) /\ LocalsOf(u)
    BY <2>5, <2>6
       DEF ArrayOf, LocalsOf, Resting, Reclaiming, Draining, Pushing, PassedOn,
           Sweeping, PushingBack
  <2>8. /\ FlightOf(u) = {} /\ Doomed(c, u, next') = {}
        /\ \A i \in 0 .. S[c] - 1 : Cleared(u, i) => Cleared(t, i)
    BY <2>5 DEF FlightOf, Doomed, Reclaiming, Sweeping, Cleared
  <2> DEFINE m == ChainOf(next, t.local)
             l == ChainOf(next, delete_head)
  <2>9. /\ items \cap m = {} /\ items \cap l = {} /\ m \cap l = {}
        /\ items \in SUBSET Objects /\ m \in SUBSET Objects /\ l \in SUBSET Objects
        /\ \A o \in Objects : o \in items \cup m \cup l => obj[o] = "retired"
    BY PlacesBefore
  <2>10. Transfer(c, t, u, next, next', delete_head, delete_head', obj, obj')
    <3>1. ChainOf(next', u.local) = m /\ ChainOf(next', delete_head') = l
      BY <1>1, <1>4, <2>5
    <3>2. \A o \in Objects : obj'[o] = "retired" <=> obj[o] = "retired" /\ o \notin freed
      BY <2>1
    <3>3. freed \subseteq items
      BY <1>6
    <3> HIDE DEF items, m, l
    <3> QED BY <1>4, <2>6, <2>8, <2>9, <3>1, <3>2, <3>3 DEF Transfer, items, m, l
  <2>11. CountStep
    BY <1>1, <2>1, <2>5, CountFrame DEF Responsible
  <2>12. CoveredIn(u, Doomed(c, u, next'), valid, hp)
    BY <2>8 DEF CoveredIn
  <2>13. /\ cell' \in Pointer /\ exchanges' \in 0 .. Exchanges
         /\ delete_head' \in Pointer /\ next' \in NodeLinks /\ delete_count' \in Nat
         /\ hp_count' = hp_count
    BY <1>1, <1>2 DEF TypeOK
  <2>14. obj' \in [Objects -> {"free", "live", "retired"}]
    BY <2>1 DEF TypeOK
  <2>15. \A s \in valid : obj'[get(hp[s])] # "free"
    BY <1>8, <2>1 DEF ValidGuards
  <2>16. CellLive'
    <3>1. \A o \in freed : obj[o] = "retired"
      BY <1>6, <2>9
    <3> QED BY <1>1, <2>1, <3>1 DEF TypeOK, CellLive, Pointer
  <2>17. Acyclic(next', delete_head') /\ Acyclic(next', u.local) /\ u.prev = NULL
         /\ u.pc # "validate" /\ \A d \in Contexts \ {c} : \A o \in Locals[d] : next'[o] = next[o]
    BY <1>1, <1>4, <2>5 DEF ListsOK
  <2> QED BY <1>1, <1>2, <2>1, <2>5, <2>7, <2>8, <2>10, <2>11, <2>12, <2>13, <2>14, <2>15, <2>16,
             <2>17, MoveStep
<1> QED BY <1>10, <1>11

(* A context that does not exist holds nothing. *)
LEMMA NothingHeld ==
  ASSUME TypeOK, ControlOK, NEW c \in Contexts, ctx[c].pc \in {"none", "gone"}
  PROVE  Arrays[c] = {} /\ Flights[c] = {} /\ Locals[c] = {} /\ ctx[c].local = NULL
<1>1. Empty(c, ctx[c]) /\ ctx[c].local = NULL
  BY DEF ControlOK, ArrayOf, LocalsOf, Sweeping, PushingBack, Pushing
<1>2. ItemsOf(c, ctx[c]) = {} /\ FlightOf(ctx[c]) = {} /\ ChainOf(next, ctx[c].local) = {}
  BY <1>1, ChainNull DEF ItemsOf, Empty, FlightOf
<1> QED BY <1>1, <1>2, PlacesOfContext

(* Without a context no hazard pointer protects anything. *)
LEMMA NothingProtected ==
  ASSUME TypeOK, SlotsOK, \A c \in Contexts : ctx[c].pc \in {"none", "gone"}
  PROVE  valid = {} /\ \A s \in Slot : hp[s] = NullWord
<1>1. ASSUME NEW s \in Slot PROVE hp[s] = NullWord /\ s \notin valid
  <2>1. CASE \A c \in Contexts : s \notin SlotsOf(c)
    BY <2>1 DEF SlotsOK
  <2>2. CASE \E c \in Contexts : s \in SlotsOf(c)
    <3>1. PICK c \in Contexts : s \in SlotsOf(c)
      BY <2>2
    <3>2. PICK i \in 0 .. S[c] - 1 : s = SlotOf(c, i)
      BY <3>1 DEF SlotsOf
    <3>3. Cleared(ctx[c], i)
      BY DEF Cleared
    <3> QED BY <3>2, <3>3 DEF SlotsOK
  <2> QED BY <2>1, <2>2
<1> QED BY <1>1 DEF TypeOK

(* The destructor of the domain frees all that is on the delete list. *)
LEMMA DestroyDomainInv ==
  ASSUME IInv, DestroyDomain PROVE IInv' /\ CountStep
<1> USE DEF IInv
<1> DEFINE l == Chain(delete_head)
<1>1. /\ \A c \in Contexts : ctx[c].pc \in {"none", "gone"}
      /\ UNCHANGED <<cell, exchanges, valid, hp, next, delete_count, hp_count, ctx, null_reclaimed>>
      /\ destroyed' = TRUE
  BY DEF DestroyDomain, At
<1>2. valid = {} /\ \A s \in Slot : hp[s] = NullWord
  BY <1>1, NothingProtected
<1>3. l \in SUBSET Objects
  BY ChainClosed DEF TypeOK, NodeLinks, Chain
<1>4. l \cap Protected = {}
  BY <1>2, <1>3, ObjectsAssumption DEF Protected, NullWord, Word, get
<1>5. delete_head' = NULL /\ obj' = [o \in Objects |-> IF o \in l THEN "free" ELSE obj[o]]
  <2>1. /\ obj' = [o \in Objects |-> IF o \in l \ (l \cap Protected) THEN "free" ELSE obj[o]]
        /\ delete_head' \in IF l \cap Protected = {} THEN {NULL} ELSE l \cap Protected
    BY DEF DestroyDomain
  <2> HIDE DEF l
  <2> QED BY <1>4, <2>1
<1>6. TypeOK'
  BY <1>1, <1>5 DEF TypeOK, Pointer
<1>7. ControlOK' /\ SlotsOK' /\ DestroyedLast'
  BY <1>1, <1>5 DEF ControlOK, SlotsOK, DestroyedLast
<1>8. \A c \in Contexts : Arrays[c] = {} /\ Flights[c] = {} /\ Locals[c] = {} /\ ctx[c].local = NULL
  BY <1>1, NothingHeld
<1>9. Arrays' = Arrays /\ Flights' = Flights /\ Locals' = Locals /\ Chain(delete_head)' = {}
  BY <1>1, <1>5, ChainNull DEF Arrays, Flights, Locals, InArray, InFlight, InLocal, At, Chain
<1>10. \A o \in Objects : obj[o] = "retired" <=> o \in l
  BY <1>8 DEF OnePlace, Complete
<1>11. OnePlace'
  <2>1. \A o \in Objects : obj'[o] # "retired"
    BY <1>5, <1>10
  <2> QED BY <1>8, <1>9, <2>1 DEF OnePlace, Apart, Complete
<1>12. CellLive'
  <2>1. cell # NULL => cell \in Objects /\ obj[cell] = "live"
    BY DEF CellLive, TypeOK, Pointer
  <2> HIDE DEF l
  <2> QED BY <1>1, <1>5, <1>10, <2>1 DEF CellLive
<1>13. ValidGuards'
  BY <1>1, <1>2 DEF ValidGuards
<1>14. Covered'
  BY <1>1, <1>2 DEF Covered, CoveredIn
<1>15. ListsOK'
  <2>1. Acyclic(next', delete_head')
    BY <1>5, ChainNull DEF Acyclic
  <2> QED BY <1>1, <2>1 DEF ListsOK, Chain
<1>16. CountStep
  <2>1. delete_count' \in Nat /\ ChainOf(next', delete_head') = {}
    BY <1>1, <1>5, ChainNull DEF TypeOK
  <2> QED BY <2>1, CountEmpty
<1> QED BY <1>6, <1>7, <1>11, <1>12, <1>13, <1>14, <1>15, <1>16 DEF CountStep

(* The invariant holds initially. *)
LEMMA InitInv == Init => IInv
<1> SUFFICES ASSUME Init PROVE IInv
  OBVIOUS
<1>1. ASSUME NEW c \in Contexts
      PROVE  LET u == ctx[c] IN
             /\ u \in Context(c) /\ u.pc = "none" /\ u.call = "none" /\ u.ret = "none"
             /\ Empty(c, u) /\ u.local = NULL /\ u.prev = NULL
  <2>1. ctx[c] = NewContext(c, "none")
    BY DEF Init
  <2> QED BY <2>1, FreshContext
<1>2. TypeOK
  <2>1. NullWord \in WordOver(Pointer)
    BY DEF NullWord, Word, WordOver, Pointer
  <2>2. /\ cell \in Pointer /\ delete_head \in Pointer /\ valid \subseteq Slot /\ delete_count \in Nat
        /\ exchanges \in 0 .. Exchanges /\ hp_count \in Nat
    BY ClientsAssumption DEF Init, Pointer
  <2>5. destroyed \in BOOLEAN /\ null_reclaimed \in BOOLEAN
    BY DEF Init
  <2>3. /\ obj \in [Objects -> {"free", "live", "retired"}] /\ hp \in [Slot -> WordOver(Pointer)]
        /\ next \in [Objects -> Pointer]
    BY <2>1 DEF Init, Pointer
  <2>4. ctx = [c \in Contexts |-> ctx[c]]
    BY DEF Init
  <2> QED BY <1>1, <2>2, <2>3, <2>4, <2>5 DEF TypeOK
<1>3. ControlOK
  <2> SUFFICES ASSUME NEW c \in Contexts PROVE ArrayOf(c, ctx[c]) /\ LocalsOf(ctx[c])
    BY DEF ControlOK
  <2> QED BY <1>1 DEF ArrayOf, LocalsOf, Resting, Reclaiming, Draining, Pushing, PassedOn,
                      Sweeping, PushingBack, Empty, Injective
<1>4. SlotsOK
  <2>1. \A c \in Contexts : \A i \in 0 .. S[c] - 1 : SlotOf(c, i) \in Slot
    BY SlotFacts
  <2>2. valid = {} /\ \A s \in Slot : hp[s] = NullWord
    BY DEF Init
  <2>3. \A c \in Contexts : ctx[c].pc = "none"
    BY <1>1
  <2> QED BY <2>1, <2>2, <2>3 DEF SlotsOK
<1>5. CellLive /\ ValidGuards /\ Covered
  BY DEF Init, CellLive, ValidGuards, Covered, CoveredIn
<1>6. \A c \in Contexts : Arrays[c] = {} /\ Flights[c] = {} /\ Locals[c] = {}
  BY <1>1, <1>2, <1>3, NothingHeld
<1>7. Chain(delete_head) = {}
  BY ChainNull DEF Init, Chain
<1>8. OnePlace
  <2>1. \A o \in Objects : obj[o] = "free"
    BY DEF Init
  <2> QED BY <1>6, <1>7, <2>1 DEF OnePlace, Apart, Complete
<1>9. ListsOK
  <2>1. Acyclic(next, NULL)
    BY ChainNull DEF Acyclic
  <2>2. delete_head = NULL
    BY DEF Init
  <2> QED BY <1>1, <2>1, <2>2 DEF ListsOK
<1>10. CountZero
  <2>1. Cardinality(Chain(delete_head)) = 0
    BY <1>7, FS_EmptySet
  <2>2. Cardinality(Uncounted) \in Nat
    BY Finite DEF Uncounted
  <2> QED BY <1>2, <2>1, <2>2 DEF CountZero, CountOK, TypeOK
<1>11. DestroyedLast
  BY DEF Init, DestroyedLast
<1> QED BY <1>2, <1>3, <1>4, <1>5, <1>8, <1>9, <1>10, <1>11 DEF IInv

(* The threshold of a collect changes: no list outgrows a counter of zero. *)
LEMMA AddPoolInv ==
  ASSUME IInv, AddPool PROVE IInv'
<1>1. /\ UNCHANGED <<cell, exchanges, obj, hp, valid, delete_head, next, delete_count, ctx,
                     destroyed, null_reclaimed>>
      /\ hp_count \in Nat /\ hp_count' \in Nat
  BY SizesAssumption DEF AddPool, client, ended, IInv, TypeOK
<1>2. TypeOK' /\ ControlOK' /\ SlotsOK' /\ CellLive' /\ ValidGuards' /\ Covered' /\ DestroyedLast'
  BY <1>1 DEF IInv, TypeOK, ControlOK, SlotsOK, CellLive, ValidGuards, Covered, DestroyedLast
<1>3. OnePlace' /\ ListsOK'
  BY <1>1 DEF IInv, OnePlace, ListsOK, Arrays, Flights, Locals, InArray, InFlight, InLocal, Chain, At
<1>4. CountZero'
  <2> SUFFICES ASSUME delete_count = 0 PROVE CountOK'
    BY <1>1 DEF CountZero
  <2>1. Chain(delete_head)' = Chain(delete_head) /\ Uncounted' = Uncounted
    BY <1>1 DEF Chain, Uncounted, At
  <2>2. \A c \in Contexts :
          Responsible(ctx[c], delete_count, hp_count) => Responsible(ctx'[c], delete_count', hp_count')
    BY <1>1 DEF Responsible
  <2> QED BY <1>1, <2>1, <2>2 DEF IInv, CountZero, CountOK
<1> QED BY <1>2, <1>3, <1>4 DEF IInv

(* A step of a context, or of the domain's destructor. *)
LEMMA ActionInv ==
  ASSUME IInv, (\E c \in Contexts : Client(c) \/ Library(c)) \/ DestroyDomain
  PROVE  IInv' /\ CountStep
<1>1. ASSUME NEW c \in Contexts, Client(c) PROVE IInv' /\ CountStep
  BY <1>1, ConstructInv, LoadInv, StoreInv, ValidateInv, MoveInv, ClearInv, ExchangeInv, DestroyInv
     DEF Client
<1>2. ASSUME NEW c \in Contexts, Library(c) PROVE IInv' /\ CountStep
  BY <1>2, ScanInv, DeleteItemInv, ReclaimInv, EnqueueInv, PushLoadInv, PushCasInv, PushCountInv,
     CheckInv, ReadDcInv, CountCasInv, CollectInv, SweepInv, PushBackInv, ReleaseInv
     DEF Library
<1> QED BY <1>1, <1>2, DestroyDomainInv

(* Nothing happens. *)
LEMMA StutterInv ==
  ASSUME IInv, UNCHANGED vars PROVE IInv' /\ CountStep
<1>1. IInv'
  BY DEF vars, IInv, TypeOK, ControlOK, SlotsOK, CellLive, ValidGuards, Covered, OnePlace,
         ListsOK, CountZero, CountOK, DestroyedLast, Arrays, Flights, Locals, InArray, InFlight,
         InLocal, Chain, Uncounted, At
<1>2. CountStep
  BY DEF vars, CountStep, CountZero, CountOK, Chain, Uncounted, At
<1> QED BY <1>1, <1>2

(* Every step keeps the invariant. *)
LEMMA StepInv == IInv /\ [Next]_vars => IInv'
BY ActionInv, AddPoolInv, StutterInv DEF Next, Terminated

(* The inductive invariant holds in every state that the library reaches. *)
THEOREM Invariance == Spec => []IInv
<1> QED BY InitInv, StepInv, PTL DEF Spec

-----------------------------------------------------------------------------
(***************************************************************************)
(* What the invariant implies.                                             *)
(***************************************************************************)
(* Type correctness: the array deleted is never indexed or filled beyond   *)
(* its length, a snapshot never reads beyond the hazard pointers.          *)
THEOREM TypeCorrectness == Spec => []TypeOK
<1>1. IInv => TypeOK
  BY DEF IInv
<1> QED BY <1>1, Invariance, PTL

(* Hazard pointers protect: no object is freed while a hazard pointer that *)
(* was stored and then checked against the container points to it, for any *)
(* number of contexts, hazard pointers and objects and any interleaving of *)
(* the snapshots of collect and reclaim with the stores.                   *)
THEOREM HazardPointersProtect == Spec => []SafeAccess
<1>1. IInv => SafeAccess
  BY DEF IInv, ValidGuards, SafeAccess
<1> QED BY <1>1, Invariance, PTL

(* The places of Accounted are apart, and hold what is retired. *)
LEMMA InOnePlace == ASSUME IInv PROVE Accounted
<1> USE DEF IInv
<1>1. Apart(Arrays, Flights, Locals, Chain(delete_head))
  BY DEF OnePlace
<1>2. Complete(Arrays, Flights, Locals, Chain(delete_head), obj)
  BY DEF OnePlace
<1>3. \A x \in Places :
        \/ x = <<N, "list">> /\ Held[x] = Chain(delete_head)
        \/ \E c \in Contexts :
             \/ x = <<c, "array">> /\ Held[x] = Arrays[c]
             \/ x = <<c, "flight">> /\ Held[x] = Flights[c]
             \/ x = <<c, "local">> /\ Held[x] = Locals[c]
  BY DEF Places, Held, Arrays, Flights, Locals
<1>4. /\ <<N, "list">> \in Places /\ Held[<<N, "list">>] = Chain(delete_head)
      /\ \A c \in Contexts :
           /\ <<c, "array">> \in Places /\ Held[<<c, "array">>] = Arrays[c]
           /\ <<c, "flight">> \in Places /\ Held[<<c, "flight">>] = Flights[c]
           /\ <<c, "local">> \in Places /\ Held[<<c, "local">>] = Locals[c]
  BY DEF Places, Held, Arrays, Flights, Locals
<1> HIDE DEF IInv
<1>5. SUFFICES ASSUME NEW o \in Objects
               PROVE  Cardinality({x \in Places : o \in Held[x]})
                        = IF obj[o] = "retired" THEN 1 ELSE 0
  BY DEF Accounted
<1>6. \A x, y \in Places : o \in Held[x] /\ o \in Held[y] => x = y
  <2> SUFFICES ASSUME NEW x \in Places, NEW y \in Places, o \in Held[x], o \in Held[y]
               PROVE  x = y
    OBVIOUS
  <2> QED BY <1>1, <1>3 DEF Apart
<1>7. obj[o] = "retired" <=> \E x \in Places : o \in Held[x]
  <2>1. ASSUME obj[o] = "retired" PROVE \E x \in Places : o \in Held[x]
    BY <1>2, <1>4, <2>1 DEF Complete
  <2>2. ASSUME NEW x \in Places, o \in Held[x] PROVE obj[o] = "retired"
    BY <1>2, <1>3, <2>2 DEF Complete
  <2> QED BY <2>1, <2>2
<1>8. CASE obj[o] = "retired"
  <2>1. PICK x \in Places : o \in Held[x]
    BY <1>7, <1>8
  <2>2. {z \in Places : o \in Held[z]} = {x}
    BY <1>6, <2>1
  <2> QED BY <1>8, <2>2, FS_Singleton
<1>9. CASE obj[o] # "retired"
  <2>1. {z \in Places : o \in Held[z]} = {}
    BY <1>7, <1>9
  <2> QED BY <1>9, <2>1, FS_EmptySet
<1> QED BY <1>8, <1>9

(* No delete is lost and none is done twice: every retired object, and no  *)
(* other, is in the array of one context, in flight, on one list that a    *)
(* collect has taken, or on the delete list.                               *)
THEOREM EveryDeleteAccounted == Spec => []Accounted
<1>1. IInv => Accounted
  BY InOnePlace
<1> QED BY <1>1, Invariance, PTL

(* delete_item finds room in the array deleted, and the entry at del_index *)
(* unused, whatever the last compaction left.                              *)
THEOREM ArrayStaysExact == Spec => []DeletedExact
<1>1. IInv => DeletedExact
  BY DEF IInv, ControlOK, ArrayOf, Resting, Exact, DeletedExact, At
<1> QED BY <1>1, Invariance, PTL

(* CountOK is CountCovers. *)
LEMMA CountSame == (CountCovers <=> CountOK) /\ (CountCovers' <=> CountOK')
BY DEF CountCovers, CountOK, Responsible, Collecting, Looping, At

(* A delete list that has outgrown its counter is about to be collected,   *)
(* and stays so as long as no new pool changes hp_count: the results of    *)
(* exchanges that collect_if_required overwrites are not lost, for any     *)
(* number of contexts that push, clear the counter and collect.            *)
THEOREM CollectIsKept == Spec => CollectKept
<1>1. IInv /\ [Next]_vars => [CountCovers /\ hp_count' = hp_count => CountCovers']_vars
  <2> SUFFICES ASSUME IInv, [Next]_vars, CountCovers, hp_count' = hp_count PROVE CountCovers'
    OBVIOUS
  <2>1. ~AddPool
    BY DEF AddPool
  <2>2. CountStep
    BY <2>1, ActionInv, StutterInv DEF Next, Terminated
  <2> QED BY <2>2, CountSame DEF CountStep
<1> QED BY <1>1, Invariance, PTL DEF Spec, CollectKept

(* Whatever the threshold becomes, a counter that has been cleared means   *)
(* that a collect is to come for what was on the list.                     *)
THEOREM ClearedIsNotForgotten == Spec => []NotForgotten
<1>1. IInv => NotForgotten
  <2> SUFFICES ASSUME IInv, delete_count = 0
               PROVE  \/ Cardinality(Chain(delete_head)) <= Cardinality(Uncounted)
                      \/ \E c \in Contexts : Collecting(c)
    BY DEF NotForgotten
  <2>1. hp_count \in Nat /\ Cardinality(Uncounted) \in Nat
    BY Finite DEF IInv, TypeOK, Uncounted
  <2>2. CountOK
    BY DEF IInv, CountZero
  <2>3. \A c \in Contexts : Responsible(ctx[c], delete_count, hp_count) => Collecting(c)
    BY <2>1 DEF Responsible, Collecting, At
  <2> QED BY <2>1, <2>2, <2>3 DEF CountOK
<1> QED BY <1>1, Invariance, PTL

(* Once the domain is destroyed its delete list is empty and nothing is    *)
(* left to free.                                                           *)
THEOREM DestroyedDomainIsClean == Spec => []DomainClean
<1>1. IInv => DomainClean
  <2> SUFFICES ASSUME IInv, destroyed PROVE delete_head = NULL /\ \A o \in Objects : obj[o] # "retired"
    BY DEF DomainClean
  <2>1. delete_head = NULL /\ \A c \in Contexts : ctx[c].pc \in {"none", "gone"}
    BY DEF IInv, DestroyedLast
  <2>2. \A c \in Contexts : Arrays[c] = {} /\ Flights[c] = {} /\ Locals[c] = {}
    BY <2>1, NothingHeld DEF IInv
  <2>3. Chain(delete_head) = {}
    BY <2>1, ChainNull DEF Chain
  <2> QED BY <2>1, <2>2, <2>3 DEF IInv, OnePlace, Complete
<1> QED BY <1>1, Invariance, PTL

-----------------------------------------------------------------------------
(***************************************************************************)
(* Refinement: every step of the library is a step of SafeReclamation, or  *)
(* changes neither the objects nor what the contexts guard.                *)
(***************************************************************************)
(* Hazard pointers of c are cleared or overwritten. *)
LEMMA UnguardStep ==
  ASSUME NEW c \in Contexts, obj' = obj, Guarded'[c] \subseteq Guarded[c],
         \A d \in Contexts \ {c} : Guarded'[d] = Guarded[d]
  PROVE  Safe!Next
<1> DEFINE set == Guarded[c] \ Guarded'[c]
<1>1. Guarded' = [d \in Contexts |-> Guarded'[d]] /\ Guarded = [d \in Contexts |-> Guarded[d]]
  BY DEF Guarded
<1> HIDE DEF Guarded
<1>2. Guarded' = [Guarded EXCEPT ![c] = @ \ set]
  BY <1>1
<1>3. set \in SUBSET Guarded[c]
  OBVIOUS
<1>4. Safe!Unguard(c, set)
  BY <1>2 DEF Safe!Unguard
<1> QED BY <1>3, <1>4 DEF Safe!Next

(* A hazard pointer s of c is written to, and not valid after that. *)
LEMMA ClearedSlot ==
  ASSUME TypeOK, NEW c \in Contexts, NEW s \in SlotsOf(c), obj' = obj, valid' = valid \ {s},
         \A r \in Slot \ {s} : hp'[r] = hp[r]
  PROVE  Safe!Next
<1>1. valid \subseteq Slot /\ \A d \in Contexts \ {c} : s \notin SlotsOf(d)
  BY BlocksAssumption DEF TypeOK
<1>2. \A r \in valid' : r \in valid /\ hp'[r] = hp[r]
  BY <1>1
<1>3. Guarded'[c] \subseteq Guarded[c]
  BY <1>2 DEF Guarded
<1>4. \A d \in Contexts \ {c} : Guarded'[d] = Guarded[d]
  BY <1>1, <1>2 DEF Guarded
<1> QED BY <1>3, <1>4, UnguardStep

(* Retired objects are freed: the invariant, which holds after the step,   *)
(* says that no hazard pointer points to them.                             *)
LEMMA FreeStep ==
  ASSUME IInv, IInv', hp' = hp, valid' = valid, NEW set \in SUBSET Objects,
         \A o \in set : obj[o] = "retired",
         obj' = [o \in Objects |-> IF o \in set THEN "free" ELSE obj[o]]
  PROVE  Safe!Next
<1>1. \A s \in valid : get(hp[s]) \in Objects /\ obj'[get(hp[s])] # "free"
  BY DEF IInv, ValidGuards
<1>2. \A s \in valid : get(hp[s]) \notin set
  BY <1>1
<1>3. \A c \in Contexts : Guarded[c] \cap set = {}
  BY <1>2 DEF Guarded
<1>4. Guarded' = Guarded
  BY DEF Guarded
<1>5. Safe!Free(set)
  BY <1>3, <1>4 DEF Safe!Free
<1>6. set \in SUBSET {o \in Objects : obj[o] = "retired"}
  OBVIOUS
<1> QED BY <1>5, <1>6 DEF Safe!Next

(* The clients' steps. *)
LEMMA ClientImplements ==
  ASSUME IInv, NEW c \in Contexts, Client(c)
  PROVE  Safe!Next \/ UNCHANGED <<obj, Guarded>>
<1> USE DEF IInv
<1>1. CASE Load(c) \/ Destroy(c)
  BY <1>1 DEF Load, Destroy, client, Guarded
<1>2. CASE Construct(c)
  <2>1. obj' = obj /\ valid' = valid
        /\ hp' = [s \in Slot |-> IF s \in SlotsOf(c) THEN NullWord ELSE hp[s]]
    BY <1>2 DEF Construct, client
  <2>2. SlotsOf(c) \cap valid = {}
    BY <1>2 DEF Construct, At, SlotsOK, Cleared, SlotsOf
  <2>3. \A s \in valid : hp'[s] = hp[s]
    BY <2>1, <2>2 DEF TypeOK
  <2>4. Guarded' = Guarded
    BY <2>1, <2>3 DEF Guarded
  <2> QED BY <2>1, <2>4
<1>3. CASE Store(c)
  <2> DEFINE s == SlotOf(c, ctx[c].i)
  <2>1. s \in Slot /\ s \in SlotsOf(c) /\ \A d \in Contexts \ {c} : s \notin SlotsOf(d)
    BY SlotFacts DEF TypeOK, Context
  <2>2. obj' = obj /\ valid' = valid \ {s} /\ \A r \in Slot \ {s} : hp'[r] = hp[r]
    BY <1>3 DEF Store, TypeOK
  <2> HIDE DEF s
  <2> QED BY <2>1, <2>2, ClearedSlot
<1>4. CASE Validate(c)
  <2> DEFINE t == ctx[c]
             s == SlotOf(c, t.i)
  <2>1. t.pc = "validate" /\ obj' = obj /\ hp' = hp
    BY <1>4 DEF Validate, At
  <2>2. CASE cell # t.p
    BY <1>4, <2>1, <2>2 DEF Validate, Guarded
  <2>3. CASE cell = t.p
    <3>1. s \in Slot /\ s \in SlotsOf(c) /\ \A d \in Contexts \ {c} : s \notin SlotsOf(d)
      BY SlotFacts DEF TypeOK, Context
    <3>2. valid' = valid \cup {s}
      BY <1>4, <2>3 DEF Validate
    <3>3. get(hp[s]) = cell /\ cell \in Objects /\ obj[cell] = "live"
      <4>1. hp[s] = Word(t.p, Mark[c])
        BY <2>1 DEF SlotsOK
      <4>2. t.p \in Objects
        BY <2>1 DEF ControlOK, LocalsOf, TypeOK, Context, Pointer
      <4> QED BY <2>3, <4>1, <4>2, ObjectsAssumption DEF Word, get, CellLive
    <3> HIDE DEF s, t
    <3>4. /\ Guarded'[c] = Guarded[c] \cup {cell}
          /\ \A d \in Contexts \ {c} : Guarded'[d] = Guarded[d]
          /\ Guarded' = [d \in Contexts |-> Guarded'[d]] /\ Guarded = [d \in Contexts |-> Guarded[d]]
      BY <2>1, <3>1, <3>2, <3>3 DEF Guarded
    <3> HIDE DEF Guarded
    <3>5. Guarded' = [Guarded EXCEPT ![c] = @ \cup {cell}]
      BY <3>4
    <3>6. Safe!Guard(c, cell)
      BY <2>1, <3>3, <3>5 DEF Safe!Guard
    <3> QED BY <3>3, <3>6 DEF Safe!Next
  <2> QED BY <2>2, <2>3
<1>5. CASE Move(c)
  <2>1. PICK i \in 0 .. S[c] - 1, j \in 0 .. S[c] - 1 :
          /\ SlotOf(c, i) \in valid
          /\ hp' = [hp EXCEPT ![SlotOf(c, j)] = hp[SlotOf(c, i)]]
          /\ valid' = valid \cup {SlotOf(c, j)}
    BY <1>5 DEF Move
  <2> DEFINE from == SlotOf(c, i)
             to == SlotOf(c, j)
  <2>2. /\ from \in SlotsOf(c) /\ to \in Slot /\ to \in SlotsOf(c)
        /\ \A d \in Contexts \ {c} : to \notin SlotsOf(d)
    BY SlotFacts
  <2>3. /\ obj' = obj /\ valid' = valid \cup {to} /\ from \in valid /\ hp'[to] = hp[from]
        /\ \A r \in Slot \ {to} : hp'[r] = hp[r]
    BY <1>5, <2>1, <2>2 DEF Move, TypeOK
  <2> HIDE DEF from, to
  <2>4. valid \subseteq Slot
    BY DEF TypeOK
  <2>5. \A d \in Contexts \ {c} : Guarded'[d] = Guarded[d]
    BY <2>2, <2>3, <2>4 DEF Guarded
  <2>6. Guarded'[c] \subseteq Guarded[c]
    BY <2>2, <2>3, <2>4 DEF Guarded
  <2> QED BY <2>3, <2>5, <2>6, UnguardStep
<1>6. CASE Clear(c)
  <2>1. PICK s \in SlotsOf(c) : hp' = [hp EXCEPT ![s] = NullWord] /\ valid' = valid \ {s}
    BY <1>6 DEF Clear
  <2>2. s \in Slot /\ \A d \in Contexts \ {c} : s \notin SlotsOf(d)
    BY BlocksAssumption
  <2>3. obj' = obj /\ \A r \in Slot \ {s} : hp'[r] = hp[r]
    BY <1>6, <2>1 DEF Clear, TypeOK
  <2> QED BY <2>1, <2>2, <2>3, ClearedSlot
<1>7. CASE Exchange(c)
  <2>1. PICK new \in {o \in Objects : obj[o] = "free"} \cup {NULL} :
          obj' = [o \in Objects |-> IF o = cell THEN "retired"
                                    ELSE IF o = new THEN "live" ELSE obj[o]]
    BY <1>7 DEF Exchange
  <2> DEFINE out == {cell} \ {NULL}
             in == {new} \ {NULL}
  <2>2. /\ out \in Safe!AtMostOne /\ in \in Safe!AtMostOne
        /\ \A o \in out : obj[o] = "live"
        /\ \A o \in in : obj[o] = "free"
    BY DEF Safe!AtMostOne, TypeOK, Pointer, CellLive
  <2>3. obj' = [o \in Objects |-> IF o \in out THEN "retired"
                                  ELSE IF o \in in THEN "live" ELSE obj[o]]
    BY <2>1, ObjectsAssumption
  <2>4. Guarded' = Guarded
    BY <1>7 DEF Exchange, Guarded
  <2> HIDE DEF out, in
  <2>5. Safe!Exchange(out, in)
    BY <2>2, <2>3, <2>4 DEF Safe!Exchange
  <2> QED BY <2>2, <2>5 DEF Safe!Next
<1> QED BY <1>1, <1>2, <1>3, <1>4, <1>5, <1>6, <1>7 DEF Client

(* The steps of the library. *)
LEMMA LibraryImplements ==
  ASSUME IInv, IInv', NEW c \in Contexts, Library(c)
  PROVE  Safe!Next \/ UNCHANGED <<obj, Guarded>>
<1>1. CASE Scan(c) \/ DeleteItem(c) \/ Enqueue(c) \/ PushLoad(c) \/ PushCas(c) \/ PushCount(c)
           \/ Check(c) \/ ReadDc(c) \/ CountCas(c) \/ Collect(c) \/ PushBack(c)
  BY <1>1 DEF Scan, DeleteItem, Enqueue, PushLoad, PushCas, PushCount, Check, ReadDc, CountCas,
              Collect, PushBack, client, Guarded
<1>2. CASE Release(c)
  <2> DEFINE s == SlotOf(c, ctx[c].i)
  <2>1. s \in Slot /\ s \in SlotsOf(c) /\ \A d \in Contexts \ {c} : s \notin SlotsOf(d)
    BY SlotFacts DEF IInv, TypeOK, Context
  <2>2. obj' = obj /\ valid' = valid \ {s} /\ \A r \in Slot \ {s} : hp'[r] = hp[r]
    BY <1>2 DEF Release, IInv, TypeOK
  <2> HIDE DEF s
  <2> QED BY <2>1, <2>2, ClearedSlot DEF IInv
<1>3. CASE Reclaim(c)
  <2>1. hp' = hp /\ valid' = valid
    BY <1>3 DEF Reclaim, client
  <2>2. CASE obj' = obj
    BY <2>1, <2>2 DEF Guarded
  <2>3. CASE obj' = [o \in Objects |-> IF o \in Unprotected(c) THEN "free" ELSE obj[o]]
    <3>1. NULL \notin Unprotected(c)
      BY <1>3 DEF Reclaim
    <3>2. Unprotected(c) \subseteq ItemsOf(c, ctx[c])
      BY <3>1 DEF Unprotected, ItemsOf
    <3>3. Unprotected(c) \in SUBSET Objects /\ \A o \in Unprotected(c) : obj[o] = "retired"
      BY <3>2, PlacesBefore DEF IInv
    <3> QED BY <2>1, <2>3, <3>3, FreeStep
  <2> QED BY <1>3, <2>2, <2>3 DEF Reclaim
<1>4. CASE Sweep(c)
  <2> DEFINE t == ctx[c]
             cur == IF t.prev = NULL THEN t.local ELSE next[t.prev]
  <2>1. hp' = hp /\ valid' = valid
    BY <1>4 DEF Sweep, client
  <2>2. CASE obj' = obj
    BY <2>1, <2>2 DEF Guarded
  <2>3. CASE cur # NULL /\ obj' = [obj EXCEPT ![cur] = "free"]
    <3>1. cur \in Objects /\ obj[cur] = "retired"
      BY <2>3, SweptNode
    <3> DEFINE set == {cur}
    <3>2. /\ set \in SUBSET Objects /\ \A o \in set : obj[o] = "retired"
          /\ obj' = [o \in Objects |-> IF o \in set THEN "free" ELSE obj[o]]
      BY <2>3, <3>1 DEF IInv, TypeOK
    <3> HIDE DEF set, cur
    <3> QED BY <2>1, <3>2, FreeStep
  <2> QED BY <1>4, <2>2, <2>3 DEF Sweep
<1> QED BY <1>1, <1>2, <1>3, <1>4 DEF Library

(* The library implements safe reclamation. *)
THEOREM Implementation == Spec => ImplementsReclamation
<1>1. Init => Safe!Init
  BY DEF Init, Safe!Init, Guarded
<1>2. IInv /\ IInv' /\ [Next]_vars => [Safe!Next]_<<obj, Guarded>>
  <2> SUFFICES ASSUME IInv, IInv', [Next]_vars PROVE Safe!Next \/ UNCHANGED <<obj, Guarded>>
    OBVIOUS
  <2>1. CASE DestroyDomain
    <3>1. hp' = hp /\ valid' = valid
      BY <2>1 DEF DestroyDomain
    <3> DEFINE set == Chain(delete_head) \ (Chain(delete_head) \cap Protected)
    <3>2. obj' = [o \in Objects |-> IF o \in set THEN "free" ELSE obj[o]]
      BY <2>1 DEF DestroyDomain
    <3>3. Chain(delete_head) \in SUBSET Objects /\ \A o \in Chain(delete_head) : obj[o] = "retired"
      <4>1. Chain(delete_head) \in SUBSET Objects
        BY ChainClosed DEF IInv, TypeOK, NodeLinks, Chain
      <4> QED BY <4>1 DEF IInv, OnePlace, Complete
    <3>4. set \in SUBSET Objects /\ \A o \in set : obj[o] = "retired"
      BY <3>3
    <3> HIDE DEF set
    <3> QED BY <3>1, <3>2, <3>4, FreeStep
  <2>2. CASE UNCHANGED vars
    BY <2>2 DEF vars, Guarded
  <2>3. CASE AddPool
    BY <2>3 DEF AddPool, client, Guarded
  <2> QED BY <2>1, <2>2, <2>3, ClientImplements, LibraryImplements DEF Next, Terminated
<1> QED BY <1>1, <1>2, Invariance, PTL DEF Spec, ImplementsReclamation, Safe!Spec
============================================================================
