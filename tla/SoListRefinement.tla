-------------------------- MODULE SoListRefinement --------------------------
(***************************************************************************)
(* The split-ordered list implements a linearizable set (HashSet).  The    *)
(* mapping names the step at which each call takes effect: the CAS that    *)
(* links or unlinks a node, or the read of the next pointer that settles   *)
(* whether the key is in the list.                                         *)
(***************************************************************************)
EXTENDS SoList

CONSTANT NONE

(* No answer is not an answer. *)
ASSUME NoneAssumption == NONE \notin BOOLEAN

(* The search of a has read the pointer that settles its outcome. *)
Settled(a) ==
  /\ a.pc = "find_loop"
  /\ a.next = NULL \/ key(a.next) >= sol_node_key(a.hashv)

SettledFound(a) ==
  \/ Found(a)
  \/ a.next # NULL /\ key(a.next) = sol_node_key(a.hashv)

(* insert_node is past the CAS that linked its node. *)
Linked(a) ==
  \/ a.pc \in {"count", "scan_head", "scan_loop", "overflow", "expand",
               "expand_swap", "expand_size"}
  \/ a.ret = "idle"

Answer(a) ==
  CASE a.op = "insert" /\ Linked(a)                     -> TRUE
    [] a.op = "insert" /\ Settled(a) /\ SettledFound(a) -> FALSE
    [] a.op = "find"   /\ Settled(a)                    -> SettledFound(a)
    [] a.op = "delete" /\ a.pc \in {"uncount", "reclaim"} -> TRUE
    [] a.op = "delete" /\ Settled(a) /\ ~SettledFound(a) -> FALSE
    [] OTHER                                            -> NONE

(* initialise_bucket is invisible to the clients of the set. *)
AbstractCall(a) ==
  IF a.op \in {"none", "init"} THEN [op |-> "none", hashv |-> 0, ans |-> NONE]
  ELSE [op |-> a.op, hashv |-> a.hashv, ans |-> Answer(a)]

Set == INSTANCE HashSet WITH
         items <- Items,
         call <- [t \in Accessors |-> AbstractCall(acc[t])],
         Ops <- Ops \ {"init"}

(* Every insert, delete and find of the list behaves as one atomic         *)
(* operation of a set, with the answer the set would give.                 *)
ImplementsSet == Set!Spec

=============================================================================
