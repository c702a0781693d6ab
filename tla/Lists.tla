------------------------------- MODULE Lists -------------------------------
(***************************************************************************)
(* Singly linked lists.  A list is given by its head and by the links nx   *)
(* of the nodes; null ends it.                                             *)
(***************************************************************************)

(* The set holds the head and, with a node, the node after it. *)
Follows(null, nx, head, set) ==
  /\ head \in set \cup {null}
  /\ \A o \in set : nx[o] \in set \cup {null}

(* The nodes that a walk from the head meets: those in every such set. *)
ListFrom(nodes, null, nx, head) ==
  {o \in nodes : \A set \in SUBSET nodes : Follows(null, nx, head, set) => o \in set}

============================================================================
