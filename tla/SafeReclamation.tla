-------------------------- MODULE SafeReclamation --------------------------
(***************************************************************************)
(* What the hazard pointer library promises: an object that has been       *)
(* retired is freed at most once, and not while a context guards it.       *)
(***************************************************************************)
CONSTANTS Contexts, Objects

VARIABLES
  obj,    \* "free", "live" or "retired", for every object
  guard   \* the objects that each context may dereference

Init ==
  /\ obj = [o \in Objects |-> "free"]
  /\ guard = [c \in Contexts |-> {}]

(* The objects of old leave the container, those of new enter it. *)
Exchange(old, new) ==
  /\ \A o \in old : obj[o] = "live"
  /\ \A n \in new : obj[n] = "free"
  /\ obj' = [o \in Objects |-> IF o \in old THEN "retired"
                               ELSE IF o \in new THEN "live" ELSE obj[o]]
  /\ UNCHANGED guard

(* Only an object that is still in the container can become guarded. *)
Guard(c, o) ==
  /\ obj[o] = "live"
  /\ guard' = [guard EXCEPT ![c] = @ \cup {o}]
  /\ UNCHANGED obj

Unguard(c, set) ==
  /\ guard' = [guard EXCEPT ![c] = @ \ set]
  /\ UNCHANGED obj

(* Retired objects that nobody guards are freed. *)
Free(set) ==
  /\ \A o \in set : obj[o] = "retired"
  /\ \A c \in Contexts : guard[c] \cap set = {}
  /\ obj' = [o \in Objects |-> IF o \in set THEN "free" ELSE obj[o]]
  /\ UNCHANGED guard

AtMostOne == {{}} \cup {{o} : o \in Objects}

Next ==
  \/ \E old, new \in AtMostOne : Exchange(old, new)
  \/ \E c \in Contexts, o \in Objects : Guard(c, o)
  \/ \E c \in Contexts : \E set \in SUBSET guard[c] : Unguard(c, set)
  \/ \E set \in SUBSET {o \in Objects : obj[o] = "retired"} : Free(set)

Spec == Init /\ [][Next]_<<obj, guard>>

============================================================================
