------------------------------ MODULE HashSet ------------------------------
(***************************************************************************)
(* What the split-ordered list promises to its clients: a linearizable set *)
(* of hash values.  A call takes effect in one atomic step between its     *)
(* invocation and its return; insert answers whether the value was absent, *)
(* delete and find whether it was present.                                 *)
(***************************************************************************)
CONSTANTS Accessors, Hashes, Ops, NONE

VARIABLES
  items,  \* the hash values in the set
  call    \* per accessor, the call in progress and its answer, NONE until
          \* it has taken effect

Idle == [op |-> "none", hashv |-> 0, ans |-> NONE]

Init == items = {} /\ call = [t \in Accessors |-> Idle]

Call(t, op, h) ==
  /\ call[t] = Idle
  /\ call' = [call EXCEPT ![t] = [op |-> op, hashv |-> h, ans |-> NONE]]
  /\ UNCHANGED items

Apply(t) ==
  LET c == call[t]
      present == c.hashv \in items
  IN
  /\ c.op # "none" /\ c.ans = NONE
  /\ call' = [call EXCEPT ![t].ans = IF c.op = "insert" THEN ~present ELSE present]
  /\ items' = CASE c.op = "insert" -> items \cup {c.hashv}
                [] c.op = "delete" -> items \ {c.hashv}
                [] c.op = "find"   -> items

Return(t) ==
  /\ call[t].op # "none" /\ call[t].ans # NONE
  /\ call' = [call EXCEPT ![t] = Idle]
  /\ UNCHANGED items

Next ==
  \E t \in Accessors :
    \/ \E op \in Ops, h \in Hashes : Call(t, op, h)
    \/ Apply(t)
    \/ Return(t)

Spec == Init /\ [][Next]_<<items, call>>

============================================================================
