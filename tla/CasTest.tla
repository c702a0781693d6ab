------------------------------ MODULE CasTest ------------------------------
(***************************************************************************)
(* castest.cpp: threads that push their nodes at the head of one list of   *)
(* mark_ptr_type links, and the Rendezvous by which main starts the two    *)
(* tests and waits for them.  A step makes at most one access to shared    *)
(* memory; a node that is in the list is not written again, so that a walk *)
(* of the list is fixed by its first read of the head.                     *)
(***************************************************************************)
EXTENDS Integers, FiniteSets, MarkPtr, Lists

CONSTANTS
  num_threads,
  num_nodes,
  NULL

ASSUME CountsAssumption ==
  /\ num_threads \in Nat \ {0}
  /\ num_nodes \in Nat \ {0}

num_tests == 2
Threads == 1 .. num_threads
Tests == 0 .. num_tests - 1

(* The node b[x] of a thread; its value v is x. *)
Node == [tid : Threads, v : 0 .. num_nodes - 1]
NodeOf(t, x) == [tid |-> t, v |-> x]
OwnNodes(t) == {b \in Node : b.tid = t}

ASSUME NullAssumption == NULL \notin Node

VARIABLES
  head,        \* head.next
  next,        \* the field next of every node
  rendezvous,  \* the Rendezvous of each test
  tid_set,     \* the threads that have set up their arguments
  found,       \* the nodes whose flag found is set
  thread,      \* control state of the threads
  main         \* control state of main

vars == <<head, next, rendezvous, tid_set, found, thread, main>>

Rendezvous ==
  [num_ready : 0 .. num_threads, go : BOOLEAN,
   in_task_count : 0 .. num_threads, num_complete : 0 .. num_threads]

(* Where a thread is; x is the node that test_0 pushes next. *)
Thread ==
  [pc : {"setup", "ready", "wait_go", "start_task", "load", "cas", "end_task",
         "wait_tasks", "scan", "complete", "done"},
   test : Tests, x : 0 .. num_nodes - 1]

TypeOK ==
  /\ head \in WordOver(Node \cup {NULL})
  /\ next \in [Node -> WordOver(Node \cup {NULL})]
  /\ rendezvous \in [Tests -> Rendezvous]
  /\ tid_set \subseteq Threads
  /\ found \subseteq Node
  /\ thread \in [Threads -> Thread]
  /\ main \in [pc : {"wait_tid", "wait_ready", "wait_complete", "check", "join", "done"},
               test : Tests]

Init ==
  /\ head = Word(NULL, FALSE)
  /\ next = [b \in Node |-> Word(NULL, FALSE)]
  /\ rendezvous = [i \in Tests |-> [num_ready |-> 0, go |-> FALSE,
                                    in_task_count |-> 0, num_complete |-> 0]]
  /\ tid_set = {}
  /\ found = {}
  /\ thread = [t \in Threads |-> [pc |-> "setup", test |-> 0, x |-> num_nodes - 1]]
  /\ main = [pc |-> "wait_tid", test |-> 0]

At(t, pc) == thread[t].pc = pc
Test(t) == thread[t].test
Goto(t, pc) == thread' = [thread EXCEPT ![t].pc = pc]

-----------------------------------------------------------------------------
(***************************************************************************)
(* The threads: test_thread_fn, test_0 and test_1.                         *)
(***************************************************************************)
Setup(t) ==
  /\ At(t, "setup")
  /\ tid_set' = tid_set \cup {t}
  /\ Goto(t, "ready")
  /\ UNCHANGED <<head, next, rendezvous, found, main>>

Ready(t) ==
  /\ At(t, "ready")
  /\ rendezvous' = [rendezvous EXCEPT ![Test(t)].num_ready = @ + 1]
  /\ Goto(t, "wait_go")
  /\ UNCHANGED <<head, next, tid_set, found, main>>

WaitGo(t) ==
  /\ At(t, "wait_go")
  /\ rendezvous[Test(t)].go
  /\ Goto(t, "start_task")
  /\ UNCHANGED <<head, next, rendezvous, tid_set, found, main>>

StartTask(t) ==
  /\ At(t, "start_task")
  /\ rendezvous' = [rendezvous EXCEPT ![Test(t)].in_task_count = @ + 1]
  /\ Goto(t, IF Test(t) = 0 THEN "load" ELSE "end_task")
  /\ UNCHANGED <<head, next, tid_set, found, main>>

LoadHead(t) ==
  LET b == NodeOf(t, thread[t].x) IN
  /\ At(t, "load")
  /\ next' = [next EXCEPT ![b] = assign(@, get(head))]
  /\ Goto(t, "cas")
  /\ UNCHANGED <<head, rendezvous, tid_set, found, main>>

(* The same CAS again, against the head that was read first. *)
PushRetryStale(t) == "cas"

(* A failed CAS loads the head again. *)
PushRetry(t) == "load"

(* One attempt to push b[x]. *)
Push(t) ==
  LET b == NodeOf(t, thread[t].x)
      expected == get(next[b])
  IN
  /\ At(t, "cas")
  /\ head' = CAS(head, expected, b, FALSE)
  /\ \/ /\ CASMatches(head, expected) /\ b.v > 0
        /\ thread' = [thread EXCEPT ![t].pc = "load", ![t].x = @ - 1]
     \/ /\ CASMatches(head, expected) /\ b.v = 0
        /\ Goto(t, "end_task")
     \/ /\ ~CASMatches(head, expected)
        /\ Goto(t, PushRetry(t))
  /\ UNCHANGED <<next, rendezvous, tid_set, found, main>>

(* The call is made twice. *)
TaskEndedTwice(t) == 2

(* What end_task subtracts. *)
TaskEnded(t) == 1

EndTask(t) ==
  /\ At(t, "end_task")
  /\ rendezvous' = [rendezvous EXCEPT ![Test(t)].in_task_count = @ - TaskEnded(t)]
  /\ Goto(t, IF Test(t) = 0 THEN "wait_tasks" ELSE "complete")
  /\ UNCHANGED <<head, next, tid_set, found, main>>

(* A thread that has not yet started its task is not waited for. *)
WaitTasks(t) ==
  /\ At(t, "wait_tasks")
  /\ rendezvous[Test(t)].in_task_count = 0
  /\ Goto(t, "scan")
  /\ UNCHANGED <<head, next, rendezvous, tid_set, found, main>>

(* The nodes that a walk of the list meets from the pointer p on. *)
ListAt(p) == ListFrom(Node, NULL, [b \in Node |-> get(next[b])], p)

Listed == ListAt(get(head))

Scan(t) ==
  /\ At(t, "scan")
  /\ found' = found \cup (Listed \cap OwnNodes(t))
  /\ Goto(t, "complete")
  /\ UNCHANGED <<head, next, rendezvous, tid_set, main>>

Complete(t) ==
  /\ At(t, "complete")
  /\ rendezvous' = [rendezvous EXCEPT ![Test(t)].num_complete = @ + 1]
  /\ \/ /\ Test(t) < num_tests - 1
        /\ thread' = [thread EXCEPT ![t].pc = "ready", ![t].test = @ + 1]
     \/ /\ Test(t) = num_tests - 1
        /\ Goto(t, "done")
  /\ UNCHANGED <<head, next, tid_set, found, main>>

(***************************************************************************)
(* main.                                                                   *)
(***************************************************************************)
WaitTid ==
  /\ main.pc = "wait_tid"
  /\ tid_set = Threads
  /\ main' = [main EXCEPT !.pc = "wait_ready"]
  /\ UNCHANGED <<head, next, rendezvous, tid_set, found, thread>>

Go ==
  /\ main.pc = "wait_ready"
  /\ rendezvous[main.test].num_ready >= num_threads
  /\ rendezvous' = [rendezvous EXCEPT ![main.test].go = TRUE]
  /\ main' = [main EXCEPT !.pc = "wait_complete"]
  /\ UNCHANGED <<head, next, tid_set, found, thread>>

(* One thread too few is waited for. *)
AllCompleteButOne(i) == rendezvous[i].num_complete >= num_threads - 1

AllComplete(i) == rendezvous[i].num_complete >= num_threads

WaitComplete ==
  /\ main.pc = "wait_complete"
  /\ AllComplete(main.test)
  /\ main' = [main EXCEPT !.pc = "check"]
  /\ UNCHANGED <<head, next, rendezvous, tid_set, found, thread>>

(* The check walks the list and prints; then the next test, or the joins. *)
Check ==
  /\ main.pc = "check"
  /\ main' = IF main.test < num_tests - 1
             THEN [pc |-> "wait_ready", test |-> main.test + 1]
             ELSE [main EXCEPT !.pc = "join"]
  /\ UNCHANGED <<head, next, rendezvous, tid_set, found, thread>>

Join ==
  /\ main.pc = "join"
  /\ \A t \in Threads : At(t, "done")
  /\ main' = [main EXCEPT !.pc = "done"]
  /\ UNCHANGED <<head, next, rendezvous, tid_set, found, thread>>

Terminated ==
  /\ main.pc = "done"
  /\ UNCHANGED vars

Run(t) ==
  \/ Setup(t) \/ Ready(t) \/ WaitGo(t) \/ StartTask(t) \/ LoadHead(t) \/ Push(t)
  \/ EndTask(t) \/ WaitTasks(t) \/ Scan(t) \/ Complete(t)

Main == WaitTid \/ Go \/ WaitComplete \/ Check \/ Join

Next == (\E t \in Threads : Run(t)) \/ Main \/ Terminated

Spec == Init /\ [][Next]_vars

(* The operating system runs every thread again and again; none of them    *)
(* blocks other than by polling.                                           *)
FairSpec == Spec /\ WF_vars(Main) /\ \A t \in Threads : WF_vars(Run(t))

-----------------------------------------------------------------------------
(***************************************************************************)
(* Properties.                                                             *)
(***************************************************************************)
(* The nodes that a thread has pushed. *)
Pushed(t) ==
  LET before == {"setup", "ready", "wait_go", "start_task", "load", "cas"} IN
  {b \in OwnNodes(t) : \/ Test(t) > 0
                       \/ thread[t].pc \notin before
                       \/ b.v > thread[t].x}

(* They are all in the list, each once and in ascending order, whatever    *)
(* other threads push in between: what the scan of test_0 asserts and      *)
(* reports.                                                                *)
OwnNodesInOrder ==
  /\ \A t \in Threads : Listed \cap OwnNodes(t) = Pushed(t)
  /\ \A m \in Listed : \A n \in ListAt(get(next[m])) : m.tid = n.tid => m.v < n.v

(* When main checks a test no thread is still in it: the list has the      *)
(* nodes of all threads, every thread has found its own, and no push can   *)
(* change the list under the walk.                                         *)
CheckedWhenDone ==
  main.pc = "check" =>
    /\ Listed = Node
    /\ found = Node
    /\ \A t \in Threads : Test(t) > main.test \/ At(t, "done")

(* The program ends: no push is retried for ever, and nobody is waited for *)
(* at a rendezvous that cannot come.                                       *)
Termination == <>(main.pc = "done")

============================================================================
