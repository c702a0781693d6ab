---------------------------- MODULE CasTestProofs ----------------------------
(***************************************************************************)
(* Proofs about castest, for any number of threads and nodes: no push is   *)
(* lost, each thread finds its nodes in order, and the counters of the     *)
(* rendezvous let main check a list that is complete and at rest.          *)
(***************************************************************************)
EXTENDS CasTest, ListLemmas, FiniteSetTheorems, TLAPS

(* A thread has been through ready, is in its task, has completed test i. *)
ReadyIn(u, i) == u.test > i \/ (u.test = i /\ u.pc \notin {"setup", "ready"})
TaskIn(u, i) == u.test = i /\ u.pc \in {"load", "cas", "end_task"}
CompleteIn(u, i) == u.test > i \/ u.pc = "done"

ReadyThreads(i) == {t \in Threads : ReadyIn(thread[t], i)}
TaskThreads(i) == {t \in Threads : TaskIn(thread[t], i)}
CompleteThreads(i) == {t \in Threads : CompleteIn(thread[t], i)}

(* The counters of a rendezvous count those threads. *)
CountersExact ==
  \A i \in Tests :
    /\ rendezvous[i].num_ready = Cardinality(ReadyThreads(i))
    /\ rendezvous[i].in_task_count = Cardinality(TaskThreads(i))
    /\ rendezvous[i].num_complete = Cardinality(CompleteThreads(i))

(* Where each test can be. *)
PlaceOf(u) ==
  /\ u.pc \in {"setup", "load", "cas", "wait_tasks", "scan"} => u.test = 0
  /\ u.pc = "done" => u.test = 1
Places == \A t \in Threads : PlaceOf(thread[t])

(* What a thread has pushed, and found, at u. *)
PushedAt(t, u) ==
  {b \in OwnNodes(t) :
     \/ u.test > 0
     \/ u.pc \notin {"setup", "ready", "wait_go", "start_task", "load", "cas"}
     \/ b.v > u.x}
FoundAt(u) == u.test > 0 \/ u.pc \in {"complete", "done"}
AllFound == \A t \in Threads : FoundAt(thread[t]) => OwnNodes(t) \subseteq found

(* Main waits for everybody. *)
MainWaited == main.pc = "check" => CompleteThreads(main.test) = Threads

IInv ==
  /\ TypeOK
  /\ Places
  /\ CountersExact
  /\ OwnNodesInOrder
  /\ AllFound
  /\ MainWaited

-----------------------------------------------------------------------------
(***************************************************************************)
(* Counting.                                                               *)
(***************************************************************************)
(* The number of some of the threads. *)
LEMMA Count ==
  ASSUME NEW T \in SUBSET Threads
  PROVE  /\ Cardinality(T) \in 0 .. num_threads
         /\ Cardinality(T) >= num_threads => T = Threads
         /\ \A t \in Threads :
              /\ Cardinality(T \cup {t}) = Cardinality(T) + (IF t \in T THEN 0 ELSE 1)
              /\ Cardinality(T \ {t}) = Cardinality(T) - (IF t \in T THEN 1 ELSE 0)
<1>1. IsFiniteSet(Threads) /\ Cardinality(Threads) = num_threads
  <2>1. 1 \in Int /\ num_threads \in Int /\ ~(1 > num_threads)
    BY CountsAssumption
  <2> QED BY <2>1, FS_Interval DEF Threads
<1>2. IsFiniteSet(T) /\ Cardinality(T) <= num_threads
      /\ (num_threads = Cardinality(T) => T = Threads)
  BY <1>1, FS_Subset
<1>3. Cardinality(T) \in Nat
  BY <1>2, FS_CardinalityType
<1>4. ASSUME NEW t \in Threads
      PROVE  /\ Cardinality(T \cup {t}) = Cardinality(T) + (IF t \in T THEN 0 ELSE 1)
             /\ Cardinality(T \ {t}) = Cardinality(T) - (IF t \in T THEN 1 ELSE 0)
  <2>1. Cardinality(T \cup {t}) = IF t \in T THEN Cardinality(T) ELSE Cardinality(T) + 1
    BY <1>2, FS_AddElement
  <2>2. Cardinality(T \ {t}) = IF t \in T THEN Cardinality(T) - 1 ELSE Cardinality(T)
    BY <1>2, FS_RemoveElement
  <2> QED BY <1>3, <2>1, <2>2
<1> QED BY <1>2, <1>3, <1>4, CountsAssumption

(* By how much a count changes. *)
Change(before, after) == (IF after THEN 1 ELSE 0) - (IF before THEN 1 ELSE 0)

(* The number of the threads that an operation puts into T or takes out. *)
LEMMA CountChange ==
  ASSUME NEW T \in SUBSET Threads, NEW U \in SUBSET Threads, NEW t \in Threads,
         \A s \in Threads \ {t} : s \in U <=> s \in T
  PROVE  Cardinality(U) = Cardinality(T) + Change(t \in T, t \in U)
<1>1. Cardinality(T) \in Int
  BY Count
<1>2. CASE t \in U
  <2>1. U = T \cup {t}
    BY <1>2
  <2>2. Cardinality(U) = Cardinality(T) + (IF t \in T THEN 0 ELSE 1)
    <3>1. Cardinality(T \cup {t}) = Cardinality(T) + (IF t \in T THEN 0 ELSE 1)
      BY Count
    <3> QED BY <2>1, <3>1, Zenon
  <2>3. Change(t \in T, t \in U) = (IF t \in T THEN 0 ELSE 1)
    BY <1>2 DEF Change
  <2> QED BY <2>2, <2>3
<1>3. CASE t \notin U
  <2>1. U = T \ {t}
    BY <1>3
  <2>2. Cardinality(U) = Cardinality(T) - (IF t \in T THEN 1 ELSE 0)
    BY <2>1, Count
  <2>3. Change(t \in T, t \in U) = 0 - (IF t \in T THEN 1 ELSE 0)
    BY <1>3 DEF Change
  <2> QED BY <1>1, <2>2, <2>3
<1> QED BY <1>2, <1>3

(* The updates of the counters agree with the step of a thread from u to w. *)
Agrees(u, w) ==
  /\ rendezvous' = [i \in Tests |-> rendezvous'[i]]
  /\ \A i \in Tests :
       /\ rendezvous'[i] = [num_ready |-> rendezvous'[i].num_ready, go |-> rendezvous[i].go,
                            in_task_count |-> rendezvous'[i].in_task_count,
                            num_complete |-> rendezvous'[i].num_complete]
       /\ rendezvous'[i].num_ready =
            rendezvous[i].num_ready + Change(ReadyIn(u, i), ReadyIn(w, i))
       /\ rendezvous'[i].in_task_count =
            rendezvous[i].in_task_count + Change(TaskIn(u, i), TaskIn(w, i))
       /\ rendezvous'[i].num_complete =
            rendezvous[i].num_complete + Change(CompleteIn(u, i), CompleteIn(w, i))

(* A step of t to u whose updates of the counters agree with it. *)
LEMMA CountersStep ==
  ASSUME IInv, NEW t \in Threads, NEW u \in Thread, PlaceOf(u),
         thread' = [thread EXCEPT ![t] = u],
         Agrees(thread[t], u)
  PROVE  /\ rendezvous' \in [Tests -> Rendezvous]
         /\ thread' \in [Threads -> Thread]
         /\ Places' /\ CountersExact'
<1> USE DEF IInv, Agrees
<1>1. \A s \in Threads : thread'[s] = IF s = t THEN u ELSE thread[s]
  BY DEF TypeOK
<1>2. thread' \in [Threads -> Thread] /\ Places'
  BY <1>1 DEF TypeOK, Places
<1>3. ASSUME NEW i \in Tests
      PROVE  /\ rendezvous'[i].num_ready = Cardinality(ReadyThreads(i)')
             /\ rendezvous'[i].in_task_count = Cardinality(TaskThreads(i)')
             /\ rendezvous'[i].num_complete = Cardinality(CompleteThreads(i)')
  <2>1. Cardinality(ReadyThreads(i)') =
          Cardinality(ReadyThreads(i)) + Change(ReadyIn(thread[t], i), ReadyIn(u, i))
    <3> DEFINE T == ReadyThreads(i)
               U == {s \in Threads : ReadyIn(thread'[s], i)}
    <3>1. /\ T \in SUBSET Threads /\ U \in SUBSET Threads
          /\ \A s \in Threads \ {t} : s \in U <=> s \in T
          /\ t \in T <=> ReadyIn(thread[t], i)
          /\ t \in U <=> ReadyIn(u, i)
      BY <1>1 DEF ReadyThreads
    <3>2. Cardinality(U) = Cardinality(T) + Change(t \in T, t \in U)
      <4> HIDE DEF T, U
      <4> QED BY <3>1, CountChange
    <3> QED BY <3>1, <3>2 DEF ReadyThreads, Change
  <2>2. Cardinality(TaskThreads(i)') =
          Cardinality(TaskThreads(i)) + Change(TaskIn(thread[t], i), TaskIn(u, i))
    <3> DEFINE T == TaskThreads(i)
               U == {s \in Threads : TaskIn(thread'[s], i)}
    <3>1. /\ T \in SUBSET Threads /\ U \in SUBSET Threads
          /\ \A s \in Threads \ {t} : s \in U <=> s \in T
          /\ t \in T <=> TaskIn(thread[t], i)
          /\ t \in U <=> TaskIn(u, i)
      BY <1>1 DEF TaskThreads
    <3>2. Cardinality(U) = Cardinality(T) + Change(t \in T, t \in U)
      <4> HIDE DEF T, U
      <4> QED BY <3>1, CountChange
    <3> QED BY <3>1, <3>2 DEF TaskThreads, Change
  <2>3. Cardinality(CompleteThreads(i)') =
          Cardinality(CompleteThreads(i)) + Change(CompleteIn(thread[t], i), CompleteIn(u, i))
    <3> DEFINE T == CompleteThreads(i)
               U == {s \in Threads : CompleteIn(thread'[s], i)}
    <3>1. /\ T \in SUBSET Threads /\ U \in SUBSET Threads
          /\ \A s \in Threads \ {t} : s \in U <=> s \in T
          /\ t \in T <=> CompleteIn(thread[t], i)
          /\ t \in U <=> CompleteIn(u, i)
      BY <1>1 DEF CompleteThreads
    <3>2. Cardinality(U) = Cardinality(T) + Change(t \in T, t \in U)
      <4> HIDE DEF T, U
      <4> QED BY <3>1, CountChange
    <3> QED BY <3>1, <3>2 DEF CompleteThreads, Change
  <2> QED BY <2>1, <2>2, <2>3 DEF CountersExact
<1>4. CountersExact'
  BY <1>3 DEF CountersExact
<1>5. ASSUME NEW i \in Tests PROVE rendezvous'[i] \in Rendezvous
  <2>1. /\ ReadyThreads(i)' \in SUBSET Threads
        /\ TaskThreads(i)' \in SUBSET Threads
        /\ CompleteThreads(i)' \in SUBSET Threads
    BY DEF ReadyThreads, TaskThreads, CompleteThreads
  <2>2. /\ rendezvous'[i].num_ready \in 0 .. num_threads
        /\ rendezvous'[i].in_task_count \in 0 .. num_threads
        /\ rendezvous'[i].num_complete \in 0 .. num_threads
    BY <1>3, <2>1, Count
  <2>3. rendezvous[i].go \in BOOLEAN
    BY DEF TypeOK, Rendezvous
  <2> QED BY <2>2, <2>3 DEF Rendezvous
<1> QED BY <1>2, <1>4, <1>5

-----------------------------------------------------------------------------
(***************************************************************************)
(* The list.                                                               *)
(***************************************************************************)
NextOf == [b \in Node |-> next[b].ptr]

(* A list over the links nx, and what OwnNodesInOrder says of it. *)
ListOf(nx, p) == ListFrom(Node, NULL, nx, p)
Sorted(nx, p) ==
  \A m \in ListOf(nx, p) : \A n \in ListOf(nx, nx[m]) : m.tid = n.tid => m.v < n.v
Holds(nx, p, th) ==
  /\ \A t \in Threads : ListOf(nx, p) \cap OwnNodes(t) = PushedAt(t, th[t])
  /\ Sorted(nx, p)

(* The type of the links. *)
LEMMA LinkTypes ==
  ASSUME TypeOK
  PROVE  /\ NextOf \in Links(Node, NULL)
         /\ head.ptr \in Node \cup {NULL}
         /\ Listed = ListOf(NextOf, head.ptr)
         /\ Listed \subseteq Node
<1>1. \A b \in Node : next[b].ptr \in Node \cup {NULL}
  BY DEF TypeOK, WordOver
<1>2. NextOf \in Links(Node, NULL) /\ head.ptr \in Node \cup {NULL}
  BY <1>1 DEF NextOf, Links, TypeOK, WordOver
<1>3. Listed = ListOf(NextOf, head.ptr)
  BY DEF Listed, ListAt, NextOf, get, ListOf
<1>4. Listed \subseteq Node
  BY <1>3 DEF ListFrom, ListOf
<1> QED BY <1>2, <1>3, <1>4

(* OwnNodesInOrder, in terms of the links and the threads. *)
LEMMA InOrder ==
  /\ OwnNodesInOrder <=> Holds(NextOf, head.ptr, thread)
  /\ OwnNodesInOrder' <=> Holds(NextOf', head'.ptr, thread')
<1>1. ListOf(NextOf, head.ptr) \subseteq Node /\ ListOf(NextOf', head'.ptr) \subseteq Node
  BY DEF ListOf, ListFrom
<1>2. /\ \A m \in Node : NextOf[m] = get(next[m])
      /\ \A m \in Node : NextOf'[m] = get(next'[m])
  BY DEF NextOf, get
<1>3. /\ Listed = ListOf(NextOf, head.ptr)
      /\ Listed' = ListOf(NextOf', head'.ptr)
  BY DEF Listed, ListAt, NextOf, get, ListOf
<1>4. /\ \A m \in Node : ListAt(get(next[m])) = ListOf(NextOf, NextOf[m])
      /\ \A m \in Node : ListFrom(Node, NULL, [b \in Node |-> get(next'[b])], get(next'[m]))
                         = ListOf(NextOf', NextOf'[m])
  BY DEF ListAt, NextOf, get, ListOf
<1>5. /\ \A t \in Threads : Pushed(t) = PushedAt(t, thread[t])
      /\ \A t \in Threads : Pushed(t)' = PushedAt(t, thread'[t])
  BY DEF Pushed, PushedAt, Test
<1>6. OwnNodesInOrder <=> Holds(NextOf, head.ptr, thread)
  BY <1>1, <1>3, <1>4, <1>5 DEF OwnNodesInOrder, Holds, Sorted
<1>7. OwnNodesInOrder' <=> Holds(NextOf', head'.ptr, thread')
  BY <1>1, <1>3, <1>4, <1>5 DEF OwnNodesInOrder, Holds, Sorted, ListAt
<1> QED BY <1>6, <1>7

(* A step that leaves the links alone and pushes nothing. *)
LEMMA ListQuiet ==
  ASSUME IInv, NEW t \in Threads, NEW u \in Thread, thread' = [thread EXCEPT ![t] = u],
         UNCHANGED <<head, next>>, PushedAt(t, u) = PushedAt(t, thread[t])
  PROVE  OwnNodesInOrder'
<1>1. \A s \in Threads : thread'[s] = IF s = t THEN u ELSE thread[s]
  BY DEF IInv, TypeOK
<1>2. NextOf' = NextOf /\ head'.ptr = head.ptr
  BY DEF NextOf
<1>3. Holds(NextOf, head.ptr, thread)
  BY InOrder DEF IInv
<1>4. Holds(NextOf', head'.ptr, thread')
  BY <1>1, <1>2, <1>3 DEF Holds
<1> QED BY <1>4, InOrder

(* A link that is not in the list is set. *)
LEMMA ListUntouched ==
  ASSUME NEW nx \in Links(Node, NULL), NEW ny \in Links(Node, NULL),
         NEW p \in Node \cup {NULL}, NEW b,
         b \notin ListOf(nx, p), \A o \in Node \ {b} : ny[o] = nx[o], Sorted(nx, p)
  PROVE  ListOf(ny, p) = ListOf(nx, p) /\ Sorted(ny, p)
<1>1. \A o \in ListOf(nx, p) : o \in Node /\ ny[o] = nx[o]
  BY DEF ListOf, ListFrom
<1>2. ListOf(ny, p) = ListOf(nx, p)
  BY <1>1, ListFrame, NullAssumption DEF ListOf
<1>3. ASSUME NEW m \in ListOf(nx, p)
      PROVE  ny[m] = nx[m] /\ ListOf(ny, ny[m]) = ListOf(nx, nx[m])
  <2>1. nx[m] \in Node \cup {NULL} /\ ListOf(nx, nx[m]) \subseteq ListOf(nx, p)
    BY <1>3, ListSuffix, NullAssumption DEF ListOf
  <2>2. \A o \in ListOf(nx, nx[m]) : ny[o] = nx[o]
    BY <1>1, <2>1
  <2>3. ListOf(ny, nx[m]) = ListOf(nx, nx[m])
    BY <2>1, <2>2, ListFrame, NullAssumption DEF ListOf
  <2> QED BY <1>1, <2>3
<1> QED BY <1>2, <1>3 DEF Sorted

(* A node is pushed: its link leads to the head, and the nodes of its      *)
(* thread that are in the list have larger numbers.                        *)
LEMMA ListPush ==
  ASSUME NEW nx \in Links(Node, NULL), NEW b \in Node, Sorted(nx, nx[b]),
         \A n \in ListOf(nx, nx[b]) : b.tid = n.tid => b.v < n.v
  PROVE  ListOf(nx, b) = {b} \cup ListOf(nx, nx[b]) /\ Sorted(nx, b)
<1>1. ListOf(nx, b) = {b} \cup ListOf(nx, nx[b])
  BY ListHead, NullAssumption DEF ListOf
<1> QED BY <1>1 DEF Sorted

-----------------------------------------------------------------------------
(***************************************************************************)
(* The steps.                                                              *)
(***************************************************************************)
(* A step of the thread t to u. *)
LEMMA ThreadStep ==
  ASSUME IInv, NEW t \in Threads, NEW u \in Thread, PlaceOf(u),
         thread' = [thread EXCEPT ![t] = u], Agrees(thread[t], u),
         head' \in WordOver(Node \cup {NULL}), next' \in [Node -> WordOver(Node \cup {NULL})],
         tid_set' \subseteq Threads, found' \subseteq Node, found \subseteq found',
         FoundAt(u) => OwnNodes(t) \subseteq found',
         \A i \in Tests : CompleteIn(thread[t], i) => CompleteIn(u, i),
         OwnNodesInOrder', main' = main
  PROVE  IInv'
<1> USE DEF IInv
<1>1. \A s \in Threads : thread'[s] = IF s = t THEN u ELSE thread[s]
  BY DEF TypeOK
<1>2. /\ rendezvous' \in [Tests -> Rendezvous]
      /\ thread' \in [Threads -> Thread]
      /\ Places' /\ CountersExact'
  BY CountersStep
<1>3. TypeOK'
  BY <1>2 DEF TypeOK
<1>4. AllFound'
  BY <1>1 DEF AllFound
<1>5. MainWaited'
  <2>1. main.test \in Tests
    BY DEF TypeOK
  <2>2. CompleteThreads(main.test) \subseteq CompleteThreads(main.test)'
    BY <1>1, <2>1 DEF CompleteThreads
  <2>3. CompleteThreads(main.test)' \subseteq Threads
    BY DEF CompleteThreads
  <2> QED BY <2>2, <2>3 DEF MainWaited
<1> QED BY <1>2, <1>3, <1>4, <1>5

(* The counters of the test of t. *)
LEMMA CounterTypes ==
  ASSUME TypeOK
  PROVE  /\ Tests = {0, 1}
         /\ rendezvous = [i \in Tests |-> rendezvous[i]]
         /\ \A i \in Tests :
              /\ rendezvous[i] = [num_ready |-> rendezvous[i].num_ready, go |-> rendezvous[i].go,
                                  in_task_count |-> rendezvous[i].in_task_count,
                                  num_complete |-> rendezvous[i].num_complete]
              /\ rendezvous[i].num_ready \in Int
              /\ rendezvous[i].in_task_count \in Int
              /\ rendezvous[i].num_complete \in Int
<1>1. Tests = {0, 1}
  BY DEF Tests, num_tests
<1> QED BY <1>1, CountsAssumption DEF TypeOK, Rendezvous

(* A step within a test that changes no counter, link or flag. *)
LEMMA QuietStep ==
  ASSUME IInv, NEW t \in Threads, NEW u \in Thread,
         thread' = [thread EXCEPT ![t] = u],
         u.test = thread[t].test, u.x = thread[t].x,
         \/ thread[t].pc = "setup" /\ u.pc = "ready"
         \/ thread[t].pc = "wait_go" /\ u.pc = "start_task"
         \/ thread[t].pc = "wait_tasks" /\ u.pc = "scan",
         tid_set' \subseteq Threads,
         UNCHANGED <<head, next, rendezvous, found, main>>
  PROVE  IInv'
<1> USE DEF IInv
<1>1. thread[t] \in Thread /\ PlaceOf(thread[t])
  BY DEF TypeOK, Places
<1>2. PlaceOf(u)
  BY <1>1 DEF PlaceOf
<1>3. Agrees(thread[t], u)
  BY CounterTypes DEF Agrees, Change, ReadyIn, TaskIn, CompleteIn
<1>4. PushedAt(t, u) = PushedAt(t, thread[t])
  BY DEF PushedAt
<1>5. OwnNodesInOrder'
  BY <1>4, ListQuiet
<1>6. FoundAt(u) => OwnNodes(t) \subseteq found'
  BY DEF FoundAt, AllFound
<1>7. \A i \in Tests : CompleteIn(thread[t], i) => CompleteIn(u, i)
  BY DEF CompleteIn
<1> QED BY <1>2, <1>3, <1>5, <1>6, <1>7, ThreadStep DEF TypeOK

(* Setup, WaitGo and WaitTasks. *)
LEMMA WaitInv ==
  ASSUME IInv, NEW t \in Threads, Setup(t) \/ WaitGo(t) \/ WaitTasks(t)
  PROVE  IInv'
<1> DEFINE pc == IF thread[t].pc = "setup" THEN "ready"
                 ELSE IF thread[t].pc = "wait_go" THEN "start_task" ELSE "scan"
           u == [thread[t] EXCEPT !.pc = pc]
<1>1. thread[t] \in Thread
  BY DEF IInv, TypeOK
<1>2. thread' = [thread EXCEPT ![t] = u]
  BY DEF Setup, WaitGo, WaitTasks, Goto, At
<1>3. /\ tid_set' \subseteq Threads
      /\ UNCHANGED <<head, next, rendezvous, found, main>>
  BY DEF IInv, TypeOK, Setup, WaitGo, WaitTasks
<1>4. /\ u \in Thread /\ u.test = thread[t].test /\ u.x = thread[t].x
      /\ \/ thread[t].pc = "setup" /\ u.pc = "ready"
         \/ thread[t].pc = "wait_go" /\ u.pc = "start_task"
         \/ thread[t].pc = "wait_tasks" /\ u.pc = "scan"
  BY <1>1 DEF Thread, Setup, WaitGo, WaitTasks, At
<1> HIDE DEF u
<1> QED BY <1>2, <1>3, <1>4, QuietStep

(* A step that counts. *)
LEMMA CountStep ==
  ASSUME IInv, NEW t \in Threads, NEW u \in Thread,
         thread' = [thread EXCEPT ![t] = u], Agrees(thread[t], u),
         u.x = thread[t].x, PlaceOf(u),
         u.test = thread[t].test \/ thread[t].pc = "complete",
         PushedAt(t, u) = PushedAt(t, thread[t]),
         FoundAt(u) => FoundAt(thread[t]),
         \A i \in Tests : CompleteIn(thread[t], i) => CompleteIn(u, i),
         UNCHANGED <<head, next, tid_set, found, main>>
  PROVE  IInv'
<1> USE DEF IInv
<1>1. OwnNodesInOrder'
  BY ListQuiet
<1>2. FoundAt(u) => OwnNodes(t) \subseteq found'
  BY DEF AllFound
<1> QED BY <1>1, <1>2, ThreadStep DEF TypeOK

(* ready(). *)
LEMMA ReadyInv ==
  ASSUME IInv, NEW t \in Threads, Ready(t)
  PROVE  IInv'
<1> USE DEF IInv
<1> DEFINE w == thread[t]
           u == [w EXCEPT !.pc = "wait_go"]
<1>1. w \in Thread /\ PlaceOf(w) /\ w.pc = "ready"
  BY DEF TypeOK, Places, Ready, At
<1>2. thread' = [thread EXCEPT ![t] = u] /\ UNCHANGED <<head, next, tid_set, found, main>>
  BY <1>1 DEF Ready, Goto, Test
<1>3. /\ u \in Thread /\ u.x = w.x /\ w.test \in Tests
      /\ u.test = w.test /\ u.pc = "wait_go"
  BY <1>1 DEF Thread, Tests, num_tests
<1> HIDE DEF u
<1>4. Agrees(w, u)
  <2>1. rendezvous' = [rendezvous EXCEPT ![w.test].num_ready = @ + (1)]
    BY DEF Ready, Test
  <2>2. \A i \in Tests : /\ Change(ReadyIn(w, i), ReadyIn(u, i)) = IF i = w.test THEN 1 ELSE 0
                         /\ Change(TaskIn(w, i), TaskIn(u, i)) = 0
                         /\ Change(CompleteIn(w, i), CompleteIn(u, i)) = 0
    BY <1>1, <1>3 DEF Change, ReadyIn, TaskIn, CompleteIn, PlaceOf, Tests, num_tests
  <2>3. \A i \in Tests :
          /\ i = w.test => rendezvous'[i] = [rendezvous[i] EXCEPT !.num_ready = @ + (1)]
          /\ i # w.test => rendezvous'[i] = rendezvous[i]
    BY <2>1, CounterTypes
  <2>4. rendezvous' = [i \in Tests |-> rendezvous'[i]]
    BY <2>1, CounterTypes
  <2> QED BY <2>2, <2>3, <2>4, CounterTypes DEF Agrees
<1>5. PushedAt(t, u) = PushedAt(t, w)
  BY <1>1, <1>3 DEF PushedAt, PlaceOf, Tests, num_tests
<1>6. /\ PlaceOf(u) /\ (FoundAt(u) => FoundAt(w))
      /\ \A i \in Tests : CompleteIn(w, i) => CompleteIn(u, i)
  BY <1>1, <1>3 DEF PlaceOf, FoundAt, CompleteIn, Tests, num_tests
<1> QED BY <1>1, <1>2, <1>3, <1>4, <1>5, <1>6, CountStep

(* start_task(). *)
LEMMA StartTaskInv ==
  ASSUME IInv, NEW t \in Threads, StartTask(t)
  PROVE  IInv'
<1> USE DEF IInv
<1> DEFINE w == thread[t]
           u == [w EXCEPT !.pc = IF w.test = 0 THEN "load" ELSE "end_task"]
<1>1. w \in Thread /\ PlaceOf(w) /\ w.pc = "start_task"
  BY DEF TypeOK, Places, StartTask, At
<1>2. thread' = [thread EXCEPT ![t] = u] /\ UNCHANGED <<head, next, tid_set, found, main>>
  BY <1>1 DEF StartTask, Goto, Test
<1>3. /\ u \in Thread /\ u.x = w.x /\ w.test \in Tests
      /\ u.test = w.test /\ u.pc = (IF w.test = 0 THEN "load" ELSE "end_task")
  BY <1>1 DEF Thread, Tests, num_tests
<1> HIDE DEF u
<1>4. Agrees(w, u)
  <2>1. rendezvous' = [rendezvous EXCEPT ![w.test].in_task_count = @ + (1)]
    BY DEF StartTask, Test
  <2>2. \A i \in Tests : /\ Change(ReadyIn(w, i), ReadyIn(u, i)) = 0
                         /\ Change(TaskIn(w, i), TaskIn(u, i)) = IF i = w.test THEN 1 ELSE 0
                         /\ Change(CompleteIn(w, i), CompleteIn(u, i)) = 0
    BY <1>1, <1>3 DEF Change, ReadyIn, TaskIn, CompleteIn, PlaceOf, Tests, num_tests
  <2>3. \A i \in Tests :
          /\ i = w.test => rendezvous'[i] = [rendezvous[i] EXCEPT !.in_task_count = @ + (1)]
          /\ i # w.test => rendezvous'[i] = rendezvous[i]
    BY <2>1, CounterTypes
  <2>4. rendezvous' = [i \in Tests |-> rendezvous'[i]]
    BY <2>1, CounterTypes
  <2> QED BY <2>2, <2>3, <2>4, CounterTypes DEF Agrees
<1>5. PushedAt(t, u) = PushedAt(t, w)
  BY <1>1, <1>3 DEF PushedAt, PlaceOf, Tests, num_tests
<1>6. /\ PlaceOf(u) /\ (FoundAt(u) => FoundAt(w))
      /\ \A i \in Tests : CompleteIn(w, i) => CompleteIn(u, i)
  BY <1>1, <1>3 DEF PlaceOf, FoundAt, CompleteIn, Tests, num_tests
<1> QED BY <1>1, <1>2, <1>3, <1>4, <1>5, <1>6, CountStep

(* end_task(), after the last push. *)
LEMMA EndTaskInv ==
  ASSUME IInv, NEW t \in Threads, EndTask(t)
  PROVE  IInv'
<1> USE DEF IInv
<1> DEFINE w == thread[t]
           u == [w EXCEPT !.pc = IF w.test = 0 THEN "wait_tasks" ELSE "complete"]
<1>1. w \in Thread /\ PlaceOf(w) /\ w.pc = "end_task"
  BY DEF TypeOK, Places, EndTask, At
<1>2. thread' = [thread EXCEPT ![t] = u] /\ UNCHANGED <<head, next, tid_set, found, main>>
  BY <1>1 DEF EndTask, Goto, Test
<1>3. /\ u \in Thread /\ u.x = w.x /\ w.test \in Tests
      /\ u.test = w.test /\ u.pc = (IF w.test = 0 THEN "wait_tasks" ELSE "complete")
  BY <1>1 DEF Thread, Tests, num_tests
<1> HIDE DEF u
<1>4. Agrees(w, u)
  <2>1. rendezvous' = [rendezvous EXCEPT ![w.test].in_task_count = @ + (-1)]
    BY DEF EndTask, Test, TaskEnded
  <2>2. \A i \in Tests : /\ Change(ReadyIn(w, i), ReadyIn(u, i)) = 0
                         /\ Change(TaskIn(w, i), TaskIn(u, i)) = IF i = w.test THEN -1 ELSE 0
                         /\ Change(CompleteIn(w, i), CompleteIn(u, i)) = 0
    BY <1>1, <1>3 DEF Change, ReadyIn, TaskIn, CompleteIn, PlaceOf, Tests, num_tests
  <2>3. \A i \in Tests :
          /\ i = w.test => rendezvous'[i] = [rendezvous[i] EXCEPT !.in_task_count = @ + (-1)]
          /\ i # w.test => rendezvous'[i] = rendezvous[i]
    BY <2>1, CounterTypes
  <2>4. rendezvous' = [i \in Tests |-> rendezvous'[i]]
    BY <2>1, CounterTypes
  <2> QED BY <2>2, <2>3, <2>4, CounterTypes DEF Agrees
<1>5. PushedAt(t, u) = PushedAt(t, w)
  BY <1>1, <1>3 DEF PushedAt, PlaceOf, Tests, num_tests
<1>6. /\ PlaceOf(u) /\ (FoundAt(u) => FoundAt(w))
      /\ \A i \in Tests : CompleteIn(w, i) => CompleteIn(u, i)
  BY <1>1, <1>3 DEF PlaceOf, FoundAt, CompleteIn, Tests, num_tests
<1> QED BY <1>1, <1>2, <1>3, <1>4, <1>5, <1>6, CountStep

(* complete(), and on to the next test. *)
LEMMA CompleteInv ==
  ASSUME IInv, NEW t \in Threads, Complete(t)
  PROVE  IInv'
<1> USE DEF IInv
<1> DEFINE w == thread[t]
           u == IF w.test = 0 THEN [w EXCEPT !.pc = "ready", !.test = w.test + 1]
                ELSE [w EXCEPT !.pc = "done"]
<1>1. w \in Thread /\ PlaceOf(w) /\ w.pc = "complete"
  BY DEF TypeOK, Places, Complete, At
<1>2. thread' = [thread EXCEPT ![t] = u] /\ UNCHANGED <<head, next, tid_set, found, main>>
  BY <1>1 DEF Complete, Goto, Test, Thread, Tests, num_tests
<1>3. /\ u \in Thread /\ u.x = w.x /\ w.test \in Tests
      /\ (w.test = 0 /\ u.test = 1 /\ u.pc = "ready") \/ (w.test = 1 /\ u.test = 1 /\ u.pc = "done")
  <2>1. w.test \in {0, 1}
    BY <1>1 DEF Thread, Tests, num_tests
  <2>2. CASE w.test = 0
    <3>1. u = [w EXCEPT !.pc = "ready", !.test = 1] /\ Tests = {0, 1}
      BY <2>2 DEF Tests, num_tests
    <3> HIDE DEF u
    <3> QED BY <1>1, <2>2, <3>1 DEF Thread
  <2>3. CASE w.test = 1
    BY <1>1, <2>3 DEF Thread, Tests, num_tests
  <2> QED BY <2>1, <2>2, <2>3
<1> HIDE DEF u
<1>4. Agrees(w, u)
  <2>1. rendezvous' = [rendezvous EXCEPT ![w.test].num_complete = @ + (1)]
    BY DEF Complete, Test
  <2>2. \A i \in Tests : /\ Change(ReadyIn(w, i), ReadyIn(u, i)) = 0
                         /\ Change(TaskIn(w, i), TaskIn(u, i)) = 0
                         /\ Change(CompleteIn(w, i), CompleteIn(u, i)) = IF i = w.test THEN 1 ELSE 0
    BY <1>1, <1>3 DEF Change, ReadyIn, TaskIn, CompleteIn, PlaceOf, Tests, num_tests
  <2>3. \A i \in Tests :
          /\ i = w.test => rendezvous'[i] = [rendezvous[i] EXCEPT !.num_complete = @ + (1)]
          /\ i # w.test => rendezvous'[i] = rendezvous[i]
    BY <2>1, CounterTypes
  <2>4. rendezvous' = [i \in Tests |-> rendezvous'[i]]
    BY <2>1, CounterTypes
  <2> QED BY <2>2, <2>3, <2>4, CounterTypes DEF Agrees
<1>5. PushedAt(t, u) = PushedAt(t, w)
  BY <1>1, <1>3 DEF PushedAt, PlaceOf, Tests, num_tests
<1>6. /\ PlaceOf(u) /\ (FoundAt(u) => FoundAt(w))
      /\ \A i \in Tests : CompleteIn(w, i) => CompleteIn(u, i)
  BY <1>1, <1>3 DEF PlaceOf, FoundAt, CompleteIn, Tests, num_tests
<1> QED BY <1>1, <1>2, <1>3, <1>4, <1>5, <1>6, CountStep

(* The thread t is in test_0, and its node b[x] is not yet in the list. *)
LEMMA Pushing ==
  ASSUME IInv, NEW t \in Threads, thread[t].pc \in {"load", "cas"}
  PROVE  LET b == NodeOf(t, thread[t].x) IN
         /\ thread[t] \in Thread /\ thread[t].test = 0
         /\ thread[t].x \in Int
         /\ b \in Node /\ b.tid = t /\ b.v = thread[t].x
         /\ b \notin ListOf(NextOf, head.ptr)
         /\ \A n \in ListOf(NextOf, head.ptr) : n \in Node /\ (b.tid = n.tid => b.v < n.v)
<1> USE DEF IInv
<1> DEFINE w == thread[t]
           b == NodeOf(t, w.x)
<1>1. w \in Thread /\ w.test = 0
  BY DEF TypeOK, Places, PlaceOf
<1>2. /\ w.x \in Int /\ b \in Node /\ b.tid = t /\ b.v = w.x
      /\ \A n \in Node : n.v \in Int
  BY <1>1, CountsAssumption DEF Thread, NodeOf, Node
<1>3. \A n \in Node : n \in ListOf(NextOf, head.ptr) /\ n.tid = t => n.v > w.x
  <2>1. ListOf(NextOf, head.ptr) \cap OwnNodes(t) = PushedAt(t, w)
    BY InOrder DEF Holds
  <2> QED BY <1>1, <2>1 DEF PushedAt, OwnNodes
<1>4. ListOf(NextOf, head.ptr) \subseteq Node
  BY DEF ListOf, ListFrom
<1> HIDE DEF w, b
<1> QED BY <1>1, <1>2, <1>3, <1>4 DEF w, b

(* The load of the head into the link of b[x]. *)
LEMMA LoadHeadInv ==
  ASSUME IInv, NEW t \in Threads, LoadHead(t)
  PROVE  IInv'
<1> USE DEF IInv
<1> DEFINE w == thread[t]
           b == NodeOf(t, w.x)
           u == [w EXCEPT !.pc = "cas"]
<1>1. w.pc = "load"
  BY DEF LoadHead, At
<1>2. /\ w \in Thread /\ w.test = 0 /\ b \in Node
      /\ b \notin ListOf(NextOf, head.ptr)
  BY <1>1, Pushing
<1>3. /\ thread' = [thread EXCEPT ![t] = u]
      /\ next' = [next EXCEPT ![b] = assign(@, get(head))]
      /\ UNCHANGED <<head, rendezvous, tid_set, found, main>>
  BY DEF LoadHead, Goto
<1>4. u \in Thread /\ u.x = w.x /\ u.test = 0 /\ u.pc = "cas"
  BY <1>2 DEF Thread
<1> HIDE DEF u, b
<1>5. Agrees(w, u)
  BY <1>1, <1>2, <1>3, <1>4, CounterTypes DEF Agrees, Change, ReadyIn, TaskIn, CompleteIn
<1>6. next' \in [Node -> WordOver(Node \cup {NULL})]
  BY <1>3, LinkTypes DEF TypeOK, WordOver, assign, Word, get
<1>7. OwnNodesInOrder'
  <2>1. NextOf' \in Links(Node, NULL) /\ head'.ptr = head.ptr
    BY <1>3, <1>6 DEF NextOf, Links, WordOver
  <2>2. \A o \in Node \ {b} : NextOf'[o] = NextOf[o]
    BY <1>3 DEF NextOf, TypeOK
  <2>3. Holds(NextOf, head.ptr, thread)
    BY InOrder
  <2>4. /\ ListOf(NextOf', head.ptr) = ListOf(NextOf, head.ptr)
        /\ Sorted(NextOf', head.ptr)
    BY <1>2, <2>1, <2>2, <2>3, LinkTypes, ListUntouched DEF Holds
  <2>5. \A s \in Threads : PushedAt(s, thread'[s]) = PushedAt(s, thread[s])
    <3>1. PushedAt(t, u) = PushedAt(t, w)
      BY <1>1, <1>2, <1>4 DEF PushedAt
    <3>2. \A s \in Threads : thread'[s] = IF s = t THEN u ELSE thread[s]
      BY <1>3 DEF TypeOK
    <3> QED BY <3>1, <3>2
  <2>6. Holds(NextOf', head'.ptr, thread')
    BY <2>1, <2>3, <2>4, <2>5 DEF Holds
  <2> QED BY <2>6, InOrder
<1>8. /\ PlaceOf(u) /\ ~FoundAt(u)
      /\ \A i \in Tests : CompleteIn(w, i) => CompleteIn(u, i)
  BY <1>1, <1>2, <1>4 DEF PlaceOf, FoundAt, CompleteIn, Tests, num_tests
<1> QED BY <1>3, <1>4, <1>5, <1>6, <1>7, <1>8, ThreadStep DEF TypeOK

(* The push of b[x].  That the CAS succeeds says that the link of b[x]     *)
(* still leads to the whole list.                                          *)
LEMMA PushInv ==
  ASSUME IInv, NEW t \in Threads, Push(t)
  PROVE  IInv'
<1> USE DEF IInv
<1> DEFINE w == thread[t]
           b == NodeOf(t, w.x)
           won == CASMatches(head, get(next[b]))
           more == won /\ w.x > 0
           u == [pc |-> IF won /\ w.x = 0 THEN "end_task" ELSE "load",
                 test |-> w.test, x |-> IF more THEN w.x - 1 ELSE w.x]
<1>1. w.pc = "cas"
  BY DEF Push, At
<1>2. /\ w \in Thread /\ w.test = 0 /\ w.x \in Int
      /\ b \in Node /\ b.tid = t /\ b.v = w.x
      /\ b \notin ListOf(NextOf, head.ptr)
      /\ \A n \in ListOf(NextOf, head.ptr) : n \in Node /\ (b.tid = n.tid => b.v < n.v)
  BY <1>1, Pushing
<1>3. w.x \in 0 .. num_nodes - 1 /\ w = [pc |-> w.pc, test |-> w.test, x |-> w.x]
  BY <1>2 DEF Thread
<1>4. thread' = [thread EXCEPT ![t] = u]
  BY <1>2, <1>3, CountsAssumption DEF Push, Goto, PushRetry, TypeOK
<1>5. /\ head' = IF won THEN Word(b, FALSE) ELSE head
      /\ UNCHANGED <<next, rendezvous, tid_set, found, main>>
  BY DEF Push, CAS
<1>6. /\ u \in Thread /\ u.test = 0
      /\ u.pc = (IF won /\ w.x = 0 THEN "end_task" ELSE "load")
      /\ u.x = (IF more THEN w.x - 1 ELSE w.x)
  <2>1. (IF more THEN w.x - 1 ELSE w.x) \in 0 .. num_nodes - 1
    BY <1>3, CountsAssumption
  <2> QED BY <1>2, <2>1 DEF Thread
<1> HIDE DEF u, b
<1>7. Agrees(w, u)
  BY <1>1, <1>2, <1>5, <1>6, CounterTypes DEF Agrees, Change, ReadyIn, TaskIn, CompleteIn
<1>8. head' \in WordOver(Node \cup {NULL})
  BY <1>2, <1>5 DEF TypeOK, WordOver, Word
<1>9. OwnNodesInOrder'
  <2>1. CASE ~won
    <3>1. PushedAt(t, u) = PushedAt(t, w)
      BY <1>1, <1>2, <1>6, <2>1 DEF PushedAt
    <3> QED BY <1>4, <1>5, <1>6, <2>1, <3>1, ListQuiet
  <2>2. CASE won
    <3>1. NextOf \in Links(Node, NULL) /\ NextOf' = NextOf /\ head'.ptr = b
      BY <1>5, <2>2, LinkTypes DEF NextOf, Word
    <3>2. NextOf[b] = head.ptr
      BY <1>2, <2>2 DEF NextOf, CASMatches, Word, get
    <3>3. Holds(NextOf, head.ptr, thread)
      BY InOrder
    <3>4. /\ ListOf(NextOf, b) = {b} \cup ListOf(NextOf, head.ptr)
          /\ Sorted(NextOf, b)
      BY <1>2, <3>1, <3>2, <3>3, ListPush DEF Holds
    <3>5. ASSUME NEW s \in Threads
          PROVE  ListOf(NextOf, b) \cap OwnNodes(s) = PushedAt(s, thread'[s])
      <4>1. ListOf(NextOf, head.ptr) \cap OwnNodes(s) = PushedAt(s, thread[s])
        BY <3>3 DEF Holds
      <4>2. CASE s = t
        <5>1. thread'[s] = u
          BY <1>4, <4>2 DEF TypeOK
        <5>2. PushedAt(t, u) = {b} \cup PushedAt(t, w)
          <6>1. ASSUME NEW n \in OwnNodes(t)
                PROVE  n \in PushedAt(t, u) <=> n = b \/ n \in PushedAt(t, w)
            <7>1. n \in Node /\ n.tid = t /\ n.v \in 0 .. num_nodes - 1
                  /\ n = [tid |-> n.tid, v |-> n.v] /\ b = [tid |-> b.tid, v |-> b.v]
              BY <1>2 DEF OwnNodes, Node
            <7>2. n = b <=> n.v = w.x
              BY <1>2, <7>1
            <7>3. n \in PushedAt(t, w) <=> n.v > w.x
              BY <1>1, <1>2 DEF PushedAt
            <7>4. n \in PushedAt(t, u) <=> n.v >= w.x
              BY <1>2, <1>3, <1>6, <2>2, <7>1, CountsAssumption DEF PushedAt
            <7> QED BY <1>3, <7>1, <7>2, <7>3, <7>4, CountsAssumption
          <6>2. b \in OwnNodes(t) /\ PushedAt(t, u) \subseteq OwnNodes(t)
                /\ PushedAt(t, w) \subseteq OwnNodes(t)
            BY <1>2 DEF OwnNodes, PushedAt
          <6> QED BY <6>1, <6>2
        <5>3. b \in OwnNodes(t)
          BY <1>2 DEF OwnNodes
        <5> QED BY <3>4, <4>1, <4>2, <5>1, <5>2, <5>3
      <4>3. CASE s # t
        <5>1. thread'[s] = thread[s]
          BY <1>4, <4>3 DEF TypeOK
        <5>2. b \notin OwnNodes(s)
          BY <1>2, <4>3 DEF OwnNodes
        <5> QED BY <3>4, <4>1, <5>1, <5>2
      <4> QED BY <4>2, <4>3
    <3>6. Holds(NextOf', head'.ptr, thread')
      BY <3>1, <3>4, <3>5 DEF Holds
    <3> QED BY <3>6, InOrder
  <2> QED BY <2>1, <2>2
<1>10. /\ PlaceOf(u) /\ ~FoundAt(u)
       /\ \A i \in Tests : CompleteIn(w, i) => CompleteIn(u, i)
  BY <1>1, <1>2, <1>6 DEF PlaceOf, FoundAt, CompleteIn, Tests, num_tests
<1> QED BY <1>4, <1>5, <1>6, <1>7, <1>8, <1>9, <1>10, ThreadStep DEF TypeOK

(* The scan of test_0 finds all nodes of its thread. *)
LEMMA ScanInv ==
  ASSUME IInv, NEW t \in Threads, Scan(t)
  PROVE  IInv'
<1> USE DEF IInv
<1> DEFINE w == thread[t]
           u == [w EXCEPT !.pc = "complete"]
<1>1. w \in Thread /\ w.pc = "scan" /\ w.test = 0
  BY DEF Scan, At, TypeOK, Places, PlaceOf
<1>2. /\ thread' = [thread EXCEPT ![t] = u]
      /\ found' = found \cup (Listed \cap OwnNodes(t))
      /\ UNCHANGED <<head, next, rendezvous, tid_set, main>>
  BY DEF Scan, Goto
<1>3. u \in Thread /\ u.x = w.x /\ u.test = 0 /\ u.pc = "complete"
  BY <1>1 DEF Thread
<1> HIDE DEF u
<1>4. Agrees(w, u)
  BY <1>1, <1>2, <1>3, CounterTypes DEF Agrees, Change, ReadyIn, TaskIn, CompleteIn
<1>5. PushedAt(t, u) = PushedAt(t, w) /\ PushedAt(t, w) = OwnNodes(t)
  BY <1>1, <1>3 DEF PushedAt
<1>6. OwnNodesInOrder'
  BY <1>2, <1>3, <1>5, ListQuiet
<1>7. OwnNodes(t) \subseteq found' /\ found \subseteq found' /\ found' \subseteq Node
  <2>1. Listed \cap OwnNodes(t) = OwnNodes(t)
    BY <1>5, InOrder, LinkTypes DEF Holds
  <2> QED BY <1>2, <2>1 DEF TypeOK, OwnNodes
<1>8. /\ PlaceOf(u)
      /\ \A i \in Tests : CompleteIn(w, i) => CompleteIn(u, i)
  BY <1>1, <1>3 DEF PlaceOf, CompleteIn, Tests, num_tests
<1> QED BY <1>2, <1>3, <1>4, <1>6, <1>7, <1>8, ThreadStep DEF TypeOK

(* The steps of main: it goes on to the check only when the counter says   *)
(* that all threads have completed the test.                               *)
LEMMA MainInv ==
  ASSUME IInv, Main \/ Terminated
  PROVE  IInv'
<1> USE DEF IInv
<1>1. UNCHANGED <<head, next, tid_set, found, thread>>
  BY DEF Main, WaitTid, Go, WaitComplete, Check, Join, Terminated, vars
<1>2. /\ rendezvous' \in [Tests -> Rendezvous]
      /\ \A i \in Tests : /\ rendezvous'[i].num_ready = rendezvous[i].num_ready
                          /\ rendezvous'[i].in_task_count = rendezvous[i].in_task_count
                          /\ rendezvous'[i].num_complete = rendezvous[i].num_complete
  <2>1. CASE Go
    <3>1. main.test \in Tests
      BY DEF TypeOK
    <3>2. rendezvous' = [rendezvous EXCEPT ![main.test] = [@ EXCEPT !.go = TRUE]]
      BY <2>1 DEF Go
    <3> QED BY <3>1, <3>2 DEF TypeOK, Rendezvous
  <2>2. CASE UNCHANGED rendezvous
    BY <2>2 DEF TypeOK
  <2> QED BY <2>1, <2>2 DEF Main, WaitTid, WaitComplete, Check, Join, Terminated, vars
<1>3. CountersExact'
  BY <1>1, <1>2 DEF CountersExact, ReadyThreads, TaskThreads, CompleteThreads
<1>4. Places' /\ AllFound'
  BY <1>1 DEF Places, AllFound
<1>5. OwnNodesInOrder'
  <2>1. NextOf' = NextOf /\ head'.ptr = head.ptr /\ thread' = thread
    BY <1>1 DEF NextOf
  <2> QED BY <2>1, InOrder
<1>6. /\ main' \in [pc : {"wait_tid", "wait_ready", "wait_complete", "check", "join", "done"},
                    test : Tests]
      /\ main'.pc = "check" => CompleteThreads(main'.test) = Threads
  <2>1. CASE WaitTid
    BY <2>1 DEF WaitTid, TypeOK
  <2>2. CASE Go
    BY <2>2 DEF Go, TypeOK
  <2>3. CASE WaitComplete
    <3>1. main.test \in Tests /\ main' = [main EXCEPT !.pc = "check"]
      BY <2>3 DEF WaitComplete, TypeOK
    <3>2. Cardinality(CompleteThreads(main.test)) >= num_threads
      BY <2>3, <3>1 DEF WaitComplete, AllComplete, CountersExact
    <3>3. CompleteThreads(main.test) \in SUBSET Threads
      BY DEF CompleteThreads
    <3>4. CompleteThreads(main.test) = Threads
      BY <3>2, <3>3, Count
    <3>5. main'.test = main.test
      BY <3>1 DEF TypeOK
    <3> QED BY <3>1, <3>4, <3>5 DEF TypeOK
  <2>4. CASE Check
    BY <2>4 DEF Check, TypeOK, Tests, num_tests
  <2>5. CASE Join
    BY <2>5 DEF Join, TypeOK
  <2>6. CASE Terminated
    BY <2>6 DEF Terminated, TypeOK, MainWaited, vars
  <2> QED BY <2>1, <2>2, <2>3, <2>4, <2>5, <2>6 DEF Main
<1>7. TypeOK'
  BY <1>1, <1>2, <1>6 DEF TypeOK
<1>8. MainWaited'
  BY <1>1, <1>6 DEF MainWaited, CompleteThreads
<1> QED BY <1>3, <1>4, <1>5, <1>7, <1>8

(* The start: an empty list, and nobody counted. *)
LEMMA InitInv ==
  ASSUME Init
  PROVE  IInv
<1>1. TypeOK
  BY CountsAssumption DEF Init, TypeOK, WordOver, Word, Rendezvous, Thread, Tests, num_tests
<1>2. Places
  BY DEF Init, Places, PlaceOf
<1>3. CountersExact
  <2>1. ASSUME NEW i \in Tests
        PROVE  ReadyThreads(i) = {} /\ TaskThreads(i) = {} /\ CompleteThreads(i) = {}
    BY DEF Init, ReadyThreads, TaskThreads, CompleteThreads, ReadyIn, TaskIn, CompleteIn,
           Tests, num_tests
  <2> QED BY <2>1, FS_EmptySet DEF Init, CountersExact
<1>4. OwnNodesInOrder
  <2>1. head.ptr = NULL
    BY DEF Init, Word
  <2>2. ListOf(NextOf, head.ptr) = {}
    BY <2>1, ListNull, NullAssumption DEF ListOf
  <2>3. ASSUME NEW t \in Threads PROVE PushedAt(t, thread[t]) = {}
    <3>1. \A n \in OwnNodes(t) : ~(n.v > num_nodes - 1)
      BY CountsAssumption DEF OwnNodes, Node
    <3> QED BY <3>1 DEF Init, PushedAt
  <2>4. Holds(NextOf, head.ptr, thread)
    BY <2>2, <2>3 DEF Holds, Sorted
  <2> QED BY <2>4, InOrder
<1>5. AllFound /\ MainWaited
  BY DEF Init, AllFound, FoundAt, MainWaited
<1> QED BY <1>1, <1>2, <1>3, <1>4, <1>5 DEF IInv

-----------------------------------------------------------------------------
(***************************************************************************)
(* The theorems.                                                           *)
(***************************************************************************)
(* The inductive invariant holds in every state of castest. *)
THEOREM Invariance == Spec => []IInv
<1>1. Init => IInv
  BY InitInv
<1>2. IInv /\ [Next]_vars => IInv'
  <2> SUFFICES ASSUME IInv, [Next]_vars PROVE IInv'
    OBVIOUS
  <2>1. ASSUME NEW t \in Threads, Run(t) PROVE IInv'
    BY <2>1, WaitInv, ReadyInv, StartTaskInv, LoadHeadInv, PushInv, EndTaskInv, ScanInv,
       CompleteInv DEF Run
  <2>2. CASE Main \/ Terminated
    BY <2>2, MainInv
  <2>3. CASE UNCHANGED vars
    <3>1. NextOf' = NextOf /\ head'.ptr = head.ptr /\ thread' = thread
      BY <2>3 DEF vars, NextOf
    <3>2. OwnNodesInOrder'
      BY <3>1, InOrder DEF IInv
    <3>3. TypeOK' /\ Places' /\ AllFound'
      BY <2>3 DEF vars, IInv, TypeOK, Places, AllFound
    <3>4. CountersExact' /\ MainWaited'
      BY <2>3 DEF vars, IInv, CountersExact, MainWaited, ReadyThreads, TaskThreads, CompleteThreads
    <3> QED BY <3>2, <3>3, <3>4 DEF IInv
  <2> QED BY <2>1, <2>2, <2>3 DEF Next
<1> QED BY <1>1, <1>2, PTL DEF Spec

(* Every variable of castest keeps its type; no counter of a rendezvous    *)
(* leaves the range 0 .. num_threads.                                      *)
THEOREM TypeCorrectness == Spec => []TypeOK
<1>1. IInv => TypeOK
  BY DEF IInv
<1> QED BY <1>1, Invariance, PTL

(* The CAS loop of test_0 loses no node and links none twice, however many *)
(* threads push: the list holds of each thread exactly the nodes that it   *)
(* has pushed, in ascending order.                                         *)
THEOREM OwnNodesStayInOrder == Spec => []OwnNodesInOrder
<1>1. IInv => OwnNodesInOrder
  BY DEF IInv
<1> QED BY <1>1, Invariance, PTL

(* The rendezvous keeps main and the threads apart: when main checks a     *)
(* test no thread is in it any more, and the list is complete and at rest. *)
THEOREM MainChecksCompleteList == Spec => []CheckedWhenDone
<1>1. IInv => CheckedWhenDone
  <2> SUFFICES ASSUME IInv, main.pc = "check"
               PROVE  /\ Listed = Node /\ found = Node
                      /\ \A t \in Threads : Test(t) > main.test \/ At(t, "done")
    BY DEF CheckedWhenDone
  <2> USE DEF IInv
  <2>1. \A t \in Threads : thread[t].test > main.test \/ thread[t].pc = "done"
    BY DEF MainWaited, CompleteThreads, CompleteIn
  <2>2. main.test \in {0, 1} /\ \A t \in Threads : thread[t].test \in {0, 1}
    BY DEF TypeOK, Thread, Tests, num_tests
  <2>3. \A t \in Threads : PushedAt(t, thread[t]) = OwnNodes(t) /\ FoundAt(thread[t])
    BY <2>1, <2>2 DEF PushedAt, FoundAt
  <2>4. \A n \in Node : n.tid \in Threads /\ n \in OwnNodes(n.tid)
    BY DEF OwnNodes, Node
  <2>5. Listed = Node
    <3>1. \A t \in Threads : Listed \cap OwnNodes(t) = PushedAt(t, thread[t])
      BY InOrder, LinkTypes DEF Holds
    <3>2. Listed \subseteq Node
      BY LinkTypes
    <3> QED BY <2>3, <2>4, <3>1, <3>2
  <2>6. found = Node
    BY <2>3, <2>4 DEF AllFound, TypeOK
  <2> QED BY <2>1, <2>5, <2>6 DEF Test, At
<1> QED BY <1>1, Invariance, PTL

=============================================================================
