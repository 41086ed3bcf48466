-------------------------- MODULE CountCacheProofs --------------------------
(***************************************************************************)
(* Type correctness of module CountCache for every number of readers,      *)
(* tasks, rows, changes and failures.                                      *)
(***************************************************************************)
EXTENDS CountCache, TLAPS

LEMMA Constants == 0 .. MaxRows \subseteq Nat /\ Nil \notin Nat
BY CountAssumption

LEMMA InitTypes == Init => TypeOK
<1> SUFFICES ASSUME Init PROVE TypeOK
  OBVIOUS
<1>1. {rows, changes, failures} \subseteq Nat
  BY Constants DEF Init
<1>2. pc \in [Process -> {"idle", "task", "start", "store", "delete"}]
  BY DEF Init
<1>3. /\ task \in [TaskSlot -> {"none", "query", "set", "clear"}]
      /\ result \in [TaskSlot -> Nat \cup {Nil}]
      /\ \A t \in TaskSlot : task[t] = "set" <=> result[t] # Nil
  BY DEF Init
<1> QED BY <1>1, <1>2, <1>3 DEF Init, TypeOK

\* A reader or the owner goes on, and no task does.
LEMMA ProcessTypes ==
    ASSUME TypeOK,
           \/ \E r \in Reader : GetCount(r)
           \/ \E p \in Process : GetAsyncTask(p)
           \/ ExpireCount \/ DeleteCount \/ ExpireTask
    PROVE  TypeOK'
<1> USE DEF TypeOK, cache, tasks, Returned
<1>1. ASSUME NEW r \in Reader, GetCount(r) PROVE TypeOK'
  BY <1>1 DEF GetCount
<1>2. ASSUME NEW p \in Process, GetTask(p) PROVE TypeOK'
  BY <1>2 DEF GetTask
<1>3. ASSUME NEW p \in Process, StartTask(p) PROVE TypeOK'
  <2>1. PICK t \in TaskSlot : task[t] = "none" /\ task' = [task EXCEPT ![t] = "query"]
    BY <1>3 DEF StartTask
  <2> QED BY <1>3, <2>1 DEF StartTask
<1>4. ASSUME NEW p \in Process, StoreTask(p) PROVE TypeOK'
  BY <1>4 DEF StoreTask
<1>5. CASE ExpireCount \/ DeleteCount
  BY <1>5 DEF ExpireCount, DeleteCount
<1>6. CASE ExpireTask
  BY <1>6 DEF ExpireTask
<1> QED BY <1>1, <1>2, <1>3, <1>4, <1>5, <1>6 DEF GetAsyncTask

\* A task has a result from its query until it has stored it, or dies.
LEMMA TaskTypes ==
    ASSUME TypeOK, NEW t \in TaskSlot, RunTask(t) \/ QueryFails(t) \/ TaskDies(t)
    PROVE  TypeOK'
<1> USE DEF TypeOK, cache, tasks
<1>1. CASE Query(t)
  BY <1>1, Constants DEF Query
<1>2. CASE SetCount(t)
  BY <1>2, Constants DEF SetCount
<1>3. CASE ClearTask(t)
  BY <1>3 DEF ClearTask
<1>4. CASE QueryFails(t)
  BY <1>4 DEF QueryFails
<1>5. CASE TaskDies(t)
  BY <1>5, Constants DEF TaskDies
<1> QED BY <1>1, <1>2, <1>3, <1>4, <1>5 DEF RunTask

\* The cache holds a count or nothing, and a task that is about to store a
\* count has one: a query that fails leaves none to store, and neither does
\* a death.
THEOREM CountTypeCorrect == Spec => []TypeOK
<1>1. TypeOK /\ [Next]_vars => TypeOK'
  <2> SUFFICES ASSUME TypeOK, [Next]_vars PROVE TypeOK'
    OBVIOUS
  <2>1. CASE Change
    BY <2>1, Constants DEF Change, TypeOK, cache, tasks
  <2>2. CASE UNCHANGED vars
    BY <2>2 DEF vars, cache, tasks, TypeOK
  <2> QED BY <2>1, <2>2, ProcessTypes, TaskTypes DEF Next
<1> QED BY <1>1, InitTypes, PTL DEF Spec
=============================================================================
