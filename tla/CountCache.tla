----------------------------- MODULE CountCache -----------------------------
(***************************************************************************)
(* The count caches: TransactionCount and BlockCount, two copies of the    *)
(* same code over MapCache.  A reader that misses :count makes sure that a *)
(* task counts the rows and stores the result; :async_task holds the pid   *)
(* of the task, and nobody looks whether the process behind it is alive.   *)
(*                                                                         *)
(* ConCache deletes a key when its time to live is over, and calls         *)
(* async_task_on_deletion before it does.  It is not part of the           *)
(* repository; a write of a key during the callback is allowed here.       *)
(***************************************************************************)
EXTENDS Naturals

CONSTANTS
    Reader,        \* the processes that call estimated_count
    Owner,         \* the process of ConCache that deletes what has expired
    TaskSlot,      \* bounds the tasks that run at a time
    Nil,
    MaxRows,       \* bounds the rows of the table
    MaxChanges,    \* bounds the insertions and deletions
    MaxFailures    \* bounds the tasks that fail or die

ASSUME CountAssumption ==
    /\ Owner \notin Reader
    /\ {MaxRows, MaxChanges, MaxFailures} \subseteq Nat
    /\ Nil \notin Nat

Process == Reader \cup {Owner}

VARIABLES
    rows,       \* how many rows the table has
    count,      \* the value of :count
    async,      \* whether :async_task holds a pid
    pc,         \* the next step of each process
    task,       \* the next step of each task
    result,     \* what the query of each task returned
    changes, failures

cache == <<count, async>>
tasks == <<task, result>>
vars  == <<rows, cache, pc, tasks, changes, failures>>

-----------------------------------------------------------------------------
(* The table *)

Change ==
    /\ changes < MaxChanges
    /\ changes' = changes + 1
    /\ rows' \in 0..MaxRows \ {rows}
    /\ UNCHANGED <<cache, pc, tasks, failures>>

-----------------------------------------------------------------------------
(* Readers, and the owner in the callback *)

\* get_async_task has returned: the owner deletes the key now.
Returned(p) == [pc EXCEPT ![p] = IF p = Owner THEN "delete" ELSE "idle"]

\* estimated_count, when :count is missing: handle_fallback(:count).
GetCount(r) ==
    /\ pc[r] = "idle" /\ count = Nil
    /\ pc' = [pc EXCEPT ![r] = "task"]
    /\ UNCHANGED <<rows, cache, tasks, changes, failures>>

\* get_async_task: the pid that is there, dead or alive, or handle_fallback.
GetTask(p) ==
    /\ pc[p] = "task"
    /\ pc' = IF async THEN Returned(p) ELSE [pc EXCEPT ![p] = "start"]
    /\ UNCHANGED <<rows, cache, tasks, changes, failures>>

\* Task.start
StartTask(p) ==
    /\ pc[p] = "start"
    /\ \E t \in TaskSlot : task[t] = "none" /\ task' = [task EXCEPT ![t] = "query"]
    /\ pc' = [pc EXCEPT ![p] = "store"]
    /\ UNCHANGED <<rows, cache, result, changes, failures>>

\* {:update, task}: the pid is stored after the task has been started, perhaps
\* after it has ended.
StoreTask(p) ==
    /\ pc[p] = "store"
    /\ async' = TRUE
    /\ pc' = Returned(p)
    /\ UNCHANGED <<rows, count, tasks, changes, failures>>

\* The time to live of :count is over: async_task_on_deletion.
ExpireCount ==
    /\ pc[Owner] = "idle" /\ count # Nil
    /\ pc' = [pc EXCEPT ![Owner] = "task"]
    /\ UNCHANGED <<rows, cache, tasks, changes, failures>>

DeleteCount ==
    /\ pc[Owner] = "delete"
    /\ count' = Nil
    /\ pc' = [pc EXCEPT ![Owner] = "idle"]
    /\ UNCHANGED <<rows, async, tasks, changes, failures>>

\* Mutant: only :count has a time to live.
ExpireNothing == async /\ FALSE /\ UNCHANGED vars

\* The time to live of :async_task is over; the callback ignores the key.
ExpireTask ==
    /\ pc[Owner] = "idle" /\ async
    /\ async' = FALSE
    /\ UNCHANGED <<rows, count, pc, tasks, changes, failures>>

-----------------------------------------------------------------------------
(* Tasks *)

\* Repo.aggregate
Query(t) ==
    /\ task[t] = "query"
    /\ task' = [task EXCEPT ![t] = "set"]
    /\ result' = [result EXCEPT ![t] = rows]
    /\ UNCHANGED <<rows, cache, pc, changes, failures>>

\* set_count
SetCount(t) ==
    /\ task[t] = "set"
    /\ count' = result[t]
    /\ task' = [task EXCEPT ![t] = "clear"]
    /\ result' = [result EXCEPT ![t] = Nil]
    /\ UNCHANGED <<rows, async, pc, changes, failures>>

\* Mutant: the task goes on after the rescue.
QueryFailsOn(t) ==
    /\ task[t] = "query" /\ failures < MaxFailures
    /\ failures' = failures + 1
    /\ task' = [task EXCEPT ![t] = "set"]
    /\ UNCHANGED <<rows, cache, pc, result, changes>>

\* The query raises an exception, which is rescued.
QueryFails(t) ==
    /\ task[t] = "query" /\ failures < MaxFailures
    /\ failures' = failures + 1
    /\ task' = [task EXCEPT ![t] = "clear"]
    /\ UNCHANGED <<rows, cache, pc, result, changes>>

\* set_async_task(nil), whosever pid is stored.
ClearTask(t) ==
    /\ task[t] = "clear"
    /\ async' = FALSE
    /\ task' = [task EXCEPT ![t] = "none"]
    /\ UNCHANGED <<rows, count, pc, result, changes, failures>>

\* An exit is not rescued, and the task is linked to nobody: its pid stays.
TaskDies(t) ==
    /\ task[t] # "none" /\ failures < MaxFailures
    /\ failures' = failures + 1
    /\ task' = [task EXCEPT ![t] = "none"]
    /\ result' = [result EXCEPT ![t] = Nil]
    /\ UNCHANGED <<rows, cache, pc, changes>>

-----------------------------------------------------------------------------
Init ==
    /\ rows \in 0..MaxRows
    /\ count = Nil /\ async = FALSE
    /\ pc = [p \in Process |-> "idle"]
    /\ task = [t \in TaskSlot |-> "none"]
    /\ result = [t \in TaskSlot |-> Nil]
    /\ changes = 0 /\ failures = 0

GetAsyncTask(p) == GetTask(p) \/ StartTask(p) \/ StoreTask(p)

RunTask(t) == Query(t) \/ SetCount(t) \/ ClearTask(t)

Next ==
    \/ Change
    \/ \E r \in Reader : GetCount(r)
    \/ \E p \in Process : GetAsyncTask(p)
    \/ ExpireCount \/ DeleteCount \/ ExpireTask
    \/ \E t \in TaskSlot : RunTask(t) \/ QueryFails(t) \/ TaskDies(t)

Spec == Init /\ [][Next]_vars

\* Requests come in, processes and tasks go on, and ConCache looks for what has
\* expired every 15 minutes.
FairSpec ==
    /\ Spec
    /\ WF_vars(\E r \in Reader : GetCount(r))
    /\ \A p \in Process : WF_vars(GetAsyncTask(p))
    /\ WF_vars(ExpireCount \/ DeleteCount) /\ WF_vars(ExpireTask)
    /\ \A t \in TaskSlot : WF_vars(RunTask(t))

-----------------------------------------------------------------------------
(* Properties *)

\* Every variable has its type, and a task that is about to store a count has one.
TypeOK ==
    /\ {rows, changes, failures} \subseteq Nat
    /\ count \in Nat \cup {Nil}
    /\ async \in BOOLEAN
    /\ pc \in [Process -> {"idle", "task", "start", "store", "delete"}]
    /\ task \in [TaskSlot -> {"none", "query", "set", "clear"}]
    /\ result \in [TaskSlot -> Nat \cup {Nil}]
    /\ \A t \in TaskSlot : task[t] = "set" <=> result[t] # Nil

\* The cached count comes back to the number of rows again and again: neither
\* the pid of a task that died, nor one stored after its task had cleared the
\* key, nor an old result that overwrites a newer one stops the counting for ever.
CountCatchesUp == []<>(count = rows)
=============================================================================
