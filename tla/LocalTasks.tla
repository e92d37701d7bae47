----------------------------- MODULE LocalTasks -----------------------------
(***************************************************************************)
(* The task registry of a single process without Redis (tasks.py): the     *)
(* dictionary of asyncio tasks and, for one item, the list of its task ids.*)
(* stop_item_tasks iterates over that very list while the tasks it stops   *)
(* take themselves out of it.  A dictionary or list operation runs without *)
(* an await and is atomic; the only awaits are those of the tasks' own     *)
(* coroutines and `await task` in stop_task.                               *)
(***************************************************************************)
EXTENDS Naturals, SequencesExt

CONSTANTS
    Task,       \* task ids created for the item
    ChatTask,   \* those running process_chat, which deregister themselves
    Stopper     \* concurrent calls of stop_item_tasks

ASSUME ChatTaskAssumption == ChatTask \subseteq Task

VARIABLES
    pc,         \* pc[t]: where the coroutine of t is
    cancelled,  \* cancelled[t]: task.cancel() was called while the body ran
    callback,   \* callback[t]: the done callback's cleanup has yet to run
    tasks,      \* keys of the dictionary `tasks`
    list,       \* item_tasks[id]; <<>> when the dictionary has no such key
    stop        \* stop[s]: the state of a stop_item_tasks call

localVars == <<pc, cancelled, callback, tasks, list, stop>>

\* at: position in the code; next: the list iterator's index; stale: the list
\* it iterates over was emptied and dropped from item_tasks; cur: the task
\* awaited; seen: the tasks listed when the call began.
StopState == [at: {"idle", "loop", "await", "stopped", "failed"}, next: Nat \ {0},
              stale: BOOLEAN, cur: Task, seen: SUBSET Task]

LocalTypeOK ==
    /\ pc \in [Task -> {"new", "body", "tail", "done"}]
    /\ cancelled \in [Task -> BOOLEAN]
    /\ callback \in [Task -> BOOLEAN]
    /\ tasks \in SUBSET Task
    /\ list \in Seq(Task)
    /\ stop \in [Stopper -> StopState]

LocalInit ==
    /\ pc = [t \in Task |-> "new"]
    /\ cancelled = [t \in Task |-> FALSE]
    /\ callback = [t \in Task |-> FALSE]
    /\ tasks = {}
    /\ list = <<>>
    /\ stop = [s \in Stopper |-> [at |-> "idle", next |-> 1, stale |-> FALSE,
                                   cur |-> CHOOSE t \in Task : TRUE, seen |-> {}]]

-----------------------------------------------------------------------------

\* create_task
CreateTask(t) ==
    /\ pc[t] = "new"
    /\ pc' = [pc EXCEPT ![t] = "body"]
    /\ tasks' = tasks \cup {t}
    /\ list' = Append(list, t)
    /\ UNCHANGED <<cancelled, callback, stop>>

\* cleanup_task: forget t; an emptied list leaves item_tasks, and whoever
\* still iterates over it holds a list that nobody will append to again.
Cleanup_KeepListed(t) ==  \* mutant: the item's list is not updated
    /\ tasks' = tasks \ {t}
    /\ UNCHANGED <<list, stop>>
Cleanup(t) ==
    /\ tasks' = tasks \ {t}
    /\ list' = RemoveFirst(list, t)
    /\ stop' = [s \in Stopper |-> IF list' = <<>> THEN [stop[s] EXCEPT !.stale = TRUE] ELSE stop[s]]

\* process_chat's finally block deregisters the task before its last awaits.
Deregister(t) ==
    /\ pc[t] = "body"
    /\ t \in ChatTask
    /\ pc' = [pc EXCEPT ![t] = "tail"]
    /\ Cleanup(t)
    /\ UNCHANGED <<cancelled, callback>>

\* The coroutine ends; its done callback schedules cleanup_task.
End(t) ==
    /\ pc[t] = IF t \in ChatTask THEN "tail" ELSE "body"
    /\ pc' = [pc EXCEPT ![t] = "done"]
    /\ callback' = [callback EXCEPT ![t] = TRUE]
    /\ UNCHANGED <<cancelled, tasks, list, stop>>

DoneCallback(t) ==
    /\ callback[t]
    /\ callback' = [callback EXCEPT ![t] = FALSE]
    /\ Cleanup(t)
    /\ UNCHANGED <<pc, cancelled>>

-----------------------------------------------------------------------------

\* stop_item_tasks reads the list of the item.
StopBegin(s) ==
    /\ stop[s].at = "idle"
    /\ list # <<>>
    /\ stop' = [stop EXCEPT ![s].at = "loop", ![s].stale = FALSE, ![s].seen = ToSet(list)]
    /\ UNCHANGED <<pc, cancelled, callback, tasks, list>>

Exhausted(s) == stop[s].stale \/ stop[s].next > Len(list)

\* The for loop moves on to the list's next element: stop_task takes it out of
\* `tasks` and requests its cancellation ...
StopTask(s) ==
    /\ stop[s].at = "loop"
    /\ ~Exhausted(s)
    /\ LET t == list[stop[s].next] IN
          /\ t \in tasks
          /\ tasks' = tasks \ {t}
          /\ cancelled' = [cancelled EXCEPT ![t] = @ \/ pc[t] = "body"]
          /\ stop' = [stop EXCEPT ![s].at = "await", ![s].cur = t, ![s].next = @ + 1]
    /\ UNCHANGED <<pc, callback, list>>

\* ... or, if somebody else took it out before, reports the failure.
StopMissing(s) ==
    /\ stop[s].at = "loop"
    /\ ~Exhausted(s)
    /\ list[stop[s].next] \notin tasks
    /\ stop' = [stop EXCEPT ![s].at = "failed", ![s].cur = list[stop[s].next]]
    /\ UNCHANGED <<pc, cancelled, callback, tasks, list>>

\* `await task` returns once the cancelled task has ended.
StopAwaited(s) ==
    /\ stop[s].at = "await"
    /\ pc[stop[s].cur] = "done"
    /\ stop' = [stop EXCEPT ![s].at = "loop"]
    /\ UNCHANGED <<pc, cancelled, callback, tasks, list>>

\* "All tasks for item ... stopped."
StopReturn(s) ==
    /\ stop[s].at = "loop"
    /\ Exhausted(s)
    /\ stop' = [stop EXCEPT ![s].at = "stopped"]
    /\ UNCHANGED <<pc, cancelled, callback, tasks, list>>

LocalNext ==
    \/ \E t \in Task : CreateTask(t) \/ Deregister(t) \/ End(t) \/ DoneCallback(t)
    \/ \E s \in Stopper : \/ StopBegin(s) \/ StopTask(s) \/ StopMissing(s)
                          \/ StopAwaited(s) \/ StopReturn(s)

\* The event loop resumes what can be resumed; a body ends once cancelled.
LocalFairness ==
    /\ \A t \in Task : /\ WF_localVars(cancelled[t] /\ (Deregister(t) \/ End(t)))
                       /\ WF_localVars(pc[t] = "tail" /\ End(t))
                       /\ WF_localVars(DoneCallback(t))
    /\ \A s \in Stopper : WF_localVars(StopTask(s) \/ StopMissing(s) \/ StopAwaited(s) \/ StopReturn(s))

LocalSpec == LocalInit /\ [][LocalNext]_localVars
LocalFairSpec == LocalSpec /\ LocalFairness

-----------------------------------------------------------------------------

\* A chat shows as active exactly while a task of it has not deregistered:
\* the list holds every such task once, and no other.
ListExact ==
    /\ IsInjective(list)
    /\ \A t \in Task : t \in ToSet(list) <=> pc[t] = "body" \/ (t \notin ChatTask /\ callback[t])

\* No running task loses its handle without having been cancelled.
HandleKept == \A t \in Task : pc[t] = "body" => t \in tasks \/ cancelled[t]

\* A stop that gives up ("Task with ID ... not found") met a task that
\* somebody else is already stopping or that has ended.
FailureHonest ==
    \A s \in Stopper : stop[s].at = "failed" => cancelled[stop[s].cur] \/ pc[stop[s].cur] # "body"

\* What the two tables say of a task is true: the list that shows a chat as
\* active, and the handles, which a stop of an untouched task finds.
TablesHonest == ListExact /\ HandleKept /\ FailureHonest

\* Every call of stop_item_tasks returns.
StopReturns == \A s \in Stopper : (stop[s].at = "loop") ~> (stop[s].at \in {"stopped", "failed"})

\* "All tasks for item {item_id} stopped.": once that is reported, none of the
\* tasks listed when the call began goes on running.
AllStopped ==
    \A s \in Stopper : stop[s].at = "stopped" =>
        \A t \in stop[s].seen : pc[t] = "body" => cancelled[t]
=============================================================================
