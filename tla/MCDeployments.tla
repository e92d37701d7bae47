--------------------------- MODULE MCDeployments ----------------------------
(***************************************************************************)
(* What works differently in one process and in several that share a       *)
(* Redis: tasks.py (the variables of LocalTasks for one process, those     *)
(* with the prefix "r" for several), and the session pools.                *)
(***************************************************************************)
EXTENDS LocalTasks, SessionPool, TLC

CONSTANTS t1, t2, t3, s1, s2, i1, i2, chat, MayFail

MCInstance == {i1, i2}
MCSid == {s1, s2}
\* Sessions: one process with two; two instances, one of which serves a session.
MCDeployment ==
    {[running |-> {i1}, host |-> [s \in MCSid |-> i1]],
     [running |-> MCInstance, host |-> [s \in MCSid |-> IF s = s1 THEN i1 ELSE Nobody]]}

VARIABLES
    mode,
    rUp, rListening, rMailbox, rLocal, rOwner, rPc, rCancelled, rCreator, rHash,
    rItemSet, rCleaner, rStopAt, rStopItem, rCut

rVars == <<rUp, rListening, rMailbox, rLocal, rOwner, rPc, rCancelled, rCreator,
           rHash, rItemSet, rCleaner, rStopAt, rStopItem, rCut>>

\* One task, with the failures of every other part.
Redis == INSTANCE TaskRegistry WITH
    Instance <- {i1, i2}, Task <- {t1}, Item <- {chat}, ItemOf <- t1 :> chat,
    ChatTask <- {},
    up <- rUp, listening <- rListening, mailbox <- rMailbox, local <- rLocal,
    owner <- rOwner, pc <- rPc, cancelled <- rCancelled, creator <- rCreator,
    hash <- rHash, itemSet <- rItemSet, cleaner <- rCleaner, stopAt <- rStopAt,
    stopItem <- rStopItem, cut <- rCut

\* The parts that are not in use have one initial state.
MCInit ==
    /\ mode \in {"redis", "two stops", "three tasks", "sessions"} /\ LocalInit /\ Redis!Init /\ PoolInit
    /\ mode = "sessions" \/ Alone
    /\ mode = "redis" \/ rOwner[t1] = i1

\* Bounds of the instance: what is promised of the usage of sessions is promised
\* of a single process only, so that two report none; and s2 joins once.
MCNext ==
    /\ UNCHANGED mode
    /\ \/ mode = "redis" /\ Redis!Next /\ UNCHANGED <<localVars, poolVars>>
       \/ /\ mode \in {"two stops", "three tasks"} /\ LocalNext /\ UNCHANGED <<rVars, poolVars>>
          /\ mode = "two stops" => pc'[t1] = "new"
          /\ mode = "three tasks" => stop'[s2].at = "idle"
       \/ /\ mode = "sessions" /\ PoolNext /\ UNCHANGED <<localVars, rVars>>
          /\ Alone \/ usage' = {}
          /\ sock[s2] # "new" => s2 \notin joining' \ joining

\* Before a task is created no action under the fairness of tasks is enabled, so
\* that the part that is not in use is not obliged to act.
MCSpec ==
    /\ MCInit /\ [][MCNext]_<<mode, localVars, rVars, poolVars>>
    /\ LocalFairness /\ Redis!Fairness
    /\ mode = "sessions" => PoolFairness

\* Every stop_item_tasks of one process returns; with Redis, a stop of a task
\* ends it or the instance that serves the stop, or the listener of the task's
\* instance, is gone.
StopsEnd == StopReturns /\ Redis!StopEndsTask
=============================================================================
