---------------------------- MODULE TaskRegistry ----------------------------
(***************************************************************************)
(* The registry of running chat tasks (backend/open_webui/tasks.py) as it  *)
(* works with Redis: every server instance keeps its own asyncio tasks in  *)
(* a local table, all instances share one Redis hash (task -> item) and    *)
(* one Redis set per item (the chat or document the task belongs to), and  *)
(* a stop request travels to the owning instance over publish/subscribe.   *)
(*                                                                         *)
(* Every Redis round trip is one action: between two of them any other     *)
(* coroutine or instance may run.  Redis pipelines are MULTI/EXEC blocks   *)
(* and therefore one action each.                                          *)
(***************************************************************************)
EXTENDS Naturals, FiniteSets

CONSTANTS
    Instance,    \* server processes sharing one Redis
    Task,        \* task ids (fresh uuids, never reused)
    Item,        \* chats and documents tasks belong to
    ItemOf,      \* the item each task is created for
    ChatTask,    \* tasks running process_chat, which deregister themselves
    MayFail      \* subset of {"call", "crash", "listener", "save"}: failures that occur

ASSUME ItemOfAssumption == ItemOf \in [Task -> Item]
ASSUME ChatTaskAssumption == ChatTask \subseteq Task
ASSUME MayFailAssumption == MayFail \subseteq {"call", "crash", "listener", "save"}

\* Who runs redis_cleanup_task for a task: process_chat's finally block, the
\* asyncio done callback, or an instance serving a stop request.
Cause == {"finally", "callback", "stop"}

VARIABLES
    up,         \* up[i]: instance i is running
    listening,  \* listening[i]: its redis_task_command_listener is subscribed
    mailbox,    \* mailbox[i]: stop commands published but not yet handled by i
    local,      \* local[i]: the tasks (and item_tasks) dictionaries of i
    owner,      \* owner[t]: the instance that runs t
    pc,         \* pc[t]: where the coroutine of t is
    cancelled,  \* cancelled[t]: task.cancel() was called while the body ran
    creator,    \* creator[t]: progress of the create_task call
    hash,       \* the Redis hash REDIS_TASKS_KEY: the registered task ids
    itemSet,    \* the Redis sets REDIS_ITEM_TASKS_KEY:<item>, as one set
    cleaner,    \* cleaner[t][c]: progress of redis_cleanup_task run for cause c
    stopAt,     \* stopAt[t]: the instance serving the stop request for t
    stopItem,   \* stopItem[t]: that request found the item of t in the hash
    cut         \* cut[t]: the causes whose work on t a failing Redis call cut short

taskVars == <<owner, pc, cancelled, creator>>
redisVars == <<hash, itemSet>>
stopVars == <<stopAt, stopItem, cut>>
nodeVars == <<up, listening>>
vars == <<nodeVars, mailbox, local, taskVars, redisVars, cleaner, stopVars>>

Step == {"idle", "publish", "remove", "count", "drop", "pop"}
Phase == {"new", "body", "dereg", "check", "emit", "done", "dead"}

TypeOK ==
    /\ up \in [Instance -> BOOLEAN]
    /\ listening \in [Instance -> BOOLEAN]
    /\ mailbox \in [Instance -> SUBSET Task]
    /\ local \in [Instance -> SUBSET Task]
    /\ owner \in [Task -> Instance]
    /\ pc \in [Task -> Phase]
    /\ cancelled \in [Task -> BOOLEAN]
    /\ creator \in [Task -> {"none", "saving", "done", "failed"}]
    /\ hash \in SUBSET Task
    /\ itemSet \in SUBSET Task
    /\ cleaner \in [Task -> [Cause -> Step]]
    /\ stopAt \in [Task -> Instance]
    /\ stopItem \in [Task -> BOOLEAN]
    /\ cut \in [Task -> SUBSET Cause]

\* The instance where the cleanup of t for cause c runs.
Host(t, c) == IF c = "stop" THEN stopAt[t] ELSE owner[t]

\* SMEMBERS of the set of item x.
Members(x) == {t \in itemSet : ItemOf[t] = x}

\* has_active_tasks
HasActiveTasks(x) == Members(x) # {}

Init ==
    /\ up = [i \in Instance |-> TRUE]
    /\ listening = [i \in Instance |-> TRUE]
    /\ mailbox = [i \in Instance |-> {}]
    /\ local = [i \in Instance |-> {}]
    /\ owner \in [Task -> Instance]
    /\ pc = [t \in Task |-> "new"]
    /\ cancelled = [t \in Task |-> FALSE]
    /\ creator = [t \in Task |-> "none"]
    /\ hash = {}
    /\ itemSet = {}
    /\ cleaner = [t \in Task |-> [c \in Cause |-> "idle"]]
    /\ stopAt = owner
    /\ stopItem = [t \in Task |-> FALSE]
    /\ cut = [t \in Task |-> {}]

-----------------------------------------------------------------------------
(* create_task: the coroutine is scheduled and registered locally before   *)
(* the first await; the Redis registration is awaited afterwards.          *)

Create(t) ==
    /\ pc[t] = "new"
    /\ up[owner[t]]
    /\ pc' = [pc EXCEPT ![t] = "body"]
    /\ local' = [local EXCEPT ![owner[t]] = @ \cup {t}]
    /\ creator' = [creator EXCEPT ![t] = "saving"]
    /\ UNCHANGED <<nodeVars, mailbox, owner, cancelled, redisVars, cleaner, stopVars>>

\* redis_save_task: HSET and SADD in one pipeline.
Save(t) ==
    /\ creator[t] = "saving"
    /\ up[owner[t]]
    /\ creator' = [creator EXCEPT ![t] = "done"]
    /\ hash' = hash \cup {t}
    /\ itemSet' = itemSet \cup {t}
    /\ UNCHANGED <<nodeVars, mailbox, local, owner, pc, cancelled, cleaner, stopVars>>

\* The pipeline raises: create_task raises too, and the task keeps running.
SaveFails(t) ==
    /\ "save" \in MayFail
    /\ creator[t] = "saving"
    /\ up[owner[t]]
    /\ creator' = [creator EXCEPT ![t] = "failed"]
    /\ UNCHANGED <<nodeVars, mailbox, local, owner, pc, cancelled, redisVars, cleaner, stopVars>>

-----------------------------------------------------------------------------
(* The life of a task.  Only process_chat deregisters itself, in the       *)
(* finally block that follows its body; every task then ends and its done  *)
(* callback schedules one more cleanup.                                    *)

EnterFinally(t) ==
    /\ pc[t] = "body"
    /\ t \in ChatTask
    /\ pc' = [pc EXCEPT ![t] = "dereg"]
    /\ cleaner' = [cleaner EXCEPT ![t]["finally"] = "remove"]
    /\ UNCHANGED <<nodeVars, mailbox, local, owner, cancelled, creator, redisVars, stopVars>>

EndTask(t) ==
    /\ pc[t] = "body"
    /\ t \notin ChatTask
    /\ pc' = [pc EXCEPT ![t] = "done"]
    /\ cleaner' = [cleaner EXCEPT ![t]["callback"] = "remove"]
    /\ UNCHANGED <<nodeVars, mailbox, local, owner, cancelled, creator, redisVars, stopVars>>

EndBody(t) == EnterFinally(t) \/ EndTask(t)

\* "Deregister this task, then emit chat:active=false if no others remain".
FindOthers(t) ==
    /\ pc[t] = "check"
    /\ HasActiveTasks(ItemOf[t])
    /\ pc' = [pc EXCEPT ![t] = "done"]
    /\ cleaner' = [cleaner EXCEPT ![t]["callback"] = "remove"]
    /\ UNCHANGED <<nodeVars, mailbox, local, owner, cancelled, creator, redisVars, stopVars>>

FindNone(t) ==
    /\ pc[t] = "check"
    /\ ~HasActiveTasks(ItemOf[t])
    /\ pc' = [pc EXCEPT ![t] = "emit"]
    /\ UNCHANGED <<nodeVars, mailbox, local, owner, cancelled, creator, redisVars, cleaner, stopVars>>

\* has_active_tasks raises: nothing is emitted, the exception is dropped.
CheckFails(t) ==
    /\ "call" \in MayFail
    /\ pc[t] = "check"
    /\ pc' = [pc EXCEPT ![t] = "done"]
    /\ cleaner' = [cleaner EXCEPT ![t]["callback"] = "remove"]
    /\ UNCHANGED <<nodeVars, mailbox, local, owner, cancelled, creator, redisVars, stopVars>>

\* chat:active=false reaches the user's open tabs.
EmitInactive(t) ==
    /\ pc[t] = "emit"
    /\ pc' = [pc EXCEPT ![t] = "done"]
    /\ cleaner' = [cleaner EXCEPT ![t]["callback"] = "remove"]
    /\ UNCHANGED <<nodeVars, mailbox, local, owner, cancelled, creator, redisVars, stopVars>>

-----------------------------------------------------------------------------
(* redis_cleanup_task, one action per round trip, for each of its callers. *)

\* What follows it: cleanup_task forgets the task locally, stop_task returns.
AfterCleanup_AlwaysPop(c) == "pop"      \* mutants: stop_task forgets the task too,
AfterCleanup_NeverPop(c) == "idle"      \* nobody forgets it,
AfterCleanup_Untyped(c) == "finished"   \* the cleanup ends in a state unknown
AfterCleanup(c) == IF c = "stop" THEN "idle" ELSE "pop"

\* HDEL and SREM in one pipeline.
CleanupRemove(t, c) ==
    /\ cleaner[t][c] = "remove"
    /\ c # "stop" \/ stopItem[t]
    /\ up[Host(t, c)]
    /\ hash' = hash \ {t}
    /\ itemSet' = itemSet \ {t}
    /\ cleaner' = [cleaner EXCEPT ![t][c] = "count"]
    /\ UNCHANGED <<nodeVars, mailbox, local, taskVars, stopVars>>

\* A stop that found no item does the HDEL only, and is over.
CleanupBare(t) ==
    /\ cleaner[t]["stop"] = "remove"
    /\ ~stopItem[t]
    /\ up[stopAt[t]]
    /\ hash' = hash \ {t}
    /\ cleaner' = [cleaner EXCEPT ![t]["stop"] = "idle"]
    /\ UNCHANGED <<nodeVars, mailbox, local, taskVars, itemSet, stopVars>>

\* SCARD: an empty set is about to be deleted.
CleanupCount(t, c) ==
    /\ cleaner[t][c] = "count"
    /\ up[Host(t, c)]
    /\ cleaner' = [cleaner EXCEPT ![t][c] = IF Members(ItemOf[t]) = {}
                                               THEN "drop" ELSE AfterCleanup(c)]
    /\ UNCHANGED <<nodeVars, mailbox, local, taskVars, redisVars, stopVars>>

\* DELETE of the item's set, whatever it holds by now.
CleanupDrop(t, c) ==
    /\ cleaner[t][c] = "drop"
    /\ up[Host(t, c)]
    /\ itemSet' = itemSet \ Members(ItemOf[t])
    /\ cleaner' = [cleaner EXCEPT ![t][c] = AfterCleanup(c)]
    /\ UNCHANGED <<nodeVars, mailbox, local, taskVars, hash, stopVars>>

\* tasks.pop and the removal from item_tasks, without an await between them.
CleanupPop(t, c) ==
    /\ cleaner[t][c] = "pop"
    /\ up[Host(t, c)]
    /\ cleaner' = [cleaner EXCEPT ![t][c] = "idle"]
    /\ local' = [local EXCEPT ![owner[t]] = @ \ {t}]
    /\ pc' = IF c = "finally" THEN [pc EXCEPT ![t] = "check"] ELSE pc
    /\ UNCHANGED <<nodeVars, mailbox, owner, cancelled, creator, redisVars, stopVars>>

\* A round trip raises, before or after it took effect in Redis.  The rest of the
\* cleanup is not run, the local tasks.pop included: process_chat drops the
\* exception and ends without the check, the done callback and stop_task end.
CleanupFails(t, c) ==
    /\ "call" \in MayFail
    /\ up[Host(t, c)]
    /\ \/ cleaner[t][c] \in {"remove", "count", "drop"} /\ UNCHANGED redisVars
       \/ /\ cleaner[t][c] = "remove"
          /\ hash' = hash \ {t}
          /\ itemSet' = IF c # "stop" \/ stopItem[t] THEN itemSet \ {t} ELSE itemSet
       \/ /\ cleaner[t][c] = "drop"
          /\ itemSet' = itemSet \ Members(ItemOf[t])
          /\ UNCHANGED hash
    /\ cleaner' = [cleaner EXCEPT ![t] =
                      [d \in Cause |-> IF d = c THEN "idle"
                                       ELSE IF c = "finally" /\ d = "callback" THEN "remove" ELSE @[d]]]
    /\ pc' = IF c = "finally" THEN [pc EXCEPT ![t] = "done"] ELSE pc
    /\ cut' = [cut EXCEPT ![t] = @ \cup {c}]
    /\ UNCHANGED <<nodeVars, mailbox, local, owner, cancelled, creator, stopAt, stopItem>>

-----------------------------------------------------------------------------
(* stop_task on any instance, for a task id that the registry has listed   *)
(* or create_task has returned.  stop_item_tasks lists an item's set and   *)
(* runs stop_task for each member it read, one after the other.            *)

StopLookup_Unsaved(i, t) ==  \* mutant: serves an id that was never registered
    /\ up[i]
    /\ creator[t] # "none"
    /\ cleaner[t]["stop"] = "idle"
    /\ stopAt' = [stopAt EXCEPT ![t] = i]
    /\ stopItem' = [stopItem EXCEPT ![t] = t \in hash]
    /\ cut' = [cut EXCEPT ![t] = @ \ {"stop"}]
    /\ cleaner' = [cleaner EXCEPT ![t]["stop"] = "publish"]
    /\ UNCHANGED <<nodeVars, mailbox, local, taskVars, redisVars>>
StopLookup(i, t) ==
    /\ up[i]
    /\ creator[t] = "done"
    /\ cleaner[t]["stop"] = "idle"
    /\ stopAt' = [stopAt EXCEPT ![t] = i]
    /\ stopItem' = [stopItem EXCEPT ![t] = t \in hash]
    /\ cut' = [cut EXCEPT ![t] = @ \ {"stop"}]
    /\ cleaner' = [cleaner EXCEPT ![t]["stop"] = "publish"]
    /\ UNCHANGED <<nodeVars, mailbox, local, taskVars, redisVars>>

\* PUBLISH reaches the instances subscribed at that moment, and only those.
StopPublish_Local(t) ==  \* mutant: only the serving instance looks for the task
    /\ cleaner[t]["stop"] = "publish"
    /\ up[stopAt[t]]
    /\ mailbox' = [mailbox EXCEPT ![stopAt[t]] = @ \cup {t}]
    /\ cleaner' = [cleaner EXCEPT ![t]["stop"] = "remove"]
    /\ UNCHANGED <<nodeVars, local, taskVars, redisVars, stopVars>>
StopPublish(t) ==
    /\ cleaner[t]["stop"] = "publish"
    /\ up[stopAt[t]]
    /\ mailbox' = [i \in Instance |-> IF listening[i] THEN mailbox[i] \cup {t} ELSE mailbox[i]]
    /\ cleaner' = [cleaner EXCEPT ![t]["stop"] = "remove"]
    /\ UNCHANGED <<nodeVars, local, taskVars, redisVars, stopVars>>

\* PUBLISH raises, delivered or not: stop_task ends there.
StopPublishFails(t) ==
    /\ "call" \in MayFail
    /\ cleaner[t]["stop"] = "publish"
    /\ up[stopAt[t]]
    /\ \/ mailbox' = [i \in Instance |-> IF listening[i] THEN mailbox[i] \cup {t} ELSE mailbox[i]]
       \/ mailbox' = mailbox
    /\ cleaner' = [cleaner EXCEPT ![t]["stop"] = "idle"]
    /\ cut' = [cut EXCEPT ![t] = @ \cup {"stop"}]
    /\ UNCHANGED <<nodeVars, local, taskVars, redisVars, stopAt, stopItem>>

\* redis_task_command_listener: cancel the task if this instance has it.
CancelBody(i, t) ==
    /\ t \in mailbox[i] \cap local[i]
    /\ pc[t] = "body"
    /\ mailbox' = [mailbox EXCEPT ![i] = @ \ {t}]
    /\ cancelled' = [cancelled EXCEPT ![t] = TRUE]
    /\ UNCHANGED <<nodeVars, local, owner, pc, creator, redisVars, cleaner, stopVars>>

\* A cancellation during the finally block ends the coroutine there, and the
\* block's own cleanup with it.
CancelFinally(i, t) ==
    /\ t \in mailbox[i] \cap local[i]
    /\ pc[t] = "dereg"
    /\ mailbox' = [mailbox EXCEPT ![i] = @ \ {t}]
    /\ pc' = [pc EXCEPT ![t] = "done"]
    /\ cleaner' = [cleaner EXCEPT ![t] = [@ EXCEPT !["finally"] = "idle", !["callback"] = "remove"]]
    /\ UNCHANGED <<nodeVars, local, owner, cancelled, creator, redisVars, stopVars>>

\* Another instance's task, or one past the point where cancelling matters.
IgnoreStop(i, t) ==
    /\ t \in mailbox[i]
    /\ t \notin local[i] \/ pc[t] \notin {"body", "dereg"}
    /\ mailbox' = [mailbox EXCEPT ![i] = @ \ {t}]
    /\ UNCHANGED <<nodeVars, local, taskVars, redisVars, cleaner, stopVars>>

HandleStop(i, t) == CancelBody(i, t) \/ CancelFinally(i, t) \/ IgnoreStop(i, t)

-----------------------------------------------------------------------------
(* Failures.                                                               *)

\* The process dies: its coroutines, tables and subscriptions are gone, what
\* it wrote to Redis stays.
Crash(i) ==
    /\ "crash" \in MayFail
    /\ up[i]
    /\ up' = [up EXCEPT ![i] = FALSE]
    /\ listening' = [listening EXCEPT ![i] = FALSE]
    /\ mailbox' = [mailbox EXCEPT ![i] = {}]
    /\ local' = [local EXCEPT ![i] = {}]
    /\ pc' = [t \in Task |-> IF owner[t] = i /\ pc[t] # "new" THEN "dead" ELSE pc[t]]
    /\ cleaner' = [t \in Task |-> [c \in Cause |->
                      IF Host(t, c) = i THEN "idle" ELSE cleaner[t][c]]]
    /\ UNCHANGED <<owner, cancelled, creator, redisVars, stopVars>>

\* The subscription's connection is lost: pubsub.listen() raises, the listener
\* ends, and commands not yet handled are lost with it.
ListenerFails(i) ==
    /\ "listener" \in MayFail
    /\ listening[i]
    /\ listening' = [listening EXCEPT ![i] = FALSE]
    /\ mailbox' = [mailbox EXCEPT ![i] = {}]
    /\ UNCHANGED <<up, local, taskVars, redisVars, cleaner, stopVars>>

Next ==
    \/ \E t \in Task :
          \/ Create(t) \/ Save(t) \/ SaveFails(t)
          \/ EnterFinally(t) \/ EndTask(t)
          \/ FindOthers(t) \/ FindNone(t) \/ CheckFails(t) \/ EmitInactive(t)
          \/ StopPublish(t) \/ StopPublishFails(t) \/ CleanupBare(t)
          \/ \E c \in Cause : \/ CleanupRemove(t, c) \/ CleanupCount(t, c)
                              \/ CleanupDrop(t, c) \/ CleanupPop(t, c)
                              \/ CleanupFails(t, c)
          \/ \E i \in Instance : \/ StopLookup(i, t) \/ CancelBody(i, t)
                                 \/ CancelFinally(i, t) \/ IgnoreStop(i, t)
    \/ \E i \in Instance : Crash(i) \/ ListenerFails(i)

Spec == Init /\ [][Next]_vars

\* The event loop of a running instance resumes a coroutine whose await has
\* completed and handles a received command.  A task body is only obliged to
\* end once it was cancelled.
Fairness ==
    \A t \in Task :
        /\ WF_vars(Save(t))
        /\ WF_vars(cancelled[t] /\ EndBody(t))
        /\ WF_vars(StopPublish(t))
        /\ WF_vars(CleanupBare(t))
        /\ \A c \in Cause : WF_vars(CleanupRemove(t, c) \/ CleanupCount(t, c)
                                    \/ CleanupDrop(t, c) \/ CleanupPop(t, c))
        /\ \A i \in Instance : WF_vars(HandleStop(i, t))

FairSpec == Spec /\ Fairness
-----------------------------------------------------------------------------
(* Properties.                                                             *)

\* Whatever an item's set lists has its entry in the hash, so the HGET of
\* stop_task finds the item and the stop can take the task out of the set
\* (tasks.py:148-160).
ItemSetInHash == itemSet \subseteq hash

\* A task that create_task has returned and whose body still runs can be
\* stopped: it is listed, or its stop command is on its way to the instance
\* that runs it, or it has been cancelled (publish first, clean up after) -
\* as long as that instance still listens for commands.
RunningStoppable ==
    \A t \in Task : pc[t] = "body" /\ creator[t] = "done" /\ listening[owner[t]] =>
        t \in hash \/ t \in mailbox[owner[t]] \/ cancelled[t]

\* The listener of the owning instance finds a task for as long as cancelling
\* it makes a difference: no cleanup forgets a handle too early.
CancelReachable ==
    \A t \in Task : pc[t] \in {"body", "dereg"} => t \in local[owner[t]]

\* The local tables keep an ended task only where Redis failed: once the done
\* callback's cleanup is over, the instance has forgotten the task, unless a call
\* of that very cleanup raised before tasks.pop (tasks.py:90-93).  Neither a
\* failure in the finally block, which leaves the pop to the callback, nor a
\* cancellation there, nor a stop served elsewhere makes the table grow.
NoLocalLeak ==
    \A t \in Task : pc[t] = "done" /\ cleaner[t]["callback"] = "idle" /\ t \in local[owner[t]] =>
        "callback" \in cut[t]

\* A stop request for a running task ends its body, wherever it runs, unless the
\* request itself raises, the instance that serves it dies or the one that runs
\* the task no longer listens (tasks.py:143-160).
StopEndsTask ==
    \A t \in Task : (cleaner[t]["stop"] = "publish" /\ pc[t] = "body")
                        ~> (pc[t] # "body" \/ "stop" \in cut[t] \/ ~up[stopAt[t]] \/ ~listening[owner[t]])
=============================================================================
