------------------------ MODULE TaskRegistryProofs --------------------------
(***************************************************************************)
(* Safety of the Redis task registry for any number of instances, tasks    *)
(* and items and any combination of the modelled failures.                 *)
(*                                                                         *)
(* The invariants need a strengthening: which phase a task is in while its *)
(* own cleanups run, that only saved tasks are stopped, what a stop that   *)
(* found no item knows, and that a published stop reaches a running task.  *)
(***************************************************************************)
EXTENDS TaskRegistry, TLAPS

\* create_task has not begun before the task exists, and only a task whose
\* save has completed is ever stopped.
CreatorPhase ==
    /\ \A t \in Task : pc[t] = "new" => creator[t] = "none"
    /\ \A t \in Task : cleaner[t]["stop"] # "idle" => creator[t] = "done"

\* The explicit cleanup runs inside the finally block, the callback's after
\* the end, and stop_task never touches the local tables.
CleanerPhase ==
    /\ \A t \in Task : cleaner[t]["finally"] # "idle" => pc[t] = "dereg"
    /\ \A t \in Task : cleaner[t]["callback"] # "idle" => pc[t] = "done"
    /\ \A t \in Task : cleaner[t]["stop"] # "pop"

\* A stop that found no entry deals with a task that no set lists.
BareStop ==
    \A t \in Task : cleaner[t]["stop"] \in {"publish", "remove"} /\ ~stopItem[t] => t \notin itemSet

\* When a stop comes to remove the entry of a running task, its command has
\* reached the owner.
PublishedStop ==
    \A t \in Task : cleaner[t]["stop"] = "remove" /\ pc[t] = "body" /\ listening[owner[t]] =>
        t \in mailbox[owner[t]] \/ cancelled[t]

IInv ==
    /\ TypeOK
    /\ CreatorPhase
    /\ CleanerPhase
    /\ BareStop
    /\ PublishedStop
    /\ ItemSetInHash
    /\ RunningStoppable
    /\ CancelReachable
    /\ NoLocalLeak

-----------------------------------------------------------------------------

\* Every action keeps the variables in their types.
LEMMA TypeStep == TypeOK /\ [Next]_vars => TypeOK'
<1> SUFFICES ASSUME TypeOK, [Next]_vars PROVE TypeOK'
    OBVIOUS
<1> USE DEF TypeOK, taskVars, redisVars, stopVars, nodeVars, Phase, Step, Cause, AfterCleanup
<1>1. ASSUME NEW t \in Task, Create(t) PROVE TypeOK'
    BY <1>1 DEF Create
<1>2. ASSUME NEW t \in Task, Save(t) PROVE TypeOK'
    BY <1>2 DEF Save
<1>3. ASSUME NEW t \in Task, SaveFails(t) PROVE TypeOK'
    BY <1>3 DEF SaveFails
<1>4. ASSUME NEW t \in Task, EnterFinally(t) PROVE TypeOK'
    BY <1>4 DEF EnterFinally
<1>5. ASSUME NEW t \in Task, EndTask(t) PROVE TypeOK'
    BY <1>5 DEF EndTask
<1>6. ASSUME NEW t \in Task, FindOthers(t) PROVE TypeOK'
    BY <1>6 DEF FindOthers
<1>7. ASSUME NEW t \in Task, FindNone(t) PROVE TypeOK'
    BY <1>7 DEF FindNone
<1>8. ASSUME NEW t \in Task, EmitInactive(t) PROVE TypeOK'
    BY <1>8 DEF EmitInactive
<1>9. ASSUME NEW t \in Task, StopPublish(t) PROVE TypeOK'
    BY <1>9 DEF StopPublish
<1>10. ASSUME NEW t \in Task, CleanupBare(t) PROVE TypeOK'
    BY <1>10 DEF CleanupBare
<1>11. ASSUME NEW t \in Task, NEW c \in Cause, CleanupRemove(t, c) PROVE TypeOK'
    BY <1>11 DEF CleanupRemove
<1>12. ASSUME NEW t \in Task, NEW c \in Cause, CleanupCount(t, c) PROVE TypeOK'
    BY <1>12 DEF CleanupCount
<1>13. ASSUME NEW t \in Task, NEW c \in Cause, CleanupDrop(t, c) PROVE TypeOK'
    BY <1>13 DEF CleanupDrop
<1>14. ASSUME NEW t \in Task, NEW c \in Cause, CleanupPop(t, c) PROVE TypeOK'
    BY <1>14 DEF CleanupPop
<1>15. ASSUME NEW i \in Instance, NEW t \in Task, StopLookup(i, t) PROVE TypeOK'
    BY <1>15 DEF StopLookup
<1>16. ASSUME NEW i \in Instance, NEW t \in Task, CancelBody(i, t) PROVE TypeOK'
    BY <1>16 DEF CancelBody
<1>17. ASSUME NEW i \in Instance, NEW t \in Task, CancelFinally(i, t) PROVE TypeOK'
    BY <1>17 DEF CancelFinally
<1>18. ASSUME NEW i \in Instance, NEW t \in Task, IgnoreStop(i, t) PROVE TypeOK'
    BY <1>18 DEF IgnoreStop
<1>19. ASSUME NEW i \in Instance, Crash(i) PROVE TypeOK'
    BY <1>19 DEF Crash
<1>20. ASSUME NEW i \in Instance, ListenerFails(i) PROVE TypeOK'
    BY <1>20 DEF ListenerFails
<1>21. ASSUME NEW t \in Task, CheckFails(t) PROVE TypeOK'
    BY <1>21 DEF CheckFails
<1>22. ASSUME NEW t \in Task, NEW c \in Cause, CleanupFails(t, c) PROVE TypeOK'
    <2>1. cleaner' \in [Task -> [Cause -> Step]] /\ pc' \in [Task -> Phase] /\ cut' \in [Task -> SUBSET Cause]
        BY <1>22 DEF CleanupFails
    <2>2. hash' \in SUBSET Task /\ itemSet' \in SUBSET Task
        BY <1>22 DEF CleanupFails
    <2> QED
        BY <1>22, <2>1, <2>2 DEF CleanupFails
<1>23. ASSUME NEW t \in Task, StopPublishFails(t) PROVE TypeOK'
    <2>1. mailbox' \in [Instance -> SUBSET Task]
        BY <1>23 DEF StopPublishFails
    <2> QED
        BY <1>23, <2>1 DEF StopPublishFails
<1>24. CASE UNCHANGED vars
    BY <1>24 DEF vars
<1> HIDE DEF TypeOK, taskVars, redisVars, stopVars, nodeVars, Phase, Step, Cause, AfterCleanup
<1> QED
    BY <1>1, <1>2, <1>3, <1>4, <1>5, <1>6, <1>7, <1>8, <1>9, <1>10, <1>11, <1>12, <1>13,
        <1>14, <1>15, <1>16, <1>17, <1>18, <1>19, <1>20, <1>21, <1>22, <1>23,
        <1>24 DEF Next

\* Every action preserves the inductive invariant: one step for each conjunct
\* that it can disturb, one for the conjuncts whose variables it leaves alone
\* or only strengthens.
LEMMA InvStep == IInv /\ [Next]_vars => IInv'
<1> SUFFICES ASSUME IInv, [Next]_vars PROVE IInv'
    OBVIOUS
<1>0. TypeOK /\ TypeOK'
    BY TypeStep DEF IInv
<1> USE <1>0 DEF IInv, TypeOK, taskVars, redisVars, stopVars, nodeVars, Cause
<1>1. ASSUME NEW t \in Task, Create(t) PROVE IInv'
    <2>1. PublishedStop'
        BY <1>1 DEF Create, PublishedStop, CreatorPhase
    <2>2. RunningStoppable'
        BY <1>1 DEF Create, RunningStoppable
    <2>3. CreatorPhase'
        BY <1>1 DEF Create, CreatorPhase
    <2>4. CancelReachable'
        BY <1>1 DEF Create, CancelReachable
    <2>5. CleanerPhase' /\ BareStop' /\ ItemSetInHash' /\ NoLocalLeak'
        BY <1>1 DEF Create, CleanerPhase, BareStop, ItemSetInHash, NoLocalLeak
    <2> QED
        BY <2>1, <2>2, <2>3, <2>4, <2>5
<1>2. ASSUME NEW t \in Task, Save(t) PROVE IInv'
    <2>1. CreatorPhase'
        BY <1>2 DEF Save, CreatorPhase
    <2>2. BareStop'
        BY <1>2 DEF Save, BareStop, CreatorPhase
    <2>3. ItemSetInHash'
        BY <1>2 DEF Save, ItemSetInHash
    <2>4. RunningStoppable'
        BY <1>2 DEF Save, RunningStoppable
    <2>5. CleanerPhase' /\ PublishedStop' /\ CancelReachable' /\ NoLocalLeak'
        BY <1>2 DEF Save, CleanerPhase, PublishedStop, CancelReachable, NoLocalLeak
    <2> QED
        BY <2>1, <2>2, <2>3, <2>4, <2>5
<1>3. ASSUME NEW t \in Task, SaveFails(t) PROVE IInv'
    <2>1. CreatorPhase'
        BY <1>3 DEF SaveFails, CreatorPhase
    <2>2. CleanerPhase' /\ BareStop' /\ PublishedStop' /\ ItemSetInHash' /\ RunningStoppable' /\ CancelReachable' /\ NoLocalLeak'
        BY <1>3 DEF SaveFails, CleanerPhase, BareStop, PublishedStop, ItemSetInHash,
            RunningStoppable, CancelReachable, NoLocalLeak
    <2> QED
        BY <2>1, <2>2
<1>4. ASSUME NEW t \in Task, EnterFinally(t) PROVE IInv'
    <2>1. CleanerPhase'
        BY <1>4 DEF EnterFinally, CleanerPhase
    <2>2. CreatorPhase'
        BY <1>4 DEF EnterFinally, CreatorPhase
    <2>3. BareStop' /\ PublishedStop' /\ ItemSetInHash' /\ RunningStoppable' /\ CancelReachable' /\ NoLocalLeak'
        BY <1>4 DEF EnterFinally, BareStop, PublishedStop, ItemSetInHash,
            RunningStoppable, CancelReachable, NoLocalLeak
    <2> QED
        BY <2>1, <2>2, <2>3
<1>5. ASSUME NEW t \in Task, EndTask(t) PROVE IInv'
    <2>1. CleanerPhase'
        BY <1>5 DEF EndTask, CleanerPhase
    <2>2. NoLocalLeak'
        BY <1>5 DEF EndTask, NoLocalLeak
    <2>3. CreatorPhase'
        BY <1>5 DEF EndTask, CreatorPhase
    <2>4. BareStop' /\ PublishedStop' /\ ItemSetInHash' /\ RunningStoppable' /\ CancelReachable'
        BY <1>5 DEF EndTask, BareStop, PublishedStop, ItemSetInHash, RunningStoppable,
            CancelReachable
    <2> QED
        BY <2>1, <2>2, <2>3, <2>4
<1>6. ASSUME NEW t \in Task, FindOthers(t) PROVE IInv'
    <2>1. CleanerPhase'
        BY <1>6 DEF FindOthers, CleanerPhase
    <2>2. NoLocalLeak'
        BY <1>6 DEF FindOthers, NoLocalLeak
    <2>3. CreatorPhase'
        BY <1>6 DEF FindOthers, CreatorPhase
    <2>4. BareStop' /\ PublishedStop' /\ ItemSetInHash' /\ RunningStoppable' /\ CancelReachable'
        BY <1>6 DEF FindOthers, BareStop, PublishedStop, ItemSetInHash,
            RunningStoppable, CancelReachable
    <2> QED
        BY <2>1, <2>2, <2>3, <2>4
<1>7. ASSUME NEW t \in Task, FindNone(t) PROVE IInv'
    <2>1. CleanerPhase'
        BY <1>7 DEF FindNone, CleanerPhase
    <2>2. CreatorPhase' /\ BareStop' /\ PublishedStop' /\ ItemSetInHash' /\ RunningStoppable' /\ CancelReachable' /\ NoLocalLeak'
        BY <1>7 DEF FindNone, CreatorPhase, BareStop, PublishedStop, ItemSetInHash,
            RunningStoppable, CancelReachable, NoLocalLeak
    <2> QED
        BY <2>1, <2>2
<1>8. ASSUME NEW t \in Task, EmitInactive(t) PROVE IInv'
    <2>1. CleanerPhase'
        BY <1>8 DEF EmitInactive, CleanerPhase
    <2>2. NoLocalLeak'
        BY <1>8 DEF EmitInactive, NoLocalLeak
    <2>3. CreatorPhase' /\ BareStop' /\ PublishedStop' /\ ItemSetInHash' /\ RunningStoppable' /\ CancelReachable'
        BY <1>8 DEF EmitInactive, CreatorPhase, BareStop, PublishedStop, ItemSetInHash,
            RunningStoppable, CancelReachable
    <2> QED
        BY <2>1, <2>2, <2>3
<1>9. ASSUME NEW t \in Task, StopPublish(t) PROVE IInv'
    <2>1. PublishedStop'
        BY <1>9 DEF StopPublish, PublishedStop
    <2>2. BareStop'
        BY <1>9 DEF StopPublish, BareStop
    <2>3. CreatorPhase' /\ CleanerPhase' /\ ItemSetInHash' /\ RunningStoppable' /\ CancelReachable' /\ NoLocalLeak'
        BY <1>9 DEF StopPublish, CreatorPhase, CleanerPhase, ItemSetInHash,
            RunningStoppable, CancelReachable, NoLocalLeak
    <2> QED
        BY <2>1, <2>2, <2>3
<1>10. ASSUME NEW t \in Task, CleanupBare(t) PROVE IInv'
    <2>1. ItemSetInHash'
        BY <1>10 DEF CleanupBare, ItemSetInHash, BareStop
    <2>2. RunningStoppable'
        BY <1>10 DEF CleanupBare, RunningStoppable, PublishedStop
    <2>3. CreatorPhase' /\ CleanerPhase' /\ BareStop' /\ PublishedStop' /\ CancelReachable' /\ NoLocalLeak'
        BY <1>10 DEF CleanupBare, CreatorPhase, CleanerPhase, BareStop, PublishedStop,
            CancelReachable, NoLocalLeak
    <2> QED
        BY <2>1, <2>2, <2>3
<1>11. ASSUME NEW t \in Task, NEW c \in Cause, CleanupRemove(t, c) PROVE IInv'
    <2>1. ItemSetInHash'
        BY <1>11 DEF CleanupRemove, ItemSetInHash
    <2>2. RunningStoppable'
        BY <1>11 DEF CleanupRemove, RunningStoppable, CleanerPhase, PublishedStop
    <2>3. CleanerPhase'
        BY <1>11 DEF CleanupRemove, CleanerPhase
    <2>4. BareStop'
        BY <1>11 DEF CleanupRemove, BareStop
    <2>5. NoLocalLeak'
        BY <1>11 DEF CleanupRemove, NoLocalLeak
    <2>6. CreatorPhase' /\ PublishedStop' /\ CancelReachable'
        BY <1>11 DEF CleanupRemove, CreatorPhase, PublishedStop, CancelReachable
    <2> QED
        BY <2>1, <2>2, <2>3, <2>4, <2>5, <2>6
<1>12. ASSUME NEW t \in Task, NEW c \in Cause, CleanupCount(t, c) PROVE IInv'
    <2>1. CleanerPhase'
        BY <1>12 DEF CleanupCount, CleanerPhase, Members, AfterCleanup
    <2>2. BareStop'
        BY <1>12 DEF CleanupCount, BareStop, Members, AfterCleanup
    <2>3. PublishedStop'
        BY <1>12 DEF CleanupCount, PublishedStop, Members, AfterCleanup
    <2>4. NoLocalLeak'
        BY <1>12 DEF CleanupCount, NoLocalLeak, Members, AfterCleanup
    <2>5. CreatorPhase' /\ ItemSetInHash' /\ RunningStoppable' /\ CancelReachable'
        BY <1>12 DEF CleanupCount, CreatorPhase, ItemSetInHash, RunningStoppable,
            CancelReachable, Members, AfterCleanup
    <2> QED
        BY <2>1, <2>2, <2>3, <2>4, <2>5
<1>13. ASSUME NEW t \in Task, NEW c \in Cause, CleanupDrop(t, c) PROVE IInv'
    <2>1. CleanerPhase'
        BY <1>13 DEF CleanupDrop, CleanerPhase, Members, AfterCleanup
    <2>2. BareStop'
        BY <1>13 DEF CleanupDrop, BareStop, Members, AfterCleanup
    <2>3. PublishedStop'
        BY <1>13 DEF CleanupDrop, PublishedStop, Members, AfterCleanup
    <2>4. NoLocalLeak'
        BY <1>13 DEF CleanupDrop, NoLocalLeak, Members, AfterCleanup
    <2>5. ItemSetInHash'
        BY <1>13 DEF CleanupDrop, ItemSetInHash, Members, AfterCleanup
    <2>6. CreatorPhase' /\ RunningStoppable' /\ CancelReachable'
        BY <1>13 DEF CleanupDrop, CreatorPhase, RunningStoppable, CancelReachable,
            Members, AfterCleanup
    <2> QED
        BY <2>1, <2>2, <2>3, <2>4, <2>5, <2>6
<1>14. ASSUME NEW t \in Task, NEW c \in Cause, CleanupPop(t, c) PROVE IInv'
    <2>1. CleanerPhase'
        BY <1>14 DEF CleanupPop, CleanerPhase
    <2>2. CancelReachable'
        <3>1. pc'[t] \notin {"body", "dereg"}
            BY <1>14 DEF CleanupPop, CleanerPhase
        <3>2. \A u \in Task : u # t => pc'[u] = pc[u]
            BY <1>14 DEF CleanupPop
        <3>3. \A u \in Task : u # t /\ u \in local[owner[u]] => u \in local'[owner'[u]]
            BY <1>14 DEF CleanupPop
        <3> QED
            BY <3>1, <3>2, <3>3 DEF CancelReachable
    <2>3. NoLocalLeak'
        BY <1>14 DEF CleanupPop, NoLocalLeak
    <2>4. CreatorPhase' /\ BareStop' /\ PublishedStop' /\ ItemSetInHash' /\ RunningStoppable'
        BY <1>14 DEF CleanupPop, CreatorPhase, BareStop, PublishedStop, ItemSetInHash,
            RunningStoppable
    <2> QED
        BY <2>1, <2>2, <2>3, <2>4
<1>15. ASSUME NEW i \in Instance, NEW t \in Task, StopLookup(i, t) PROVE IInv'
    <2>1. CreatorPhase'
        BY <1>15 DEF StopLookup, CreatorPhase
    <2>2. BareStop'
        BY <1>15 DEF StopLookup, BareStop, ItemSetInHash
    <2>3. PublishedStop'
        BY <1>15 DEF StopLookup, PublishedStop
    <2>4. CleanerPhase' /\ ItemSetInHash' /\ RunningStoppable' /\ CancelReachable' /\ NoLocalLeak'
        BY <1>15 DEF StopLookup, CleanerPhase, ItemSetInHash, RunningStoppable,
            CancelReachable, NoLocalLeak
    <2> QED
        BY <2>1, <2>2, <2>3, <2>4
<1>16. ASSUME NEW i \in Instance, NEW t \in Task, CancelBody(i, t) PROVE IInv'
    <2>1. PublishedStop'
        BY <1>16 DEF CancelBody, PublishedStop
    <2>2. RunningStoppable'
        BY <1>16 DEF CancelBody, RunningStoppable
    <2>3. CreatorPhase' /\ CleanerPhase' /\ BareStop' /\ ItemSetInHash' /\ CancelReachable' /\ NoLocalLeak'
        BY <1>16 DEF CancelBody, CreatorPhase, CleanerPhase, BareStop, ItemSetInHash,
            CancelReachable, NoLocalLeak
    <2> QED
        BY <2>1, <2>2, <2>3
<1>17. ASSUME NEW i \in Instance, NEW t \in Task, CancelFinally(i, t) PROVE IInv'
    <2>1. CleanerPhase'
        BY <1>17 DEF CancelFinally, CleanerPhase
    <2>2. CreatorPhase'
        BY <1>17 DEF CancelFinally, CreatorPhase
    <2>3. NoLocalLeak'
        BY <1>17 DEF CancelFinally, NoLocalLeak
    <2>4. PublishedStop'
        BY <1>17 DEF CancelFinally, PublishedStop
    <2>5. RunningStoppable'
        BY <1>17 DEF CancelFinally, RunningStoppable
    <2>6. BareStop' /\ ItemSetInHash' /\ CancelReachable'
        BY <1>17 DEF CancelFinally, BareStop, ItemSetInHash, CancelReachable
    <2> QED
        BY <2>1, <2>2, <2>3, <2>4, <2>5, <2>6
<1>18. ASSUME NEW i \in Instance, NEW t \in Task, IgnoreStop(i, t) PROVE IInv'
    <2>1. PublishedStop'
        BY <1>18 DEF IgnoreStop, PublishedStop, CancelReachable
    <2>2. RunningStoppable'
        BY <1>18 DEF IgnoreStop, RunningStoppable, CancelReachable
    <2>3. CreatorPhase' /\ CleanerPhase' /\ BareStop' /\ ItemSetInHash' /\ CancelReachable' /\ NoLocalLeak'
        BY <1>18 DEF IgnoreStop, CreatorPhase, CleanerPhase, BareStop, ItemSetInHash,
            CancelReachable, NoLocalLeak
    <2> QED
        BY <2>1, <2>2, <2>3
<1>19. ASSUME NEW i \in Instance, Crash(i) PROVE IInv'
    <2>1. CreatorPhase'
        BY <1>19 DEF Crash, CreatorPhase, Host
    <2>2. CleanerPhase'
        BY <1>19 DEF Crash, CleanerPhase, Host
    <2>3. BareStop'
        BY <1>19 DEF Crash, BareStop, Host
    <2>4. PublishedStop'
        BY <1>19 DEF Crash, PublishedStop, Host
    <2>5. ItemSetInHash'
        BY <1>19 DEF Crash, ItemSetInHash, Host
    <2>6. RunningStoppable'
        BY <1>19 DEF Crash, RunningStoppable, Host
    <2>7. CancelReachable'
        BY <1>19 DEF Crash, CancelReachable, Host
    <2>8. NoLocalLeak'
        BY <1>19 DEF Crash, NoLocalLeak, Host
    <2> QED
        BY <2>1, <2>2, <2>3, <2>4, <2>5, <2>6, <2>7, <2>8
<1>20. ASSUME NEW i \in Instance, ListenerFails(i) PROVE IInv'
    <2>1. PublishedStop'
        BY <1>20 DEF ListenerFails, PublishedStop
    <2>2. RunningStoppable'
        BY <1>20 DEF ListenerFails, RunningStoppable
    <2>3. CreatorPhase' /\ CleanerPhase' /\ BareStop' /\ ItemSetInHash' /\ CancelReachable' /\ NoLocalLeak'
        BY <1>20 DEF ListenerFails, CreatorPhase, CleanerPhase, BareStop, ItemSetInHash,
            CancelReachable, NoLocalLeak
    <2> QED
        BY <2>1, <2>2, <2>3
<1>21. ASSUME NEW t \in Task, CheckFails(t) PROVE IInv'
    <2>1. CleanerPhase'
        BY <1>21 DEF CheckFails, CleanerPhase
    <2>2. NoLocalLeak'
        BY <1>21 DEF CheckFails, NoLocalLeak
    <2>3. CreatorPhase' /\ BareStop' /\ PublishedStop' /\ ItemSetInHash' /\ RunningStoppable' /\ CancelReachable'
        BY <1>21 DEF CheckFails, CreatorPhase, BareStop, PublishedStop, ItemSetInHash,
            RunningStoppable, CancelReachable
    <2> QED
        BY <2>1, <2>2, <2>3
<1>22. ASSUME NEW t \in Task, NEW c \in Cause, CleanupFails(t, c) PROVE IInv'
    <2>0. hash \ {t} \subseteq hash' /\ hash' \subseteq hash /\ itemSet' \subseteq itemSet
        BY <1>22 DEF CleanupFails
    <2>1. CreatorPhase'
        BY <1>22 DEF CleanupFails, CreatorPhase
    <2>2. CleanerPhase'
        BY <1>22 DEF CleanupFails, CleanerPhase
    <2>3. BareStop'
        BY <1>22, <2>0 DEF CleanupFails, BareStop
    <2>4. PublishedStop'
        BY <1>22 DEF CleanupFails, PublishedStop
    <2>5. ItemSetInHash'
        <3>1. CASE hash' = hash
            BY <2>0, <3>1 DEF ItemSetInHash
        <3>2. CASE cleaner[t][c] = "remove" /\ hash' = hash \ {t} /\ t \notin itemSet'
            BY <2>0, <3>2 DEF ItemSetInHash
        <3> QED
            BY <1>22, <3>1, <3>2 DEF CleanupFails, BareStop
    <2>6. RunningStoppable'
        <3>1. CASE hash' = hash
            BY <1>22, <3>1 DEF CleanupFails, RunningStoppable
        <3>2. CASE cleaner[t][c] = "remove" /\ hash' = hash \ {t}
            <4>1. pc'[t] = "body" => c = "stop" /\ pc[t] = "body"
                BY <1>22, <3>2 DEF CleanupFails, CleanerPhase
            <4>2. pc'[t] = "body" /\ listening[owner[t]] => t \in mailbox[owner[t]] \/ cancelled[t]
                BY <3>2, <4>1 DEF PublishedStop
            <4>3. UNCHANGED <<mailbox, cancelled, creator, owner, listening>>
                BY <1>22 DEF CleanupFails
            <4>4. \A u \in Task : u # t => pc'[u] = pc[u] /\ (u \in hash => u \in hash')
                BY <1>22, <3>2 DEF CleanupFails
            <4> QED
                BY <4>2, <4>3, <4>4 DEF RunningStoppable
        <3> QED
            BY <1>22, <3>1, <3>2 DEF CleanupFails
    <2>7. CancelReachable'
        BY <1>22 DEF CleanupFails, CancelReachable
    <2>8. NoLocalLeak'
        BY <1>22 DEF CleanupFails, NoLocalLeak
    <2> QED
        BY <2>1, <2>2, <2>3, <2>4, <2>5, <2>6, <2>7, <2>8
<1>23. ASSUME NEW t \in Task, StopPublishFails(t) PROVE IInv'
    <2>0. \A i \in Instance : mailbox[i] \subseteq mailbox'[i]
        <3>1. CASE mailbox' = mailbox
            BY <3>1
        <3>2. CASE mailbox' = [i \in Instance |-> IF listening[i] THEN mailbox[i] \cup {t} ELSE mailbox[i]]
            BY <3>2
        <3> QED
            BY <1>23, <3>1, <3>2 DEF StopPublishFails
    <2>1. CreatorPhase' /\ CleanerPhase'
        BY <1>23 DEF StopPublishFails, CreatorPhase, CleanerPhase
    <2>2. BareStop' /\ ItemSetInHash' /\ CancelReachable' /\ NoLocalLeak'
        BY <1>23 DEF StopPublishFails, BareStop, ItemSetInHash, CancelReachable, NoLocalLeak
    <2>3. PublishedStop'
        BY <1>23, <2>0 DEF StopPublishFails, PublishedStop
    <2>4. RunningStoppable'
        BY <1>23, <2>0 DEF StopPublishFails, RunningStoppable
    <2> QED
        BY <2>1, <2>2, <2>3, <2>4
<1>24. CASE UNCHANGED vars
    BY <1>24 DEF vars, CreatorPhase, CleanerPhase, BareStop, PublishedStop,
        ItemSetInHash, RunningStoppable, CancelReachable, NoLocalLeak
<1> QED
    BY <1>1, <1>2, <1>3, <1>4, <1>5, <1>6, <1>7, <1>8, <1>9, <1>10, <1>11, <1>12, <1>13,
        <1>14, <1>15, <1>16, <1>17, <1>18, <1>19, <1>20, <1>21, <1>22, <1>23,
        <1>24 DEF Next

-----------------------------------------------------------------------------

\* The initial states satisfy the inductive invariant.
LEMMA InvInit == Init => IInv
BY DEF Init, IInv, TypeOK, Phase, Step, Cause, CreatorPhase, CleanerPhase, BareStop,
       PublishedStop, ItemSetInHash, RunningStoppable, CancelReachable, NoLocalLeak

\* The inductive invariant holds in every reachable state.
LEMMA InvAlways == Spec => []IInv
BY InvInit, InvStep, PTL DEF Spec

\* Type correctness of the registry.
THEOREM TypeCorrect == Spec => []TypeOK
BY InvAlways, PTL DEF IInv

\* Whatever an item's Redis set lists has its entry in the hash.
THEOREM ListedHasItem == Spec => []ItemSetInHash
BY InvAlways, PTL DEF IInv

\* No running, registered task ever becomes unreachable for stop requests
\* while its instance listens.
THEOREM RunningStaysStoppable == Spec => []RunningStoppable
BY InvAlways, PTL DEF IInv

\* The owner's table keeps a task while cancelling it matters.
THEOREM HandleKept == Spec => []CancelReachable
BY InvAlways, PTL DEF IInv

\* Local tables forget every task whose done callback has finished, except one
\* whose callback a failing Redis call cut short.
THEOREM LocalTablesDrain == Spec => []NoLocalLeak
BY InvAlways, PTL DEF IInv
=============================================================================
