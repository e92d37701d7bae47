------------------------- MODULE SingleProcessProofs -------------------------
(***************************************************************************)
(* Safety of what one process keeps by itself: the sub-agents of a chat,   *)
(* the table of tasks without Redis, and the timers without row locks.     *)
(*                                                                         *)
(* Sub-agents, for any turns, delegations and capacities: the semaphore    *)
(* and the reserved set account for what runs, and a result is answered    *)
(* once, in one answering turn at a time.  The first rests on Begun: a     *)
(* delegation that has not inserted its chat has no run that could         *)
(* release its capacity.  The second rests on the parent's lock: whoever   *)
(* holds it past the second look at the active tasks knows that no         *)
(* answering turn is active, and that nobody else takes the results it     *)
(* has selected.                                                           *)
(*                                                                         *)
(* Tasks, for any tasks and stoppers: the list of an item holds each       *)
(* running task once, and a task that runs untouched has a handle.  That   *)
(* rests on Lifecycle: who has not been created has no handle, and who has *)
(* a callback to run has ended.                                            *)
(*                                                                         *)
(* Timers, for any timers and chats of one process: theorems of            *)
(* ChatTimersProofs, for the variables of MCChatTimers' instance Sqlite.   *)
(***************************************************************************)
EXTENDS MCChatTimers, LocalTasks, FiniteSetTheorems, SequenceTheorems, TLAPS

\* A delegation without a chat has no run.
Begun == \A d \in Delegation : call[d] \in {"idle", "queued", "create", "dropped"} => child[d] = "none"

\* A background task that looks for results has nothing else left to do.
Looking == \A d \in Background : drain[d] # "no" => child[d] = "drain"

Counts == IsFiniteSet(Holding) /\ IsFiniteSet(Unsaved)

\* A run that has not stored its result has none.
Unstored == \A d \in Background : child[d] \in {"none", "created", "running", "store", "unbegun"} => result[d] = "none"

Inside == {"select", "commit", "start"}
LockHeld == \A a \in Actor : drain[a] \in Inside => lock = a

Active == {k \in Turn : turn[k] \in {"running", "stopping"}}

\* What the holder of the lock has selected stays selected.
Selected ==
    \A a \in Actor :
        /\ drain[a] = "commit" => \A d \in batch[a] : result[d] = "stored"
        /\ drain[a] = "start" => \A d \in batch[a] : result[d] = "taken"

Counted ==
    \A d \in Background : /\ answers[d] <= 1
                          /\ result[d] \in {"none", "stored"} => answers[d] = 0

\* No answer is being written while the next one is prepared.
Alone == \A a \in Actor, d \in Background : drain[a] \in Inside => Answer(d) \notin Active
OneActive == \A d, e \in Background : Answer(d) \in Active /\ Answer(e) \in Active => d = e

SubagentsInv ==
    /\ SubagentsTypeOK
    /\ Begun
    /\ Looking
    /\ Counts
    /\ CapacitySound
    /\ Unstored
    /\ LockHeld
    /\ Selected
    /\ Counted
    /\ Alone
    /\ OneActive

\* Every action keeps to the types.
LEMMA TypeStep == SubagentsInv /\ [SubagentsNext]_subagentsVars => SubagentsTypeOK'
<1> SUFFICES ASSUME SubagentsInv, [SubagentsNext]_subagentsVars PROVE SubagentsTypeOK'
  OBVIOUS
<1> USE BackgroundAssumption, DistinctAssumption, FaultsAssumption DEF SubagentsInv, Turn, Actor, SubagentsTypeOK, Pending
<1>1. ASSUME NEW d \in Background, Reserve(d) PROVE SubagentsTypeOK'
  BY <1>1 DEF Reserve, callVars, capacity, inbox, drainVars, Fault, EndDrain, Release, Unlock
<1>2. ASSUME NEW d \in Delegation \ Background, Enqueue(d) PROVE SubagentsTypeOK'
  BY <1>2 DEF Enqueue, Waiting, callVars, capacity, inbox, drainVars, Fault, EndDrain, Release, Unlock
<1>3. ASSUME NEW d \in Delegation \ Background, Acquire(d) PROVE SubagentsTypeOK'
  BY <1>3 DEF Acquire, callVars, capacity, inbox, drainVars, Fault, EndDrain, Release, Unlock
<1>4. ASSUME NEW d \in Delegation, CreateChat(d) PROVE SubagentsTypeOK'
  BY <1>4 DEF CreateChat, callVars, capacity, inbox, drainVars, Fault, EndDrain, Release, Unlock
<1>5. ASSUME NEW d \in Delegation, CreateChatFails(d) PROVE SubagentsTypeOK'
  BY <1>5 DEF CreateChatFails, callVars, capacity, inbox, drainVars, Fault, EndDrain, Release, Unlock
<1>6. ASSUME NEW d \in Delegation, Registered(d) PROVE SubagentsTypeOK'
  BY <1>6 DEF Registered, callVars, capacity, inbox, drainVars, Fault, EndDrain, Release, Unlock
<1>7. ASSUME NEW d \in Delegation, RegisterFails(d) PROVE SubagentsTypeOK'
  BY <1>7 DEF RegisterFails, callVars, capacity, inbox, drainVars, Fault, EndDrain, Release, Unlock
<1>8. ASSUME NEW d \in Delegation, EndRun(d) PROVE SubagentsTypeOK'
  BY <1>8 DEF EndRun, callVars, capacity, inbox, drainVars, Fault, EndDrain, Release, Unlock
<1>9. ASSUME NEW d \in Delegation \ Background, Awaited(d) PROVE SubagentsTypeOK'
  BY <1>9 DEF Awaited, callVars, capacity, inbox, drainVars, Fault, EndDrain, Release, Unlock
<1>10. ASSUME NEW d \in Background, Store(d) PROVE SubagentsTypeOK'
  BY <1>10 DEF Store, callVars, capacity, inbox, drainVars, Fault, EndDrain, Release, Unlock
<1>11. ASSUME NEW d \in Background, Check(d) PROVE SubagentsTypeOK'
  BY <1>11 DEF Check, callVars, capacity, inbox, drainVars, Fault, EndDrain, Release, Unlock
<1>12. ASSUME NEW d \in Background, StopDelivery(d) PROVE SubagentsTypeOK'
  BY <1>12 DEF StopDelivery, Abandon, callVars, capacity, inbox, drainVars, Fault, EndDrain, Release, Unlock
<1>13. ASSUME NEW k \in UserTurn, Prompt(k) PROVE SubagentsTypeOK'
  BY <1>13 DEF Prompt, callVars, capacity, inbox, drainVars, Fault, EndDrain, Release, Unlock
<1>14. ASSUME NEW k \in Turn, EndTurn(k) PROVE SubagentsTypeOK'
  BY <1>14 DEF EndTurn, callVars, capacity, inbox, drainVars, Fault, EndDrain, Release, Unlock
<1>15. ASSUME NEW k \in Turn, StopTurn(k) PROVE SubagentsTypeOK'
  BY <1>15 DEF StopTurn, callVars, capacity, inbox, drainVars, Fault, EndDrain, Release, Unlock
<1>16. ASSUME NEW k \in Turn, CloseTurn(k) PROVE SubagentsTypeOK'
  BY <1>16 DEF CloseTurn, callVars, capacity, inbox, drainVars, Fault, EndDrain, Release, Unlock
<1>17. ASSUME NEW a \in Actor, AwaitIdle(a) PROVE SubagentsTypeOK'
  BY <1>17 DEF AwaitIdle, callVars, capacity, inbox, drainVars, Fault, EndDrain, Release, Unlock
<1>18. ASSUME NEW a \in Actor, Lock(a) PROVE SubagentsTypeOK'
  <2>1. CASE EndDrain(a, {}) /\ UNCHANGED <<lock, callVars, capacity, inbox, faults>>
    BY <2>1 DEF callVars, capacity, inbox, EndDrain
  <2>2. CASE lock' = a /\ drain' = [drain EXCEPT ![a] = "select"]
             /\ UNCHANGED <<child, turn, batch, callVars, capacity, inbox, faults>>
    BY <2>2 DEF callVars, capacity, inbox
  <2>3. QED
    BY <1>18, <2>1, <2>2 DEF Lock
<1>19. ASSUME NEW a \in Actor, SelectRead(a) PROVE SubagentsTypeOK'
  <2>1. CASE EndDrain(a, {}) /\ Unlock(a) /\ UNCHANGED <<callVars, capacity, inbox, faults>>
    BY <2>1 DEF callVars, capacity, inbox, EndDrain, Unlock
  <2>2. ASSUME NEW taken \in SUBSET Background,
               batch' = [batch EXCEPT ![a] = taken], drain' = [drain EXCEPT ![a] = "commit"],
               UNCHANGED <<child, turn, lock, callVars, capacity, inbox, faults>>
        PROVE  SubagentsTypeOK'
    BY <2>2 DEF callVars, capacity, inbox
  <2>3. QED
    BY <1>19, <2>1, <2>2 DEF SelectRead
<1>20. ASSUME NEW a \in Actor, Commit(a) PROVE SubagentsTypeOK'
  BY <1>20 DEF Commit, callVars, capacity, inbox, drainVars, Fault, EndDrain, Release, Unlock
<1>21. ASSUME NEW a \in Actor, Start(a) PROVE SubagentsTypeOK'
  BY <1>21 DEF Start, callVars, capacity, inbox, drainVars, Fault, EndDrain, Release, Unlock
<1>22. ASSUME NEW a \in Actor, StartFails(a) PROVE SubagentsTypeOK'
  BY <1>22 DEF StartFails, callVars, capacity, inbox, drainVars, Fault, EndDrain, Release, Unlock
<1>23. CASE RemoveParent
  <2>1. parent' \in BOOLEAN
    BY <1>23, Zenon DEF RemoveParent
  <2>2. faults' \in 0..MaxFaults
    BY <1>23 DEF RemoveParent, Fault
  <2>3. QED
    BY <1>23, <2>1, <2>2 DEF RemoveParent, callVars, capacity, drainVars
<1>24. CASE UNCHANGED subagentsVars
  BY <1>24 DEF subagentsVars, callVars, capacity, inbox, drainVars, callVars, capacity, inbox, drainVars, Fault, EndDrain, Release, Unlock
<1>25. ASSUME NEW d \in Delegation, Begin(d) PROVE SubagentsTypeOK'
  BY <1>25 DEF Begin, callVars, capacity, inbox, drainVars, Fault, EndDrain, Release, Unlock
<1>26. ASSUME NEW d \in Delegation, StopUnbegun(d) PROVE SubagentsTypeOK'
  BY <1>26 DEF StopUnbegun, callVars, capacity, inbox, drainVars, Fault, EndDrain, Release, Unlock
<1>27. ASSUME NEW k \in Turn, Unlist(k) PROVE SubagentsTypeOK'
  BY <1>27 DEF Unlist, callVars, capacity, inbox, drainVars, Fault, EndDrain, Release, Unlock
<1>28. ASSUME NEW k \in Turn, CutShort(k) PROVE SubagentsTypeOK'
  BY <1>28 DEF CutShort, Abandon, callVars, capacity, inbox, drainVars, Fault, EndDrain, Release, Unlock
<1>29. ASSUME NEW k \in Turn, Callback(k) PROVE SubagentsTypeOK'
  BY <1>29 DEF Callback, callVars, capacity, inbox, drainVars, Fault, EndDrain, Release, Unlock
<1>30. QED
  BY <1>1, <1>2, <1>3, <1>4, <1>5, <1>6, <1>7, <1>8, <1>9, <1>10, <1>11, <1>12, <1>13, <1>14, <1>15, <1>16, <1>17, <1>18, <1>19, <1>20, <1>21, <1>22, <1>23, <1>24, <1>25, <1>26, <1>27, <1>28, <1>29 DEF SubagentsNext

\* Runs begin after their chats, and end before their results are stored.
LEMMA BegunStep == SubagentsInv /\ [SubagentsNext]_subagentsVars => (Begun /\ Looking /\ Unstored)'
<1> SUFFICES ASSUME SubagentsInv, [SubagentsNext]_subagentsVars PROVE (Begun /\ Looking /\ Unstored)'
  OBVIOUS
<1> USE BackgroundAssumption, DistinctAssumption DEF SubagentsInv, SubagentsTypeOK, Turn, Actor, Begun, Looking, Unstored, Selected, Pending
<1>1. ASSUME NEW d \in Background, Reserve(d) PROVE (Begun /\ Looking /\ Unstored)'
  BY <1>1 DEF Reserve, callVars, capacity, inbox, drainVars, EndDrain, CallsOf, HasActiveTasks
<1>2. ASSUME NEW d \in Delegation \ Background, Enqueue(d) PROVE (Begun /\ Looking /\ Unstored)'
  BY <1>2 DEF Enqueue, callVars, capacity, inbox, drainVars, EndDrain, CallsOf, HasActiveTasks
<1>3. ASSUME NEW d \in Delegation \ Background, Acquire(d) PROVE (Begun /\ Looking /\ Unstored)'
  BY <1>3 DEF Acquire, Waiting, callVars, capacity, inbox, drainVars, EndDrain, CallsOf, HasActiveTasks
<1>4. ASSUME NEW d \in Delegation, CreateChat(d) PROVE (Begun /\ Looking /\ Unstored)'
  BY <1>4 DEF CreateChat, callVars, capacity, inbox, drainVars, EndDrain, CallsOf, HasActiveTasks
<1>5. ASSUME NEW d \in Delegation, CreateChatFails(d) PROVE (Begun /\ Looking /\ Unstored)'
  BY <1>5 DEF CreateChatFails, callVars, capacity, inbox, drainVars, EndDrain, CallsOf, HasActiveTasks
<1>6. ASSUME NEW d \in Delegation, Registered(d) PROVE (Begun /\ Looking /\ Unstored)'
  BY <1>6 DEF Registered, callVars, capacity, inbox, drainVars, EndDrain, CallsOf, HasActiveTasks
<1>7. ASSUME NEW d \in Delegation, RegisterFails(d) PROVE (Begun /\ Looking /\ Unstored)'
  BY <1>7 DEF RegisterFails, callVars, capacity, inbox, drainVars, EndDrain, CallsOf, HasActiveTasks
<1>8. ASSUME NEW d \in Delegation, EndRun(d) PROVE (Begun /\ Looking /\ Unstored)'
  BY <1>8 DEF EndRun, callVars, capacity, inbox, drainVars, EndDrain, CallsOf, HasActiveTasks
<1>9. ASSUME NEW d \in Delegation \ Background, Awaited(d) PROVE (Begun /\ Looking /\ Unstored)'
  BY <1>9 DEF Awaited, callVars, capacity, inbox, drainVars, EndDrain, CallsOf, HasActiveTasks
<1>10. ASSUME NEW d \in Background, Store(d) PROVE (Begun /\ Looking /\ Unstored)'
  BY <1>10 DEF Store, callVars, capacity, inbox, drainVars, EndDrain, CallsOf, HasActiveTasks
<1>11. ASSUME NEW d \in Background, Check(d) PROVE (Begun /\ Looking /\ Unstored)'
  BY <1>11 DEF Check, callVars, capacity, inbox, drainVars, EndDrain, CallsOf, HasActiveTasks
<1>12. ASSUME NEW d \in Background, StopDelivery(d) PROVE (Begun /\ Looking /\ Unstored)'
  BY <1>12 DEF StopDelivery, Abandon, callVars, capacity, inbox, drainVars, EndDrain, CallsOf, HasActiveTasks
<1>13. ASSUME NEW k \in UserTurn, Prompt(k) PROVE (Begun /\ Looking /\ Unstored)'
  BY <1>13 DEF Prompt, callVars, capacity, inbox, drainVars, EndDrain, CallsOf, HasActiveTasks
<1>14. ASSUME NEW k \in Turn, EndTurn(k) PROVE (Begun /\ Looking /\ Unstored)'
  BY <1>14 DEF EndTurn, callVars, capacity, inbox, drainVars, EndDrain, CallsOf, HasActiveTasks
<1>15. ASSUME NEW k \in Turn, StopTurn(k) PROVE (Begun /\ Looking /\ Unstored)'
  BY <1>15 DEF StopTurn, callVars, capacity, inbox, drainVars, EndDrain, CallsOf, HasActiveTasks
<1>16. ASSUME NEW k \in Turn, CloseTurn(k) PROVE (Begun /\ Looking /\ Unstored)'
  BY <1>16 DEF CloseTurn, callVars, capacity, inbox, drainVars, EndDrain, CallsOf, HasActiveTasks
<1>17. ASSUME NEW a \in Actor, AwaitIdle(a) PROVE (Begun /\ Looking /\ Unstored)'
  BY <1>17 DEF AwaitIdle, callVars, capacity, inbox, drainVars, EndDrain, CallsOf, HasActiveTasks
<1>18. ASSUME NEW a \in Actor, Lock(a) PROVE (Begun /\ Looking /\ Unstored)'
  BY <1>18 DEF Lock, callVars, capacity, inbox, drainVars, EndDrain, CallsOf, HasActiveTasks
<1>19. ASSUME NEW a \in Actor, SelectRead(a) PROVE (Begun /\ Looking /\ Unstored)'
  BY <1>19 DEF SelectRead, callVars, capacity, inbox, drainVars, EndDrain, CallsOf, HasActiveTasks
<1>20. ASSUME NEW a \in Actor, Commit(a) PROVE (Begun /\ Looking /\ Unstored)'
  BY <1>20 DEF Commit, callVars, capacity, inbox, drainVars, EndDrain, CallsOf, HasActiveTasks
<1>21. ASSUME NEW a \in Actor, Start(a) PROVE (Begun /\ Looking /\ Unstored)'
  BY <1>21 DEF Start, callVars, capacity, inbox, drainVars, EndDrain, CallsOf, HasActiveTasks
<1>22. ASSUME NEW a \in Actor, StartFails(a) PROVE (Begun /\ Looking /\ Unstored)'
  BY <1>22 DEF StartFails, callVars, capacity, inbox, drainVars, EndDrain, CallsOf, HasActiveTasks
<1>23. CASE RemoveParent
  BY <1>23 DEF RemoveParent, callVars, capacity, inbox, drainVars, EndDrain, CallsOf, HasActiveTasks
<1>24. CASE UNCHANGED subagentsVars
  BY <1>24 DEF subagentsVars, callVars, capacity, inbox, drainVars, EndDrain, CallsOf, HasActiveTasks
<1>25. ASSUME NEW d \in Delegation, Begin(d) PROVE (Begun /\ Looking /\ Unstored)'
  BY <1>25 DEF Begin, callVars, capacity, inbox, drainVars, EndDrain, CallsOf, HasActiveTasks
<1>26. ASSUME NEW d \in Delegation, StopUnbegun(d) PROVE (Begun /\ Looking /\ Unstored)'
  BY <1>26 DEF StopUnbegun, callVars, capacity, inbox, drainVars, EndDrain, CallsOf, HasActiveTasks
<1>27. ASSUME NEW k \in Turn, Unlist(k) PROVE (Begun /\ Looking /\ Unstored)'
  BY <1>27 DEF Unlist, callVars, capacity, inbox, drainVars, EndDrain, CallsOf, HasActiveTasks
<1>28. ASSUME NEW k \in Turn, CutShort(k) PROVE (Begun /\ Looking /\ Unstored)'
  BY <1>28 DEF CutShort, Abandon, callVars, capacity, inbox, drainVars, EndDrain, CallsOf, HasActiveTasks
<1>29. ASSUME NEW k \in Turn, Callback(k) PROVE (Begun /\ Looking /\ Unstored)'
  BY <1>29 DEF Callback, callVars, capacity, inbox, drainVars, EndDrain, CallsOf, HasActiveTasks
<1>30. QED
  BY <1>1, <1>2, <1>3, <1>4, <1>5, <1>6, <1>7, <1>8, <1>9, <1>10, <1>11, <1>12, <1>13, <1>14, <1>15, <1>16, <1>17, <1>18, <1>19, <1>20, <1>21, <1>22, <1>23, <1>24, <1>25, <1>26, <1>27, <1>28, <1>29 DEF SubagentsNext

\* The lock is held by one actor, and while no answer is active.
LEMMA LockStep == SubagentsInv /\ [SubagentsNext]_subagentsVars => (LockHeld /\ Alone /\ OneActive)'
<1> SUFFICES ASSUME SubagentsInv, [SubagentsNext]_subagentsVars PROVE (LockHeld /\ Alone /\ OneActive)'
  OBVIOUS
<1> USE BackgroundAssumption, DistinctAssumption DEF SubagentsInv, SubagentsTypeOK, Turn, Actor, LockHeld, Inside, Alone, OneActive, Active
<1>1. ASSUME NEW d \in Background, Reserve(d) PROVE (LockHeld /\ Alone /\ OneActive)'
  BY <1>1 DEF Reserve, callVars, capacity, inbox, drainVars, EndDrain, Unlock, HasActiveTasks, Answer
<1>2. ASSUME NEW d \in Delegation \ Background, Enqueue(d) PROVE (LockHeld /\ Alone /\ OneActive)'
  BY <1>2 DEF Enqueue, callVars, capacity, inbox, drainVars, EndDrain, Unlock, HasActiveTasks, Answer
<1>3. ASSUME NEW d \in Delegation \ Background, Acquire(d) PROVE (LockHeld /\ Alone /\ OneActive)'
  BY <1>3 DEF Acquire, callVars, capacity, inbox, drainVars, EndDrain, Unlock, HasActiveTasks, Answer
<1>4. ASSUME NEW d \in Delegation, CreateChat(d) PROVE (LockHeld /\ Alone /\ OneActive)'
  BY <1>4 DEF CreateChat, callVars, capacity, inbox, drainVars, EndDrain, Unlock, HasActiveTasks, Answer
<1>5. ASSUME NEW d \in Delegation, CreateChatFails(d) PROVE (LockHeld /\ Alone /\ OneActive)'
  BY <1>5 DEF CreateChatFails, callVars, capacity, inbox, drainVars, EndDrain, Unlock, HasActiveTasks, Answer
<1>6. ASSUME NEW d \in Delegation, Registered(d) PROVE (LockHeld /\ Alone /\ OneActive)'
  BY <1>6 DEF Registered, callVars, capacity, inbox, drainVars, EndDrain, Unlock, HasActiveTasks, Answer
<1>7. ASSUME NEW d \in Delegation, RegisterFails(d) PROVE (LockHeld /\ Alone /\ OneActive)'
  BY <1>7 DEF RegisterFails, callVars, capacity, inbox, drainVars, EndDrain, Unlock, HasActiveTasks, Answer
<1>8. ASSUME NEW d \in Delegation, EndRun(d) PROVE (LockHeld /\ Alone /\ OneActive)'
  BY <1>8 DEF EndRun, callVars, capacity, inbox, drainVars, EndDrain, Unlock, HasActiveTasks, Answer
<1>9. ASSUME NEW d \in Delegation \ Background, Awaited(d) PROVE (LockHeld /\ Alone /\ OneActive)'
  BY <1>9 DEF Awaited, callVars, capacity, inbox, drainVars, EndDrain, Unlock, HasActiveTasks, Answer
<1>10. ASSUME NEW d \in Background, Store(d) PROVE (LockHeld /\ Alone /\ OneActive)'
  BY <1>10 DEF Store, callVars, capacity, inbox, drainVars, EndDrain, Unlock, HasActiveTasks, Answer
<1>11. ASSUME NEW d \in Background, Check(d) PROVE (LockHeld /\ Alone /\ OneActive)'
  BY <1>11 DEF Check, callVars, capacity, inbox, drainVars, EndDrain, Unlock, HasActiveTasks, Answer
<1>12. ASSUME NEW d \in Background, StopDelivery(d) PROVE (LockHeld /\ Alone /\ OneActive)'
  BY <1>12 DEF StopDelivery, Abandon, callVars, capacity, inbox, drainVars, EndDrain, Unlock, HasActiveTasks, Answer
<1>13. ASSUME NEW k \in UserTurn, Prompt(k) PROVE (LockHeld /\ Alone /\ OneActive)'
  BY <1>13 DEF Prompt, callVars, capacity, inbox, drainVars, EndDrain, Unlock, HasActiveTasks, Answer
<1>14. ASSUME NEW k \in Turn, EndTurn(k) PROVE (LockHeld /\ Alone /\ OneActive)'
  BY <1>14 DEF EndTurn, callVars, capacity, inbox, drainVars, EndDrain, Unlock, HasActiveTasks, Answer
<1>15. ASSUME NEW k \in Turn, StopTurn(k) PROVE (LockHeld /\ Alone /\ OneActive)'
  BY <1>15 DEF StopTurn, callVars, capacity, inbox, drainVars, EndDrain, Unlock, HasActiveTasks, Answer
<1>16. ASSUME NEW k \in Turn, CloseTurn(k) PROVE (LockHeld /\ Alone /\ OneActive)'
  BY <1>16 DEF CloseTurn, callVars, capacity, inbox, drainVars, EndDrain, Unlock, HasActiveTasks, Answer
<1>17. ASSUME NEW a \in Actor, AwaitIdle(a) PROVE (LockHeld /\ Alone /\ OneActive)'
  BY <1>17 DEF AwaitIdle, callVars, capacity, inbox, drainVars, EndDrain, Unlock, HasActiveTasks, Answer
<1>18. ASSUME NEW a \in Actor, Lock(a) PROVE (LockHeld /\ Alone /\ OneActive)'
  BY <1>18 DEF Lock, callVars, capacity, inbox, drainVars, EndDrain, Unlock, HasActiveTasks, Answer
<1>19. ASSUME NEW a \in Actor, SelectRead(a) PROVE (LockHeld /\ Alone /\ OneActive)'
  BY <1>19 DEF SelectRead, callVars, capacity, inbox, drainVars, EndDrain, Unlock, HasActiveTasks, Answer
<1>20. ASSUME NEW a \in Actor, Commit(a) PROVE (LockHeld /\ Alone /\ OneActive)'
  BY <1>20 DEF Commit, callVars, capacity, inbox, drainVars, EndDrain, Unlock, HasActiveTasks, Answer
<1>21. ASSUME NEW a \in Actor, Start(a) PROVE (LockHeld /\ Alone /\ OneActive)'
  <2>1. PICK d \in batch[a] : EndDrain(a, {Answer(d)})
    BY <1>21 DEF Start
  <2>2. d \in Background /\ drain[a] = "start" /\ lock = a /\ lock' = Nobody
    BY <1>21 DEF Start, Unlock
  <2>3. \A b \in Actor : drain'[b] \notin Inside
    BY <2>1, <2>2 DEF EndDrain
  <2>4. \A e \in Background : Answer(e) \in Active' => Answer(e) = Answer(d)
    BY <2>1, <2>2 DEF EndDrain
  <2>5. \A e \in Background : Answer(e) = Answer(d) => e = d
    BY DEF Answer
  <2>6. QED
    BY <2>2, <2>3, <2>4, <2>5
<1>22. ASSUME NEW a \in Actor, StartFails(a) PROVE (LockHeld /\ Alone /\ OneActive)'
  BY <1>22 DEF StartFails, callVars, capacity, inbox, drainVars, EndDrain, Unlock, HasActiveTasks, Answer
<1>23. CASE RemoveParent
  BY <1>23 DEF RemoveParent, callVars, capacity, inbox, drainVars, EndDrain, Unlock, HasActiveTasks, Answer
<1>24. CASE UNCHANGED subagentsVars
  BY <1>24 DEF subagentsVars, callVars, capacity, inbox, drainVars, EndDrain, Unlock, HasActiveTasks, Answer
<1>25. ASSUME NEW d \in Delegation, Begin(d) PROVE (LockHeld /\ Alone /\ OneActive)'
  BY <1>25 DEF Begin, callVars, capacity, inbox, drainVars, EndDrain, Unlock, HasActiveTasks, Answer
<1>26. ASSUME NEW d \in Delegation, StopUnbegun(d) PROVE (LockHeld /\ Alone /\ OneActive)'
  BY <1>26 DEF StopUnbegun, callVars, capacity, inbox, drainVars, EndDrain, Unlock, HasActiveTasks, Answer
<1>27. ASSUME NEW k \in Turn, Unlist(k) PROVE (LockHeld /\ Alone /\ OneActive)'
  BY <1>27 DEF Unlist, callVars, capacity, inbox, drainVars, EndDrain, Unlock, HasActiveTasks, Answer
<1>28. ASSUME NEW k \in Turn, CutShort(k) PROVE (LockHeld /\ Alone /\ OneActive)'
  BY <1>28 DEF CutShort, Abandon, callVars, capacity, inbox, drainVars, EndDrain, Unlock, HasActiveTasks, Answer
<1>29. ASSUME NEW k \in Turn, Callback(k) PROVE (LockHeld /\ Alone /\ OneActive)'
  BY <1>29 DEF Callback, callVars, capacity, inbox, drainVars, EndDrain, Unlock, HasActiveTasks, Answer
<1>30. QED
  BY <1>1, <1>2, <1>3, <1>4, <1>5, <1>6, <1>7, <1>8, <1>9, <1>10, <1>11, <1>12, <1>13, <1>14, <1>15, <1>16, <1>17, <1>18, <1>19, <1>20, <1>21, <1>22, <1>23, <1>24, <1>25, <1>26, <1>27, <1>28, <1>29 DEF SubagentsNext

\* Who holds the lock decides about the results it has selected.
LEMMA ResultStep == SubagentsInv /\ [SubagentsNext]_subagentsVars => (Selected /\ Counted)'
<1> SUFFICES ASSUME SubagentsInv, [SubagentsNext]_subagentsVars PROVE (Selected /\ Counted)'
  OBVIOUS
<1> USE BackgroundAssumption, DistinctAssumption DEF SubagentsInv, SubagentsTypeOK, Turn, Actor, Selected, Counted, LockHeld, Inside, Unstored
<1>1. ASSUME NEW d \in Background, Reserve(d) PROVE (Selected /\ Counted)'
  BY <1>1 DEF Reserve, callVars, capacity, inbox, drainVars, EndDrain, Unlock, HasActiveTasks
<1>2. ASSUME NEW d \in Delegation \ Background, Enqueue(d) PROVE (Selected /\ Counted)'
  BY <1>2 DEF Enqueue, callVars, capacity, inbox, drainVars, EndDrain, Unlock, HasActiveTasks
<1>3. ASSUME NEW d \in Delegation \ Background, Acquire(d) PROVE (Selected /\ Counted)'
  BY <1>3 DEF Acquire, callVars, capacity, inbox, drainVars, EndDrain, Unlock, HasActiveTasks
<1>4. ASSUME NEW d \in Delegation, CreateChat(d) PROVE (Selected /\ Counted)'
  BY <1>4 DEF CreateChat, callVars, capacity, inbox, drainVars, EndDrain, Unlock, HasActiveTasks
<1>5. ASSUME NEW d \in Delegation, CreateChatFails(d) PROVE (Selected /\ Counted)'
  BY <1>5 DEF CreateChatFails, callVars, capacity, inbox, drainVars, EndDrain, Unlock, HasActiveTasks
<1>6. ASSUME NEW d \in Delegation, Registered(d) PROVE (Selected /\ Counted)'
  BY <1>6 DEF Registered, callVars, capacity, inbox, drainVars, EndDrain, Unlock, HasActiveTasks
<1>7. ASSUME NEW d \in Delegation, RegisterFails(d) PROVE (Selected /\ Counted)'
  BY <1>7 DEF RegisterFails, callVars, capacity, inbox, drainVars, EndDrain, Unlock, HasActiveTasks
<1>8. ASSUME NEW d \in Delegation, EndRun(d) PROVE (Selected /\ Counted)'
  BY <1>8 DEF EndRun, callVars, capacity, inbox, drainVars, EndDrain, Unlock, HasActiveTasks
<1>9. ASSUME NEW d \in Delegation \ Background, Awaited(d) PROVE (Selected /\ Counted)'
  BY <1>9 DEF Awaited, callVars, capacity, inbox, drainVars, EndDrain, Unlock, HasActiveTasks
<1>10. ASSUME NEW d \in Background, Store(d) PROVE (Selected /\ Counted)'
  BY <1>10 DEF Store, callVars, capacity, inbox, drainVars, EndDrain, Unlock, HasActiveTasks
<1>11. ASSUME NEW d \in Background, Check(d) PROVE (Selected /\ Counted)'
  BY <1>11 DEF Check, callVars, capacity, inbox, drainVars, EndDrain, Unlock, HasActiveTasks
<1>12. ASSUME NEW d \in Background, StopDelivery(d) PROVE (Selected /\ Counted)'
  BY <1>12 DEF StopDelivery, Abandon, callVars, capacity, inbox, drainVars, EndDrain, Unlock, HasActiveTasks
<1>13. ASSUME NEW k \in UserTurn, Prompt(k) PROVE (Selected /\ Counted)'
  BY <1>13 DEF Prompt, callVars, capacity, inbox, drainVars, EndDrain, Unlock, HasActiveTasks
<1>14. ASSUME NEW k \in Turn, EndTurn(k) PROVE (Selected /\ Counted)'
  BY <1>14 DEF EndTurn, callVars, capacity, inbox, drainVars, EndDrain, Unlock, HasActiveTasks
<1>15. ASSUME NEW k \in Turn, StopTurn(k) PROVE (Selected /\ Counted)'
  BY <1>15 DEF StopTurn, callVars, capacity, inbox, drainVars, EndDrain, Unlock, HasActiveTasks
<1>16. ASSUME NEW k \in Turn, CloseTurn(k) PROVE (Selected /\ Counted)'
  BY <1>16 DEF CloseTurn, callVars, capacity, inbox, drainVars, EndDrain, Unlock, HasActiveTasks
<1>17. ASSUME NEW a \in Actor, AwaitIdle(a) PROVE (Selected /\ Counted)'
  BY <1>17 DEF AwaitIdle, callVars, capacity, inbox, drainVars, EndDrain, Unlock, HasActiveTasks
<1>18. ASSUME NEW a \in Actor, Lock(a) PROVE (Selected /\ Counted)'
  <2>1. UNCHANGED <<result, answers>>
    BY <1>18 DEF Lock, inbox
  <2>2. CASE EndDrain(a, {})
    BY <2>1, <2>2 DEF EndDrain
  <2>3. CASE drain' = [drain EXCEPT ![a] = "select"] /\ UNCHANGED batch
    BY <2>1, <2>3
  <2>4. QED
    BY <1>18, <2>2, <2>3 DEF Lock
<1>19. ASSUME NEW a \in Actor, SelectRead(a) PROVE (Selected /\ Counted)'
  <2>1. UNCHANGED <<result, answers>>
    BY <1>19 DEF SelectRead, inbox
  <2>2. CASE EndDrain(a, {})
    BY <2>1, <2>2 DEF EndDrain
  <2>3. ASSUME NEW taken \in SUBSET {d \in Background : result[d] = "stored"},
               batch' = [batch EXCEPT ![a] = taken], drain' = [drain EXCEPT ![a] = "commit"]
        PROVE  (Selected /\ Counted)'
    BY <2>1, <2>3
  <2>4. QED
    BY <1>19, <2>2, <2>3 DEF SelectRead
<1>20. ASSUME NEW a \in Actor, Commit(a) PROVE (Selected /\ Counted)'
  <2>1. CASE EndDrain(a, {}) /\ UNCHANGED <<result, answers>>
    BY <2>1 DEF EndDrain
  <2>2. CASE /\ result' = [d \in Background |-> IF d \in batch[a] THEN "taken" ELSE result[d]]
             /\ answers' = [d \in Background |-> IF d \in batch[a] THEN answers[d] + 1 ELSE answers[d]]
             /\ drain' = [drain EXCEPT ![a] = "start"]
             /\ UNCHANGED batch
    <3>1. drain[a] = "commit" /\ lock = a /\ \A b \in Actor \ {a} : drain[b] \notin Inside
      BY <1>20 DEF Commit
    <3>2. Selected'
      BY <2>2, <3>1
    <3>3. Counted'
      BY <2>2, <3>1
    <3>4. QED
      BY <3>2, <3>3
  <2>3. QED
    BY <1>20, <2>1, <2>2 DEF Commit
<1>21. ASSUME NEW a \in Actor, Start(a) PROVE (Selected /\ Counted)'
  BY <1>21 DEF Start, callVars, capacity, inbox, drainVars, EndDrain, Unlock, HasActiveTasks
<1>22. ASSUME NEW a \in Actor, StartFails(a) PROVE (Selected /\ Counted)'
  BY <1>22 DEF StartFails, callVars, capacity, inbox, drainVars, EndDrain, Unlock, HasActiveTasks
<1>23. CASE RemoveParent
  BY <1>23 DEF RemoveParent, callVars, capacity, inbox, drainVars, EndDrain, Unlock, HasActiveTasks
<1>24. CASE UNCHANGED subagentsVars
  BY <1>24 DEF subagentsVars, callVars, capacity, inbox, drainVars, EndDrain, Unlock, HasActiveTasks
<1>25. ASSUME NEW d \in Delegation, Begin(d) PROVE (Selected /\ Counted)'
  BY <1>25 DEF Begin, callVars, capacity, inbox, drainVars, EndDrain, Unlock, HasActiveTasks
<1>26. ASSUME NEW d \in Delegation, StopUnbegun(d) PROVE (Selected /\ Counted)'
  BY <1>26 DEF StopUnbegun, callVars, capacity, inbox, drainVars, EndDrain, Unlock, HasActiveTasks
<1>27. ASSUME NEW k \in Turn, Unlist(k) PROVE (Selected /\ Counted)'
  BY <1>27 DEF Unlist, callVars, capacity, inbox, drainVars, EndDrain, Unlock, HasActiveTasks
<1>28. ASSUME NEW k \in Turn, CutShort(k) PROVE (Selected /\ Counted)'
  BY <1>28 DEF CutShort, Abandon, callVars, capacity, inbox, drainVars, EndDrain, Unlock, HasActiveTasks
<1>29. ASSUME NEW k \in Turn, Callback(k) PROVE (Selected /\ Counted)'
  BY <1>29 DEF Callback, callVars, capacity, inbox, drainVars, EndDrain, Unlock, HasActiveTasks
<1>30. QED
  BY <1>1, <1>2, <1>3, <1>4, <1>5, <1>6, <1>7, <1>8, <1>9, <1>10, <1>11, <1>12, <1>13, <1>14, <1>15, <1>16, <1>17, <1>18, <1>19, <1>20, <1>21, <1>22, <1>23, <1>24, <1>25, <1>26, <1>27, <1>28, <1>29 DEF SubagentsNext

-----------------------------------------------------------------------------
(* What an action does to the capacity                                       *)

Sound == CapacitySound /\ Counts

\* Nobody takes or gives back.
LEMMA Unmoved ==
    ASSUME Sound, Holding' = Holding, Unsaved' = Unsaved, UNCHANGED capacity
    PROVE  Sound'
BY DEF Sound, CapacitySound, CapacityAccounted, CapacityRespected, Counts, capacity

\* The sets whose sizes are compared are finite.
LEMMA Sizes ==
    ASSUME Sound
    PROVE  /\ IsFiniteSet(Holding \ Background) /\ Cardinality(Holding \ Background) \in Nat
           /\ IsFiniteSet(Unsaved \ Background) /\ Cardinality(Unsaved \ Background) \in Nat
           /\ IsFiniteSet(reserved) /\ Cardinality(reserved) \in Nat
           /\ Cardinality(reserved) <= MaxAsync
<1>1. IsFiniteSet(Holding) /\ IsFiniteSet(Unsaved)
  BY DEF Sound, Counts
<1>2. reserved = (Holding \cap Background) \ Unsaved
  BY DEF Sound, CapacitySound, CapacityAccounted
<1>3. reserved \subseteq Holding /\ Holding \ Background \subseteq Holding /\ Unsaved \ Background \subseteq Unsaved
  BY <1>2
<1>4. IsFiniteSet(reserved) /\ IsFiniteSet(Holding \ Background) /\ IsFiniteSet(Unsaved \ Background)
  BY <1>1, <1>3, FS_Subset
<1>5. Cardinality(reserved) <= MaxAsync
  BY <1>2 DEF Sound, CapacitySound, CapacityRespected
<1>6. QED
  BY <1>4, <1>5, FS_CardinalityType

\* A delegation that holds a place gives it back, and holds it no longer.
LEMMA GivenBack ==
    ASSUME SubagentsTypeOK, Sound, NEW d \in Holding,
           Holding' = Holding \ {d}, Unsaved' = Unsaved, Release(d)
    PROVE  Sound'
<1>1. IsFiniteSet(Holding')
  BY FS_RemoveElement DEF Sound, Counts
<1>2. Counts'
  BY <1>1 DEF Sound, Counts
<1>3. CASE d \in Background
  <2>1. Holding' \ Background = Holding \ Background /\ reserved' = reserved \ {d} /\ permits' = permits
    BY <1>3 DEF Release
  <2>2. reserved' = (Holding' \cap Background) \ Unsaved'
    BY <2>1 DEF Sound, CapacitySound, CapacityAccounted
  <2>3. CapacityAccounted'
    BY <2>1, <2>2 DEF Sound, CapacitySound, CapacityAccounted
  <2>4. Cardinality(reserved') <= MaxAsync
    <3>1. Cardinality(reserved') \in Nat /\ Cardinality(reserved') <= Cardinality(reserved)
      BY <2>1, Sizes, FS_Subset, FS_CardinalityType
    <3>2. QED
      BY <3>1, Sizes, CapacityAssumption
  <2>5. QED
    BY <1>2, <2>2, <2>3, <2>4 DEF Sound, CapacitySound, CapacityRespected
<1>4. CASE d \notin Background
  <2>1. Holding' \cap Background = Holding \cap Background /\ reserved' = reserved /\ permits' = permits + 1
    BY <1>4 DEF Release
  <2>2. Holding' \ Background = (Holding \ Background) \ {d}
    OBVIOUS
  <2>3. Cardinality(Holding' \ Background) = Cardinality(Holding \ Background) - 1
    BY <1>4, <2>2, Sizes, FS_RemoveElement
  <2>4. CapacityAccounted'
    BY <2>1, <2>3, Sizes, CapacityAssumption DEF Sound, CapacitySound, CapacityAccounted, SubagentsTypeOK
  <2>5. CapacityRespected'
    BY <2>1 DEF Sound, CapacitySound, CapacityRespected
  <2>6. QED
    BY <1>2, <2>4, <2>5 DEF Sound, CapacitySound
<1>5. QED
  BY <1>3, <1>4

\* A place is given back for a delegation whose run gives it back, too.
LEMMA GivenTwice ==
    ASSUME SubagentsTypeOK, Sound, NEW d \in Delegation, d \notin Unsaved,
           Holding' = Holding, Unsaved' = Unsaved \cup {d}, Release(d)
    PROVE  Sound'
<1>1. Counts'
  BY FS_AddElement DEF Sound, Counts
<1>2. CASE d \in Background
  <2>1. Unsaved' \ Background = Unsaved \ Background /\ reserved' = reserved \ {d} /\ permits' = permits
    BY <1>2 DEF Release
  <2>2. reserved' = (Holding' \cap Background) \ Unsaved'
    BY <2>1 DEF Sound, CapacitySound, CapacityAccounted
  <2>3. CapacityAccounted'
    BY <2>1, <2>2 DEF Sound, CapacitySound, CapacityAccounted
  <2>4. Cardinality(reserved') <= MaxAsync
    <3>1. Cardinality(reserved') \in Nat /\ Cardinality(reserved') <= Cardinality(reserved)
      BY <2>1, Sizes, FS_Subset, FS_CardinalityType
    <3>2. QED
      BY <3>1, Sizes, CapacityAssumption
  <2>5. QED
    BY <1>1, <2>2, <2>3, <2>4 DEF Sound, CapacitySound, CapacityRespected
<1>3. CASE d \notin Background
  <2>1. reserved' = reserved /\ permits' = permits + 1
    BY <1>3 DEF Release
  <2>2. Unsaved' \ Background = (Unsaved \ Background) \cup {d} /\ d \notin Unsaved \ Background
    BY <1>3
  <2>3. Cardinality(Unsaved' \ Background) = Cardinality(Unsaved \ Background) + 1
    BY <2>2, Sizes, FS_AddElement
  <2>4. (Holding' \cap Background) \ Unsaved' = (Holding \cap Background) \ Unsaved
    BY <1>3
  <2>5. CapacityAccounted'
    BY <2>1, <2>3, <2>4, Sizes, CapacityAssumption
    DEF Sound, CapacitySound, CapacityAccounted, SubagentsTypeOK
  <2>6. CapacityRespected'
    BY <2>4 DEF Sound, CapacitySound, CapacityRespected
  <2>7. QED
    BY <1>1, <2>5, <2>6 DEF Sound, CapacitySound
<1>4. QED
  BY <1>2, <1>3

\* A background delegation reserves a free place.
LEMMA PlaceTaken ==
    ASSUME Sound, NEW d \in Background, d \notin Holding, d \notin Unsaved,
           Holding' = Holding \cup {d}, Unsaved' = Unsaved, UNCHANGED permits,
           Cardinality(reserved) < MaxAsync, reserved' = reserved \cup {d}
    PROVE  Sound'
<1>1. Counts'
  BY FS_AddElement DEF Sound, Counts
<1>2. Holding' \ Background = Holding \ Background
  OBVIOUS
<1>3. reserved' = (Holding' \cap Background) \ Unsaved'
  BY DEF Sound, CapacitySound, CapacityAccounted
<1>4. d \notin reserved
  BY DEF Sound, CapacitySound, CapacityAccounted
<1>5. Cardinality(reserved') <= MaxAsync
  <2>1. Cardinality(reserved') = Cardinality(reserved) + 1
    BY <1>4, Sizes, FS_AddElement
  <2>2. QED
    BY <2>1, Sizes, CapacityAssumption
<1>6. QED
  BY <1>1, <1>2, <1>3, <1>5 DEF Sound, CapacitySound, CapacityAccounted, CapacityRespected

\* A foreground delegation takes a permit.
LEMMA PermitTaken ==
    ASSUME SubagentsTypeOK, Sound, NEW d \in Delegation \ Background, d \notin Holding,
           Holding' = Holding \cup {d}, Unsaved' = Unsaved, UNCHANGED reserved,
           permits > 0, permits' = permits - 1
    PROVE  Sound'
<1>1. Counts'
  BY FS_AddElement DEF Sound, Counts
<1>2. Holding' \ Background = (Holding \ Background) \cup {d} /\ d \notin Holding \ Background
  OBVIOUS
<1>3. Cardinality(Holding' \ Background) = Cardinality(Holding \ Background) + 1
  BY <1>2, Sizes, FS_AddElement
<1>4. Holding' \cap Background = Holding \cap Background
  OBVIOUS
<1>5. CapacityAccounted'
  BY <1>3, <1>4, Sizes, CapacityAssumption DEF Sound, CapacitySound, CapacityAccounted, SubagentsTypeOK
<1>6. QED
  BY <1>1, <1>4, <1>5 DEF Sound, CapacitySound, CapacityRespected

\* Places are taken and given back as the delegations hold them.
LEMMA CapacityStep == SubagentsInv /\ [SubagentsNext]_subagentsVars => Sound'
<1> SUFFICES ASSUME SubagentsInv, [SubagentsNext]_subagentsVars PROVE Sound'
  OBVIOUS
<1> USE BackgroundAssumption, DistinctAssumption DEF Turn, Actor
<1>0. Sound /\ SubagentsTypeOK /\ Begun /\ Looking
  BY DEF SubagentsInv, Sound
<1>1. ASSUME NEW d \in Background, Reserve(d) PROVE Sound'
  <2>1. CASE Cardinality(reserved) < MaxAsync
    <3>1. d \notin Holding /\ d \notin Unsaved /\ Holding' = Holding \cup {d} /\ Unsaved' = Unsaved
      BY <1>0, <1>1, <2>1 DEF Reserve, callVars, capacity, inbox, drainVars, EndDrain, CallsOf, Pending, Holding, Leaked, Unsaved, Begun, Looking, SubagentsTypeOK
    <3>2. UNCHANGED permits /\ reserved' = reserved \cup {d}
      BY <1>1, <2>1 DEF Reserve
    <3>3. QED
      BY <1>0, <2>1, <3>1, <3>2, PlaceTaken
  <2>2. CASE ~(Cardinality(reserved) < MaxAsync)
    <3>1. Holding' = Holding /\ Unsaved' = Unsaved /\ UNCHANGED capacity
      BY <1>0, <1>1, <2>2 DEF Reserve, callVars, capacity, inbox, drainVars, EndDrain, CallsOf, Pending, Holding, Leaked, Unsaved, Begun, Looking, SubagentsTypeOK
    <3>2. QED
      BY <1>0, <3>1, Unmoved
  <2>3. QED
    BY <2>1, <2>2
<1>2. ASSUME NEW d \in Delegation \ Background, Enqueue(d) PROVE Sound'
  <2>1. Holding' = Holding /\ Unsaved' = Unsaved /\ UNCHANGED capacity
    BY <1>0, <1>2 DEF Enqueue, callVars, capacity, inbox, drainVars, EndDrain, CallsOf, Pending, Holding, Leaked, Unsaved, Begun, Looking, SubagentsTypeOK
  <2>2. QED
    BY <1>0, <2>1, Unmoved
<1>3. ASSUME NEW d \in Delegation \ Background, Acquire(d) PROVE Sound'
  <2>1. d \notin Holding /\ Holding' = Holding \cup {d} /\ Unsaved' = Unsaved
    BY <1>0, <1>3 DEF Acquire, Waiting, callVars, capacity, inbox, drainVars, EndDrain, CallsOf, Pending, Holding, Leaked, Unsaved, Begun, Looking, SubagentsTypeOK
  <2>2. UNCHANGED reserved /\ permits > 0 /\ permits' = permits - 1
    BY <1>3 DEF Acquire
  <2>3. QED
    BY <1>0, <2>1, <2>2, PermitTaken
<1>4. ASSUME NEW d \in Delegation, CreateChat(d) PROVE Sound'
  <2>1. Holding' = Holding /\ Unsaved' = Unsaved /\ UNCHANGED capacity
    BY <1>0, <1>4 DEF CreateChat, callVars, capacity, inbox, drainVars, EndDrain, CallsOf, Pending, Holding, Leaked, Unsaved, Begun, Looking, SubagentsTypeOK
  <2>2. QED
    BY <1>0, <2>1, Unmoved
<1>5. ASSUME NEW d \in Delegation, CreateChatFails(d) PROVE Sound'
  <2>1. d \in Holding /\ Holding' = Holding \ {d} /\ Unsaved' = Unsaved
    BY <1>0, <1>5 DEF CreateChatFails, callVars, capacity, inbox, drainVars, EndDrain, CallsOf, Pending, Holding, Leaked, Unsaved, Begun, Looking, SubagentsTypeOK
  <2>2. QED
    BY <1>0, <1>5, <2>1, GivenBack DEF CreateChatFails
<1>6. ASSUME NEW d \in Delegation, Registered(d) PROVE Sound'
  <2>1. Holding' = Holding /\ Unsaved' = Unsaved /\ UNCHANGED capacity
    BY <1>0, <1>6 DEF Registered, callVars, capacity, inbox, drainVars, EndDrain, CallsOf, Pending, Holding, Leaked, Unsaved, Begun, Looking, SubagentsTypeOK
  <2>2. QED
    BY <1>0, <2>1, Unmoved
<1>7. ASSUME NEW d \in Delegation, RegisterFails(d) PROVE Sound'
  <2>1. d \notin Unsaved /\ Holding' = Holding /\ Unsaved' = Unsaved \cup {d}
    BY <1>0, <1>7 DEF RegisterFails, callVars, capacity, inbox, drainVars, EndDrain, CallsOf, Pending, Holding, Leaked, Unsaved, Begun, Looking, SubagentsTypeOK
  <2>2. QED
    BY <1>0, <1>7, <2>1, GivenTwice DEF RegisterFails
<1>8. ASSUME NEW d \in Delegation, EndRun(d) PROVE Sound'
  <2>1. d \in Holding /\ Holding' = Holding \ {d} /\ Unsaved' = Unsaved
    BY <1>0, <1>8 DEF EndRun, callVars, capacity, inbox, drainVars, EndDrain, CallsOf, Pending, Holding, Leaked, Unsaved, Begun, Looking, SubagentsTypeOK
  <2>2. QED
    BY <1>0, <1>8, <2>1, GivenBack DEF EndRun
<1>9. ASSUME NEW d \in Delegation \ Background, Awaited(d) PROVE Sound'
  <2>1. Holding' = Holding /\ Unsaved' = Unsaved /\ UNCHANGED capacity
    BY <1>0, <1>9 DEF Awaited, callVars, capacity, inbox, drainVars, EndDrain, CallsOf, Pending, Holding, Leaked, Unsaved, Begun, Looking, SubagentsTypeOK
  <2>2. QED
    BY <1>0, <2>1, Unmoved
<1>10. ASSUME NEW d \in Background, Store(d) PROVE Sound'
  <2>1. Holding' = Holding /\ Unsaved' = Unsaved /\ UNCHANGED capacity
    BY <1>0, <1>10 DEF Store, callVars, capacity, inbox, drainVars, EndDrain, CallsOf, Pending, Holding, Leaked, Unsaved, Begun, Looking, SubagentsTypeOK
  <2>2. QED
    BY <1>0, <2>1, Unmoved
<1>11. ASSUME NEW d \in Background, Check(d) PROVE Sound'
  <2>1. Holding' = Holding /\ Unsaved' = Unsaved /\ UNCHANGED capacity
    BY <1>0, <1>11 DEF Check, callVars, capacity, inbox, drainVars, EndDrain, CallsOf, Pending, Holding, Leaked, Unsaved, Begun, Looking, SubagentsTypeOK
  <2>2. QED
    BY <1>0, <2>1, Unmoved
<1>12. ASSUME NEW d \in Background, StopDelivery(d) PROVE Sound'
  <2>1. Holding' = Holding /\ Unsaved' = Unsaved /\ UNCHANGED capacity
    BY <1>0, <1>12 DEF StopDelivery, Abandon, callVars, capacity, inbox, drainVars, EndDrain, CallsOf, Pending, Holding, Leaked, Unsaved, Begun, Looking, SubagentsTypeOK
  <2>2. QED
    BY <1>0, <2>1, Unmoved
<1>13. ASSUME NEW k \in UserTurn, Prompt(k) PROVE Sound'
  <2>1. Holding' = Holding /\ Unsaved' = Unsaved /\ UNCHANGED capacity
    BY <1>0, <1>13 DEF Prompt, callVars, capacity, inbox, drainVars, EndDrain, CallsOf, Pending, Holding, Leaked, Unsaved, Begun, Looking, SubagentsTypeOK
  <2>2. QED
    BY <1>0, <2>1, Unmoved
<1>14. ASSUME NEW k \in Turn, EndTurn(k) PROVE Sound'
  <2>1. Holding' = Holding /\ Unsaved' = Unsaved /\ UNCHANGED capacity
    BY <1>0, <1>14 DEF EndTurn, callVars, capacity, inbox, drainVars, EndDrain, CallsOf, Pending, Holding, Leaked, Unsaved, Begun, Looking, SubagentsTypeOK
  <2>2. QED
    BY <1>0, <2>1, Unmoved
<1>15. ASSUME NEW k \in Turn, StopTurn(k) PROVE Sound'
  <2>1. Holding' = Holding /\ Unsaved' = Unsaved /\ UNCHANGED capacity
    BY <1>0, <1>15 DEF StopTurn, callVars, capacity, inbox, drainVars, EndDrain, CallsOf, Pending, Holding, Leaked, Unsaved, Begun, Looking, SubagentsTypeOK
  <2>2. QED
    BY <1>0, <2>1, Unmoved
<1>16. ASSUME NEW k \in Turn, CloseTurn(k) PROVE Sound'
  <2>1. Holding' = Holding /\ Unsaved' = Unsaved /\ UNCHANGED capacity
    BY <1>0, <1>16 DEF CloseTurn, callVars, capacity, inbox, drainVars, EndDrain, CallsOf, Pending, Holding, Leaked, Unsaved, Begun, Looking, SubagentsTypeOK
  <2>2. QED
    BY <1>0, <2>1, Unmoved
<1>17. ASSUME NEW a \in Actor, AwaitIdle(a) PROVE Sound'
  <2>1. Holding' = Holding /\ Unsaved' = Unsaved /\ UNCHANGED capacity
    BY <1>0, <1>17 DEF AwaitIdle, callVars, capacity, inbox, drainVars, EndDrain, CallsOf, Pending, Holding, Leaked, Unsaved, Begun, Looking, SubagentsTypeOK
  <2>2. QED
    BY <1>0, <2>1, Unmoved
<1>18. ASSUME NEW a \in Actor, Lock(a) PROVE Sound'
  <2>1. Holding' = Holding /\ Unsaved' = Unsaved /\ UNCHANGED capacity
    BY <1>0, <1>18 DEF Lock, callVars, capacity, inbox, drainVars, EndDrain, CallsOf, Pending, Holding, Leaked, Unsaved, Begun, Looking, SubagentsTypeOK
  <2>2. QED
    BY <1>0, <2>1, Unmoved
<1>19. ASSUME NEW a \in Actor, SelectRead(a) PROVE Sound'
  <2>1. Holding' = Holding /\ Unsaved' = Unsaved /\ UNCHANGED capacity
    BY <1>0, <1>19 DEF SelectRead, callVars, capacity, inbox, drainVars, EndDrain, CallsOf, Pending, Holding, Leaked, Unsaved, Begun, Looking, SubagentsTypeOK
  <2>2. QED
    BY <1>0, <2>1, Unmoved
<1>20. ASSUME NEW a \in Actor, Commit(a) PROVE Sound'
  <2>1. Holding' = Holding /\ Unsaved' = Unsaved /\ UNCHANGED capacity
    BY <1>0, <1>20 DEF Commit, callVars, capacity, inbox, drainVars, EndDrain, CallsOf, Pending, Holding, Leaked, Unsaved, Begun, Looking, SubagentsTypeOK
  <2>2. QED
    BY <1>0, <2>1, Unmoved
<1>21. ASSUME NEW a \in Actor, Start(a) PROVE Sound'
  <2>1. Holding' = Holding /\ Unsaved' = Unsaved /\ UNCHANGED capacity
    BY <1>0, <1>21 DEF Start, callVars, capacity, inbox, drainVars, EndDrain, CallsOf, Pending, Holding, Leaked, Unsaved, Begun, Looking, SubagentsTypeOK
  <2>2. QED
    BY <1>0, <2>1, Unmoved
<1>22. ASSUME NEW a \in Actor, StartFails(a) PROVE Sound'
  <2>1. Holding' = Holding /\ Unsaved' = Unsaved /\ UNCHANGED capacity
    BY <1>0, <1>22 DEF StartFails, callVars, capacity, inbox, drainVars, EndDrain, CallsOf, Pending, Holding, Leaked, Unsaved, Begun, Looking, SubagentsTypeOK
  <2>2. QED
    BY <1>0, <2>1, Unmoved
<1>23. CASE RemoveParent
  <2>1. Holding' = Holding /\ Unsaved' = Unsaved /\ UNCHANGED capacity
    BY <1>23 DEF RemoveParent, callVars, capacity, Holding, Leaked, Unsaved
  <2>2. QED
    BY <1>0, <2>1, Unmoved
<1>24. CASE UNCHANGED subagentsVars
  <2>1. Holding' = Holding /\ Unsaved' = Unsaved /\ UNCHANGED capacity
    BY <1>24 DEF subagentsVars, callVars, capacity, Holding, Leaked, Unsaved
  <2>2. QED
    BY <1>0, <2>1, Unmoved
<1>25. ASSUME NEW d \in Delegation, Begin(d) PROVE Sound'
  <2>1. Holding' = Holding /\ Unsaved' = Unsaved /\ UNCHANGED capacity
    BY <1>0, <1>25 DEF Begin, callVars, capacity, inbox, drainVars, EndDrain, CallsOf, Pending, Holding, Leaked, Unsaved, Begun, Looking, SubagentsTypeOK
  <2>2. QED
    BY <1>0, <2>1, Unmoved
<1>26. ASSUME NEW d \in Delegation, StopUnbegun(d) PROVE Sound'
  <2>1. Holding' = Holding /\ Unsaved' = Unsaved /\ UNCHANGED capacity
    BY <1>0, <1>26 DEF StopUnbegun, callVars, capacity, inbox, drainVars, EndDrain, CallsOf, Pending, Holding, Leaked, Unsaved, Begun, Looking, SubagentsTypeOK
  <2>2. QED
    BY <1>0, <2>1, Unmoved
<1>27. ASSUME NEW k \in Turn, Unlist(k) PROVE Sound'
  <2>1. Holding' = Holding /\ Unsaved' = Unsaved /\ UNCHANGED capacity
    BY <1>0, <1>27 DEF Unlist, callVars, capacity, inbox, drainVars, EndDrain, CallsOf, Pending, Holding, Leaked, Unsaved, Begun, Looking, SubagentsTypeOK
  <2>2. QED
    BY <1>0, <2>1, Unmoved
<1>28. ASSUME NEW k \in Turn, CutShort(k) PROVE Sound'
  <2>1. Holding' = Holding /\ Unsaved' = Unsaved /\ UNCHANGED capacity
    BY <1>0, <1>28 DEF CutShort, Abandon, callVars, capacity, inbox, drainVars, EndDrain, CallsOf, Pending, Holding, Leaked, Unsaved, Begun, Looking, SubagentsTypeOK
  <2>2. QED
    BY <1>0, <2>1, Unmoved
<1>29. ASSUME NEW k \in Turn, Callback(k) PROVE Sound'
  <2>1. Holding' = Holding /\ Unsaved' = Unsaved /\ UNCHANGED capacity
    BY <1>0, <1>29 DEF Callback, callVars, capacity, inbox, drainVars, EndDrain, CallsOf, Pending, Holding, Leaked, Unsaved, Begun, Looking, SubagentsTypeOK
  <2>2. QED
    BY <1>0, <2>1, Unmoved
<1>30. QED
  BY <1>1, <1>2, <1>3, <1>4, <1>5, <1>6, <1>7, <1>8, <1>9, <1>10, <1>11, <1>12, <1>13, <1>14, <1>15, <1>16, <1>17, <1>18, <1>19, <1>20, <1>21, <1>22, <1>23, <1>24, <1>25, <1>26, <1>27, <1>28, <1>29 DEF SubagentsNext

-----------------------------------------------------------------------------

\* At first nobody delegates.
LEMMA Start0 == SubagentsInit => SubagentsInv
<1> SUFFICES ASSUME SubagentsInit PROVE SubagentsInv
  OBVIOUS
<1> USE DEF SubagentsInit
<1>1. Holding = {} /\ Unsaved = {}
  BY DEF Holding, Leaked, Unsaved
<1>2. Counts
  BY <1>1, FS_EmptySet DEF Counts
<1>3. CapacitySound
  <2>1. (Holding \cap Background) \ Unsaved = {} /\ Holding \ Background = {} /\ Unsaved \ Background = {}
    BY <1>1
  <2>2. Cardinality({}) = 0
    BY FS_EmptySet
  <2>3. QED
    BY <2>1, <2>2, CapacityAssumption DEF CapacitySound, CapacityAccounted, CapacityRespected
<1>4. SubagentsTypeOK
  BY CapacityAssumption, FaultsAssumption DEF SubagentsTypeOK, Pending
<1>5. Begun /\ Looking /\ Unstored /\ LockHeld /\ Selected /\ Counted
  BY DEF Begun, Looking, Unstored, LockHeld, Inside, Selected, Counted, Actor
<1>6. Alone /\ OneActive
  BY DEF Alone, Inside, OneActive, Active, Actor
<1>7. QED
  BY <1>2, <1>3, <1>4, <1>5, <1>6 DEF SubagentsInv

\* The invariant is inductive.
LEMMA Invariance == SubagentsSpec => []SubagentsInv
<1>1. SubagentsInv /\ [SubagentsNext]_subagentsVars => SubagentsInv'
  BY TypeStep, BegunStep, LockStep, ResultStep, CapacityStep DEF SubagentsInv, Sound
<1>2. QED
  BY <1>1, Start0, PTL DEF SubagentsSpec

\* The variables keep to their types (utils/subagents.py:41-44).
THEOREM TypeCorrect == SubagentsSpec => []SubagentsTypeOK
BY Invariance, PTL DEF SubagentsInv

\* The reserved set and the semaphore account for the delegations that hold
\* capacity, through every stop and failure, up to the leaks that are named
\* (subagents.py:335-411, 503-508).
THEOREM Capacity == SubagentsSpec => []CapacitySound
BY Invariance, PTL DEF SubagentsInv

\* A result enters the parent chat once, whichever of the actors finds it, and
\* one answer to results is written at a time (subagents.py:72-267).
THEOREM Answers == SubagentsSpec => []AnswersSound
<1>1. SubagentsInv => AnswersSound
  <2>1. SubagentsInv => AnsweredOnce
    BY DEF SubagentsInv, Counted, AnsweredOnce
  <2>2. SubagentsInv => OneAnswerAtATime
    BY DEF SubagentsInv, OneActive, Active, OneAnswerAtATime, Turn
  <2>3. QED
    BY <2>1, <2>2 DEF AnswersSound
<1>2. QED
  BY <1>1, Invariance, PTL

-----------------------------------------------------------------------------
(* The table of tasks of one process (tasks.py without Redis).             *)

\* Out of a list without repetitions one element goes ...
LEMMA RemoveFirstAt ==
    ASSUME NEW l \in Seq(Task), IsInjective(l), NEW t \in ToSet(l)
    PROVE  \E i \in 1..Len(l) :
              /\ l[i] = t
              /\ RemoveFirst(l, t) = RemoveAt(l, i)
<1>1. PICK i \in 1..Len(l) : l[i] = t
    BY DEF ToSet
<1>2. \A k \in 1..Len(l) : l[k] = t => k = i
    BY <1>1 DEF IsInjective
<1>3. {k \in 1..Len(l) : l[k] = t} = {i}
    BY <1>1, <1>2
<1>4. Min({i}) = i
    BY DEF Min
<1>5. RemoveFirst(l, t) = RemoveAt(l, i)
    BY <1>1, <1>3, <1>4 DEF RemoveFirst, SelectInSeq
<1> QED
    BY <1>1, <1>2, <1>5

\* ... and what remains is a list without repetitions that lacks it.
LEMMA RemoveFirstLacks ==
    ASSUME NEW l \in Seq(Task), IsInjective(l), NEW t \in Task
    PROVE  /\ RemoveFirst(l, t) \in Seq(Task)
           /\ IsInjective(RemoveFirst(l, t))
           /\ ToSet(RemoveFirst(l, t)) = ToSet(l) \ {t}
<1>1. CASE t \notin ToSet(l)
  <2>1. ~ \E i \in 1..Len(l) : l[i] = t
    BY <1>1 DEF ToSet
  <2>2. RemoveFirst(l, t) = l
    BY <2>1 DEF RemoveFirst
  <2> QED
    BY <1>1, <2>2
<1>2. CASE t \in ToSet(l)
    <2>1. PICK i \in 1..Len(l) : l[i] = t /\ RemoveFirst(l, t) = RemoveAt(l, i)
        BY <1>2, RemoveFirstAt
    <2> DEFINE r == RemoveAt(l, i)
    <2>2. RemoveFirst(l, t) = r
        BY <1>2, <2>1
    <2> DEFINE front == SubSeq(l, 1, i - 1)
               back == SubSeq(l, i + 1, Len(l))
    <2>3. /\ front \in Seq(Task) /\ Len(front) = i - 1
          /\ \A k \in 1..i-1 : front[k] = l[k]
        BY SubSeqProperties
    <2>4. /\ back \in Seq(Task) /\ Len(back) = Len(l) - i
          /\ \A k \in 1..Len(l)-i : back[k] = l[i + k]
        BY SubSeqProperties
    <2>5. r = front \o back
        BY DEF RemoveAt
    <2> HIDE DEF front, back, r
    <2>6. r \in Seq(Task) /\ Len(r) = Len(l) - 1
      <3>1. Len(r) = Len(front) + Len(back) /\ r \in Seq(Task)
        BY <2>3, <2>4, <2>5, ConcatProperties
      <3> QED
        BY <2>3, <2>4, <3>1
    <2>7. \A k \in 1..Len(r) : r[k] = IF k < i THEN l[k] ELSE l[k + 1]
      <3> SUFFICES ASSUME NEW k \in 1..Len(r) PROVE r[k] = IF k < i THEN l[k] ELSE l[k + 1]
        OBVIOUS
      <3>1. CASE k < i
        BY <2>3, <2>4, <2>5, <2>6, <3>1, ConcatProperties
      <3>2. CASE k >= i
        <4>1. r[k] = back[k - (i - 1)]
            BY <2>3, <2>4, <2>5, <2>6, <3>2, ConcatProperties
        <4>2. k - (i - 1) \in 1..Len(l)-i /\ i + (k - (i - 1)) = k + 1
            BY <2>6, <3>2
        <4>3. back[k - (i - 1)] = l[i + (k - (i - 1))]
            BY <2>4, <4>2
        <4> QED
            BY <3>2, <4>1, <4>2, <4>3
      <3> QED
        BY <3>1, <3>2
    <2>8. IsInjective(r)
      <3>1. DOMAIN r = 1..Len(r) /\ DOMAIN l = 1..Len(l)
        BY <2>6
      <3> DEFINE from(k) == IF k < i THEN k ELSE k + 1
      <3>2. \A k \in 1..Len(r) : from(k) \in 1..Len(l)
        BY <2>1, <2>6
      <3>3. \A j, k \in 1..Len(r) : from(j) = from(k) => j = k
        BY <2>1, <2>6
      <3>5. \A k \in 1..Len(r) : r[k] = l[from(k)]
        BY <2>7
      <3> HIDE DEF from, r
      <3>4. \A j, k \in 1..Len(r) : r[j] = r[k] => from(j) = from(k)
        BY <3>1, <3>2, <3>5 DEF IsInjective
      <3> QED
        BY <3>1, <3>3, <3>4 DEF IsInjective
    <2>9. ToSet(r) \subseteq ToSet(l) \ {t}
        BY <2>1, <2>6, <2>7 DEF IsInjective, ToSet
    <2>10. ASSUME NEW x \in ToSet(l) \ {t} PROVE x \in ToSet(r)
        <3>1. PICK k \in 1..Len(l) : l[k] = x /\ k # i
            BY <2>1, <2>10 DEF ToSet
        <3>2. CASE k < i
          <4>1. k \in 1..Len(r)
            BY <2>6, <3>1, <3>2
          <4> QED
            BY <2>7, <3>1, <3>2, <4>1 DEF ToSet
        <3>3. CASE k > i
          <4>1. k - 1 \in 1..Len(r) /\ ~(k - 1 < i) /\ (k - 1) + 1 = k
            BY <2>6, <3>1, <3>3
          <4>2. r[k - 1] = x
            BY <2>7, <3>1, <4>1
          <4> QED
            BY <4>1, <4>2 DEF ToSet
        <3> QED
            BY <3>1, <3>2, <3>3
    <2> QED
        BY <2>2, <2>6, <2>8, <2>9, <2>10
<1> QED
    BY <1>1, <1>2

-----------------------------------------------------------------------------

\* The task a call awaits is a task once there is one.
Stopping == [at : {"idle", "loop", "await", "stopped", "failed"}, next : Nat \ {0},
             stale : BOOLEAN, cur : Task \cup {CHOOSE t \in Task : TRUE}, seen : SUBSET Task]

LocalTypes ==
    /\ pc \in [Task -> {"new", "body", "tail", "done"}]
    /\ cancelled \in [Task -> BOOLEAN]
    /\ callback \in [Task -> BOOLEAN]
    /\ tasks \in SUBSET Task
    /\ list \in Seq(Task)
    /\ stop \in [Stopper -> Stopping]

\* A task that was not created has no handle, and only one that has ended has
\* its callback to run.
Lifecycle ==
    \A t \in Task : /\ pc[t] = "new" => t \notin tasks
                    /\ callback[t] => pc[t] = "done"

\* A stop that gave up met a task that was created.
FailedMet ==
    \A s \in Stopper : stop[s].at = "failed" => stop[s].cur \in Task /\ pc[stop[s].cur] # "new"

LocalInv == LocalTypes /\ Lifecycle /\ FailedMet /\ TablesHonest

LEMMA LocalInvInit == LocalInit => LocalInv
<1> SUFFICES ASSUME LocalInit PROVE LocalInv
    OBVIOUS
<1>1. LocalTypes
    BY DEF LocalInit, LocalTypes, Stopping
<1>2. ListExact
    BY DEF LocalInit, ListExact, ToSet, IsInjective
<1> QED
    BY <1>1, <1>2 DEF LocalInit, LocalInv, Lifecycle, FailedMet, TablesHonest, HandleKept, FailureHonest

LEMMA CreateStep == ASSUME LocalInv, NEW t \in Task, CreateTask(t) PROVE LocalInv'
<1> USE DEF LocalInv, TablesHonest
<1>1. LocalTypes'
    BY DEF LocalTypes, CreateTask
<1>2. ListExact'
  <2>1. t \notin ToSet(list)
    BY DEF ListExact, Lifecycle, CreateTask, LocalTypes
  <2>2. IsInjective(list') /\ ToSet(list') = ToSet(list) \cup {t}
    BY <2>1 DEF ListExact, CreateTask, LocalTypes, IsInjective, ToSet
  <2> QED
    BY <2>1, <2>2 DEF ListExact, Lifecycle, CreateTask, LocalTypes
<1>3. Lifecycle' /\ HandleKept'
    BY DEF Lifecycle, HandleKept, CreateTask, LocalTypes
<1>4. FailedMet' /\ FailureHonest'
    BY DEF FailedMet, FailureHonest, CreateTask, LocalTypes
<1> QED
    BY <1>1, <1>2, <1>3, <1>4

\* What a clean-up does to the list, and that it spares the calls' other fields.
LEMMA Cleaned ==
    ASSUME LocalTypes, IsInjective(list), NEW t \in Task, Cleanup(t)
    PROVE  /\ tasks' = tasks \ {t}
           /\ list' \in Seq(Task) /\ IsInjective(list') /\ ToSet(list') = ToSet(list) \ {t}
           /\ stop' \in [Stopper -> Stopping]
           /\ \A s \in Stopper : stop'[s].at = stop[s].at /\ stop'[s].cur = stop[s].cur
<1>1. list' = RemoveFirst(list, t)
    BY DEF Cleanup
<1>2. list' \in Seq(Task) /\ IsInjective(list') /\ ToSet(list') = ToSet(list) \ {t}
    BY <1>1, RemoveFirstLacks DEF LocalTypes
<1>3. /\ stop' \in [Stopper -> Stopping]
      /\ \A s \in Stopper : stop'[s].at = stop[s].at /\ stop'[s].cur = stop[s].cur
  <2>1. stop' = [s \in Stopper |-> stop'[s]]
    BY DEF Cleanup
  <2>2. ASSUME NEW s \in Stopper
        PROVE  stop'[s] \in Stopping /\ stop'[s].at = stop[s].at /\ stop'[s].cur = stop[s].cur
    <3>1. stop[s] \in Stopping
      BY DEF LocalTypes
    <3>2. stop'[s] = stop[s] \/ stop'[s] = [stop[s] EXCEPT !.stale = TRUE]
      BY DEF Cleanup
    <3> QED
      BY <3>1, <3>2 DEF Stopping
  <2> QED
    BY <2>1, <2>2
<1> QED
    BY <1>2, <1>3 DEF Cleanup

LEMMA LeaveStep == ASSUME LocalInv, NEW t \in Task, Deregister(t) \/ DoneCallback(t) PROVE LocalInv'
<1> USE DEF LocalInv, TablesHonest
<1>1. /\ tasks' = tasks \ {t}
      /\ list' \in Seq(Task) /\ IsInjective(list') /\ ToSet(list') = ToSet(list) \ {t}
      /\ stop' \in [Stopper -> Stopping]
      /\ \A s \in Stopper : stop'[s].at = stop[s].at /\ stop'[s].cur = stop[s].cur
    BY Cleaned DEF ListExact, Deregister, DoneCallback
<1>2. LocalTypes'
    BY <1>1 DEF LocalTypes, Deregister, DoneCallback
<1>3. ListExact'
    BY <1>1 DEF ListExact, Lifecycle, LocalTypes, Deregister, DoneCallback
<1>4. Lifecycle' /\ HandleKept'
    BY <1>1 DEF Lifecycle, HandleKept, LocalTypes, Deregister, DoneCallback
<1>5. FailedMet' /\ FailureHonest'
  <2>1. /\ cancelled' = cancelled
        /\ \A s \in Stopper : stop'[s].at = stop[s].at /\ stop'[s].cur = stop[s].cur
        /\ \A x \in Task : pc[x] \notin {"new", "body"} => pc'[x] \notin {"new", "body"}
        /\ \A x \in Task : pc'[x] = pc[x] \/ pc'[x] = "tail"
    BY <1>1 DEF LocalTypes, Deregister, DoneCallback
  <2>2. FailedMet'
    BY <2>1 DEF FailedMet
  <2>3. FailureHonest'
    BY <2>1, <2>2 DEF FailedMet, FailureHonest
  <2> QED
    BY <2>2, <2>3
<1> QED
    BY <1>2, <1>3, <1>4, <1>5

LEMMA EndStep == ASSUME LocalInv, NEW t \in Task, End(t) PROVE LocalInv'
<1> USE DEF LocalInv, TablesHonest
<1>1. LocalTypes'
    BY DEF LocalTypes, End
<1>2. ListExact'
    BY DEF ListExact, Lifecycle, LocalTypes, End
<1>3. Lifecycle' /\ HandleKept'
    BY DEF Lifecycle, HandleKept, LocalTypes, End
<1>4. FailedMet' /\ FailureHonest'
    BY DEF FailedMet, FailureHonest, LocalTypes, End
<1> QED
    BY <1>1, <1>2, <1>3, <1>4

LEMMA StopTaskStep == ASSUME LocalInv, NEW s \in Stopper, StopTask(s) PROVE LocalInv'
<1> USE DEF LocalInv, TablesHonest
<1> DEFINE t == list[stop[s].next]
<1>1. t \in Task /\ t \in tasks
    BY DEF LocalTypes, StopTask
<1>2. LocalTypes'
    BY <1>1 DEF LocalTypes, Stopping, StopTask
<1>3. ListExact' /\ Lifecycle'
    BY DEF ListExact, Lifecycle, LocalTypes, StopTask
<1>4. HandleKept'
    BY <1>1 DEF HandleKept, LocalTypes, StopTask
<1>5. FailedMet' /\ FailureHonest'
    BY <1>1 DEF FailedMet, FailureHonest, LocalTypes, Stopping, StopTask
<1> QED
    BY <1>2, <1>3, <1>4, <1>5

\* Whoever gives up read a task of the list without a handle.
LEMMA StopMissingStep == ASSUME LocalInv, NEW s \in Stopper, StopMissing(s) PROVE LocalInv'
<1> USE DEF LocalInv, TablesHonest
<1> DEFINE t == list[stop[s].next]
<1>1. t \in Task /\ t \in ToSet(list) /\ t \notin tasks
    BY DEF LocalTypes, Stopping, StopMissing, Exhausted, ToSet
<1>2. pc[t] # "new" /\ (cancelled[t] \/ pc[t] # "body")
    BY <1>1 DEF ListExact, HandleKept, Lifecycle
<1>3. LocalTypes'
  <2>1. stop' \in [Stopper -> Stopping]
    <3>1. stop[s] \in Stopping
        BY DEF LocalTypes
    <3>2. stop' = [stop EXCEPT ![s] = [stop[s] EXCEPT !.at = "failed", !.cur = t]]
        BY DEF StopMissing
    <3>3. [stop[s] EXCEPT !.at = "failed", !.cur = t] \in Stopping
        BY <1>1, <3>1 DEF Stopping
    <3> QED
        BY <3>2, <3>3 DEF LocalTypes
  <2> QED
    BY <2>1 DEF LocalTypes, StopMissing
<1>4. ListExact' /\ Lifecycle' /\ HandleKept'
    BY DEF ListExact, Lifecycle, HandleKept, LocalTypes, StopMissing
<1>5. \A r \in Stopper : stop'[r] = stop[r] \/ (r = s /\ stop'[r].cur = t)
    BY DEF LocalTypes, Stopping, StopMissing
<1>6. FailedMet' /\ FailureHonest'
    BY <1>1, <1>2, <1>5 DEF FailedMet, FailureHonest, StopMissing
<1> QED
    BY <1>3, <1>4, <1>6

LEMMA StopperStep ==
    ASSUME LocalInv, NEW s \in Stopper, StopBegin(s) \/ StopAwaited(s) \/ StopReturn(s) PROVE LocalInv'
<1> USE DEF LocalInv, TablesHonest
<1>1. ToSet(list) \in SUBSET Task
    BY DEF LocalTypes, ToSet
<1>2. stop' \in [Stopper -> Stopping] /\ stop'[s].at # "failed"
      /\ \A r \in Stopper \ {s} : stop'[r] = stop[r]
  <2> DEFINE moved == IF stop[s].at = "idle"
                      THEN [stop[s] EXCEPT !.at = "loop", !.stale = FALSE, !.seen = ToSet(list)]
                      ELSE IF stop[s].at = "await" THEN [stop[s] EXCEPT !.at = "loop"]
                      ELSE [stop[s] EXCEPT !.at = "stopped"]
  <2>1. stop[s] \in Stopping
    BY DEF LocalTypes
  <2>2. stop' = [stop EXCEPT ![s] = moved]
    BY DEF StopBegin, StopAwaited, StopReturn
  <2>3. moved \in Stopping /\ moved.at # "failed"
    BY <1>1, <2>1 DEF Stopping
  <2> QED
    BY <2>2, <2>3 DEF LocalTypes
<1>3. LocalTypes'
    BY <1>2 DEF LocalTypes, StopBegin, StopAwaited, StopReturn
<1>4. ListExact' /\ Lifecycle' /\ HandleKept'
    BY DEF ListExact, Lifecycle, HandleKept, StopBegin, StopAwaited, StopReturn
<1>5. FailedMet' /\ FailureHonest'
    BY <1>2 DEF FailedMet, FailureHonest, StopBegin, StopAwaited, StopReturn
<1> QED
    BY <1>3, <1>4, <1>5

THEOREM Honest == LocalSpec => []TablesHonest
<1>1. LocalInv /\ [LocalNext]_localVars => LocalInv'
  <2> SUFFICES ASSUME LocalInv, [LocalNext]_localVars PROVE LocalInv'
    OBVIOUS
  <2>1. CASE UNCHANGED localVars
    BY <2>1 DEF localVars, LocalInv, LocalTypes, Lifecycle, FailedMet, TablesHonest, ListExact, HandleKept, FailureHonest
  <2>2. CASE LocalNext
    BY <2>2, CreateStep, LeaveStep, EndStep, StopTaskStep, StopMissingStep, StopperStep DEF LocalNext
  <2> QED
    BY <2>1, <2>2
<1>2. LocalInv => TablesHonest
    BY DEF LocalInv
<1> QED
    BY LocalInvInit, <1>1, <1>2, PTL DEF LocalSpec

-----------------------------------------------------------------------------
(* The timers of a single process.  MCChatTimers' instance Sqlite of        *)
(* ChatTimers and the instance of the theorems below have the same          *)
(* parameters, so each action of the one is the same action of the other.   *)

Single == INSTANCE ChatTimersProofs WITH
    Instance <- SingleInstance, Parent <- SplitParent, ParentOf <- SplitParentOf,
    Cancellable <- SplitCancellable, Limit <- SingleLimit, ClaimId <- SingleClaimId,
    Postgres <- FALSE, MayFail <- SingleMayFail,
    status <- sStatus, claim <- sClaim, due <- sDue, parents <- sParents,
    active <- sActive, claimer <- sClaimer, cancel <- sCancel, doomed <- sDoomed,
    deleting <- sDeleting, jobs <- sJobs, delivered <- sDelivered

LEMMA SameInit == Sqlite!Init => Single!Init
BY DEF Sqlite!Init, Single!Init, Sqlite!Idle, Single!Idle, Sqlite!NoClaim, Single!NoClaim

\* A poll, its commit or its failure.
LEMMA SamePoll == ASSUME NEW i \in SingleInstance PROVE Sqlite!Poll(i) => Single!Poll(i)
<1> USE DEF Sqlite!Idle, Single!Idle, Sqlite!rows, Single!rows, Sqlite!chat, Single!chat
<1>1. Sqlite!ClaimRead(i) => Single!ClaimRead(i)
    BY Zenon DEF Sqlite!ClaimRead, Single!ClaimRead, Sqlite!Claimable, Single!Claimable,
        Sqlite!Locked, Single!Locked, Sqlite!Cardinality, Single!Cardinality
<1>2. Sqlite!ClaimCommit(i) => Single!ClaimCommit(i)
    BY Zenon DEF Sqlite!ClaimCommit, Single!ClaimCommit, Sqlite!Fresh, Single!Fresh
<1>3. Sqlite!ClaimFails(i) => Single!ClaimFails(i)
    BY Zenon DEF Sqlite!ClaimFails, Single!ClaimFails
<1> QED
    BY <1>1, <1>2, <1>3 DEF Sqlite!Poll, Single!Poll

\* A step of a running job.
LEMMA SameExecute == ASSUME NEW j \in sJobs PROVE Sqlite!Execute(j) => Single!Execute(j)
<1> USE DEF Sqlite!At, Single!At, Sqlite!Goto, Single!Goto, Sqlite!Leave, Single!Leave,
            Sqlite!Locked, Single!Locked, Sqlite!rows, Single!rows, Sqlite!chat, Single!chat
<1>1. Sqlite!JobLoad(j) => Single!JobLoad(j)
    BY Zenon DEF Sqlite!JobLoad, Single!JobLoad
<1>2. Sqlite!JobCheck(j) => Single!JobCheck(j)
    BY Zenon DEF Sqlite!JobCheck, Single!JobCheck
<1>3. Sqlite!JobError(j) => Single!JobError(j)
    BY Zenon DEF Sqlite!JobError, Single!JobError
<1>4. Sqlite!JobLock(j) => Single!JobLock(j)
    BY Zenon DEF Sqlite!JobLock, Single!JobLock, Sqlite!HoldsParent, Single!HoldsParent
<1>5. Sqlite!JobProbe(j) => Single!JobProbe(j)
    BY Zenon DEF Sqlite!JobProbe, Single!JobProbe
<1>6. Sqlite!JobRaises(j) => Single!JobRaises(j)
    BY Zenon DEF Sqlite!JobRaises, Single!JobRaises
<1>7. Sqlite!JobRequeue(j) => Single!JobRequeue(j)
    BY Zenon DEF Sqlite!JobRequeue, Single!JobRequeue, Sqlite!NoClaim, Single!NoClaim
<1>8. Sqlite!JobDeliver(j) => Single!JobDeliver(j)
    BY Zenon DEF Sqlite!JobDeliver, Single!JobDeliver
<1>9. Sqlite!JobDeliverFails(j) => Single!JobDeliverFails(j)
    BY Zenon DEF Sqlite!JobDeliverFails, Single!JobDeliverFails
<1>10. Sqlite!JobHandler(j) => Single!JobHandler(j)
    BY Zenon DEF Sqlite!JobHandler, Single!JobHandler
<1> QED
    BY <1>1, <1>2, <1>3, <1>4, <1>5, <1>6, <1>7, <1>8, <1>9, <1>10
        DEF Sqlite!Execute, Single!Execute

LEMMA SameNext == Sqlite!Next => Single!Next
<1> USE DEF Sqlite!NoClaim, Single!NoClaim, Sqlite!Locked, Single!Locked,
            Sqlite!Children, Single!Children, Sqlite!rows, Single!rows, Sqlite!chat, Single!chat
<1>1. ASSUME NEW t \in Timer
      PROVE  Sqlite!Create(t) \/ Sqlite!Due(t) => Single!Create(t) \/ Single!Due(t)
    BY Zenon DEF Sqlite!Create, Single!Create, Sqlite!Due, Single!Due
<1>2. ASSUME NEW p \in SplitParent
      PROVE  Sqlite!ChatBusy(p) \/ Sqlite!ChatIdle(p) => Single!ChatBusy(p) \/ Single!ChatIdle(p)
    BY Zenon DEF Sqlite!ChatBusy, Single!ChatBusy, Sqlite!ChatIdle, Single!ChatIdle
<1>3. ASSUME NEW p \in SplitParent PROVE Sqlite!Cancel(p) => Single!Cancel(p)
    BY Zenon DEF Sqlite!Cancel, Single!Cancel, Sqlite!CancelRead, Single!CancelRead,
        Sqlite!CancelCommit, Single!CancelCommit, Sqlite!CancelFails, Single!CancelFails
<1>4. ASSUME NEW p \in SplitParent PROVE Sqlite!Delete(p) => Single!Delete(p)
    BY Zenon DEF Sqlite!Delete, Single!Delete, Sqlite!DeleteBegin, Single!DeleteBegin,
        Sqlite!DeleteChild, Single!DeleteChild, Sqlite!DeleteParent, Single!DeleteParent,
        Sqlite!HoldsParent, Single!HoldsParent
<1>5. ASSUME NEW i \in SingleInstance PROVE Sqlite!Poll(i) => Single!Poll(i)
    BY SamePoll
<1>6. ASSUME NEW i \in SingleInstance PROVE Sqlite!Crash(i) => Single!Crash(i)
    BY Zenon DEF Sqlite!Crash, Single!Crash, Sqlite!Idle, Single!Idle
<1>7. ASSUME NEW j \in sJobs PROVE Sqlite!Execute(j) => Single!Execute(j)
    BY SameExecute
<1> QED
    BY <1>1, <1>2, <1>3, <1>4, <1>5, <1>6, <1>7 DEF Sqlite!Next, Single!Next

LEMMA SameVars == UNCHANGED Sqlite!vars => UNCHANGED Single!vars
BY DEF Sqlite!vars, Single!vars, Sqlite!rows, Single!rows, Sqlite!chat, Single!chat

LEMMA SameSound == Single!AtMostOnce /\ Single!RunningIsOwned => SqliteSound
BY DEF SqliteSound, Sqlite!AtMostOnce, Single!AtMostOnce, Sqlite!RunningIsOwned,
    Single!RunningIsOwned, Sqlite!Live, Single!Live

\* One process with an SQLite database meets what the timers assume.
LEMMA SingleAssumed ==
    /\ Single!TimerAssumption /\ Single!ParentAssumption /\ Single!LimitAssumption
    /\ Single!PostgresAssumption /\ Single!MayFailAssumption /\ Single!ClaimAssumption
BY TimerAssumption, SingleAssumption
    DEF Single!TimerAssumption, Single!ParentAssumption, Single!LimitAssumption,
        Single!PostgresAssumption, Single!MayFailAssumption, Single!ClaimAssumption

\* In one process with an SQLite database no timer is delivered twice although
\* its row is locked by nobody, and while the process stays up every running
\* timer has its job (claim_due_timers, execute_due_timer).
THEOREM SingleProcess == Sqlite!Spec => []SqliteSound
<1>1. Sqlite!Init => Single!Init
    BY SameInit
<1>2. [Sqlite!Next]_(Sqlite!vars) => [Single!Next]_(Single!vars)
    BY SameNext, SameVars
<1>3. Single!Spec => []Single!AtMostOnce
  <2>1. PICK only \in SingleInstance : SingleInstance = {only}
    BY SingleAssumption
  <2>2. Single!Spec => [](Single!AtMostOnce /\ Single!StatusHonest)
    BY <2>1, SingleAssumed, Single!OneShotSingle
  <2> QED
    BY <2>2, PTL
<1>4. Single!Spec => []Single!RunningIsOwned
  <2>1. SingleMayFail \cap {"crash", "redis"} = {}
    BY SingleAssumption
  <2> QED
    BY <2>1, SingleAssumed, Single!Owned
<1> QED
    BY <1>1, <1>2, <1>3, <1>4, SameSound, PTL DEF Sqlite!Spec, Single!Spec
=============================================================================
