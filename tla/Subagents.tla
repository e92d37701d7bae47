----------------------------- MODULE Subagents ------------------------------
(***************************************************************************)
(* Sub-agents of one chat in one server process (utils/subagents.py): a    *)
(* running completion of the chat delegates tasks, each to a completion in *)
(* an internal chat of its own.  Foreground delegations share a semaphore  *)
(* and are awaited; background delegations share a bounded set, and their  *)
(* results are put into the parent chat as pending messages, which one of  *)
(* several actors answers with a new completion ("turn") of the chat.      *)
(***************************************************************************)
EXTENDS Naturals, FiniteSets

CONSTANTS
    Delegation, Background, \* Background \subseteq Delegation; the rest is foreground
    UserTurn,               \* completions that the user starts in the parent chat
    IssuerOf,               \* IssuerOf[d]: the turn that calls delegate for d
    MaxAsync, MaxConcurrent,\* subagents.max_async, subagents.max_concurrent
    Nobody,
    MaxFaults               \* bound: stops, deletions and failed calls in one behaviour

ASSUME BackgroundAssumption == Background \subseteq Delegation
ASSUME CapacityAssumption == MaxAsync \in Nat \ {0} /\ MaxConcurrent \in Nat \ {0}
ASSUME FaultsAssumption == MaxFaults \in Nat

Answer(d) == <<d>>   \* the turn that answers a batch whose first result is d's
Turn == UserTurn \cup {Answer(d) : d \in Background}
Actor == Background \cup Turn  \* who calls process_pending_internal_messages

\* Every completion has an id of its own.
ASSUME DistinctAssumption ==
    /\ Delegation \cap Turn = {}
    /\ UserTurn \cap {Answer(d) : d \in Background} = {}
    /\ Nobody \notin Actor

VARIABLES
    call,    \* call[d]: the delegate coroutine
    ahead,   \* ahead[d]: who waited for the semaphore when d began to
    permits, \* its value
    reserved,  \* _background_active
    child,   \* child[d]: the delegated task
    result,  \* result[d]: the pending message
    answers, \* answers[d]: turns started for it
    turn,    \* turn[k]; see HasActiveTasks
    drain,   \* drain[a]: process_pending_internal_messages of a
    batch,   \* batch[a]: the results it has selected
    lock,    \* holder of _parent_locks[parent]
    parent,  \* the parent chat exists
    faults   \* how many stops, deletions and failures have happened

callVars == <<call, ahead>>
capacity == <<permits, reserved>>
inbox == <<result, answers, parent>>
drainVars == <<drain, batch, lock>>
subagentsVars == <<callVars, capacity, child, inbox, turn, drainVars, faults>>

Pending == {"queued", "create", "register", "await"}

SubagentsTypeOK ==
    /\ call \in [Delegation -> Pending \cup {"idle", "returned", "unsaved", "dropped"}]
    /\ ahead \in [Delegation -> SUBSET Delegation]
    /\ permits \in Nat
    /\ reserved \in SUBSET Background
    /\ child \in [Delegation -> {"none", "created", "running", "store", "check", "drain", "done",
                              "aborted", "unbegun"}]
    /\ result \in [Background -> {"none", "stored", "taken", "answered", "lost"}]
    /\ answers \in [Background -> Nat]
    /\ turn \in [Turn -> {"new", "running", "stopping", "unlisted", "closing", "drain", "over",
                       "entry", "cut", "left"}]
    /\ drain \in [Actor -> {"no", "poll", "lock", "select", "commit", "start"}]
    /\ batch \in [Actor -> SUBSET Background]
    /\ lock \in Actor \cup {Nobody}
    /\ parent \in BOOLEAN
    /\ faults \in 0..MaxFaults

SubagentsInit ==
    /\ call = [d \in Delegation |-> "idle"]
    /\ ahead = [d \in Delegation |-> {}]
    /\ permits = MaxConcurrent
    /\ reserved = {}
    /\ child = [d \in Delegation |-> "none"]
    /\ result = [d \in Background |-> "none"]
    /\ answers = [d \in Background |-> 0]
    /\ turn = [k \in Turn |-> "new"]
    /\ drain = [a \in Actor |-> "no"]
    /\ batch = [a \in Actor |-> {}]
    /\ lock = Nobody
    /\ parent = TRUE
    /\ faults = 0

Fault == faults < MaxFaults /\ faults' = faults + 1

\* The registry lists a turn until its finally block takes it out ("closing"),
\* a stop does ("unlisted", with Redis), or, when the block could not ("entry"),
\* the done callback of its task; "left" if that fails as well.
HasActiveTasks == \E k \in Turn : turn[k] \in {"running", "stopping", "entry", "left"}

-----------------------------------------------------------------------------
(* delegate                                                                *)

Release(d) ==
    IF d \in Background
       THEN reserved' = reserved \ {d} /\ UNCHANGED permits
       ELSE permits' = permits + 1 /\ UNCHANGED reserved

\* Capacity for background tasks is checked and reserved under a lock.
Reserve_Late(d) ==  \* mutant: the capacity is checked before the reservation, an await apart
    /\ turn[IssuerOf[d]] = "running" /\ call[d] = "idle"
    /\ call' = [call EXCEPT ![d] = "create"]
    /\ reserved' = reserved \cup {d}
    /\ UNCHANGED <<ahead, permits, child, inbox, turn, drainVars, faults>>
Reserve(d) ==
    /\ turn[IssuerOf[d]] = "running" /\ call[d] = "idle"
    /\ LET free == Cardinality(reserved) < MaxAsync IN
          /\ call' = [call EXCEPT ![d] = IF free THEN "create" ELSE "returned"]
          /\ reserved' = IF free THEN reserved \cup {d} ELSE reserved
    /\ UNCHANGED <<ahead, permits, child, inbox, turn, drainVars, faults>>

\* A foreground task waits for the semaphore, which is first come first served.
Waiting == {d \in Delegation : call[d] = "queued"}

Enqueue(d) ==
    /\ turn[IssuerOf[d]] = "running" /\ call[d] = "idle"
    /\ call' = [call EXCEPT ![d] = "queued"]
    /\ ahead' = [ahead EXCEPT ![d] = Waiting]
    /\ UNCHANGED <<capacity, child, inbox, turn, drainVars, faults>>

Acquire(d) ==
    /\ permits > 0
    /\ d \in Waiting /\ ahead[d] \cap Waiting = {}
    /\ permits' = permits - 1
    /\ call' = [call EXCEPT ![d] = "create"]
    /\ UNCHANGED <<ahead, reserved, child, inbox, turn, drainVars, faults>>

\* The internal chat is inserted, and create_task starts the run.
CreateChat(d) ==
    /\ call[d] = "create"
    /\ call' = [call EXCEPT ![d] = "register"]
    /\ child' = [child EXCEPT ![d] = "created"]
    /\ UNCHANGED <<ahead, capacity, inbox, turn, drainVars, faults>>

CreateChatFails(d) ==
    /\ Fault
    /\ call[d] = "create"
    /\ call' = [call EXCEPT ![d] = "returned"]
    /\ Release(d)
    /\ UNCHANGED <<ahead, child, inbox, turn, drainVars>>

\* create_task has registered the run; a background delegation returns.
Registered(d) ==
    /\ call[d] = "register"
    /\ call' = [call EXCEPT ![d] = IF d \in Background THEN "returned" ELSE "await"]
    /\ UNCHANGED <<ahead, capacity, child, inbox, turn, drainVars, faults>>

\* The registration fails while the run has begun, and will release, too.
RegisterFails(d) ==
    /\ Fault
    /\ call[d] = "register"
    /\ call' = [call EXCEPT ![d] = "unsaved"]
    /\ Release(d)
    /\ UNCHANGED <<ahead, child, inbox, turn, drainVars>>

Awaited(d) ==
    /\ call[d] = "await"
    /\ child[d] \in {"done", "unbegun"}
    /\ call' = [call EXCEPT ![d] = "returned"]
    /\ UNCHANGED <<ahead, capacity, child, inbox, turn, drainVars, faults>>

-----------------------------------------------------------------------------
(* run_reserved and run_background                                         *)

Begin(d) ==
    /\ child[d] = "created"
    /\ child' = [child EXCEPT ![d] = "running"]
    /\ UNCHANGED <<callVars, capacity, inbox, turn, drainVars, faults>>

\* A run that is stopped before its first step never enters the try block whose
\* finally would give its capacity back.
StopUnbegun(d) ==
    /\ Fault
    /\ child[d] = "created"
    /\ child' = [child EXCEPT ![d] = "unbegun"]
    /\ UNCHANGED <<callVars, capacity, inbox, turn, drainVars>>

\* The run ends, well, with an error or cancelled, and gives its capacity back.
EndRun(d) ==
    /\ child[d] = "running"
    /\ child' = [child EXCEPT ![d] = IF d \in Background THEN "store" ELSE "done"]
    /\ Release(d)
    /\ UNCHANGED <<callVars, inbox, turn, drainVars, faults>>

\* Under the parent's lock the result becomes a message of the parent chat.
Store(d) ==
    /\ child[d] = "store"
    /\ lock = Nobody
    /\ result' = [result EXCEPT ![d] = IF parent THEN "stored" ELSE "lost"]
    /\ child' = [child EXCEPT ![d] = IF parent THEN "check" ELSE "done"]
    /\ UNCHANGED <<callVars, capacity, answers, parent, turn, drainVars, faults>>

\* With nobody active in the parent chat the background task answers itself.
Check_Never(d) ==  \* mutant: it relies on the turns to answer
    /\ child[d] = "check"
    /\ child' = [child EXCEPT ![d] = "done"]
    /\ UNCHANGED <<callVars, capacity, inbox, turn, drainVars, faults>>
Check(d) ==
    /\ child[d] = "check"
    /\ child' = [child EXCEPT ![d] = IF HasActiveTasks THEN "done" ELSE "drain"]
    /\ drain' = [drain EXCEPT ![d] = IF HasActiveTasks THEN "no" ELSE "poll"]
    /\ UNCHANGED <<callVars, capacity, inbox, turn, batch, lock, faults>>

\* process_pending_internal_messages of a, if it runs, is left by an exception:
\* what it has put before the model is not answered any more.
Abandon(a) ==
    /\ drain' = [drain EXCEPT ![a] = "no"]
    /\ lock' = IF lock = a THEN Nobody ELSE lock
    /\ result' = [e \in Background |-> IF drain[a] = "start" /\ e \in batch[a] THEN "lost" ELSE result[e]]
    /\ batch' = [batch EXCEPT ![a] = {}]

\* A background task is stopped while it delivers, or a call it makes fails.
StopDelivery(d) ==
    /\ Fault
    /\ child[d] \in {"store", "check", "drain"}
    /\ child' = [child EXCEPT ![d] = "aborted"]
    /\ Abandon(d)
    /\ UNCHANGED <<callVars, capacity, answers, parent, turn>>

-----------------------------------------------------------------------------
(* Turns of the parent chat, and process_chat's finally block              *)

Prompt(k) ==
    /\ k \in UserTurn
    /\ parent
    /\ turn[k] = "new"
    /\ turn' = [turn EXCEPT ![k] = "running"]
    /\ UNCHANGED <<callVars, capacity, child, inbox, drainVars, faults>>

CallsOf(k) == {d \in Delegation : IssuerOf[d] = k /\ call[d] \in Pending}

\* process_chat's finally block deregisters the turn's task.
EndTurn(k) ==
    /\ turn[k] \in {"running", "stopping", "unlisted"}
    /\ CallsOf(k) = {}
    /\ turn' = [turn EXCEPT ![k] = "closing"]
    /\ UNCHANGED <<callVars, capacity, child, inbox, drainVars, faults>>

\* The block is cut short.  While it awaits cleanup_task a stop raises a
\* CancelledError, which "except Exception" lets through; a failing cleanup_task
\* leaves the turn listed, so that it takes itself for an active one; and a call
\* that fails later is only logged.  Either way it does not look (on) for results.
CutShort(k) ==
    /\ Fault
    /\ \/ /\ turn[k] \in {"running", "stopping"} /\ CallsOf(k) = {}
          /\ \E listed \in {"entry", "left"} : turn' = [turn EXCEPT ![k] = listed]
       \/ /\ turn[k] = "unlisted" /\ CallsOf(k) = {}
          /\ turn' = [turn EXCEPT ![k] = "cut"]
       \/ /\ turn[k] \in {"closing", "drain"}
          /\ turn' = [turn EXCEPT ![k] = "cut"]
    /\ Abandon(k)
    /\ UNCHANGED <<callVars, capacity, child, answers, parent>>

\* The done callback deregisters a turn that its finally block has not.
Callback(k) ==
    /\ turn[k] = "entry"
    /\ turn' = [turn EXCEPT ![k] = "cut"]
    /\ UNCHANGED <<callVars, capacity, child, inbox, drainVars, faults>>

\* The user stops the turn: a waiter waits no longer; a call that creates its
\* chat is left by a CancelledError, which "except Exception" does not catch;
\* one that registers its run leaves it alone; one that awaits its run cancels
\* it (for good, if it has not begun) and waits until it has ended.
StopTurn_Caught(k) ==  \* mutant: an await's cancellation releases the permit, too
    /\ Fault
    /\ turn[k] = "running"
    /\ turn' = [turn EXCEPT ![k] = "stopping"]
    /\ LET stopped == CallsOf(k)
       IN /\ call' = [d \in Delegation |-> IF d \in stopped THEN "returned" ELSE call[d]]
          /\ permits' = permits + Cardinality({d \in stopped \ Background : call[d] # "queued"})
    /\ UNCHANGED <<ahead, reserved, child, inbox, drainVars>>
StopTurn(k) ==
    /\ Fault
    /\ turn[k] = "running"
    /\ turn' = [turn EXCEPT ![k] = "stopping"]
    /\ LET stopped == {d \in CallsOf(k) : call[d] # "await"}
       IN call' = [d \in Delegation |-> IF d \notin stopped THEN call[d]
                                        ELSE IF call[d] = "create" THEN "dropped" ELSE "returned"]
    /\ child' = [d \in Delegation |-> IF d \in CallsOf(k) /\ call[d] = "await" /\ child[d] = "created"
                                          THEN "unbegun" ELSE child[d]]
    /\ UNCHANGED <<ahead, capacity, inbox, drainVars>>

\* With Redis, stop_task takes the turn out of the registry itself, at once.
Unlist(k) ==
    /\ turn[k] = "stopping"
    /\ turn' = [turn EXCEPT ![k] = "unlisted"]
    /\ UNCHANGED <<callVars, capacity, child, inbox, drainVars, faults>>

\* Deregistered, the turn looks for pending messages if no other turn runs.
CloseTurn(k) ==
    /\ turn[k] = "closing"
    /\ turn' = [turn EXCEPT ![k] = IF HasActiveTasks THEN "over" ELSE "drain"]
    /\ drain' = [drain EXCEPT ![k] = IF HasActiveTasks THEN "no" ELSE "poll"]
    /\ UNCHANGED <<callVars, capacity, child, inbox, batch, lock, faults>>

-----------------------------------------------------------------------------
(* process_pending_internal_messages                                       *)

AwaitIdle(a) ==
    /\ drain[a] = "poll"
    /\ ~HasActiveTasks
    /\ drain' = [drain EXCEPT ![a] = "lock"]
    /\ UNCHANGED <<callVars, capacity, child, inbox, turn, batch, lock, faults>>

\* The call returns, having started the turns in started.
EndDrain(a, started) ==
    /\ drain' = [drain EXCEPT ![a] = "no"]
    /\ batch' = [batch EXCEPT ![a] = {}]
    /\ child' = [d \in Delegation |-> IF d = a THEN "done" ELSE child[d]]
    /\ turn' = [k \in Turn |-> IF k \in started THEN "running" ELSE IF k = a THEN "over" ELSE turn[k]]

Lock_Unchecked(a) ==  \* mutant: the second look at the active tasks is missing
    /\ drain[a] = "lock"
    /\ lock = Nobody
    /\ lock' = a
    /\ drain' = [drain EXCEPT ![a] = "select"]
    /\ UNCHANGED <<callVars, capacity, child, inbox, turn, batch, faults>>
Lock_Shared(a) ==  \* mutant: every call creates a lock of its own
    /\ drain[a] = "lock"
    /\ ~HasActiveTasks
    /\ drain' = [drain EXCEPT ![a] = "select"]
    /\ UNCHANGED <<callVars, capacity, child, inbox, turn, batch, lock, faults>>
Lock(a) ==
    /\ drain[a] = "lock"
    /\ lock = Nobody
    /\ IF HasActiveTasks
          THEN EndDrain(a, {}) /\ UNCHANGED lock
          ELSE lock' = a /\ drain' = [drain EXCEPT ![a] = "select"] /\ UNCHANGED <<child, turn, batch>>
    /\ UNCHANGED <<callVars, capacity, inbox, faults>>

Unlock(a) == lock' = IF lock = a THEN Nobody ELSE lock

\* Pending results are read; the first one is taken with those that share its
\* parent message and model (here: any set of results with it).
SelectRead(a) ==
    /\ drain[a] = "select"
    /\ LET pending == {d \in Background : result[d] = "stored"}
       IN IF ~parent \/ pending = {}
             THEN EndDrain(a, {}) /\ Unlock(a)
             ELSE /\ \E taken \in SUBSET pending \ {{}} : batch' = [batch EXCEPT ![a] = taken]
                  /\ drain' = [drain EXCEPT ![a] = "commit"]
                  /\ UNCHANGED <<child, turn, lock>>
    /\ UNCHANGED <<callVars, capacity, inbox, faults>>

\* They become one user message with an answer to be written.
Commit(a) ==
    /\ drain[a] = "commit"
    /\ IF ~parent
          THEN EndDrain(a, {}) /\ Unlock(a) /\ UNCHANGED <<result, answers>>
          ELSE /\ result' = [d \in Background |-> IF d \in batch[a] THEN "taken" ELSE result[d]]
               /\ answers' = [d \in Background |-> IF d \in batch[a] THEN answers[d] + 1 ELSE answers[d]]
               /\ drain' = [drain EXCEPT ![a] = "start"]
               /\ UNCHANGED <<child, turn, batch, lock>>
    /\ UNCHANGED <<callVars, capacity, parent, faults>>

\* CHAT_COMPLETION_HANDLER registers the turn that writes the answer.
Start(a) ==
    /\ drain[a] = "start"
    /\ \E d \in batch[a] : turn[Answer(d)] = "new" /\ EndDrain(a, {Answer(d)})
    /\ result' = [d \in Background |-> IF d \in batch[a] THEN "answered" ELSE result[d]]
    /\ Unlock(a)
    /\ UNCHANGED <<callVars, capacity, answers, parent, faults>>

\* It raises: the results are in the chat, and nobody answers them any more.
StartFails(a) ==
    /\ Fault
    /\ drain[a] = "start"
    /\ EndDrain(a, {})
    /\ result' = [d \in Background |-> IF d \in batch[a] THEN "lost" ELSE result[d]]
    /\ Unlock(a)
    /\ UNCHANGED <<callVars, capacity, answers, parent>>

RemoveParent ==
    /\ Fault
    /\ parent
    /\ parent' = FALSE
    /\ UNCHANGED <<callVars, capacity, child, result, answers, turn, drainVars>>

-----------------------------------------------------------------------------
CallStep(d) ==
    \/ Acquire(d) \/ CreateChat(d) \/ CreateChatFails(d)
    \/ Registered(d) \/ RegisterFails(d) \/ Awaited(d)
RunStep(d) == Begin(d) \/ EndRun(d) \/ Store(d) \/ Check(d)
DrainStep(a) == AwaitIdle(a) \/ Lock(a) \/ SelectRead(a) \/ Commit(a) \/ Start(a) \/ StartFails(a)

SubagentsNext ==
    \/ \E d \in Background : Reserve(d)
    \/ \E d \in Delegation \ Background : Enqueue(d) \/ Acquire(d)
    \/ \E d \in Delegation : CreateChat(d) \/ CreateChatFails(d) \/ Registered(d) \/ RegisterFails(d)
    \/ \E d \in Delegation : Begin(d) \/ StopUnbegun(d) \/ EndRun(d)
    \/ \E d \in Delegation \ Background : Awaited(d)
    \/ \E d \in Background : Store(d) \/ Check(d) \/ StopDelivery(d)
    \/ \E k \in UserTurn : Prompt(k)
    \/ \E k \in Turn : EndTurn(k) \/ StopTurn(k) \/ Unlist(k) \/ CloseTurn(k)
    \/ \E k \in Turn : CutShort(k) \/ Callback(k)
    \/ \E a \in Actor : AwaitIdle(a) \/ Lock(a) \/ SelectRead(a) \/ Commit(a) \/ Start(a) \/ StartFails(a)
    \/ RemoveParent

\* The event loop runs every ready coroutine and every completion ends;
\* prompts, stops, deletions and failures are nobody's duty.
SubagentsFairness ==
    /\ \A d \in Delegation : WF_subagentsVars(CallStep(d)) /\ WF_subagentsVars(RunStep(d))
    /\ \A k \in Turn : WF_subagentsVars(EndTurn(k) \/ CloseTurn(k) \/ Callback(k))
    /\ \A a \in Actor : WF_subagentsVars(DrainStep(a))

SubagentsSpec == SubagentsInit /\ [][SubagentsNext]_subagentsVars /\ SubagentsFairness

-----------------------------------------------------------------------------
(* Properties                                                              *)

Unsaved == {d \in Delegation : call[d] = "unsaved"}
Leaked == {d \in Delegation : call[d] = "dropped" \/ child[d] = "unbegun"}
Holding == {d \in Delegation : call[d] = "create" \/ child[d] \in {"created", "running"}} \cup Leaked

\* The reserved set and the semaphore account for exactly the delegations that
\* hold capacity, through every stop, error and early return.  The code's
\* leaks are named: a call stopped while it inserts its chat holds for ever
\* ("dropped"), and so does a run stopped before its first step ("unbegun"); a call
\* whose registration fails releases once too often ("unsaved").
CapacityAccounted ==
    /\ reserved = (Holding \cap Background) \ Unsaved
    /\ permits + Cardinality(Holding \ Background) = MaxConcurrent + Cardinality(Unsaved \ Background)

\* No more background tasks run than max_async allows, however many turns
\* delegate at once; only a failed registration lets one more in.
CapacityRespected == Cardinality((Holding \cap Background) \ Unsaved) <= MaxAsync

\* The capacity is what the running delegations leave, and never overdrawn.
CapacitySound == CapacityAccounted /\ CapacityRespected

\* A result is put before the model at most once, although the background
\* task, every closing turn and other background tasks look for it.
AnsweredOnce == \A d \in Background : answers[d] <= 1

\* Two completions never answer pending results in one chat at a time.
OneAnswerAtATime ==
    \A d, e \in Background :
        turn[Answer(d)] = "running" /\ turn[Answer(e)] = "running" => d = e

\* Results enter the parent chat once, in one answering turn at a time.
AnswersSound == AnsweredOnce /\ OneAnswerAtATime

Disturbed ==
    \/ ~parent
    \/ Leaked \ Background # {}
    \/ \E d \in Background : child[d] = "aborted" \/ result[d] = "lost"
    \/ \E k \in Turn : turn[k] \in {"entry", "cut", "left"}

\* No lost wake-up: a stored result is answered, whoever was busy when it came,
\* unless the chat is deleted, a delivery is stopped or a call of it fails, an
\* answer fails to start, a turn's finally block is cut short by a stop or a
\* failing call, or a turn waits for ever for a permit that has leaked; and a
\* foreground delegation that waits gets its turn or leaves.
DelegationsEnd ==
    /\ \A d \in Background : (result[d] = "stored") ~> (result[d] = "answered" \/ Disturbed)
    /\ \A d \in Delegation \ Background :
          (call[d] = "queued") ~> (call[d] # "queued" \/ Leaked \ Background # {})
=============================================================================
