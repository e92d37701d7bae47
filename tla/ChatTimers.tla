----------------------------- MODULE ChatTimers -----------------------------
(***************************************************************************)
(* One-shot chat timers (utils/timers.py): a timer is a row of the chat    *)
(* table whose metadata carry a status.  The scheduler of every instance   *)
(* polls for due rows, claims them and spawns one job per claimed row; a   *)
(* job delivers the timer's prompt into the parent chat, or puts the timer *)
(* back when the parent has active tasks.  Events of the parent chat       *)
(* cancel pending timers; deleting the parent deletes its timers first.    *)
(*                                                                         *)
(* An action is one database transaction, or the part of one up to the     *)
(* next await that other transactions can see.  On PostgreSQL the poll     *)
(* locks the rows it reads (SELECT ... FOR UPDATE SKIP LOCKED) and a job   *)
(* locks its parent's row; on SQLite neither locks anything and a          *)
(* read-modify-write may overwrite what was committed in between.          *)
(***************************************************************************)
EXTENDS Naturals, FiniteSets

CONSTANTS
    Instance,    \* server processes
    Timer,       \* numbered in the order of their due times
    Parent,      \* chats the timers belong to
    ParentOf,
    Cancellable, \* timers whose cancel_on names the event of their parent
    Limit,       \* rows one poll claims at most
    ClaimId,     \* bound: a claim id is reused once no job holds it
    Postgres,    \* FALSE: SQLite
    MayFail      \* "crash": an instance dies; "context": prompt or user is gone;
                 \* "redis": has_active_tasks raises

ASSUME TimerAssumption == Timer \subseteq Nat
ASSUME ParentAssumption == ParentOf \in [Timer -> Parent]
ASSUME LimitAssumption == Limit \in Nat \ {0}
ASSUME PostgresAssumption == Postgres \in BOOLEAN
ASSUME MayFailAssumption == MayFail \subseteq {"crash", "context", "redis"}
ASSUME ClaimAssumption == ClaimId \subseteq Nat \ {0}

NoClaim == 0

VARIABLES
    status,     \* status[t] in the row's metadata; "none": not yet created
    claim,      \* claim[t]: timer_claim_id
    due,        \* timers whose time has come
    parents,    \* parent chats that exist
    active,     \* parents with active tasks
    claimer,    \* claimer[i]: rows a poll of i has read (and locked)
    cancel,     \* cancel[p]: rows a cancellation for p has read
    doomed,     \* doomed[p]: children a deletion of p has yet to delete
    deleting,   \* parents being deleted
    jobs,       \* execute_due_timer tasks
    delivered   \* delivered[t]: how often t's prompt entered the parent

rows == <<status, claim>>
chat == <<parents, active, doomed, deleting>>
vars == <<rows, due, chat, claimer, cancel, jobs, delivered>>

Status == {"none", "pending", "running", "completed", "cancelled", "error", "deleted"}
Job == [inst: Instance, timer: Timer, claim: ClaimId,
        pc: {"start", "loaded", "failing", "ready", "locked", "busy", "free", "handler"}]

TypeOK ==
    /\ status \in [Timer -> Status]
    /\ claim \in [Timer -> ClaimId \cup {NoClaim}]
    /\ due \in SUBSET Timer
    /\ parents \in SUBSET Parent
    /\ active \in SUBSET Parent
    /\ claimer \in [Instance -> [take: SUBSET Timer, lock: SUBSET Timer]]
    /\ cancel \in [Parent -> SUBSET Timer]
    /\ doomed \in [Parent -> SUBSET Timer]
    /\ deleting \in SUBSET Parent
    /\ jobs \in SUBSET Job
    /\ delivered \in [Timer -> Nat]

Idle == [take |-> {}, lock |-> {}]

Init ==
    /\ status = [t \in Timer |-> "none"]
    /\ claim = [t \in Timer |-> NoClaim]
    /\ due = {}
    /\ parents = Parent
    /\ active = {}
    /\ claimer = [i \in Instance |-> Idle]
    /\ cancel = [p \in Parent |-> {}]
    /\ doomed = [p \in Parent |-> {}]
    /\ deleting = {}
    /\ jobs = {}
    /\ delivered = [t \in Timer |-> 0]

Children(p) == {t \in Timer : ParentOf[t] = p}

-----------------------------------------------------------------------------
(* The world around the timers.                                            *)

\* create_timer, called as a tool by a completion of the parent chat.
Create(t) ==
    /\ status[t] = "none"
    /\ status' = [status EXCEPT ![t] = "pending"]
    /\ UNCHANGED <<claim, due, chat, claimer, cancel, jobs, delivered>>

Due(t) ==
    /\ status[t] # "none"
    /\ t \notin due
    /\ due' = due \cup {t}
    /\ UNCHANGED <<rows, chat, claimer, cancel, jobs, delivered>>

\* Completions of the parent chat that have nothing to do with its timers,
\* and the end of any completion.
ChatBusy(p) ==
    /\ p \in parents \ active
    /\ active' = active \cup {p}
    /\ UNCHANGED <<rows, due, parents, doomed, deleting, claimer, cancel, jobs, delivered>>

ChatIdle(p) ==
    /\ p \in active
    /\ active' = active \ {p}
    /\ UNCHANGED <<rows, due, parents, doomed, deleting, claimer, cancel, jobs, delivered>>

-----------------------------------------------------------------------------
(* claim_due_timers                                                        *)

\* Row locks of a poll, held from its read to its commit.
Locked_Never(t) == FALSE  \* mutant: FOR UPDATE SKIP LOCKED is missing
Locked(t) == Postgres /\ \E i \in Instance : t \in claimer[i].lock

Claimable_Running(t) ==  \* mutant: a running timer may be claimed again
    status[t] \in {"pending", "running"} /\ ~Locked(t)
Claimable(t) == status[t] = "pending" /\ ~Locked(t)

ClaimRead_Early(i) ==  \* mutant: pending timers are taken before their time
    LET found == {t \in Timer : Claimable(t)}
    IN  /\ claimer[i] = Idle
        /\ found # {}
        /\ claimer' = [claimer EXCEPT ![i] = [take |-> found, lock |-> found]]
        /\ UNCHANGED <<rows, due, chat, cancel, jobs, delivered>>

\* The first Limit due timers.  (A poll that finds none changes nothing.)
ClaimRead(i) ==
    LET found == {t \in Timer : Claimable(t)}
        take == {t \in found \cap due : Cardinality({u \in found \cap due : u < t}) < Limit}
    IN  /\ claimer[i] = Idle
        /\ take # {}
        /\ claimer' = [claimer EXCEPT ![i] = [take |-> take, lock |-> found]]
        /\ UNCHANGED <<rows, due, chat, cancel, jobs, delivered>>

\* A claim id is a new UUID: no job holds it.
Fresh(t) == ClaimId \ {j.claim : j \in {k \in jobs : k.timer = t}}

\* The commit, and the jobs the scheduler spawns for what it returns.
ClaimCommit(i) ==
    LET take == claimer[i].take
        new == [t \in take |-> CHOOSE c \in Fresh(t) : TRUE]
    IN  /\ take # {}
        /\ \A t \in take : status[t] # "deleted" /\ Fresh(t) # {}
        /\ status' = [t \in Timer |-> IF t \in take THEN "running" ELSE status[t]]
        /\ claim' = [t \in Timer |-> IF t \in take THEN new[t] ELSE claim[t]]
        /\ jobs' = jobs \cup {[inst |-> i, timer |-> t, claim |-> new[t], pc |-> "start"] : t \in take}
        /\ claimer' = [claimer EXCEPT ![i] = Idle]
        /\ UNCHANGED <<due, chat, cancel, delivered>>

\* A row it read was deleted: the update matches nothing and the transaction
\* fails as a whole; the scheduler logs it and polls again.
ClaimFails(i) ==
    /\ \E t \in claimer[i].take : status[t] = "deleted"
    /\ claimer' = [claimer EXCEPT ![i] = Idle]
    /\ UNCHANGED <<rows, due, chat, cancel, jobs, delivered>>

-----------------------------------------------------------------------------
(* cancel_timers_for_chat: reads without a lock, then overwrites the       *)
(* metadata of what it read.                                               *)

CancelRead(p) ==
    LET found == {t \in Children(p) \cap Cancellable : status[t] = "pending"}
    IN  /\ cancel[p] = {}
        /\ found # {}
        /\ cancel' = [cancel EXCEPT ![p] = found]
        /\ UNCHANGED <<rows, due, chat, claimer, jobs, delivered>>

CancelCommit(p) ==
    /\ cancel[p] # {}
    /\ \A t \in cancel[p] : status[t] # "deleted" /\ ~Locked(t)
    /\ status' = [t \in Timer |-> IF t \in cancel[p] THEN "cancelled" ELSE status[t]]
    /\ claim' = [t \in Timer |-> IF t \in cancel[p] THEN NoClaim ELSE claim[t]]
    /\ cancel' = [cancel EXCEPT ![p] = {}]
    /\ UNCHANGED <<due, chat, claimer, jobs, delivered>>

\* One of the rows is gone: nothing is cancelled.
CancelFails(p) ==
    /\ \E t \in cancel[p] : status[t] = "deleted"
    /\ cancel' = [cancel EXCEPT ![p] = {}]
    /\ UNCHANGED <<rows, due, chat, claimer, jobs, delivered>>

-----------------------------------------------------------------------------
(* execute_due_timer                                                       *)

\* Jobs of t that may still deliver it.
Live(t) == {j \in jobs : j.timer = t /\ j.pc # "handler"}
At(j, pc) == j \in jobs /\ j.pc = pc
Goto(j, pc) == jobs' = (jobs \ {j}) \cup {[j EXCEPT !.pc = pc]}
Leave(j) == jobs' = jobs \ {j}

\* Under the timer's lock of its process, the job reads the row and gives up
\* unless it is running under the job's claim.
JobLoad(j) ==
    /\ At(j, "start")
    /\ \A k \in jobs : k.inst = j.inst /\ k.timer = j.timer => k.pc = "start"
    /\ IF status[j.timer] = "running" /\ claim[j.timer] = j.claim
          THEN Goto(j, "loaded")
          ELSE Leave(j)
    /\ UNCHANGED <<rows, due, chat, claimer, cancel, delivered>>

\* Parent, prompt message, user and model are looked up one after the other.
JobCheck(j) ==
    /\ At(j, "loaded")
    /\ \/ ParentOf[j.timer] \in parents /\ Goto(j, "ready")
       \/ (ParentOf[j.timer] \notin parents \/ "context" \in MayFail) /\ Goto(j, "failing")
    /\ UNCHANGED <<rows, due, chat, claimer, cancel, delivered>>

\* _set_timer_state(timer_id, 'error')
JobError_Silent(j) ==  \* mutant: the error exits return without recording it
    /\ At(j, "failing")
    /\ Leave(j)
    /\ UNCHANGED <<rows, due, chat, claimer, cancel, delivered>>
JobError(j) ==
    /\ At(j, "failing")
    /\ ~Locked(j.timer)
    /\ status' = [status EXCEPT ![j.timer] = IF @ = "deleted" THEN @ ELSE "error"]
    /\ Leave(j)
    /\ UNCHANGED <<claim, due, chat, claimer, cancel, delivered>>

HoldsParent(p) == {j \in jobs : ParentOf[j.timer] = p /\ j.pc \in {"locked", "busy", "free"}}

\* The parent's lock of this process, then the parent's row FOR UPDATE.
JobLock(j) ==
    /\ At(j, "ready")
    /\ \A k \in HoldsParent(ParentOf[j.timer]) : ~Postgres /\ k.inst # j.inst
    /\ Goto(j, IF ParentOf[j.timer] \in parents THEN "locked" ELSE "failing")
    /\ UNCHANGED <<rows, due, chat, claimer, cancel, delivered>>

\* has_active_tasks
JobProbe(j) ==
    /\ At(j, "locked")
    /\ Goto(j, IF ParentOf[j.timer] \in active THEN "busy" ELSE "free")
    /\ UNCHANGED <<rows, due, chat, claimer, cancel, delivered>>

\* The lookup raises: so does the job, and nobody looks at the timer again.
JobRaises(j) ==
    /\ "redis" \in MayFail
    /\ At(j, "locked")
    /\ Leave(j)
    /\ UNCHANGED <<rows, due, chat, claimer, cancel, delivered>>

\* The parent is busy: back to pending, for a later poll.
JobRequeue_KeepStatus(j) ==  \* mutant: only the claim is given back
    /\ At(j, "busy")
    /\ claim' = [claim EXCEPT ![j.timer] = NoClaim]
    /\ Leave(j)
    /\ UNCHANGED <<status, due, chat, claimer, cancel, delivered>>
JobRequeue(j) ==
    /\ At(j, "busy")
    /\ ~Locked(j.timer)
    /\ status' = [status EXCEPT ![j.timer] = IF @ = "deleted" THEN @ ELSE "pending"]
    /\ claim' = [claim EXCEPT ![j.timer] = NoClaim]
    /\ Leave(j)
    /\ UNCHANGED <<due, chat, claimer, cancel, delivered>>

\* Prompt and empty answer enter the parent, and the timer is completed, in
\* one transaction, whether or not the timer's row still exists.
JobDeliver(j) ==
    /\ At(j, "free")
    /\ ParentOf[j.timer] \in parents
    /\ ~Locked(j.timer)
    /\ status' = [status EXCEPT ![j.timer] = IF @ = "deleted" THEN @ ELSE "completed"]
    /\ delivered' = [delivered EXCEPT ![j.timer] = @ + 1]
    /\ Goto(j, "handler")
    /\ UNCHANGED <<claim, due, chat, claimer, cancel>>

\* On SQLite the parent may be gone by now: the update of its row fails.
JobDeliverFails(j) ==
    /\ At(j, "free")
    /\ ParentOf[j.timer] \notin parents
    /\ Leave(j)
    /\ UNCHANGED <<rows, due, chat, claimer, cancel, delivered>>

\* CHAT_COMPLETION_HANDLER starts the completion as a task of the parent.
JobHandler(j) ==
    /\ At(j, "handler")
    /\ active' = active \cup {ParentOf[j.timer]}
    /\ Leave(j)
    /\ UNCHANGED <<rows, due, parents, doomed, deleting, claimer, cancel, delivered>>

-----------------------------------------------------------------------------
(* delete_chat_by_id: the child chats first, then the parent.              *)

DeleteBegin(p) ==
    /\ p \in parents \ deleting
    /\ deleting' = deleting \cup {p}
    /\ doomed' = [doomed EXCEPT ![p] = {t \in Children(p) : status[t] \notin {"none", "deleted"}}]
    /\ UNCHANGED <<rows, due, parents, active, claimer, cancel, jobs, delivered>>

DeleteChild(p, t) ==
    /\ t \in doomed[p]
    /\ ~Locked(t)
    /\ status' = [status EXCEPT ![t] = "deleted"]
    /\ claim' = [claim EXCEPT ![t] = NoClaim]
    /\ doomed' = [doomed EXCEPT ![p] = @ \ {t}]
    /\ UNCHANGED <<due, parents, active, deleting, claimer, cancel, jobs, delivered>>

DeleteParent(p) ==
    /\ p \in deleting
    /\ p \in parents
    /\ doomed[p] = {}
    /\ Postgres => HoldsParent(p) = {}
    /\ parents' = parents \ {p}
    /\ UNCHANGED <<rows, due, active, doomed, deleting, claimer, cancel, jobs, delivered>>

\* An instance dies with its poll and its jobs; the rows survive.
Crash(i) ==
    /\ "crash" \in MayFail
    /\ claimer' = [claimer EXCEPT ![i] = Idle]
    /\ jobs' = {j \in jobs : j.inst # i}
    /\ UNCHANGED <<rows, due, chat, cancel, delivered>>

-----------------------------------------------------------------------------

Poll(i) == ClaimRead(i) \/ ClaimCommit(i) \/ ClaimFails(i)
Cancel(p) == CancelRead(p) \/ CancelCommit(p) \/ CancelFails(p)
Execute(j) == \/ JobLoad(j) \/ JobCheck(j) \/ JobError(j) \/ JobLock(j) \/ JobProbe(j)
              \/ JobRaises(j) \/ JobRequeue(j) \/ JobDeliver(j) \/ JobDeliverFails(j) \/ JobHandler(j)
Delete(p) == DeleteBegin(p) \/ (\E t \in Timer : DeleteChild(p, t)) \/ DeleteParent(p)

Next ==
    \/ \E t \in Timer : Create(t) \/ Due(t)
    \/ \E p \in Parent : ChatBusy(p) \/ ChatIdle(p) \/ Cancel(p) \/ Delete(p)
    \/ \E i \in Instance : Poll(i) \/ Crash(i)
    \/ \E j \in jobs : Execute(j)

Spec == Init /\ [][Next]_vars

\* The event loop resumes every coroutine and the scheduler polls for ever.
Fairness ==
    /\ \A i \in Instance : WF_vars(Poll(i))
    /\ \A i \in Instance, t \in Timer :
           WF_vars(\E j \in jobs : j.inst = i /\ j.timer = t /\ Execute(j))

FairSpec == Spec /\ Fairness

-----------------------------------------------------------------------------

\* "One-shot": whatever instances poll and however cancellations, deletions
\* and requeues interleave, a timer's prompt enters its parent at most once.
AtMostOnce == \A t \in Timer : delivered[t] <= 1

\* A running timer is in the hands of a job that carries its claim, as long as
\* its chat exists, no instance dies and no call raises.
RunningIsOwned ==
    \A t \in Timer : status[t] = "running" /\ ParentOf[t] \in parents =>
        \E j \in Live(t) : j.claim = claim[t]

\* A timer shows as completed or pending truthfully: what is pending was not
\* delivered, what is completed was.
StatusHonest ==
    \A t \in Timer : /\ status[t] = "pending" => delivered[t] = 0
                     /\ status[t] = "completed" => delivered[t] > 0

\* With row locks the timers implement the abstract timer: the status shown
\* moves as OneShotTimer lets it, and a prompt enters the chat once, after its
\* time, and never from a timer that a server could still take.
Promise == INSTANCE OneShotTimer WITH shown <- status, fired <- delivered

ImplementsOneShot == Promise!Spec

\* If from some time on the chats are idle, every timer that is due is
\* delivered, cancelled, failed for good or deleted, or its chat is.
DueIsResolved ==
    <>[](active = {}) =>
        \A t \in Timer : (t \in due /\ status[t] \in {"pending", "running"})
                            ~> \/ status[t] \notin {"pending", "running"}
                               \/ ParentOf[t] \notin parents
=============================================================================
