-------------------------- MODULE ChatTimersProofs --------------------------
(***************************************************************************)
(* Safety of the chat timers, with crashes and failing jobs: a timer's     *)
(* prompt enters its parent at most once, on PostgreSQL for any number of  *)
(* instances and on SQLite for one; and a running timer has a job.         *)
(*                                                                         *)
(* AtMostOnce is not inductive.  A second delivery would need a second job *)
(* that may still deliver, or a delivered timer that is claimed again; the *)
(* strengthening excludes both, and needs the row locks of a poll for it,  *)
(* or that there is one process.                                           *)
(***************************************************************************)
EXTENDS ChatTimers, TLAPS

\* What a poll has locked stays pending until it commits, and a poll takes
\* nothing that it has not locked.
LockedPending ==
    \A i \in Instance : /\ claimer[i].take \subseteq claimer[i].lock
                        /\ \A t \in claimer[i].lock : status[t] = "pending"

\* No two polls lock the same row.
LockExclusive ==
    \A i, k \in Instance : i # k => claimer[i].lock \cap claimer[k].lock = {}

\* At most one job may still deliver a timer.
LoneJob ==
    \A j, k \in jobs : j.timer = k.timer /\ j.pc # "handler" /\ k.pc # "handler" => j = k

\* While it may, the timer is neither delivered nor claimable.
OpenJob ==
    \A j \in jobs : j.pc # "handler" => /\ delivered[j.timer] = 0
                                        /\ status[j.timer] \in {"running", "cancelled", "deleted"}

\* A timer that may be claimed is undelivered.
WaitingUndelivered == \A t \in Timer : status[t] \in {"none", "pending"} => delivered[t] = 0

CompletedDelivered == \A t \in Timer : status[t] = "completed" => delivered[t] > 0

IInv ==
    /\ TypeOK
    /\ LockedPending
    /\ LockExclusive
    /\ LoneJob
    /\ OpenJob
    /\ WaitingUndelivered
    /\ CompletedDelivered
    /\ AtMostOnce

-----------------------------------------------------------------------------

\* What a claim's commit adds to the jobs: one job for each row it took.
LEMMA SpawnedJobs ==
    ASSUME TypeOK, NEW i \in Instance, ClaimCommit(i)
    PROVE  \E new \in [claimer[i].take -> ClaimId] :
              /\ claim' = [t \in Timer |-> IF t \in claimer[i].take THEN new[t] ELSE claim[t]]
              /\ jobs' = jobs \cup {[inst |-> i, timer |-> t, claim |-> new[t], pc |-> "start"]
                                     : t \in claimer[i].take}
<1> DEFINE new == [t \in claimer[i].take |-> CHOOSE c \in Fresh(t) : TRUE]
<1>1. ASSUME NEW t \in claimer[i].take PROVE new[t] \in ClaimId
    <2>1. Fresh(t) # {} /\ Fresh(t) \subseteq ClaimId
        BY DEF ClaimCommit, Fresh
    <2> QED
        BY <2>1
<1>2. new \in [claimer[i].take -> ClaimId]
    BY <1>1
<1>3. /\ claim' = [t \in Timer |-> IF t \in claimer[i].take THEN new[t] ELSE claim[t]]
      /\ jobs' = jobs \cup {[inst |-> i, timer |-> t, claim |-> new[t], pc |-> "start"]
                             : t \in claimer[i].take}
    BY DEF ClaimCommit
<1> HIDE DEF new
<1> QED
    BY <1>2, <1>3

\* Every action keeps the variables in their types.
LEMMA TypeStep == TypeOK /\ [Next]_vars => TypeOK'
<1> SUFFICES ASSUME TypeOK, [Next]_vars PROVE TypeOK'
    OBVIOUS
<1> USE ParentAssumption DEF TypeOK, rows, chat, Status, Job, Idle, Goto, Leave, At
<1>1. ASSUME NEW t \in Timer, Create(t) PROVE TypeOK'
    BY <1>1 DEF Create, NoClaim
<1>2. ASSUME NEW t \in Timer, Due(t) PROVE TypeOK'
    BY <1>2 DEF Due
<1>3. ASSUME NEW p \in Parent, ChatBusy(p) PROVE TypeOK'
    BY <1>3 DEF ChatBusy
<1>4. ASSUME NEW p \in Parent, ChatIdle(p) PROVE TypeOK'
    BY <1>4 DEF ChatIdle
<1>5. ASSUME NEW p \in Parent, CancelRead(p) PROVE TypeOK'
    BY <1>5 DEF CancelRead, Children
<1>6. ASSUME NEW p \in Parent, CancelCommit(p) PROVE TypeOK'
    BY <1>6 DEF CancelCommit, NoClaim
<1>7. ASSUME NEW p \in Parent, CancelFails(p) PROVE TypeOK'
    BY <1>7 DEF CancelFails
<1>8. ASSUME NEW p \in Parent, DeleteBegin(p) PROVE TypeOK'
    BY <1>8 DEF DeleteBegin, Children
<1>9. ASSUME NEW p \in Parent, NEW t \in Timer, DeleteChild(p, t) PROVE TypeOK'
    BY <1>9 DEF DeleteChild, NoClaim
<1>10. ASSUME NEW p \in Parent, DeleteParent(p) PROVE TypeOK'
    BY <1>10 DEF DeleteParent
<1>11. ASSUME NEW i \in Instance, ClaimRead(i) PROVE TypeOK'
    BY <1>11 DEF ClaimRead, Claimable
<1>12. ASSUME NEW i \in Instance, ClaimCommit(i) PROVE TypeOK'
    <2>1. PICK new \in [claimer[i].take -> ClaimId] :
              /\ claim' = [t \in Timer |-> IF t \in claimer[i].take THEN new[t] ELSE claim[t]]
              /\ jobs' = jobs \cup {[inst |-> i, timer |-> t, claim |-> new[t], pc |-> "start"]
                                     : t \in claimer[i].take}
        BY <1>12, SpawnedJobs
    <2>2. claimer[i].take \subseteq Timer
        OBVIOUS
    <2>3. claim' \in [Timer -> ClaimId \cup {NoClaim}]
        BY <2>1
    <2>4. jobs' \in SUBSET Job
        BY <2>1, <2>2
    <2> QED
        BY <1>12, <2>3, <2>4 DEF ClaimCommit
<1>13. ASSUME NEW i \in Instance, ClaimFails(i) PROVE TypeOK'
    BY <1>13 DEF ClaimFails, NoClaim
<1>14. ASSUME NEW i \in Instance, Crash(i) PROVE TypeOK'
    BY <1>14 DEF Crash
<1>15. ASSUME NEW j \in jobs, JobLoad(j) PROVE TypeOK'
    <2>1. j \in Job
        OBVIOUS
    <2>2. [j EXCEPT !.pc = "loaded"] \in Job
        BY <2>1
    <2>3. jobs' \in SUBSET Job
        BY <1>15, <2>1, <2>2 DEF JobLoad
    <2> QED
        BY <1>15, <2>3 DEF JobLoad
<1>16. ASSUME NEW j \in jobs, JobCheck(j) PROVE TypeOK'
    BY <1>16 DEF JobCheck
<1>17. ASSUME NEW j \in jobs, JobError(j) PROVE TypeOK'
    BY <1>17 DEF JobError
<1>18. ASSUME NEW j \in jobs, JobLock(j) PROVE TypeOK'
    BY <1>18 DEF JobLock
<1>19. ASSUME NEW j \in jobs, JobProbe(j) PROVE TypeOK'
    BY <1>19 DEF JobProbe
<1>20. ASSUME NEW j \in jobs, JobRaises(j) PROVE TypeOK'
    BY <1>20 DEF JobRaises
<1>21. ASSUME NEW j \in jobs, JobRequeue(j) PROVE TypeOK'
    BY <1>21 DEF JobRequeue, NoClaim
<1>22. ASSUME NEW j \in jobs, JobDeliver(j) PROVE TypeOK'
    BY <1>22 DEF JobDeliver
<1>23. ASSUME NEW j \in jobs, JobDeliverFails(j) PROVE TypeOK'
    BY <1>23 DEF JobDeliverFails
<1>24. ASSUME NEW j \in jobs, JobHandler(j) PROVE TypeOK'
    BY <1>24 DEF JobHandler
<1>25. CASE UNCHANGED vars
    BY <1>25 DEF vars
<1> QED
    BY <1>1, <1>2, <1>3, <1>4, <1>5, <1>6, <1>7, <1>8, <1>9, <1>10, <1>11, <1>12, <1>13,
        <1>14, <1>15, <1>16, <1>17, <1>18, <1>19, <1>20, <1>21, <1>22, <1>23, <1>24,
        <1>25 DEF Next, Poll, Cancel, Execute, Delete

\* On PostgreSQL every action preserves the inductive invariant: one step for
\* each conjunct it can disturb, one for those whose variables it leaves alone.
LEMMA InvStep == ASSUME Postgres PROVE IInv /\ [Next]_vars => IInv'
<1> SUFFICES ASSUME IInv, [Next]_vars PROVE IInv'
    OBVIOUS
<1>0. TypeOK /\ TypeOK'
    BY TypeStep DEF IInv
<1> USE <1>0, Postgres DEF IInv, TypeOK, rows, chat, Status, Job, At, Goto, Leave, Idle
<1>1. ASSUME NEW t \in Timer, Create(t) PROVE IInv'
    <2>1. LockedPending'
        BY <1>1 DEF Create, LockedPending
    <2>2. OpenJob'
        BY <1>1 DEF Create, OpenJob
    <2>3. WaitingUndelivered'
        BY <1>1 DEF Create, WaitingUndelivered
    <2>4. CompletedDelivered'
        BY <1>1 DEF Create, CompletedDelivered
    <2>5. LockExclusive' /\ LoneJob' /\ AtMostOnce'
        BY <1>1 DEF Create, LockExclusive, LoneJob, AtMostOnce
    <2> QED
        BY <2>1, <2>2, <2>3, <2>4, <2>5
<1>2. ASSUME NEW t \in Timer, Due(t) PROVE IInv'
    BY <1>2 DEF Due, LockedPending, LockExclusive, LoneJob, OpenJob, WaitingUndelivered,
        CompletedDelivered, AtMostOnce
<1>3. ASSUME NEW p \in Parent, ChatBusy(p) PROVE IInv'
    BY <1>3 DEF ChatBusy, LockedPending, LockExclusive, LoneJob, OpenJob,
        WaitingUndelivered, CompletedDelivered, AtMostOnce
<1>4. ASSUME NEW p \in Parent, ChatIdle(p) PROVE IInv'
    BY <1>4 DEF ChatIdle, LockedPending, LockExclusive, LoneJob, OpenJob,
        WaitingUndelivered, CompletedDelivered, AtMostOnce
<1>5. ASSUME NEW p \in Parent, CancelRead(p) PROVE IInv'
    BY <1>5 DEF CancelRead, LockedPending, LockExclusive, LoneJob, OpenJob,
        WaitingUndelivered, CompletedDelivered, AtMostOnce
<1>6. ASSUME NEW p \in Parent, CancelCommit(p) PROVE IInv'
    <2>1. LockedPending'
        BY <1>6 DEF CancelCommit, LockedPending, Locked
    <2>2. OpenJob'
        BY <1>6 DEF CancelCommit, OpenJob
    <2>3. WaitingUndelivered'
        BY <1>6 DEF CancelCommit, WaitingUndelivered
    <2>4. CompletedDelivered'
        BY <1>6 DEF CancelCommit, CompletedDelivered
    <2>5. LockExclusive' /\ LoneJob' /\ AtMostOnce'
        BY <1>6 DEF CancelCommit, LockExclusive, LoneJob, AtMostOnce
    <2> QED
        BY <2>1, <2>2, <2>3, <2>4, <2>5
<1>7. ASSUME NEW p \in Parent, CancelFails(p) PROVE IInv'
    BY <1>7 DEF CancelFails, LockedPending, LockExclusive, LoneJob, OpenJob,
        WaitingUndelivered, CompletedDelivered, AtMostOnce
<1>8. ASSUME NEW p \in Parent, DeleteBegin(p) PROVE IInv'
    BY <1>8 DEF DeleteBegin, LockedPending, LockExclusive, LoneJob, OpenJob,
        WaitingUndelivered, CompletedDelivered, AtMostOnce
<1>9. ASSUME NEW p \in Parent, NEW t \in Timer, DeleteChild(p, t) PROVE IInv'
    <2>1. LockedPending'
        BY <1>9 DEF DeleteChild, LockedPending, Locked
    <2>2. OpenJob'
        BY <1>9 DEF DeleteChild, OpenJob
    <2>3. WaitingUndelivered'
        BY <1>9 DEF DeleteChild, WaitingUndelivered
    <2>4. CompletedDelivered'
        BY <1>9 DEF DeleteChild, CompletedDelivered
    <2>5. LockExclusive' /\ LoneJob' /\ AtMostOnce'
        BY <1>9 DEF DeleteChild, LockExclusive, LoneJob, AtMostOnce
    <2> QED
        BY <2>1, <2>2, <2>3, <2>4, <2>5
<1>10. ASSUME NEW p \in Parent, DeleteParent(p) PROVE IInv'
    BY <1>10 DEF DeleteParent, LockedPending, LockExclusive, LoneJob, OpenJob,
        WaitingUndelivered, CompletedDelivered, AtMostOnce
<1>11. ASSUME NEW i \in Instance, ClaimRead(i) PROVE IInv'
    <2>1. LockedPending'
        BY <1>11 DEF ClaimRead, LockedPending, Locked, Claimable
    <2>2. LockExclusive'
        BY <1>11 DEF ClaimRead, LockExclusive, Locked, Claimable
    <2>3. LoneJob' /\ OpenJob' /\ WaitingUndelivered' /\ CompletedDelivered' /\ AtMostOnce'
        BY <1>11 DEF ClaimRead, LoneJob, OpenJob, WaitingUndelivered,
            CompletedDelivered, AtMostOnce
    <2> QED
        BY <2>1, <2>2, <2>3
<1>12. ASSUME NEW i \in Instance, ClaimCommit(i) PROVE IInv'
    <2>1. LockedPending'
        BY <1>12 DEF ClaimCommit, LockedPending, LockExclusive
    <2>2. LockExclusive'
        BY <1>12 DEF ClaimCommit, LockExclusive
    <2>3. LoneJob'
        <3>1. \A j \in jobs : j.timer \in claimer[i].take => j.pc = "handler"
            BY DEF OpenJob, LockedPending
        <3>2. PICK new \in [claimer[i].take -> ClaimId] :
                 jobs' = jobs \cup {[inst |-> i, timer |-> t, claim |-> new[t], pc |-> "start"]
                                       : t \in claimer[i].take}
            BY <1>12, SpawnedJobs
        <3>3. \A j, k \in jobs' \ jobs : j.timer = k.timer => j = k
            BY <3>2
        <3>4. \A j \in jobs' \ jobs : j.timer \in claimer[i].take
            BY <3>2
        <3> QED
            BY <3>1, <3>3, <3>4 DEF LoneJob
    <2>4. OpenJob'
        <3>1. \A j \in jobs' \ jobs : j.timer \in claimer[i].take
            BY <1>12, SpawnedJobs
        <3>2. \A t \in claimer[i].take : t \in Timer /\ status'[t] = "running" /\ delivered'[t] = 0
            BY <1>12 DEF ClaimCommit, LockedPending, WaitingUndelivered
        <3>3. \A t \in Timer \ claimer[i].take : status'[t] = status[t]
            BY <1>12 DEF ClaimCommit
        <3>4. delivered' = delivered
            BY <1>12 DEF ClaimCommit
        <3> QED
            BY <3>1, <3>2, <3>3, <3>4 DEF OpenJob
    <2>5. WaitingUndelivered'
        BY <1>12 DEF ClaimCommit, WaitingUndelivered
    <2>6. CompletedDelivered'
        BY <1>12 DEF ClaimCommit, CompletedDelivered
    <2>7. AtMostOnce'
        BY <1>12 DEF ClaimCommit, AtMostOnce
    <2> QED
        BY <2>1, <2>2, <2>3, <2>4, <2>5, <2>6, <2>7
<1>13. ASSUME NEW i \in Instance, ClaimFails(i) PROVE IInv'
    <2>1. LockedPending'
        BY <1>13 DEF ClaimFails, LockedPending
    <2>2. LockExclusive'
        BY <1>13 DEF ClaimFails, LockExclusive
    <2>3. LoneJob' /\ OpenJob' /\ WaitingUndelivered' /\ CompletedDelivered' /\ AtMostOnce'
        BY <1>13 DEF ClaimFails, LoneJob, OpenJob, WaitingUndelivered,
            CompletedDelivered, AtMostOnce
    <2> QED
        BY <2>1, <2>2, <2>3
<1>14. ASSUME NEW i \in Instance, Crash(i) PROVE IInv'
    <2>1. LockedPending'
        BY <1>14 DEF Crash, LockedPending
    <2>2. LockExclusive'
        BY <1>14 DEF Crash, LockExclusive
    <2>3. LoneJob'
        BY <1>14 DEF Crash, LoneJob
    <2>4. OpenJob'
        BY <1>14 DEF Crash, OpenJob
    <2>5. WaitingUndelivered' /\ CompletedDelivered' /\ AtMostOnce'
        BY <1>14 DEF Crash, WaitingUndelivered, CompletedDelivered, AtMostOnce
    <2> QED
        BY <2>1, <2>2, <2>3, <2>4, <2>5
<1>15. ASSUME NEW j \in jobs, JobLoad(j) PROVE IInv'
    <2>1. LoneJob'
        BY <1>15 DEF JobLoad, LoneJob
    <2>2. OpenJob'
        BY <1>15 DEF JobLoad, OpenJob
    <2>3. LockedPending' /\ LockExclusive' /\ WaitingUndelivered' /\ CompletedDelivered' /\ AtMostOnce'
        BY <1>15 DEF JobLoad, LockedPending, LockExclusive, WaitingUndelivered,
            CompletedDelivered, AtMostOnce
    <2> QED
        BY <2>1, <2>2, <2>3
<1>16. ASSUME NEW j \in jobs, JobCheck(j) PROVE IInv'
    <2>1. LoneJob'
        BY <1>16 DEF JobCheck, LoneJob
    <2>2. OpenJob'
        BY <1>16 DEF JobCheck, OpenJob
    <2>3. LockedPending' /\ LockExclusive' /\ WaitingUndelivered' /\ CompletedDelivered' /\ AtMostOnce'
        BY <1>16 DEF JobCheck, LockedPending, LockExclusive, WaitingUndelivered,
            CompletedDelivered, AtMostOnce
    <2> QED
        BY <2>1, <2>2, <2>3
<1>17. ASSUME NEW j \in jobs, JobError(j) PROVE IInv'
    <2>1. LockedPending'
        BY <1>17 DEF JobError, LockedPending, Locked
    <2>2. LoneJob'
        BY <1>17 DEF JobError, LoneJob
    <2>3. OpenJob'
        BY <1>17 DEF JobError, OpenJob, LoneJob
    <2>4. WaitingUndelivered'
        BY <1>17 DEF JobError, WaitingUndelivered, OpenJob
    <2>5. CompletedDelivered'
        BY <1>17 DEF JobError, CompletedDelivered
    <2>6. LockExclusive' /\ AtMostOnce'
        BY <1>17 DEF JobError, LockExclusive, AtMostOnce
    <2> QED
        BY <2>1, <2>2, <2>3, <2>4, <2>5, <2>6
<1>18. ASSUME NEW j \in jobs, JobLock(j) PROVE IInv'
    <2>1. LoneJob'
        BY <1>18 DEF JobLock, LoneJob
    <2>2. OpenJob'
        BY <1>18 DEF JobLock, OpenJob
    <2>3. LockedPending' /\ LockExclusive' /\ WaitingUndelivered' /\ CompletedDelivered' /\ AtMostOnce'
        BY <1>18 DEF JobLock, LockedPending, LockExclusive, WaitingUndelivered,
            CompletedDelivered, AtMostOnce
    <2> QED
        BY <2>1, <2>2, <2>3
<1>19. ASSUME NEW j \in jobs, JobProbe(j) PROVE IInv'
    <2>1. LoneJob'
        BY <1>19 DEF JobProbe, LoneJob
    <2>2. OpenJob'
        BY <1>19 DEF JobProbe, OpenJob
    <2>3. LockedPending' /\ LockExclusive' /\ WaitingUndelivered' /\ CompletedDelivered' /\ AtMostOnce'
        BY <1>19 DEF JobProbe, LockedPending, LockExclusive, WaitingUndelivered,
            CompletedDelivered, AtMostOnce
    <2> QED
        BY <2>1, <2>2, <2>3
<1>20. ASSUME NEW j \in jobs, JobRaises(j) PROVE IInv'
    <2>1. LoneJob'
        BY <1>20 DEF JobRaises, LoneJob
    <2>2. OpenJob'
        BY <1>20 DEF JobRaises, OpenJob
    <2>3. LockedPending' /\ LockExclusive' /\ WaitingUndelivered' /\ CompletedDelivered' /\ AtMostOnce'
        BY <1>20 DEF JobRaises, LockedPending, LockExclusive, WaitingUndelivered,
            CompletedDelivered, AtMostOnce
    <2> QED
        BY <2>1, <2>2, <2>3
<1>21. ASSUME NEW j \in jobs, JobRequeue(j) PROVE IInv'
    <2>1. LockedPending'
        BY <1>21 DEF JobRequeue, LockedPending, Locked
    <2>2. LoneJob'
        BY <1>21 DEF JobRequeue, LoneJob
    <2>3. OpenJob'
        BY <1>21 DEF JobRequeue, OpenJob, LoneJob
    <2>4. WaitingUndelivered'
        BY <1>21 DEF JobRequeue, WaitingUndelivered, OpenJob
    <2>5. CompletedDelivered'
        BY <1>21 DEF JobRequeue, CompletedDelivered
    <2>6. LockExclusive' /\ AtMostOnce'
        BY <1>21 DEF JobRequeue, LockExclusive, AtMostOnce
    <2> QED
        BY <2>1, <2>2, <2>3, <2>4, <2>5, <2>6
<1>22. ASSUME NEW j \in jobs, JobDeliver(j) PROVE IInv'
    <2>1. LockedPending'
        BY <1>22 DEF JobDeliver, LockedPending, Locked, OpenJob
    <2>2. LoneJob'
        BY <1>22 DEF JobDeliver, LoneJob
    <2>3. OpenJob'
        BY <1>22 DEF JobDeliver, OpenJob, LoneJob
    <2>4. WaitingUndelivered'
        BY <1>22 DEF JobDeliver, WaitingUndelivered, OpenJob
    <2>5. CompletedDelivered'
        BY <1>22 DEF JobDeliver, CompletedDelivered, OpenJob
    <2>6. AtMostOnce'
        BY <1>22 DEF JobDeliver, AtMostOnce, OpenJob
    <2>7. LockExclusive'
        BY <1>22 DEF JobDeliver, LockExclusive
    <2> QED
        BY <2>1, <2>2, <2>3, <2>4, <2>5, <2>6, <2>7
<1>23. ASSUME NEW j \in jobs, JobDeliverFails(j) PROVE IInv'
    <2>1. LoneJob'
        BY <1>23 DEF JobDeliverFails, LoneJob
    <2>2. OpenJob'
        BY <1>23 DEF JobDeliverFails, OpenJob
    <2>3. LockedPending' /\ LockExclusive' /\ WaitingUndelivered' /\ CompletedDelivered' /\ AtMostOnce'
        BY <1>23 DEF JobDeliverFails, LockedPending, LockExclusive, WaitingUndelivered,
            CompletedDelivered, AtMostOnce
    <2> QED
        BY <2>1, <2>2, <2>3
<1>24. ASSUME NEW j \in jobs, JobHandler(j) PROVE IInv'
    <2>1. LoneJob'
        BY <1>24 DEF JobHandler, LoneJob
    <2>2. OpenJob'
        BY <1>24 DEF JobHandler, OpenJob
    <2>3. LockedPending' /\ LockExclusive' /\ WaitingUndelivered' /\ CompletedDelivered' /\ AtMostOnce'
        BY <1>24 DEF JobHandler, LockedPending, LockExclusive, WaitingUndelivered,
            CompletedDelivered, AtMostOnce
    <2> QED
        BY <2>1, <2>2, <2>3
<1>25. CASE UNCHANGED vars
    BY <1>25 DEF vars, LockedPending, LockExclusive, LoneJob, OpenJob,
        WaitingUndelivered, CompletedDelivered, AtMostOnce
<1> QED
    BY <1>1, <1>2, <1>3, <1>4, <1>5, <1>6, <1>7, <1>8, <1>9, <1>10, <1>11, <1>12, <1>13,
        <1>14, <1>15, <1>16, <1>17, <1>18, <1>19, <1>20, <1>21, <1>22, <1>23, <1>24,
        <1>25 DEF Next, Poll, Cancel, Execute, Delete

LEMMA InvInit == Init => IInv
<1> SUFFICES ASSUME Init PROVE IInv
    OBVIOUS
<1>1. TypeOK
    BY DEF Init, TypeOK, Idle, Status, NoClaim
<1> QED
    BY <1>1 DEF Init, IInv, Idle, LockedPending, LockExclusive, LoneJob, OpenJob,
        WaitingUndelivered, CompletedDelivered, AtMostOnce

-----------------------------------------------------------------------------

\* Type correctness, on either database: every transaction of the scheduler,
\* the jobs, the cancellations and the deletions leaves legal rows behind.
THEOREM TypeCorrect == Spec => []TypeOK
<1>1. Init => TypeOK
    BY InvInit DEF IInv
<1> QED
    BY <1>1, TypeStep, PTL DEF Spec

LEMMA InvAlways == ASSUME Postgres PROVE Spec => []IInv
    BY InvInit, InvStep, PTL DEF Spec

\* On PostgreSQL a timer is one-shot: claim_due_timers and execute_due_timer
\* never bring its prompt into the parent chat twice.
THEOREM OneShot == ASSUME Postgres PROVE Spec => []AtMostOnce
<1>1. IInv => AtMostOnce
    BY DEF IInv
<1> QED
    BY <1>1, InvAlways, PTL

\* On PostgreSQL the status a timer shows is true: pending means undelivered,
\* completed means delivered.
THEOREM StatusIsHonest == ASSUME Postgres PROVE Spec => []StatusHonest
<1>1. IInv => StatusHonest
    BY DEF IInv, StatusHonest, WaitingUndelivered, CompletedDelivered
<1> QED
    BY <1>1, InvAlways, PTL

-----------------------------------------------------------------------------
(* The refinement of OneShotTimer.                                         *)

\* Polls and jobs hold timers that are due; time does not run backwards.
DueKept ==
    /\ \A i \in Instance : claimer[i].take \subseteq due
    /\ \A j \in jobs : j.timer \in due

\* What a cancellation or a deletion has read was created.
ReadExists == \A p \in Parent : \A t \in cancel[p] \cup doomed[p] : status[t] # "none"

RInv == DueKept /\ ReadExists

LEMMA RInvInit == Init => RInv
    BY DEF Init, RInv, DueKept, ReadExists, Idle

\* Every action preserves the two, given the inductive invariant.
LEMMA RInvStep == ASSUME Postgres PROVE IInv /\ RInv /\ [Next]_vars => RInv'
<1> SUFFICES ASSUME IInv, RInv, [Next]_vars PROVE RInv'
    OBVIOUS
<1>0. TypeOK /\ TypeOK'
    BY TypeStep DEF IInv
<1>1. DueKept'
    <2>1. due \subseteq due'
        BY DEF Next, Create, Due, ChatBusy, ChatIdle, Poll, Cancel, Execute, Delete, CancelRead,
            CancelCommit, CancelFails, DeleteBegin, DeleteChild, DeleteParent, ClaimRead,
            ClaimCommit, ClaimFails, Crash, JobLoad, JobCheck, JobError, JobLock, JobProbe,
            JobRaises, JobRequeue, JobDeliver, JobDeliverFails, JobHandler, vars
    <2>2. ASSUME NEW i \in Instance, NEW t \in claimer'[i].take PROVE t \in due'
        <3>1. CASE t \in claimer[i].take
            BY <2>1, <3>1 DEF RInv, DueKept
        <3>2. ASSUME t \notin claimer[i].take PROVE \E k \in Instance : ClaimRead(k)
            BY <1>0, <2>2, <3>2
                DEF TypeOK, Idle, Next, Create, Due, ChatBusy, ChatIdle, Poll, Cancel, Execute,
                    Delete, CancelRead, CancelCommit, CancelFails, DeleteBegin, DeleteChild,
                    DeleteParent, ClaimCommit, ClaimFails, Crash, JobLoad, JobCheck, JobError,
                    JobLock, JobProbe, JobRaises, JobRequeue, JobDeliver, JobDeliverFails,
                    JobHandler, vars
        <3>3. ASSUME t \notin claimer[i].take, NEW k \in Instance, ClaimRead(k) PROVE t \in due'
            <4>1. t \in claimer'[k].take
                BY <1>0, <2>2, <3>3 DEF TypeOK, ClaimRead
            <4> QED
                BY <1>0, <4>1, <3>3 DEF TypeOK, ClaimRead
        <3> QED
            BY <3>1, <3>2, <3>3
    <2>3. ASSUME NEW j \in jobs' PROVE j.timer \in due'
        <3>1. CASE \E k \in jobs : k.timer = j.timer
            BY <2>1, <3>1 DEF RInv, DueKept
        <3>2. ASSUME ~\E k \in jobs : k.timer = j.timer PROVE \E i \in Instance : ClaimCommit(i)
            BY <1>0, <2>3, <3>2
                DEF TypeOK, Job, At, Goto, Leave, Next, Create, Due, ChatBusy, ChatIdle, Poll,
                    Cancel, Execute, Delete, CancelRead, CancelCommit, CancelFails, DeleteBegin,
                    DeleteChild, DeleteParent, ClaimRead, ClaimFails, Crash, JobLoad, JobCheck,
                    JobError, JobLock, JobProbe, JobRaises, JobRequeue, JobDeliver,
                    JobDeliverFails, JobHandler, vars
        <3>3. ASSUME ~\E k \in jobs : k.timer = j.timer, NEW i \in Instance, ClaimCommit(i)
              PROVE  j.timer \in due'
            <4>1. j.timer \in claimer[i].take
                BY <1>0, <2>3, <3>3, SpawnedJobs
            <4> QED
                BY <2>1, <4>1 DEF RInv, DueKept
        <3> QED
            BY <3>1, <3>2, <3>3
    <2> QED
        BY <2>2, <2>3 DEF DueKept
<1>2. ReadExists'
    <2>1. \A t \in Timer : status[t] # "none" => status'[t] # "none"
        BY <1>0 DEF TypeOK, Next, Create, Due, ChatBusy, ChatIdle, Poll, Cancel, Execute, Delete,
            CancelRead, CancelCommit, CancelFails, DeleteBegin, DeleteChild, DeleteParent,
            ClaimRead, ClaimCommit, ClaimFails, Crash, JobLoad, JobCheck, JobError, JobLock,
            JobProbe, JobRaises, JobRequeue, JobDeliver, JobDeliverFails, JobHandler, vars, rows
    <2>2. ASSUME NEW p \in Parent, NEW t \in cancel'[p] PROVE status'[t] # "none"
        <3>1. t \in cancel[p] \/ (t \in Timer /\ status[t] = "pending")
            BY <1>0, <2>2 DEF TypeOK, Children, Next, Create, Due, ChatBusy, ChatIdle, Poll,
                Cancel, Execute, Delete, CancelRead, CancelCommit, CancelFails, DeleteBegin,
                DeleteChild, DeleteParent, ClaimRead, ClaimCommit, ClaimFails, Crash, JobLoad,
                JobCheck, JobError, JobLock, JobProbe, JobRaises, JobRequeue, JobDeliver,
                JobDeliverFails, JobHandler, vars
        <3> QED
            BY <1>0, <2>1, <3>1 DEF RInv, ReadExists, TypeOK
    <2>3. ASSUME NEW p \in Parent, NEW t \in doomed'[p] PROVE status'[t] # "none"
        <3>1. t \in doomed[p] \/ (t \in Timer /\ status[t] # "none")
            BY <1>0, <2>3 DEF TypeOK, Children, Next, Create, Due, ChatBusy, ChatIdle, Poll,
                Cancel, Execute, Delete, CancelRead, CancelCommit, CancelFails, DeleteBegin,
                DeleteChild, DeleteParent, ClaimRead, ClaimCommit, ClaimFails, Crash, JobLoad,
                JobCheck, JobError, JobLock, JobProbe, JobRaises, JobRequeue, JobDeliver,
                JobDeliverFails, JobHandler, vars, chat
        <3> QED
            BY <1>0, <2>1, <3>1 DEF RInv, ReadExists, TypeOK
    <2> QED
        BY <2>2, <2>3 DEF ReadExists
<1> QED
    BY <1>1, <1>2 DEF RInv

\* A job that may still deliver holds its timer in the abstract sense.
LEMMA JobHolds ==
    ASSUME IInv, RInv, NEW j \in jobs, j.pc # "handler"
    PROVE  j.timer \in Timer /\ Promise!Held(j.timer)
    BY DEF IInv, TypeOK, Job, RInv, DueKept, OpenJob, Promise!Held

LEMMA RefinesInit == Init => Promise!Init
    BY DEF Init, Promise!Init

\* Every step is a step of the abstract timer, or changes nothing it shows.
LEMMA RefinesStep ==
    ASSUME Postgres PROVE IInv /\ RInv /\ [Next]_vars => [Promise!Next]_(Promise!vars)
<1> SUFFICES ASSUME IInv, RInv, [Next]_vars PROVE [Promise!Next]_(Promise!vars)
    OBVIOUS
<1>0. TypeOK
    BY DEF IInv
<1> USE <1>0 DEF TypeOK, rows, chat, At, Promise!vars
<1>1. ASSUME NEW t \in Timer, Create(t) PROVE Promise!Arm(t)
    BY <1>1 DEF Create, Promise!Arm, Promise!Show
<1>2. ASSUME NEW t \in Timer, Due(t) PROVE Promise!Elapse(t)
    BY <1>2 DEF Due, Promise!Elapse
<1>3. ASSUME NEW i \in Instance, ClaimCommit(i) PROVE Promise!Take(claimer[i].take)
    BY <1>3 DEF ClaimCommit, IInv, LockedPending, WaitingUndelivered, RInv, DueKept,
        Promise!Take, Promise!Show
<1>4. ASSUME NEW p \in Parent, CancelCommit(p) PROVE Promise!Cancel(cancel[p])
    BY <1>4 DEF CancelCommit, RInv, ReadExists, Promise!Cancel, Promise!Show
<1>5. ASSUME NEW p \in Parent, NEW t \in Timer, DeleteChild(p, t) PROVE Promise!Delete(t)
    BY <1>5 DEF DeleteChild, RInv, ReadExists, Promise!Delete, Promise!Show
<1>6. ASSUME NEW j \in jobs, JobError(j) PROVE Promise!Fail(j.timer)
    BY <1>6, JobHolds DEF JobError, Promise!Fail, Promise!Show
<1>7. ASSUME NEW j \in jobs, JobRequeue(j) PROVE Promise!PutBack(j.timer)
    BY <1>7, JobHolds DEF JobRequeue, Promise!PutBack, Promise!Show
<1>8. ASSUME NEW j \in jobs, JobDeliver(j) PROVE Promise!Fire(j.timer)
    <2>1. j.timer \in Timer /\ Promise!Held(j.timer)
        BY <1>8, JobHolds DEF JobDeliver
    <2>2. delivered' = [delivered EXCEPT ![j.timer] = 1]
        BY <1>8, <2>1 DEF JobDeliver, Promise!Held
    <2>3. Promise!Show({j.timer}, IF status[j.timer] = "deleted" THEN "deleted" ELSE "completed")
        BY <1>8, <2>1 DEF JobDeliver, Promise!Show
    <2> QED
        BY <1>8, <2>1, <2>2, <2>3 DEF JobDeliver, Promise!Fire
<1>9. ASSUME NEW j \in jobs,
             \/ JobLoad(j) \/ JobCheck(j) \/ JobLock(j) \/ JobProbe(j)
             \/ JobRaises(j) \/ JobDeliverFails(j) \/ JobHandler(j)
      PROVE  UNCHANGED Promise!vars
    BY <1>9 DEF JobLoad, JobCheck, JobLock, JobProbe, JobRaises, JobDeliverFails, JobHandler
<1>10. ASSUME NEW p \in Parent,
              ChatBusy(p) \/ ChatIdle(p) \/ CancelRead(p) \/ CancelFails(p) \/ DeleteBegin(p) \/ DeleteParent(p)
       PROVE  UNCHANGED Promise!vars
    BY <1>10 DEF ChatBusy, ChatIdle, CancelRead, CancelFails, DeleteBegin, DeleteParent
<1>11. ASSUME NEW i \in Instance, ClaimRead(i) \/ ClaimFails(i) \/ Crash(i) PROVE UNCHANGED Promise!vars
    BY <1>11 DEF ClaimRead, ClaimFails, Crash
<1>12. CASE UNCHANGED vars
    BY <1>12 DEF vars
<1>13. /\ \A i \in Instance : claimer[i].take \in SUBSET Timer
       /\ \A p \in Parent : cancel[p] \in SUBSET Timer
       /\ \A j \in jobs : j.timer \in Timer
    BY DEF Job
<1> QED
    BY <1>1, <1>2, <1>3, <1>4, <1>5, <1>6, <1>7, <1>8, <1>9, <1>10, <1>11, <1>12, <1>13
        DEF Next, Poll, Cancel, Execute, Delete, Promise!Next

\* On PostgreSQL the scheduler, its jobs, the cancellations and the deletions
\* implement the abstract timer: it enters the chat once, after its time, and
\* shows a status only as OneShotTimer lets it move.
THEOREM Refinement == ASSUME Postgres PROVE Spec => ImplementsOneShot
<1>1. Init => RInv
    BY RInvInit
<1>2. IInv /\ RInv /\ [Next]_vars => RInv'
    BY RInvStep
<1>3. IInv /\ RInv /\ [Next]_vars => [Promise!Next]_(Promise!vars)
    BY RefinesStep
<1> QED
    BY <1>1, <1>2, <1>3, RefinesInit, InvAlways, PTL DEF Spec, ImplementsOneShot, Promise!Spec

-----------------------------------------------------------------------------
(* SQLite, where no row is locked: what one process keeps by itself.       *)

\* What the poll is about to claim is undelivered and held by no job, although
\* a cancellation or a deletion may change it before the commit.
Taken ==
    \A i \in Instance : \A t \in claimer[i].take :
        /\ status[t] \in {"pending", "cancelled", "deleted"}
        /\ delivered[t] = 0
        /\ Live(t) = {}

SInv ==
    /\ TypeOK
    /\ Taken
    /\ LoneJob
    /\ OpenJob
    /\ WaitingUndelivered
    /\ CompletedDelivered
    /\ AtMostOnce

\* A running timer has a job that carries its claim: claims create jobs, and
\* jobs leave a timer they own only by changing its status.
LEMMA OwnedStep ==
    ASSUME MayFail \cap {"crash", "redis"} = {}
    PROVE  TypeOK /\ RunningIsOwned /\ [Next]_vars => RunningIsOwned'
<1> SUFFICES ASSUME TypeOK, RunningIsOwned, [Next]_vars PROVE RunningIsOwned'
    OBVIOUS
<1>0. TypeOK'
    BY TypeStep
<1> USE <1>0 DEF TypeOK, rows, chat, Status, Job, At, Goto, Leave, RunningIsOwned, Live
<1>m. ASSUME NEW j \in jobs, NEW pc \in {"loaded", "failing", "ready", "locked", "busy", "free"},
             j.pc # "handler", Goto(j, pc), UNCHANGED <<rows, parents>>
      PROVE  RunningIsOwned'
    <2>1. ASSUME NEW t \in Timer, NEW k \in Live(t), k.claim = claim[t]
          PROVE  \E l \in Live(t)' : l.claim = claim[t]
        <3>1. CASE k = j
            <4>1. [j EXCEPT !.pc = pc] \in Live(t)' /\ [j EXCEPT !.pc = pc].claim = claim[t]
                BY <1>m, <2>1, <3>1
            <4> QED
                BY <4>1
        <3>2. CASE k # j
            BY <1>m, <2>1, <3>2
        <3> QED
            BY <3>1, <3>2
    <2> QED
        BY <1>m, <2>1
<1>1. ASSUME NEW t \in Timer, Create(t) PROVE RunningIsOwned'
    BY <1>1 DEF Create
<1>2. ASSUME NEW t \in Timer, Due(t) PROVE RunningIsOwned'
    BY <1>2 DEF Due
<1>3. ASSUME NEW p \in Parent, ChatBusy(p) PROVE RunningIsOwned'
    BY <1>3 DEF ChatBusy
<1>4. ASSUME NEW p \in Parent, ChatIdle(p) PROVE RunningIsOwned'
    BY <1>4 DEF ChatIdle
<1>5. ASSUME NEW p \in Parent, CancelRead(p) PROVE RunningIsOwned'
    BY <1>5 DEF CancelRead
<1>6. ASSUME NEW p \in Parent, CancelCommit(p) PROVE RunningIsOwned'
    BY <1>6 DEF CancelCommit
<1>7. ASSUME NEW p \in Parent, CancelFails(p) PROVE RunningIsOwned'
    BY <1>7 DEF CancelFails
<1>8. ASSUME NEW p \in Parent, DeleteBegin(p) PROVE RunningIsOwned'
    BY <1>8 DEF DeleteBegin
<1>9. ASSUME NEW p \in Parent, NEW t \in Timer, DeleteChild(p, t) PROVE RunningIsOwned'
    BY <1>9 DEF DeleteChild
<1>10. ASSUME NEW p \in Parent, DeleteParent(p) PROVE RunningIsOwned'
    BY <1>10 DEF DeleteParent
<1>11. ASSUME NEW i \in Instance, ClaimRead(i) PROVE RunningIsOwned'
    BY <1>11 DEF ClaimRead
<1>12. ASSUME NEW i \in Instance, ClaimCommit(i) PROVE RunningIsOwned'
    <2>1. PICK new \in [claimer[i].take -> ClaimId] :
              /\ claim' = [t \in Timer |-> IF t \in claimer[i].take THEN new[t] ELSE claim[t]]
              /\ jobs' = jobs \cup {[inst |-> i, timer |-> t, claim |-> new[t], pc |-> "start"]
                                     : t \in claimer[i].take}
        BY <1>12, SpawnedJobs
    <2>2. ASSUME NEW t \in claimer[i].take PROVE \E j \in Live(t)' : j.claim = claim'[t]
        <3> DEFINE j == [inst |-> i, timer |-> t, claim |-> new[t], pc |-> "start"]
        <3>1. j \in jobs' /\ claim'[t] = new[t]
            BY <2>1
        <3>2. j.timer = t /\ j.pc # "handler" /\ j.claim = new[t]
            OBVIOUS
        <3> HIDE DEF j
        <3> QED
            BY <3>1, <3>2
    <2>3. ASSUME NEW t \in Timer \ claimer[i].take
          PROVE  status'[t] = status[t] /\ claim'[t] = claim[t] /\ Live(t) \subseteq Live(t)'
        BY <1>12, <2>1 DEF ClaimCommit
    <2>4. parents' = parents
        BY <1>12 DEF ClaimCommit
    <2>5. ASSUME NEW t \in Timer, status'[t] = "running", ParentOf[t] \in parents'
          PROVE  \E j \in Live(t)' : j.claim = claim'[t]
        <3>1. CASE t \in claimer[i].take
            BY <2>2, <3>1
        <3>2. CASE t \notin claimer[i].take
            BY <2>3, <2>4, <2>5, <3>2
        <3> QED
            BY <3>1, <3>2
    <2> QED
        BY <2>5
<1>13. ASSUME NEW i \in Instance, ClaimFails(i) PROVE RunningIsOwned'
    BY <1>13 DEF ClaimFails
<1>14. ASSUME NEW i \in Instance, Crash(i) PROVE RunningIsOwned'
    BY <1>14 DEF Crash
<1>15. ASSUME NEW j \in jobs, JobLoad(j) PROVE RunningIsOwned'
    <2>1. CASE status[j.timer] = "running" /\ claim[j.timer] = j.claim
        BY <1>15, <1>m, <2>1 DEF JobLoad
    <2>2. CASE ~(status[j.timer] = "running" /\ claim[j.timer] = j.claim)
        BY <1>15, <2>2 DEF JobLoad
    <2> QED
        BY <2>1, <2>2
<1>16. ASSUME NEW j \in jobs, JobCheck(j) PROVE RunningIsOwned'
    BY <1>16, <1>m DEF JobCheck
<1>17. ASSUME NEW j \in jobs, JobError(j) PROVE RunningIsOwned'
    BY <1>17 DEF JobError
<1>18. ASSUME NEW j \in jobs, JobLock(j) PROVE RunningIsOwned'
    BY <1>18, <1>m DEF JobLock
<1>19. ASSUME NEW j \in jobs, JobProbe(j) PROVE RunningIsOwned'
    BY <1>19, <1>m DEF JobProbe
<1>20. ASSUME NEW j \in jobs, JobRaises(j) PROVE RunningIsOwned'
    BY <1>20 DEF JobRaises
<1>21. ASSUME NEW j \in jobs, JobRequeue(j) PROVE RunningIsOwned'
    BY <1>21 DEF JobRequeue
<1>22. ASSUME NEW j \in jobs, JobDeliver(j) PROVE RunningIsOwned'
    BY <1>22 DEF JobDeliver
<1>23. ASSUME NEW j \in jobs, JobDeliverFails(j) PROVE RunningIsOwned'
    BY <1>23 DEF JobDeliverFails
<1>24. ASSUME NEW j \in jobs, JobHandler(j) PROVE RunningIsOwned'
    BY <1>24 DEF JobHandler
<1>25. CASE UNCHANGED vars
    BY <1>25 DEF vars
<1> QED
    BY <1>1, <1>2, <1>3, <1>4, <1>5, <1>6, <1>7, <1>8, <1>9, <1>10, <1>11, <1>12,
        <1>13, <1>14, <1>15, <1>16, <1>17, <1>18, <1>19, <1>20, <1>21, <1>22, <1>23,
        <1>24, <1>25 DEF Next, Poll, Cancel, Execute, Delete

\* On SQLite a single process preserves the invariant without any lock: its
\* polls do not overlap, and a timer is pending again only when its job is over.
LEMMA SInvStep ==
    ASSUME ~Postgres, NEW only, Instance = {only}
    PROVE  SInv /\ [Next]_vars => SInv'
<1> SUFFICES ASSUME SInv, [Next]_vars PROVE SInv'
    OBVIOUS
<1>0. TypeOK /\ TypeOK'
    BY TypeStep DEF SInv
<1> USE <1>0 DEF SInv, TypeOK, rows, chat, Status, Job, At, Goto, Leave, Idle, Live
<1>1. ASSUME NEW t \in Timer, Create(t) PROVE SInv'
    BY <1>1 DEF Create, Claimable, Taken, LoneJob, OpenJob, WaitingUndelivered,
        CompletedDelivered, AtMostOnce
<1>2. ASSUME NEW t \in Timer, Due(t) PROVE SInv'
    BY <1>2 DEF Due, Claimable, Taken, LoneJob, OpenJob, WaitingUndelivered,
        CompletedDelivered, AtMostOnce
<1>3. ASSUME NEW p \in Parent, ChatBusy(p) PROVE SInv'
    BY <1>3 DEF ChatBusy, Claimable, Taken, LoneJob, OpenJob, WaitingUndelivered,
        CompletedDelivered, AtMostOnce
<1>4. ASSUME NEW p \in Parent, ChatIdle(p) PROVE SInv'
    BY <1>4 DEF ChatIdle, Claimable, Taken, LoneJob, OpenJob, WaitingUndelivered,
        CompletedDelivered, AtMostOnce
<1>5. ASSUME NEW p \in Parent, CancelRead(p) PROVE SInv'
    BY <1>5 DEF CancelRead, Claimable, Taken, LoneJob, OpenJob, WaitingUndelivered,
        CompletedDelivered, AtMostOnce
<1>6. ASSUME NEW p \in Parent, CancelCommit(p) PROVE SInv'
    BY <1>6 DEF CancelCommit, Claimable, Taken, LoneJob, OpenJob, WaitingUndelivered,
        CompletedDelivered, AtMostOnce
<1>7. ASSUME NEW p \in Parent, CancelFails(p) PROVE SInv'
    BY <1>7 DEF CancelFails, Claimable, Taken, LoneJob, OpenJob, WaitingUndelivered,
        CompletedDelivered, AtMostOnce
<1>8. ASSUME NEW p \in Parent, DeleteBegin(p) PROVE SInv'
    BY <1>8 DEF DeleteBegin, Claimable, Taken, LoneJob, OpenJob, WaitingUndelivered,
        CompletedDelivered, AtMostOnce
<1>9. ASSUME NEW p \in Parent, NEW t \in Timer, DeleteChild(p, t) PROVE SInv'
    BY <1>9 DEF DeleteChild, Claimable, Taken, LoneJob, OpenJob, WaitingUndelivered,
        CompletedDelivered, AtMostOnce
<1>10. ASSUME NEW p \in Parent, DeleteParent(p) PROVE SInv'
    BY <1>10 DEF DeleteParent, Claimable, Taken, LoneJob, OpenJob, WaitingUndelivered,
        CompletedDelivered, AtMostOnce
<1>11. ASSUME NEW i \in Instance, ClaimRead(i) PROVE SInv'
    BY <1>11 DEF ClaimRead, Claimable, Taken, LoneJob, OpenJob, WaitingUndelivered,
        CompletedDelivered, AtMostOnce
<1>12. ASSUME NEW i \in Instance, ClaimCommit(i) PROVE SInv'
    <2>1. PICK new \in [claimer[i].take -> ClaimId] :
              jobs' = jobs \cup {[inst |-> i, timer |-> t, claim |-> new[t], pc |-> "start"]
                                     : t \in claimer[i].take}
        BY <1>12, SpawnedJobs
    <2>2. /\ \A j \in jobs' \ jobs : j.timer \in claimer[i].take
          /\ \A j, k \in jobs' \ jobs : j.timer = k.timer => j = k
        BY <2>1
    <2>3. \A j \in jobs : j.timer \in claimer[i].take => j.pc = "handler"
        BY DEF Taken
    <2>4. \A t \in claimer[i].take : t \in Timer /\ status'[t] = "running" /\ delivered'[t] = 0
        BY <1>12 DEF ClaimCommit, Taken
    <2>5. \A t \in Timer \ claimer[i].take : status'[t] = status[t]
        BY <1>12 DEF ClaimCommit
    <2>6. delivered' = delivered /\ \A k \in Instance : claimer'[k].take = {}
        BY <1>12 DEF ClaimCommit
    <2>7. LoneJob'
        BY <2>2, <2>3 DEF LoneJob
    <2>8. OpenJob'
        BY <2>2, <2>4, <2>5, <2>6 DEF OpenJob
    <2>9. Taken' /\ WaitingUndelivered' /\ CompletedDelivered' /\ AtMostOnce'
        BY <2>4, <2>5, <2>6 DEF Taken, WaitingUndelivered, CompletedDelivered, AtMostOnce
    <2> QED
        BY <2>7, <2>8, <2>9
<1>13. ASSUME NEW i \in Instance, ClaimFails(i) PROVE SInv'
    BY <1>13 DEF ClaimFails, Claimable, Taken, LoneJob, OpenJob, WaitingUndelivered,
        CompletedDelivered, AtMostOnce
<1>14. ASSUME NEW i \in Instance, Crash(i) PROVE SInv'
    BY <1>14 DEF Crash, Claimable, Taken, LoneJob, OpenJob, WaitingUndelivered,
        CompletedDelivered, AtMostOnce
<1>15. ASSUME NEW j \in jobs, JobLoad(j) PROVE SInv'
    BY <1>15 DEF JobLoad, Claimable, Taken, LoneJob, OpenJob, WaitingUndelivered,
        CompletedDelivered, AtMostOnce
<1>16. ASSUME NEW j \in jobs, JobCheck(j) PROVE SInv'
    BY <1>16 DEF JobCheck, Claimable, Taken, LoneJob, OpenJob, WaitingUndelivered,
        CompletedDelivered, AtMostOnce
<1>17. ASSUME NEW j \in jobs, JobError(j) PROVE SInv'
    BY <1>17 DEF JobError, Claimable, Taken, LoneJob, OpenJob, WaitingUndelivered,
        CompletedDelivered, AtMostOnce
<1>18. ASSUME NEW j \in jobs, JobLock(j) PROVE SInv'
    BY <1>18 DEF JobLock, Claimable, Taken, LoneJob, OpenJob, WaitingUndelivered,
        CompletedDelivered, AtMostOnce
<1>19. ASSUME NEW j \in jobs, JobProbe(j) PROVE SInv'
    BY <1>19 DEF JobProbe, Claimable, Taken, LoneJob, OpenJob, WaitingUndelivered,
        CompletedDelivered, AtMostOnce
<1>20. ASSUME NEW j \in jobs, JobRaises(j) PROVE SInv'
    BY <1>20 DEF JobRaises, Claimable, Taken, LoneJob, OpenJob, WaitingUndelivered,
        CompletedDelivered, AtMostOnce
<1>21. ASSUME NEW j \in jobs, JobRequeue(j) PROVE SInv'
    BY <1>21 DEF JobRequeue, Claimable, Taken, LoneJob, OpenJob, WaitingUndelivered,
        CompletedDelivered, AtMostOnce
<1>22. ASSUME NEW j \in jobs, JobDeliver(j) PROVE SInv'
    BY <1>22 DEF JobDeliver, Claimable, Taken, LoneJob, OpenJob, WaitingUndelivered,
        CompletedDelivered, AtMostOnce
<1>23. ASSUME NEW j \in jobs, JobDeliverFails(j) PROVE SInv'
    BY <1>23 DEF JobDeliverFails, Claimable, Taken, LoneJob, OpenJob, WaitingUndelivered,
        CompletedDelivered, AtMostOnce
<1>24. ASSUME NEW j \in jobs, JobHandler(j) PROVE SInv'
    BY <1>24 DEF JobHandler, Claimable, Taken, LoneJob, OpenJob, WaitingUndelivered,
        CompletedDelivered, AtMostOnce
<1>25. CASE UNCHANGED vars
    BY <1>25 DEF vars, Taken, LoneJob, OpenJob, WaitingUndelivered, CompletedDelivered,
        AtMostOnce
<1> QED
    BY <1>1, <1>2, <1>3, <1>4, <1>5, <1>6, <1>7, <1>8, <1>9, <1>10, <1>11, <1>12,
        <1>13, <1>14, <1>15, <1>16, <1>17, <1>18, <1>19, <1>20, <1>21, <1>22, <1>23,
        <1>24, <1>25 DEF Next, Poll, Cancel, Execute, Delete

\* A running timer is in the hands of a job as long as its chat exists, on
\* either database and for any number of instances, when none dies and the
\* lookup of active tasks does not raise: execute_due_timer has no exit that
\* leaves a timer running behind.
THEOREM Owned ==
    ASSUME MayFail \cap {"crash", "redis"} = {} PROVE Spec => []RunningIsOwned
<1>1. Init => TypeOK /\ RunningIsOwned
    BY InvInit DEF Init, IInv, RunningIsOwned
<1>2. TypeOK /\ RunningIsOwned /\ [Next]_vars => (TypeOK /\ RunningIsOwned)'
    BY TypeStep, OwnedStep
<1> QED
    BY <1>1, <1>2, PTL DEF Spec

\* On SQLite, with the one process SQLite is for, a timer is one-shot too, and
\* although nothing is locked.
THEOREM OneShotSingle ==
    ASSUME ~Postgres, NEW only, Instance = {only}
    PROVE  Spec => [](AtMostOnce /\ StatusHonest)
<1>1. Init => SInv
    BY InvInit DEF Init, IInv, SInv, Taken, Idle
<1>2. SInv /\ [Next]_vars => SInv'
    BY SInvStep
<1>3. SInv => AtMostOnce /\ StatusHonest
    BY DEF SInv, StatusHonest, WaitingUndelivered, CompletedDelivered
<1> QED
    BY <1>1, <1>2, <1>3, PTL DEF Spec
=============================================================================
