--------------------------- MODULE SchedulerProofs ---------------------------
(***************************************************************************)
(* Safety of the scheduler on PostgreSQL, for any instances, rules,        *)
(* requests and faults: schedules are claimed once and never while paused, *)
(* an active automation keeps its next run, and records of runs are true.  *)
(*                                                                         *)
(* What holds them together is Locked: between the query of claim_due and  *)
(* its commit the row is as it was read.  From there a commit moves        *)
(* next_run_at past the present, which makes it a schedule of its own.     *)
(*                                                                         *)
(* On any database, Budget bounds the alerts of calendar events.           *)
(***************************************************************************)
EXTENDS Scheduler, FiniteSetTheorems, WellFoundedInduction, TLAPS

State == {"active", "paused", "deleted"}
Run == 1..Never
Stored == [state : State, next : Run, rule : Rule, armed : Nat]
Progress == {"computed", "loaded"}
RequestState ==
    [op : {"none", "update", "toggle", "delete", "run"}, pc : {"idle", "done"}]
    \cup [op : {"update"}, pc : Progress, row : Stored, version : Nat,
          rule : Rule, state : {"active", "paused"}, next : 1..Horizon]
    \cup [op : {"toggle"}, pc : Progress, row : Stored, version : Nat, next : Run]
    \cup [op : {"delete"}, pc : Progress, row : Stored]

Typed ==
    /\ now \in Time
    /\ row \in Stored
    /\ version \in Nat
    /\ locker \in Instance \cup {Nobody}
    /\ pc \in [Instance -> {"claim", "commit", "alerts", "emit", "mark", "down"}]
    /\ seen \in [Instance -> Stored]
    /\ req \in [Request -> RequestState]
    /\ raced \in BOOLEAN
    /\ claims \in [0..MaxArmed -> Nat]
    /\ job \in [Job -> {"none", "run", "ran", "failed", "over", "lost"}]
    /\ started \subseteq Job
    /\ ran \in [Job -> SUBSET {"success", "error"}]

\* The row that a claim has read is locked, as it was read, and due.
Locked ==
    \A i \in Instance : pc[i] = "commit" =>
        locker = i /\ seen[i] = row /\ row.state = "active" /\ row.next <= now

\* The present schedule, and those to come, are unclaimed.
Unclaimed ==
    \A n \in 0..MaxArmed : n >= row.armed =>
        /\ claims[n] = 0
        /\ \A i \in Instance : job[<<i, n>>] = "none"

RunOut(r) == \A t \in Occurs[r] : t <= now

\* An active automation has no next run only if its rule has run out.
HasNext == row.state = "active" /\ row.next = Never /\ ~raced => RunOut(row.rule)

\* What a request read is true unless somebody has written the row since.
Current ==
    \A q \in Request : req[q].op \in {"update", "toggle"} /\ req[q].pc \in Progress =>
        /\ req[q].version <= version
        /\ req[q].version = version =>
              /\ req[q].pc = "loaded" => req[q].row = row
              /\ req[q].op = "toggle" /\ req[q].next = Never => RunOut(row.rule)

\* A manual run has not begun before its request.
Unrequested == \A q \in Request : req[q].op = "none" => job[q] = "none"

\* An execution records its outcome last.
Outcomes ==
    \A j \in Job :
        /\ job[j] \notin {"over", "lost"} => ran[j] = {}
        /\ job[j] = "ran" => j \in started
        /\ ran[j] \in {{}, {"success"}, {"error"}}
        /\ "success" \in ran[j] => j \in started

IInv ==
    /\ Typed
    /\ Locked
    /\ Unclaimed
    /\ Current
    /\ Unrequested
    /\ Outcomes
    /\ NoDoubleClaim
    /\ HasNext

-----------------------------------------------------------------------------
(* next_run_ns                                                             *)

LEMMA Least ==
    ASSUME NEW T \in SUBSET Nat, T # {}
    PROVE  \E x \in T : \A y \in T : x <= y
<1> DEFINE R == {ss \in Nat \X Nat : ss[1] < ss[2]}
<1>1. IsWellFoundedOn(OpToRel(<, Nat), Nat)
    BY NatLessThanWellFounded
<1>2. R = OpToRel(<, Nat)
    BY DEF OpToRel
<1>3. PICK x \in T : \A y \in T : ~ (<<y, x>> \in R)
    <2>1. IsWellFoundedOn(R, Nat)
        BY <1>1, <1>2
    <2> HIDE DEF R
    <2> QED
        BY <2>1, WFMin
<1>4. ASSUME NEW y \in T PROVE x <= y
    <2>1. <<y, x>> \in Nat \X Nat /\ <<y, x>>[1] = y /\ <<y, x>>[2] = x
        OBVIOUS
    <2>2. ~ (y < x)
        BY <1>3, <2>1
    <2> QED
        BY <2>2
<1> QED
    BY <1>4

\* The next run lies ahead, and there is none only when no occurrence does.
LEMMA NextRunFacts ==
    ASSUME NEW r \in Rule, now \in Time
    PROVE  /\ NextRun(r) \in 1..Never
           /\ NextRun(r) > now
           /\ NextRun(r) = Never <=> RunOut(r)
<1> DEFINE later == {t \in Occurs[r] : t > now}
<1>1. Occurs[r] \subseteq 1..Horizon /\ Horizon \in Nat
    BY RuleAssumption
<1>2. CASE later = {}
    BY <1>1, <1>2 DEF NextRun, Never, Time, RunOut
<1>3. CASE later # {}
    <2>1. later \in SUBSET Nat
        BY <1>1
    <2>2. \E t \in later : \A u \in later : t <= u
        BY <1>3, <2>1, Least
    <2>3. NextRun(r) \in later
        BY <1>3, <2>2 DEF NextRun
    <2> QED
        BY <1>1, <2>3 DEF Never, Time, RunOut
<1> QED
    BY <1>2, <1>3

-----------------------------------------------------------------------------
(* Writes and requests                                                     *)

LEMMA StoredFacts ==
    ASSUME NEW r \in Stored
    PROVE  /\ r.state \in State
           /\ r.next \in Run /\ r.rule \in Rule /\ r.armed \in Nat
    BY DEF Stored

\* Row w is row s after a write.
Written(w, s, n, a, r) ==
    w = [s EXCEPT !.next = n, !.state = a, !.rule = r, !.armed = IF n # s.next THEN @ + 1 ELSE @]

LEMMA WrittenFacts ==
    ASSUME NEW w, NEW s \in Stored, NEW n \in Run, NEW a \in State, NEW r \in Rule,
           Written(w, s, n, a, r)
    PROVE  /\ w \in Stored
           /\ w.state = a /\ w.next = n /\ w.rule = r
           /\ w.armed = IF n # s.next THEN s.armed + 1 ELSE s.armed
<1>1. w = [state |-> a, next |-> n, rule |-> r, armed |-> IF n # s.next THEN s.armed + 1 ELSE s.armed]
    BY DEF Written, Stored
<1> QED
    BY <1>1 DEF Stored

LEMMA FinishedRequest ==
    ASSUME NEW r \in RequestState
    PROVE  [op |-> r.op, pc |-> "done"] \in RequestState
    BY DEF RequestState, Progress

LEMMA LoadedRequest ==
    ASSUME NEW r \in RequestState, r.pc = "computed", NEW s \in Stored
    PROVE  /\ [r EXCEPT !.pc = "loaded", !.row = s] \in RequestState
           /\ LET new == [r EXCEPT !.pc = "loaded", !.row = s]
              IN /\ new.op = r.op /\ new.pc = "loaded" /\ new.row = s
                 /\ r.op \in {"update", "toggle"} => new.version = r.version /\ new.next = r.next
    BY DEF RequestState, Progress

\* What a request in progress carries.
LEMMA RequestFacts ==
    ASSUME NEW r \in RequestState, r.pc \in Progress
    PROVE  /\ r.op \in {"update", "toggle", "delete"} /\ r.row \in Stored
           /\ r.op \in {"update", "toggle"} => r.version \in Nat /\ r.next \in Run
           /\ r.op = "update" => r.rule \in Rule /\ r.state \in {"active", "paused"} /\ r.next \in 1..Horizon
    BY RuleAssumption DEF RequestState, Progress, Never, Run

-----------------------------------------------------------------------------
(* Types                                                                   *)

LEMMA TypedStep == Typed /\ [Next]_vars => Typed'
<1> SUFFICES ASSUME Typed, [Next]_vars PROVE Typed'
    OBVIOUS
<1>0. /\ Horizon \in Nat
      /\ \A r \in Rule : NextRun(r) \in Run
    BY RuleAssumption, NextRunFacts DEF Typed, Run
<1> USE <1>0 DEF Typed, Progress, Time, Never, automation, requests, loop, jobs, calendar, Goto, Unlock, Fault
<1>1. ASSUME Tick PROVE Typed'
    BY <1>1 DEF Tick
<1>2. ASSUME NEW i \in Instance, ClaimRead(i) PROVE Typed'
    BY <1>2 DEF ClaimRead
<1>3. ASSUME NEW i \in Instance, ClaimCommit(i) PROVE Typed'
    <2>1. CASE There
        <3> DEFINE n == NextRun(seen[i].rule)
        <3>1. n \in Run /\ row.state \in State /\ row.rule \in Rule
            BY StoredFacts
        <3>2. Written(row', row, n, row.state, row.rule) /\ version' = version + 1
            BY <1>3, <2>1 DEF ClaimCommit, Store, Written
        <3>3. /\ claims' = [claims EXCEPT ![seen[i].armed] = @ + 1]
              /\ job' = [job EXCEPT ![<<i, seen[i].armed>>] = "run"]
            BY <1>3, <2>1 DEF ClaimCommit
        <3> HIDE DEF n
        <3>0. row \in Stored
            OBVIOUS
        <3>4. row' \in Stored
            BY ONLY <3>0, <3>1, <3>2, WrittenFacts
        <3>5. claims' \in [0..MaxArmed -> Nat]
            <4>1. claims \in [0..MaxArmed -> Nat] /\ seen[i].armed \in Nat
                BY StoredFacts
            <4>2. ASSUME NEW m \in 0..MaxArmed PROVE claims'[m] \in Nat
                BY <3>3, <4>1
            <4> QED
                BY <3>3, <4>2
        <3>6. job' \in [Job -> {"none", "run", "ran", "failed", "over", "lost"}]
            BY <3>3
        <3> QED
            BY <1>3, <3>2, <3>4, <3>5, <3>6 DEF ClaimCommit
    <2>2. CASE ~There
        BY <1>3, <2>2 DEF ClaimCommit
    <2> QED
        BY <2>1, <2>2
<1>4. ASSUME NEW i \in Instance, ClaimFails(i) PROVE Typed'
    BY <1>4 DEF ClaimFails
<1>5. ASSUME NEW i \in Instance, Skip(i) PROVE Typed'
    BY <1>5 DEF Skip
<1>6. ASSUME NEW i \in Instance, AlertRead(i) PROVE Typed'
    BY <1>6 DEF AlertRead
<1>7. ASSUME NEW i \in Instance, AlertEmit(i) PROVE Typed'
    BY <1>7 DEF AlertEmit
<1>8. ASSUME NEW i \in Instance, AlertMark(i) PROVE Typed'
    BY <1>8 DEF AlertMark
<1>9. ASSUME NEW i \in Instance, AlertMarkFails(i) PROVE Typed'
    BY <1>9 DEF AlertMarkFails
<1>10. ASSUME NEW i \in Instance, Crash(i) PROVE Typed'
    BY <1>10 DEF Crash
<1>11. ASSUME NEW i \in Instance, Restart(i) PROVE Typed'
    BY <1>11 DEF Restart
<1>12. ASSUME NEW j \in Job, JobRejected(j) PROVE Typed'
    BY <1>12 DEF JobRejected
<1>13. ASSUME NEW j \in Job, JobStarts(j) PROVE Typed'
    BY <1>13 DEF JobStarts
<1>14. ASSUME NEW j \in Job, JobRecords(j) PROVE Typed'
    BY <1>14 DEF JobRecords
<1>15. ASSUME NEW j \in Job, JobRaises(j) PROVE Typed'
    BY <1>15 DEF JobRaises
<1>16. ASSUME NEW j \in Job, JobError(j) PROVE Typed'
    BY <1>16 DEF JobError
<1>17. ASSUME NEW j \in Job, JobErrorFails(j) PROVE Typed'
    BY <1>17 DEF JobErrorFails
<1>18. ASSUME NEW q \in Request, RequestRead(q) PROVE Typed'
    <2>1. /\ job' \in [Job -> {"none", "run", "ran", "failed", "over", "lost"}]
          /\ ran' \in [Job -> SUBSET {"success", "error"}]
        BY <1>18 DEF RequestRead
    <2>2. req' \in [Request -> RequestState]
        <3>1. ASSUME NEW r \in Rule, NEW state \in {"active", "paused"}, NextRun(r) # Never
              PROVE  [op |-> "update", pc |-> "computed", row |-> row, version |-> version,
                      rule |-> r, state |-> state, next |-> NextRun(r)] \in RequestState
            <4>1. NextRun(r) \in 1..Horizon
                BY <3>1 DEF Run
            <4> QED
                BY <4>1 DEF RequestState
        <3>2. [op |-> "toggle", pc |-> "computed", row |-> row, version |-> version,
               next |-> NextRun(row.rule)] \in RequestState
            BY StoredFacts DEF RequestState
        <3>3. /\ [op |-> "delete", pc |-> "computed", row |-> row] \in RequestState
              /\ [op |-> "run", pc |-> "done"] \in RequestState
            BY DEF RequestState
        <3> HIDE DEF RequestState, Progress
        <3>4. \E x \in RequestState : req' = [req EXCEPT ![q] = x]
            BY <1>18, <3>1, <3>2, <3>3 DEF RequestRead
        <3> QED
            BY <3>4
    <2> QED
        BY <1>18, <2>1, <2>2 DEF RequestRead
<1>19. ASSUME NEW q \in Request, RequestLoad(q) PROVE Typed'
    <2>1. /\ [req[q] EXCEPT !.pc = "loaded", !.row = row] \in RequestState
          /\ [op |-> req[q].op, pc |-> "done"] \in RequestState
        BY <1>19, LoadedRequest, FinishedRequest DEF RequestLoad
    <2> QED
        BY <1>19, <2>1 DEF RequestLoad, Finish
<1>20. ASSUME NEW q \in Request, UpdateCommit(q) PROVE Typed'
    <2>0. req[q].pc \in Progress
        BY <1>20 DEF UpdateCommit
    <2>1. CASE There
        <3> DEFINE loaded == req[q].row
                   n == Write(row.next, loaded.next, req[q].next)
                   a == Write(row.state, loaded.state, req[q].state)
                   r == Write(row.rule, loaded.rule, req[q].rule)
        <3>1. n \in Run /\ a \in State /\ r \in Rule
            BY <1>20, <2>0, StoredFacts, RequestFacts DEF UpdateCommit, Write, State
        <3>2. Written(row', row, n, a, r) /\ version' = version + 1
            BY <1>20, <2>1 DEF UpdateCommit, Store, Written
        <3> HIDE DEF n, a, r
        <3>0. row \in Stored
            OBVIOUS
        <3>3. row' \in Stored
            BY ONLY <3>0, <3>1, <3>2, WrittenFacts
        <3> QED
            BY <1>20, <3>2, <3>3, FinishedRequest DEF UpdateCommit, Finish
    <2>2. CASE ~There
        BY <1>20, <2>2, FinishedRequest DEF UpdateCommit, Finish
    <2> QED
        BY <2>1, <2>2
<1>21. ASSUME NEW q \in Request, ToggleCommit(q) PROVE Typed'
    <2>0. req[q].pc \in Progress
        BY <1>21 DEF ToggleCommit
    <2>1. CASE There
        <3> DEFINE loaded == req[q].row
                   next == IF loaded.state = "active" THEN Never ELSE req[q].next
                   n == Write(row.next, loaded.next, next)
                   a == IF loaded.state = "active" THEN "paused" ELSE "active"
        <3>1. n \in Run /\ a \in State
            BY <1>21, <2>0, StoredFacts, RequestFacts DEF ToggleCommit, Write, State, Run
        <3>2. Written(row', row, n, a, row.rule) /\ version' = version + 1
            BY <1>21, <2>1 DEF ToggleCommit, Store, Written
        <3> HIDE DEF n, next, a
        <3>0. row \in Stored /\ row.rule \in Rule
            BY StoredFacts
        <3>3. row' \in Stored
            BY ONLY <3>0, <3>1, <3>2, WrittenFacts
        <3> QED
            BY <1>21, <3>2, <3>3, FinishedRequest DEF ToggleCommit, Finish
    <2>2. CASE ~There
        BY <1>21, <2>2, FinishedRequest DEF ToggleCommit, Finish
    <2> QED
        BY <2>1, <2>2
<1>22. ASSUME NEW q \in Request, DeleteCommit(q) PROVE Typed'
    <2>1. row' \in Stored
        BY <1>22 DEF DeleteCommit, Stored, State
    <2> QED
        BY <1>22, <2>1, FinishedRequest DEF DeleteCommit, Finish
<1>23. ASSUME NEW e \in Edit, EditLoad(e) PROVE Typed'
    BY <1>23 DEF EditLoad
<1>24. ASSUME NEW e \in Edit, EditCommit(e) PROVE Typed'
    BY <1>24 DEF EditCommit
<1>25. ASSUME UNCHANGED vars PROVE Typed'
    BY <1>25 DEF vars
<1> QED
    BY <1>1, <1>2, <1>3, <1>4, <1>5, <1>6, <1>7, <1>8, <1>9, <1>10, <1>11, <1>12,
       <1>13, <1>14, <1>15, <1>16, <1>17, <1>18, <1>19, <1>20, <1>21, <1>22, <1>23, <1>24, <1>25
       DEF Next, ClaimStep, AlertStep, JobStep, RequestStep

-----------------------------------------------------------------------------
(* The lock                                                                *)

LEMMA LockedStep == Postgres /\ Typed /\ Locked /\ [Next]_vars => Locked'
<1> SUFFICES ASSUME Postgres, Typed, Locked, [Next]_vars PROVE Locked'
    OBVIOUS
<1>0. /\ pc \in [Instance -> {"claim", "commit", "alerts", "emit", "mark", "down"}]
      /\ seen \in [Instance -> Stored] /\ row \in Stored
      /\ now \in Nat /\ row.next \in Nat
      /\ Nobody \notin Instance
    BY StoredFacts, RuleAssumption, NameAssumption DEF Typed, Run, Time, Never
<1> USE <1>0 DEF Locked, automation, requests, loop, jobs, calendar, Goto, Unlock, Fault
<1>1. ASSUME Tick PROVE Locked'
    BY <1>1 DEF Tick
<1>2. ASSUME NEW i \in Instance, ClaimRead(i) PROVE Locked'
    BY <1>2 DEF ClaimRead, Due
<1>3. ASSUME NEW i \in Instance, ClaimCommit(i) PROVE Locked'
    BY <1>3 DEF ClaimCommit, Store
<1>4. ASSUME NEW i \in Instance, ClaimFails(i) PROVE Locked'
    BY <1>4 DEF ClaimFails
<1>5. ASSUME NEW i \in Instance, Skip(i) PROVE Locked'
    BY <1>5 DEF Skip
<1>6. ASSUME NEW i \in Instance, AlertRead(i) PROVE Locked'
    BY <1>6 DEF AlertRead
<1>7. ASSUME NEW i \in Instance, AlertEmit(i) PROVE Locked'
    BY <1>7 DEF AlertEmit
<1>8. ASSUME NEW i \in Instance, AlertMark(i) PROVE Locked'
    BY <1>8 DEF AlertMark
<1>9. ASSUME NEW i \in Instance, AlertMarkFails(i) PROVE Locked'
    BY <1>9 DEF AlertMarkFails
<1>10. ASSUME NEW i \in Instance, Crash(i) PROVE Locked'
    BY <1>10 DEF Crash
<1>11. ASSUME NEW i \in Instance, Restart(i) PROVE Locked'
    BY <1>11 DEF Restart
<1>12. ASSUME NEW j \in Job, JobRejected(j) PROVE Locked'
    BY <1>12 DEF JobRejected
<1>13. ASSUME NEW j \in Job, JobStarts(j) PROVE Locked'
    BY <1>13 DEF JobStarts
<1>14. ASSUME NEW j \in Job, JobRecords(j) PROVE Locked'
    BY <1>14 DEF JobRecords
<1>15. ASSUME NEW j \in Job, JobRaises(j) PROVE Locked'
    BY <1>15 DEF JobRaises
<1>16. ASSUME NEW j \in Job, JobError(j) PROVE Locked'
    BY <1>16 DEF JobError
<1>17. ASSUME NEW j \in Job, JobErrorFails(j) PROVE Locked'
    BY <1>17 DEF JobErrorFails
<1>18. ASSUME NEW q \in Request, RequestRead(q) PROVE Locked'
    BY <1>18 DEF RequestRead
<1>19. ASSUME NEW q \in Request, RequestLoad(q) PROVE Locked'
    BY <1>19 DEF RequestLoad, Finish
<1>20. ASSUME NEW q \in Request, UpdateCommit(q) PROVE Locked'
    BY <1>20 DEF UpdateCommit, Write, Store, Finish
<1>21. ASSUME NEW q \in Request, ToggleCommit(q) PROVE Locked'
    BY <1>21 DEF ToggleCommit, Write, Store, Finish
<1>22. ASSUME NEW q \in Request, DeleteCommit(q) PROVE Locked'
    BY <1>22 DEF DeleteCommit, Finish
<1>23. ASSUME NEW e \in Edit, EditLoad(e) PROVE Locked'
    BY <1>23 DEF EditLoad
<1>24. ASSUME NEW e \in Edit, EditCommit(e) PROVE Locked'
    BY <1>24 DEF EditCommit
<1>25. ASSUME UNCHANGED vars PROVE Locked'
    BY <1>25 DEF vars
<1> QED
    BY <1>1, <1>2, <1>3, <1>4, <1>5, <1>6, <1>7, <1>8, <1>9, <1>10, <1>11, <1>12,
       <1>13, <1>14, <1>15, <1>16, <1>17, <1>18, <1>19, <1>20, <1>21, <1>22, <1>23, <1>24, <1>25
       DEF Next, ClaimStep, AlertStep, JobStep, RequestStep

\* What a claim leaves: the next schedule, in the future.
LEMMA ClaimFacts ==
    ASSUME Typed, Locked, NEW i \in Instance, ClaimCommit(i)
    PROVE  /\ locker = i /\ row.state = "active"
           /\ row'.state = "active" /\ row'.rule = row.rule
           /\ row'.next = NextRun(row.rule)
           /\ row'.armed = row.armed + 1
           /\ version' = version + 1
<1> DEFINE n == NextRun(row.rule)
<1>1. locker = i /\ seen[i] = row /\ row.state = "active" /\ row.next <= now
    BY DEF ClaimCommit, Locked
<1>2. /\ row \in Stored /\ row.rule \in Rule /\ row.state \in State
      /\ n \in Run /\ n > now /\ now \in Time
    BY StoredFacts, NextRunFacts DEF Typed, Run
<1>3. n # row.next
    BY <1>1, <1>2, StoredFacts, RuleAssumption DEF Run, Time, Never
<1>4. Written(row', row, n, row.state, row.rule) /\ version' = version + 1
    BY <1>1 DEF ClaimCommit, There, Store, Written
<1> HIDE DEF n
<1>5. row'.state = row.state /\ row'.next = n /\ row'.rule = row.rule /\ row'.armed = row.armed + 1
    BY ONLY <1>2, <1>3, <1>4, WrittenFacts
<1> QED
    BY <1>1, <1>4, <1>5 DEF n

\* ... and what it adds to the books.
LEMMA ClaimBooks ==
    ASSUME Locked, NEW i \in Instance, ClaimCommit(i)
    PROVE  /\ claims' = [claims EXCEPT ![row.armed] = @ + 1]
           /\ job' = [job EXCEPT ![<<i, row.armed>>] = "run"]
           /\ UNCHANGED <<started, ran, requests>>
    BY DEF Locked, ClaimCommit, There

\* A request's write, of an update or a toggle.
LEMMA UpdateFacts ==
    ASSUME Typed, NEW q \in Request, UpdateCommit(q), There
    PROVE  /\ version' = version + 1 /\ row'.armed >= row.armed
           /\ req[q].pc = "loaded" /\ req[q].op = "update"
           /\ req[q].row = row => row'.next = req[q].next /\ req[q].next \in 1..Horizon
<1> DEFINE loaded == req[q].row
           n == Write(row.next, loaded.next, req[q].next)
           a == Write(row.state, loaded.state, req[q].state)
           r == Write(row.rule, loaded.rule, req[q].rule)
<1>1. /\ req[q] \in RequestState /\ req[q].pc = "loaded" /\ req[q].op = "update"
      /\ row \in Stored /\ row.armed \in Nat /\ req[q].next \in 1..Horizon
    BY StoredFacts, RequestFacts DEF Typed, UpdateCommit, Progress
<1>2. n \in Run /\ a \in State /\ r \in Rule
    BY <1>1, StoredFacts, RequestFacts DEF Write, State, Progress
<1>3. Written(row', row, n, a, r) /\ version' = version + 1
    BY DEF UpdateCommit, Store, Written
<1>4. loaded = row => n = req[q].next
    BY DEF Write
<1> HIDE DEF n, a, r
<1>5. row'.next = n /\ row'.armed = IF n # row.next THEN row.armed + 1 ELSE row.armed
    BY ONLY <1>1, <1>2, <1>3, WrittenFacts
<1> QED
    BY <1>1, <1>3, <1>4, <1>5

LEMMA ToggleFacts ==
    ASSUME Typed, NEW q \in Request, ToggleCommit(q), There
    PROVE  /\ version' = version + 1 /\ row'.armed >= row.armed
           /\ req[q].pc = "loaded" /\ req[q].op = "toggle"
           /\ row'.rule = row.rule
           /\ req[q].row = row => IF row.state = "active" THEN row'.state = "paused"
                                                         ELSE row'.next = req[q].next
<1> DEFINE loaded == req[q].row
           next == IF loaded.state = "active" THEN Never ELSE req[q].next
           n == Write(row.next, loaded.next, next)
           a == IF loaded.state = "active" THEN "paused" ELSE "active"
<1>1. /\ req[q] \in RequestState /\ req[q].pc = "loaded" /\ req[q].op = "toggle"
      /\ row \in Stored /\ row.armed \in Nat /\ row.rule \in Rule
    BY StoredFacts DEF Typed, ToggleCommit
<1>2. n \in Run /\ a \in State
    BY <1>1, StoredFacts, RequestFacts, RuleAssumption DEF Write, State, Progress, Run, Never
<1>3. Written(row', row, n, a, row.rule) /\ version' = version + 1
    BY DEF ToggleCommit, Store, Written
<1>4. loaded = row => n = next
    BY DEF Write
<1>5. row'.next = n /\ row'.state = a /\ row'.rule = row.rule
      /\ row'.armed = IF n # row.next THEN row.armed + 1 ELSE row.armed
    <2> HIDE DEF n, a
    <2> QED
        BY ONLY <1>1, <1>2, <1>3, WrittenFacts
<1> HIDE DEF n
<1> QED
    BY <1>1, <1>3, <1>4, <1>5

-----------------------------------------------------------------------------
(* Claims and outcomes                                                     *)

LEMMA ArmedGrows == Typed /\ Locked /\ [Next]_vars => row'.armed >= row.armed
<1> SUFFICES ASSUME Typed, Locked, [Next]_vars PROVE row'.armed >= row.armed
    OBVIOUS
<1>0. row \in Stored /\ row.armed \in Nat
    BY StoredFacts DEF Typed
<1> USE <1>0 DEF automation, requests, loop, jobs, calendar
<1>1. ASSUME Tick PROVE row'.armed >= row.armed
    BY <1>1 DEF Tick
<1>2. ASSUME NEW i \in Instance, ClaimRead(i) PROVE row'.armed >= row.armed
    BY <1>2 DEF ClaimRead
<1>3. ASSUME NEW i \in Instance, ClaimCommit(i) PROVE row'.armed >= row.armed
    BY <1>3, ClaimFacts DEF ClaimCommit
<1>4. ASSUME NEW i \in Instance, ClaimFails(i) PROVE row'.armed >= row.armed
    BY <1>4 DEF ClaimFails
<1>5. ASSUME NEW i \in Instance, Skip(i) PROVE row'.armed >= row.armed
    BY <1>5 DEF Skip
<1>6. ASSUME NEW i \in Instance, AlertRead(i) PROVE row'.armed >= row.armed
    BY <1>6 DEF AlertRead
<1>7. ASSUME NEW i \in Instance, AlertEmit(i) PROVE row'.armed >= row.armed
    BY <1>7 DEF AlertEmit
<1>8. ASSUME NEW i \in Instance, AlertMark(i) PROVE row'.armed >= row.armed
    BY <1>8 DEF AlertMark
<1>9. ASSUME NEW i \in Instance, AlertMarkFails(i) PROVE row'.armed >= row.armed
    BY <1>9 DEF AlertMarkFails
<1>10. ASSUME NEW i \in Instance, Crash(i) PROVE row'.armed >= row.armed
    BY <1>10 DEF Crash
<1>11. ASSUME NEW i \in Instance, Restart(i) PROVE row'.armed >= row.armed
    BY <1>11 DEF Restart
<1>12. ASSUME NEW j \in Job, JobRejected(j) PROVE row'.armed >= row.armed
    BY <1>12 DEF JobRejected
<1>13. ASSUME NEW j \in Job, JobStarts(j) PROVE row'.armed >= row.armed
    BY <1>13 DEF JobStarts
<1>14. ASSUME NEW j \in Job, JobRecords(j) PROVE row'.armed >= row.armed
    BY <1>14 DEF JobRecords
<1>15. ASSUME NEW j \in Job, JobRaises(j) PROVE row'.armed >= row.armed
    BY <1>15 DEF JobRaises
<1>16. ASSUME NEW j \in Job, JobError(j) PROVE row'.armed >= row.armed
    BY <1>16 DEF JobError
<1>17. ASSUME NEW j \in Job, JobErrorFails(j) PROVE row'.armed >= row.armed
    BY <1>17 DEF JobErrorFails
<1>18. ASSUME NEW q \in Request, RequestRead(q) PROVE row'.armed >= row.armed
    BY <1>18 DEF RequestRead
<1>19. ASSUME NEW q \in Request, RequestLoad(q) PROVE row'.armed >= row.armed
    BY <1>19 DEF RequestLoad, Finish
<1>20. ASSUME NEW q \in Request, UpdateCommit(q) PROVE row'.armed >= row.armed
    BY <1>20, UpdateFacts DEF UpdateCommit
<1>21. ASSUME NEW q \in Request, ToggleCommit(q) PROVE row'.armed >= row.armed
    BY <1>21, ToggleFacts DEF ToggleCommit
<1>22. ASSUME NEW q \in Request, DeleteCommit(q) PROVE row'.armed >= row.armed
    BY <1>22 DEF DeleteCommit, Stored
<1>23. ASSUME NEW e \in Edit, EditLoad(e) PROVE row'.armed >= row.armed
    BY <1>23 DEF EditLoad
<1>24. ASSUME NEW e \in Edit, EditCommit(e) PROVE row'.armed >= row.armed
    BY <1>24 DEF EditCommit
<1>25. ASSUME UNCHANGED vars PROVE row'.armed >= row.armed
    BY <1>25 DEF vars
<1> QED
    BY <1>1, <1>2, <1>3, <1>4, <1>5, <1>6, <1>7, <1>8, <1>9, <1>10, <1>11, <1>12,
       <1>13, <1>14, <1>15, <1>16, <1>17, <1>18, <1>19, <1>20, <1>21, <1>22, <1>23, <1>24, <1>25
       DEF Next, ClaimStep, AlertStep, JobStep, RequestStep

LEMMA UnclaimedStep ==
    Postgres /\ Typed /\ Locked /\ Unclaimed /\ Unrequested /\ NoDoubleClaim /\ [Next]_vars
        => Unclaimed' /\ NoDoubleClaim'
<1> SUFFICES ASSUME Typed, Locked, Unclaimed, Unrequested, NoDoubleClaim, [Next]_vars
             PROVE  Unclaimed' /\ NoDoubleClaim'
    OBVIOUS
<1>0. /\ row.armed \in Nat /\ row'.armed \in Nat /\ row'.armed >= row.armed
      /\ claims \in [0..MaxArmed -> Nat]
      /\ job \in [Job -> {"none", "run", "ran", "failed", "over", "lost"}]
      /\ \A i \in Instance, n \in 0..MaxArmed : <<i, n>> \in Job \ Request
    BY ArmedGrows, TypedStep, StoredFacts, NameAssumption DEF Typed, Job
<1> USE <1>0 DEF Unclaimed, NoDoubleClaim, automation, requests, loop, jobs, calendar
<1>1. ASSUME Tick PROVE Unclaimed' /\ NoDoubleClaim'
    BY <1>1 DEF Tick
<1>2. ASSUME NEW i \in Instance, ClaimRead(i) PROVE Unclaimed' /\ NoDoubleClaim'
    BY <1>2 DEF ClaimRead
<1>3. ASSUME NEW i \in Instance, ClaimCommit(i) PROVE Unclaimed' /\ NoDoubleClaim'
    <2>1. row'.armed = row.armed + 1
        BY <1>3, ClaimFacts
    <2>2. /\ claims' = [claims EXCEPT ![row.armed] = @ + 1]
          /\ job' = [job EXCEPT ![<<i, row.armed>>] = "run"]
        BY <1>3, ClaimBooks
    <2>3. ASSUME NEW n \in 0..MaxArmed PROVE claims'[n] <= 1 /\ (n >= row'.armed => claims'[n] = 0)
        <3>1. n \in Nat /\ claims[n] \in Nat /\ claims[n] <= 1 /\ (n >= row.armed => claims[n] = 0)
            OBVIOUS
        <3>2. claims'[n] = IF n = row.armed THEN claims[n] + 1 ELSE claims[n]
            BY <2>2
        <3> QED
            BY ONLY <1>0, <2>1, <3>1, <3>2
    <2>4. ASSUME NEW n \in 0..MaxArmed, n >= row'.armed, NEW k \in Instance PROVE job'[<<k, n>>] = "none"
        <3>1. n # row.armed /\ n >= row.armed
            BY <2>1, <2>4
        <3> QED
            BY <2>2, <2>4, <3>1
    <2> QED
        BY <2>3, <2>4
<1>4. ASSUME NEW i \in Instance, ClaimFails(i) PROVE Unclaimed' /\ NoDoubleClaim'
    BY <1>4 DEF ClaimFails
<1>5. ASSUME NEW i \in Instance, Skip(i) PROVE Unclaimed' /\ NoDoubleClaim'
    BY <1>5 DEF Skip
<1>6. ASSUME NEW i \in Instance, AlertRead(i) PROVE Unclaimed' /\ NoDoubleClaim'
    BY <1>6 DEF AlertRead
<1>7. ASSUME NEW i \in Instance, AlertEmit(i) PROVE Unclaimed' /\ NoDoubleClaim'
    BY <1>7 DEF AlertEmit
<1>8. ASSUME NEW i \in Instance, AlertMark(i) PROVE Unclaimed' /\ NoDoubleClaim'
    BY <1>8 DEF AlertMark
<1>9. ASSUME NEW i \in Instance, AlertMarkFails(i) PROVE Unclaimed' /\ NoDoubleClaim'
    BY <1>9 DEF AlertMarkFails
<1>10. ASSUME NEW i \in Instance, Crash(i) PROVE Unclaimed' /\ NoDoubleClaim'
    BY <1>10 DEF Crash
<1>11. ASSUME NEW i \in Instance, Restart(i) PROVE Unclaimed' /\ NoDoubleClaim'
    BY <1>11 DEF Restart
<1>12. ASSUME NEW j \in Job, JobRejected(j) PROVE Unclaimed' /\ NoDoubleClaim'
    BY <1>12 DEF JobRejected
<1>13. ASSUME NEW j \in Job, JobStarts(j) PROVE Unclaimed' /\ NoDoubleClaim'
    BY <1>13 DEF JobStarts
<1>14. ASSUME NEW j \in Job, JobRecords(j) PROVE Unclaimed' /\ NoDoubleClaim'
    BY <1>14 DEF JobRecords
<1>15. ASSUME NEW j \in Job, JobRaises(j) PROVE Unclaimed' /\ NoDoubleClaim'
    BY <1>15 DEF JobRaises
<1>16. ASSUME NEW j \in Job, JobError(j) PROVE Unclaimed' /\ NoDoubleClaim'
    BY <1>16 DEF JobError
<1>17. ASSUME NEW j \in Job, JobErrorFails(j) PROVE Unclaimed' /\ NoDoubleClaim'
    BY <1>17 DEF JobErrorFails
<1>18. ASSUME NEW q \in Request, RequestRead(q) PROVE Unclaimed' /\ NoDoubleClaim'
    BY <1>18 DEF RequestRead
<1>19. ASSUME NEW q \in Request, RequestLoad(q) PROVE Unclaimed' /\ NoDoubleClaim'
    BY <1>19 DEF RequestLoad, Finish
<1>20. ASSUME NEW q \in Request, UpdateCommit(q) PROVE Unclaimed' /\ NoDoubleClaim'
    BY <1>20 DEF UpdateCommit, Write, Store, Finish
<1>21. ASSUME NEW q \in Request, ToggleCommit(q) PROVE Unclaimed' /\ NoDoubleClaim'
    BY <1>21 DEF ToggleCommit, Write, Store, Finish
<1>22. ASSUME NEW q \in Request, DeleteCommit(q) PROVE Unclaimed' /\ NoDoubleClaim'
    BY <1>22 DEF DeleteCommit, Finish
<1>23. ASSUME NEW e \in Edit, EditLoad(e) PROVE Unclaimed' /\ NoDoubleClaim'
    BY <1>23 DEF EditLoad
<1>24. ASSUME NEW e \in Edit, EditCommit(e) PROVE Unclaimed' /\ NoDoubleClaim'
    BY <1>24 DEF EditCommit
<1>25. ASSUME UNCHANGED vars PROVE Unclaimed' /\ NoDoubleClaim'
    BY <1>25 DEF vars
<1> QED
    BY <1>1, <1>2, <1>3, <1>4, <1>5, <1>6, <1>7, <1>8, <1>9, <1>10, <1>11, <1>12,
       <1>13, <1>14, <1>15, <1>16, <1>17, <1>18, <1>19, <1>20, <1>21, <1>22, <1>23, <1>24, <1>25
       DEF Next, ClaimStep, AlertStep, JobStep, RequestStep

LEMMA OutcomesStep ==
    Typed /\ Locked /\ Unclaimed /\ Unrequested /\ Outcomes /\ [Next]_vars => Unrequested' /\ Outcomes'
<1> SUFFICES ASSUME Typed, Locked, Unclaimed, Unrequested, Outcomes, [Next]_vars
             PROVE  Unrequested' /\ Outcomes'
    OBVIOUS
<1>0. /\ job \in [Job -> {"none", "run", "ran", "failed", "over", "lost"}]
      /\ ran \in [Job -> SUBSET {"success", "error"}]
      /\ started \subseteq Job
      /\ req \in [Request -> RequestState]
      /\ Request \subseteq Job
      /\ \A i \in Instance, n \in 0..MaxArmed : <<i, n>> \in Job \ Request
    BY NameAssumption DEF Typed, Job
<1> USE <1>0 DEF Unrequested, Outcomes, automation, requests, loop, jobs, calendar, Fault
<1>1. ASSUME Tick PROVE Unrequested' /\ Outcomes'
    BY <1>1 DEF Tick
<1>2. ASSUME NEW i \in Instance, ClaimRead(i) PROVE Unrequested' /\ Outcomes'
    BY <1>2 DEF ClaimRead
<1>3. ASSUME NEW i \in Instance, ClaimCommit(i) PROVE Unrequested' /\ Outcomes'
    <2>1. /\ job' = [job EXCEPT ![<<i, row.armed>>] = "run"]
          /\ UNCHANGED <<started, ran, req>>
        BY <1>3, ClaimBooks
    <2>2. \A j \in Job : j = <<i, row.armed>> => j \notin Request /\ job[j] = "none"
        <3>1. row.armed \in Nat
            BY StoredFacts DEF Typed
        <3>2. <<i, row.armed>> \notin Request
            BY <3>1, NameAssumption
        <3> SUFFICES ASSUME <<i, row.armed>> \in Job
                     PROVE  <<i, row.armed>> \notin Request /\ job[<<i, row.armed>>] = "none"
            OBVIOUS
        <3> QED
            BY <3>1, <3>2 DEF Job, Unclaimed
    <2> QED
        BY <2>1, <2>2
<1>4. ASSUME NEW i \in Instance, ClaimFails(i) PROVE Unrequested' /\ Outcomes'
    BY <1>4 DEF ClaimFails
<1>5. ASSUME NEW i \in Instance, Skip(i) PROVE Unrequested' /\ Outcomes'
    BY <1>5 DEF Skip
<1>6. ASSUME NEW i \in Instance, AlertRead(i) PROVE Unrequested' /\ Outcomes'
    BY <1>6 DEF AlertRead
<1>7. ASSUME NEW i \in Instance, AlertEmit(i) PROVE Unrequested' /\ Outcomes'
    BY <1>7 DEF AlertEmit
<1>8. ASSUME NEW i \in Instance, AlertMark(i) PROVE Unrequested' /\ Outcomes'
    BY <1>8 DEF AlertMark
<1>9. ASSUME NEW i \in Instance, AlertMarkFails(i) PROVE Unrequested' /\ Outcomes'
    BY <1>9 DEF AlertMarkFails
<1>10. ASSUME NEW i \in Instance, Crash(i) PROVE Unrequested' /\ Outcomes'
    BY <1>10 DEF Crash
<1>11. ASSUME NEW i \in Instance, Restart(i) PROVE Unrequested' /\ Outcomes'
    BY <1>11 DEF Restart
<1>12. ASSUME NEW j \in Job, JobRejected(j) PROVE Unrequested' /\ Outcomes'
    BY <1>12 DEF JobRejected
<1>13. ASSUME NEW j \in Job, JobStarts(j) PROVE Unrequested' /\ Outcomes'
    BY <1>13 DEF JobStarts
<1>14. ASSUME NEW j \in Job, JobRecords(j) PROVE Unrequested' /\ Outcomes'
    BY <1>14 DEF JobRecords
<1>15. ASSUME NEW j \in Job, JobRaises(j) PROVE Unrequested' /\ Outcomes'
    BY <1>15 DEF JobRaises
<1>16. ASSUME NEW j \in Job, JobError(j) PROVE Unrequested' /\ Outcomes'
    BY <1>16 DEF JobError
<1>17. ASSUME NEW j \in Job, JobErrorFails(j) PROVE Unrequested' /\ Outcomes'
    BY <1>17 DEF JobErrorFails
<1>18. ASSUME NEW q \in Request, RequestRead(q) PROVE Unrequested' /\ Outcomes'
    BY <1>18 DEF RequestRead
<1>19. ASSUME NEW q \in Request, RequestLoad(q) PROVE Unrequested' /\ Outcomes'
    <2> DEFINE x == [req[q] EXCEPT !.pc = "loaded", !.row = row]
    <2>1. x.op = req[q].op
        BY <1>19, LoadedRequest DEF RequestLoad, Typed
    <2>2. req' = [req EXCEPT ![q] = x] \/ req' = [req EXCEPT ![q] = [op |-> req[q].op, pc |-> "done"]]
        BY <1>19 DEF RequestLoad, Finish
    <2> HIDE DEF x
    <2>3. req'[q].op = req[q].op
        BY <2>1, <2>2
    <2> QED
        BY <1>19, <2>2, <2>3 DEF RequestLoad
<1>20. ASSUME NEW q \in Request, UpdateCommit(q) PROVE Unrequested' /\ Outcomes'
    BY <1>20 DEF UpdateCommit, Write, Store, Finish
<1>21. ASSUME NEW q \in Request, ToggleCommit(q) PROVE Unrequested' /\ Outcomes'
    BY <1>21 DEF ToggleCommit, Write, Store, Finish
<1>22. ASSUME NEW q \in Request, DeleteCommit(q) PROVE Unrequested' /\ Outcomes'
    BY <1>22 DEF DeleteCommit, Finish
<1>23. ASSUME NEW e \in Edit, EditLoad(e) PROVE Unrequested' /\ Outcomes'
    BY <1>23 DEF EditLoad
<1>24. ASSUME NEW e \in Edit, EditCommit(e) PROVE Unrequested' /\ Outcomes'
    BY <1>24 DEF EditCommit
<1>25. ASSUME UNCHANGED vars PROVE Unrequested' /\ Outcomes'
    BY <1>25 DEF vars
<1> QED
    BY <1>1, <1>2, <1>3, <1>4, <1>5, <1>6, <1>7, <1>8, <1>9, <1>10, <1>11, <1>12,
       <1>13, <1>14, <1>15, <1>16, <1>17, <1>18, <1>19, <1>20, <1>21, <1>22, <1>23, <1>24, <1>25
       DEF Next, ClaimStep, AlertStep, JobStep, RequestStep

-----------------------------------------------------------------------------
(* Requests and the next run                                               *)

LEMMA CurrentStep == Typed /\ Locked /\ Current /\ [Next]_vars => Current'
<1> SUFFICES ASSUME Typed, Locked, Current, [Next]_vars PROVE Current'
    OBVIOUS
<1>0. /\ req \in [Request -> RequestState]
      /\ version \in Nat /\ now \in Nat /\ row.rule \in Rule
      /\ \A r \in Rule : Occurs[r] \subseteq Nat
    BY StoredFacts, RuleAssumption DEF Typed, Time
\* Whoever writes the row outdates the others' reading.
<1>w. ASSUME version' = version + 1,
             \A q \in Request : req'[q] = req[q] \/ req'[q].pc = "done"
      PROVE  Current'
    <2> SUFFICES ASSUME NEW q \in Request, req'[q].op \in {"update", "toggle"}, req'[q].pc \in Progress
                 PROVE  req'[q].version <= version' /\ req'[q].version # version'
        BY DEF Current
    <2>1. req'[q] = req[q]
        BY <1>w DEF Progress
    <2>2. req[q].version \in Nat /\ req[q].version <= version
        BY <1>0, <2>1, RequestFacts DEF Current
    <2> QED
        BY <1>0, <1>w, <2>1, <2>2
<1> USE <1>0 DEF Current, RunOut, automation, requests, loop, jobs, calendar, Fault
<1>1. ASSUME Tick PROVE Current'
    BY <1>1 DEF Tick
<1>2. ASSUME NEW i \in Instance, ClaimRead(i) PROVE Current'
    BY <1>2 DEF ClaimRead
<1>3. ASSUME NEW i \in Instance, ClaimCommit(i) PROVE Current'
    BY <1>3, <1>w, ClaimFacts, ClaimBooks
<1>4. ASSUME NEW i \in Instance, ClaimFails(i) PROVE Current'
    BY <1>4 DEF ClaimFails
<1>5. ASSUME NEW i \in Instance, Skip(i) PROVE Current'
    BY <1>5 DEF Skip
<1>6. ASSUME NEW i \in Instance, AlertRead(i) PROVE Current'
    BY <1>6 DEF AlertRead
<1>7. ASSUME NEW i \in Instance, AlertEmit(i) PROVE Current'
    BY <1>7 DEF AlertEmit
<1>8. ASSUME NEW i \in Instance, AlertMark(i) PROVE Current'
    BY <1>8 DEF AlertMark
<1>9. ASSUME NEW i \in Instance, AlertMarkFails(i) PROVE Current'
    BY <1>9 DEF AlertMarkFails
<1>10. ASSUME NEW i \in Instance, Crash(i) PROVE Current'
    BY <1>10 DEF Crash
<1>11. ASSUME NEW i \in Instance, Restart(i) PROVE Current'
    BY <1>11 DEF Restart
<1>12. ASSUME NEW j \in Job, JobRejected(j) PROVE Current'
    BY <1>12 DEF JobRejected
<1>13. ASSUME NEW j \in Job, JobStarts(j) PROVE Current'
    BY <1>13 DEF JobStarts
<1>14. ASSUME NEW j \in Job, JobRecords(j) PROVE Current'
    BY <1>14 DEF JobRecords
<1>15. ASSUME NEW j \in Job, JobRaises(j) PROVE Current'
    BY <1>15 DEF JobRaises
<1>16. ASSUME NEW j \in Job, JobError(j) PROVE Current'
    BY <1>16 DEF JobError
<1>17. ASSUME NEW j \in Job, JobErrorFails(j) PROVE Current'
    BY <1>17 DEF JobErrorFails
<1>18. ASSUME NEW q \in Request, RequestRead(q) PROVE Current'
    <2>1. NextRun(row.rule) = Never => \A t \in Occurs[row.rule] : t <= now
        BY NextRunFacts DEF Typed
    <2> QED
        BY <1>18, <2>1 DEF RequestRead
<1>19. ASSUME NEW q \in Request, RequestLoad(q) PROVE Current'
    <2> DEFINE x == [req[q] EXCEPT !.pc = "loaded", !.row = row]
    <2>1. /\ x.op = req[q].op /\ x.row = row
          /\ x.op \in {"update", "toggle"} => x.version = req[q].version /\ x.next = req[q].next
        <3>1. req[q] \in RequestState /\ row \in Stored /\ req[q].pc = "computed"
            BY <1>19 DEF RequestLoad, Typed
        <3> QED
            BY ONLY <3>1, LoadedRequest
    <2>2. \/ req' = [req EXCEPT ![q] = x]
          \/ req' = [req EXCEPT ![q] = [op |-> req[q].op, pc |-> "done"]]
        BY <1>19 DEF RequestLoad, Finish
    <2>3. req[q].pc \in Progress
        BY <1>19 DEF RequestLoad, Progress
    <2> HIDE DEF x
    <2>4. now' = now /\ row' = row /\ version' = version
        BY <1>19 DEF RequestLoad
    <2> QED
        BY <2>1, <2>2, <2>3, <2>4 DEF Progress
<1>20. ASSUME NEW q \in Request, UpdateCommit(q) PROVE Current'
    <2>1. \A k \in Request : req'[k] = req[k] \/ req'[k].pc = "done"
        BY <1>20 DEF UpdateCommit, Finish
    <2>2. CASE There
        BY <1>20, <1>w, <2>1, <2>2, UpdateFacts
    <2>3. CASE ~There
        BY <1>20, <2>1, <2>3 DEF UpdateCommit, Progress
    <2> QED
        BY <2>2, <2>3
<1>21. ASSUME NEW q \in Request, ToggleCommit(q) PROVE Current'
    <2>1. \A k \in Request : req'[k] = req[k] \/ req'[k].pc = "done"
        BY <1>21 DEF ToggleCommit, Finish
    <2>2. CASE There
        BY <1>21, <1>w, <2>1, <2>2, ToggleFacts
    <2>3. CASE ~There
        BY <1>21, <2>1, <2>3 DEF ToggleCommit, Progress
    <2> QED
        BY <2>2, <2>3
<1>22. ASSUME NEW q \in Request, DeleteCommit(q) PROVE Current'
    <2>1. \A k \in Request : req'[k] = req[k] \/ req'[k].pc = "done"
        BY <1>22 DEF DeleteCommit, Finish
    <2> QED
        BY <1>22, <1>w, <2>1 DEF DeleteCommit
<1>23. ASSUME NEW e \in Edit, EditLoad(e) PROVE Current'
    BY <1>23 DEF EditLoad
<1>24. ASSUME NEW e \in Edit, EditCommit(e) PROVE Current'
    BY <1>24 DEF EditCommit
<1>25. ASSUME UNCHANGED vars PROVE Current'
    BY <1>25 DEF vars
<1> QED
    BY <1>1, <1>2, <1>3, <1>4, <1>5, <1>6, <1>7, <1>8, <1>9, <1>10, <1>11, <1>12,
       <1>13, <1>14, <1>15, <1>16, <1>17, <1>18, <1>19, <1>20, <1>21, <1>22, <1>23, <1>24, <1>25
       DEF Next, ClaimStep, AlertStep, JobStep, RequestStep

LEMMA HasNextStep == Typed /\ Locked /\ Current /\ HasNext /\ [Next]_vars => HasNext'
<1> SUFFICES ASSUME Typed, Locked, Current, HasNext, [Next]_vars PROVE HasNext'
    OBVIOUS
<1>0. /\ now \in Nat /\ row.rule \in Rule /\ Horizon \in Nat
      /\ \A r \in Rule : Occurs[r] \subseteq Nat
    BY StoredFacts, RuleAssumption DEF Typed, Time
<1> USE <1>0 DEF HasNext, RunOut, Never, automation, requests, loop, jobs, calendar, Fault
<1>1. ASSUME Tick PROVE HasNext'
    BY <1>1 DEF Tick
<1>2. ASSUME NEW i \in Instance, ClaimRead(i) PROVE HasNext'
    BY <1>2 DEF ClaimRead
<1>3. ASSUME NEW i \in Instance, ClaimCommit(i) PROVE HasNext'
    <2>1. /\ NextRun(row.rule) = Never <=> \A t \in Occurs[row.rule] : t <= now
        BY NextRunFacts DEF Typed
    <2>2. now' = now
        BY <1>3 DEF ClaimCommit
    <2> QED
        BY <1>3, <2>1, <2>2, ClaimFacts
<1>4. ASSUME NEW i \in Instance, ClaimFails(i) PROVE HasNext'
    BY <1>4 DEF ClaimFails
<1>5. ASSUME NEW i \in Instance, Skip(i) PROVE HasNext'
    BY <1>5 DEF Skip
<1>6. ASSUME NEW i \in Instance, AlertRead(i) PROVE HasNext'
    BY <1>6 DEF AlertRead
<1>7. ASSUME NEW i \in Instance, AlertEmit(i) PROVE HasNext'
    BY <1>7 DEF AlertEmit
<1>8. ASSUME NEW i \in Instance, AlertMark(i) PROVE HasNext'
    BY <1>8 DEF AlertMark
<1>9. ASSUME NEW i \in Instance, AlertMarkFails(i) PROVE HasNext'
    BY <1>9 DEF AlertMarkFails
<1>10. ASSUME NEW i \in Instance, Crash(i) PROVE HasNext'
    BY <1>10 DEF Crash
<1>11. ASSUME NEW i \in Instance, Restart(i) PROVE HasNext'
    BY <1>11 DEF Restart
<1>12. ASSUME NEW j \in Job, JobRejected(j) PROVE HasNext'
    BY <1>12 DEF JobRejected
<1>13. ASSUME NEW j \in Job, JobStarts(j) PROVE HasNext'
    BY <1>13 DEF JobStarts
<1>14. ASSUME NEW j \in Job, JobRecords(j) PROVE HasNext'
    BY <1>14 DEF JobRecords
<1>15. ASSUME NEW j \in Job, JobRaises(j) PROVE HasNext'
    BY <1>15 DEF JobRaises
<1>16. ASSUME NEW j \in Job, JobError(j) PROVE HasNext'
    BY <1>16 DEF JobError
<1>17. ASSUME NEW j \in Job, JobErrorFails(j) PROVE HasNext'
    BY <1>17 DEF JobErrorFails
<1>18. ASSUME NEW q \in Request, RequestRead(q) PROVE HasNext'
    BY <1>18 DEF RequestRead
<1>19. ASSUME NEW q \in Request, RequestLoad(q) PROVE HasNext'
    BY <1>19 DEF RequestLoad, Finish
<1>20. ASSUME NEW q \in Request, UpdateCommit(q) PROVE HasNext'
    <2>1. CASE There
        <3>1. ~raced' => ~raced /\ req[q].version = version
            BY <1>20 DEF UpdateCommit
        <3>2. ~raced' => req[q].row = row
            BY <1>20, <2>1, <3>1, UpdateFacts DEF Current, Progress
        <3> QED
            BY <1>20, <2>1, <3>2, UpdateFacts
    <2>2. CASE ~There
        BY <1>20, <2>2 DEF UpdateCommit, There
    <2> QED
        BY <2>1, <2>2
<1>21. ASSUME NEW q \in Request, ToggleCommit(q) PROVE HasNext'
    <2>1. CASE There
        <3>1. now' = now /\ (~raced' => ~raced /\ req[q].version = version)
            BY <1>21 DEF ToggleCommit
        <3>2. ~raced' => /\ req[q].row = row
                         /\ req[q].next = Never => RunOut(row.rule)
            BY <1>21, <2>1, <3>1, ToggleFacts DEF Current, Progress
        <3> QED
            BY <1>21, <2>1, <3>1, <3>2, ToggleFacts
    <2>2. CASE ~There
        BY <1>21, <2>2 DEF ToggleCommit, There
    <2> QED
        BY <2>1, <2>2
<1>22. ASSUME NEW q \in Request, DeleteCommit(q) PROVE HasNext'
    <2>1. row'.state = "deleted"
        BY <1>22 DEF DeleteCommit, Typed, Stored
    <2> QED
        BY <2>1
<1>23. ASSUME NEW e \in Edit, EditLoad(e) PROVE HasNext'
    BY <1>23 DEF EditLoad
<1>24. ASSUME NEW e \in Edit, EditCommit(e) PROVE HasNext'
    BY <1>24 DEF EditCommit
<1>25. ASSUME UNCHANGED vars PROVE HasNext'
    BY <1>25 DEF vars
<1> QED
    BY <1>1, <1>2, <1>3, <1>4, <1>5, <1>6, <1>7, <1>8, <1>9, <1>10, <1>11, <1>12,
       <1>13, <1>14, <1>15, <1>16, <1>17, <1>18, <1>19, <1>20, <1>21, <1>22, <1>23, <1>24, <1>25
       DEF Next, ClaimStep, AlertStep, JobStep, RequestStep

-----------------------------------------------------------------------------
(* Theorems                                                                *)

LEMMA InitIInv == Init => IInv
<1> SUFFICES ASSUME Init PROVE IInv
    OBVIOUS
<1>0. Horizon \in Nat /\ now \in Time /\ now = 0
    BY RuleAssumption DEF Init, Time
<1>1. PICK r \in Rule : /\ NextRun(r) # Never
                       /\ row = [state |-> "active", next |-> NextRun(r), rule |-> r, armed |-> 0]
    BY DEF Init
<1>2. row \in Stored /\ row.next # Never /\ row.armed = 0
    BY <1>0, <1>1, NextRunFacts DEF Stored, State, Run
<1>3. Typed
    <2>1. \A q \in Request : req[q] = NoReq
        BY DEF Init
    <2>2. NoReq \in RequestState
        BY DEF NoReq, RequestState
    <2>3. req \in [Request -> RequestState]
        BY <2>2 DEF Init
    <2> QED
        BY <1>0, <1>2, <2>3 DEF Init, Typed
<1> QED
    BY <1>0, <1>2, <1>3
       DEF Init, IInv, Locked, Unclaimed, Current, Unrequested, Outcomes, NoDoubleClaim, HasNext, NoReq, Job, Progress

LEMMA NextIInv == Postgres /\ IInv /\ [Next]_vars => IInv'
    BY TypedStep, LockedStep, UnclaimedStep, OutcomesStep, CurrentStep, HasNextStep DEF IInv

LEMMA Inductive == ASSUME Postgres PROVE Spec => []IInv
    BY InitIInv, NextIInv, PTL DEF Spec

\* On PostgreSQL each schedule is claimed at most once (claim_due with
\* FOR UPDATE SKIP LOCKED), whichever instances poll and whatever requests do.
THEOREM ClaimedOnce == ASSUME Postgres PROVE Spec => []NoDoubleClaim
<1>1. IInv => NoDoubleClaim
    BY DEF IInv
<1> QED
    BY Inductive, <1>1, PTL

\* An automation loses its next run only to a rule that has run out, or to a
\* request that overwrote what it had not seen (update, toggle).
THEOREM NeverStranded == ASSUME Postgres PROVE Spec => []NotStranded
<1>1. IInv => NotStranded
    BY NextRunFacts, StoredFacts DEF IInv, HasNext, NotStranded, Typed
<1> QED
    BY Inductive, <1>1, PTL

\* execute_automation records one outcome at most, success only if it started
\* the completion.
THEOREM Honest == ASSUME Postgres PROVE Spec => []OutcomeHonest
<1>1. IInv => OutcomeHonest
    <2> SUFFICES ASSUME IInv, NEW j \in Job
                 PROVE  Cardinality(ran[j]) <= 1 /\ ("success" \in ran[j] => j \in started)
        BY DEF OutcomeHonest
    <2>1. ran[j] \in {{}, {"success"}, {"error"}} /\ ("success" \in ran[j] => j \in started)
        BY DEF IInv, Outcomes
    <2>2. Cardinality(ran[j]) = 0 \/ Cardinality(ran[j]) = 1
        BY <2>1, FS_EmptySet, FS_Singleton, Zenon
    <2> QED
        BY <2>1, <2>2
<1> QED
    BY Inductive, <1>1, PTL

\* A claim takes an automation that is active when it commits.
THEOREM Quiet == ASSUME Postgres PROVE Spec => PausedStaysQuiet
<1>1. ASSUME IInv, [Next]_vars PROVE [claims' # claims => row.state = "active"]_vars
    <2>1. CASE \E i \in Instance : ClaimCommit(i)
        BY <1>1, <2>1, ClaimFacts DEF IInv
    <2>2. CASE ~ \E i \in Instance : ClaimCommit(i)
        <3>1. claims' = claims
            BY <1>1, <2>2
               DEF Next, ClaimStep, AlertStep, JobStep, RequestStep, vars,
                   automation, requests, loop, jobs, calendar, Fault, Tick, ClaimRead, ClaimFails,
                   Skip, AlertRead, AlertEmit, AlertMark, AlertMarkFails, Crash, Restart,
                   JobRejected, JobStarts, JobRecords, JobRaises, JobError, JobErrorFails,
                   RequestRead, RequestLoad, UpdateCommit, ToggleCommit, DeleteCommit, EditLoad, EditCommit
        <3> QED
            BY <3>1
    <2> QED
        BY <2>1, <2>2
<1> QED
    BY Inductive, <1>1, PTL DEF Spec, PausedStaysQuiet

-----------------------------------------------------------------------------
(* Calendar alerts, on any database                                          *)

\* Who may still alert unless something fails: instances that are about to, and
\* those that will find the event unmarked.
Alerting == {i \in Instance : pc[i] = "emit" \/ (pc[i] # "mark" /\ ~event.alerted)}
Edited == {e \in Edit : edit[e].pc = "done"}

AlertsTyped ==
    /\ pc \in [Instance -> {"claim", "commit", "alerts", "emit", "mark", "down"}]
    /\ event.alerted \in BOOLEAN
    /\ edit \in [Edit -> [pc : {"idle", "loaded", "done"}, alerted : BOOLEAN]]
    /\ alerts \in Nat
    /\ faults \in Nat

\* An update of the event lets every instance alert once more, a failure one.
Budget == alerts + Cardinality(Alerting) <= Cardinality(Instance) * (1 + Cardinality(Edited)) + faults

LEMMA AlertSizes ==
    ASSUME AlertsTyped
    PROVE  /\ IsFiniteSet(Alerting) /\ Cardinality(Alerting) \in Nat
           /\ IsFiniteSet(Edited) /\ Cardinality(Edited) \in Nat
           /\ Cardinality(Instance) \in Nat
           /\ Cardinality(Alerting) <= Cardinality(Instance)
           /\ Cardinality(Edited) <= Cardinality(Edit) /\ Cardinality(Edit) \in Nat
<1>1. Alerting \subseteq Instance /\ Edited \subseteq Edit
    BY DEF Alerting, Edited
<1>2. QED
    BY <1>1, FiniteAssumption, FS_Subset, FS_CardinalityType

LEMMA AlertsTypedStep == AlertsTyped /\ [Next]_vars => AlertsTyped'
<1> SUFFICES ASSUME AlertsTyped, [Next]_vars PROVE AlertsTyped'
    OBVIOUS
<1> USE DEF AlertsTyped, Goto, Fault
<1>1. ASSUME NEW i \in Instance, ClaimStep(i) PROVE AlertsTyped'
    BY <1>1 DEF ClaimStep, ClaimRead, ClaimCommit, ClaimFails, calendar
<1>2. ASSUME NEW i \in Instance, AlertStep(i) PROVE AlertsTyped'
    <2>1. CASE AlertMark(i)
        BY <2>1 DEF AlertMark
    <2>2. CASE Skip(i) \/ AlertRead(i) \/ AlertEmit(i) \/ AlertMarkFails(i)
        BY <2>2 DEF Skip, AlertRead, AlertEmit, AlertMarkFails, calendar
    <2>3. QED
        BY <1>2, <2>1, <2>2 DEF AlertStep
<1>3. ASSUME NEW i \in Instance, Crash(i) \/ Restart(i) PROVE AlertsTyped'
    BY <1>3 DEF Crash, Restart, calendar
<1>4. ASSUME NEW j \in Job, JobStep(j) PROVE AlertsTyped'
    BY <1>4 DEF JobStep, JobRejected, JobStarts, JobRecords, JobRaises, JobError, JobErrorFails, loop, calendar
<1>5. ASSUME NEW q \in Request, RequestStep(q) PROVE AlertsTyped'
    BY <1>5 DEF RequestStep, RequestRead, RequestLoad, UpdateCommit, ToggleCommit, DeleteCommit, loop, calendar
<1>6. ASSUME NEW e \in Edit, EditLoad(e) PROVE AlertsTyped'
    BY <1>6 DEF EditLoad, loop
<1>7. ASSUME NEW e \in Edit, EditCommit(e) PROVE AlertsTyped'
    BY <1>7 DEF EditCommit, loop
<1>8. CASE Tick \/ UNCHANGED vars
    BY <1>8 DEF Tick, vars, loop, calendar
<1>9. QED
    BY <1>1, <1>2, <1>3, <1>4, <1>5, <1>6, <1>7, <1>8 DEF Next

\* A step that fails, or that lets no further instance alert.
LEMMA BudgetKept ==
    ASSUME AlertsTyped, AlertsTyped', Budget, UNCHANGED <<alerts, Edited>>,
             \/ Alerting' \subseteq Alerting /\ faults' >= faults
             \/ faults' = faults + 1 /\ \E i \in Instance : Alerting' \subseteq Alerting \cup {i}
    PROVE  Budget'
<1>1. CASE Alerting' \subseteq Alerting /\ faults' >= faults
    <2>1. Cardinality(Alerting') <= Cardinality(Alerting)
        BY <1>1, AlertSizes, FS_Subset
    <2>2. Cardinality(Alerting') \in Nat
        BY <1>1, AlertSizes, FS_Subset, FS_CardinalityType
    <2> DEFINE limit == Cardinality(Instance) * (1 + Cardinality(Edited))
    <2>3. limit \in Nat
        BY AlertSizes
    <2>4. limit' = limit
        OBVIOUS
    <2> HIDE DEF limit
    <2>5. alerts + Cardinality(Alerting) <= limit + faults
        BY DEF Budget, limit
    <2>6. alerts' + Cardinality(Alerting') <= limit + faults'
        BY <1>1, <2>1, <2>2, <2>3, <2>5, AlertSizes DEF AlertsTyped
    <2>7. QED
        BY <2>4, <2>6 DEF Budget, limit
<1>2. ASSUME faults' = faults + 1, NEW i \in Instance, Alerting' \subseteq Alerting \cup {i} PROVE Budget'
    <2>1. /\ IsFiniteSet(Alerting \cup {i})
          /\ Cardinality(Alerting \cup {i}) \in Nat
          /\ Cardinality(Alerting \cup {i}) <= Cardinality(Alerting) + 1
        <3>1. CASE i \in Alerting
            <4>1. Alerting \cup {i} = Alerting
                BY <3>1
            <4>2. QED
                BY <4>1, AlertSizes
        <3>2. CASE i \notin Alerting
            BY <3>2, AlertSizes, FS_AddElement
        <3>3. QED
            BY <3>1, <3>2
    <2>2. Cardinality(Alerting') <= Cardinality(Alerting) + 1 /\ Cardinality(Alerting') \in Nat
        BY <1>2, <2>1, AlertSizes, FS_Subset, FS_CardinalityType
    <2> DEFINE limit == Cardinality(Instance) * (1 + Cardinality(Edited))
    <2>3. limit \in Nat
        BY AlertSizes
    <2>4. limit' = limit
        OBVIOUS
    <2> HIDE DEF limit
    <2>5. alerts + Cardinality(Alerting) <= limit + faults
        BY DEF Budget, limit
    <2>6. alerts' + Cardinality(Alerting') <= limit + faults'
        BY <1>2, <2>2, <2>3, <2>5, AlertSizes DEF AlertsTyped
    <2>7. QED
        BY <2>4, <2>6 DEF Budget, limit
<1>3. QED
    BY <1>1, <1>2

LEMMA AlertEmits ==
    ASSUME AlertsTyped, AlertsTyped', Budget, NEW i \in Instance, AlertEmit(i)
    PROVE  Budget'
<1>1. i \in Alerting /\ Alerting' = Alerting \ {i} /\ Edited' = Edited /\ alerts' = alerts + 1 /\ faults' = faults
    BY DEF AlertEmit, Goto, Alerting, Edited, AlertsTyped
<1>2. Cardinality(Alerting') = Cardinality(Alerting) - 1
    BY <1>1, AlertSizes, FS_RemoveElement
<1> DEFINE limit == Cardinality(Instance) * (1 + Cardinality(Edited))
<1>3. limit \in Nat
    BY AlertSizes
<1>4. limit' = limit
    BY <1>1
<1> HIDE DEF limit
<1>5. alerts + Cardinality(Alerting) <= limit + faults
    BY DEF Budget, limit
<1>6. alerts' + Cardinality(Alerting') <= limit + faults'
    BY <1>1, <1>2, <1>3, <1>5, AlertSizes DEF AlertsTyped
<1>7. QED
    BY <1>4, <1>6 DEF Budget, limit

\* Every instance may find the event unmarked after an update.
LEMMA EditSpends ==
    ASSUME AlertsTyped, AlertsTyped', Budget, NEW e \in Edit, EditCommit(e)
    PROVE  Budget'
<1>1. e \notin Edited /\ Edited' = Edited \cup {e} /\ UNCHANGED <<alerts, faults>>
    BY DEF EditCommit, Edited, AlertsTyped
<1>2. Cardinality(Edited') = Cardinality(Edited) + 1
    BY <1>1, AlertSizes, FS_AddElement
<1>3. Cardinality(Alerting') <= Cardinality(Instance) /\ Cardinality(Alerting') \in Nat
    <2>1. Alerting' \subseteq Instance
        BY DEF Alerting
    <2>2. QED
        BY <2>1, FiniteAssumption, FS_Subset, FS_CardinalityType
<1> DEFINE all == Cardinality(Instance)
           old == all * (1 + Cardinality(Edited))
           new == all * (1 + Cardinality(Edited'))
<1>4. all \in Nat /\ Cardinality(Edited) \in Nat
    BY AlertSizes
<1>5. \A a, b \in Nat : a * (1 + (b + 1)) = a * (1 + b) + a /\ a * (1 + b) \in Nat
    OBVIOUS
<1>6. new = old + all /\ old \in Nat
    BY <1>2, <1>4, <1>5
<1> HIDE DEF all, old, new
<1>7. alerts + Cardinality(Alerting) <= old + faults
    BY DEF Budget, old, all
<1>8. alerts <= old + faults
    BY <1>4, <1>6, <1>7, AlertSizes DEF AlertsTyped
<1>9. alerts' + Cardinality(Alerting') <= new + faults'
    BY <1>1, <1>3, <1>4, <1>6, <1>8, AlertSizes DEF AlertsTyped, all
<1>10. QED
    BY <1>9 DEF Budget, new, all

LEMMA BudgetStep == AlertsTyped /\ Budget /\ [Next]_vars => Budget'
<1> SUFFICES ASSUME AlertsTyped, Budget, [Next]_vars PROVE Budget'
    OBVIOUS
<1>0. AlertsTyped'
    BY AlertsTypedStep
<1> USE DEF AlertsTyped, Alerting, Edited, Goto, Fault
<1>1. ASSUME NEW i \in Instance, ClaimStep(i) PROVE Budget'
    <2>1. Alerting' \subseteq Alerting /\ faults' >= faults /\ UNCHANGED <<alerts, Edited>>
        BY <1>1 DEF ClaimStep, ClaimRead, ClaimCommit, ClaimFails, calendar
    <2>2. QED
        BY <1>0, <2>1, BudgetKept
<1>2. ASSUME NEW i \in Instance, Skip(i) \/ AlertRead(i) \/ AlertMark(i) \/ Restart(i) PROVE Budget'
    <2>1. Alerting' \subseteq Alerting /\ faults' >= faults /\ UNCHANGED <<alerts, Edited>>
        <3>1. CASE AlertMark(i)
            <4>1. event'.alerted = TRUE
                BY <3>1 DEF AlertMark
            <4>2. QED
                BY <3>1, <4>1 DEF AlertMark
        <3>2. CASE Skip(i) \/ AlertRead(i) \/ Restart(i)
            BY <3>2 DEF Skip, AlertRead, Restart, calendar
        <3>3. QED
            BY <1>2, <3>1, <3>2
    <2>2. QED
        BY <1>0, <2>1, BudgetKept
<1>3. ASSUME NEW i \in Instance, AlertMarkFails(i) \/ Crash(i) PROVE Budget'
    <2>1. Alerting' \subseteq Alerting \cup {i} /\ faults' = faults + 1 /\ UNCHANGED <<alerts, Edited>>
        BY <1>3 DEF AlertMarkFails, Crash, calendar
    <2>2. QED
        BY <1>0, <2>1, BudgetKept
<1>4. ASSUME NEW j \in Job, JobStep(j) PROVE Budget'
    <2>1. Alerting' \subseteq Alerting /\ faults' >= faults /\ UNCHANGED <<alerts, Edited>>
        BY <1>4 DEF JobStep, JobRejected, JobStarts, JobRecords, JobRaises, JobError, JobErrorFails, loop, calendar
    <2>2. QED
        BY <1>0, <2>1, BudgetKept
<1>5. ASSUME NEW q \in Request, RequestStep(q) PROVE Budget'
    <2>1. Alerting' \subseteq Alerting /\ faults' >= faults /\ UNCHANGED <<alerts, Edited>>
        BY <1>5 DEF RequestStep, RequestRead, RequestLoad, UpdateCommit, ToggleCommit, DeleteCommit, loop, calendar
    <2>2. QED
        BY <1>0, <2>1, BudgetKept
<1>6. ASSUME NEW e \in Edit, EditLoad(e) PROVE Budget'
    <2>1. Alerting' \subseteq Alerting /\ faults' >= faults /\ UNCHANGED <<alerts, Edited>>
        BY <1>6 DEF EditLoad, loop
    <2>2. QED
        BY <1>0, <2>1, BudgetKept
<1>7. CASE Tick \/ UNCHANGED vars
    <2>1. Alerting' \subseteq Alerting /\ faults' >= faults /\ UNCHANGED <<alerts, Edited>>
        BY <1>7 DEF Tick, vars, loop, calendar
    <2>2. QED
        BY <1>0, <2>1, BudgetKept
<1>8. QED
    BY <1>0, <1>1, <1>2, <1>3, <1>4, <1>5, <1>6, <1>7, AlertEmits, EditSpends DEF Next, AlertStep

LEMMA AlertsInit == Init => AlertsTyped /\ Budget
<1> SUFFICES ASSUME Init PROVE AlertsTyped /\ Budget
    OBVIOUS
<1>1. AlertsTyped /\ alerts = 0 /\ faults = 0
    BY DEF Init, AlertsTyped
<1>2. Edited = {} /\ Cardinality({}) = 0
    BY FS_EmptySet DEF Init, Edited
<1>3. Cardinality(Instance) * (1 + 0) = Cardinality(Instance) /\ Cardinality(Alerting) \in Nat
    BY <1>1, AlertSizes
<1>4. QED
    BY <1>1, <1>2, <1>3, AlertSizes DEF Budget

\* An upcoming event is alerted once by each instance, and again only after an
\* update of the event or a failure.
THEOREM FewAlerts == Spec => []AlertsBounded
<1>1. AlertsTyped /\ Budget => AlertsBounded
    <2> SUFFICES ASSUME AlertsTyped, Budget PROVE AlertsBounded
        OBVIOUS
    <2> DEFINE all == Cardinality(Instance)
               done == Cardinality(Edited)
               edits == Cardinality(Edit)
    <2>1. all \in Nat /\ done \in Nat /\ edits \in Nat /\ done <= edits
        BY AlertSizes
    <2>2. \A a, b, c \in Nat : b <= c => a * (1 + b) <= a * (1 + c) /\ a * (1 + b) \in Nat /\ a * (1 + c) \in Nat
        OBVIOUS
    <2>3. all * (1 + done) <= all * (1 + edits) /\ all * (1 + done) \in Nat /\ all * (1 + edits) \in Nat
        BY <2>1, <2>2
    <2>4. alerts + Cardinality(Alerting) <= all * (1 + done) + faults
        BY DEF Budget
    <2> DEFINE low == all * (1 + done)
               high == all * (1 + edits)
    <2>5. low \in Nat /\ high \in Nat /\ low <= high /\ alerts + Cardinality(Alerting) <= low + faults
        BY <2>3, <2>4
    <2> HIDE DEF low, high
    <2>6. alerts <= high + faults
        BY <2>5, AlertSizes DEF AlertsTyped
    <2>7. QED
        BY <2>6 DEF AlertsBounded, high
<1>2. QED
    BY <1>1, AlertsInit, AlertsTypedStep, BudgetStep, PTL DEF Spec
=============================================================================
