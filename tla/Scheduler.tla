----------------------------- MODULE Scheduler ------------------------------
(***************************************************************************)
(* The scheduler of every instance (utils/automations.py) polls for due    *)
(* automations, claims them in the database and executes them, and alerts  *)
(* users of upcoming calendar events.  Meanwhile requests read, update,    *)
(* toggle, delete and run the same automation, and move the same event.    *)
(***************************************************************************)
EXTENDS Naturals, FiniteSets

CONSTANTS
    Instance, Request, Edit, \* schedulers; HTTP requests about the automation; event updates
    Rule, Occurs,  \* recurrence rules and their occurrences
    Horizon,       \* bound: time 0..Horizon
    Grace, Lookahead, \* the window of get_upcoming_events
    Postgres,      \* TRUE: SELECT ... FOR UPDATE; FALSE: SQLite, no row locks
    MaxFaults,     \* bound: crashes and failed database calls
    Enabled,       \* the sets of features an administrator may have enabled
    Nobody

ASSUME FiniteAssumption == IsFiniteSet(Instance) /\ IsFiniteSet(Edit)
ASSUME RuleAssumption == Horizon \in Nat /\ Occurs \in [Rule -> SUBSET (1..Horizon)]

Time == 0..Horizon
Never == Horizon + 1  \* next_run_at is NULL
MaxArmed == 2 * Horizon + 2 + Cardinality(Request)
Job == (Instance \X (0..MaxArmed)) \cup Request

ASSUME NameAssumption == Nobody \notin Instance /\ Request \cap (Instance \X Nat) = {}

VARIABLES
    enabled, \* automations.enable, calendar.enable
    now,
    row,     \* the automation: state, next, rule; armed numbers the writes of next
    version, \* history: how often the row was written
    locker,  \* the instance that has the row locked
    pc,      \* pc[i]: where the scheduler loop of i is
    seen,    \* seen[i]: the row that claim_due loaded
    req,     \* req[q]: an HTTP request
    raced,   \* history: a request overwrote a row it had not read
    claims,  \* claims[n]: how often the n-th schedule was claimed
    job,     \* job[j]: an execution
    started, \* jobs whose completion was started
    ran,     \* ran[j]: statuses of j in the table of runs
    event,   \* the calendar event: start, alerted
    copy,    \* copy[i]: the event that get_upcoming_events returned
    edit,    \* edit[e]: an update of the event
    alerts,  \* how many alerts were emitted
    faults

automation == <<row, version, claims>>
requests == <<req, raced>>
loop == <<locker, pc, seen>>
jobs == <<job, started, ran>>
calendar == <<event, copy, edit, alerts>>
vars == <<enabled, now, automation, requests, loop, jobs, calendar, faults>>

Row == [state : {"active", "paused", "deleted"}, next : 1..Never, rule : Rule, armed : 0..MaxArmed]
Event == [start : Time, alerted : BOOLEAN]
NoReq == [op |-> "none", pc |-> "idle"]

TypeOK ==
    /\ enabled \in Enabled
    /\ now \in Time
    /\ row \in Row
    /\ version \in Nat
    /\ locker # Nobody => locker \in Instance /\ pc[locker] = "commit"
    /\ pc \in [Instance -> {"claim", "commit", "alerts", "emit", "mark", "down"}]
    /\ \A i \in Instance : pc[i] = "commit" => seen[i] \in Row
    /\ \A q \in Request :
          /\ req[q].op \in {"none", "update", "toggle", "delete", "run"}
          /\ req[q].pc \in {"idle", "computed", "loaded", "done"}
    /\ raced \in BOOLEAN
    /\ claims \in [0..MaxArmed -> Nat]
    /\ job \in [Job -> {"none", "run", "ran", "failed", "over", "lost"}]
    /\ started \in SUBSET Job
    /\ ran \in [Job -> SUBSET {"success", "error"}]
    /\ event \in Event
    /\ copy \in [Instance -> Event]
    /\ edit \in [Edit -> [pc : {"idle", "loaded", "done"}, alerted : BOOLEAN]]
    /\ alerts \in Nat
    /\ faults \in 0..MaxFaults

\* next_run_ns: the first occurrence after the present.
NextRun(r) ==
    LET later == {t \in Occurs[r] : t > now}
    IN IF later = {} THEN Never ELSE CHOOSE t \in later : \A u \in later : t <= u

Init ==
    /\ enabled \in Enabled
    /\ now = 0
    /\ \E r \in Rule :  \* create_new_automation rejects a rule without future runs
          /\ NextRun(r) # Never
          /\ row = [state |-> "active", next |-> NextRun(r), rule |-> r, armed |-> 0]
    /\ version = 0
    /\ locker = Nobody
    /\ pc = [i \in Instance |-> "claim"]
    /\ seen = [i \in Instance |-> row]
    /\ req = [q \in Request |-> NoReq]
    /\ raced = FALSE
    /\ claims = [n \in 0..MaxArmed |-> 0]
    /\ job = [j \in Job |-> "none"]
    /\ started = {}
    /\ ran = [j \in Job |-> {}]
    /\ event = [start |-> 1, alerted |-> FALSE]
    /\ copy = [i \in Instance |-> event]
    /\ edit = [e \in Edit |-> [pc |-> "idle", alerted |-> FALSE]]
    /\ alerts = 0
    /\ faults = 0

Fault == faults < MaxFaults /\ faults' = faults + 1
Goto(i, label) == pc' = [pc EXCEPT ![i] = label]
Unlock(i) == locker' = IF locker = i THEN Nobody ELSE locker

\* A transaction loads a row, assigns to it and commits: the UPDATE names only
\* the columns whose value differs from the loaded one.
There == row.state # "deleted"
Write(stored, loaded, new) == IF new = loaded THEN stored ELSE new
Store(next, state, rule) ==
    /\ row' = [row EXCEPT !.next = next, !.state = state, !.rule = rule,
                          !.armed = IF next # row.next THEN @ + 1 ELSE @]
    /\ version' = version + 1

Tick ==
    /\ now < Horizon
    /\ now' = now + 1
    /\ UNCHANGED <<enabled, automation, requests, loop, jobs, calendar, faults>>

-----------------------------------------------------------------------------
(* AutomationTable.claim_due in scheduler_worker_loop                      *)

Due == row.state = "active" /\ row.next <= now

ClaimRead_NoLock(i) ==  \* mutant: the row is read without FOR UPDATE
    /\ pc[i] = "claim"
    /\ IF Due
          THEN Goto(i, "commit") /\ seen' = [seen EXCEPT ![i] = row]
          ELSE Goto(i, "alerts") /\ UNCHANGED seen
    /\ UNCHANGED <<enabled, now, automation, requests, locker, jobs, calendar, faults>>
ClaimRead(i) ==
    /\ pc[i] = "claim"
    /\ IF "automations" \in enabled /\ Due /\ (Postgres => locker = Nobody)  \* a locked row is skipped
          THEN /\ Goto(i, "commit")
               /\ seen' = [seen EXCEPT ![i] = row]
               /\ locker' = IF Postgres THEN i ELSE Nobody
          ELSE Goto(i, "alerts") /\ UNCHANGED <<seen, locker>>
    /\ UNCHANGED <<enabled, now, automation, requests, jobs, calendar, faults>>

\* next_run_at advances; a deleted row makes the commit fail.
ClaimCommit_Late(i) ==  \* mutant: the claim fails on its own row and is tried again
    /\ pc[i] = "commit"
    /\ Goto(i, "alerts")
    /\ Unlock(i)
    /\ UNCHANGED <<enabled, now, automation, requests, seen, jobs, calendar, faults>>
ClaimCommit(i) ==
    /\ pc[i] = "commit"
    /\ IF There
          THEN /\ Store(NextRun(seen[i].rule), row.state, row.rule)
               /\ claims' = [claims EXCEPT ![seen[i].armed] = @ + 1]
               /\ job' = [job EXCEPT ![<<i, seen[i].armed>>] = "run"]
          ELSE UNCHANGED <<automation, job>>
    /\ Goto(i, "alerts")
    /\ Unlock(i)
    /\ UNCHANGED <<enabled, now, requests, seen, started, ran, calendar, faults>>

ClaimFails(i) ==
    /\ pc[i] = "commit"
    /\ Fault
    /\ Goto(i, "alerts")
    /\ Unlock(i)
    /\ UNCHANGED <<enabled, now, automation, requests, seen, jobs, calendar>>

-----------------------------------------------------------------------------
(* execute_automation                                                      *)

\* The owner is gone or no longer permitted, the chat is not created, or the
\* handler raises: an error is recorded.
JobRejected(j) ==
    /\ job[j] = "run"
    /\ job' = [job EXCEPT ![j] = "failed"]
    /\ UNCHANGED <<enabled, now, automation, requests, loop, started, ran, calendar, faults>>

JobStarts(j) ==
    /\ job[j] = "run"
    /\ job' = [job EXCEPT ![j] = "ran"]
    /\ started' = started \cup {j}
    /\ UNCHANGED <<enabled, now, automation, requests, loop, ran, calendar, faults>>

\* The run is recorded as a success ...
JobRecords_Raises(j) ==  \* mutant: what follows the record may raise
    /\ job[j] = "ran"
    /\ ran' = [ran EXCEPT ![j] = @ \cup {"success"}]
    /\ job' = [job EXCEPT ![j] = "failed"]
    /\ UNCHANGED <<enabled, now, automation, requests, loop, started, calendar, faults>>
JobRecords(j) ==
    /\ job[j] = "ran"
    /\ ran' = [ran EXCEPT ![j] = @ \cup {"success"}]
    /\ job' = [job EXCEPT ![j] = "over"]
    /\ UNCHANGED <<enabled, now, automation, requests, loop, started, calendar, faults>>

\* ... or the notification or the record raises, and the except clause ...
JobRaises(j) ==
    /\ job[j] = "ran"
    /\ Fault
    /\ job' = [job EXCEPT ![j] = "failed"]
    /\ UNCHANGED <<enabled, now, automation, requests, loop, started, ran, calendar>>

\* ... records an error, if it can.
JobError(j) ==
    /\ job[j] = "failed"
    /\ ran' = [ran EXCEPT ![j] = @ \cup {"error"}]
    /\ job' = [job EXCEPT ![j] = "over"]
    /\ UNCHANGED <<enabled, now, automation, requests, loop, started, calendar, faults>>

JobErrorFails(j) ==
    /\ job[j] = "failed"
    /\ Fault
    /\ job' = [job EXCEPT ![j] = "lost"]
    /\ UNCHANGED <<enabled, now, automation, requests, loop, started, ran, calendar>>

-----------------------------------------------------------------------------
(* routers/automations.py: update, toggle, delete and run                  *)

\* The handler reads the automation and computes next_run_at.
RequestRead(q) ==
    /\ "automations" \in enabled  \* check_automations_permission
    /\ req[q].op = "none"
    /\ There
    /\ \/ \E r \in Rule, state \in {"active", "paused"} :
             /\ NextRun(r) # Never  \* validate_rrule
             /\ req' = [req EXCEPT ![q] = [op |-> "update", pc |-> "computed", row |-> row, version |-> version,
                                           rule |-> r, state |-> state, next |-> NextRun(r)]]
             /\ UNCHANGED <<job, ran>>
       \/ /\ req' = [req EXCEPT ![q] = [op |-> "toggle", pc |-> "computed", row |-> row, version |-> version,
                                        next |-> NextRun(row.rule)]]
          /\ UNCHANGED <<job, ran>>
       \/ /\ req' = [req EXCEPT ![q] = [op |-> "delete", pc |-> "computed", row |-> row]]
          /\ ran' = [j \in Job |-> {}]  \* delete_by_automation
          /\ UNCHANGED job
       \/ /\ req' = [req EXCEPT ![q] = [op |-> "run", pc |-> "done"]]
          /\ job' = [job EXCEPT ![q] = "run"]
          /\ UNCHANGED ran
    /\ UNCHANGED <<enabled, now, automation, raced, loop, started, calendar, faults>>

Finish(q) == req' = [req EXCEPT ![q] = [op |-> @.op, pc |-> "done"]]

\* The table's method loads the row in a session of its own.
RequestLoad(q) ==
    /\ req[q].pc = "computed"
    /\ IF There
          THEN req' = [req EXCEPT ![q] = [@ EXCEPT !.pc = "loaded", !.row = row]]
          ELSE Finish(q)
    /\ UNCHANGED <<enabled, now, automation, raced, loop, jobs, calendar, faults>>

\* The writer waits for the row's lock; an UPDATE of a deleted row raises.
UpdateCommit_OldRun(q) ==  \* mutant: a new rule keeps the next run of the old one
    /\ req[q].pc = "loaded" /\ req[q].op = "update"
    /\ locker = Nobody
    /\ LET loaded == req[q].row
       IN IF There
             THEN Store(row.next, Write(row.state, loaded.state, req[q].state),
                        Write(row.rule, loaded.rule, req[q].rule))
             ELSE UNCHANGED <<row, version>>
    /\ raced' = (raced \/ req[q].version # version)
    /\ Finish(q)
    /\ UNCHANGED <<enabled, now, claims, loop, jobs, calendar, faults>>
UpdateCommit(q) ==
    /\ req[q].pc = "loaded" /\ req[q].op = "update"
    /\ locker = Nobody
    /\ LET loaded == req[q].row
       IN IF There
             THEN Store(Write(row.next, loaded.next, req[q].next),
                        Write(row.state, loaded.state, req[q].state),
                        Write(row.rule, loaded.rule, req[q].rule))
             ELSE UNCHANGED <<row, version>>
    /\ raced' = (raced \/ req[q].version # version)
    /\ Finish(q)
    /\ UNCHANGED <<enabled, now, claims, loop, jobs, calendar, faults>>

ToggleCommit(q) ==
    /\ req[q].pc = "loaded" /\ req[q].op = "toggle"
    /\ locker = Nobody
    /\ LET loaded == req[q].row
           active == loaded.state = "active"
           next == IF active THEN Never ELSE req[q].next
       IN IF There
             THEN Store(Write(row.next, loaded.next, next), IF active THEN "paused" ELSE "active", row.rule)
             ELSE UNCHANGED <<row, version>>
    /\ raced' = (raced \/ req[q].version # version)
    /\ Finish(q)
    /\ UNCHANGED <<enabled, now, claims, loop, jobs, calendar, faults>>

DeleteCommit(q) ==
    /\ req[q].pc = "loaded" /\ req[q].op = "delete"
    /\ locker = Nobody
    /\ row' = [row EXCEPT !.state = "deleted"]
    /\ version' = version + 1
    /\ Finish(q)
    /\ UNCHANGED <<enabled, now, claims, raced, loop, jobs, calendar, faults>>

-----------------------------------------------------------------------------
(* _check_calendar_alerts and CalendarEventTable.update_event_by_id        *)

Upcoming == now <= event.start + Grace /\ event.start <= now + Lookahead

Skip(i) ==
    /\ pc[i] = "alerts"
    /\ "calendar" \notin enabled \/ ~Upcoming \/ event.alerted
    /\ Goto(i, "claim")
    /\ UNCHANGED <<enabled, now, automation, requests, locker, seen, jobs, calendar, faults>>

AlertRead(i) ==
    /\ pc[i] = "alerts"
    /\ "calendar" \in enabled
    /\ Upcoming /\ ~event.alerted
    /\ copy' = [copy EXCEPT ![i] = event]
    /\ Goto(i, "emit")
    /\ UNCHANGED <<enabled, now, automation, requests, locker, seen, jobs, event, edit, alerts, faults>>

AlertEmit(i) ==
    /\ pc[i] = "emit"
    /\ alerts' = alerts + 1
    /\ Goto(i, "mark")
    /\ UNCHANGED <<enabled, now, automation, requests, locker, seen, jobs, event, copy, edit, faults>>

AlertMark_Forgotten(i) ==  \* mutant: the alert is not marked
    /\ pc[i] = "mark"
    /\ Goto(i, "claim")
    /\ UNCHANGED <<enabled, now, automation, requests, locker, seen, jobs, calendar, faults>>
AlertMark(i) ==
    /\ pc[i] = "mark"
    /\ event' = [event EXCEPT !.alerted = TRUE]
    /\ Goto(i, "claim")
    /\ UNCHANGED <<enabled, now, automation, requests, locker, seen, jobs, copy, edit, alerts, faults>>

\* The failure is logged, and the next poll alerts again.
AlertMarkFails(i) ==
    /\ pc[i] = "mark"
    /\ Fault
    /\ Goto(i, "claim")
    /\ UNCHANGED <<enabled, now, automation, requests, locker, seen, jobs, calendar>>

\* A user moves the event; the form's meta is merged into the loaded one, which
\* is written back if that has changed it.
EditLoad(e) ==
    /\ "calendar" \in enabled  \* check_calendar_permission
    /\ edit[e].pc = "idle"
    /\ edit' = [edit EXCEPT ![e] = [pc |-> "loaded", alerted |-> event.alerted]]
    /\ UNCHANGED <<enabled, now, automation, requests, loop, jobs, event, copy, alerts, faults>>

EditCommit(e) ==
    /\ edit[e].pc = "loaded"
    /\ \E t \in Time, alerted \in {event.alerted, edit[e].alerted} :
          event' = [start |-> t, alerted |-> alerted]
    /\ edit' = [edit EXCEPT ![e].pc = "done"]
    /\ UNCHANGED <<enabled, now, automation, requests, loop, jobs, copy, alerts, faults>>

-----------------------------------------------------------------------------
Crash(i) ==
    /\ pc[i] # "down"
    /\ Fault
    /\ Goto(i, "down")
    /\ Unlock(i)
    /\ job' = [j \in Job |-> IF j \notin Request /\ j[1] = i /\ job[j] \notin {"none", "over"} THEN "lost" ELSE job[j]]
    /\ UNCHANGED <<enabled, now, automation, requests, seen, started, ran, calendar>>

Restart(i) ==
    /\ pc[i] = "down"
    /\ Goto(i, "claim")
    /\ UNCHANGED <<enabled, now, automation, requests, locker, seen, jobs, calendar, faults>>

ClaimStep(i) == ClaimRead(i) \/ ClaimCommit(i) \/ ClaimFails(i)
AlertStep(i) == Skip(i) \/ AlertRead(i) \/ AlertEmit(i) \/ AlertMark(i) \/ AlertMarkFails(i)
JobStep(j) ==
    \/ JobRejected(j) \/ JobStarts(j) \/ JobRecords(j)
    \/ JobRaises(j) \/ JobError(j) \/ JobErrorFails(j)
RequestStep(q) == RequestRead(q) \/ RequestLoad(q) \/ UpdateCommit(q) \/ ToggleCommit(q) \/ DeleteCommit(q)

Next ==
    \/ Tick
    \/ \E i \in Instance : ClaimStep(i) \/ AlertStep(i) \/ Crash(i) \/ Restart(i)
    \/ \E j \in Job : JobStep(j)
    \/ \E q \in Request : RequestStep(q)
    \/ \E e \in Edit : EditLoad(e) \/ EditCommit(e)

\* The loop of a live instance goes on; a step of it ends, well or not.
Fairness == \A i \in Instance : WF_vars(ClaimStep(i) \/ AlertStep(i))

Spec == Init /\ [][Next]_vars /\ Fairness

-----------------------------------------------------------------------------
(* Properties                                                              *)

\* "the row can never be double-claimed": each schedule that was written is
\* claimed at most once, by whichever instance (PostgreSQL).
NoDoubleClaim == \A n \in 0..MaxArmed : claims[n] <= 1

\* A claim never takes an automation that is paused or deleted at that moment,
\* and it never brings one back to life.
PausedStaysQuiet == [][claims' # claims => row.state = "active"]_vars

\* An active automation whose rule has occurrences to come has a next run,
\* unless a request overwrote changes it had not seen.
NotStranded ==
    row.state = "active" /\ row.next = Never /\ ~raced => NextRun(row.rule) = Never

\* An execution leaves at most one outcome, and "success" only if the
\* completion was started, whatever raises in between.
OutcomeHonest ==
    \A j \in Job : /\ Cardinality(ran[j]) <= 1
                   /\ "success" \in ran[j] => j \in started

\* A due automation is claimed (or changed) although instances crash and
\* claims fail: skipping locked rows never leaves one to nobody.
DueClaimed == ("automations" \in enabled /\ Due) ~> (~Due \/ \A i \in Instance : pc[i] = "down")

\* Alerts are sent once by each instance; a crash or failed mark costs one
\* more, and an update of the event that loses the mark costs one per instance.
AlertsBounded == alerts <= Cardinality(Instance) * (1 + Cardinality(Edit)) + faults
=============================================================================
