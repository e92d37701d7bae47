---------------------------- MODULE MCScheduler -----------------------------
(* A finite instance of Scheduler.                                           *)
EXTENDS Scheduler

CONSTANTS i1, i2, q1, e1, daily, once
MCInstance == {i1, i2}
MCRequest == {q1}
MCEdit == {e1}
MCRule == {daily, once}
MCOccurs == [r \in MCRule |-> IF r = daily THEN 1..Horizon ELSE {1}]
MCEnabled == {{"automations"}, {"calendar"}}

\* Bounds of the instance: instances are interchangeable, so that the one fault
\* of a behaviour, if it is one of an instance, is one of i1; and so is the
\* execution that fails, for executions do not know of each other.
MCNext ==
    /\ Next
    /\ faults' # faults => pc'[i2] = pc[i2]
    /\ \A n \in 0..MaxArmed : job'[<<i2, n>>] # "failed"
MCSpec == Init /\ [][MCNext]_vars /\ Fairness
=============================================================================
