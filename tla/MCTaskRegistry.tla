--------------------------- MODULE MCTaskRegistry ---------------------------
(* A finite instance of TaskRegistry: two tasks of one chat, the internal    *)
(* chat of a delegation.  t1 completes a message of the user there, t2 is    *)
(* the delegated run, which leaves its registration to the done callback.    *)
EXTENDS TaskRegistry, TLC

CONSTANTS i1, i2, t1, t2, chat

SameItem == t1 :> chat @@ t2 :> chat

\* Bounds of the instance: one task at a time is being stopped, and one thing
\* fails, a listener only where t1 runs.
Stopping == {t \in Task : cleaner[t]["stop"] # "idle" \/ \E i \in Instance : t \in mailbox[i]}
Failures == {t \in Task : creator[t] = "failed"} \cup {i \in Instance : ~listening[i]}
            \cup {x \in Task \X Cause : x[2] \in cut[x[1]]}
MCNext ==
    /\ Next
    /\ Cardinality(Stopping') <= 1 /\ Cardinality(Failures') <= 1
    /\ \A i \in Instance : up'[i] => listening'[i] \/ i = owner[t1]
MCSpec == Init /\ [][MCNext]_vars

\* Instances are interchangeable.
Symmetry == Permutations(Instance)
=============================================================================
