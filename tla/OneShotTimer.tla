---------------------------- MODULE OneShotTimer ----------------------------
(***************************************************************************)
(* What a chat timer promises whoever set it: the status it shows and how  *)
(* often its prompt has entered the chat, with nothing of the servers,     *)
(* claims, locks and jobs that bring it about.  A timer enters the chat    *)
(* once, only after its time, and from no status but the three in which a  *)
(* job may hold it; it is never offered to a server again once it fired.   *)
(* Cancelling may come too late: a cancelled timer may still fire, and one *)
(* that fired may show as cancelled.                                       *)
(***************************************************************************)
EXTENDS Naturals

CONSTANT Timer

VARIABLES
    shown,  \* shown[t]: its status
    due,    \* timers whose time has come
    fired   \* fired[t]: how often its prompt entered the chat

vars == <<shown, due, fired>>

Init ==
    /\ shown = [t \in Timer |-> "none"]
    /\ due = {}
    /\ fired = [t \in Timer |-> 0]

Show(T, status) == shown' = [t \in Timer |-> IF t \in T THEN status ELSE shown[t]]

Arm(t) ==
    /\ shown[t] = "none"
    /\ Show({t}, "pending")
    /\ UNCHANGED <<due, fired>>

Elapse(t) ==
    /\ shown[t] # "none"
    /\ due' = due \cup {t}
    /\ UNCHANGED <<shown, fired>>

\* A server takes what is pending and due, and has not fired.
Take(T) ==
    /\ T \subseteq due
    /\ \A t \in T : shown[t] = "pending" /\ fired[t] = 0
    /\ Show(T, "running")
    /\ UNCHANGED <<due, fired>>

\* What a server took, whatever became of its row in the meantime.
Held(t) == t \in due /\ fired[t] = 0 /\ shown[t] \in {"running", "cancelled", "deleted"}

Fire(t) ==
    /\ Held(t)
    /\ Show({t}, IF shown[t] = "deleted" THEN "deleted" ELSE "completed")
    /\ fired' = [fired EXCEPT ![t] = 1]
    /\ UNCHANGED due

PutBack(t) ==
    /\ Held(t)
    /\ Show({t}, IF shown[t] = "deleted" THEN "deleted" ELSE "pending")
    /\ UNCHANGED <<due, fired>>

Fail(t) ==
    /\ Held(t)
    /\ Show({t}, IF shown[t] = "deleted" THEN "deleted" ELSE "error")
    /\ UNCHANGED <<due, fired>>

Cancel(T) ==
    /\ \A t \in T : shown[t] \notin {"none", "deleted"}
    /\ Show(T, "cancelled")
    /\ UNCHANGED <<due, fired>>

Delete(t) ==
    /\ shown[t] # "none"
    /\ Show({t}, "deleted")
    /\ UNCHANGED <<due, fired>>

Next ==
    \/ \E t \in Timer : Arm(t) \/ Elapse(t) \/ Fire(t) \/ PutBack(t) \/ Fail(t) \/ Delete(t)
    \/ \E T \in SUBSET Timer : Take(T) \/ Cancel(T)

Spec == Init /\ [][Next]_vars
=============================================================================
