---------------------------- MODULE MCChatTimers ----------------------------
(***************************************************************************)
(* What returns to a chat later: timers, in two deployments (PostgreSQL    *)
(* with several instances, and SQLite with one process, whose variables    *)
(* have the prefix "s"), or the results of sub-agents.                     *)
(***************************************************************************)
EXTENDS ChatTimers, Subagents

CONSTANTS
    i1, i2, p1, p2,
    SingleInstance, SplitParent, SplitParentOf, SplitCancellable, SingleLimit,
    SingleClaimId, SingleMayFail,
    b1, b2, f1, f2, u1

ASSUME SingleAssumption ==
    /\ \E only \in SingleInstance : SingleInstance = {only}
    /\ SplitParentOf \in [Timer -> SplitParent]
    /\ SingleLimit \in Nat \ {0}
    /\ SingleClaimId \subseteq Nat \ {0}
    /\ SingleMayFail \subseteq {"context"}

VARIABLES
    part,
    sStatus, sClaim, sDue, sParents, sActive, sClaimer, sCancel, sDoomed, sDeleting,
    sJobs, sDelivered

sVars == <<sStatus, sClaim, sDue, sParents, sActive, sClaimer, sCancel, sDoomed,
           sDeleting, sJobs, sDelivered>>

Sqlite == INSTANCE ChatTimers WITH
    Instance <- SingleInstance, Parent <- SplitParent, ParentOf <- SplitParentOf,
    Cancellable <- SplitCancellable, Limit <- SingleLimit, ClaimId <- SingleClaimId,
    Postgres <- FALSE, MayFail <- SingleMayFail,
    status <- sStatus, claim <- sClaim, due <- sDue, parents <- sParents,
    active <- sActive, claimer <- sClaimer, cancel <- sCancel, doomed <- sDoomed,
    deleting <- sDeleting, jobs <- sJobs, delivered <- sDelivered

\* A turn delegates one task to the background and another to it or to the
\* foreground, or both.
SubagentParts == {"background", "foreground"}
Calls(p) == CASE p = "background" -> {b1, b2}  [] OTHER -> {b1, f1, f2}

BothInit ==
    /\ part \in {"postgres", "sqlite"} \cup SubagentParts
    /\ Init /\ Sqlite!Init /\ SubagentsInit

BothNext ==
    /\ UNCHANGED part
    /\ \/ part = "postgres" /\ Next /\ UNCHANGED <<sVars, subagentsVars>>
       \/ /\ part = "sqlite" /\ Sqlite!Next /\ UNCHANGED <<vars, subagentsVars>>
          /\ sDeleting' \subseteq {p1}  \* bound: the other chat stays
       \/ /\ part \in SubagentParts /\ SubagentsNext /\ UNCHANGED <<vars, sVars>>
          /\ \A d \in Delegation \ Calls(part) : call'[d] = "idle"

\* Before a timer is created or a chat is prompted no action under fairness is
\* enabled, so the parts that are not in use are not obliged to act.
BothSpec ==
    /\ BothInit /\ [][BothNext]_<<part, vars, sVars, subagentsVars>>
    /\ Sqlite!Fairness /\ SubagentsFairness

OneParent == [t \in Timer |-> p1]
Split == [t \in Timer |-> IF t = 1 THEN p1 ELSE p2]

MCDelegation == {b1, b2, f1, f2}
MCIssuerOf == [d \in MCDelegation |-> u1]

\* The single process: one-shot although nothing is locked, and no exit
\* strands a running timer.
SqliteSound == Sqlite!AtMostOnce /\ Sqlite!RunningIsOwned

\* If the chats stay idle, every due timer is resolved.
SqliteResolves == Sqlite!DueIsResolved
=============================================================================
