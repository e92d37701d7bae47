---------------------------- MODULE MCYdocStore -----------------------------
(* Finite instances of YdocStore.                                            *)
EXTENDS YdocStore, TLC

CONSTANTS s1, s2, s3, e1, e2, e3

OneEach == [e \in Edit |-> CASE e = e1 -> s1 [] e = e2 -> s2 [] OTHER -> s3]

\* On the in-memory store two sessions that may go at any time, or three that
\* wait for the answer to their join; two with Redis.
MCModes == {[sessions |-> {s1, s2}, redis |-> FALSE, may |-> {"leave", "early", "reap"}],
            [sessions |-> Session, redis |-> FALSE, may |-> {"leave"}],
            [sessions |-> {s1, s2}, redis |-> TRUE, may |-> {"leave"}]}

\* Bound of the instance: with Redis, one of the two goes by disconnecting only.
MCNext == Next /\ (Redis => out'[s2]["leave"] = "no")
MCSpec == Init /\ [][MCNext]_vars
=============================================================================
