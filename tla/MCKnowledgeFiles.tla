-------------------------- MODULE MCKnowledgeFiles --------------------------
(* A finite instance of KnowledgeFiles.                                      *)
EXTENDS KnowledgeFiles

CONSTANTS f1, f2, k1, k2, t1, t2, j1, j2

\* Bounds of the instance: the first request prepares the two that overlap; it
\* leaves f2 and k2 alone (files and bases are interchangeable).
MCNext ==
    /\ Next
    /\ requests' = 1 => file'[f2] = file[f2] /\ \A j \in Job : \A s \in job'[j].todo : s.kb # k2
    /\ requests' = 2 /\ requests = 1 => Quiet
MCSpec == Init /\ [][MCNext]_vars /\ Fairness
=============================================================================
