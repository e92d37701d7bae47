---------------------------- MODULE MCCompletion ----------------------------
(* A finite instance of Completion.                                          *)
EXTENDS Completion

\* The model makes three calls; 8 and 9 were made by earlier runs.
MCCall == {1, 2, 3, 8, 9}
MCDelegate == {2}

\* Nothing; a call that was stopped, and one of a later run that has its
\* result; code that was stopped before it ran.
MCLeft == {<<>>, <<CallItem(8), CallItem(9), Result(9)>>, <<Text, Code>>}
=============================================================================
