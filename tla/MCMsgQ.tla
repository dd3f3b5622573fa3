------------------------------- MODULE MCMsgQ -------------------------------
(***************************************************************************)
(* Values for the constants of MsgQ: a is the most urgent task, b and c    *)
(* share a priority.  Nodes, contents and the tasks b and c are            *)
(* interchangeable: no definition tells them apart.                        *)
(***************************************************************************)
EXTENDS MsgQ, TLC

CONSTANTS a, b, c

Urgent == [t \in Tasks |-> IF t = a THEN 1 ELSE 2]
None == {}
Interchangeable == Permutations(Nodes) \cup Permutations(Data)
                     \cup Permutations({b, c})
=============================================================================
