------------------------------- MODULE MCVmx --------------------------------
(***************************************************************************)
(* Values for the constants of Vmx: few tasks, one or two semaphores, and  *)
(* for each run the calls whose interplay it is about.                     *)
(***************************************************************************)
EXTENDS Vmx, TLC

CONSTANTS a, b, c, sem

\* a is the most urgent task, b and c share a priority.
Urgent == [t \in Tasks |-> IF t = a THEN 1 ELSE 2]
\* All tasks have the same priority.
Equal == [t \in Tasks |-> 1]

None == {}
All  == Sems

Binary   == [x \in Sems |-> "binary"]
Counting == [x \in Sems |-> "counting"]
Mutex    == [x \in Sems |-> "mutex"]
\* b and c have the same calls and the same priority to begin with.
Interchangeable == Permutations({b, c})
=============================================================================
