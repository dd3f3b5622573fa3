------------------------------ MODULE JobQueue ------------------------------
(***************************************************************************)
(* What the kernel work queue promises to the code that defers work to it: *)
(* a bounded first-in first-out queue of jobs.  Every job that is posted   *)
(* is run once, in the order of the posts, and its procedure is called     *)
(* with the values that were posted.  A post that finds the queue full     *)
(* reboots the machine (workQPanic), which forgets everything.             *)
(*                                                                         *)
(* Jobs are numbered 1, 2, 3 ... in the order in which they are posted, so *)
(* a job is identified by its number and "the values that were posted" are *)
(* the number itself.                                                      *)
(***************************************************************************)
EXTENDS Naturals

CONSTANT Capacity      \* how many posted jobs can wait, a positive number

VARIABLES
    posted,            \* how many jobs were posted since the last reboot
    called,            \* how many of them have been called
    ran                \* the job called last, 0 before the first call

jobVars == <<posted, called, ran>>

JobInit == posted = 0 /\ called = 0 /\ ran = 0

Post ==
    /\ posted - called < Capacity
    /\ posted' = posted + 1
    /\ UNCHANGED <<called, ran>>

\* The oldest job that was not called yet, and no other, is called.
Run ==
    /\ called < posted
    /\ called' = called + 1
    /\ ran' = called + 1
    /\ UNCHANGED posted

Restart == posted' = 0 /\ called' = 0 /\ ran' = 0

JobNext == Post \/ Run \/ Restart

JobSpec == JobInit /\ [][JobNext]_jobVars
=============================================================================
