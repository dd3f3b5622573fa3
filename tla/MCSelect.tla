------------------------------ MODULE MCSelect ------------------------------
(***************************************************************************)
(* Instances of Select: a pipe, and a descriptor whose driver has no       *)
(* FIOSELECT.                                                              *)
(***************************************************************************)
EXTENDS Select

CONSTANTS a, b, c, pipe, disk

Read(d)  == <<"read", d>>
Write(d) == <<"write", d>>

Forever(fds)  == [fds |-> fds, timed |-> FALSE]
AtMost(fds) == [fds |-> fds, timed |-> TRUE]

\* A reader, a writer that gives up some time, and a call that fails.
Some == {Forever(<<Read(pipe)>>), AtMost(<<Write(pipe)>>),
         Forever(<<Read(pipe), Write(disk)>>)}
=============================================================================
