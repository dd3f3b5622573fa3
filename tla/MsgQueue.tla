------------------------------ MODULE MsgQueue ------------------------------
(***************************************************************************)
(* What a message queue promises to its users: a bounded queue of          *)
(* messages.  An urgent message overtakes all that wait, the others keep   *)
(* their order; each message is received by one task, as it was sent; and  *)
(* nothing enters or leaves a queue that was deleted.                      *)
(***************************************************************************)
EXTENDS Naturals, Sequences

CONSTANTS
    Receivers,
    Messages,    \* records with a field urgent
    Capacity,
    NULL

VARIABLES
    queue,       \* the messages that wait
    got,         \* the message each receiver has got and not returned yet
    valid        \* the queue was not deleted

msgVars == <<queue, got, valid>>

MsgInit == queue = <<>> /\ got = [t \in Receivers |-> NULL] /\ valid = TRUE

Send(m) ==
    /\ valid /\ Len(queue) < Capacity
    /\ queue' = IF m.urgent THEN <<m>> \o queue ELSE Append(queue, m)
    /\ UNCHANGED <<got, valid>>

Receive(t) ==
    /\ valid /\ queue # <<>> /\ got[t] = NULL
    /\ got' = [got EXCEPT ![t] = Head(queue)]
    /\ queue' = Tail(queue)
    /\ UNCHANGED valid

Return(t) ==
    /\ got' = [got EXCEPT ![t] = NULL]
    /\ UNCHANGED <<queue, valid>>

Delete  == valid /\ valid' = FALSE /\ UNCHANGED <<queue, got>>
Discard == ~valid /\ queue # <<>> /\ queue' = Tail(queue) /\ UNCHANGED <<got, valid>>

MsgNext ==
    \/ \E m \in Messages : Send(m)
    \/ \E t \in Receivers : Receive(t) \/ Return(t)
    \/ Delete \/ Discard

MsgSpec == MsgInit /\ [][MsgNext]_msgVars
=============================================================================
