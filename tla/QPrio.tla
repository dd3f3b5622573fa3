------------------------------- MODULE QPrio --------------------------------
(***************************************************************************)
(* The queue classes the kernel uses, as operators on sequences: priority  *)
(* lists (src/util/qPrioLib.c), the bitmap queue of the ready tasks        *)
(* (src/util/qPriBmpLib.c) and first-in first-out lists                    *)
(* (src/util/qFifoLib.c).  A node is any value, and key[n] is its key.     *)
(***************************************************************************)
EXTENDS Naturals, Sequences

\* q with n inserted so that it becomes element i.
InsertAsNth(q, i, n) == SubSeq(q, 1, i - 1) \o <<n>> \o SubSeq(q, i, Len(q))

QFirst(q, none) == IF q = <<>> THEN none ELSE Head(q)

Elements(q) == {q[i] : i \in DOMAIN q}

\* In front of the first node with a greater key, so behind its equals.
QPrioPut(q, n, key) ==
    LET later == {i \in DOMAIN q : key[n] < key[q[i]]}
    IN  IF later = {} THEN Append(q, n)
        ELSE InsertAsNth(q, CHOOSE i \in later : \A j \in later : i <= j, n)

\* n leaves q, in which it is once or not at all.
QRemove(q, n) ==
    IF n \notin Elements(q) THEN q
    ELSE LET i == CHOOSE j \in DOMAIN q : q[j] = n
         IN  SubSeq(q, 1, i - 1) \o SubSeq(q, i + 1, Len(q))

\* A node that still fits between its neighbours stays where it is.  key is
\* the new assignment of keys.
QPrioMove(q, n, key) ==
    LET i == CHOOSE j \in DOMAIN q : q[j] = n
        fits == /\ i > 1      => key[n] >= key[q[i - 1]]
                /\ i < Len(q) => key[n] <= key[q[i + 1]]
    IN  IF fits THEN q ELSE QPrioPut(QRemove(q, n), n, key)

\* The bitmap queue has one list for each key: a node that moves always goes
\* to the end of the list of its new key.
QPriBmpPut(q, n, key)  == QPrioPut(q, n, key)
QPriBmpMove(q, n, key) == QPriBmpPut(QRemove(q, n), n, key)

QSorted(q, key) == \A i, j \in DOMAIN q : i <= j => key[q[i]] <= key[q[j]]
=============================================================================
