------------------------------- MODULE Lists --------------------------------
(***************************************************************************)
(* The doubly linked lists of include/lib/list.h, as the timers and the    *)
(* runqueues use them: a list is the sequence of its nodes.  SequencesExt  *)
(* is not extended here: it brings Bags into scope, and with it tlapm      *)
(* takes twenty times as long for every proof about lists.                 *)
(***************************************************************************)
EXTENDS Integers, Sequences, FiniteSetsExt

\* list_del: the nodes before and after place i, joined.
RemovePlace(l, i) == SubSeq(l, 1, i - 1) \o SubSeq(l, i + 1, Len(l))

\* list_del_init: a node that is in no list points to itself and stays there.
Unlink(l, t) ==
    IF t \in Range(l) THEN RemovePlace(l, CHOOSE i \in DOMAIN l : l[i] = t) ELSE l

\* list_add_node: t between the nodes before place i and the others.
AddAtPlace(l, i, t) == SubSeq(l, 1, i - 1) \o <<t>> \o SubSeq(l, i, Len(l))

\* A list_for_each loop that adds t before the first node it stops at, with
\* stop the places of those nodes; t becomes the last one if there is none.
InsertBefore(l, stop, t) ==
    LET at == CHOOSE k \in stop \cup {Len(l) + 1} : \A j \in stop : k <= j
    IN  AddAtPlace(l, at, t)

\* The orders in which a loop over a list can meet the members of S.
Orders(S) ==
    {o \in UNION {[1 .. n -> S] : n \in 0 .. Cardinality(S)} :
        IsInjective(o) /\ Range(o) = S}

=============================================================================
