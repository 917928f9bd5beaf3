-------------------------------- MODULE List --------------------------------
(***************************************************************************)
(* The linked lists of core/list.c, which hold the clients of the server,  *)
(* their objects and observations and the transactions of both sides.  A   *)
(* list is the sequence of the identifiers of its nodes.  Each operation   *)
(* walks from the head to the first node it must not pass; `Walked` counts *)
(* the nodes passed.                                                       *)
(***************************************************************************)
EXTENDS SequencesExt, Integers

CONSTANT IdSpace    \* identifiers are uint16_t: 65536

ASSUME IdSpaceAssumption == IdSpace \in Nat \ {0}

Identifiers == 0..(IdSpace - 1)

\* What every list is, if nothing but these operations changes it.
Sorted(l) == \A i, j \in DOMAIN l : i < j => l[i] < l[j]

\* Where a walk may end: at the end of the list, or before a node that is
\* not below id.  The first `from` nodes are passed without a look.
Stops(l, from, id) == {k \in from..Len(l) : k = Len(l) \/ l[k + 1] >= id}

Walked(l, from, id) == Min(Stops(l, from, id))

\* Variant: every node is put in front.
ListAddFirst(l, id) == <<id>> \o l

\* lwm2m_list_add.
ListAdd(l, id) ==
    IF l = <<>> \/ l[1] > id THEN InsertAt(l, 1, id)
    ELSE InsertAt(l, Walked(l, 1, id) + 1, id)

\* lwm2m_list_find: is there a node?
ListFind(l, id) ==
    LET k == Walked(l, 0, id)
    IN  k < Len(l) /\ l[k + 1] = id

\* lwm2m_list_remove.
ListRemove(l, id) ==
    IF l = <<>> THEN l
    ELSE IF l[1] = id THEN RemoveAt(l, 1)
    ELSE LET k == Walked(l, 1, id)
         IN  IF k < Len(l) /\ l[k + 1] = id THEN RemoveAt(l, k + 1) ELSE l

\* Where the walk of lwm2m_list_newId may end: node k + 1 is not number k.
Gaps(l) == {k \in 0..Len(l) : k = Len(l) \/ l[k + 1] # k}

\* lwm2m_list_newId, in 16 bits.
ListNewId(l) == Min(Gaps(l)) % IdSpace
=============================================================================
