----------------------------- MODULE GraphArchive -----------------------------
(* What the append-only derived graphs promise their readers (docs/07): a    *)
(* graph appears whole, at once, stays as it is, and only goes when an       *)
(* operator drops it.                                                        *)
CONSTANTS Graph, Content, Nothing

VARIABLE store

Put(g, c) == /\ store[g] = Nothing
             /\ store' = [store EXCEPT ![g] = c]
Drop(g) == store' = [store EXCEPT ![g] = Nothing]

ArchiveInit == store = [g \in Graph |-> Nothing]
ArchiveNext == \E g \in Graph : Drop(g) \/ \E c \in Content : Put(g, c)
ArchiveSpec == ArchiveInit /\ [][ArchiveNext]_store
=============================================================================
