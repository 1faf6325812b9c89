---------------------------- MODULE SnapshotLedger ----------------------------
(* What docs/07 promises of the score graphs: a snapshot is in one graph, of *)
(* its own lane; a FUNDAMENTAL graph is named for the quarter in which its   *)
(* snapshots became usable, any other for a day by which they were; and a    *)
(* graph never changes once it is there.                                    *)
EXTENDS Integers

CONSTANTS Row, Lane, Day,
          LaneOf, Avail,    (* [Row -> Lane], [Row -> Day] (:availableAt)      *)
          QuarterLength

Fundamental == 0
Quarter(d) == d \div QuarterLength
Graph == {<<l, d>> : l \in Lane, d \in Day}   (* lane and quarter, or lane and day *)

Fits(r, g) ==
  /\ g[1] = LaneOf[r]
  /\ IF g[1] = Fundamental THEN g[2] = Quarter(Avail[r]) ELSE Avail[r] <= g[2]

VARIABLE store    (* [Graph -> SUBSET Row] *)

LedgerInit == store = [g \in Graph |-> {}]
Publish(g, R) ==
  /\ R # {} /\ store[g] = {}
  /\ \A r \in R : Fits(r, g) /\ \A h \in Graph : r \notin store[h]
  /\ store' = [store EXCEPT ![g] = R]
LedgerSpec == LedgerInit /\ [][\E g \in Graph, R \in SUBSET Row : Publish(g, R)]_store
=============================================================================
