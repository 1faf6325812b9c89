------------------------------ MODULE IngestGate -----------------------------
(***************************************************************************)
(* gate.ingest run by one caller at a time: plan (every check against the  *)
(* store as it is) and write (append the batch to its graph) with nobody   *)
(* in between.  A refused batch changes nothing, so refusals are stutters. *)
(* This is what the gate promises; GateClients takes plan and write apart. *)
(***************************************************************************)
EXTENDS GateStore

CONSTANT Batches  (* the batches callers may hand to the gate *)

ASSUME BatchesAssumption == Batches \subseteq [graph : Graph, content : Content]

VARIABLES store,   (* the union of all named graphs, as the gate queries it *)
          graphs,  (* the named graphs that hold a statement                *)
          landed   (* history: the batches written so far                   *)

vars == <<store, graphs, landed>>

Init == store = Nothing /\ graphs = {} /\ landed = {}

(* write's db.add: the batch's triples join the store.                      *)
Append(w) ==
  /\ store' = Merge(store, w.content)
  /\ graphs' = graphs \cup {w.graph}
  /\ landed' = landed \cup {w}

(* plan: the batches the gate accepts as the store is now.  validate's own  *)
(* checks do not read the store, so they are decided once per batch.        *)
WellFormed == {w \in Batches : StoreFreeOK(w.content)}
Acceptable == {w \in WellFormed : StoreOK(store, graphs, w.graph, w.content)}

Ingest(w) == w \in Acceptable /\ Append(w)

Next == \E w \in Batches : Ingest(w)

Spec == Init /\ [][Next]_vars

-----------------------------------------------------------------------------
(* Every stored value has its property's type, and no individual has a      *)
(* class outside the ontology's leaves (a typo matches no shape: check 3).  *)
TypeOK ==
  /\ store \in Content
  /\ \A s \in Ind : store.type[s] \subseteq Leaf
  /\ graphs \subseteq Graph
  /\ landed \subseteq Batches

(* The shapes' date rules survive every later closing and sighting, though  *)
(* shapes only ever see the batch: a stored Veto was raised once, cleared   *)
(* at most once and later than raised, and every sighting lies between.     *)
VetoTimeline == \A s \in Ind : "Veto" \in store.type[s] => VetoShape(store, s)

(* A stored UniverseMembership or TickerHistory opened once, closed at most *)
(* once, and not before it opened, whichever batch or graph closed it.      *)
MembershipTimeline ==
  \A s \in Ind : store.type[s] \cap Inclusive # {} =>
                   One(store.validFrom[s]) /\ IntervalShape(store, s)

(* Every membership belongs to an Asset the store holds (check 5 refuses a  *)
(* batch that points at an unknown one, and nothing is ever removed).       *)
MembershipHasAsset ==
  \A s \in Ind : "UniverseMembership" \in store.type[s] =>
                   \E a \in store.ofAsset[s] : "Asset" \in store.type[a]

(* What shapes.ttl says of a UniverseMembership holds of every stored one.  *)
StoredMembershipsConform ==
  \A s \in Ind : "UniverseMembership" \in store.type[s] => Conforms(store, s)

(* Restatements: a pointer goes from a section to a section declared with   *)
(* it; a section is replaced once, replaces once, keeps its item's label,   *)
(* and no set of sections supersedes itself, so every chain has an end.     *)
RestatementChains ==
  /\ \A s \in Ind : \A n \in store.supersededBy[s] :
        /\ store.supersededBy[s] = {n}
        /\ "SECFilingSection" \in store.type[s] \cap store.type[n]
        /\ SameItem(store.itemLabel[s], store.itemLabel[n])
  /\ \A s, t \in Ind : store.supersededBy[s] \cap store.supersededBy[t] # {} => s = t
  /\ NoLoop(store.supersededBy)

(* An append-only graph is the triples of one batch: "an ingest graph is    *)
(* never edited after creation" (check 2).                                  *)
OneBatchPerGraph ==
  \A v, w \in landed : v.graph = w.graph /\ w.graph \notin Mutable => v = w

(* Nothing written is ever lost: every triple of every landed batch, and    *)
(* its graph, are still in the store.                                       *)
Contains(st, b, s) ==
  /\ b.type[s] \subseteq st.type[s]
  /\ b.validTo[s] \subseteq st.validTo[s]
  /\ b.clearedOn[s] \subseteq st.clearedOn[s]
  /\ b.lastSeenOn[s] \subseteq st.lastSeenOn[s]
  /\ b.supersededBy[s] \subseteq st.supersededBy[s]
NothingLost ==
  \A w \in landed : w.graph \in graphs /\ \A s \in Ind : Contains(store, w.content, s)

(* A batch that landed and is sent again (after a lost answer, say) is      *)
(* refused, whatever was written since, if it declares, closes, sights or   *)
(* restates anything; what is accepted twice only repeats relations.        *)
OnlyRelations(b) ==
  \A s \in Ind : /\ b.type[s] = {} /\ b.validTo[s] = {} /\ b.clearedOn[s] = {}
                 /\ b.lastSeenOn[s] = {} /\ b.supersededBy[s] = {}
ReplayRefused ==
  \A w \in landed :
     w \in Acceptable => OnlyRelations(w.content)

(* No batch, in any graph, changes what a stored individual is: its class,  *)
(* label and opening date stay as declared (checks 4 and 6 together).       *)
DeclarationsStand ==
  [][\A s \in Ind : Holds(store, s) =>
       /\ store'.type[s] = store.type[s]
       /\ store'.validFrom[s] = store.validFrom[s]
       /\ store'.raisedOn[s] = store.raisedOn[s]
       /\ store'.itemLabel[s] = store.itemLabel[s]]_vars

(* A closed record stays closed on the same date, a cleared Veto takes no   *)
(* further sighting, and a new sighting follows every earlier one.          *)
ClosedForGood ==
  [][\A s \in Ind :
       /\ store.validTo[s] # {} => store'.validTo[s] = store.validTo[s]
       /\ store.clearedOn[s] # {} => /\ store'.clearedOn[s] = store.clearedOn[s]
                                     /\ store'.lastSeenOn[s] = store.lastSeenOn[s]
       /\ \A new \in store'.lastSeenOn[s] \ store.lastSeenOn[s],
             old \in store.lastSeenOn[s] : old < new]_vars
=============================================================================
