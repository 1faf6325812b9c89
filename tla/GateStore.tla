------------------------------ MODULE GateStore ------------------------------
(***************************************************************************)
(* What the SHACL ingest gate (src/kg_store/gate.py) reads of a batch and  *)
(* of the store, and the checks it runs, as operators without state.       *)
(*                                                                         *)
(* RDF content is a record with one field per property that decides        *)
(* anything: the values a subject holds for it, a set because nothing in a *)
(* triple store makes a property single-valued.  The store and a batch are *)
(* values of the same type, and writing is their union.  Three fields are  *)
(* object properties ("relations"): ofAsset stands for membershipAsset,    *)
(* tickerHistoryAsset and positionAsset, supersededBy is itself, link      *)
(* stands for every other one (hasScoreObservation, triggeredVeto, ...).   *)
(***************************************************************************)
EXTENDS Integers, FiniteSets

CONSTANTS Ind,     (* the individuals, by IRI                               *)
          Date,    (* calendar dates (xsd:date, parsed)                     *)
          Label,   (* values of :itemLabel                                  *)
          Graph,   (* the named graphs check_target accepts                 *)
          Mutable  (* MUTABLE_GRAPHS: urn:graph:portfolio:current           *)

ASSUME ConstantsAssumption ==
  /\ Date \subseteq Int
  /\ Mutable \subseteq Graph

(* The classes that differ to the gate; "Asset" also stands for the leaf    *)
(* classes no closing, restatement or valid-time shape is about, and        *)
(* "PerRunWeightScheme" for an AttractivenessWeightScheme with a cycleDate. *)
Inclusive == {"UniverseMembership", "TickerHistory"}
ClosedByValidTo ==
  Inclusive \cup {"PortfolioPosition", "RuleDefinition", "AttractivenessWeightScheme"}
Leaf == ClosedByValidTo \cup {"Veto", "SECFilingSection", "PerRunWeightScheme", "Asset"}
Class == Leaf \cup {"ObservationSnapshot"}

Content ==
  [type : [Ind -> SUBSET Class],
   validFrom : [Ind -> SUBSET Date], validTo : [Ind -> SUBSET Date],
   raisedOn : [Ind -> SUBSET Date], clearedOn : [Ind -> SUBSET Date],
   lastSeenOn : [Ind -> SUBSET Date],
   ofAsset : [Ind -> SUBSET Ind], supersededBy : [Ind -> SUBSET Ind],
   link : [Ind -> SUBSET Ind], itemLabel : [Ind -> SUBSET Label]]

NoValue == [s \in Ind |-> {}]
Nothing ==
  [type |-> NoValue, validFrom |-> NoValue, validTo |-> NoValue,
   raisedOn |-> NoValue, clearedOn |-> NoValue, lastSeenOn |-> NoValue,
   ofAsset |-> NoValue, supersededBy |-> NoValue, link |-> NoValue,
   itemLabel |-> NoValue]

(* Slips: each "...Slip" operator is a plausible mistake in the one below   *)
(* it; the README says which property notices.                              *)
Both(f, g) == [s \in Ind |-> f[s] \cup g[s]]
Merge(a, b) ==
  [type |-> Both(a.type, b.type),
   validFrom |-> Both(a.validFrom, b.validFrom),
   validTo |-> Both(a.validTo, b.validTo),
   raisedOn |-> Both(a.raisedOn, b.raisedOn),
   clearedOn |-> Both(a.clearedOn, b.clearedOn),
   lastSeenOn |-> Both(a.lastSeenOn, b.lastSeenOn),
   ofAsset |-> Both(a.ofAsset, b.ofAsset),
   supersededBy |-> Both(a.supersededBy, b.supersededBy),
   link |-> Both(a.link, b.link),
   itemLabel |-> Both(a.itemLabel, b.itemLabel)]

(* The store's statements with their subject in S.                          *)
Only(f, S) == [s \in Ind |-> IF s \in S THEN f[s] ELSE {}]
About(c, S) ==
  [type |-> Only(c.type, S), validFrom |-> Only(c.validFrom, S),
   validTo |-> Only(c.validTo, S), raisedOn |-> Only(c.raisedOn, S),
   clearedOn |-> Only(c.clearedOn, S), lastSeenOn |-> Only(c.lastSeenOn, S),
   ofAsset |-> Only(c.ofAsset, S), supersededBy |-> Only(c.supersededBy, S),
   link |-> Only(c.link, S), itemLabel |-> Only(c.itemLabel, S)]

One(S) == \E x \in S : S = {x}
AtMostOne(S) == \A x \in S : S = {x}

Typed(b) == {s \in Ind : b.type[s] # {}}
Relations(b, s) == b.ofAsset[s] \cup b.supersededBy[s] \cup b.link[s]
Holds(c, s) ==
  \/ c.type[s] # {} \/ c.validFrom[s] # {} \/ c.validTo[s] # {}
  \/ c.raisedOn[s] # {} \/ c.clearedOn[s] # {} \/ c.lastSeenOn[s] # {}
  \/ Relations(c, s) # {} \/ c.itemLabel[s] # {}

-----------------------------------------------------------------------------
(* Checks 3 and 4: leaf classes only; an untyped subject gets relations and *)
(* closing or sighting dates, nothing else.                                 *)
KnownTypes(b) == \A s \in Ind : b.type[s] \subseteq Leaf
NoStrayWrites(b) ==
  \A s \in Ind \ Typed(b) :
     b.validFrom[s] = {} /\ b.raisedOn[s] = {} /\ b.itemLabel[s] = {}

(* Check 8, the half the batch decides.  _other_label compares labels only  *)
(* when both sections have one; of several in a batch rdflib picks any.     *)
SameItem(old, new) == old = {} \/ new = {} \/ old \cap new # {}
NoLoop(next) ==
  \A C \in SUBSET Ind : C # {} => \E s \in C : next[s] \cap C = {}
ReplacementOKSlip(b, s, n) == n # s /\ b.supersededBy[s] = {n}
ReplacementOK(b, s, n) ==
  /\ n # s
  /\ b.supersededBy[s] = {n}
  /\ "SECFilingSection" \in b.type[n]
  /\ s \in Typed(b) => /\ "SECFilingSection" \in b.type[s]
                       /\ SameItem(b.itemLabel[s], b.itemLabel[n])
RestatementsOK(b) ==
  /\ \A s \in Ind : \A n \in b.supersededBy[s] : ReplacementOK(b, s, n)
  /\ \A s, t \in Ind : b.supersededBy[s] \cap b.supersededBy[t] # {} => s = t
  /\ NoLoop(b.supersededBy)

(* Check 5: shapes.ttl on the batch beside what the store holds about the   *)
(* individuals it points at.  PortfolioPositionShape, RuleDefinitionShape   *)
(* and AttractivenessWeightSchemeShape do not relate validTo to validFrom.  *)
References(b) == {o \in Ind \ Typed(b) : \E s \in Ind : o \in Relations(b, s)}
VetoShape(d, s) ==
  /\ One(d.raisedOn[s])
  /\ AtMostOne(d.clearedOn[s])
  /\ \A r \in d.raisedOn[s] : /\ \A c \in d.clearedOn[s] : r < c
                              /\ \A l \in d.lastSeenOn[s] : r <= l
  /\ \A l \in d.lastSeenOn[s], c \in d.clearedOn[s] : l <= c
AssetOf(d, s) ==
  /\ AtMostOne(d.ofAsset[s])
  /\ \A a \in d.ofAsset[s] : "Asset" \in d.type[a]
IntervalShape(d, s) ==
  /\ AtMostOne(d.validTo[s])
  /\ \A o \in d.validFrom[s], e \in d.validTo[s] : o <= e
Conforms(d, s) ==
  LET T == d.type[s]
  IN  /\ "Veto" \in T => VetoShape(d, s)
      /\ T \cap ClosedByValidTo # {} => One(d.validFrom[s])
      /\ T \cap Inclusive # {} => IntervalShape(d, s) /\ AssetOf(d, s)
      /\ "UniverseMembership" \in T => d.ofAsset[s] # {}
      /\ "PortfolioPosition" \in T => One(d.ofAsset[s])
      /\ "PerRunWeightScheme" \in T => d.validFrom[s] = {} /\ d.validTo[s] = {}
ShapesOK(st, b) ==
  LET data == Merge(b, About(st, References(b)))
  IN  \A s \in Ind : Conforms(data, s)

(* validate's checks that need no store, in the order it runs them.         *)
StoreFreeOK(b) ==
  /\ \E s \in Ind : Holds(b, s)
  /\ KnownTypes(b)
  /\ NoStrayWrites(b)
  /\ RestatementsOK(b)

-----------------------------------------------------------------------------
(* Check 7.  DateOrder is _date_order: two stored openings refuse, none     *)
(* passes, one must precede (inclusive intervals: not follow) the closing.  *)
DateOrder(d, began, inclusive) ==
  \A o \in began : began = {o} /\ (o < d \/ (inclusive /\ o = d))
CanCloseSlip(st, s, d) ==
  st.type[s] \cap ClosedByValidTo # {} /\ st.validTo[s] = {}
CanClose(st, s, d) ==
  /\ st.type[s] \cap ClosedByValidTo # {}
  /\ "PerRunWeightScheme" \notin st.type[s]
  /\ st.validTo[s] = {}
  /\ DateOrder(d, st.validFrom[s], st.type[s] \cap Inclusive # {})
CanClearSlip(st, s, d) ==
  "Veto" \in st.type[s] /\ st.clearedOn[s] = {} /\ DateOrder(d, st.raisedOn[s], FALSE)
CanClear(st, s, d) ==
  /\ "Veto" \in st.type[s]
  /\ st.clearedOn[s] = {}
  /\ DateOrder(d, st.raisedOn[s], FALSE)
  /\ \A l \in st.lastSeenOn[s] : l <= d
CanSightSlip(st, s, d, ends) ==
  /\ "Veto" \in st.type[s] /\ st.clearedOn[s] = {}
  /\ DateOrder(d, st.raisedOn[s], TRUE)
  /\ \A l \in st.lastSeenOn[s] : l <= d
CanSightClearedSlip(st, s, d, ends) ==
  /\ "Veto" \in st.type[s]
  /\ DateOrder(d, st.raisedOn[s], TRUE)
  /\ \A l \in st.lastSeenOn[s] : l < d
CanSight(st, s, d, ends) ==
  /\ "Veto" \in st.type[s]
  /\ st.clearedOn[s] = {}
  /\ DateOrder(d, st.raisedOn[s], TRUE)
  /\ \A l \in st.lastSeenOn[s] : l < d
  /\ \A e \in ends : d <= e
ClosuresOK(st, b) ==
  \A s \in Ind \ Typed(b) :
     /\ \A d \in b.validTo[s] : b.validTo[s] = {d} /\ CanClose(st, s, d)
     /\ \A d \in b.clearedOn[s] : b.clearedOn[s] = {d} /\ CanClear(st, s, d)
     /\ \A d \in b.lastSeenOn[s] :
           b.lastSeenOn[s] = {d} /\ CanSight(st, s, d, b.clearedOn[s])

(* Check 8, the half the store decides, for the sections the batch restates *)
(* without declaring them.                                                  *)
SupersessionsOKSlip(st, b) ==
  \A s \in Ind \ Typed(b) : \A n \in b.supersededBy[s] :
     "SECFilingSection" \in st.type[s] /\ SameItem(st.itemLabel[s], b.itemLabel[n])
SupersessionsOK(st, b) ==
  \A s \in Ind \ Typed(b) : \A n \in b.supersededBy[s] :
     /\ "SECFilingSection" \in st.type[s]
     /\ st.supersededBy[s] = {}
     /\ AtMostOne(st.itemLabel[s])
     /\ SameItem(st.itemLabel[s], b.itemLabel[n])

(* Check 6: existing_subjects finds none of the typed individuals.          *)
AllNew(st, b) == \A s \in Typed(b) : ~Holds(st, s)

(* Check 2: an append-only graph holds nothing yet.                         *)
GraphFreeSlip(graphs, g) == TRUE
GraphFree(graphs, g) == g \in Mutable \/ g \notin graphs

(* gate.plan after validate's store-free half: the shapes with their        *)
(* context, the graph, the closing and restating state, the new individuals.*)
StoreOK(st, graphs, g, b) ==
  /\ GraphFree(graphs, g)
  /\ AllNew(st, b)
  /\ ClosuresOK(st, b)
  /\ SupersessionsOK(st, b)
  /\ ShapesOK(st, b)
=============================================================================
