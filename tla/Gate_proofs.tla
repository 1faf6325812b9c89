----------------------------- MODULE Gate_proofs -----------------------------
(***************************************************************************)
(* Proofs about the ingest gate for every set of individuals, dates,       *)
(* labels, graphs, batches and clients.                                    *)
(*                                                                         *)
(* One caller at a time (IngestGate): a step either declares an individual *)
(* the store does not hold, exactly as the batch gives it, or adds to one  *)
(* it holds what checks 4, 7 and 8 let through; the two step lemmas say    *)
(* so, and every invariant is preserved by splitting on them.              *)
(*                                                                         *)
(* Careful callers (GateClients) implement that gate: a check made for a   *)
(* batch still holds when its POST lands, however late, because nothing    *)
(* independent of the batch that landed meanwhile is visible to the check. *)
(*                                                                         *)
(* Any callers: what a check once saw had landed, and what has landed      *)
(* stays; that alone keeps the dates and chains of singly declared         *)
(* individuals in order.                                                   *)
(***************************************************************************)
EXTENDS GateClients, TLAPS

-----------------------------------------------------------------------------
(* One caller at a time.                                                    *)


(* Merging two contents stays content.                                      *)
LEMMA MergeType ==
  ASSUME NEW c \in Content, NEW d \in Content
  PROVE  Merge(c, d) \in Content
  BY SMTT(30) DEF Merge, Both, Content

(* What a batch adds to a subject it declares: the subject is new, so the   *)
(* store then holds of it exactly what the batch says, which conforms.      *)
LEMMA DeclaredStep ==
  ASSUME NEW w \in Batches, TypeOK, Ingest(w),
         NEW s \in Ind, s \in Typed(w.content)
  PROVE  /\ ~Holds(store, s)
         /\ store'.type[s] = w.content.type[s]
         /\ store'.validFrom[s] = w.content.validFrom[s]
         /\ store'.validTo[s] = w.content.validTo[s]
         /\ store'.raisedOn[s] = w.content.raisedOn[s]
         /\ store'.clearedOn[s] = w.content.clearedOn[s]
         /\ store'.lastSeenOn[s] = w.content.lastSeenOn[s]
         /\ store'.ofAsset[s] = w.content.ofAsset[s]
         /\ store'.supersededBy[s] = w.content.supersededBy[s]
         /\ store'.itemLabel[s] = w.content.itemLabel[s]
<1>1. w.content \in Content /\ store \in Content
  BY BatchesAssumption DEF TypeOK
<1>2. ~Holds(store, s) /\ store' = Merge(store, w.content)
  BY DEF Ingest, Acceptable, StoreOK, AllNew, Append
<1>3. /\ store.type[s] = {} /\ store.validFrom[s] = {} /\ store.validTo[s] = {}
      /\ store.raisedOn[s] = {} /\ store.clearedOn[s] = {}
      /\ store.lastSeenOn[s] = {} /\ store.ofAsset[s] = {}
      /\ store.supersededBy[s] = {} /\ store.itemLabel[s] = {}
  BY <1>2 DEF Holds, Relations
<1>4. QED
  BY <1>1, <1>2, <1>3, SMTT(30) DEF Merge, Both, Content

(* What a batch adds to a subject it does not declare: nothing of what the  *)
(* subject was declared with, and of its dates and pointers only what the   *)
(* stored record can take.                                                  *)
LEMMA UntypedStep ==
  ASSUME NEW w \in Batches, TypeOK, Ingest(w),
         NEW s \in Ind, s \notin Typed(w.content)
  PROVE  LET b == w.content
         IN  /\ store'.type[s] = store.type[s]
             /\ store'.validFrom[s] = store.validFrom[s]
             /\ store'.raisedOn[s] = store.raisedOn[s]
             /\ store'.itemLabel[s] = store.itemLabel[s]
             /\ store'.validTo[s] = store.validTo[s] \cup b.validTo[s]
             /\ store'.clearedOn[s] = store.clearedOn[s] \cup b.clearedOn[s]
             /\ store'.lastSeenOn[s] = store.lastSeenOn[s] \cup b.lastSeenOn[s]
             /\ store'.ofAsset[s] = store.ofAsset[s] \cup b.ofAsset[s]
             /\ store'.supersededBy[s] = store.supersededBy[s] \cup b.supersededBy[s]
             /\ \A d \in b.validTo[s] : b.validTo[s] = {d} /\ CanClose(store, s, d)
             /\ \A d \in b.clearedOn[s] :
                   b.clearedOn[s] = {d} /\ CanClear(store, s, d)
             /\ \A d \in b.lastSeenOn[s] :
                   /\ b.lastSeenOn[s] = {d}
                   /\ CanSight(store, s, d, b.clearedOn[s])
<1> DEFINE b == w.content
<1>1. b \in Content /\ store \in Content
  BY BatchesAssumption DEF TypeOK
<1>2. store' = Merge(store, b) /\ ClosuresOK(store, b) /\ NoStrayWrites(b)
  BY DEF Ingest, Acceptable, WellFormed, StoreFreeOK, StoreOK, Append
<1>3. /\ b.type[s] = {} /\ b.validFrom[s] = {}
      /\ b.raisedOn[s] = {} /\ b.itemLabel[s] = {}
  BY <1>2 DEF Typed, NoStrayWrites
<1>4. /\ \A d \in b.validTo[s] : b.validTo[s] = {d} /\ CanClose(store, s, d)
      /\ \A d \in b.clearedOn[s] : b.clearedOn[s] = {d} /\ CanClear(store, s, d)
      /\ \A d \in b.lastSeenOn[s] :
            b.lastSeenOn[s] = {d} /\ CanSight(store, s, d, b.clearedOn[s])
  BY <1>2 DEF ClosuresOK
<1>5. /\ store'.type[s] = store.type[s] \cup b.type[s]
      /\ store'.validFrom[s] = store.validFrom[s] \cup b.validFrom[s]
      /\ store'.raisedOn[s] = store.raisedOn[s] \cup b.raisedOn[s]
      /\ store'.itemLabel[s] = store.itemLabel[s] \cup b.itemLabel[s]
      /\ store'.validTo[s] = store.validTo[s] \cup b.validTo[s]
      /\ store'.clearedOn[s] = store.clearedOn[s] \cup b.clearedOn[s]
      /\ store'.lastSeenOn[s] = store.lastSeenOn[s] \cup b.lastSeenOn[s]
      /\ store'.ofAsset[s] = store.ofAsset[s] \cup b.ofAsset[s]
      /\ store'.supersededBy[s] = store.supersededBy[s] \cup b.supersededBy[s]
  BY <1>1, <1>2, SMTT(30) DEF Merge, Both, Content
<1>6. QED
  BY <1>3, <1>4, <1>5

(* The shapes a declared subject passes, read on the batch alone: only the  *)
(* class of the asset it points at may come from the store.                 *)
LEMMA BatchConforms ==
  ASSUME NEW st \in Content, NEW b \in Content, ShapesOK(st, b),
         NEW s \in Ind, s \in Typed(b)
  PROVE  /\ "Veto" \in b.type[s] => VetoShape(b, s)
         /\ b.type[s] \cap Inclusive # {} =>
               One(b.validFrom[s]) /\ IntervalShape(b, s)
         /\ "UniverseMembership" \in b.type[s] =>
               \E a \in b.ofAsset[s] : "Asset" \in b.type[a] \cup st.type[a]
<1> DEFINE ref == About(st, References(b))
           data == Merge(b, ref)
<1>1. Conforms(data, s)
  BY DEF ShapesOK
<1>2. s \notin References(b)
  BY DEF References
<1>3. /\ ref.type[s] = {} /\ ref.validFrom[s] = {} /\ ref.validTo[s] = {}
      /\ ref.raisedOn[s] = {} /\ ref.clearedOn[s] = {} /\ ref.lastSeenOn[s] = {}
      /\ ref.ofAsset[s] = {}
      /\ \A a \in Ind : ref.type[a] \subseteq st.type[a]
  BY <1>2 DEF About, Only
<1> HIDE DEF ref
<1>4. /\ data.type[s] = b.type[s] \cup ref.type[s]
      /\ data.validFrom[s] = b.validFrom[s] \cup ref.validFrom[s]
      /\ data.validTo[s] = b.validTo[s] \cup ref.validTo[s]
      /\ data.raisedOn[s] = b.raisedOn[s] \cup ref.raisedOn[s]
      /\ data.clearedOn[s] = b.clearedOn[s] \cup ref.clearedOn[s]
      /\ data.lastSeenOn[s] = b.lastSeenOn[s] \cup ref.lastSeenOn[s]
      /\ data.ofAsset[s] = b.ofAsset[s] \cup ref.ofAsset[s]
      /\ \A a \in Ind : data.type[a] = b.type[a] \cup ref.type[a]
  BY DEF Merge, Both
<1> HIDE DEF data
<1>5. b.ofAsset[s] \subseteq Ind
  BY DEF Content
<1>6. "Veto" \in b.type[s] => VetoShape(b, s)
  BY <1>1, <1>3, <1>4 DEF Conforms, VetoShape
<1>7. b.type[s] \cap Inclusive # {} => One(b.validFrom[s]) /\ IntervalShape(b, s)
  BY <1>1, <1>3, <1>4 DEF Conforms, IntervalShape, ClosedByValidTo
<1>8. "UniverseMembership" \in b.type[s] =>
        \E a \in b.ofAsset[s] : "Asset" \in b.type[a] \cup st.type[a]
  BY <1>1, <1>3, <1>4, <1>5 DEF Conforms, AssetOf, Inclusive
<1>9. QED
  BY <1>6, <1>7, <1>8

(* So what an ingest declares conforms once it is stored.                   *)
LEMMA DeclaredConforms ==
  ASSUME NEW w \in Batches, TypeOK, Ingest(w),
         NEW s \in Ind, s \in Typed(w.content)
  PROVE  LET b == w.content
         IN  /\ "Veto" \in b.type[s] => VetoShape(b, s)
             /\ b.type[s] \cap Inclusive # {} =>
                   One(b.validFrom[s]) /\ IntervalShape(b, s)
             /\ "UniverseMembership" \in b.type[s] =>
                   \E a \in b.ofAsset[s] : "Asset" \in store'.type[a]
<1>1. w.content \in Content /\ store \in Content
  BY BatchesAssumption DEF TypeOK
<1>2. ShapesOK(store, w.content) /\ store' = Merge(store, w.content)
  BY DEF Ingest, Acceptable, StoreOK, Append
<1>3. \A a \in w.content.ofAsset[s] :
         a \in Ind /\ store'.type[a] = store.type[a] \cup w.content.type[a]
  BY <1>1, <1>2 DEF Merge, Both, Content
<1>4. QED
  BY <1>1, <1>2, <1>3, BatchConforms

-----------------------------------------------------------------------------
(* Every stored value has its type and every stored class is a leaf class,  *)
(* because validate refuses any other before the batch is written.          *)
LEMMA TypeStep == ASSUME TypeOK, [Next]_vars PROVE TypeOK'
<1>1. CASE UNCHANGED vars
  BY <1>1 DEF TypeOK, vars
<1>2. ASSUME NEW w \in Batches, Ingest(w) PROVE TypeOK'
  <2>1. w.content \in Content /\ w.graph \in Graph /\ store \in Content
    BY BatchesAssumption DEF TypeOK
  <2>2. store' \in Content /\ landed' \subseteq Batches /\ graphs' \subseteq Graph
    BY <1>2, <2>1, MergeType DEF TypeOK, Ingest, Append
  <2>3. \A s \in Ind : store'.type[s] \subseteq Leaf
    <3>1. TAKE s \in Ind
    <3>2. store'.type[s] = store.type[s] \cup w.content.type[s]
      BY <1>2, <2>1 DEF Ingest, Append, Merge, Both
    <3>3. w.content.type[s] \subseteq Leaf
      BY <1>2 DEF Ingest, Acceptable, WellFormed, StoreFreeOK, KnownTypes
    <3>4. QED
      BY <3>2, <3>3 DEF TypeOK
  <2>4. QED
    BY <2>2, <2>3 DEF TypeOK
<1>3. QED
  BY <1>1, <1>2 DEF Next

(* The store only ever holds values of the types of the properties.            *)
THEOREM TypeCorrect == Spec => []TypeOK
<1>1. Init => TypeOK
  BY DEF Init, TypeOK, Nothing, NoValue, Content
<1>2. QED
  BY <1>1, TypeStep, PTL DEF Spec

(* A Veto's dates stay in order: a declared Veto by its shape, a stored one *)
(* because CanClear and CanSight compare with every date it holds.          *)
LEMMA VetoStep ==
  ASSUME TypeOK, VetoTimeline, NEW w \in Batches, Ingest(w)
  PROVE  VetoTimeline'
<1> SUFFICES ASSUME NEW s \in Ind, "Veto" \in store'.type[s]
             PROVE  VetoShape(store', s)
  BY DEF VetoTimeline, VetoShape
<1> DEFINE b == w.content
<1>1. CASE s \in Typed(b)
  BY <1>1, DeclaredStep, DeclaredConforms DEF VetoShape
<1>2. CASE s \notin Typed(b)
  <2>1. VetoShape(store, s)
    BY <1>2, UntypedStep DEF VetoTimeline
  <2>2. PICK r \in Date : store'.raisedOn[s] = {r} /\ store.raisedOn[s] = {r}
    BY <1>2, <2>1, UntypedStep DEF VetoShape, One, TypeOK, Content
  <2>3. /\ store'.clearedOn[s] = store.clearedOn[s] \cup b.clearedOn[s]
        /\ store'.lastSeenOn[s] = store.lastSeenOn[s] \cup b.lastSeenOn[s]
        /\ \A d \in b.clearedOn[s] : b.clearedOn[s] = {d} /\ CanClear(store, s, d)
        /\ \A d \in b.lastSeenOn[s] :
              b.lastSeenOn[s] = {d} /\ CanSight(store, s, d, b.clearedOn[s])
    BY <1>2, UntypedStep
  <2>4. AtMostOne(store'.clearedOn[s])
    BY <2>1, <2>3 DEF VetoShape, AtMostOne, CanClear
  <2>5. \A c \in store'.clearedOn[s] : r < c
    BY <2>1, <2>2, <2>3 DEF VetoShape, CanClear, DateOrder
  <2>6. \A l \in store'.lastSeenOn[s] : r <= l
    <3>1. b.lastSeenOn[s] \subseteq Date
      BY BatchesAssumption DEF Content
    <3>2. ASSUME NEW l \in b.lastSeenOn[s] PROVE r <= l
      <4>1. r \in Int /\ l \in Int
        BY <3>1, ConstantsAssumption
      <4>2. DateOrder(l, store.raisedOn[s], TRUE)
        BY <2>3 DEF CanSight
      <4>3. r < l \/ r = l
        BY <2>2, <4>2 DEF DateOrder
      <4>4. QED
        BY <4>1, <4>3
    <3>3. QED
      BY <2>1, <2>2, <2>3, <3>2 DEF VetoShape
  <2>7. \A l \in store'.lastSeenOn[s], c \in store'.clearedOn[s] : l <= c
    BY <2>1, <2>3 DEF VetoShape, CanClear, CanSight
  <2>8. QED
    BY <2>2, <2>4, <2>5, <2>6, <2>7 DEF VetoShape, One
<1>3. QED
  BY <1>1, <1>2

(* A membership's interval stays in order: CanClose wants it open and the   *)
(* closing not before the one opening date.                                 *)
LEMMA MembershipStep ==
  ASSUME TypeOK, MembershipTimeline, NEW w \in Batches, Ingest(w)
  PROVE  MembershipTimeline'
<1> SUFFICES ASSUME NEW s \in Ind, store'.type[s] \cap Inclusive # {}
             PROVE  One(store'.validFrom[s]) /\ IntervalShape(store', s)
  BY DEF MembershipTimeline, IntervalShape, One
<1> DEFINE b == w.content
<1>1. CASE s \in Typed(b)
  BY <1>1, DeclaredStep, DeclaredConforms DEF IntervalShape
<1>2. CASE s \notin Typed(b)
  <2>1. One(store.validFrom[s]) /\ IntervalShape(store, s)
    BY <1>2, UntypedStep DEF MembershipTimeline
  <2>2. PICK o \in Date : store'.validFrom[s] = {o} /\ store.validFrom[s] = {o}
    BY <1>2, <2>1, UntypedStep DEF One, TypeOK, Content
  <2>3. /\ store'.validTo[s] = store.validTo[s] \cup b.validTo[s]
        /\ \A d \in b.validTo[s] : b.validTo[s] = {d} /\ CanClose(store, s, d)
    BY <1>2, UntypedStep
  <2>4. AtMostOne(store'.validTo[s])
    BY <2>1, <2>3 DEF IntervalShape, AtMostOne, CanClose
  <2>5. ASSUME NEW d \in b.validTo[s] PROVE o <= d
    <3>1. d \in Int /\ o \in Int
      BY BatchesAssumption, ConstantsAssumption DEF Content
    <3>2. DateOrder(d, {o}, store.type[s] \cap Inclusive # {})
      BY <2>2, <2>3 DEF CanClose
    <3>3. o < d \/ o = d
      BY <3>2 DEF DateOrder
    <3>4. QED
      BY <3>1, <3>3
  <2>6. QED
    BY <2>1, <2>2, <2>3, <2>4, <2>5 DEF IntervalShape, One
<1>3. QED
  BY <1>1, <1>2

(* A membership keeps a stored Asset: declared with one, and stored         *)
(* relations and classes only grow.                                         *)
LEMMA AssetStep ==
  ASSUME TypeOK, MembershipHasAsset, NEW w \in Batches, Ingest(w)
  PROVE  MembershipHasAsset'
<1> SUFFICES ASSUME NEW s \in Ind, "UniverseMembership" \in store'.type[s]
             PROVE  \E a \in store'.ofAsset[s] : "Asset" \in store'.type[a]
  BY DEF MembershipHasAsset
<1>1. CASE s \in Typed(w.content)
  BY <1>1, DeclaredStep, DeclaredConforms
<1>2. CASE s \notin Typed(w.content)
  <2>1. PICK a \in store.ofAsset[s] : "Asset" \in store.type[a]
    BY <1>2, UntypedStep DEF MembershipHasAsset
  <2>2. a \in Ind /\ a \in store'.ofAsset[s]
    BY <1>2, <2>1, UntypedStep DEF TypeOK, Content
  <2>3. Holds(store, a)
    BY <2>1 DEF Holds
  <2>4. a \notin Typed(w.content)
    BY <2>2, <2>3, DeclaredStep
  <2>5. "Asset" \in store'.type[a]
    BY <2>1, <2>2, <2>4, UntypedStep
  <2>6. QED
    BY <2>2, <2>5
<1>3. QED
  BY <1>1, <1>2

(* Stored values only grow and the batch's own values join them.            *)
LEMMA ContainsStep ==
  ASSUME TypeOK, NothingLost, NEW w \in Batches, Ingest(w)
  PROVE  NothingLost'
<1>1. store' = Merge(store, w.content) /\ graphs' = graphs \cup {w.graph}
      /\ landed' = landed \cup {w}
  BY DEF Ingest, Append
<1>2. ASSUME NEW s \in Ind PROVE Contains(store', w.content, s)
  BY <1>1 DEF Contains, Merge, Both
<1>3. ASSUME NEW x \in landed, NEW s \in Ind PROVE Contains(store', x.content, s)
  <2>1. Contains(store, x.content, s)
    BY DEF NothingLost
  <2>2. QED
    BY <1>1, <2>1 DEF Contains, Merge, Both
<1>4. QED
  BY <1>1, <1>2, <1>3 DEF NothingLost, Contains

(* An append-only graph takes a batch only while nothing landed in it.      *)
LEMMA GraphStep ==
  ASSUME NothingLost, OneBatchPerGraph, NEW w \in Batches, Ingest(w)
  PROVE  OneBatchPerGraph'
<1>1. landed' = landed \cup {w} /\ (w.graph \in Mutable \/ w.graph \notin graphs)
  BY DEF Ingest, Acceptable, StoreOK, GraphFree, Append
<1>2. \A x \in landed : x.graph \in graphs
  BY DEF NothingLost
<1>3. QED
  BY <1>1, <1>2 DEF OneBatchPerGraph

(* Whatever landed is contained in the store, so a second acceptance can    *)
(* only concern relations: a declared individual exists, a closed record    *)
(* is closed, a repeated sighting is not later than itself, and a           *)
(* restatement declares its new section.                                    *)
LEMMA ReplayInv == ASSUME TypeOK, NothingLost PROVE ReplayRefused
<1> SUFFICES ASSUME NEW w \in landed, w \in Acceptable, NEW s \in Ind
             PROVE  LET b == w.content
                    IN  /\ b.type[s] = {} /\ b.validTo[s] = {} /\ b.clearedOn[s] = {}
                        /\ b.lastSeenOn[s] = {} /\ b.supersededBy[s] = {}
  BY DEF ReplayRefused, OnlyRelations
<1> DEFINE b == w.content
<1>1. b \in Content
  BY BatchesAssumption DEF TypeOK
<1>2. AllNew(store, b) /\ ClosuresOK(store, b) /\ RestatementsOK(b)
  BY DEF Acceptable, WellFormed, StoreFreeOK, StoreOK
<1>3. \A i \in Ind : Contains(store, b, i)
  BY DEF NothingLost
<1>4. ASSUME NEW i \in Ind PROVE b.type[i] = {}
  <2>1. CASE i \in Typed(b)
    <3>1. b.type[i] # {} /\ ~Holds(store, i)
      BY <1>2, <2>1 DEF AllNew, Typed
    <3>2. QED
      BY <1>3, <3>1 DEF Contains, Holds
  <2>2. QED
    BY <2>1 DEF Typed
<1>5. s \notin Typed(b)
  BY <1>4 DEF Typed
<1>6. b.validTo[s] = {}
  BY <1>2, <1>3, <1>5 DEF ClosuresOK, CanClose, Contains
<1>7. b.clearedOn[s] = {}
  BY <1>2, <1>3, <1>5 DEF ClosuresOK, CanClear, Contains
<1>8. ASSUME NEW d \in b.lastSeenOn[s] PROVE FALSE
  <2>1. d \in Int
    BY <1>1, ConstantsAssumption DEF Content
  <2>2. \A l \in store.lastSeenOn[s] : l < d
    BY <1>2, <1>5 DEF ClosuresOK, CanSight
  <2>3. d \in store.lastSeenOn[s]
    BY <1>3 DEF Contains
  <2>4. QED
    BY <2>1, <2>2, <2>3
<1>9. ASSUME NEW n \in b.supersededBy[s] PROVE FALSE
  <2>1. n \in Ind
    BY <1>1 DEF Content
  <2>2. "SECFilingSection" \in b.type[n]
    BY <1>2 DEF RestatementsOK, ReplacementOK
  <2>3. QED
    BY <1>4, <2>1, <2>2
<1>10. QED
  BY <1>4, <1>6, <1>7, <1>8, <1>9

-----------------------------------------------------------------------------
(* The pointers a batch adds: each leads from one subject, that has none    *)
(* yet, to one section the same batch declares.                             *)
LEMMA PointerStep ==
  ASSUME TypeOK, RestatementChains, NEW w \in Batches, Ingest(w),
         NEW s \in Ind, NEW n \in w.content.supersededBy[s]
  PROVE  LET b == w.content
         IN  /\ n \in Ind /\ n \in Typed(b) /\ n # s
             /\ store'.supersededBy[s] = {n} /\ store.supersededBy[s] = {}
             /\ "SECFilingSection" \in store'.type[s] \cap store'.type[n]
             /\ SameItem(store'.itemLabel[s], store'.itemLabel[n])
<1> DEFINE b == w.content
<1>1. b \in Content
  BY BatchesAssumption
<1>2. RestatementsOK(b) /\ SupersessionsOK(store, b)
  BY DEF Ingest, Acceptable, WellFormed, StoreFreeOK, StoreOK
<1>3. n \in Ind /\ ReplacementOK(b, s, n)
  BY <1>1, <1>2 DEF RestatementsOK, Content
<1>4. n \in Typed(b) /\ "SECFilingSection" \in b.type[n] /\ n # s
      /\ b.supersededBy[s] = {n}
  BY <1>3 DEF ReplacementOK, Typed
<1>5. /\ store'.type[n] = b.type[n]
      /\ store'.itemLabel[n] = b.itemLabel[n]
  BY <1>3, <1>4, DeclaredStep
<1>6. CASE s \in Typed(b)
  <2>1. /\ store'.type[s] = b.type[s] /\ store'.itemLabel[s] = b.itemLabel[s]
        /\ store'.supersededBy[s] = b.supersededBy[s] /\ ~Holds(store, s)
    BY <1>6, DeclaredStep
  <2>2. store.supersededBy[s] = {}
    BY <2>1 DEF Holds, Relations
  <2>3. QED
    BY <1>3, <1>4, <1>5, <1>6, <2>1, <2>2 DEF ReplacementOK
<1>7. CASE s \notin Typed(b)
  <2>1. /\ "SECFilingSection" \in store.type[s]
        /\ store.supersededBy[s] = {}
        /\ SameItem(store.itemLabel[s], b.itemLabel[n])
    BY <1>2, <1>7 DEF SupersessionsOK
  <2>2. /\ store'.type[s] = store.type[s] /\ store'.itemLabel[s] = store.itemLabel[s]
        /\ store'.supersededBy[s] = store.supersededBy[s] \cup b.supersededBy[s]
    BY <1>7, UntypedStep
  <2>3. QED
    BY <1>3, <1>4, <1>5, <2>1, <2>2
<1>8. QED
  BY <1>6, <1>7

(* Every stored pointer is either an old one or one the batch adds.         *)
LEMMA PointerOrigin ==
  ASSUME TypeOK, NEW w \in Batches, Ingest(w), NEW s \in Ind,
         NEW n \in store'.supersededBy[s]
  PROVE  n \in store.supersededBy[s] \/ n \in w.content.supersededBy[s]
<1>1. CASE s \in Typed(w.content)
  BY <1>1, DeclaredStep
<1>2. CASE s \notin Typed(w.content)
  BY <1>2, UntypedStep
<1>3. QED
  BY <1>1, <1>2

(* An old pointer joins two stored sections, which no batch declares again. *)
LEMMA OldPointer ==
  ASSUME TypeOK, RestatementChains, NEW w \in Batches, Ingest(w),
         NEW s \in Ind, NEW n \in store.supersededBy[s]
  PROVE  /\ n \in Ind /\ s \notin Typed(w.content) /\ n \notin Typed(w.content)
         /\ store'.supersededBy[s] = {n}
         /\ "SECFilingSection" \in store'.type[s] \cap store'.type[n]
         /\ SameItem(store'.itemLabel[s], store'.itemLabel[n])
<1>1. /\ store.supersededBy[s] = {n}
      /\ "SECFilingSection" \in store.type[s] \cap store.type[n]
      /\ SameItem(store.itemLabel[s], store.itemLabel[n])
  BY DEF RestatementChains
<1>2. n \in Ind
  BY DEF TypeOK, Content
<1>3. Holds(store, s) /\ Holds(store, n)
  BY <1>1 DEF Holds
<1>4. s \notin Typed(w.content) /\ n \notin Typed(w.content)
  BY <1>2, <1>3, DeclaredStep
<1>5. w.content.supersededBy[s] = {}
  BY <1>1, PointerStep
<1>6. /\ store'.type[s] = store.type[s] /\ store'.type[n] = store.type[n]
      /\ store'.itemLabel[s] = store.itemLabel[s]
      /\ store'.itemLabel[n] = store.itemLabel[n]
      /\ store'.supersededBy[s] = store.supersededBy[s] \cup w.content.supersededBy[s]
  BY <1>2, <1>4, UntypedStep
<1>7. QED
  BY <1>1, <1>2, <1>4, <1>5, <1>6

(* Chains stay chains.  A set of sections that supersedes itself would, if  *)
(* it has a section the batch declares, do so within the batch (pointers    *)
(* lead to declared sections), and otherwise within the old store.          *)
LEMMA ChainStep ==
  ASSUME TypeOK, RestatementChains, NEW w \in Batches, Ingest(w)
  PROVE  RestatementChains'
<1> DEFINE b == w.content
<1>1. ASSUME NEW s \in Ind, NEW n \in store'.supersededBy[s]
      PROVE  /\ store'.supersededBy[s] = {n}
             /\ "SECFilingSection" \in store'.type[s] \cap store'.type[n]
             /\ SameItem(store'.itemLabel[s], store'.itemLabel[n])
  BY <1>1, PointerOrigin, PointerStep, OldPointer
<1>2. ASSUME NEW s \in Ind, NEW t \in Ind,
             NEW n \in store'.supersededBy[s], n \in store'.supersededBy[t]
      PROVE  s = t
  <2>1. CASE n \in store.supersededBy[s] /\ n \in store.supersededBy[t]
    BY <2>1 DEF RestatementChains
  <2>2. CASE n \in b.supersededBy[s] /\ n \in b.supersededBy[t]
    BY <2>2 DEF Ingest, Acceptable, WellFormed, StoreFreeOK, RestatementsOK
  <2>3. ASSUME NEW i \in Ind, NEW j \in Ind,
               n \in store.supersededBy[i], n \in b.supersededBy[j]
        PROVE  FALSE
    BY <2>3, OldPointer, PointerStep
  <2>4. QED
    BY <1>2, <2>1, <2>2, <2>3, PointerOrigin
<1>3. ASSUME NEW C \in SUBSET Ind, C # {},
             \A s \in C : store'.supersededBy[s] \cap C # {}
      PROVE  FALSE
  <2> DEFINE D == C \cap Typed(b)
  <2>1. NoLoop(b.supersededBy) /\ NoLoop(store.supersededBy)
    BY DEF Ingest, Acceptable, WellFormed, StoreFreeOK, RestatementsOK,
           RestatementChains
  <2>2. ASSUME NEW s \in D PROVE b.supersededBy[s] \cap D # {}
    <3>1. PICK n \in C : n \in store'.supersededBy[s]
      BY <1>3
    <3>2. s \in Ind /\ s \in Typed(b)
      BY <2>2
    <3>3. n \in b.supersededBy[s]
      BY <3>1, <3>2, DeclaredStep
    <3>4. n \in Typed(b)
      BY <3>2, <3>3, PointerStep
    <3>5. QED
      BY <3>1, <3>3, <3>4
  <2>3. D = {}
    BY <2>1, <2>2 DEF NoLoop
  <2>4. ASSUME NEW s \in C PROVE store.supersededBy[s] \cap C # {}
    <3>1. PICK n \in C : n \in store'.supersededBy[s]
      BY <1>3
    <3>2. n \notin b.supersededBy[s]
      BY <2>3, <3>1, PointerStep
    <3>3. QED
      BY <3>1, <3>2, PointerOrigin
  <2>5. QED
    BY <1>3, <2>1, <2>4 DEF NoLoop
<1>4. NoLoop(store'.supersededBy)
  BY <1>3 DEF NoLoop
<1>5. QED
  BY <1>1, <1>2, <1>4 DEF RestatementChains, NoLoop
-----------------------------------------------------------------------------
(* The inductive invariant: RestatementChains carries itself, the timelines *)
(* need TypeOK for the dates, one batch per graph needs NothingLost.        *)
IInv ==
  /\ TypeOK
  /\ VetoTimeline
  /\ MembershipTimeline
  /\ MembershipHasAsset
  /\ NothingLost
  /\ OneBatchPerGraph
  /\ RestatementChains

(* The empty store satisfies it.                                            *)
LEMMA InitIInv == Init => IInv
<1> SUFFICES ASSUME Init PROVE IInv
  OBVIOUS
<1>1. /\ store = Nothing /\ graphs = {} /\ landed = {}
      /\ \A s \in Ind : store.type[s] = {} /\ store.supersededBy[s] = {}
  BY DEF Init, Nothing, NoValue
<1>2. TypeOK
  BY <1>1 DEF TypeOK, Nothing, NoValue, Content
<1>3. VetoTimeline /\ MembershipTimeline /\ MembershipHasAsset
  BY <1>1 DEF VetoTimeline, MembershipTimeline, MembershipHasAsset
<1>4. NothingLost /\ OneBatchPerGraph
  BY <1>1 DEF NothingLost, OneBatchPerGraph
<1>5. RestatementChains
  BY <1>1 DEF RestatementChains, NoLoop
<1>6. QED
  BY <1>2, <1>3, <1>4, <1>5 DEF IInv

(* Every ingest and every stutter preserves it.                             *)
LEMMA StepIInv == ASSUME IInv, [Next]_vars PROVE IInv'
<1>1. CASE UNCHANGED vars
  BY <1>1 DEF IInv, vars, TypeOK, VetoTimeline, MembershipTimeline,
              MembershipHasAsset, NothingLost, OneBatchPerGraph,
              RestatementChains, NoLoop, VetoShape, IntervalShape, Contains
<1>2. CASE Next
  <2>1. PICK w \in Batches : Ingest(w)
    BY <1>2 DEF Next
  <2>2. TypeOK'
    BY TypeStep DEF IInv
  <2>3. VetoTimeline' /\ MembershipTimeline' /\ MembershipHasAsset'
    BY <2>1, VetoStep, MembershipStep, AssetStep DEF IInv
  <2>4. NothingLost' /\ OneBatchPerGraph' /\ RestatementChains'
    BY <2>1, ContainsStep, GraphStep, ChainStep DEF IInv
  <2>5. QED
    BY <2>2, <2>3, <2>4 DEF IInv
<1>3. QED
  BY <1>1, <1>2

(* The invariant holds of every reachable state.                               *)
THEOREM Inductive == Spec => []IInv
BY InitIInv, StepIInv, PTL DEF Spec

(* Whatever batches come, in whatever order and graphs, a stored Veto's     *)
(* dates and a stored membership's interval stay in order, and every        *)
(* membership has a stored Asset, though the gate validates a batch and     *)
(* never the store.                                                         *)
THEOREM TimelinesHold == Spec => [](VetoTimeline /\ MembershipTimeline /\ MembershipHasAsset)
<1>1. IInv => VetoTimeline /\ MembershipTimeline /\ MembershipHasAsset
  BY DEF IInv
<1>2. QED
  BY <1>1, Inductive, PTL

(* In particular a Veto's: raised once, cleared after that if at all, every *)
(* sighting in between.                                                     *)
THEOREM VetoesHold == Spec => []VetoTimeline
<1>1. IInv => VetoTimeline
  BY DEF IInv
<1>2. QED
  BY <1>1, Inductive, PTL

(* Restatements of filing sections always form chains.                      *)
THEOREM ChainsHold == Spec => []RestatementChains
<1>1. IInv => RestatementChains
  BY DEF IInv
<1>2. QED
  BY <1>1, Inductive, PTL

(* An append-only graph never holds two batches, and nothing is lost.       *)
THEOREM AppendOnly == Spec => [](OneBatchPerGraph /\ NothingLost)
<1>1. IInv => OneBatchPerGraph /\ NothingLost
  BY DEF IInv
<1>2. QED
  BY <1>1, Inductive, PTL

(* Sending a landed batch again is refused unless all it does is relate.    *)
THEOREM RetriesRefused == Spec => []ReplayRefused
<1>1. IInv => ReplayRefused
  BY ReplayInv DEF IInv
<1>2. QED
  BY <1>1, Inductive, PTL

(* A step leaves what a stored individual was declared with as it was: a    *)
(* batch that declares it again is refused, one that does not cannot        *)
(* address those properties.                                                *)
THEOREM DeclarationsKept == Spec => DeclarationsStand
<1> DEFINE Kept == \A s \in Ind : Holds(store, s) =>
                     /\ store'.type[s] = store.type[s]
                     /\ store'.validFrom[s] = store.validFrom[s]
                     /\ store'.raisedOn[s] = store.raisedOn[s]
                     /\ store'.itemLabel[s] = store.itemLabel[s]
<1>1. TypeOK /\ [Next]_vars => [Kept]_vars
  <2> SUFFICES ASSUME TypeOK, NEW w \in Batches, Ingest(w), NEW s \in Ind,
                      Holds(store, s)
               PROVE  /\ store'.type[s] = store.type[s]
                      /\ store'.validFrom[s] = store.validFrom[s]
                      /\ store'.raisedOn[s] = store.raisedOn[s]
                      /\ store'.itemLabel[s] = store.itemLabel[s]
    BY DEF Next
  <2>1. s \notin Typed(w.content)
    BY DeclaredStep
  <2>2. QED
    BY <2>1, UntypedStep
<1>2. QED
  BY <1>1, TypeCorrect, PTL DEF Spec, DeclarationsStand

(* A step never moves an end date, adds a sighting to a cleared Veto or a   *)
(* sighting that is not later than every stored one.                        *)
THEOREM EndsKept == Spec => ClosedForGood
<1> DEFINE Kept ==
      \A s \in Ind :
         /\ store.validTo[s] # {} => store'.validTo[s] = store.validTo[s]
         /\ store.clearedOn[s] # {} => /\ store'.clearedOn[s] = store.clearedOn[s]
                                       /\ store'.lastSeenOn[s] = store.lastSeenOn[s]
         /\ \A new \in store'.lastSeenOn[s] \ store.lastSeenOn[s],
               old \in store.lastSeenOn[s] : old < new
<1>1. TypeOK /\ [Next]_vars => [Kept]_vars
  <2> SUFFICES ASSUME TypeOK, NEW w \in Batches, Ingest(w) PROVE Kept
    BY DEF Next
  <2> SUFFICES ASSUME NEW s \in Ind
               PROVE  /\ store.validTo[s] # {} => store'.validTo[s] = store.validTo[s]
                      /\ store.clearedOn[s] # {} =>
                            /\ store'.clearedOn[s] = store.clearedOn[s]
                            /\ store'.lastSeenOn[s] = store.lastSeenOn[s]
                      /\ \A new \in store'.lastSeenOn[s] \ store.lastSeenOn[s],
                            old \in store.lastSeenOn[s] : old < new
    OBVIOUS
  <2>1. CASE s \in Typed(w.content)
    BY <2>1, DeclaredStep DEF Holds
  <2>2. CASE s \notin Typed(w.content)
    <3> DEFINE b == w.content
    <3>1. /\ store'.validTo[s] = store.validTo[s] \cup b.validTo[s]
          /\ store'.clearedOn[s] = store.clearedOn[s] \cup b.clearedOn[s]
          /\ store'.lastSeenOn[s] = store.lastSeenOn[s] \cup b.lastSeenOn[s]
          /\ \A d \in b.validTo[s] : store.validTo[s] = {}
          /\ \A d \in b.clearedOn[s] : store.clearedOn[s] = {}
          /\ \A d \in b.lastSeenOn[s] :
                store.clearedOn[s] = {} /\ \A l \in store.lastSeenOn[s] : l < d
      BY <2>2, UntypedStep DEF CanClose, CanClear, CanSight
    <3> HIDE DEF b
    <3>2. store.validTo[s] # {} => store'.validTo[s] = store.validTo[s]
      BY <3>1
    <3>3. store.clearedOn[s] # {} => /\ store'.clearedOn[s] = store.clearedOn[s]
                                     /\ store'.lastSeenOn[s] = store.lastSeenOn[s]
      BY <3>1
    <3>4. \A new \in store'.lastSeenOn[s] \ store.lastSeenOn[s],
             old \in store.lastSeenOn[s] : old < new
      BY <3>1
    <3>5. QED
      BY <3>2, <3>3, <3>4
  <2>3. QED
    BY <2>1, <2>2
<1>2. QED
  BY <1>1, TypeCorrect, PTL DEF Spec, ClosedForGood

-----------------------------------------------------------------------------
(* Careful callers.                                                         *)


(* The fields no independent batch can change for an individual outside     *)
(* Alters: all but link, which no check reads.                              *)
LEMMA Untouched ==
  ASSUME NEW st \in Content, NEW w \in WellFormed,
         NEW s \in Ind, s \notin Alters(w.content)
  PROVE  LET new == Merge(st, w.content)
         IN  /\ new.type[s] = st.type[s]
             /\ new.validFrom[s] = st.validFrom[s] /\ new.validTo[s] = st.validTo[s]
             /\ new.raisedOn[s] = st.raisedOn[s] /\ new.clearedOn[s] = st.clearedOn[s]
             /\ new.lastSeenOn[s] = st.lastSeenOn[s]
             /\ new.ofAsset[s] = st.ofAsset[s]
             /\ new.supersededBy[s] = st.supersededBy[s]
             /\ new.itemLabel[s] = st.itemLabel[s]
<1> DEFINE b == w.content
<1>1. b \in Content /\ NoStrayWrites(b)
  BY BatchesAssumption DEF WellFormed, StoreFreeOK
<1>2. /\ b.type[s] = {} /\ b.validTo[s] = {} /\ b.clearedOn[s] = {}
      /\ b.lastSeenOn[s] = {} /\ b.ofAsset[s] = {} /\ b.supersededBy[s] = {}
  BY DEF Alters, Typed, Closes
<1>3. b.validFrom[s] = {} /\ b.raisedOn[s] = {} /\ b.itemLabel[s] = {}
  BY <1>1, <1>2 DEF NoStrayWrites, Typed
<1> HIDE DEF b
<1>4. LET new == Merge(st, b)
      IN  /\ new.type[s] = st.type[s] \cup b.type[s]
          /\ new.validFrom[s] = st.validFrom[s] \cup b.validFrom[s]
          /\ new.validTo[s] = st.validTo[s] \cup b.validTo[s]
          /\ new.raisedOn[s] = st.raisedOn[s] \cup b.raisedOn[s]
          /\ new.clearedOn[s] = st.clearedOn[s] \cup b.clearedOn[s]
          /\ new.lastSeenOn[s] = st.lastSeenOn[s] \cup b.lastSeenOn[s]
          /\ new.ofAsset[s] = st.ofAsset[s] \cup b.ofAsset[s]
          /\ new.supersededBy[s] = st.supersededBy[s] \cup b.supersededBy[s]
          /\ new.itemLabel[s] = st.itemLabel[s] \cup b.itemLabel[s]
  BY DEF Merge, Both
<1>5. QED
  BY <1>2, <1>3, <1>4 DEF b

(* Check 6 of v does not notice an unseen w: w says nothing of what v       *)
(* declares.                                                                *)
LEMMA NewStays ==
  ASSUME NEW st \in Content, NEW v \in WellFormed, NEW w \in WellFormed,
         Unseen(v, w), AllNew(st, v.content)
  PROVE  AllNew(Merge(st, w.content), v.content)
<1> SUFFICES ASSUME NEW s \in Typed(v.content)
             PROVE  ~Holds(Merge(st, w.content), s)
  BY DEF AllNew
<1>1. s \in Ind /\ ~Holds(st, s) /\ ~Holds(w.content, s)
  BY DEF AllNew, Unseen, Typed
<1>2. QED
  BY <1>1 DEF Holds, Relations, Merge, Both

(* Check 7: w alters no record v ends or sights.                            *)
LEMMA ClosuresStay ==
  ASSUME NEW st \in Content, NEW v \in WellFormed, NEW w \in WellFormed,
         Unseen(v, w), ClosuresOK(st, v.content)
  PROVE  ClosuresOK(Merge(st, w.content), v.content)
<1> DEFINE b == v.content
           new == Merge(st, w.content)
<1> SUFFICES ASSUME NEW s \in Ind \ Typed(b)
             PROVE  /\ \A d \in b.validTo[s] : b.validTo[s] = {d} /\ CanClose(new, s, d)
                    /\ \A d \in b.clearedOn[s] : b.clearedOn[s] = {d} /\ CanClear(new, s, d)
                    /\ \A d \in b.lastSeenOn[s] :
                          b.lastSeenOn[s] = {d} /\ CanSight(new, s, d, b.clearedOn[s])
  BY DEF ClosuresOK
<1>1. /\ \A d \in b.validTo[s] : b.validTo[s] = {d} /\ CanClose(st, s, d)
      /\ \A d \in b.clearedOn[s] : b.clearedOn[s] = {d} /\ CanClear(st, s, d)
      /\ \A d \in b.lastSeenOn[s] :
            b.lastSeenOn[s] = {d} /\ CanSight(st, s, d, b.clearedOn[s])
  BY DEF ClosuresOK
<1>2. CASE Closes(b, s)
  <2>1. s \notin Alters(w.content)
    BY <1>2 DEF Unseen, Alters
  <2>2. /\ new.type[s] = st.type[s] /\ new.validFrom[s] = st.validFrom[s]
        /\ new.validTo[s] = st.validTo[s] /\ new.raisedOn[s] = st.raisedOn[s]
        /\ new.clearedOn[s] = st.clearedOn[s] /\ new.lastSeenOn[s] = st.lastSeenOn[s]
    BY <2>1, Untouched
  <2> HIDE DEF new, b
  <2>3. \A d \in b.validTo[s] : CanClose(new, s, d)
    BY <1>1, <2>2 DEF CanClose
  <2>4. \A d \in b.clearedOn[s] : CanClear(new, s, d)
    BY <1>1, <2>2 DEF CanClear
  <2>5. \A d \in b.lastSeenOn[s] : CanSight(new, s, d, b.clearedOn[s])
    BY <1>1, <2>2 DEF CanSight
  <2>6. QED
    BY <1>1, <2>3, <2>4, <2>5
<1>3. CASE ~Closes(b, s)
  BY <1>3 DEF Closes
<1>4. QED
  BY <1>2, <1>3

(* Check 8: w alters no section v restates.                                 *)
LEMMA SupersessionsStay ==
  ASSUME NEW st \in Content, NEW v \in WellFormed, NEW w \in WellFormed,
         Unseen(v, w), SupersessionsOK(st, v.content)
  PROVE  SupersessionsOK(Merge(st, w.content), v.content)
<1> DEFINE b == v.content
           new == Merge(st, w.content)
<1> SUFFICES ASSUME NEW s \in Ind \ Typed(b), NEW n \in b.supersededBy[s]
             PROVE  /\ "SECFilingSection" \in new.type[s]
                    /\ new.supersededBy[s] = {}
                    /\ AtMostOne(new.itemLabel[s])
                    /\ SameItem(new.itemLabel[s], b.itemLabel[n])
  BY DEF SupersessionsOK
<1>1. s \notin Alters(w.content)
  BY DEF Unseen, Alters
<1>2. /\ new.type[s] = st.type[s] /\ new.supersededBy[s] = st.supersededBy[s]
      /\ new.itemLabel[s] = st.itemLabel[s]
  BY <1>1, Untouched
<1>3. /\ "SECFilingSection" \in st.type[s] /\ st.supersededBy[s] = {}
      /\ AtMostOne(st.itemLabel[s]) /\ SameItem(st.itemLabel[s], b.itemLabel[n])
  BY DEF SupersessionsOK
<1>4. QED
  BY <1>2, <1>3

(* Check 5: w alters no individual whose context v's shapes read.           *)
LEMMA ShapesStay ==
  ASSUME NEW st \in Content, NEW v \in WellFormed, NEW w \in WellFormed,
         Unseen(v, w), ShapesOK(st, v.content)
  PROVE  ShapesOK(Merge(st, w.content), v.content)
<1> DEFINE b == v.content
           new == Merge(st, w.content)
           R == References(b)
           old == Merge(b, About(st, R))
           now == Merge(b, About(new, R))
<1>1. \A s \in Ind : Conforms(old, s)
  BY DEF ShapesOK
<1>2. ASSUME NEW s \in Ind
      PROVE  /\ now.type[s] = old.type[s]
             /\ now.validFrom[s] = old.validFrom[s] /\ now.validTo[s] = old.validTo[s]
             /\ now.raisedOn[s] = old.raisedOn[s] /\ now.clearedOn[s] = old.clearedOn[s]
             /\ now.lastSeenOn[s] = old.lastSeenOn[s] /\ now.ofAsset[s] = old.ofAsset[s]
  <2>1. CASE s \in R
    <3>1. s \notin Alters(w.content)
      BY <2>1 DEF Unseen
    <3>2. /\ new.type[s] = st.type[s] /\ new.validFrom[s] = st.validFrom[s]
          /\ new.validTo[s] = st.validTo[s] /\ new.raisedOn[s] = st.raisedOn[s]
          /\ new.clearedOn[s] = st.clearedOn[s] /\ new.lastSeenOn[s] = st.lastSeenOn[s]
          /\ new.ofAsset[s] = st.ofAsset[s]
      BY <3>1, Untouched
    <3> HIDE DEF new, b, R
    <3>3. QED
      BY <2>1, <3>2 DEF About, Only, Merge, Both
  <2>2. CASE s \notin R
    <3> HIDE DEF new, b, R
    <3>1. QED
      BY <2>2 DEF About, Only, Merge, Both
  <2>3. QED
    BY <2>1, <2>2
<1>3. now.type \in [Ind -> SUBSET Class] /\ old.type \in [Ind -> SUBSET Class]
      /\ old.ofAsset \in [Ind -> SUBSET Ind]
  <2>1. b \in Content /\ new \in Content
    BY BatchesAssumption, MergeType DEF WellFormed
  <2> HIDE DEF new, b, R
  <2>2. About(st, R) \in Content /\ About(new, R) \in Content
    BY <2>1, SMTT(30) DEF About, Only, Content
  <2>3. now \in Content /\ old \in Content
    BY <2>1, <2>2, MergeType
  <2>4. QED
    BY <2>3 DEF Content
<1> HIDE DEF old, now
<1>4. ASSUME NEW s \in Ind PROVE Conforms(now, s)
  <2>1. AssetOf(now, s) <=> AssetOf(old, s)
    BY <1>2, <1>3 DEF AssetOf
  <2>2. VetoShape(now, s) <=> VetoShape(old, s)
    BY <1>2 DEF VetoShape
  <2>3. IntervalShape(now, s) <=> IntervalShape(old, s)
    BY <1>2 DEF IntervalShape
  <2>4. Conforms(old, s)
    BY <1>1
  <2>5. /\ now.type[s] = old.type[s] /\ now.validFrom[s] = old.validFrom[s]
        /\ now.validTo[s] = old.validTo[s] /\ now.ofAsset[s] = old.ofAsset[s]
    BY <1>2
  <2>6. QED
    BY <2>1, <2>2, <2>3, <2>4, <2>5 DEF Conforms
<1>5. QED
  BY <1>4 DEF ShapesOK, now

-----------------------------------------------------------------------------
(* What the checks already made promise about the store as it is now.       *)
Past(step) ==
  CASE step = "graph" -> {"graph", "state", "existing", "planned", "sent"}
    [] step = "state" -> {"state", "existing", "planned", "sent"}
    [] step = "existing" -> {"existing", "planned", "sent"}
    [] OTHER -> {"planned", "sent"}
Promises(st, gs, w, step) ==
  /\ step \in Past("graph") => ShapesOK(st, w.content)
  /\ step \in Past("state") => GraphFree(gs, w.graph)
  /\ step \in Past("existing") => /\ ClosuresOK(st, w.content)
                                  /\ SupersessionsOK(st, w.content)
  /\ step \in Past("planned") => AllNew(st, w.content)

(* The inductive invariant of careful callers: everything in flight is      *)
(* well-formed and independent of everything else in flight, and the store  *)
(* still keeps what it answered.                                            *)
CarefulInv ==
  /\ TypeOK
  /\ pc \in [Client -> Steps \cup {"idle"}]
  /\ batch \in [Client -> Batches \cup {NoBatch}]
  /\ strays \subseteq WellFormed
  /\ \A c \in Busy : batch[c] \in WellFormed
  /\ \A c, d \in Busy : c # d => Independent(batch[c], batch[d])
  /\ \A c \in Busy, v \in strays : Independent(batch[c], v)
  /\ \A v, w \in strays : v # w => Independent(v, w)
  /\ \A c \in Busy : Promises(store, graphs, batch[c], pc[c])
  /\ \A v \in strays : Promises(store, graphs, v, "sent")

(* A batch that lands keeps the promises made to a batch it is independent  *)
(* of.                                                                      *)
LEMMA PromisesStay ==
  ASSUME TypeOK, NEW v \in WellFormed, NEW w \in WellFormed, Independent(v, w),
         NEW step, Promises(store, graphs, v, step)
  PROVE  Promises(Merge(store, w.content), graphs \cup {w.graph}, v, step)
<1>1. store \in Content /\ Unseen(v, w)
  BY DEF TypeOK, Independent
<1>2. GraphFree(graphs, v.graph) => GraphFree(graphs \cup {w.graph}, v.graph)
  BY <1>1 DEF Unseen, GraphFree
<1>3. QED
  BY <1>1, <1>2, NewStays, ClosuresStay, SupersessionsStay, ShapesStay DEF Promises

(* Independence is symmetric.                                               *)
LEMMA IndependentSym ==
  ASSUME NEW v, NEW w, Independent(v, w) PROVE Independent(w, v)
  BY DEF Independent

(* A POST that leaves planned, or strays, carries an acceptable batch.      *)
LEMMA SentIsAcceptable ==
  ASSUME NEW w \in WellFormed, Promises(store, graphs, w, "sent")
  PROVE  w \in Acceptable
  BY DEF Promises, Past, Acceptable, StoreOK

(* The store's part of a step: one acceptable batch lands or nothing does.  *)
LEMMA StepIsIngest ==
  ASSUME CarefulInv, [ClientNext]_clientVars PROVE [Next]_vars
<1>1. CASE UNCHANGED clientVars
  BY <1>1 DEF clientVars, vars
<1>2. ASSUME NEW c \in Client, Apply(c) PROVE [Next]_vars
  <2>1. c \in Busy /\ pc[c] = "sent"
    BY <1>2 DEF Apply, Busy
  <2>2. batch[c] \in Acceptable
    BY <2>1, SentIsAcceptable DEF CarefulInv
  <2>3. batch[c] \in Batches
    BY <2>2 DEF Acceptable, WellFormed
  <2>4. QED
    BY <1>2, <2>2, <2>3 DEF Apply, Next, Ingest
<1>3. ASSUME NEW w \in Batches, StrayLands(w) PROVE [Next]_vars
  <2>1. w \in WellFormed /\ Promises(store, graphs, w, "sent")
    BY <1>3 DEF CarefulInv, StrayLands
  <2>2. QED
    BY <1>3, <2>1, SentIsAcceptable DEF StrayLands, Next, Ingest
<1>4. ASSUME NEW c \in Client,
             \/ FetchContext(c) \/ CheckGraph(c) \/ ReadClosingState(c) \/ ReadExisting(c)
             \/ QueryFails(c) \/ Send(c) \/ Refuse(c) \/ Confirm(c) \/ LoseAnswer(c)
             \/ \E w \in Batches : Submit(c, w)
      PROVE  UNCHANGED vars
  BY <1>4 DEF FetchContext, CheckGraph, ReadClosingState, ReadExisting, Check,
              QueryFails, Send, Refuse, Confirm, LoseAnswer, Submit, gateVars, vars
<1>5. QED
  BY <1>1, <1>2, <1>3, <1>4 DEF ClientNext, ClientStep

(* A client that moves on while the store stands still: what has to hold of *)
(* its new place for the invariant to hold again.                           *)
LEMMA Moves ==
  ASSUME CarefulInv, NEW c \in Busy, NEW step \in Steps,
         pc' = [pc EXCEPT ![c] = step], UNCHANGED <<gateVars, batch, strays>>,
         Promises(store, graphs, batch[c], step)
  PROVE  CarefulInv'
<1>1. c \in Client /\ step # "idle"
  BY DEF Busy, Steps, Asking
<1>2. Busy' = Busy /\ pc' \in [Client -> Steps \cup {"idle"}]
  BY <1>1 DEF Busy, CarefulInv
<1>3. UNCHANGED <<store, graphs, landed, batch, strays>>
  BY DEF gateVars
<1>4. TypeOK'
  BY <1>3 DEF CarefulInv, TypeOK
<1>5. \A d \in Busy : Promises(store, graphs, batch[d], pc'[d])
  BY <1>1 DEF CarefulInv, Busy
<1>6. QED
  BY <1>2, <1>3, <1>4, <1>5 DEF CarefulInv

(* A client that stops, its request perhaps left behind.                    *)
LEMMA Stops ==
  ASSUME CarefulInv, NEW c \in Busy, Finish(c), UNCHANGED gateVars,
         \/ strays' = strays
         \/ pc[c] = "sent" /\ strays' = strays \cup {batch[c]}
  PROVE  CarefulInv'
<1>1. c \in Client
  BY DEF Busy
<1>2. /\ pc' \in [Client -> Steps \cup {"idle"}]
      /\ batch' \in [Client -> Batches \cup {NoBatch}]
      /\ Busy' = Busy \ {c}
      /\ \A d \in Busy \ {c} : batch'[d] = batch[d] /\ pc'[d] = pc[d]
  BY <1>1 DEF Finish, CarefulInv, Busy
<1>3. UNCHANGED <<store, graphs, landed>> /\ TypeOK'
  BY DEF gateVars, CarefulInv, TypeOK
<1>4. /\ batch[c] \in WellFormed
      /\ \A v \in strays : Independent(batch[c], v) /\ Independent(v, batch[c])
      /\ \A d \in Busy \ {c} : Independent(batch[d], batch[c])
      /\ pc[c] = "sent" => Promises(store, graphs, batch[c], "sent")
  BY IndependentSym DEF CarefulInv
<1>5. QED
  BY <1>2, <1>3, <1>4 DEF CarefulInv

(* A batch that lands, and whoever has yet to land.  "applied" promises     *)
(* nothing, so the client that waits for its answer may keep its batch.     *)
LEMMA Lands ==
  ASSUME CarefulInv, NEW w \in WellFormed, w \in Acceptable, Append(w),
         pc' \in [Client -> Steps \cup {"idle"}], Busy' = Busy, batch' = batch,
         strays' \subseteq strays,
         \A c \in Busy : \/ pc'[c] = "applied"
                         \/ pc'[c] = pc[c] /\ Independent(batch[c], w),
         \A v \in strays' : Independent(v, w)
  PROVE  CarefulInv'
<1>1. TypeOK'
  <2>1. w \in Batches /\ [Next]_vars
    BY DEF Acceptable, WellFormed, Next, Ingest
  <2>2. QED
    BY <2>1, TypeStep DEF CarefulInv
<1>2. store' = Merge(store, w.content) /\ graphs' = graphs \cup {w.graph}
  BY DEF Append
<1>3. ASSUME NEW c \in Busy PROVE Promises(store', graphs', batch[c], pc'[c])
  <2>1. CASE pc'[c] = "applied"
    BY <2>1 DEF Promises, Past
  <2>2. CASE pc'[c] = pc[c] /\ Independent(batch[c], w)
    BY <1>2, <2>2, PromisesStay DEF CarefulInv
  <2>3. QED
    BY <2>1, <2>2
<1>4. ASSUME NEW v \in strays' PROVE Promises(store', graphs', v, "sent")
  BY <1>2, PromisesStay DEF CarefulInv
<1>5. QED
  BY <1>1, <1>3, <1>4 DEF CarefulInv

(* Every step of careful callers keeps the invariant.                       *)
LEMMA CarefulStep ==
  ASSUME Careful, CarefulInv, [ClientNext]_clientVars PROVE CarefulInv'
<1>1. CASE UNCHANGED clientVars
  BY <1>1 DEF clientVars, CarefulInv, TypeOK, Busy
<1>2. ASSUME NEW c \in Client, NEW w \in Batches, Submit(c, w) PROVE CarefulInv'
  <2>1. /\ c \notin Busy /\ w \in WellFormed /\ \A v \in InFlight : Independent(v, w)
        /\ pc' = [pc EXCEPT ![c] = "context"] /\ batch' = [batch EXCEPT ![c] = w]
        /\ UNCHANGED <<store, graphs, landed, strays>>
    BY <1>2 DEF Submit, gateVars
  <2>2. /\ pc' \in [Client -> Steps \cup {"idle"}]
        /\ batch' \in [Client -> Batches \cup {NoBatch}]
        /\ Busy' = Busy \cup {c} /\ batch'[c] = w /\ pc'[c] = "context"
        /\ \A d \in Busy : batch'[d] = batch[d] /\ pc'[d] = pc[d] /\ d # c
    BY <2>1 DEF CarefulInv, Busy, Steps, Asking
  <2>3. /\ \A d \in Busy : Independent(batch[d], w) /\ Independent(w, batch[d])
        /\ \A v \in strays : Independent(v, w) /\ Independent(w, v)
    BY <2>1, IndependentSym DEF InFlight
  <2>4. Promises(store, graphs, w, "context")
    BY DEF Promises, Past
  <2>5. TypeOK'
    BY <2>1 DEF CarefulInv, TypeOK
  <2>6. QED
    BY <2>1, <2>2, <2>3, <2>4, <2>5 DEF CarefulInv
<1>3. ASSUME NEW c \in Client, NEW here, NEW next \in Steps, NEW passes \in BOOLEAN,
             Check(c, here, next, passes), here # "idle",
             passes => Promises(store, graphs, batch[c], next)
      PROVE  CarefulInv'
  <2>1. c \in Busy /\ UNCHANGED <<gateVars, strays>>
    BY <1>3 DEF Check, Busy
  <2>2. CASE passes
    BY <1>3, <2>1, <2>2, Moves DEF Check, Goto
  <2>3. CASE ~passes
    BY <1>3, <2>1, <2>3, Stops DEF Check
  <2>4. QED
    BY <2>2, <2>3
<1>4. ASSUME NEW c \in Client, FetchContext(c) PROVE CarefulInv'
  <2>1. ShapesOK(store, batch[c].content) => Promises(store, graphs, batch[c], "graph")
    BY DEF Promises, Past
  <2>2. "graph" \in Steps /\ ShapesOK(store, batch[c].content) \in BOOLEAN
    BY DEF Steps, Asking, ShapesOK
  <2>3. QED
    BY <1>3, <1>4, <2>1, <2>2 DEF FetchContext
<1>5. ASSUME NEW c \in Client, CheckGraph(c) PROVE CarefulInv'
  <2>1. pc[c] = "graph" /\ c \in Busy
    BY <1>5 DEF CheckGraph, Check, Busy
  <2>2. GraphFree(graphs, batch[c].graph) => Promises(store, graphs, batch[c], "state")
    BY <2>1 DEF CarefulInv, Promises, Past
  <2>3. "state" \in Steps /\ GraphFree(graphs, batch[c].graph) \in BOOLEAN
    BY DEF Steps, Asking, GraphFree
  <2>4. QED
    BY <1>3, <1>5, <2>2, <2>3 DEF CheckGraph
<1>6. ASSUME NEW c \in Client, ReadClosingState(c) PROVE CarefulInv'
  <2> DEFINE ok == /\ ClosuresOK(store, batch[c].content)
                   /\ SupersessionsOK(store, batch[c].content)
  <2>1. pc[c] = "state" /\ c \in Busy
    BY <1>6 DEF ReadClosingState, Check, Busy
  <2>2. ok => Promises(store, graphs, batch[c], "existing")
    BY <2>1 DEF CarefulInv, Promises, Past
  <2>3. "existing" \in Steps /\ ok \in BOOLEAN
    BY DEF Steps, Asking
  <2>4. Check(c, "state", "existing", ok)
    BY <1>6 DEF ReadClosingState
  <2> HIDE DEF ok
  <2>5. QED
    BY <1>3, <2>2, <2>3, <2>4
<1>7. ASSUME NEW c \in Client, ReadExisting(c) PROVE CarefulInv'
  <2>1. pc[c] = "existing" /\ c \in Busy
    BY <1>7 DEF ReadExisting, Check, Busy
  <2>2. AllNew(store, batch[c].content) => Promises(store, graphs, batch[c], "planned")
    BY <2>1 DEF CarefulInv, Promises, Past
  <2>3. "planned" \in Steps /\ AllNew(store, batch[c].content) \in BOOLEAN
    BY DEF Steps, AllNew
  <2>4. QED
    BY <1>3, <1>7, <2>2, <2>3 DEF ReadExisting
<1>8. ASSUME NEW c \in Client, QueryFails(c) \/ Refuse(c) \/ Confirm(c) PROVE CarefulInv'
  <2>1. c \in Busy /\ Finish(c) /\ UNCHANGED gateVars /\ strays' = strays
    BY <1>8 DEF QueryFails, Refuse, Confirm, Busy, Asking
  <2>2. QED
    BY <2>1, Stops
<1>9. ASSUME NEW c \in Client, LoseAnswer(c) PROVE CarefulInv'
  <2>1. c \in Busy /\ Finish(c) /\ UNCHANGED gateVars
    BY <1>9 DEF LoseAnswer, Busy
  <2>2. \/ strays' = strays
        \/ pc[c] = "sent" /\ strays' = strays \cup {batch[c]}
    BY <1>9 DEF LoseAnswer
  <2>3. QED
    BY <2>1, <2>2, Stops
<1>10. ASSUME NEW c \in Client, Send(c) PROVE CarefulInv'
  <2>1. c \in Busy /\ pc[c] = "planned" /\ "sent" \in Steps
    BY <1>10 DEF Send, Busy, Steps
  <2>2. Promises(store, graphs, batch[c], "sent")
    BY <2>1 DEF CarefulInv, Promises, Past
  <2>3. QED
    BY <1>10, <2>1, <2>2, Moves DEF Send, Goto
<1>11. ASSUME NEW c \in Client, Apply(c) PROVE CarefulInv'
  <2>1. /\ c \in Busy /\ pc[c] = "sent" /\ Append(batch[c])
        /\ pc' = [pc EXCEPT ![c] = "applied"] /\ batch' = batch /\ strays' = strays
    BY <1>11 DEF Apply, Goto, Busy
  <2>2. batch[c] \in WellFormed /\ batch[c] \in Acceptable
    BY <2>1, SentIsAcceptable DEF CarefulInv
  <2>3. /\ pc' \in [Client -> Steps \cup {"idle"}] /\ Busy' = Busy
        /\ pc'[c] = "applied" /\ \A d \in Client : d # c => pc'[d] = pc[d]
    BY <1>11, <2>1 DEF CarefulInv, Busy, Steps
  <2>4. \A d \in Busy : d # c => Independent(batch[d], batch[c])
    BY <2>1 DEF CarefulInv
  <2>5. \A v \in strays : Independent(v, batch[c])
    BY <2>1, IndependentSym DEF CarefulInv
  <2>6. \A d \in Busy : \/ pc'[d] = "applied"
                        \/ pc'[d] = pc[d] /\ Independent(batch[d], batch[c])
    BY <2>3, <2>4 DEF Busy
  <2>7. QED
    BY <2>1, <2>2, <2>3, <2>5, <2>6, Lands
<1>12. ASSUME NEW w \in Batches, StrayLands(w) PROVE CarefulInv'
  <2>1. /\ w \in strays /\ Append(w) /\ strays' = strays \ {w}
        /\ pc' = pc /\ batch' = batch
    BY <1>12 DEF StrayLands
  <2>2. w \in WellFormed /\ w \in Acceptable
    BY <2>1, SentIsAcceptable DEF CarefulInv
  <2>3. pc' \in [Client -> Steps \cup {"idle"}] /\ Busy' = Busy
    BY <2>1 DEF CarefulInv, Busy
  <2>4. \A c \in Busy : pc'[c] = pc[c] /\ Independent(batch[c], w)
    BY <2>1 DEF CarefulInv
  <2>5. \A v \in strays' : Independent(v, w)
    BY <2>1 DEF CarefulInv
  <2>6. QED
    BY <2>1, <2>2, <2>3, <2>4, <2>5, Lands
<1>13. QED
  BY <1>1, <1>2, <1>4, <1>5, <1>6, <1>7, <1>8, <1>9, <1>10, <1>11, <1>12
     DEF ClientNext, ClientStep

(* Nothing is in flight at first.                                           *)
LEMMA CarefulStart == ClientInit => CarefulInv
<1> SUFFICES ASSUME ClientInit PROVE CarefulInv
  OBVIOUS
<1>1. TypeOK
  BY InitIInv DEF ClientInit, IInv
<1>2. Busy = {}
  BY DEF ClientInit, Busy
<1>3. QED
  BY <1>1, <1>2 DEF ClientInit, CarefulInv

(* Callers who keep independent of everything in flight, lost requests      *)
(* included, implement the gate that ingests one batch at a time.           *)
THEOREM CarefulIsSerial == ASSUME Careful PROVE ClientSpec => Serializable
<1>1. ClientInit => Init
  BY DEF ClientInit
<1>2. QED
  BY <1>1, CarefulStart, CarefulStep, StepIsIngest, PTL
     DEF ClientSpec, Serializable, Spec

(* So everything proved of IngestGate holds of their store.                 *)
THEOREM CarefulKeepsTimelines ==
  ASSUME Careful
  PROVE  ClientSpec => [](VetoTimeline /\ MembershipTimeline /\ RestatementChains
                          /\ OneBatchPerGraph /\ ReplayRefused)
<1>1. ClientSpec => Spec
  BY CarefulIsSerial DEF Serializable
<1>2. QED
  BY <1>1, TimelinesHold, ChainsHold, AppendOnly, RetriesRefused, PTL

-----------------------------------------------------------------------------
(* Any callers.  What a check found about a subject the batch leaves        *)
(* undeclared: some batch that had landed by then declared it, and every    *)
(* end the batch gives it follows that batch's opening.                     *)
Declared(b) ==
  \A s \in Typed(b) :
     /\ "Veto" \in b.type[s] => VetoShape(b, s)
     /\ b.type[s] \cap Inclusive # {} => One(b.validFrom[s]) /\ IntervalShape(b, s)
EndsSeen(b, s, before) ==
  /\ \A d \in b.clearedOn[s] : \E v \in before :
        v.content.type[s] # {} /\ \A r \in v.content.raisedOn[s] : r < d
  /\ \A d \in b.validTo[s] : \E v \in before :
        /\ v.content.type[s] # {}
        /\ v.content.type[s] \cap Inclusive # {} =>
              \A o \in v.content.validFrom[s] : o <= d
  /\ \A n \in b.supersededBy[s] : \E v \in before : v.content.type[s] # {}
Seen(b, before) == \A s \in Ind \ Typed(b) : EndsSeen(b, s, before)

(* The store is what landed, property by property.                          *)
FromLanded ==
  \A s \in Ind :
     /\ \A x \in store.type[s] : \E w \in landed : x \in w.content.type[s]
     /\ \A x \in store.raisedOn[s] : \E w \in landed : x \in w.content.raisedOn[s]
     /\ \A x \in store.clearedOn[s] : \E w \in landed : x \in w.content.clearedOn[s]
     /\ \A x \in store.validFrom[s] : \E w \in landed : x \in w.content.validFrom[s]
     /\ \A x \in store.validTo[s] : \E w \in landed : x \in w.content.validTo[s]
     /\ \A x \in store.supersededBy[s] : \E w \in landed : x \in w.content.supersededBy[s]
HasLanded ==
  \A w \in landed, s \in Ind :
     /\ w.content.raisedOn[s] \subseteq store.raisedOn[s]
     /\ w.content.validFrom[s] \subseteq store.validFrom[s]
     /\ w.content.supersededBy[s] \subseteq store.supersededBy[s]

(* The inductive invariant of callers who keep no discipline.  A request on *)
(* its way has been checked, though maybe against a store that has moved.   *)
Checked(w) == w \in WellFormed /\ Declared(w.content) /\ Seen(w.content, landed)
RaceInv ==
  /\ TypeOK
  /\ pc \in [Client -> Steps \cup {"idle"}]
  /\ batch \in [Client -> Batches \cup {NoBatch}]
  /\ FromLanded
  /\ HasLanded
  /\ \A w \in landed \cup strays : Checked(w)
  /\ \A c \in Busy :
        /\ batch[c] \in WellFormed
        /\ pc[c] \in Past("graph") => Declared(batch[c].content)
        /\ pc[c] \in Past("existing") => Seen(batch[c].content, landed)
  /\ LoopsNeedRedeclaration

(* What the shapes check found of a batch, whatever the store was.          *)
LEMMA ShapesSeen ==
  ASSUME NEW w \in WellFormed, TypeOK, ShapesOK(store, w.content)
  PROVE  Declared(w.content)
<1>1. w.content \in Content /\ store \in Content
  BY BatchesAssumption DEF WellFormed, TypeOK
<1>2. \A s \in Typed(w.content) : s \in Ind
  BY DEF Typed
<1>3. QED
  BY <1>1, <1>2, BatchConforms DEF Declared

(* What checks 7 and 8 found, in terms of what had landed: a subject with   *)
(* a class was declared by a landed batch, whose opening is in the store    *)
(* that the end was compared with.                                          *)
LEMMA StateSeen ==
  ASSUME NEW w \in WellFormed, TypeOK, FromLanded, HasLanded,
         ClosuresOK(store, w.content), SupersessionsOK(store, w.content)
  PROVE  Seen(w.content, landed)
<1> DEFINE b == w.content
<1> SUFFICES ASSUME NEW s \in Ind \ Typed(b) PROVE EndsSeen(b, s, landed)
  BY DEF Seen
<1>1. b \in Content /\ landed \subseteq Batches
  BY BatchesAssumption DEF WellFormed, TypeOK
<1>2. \A v \in landed : v.content \in Content
  BY <1>1, BatchesAssumption
<1>3. ASSUME NEW d \in b.clearedOn[s]
      PROVE  \E v \in landed :
               v.content.type[s] # {} /\ \A r \in v.content.raisedOn[s] : r < d
  <2>1. CanClear(store, s, d)
    BY DEF ClosuresOK
  <2>2. PICK v \in landed : "Veto" \in v.content.type[s]
    BY <2>1 DEF CanClear, FromLanded
  <2>3. v.content.raisedOn[s] \subseteq store.raisedOn[s]
    BY DEF HasLanded
  <2>4. QED
    BY <2>1, <2>2, <2>3 DEF CanClear, DateOrder
<1>4. ASSUME NEW d \in b.validTo[s]
      PROVE  \E v \in landed :
               /\ v.content.type[s] # {}
               /\ v.content.type[s] \cap Inclusive # {} =>
                     \A o \in v.content.validFrom[s] : o <= d
  <2>1. CanClose(store, s, d) /\ d \in Int
    BY <1>1, ConstantsAssumption DEF ClosuresOK, Content
  <2>2. PICK t \in store.type[s] : TRUE
    BY <2>1 DEF CanClose
  <2>3. PICK v \in landed : t \in v.content.type[s]
    BY <2>2 DEF FromLanded
  <2>4. v.content.validFrom[s] \subseteq store.validFrom[s] /\ store.validFrom[s] \subseteq Int
    BY ConstantsAssumption DEF HasLanded, TypeOK, Content
  <2>5. \A o \in store.validFrom[s] : o < d \/ o = d
    BY <2>1 DEF CanClose, DateOrder
  <2>6. \A o \in store.validFrom[s] : o <= d
    BY <2>1, <2>4, <2>5
  <2>7. QED
    BY <2>3, <2>4, <2>6
<1>5. ASSUME NEW n \in b.supersededBy[s]
      PROVE  \E v \in landed : v.content.type[s] # {}
  <2>1. "SECFilingSection" \in store.type[s]
    BY DEF SupersessionsOK
  <2>2. QED
    BY <2>1 DEF FromLanded
<1>6. QED
  BY <1>3, <1>4, <1>5 DEF EndsSeen

(* What was seen of the landed batches is still true of more of them.       *)
LEMMA SeenStays ==
  ASSUME NEW b, NEW before, NEW after, before \subseteq after, Seen(b, before)
  PROVE  Seen(b, after)
BY DEF Seen, EndsSeen

(* The store stays what landed.                                             *)
LEMMA LandedStep ==
  ASSUME TypeOK, FromLanded, HasLanded, NEW w \in Batches, Append(w)
  PROVE  FromLanded' /\ HasLanded'
<1>1. store' = Merge(store, w.content) /\ landed' = landed \cup {w}
  BY DEF Append
<1>2. ASSUME NEW s \in Ind
      PROVE  /\ store'.type[s] = store.type[s] \cup w.content.type[s]
             /\ store'.raisedOn[s] = store.raisedOn[s] \cup w.content.raisedOn[s]
             /\ store'.clearedOn[s] = store.clearedOn[s] \cup w.content.clearedOn[s]
             /\ store'.validFrom[s] = store.validFrom[s] \cup w.content.validFrom[s]
             /\ store'.validTo[s] = store.validTo[s] \cup w.content.validTo[s]
             /\ store'.supersededBy[s] = store.supersededBy[s] \cup w.content.supersededBy[s]
  BY <1>1 DEF Merge, Both
<1>3. FromLanded'
  BY <1>1, <1>2 DEF FromLanded
<1>4. HasLanded'
  BY <1>1, <1>2 DEF HasLanded
<1>5. QED
  BY <1>3, <1>4

(* A loop among singly declared sections would lie in the batch that lands, *)
(* in the store before it, or lead from a section it declares to one that   *)
(* a landed batch saw declared before.                                      *)
LEMMA LoopStep ==
  ASSUME RaceInv, NEW w \in WellFormed, Checked(w), Append(w)
  PROVE  LoopsNeedRedeclaration'
<1> DEFINE b == w.content
<1>1. landed' = landed \cup {w} /\ landed \subseteq Batches /\ w \in Batches
  BY DEF Append, RaceInv, TypeOK, WellFormed
<1>2. FromLanded' /\ HasLanded
  BY <1>1, LandedStep DEF RaceInv
<1> SUFFICES ASSUME \A s \in Ind : AtMostOne(DeclaredIn(s)'),
                    NEW C \in SUBSET Ind, C # {},
                    \A s \in C : store'.supersededBy[s] \cap C # {}
             PROVE  FALSE
  BY DEF LoopsNeedRedeclaration, NoLoop, AtMostOne, DeclaredIn
<1>3. \A s \in Ind : \A u, v \in landed' :
         u.content.type[s] # {} /\ v.content.type[s] # {} => u = v
  BY DEF AtMostOne, DeclaredIn
<1>4. NoLoop(store.supersededBy)
  BY <1>1, <1>3 DEF RaceInv, LoopsNeedRedeclaration, AtMostOne, DeclaredIn
<1>5. RestatementsOK(b) /\ b \in Content
  BY BatchesAssumption DEF WellFormed, StoreFreeOK
<1>6. \A s \in C : \E n \in C, v \in landed' : n \in v.content.supersededBy[s]
  BY <1>2 DEF FromLanded
<1>7. CASE w \in landed
  <2>1. \A s \in C : store.supersededBy[s] \cap C # {}
    BY <1>1, <1>2, <1>6, <1>7 DEF HasLanded
  <2>2. QED
    BY <1>4, <2>1 DEF NoLoop
<1>8. CASE w \notin landed
  <2> DEFINE D == C \cap Typed(b)
  <2>1. \A s \in Ind : \A n \in b.supersededBy[s] : n \in Typed(b)
    BY <1>5 DEF RestatementsOK, ReplacementOK, Typed, Content
  <2>2. ASSUME NEW s \in D PROVE b.supersededBy[s] \cap D # {}
    <3>1. PICK n \in C, v \in landed' : n \in v.content.supersededBy[s]
      BY <1>6
    <3>2. CASE v = w
      BY <2>1, <3>1, <3>2
    <3>3. CASE v # w
      <4>1. v \in landed /\ s \in Ind /\ b.type[s] # {} /\ w \in landed'
        BY <1>1, <3>3 DEF Typed
      <4>2. s \notin Typed(v.content)
        BY <1>3, <3>3, <4>1 DEF Typed
      <4>3. EndsSeen(v.content, s, landed)
        BY <4>1, <4>2 DEF RaceInv, Checked, Seen
      <4>4. PICK u \in landed : u.content.type[s] # {}
        BY <3>1, <4>3 DEF EndsSeen
      <4>5. u = w
        BY <1>1, <1>3, <4>1, <4>4
      <4>6. QED
        BY <1>8, <4>4, <4>5
    <3>4. QED
      BY <3>2, <3>3
  <2>3. D = {}
    BY <1>5, <2>2 DEF RestatementsOK, NoLoop
  <2>4. ASSUME NEW s \in C PROVE store.supersededBy[s] \cap C # {}
    <3>1. PICK n \in C, v \in landed' : n \in v.content.supersededBy[s]
      BY <1>6
    <3>2. v # w
      BY <2>1, <2>3, <3>1
    <3>3. QED
      BY <1>1, <1>2, <3>1, <3>2 DEF HasLanded
  <2>5. QED
    BY <1>4, <2>4 DEF NoLoop
<1>9. QED
  BY <1>7, <1>8

(* A step that leaves the store alone: what has to hold of the client that  *)
(* moves, and of a request it leaves behind.                                *)
LEMMA RaceMoves ==
  ASSUME RaceInv, UNCHANGED gateVars, NEW c \in Client,
         pc' \in [Client -> Steps \cup {"idle"}],
         batch' \in [Client -> Batches \cup {NoBatch}],
         \A d \in Client : d # c => pc'[d] = pc[d] /\ batch'[d] = batch[d],
         pc'[c] # "idle" => /\ batch'[c] \in WellFormed
                            /\ pc'[c] \in Past("graph") => Declared(batch'[c].content)
                            /\ pc'[c] \in Past("existing") => Seen(batch'[c].content, landed),
         \A v \in strays' : v \in strays \/ Checked(v)
  PROVE  RaceInv'
<1>1. store' = store /\ graphs' = graphs /\ landed' = landed
  BY DEF gateVars
<1>2. TypeOK' /\ FromLanded' /\ HasLanded'
  BY <1>1 DEF RaceInv, TypeOK, FromLanded, HasLanded
<1>3. LoopsNeedRedeclaration'
  BY <1>1 DEF RaceInv, LoopsNeedRedeclaration, DeclaredIn, AtMostOne, NoLoop
<1>4. \A w \in landed' \cup strays' : Checked(w)'
  BY <1>1 DEF RaceInv, Checked
<1>5. ASSUME NEW d \in Busy'
      PROVE  /\ batch'[d] \in WellFormed
             /\ pc'[d] \in Past("graph") => Declared(batch'[d].content)
             /\ pc'[d] \in Past("existing") => Seen(batch'[d].content, landed)
  <2>1. CASE d = c
    BY <1>5, <2>1 DEF Busy
  <2>2. CASE d # c
    <3>1. d \in Busy /\ pc'[d] = pc[d] /\ batch'[d] = batch[d]
      BY <1>5, <2>2 DEF Busy
    <3>2. QED
      BY <3>1 DEF RaceInv
  <2>3. QED
    BY <2>1, <2>2
<1>6. QED
  BY <1>1, <1>2, <1>3, <1>4, <1>5 DEF RaceInv

(* A checked batch that lands, however long ago it was checked.             *)
LEMMA RaceLands ==
  ASSUME RaceInv, NEW w \in WellFormed, Checked(w), Append(w),
         pc' \in [Client -> Steps \cup {"idle"}], batch' = batch, Busy' = Busy,
         \A c \in Busy : pc'[c] = pc[c] \/ pc'[c] = "applied",
         strays' \subseteq strays
  PROVE  RaceInv'
<1>1. w \in Batches /\ landed' = landed \cup {w} /\ graphs' = graphs \cup {w.graph}
      /\ store' = Merge(store, w.content)
  BY DEF WellFormed, Append
<1>2. TypeOK'
  <2>1. /\ w.content \in Content /\ w.graph \in Graph /\ store \in Content
        /\ KnownTypes(w.content)
    BY <1>1, BatchesAssumption DEF RaceInv, TypeOK, WellFormed, StoreFreeOK
  <2>2. store' \in Content
    BY <1>1, <2>1, MergeType
  <2>3. \A s \in Ind : store'.type[s] = store.type[s] \cup w.content.type[s]
    BY <1>1 DEF Merge, Both
  <2>4. QED
    BY <1>1, <2>1, <2>2, <2>3 DEF RaceInv, TypeOK, KnownTypes
<1>3. FromLanded' /\ HasLanded'
  BY <1>1, LandedStep DEF RaceInv
<1>4. \A v \in landed' \cup strays' : Checked(v)'
  <2>1. ASSUME NEW v \in landed' \cup strays' PROVE Checked(v)
    BY <1>1 DEF RaceInv
  <2>2. ASSUME NEW v \in landed' \cup strays' PROVE Checked(v)'
    <3>1. v \in WellFormed /\ Declared(v.content) /\ Seen(v.content, landed')
      BY <1>1, <2>1, SeenStays DEF Checked
    <3>2. QED
      BY <3>1 DEF Checked
  <2>3. QED
    BY <2>2
<1>5. ASSUME NEW c \in Busy
      PROVE  /\ batch[c] \in WellFormed
             /\ pc'[c] \in Past("graph") => Declared(batch[c].content)
             /\ pc'[c] \in Past("existing") => Seen(batch[c].content, landed')
  <2>1. CASE pc'[c] = "applied"
    BY <2>1 DEF RaceInv, Past
  <2>2. CASE pc'[c] = pc[c]
    BY <1>1, <2>2, SeenStays DEF RaceInv
  <2>3. QED
    BY <2>1, <2>2
<1>6. LoopsNeedRedeclaration'
  BY LoopStep
<1>7. QED
  BY <1>2, <1>3, <1>4, <1>5, <1>6 DEF RaceInv

(* Every step of any callers keeps the invariant.                           *)
LEMMA RaceStep == ASSUME RaceInv, [ClientNext]_clientVars PROVE RaceInv'
<1>1. CASE UNCHANGED clientVars
  BY <1>1 DEF clientVars, RaceInv, TypeOK, FromLanded, HasLanded, Checked, Busy,
              LoopsNeedRedeclaration, DeclaredIn, AtMostOne, NoLoop
<1>2. ASSUME NEW c \in Client, NEW w \in Batches, Submit(c, w) PROVE RaceInv'
  <2>1. /\ w \in WellFormed /\ UNCHANGED <<gateVars, strays>>
        /\ pc' = [pc EXCEPT ![c] = "context"] /\ batch' = [batch EXCEPT ![c] = w]
    BY <1>2 DEF Submit
  <2>2. /\ pc' \in [Client -> Steps \cup {"idle"}] /\ pc'[c] = "context"
        /\ batch' \in [Client -> Batches \cup {NoBatch}] /\ batch'[c] = w
        /\ \A d \in Client : d # c => pc'[d] = pc[d] /\ batch'[d] = batch[d]
    BY <2>1 DEF RaceInv, Steps, Asking
  <2>3. "context" \notin Past("graph") /\ "context" \notin Past("existing")
    BY DEF Past
  <2>4. QED
    BY <2>1, <2>2, <2>3, RaceMoves
<1>3. ASSUME NEW c \in Client, NEW here \in Steps, NEW next \in Steps, pc[c] = here,
             Goto(c, next), UNCHANGED <<gateVars, strays>>,
             next \in Past("graph") => Declared(batch[c].content),
             next \in Past("existing") => Seen(batch[c].content, landed)
      PROVE  RaceInv'
  <2>1. c \in Busy
    BY <1>3 DEF Busy, Steps, Asking
  <2>2. /\ pc' \in [Client -> Steps \cup {"idle"}] /\ pc'[c] = next
        /\ batch' = batch /\ batch[c] \in WellFormed
        /\ \A d \in Client : d # c => pc'[d] = pc[d]
    BY <1>3, <2>1 DEF RaceInv, Goto
  <2>3. QED
    BY <1>3, <2>2, RaceMoves DEF RaceInv
<1>4. ASSUME NEW c \in Client, Finish(c), UNCHANGED gateVars,
             \A v \in strays' : v \in strays \/ Checked(v)
      PROVE  RaceInv'
  <2>1. /\ pc' \in [Client -> Steps \cup {"idle"}] /\ pc'[c] = "idle"
        /\ batch' \in [Client -> Batches \cup {NoBatch}]
        /\ \A d \in Client : d # c => pc'[d] = pc[d] /\ batch'[d] = batch[d]
    BY <1>4 DEF RaceInv, Finish
  <2>2. QED
    BY <1>4, <2>1, RaceMoves
<1>5. ASSUME NEW c \in Client, FetchContext(c) PROVE RaceInv'
  <2>1. pc[c] = "context" /\ UNCHANGED <<gateVars, strays>> /\ c \in Busy
    BY <1>5 DEF FetchContext, Check, Busy
  <2>2. CASE Goto(c, "graph") /\ ShapesOK(store, batch[c].content)
    <3>1. Declared(batch[c].content)
      BY <2>1, <2>2, ShapesSeen DEF RaceInv
    <3>2. "graph" \notin Past("existing") /\ "graph" \in Steps /\ "context" \in Steps
      BY DEF Past, Steps, Asking
    <3>3. QED
      BY <1>3, <2>1, <2>2, <3>1, <3>2
  <2>3. QED
    BY <1>4, <1>5, <2>1, <2>2 DEF FetchContext, Check
<1>6. ASSUME NEW c \in Client, CheckGraph(c) PROVE RaceInv'
  <2>1. pc[c] = "graph" /\ UNCHANGED <<gateVars, strays>> /\ c \in Busy
    BY <1>6 DEF CheckGraph, Check, Busy
  <2>2. CASE Goto(c, "state")
    <3>1. /\ "graph" \in Past("graph") /\ "state" \notin Past("existing")
          /\ "graph" \in Steps /\ "state" \in Steps
      BY DEF Past, Steps, Asking
    <3>2. Declared(batch[c].content)
      BY <2>1, <3>1 DEF RaceInv
    <3>3. QED
      BY <1>3, <2>1, <2>2, <3>1, <3>2
  <2>3. QED
    BY <1>4, <1>6, <2>1, <2>2 DEF CheckGraph, Check
<1>7. ASSUME NEW c \in Client, ReadClosingState(c) PROVE RaceInv'
  <2>1. pc[c] = "state" /\ UNCHANGED <<gateVars, strays>> /\ c \in Busy
    BY <1>7 DEF ReadClosingState, Check, Busy
  <2>2. CASE /\ Goto(c, "existing")
             /\ ClosuresOK(store, batch[c].content) /\ SupersessionsOK(store, batch[c].content)
    <3>1. /\ "state" \in Past("graph") /\ "state" \in Steps /\ "existing" \in Steps
      BY DEF Past, Steps, Asking
    <3>2. Declared(batch[c].content) /\ Seen(batch[c].content, landed)
      BY <2>1, <2>2, <3>1, StateSeen DEF RaceInv
    <3>3. QED
      BY <1>3, <2>1, <2>2, <3>1, <3>2
  <2>3. QED
    BY <1>4, <1>7, <2>1, <2>2 DEF ReadClosingState, Check
<1>8. ASSUME NEW c \in Client, ReadExisting(c) PROVE RaceInv'
  <2>1. pc[c] = "existing" /\ UNCHANGED <<gateVars, strays>> /\ c \in Busy
    BY <1>8 DEF ReadExisting, Check, Busy
  <2>2. CASE Goto(c, "planned")
    <3>1. /\ "existing" \in Past("graph") /\ "existing" \in Past("existing")
          /\ "existing" \in Steps /\ "planned" \in Steps
      BY DEF Past, Steps, Asking
    <3>2. Declared(batch[c].content) /\ Seen(batch[c].content, landed)
      BY <2>1, <3>1 DEF RaceInv
    <3>3. QED
      BY <1>3, <2>1, <2>2, <3>1, <3>2
  <2>3. QED
    BY <1>4, <1>8, <2>1, <2>2 DEF ReadExisting, Check
<1>9. ASSUME NEW c \in Client, Send(c) PROVE RaceInv'
  <2>1. pc[c] = "planned" /\ Goto(c, "sent") /\ UNCHANGED <<gateVars, strays>> /\ c \in Busy
    BY <1>9 DEF Send, Busy
  <2>2. /\ "planned" \in Past("graph") /\ "planned" \in Past("existing")
        /\ "planned" \in Steps /\ "sent" \in Steps
    BY DEF Past, Steps
  <2>3. Declared(batch[c].content) /\ Seen(batch[c].content, landed)
    BY <2>1, <2>2 DEF RaceInv
  <2>4. QED
    BY <1>3, <2>1, <2>2, <2>3
<1>10. ASSUME NEW c \in Client, QueryFails(c) \/ Refuse(c) \/ Confirm(c) PROVE RaceInv'
  BY <1>4, <1>10 DEF QueryFails, Refuse, Confirm
<1>11. ASSUME NEW c \in Busy, pc[c] = "sent" PROVE Checked(batch[c])
  BY <1>11 DEF RaceInv, Checked, Past
<1>12. ASSUME NEW c \in Client, LoseAnswer(c) PROVE RaceInv'
  <2>1. Finish(c) /\ UNCHANGED gateVars
    BY <1>12 DEF LoseAnswer
  <2>2. \A v \in strays' : v \in strays \/ (v = batch[c] /\ pc[c] = "sent")
    BY <1>12 DEF LoseAnswer
  <2>3. \A v \in strays' : v \in strays \/ Checked(v)
    BY <1>11, <2>2 DEF Busy
  <2>4. QED
    BY <1>4, <2>1, <2>3
<1>13. ASSUME NEW c \in Client, Apply(c) PROVE RaceInv'
  <2>1. /\ c \in Busy /\ pc[c] = "sent" /\ Append(batch[c])
        /\ pc' = [pc EXCEPT ![c] = "applied"] /\ batch' = batch /\ strays' = strays
    BY <1>13 DEF Apply, Goto, Busy
  <2>2. Checked(batch[c]) /\ batch[c] \in WellFormed
    BY <1>11, <2>1 DEF Checked
  <2>3. /\ pc' \in [Client -> Steps \cup {"idle"}] /\ Busy' = Busy
        /\ \A d \in Busy : pc'[d] = pc[d] \/ pc'[d] = "applied"
    BY <1>13, <2>1 DEF RaceInv, Busy, Steps
  <2>4. QED
    BY <2>1, <2>2, <2>3, RaceLands
<1>14. ASSUME NEW w \in Batches, StrayLands(w) PROVE RaceInv'
  <2>1. /\ w \in strays /\ Append(w) /\ strays' = strays \ {w}
        /\ pc' = pc /\ batch' = batch
    BY <1>14 DEF StrayLands
  <2>2. Checked(w) /\ w \in WellFormed /\ Busy' = Busy
    BY <2>1 DEF RaceInv, Checked, Busy
  <2>3. QED
    BY <2>1, <2>2, RaceLands DEF RaceInv
<1>15. QED
  BY <1>1, <1>2, <1>5, <1>6, <1>7, <1>8, <1>9, <1>10, <1>12, <1>13, <1>14
     DEF ClientNext, ClientStep

(* Nothing is stored or under way at first.                                    *)
LEMMA RaceStart == ClientInit => RaceInv
<1> SUFFICES ASSUME ClientInit PROVE RaceInv
  OBVIOUS
<1>1. /\ store = Nothing /\ landed = {} /\ strays = {} /\ TypeOK /\ Busy = {}
      /\ \A s \in Ind : store.supersededBy[s] = {} /\ DeclaredIn(s) = {}
  BY InitIInv DEF ClientInit, Init, IInv, Nothing, NoValue, Busy, DeclaredIn
<1>2. FromLanded /\ HasLanded
  BY <1>1 DEF FromLanded, HasLanded, Nothing, NoValue
<1>3. LoopsNeedRedeclaration
  BY <1>1 DEF LoopsNeedRedeclaration, NoLoop
<1>4. QED
  BY <1>1, <1>2, <1>3 DEF RaceInv, ClientInit

(* Of a singly declared individual the openings and the class come from one *)
(* batch, and whichever batch ended it compared with that one's opening.    *)
LEMMA RaceOrders == ASSUME RaceInv PROVE EndsFollowOpenings
<1> SUFFICES ASSUME NEW s \in Ind, AtMostOne(DeclaredIn(s))
             PROVE  /\ "Veto" \in store.type[s] =>
                         \A r \in store.raisedOn[s], c \in store.clearedOn[s] : r < c
                    /\ store.type[s] \cap Inclusive # {} =>
                         \A o \in store.validFrom[s], e \in store.validTo[s] : o <= e
  BY DEF EndsFollowOpenings
<1>1. \A u, v \in landed :
         u.content.type[s] # {} /\ v.content.type[s] # {} => u = v
  BY DEF AtMostOne, DeclaredIn
<1>2. \A w \in landed : /\ w.content.type[s] = {} =>
                             w.content.raisedOn[s] = {} /\ w.content.validFrom[s] = {}
                        /\ Declared(w.content) /\ Seen(w.content, landed)
  BY DEF RaceInv, Checked, WellFormed, StoreFreeOK, NoStrayWrites, Typed
<1>3. ASSUME "Veto" \in store.type[s],
             NEW r \in store.raisedOn[s], NEW c \in store.clearedOn[s]
      PROVE  r < c
  <2>1. PICK u \in landed : r \in u.content.raisedOn[s]
    BY DEF RaceInv, FromLanded
  <2>2. u.content.type[s] # {} /\ "Veto" \in u.content.type[s]
    <3>1. PICK t \in landed : "Veto" \in t.content.type[s]
      BY <1>3 DEF RaceInv, FromLanded
    <3>2. QED
      BY <1>1, <1>2, <2>1, <3>1
  <2>3. PICK v \in landed : c \in v.content.clearedOn[s]
    BY DEF RaceInv, FromLanded
  <2>4. CASE v.content.type[s] # {}
    <3>1. v = u
      BY <1>1, <2>2, <2>4
    <3>2. VetoShape(u.content, s)
      BY <1>2, <2>2 DEF Declared, Typed
    <3>3. QED
      BY <2>1, <2>3, <3>1, <3>2 DEF VetoShape
  <2>5. CASE v.content.type[s] = {}
    <3>1. EndsSeen(v.content, s, landed)
      BY <1>2, <2>5 DEF Seen, Typed
    <3>2. PICK t \in landed :
            t.content.type[s] # {} /\ \A x \in t.content.raisedOn[s] : x < c
      BY <2>3, <3>1 DEF EndsSeen
    <3>3. t = u
      BY <1>1, <2>2, <3>2
    <3>4. QED
      BY <2>1, <3>2, <3>3
  <2>6. QED
    BY <2>4, <2>5
<1>4. ASSUME store.type[s] \cap Inclusive # {},
             NEW o \in store.validFrom[s], NEW e \in store.validTo[s]
      PROVE  o <= e
  <2>1. PICK u \in landed : o \in u.content.validFrom[s]
    BY DEF RaceInv, FromLanded
  <2>2. u.content.type[s] # {} /\ u.content.type[s] \cap Inclusive # {}
    <3>1. PICK x \in store.type[s] \cap Inclusive : TRUE
      BY <1>4
    <3>2. PICK t \in landed : x \in t.content.type[s]
      BY <3>1 DEF RaceInv, FromLanded
    <3>3. QED
      BY <1>1, <1>2, <2>1, <3>1, <3>2
  <2>3. PICK v \in landed : e \in v.content.validTo[s]
    BY DEF RaceInv, FromLanded
  <2>4. CASE v.content.type[s] # {}
    <3>1. v = u
      BY <1>1, <2>2, <2>4
    <3>2. IntervalShape(u.content, s)
      BY <1>2, <2>2 DEF Declared, Typed
    <3>3. QED
      BY <2>1, <2>3, <3>1, <3>2 DEF IntervalShape
  <2>5. CASE v.content.type[s] = {}
    <3>1. EndsSeen(v.content, s, landed)
      BY <1>2, <2>5 DEF Seen, Typed
    <3>2. PICK t \in landed :
            /\ t.content.type[s] # {}
            /\ t.content.type[s] \cap Inclusive # {} =>
                  \A x \in t.content.validFrom[s] : x <= e
      BY <2>3, <3>1 DEF EndsSeen
    <3>3. t = u
      BY <1>1, <2>2, <3>2
    <3>4. QED
      BY <2>1, <2>2, <3>2, <3>3
  <2>6. QED
    BY <2>4, <2>5
<1>5. QED
  BY <1>3, <1>4

(* The invariant holds whatever the callers do.                                *)
LEMMA RaceInductive == ClientSpec => []RaceInv
BY RaceStart, RaceStep, PTL DEF ClientSpec

(* Under no discipline at all, an individual that one batch declared is     *)
(* never closed or cleared before it opened.                                *)
THEOREM RacesKeepOrder == ClientSpec => []EndsFollowOpenings
<1>1. RaceInv => EndsFollowOpenings
  BY RaceOrders
<1>2. QED
  BY <1>1, RaceInductive, PTL

(* And while every section was declared once, no restatement chain loops,   *)
(* although chains may fork.                                                *)
THEOREM RacesDoNotLoop == ClientSpec => []LoopsNeedRedeclaration
<1>1. RaceInv => LoopsNeedRedeclaration
  BY DEF RaceInv
<1>2. QED
  BY <1>1, RaceInductive, PTL
=============================================================================
