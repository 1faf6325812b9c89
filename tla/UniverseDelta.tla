---------------------------- MODULE UniverseDelta ----------------------------
(***************************************************************************)
(* The asset catalog: universe.db's membership stints (etl/asset_master.py)*)
(* loaded once as a whole and then kept up to date by deltas               *)
(* (kg_store/universe.py), both through the ingest gate.                   *)
(*                                                                         *)
(* The source is edited by hand between runs.  A delta is computed from    *)
(* the source and from SELECTs on the store, checked by the gate later and *)
(* POSTed after that: the source and the store may have moved in between,  *)
(* and runs may overlap, as far as SameSource says.                        *)
(* cikNumber stands for every value of an asset the delta compares.        *)
(***************************************************************************)
EXTENDS Integers, FiniteSets, FiniteSetsExt

CONSTANTS Symbol,      (* ticker symbols, also the local names of assets      *)
          Reference,   (* the symbols reference.ttl declares as assets        *)
          Cik, NoCik,  (* company numbers, and a row without one              *)
          LastDay,     (* days are 1..LastDay                                 *)
          Since,       (* --since                                             *)
          FirstOfNext, (* the first day of the second calendar quarter        *)
          Run          (* invocations of cli/load_universe.py                 *)

ASSUME UniverseAssumption ==
  /\ Reference \subseteq Symbol
  /\ NoCik \notin Cik
  /\ LastDay \in Nat \ {0}
  /\ {Since, FirstOfNext} \subseteq Nat

Day == 1..LastDay
Open == LastDay + 1  (* no valid_to: _overlaps reads it as 9999-12-31         *)
Stint == [symbol : Symbol, cik : Cik \cup {NoCik}, from : Day, to : Day \cup {Open}]

VARIABLES source,   (* universe_membership, one row per stint                 *)
          today,
          assets,   (* stored :Asset -> its :cikNumber                        *)
          members,  (* stored :UniverseMembership -> asset, validTo values    *)
          touched,  (* individuals with statements but no declaration         *)
          graphs,   (* universe graphs that exist: quarter and number, 0=base *)
          batch     (* run -> the delta it has planned, if any                *)

store == <<assets, members, touched, graphs>>
vars == <<source, today, assets, members, touched, graphs, batch>>

-----------------------------------------------------------------------------
(* resolve_assets.  A company number whose symbols never share a day is one *)
(* asset named by its latest symbol; any overlap leaves one per symbol.     *)
KeepStints(S) == {s \in S : s.to >= Since}

Overlaps(l, r) == l.from <= r.to /\ r.from <= l.to
Succession(S) == \A l, r \in S : l.symbol # r.symbol => ~Overlaps(l, r)
Latest(S) == CHOOSE s \in S : \A r \in S : r.from <= s.from
Asset(name, S) == [symbol |-> name, stints |-> S]
BySymbol(S) ==
  {Asset(t, {s \in S : s.symbol = t}) : t \in {s.symbol : s \in S}}
ByCompany(S) ==
  UNION {LET line == {s \in S : s.cik = c}
         IN  IF Succession(line) THEN {Asset(Latest(line).symbol, line)}
             ELSE BySymbol(line) : c \in {s.cik : s \in S} \ {NoCik}}

(* _attach_cik_less: rows without a number join the one asset of that name. *)
Attach(A, loose) ==
  LET takes(l) == {a \in A : a.symbol = l.symbol}
      joined(a) == {l \in loose : l.symbol = a.symbol /\ takes(l) = {a}}
  IN  {Asset(a.symbol, a.stints \cup UNION {l.stints : l \in joined(a)}) : a \in A}
        \cup {l \in loose : Cardinality(takes(l)) # 1}
Resolve(S) == Attach(ByCompany(S), BySymbol({s \in S : s.cik = NoCik}))

(* _refuse_ticker_conflicts: AssetResolutionError.                          *)
Conflict(A) == \E a, b \in A : a # b /\ a.symbol = b.symbol

Membership(s) == <<s.symbol, s.from>>   (* membership_iri *)
DescribedBy(a) == Latest(a.stints).cik

-----------------------------------------------------------------------------
(* _classify: what the source says and the store does not.                  *)
RowOf(a, s) == [key |-> Membership(s), asset |-> a.symbol, to |-> s.to]
Rows(A) == UNION {{RowOf(a, s) : s \in a.stints} : a \in A}
NewAssets(A) == {a.symbol : a \in A} \ (DOMAIN assets \cup Reference)
NewMemberships(A) == {r \in Rows(A) : r.key \notin DOMAIN members}

(* _compare_membership, for a stored membership of a stored asset.          *)
Stored(r) == r.key \in DOMAIN members /\ r.asset \in DOMAIN assets
Closures(A) ==
  {r \in Rows(A) : /\ Stored(r)
                   /\ members[r.key].asset = r.asset
                   /\ members[r.key].to = {}
                   /\ r.to # Open}

(* Everything else that differs is drift: reported, never written.          *)
DifferingAssetsSlip(A) ==
  {a.symbol : a \in {a \in A : /\ a.symbol \in DOMAIN assets \ Reference
                               /\ DescribedBy(a) # NoCik
                               /\ assets[a.symbol] # DescribedBy(a)}}
DifferingAssets(A) ==
  {a.symbol : a \in {a \in A : /\ a.symbol \in DOMAIN assets \ Reference
                               /\ assets[a.symbol] # DescribedBy(a)}}
DifferingRows(A) ==
  {r.key : r \in {r \in Rows(A) : /\ r.key \in DOMAIN members
                                  /\ \/ r.asset \notin DOMAIN assets
                                     \/ members[r.key].asset # r.asset
                                     \/ members[r.key].to \notin {{}, {r.to} \ {Open}}}}
Drift(A) ==
  [assets |-> DifferingAssets(A)
                \cup (DOMAIN assets \ ({a.symbol : a \in A} \cup Reference)),
   rows |-> DifferingRows(A) \cup (DOMAIN members \ {r.key : r \in Rows(A)})]

Delta(A) ==
  [new |-> NewAssets(A), rows |-> NewMemberships(A), closures |-> Closures(A),
   drift |-> Drift(A), cik |-> [t \in NewAssets(A) |->
      DescribedBy(CHOOSE a \in A : a.symbol = t)]]
Actionable(d) == d.new # {} \/ d.rows # {} \/ d.closures # {}
Silent(d) == ~Actionable(d) /\ d.drift.assets = {} /\ d.drift.rows = {}

-----------------------------------------------------------------------------
(* The gate's checks of a catalog batch.  AssetShape, for every asset the   *)
(* batch declares or gives a membership: a CIK, or memberships, all closed. *)
Closing(d) == {r.key : r \in d.closures}
NewOf(d, t) == {r \in d.rows : r.asset = t}
CikOrClosedSlip(d, t) ==
  \/ t \notin d.new
  \/ t \in d.new /\ d.cik[t] # NoCik
  \/ NewOf(d, t) # {} /\ \A r \in NewOf(d, t) : r.to # Open
CikOrClosed(d, t) ==
  LET old == {m \in DOMAIN members : members[m].asset = t}
  IN  \/ t \in d.new /\ d.cik[t] # NoCik
      \/ t \notin d.new /\ assets[t] # NoCik
      \/ /\ NewOf(d, t) # {}
         /\ \A r \in NewOf(d, t) : r.to # Open
         /\ t \notin d.new => \A m \in old : members[m].to # {} \/ m \in Closing(d)
ShapesOK(d) ==
  /\ \A r \in d.rows : r.asset \in d.new \cup DOMAIN assets
  /\ \A t \in d.new \cup {r.asset : r \in d.rows} : CikOrClosed(d, t)

(* Check 6 (typed individuals are new) and check 7 (what is closed is open  *)
(* and opened before), with check 2 for the target graph.                   *)
AllNew(d) ==
  /\ d.new \cap (DOMAIN assets \cup touched) = {}
  /\ \A r \in d.rows : r.key \notin DOMAIN members
CanCloseSlip(r) == r.key \in DOMAIN members /\ r.key[2] <= r.to
CanClose(r) ==
  /\ r.key \in DOMAIN members
  /\ members[r.key].to = {}
  /\ r.key[2] <= r.to
GraphFree(g) == g \notin graphs
Accepted(d, g) ==
  ShapesOK(d) /\ GraphFree(g) /\ (\A r \in d.closures : CanClose(r)) /\ AllNew(d)

(* _render_delta and gate.write: the declarations, the new memberships with *)
(* their links, and a bare validTo per closure.                             *)
ValidTo(to) == {to} \ {Open}
ClosingsSlip(d, m) ==
  {r.to : r \in {r \in d.closures : r.key = m /\ d.rows # {}}}
Closings(d, m) == {r.to : r \in {r \in d.closures : r.key = m}}
Redeclared(d, m) == UNION {ValidTo(r.to) : r \in {r \in d.rows : r.key = m}}
Append(d, g) ==
  /\ assets' = [t \in DOMAIN assets \cup d.new |->
                  IF t \in d.new THEN d.cik[t] ELSE assets[t]]
  /\ members' = [m \in DOMAIN members \cup {r.key : r \in d.rows} |->
       IF m \in DOMAIN members
       THEN [members[m] EXCEPT !.to = @ \cup Closings(d, m) \cup Redeclared(d, m)]
       ELSE LET r == CHOOSE r \in d.rows : r.key = m
            IN  [asset |-> r.asset, to |-> ValidTo(r.to)]]
  /\ touched' = touched \ d.new
  /\ graphs' = graphs \cup {g}

-----------------------------------------------------------------------------
Quarter(day) == IF day < FirstOfNext THEN 1 ELSE 2
Base(q) == [quarter |-> q, number |-> 0]
DeltaGraphSlip(q) == [quarter |-> q, number |-> 1]
DeltaGraph(q) ==
  [quarter |-> q,
   number |-> 1 + Max({0} \cup {g.number : g \in {g \in graphs : g.quarter = q}})]

NoBatch == [planned |-> FALSE, checked |-> FALSE]

Init ==
  /\ source = {}
  /\ today = 1
  /\ assets = [t \in Reference |-> CHOOSE c \in Cik : TRUE]
  /\ members = [m \in {} |-> {}]
  /\ touched = {}
  /\ graphs = {}
  /\ batch = [r \in Run |-> NoBatch]

(* The source is refreshed by hand: a company joins the index, leaves it    *)
(* (its row then usually loses its number), trades under a new symbol, or a   *)
(* closing date was wrong by a day.                                         *)
Current(t) == {s \in source : s.symbol = t /\ s.to = Open}
NewRow(t, c) ==
  /\ Current(t) = {}
  /\ \A s \in source : s.symbol = t => s.to < today
  /\ c \in Cik
Closed(s, day, c) == [s EXCEPT !.to = day, !.cik = c]
OpenRow(t, c) == [symbol |-> t, cik |-> c, from |-> today, to |-> Open]

Join(t, c) ==
  /\ NewRow(t, c)
  /\ source' = source \cup {OpenRow(t, c)}
  /\ UNCHANGED <<today, store, batch>>
Leave(t) ==
  /\ \E s \in Current(t), c \in Cik \cup {NoCik} :
        /\ c \in {s.cik, NoCik}
        /\ source' = (source \ {s}) \cup {Closed(s, today, c)}
  /\ UNCHANGED <<today, store, batch>>
Rename(t, u) ==
  /\ \E s \in Current(t) :
        /\ NewRow(u, s.cik)
        /\ s.from < today
        /\ source' = (source \ {s}) \cup {Closed(s, today - 1, s.cik), OpenRow(u, s.cik)}
  /\ UNCHANGED <<today, store, batch>>
Correct(t) ==
  /\ \E s \in source : /\ s.symbol = t /\ s.to \in s.from..today - 1
                       /\ source' = (source \ {s}) \cup {[s EXCEPT !.to = @ + 1]}
  /\ UNCHANGED <<today, store, batch>>
NextDay ==
  /\ today < LastDay
  /\ today' = today + 1
  /\ UNCHANGED <<source, store, batch>>

(* A score batch may link a ticker the catalog does not hold: the asset has *)
(* statements (hasScoreObservation) before it is declared.                  *)
ScoreFirst(t) ==
  /\ t \notin DOMAIN assets
  /\ touched' = touched \cup {t}
  /\ UNCHANGED <<source, today, assets, members, graphs, batch>>

(* load_universe.py --write: the whole catalog, which :SP500Index makes a   *)
(* one-time load whatever the quarter (check 6).                            *)
Catalog(A) ==
  [new |-> {a.symbol : a \in A} \ Reference, rows |-> Rows(A), closures |-> {},
   cik |-> [t \in {a.symbol : a \in A} \ Reference |->
      DescribedBy(CHOOSE a \in A : a.symbol = t)]]
LoadCatalog ==
  LET A == Resolve(KeepStints(source))
      g == Base(Quarter(today))
  IN  /\ ~Conflict(A)
      /\ \A h \in graphs : h.number # 0
      /\ \A r \in Run : ~batch[r].checked
      /\ Accepted(Catalog(A), g)
      /\ Append(Catalog(A), g)
      /\ UNCHANGED <<source, today, batch>>

(* plan_delta: refused when two companies claim a name, when a reference    *)
(* asset is missing or when there is no catalog yet.                        *)
Plannable ==
  /\ ~Conflict(Resolve(KeepStints(source)))
  /\ Reference \subseteq DOMAIN assets
  /\ members # [m \in {} |-> {}]
PlanDelta(r) ==
  /\ ~batch[r].planned
  /\ Plannable
  /\ LET kept == KeepStints(source)
         d == Delta(Resolve(kept))
     IN  batch' = [batch EXCEPT ![r] =
           [planned |-> TRUE, checked |-> FALSE, kept |-> kept, delta |-> d,
            graph |-> DeltaGraph(Quarter(today))]]
  /\ UNCHANGED <<source, today, store>>

(* write_delta: gate.plan again, on the store as it is now; a refused delta  *)
(* and an empty one change nothing.  Assumption on the operators: whoever     *)
(* passes the gate while another request is under way has planned the same   *)
(* rows of the source.  Nothing in the code sees to it (PLAN.md:2090).       *)
Admitted(r) == Actionable(batch[r].delta) /\ Accepted(batch[r].delta, batch[r].graph)
SameSource(r) == \A q \in Run : batch[q].checked => batch[q].kept = batch[r].kept
CheckDelta(r) ==
  /\ batch[r].planned /\ ~batch[r].checked /\ SameSource(r)
  /\ batch' = [batch EXCEPT ![r] =
                 IF Admitted(r) THEN [@ EXCEPT !.checked = TRUE] ELSE NoBatch]
  /\ UNCHANGED <<source, today, store>>

(* gate.write: the POST reaches the store, at once or after its caller has   *)
(* given it up as in doubt, or never.                                       *)
PostDelta(r) ==
  /\ batch[r].checked
  /\ batch' = [batch EXCEPT ![r] = NoBatch]
  /\ Append(batch[r].delta, batch[r].graph)
  /\ UNCHANGED <<source, today>>
LoseDelta(r) ==
  /\ batch[r].checked
  /\ batch' = [batch EXCEPT ![r] = NoBatch]
  /\ UNCHANGED <<source, today, store>>

Next ==
  \/ \E t \in Symbol, c \in Cik : Join(t, c)
  \/ \E t \in Symbol : Leave(t)
  \/ \E t, u \in Symbol : Rename(t, u)
  \/ \E t \in Symbol : Correct(t)
  \/ NextDay
  \/ \E t \in Symbol : ScoreFirst(t)
  \/ LoadCatalog
  \/ \E r \in Run : PlanDelta(r)
  \/ \E r \in Run : CheckDelta(r) \/ PostDelta(r) \/ LoseDelta(r)

Spec == Init /\ [][Next]_vars

-----------------------------------------------------------------------------
(* The runbook's sanity check before a backtest write: a delta that finds   *)
(* nothing to write and no drift means that the stored catalog is what the  *)
(* source describes, membership by membership.                              *)
InSync(A) ==
  /\ {a.symbol : a \in A} \ Reference = DOMAIN assets \ Reference
  /\ \A a \in A : a.symbol \notin Reference => assets[a.symbol] = DescribedBy(a)
  /\ DOMAIN members = {r.key : r \in Rows(A)}
  /\ \A r \in Rows(A) : members[r.key] = [asset |-> r.asset, to |-> ValidTo(r.to)]
SilenceMeansInSync ==
  LET A == Resolve(KeepStints(source))
  IN  Plannable /\ Silent(Delta(A)) => InSync(A)

(* However many deltas overlapped, or landed twice after a lost answer, and   *)
(* whichever quarter each was planned in, a stored membership belongs to a    *)
(* stored asset and closed at most once, not before it opened.               *)
CatalogTimeline ==
  \A m \in DOMAIN members :
     /\ members[m].asset \in DOMAIN assets
     /\ Cardinality(members[m].to) <= 1
     /\ \A d \in members[m].to : m[2] <= d

(* AssetShape is only evaluated on the assets of a batch, yet it holds of   *)
(* every stored one: no asset without a CIK has an open membership.         *)
OpenMembershipsHaveCik ==
  \A m \in DOMAIN members :
     members[m].to = {} => assets[members[m].asset] # NoCik

(* What keeps a delta from landing: a fresh plan the gate refuses contains  *)
(* an asset that already has statements, an open membership of an asset     *)
(* without a CIK, or a new asset without a CIK and without memberships of   *)
(* its own.  Nothing else ever blocks the catalog.                          *)
Blocked(d) ==
  \/ d.new \cap touched # {}
  \/ \E r \in d.rows : r.to = Open /\ r.asset \notin d.new /\ assets[r.asset] = NoCik
  \/ \E t \in d.new : /\ d.cik[t] = NoCik
                      /\ NewOf(d, t) = {} \/ \E r \in NewOf(d, t) : r.to = Open
FreshDeltasLand ==
  LET d == Delta(Resolve(KeepStints(source)))
  IN  Plannable /\ Actionable(d) =>
        Accepted(d, DeltaGraph(Quarter(today))) \/ Blocked(d)

(* A re-run is idempotent (PLAN.md, Work item 28): once a delta has landed, *)
(* the next plan of the same source has nothing left to write, although     *)
(* other deltas may have landed between its plan, its check and its POST.   *)
RepeatIsEmpty ==
  [][\A r \in Run :
       PostDelta(r) /\ KeepStints(source) = batch[r].kept
         => ~Actionable(Delta(Resolve(KeepStints(source))))']_vars

=============================================================================
