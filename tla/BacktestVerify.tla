---------------------------- MODULE BacktestVerify ----------------------------
(* The verifier (projection/verify_backtest.py): the checks that compare a    *)
(* stored backtest graph with what its database gives today.  Expected        *)
(* figures come from the rows or a fresh projection, stored ones from SELECT  *)
(* queries on the graph's triples; both are counts and groups, never the      *)
(* triples themselves.                                                        *)
EXTENDS SelectionGraph

(* A vetoRulesJson with the mark UNSCORED or UNPRICED is "UNSCORED" here; an  *)
(* absent one has neither.                                                    *)
ASSUME UnscoredAssumption == Null # "UNSCORED"

(* Batch: the triples of one graph among projected individuals.               *)
Batch(individuals, graph) == UNION {i.triples : i \in {j \in individuals : j.graph = graph}}

-----------------------------------------------------------------------------
(* SELECT helpers over a set T of triples.                                    *)
Typed(T, class) == {t[1] : t \in {u \in T : u[2] = "a" /\ u[3] = class}}
Triples(T, property) == {t \in T : t[2] = property}
Objects(T, property) == {t[3] : t \in Triples(T, property)}
Subjects(T, property) == {t[1] : t \in Triples(T, property)}
Of(T, s, property) == {t[3] : t \in {u \in T : u[1] = s /\ u[2] = property}}
The(T, s, property) == CHOOSE o \in Of(T, s, property) : TRUE

RunRows(rows, run) == {r \in rows : r.run = run}

(* A Counter: each group with its size.                                       *)
Counts(group) ==
  {<<group[x], Cardinality({y \in DOMAIN group : group[y] = group[x]})>> : x \in DOMAIN group}

(* The label, window and run that the individuals of a class carry.           *)
Identities(T, class) ==
  UNION {{<<l, w, r>> : l \in Of(T, s, "runLabel"), w \in Of(T, s, "windowId"),
                        r \in Of(T, s, "backtestRunId")} : s \in Typed(T, class)}

(* The failed checks among a record of verdicts.                              *)
Failed(checks) == {name \in DOMAIN checks : ~checks[name]}

-----------------------------------------------------------------------------
(* _source_guard_summaries and _store_guard_summaries: each period summary's  *)
(* own number of guard actions beside the APPLIED actions decided inside it.  *)
SourceActed(db, run) ==
  {<<s.book, s.arm, s.segment, s.acted,
     Cardinality({a \in RunRows(db.v_guard_action, run) :
        a.book = s.book /\ a.status = "APPLIED" /\ s.from <= a.decision /\ a.decision <= s.to})>> :
     s \in RunRows(db.v_portfolio_period_summary, run)}
StoredActed(T) ==
  {<<The(T, s, "bookId"), The(T, s, "armCode"), The(T, s, "segment"), The(T, s, "nGuardActions"),
     Cardinality({a \in Typed(T, "GuardAction") :
        /\ The(T, a, "bookId") = The(T, s, "bookId")
        /\ The(T, a, "armCode") = The(T, s, "armCode")
        /\ The(T, a, "status") = "APPLIED"
        /\ The(T, s, "dateFrom") <= The(T, a, "decisionDate")
        /\ The(T, a, "decisionDate") <= The(T, s, "dateTo")})>> :
     s \in Typed(T, "PortfolioPeriodSummary")}
Consistent(acted) == \A e \in acted : e[4] = e[5]

(* _last_nav and _store_last_nav: the last day and net asset value of an arm. *)
LastNav(navs) == {n \in navs : \A m \in navs : m[1] = n[1] => m[2] <= n[2]}
SourceNav(db, run) == LastNav({<<p.arm, p.date, p.nav>> :
                                 p \in RunRows(db.v_book_daily_performance, run)})
StoredNav(T) == LastNav({<<The(T, p, "armCode"), The(T, p, "performanceDate"), The(T, p, "nav")>> :
                           p \in Typed(T, "BookDailyPerformance")})

SourceAlerts(db, run) ==
  Counts([a \in RunRows(db.v_guard_alert, run) |-> <<a.rule, a.layer, a.state>>])
StoredAlerts(T) ==
  Counts([a \in Typed(T, "GuardAlert") |->
            <<The(T, a, "alertRule")[2], The(T, a, "guardLayer"), The(T, a, "alertState")>>])
SourceStatuses(db, run) ==
  Counts([a \in RunRows(db.v_guard_action, run) |-> a.status])
StoredStatuses(T) ==
  Counts([a \in Typed(T, "GuardAction") |-> The(T, a, "status")])

PublishedByBook == {"rebalanceOfBook", "actionOfBook", "weightOfBook", "performanceOfBook",
                    "summaryOfBook"}
Labelled(T, s) ==
  \/ Of(T, s, "runLabel") # {}
  \/ \E p \in PublishedByBook : \E b \in Of(T, s, p) : Of(T, b, "runLabel") # {}

ClassOf == [v_book |-> "StrategyBook", v_book_rebalance |-> "BookRebalance",
            v_guard_alert |-> "GuardAlert", v_guard_action |-> "GuardAction",
            v_book_weight_daily |-> "BookWeightDaily",
            v_book_daily_performance |-> "BookDailyPerformance",
            v_portfolio_period_summary |-> "PortfolioPeriodSummary",
            v_backtest_test |-> "BacktestTest"]

(* Rows that cannot be linked, and stored individuals that are not.           *)
UnlinkedRows(tickers, assets) == {t \in tickers : t[2] # Null /\ t[2] \notin assets}
Unlinked(T, class, key, link) ==
  {s \in Typed(T, class) : Of(T, s, key) # {} /\ Of(T, s, link) = {}}

(* verify: the checks of an m018 graph T against a database that projects.    *)
(* The graph's name and what its books say it is.                             *)
IdentityChecks(label, graph, db, assets, T) ==
  LET names == {i.graph : i \in BacktestIndividuals(label, db, assets)}
  IN  [graph |-> /\ graph[2] = label /\ T # {} /\ graph \in names
                 /\ Identities(T, "StrategyBook") = {<<label, graph[3], graph[4]>>}]

CountChecks(label, graph, db, assets, T) ==
  [triples |-> Cardinality(T) = Cardinality(Batch(BacktestIndividuals(label, db, assets), graph)),
   individuals |-> \A v \in BacktestViews :
                     Cardinality(Typed(T, ClassOf[v])) = Cardinality(RunRows(db[v], graph[4]))]

(* Distinct linked assets, and at most as many unlinked individuals as rows   *)
(* whose ticker is not loaded; cash is nothing to link.                       *)
LinkChecks(graph, db, assets, T) ==
  LET Rows(view) == RunRows(db[view], graph[4])
      held == {<<r, r.holding>> : r \in {w \in Rows("v_book_weight_daily") : w.holding # Cash}}
      alerted == {<<r, r.ticker>> : r \in Rows("v_guard_alert")}
      guarded == {<<r, r.ticker>> : r \in Rows("v_guard_action")}
      Linked(rows, property) ==
        Cardinality(Objects(T, property)) = Cardinality({h[2] : h \in rows} \cap assets)
      unheld == {s \in Unlinked(T, "BookWeightDaily", "holdingKey", "holdingAsset") :
                   Of(T, s, "holdingKey") # {Cash}}
      Unguarded(class) == Unlinked(T, class, "guardTicker", "guardAsset")
      NoMore(stored, rows) == Cardinality(stored) <= Cardinality(rows)
  IN  [holding |-> Linked(held, "holdingAsset"),
       guard |-> Linked(alerted \cup guarded, "guardAsset"),
       unlinked |-> /\ NoMore(unheld, {h \in held : h[2] \notin assets})
                    /\ NoMore(Unguarded("GuardAlert"), UnlinkedRows(alerted, assets))
                    /\ NoMore(Unguarded("GuardAction"), UnlinkedRows(guarded, assets))]

(* Alerts by rule, layer and state, actions by status, the actions of each    *)
(* period summary, and no threshold of a basing-point alert.                  *)
GuardChecks(graph, db, T) ==
  LET run == graph[4]
      published == {a \in Typed(T, "GuardAlert") : The(T, a, "alertRule")[2] \in BasingPoints}
  IN  [alerts |-> StoredAlerts(T) = SourceAlerts(db, run),
       statuses |-> StoredStatuses(T) = SourceStatuses(db, run),
       acted |-> /\ SourceActed(db, run) = StoredActed(T)
                 /\ Consistent(SourceActed(db, run)) /\ Consistent(StoredActed(T)),
       published |-> /\ Cardinality(published)
                        = Cardinality({a \in RunRows(db.v_guard_alert, run) : a.rule \in BasingPoints})
                     /\ \A a \in published : Of(T, a, "alertThreshold") = {}]

BookChecks(graph, db, T) ==
  LET run == graph[4]
  IN  [nav |-> StoredNav(T) = SourceNav(db, run),
       cash |-> Cardinality({s \in Typed(T, "BookWeightDaily") : Of(T, s, "holdingKey") = {Cash}})
                = Cardinality({w \in RunRows(db.v_book_weight_daily, run) : w.holding = Cash}),
       labelled |-> \A v \in BacktestViews \ {"v_guard_alert"} :
                      \A s \in Typed(T, ClassOf[v]) : Labelled(T, s),
       dated |-> \A v \in BacktestViews :
                   \A s \in Typed(T, ClassOf[v]) : Of(T, s, "knowledgeDate") # {}]

BacktestFailures(label, graph, db, assets, T) ==
  Failed(IdentityChecks(label, graph, db, assets, T))
  \cup Failed(CountChecks(label, graph, db, assets, T))
  \cup Failed(LinkChecks(graph, db, assets, T))
  \cup Failed(GuardChecks(graph, db, T)) \cup Failed(BookChecks(graph, db, T))

-----------------------------------------------------------------------------
(* The cross-graph check of a selection graph T: the m018 sibling M has       *)
(* rebalances with a cycle, no MARKOWITZ arm does, and the cycles are in T.   *)
Rebalanced(M) ==
  UNION {{<<arm, cycle>> : arm \in Of(M, The(M, s, "rebalanceOfBook"), "armCode"),
                           cycle \in Of(M, s, "cycleRunId")} : s \in Typed(M, "BookRebalance")}
CrossGraph(M, T, markowitz) ==
  /\ Rebalanced(M) # {}
  /\ \A r \in Rebalanced(M) :
       /\ r[1] \notin markowitz
       /\ \E s \in Typed(T, "SelectionCycle") : r[2] \in Of(T, s, "cycleRunId")

VetoGroups(T) == Counts([v \in Typed(T, "Veto") |-> The(T, v, "appliesRule")])

(* Snapshots without an effective weight; the stored ones must say why.       *)
Placeholders(T) == {s \in Typed(T, "AttractivenessSnapshot") : Of(T, s, "hasEffectiveWeight") = {}}
Explained(T) == {s \in Placeholders(T) : "UNSCORED" \in Of(T, s, "vetoRulesJson")}

(* verify_selection: a selection graph T, with its m018 sibling M.            *)
CycleChecks(label, graph, db, assets, T) ==
  LET inds == SelectionIndividuals(label, db, assets)
      Same(class, rows) == Cardinality(Typed(T, class)) = Cardinality(rows)
  IN  [graph |-> /\ graph[2] = label /\ T # {} /\ graph \in {i.graph : i \in inds}
                 /\ Identities(T, "SelectionCycle") = {<<label, graph[3], graph[4]>>},
       triples |-> Cardinality(T) = Cardinality(Batch(inds, graph)),
       individuals |-> /\ Same("SelectionCycle", db.v_cycle_run)
                       /\ Same("AttractivenessSnapshot", Projected(db))
                       /\ Same("AttractivenessWeightScheme", db.v_weight_scheme)
                       /\ Same("Veto", db.v_veto)]

RankingChecks(label, graph, db, assets, T) ==
  LET expected == Batch(SelectionIndividuals(label, db, assets), graph)
      Same(property) ==
        Cardinality(Objects(T, property)) = Cardinality(Objects(expected, property))
      NoMore(class, key, link) == Cardinality(Unlinked(T, class, key, link))
                                  <= Cardinality(Unlinked(expected, class, key, link))
  IN  [components |-> Same("hasEffectiveWeight") /\ Same("hasWeightComponent"),
       placeholders |-> Cardinality(Explained(T)) = Cardinality(Placeholders(expected)),
       links |-> Same("attractivenessOfAsset") /\ Same("vetoOfAsset"),
       unlinked |-> /\ NoMore("AttractivenessSnapshot", "rankingTicker", "attractivenessOfAsset")
                    /\ NoMore("Veto", "vetoTicker", "vetoOfAsset"),
       vetoes |-> VetoGroups(T) = VetoGroups(expected)]

SelectionFailures(label, graph, db, assets, T, M, markowitz) ==
  Failed(CycleChecks(label, graph, db, assets, T))
  \cup Failed(RankingChecks(label, graph, db, assets, T))
  \cup (IF CrossGraph(M, T, markowitz) THEN {} ELSE {"crossGraph"})
=============================================================================
