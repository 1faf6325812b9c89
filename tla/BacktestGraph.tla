---------------------------- MODULE BacktestGraph ----------------------------
(* What the eight m018 views of a backtest database become                    *)
(* (projection/backtest.py, project): one typed individual per row, in the    *)
(* graph of the row's run.  A database is a record with one set of rows per   *)
(* view; rows keep the columns that identify, link or are verified, the other *)
(* columns are copied literally and left out.  A triple is <<s, p, o>>, an    *)
(* IRI a tuple that starts with its stem, an asset its symbol.                *)
EXTENDS AssetLink, Naturals

CONSTANTS Cash,             \* the holding key of uninvested money
          Arm,              \* the closed vocabulary of arm codes
          GuardLayer,       \* the GUARD rules of rules.ttl: rule id -> layer
          BasingPoints      \* the L1_BP_* rules, whose thresholds are not published

GraphName(label, window, run) == <<"backtest", label, window, run>>

(* Projection.individual and the builder.add calls of one row.                *)
Individual(graph, iri, class, properties) ==
  [graph |-> graph, iri |-> iri, class |-> class,
   triples |-> {<<iri, "a", class>>} \cup {<<iri, p[1], p[2]>> : p \in properties}]
With(i, triples) == [i EXCEPT !.triples = @ \cup triples]
Optional(property, value) == IF value = Null THEN {} ELSE {<<property, value>>}

(* _link_asset: only a loaded ticker is linked.                               *)
LinkAsset(property, ticker, assets) ==
  IF ticker \in assets THEN {<<property, ticker>>} ELSE {}

(* Two rows with one name: an IRI or a key, given for each row.               *)
Clash(name) == \E r, s \in DOMAIN name : r # s /\ name[r] = name[s]

-----------------------------------------------------------------------------
BookIri(label, b) == <<"Book", label, b.window, b.arm>>

Book(label, b) ==
  Individual(GraphName(label, b.window, b.run), BookIri(label, b), "StrategyBook",
             {<<"bookId", b.book>>, <<"backtestRunId", b.run>>, <<"runLabel", label>>,
              <<"windowId", b.window>>, <<"armCode", b.arm>>, <<"knowledgeDate", b.known>>})

(* Slip: two runs of one window may share an arm.                             *)
BooksRefusedSlip(label, books) ==
  (\E b \in books : b.arm \notin Arm)
  \/ \E b, c \in books : b.run = c.run /\ b.window # c.window

(* A run has one window, and a window's arm one book.                         *)
BooksRefused(label, books) ==
  \/ \E b \in books : b.arm \notin Arm
  \/ \E b, c \in books : b.run = c.run /\ b.window # c.window
  \/ Clash([b \in books |-> BookIri(label, b)])

(* The window of a run, as v_book gives it.                                   *)
RunHasWindow(db, run, window) == \E b \in db.v_book : b.run = run /\ b.window = window

AlertIri(label, a) == <<"GuardAlert", label, a.window, a.alert>>

(* Slip: the threshold of a basing-point rule is published.                   *)
AlertSlip(label, a, assets) ==
  Individual(GraphName(label, a.window, a.run), AlertIri(label, a), "GuardAlert",
             {<<"alertId", a.alert>>, <<"backtestRunId", a.run>>, <<"windowId", a.window>>,
              <<"guardLayer", a.layer>>, <<"alertRule", <<"Rule", a.rule>>>>,
              <<"alertState", a.state>>, <<"knowledgeDate", a.known>>,
              <<"alertThreshold", a.threshold>>}
             \cup Optional("guardTicker", a.ticker) \cup LinkAsset("guardAsset", a.ticker, assets))

Alert(label, a, assets) ==
  Individual(GraphName(label, a.window, a.run), AlertIri(label, a), "GuardAlert",
             {<<"alertId", a.alert>>, <<"backtestRunId", a.run>>, <<"windowId", a.window>>,
              <<"guardLayer", a.layer>>, <<"alertRule", <<"Rule", a.rule>>>>,
              <<"alertState", a.state>>, <<"knowledgeDate", a.known>>}
             \cup Optional("guardTicker", a.ticker) \cup LinkAsset("guardAsset", a.ticker, assets)
             \cup (IF a.rule \in BasingPoints THEN {} ELSE {<<"alertThreshold", a.threshold>>}))

AlertsRefused(label, db) ==
  \/ \E a \in db.v_guard_alert :
       \/ ~RunHasWindow(db, a.run, a.window)
       \/ a.rule \notin DOMAIN GuardLayer
       \/ a.rule \in DOMAIN GuardLayer /\ a.layer # GuardLayer[a.rule]
  \/ Clash([a \in db.v_guard_alert |-> AlertIri(label, a)])

-----------------------------------------------------------------------------
(* The rows below a book.  Each must name a v_book row and agree with its run *)
(* and arm (_same_book); the two views with a window must agree on it too.    *)
TheBook(db, r) == CHOOSE b \in db.v_book : b.book = r.book
SameBook(db, r) == \E b \in db.v_book : b.book = r.book /\ b.run = r.run /\ b.arm = r.arm
SameWindow(db, r) == SameBook(db, r) /\ TheBook(db, r).window = r.window

Child(label, db, r, iri, class, ofBook, bookHas, properties) ==
  LET b == TheBook(db, r)
      node == Individual(GraphName(label, b.window, b.run), iri, class,
                properties \cup {<<"bookId", r.book>>, <<"backtestRunId", b.run>>,
                                 <<"armCode", b.arm>>, <<ofBook, BookIri(label, b)>>,
                                 <<"knowledgeDate", r.known>>})
  IN  With(node, {<<BookIri(label, b), bookHas, iri>>})

RebalanceIri(label, db, r) ==
  <<"Rebalance", label, TheBook(db, r).window, TheBook(db, r).arm, r.execution>>
Rebalance(label, db, r) ==
  Child(label, db, r, RebalanceIri(label, db, r), "BookRebalance", "rebalanceOfBook",
        "bookHasRebalance",
        {<<"rebalanceId", r.rebalance>>} \cup Optional("cycleRunId", r.cycle))

(* Slip: the alert is looked up by its number alone.                          *)
ActionAlertSlip(label, db, r) ==
  IF \E a \in db.v_guard_alert : a.alert = r.alert
  THEN AlertIri(label, CHOOSE a \in db.v_guard_alert : a.alert = r.alert)
  ELSE <<"GuardAlert", label, TheBook(db, r).window, r.alert>>

ActionAlert(label, db, r) == <<"GuardAlert", label, TheBook(db, r).window, r.alert>>
ActionIri(label, db, r) == <<"GuardAction", label, TheBook(db, r).window, r.action>>
Action(label, db, r, assets) ==
  With(Child(label, db, r, ActionIri(label, db, r), "GuardAction", "actionOfBook",
             "bookHasGuardAction",
             {<<"actionId", r.action>>, <<"decisionDate", r.decision>>, <<"status", r.status>>,
              <<"actionAlert", ActionAlert(label, db, r)>>}
             \cup Optional("guardTicker", r.ticker)
             \cup LinkAsset("guardAsset", r.ticker, assets)),
       {<<ActionAlert(label, db, r), "alertHasGuardAction", ActionIri(label, db, r)>>})

(* The alert is looked up by window and number among the alerts of the view.  *)
HasAlert(label, db, r) ==
  \E a \in db.v_guard_alert : AlertIri(label, a) = ActionAlert(label, db, r)

WeightIri(label, db, r) ==
  <<"BookWeight", label, TheBook(db, r).window, TheBook(db, r).arm, r.date, r.holding>>
Weight(label, db, r, assets) ==
  Child(label, db, r, WeightIri(label, db, r), "BookWeightDaily", "weightOfBook",
        "bookHasWeight",
        {<<"weightDate", r.date>>, <<"holdingKey", r.holding>>}
        \cup (IF r.holding = Cash THEN {} ELSE LinkAsset("holdingAsset", r.holding, assets)))

PerformanceIri(label, db, r) ==
  <<"BookPerf", label, TheBook(db, r).window, TheBook(db, r).arm, r.date>>
Performance(label, db, r) ==
  Child(label, db, r, PerformanceIri(label, db, r), "BookDailyPerformance",
        "performanceOfBook", "bookHasPerformance",
        {<<"windowId", r.window>>, <<"performanceDate", r.date>>, <<"nav", r.nav>>})

SummaryIri(label, db, r) ==
  <<"PeriodSummary", label, TheBook(db, r).window, TheBook(db, r).arm, r.segment>>
Summary(label, db, r) ==
  Child(label, db, r, SummaryIri(label, db, r), "PortfolioPeriodSummary", "summaryOfBook",
        "bookHasSummary",
        {<<"windowId", r.window>>, <<"segment", r.segment>>, <<"dateFrom", r.from>>,
         <<"dateTo", r.to>>, <<"nGuardActions", r.acted>>})

ChildrenRefused(label, db) ==
  \/ \E r \in db.v_book_rebalance \cup db.v_guard_action \cup db.v_book_weight_daily :
       ~SameBook(db, r)
  \/ \E r \in db.v_book_daily_performance \cup db.v_portfolio_period_summary : ~SameWindow(db, r)
  \/ \E r \in db.v_guard_action : ~HasAlert(label, db, r)
  \/ \E r \in db.v_book_weight_daily : r.holding = Cash /\ r.asset # Null
  \/ Clash([r \in db.v_book_rebalance |-> RebalanceIri(label, db, r)])
  \/ Clash([r \in db.v_guard_action |-> ActionIri(label, db, r)])
  \/ Clash([r \in db.v_book_weight_daily |-> WeightIri(label, db, r)])
  \/ Clash([r \in db.v_book_daily_performance |-> PerformanceIri(label, db, r)])
  \/ Clash([r \in db.v_portfolio_period_summary |-> SummaryIri(label, db, r)])

TestIri(label, r) == <<"BacktestTest", label, r.window, r.segment, r.arm_a, r.arm_b, r.test>>
Test(label, r) ==
  Individual(GraphName(label, r.window, r.run), TestIri(label, r), "BacktestTest",
             {<<"backtestRunId", r.run>>, <<"runLabel", label>>, <<"windowId", r.window>>,
              <<"segment", r.segment>>, <<"pValue", r.p>>, <<"knowledgeDate", r.known>>})
TestsRefused(label, db) ==
  \/ \E r \in db.v_backtest_test : ~RunHasWindow(db, r.run, r.window)
  \/ Clash([r \in db.v_backtest_test |-> TestIri(label, r)])

-----------------------------------------------------------------------------
(* project_source: the source check, the boundary's key checks (every view's  *)
(* cap is 0, so a repeated key stops the run), then the projection.           *)
SourceRefused(db) == db.v_book = {} \/ \E b \in db.v_book : b.status # "completed"

BoundaryStops(db) ==
  \/ Clash([r \in db.v_book |-> r.book])
  \/ Clash([r \in db.v_book |-> <<r.run, r.arm>>])
  \/ Clash([r \in db.v_book_rebalance |-> r.rebalance])
  \/ Clash([r \in db.v_guard_alert |-> r.alert])
  \/ Clash([r \in db.v_guard_action |-> r.action])
  \/ Clash([r \in db.v_guard_action |-> <<r.book, r.alert>>])

BacktestRefused(label, db) ==
  \/ SourceRefused(db) \/ BoundaryStops(db) \/ BooksRefused(label, db.v_book)
  \/ AlertsRefused(label, db) \/ ChildrenRefused(label, db) \/ TestsRefused(label, db)

BacktestIndividuals(label, db, assets) ==
  {Book(label, b) : b \in db.v_book}
  \cup {Alert(label, a, assets) : a \in db.v_guard_alert}
  \cup {Rebalance(label, db, r) : r \in db.v_book_rebalance}
  \cup {Action(label, db, r, assets) : r \in db.v_guard_action}
  \cup {Weight(label, db, r, assets) : r \in db.v_book_weight_daily}
  \cup {Performance(label, db, r) : r \in db.v_book_daily_performance}
  \cup {Summary(label, db, r) : r \in db.v_portfolio_period_summary}
  \cup {Test(label, r) : r \in db.v_backtest_test}

BacktestViews == {"v_book", "v_guard_alert", "v_book_rebalance", "v_guard_action",
                  "v_book_weight_daily", "v_book_daily_performance",
                  "v_portfolio_period_summary", "v_backtest_test"}
=============================================================================
