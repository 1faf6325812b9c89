---------------------------- MODULE ReferenceGraph ----------------------------
(* Ticker-history snapshots and orchestrator runs as named graphs             *)
(* (projection/reference.py, project): one graph for the whole history of a   *)
(* label and date, one per orchestrator run of a label.                       *)
EXTENDS BacktestGraph

TickerGraph(label, snapshot) == <<"ticker-history", label, snapshot>>
OrchestratorGraph(label, run) == <<"orchestrator", label, run>>

TickerIri(label, snapshot, r) == <<"TickerHistory", label, snapshot, r.cik, r.symbol, r.from>>

(* _check_canonical_latest: the canonical symbol of a company's latest rows   *)
(* is the symbol of one of them.                                              *)
Latest(history, cik) == {r \in history : r.cik = cik /\
                           \A s \in history : s.cik = cik => s.from <= r.from}
TickersRefused(label, snapshot, history) ==
  \/ \E r \in history : r.to # Null /\ r.to < r.from
  \/ Clash([r \in history |-> TickerIri(label, snapshot, r)])
  \/ \E r \in history : \E s \in Latest(history, r.cik) :
       s.canonical \notin {t.symbol : t \in Latest(history, r.cik)}

(* _ticker_history.                                                           *)
Ticker(label, snapshot, r, assets) ==
  Individual(TickerGraph(label, snapshot), TickerIri(label, snapshot, r), "TickerHistory",
             {<<"tickerHistoryCik", r.cik>>, <<"historicalSymbol", r.symbol>>,
              <<"canonicalSymbol", r.canonical>>, <<"validFrom", r.from>>}
             \cup Optional("validTo", r.to)
             \cup {<<"tickerHistoryAsset", a>> : a \in ResolveAsset(r.canonical, r.cik, assets)})

OrchestratorRunIri(label, run) == <<"OrchestratorRun", label, run>>
OrchestratorRun(label, r) ==
  Individual(OrchestratorGraph(label, r.run), OrchestratorRunIri(label, r.run),
             "OrchestratorRun", {<<"orchestratorRunId", r.run>>} \cup Optional("status", r.status))

OrchestratorStepIri(label, r) == <<"OrchestratorStep", label, r.run, r.ordinal>>
OrchestratorStep(label, r) ==
  Individual(OrchestratorGraph(label, r.run), OrchestratorStepIri(label, r), "OrchestratorStep",
             {<<"stepOfOrchestratorRun", OrchestratorRunIri(label, r.run)>>,
              <<"ordinal", r.ordinal>>})

OrchestratorRefused(label, db) ==
  \/ \E r \in db.v_orchestrator_run : r.run < 1
  \/ \E r \in db.v_orchestrator_step :
       r.ordinal < 1 \/ ~\E k \in db.v_orchestrator_run : k.run = r.run
  \/ Clash([r \in db.v_orchestrator_run |-> OrchestratorRunIri(label, r.run)])
  \/ Clash([r \in db.v_orchestrator_step |-> OrchestratorStepIri(label, r)])

(* project.  The status of a run is not asked for: a running one is projected *)
(* with the steps it has so far.                                              *)
ReferenceRefused(label, snapshot, db) ==
  TickersRefused(label, snapshot, db.v_ticker_history) \/ OrchestratorRefused(label, db)
ReferenceIndividuals(label, snapshot, db, assets) ==
  {Ticker(label, snapshot, r, assets) : r \in db.v_ticker_history}
  \cup {OrchestratorRun(label, r) : r \in db.v_orchestrator_run}
  \cup {OrchestratorStep(label, r) : r \in db.v_orchestrator_step}
=============================================================================
