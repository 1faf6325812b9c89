---------------------------- MODULE SelectionGraph ----------------------------
(* The selection side of a backtest database: the six cycle views become the  *)
(* sibling graph of the run's m018 graph (projection/backtest.py,             *)
(* project_selection).  Conventions as in BacktestGraph.                      *)
EXTENDS BacktestGraph

CONSTANTS ScoreType,        \* the score types with a metric name
          SelectionRule     \* rules.ttl: records [rule, iri, from, to], to Null while in force

SelectionName(label, window, run) == <<"selection", label, window, run>>

(* _selection_context: all books agree on run, window and knowledge date.     *)
ContextRefused(db) ==
  \E b, c \in db.v_book : b.run # c.run \/ b.window # c.window \/ b.known # c.known
Context(label, db) ==
  LET b == CHOOSE c \in db.v_book : TRUE
  IN  [label |-> label, window |-> b.window, run |-> b.run, day |-> b.known,
       graph |-> SelectionName(label, b.window, b.run)]
RunFacts(c) == {<<"runLabel", c.label>>, <<"windowId", c.window>>, <<"backtestRunId", c.run>>}

Has(rows, cycle) == \E r \in rows : r.cycle = cycle

-----------------------------------------------------------------------------
CycleIri(c, cycle) == <<"Cycle", c.label, c.window, cycle>>
Cycle(c, r) == Individual(c.graph, CycleIri(c, r.cycle), "SelectionCycle",
                          {<<"cycleRunId", r.cycle>>, <<"status", r.status>>} \cup RunFacts(c))

SchemeIri(c, cycle) == <<"Scheme", c.label, c.window, cycle>>
Scheme(c, r) == Individual(c.graph, SchemeIri(c, r.cycle), "AttractivenessWeightScheme",
                           {<<"cycleRunId", r.cycle>>})

ConfiguredIri(c, r) == <<"Weight", c.label, c.window, r.cycle, r.score>>
Configured(c, r) ==
  With(Individual(c.graph, ConfiguredIri(c, r), "WeightComponent",
                  {<<"weightMetricName", r.score>>, <<"weightValue", r.weight>>}),
       {<<SchemeIri(c, r.cycle), "hasWeightComponent", ConfiguredIri(c, r)>>})

(* _cycles, _schemes, _configured_components: every scheme is a cycle's and   *)
(* has components, every component is a scheme's.                             *)
SchemesRefused(db) ==
  \/ \E r \in db.v_weight_scheme : ~Has(db.v_cycle_run, r.cycle)
  \/ \E r \in db.v_weight_component : ~Has(db.v_weight_scheme, r.cycle) \/ r.score \notin ScoreType
  \/ \E r \in db.v_weight_scheme : ~Has(db.v_weight_component, r.cycle)

(* _rankings: only those of a completed cycle are projected; it must have a   *)
(* scheme and an end.                                                         *)
Projected(db) == {r \in db.v_cycle_ranking :
                    \E k \in db.v_cycle_run : k.cycle = r.cycle /\ k.status = "completed"}
RankingsRefused(db) ==
  \/ \E r \in db.v_cycle_ranking : ~Has(db.v_cycle_run, r.cycle)
  \/ \E r \in Projected(db) :
       \/ ~Has(db.v_weight_scheme, r.cycle)
       \/ \E k \in db.v_cycle_run : k.cycle = r.cycle /\ k.finished = Null

SnapIri(c, r) == <<"Snap", c.label, c.window, r.cycle, r.asset>>
SelectionLink(property, db, ticker, assets) ==
  {<<property, a>> : a \in ResolveAsset(ticker, TickerCik(db.v_ticker_history, ticker), assets)}
Ranking(c, db, r, assets) ==
  Individual(c.graph, SnapIri(c, r), "AttractivenessSnapshot",
             {<<"rankingTicker", r.ticker>>, <<"rankingOfCycle", CycleIri(c, r.cycle)>>,
              <<"computedWithScheme", SchemeIri(c, r.cycle)>>}
             \cup RunFacts(c) \cup Optional("vetoRulesJson", r.rules)
             \cup SelectionLink("attractivenessOfAsset", db, r.ticker, assets))

(* _effective_components: those of a ranking that is not projected are only   *)
(* counted.                                                                   *)
Weighed(db) == {r \in db.v_cycle_ranking_component :
                  \E k \in Projected(db) : k.cycle = r.cycle /\ k.asset = r.asset}
EffectiveIri(c, r) == <<"RankComp", c.label, c.window, r.cycle, r.asset, r.score>>
Effective(c, r) ==
  With(Individual(c.graph, EffectiveIri(c, r), "WeightComponent",
                  {<<"weightMetricName", r.score>>}),
       {<<SnapIri(c, r), "hasEffectiveWeight", EffectiveIri(c, r)>>})

(* resolve_rule: the definition in force on the run's knowledge date.         *)
InForce(rule, day) ==
  {d \in SelectionRule : d.rule = rule /\ d.from <= day /\ (d.to = Null \/ day < d.to)}
VetoesRefused(c, db) == \E r \in db.v_veto : Cardinality(InForce(r.rule, c.day)) # 1

VetoIri(c, r) == <<"Veto", c.label, c.window, r.id>>
Veto(c, db, r, assets) ==
  Individual(c.graph, VetoIri(c, r), "Veto",
             {<<"vetoTicker", r.ticker>>, <<"cycleRun", r.cycle>>}
             \cup {<<"appliesRule", d.iri>> : d \in InForce(r.rule, c.day)}
             \cup {<<"primaryRule", d.iri>> : d \in InForce(r.rule, c.day)}
             \cup {<<"runAsOf", k.as_of>> : k \in {k \in db.v_cycle_run : k.cycle = r.cycle}}
             \cup RunFacts(c)
             \cup SelectionLink("vetoOfAsset", db, r.ticker, assets))

-----------------------------------------------------------------------------
(* project_selection_source: the m018 source check, the key checks and row    *)
(* counts of the six views, then the projection.  v_book itself does not pass *)
(* the boundary here.                                                         *)
SelectionStops(db) ==
  \/ db.v_cycle_ranking = {} \/ db.v_cycle_ranking_component = {}
  \/ Clash([r \in db.v_cycle_run |-> r.cycle]) \/ Clash([r \in db.v_weight_scheme |-> r.cycle])
  \/ Clash([r \in db.v_weight_component |-> <<r.cycle, r.score>>])
  \/ Clash([r \in db.v_cycle_ranking |-> <<r.cycle, r.asset>>])
  \/ Clash([r \in db.v_cycle_ranking_component |-> <<r.cycle, r.asset, r.score>>])
  \/ Clash([r \in db.v_veto |-> r.id])

SelectionRefused(label, db) ==
  \/ SourceRefused(db) \/ SelectionStops(db) \/ ContextRefused(db) \/ SchemesRefused(db)
  \/ RankingsRefused(db) \/ VetoesRefused(Context(label, db), db)
  \/ \E r \in Weighed(db) : r.score \notin ScoreType

SelectionIndividuals(label, db, assets) ==
  LET c == Context(label, db)
  IN  {Cycle(c, r) : r \in db.v_cycle_run}
      \cup {Scheme(c, r) : r \in db.v_weight_scheme}
      \cup {Configured(c, r) : r \in db.v_weight_component}
      \cup {Ranking(c, db, r, assets) : r \in Projected(db)}
      \cup {Effective(c, r) : r \in Weighed(db)}
      \cup {Veto(c, db, r, assets) : r \in db.v_veto}
=============================================================================
