---------------------------- MODULE GraphProjector ----------------------------
(* The three projector commands (project_backtest.py, project_selection.py,   *)
(* project_reference.py) run over several databases against one store, while  *)
(* upstream delivers the databases again, the universe database moves on and  *)
(* the catalog is loaded from it.  A command clash-checks its databases, then *)
(* reads, projects and writes one after the other, graph by graph, through    *)
(* the ingest gate; the first error ends it.                                  *)
EXTENDS BacktestVerify, ReferenceGraph, Functions, Sequences

CONSTANTS Slot,            \* the --db arguments; a slot is a path
          Label,           \* the run label given with each: [Slot -> labels]
          Delivery,        \* what the slots may hold: a set of [Slot -> databases]
          Later,           \* what upstream may put there afterwards: [Slot -> sets of them]
          CommandLine,     \* records [side, mode, slots, day], slots a sequence
          Universe,        \* the contents universe.db goes through, a sequence
          Reference,       \* the assets of reference.ttl: symbol -> number
          Markowitz,       \* the arms without a selection cycle
          MaxCommands, MaxDeliveries

(* parse_args refuses a path given twice.                                     *)
ASSUME ProjectorAssumption ==
  /\ Null \notin Slot /\ MaxCommands \in Nat
  /\ \A line \in CommandLine : /\ line.side \in {"m018", "selection", "reference"}
                                /\ line.slots \in Seq(Slot) /\ IsInjective(line.slots)

(* The views of a backtest database, each with finitely many rows.            *)
Views == BacktestViews \cup
  {"v_cycle_run", "v_weight_scheme", "v_weight_component", "v_cycle_ranking",
   "v_cycle_ranking_component", "v_veto", "v_ticker_history", "v_orchestrator_run",
   "v_orchestrator_step"}
IsDatabase(content) == \A v \in Views : IsFiniteSet(content[v])

ASSUME DatabaseAssumption ==
  /\ \A d \in Delivery : DOMAIN d = Slot /\ \A s \in Slot : IsDatabase(d[s])
  /\ \A s \in Slot : \A content \in Later[s] : IsDatabase(content)

VARIABLES
  db,          \* what each slot holds
  universe,    \* how far universe.db is
  catalog,     \* the symbols the store declares as assets
  graphs,      \* the stored projected graphs: name -> triples
  origin,      \* history: what each was projected from
  command,     \* the running or last command line, with the assets it read
  queue,       \* the slots not yet read
  todo,        \* the individuals of the current database and its graphs to go
  report,      \* what the command did so far, all databases
  printed,     \* what it told the operator when it ended
  outcome, budget

vars == <<db, universe, catalog, graphs, origin, command, queue, todo, report, printed,
          outcome, budget>>

NoReport == [written |-> {}, already |-> {}, rejected |-> {}, checked |-> {}, doubt |-> {}]
NoWork == [slot |-> Null, individuals |-> {}, graphs |-> {}, report |-> NoReport]
Both(r, s) == [f \in DOMAIN r |-> r[f] \cup s[f]]

-----------------------------------------------------------------------------
(* universe_assets: the reference individuals, over which a universe row wins. *)
LoadedAssets ==
  [s \in DOMAIN Reference \cup DOMAIN Universe[universe] |->
     IF s \in DOMAIN Universe[universe] THEN Universe[universe][s] ELSE Reference[s]]

Refused(side, slot, content, day) ==
  CASE side = "m018" -> BacktestRefused(Label[slot], content)
    [] side = "selection" -> SelectionRefused(Label[slot], content)
    [] side = "reference" -> ReferenceRefused(Label[slot], day, content)
Individuals(side, slot, content, day, assets) ==
  CASE side = "m018" -> BacktestIndividuals(Label[slot], content, DOMAIN assets)
    [] side = "selection" -> SelectionIndividuals(Label[slot], content, assets)
    [] side = "reference" -> ReferenceIndividuals(Label[slot], day, content, assets)

(* graph_names: what v_book alone says, before anything is checked.           *)
GraphNames(side, slot) ==
  {IF side = "m018" THEN GraphName(Label[slot], b.window, b.run)
   ELSE SelectionName(Label[slot], b.window, b.run) : b \in db[slot].v_book}

(* Slip: only the labels of a reference load are compared.                    *)
CollideSlip(line) ==
  \E s, t \in Range(line.slots) : s # t /\ line.side = "reference" /\ Label[s] = Label[t]

(* project and parse_args: no two databases may give one graph (m018,         *)
(* selection; --check-store does not ask) or one label (reference).           *)
Collide(line) ==
  \E s, t \in Range(line.slots) :
    /\ s # t
    /\ \/ line.side = "reference" /\ Label[s] = Label[t]
       \/ /\ line.side # "reference" /\ line.mode # "check"
          /\ GraphNames(line.side, s) \cap GraphNames(line.side, t) # {}

-----------------------------------------------------------------------------
(* gate.plan on one projected batch: sh:class on what it links to, then       *)
(* whether the graph exists, then whether one of its individuals does.        *)
AssetProperties == {"holdingAsset", "guardAsset", "tickerHistoryAsset"}
OwnProperties == PublishedByBook \cup {"actionAlert", "rankingOfCycle", "stepOfOrchestratorRun"}
Stored == UNION {graphs[g] : g \in DOMAIN graphs}
Declared(T) == {t[1] : t \in {u \in T : u[2] = "a"}}

(* Slip: the class of what a batch links to is not asked for.                 *)
ConformsSlip(batch, assets, context) ==
  {t[3] : t \in {u \in batch : u[2] \in OwnProperties}} \subseteq Declared(batch \cup context)

Conforms(batch, assets, context) ==
  /\ \A p \in AssetProperties : Objects(batch, p) \subseteq assets
  /\ {t[3] : t \in {u \in batch : u[2] \in OwnProperties}} \subseteq Declared(batch \cup context)

Verdict(graph, batch) ==
  IF ~Conforms(batch, catalog, Stored) THEN "rejected"
  ELSE IF graph \in DOMAIN graphs THEN "already"
  ELSE IF Declared(batch) \cap {t[1] : t \in Stored} # {}
       THEN "rejected" ELSE "new"

-----------------------------------------------------------------------------
Init ==
  /\ db \in Delivery
  /\ universe = 1 /\ catalog = DOMAIN Reference
  /\ graphs = [g \in {} |-> {}] /\ origin = [g \in {} |-> NoWork]
  /\ command = [line |-> CHOOSE c \in CommandLine : TRUE, assets |-> Reference]
  /\ queue = <<>> /\ todo = NoWork /\ report = NoReport /\ printed = NoReport
  /\ outcome = "none" /\ budget = [commands |-> MaxCommands, deliveries |-> MaxDeliveries]

Idle == outcome # "running"

(* Upstream puts another database in a slot, between commands: the clash      *)
(* check and the projection each read v_book, and a file that is replaced     *)
(* between those two reads is left out.                                       *)
Redeliver(slot, content) ==
  /\ Idle /\ budget.deliveries > 0 /\ content # db[slot]
  /\ db' = [db EXCEPT ![slot] = content]
  /\ budget' = [budget EXCEPT !.deliveries = @ - 1]
  /\ UNCHANGED <<universe, catalog, graphs, origin, command, queue, todo, report, printed, outcome>>

(* The ETL extends universe.db.                                               *)
UniverseMoves ==
  /\ universe < Len(Universe) /\ universe' = universe + 1
  /\ UNCHANGED <<db, catalog, graphs, origin, command, queue, todo, report, printed, outcome, budget>>

(* load_universe loads what universe.db holds into the store's catalog.       *)
CatalogLoad ==
  /\ catalog' = catalog \cup DOMAIN Universe[universe] /\ catalog' # catalog
  /\ UNCHANGED <<db, universe, graphs, origin, command, queue, todo, report, printed, outcome, budget>>

(* main: the databases are read in the order given.                           *)
Start(line) ==
  /\ Idle /\ budget.commands > 0
  /\ budget' = [budget EXCEPT !.commands = @ - 1]
  /\ command' = [line |-> line, assets |-> LoadedAssets]
  /\ printed' = NoReport /\ UNCHANGED <<todo, report>>
  /\ IF Collide(line)
     THEN queue' = <<>> /\ outcome' = "usage"
     ELSE queue' = line.slots /\ outcome' = "running"
  /\ UNCHANGED <<db, universe, catalog, graphs, origin>>

Running == outcome = "running" /\ UNCHANGED <<db, universe, catalog, command, budget>>
Ready == todo.slot # Null

(* project_source: a database that is refused ends the command; the results   *)
(* of the databases before it are lost with it.                               *)
(* The process ends: what it had in memory is gone.                           *)
End(result) == outcome' = result /\ queue' = <<>> /\ todo' = NoWork /\ report' = NoReport

Reads == Running /\ ~Ready /\ queue # <<>>
RefusedSlots ==
  {s \in Range(queue) : Refused(command.line.side, s, db[s], command.line.day)}

Open ==
  /\ Reads /\ Head(queue) \notin RefusedSlots
  /\ LET slot == Head(queue)
         inds == Individuals(command.line.side, slot, db[slot], command.line.day, command.assets)
     IN  todo' = [slot |-> slot, individuals |-> inds, graphs |-> {i.graph : i \in inds},
                  report |-> NoReport]
  /\ queue' = Tail(queue)
  /\ UNCHANGED <<graphs, origin, report, printed, outcome>>

Stop ==
  /\ Reads /\ Head(queue) \in RefusedSlots
  /\ End("stopped") /\ UNCHANGED <<graphs, origin, printed>>

(* run, one graph: a dry run validates beside rules.ttl and universe.db, and  *)
(* a refusal is not caught; a check or a write asks the gate, and skips what  *)
(* it refuses or holds.  A check prints as it goes.                           *)
Settle(graph, field) ==
  /\ todo' = [todo EXCEPT !.graphs = @ \ {graph}, !.report[field] = @ \cup {graph}]
  /\ printed' = IF command.line.mode = "check" THEN Both(report, todo'.report) ELSE printed
  /\ UNCHANGED <<queue, report, outcome>>

Validate(graph) ==
  /\ Running /\ graph \in todo.graphs /\ command.line.mode = "dry"
  /\ \/ /\ Conforms(Batch(todo.individuals, graph), DOMAIN command.assets, {})
        /\ Settle(graph, "checked")
     \/ /\ ~Conforms(Batch(todo.individuals, graph), DOMAIN command.assets, {})
        /\ End("traceback") /\ UNCHANGED printed
  /\ UNCHANGED <<graphs, origin>>

Skip(graph) ==
  /\ Running /\ graph \in todo.graphs /\ command.line.mode # "dry"
  /\ LET verdict == Verdict(graph, Batch(todo.individuals, graph))
     IN  \/ command.line.mode = "check" /\ verdict = "new" /\ Settle(graph, "checked")
         \/ verdict = "already" /\ Settle(graph, "already")
         \/ verdict = "rejected" /\ Settle(graph, "rejected")
  /\ UNCHANGED <<graphs, origin>>

Land(graph) ==
  /\ graphs' = [g \in DOMAIN graphs \cup {graph} |->
                  IF g = graph THEN Batch(todo.individuals, graph) ELSE graphs[g]]
  /\ origin' = [g \in DOMAIN origin \cup {graph} |->
                  IF g = graph THEN [side |-> command.line.side, label |-> Label[todo.slot],
                                     db |-> db[todo.slot], command |-> budget.commands]
                  ELSE origin[g]]

Posts(graph) == /\ Running /\ command.line.mode = "write" /\ graph \in todo.graphs
                /\ Verdict(graph, Batch(todo.individuals, graph)) = "new"

Write(graph) == Posts(graph) /\ Land(graph) /\ Settle(graph, "written")

(* StoreInterrupted: the answer to the POST is lost.  Only the report of the  *)
(* current database is printed.                                               *)
Doubt(graph) ==
  /\ Posts(graph)
  /\ Land(graph) \/ UNCHANGED <<graphs, origin>>
  /\ printed' = [todo.report EXCEPT !.doubt = {graph}] /\ End("interrupted")

(* Any other GraphDBError, in a check before the POST or as its answer, is no *)
(* StoreInterrupted: nothing is printed.                                      *)
StoreFails ==
  /\ Running /\ Ready /\ todo.graphs # {} /\ command.line.mode # "dry"
  /\ End("failed at the store") /\ UNCHANGED <<graphs, origin, printed>>

Close ==
  /\ Running /\ Ready /\ todo.graphs = {}
  /\ report' = Both(report, todo.report) /\ todo' = NoWork
  /\ UNCHANGED <<graphs, origin, queue, printed, outcome>>

(* Slip: a rejected graph leaves the exit status alone.                       *)
FinishSlip ==
  /\ Running /\ ~Ready /\ queue = <<>>
  /\ printed' = (IF command.line.mode = "check" THEN printed ELSE report)
  /\ End("ok") /\ UNCHANGED <<graphs, origin>>

(* main: every result is printed; a rejected graph makes the exit status 1.   *)
Finish ==
  /\ Running /\ ~Ready /\ queue = <<>>
  /\ printed' = (IF command.line.mode = "check" THEN printed ELSE report)
  /\ End(IF report.rejected = {} THEN "ok" ELSE "rejected") /\ UNCHANGED <<graphs, origin>>

Work == \/ Open \/ Stop \/ Close \/ Finish
        \/ \E g \in todo.graphs : Validate(g) \/ Skip(g) \/ Write(g)
Faults == StoreFails \/ \E g \in todo.graphs : Doubt(g)
Next == \/ \E s \in Slot : \E content \in Later[s] : Redeliver(s, content)
        \/ UniverseMoves \/ CatalogLoad \/ Work \/ Faults
        \/ \E line \in CommandLine : Start(line)
Spec == Init /\ [][Next]_vars

-----------------------------------------------------------------------------
(* The rows of a database that become individuals of a side.                  *)
Size(S) == Cardinality(S)
Projecting(side, content) ==
  CASE side = "m018" ->
         Size(content.v_book) + Size(content.v_guard_alert) + Size(content.v_book_rebalance)
         + Size(content.v_guard_action) + Size(content.v_book_weight_daily)
         + Size(content.v_book_daily_performance) + Size(content.v_portfolio_period_summary)
         + Size(content.v_backtest_test)
    [] side = "selection" ->
         Size(content.v_cycle_run) + Size(content.v_weight_scheme)
         + Size(content.v_weight_component) + Size(Projected(content)) + Size(Weighed(content))
         + Size(content.v_veto)
    [] side = "reference" ->
         Size(content.v_ticker_history) + Size(content.v_orchestrator_run)
         + Size(content.v_orchestrator_step)

(* No two rows of a database share an individual: rows of two runs, of two    *)
(* arms or of two views included.  The IRIs name a window, never a run, so it *)
(* is the checks of backtest.py and the key checks together that keep it.     *)
OneIndividualPerRow ==
  Ready => /\ Size({i.iri : i \in todo.individuals}) = Size(todo.individuals)
           /\ Size(todo.individuals) = Projecting(command.line.side, db[todo.slot])

(* What a stored graph says about an individual of its database it also       *)
(* declares: no link between the rows of a run leaves the run's graph, in     *)
(* whatever order the graphs of a command and the commands were written.      *)
(* (Holds of databases in which no two runs share a window.)                  *)
OneRunPerWindow(content) ==
  \A b, c \in content.v_book : b.window = c.window => b.run = c.run
LinksStayInGraph ==
  \A g \in DOMAIN graphs : OneRunPerWindow(origin[g].db) =>
    {t[1] : t \in graphs[g]} \cup {t[3] : t \in {u \in graphs[g] : u[2] \in OwnProperties}}
    \subseteq Declared(graphs[g])

(* The assets a stored m018 or ticker-history graph links to are declared in  *)
(* the catalog, although the projector takes them from universe.db, which the *)
(* catalog may lag behind.                                                    *)
LinksResolve ==
  \A g \in DOMAIN graphs : \A p \in AssetProperties : Objects(graphs[g], p) \subseteq catalog

(* A graph that a command reports as already in the store was there before    *)
(* the command: one database never hides behind another of the same command.  *)
AlreadyMeansEarlier ==
  \A g \in report.already \cup todo.report.already :
    origin[g].command # budget.commands

(* A write that ends well has every graph of every database it was given in   *)
(* the store, and has told the operator of each.                              *)
DoneMeansStored ==
  [][outcome = "running" /\ outcome' = "ok" /\ command.line.mode = "write" =>
       \A slot \in Range(command.line.slots) :
         LET named == {i.graph : i \in Individuals(command.line.side, slot, db[slot],
                                                  command.line.day, command.assets)}
         IN  named \subseteq printed'.written \cup printed'.already /\ named \subseteq DOMAIN graphs]_vars

(* The verifier passes a graph that has just landed, every check of it, but   *)
(* for what is wrong in the source itself: a period summary that disagrees    *)
(* with the APPLIED actions, a ranking without weights that does not say why, *)
(* cycles that the rebalances do not share or no m018 sibling of the same     *)
(* database to share them with.                                               *)
ActedFaults(content, run) == IF Consistent(SourceActed(content, run)) THEN {} ELSE {"acted"}
RankingFaults(content) ==
  IF \A r \in Projected(content) :
        r.rules = "UNSCORED" \/ \E w \in Weighed(content) : w.cycle = r.cycle /\ w.asset = r.asset
  THEN {} ELSE {"placeholders"}
CycleFaults(content, sibling) ==
  LET rebalances == {r \in content.v_book_rebalance : r.cycle # Null}
  IN  IF /\ sibling \in DOMAIN graphs /\ origin[sibling].db = content /\ rebalances # {}
         /\ \A r \in rebalances : r.arm \notin Markowitz /\ Has(content.v_cycle_run, r.cycle)
      THEN {} ELSE {"crossGraph"}
Sibling(g) == GraphName(g[2], g[3], g[4])
FreshGraphsVerify ==
  [][\A g \in DOMAIN graphs' \ DOMAIN graphs :
       LET o == origin'[g]
           M == IF o.side = "selection" /\ Sibling(g) \in DOMAIN graphs THEN graphs[Sibling(g)] ELSE {}
       IN  /\ o.side = "m018" =>
                BacktestFailures(o.label, g, o.db, DOMAIN command.assets, graphs'[g])
                \subseteq ActedFaults(o.db, g[4])
           /\ o.side = "selection" =>
                SelectionFailures(o.label, g, o.db, command.assets, graphs'[g], M, Markowitz)
                \subseteq RankingFaults(o.db) \cup CycleFaults(o.db, Sibling(g))]_vars
=============================================================================
