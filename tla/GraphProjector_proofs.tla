------------------------- MODULE GraphProjector_proofs -------------------------
(* For any databases, command lines, assets and faults: a write that ends well *)
(* has stored every graph of every database it was given, none is answered     *)
(* "already in store" for another's sake, the assets that stored graphs link   *)
(* to are in the catalog, the links between rows stay inside the graph of      *)
(* their run, no two rows share an individual, and the verifier passes every   *)
(* graph that lands.                                                           *)
EXTENDS GraphProjector, FiniteSetTheorems, SequenceTheorems, TLAPS

(* The graphs the running command projects from a slot; what a report answers  *)
(* for in a write.                                                             *)
Named(slot) ==
  {i.graph : i \in Individuals(command.line.side, slot, db[slot], command.line.day, command.assets)}
Answered(r) == r.written \cup r.already \cup r.rejected

IsReport(r) ==
  r = [written |-> r.written, already |-> r.already, rejected |-> r.rejected,
       checked |-> r.checked, doubt |-> r.doubt]
IsWork(w) ==
  /\ w = [slot |-> w.slot, individuals |-> w.individuals, graphs |-> w.graphs, report |-> w.report]
  /\ IsReport(w.report)

ShapeInv ==
  /\ queue \in Seq(Slot) /\ IsReport(report) /\ IsWork(todo)
  /\ Idle => report = NoReport /\ todo = NoWork

(* A slot of the command waits to be read, or every graph of it has an answer, *)
(* or it is the one being written and the graphs without an answer are to go.  *)
SlotsInv ==
  outcome = "running" /\ command.line.mode = "write" =>
    \A slot \in Range(command.line.slots) :
      \/ slot \in Range(queue)
      \/ Named(slot) \subseteq Answered(report)
      \/ Ready /\ slot = todo.slot /\ Named(slot) \subseteq todo.graphs \cup Answered(todo.report)
HeldInv ==
  report.written \cup report.already \cup todo.report.written \cup todo.report.already
  \subseteq DOMAIN graphs

-----------------------------------------------------------------------------
(* What the helpers do to the records.                                         *)
LEMMA EmptyShapes == IsReport(NoReport) /\ IsWork(NoWork) /\ ~(NoWork.slot # Null)
BY DEF IsReport, IsWork, NoReport, NoWork

(* An answer for a graph is noted in the report, and the graph is done.        *)
LEMMA SettleEffect ==
  ASSUME IsWork(todo), NEW graph, NEW field \in {"written", "already", "rejected", "checked"},
         Settle(graph, field)
  PROVE  /\ IsWork(todo')
         /\ todo'.slot = todo.slot /\ todo'.graphs = todo.graphs \ {graph}
         /\ todo'.report.written = IF field = "written" THEN todo.report.written \cup {graph} ELSE todo.report.written
         /\ todo'.report.already = IF field = "already" THEN todo.report.already \cup {graph} ELSE todo.report.already
         /\ todo'.report.rejected = IF field = "rejected" THEN todo.report.rejected \cup {graph} ELSE todo.report.rejected
         /\ UNCHANGED <<queue, report, outcome>>
BY DEF Settle, IsWork, IsReport

(* The summary of two reports answers for what either does.                    *)
LEMMA BothEffect ==
  ASSUME NEW r, NEW s, IsReport(r), IsReport(s)
  PROVE  /\ IsReport(Both(r, s))
         /\ Both(r, s).written = r.written \cup s.written
         /\ Both(r, s).already = r.already \cup s.already
         /\ Both(r, s).rejected = r.rejected \cup s.rejected
<1> DEFINE Fields == {"written", "already", "rejected", "checked", "doubt"}
<1>1. DOMAIN r = Fields
  BY DEF IsReport
<1>2. Both(r, s) = [f \in Fields |-> r[f] \cup s[f]]
  BY <1>1 DEF Both
<1>3. Both(r, s) = [written |-> r.written \cup s.written, already |-> r.already \cup s.already,
                    rejected |-> r.rejected \cup s.rejected, checked |-> r.checked \cup s.checked,
                    doubt |-> r.doubt \cup s.doubt]
  BY <1>2
<1>4. QED
  BY <1>3 DEF IsReport

(* A slot of the queue is its head or in its tail.                             *)
LEMMA QueueFacts ==
  ASSUME queue \in Seq(Slot), queue # <<>>
  PROVE  /\ Head(queue) \in Slot /\ Tail(queue) \in Seq(Slot)
         /\ \A slot \in Range(queue) : slot = Head(queue) \/ slot \in Range(Tail(queue))
<1>1. Head(queue) \in Slot /\ Tail(queue) \in Seq(Slot)
  BY HeadTailProperties
<1>2. ASSUME NEW slot \in Range(queue) PROVE slot = Head(queue) \/ slot \in Range(Tail(queue))
  <2>1. PICK i \in 1..Len(queue) : slot = queue[i]
    BY <1>2 DEF Range
  <2>2. CASE i = 1
    BY <2>1, <2>2
  <2>3. CASE i # 1
    <3>1. i - 1 \in 1..Len(Tail(queue)) /\ Tail(queue)[i - 1] = queue[i]
      BY <2>1, <2>3
    <3>2. DOMAIN Tail(queue) = 1..Len(Tail(queue))
      BY <1>1, LenProperties
    <3>3. QED
      BY <2>1, <3>1, <3>2 DEF Range
  <2>4. QED
    BY <2>2, <2>3
<1>3. QED
  BY <1>1, <1>2

-----------------------------------------------------------------------------
(* The shape of the records is kept, and an idle process has nothing in memory. *)
LEMMA ShapeStep == ASSUME ShapeInv, [Next]_vars PROVE ShapeInv'
<1> USE ProjectorAssumption
<1>1. ASSUME NEW slot \in Slot, NEW content \in Later[slot], Redeliver(slot, content) PROVE ShapeInv'
  BY <1>1 DEF ShapeInv, Redeliver, Idle
<1>2. CASE UniverseMoves \/ CatalogLoad \/ UNCHANGED vars
  BY <1>2 DEF ShapeInv, UniverseMoves, CatalogLoad, vars, Idle
<1>3. ASSUME NEW line \in CommandLine, Start(line) PROVE ShapeInv'
  <2>1. report = NoReport /\ todo = NoWork /\ UNCHANGED <<report, todo>>
    BY <1>3 DEF ShapeInv, Start
  <2>2. queue' \in Seq(Slot)
    BY <1>3, EmptySeq DEF Start
  <2>3. QED
    BY <2>1, <2>2 DEF ShapeInv, Idle
<1>4. ASSUME NEW result, End(result), result # "running" PROVE ShapeInv'
  BY <1>4, EmptyShapes DEF ShapeInv, End, Idle
<1>5. CASE Open
  <2>1. queue' \in Seq(Slot) /\ UNCHANGED <<report, outcome>> /\ outcome = "running"
    BY <1>5, QueueFacts DEF Open, Reads, Running, ShapeInv
  <2>2. IsWork(todo')
    BY <1>5, EmptyShapes DEF Open, IsWork
  <2>3. QED
    BY <2>1, <2>2 DEF ShapeInv, Idle
<1>6. CASE Close
  <2>1. IsReport(report') /\ todo' = NoWork /\ UNCHANGED <<queue, outcome>> /\ outcome = "running"
    BY <1>6, BothEffect DEF Close, Running, ShapeInv, IsWork
  <2>2. QED
    BY <2>1, EmptyShapes DEF ShapeInv, Idle
<1>7. CASE Stop \/ Finish \/ StoreFails
  BY <1>7, <1>4 DEF Stop, Finish, StoreFails
<1>8. ASSUME NEW graph, NEW field \in {"written", "already", "rejected", "checked"}, Running, Settle(graph, field)
      PROVE  ShapeInv'
  BY <1>8, SettleEffect DEF ShapeInv, Running, Idle
<1>9. ASSUME NEW graph \in todo.graphs, Validate(graph) \/ Skip(graph) \/ Write(graph) \/ Doubt(graph)
      PROVE  ShapeInv'
  BY <1>9, <1>4, <1>8 DEF Validate, Skip, Write, Doubt, Posts
<1>10. QED
  BY <1>1, <1>2, <1>3, <1>5, <1>6, <1>7, <1>9 DEF Next, Work, Faults

(* What a running write reports as stored is stored: graphs are never removed. *)
LEMMA HeldStep == ASSUME ShapeInv, HeldInv, [Next]_vars PROVE HeldInv'
<1>1. DOMAIN graphs \subseteq DOMAIN graphs'
  BY DEF Next, Redeliver, UniverseMoves, CatalogLoad, Start, Work, Faults, Open, Stop, Close, Finish,
         Validate, Skip, Write, Doubt, StoreFails, Land, vars
<1>2. CASE UNCHANGED <<report, todo>>
  BY <1>1, <1>2 DEF HeldInv
<1>3. ASSUME NEW result, End(result) PROVE HeldInv'
  BY <1>3 DEF HeldInv, End, NoReport, NoWork
<1>4. CASE Open
  BY <1>1, <1>4 DEF Open, HeldInv, NoReport
<1>5. CASE Close
  <2>1. /\ report'.written = report.written \cup todo.report.written
        /\ report'.already = report.already \cup todo.report.already
        /\ todo' = NoWork
    BY <1>5, BothEffect DEF Close, ShapeInv, IsWork
  <2>2. QED
    BY <2>1, <1>1 DEF HeldInv, NoWork, NoReport
<1>6. ASSUME NEW graph, NEW field \in {"written", "already", "rejected", "checked"}, Settle(graph, field),
             field \in {"written", "already"} => graph \in DOMAIN graphs'
      PROVE  HeldInv'
  BY <1>1, <1>6, SettleEffect DEF HeldInv, ShapeInv
<1>7. ASSUME NEW graph \in todo.graphs, Validate(graph) \/ Skip(graph) \/ Write(graph) \/ Doubt(graph)
      PROVE  HeldInv'
  <2>1. CASE Validate(graph)
    BY <2>1, <1>3, <1>6 DEF Validate
  <2>2. CASE Skip(graph)
    BY <2>2, <1>6 DEF Skip, Verdict
  <2>3. CASE Write(graph)
    BY <2>3, <1>6 DEF Write, Land
  <2>4. CASE Doubt(graph)
    BY <2>4, <1>3 DEF Doubt
  <2>5. QED
    BY <1>7, <2>1, <2>2, <2>3, <2>4
<1>8. QED
  BY <1>2, <1>3, <1>4, <1>5, <1>7
  DEF Next, Work, Faults, Redeliver, UniverseMoves, CatalogLoad, Start, Stop, Finish, StoreFails, vars

(* Every slot of a running write stays accounted for.                          *)
LEMMA SlotsStep == ASSUME ShapeInv, SlotsInv, [Next]_vars PROVE SlotsInv'
<1> USE ProjectorAssumption
<1>1. SUFFICES ASSUME outcome' = "running", command'.line.mode = "write",
                      NEW slot \in Range(command'.line.slots)
               PROVE  \/ slot \in Range(queue')
                      \/ Named(slot)' \subseteq Answered(report')
                      \/ Ready' /\ slot = todo'.slot
                         /\ Named(slot)' \subseteq todo'.graphs \cup Answered(todo'.report)
  BY DEF SlotsInv
<1>2. ASSUME NEW other \in Slot, NEW content \in Later[other], Redeliver(other, content) PROVE FALSE
  BY <1>1, <1>2 DEF Redeliver, Idle
<1>3. CASE UniverseMoves \/ CatalogLoad \/ UNCHANGED vars
  BY <1>1, <1>3 DEF SlotsInv, UniverseMoves, CatalogLoad, vars, Named, Answered, Ready
<1>4. ASSUME NEW line \in CommandLine, Start(line) PROVE slot \in Range(queue')
  BY <1>1, <1>4 DEF Start
<1>5. ASSUME NEW result, End(result), result # "running" PROVE FALSE
  BY <1>1, <1>5 DEF End
<1>6. ASSUME Running
      PROVE  /\ Named(slot)' = Named(slot)
             /\ \/ slot \in Range(queue)
                \/ Named(slot) \subseteq Answered(report)
                \/ Ready /\ slot = todo.slot /\ Named(slot) \subseteq todo.graphs \cup Answered(todo.report)
  BY <1>1, <1>6 DEF Running, Named, SlotsInv
<1>7. CASE Open
  <2>1. Running /\ ~Ready /\ queue \in Seq(Slot) /\ queue # <<>>
    BY <1>7 DEF Open, Reads, ShapeInv
  <2>2. /\ todo'.slot = Head(queue) /\ todo'.graphs = Named(Head(queue))
        /\ queue' = Tail(queue) /\ UNCHANGED report
    BY <1>7 DEF Open, Named
  <2>3. CASE slot = Head(queue)
    <3>1. Head(queue) \in Slot
      BY <2>1, QueueFacts
    <3>2. Ready' /\ slot = todo'.slot /\ Named(slot)' \subseteq todo'.graphs
      BY <2>1, <2>2, <2>3, <3>1, <1>6 DEF Ready
    <3>3. QED
      BY <3>2
  <2>4. CASE slot \in Range(Tail(queue))
    BY <2>2, <2>4
  <2>5. CASE Named(slot) \subseteq Answered(report)
    BY <2>1, <2>2, <2>5, <1>6 DEF Answered
  <2>6. QED
    BY <2>1, <2>3, <2>4, <2>5, <1>6, QueueFacts
<1>8. CASE Close
  <2>1. Running /\ todo.graphs = {} /\ UNCHANGED queue
    BY <1>8 DEF Close
  <2>2. Answered(report') = Answered(report) \cup Answered(todo.report)
    BY <1>8, BothEffect DEF Close, ShapeInv, IsWork, Answered
  <2>3. QED
    BY <2>1, <2>2, <1>6
<1>9. ASSUME NEW graph, NEW field \in {"written", "already", "rejected"}, Running, Settle(graph, field)
      PROVE  \/ slot \in Range(queue')
             \/ Named(slot)' \subseteq Answered(report')
             \/ Ready' /\ slot = todo'.slot
                /\ Named(slot)' \subseteq todo'.graphs \cup Answered(todo'.report)
  <2>1. /\ todo'.slot = todo.slot /\ todo'.graphs = todo.graphs \ {graph}
        /\ Answered(todo'.report) = Answered(todo.report) \cup {graph}
        /\ UNCHANGED <<queue, report>>
    BY <1>9, SettleEffect DEF ShapeInv, Answered
  <2>2. QED
    BY <2>1, <1>6, <1>9 DEF Ready
<1>10. ASSUME NEW graph \in todo.graphs, Validate(graph) \/ Skip(graph) \/ Write(graph) \/ Doubt(graph)
       PROVE  \/ slot \in Range(queue')
              \/ Named(slot)' \subseteq Answered(report')
              \/ Ready' /\ slot = todo'.slot
                 /\ Named(slot)' \subseteq todo'.graphs \cup Answered(todo'.report)
  <2>1. Running
    BY <1>10 DEF Validate, Skip, Write, Doubt, Posts
  <2>2. command.line.mode = "write"
    BY <2>1, <1>1 DEF Running
  <2>3. ~Validate(graph)
    BY <2>2 DEF Validate
  <2>4. CASE Skip(graph)
    BY <2>1, <2>2, <2>4, <1>9 DEF Skip
  <2>5. CASE Write(graph)
    BY <2>1, <2>5, <1>9 DEF Write
  <2>6. CASE Doubt(graph)
    BY <2>6, <1>5 DEF Doubt
  <2>7. QED
    BY <1>10, <2>3, <2>4, <2>5, <2>6
<1>11. CASE Stop \/ Finish \/ StoreFails
  BY <1>11, <1>5 DEF Stop, Finish, StoreFails
<1>12. QED
  BY <1>2, <1>3, <1>4, <1>7, <1>8, <1>10, <1>11 DEF Next, Work, Faults

(* The three facts together are inductive.                                     *)
LEMMA Inductive == Spec => [](ShapeInv /\ HeldInv /\ SlotsInv)
<1>1. Init => ShapeInv /\ HeldInv /\ SlotsInv
  <2> SUFFICES ASSUME Init PROVE ShapeInv /\ HeldInv /\ SlotsInv
    OBVIOUS
  <2>1. ShapeInv
    BY EmptyShapes, EmptySeq DEF Init, ShapeInv
  <2>2. HeldInv /\ SlotsInv
    BY DEF Init, HeldInv, SlotsInv, NoReport, NoWork
  <2>3. QED
    BY <2>1, <2>2
<1>2. QED
  BY <1>1, ShapeStep, HeldStep, SlotsStep, PTL DEF Spec

-----------------------------------------------------------------------------
(* A write that ends with exit status 0 has every graph of every database it   *)
(* was given in the store, and has told the operator of each, however many     *)
(* databases and graphs it had and whatever the store held.                    *)
THEOREM DoneStores == Spec => DoneMeansStored
<1> DEFINE Done == outcome = "running" /\ outcome' = "ok" /\ command.line.mode = "write" =>
       \A slot \in Range(command.line.slots) :
         LET named == {i.graph : i \in Individuals(command.line.side, slot, db[slot],
                                                  command.line.day, command.assets)}
         IN  named \subseteq printed'.written \cup printed'.already /\ named \subseteq DOMAIN graphs
<1>1. ShapeInv /\ HeldInv /\ SlotsInv /\ [Next]_vars => Done
  <2> SUFFICES ASSUME ShapeInv, HeldInv, SlotsInv, [Next]_vars,
                      outcome = "running", outcome' = "ok", command.line.mode = "write",
                      NEW slot \in Range(command.line.slots)
               PROVE  /\ Named(slot) \subseteq printed'.written \cup printed'.already
                      /\ Named(slot) \subseteq DOMAIN graphs
    BY DEF Named
  <2>1. Finish
    BY DEF Next, Work, Faults, Redeliver, UniverseMoves, CatalogLoad, Start, Open, Stop, Close, Validate,
           Skip, Write, Doubt, Posts, StoreFails, End, Settle, Idle, vars
  <2>2. report.rejected = {} /\ printed' = report /\ ~Ready /\ Range(queue) = {}
    BY <2>1 DEF Finish, End, Range
  <2>3. Named(slot) \subseteq report.written \cup report.already
    BY <2>2 DEF SlotsInv, Answered
  <2>4. QED
    BY <2>2, <2>3 DEF HeldInv
<1>2. QED
  BY <1>1, Inductive, PTL DEF Spec, DoneMeansStored

(* Every asset that a stored graph links to is in the catalog: the gate looks  *)
(* each up before the graph lands, and the catalog only grows.                 *)
THEOREM LinksFound == Spec => []LinksResolve
<1>1. Init => LinksResolve
  BY DEF Init, LinksResolve
<1>2. LinksResolve /\ [Next]_vars => LinksResolve'
  <2> SUFFICES ASSUME LinksResolve, [Next]_vars PROVE LinksResolve'
    OBVIOUS
  <2>1. CASE UNCHANGED graphs /\ catalog \subseteq catalog'
    BY <2>1 DEF LinksResolve
  <2>2. ASSUME NEW graph, Posts(graph), Land(graph) PROVE LinksResolve'
    <3>1. UNCHANGED catalog
      BY <2>2 DEF Posts, Running
    <3>2. \A p \in AssetProperties : Objects(Batch(todo.individuals, graph), p) \subseteq catalog
      BY <2>2 DEF Posts, Verdict, Conforms
    <3>3. ASSUME NEW g \in DOMAIN graphs', NEW p \in AssetProperties
          PROVE  Objects(graphs'[g], p) \subseteq catalog
      <4>1. CASE g = graph
        BY <2>2, <3>2, <4>1 DEF Land
      <4>2. CASE g # graph
        BY <2>2, <4>2 DEF Land, LinksResolve
      <4>3. QED
        BY <4>1, <4>2
    <3>4. QED
      BY <3>1, <3>3 DEF LinksResolve
  <2>3. QED
    BY <2>1, <2>2 DEF Next, Work, Faults, Redeliver, UniverseMoves, CatalogLoad, Start, Open, Stop, Close,
         Finish, Validate, Skip, Write, Doubt, StoreFails, Running, Reads, Posts, vars
<1>3. QED
  BY <1>1, <1>2, PTL DEF Spec

-----------------------------------------------------------------------------
(* The graphs of a database that is not refused are named by its books (m018,  *)
(* selection) or by its label (reference).                                     *)
LEMMA IndividualGraph ==
  ASSUME NEW graph, NEW iri, NEW class, NEW properties
  PROVE  /\ Individual(graph, iri, class, properties).graph = graph
         /\ \A more : With(Individual(graph, iri, class, properties), more).graph = graph
         /\ \A more, again :
               With(With(Individual(graph, iri, class, properties), more), again).graph = graph
BY DEF Individual, With

(* An m018 individual lies in a graph named after one of the books.            *)
LEMMA BacktestNames ==
  ASSUME NEW label, NEW content, NEW assets, ~BacktestRefused(label, content),
         NEW i \in BacktestIndividuals(label, content, assets)
  PROVE  \E b \in content.v_book : i.graph = GraphName(label, b.window, b.run)
<1> DEFINE Good == \E b \in content.v_book : i.graph = GraphName(label, b.window, b.run)
<1>1. ASSUME NEW r, SameBook(content, r)
      PROVE  TheBook(content, r) \in content.v_book
  BY <1>1 DEF SameBook, TheBook
<1>2. ASSUME NEW r, SameBook(content, r), NEW iri, NEW class, NEW of, NEW has, NEW properties,
             i = Child(label, content, r, iri, class, of, has, properties)
      PROVE  Good
  BY IndividualGraph, <1>1, <1>2 DEF Child
<1>3. ASSUME NEW r, SameBook(content, r), NEW iri, NEW class, NEW of, NEW has, NEW properties, NEW more,
             i = With(Child(label, content, r, iri, class, of, has, properties), more)
      PROVE  Good
  BY IndividualGraph, <1>1, <1>3 DEF Child
<1>4. CASE i \in {Book(label, b) : b \in content.v_book}
  <2>1. PICK b \in content.v_book : i = Book(label, b)
    BY <1>4
  <2>2. i.graph = GraphName(label, b.window, b.run)
    BY <2>1, IndividualGraph DEF Book
  <2>3. QED
    BY <2>2
<1>5. CASE i \in {Alert(label, a, assets) : a \in content.v_guard_alert}
  <2>1. PICK a \in content.v_guard_alert : i = Alert(label, a, assets)
    BY <1>5
  <2>2. RunHasWindow(content, a.run, a.window)
    BY DEF BacktestRefused, AlertsRefused
  <2>3. i.graph = GraphName(label, a.window, a.run)
    BY <2>1, IndividualGraph DEF Alert
  <2>4. QED
    BY <2>2, <2>3 DEF RunHasWindow
<1>6. \A r \in content.v_book_rebalance \cup content.v_guard_action \cup content.v_book_weight_daily
             \cup content.v_book_daily_performance \cup content.v_portfolio_period_summary :
        SameBook(content, r)
  BY DEF BacktestRefused, ChildrenRefused, SameWindow
<1>7. CASE i \in {Rebalance(label, content, r) : r \in content.v_book_rebalance}
  BY <1>2, <1>6, <1>7 DEF Rebalance
<1>8. CASE i \in {Action(label, content, r, assets) : r \in content.v_guard_action}
  BY <1>3, <1>6, <1>8 DEF Action
<1>9. CASE i \in {Weight(label, content, r, assets) : r \in content.v_book_weight_daily}
  BY <1>2, <1>6, <1>9 DEF Weight
<1>10. CASE i \in {Performance(label, content, r) : r \in content.v_book_daily_performance}
  BY <1>2, <1>6, <1>10 DEF Performance
<1>11. CASE i \in {Summary(label, content, r) : r \in content.v_portfolio_period_summary}
  BY <1>2, <1>6, <1>11 DEF Summary
<1>12. CASE i \in {Test(label, r) : r \in content.v_backtest_test}
  <2>1. PICK r \in content.v_backtest_test : i = Test(label, r)
    BY <1>12
  <2>2. RunHasWindow(content, r.run, r.window)
    BY DEF BacktestRefused, TestsRefused
  <2>3. i.graph = GraphName(label, r.window, r.run)
    BY <2>1, IndividualGraph DEF Test
  <2>4. QED
    BY <2>2, <2>3 DEF RunHasWindow
<1>13. QED
  BY <1>4, <1>5, <1>7, <1>8, <1>9, <1>10, <1>11, <1>12 DEF BacktestIndividuals

(* A selection individual lies in the graph of the context.                    *)
LEMMA SelectionNodes ==
  ASSUME NEW c, NEW content, NEW assets, NEW i,
         \/ i \in {Cycle(c, r) : r \in content.v_cycle_run}
         \/ i \in {Scheme(c, r) : r \in content.v_weight_scheme}
         \/ i \in {Configured(c, r) : r \in content.v_weight_component}
         \/ i \in {Ranking(c, content, r, assets) : r \in Projected(content)}
         \/ i \in {Effective(c, r) : r \in Weighed(content)}
         \/ i \in {Veto(c, content, r, assets) : r \in content.v_veto}
  PROVE  i.graph = c.graph
<1>1. ASSUME NEW r, i = Cycle(c, r) \/ i = Scheme(c, r) PROVE i.graph = c.graph
  BY <1>1, IndividualGraph DEF Cycle, Scheme
<1>2. ASSUME NEW r, i = Configured(c, r) PROVE i.graph = c.graph
  BY <1>2, IndividualGraph DEF Configured
<1>3. ASSUME NEW r, i = Effective(c, r) PROVE i.graph = c.graph
  BY <1>3, IndividualGraph DEF Effective
<1>4. ASSUME NEW r, i = Ranking(c, content, r, assets) PROVE i.graph = c.graph
  BY <1>4, IndividualGraph DEF Ranking
<1>5. ASSUME NEW r, i = Veto(c, content, r, assets) PROVE i.graph = c.graph
  BY <1>5, IndividualGraph DEF Veto
<1>6. QED
  BY <1>1, <1>2, <1>3, <1>4, <1>5

(* That graph, too, is named after one of the books.                           *)
LEMMA SelectionNames ==
  ASSUME NEW label, NEW content, NEW assets, ~SelectionRefused(label, content),
         NEW i \in SelectionIndividuals(label, content, assets)
  PROVE  \E b \in content.v_book : i.graph = SelectionName(label, b.window, b.run)
<1>1. i.graph = Context(label, content).graph
  BY SelectionNodes DEF SelectionIndividuals
<1>2. \E b \in content.v_book : Context(label, content).graph = SelectionName(label, b.window, b.run)
  BY DEF SelectionRefused, SourceRefused, Context
<1>3. QED
  BY <1>1, <1>2

(* A reference individual lies in the graph of its day, or of its run.         *)
LEMMA ReferenceNames ==
  ASSUME NEW label, NEW day, NEW content, NEW assets,
         NEW i \in ReferenceIndividuals(label, day, content, assets)
  PROVE  \/ i.graph = TickerGraph(label, day)
         \/ \E run : i.graph = OrchestratorGraph(label, run)
<1>1. ASSUME NEW r, i = Ticker(label, day, r, assets) PROVE i.graph = TickerGraph(label, day)
  BY <1>1, IndividualGraph DEF Ticker
<1>2. ASSUME NEW r, i = OrchestratorRun(label, r) PROVE i.graph = OrchestratorGraph(label, r.run)
  BY <1>2, IndividualGraph DEF OrchestratorRun
<1>3. ASSUME NEW r, i = OrchestratorStep(label, r) PROVE i.graph = OrchestratorGraph(label, r.run)
  BY <1>3, IndividualGraph DEF OrchestratorStep
<1>4. QED
  BY <1>1, <1>2, <1>3 DEF ReferenceIndividuals

(* Two databases that a write accepted together give no graph in common.       *)
Projectable(slot) == ~Refused(command.line.side, slot, db[slot], command.line.day)

(* A clash check that passed keeps the graphs of two slots apart.              *)
LEMMA Apart ==
  ASSUME command.line \in CommandLine, command.line.mode = "write", ~Collide(command.line),
         NEW s \in Range(command.line.slots), NEW t \in Range(command.line.slots), s # t,
         Projectable(s), Projectable(t)
  PROVE  Named(s) \cap Named(t) = {}
<1> DEFINE side == command.line.side
           day == command.line.day
           Inds(slot) == Individuals(side, slot, db[slot], day, command.assets)
<1>1. SUFFICES ASSUME NEW i \in Inds(s), NEW j \in Inds(t), i.graph = j.graph PROVE FALSE
  BY DEF Named
<1>2. side \in {"m018", "selection", "reference"}
  BY ProjectorAssumption
<1>3. CASE side = "m018"
  <2>1. i.graph \in GraphNames(side, s)
    BY <1>3, BacktestNames DEF Individuals, Projectable, Refused, GraphNames
  <2>2. j.graph \in GraphNames(side, t)
    BY <1>3, BacktestNames DEF Individuals, Projectable, Refused, GraphNames
  <2>3. QED
    BY <1>1, <1>3, <2>1, <2>2 DEF Collide
<1>4. CASE side = "selection"
  <2>1. i.graph \in GraphNames(side, s)
    BY <1>4, SelectionNames DEF Individuals, Projectable, Refused, GraphNames
  <2>2. j.graph \in GraphNames(side, t)
    BY <1>4, SelectionNames DEF Individuals, Projectable, Refused, GraphNames
  <2>3. QED
    BY <1>1, <1>4, <2>1, <2>2 DEF Collide
<1>5. CASE side = "reference"
  <2>1. Label[s] # Label[t]
    BY <1>5 DEF Collide
  <2>2. \/ i.graph = TickerGraph(Label[s], day)
        \/ \E run : i.graph = OrchestratorGraph(Label[s], run)
    BY <1>5, ReferenceNames DEF Individuals
  <2>3. \/ j.graph = TickerGraph(Label[t], day)
        \/ \E run : j.graph = OrchestratorGraph(Label[t], run)
    BY <1>5, ReferenceNames DEF Individuals
  <2>4. QED
    BY <1>1, <2>1, <2>2, <2>3 DEF TickerGraph, OrchestratorGraph
<1>6. QED
  BY <1>2, <1>3, <1>4, <1>5

-----------------------------------------------------------------------------
(* Commands are numbered downwards; what a running one has written came from   *)
(* slots it has taken from its queue, and is not among its graphs to go.       *)
OrderInv ==
  /\ budget = [commands |-> budget.commands, deliveries |-> budget.deliveries]
  /\ budget.commands \in Int /\ DOMAIN origin = DOMAIN graphs
  /\ \A g \in DOMAIN graphs : origin[g].command \in Int /\ origin[g].command >= budget.commands
Distinct == ~Collide(command.line)
Current == Projectable(todo.slot) /\ todo.graphs \subseteq Named(todo.slot)
CommandInv ==
  outcome = "running" =>
    /\ command.line \in CommandLine /\ Distinct
    /\ IsInjective(queue) /\ Range(queue) \subseteq Range(command.line.slots)
    /\ todo.graphs # {} => Ready
    /\ Ready => todo.slot \in Range(command.line.slots) \ Range(queue) /\ Current
CurrentInv ==
  outcome = "running" =>
    \A g \in DOMAIN graphs : origin[g].command = budget.commands =>
      /\ command.line.mode = "write" /\ g \notin todo.graphs
      /\ \E slot \in Range(command.line.slots) \ Range(queue) : Projectable(slot) /\ g \in Named(slot)

(* A queue that holds no slot twice loses its head when it is taken.           *)
LEMMA InjectiveQueue ==
  ASSUME queue \in Seq(Slot), queue # <<>>, IsInjective(queue)
  PROVE  /\ IsInjective(Tail(queue)) /\ Head(queue) \in Range(queue)
         /\ Range(Tail(queue)) = Range(queue) \ {Head(queue)}
<1>1. /\ DOMAIN queue = 1..Len(queue) /\ Len(queue) \in Nat \ {0} /\ Head(queue) = queue[1]
      /\ DOMAIN Tail(queue) = 1..(Len(queue) - 1)
      /\ \A i \in 1..(Len(queue) - 1) : Tail(queue)[i] = queue[i + 1]
  BY HeadTailProperties, LenProperties, EmptySeq
<1>2. IsInjective(Tail(queue)) /\ Head(queue) \in Range(queue)
  BY <1>1 DEF IsInjective, Range
<1>3. Range(Tail(queue)) \subseteq Range(queue) \ {Head(queue)}
  BY <1>1 DEF IsInjective, Range
<1>4. QED
  BY <1>2, <1>3, QueueFacts

(* No stored graph is of a command that has yet to start.                      *)
LEMMA OrderStep == ASSUME OrderInv, [Next]_vars PROVE OrderInv'
<1>1. CASE UNCHANGED <<graphs, origin, budget>>
  BY <1>1 DEF OrderInv
<1>2. ASSUME NEW slot \in Slot, NEW content \in Later[slot], Redeliver(slot, content) PROVE OrderInv'
  <2>1. /\ budget' = [commands |-> budget.commands, deliveries |-> budget.deliveries - 1]
        /\ UNCHANGED <<graphs, origin>>
    BY <1>2 DEF Redeliver, OrderInv
  <2>2. QED
    BY <2>1 DEF OrderInv
<1>3. ASSUME NEW line \in CommandLine, Start(line) PROVE OrderInv'
  <2>1. /\ budget' = [commands |-> budget.commands - 1, deliveries |-> budget.deliveries]
        /\ UNCHANGED <<graphs, origin>>
    BY <1>3 DEF Start, OrderInv
  <2>2. QED
    BY <2>1 DEF OrderInv
<1>4. ASSUME NEW graph, Land(graph), UNCHANGED budget PROVE OrderInv'
  <2>1. /\ DOMAIN origin' = DOMAIN graphs' /\ DOMAIN graphs' = DOMAIN graphs \cup {graph}
        /\ origin'[graph].command = budget.commands
        /\ \A g \in DOMAIN graphs \ {graph} : origin'[g] = origin[g]
    BY <1>4 DEF Land, OrderInv
  <2>2. QED
    BY <1>4, <2>1 DEF OrderInv
<1>5. QED
  BY <1>1, <1>2, <1>3, <1>4 DEF Next, Work, Faults, UniverseMoves, CatalogLoad, Open, Stop, Close, Finish,
     Validate, Skip, Write, Doubt, StoreFails, Running, Reads, Posts, vars

(* Nothing is delivered while a command runs.                                  *)
LEMMA RunningKeeps ==
  ASSUME Running
  PROVE  /\ outcome = "running" /\ UNCHANGED <<db, command, budget>> /\ Distinct' = Distinct
         /\ \A slot : Named(slot)' = Named(slot) /\ Projectable(slot)' = Projectable(slot)
BY DEF Running, Collide, GraphNames, Named, Projectable, Distinct

(* A running command is one of the command lines and has accepted its slot.    *)
LEMMA CommandStep == ASSUME ShapeInv, CommandInv, [Next]_vars PROVE CommandInv'
<1> USE ProjectorAssumption
<1>1. CASE outcome' # "running"
  BY <1>1 DEF CommandInv
<1>2. CASE UNCHANGED <<db, command, queue, todo, outcome>>
  <2>1. Distinct' = Distinct /\ Current' = Current
    BY <1>2 DEF Distinct, Collide, GraphNames, Current, Projectable, Named
  <2>2. QED
    BY <1>2, <2>1 DEF CommandInv, Ready
<1>3. ASSUME NEW line \in CommandLine, Start(line), outcome' = "running" PROVE CommandInv'
  <2>1. /\ command'.line = line /\ queue' = line.slots /\ ~Collide(line) /\ UNCHANGED <<db, todo>>
        /\ todo = NoWork
    BY <1>3 DEF Start, ShapeInv
  <2>2. Distinct'
    BY <2>1 DEF Distinct, Collide, GraphNames
  <2>3. ~Ready' /\ todo'.graphs = {}
    BY <2>1, EmptyShapes DEF Ready, NoWork
  <2>4. QED
    BY <2>1, <2>2, <2>3 DEF CommandInv
<1>4. CASE Open
  <2>1. /\ Running /\ queue \in Seq(Slot) /\ queue # <<>> /\ IsInjective(queue)
        /\ Range(queue) \subseteq Range(command.line.slots)
        /\ command.line \in CommandLine /\ Distinct
    BY <1>4 DEF Open, Reads, Running, ShapeInv, CommandInv
  <2>2. /\ todo'.slot = Head(queue) /\ todo'.graphs = Named(Head(queue)) /\ queue' = Tail(queue)
        /\ Head(queue) \notin RefusedSlots
    BY <1>4 DEF Open, Named
  <2>3. Projectable(Head(queue))
    BY <2>1, <2>2, InjectiveQueue DEF RefusedSlots, Projectable
  <2>4. Ready'
    BY <2>1, <2>2, QueueFacts DEF Ready
  <2>5. IsInjective(queue') /\ Range(queue') \subseteq Range(command.line.slots)
    BY <2>1, <2>2, InjectiveQueue
  <2>6. todo'.slot \in Range(command.line.slots) \ Range(queue')
    BY <2>1, <2>2, InjectiveQueue
  <2>7. UNCHANGED <<db, command>> /\ Distinct'
    BY <2>1, RunningKeeps
  <2>8. Current'
    BY <2>2, <2>3, <2>7 DEF Current, Projectable, Named
  <2>9. QED
    BY <2>1, <2>4, <2>5, <2>6, <2>7, <2>8 DEF CommandInv
<1>5. CASE Close
  <2>1. Running /\ UNCHANGED queue /\ todo' = NoWork
    BY <1>5 DEF Close
  <2>2. ~Ready' /\ todo'.graphs = {}
    BY <2>1, EmptyShapes DEF Ready, NoWork
  <2>3. QED
    BY <2>1, <2>2, RunningKeeps DEF CommandInv
<1>6. ASSUME NEW graph, NEW field \in {"written", "already", "rejected", "checked"}, Running, Settle(graph, field)
      PROVE  CommandInv'
  <2>1. /\ todo'.slot = todo.slot /\ todo'.graphs = todo.graphs \ {graph} /\ UNCHANGED <<queue, outcome>>
    BY <1>6, SettleEffect DEF ShapeInv
  <2>2. outcome = "running" /\ UNCHANGED <<db, command>> /\ Distinct' = Distinct
    BY <1>6, RunningKeeps
  <2>3. Current => Current'
    BY <2>1, <2>2 DEF Current, Projectable, Named
  <2>4. QED
    BY <2>1, <2>2, <2>3 DEF CommandInv, Ready
<1>7. ASSUME NEW graph \in todo.graphs, Validate(graph) \/ Skip(graph) \/ Write(graph) \/ Doubt(graph)
      PROVE  CommandInv'
  BY <1>1, <1>6, <1>7 DEF Validate, Skip, Write, Doubt, Posts, End
<1>8. QED
  BY <1>1, <1>2, <1>3, <1>4, <1>5, <1>7 DEF Next, Work, Faults, Redeliver, Idle, UniverseMoves, CatalogLoad,
     Stop, Finish, StoreFails, End, vars

(* A graph the command stored is of a slot it has taken from the queue.        *)
LEMMA CurrentStep ==
  ASSUME ShapeInv, OrderInv, CommandInv, CurrentInv, [Next]_vars
  PROVE  CurrentInv'
<1> USE ProjectorAssumption
<1>1. CASE outcome' # "running"
  BY <1>1 DEF CurrentInv
<1>2. CASE UNCHANGED <<db, command, queue, todo, outcome, graphs, origin, budget>>
  BY <1>2 DEF CurrentInv, Projectable, Named
<1>3. ASSUME NEW line \in CommandLine, Start(line) PROVE CurrentInv'
  <2>1. budget'.commands = budget.commands - 1 /\ UNCHANGED <<graphs, origin>>
    BY <1>3 DEF Start, OrderInv
  <2>2. \A g \in DOMAIN graphs : origin[g].command # budget'.commands
    BY <2>1 DEF OrderInv
  <2>3. QED
    BY <2>1, <2>2 DEF CurrentInv
<1>4. CASE Open
  <2>1. /\ Running /\ queue \in Seq(Slot) /\ queue # <<>> /\ IsInjective(queue)
        /\ Range(queue) \subseteq Range(command.line.slots) /\ UNCHANGED <<graphs, origin>>
        /\ command.line \in CommandLine /\ ~Collide(command.line)
    BY <1>4 DEF Open, Reads, Running, ShapeInv, CommandInv, Distinct
  <2>2. /\ todo'.graphs = Named(Head(queue)) /\ queue' = Tail(queue) /\ Head(queue) \notin RefusedSlots
    BY <1>4 DEF Open, Named
  <2>3. Projectable(Head(queue)) /\ Head(queue) \in Range(command.line.slots)
    BY <2>1, <2>2, InjectiveQueue DEF RefusedSlots, Projectable
  <2>4. ASSUME NEW g \in DOMAIN graphs, origin[g].command = budget.commands
        PROVE  /\ command.line.mode = "write" /\ g \notin todo'.graphs
               /\ \E slot \in Range(command.line.slots) \ Range(queue') : Projectable(slot) /\ g \in Named(slot)
    <3>1. command.line.mode = "write"
      BY <2>1, <2>4 DEF CurrentInv, Running
    <3>2. PICK slot \in Range(command.line.slots) \ Range(queue) : Projectable(slot) /\ g \in Named(slot)
      BY <2>1, <2>4 DEF CurrentInv, Running
    <3>3. slot # Head(queue) /\ slot \notin Range(queue')
      BY <2>1, <2>2, <3>2, InjectiveQueue
    <3>4. g \notin Named(Head(queue))
      BY <2>1, <2>3, <3>1, <3>2, <3>3, Apart
    <3>5. QED
      BY <2>2, <3>1, <3>2, <3>3, <3>4
  <2>5. QED
    BY <2>1, <2>4, RunningKeeps DEF CurrentInv
<1>5. CASE Close
  <2>1. Running /\ UNCHANGED <<queue, graphs, origin>> /\ todo'.graphs = {}
    BY <1>5 DEF Close, NoWork
  <2>2. QED
    BY <2>1, RunningKeeps DEF CurrentInv, Running
<1>6. ASSUME NEW graph, NEW field \in {"written", "already", "rejected", "checked"}, Running, Settle(graph, field),
             UNCHANGED <<graphs, origin>>
      PROVE  CurrentInv'
  <2>1. todo'.graphs = todo.graphs \ {graph} /\ UNCHANGED queue
    BY <1>6, SettleEffect DEF ShapeInv
  <2>2. QED
    BY <1>6, <2>1, RunningKeeps DEF CurrentInv, Running
<1>7. ASSUME NEW graph \in todo.graphs, Write(graph) PROVE CurrentInv'
  <2>1. Running /\ Land(graph) /\ command.line.mode = "write" /\ graph \in todo.graphs /\ outcome = "running"
    BY <1>7 DEF Write, Posts, Running
  <2>2. todo'.graphs = todo.graphs \ {graph} /\ UNCHANGED queue
    BY <1>7, SettleEffect DEF Write, ShapeInv
  <2>3. /\ todo.slot \in Range(command.line.slots) \ Range(queue)
        /\ Projectable(todo.slot) /\ graph \in Named(todo.slot)
    BY <2>1 DEF CommandInv, Current
  <2>4. ASSUME NEW g \in DOMAIN graphs', origin'[g].command = budget.commands
        PROVE  /\ command.line.mode = "write" /\ g \notin todo'.graphs
               /\ \E slot \in Range(command.line.slots) \ Range(queue) : Projectable(slot) /\ g \in Named(slot)
    <3>1. CASE g = graph
      BY <2>1, <2>2, <2>3, <3>1
    <3>2. CASE g # graph
      <4>1. g \in DOMAIN graphs /\ origin'[g] = origin[g]
        BY <2>1, <3>2 DEF Land, OrderInv
      <4>2. QED
        BY <2>1, <2>2, <2>4, <4>1 DEF CurrentInv
    <3>3. QED
      BY <3>1, <3>2
  <2>5. QED
    BY <2>1, <2>2, <2>4, RunningKeeps DEF CurrentInv
<1>8. ASSUME NEW graph \in todo.graphs, Validate(graph) \/ Skip(graph) \/ Doubt(graph)
      PROVE  CurrentInv'
  BY <1>1, <1>6, <1>8 DEF Validate, Skip, Doubt, Posts, End
<1>9. QED
  BY <1>1, <1>2, <1>3, <1>4, <1>5, <1>7, <1>8 DEF Next, Work, Faults, Redeliver, Idle, UniverseMoves, CatalogLoad,
     Stop, Finish, StoreFails, End, vars

(* An answer "already in store" is about a graph of an earlier command.        *)
LEMMA AlreadyStep ==
  ASSUME ShapeInv, HeldInv, OrderInv, CurrentInv, AlreadyMeansEarlier, [Next]_vars
  PROVE  AlreadyMeansEarlier'
<1> DEFINE Already == report.already \cup todo.report.already
<1>1. SUFFICES ASSUME NEW g \in Already' PROVE origin'[g].command # budget'.commands
  BY DEF AlreadyMeansEarlier
<1>2. CASE UNCHANGED <<report, todo, origin, budget>>
  BY <1>1, <1>2 DEF AlreadyMeansEarlier
<1>3. ASSUME NEW slot \in Slot, NEW content \in Later[slot], Redeliver(slot, content)
      PROVE  origin'[g].command # budget'.commands
  <2>1. budget'.commands = budget.commands /\ UNCHANGED <<report, todo, origin>>
    BY <1>3 DEF Redeliver, OrderInv
  <2>2. QED
    BY <1>1, <2>1 DEF AlreadyMeansEarlier
<1>4. ASSUME NEW line \in CommandLine, Start(line) PROVE FALSE
  BY <1>1, <1>4 DEF Start, ShapeInv, NoReport, NoWork
<1>5. ASSUME NEW result, End(result) PROVE FALSE
  BY <1>1, <1>5 DEF End, NoReport, NoWork
<1>6. CASE Open
  BY <1>1, <1>6 DEF Open, Reads, Running, NoReport, AlreadyMeansEarlier
<1>7. CASE Close
  <2>1. report'.already = report.already \cup todo.report.already /\ todo' = NoWork
    BY <1>7, BothEffect DEF Close, ShapeInv, IsWork
  <2>2. g \in Already
    BY <1>1, <2>1 DEF NoWork, NoReport
  <2>3. QED
    BY <1>7, <2>2 DEF Close, Running, AlreadyMeansEarlier
<1>8. ASSUME NEW graph \in todo.graphs, Validate(graph), ~End("traceback")
      PROVE  origin'[g].command # budget'.commands
  <2>1. Settle(graph, "checked") /\ UNCHANGED <<origin, budget>>
    BY <1>8 DEF Validate, Running
  <2>2. g \in Already
    BY <1>1, <2>1, SettleEffect DEF ShapeInv
  <2>3. QED
    BY <2>1, <2>2 DEF AlreadyMeansEarlier
<1>9. ASSUME NEW graph \in todo.graphs, Skip(graph)
      PROVE  origin'[g].command # budget'.commands
  <2>1. outcome = "running" /\ UNCHANGED <<origin, budget>>
    BY <1>9 DEF Skip, Running
  <2>2. CASE Settle(graph, "already") /\ graph \in DOMAIN graphs
    <3>1. g \in Already \/ g = graph
      BY <1>1, <2>2, SettleEffect DEF ShapeInv
    <3>2. origin[graph].command # budget.commands
      BY <2>1, <2>2 DEF CurrentInv
    <3>3. QED
      BY <2>1, <3>1, <3>2 DEF AlreadyMeansEarlier
  <2>3. CASE Settle(graph, "checked") \/ Settle(graph, "rejected")
    <3>1. g \in Already
      BY <1>1, <2>3, SettleEffect DEF ShapeInv
    <3>2. QED
      BY <2>1, <3>1 DEF AlreadyMeansEarlier
  <2>4. QED
    BY <1>9, <2>2, <2>3 DEF Skip, Verdict
<1>10. ASSUME NEW graph \in todo.graphs, Write(graph)
       PROVE  origin'[g].command # budget'.commands
  <2>1. Settle(graph, "written") /\ Land(graph) /\ UNCHANGED budget /\ graph \notin DOMAIN graphs
    BY <1>10 DEF Write, Posts, Running, Verdict
  <2>2. g \in Already
    BY <1>1, <2>1, SettleEffect DEF ShapeInv
  <2>3. g \in DOMAIN graphs
    BY <2>2 DEF HeldInv
  <2>4. origin'[g] = origin[g]
    BY <2>1, <2>3 DEF Land, OrderInv
  <2>5. QED
    BY <2>1, <2>2, <2>4 DEF AlreadyMeansEarlier
<1>11. QED
  BY <1>2, <1>3, <1>4, <1>5, <1>6, <1>7, <1>8, <1>9, <1>10 DEF Next, Work, Faults, UniverseMoves, CatalogLoad,
     Stop, Finish, Validate, Doubt, StoreFails, vars

(* A graph reported as already in the store was there before the command: the  *)
(* names of two accepted databases differ, because every graph is named by a   *)
(* book of its database, or by its label.                                      *)
THEOREM AlreadyIsEarlier == Spec => []AlreadyMeansEarlier
<1> DEFINE Inv == OrderInv /\ CommandInv /\ CurrentInv /\ AlreadyMeansEarlier
<1>1. Init => Inv
  <2> SUFFICES ASSUME Init PROVE Inv
    OBVIOUS
  <2>1. OrderInv
    BY ProjectorAssumption DEF Init, OrderInv
  <2>2. CommandInv /\ CurrentInv
    BY DEF Init, CommandInv, CurrentInv
  <2>3. AlreadyMeansEarlier
    BY DEF Init, AlreadyMeansEarlier, NoReport, NoWork
  <2>4. QED
    BY <2>1, <2>2, <2>3
<1>2. ShapeInv /\ HeldInv /\ Inv /\ [Next]_vars => Inv'
  BY OrderStep, CommandStep, CurrentStep, AlreadyStep
<1> HIDE DEF Inv
<1>3. Spec => []Inv
  BY <1>1, <1>2, Inductive, PTL DEF Spec
<1>4. Inv => AlreadyMeansEarlier
  BY DEF Inv
<1>5. QED
  BY <1>3, <1>4, PTL

-----------------------------------------------------------------------------
(* A batch is connected when every individual it speaks of, as a subject or    *)
(* as the target of a link between rows of one run, is one it declares.        *)
Connected(T) ==
  {t[1] : t \in T} \cup {t[3] : t \in {u \in T : u[2] \in OwnProperties}} \subseteq Declared(T)
Here(iri, graph, inds) == \E j \in inds : j.graph = graph /\ j.iri = iri
Closed(i, inds) ==
  /\ \E class : <<i.iri, "a", class>> \in i.triples
  /\ \A t \in i.triples : /\ Here(t[1], i.graph, inds)
                          /\ t[2] \in OwnProperties => Here(t[3], i.graph, inds)

(* Individuals that name only individuals of their graph make connected batches. *)
LEMMA ClosedConnected ==
  ASSUME NEW inds, \A i \in inds : Closed(i, inds), NEW graph
  PROVE  Connected(Batch(inds, graph))
<1> DEFINE T == Batch(inds, graph)
<1>1. ASSUME NEW iri, Here(iri, graph, inds) PROVE iri \in Declared(T)
  <2>1. PICK j \in inds : j.graph = graph /\ j.iri = iri
    BY <1>1 DEF Here
  <2>2. PICK class : <<iri, "a", class>> \in T
    BY <2>1 DEF Batch, Closed
  <2>3. QED
    BY <2>2 DEF Declared
<1>2. ASSUME NEW t \in T
      PROVE  Here(t[1], graph, inds) /\ (t[2] \in OwnProperties => Here(t[3], graph, inds))
  <2>1. PICK i \in inds : i.graph = graph /\ t \in i.triples
    BY DEF Batch
  <2>2. QED
    BY <2>1 DEF Closed
<1> HIDE DEF T
<1>3. QED
  BY <1>1, <1>2 DEF Connected, T

(* What the builders of individuals make.                                      *)
Statements(iri, class, properties) ==
  {<<iri, "a", class>>} \cup {<<iri, p[1], p[2]>> : p \in properties}

(* A node has the name, the graph and the properties it is made with.          *)
LEMMA IndividualParts ==
  ASSUME NEW graph, NEW iri, NEW class, NEW properties
  PROVE  LET i == Individual(graph, iri, class, properties)
         IN  i.iri = iri /\ i.graph = graph /\ i.triples = Statements(iri, class, properties)
BY DEF Individual, Statements

(* Further triples leave its name and its graph alone.                         *)
LEMMA WithParts ==
  ASSUME NEW graph, NEW iri, NEW class, NEW properties, NEW more
  PROVE  LET i == Individual(graph, iri, class, properties)
             w == With(i, more)
         IN  w.iri = iri /\ w.graph = graph /\ w.triples = i.triples \cup more
BY DEF Individual, With

(* So they do when they are added twice, as for a guard action.                *)
LEMMA AgainParts ==
  ASSUME NEW graph, NEW iri, NEW class, NEW properties, NEW more, NEW again
  PROVE  LET w == With(Individual(graph, iri, class, properties), more)
             x == With(w, again)
         IN  x.iri = iri /\ x.graph = graph /\ x.triples = w.triples \cup again
BY DEF Individual, With

(* An individual made from properties that link within its graph, and further  *)
(* triples about individuals of its graph, is closed.                          *)
LEMMA MadeClosed ==
  ASSUME NEW inds, NEW i \in inds, NEW class, NEW properties, NEW more,
         i.triples = Statements(i.iri, class, properties) \cup more,
         \A p \in properties : p[1] \in OwnProperties => Here(p[2], i.graph, inds),
         \A t \in more : Here(t[1], i.graph, inds) /\ t[2] \notin OwnProperties
  PROVE  Closed(i, inds)
<1>1. Here(i.iri, i.graph, inds)
  BY DEF Here
<1>2. "a" \notin OwnProperties
  BY DEF OwnProperties, PublishedByBook
<1>3. ASSUME NEW t \in i.triples
      PROVE  Here(t[1], i.graph, inds) /\ (t[2] \in OwnProperties => Here(t[3], i.graph, inds))
  <2>1. CASE t = <<i.iri, "a", class>>
    BY <1>1, <1>2, <2>1
  <2>2. CASE \E p \in properties : t = <<i.iri, p[1], p[2]>>
    <3>1. PICK p \in properties : t = <<i.iri, p[1], p[2]>>
      BY <2>2
    <3>2. t[1] = i.iri /\ t[2] = p[1] /\ t[3] = p[2]
      BY <3>1
    <3>3. QED
      BY <1>1, <3>2
  <2>3. CASE t \in more
    BY <2>3
  <2>4. QED
    BY <2>1, <2>2, <2>3 DEF Statements
<1>4. QED
  BY <1>3 DEF Closed, Statements

(* A row below a book is closed: its book is in its graph.                     *)
LEMMA ChildParts ==
  ASSUME NEW label, NEW content, NEW r, NEW iri, NEW class, NEW of, NEW has, NEW properties, NEW more
  PROVE  LET b == TheBook(content, r)
             c == Child(label, content, r, iri, class, of, has, properties)
             w == With(c, more)
             all == properties \cup {<<"bookId", r.book>>, <<"backtestRunId", b.run>>,
                                     <<"armCode", b.arm>>, <<of, BookIri(label, b)>>,
                                     <<"knowledgeDate", r.known>>}
         IN  /\ c.iri = iri /\ w.iri = iri
             /\ c.graph = GraphName(label, b.window, b.run) /\ w.graph = c.graph
             /\ c.triples = Statements(iri, class, all) \cup {<<BookIri(label, b), has, iri>>}
             /\ w.triples = c.triples \cup more
<1> DEFINE b == TheBook(content, r)
           c == Child(label, content, r, iri, class, of, has, properties)
           w == With(c, more)
           all == properties \cup {<<"bookId", r.book>>, <<"backtestRunId", b.run>>,
                                   <<"armCode", b.arm>>, <<of, BookIri(label, b)>>,
                                   <<"knowledgeDate", r.known>>}
           graph == GraphName(label, b.window, b.run)
           up == {<<BookIri(label, b), has, iri>>}
           node == Individual(graph, iri, class, all)
<1>1. c = With(node, up)
  BY DEF Child
<1> HIDE DEF b, all, graph, up, c, w
<1>2. /\ node.triples = Statements(iri, class, all)
      /\ With(node, up).iri = iri /\ With(node, up).graph = graph
      /\ With(node, up).triples = node.triples \cup up
  BY IndividualParts, WithParts
<1>3. /\ With(With(node, up), more).iri = iri /\ With(With(node, up), more).graph = graph
      /\ With(With(node, up), more).triples = With(node, up).triples \cup more
  BY AgainParts
<1> HIDE DEF node
<1>4. /\ c.iri = iri /\ w.iri = iri /\ c.graph = graph /\ w.graph = c.graph
      /\ c.triples = Statements(iri, class, all) \cup up
      /\ w.triples = c.triples \cup more
  BY <1>1, <1>2, <1>3 DEF w
<1>5. QED
  BY <1>4 DEF b, c, w, all, graph, up

(* A row below a book lies in the graph of its book.                           *)
LEMMA ChildGraph ==
  ASSUME NEW label, NEW content, NEW r, NEW iri, NEW class, NEW of, NEW has, NEW properties, NEW more
  PROVE  With(Child(label, content, r, iri, class, of, has, properties), more).graph
           = GraphName(label, TheBook(content, r).window, TheBook(content, r).run)
<1> DEFINE b == TheBook(content, r)
           c == Child(label, content, r, iri, class, of, has, properties)
           graph == GraphName(label, b.window, b.run)
<1>1. \E all, up : c = With(Individual(graph, iri, class, all), up)
  BY DEF Child
<1> HIDE DEF c, graph
<1>2. With(c, more).graph = graph
  BY <1>1, AgainParts
<1>3. QED
  BY <1>2 DEF c, graph

(* Such a row is closed when its own links and the further triples are.        *)
LEMMA ChildClosed ==
  ASSUME NEW label, NEW content, NEW r, SameBook(content, r),
         NEW inds, \A b \in content.v_book : Book(label, b) \in inds,
         NEW i \in inds, NEW iri, NEW class, NEW of, NEW has, NEW properties, NEW more,
         \/ i = Child(label, content, r, iri, class, of, has, properties) /\ more = {}
         \/ i = With(Child(label, content, r, iri, class, of, has, properties), more),
         has \notin OwnProperties,
         \A p \in properties : p[1] \in OwnProperties => Here(p[2], i.graph, inds),
         \A t \in more : Here(t[1], i.graph, inds) /\ t[2] \notin OwnProperties
  PROVE  Closed(i, inds)
<1> DEFINE b == TheBook(content, r)
           all == properties \cup {<<"bookId", r.book>>, <<"backtestRunId", b.run>>,
                                   <<"armCode", b.arm>>, <<of, BookIri(label, b)>>,
                                   <<"knowledgeDate", r.known>>}
           extra == {<<BookIri(label, b), has, iri>>} \cup more
<1>1. /\ i.iri = iri /\ i.graph = GraphName(label, b.window, b.run)
      /\ i.triples = Statements(i.iri, class, all) \cup extra
  <2> DEFINE c == Child(label, content, r, iri, class, of, has, properties)
             up == {<<BookIri(label, b), has, iri>>}
             mine == Statements(iri, class, all)
  <2>1. /\ c.iri = iri /\ With(c, more).iri = iri
        /\ c.graph = GraphName(label, b.window, b.run) /\ With(c, more).graph = c.graph
        /\ c.triples = mine \cup up /\ With(c, more).triples = c.triples \cup more
    BY ChildParts
  <2> HIDE DEF c, b, all
  <2>2. i.triples = mine \cup (up \cup more)
    <3> HIDE DEF mine, up
    <3>1. CASE i = c /\ more = {}
      BY <2>1, <3>1
    <3>2. CASE i = With(c, more)
      BY <2>1, <3>2
    <3>3. QED
      BY <3>1, <3>2 DEF c
  <2>3. i.iri = iri /\ i.graph = GraphName(label, b.window, b.run)
    BY <2>1 DEF c
  <2>4. QED
    BY <2>2, <2>3
<1>2. b \in content.v_book
  BY DEF SameBook, TheBook
<1>3. Book(label, b).iri = BookIri(label, b) /\ Book(label, b).graph = i.graph
  <2>1. Book(label, b).iri = BookIri(label, b) /\ Book(label, b).graph = GraphName(label, b.window, b.run)
    <3> HIDE DEF b
    <3>1. QED
      BY IndividualParts DEF Book
  <2>2. QED
    BY <1>1, <2>1
<1> HIDE DEF b
<1>4. Here(BookIri(label, b), i.graph, inds)
  BY <1>2, <1>3 DEF Here
<1>5. \A p \in all : p[1] \in OwnProperties => Here(p[2], i.graph, inds)
  BY <1>4 DEF OwnProperties, PublishedByBook
<1>6. \A t \in extra : Here(t[1], i.graph, inds) /\ t[2] \notin OwnProperties
  BY <1>4
<1> HIDE DEF all, extra
<1>7. QED
  BY <1>1, <1>5, <1>6, MadeClosed

(* The four views whose rows link to nothing but their book.                   *)
LEMMA BelowClosed ==
  ASSUME NEW label, NEW content, NEW r, SameBook(content, r),
         NEW inds, \A b \in content.v_book : Book(label, b) \in inds,
         NEW iri, NEW class, NEW of, NEW has, NEW properties,
         Child(label, content, r, iri, class, of, has, properties) \in inds,
         has \notin OwnProperties, \A p \in properties : p[1] \notin OwnProperties
  PROVE  Closed(Child(label, content, r, iri, class, of, has, properties), inds)
<1> DEFINE i == Child(label, content, r, iri, class, of, has, properties)
           none == {}
<1>1. i = Child(label, content, r, iri, class, of, has, properties) /\ none = {}
  OBVIOUS
<1>2. \A t \in none : Here(t[1], i.graph, inds) /\ t[2] \notin OwnProperties
  OBVIOUS
<1> HIDE DEF i, none
<1>3. i \in inds
  BY DEF i
<1>4. Closed(i, inds)
  BY <1>1, <1>2, <1>3, ChildClosed
<1>5. QED
  BY <1>4 DEF i

(* A node without further triples.                                             *)
LEMMA NodeClosed ==
  ASSUME NEW inds, NEW graph, NEW iri, NEW class, NEW properties,
         Individual(graph, iri, class, properties) \in inds,
         \A p \in properties : p[1] \in OwnProperties => Here(p[2], graph, inds)
  PROVE  Closed(Individual(graph, iri, class, properties), inds)
<1> DEFINE i == Individual(graph, iri, class, properties)
           none == {}
<1>1. /\ i.iri = iri /\ i.graph = graph
      /\ i.triples = Statements(i.iri, class, properties) \cup none
      /\ \A t \in none : Here(t[1], i.graph, inds) /\ t[2] \notin OwnProperties
  BY IndividualParts
<1> HIDE DEF i, none
<1>2. i \in inds
  BY DEF i
<1>3. Closed(i, inds)
  BY <1>1, <1>2, MadeClosed
<1>4. QED
  BY <1>3 DEF i

(* A node with triples about the individuals above it.                         *)
LEMMA LinkedClosed ==
  ASSUME NEW inds, NEW graph, NEW iri, NEW class, NEW properties, NEW more,
         With(Individual(graph, iri, class, properties), more) \in inds,
         \A p \in properties : p[1] \in OwnProperties => Here(p[2], graph, inds),
         \A t \in more : Here(t[1], graph, inds) /\ t[2] \notin OwnProperties
  PROVE  Closed(With(Individual(graph, iri, class, properties), more), inds)
<1> DEFINE i == With(Individual(graph, iri, class, properties), more)
<1>1. i.iri = iri /\ i.graph = graph /\ i.triples = Statements(i.iri, class, properties) \cup more
  BY IndividualParts, WithParts
<1> HIDE DEF i
<1>2. i \in inds
  BY DEF i
<1>3. Closed(i, inds)
  BY <1>1, <1>2, MadeClosed
<1>4. QED
  BY <1>3 DEF i

(* An asset is no row of the run: the links to one are not followed.           *)
LEMMA OptionalProperty ==
  ASSUME NEW property, NEW value, NEW p \in Optional(property, value) PROVE p[1] = property
BY DEF Optional

(* Both give the property they are asked for, whatever the value.              *)
LEMMA LinkProperty ==
  ASSUME NEW property, NEW ticker, NEW assets, NEW p \in LinkAsset(property, ticker, assets)
  PROVE  p[1] = property
BY DEF LinkAsset

(* The m018 individuals of an accepted database.  An action names its alert by *)
(* the window of its book, so the alert is in the same graph when the window   *)
(* has one run.                                                                *)
LEMMA BacktestClosed ==
  ASSUME NEW label, NEW content, NEW assets, ~BacktestRefused(label, content),
         OneRunPerWindow(content), NEW i \in BacktestIndividuals(label, content, assets)
  PROVE  Closed(i, BacktestIndividuals(label, content, assets))
<1> DEFINE inds == BacktestIndividuals(label, content, assets)
<1>1. \A b \in content.v_book : Book(label, b) \in inds
  BY DEF BacktestIndividuals
<1>2. \A a \in content.v_guard_alert : Alert(label, a, assets) \in inds
  BY DEF BacktestIndividuals
<1>3. \A r \in content.v_book_rebalance \cup content.v_guard_action \cup content.v_book_weight_daily
             \cup content.v_book_daily_performance \cup content.v_portfolio_period_summary :
        SameBook(content, r)
  BY DEF BacktestRefused, ChildrenRefused, SameWindow
<1>4. \/ i \in {Book(label, b) : b \in content.v_book}
      \/ i \in {Alert(label, a, assets) : a \in content.v_guard_alert}
      \/ i \in {Rebalance(label, content, r) : r \in content.v_book_rebalance}
      \/ i \in {Action(label, content, r, assets) : r \in content.v_guard_action}
      \/ i \in {Weight(label, content, r, assets) : r \in content.v_book_weight_daily}
      \/ i \in {Performance(label, content, r) : r \in content.v_book_daily_performance}
      \/ i \in {Summary(label, content, r) : r \in content.v_portfolio_period_summary}
      \/ i \in {Test(label, r) : r \in content.v_backtest_test}
  BY DEF BacktestIndividuals
<1> HIDE DEF inds
<1>5. i \in inds
  BY DEF inds
<1>6. ASSUME NEW b, i = Book(label, b) PROVE Closed(i, inds)
  BY <1>5, <1>6, NodeClosed DEF Book, OwnProperties, PublishedByBook
<1>7. ASSUME NEW a, i = Alert(label, a, assets) PROVE Closed(i, inds)
  <2> DEFINE own == {<<"alertId", a.alert>>, <<"backtestRunId", a.run>>, <<"windowId", a.window>>,
                     <<"guardLayer", a.layer>>, <<"alertRule", <<"Rule", a.rule>>>>,
                     <<"alertState", a.state>>, <<"knowledgeDate", a.known>>}
                    \cup Optional("guardTicker", a.ticker) \cup LinkAsset("guardAsset", a.ticker, assets)
                    \cup (IF a.rule \in BasingPoints THEN {} ELSE {<<"alertThreshold", a.threshold>>})
  <2>1. i = Individual(GraphName(label, a.window, a.run), AlertIri(label, a), "GuardAlert", own)
    BY <1>7 DEF Alert
  <2>2. \A p \in own : p[1] \notin OwnProperties
    BY OptionalProperty, LinkProperty DEF OwnProperties, PublishedByBook
  <2> HIDE DEF own
  <2>3. QED
    BY <1>5, <2>1, <2>2, NodeClosed
<1>8. ASSUME NEW r \in content.v_book_rebalance, i = Rebalance(label, content, r)
      PROVE  Closed(i, inds)
  <2> DEFINE own == {<<"rebalanceId", r.rebalance>>} \cup Optional("cycleRunId", r.cycle)
  <2>1. i = Child(label, content, r, RebalanceIri(label, content, r), "BookRebalance",
                  "rebalanceOfBook", "bookHasRebalance", own)
    BY <1>8 DEF Rebalance
  <2>2. (\A p \in own : p[1] \notin OwnProperties) /\ "bookHasRebalance" \notin OwnProperties
    BY OptionalProperty, LinkProperty DEF OwnProperties, PublishedByBook
  <2> HIDE DEF own
  <2>3. QED
    BY <1>1, <1>3, <1>5, <2>1, <2>2, BelowClosed
<1>9. ASSUME NEW r \in content.v_book_weight_daily, i = Weight(label, content, r, assets)
      PROVE  Closed(i, inds)
  <2> DEFINE own == {<<"weightDate", r.date>>, <<"holdingKey", r.holding>>}
                    \cup (IF r.holding = Cash THEN {} ELSE LinkAsset("holdingAsset", r.holding, assets))
  <2>1. i = Child(label, content, r, WeightIri(label, content, r), "BookWeightDaily",
                  "weightOfBook", "bookHasWeight", own)
    BY <1>9 DEF Weight
  <2>2. (\A p \in own : p[1] \notin OwnProperties) /\ "bookHasWeight" \notin OwnProperties
    <3>1. \A p \in LinkAsset("holdingAsset", r.holding, assets) : p[1] = "holdingAsset"
      BY OptionalProperty, LinkProperty
    <3>2. QED
      BY <3>1 DEF OwnProperties, PublishedByBook
  <2> HIDE DEF own
  <2>3. QED
    BY <1>1, <1>3, <1>5, <2>1, <2>2, BelowClosed
<1>10. ASSUME NEW r \in content.v_book_daily_performance, i = Performance(label, content, r)
       PROVE  Closed(i, inds)
  <2> DEFINE own == {<<"windowId", r.window>>, <<"performanceDate", r.date>>, <<"nav", r.nav>>}
  <2>1. i = Child(label, content, r, PerformanceIri(label, content, r), "BookDailyPerformance",
                  "performanceOfBook", "bookHasPerformance", own)
    BY <1>10 DEF Performance
  <2>2. (\A p \in own : p[1] \notin OwnProperties) /\ "bookHasPerformance" \notin OwnProperties
    BY DEF OwnProperties, PublishedByBook
  <2> HIDE DEF own
  <2>3. QED
    BY <1>1, <1>3, <1>5, <2>1, <2>2, BelowClosed
<1>11. ASSUME NEW r \in content.v_portfolio_period_summary, i = Summary(label, content, r)
       PROVE  Closed(i, inds)
  <2> DEFINE own == {<<"windowId", r.window>>, <<"segment", r.segment>>, <<"dateFrom", r.from>>,
                     <<"dateTo", r.to>>, <<"nGuardActions", r.acted>>}
  <2>1. i = Child(label, content, r, SummaryIri(label, content, r), "PortfolioPeriodSummary",
                  "summaryOfBook", "bookHasSummary", own)
    BY <1>11 DEF Summary
  <2>2. (\A p \in own : p[1] \notin OwnProperties) /\ "bookHasSummary" \notin OwnProperties
    BY DEF OwnProperties, PublishedByBook
  <2> HIDE DEF own
  <2>3. QED
    BY <1>1, <1>3, <1>5, <2>1, <2>2, BelowClosed
<1>12. ASSUME NEW r \in content.v_guard_action, i = Action(label, content, r, assets)
       PROVE  Closed(i, inds)
  <2> DEFINE b == TheBook(content, r)
             alert == ActionAlert(label, content, r)
             own == {<<"actionId", r.action>>, <<"decisionDate", r.decision>>,
                     <<"status", r.status>>, <<"actionAlert", alert>>}
                    \cup Optional("guardTicker", r.ticker)
                    \cup LinkAsset("guardAsset", r.ticker, assets)
             more == {<<alert, "alertHasGuardAction", ActionIri(label, content, r)>>}
             iri == ActionIri(label, content, r)
  <2>1. i = With(Child(label, content, r, iri, "GuardAction", "actionOfBook", "bookHasGuardAction",
                       own), more)
    BY <1>12 DEF Action
  <2>2. b \in content.v_book
    BY <1>3 DEF SameBook, TheBook
  <2>3. PICK a \in content.v_guard_alert : AlertIri(label, a) = alert
    BY DEF BacktestRefused, ChildrenRefused, HasAlert
  <2>4. a.window = b.window
    BY <2>3 DEF AlertIri, ActionAlert
  <2>5. PICK c \in content.v_book : c.run = a.run /\ c.window = a.window
    BY DEF BacktestRefused, AlertsRefused, RunHasWindow
  <2>6. a.run = b.run
    BY <2>2, <2>4, <2>5 DEF OneRunPerWindow
  <2>7. /\ Alert(label, a, assets) \in inds
        /\ Alert(label, a, assets).iri = alert
        /\ Alert(label, a, assets).graph = GraphName(label, b.window, b.run)
    <3>1. /\ Alert(label, a, assets).iri = AlertIri(label, a)
          /\ Alert(label, a, assets).graph = GraphName(label, a.window, a.run)
      BY IndividualParts DEF Alert
    <3>2. QED
      BY <1>2, <2>3, <2>4, <2>6, <3>1
  <2> HIDE DEF alert, b, own, more, iri
  <2>8. i.graph = GraphName(label, b.window, b.run)
    BY <2>1, ChildGraph DEF b
  <2>9. Here(alert, i.graph, inds)
    BY <2>7, <2>8 DEF Here
  <2>10. /\ \A p \in own : p[1] \in OwnProperties => Here(p[2], i.graph, inds)
         /\ \A t \in more : Here(t[1], i.graph, inds) /\ t[2] \notin OwnProperties
         /\ "bookHasGuardAction" \notin OwnProperties
    <3>1. \A p \in Optional("guardTicker", r.ticker) \cup LinkAsset("guardAsset", r.ticker, assets) :
            p[1] \in {"guardTicker", "guardAsset"}
      BY OptionalProperty, LinkProperty
    <3>2. \A p \in own : p[1] \in OwnProperties => Here(p[2], i.graph, inds)
      BY <2>9, <3>1 DEF own, OwnProperties, PublishedByBook
    <3>3. QED
      BY <2>9, <3>2 DEF more, OwnProperties, PublishedByBook
  <2>11. QED
    BY <1>1, <1>3, <1>5, <2>1, <2>10, ChildClosed
<1>13. ASSUME NEW r, i = Test(label, r) PROVE Closed(i, inds)
  BY <1>5, <1>13, NodeClosed DEF Test, OwnProperties, PublishedByBook
<1>14. Closed(i, inds)
  BY <1>4, <1>6, <1>7, <1>8, <1>9, <1>10, <1>11, <1>12, <1>13
<1>15. QED
  BY <1>14 DEF inds

(* The selection individuals of an accepted database: they share one graph; a  *)
(* weight has its scheme, a ranking its cycle, an effective weight its ranking. *)
LEMMA SelectionClosed ==
  ASSUME NEW label, NEW content, NEW assets, ~SelectionRefused(label, content),
         NEW i \in SelectionIndividuals(label, content, assets)
  PROVE  Closed(i, SelectionIndividuals(label, content, assets))
<1> DEFINE c == Context(label, content)
           inds == SelectionIndividuals(label, content, assets)
           facts == RunFacts(c)
<1>1. /\ \A r \in content.v_cycle_run : Cycle(c, r) \in inds
      /\ \A r \in content.v_weight_scheme : Scheme(c, r) \in inds
      /\ \A r \in Projected(content) : Ranking(c, content, r, assets) \in inds
  BY DEF SelectionIndividuals
<1>2. \/ i \in {Cycle(c, r) : r \in content.v_cycle_run}
      \/ i \in {Scheme(c, r) : r \in content.v_weight_scheme}
      \/ i \in {Configured(c, r) : r \in content.v_weight_component}
      \/ i \in {Ranking(c, content, r, assets) : r \in Projected(content)}
      \/ i \in {Effective(c, r) : r \in Weighed(content)}
      \/ i \in {Veto(c, content, r, assets) : r \in content.v_veto}
  BY DEF SelectionIndividuals
<1>3. \A p \in facts : p[1] \in {"runLabel", "windowId", "backtestRunId"}
  BY DEF RunFacts
<1> HIDE DEF inds, c, facts
<1>4. i \in inds
  BY DEF inds
<1>5. /\ \A r : Cycle(c, r).iri = CycleIri(c, r.cycle) /\ Cycle(c, r).graph = c.graph
      /\ \A r : Scheme(c, r).iri = SchemeIri(c, r.cycle) /\ Scheme(c, r).graph = c.graph
      /\ \A r : /\ Ranking(c, content, r, assets).iri = SnapIri(c, r)
                /\ Ranking(c, content, r, assets).graph = c.graph
  <2>1. ASSUME NEW r PROVE Cycle(c, r).iri = CycleIri(c, r.cycle) /\ Cycle(c, r).graph = c.graph
    BY IndividualParts DEF Cycle
  <2>2. ASSUME NEW r PROVE Scheme(c, r).iri = SchemeIri(c, r.cycle) /\ Scheme(c, r).graph = c.graph
    BY IndividualParts DEF Scheme
  <2>3. ASSUME NEW r PROVE /\ Ranking(c, content, r, assets).iri = SnapIri(c, r)
                           /\ Ranking(c, content, r, assets).graph = c.graph
    BY IndividualParts DEF Ranking
  <2>4. QED
    BY <2>1, <2>2, <2>3
<1>6. ASSUME NEW r, i = Cycle(c, r) PROVE Closed(i, inds)
  <2> DEFINE own == {<<"cycleRunId", r.cycle>>, <<"status", r.status>>} \cup facts
  <2>1. i = Individual(c.graph, CycleIri(c, r.cycle), "SelectionCycle", own)
    BY <1>6 DEF Cycle, facts
  <2>2. \A p \in own : p[1] \notin OwnProperties
    BY <1>3 DEF OwnProperties, PublishedByBook
  <2> HIDE DEF own
  <2>3. QED
    BY <1>4, <2>1, <2>2, NodeClosed
<1>7. ASSUME NEW r, i = Scheme(c, r) PROVE Closed(i, inds)
  BY <1>4, <1>7, NodeClosed DEF Scheme, OwnProperties, PublishedByBook
<1>8. ASSUME NEW r \in content.v_weight_component, i = Configured(c, r) PROVE Closed(i, inds)
  <2> DEFINE own == {<<"weightMetricName", r.score>>, <<"weightValue", r.weight>>}
             more == {<<SchemeIri(c, r.cycle), "hasWeightComponent", ConfiguredIri(c, r)>>}
  <2>1. i = With(Individual(c.graph, ConfiguredIri(c, r), "WeightComponent", own), more)
    BY <1>8 DEF Configured
  <2>2. PICK k \in content.v_weight_scheme : k.cycle = r.cycle
    BY DEF SelectionRefused, SchemesRefused, Has
  <2>3. Here(SchemeIri(c, r.cycle), c.graph, inds)
    BY <1>1, <1>5, <2>2 DEF Here
  <2>4. /\ \A p \in own : p[1] \notin OwnProperties
        /\ \A t \in more : Here(t[1], c.graph, inds) /\ t[2] \notin OwnProperties
    BY <2>3 DEF OwnProperties, PublishedByBook
  <2> HIDE DEF own, more
  <2>5. QED
    BY <1>4, <2>1, <2>4, LinkedClosed
<1>9. ASSUME NEW r \in Projected(content), i = Ranking(c, content, r, assets)
      PROVE  Closed(i, inds)
  <2> DEFINE links == SelectionLink("attractivenessOfAsset", content, r.ticker, assets)
             own == {<<"rankingTicker", r.ticker>>, <<"rankingOfCycle", CycleIri(c, r.cycle)>>,
                     <<"computedWithScheme", SchemeIri(c, r.cycle)>>}
                    \cup facts \cup Optional("vetoRulesJson", r.rules) \cup links
  <2>1. i = Individual(c.graph, SnapIri(c, r), "AttractivenessSnapshot", own)
    BY <1>9 DEF Ranking, facts
  <2>2. PICK k \in content.v_cycle_run : k.cycle = r.cycle
    BY DEF Projected
  <2>3. Here(CycleIri(c, r.cycle), c.graph, inds)
    BY <1>1, <1>5, <2>2 DEF Here
  <2>4. /\ \A p \in Optional("vetoRulesJson", r.rules) : p[1] = "vetoRulesJson"
        /\ \A p \in links : p[1] = "attractivenessOfAsset"
    BY OptionalProperty DEF SelectionLink
  <2> HIDE DEF links
  <2>5. \A p \in own : p[1] \in OwnProperties => Here(p[2], c.graph, inds)
    BY <1>3, <2>3, <2>4 DEF OwnProperties, PublishedByBook
  <2> HIDE DEF own
  <2>6. QED
    BY <1>4, <2>1, <2>5, NodeClosed
<1>10. ASSUME NEW r \in Weighed(content), i = Effective(c, r) PROVE Closed(i, inds)
  <2> DEFINE own == {<<"weightMetricName", r.score>>}
             more == {<<SnapIri(c, r), "hasEffectiveWeight", EffectiveIri(c, r)>>}
  <2>1. i = With(Individual(c.graph, EffectiveIri(c, r), "WeightComponent", own), more)
    BY <1>10 DEF Effective
  <2>2. PICK k \in Projected(content) : k.cycle = r.cycle /\ k.asset = r.asset
    BY DEF Weighed
  <2>3. SnapIri(c, k) = SnapIri(c, r)
    BY <2>2 DEF SnapIri
  <2>4. Here(SnapIri(c, r), c.graph, inds)
    BY <1>1, <1>5, <2>2, <2>3 DEF Here
  <2>5. /\ \A p \in own : p[1] \notin OwnProperties
        /\ \A t \in more : Here(t[1], c.graph, inds) /\ t[2] \notin OwnProperties
    BY <2>4 DEF OwnProperties, PublishedByBook
  <2> HIDE DEF own, more
  <2>6. QED
    BY <1>4, <2>1, <2>5, LinkedClosed
<1>11. ASSUME NEW r, i = Veto(c, content, r, assets) PROVE Closed(i, inds)
  <2> DEFINE links == SelectionLink("vetoOfAsset", content, r.ticker, assets)
             applied == {<<"appliesRule", d.iri>> : d \in InForce(r.rule, c.day)}
             primary == {<<"primaryRule", d.iri>> : d \in InForce(r.rule, c.day)}
             runs == {<<"runAsOf", k.as_of>> : k \in {k \in content.v_cycle_run : k.cycle = r.cycle}}
             own == {<<"vetoTicker", r.ticker>>, <<"cycleRun", r.cycle>>}
                    \cup applied \cup primary \cup runs \cup facts \cup links
  <2>1. i = Individual(c.graph, VetoIri(c, r), "Veto", own)
    BY <1>11 DEF Veto, facts
  <2>2. /\ \A p \in links : p[1] = "vetoOfAsset"
        /\ \A p \in applied : p[1] = "appliesRule"
        /\ \A p \in primary : p[1] = "primaryRule"
        /\ \A p \in runs : p[1] = "runAsOf"
    BY DEF SelectionLink
  <2> HIDE DEF links, applied, primary, runs
  <2>3. \A p \in own : p[1] \notin OwnProperties
    BY <1>3, <2>2 DEF OwnProperties, PublishedByBook
  <2> HIDE DEF own
  <2>4. QED
    BY <1>4, <2>1, <2>3, NodeClosed
<1>12. Closed(i, inds)
  BY <1>2, <1>6, <1>7, <1>8, <1>9, <1>10, <1>11
<1>13. QED
  BY <1>12 DEF inds

(* The reference individuals of an accepted database: a step has its run.      *)
LEMMA ReferenceClosed ==
  ASSUME NEW label, NEW day, NEW content, NEW assets, ~ReferenceRefused(label, day, content),
         NEW i \in ReferenceIndividuals(label, day, content, assets)
  PROVE  Closed(i, ReferenceIndividuals(label, day, content, assets))
<1> DEFINE inds == ReferenceIndividuals(label, day, content, assets)
<1>1. \A r \in content.v_orchestrator_run : OrchestratorRun(label, r) \in inds
  BY DEF ReferenceIndividuals
<1>2. \/ i \in {Ticker(label, day, r, assets) : r \in content.v_ticker_history}
      \/ i \in {OrchestratorRun(label, r) : r \in content.v_orchestrator_run}
      \/ i \in {OrchestratorStep(label, r) : r \in content.v_orchestrator_step}
  BY DEF ReferenceIndividuals
<1> HIDE DEF inds
<1>3. i \in inds
  BY DEF inds
<1>4. ASSUME NEW r, i = Ticker(label, day, r, assets) PROVE Closed(i, inds)
  <2> DEFINE links == {<<"tickerHistoryAsset", a>> : a \in ResolveAsset(r.canonical, r.cik, assets)}
             own == {<<"tickerHistoryCik", r.cik>>, <<"historicalSymbol", r.symbol>>,
                     <<"canonicalSymbol", r.canonical>>, <<"validFrom", r.from>>}
                    \cup Optional("validTo", r.to) \cup links
  <2>1. i = Individual(TickerGraph(label, day), TickerIri(label, day, r), "TickerHistory", own)
    BY <1>4 DEF Ticker
  <2>2. /\ \A p \in Optional("validTo", r.to) : p[1] = "validTo"
        /\ \A p \in links : p[1] = "tickerHistoryAsset"
    BY OptionalProperty
  <2> HIDE DEF links
  <2>3. \A p \in own : p[1] \notin OwnProperties
    BY <2>2 DEF OwnProperties, PublishedByBook
  <2> HIDE DEF own
  <2>4. QED
    BY <1>3, <2>1, <2>3, NodeClosed
<1>5. ASSUME NEW r, i = OrchestratorRun(label, r) PROVE Closed(i, inds)
  <2> DEFINE own == {<<"orchestratorRunId", r.run>>} \cup Optional("status", r.status)
  <2>1. i = Individual(OrchestratorGraph(label, r.run), OrchestratorRunIri(label, r.run),
                       "OrchestratorRun", own)
    BY <1>5 DEF OrchestratorRun
  <2>2. \A p \in Optional("status", r.status) : p[1] = "status"
    BY OptionalProperty
  <2>3. \A p \in own : p[1] \notin OwnProperties
    BY <2>2 DEF OwnProperties, PublishedByBook
  <2> HIDE DEF own
  <2>4. QED
    BY <1>3, <2>1, <2>3, NodeClosed
<1>6. ASSUME NEW r \in content.v_orchestrator_step, i = OrchestratorStep(label, r)
      PROVE  Closed(i, inds)
  <2> DEFINE run == OrchestratorRunIri(label, r.run)
             graph == OrchestratorGraph(label, r.run)
             own == {<<"stepOfOrchestratorRun", run>>, <<"ordinal", r.ordinal>>}
  <2>1. i = Individual(graph, OrchestratorStepIri(label, r), "OrchestratorStep", own)
    BY <1>6 DEF OrchestratorStep
  <2>2. PICK k \in content.v_orchestrator_run : k.run = r.run
    BY DEF ReferenceRefused, OrchestratorRefused
  <2>3. OrchestratorRun(label, k).iri = run /\ OrchestratorRun(label, k).graph = graph
    BY <2>2, IndividualParts DEF OrchestratorRun
  <2> HIDE DEF run, graph
  <2>4. Here(run, graph, inds)
    BY <1>1, <2>2, <2>3 DEF Here
  <2>5. \A p \in own : p[1] \in OwnProperties => Here(p[2], graph, inds)
    BY <2>4 DEF OwnProperties, PublishedByBook
  <2> HIDE DEF own
  <2>6. QED
    BY <1>3, <2>1, <2>5, NodeClosed
<1>7. Closed(i, inds)
  BY <1>2, <1>4, <1>5, <1>6
<1>8. QED
  BY <1>7 DEF inds

(* The three sides together.                                                   *)
LEMMA AcceptedClosed ==
  ASSUME NEW slot, Projectable(slot), command.line \in CommandLine, OneRunPerWindow(db[slot]),
         NEW i \in Individuals(command.line.side, slot, db[slot], command.line.day, command.assets)
  PROVE  Closed(i, Individuals(command.line.side, slot, db[slot], command.line.day, command.assets))
<1> DEFINE side == command.line.side
<1>1. side \in {"m018", "selection", "reference"}
  BY ProjectorAssumption
<1>2. CASE side = "m018"
  BY <1>2, BacktestClosed DEF Individuals, Projectable, Refused
<1>3. CASE side = "selection"
  BY <1>3, SelectionClosed DEF Individuals, Projectable, Refused
<1>4. CASE side = "reference"
  BY <1>4, ReferenceClosed DEF Individuals, Projectable, Refused
<1>5. QED
  BY <1>1, <1>2, <1>3, <1>4

(* What a running command has in memory is the projection of the database its  *)
(* slot still holds.                                                           *)
WorkInv ==
  outcome = "running" /\ Ready =>
    todo.individuals = Individuals(command.line.side, todo.slot, db[todo.slot],
                                   command.line.day, command.assets)

(* A database is projected once, when its slot is taken from the queue.        *)
LEMMA WorkStep == ASSUME ShapeInv, WorkInv, [Next]_vars PROVE WorkInv'
<1>1. CASE outcome' # "running"
  BY <1>1 DEF WorkInv
<1>2. CASE UNCHANGED <<db, command, todo, outcome>>
  BY <1>2 DEF WorkInv, Ready
<1>3. CASE ~Ready'
  BY <1>3 DEF WorkInv
<1>4. ASSUME NEW line \in CommandLine, Start(line) PROVE ~Ready'
  BY <1>4, EmptyShapes DEF Start, ShapeInv, Ready
<1>5. CASE Close
  BY <1>3, <1>5, EmptyShapes DEF Close, Ready
<1>6. CASE Open
  BY <1>6 DEF Open, Reads, Running, WorkInv
<1>7. ASSUME NEW graph, NEW field, Running, Settle(graph, field) PROVE WorkInv'
  <2>1. UNCHANGED <<db, command, outcome>>
    BY <1>7 DEF Running, Settle
  <2>2. todo'.slot = todo.slot /\ todo'.individuals = todo.individuals
    BY <1>7 DEF Settle, ShapeInv, IsWork
  <2>3. QED
    BY <2>1, <2>2 DEF WorkInv, Ready
<1>8. ASSUME NEW graph \in todo.graphs, Validate(graph) \/ Skip(graph) \/ Write(graph) \/ Doubt(graph)
      PROVE  WorkInv'
  BY <1>1, <1>7, <1>8 DEF Validate, Skip, Write, Doubt, Posts, End
<1>9. QED
  BY <1>1, <1>2, <1>3, <1>4, <1>5, <1>6, <1>8 DEF Next, Work, Faults, Redeliver, Idle, UniverseMoves,
     CatalogLoad, Stop, Finish, StoreFails, End, vars

(* A graph that lands is a batch of closed individuals.                        *)
LEMMA LinksStep ==
  ASSUME OrderInv, CommandInv, WorkInv, LinksStayInGraph, [Next]_vars
  PROVE  LinksStayInGraph'
<1>1. CASE UNCHANGED <<graphs, origin>>
  BY <1>1 DEF LinksStayInGraph
<1>2. ASSUME NEW graph, Posts(graph), Land(graph) PROVE LinksStayInGraph'
  <2> DEFINE inds == Individuals(command.line.side, todo.slot, db[todo.slot],
                                 command.line.day, command.assets)
  <2>1. /\ outcome = "running" /\ graph \in todo.graphs /\ Ready
        /\ command.line \in CommandLine /\ Projectable(todo.slot)
    BY <1>2 DEF Posts, Running, CommandInv, Current
  <2>2. graphs'[graph] = Batch(inds, graph) /\ origin'[graph].db = db[todo.slot]
    BY <1>2, <2>1 DEF Land, WorkInv
  <2>3. OneRunPerWindow(db[todo.slot]) => \A i \in inds : Closed(i, inds)
    BY <2>1, AcceptedClosed
  <2> HIDE DEF inds
  <2>4. OneRunPerWindow(origin'[graph].db) => Connected(graphs'[graph])
    BY <2>2, <2>3, ClosedConnected
  <2>5. ASSUME NEW g \in DOMAIN graphs', g # graph
        PROVE  g \in DOMAIN graphs /\ graphs'[g] = graphs[g] /\ origin'[g] = origin[g]
    BY <1>2, <2>5 DEF Land, OrderInv
  <2>6. QED
    BY <2>4, <2>5 DEF LinksStayInGraph, Connected
<1>3. QED
  BY <1>1, <1>2 DEF Next, Work, Faults, Redeliver, UniverseMoves, CatalogLoad, Start, Open, Stop, Close,
     Finish, Validate, Skip, Write, Doubt, StoreFails, vars

(* No link between the rows of a run leaves the run's graph, for any databases *)
(* in which no two runs share a window: the projector refuses a row whose book, *)
(* alert, cycle, scheme, ranking or orchestrator run its own database does not *)
(* give, and names the graph by what the row links to (backtest.py, reference.py).*)
THEOREM LinksStay == Spec => []LinksStayInGraph
<1> DEFINE Inv == OrderInv /\ CommandInv /\ WorkInv /\ LinksStayInGraph
<1>1. Init => Inv
  <2> SUFFICES ASSUME Init PROVE Inv
    OBVIOUS
  <2>1. OrderInv
    BY ProjectorAssumption DEF Init, OrderInv
  <2>2. CommandInv /\ WorkInv /\ LinksStayInGraph
    BY DEF Init, CommandInv, WorkInv, LinksStayInGraph
  <2>3. QED
    BY <2>1, <2>2
<1>2. ShapeInv /\ Inv /\ [Next]_vars => Inv'
  BY OrderStep, CommandStep, WorkStep, LinksStep
<1> HIDE DEF Inv
<1>3. Spec => []Inv
  BY <1>1, <1>2, Inductive, PTL DEF Spec
<1>4. Inv => LinksStayInGraph
  BY DEF Inv
<1>5. QED
  BY <1>3, <1>4, PTL

-----------------------------------------------------------------------------
(* A family of n individuals: their IRIs differ, and begin with one of the     *)
(* stems.                                                                      *)
Family(inds, stems, n) ==
  /\ IsFiniteSet(inds) /\ Cardinality(inds) = n /\ n \in Nat
  /\ \A i \in inds : i.iri[1] \in stems
  /\ \A i, j \in inds : i.iri = j.iri => i = j

(* The image of a finite set under a function that keeps its members apart.    *)
LEMMA ImageSize ==
  ASSUME NEW S, IsFiniteSet(S), NEW T, NEW f \in [S -> T],
         \A r, s \in S : f[r] = f[s] => r = s, \A t \in T : \E s \in S : f[s] = t
  PROVE  IsFiniteSet(T) /\ Cardinality(T) = Cardinality(S)
<1>1. f \in Injection(S, T)
  BY DEF Injection, IsInjective
<1>2. f \in Surjection(S, T)
  BY DEF Surjection
<1>3. ExistsBijection(S, T)
  BY <1>1, <1>2 DEF ExistsBijection, Bijection
<1>4. QED
  BY <1>3, FS_Bijection

(* A view whose rows f makes into the individuals inds, named name, whose IRIs *)
(* begin with the stem and which no two rows share.                            *)
Makes(view, f, name, stem, inds) ==
  /\ IsFiniteSet(view) /\ DOMAIN f = view /\ DOMAIN name = view /\ ~Clash(name)
  /\ \A r \in view : f[r].iri = name[r] /\ name[r][1] = stem
  /\ \A r \in view : f[r] \in inds
  /\ \A i \in inds : \E r \in view : f[r] = i

(* It gives a family of one stem, with an individual per row.                  *)
LEMMA ViewFamily ==
  ASSUME NEW view, NEW f, NEW name, NEW stem, NEW inds, Makes(view, f, name, stem, inds)
  PROVE  Family(inds, {stem}, Cardinality(view))
<1> DEFINE g == [r \in view |-> f[r]]
<1>1. \A r, s \in view : name[r] = name[s] => r = s
  BY DEF Clash, Makes
<1>2. g \in [view -> inds] /\ \A r, s \in view : g[r] = g[s] => r = s
  BY <1>1 DEF Makes
<1>3. \A i \in inds : \E r \in view : g[r] = i
  BY DEF Makes
<1> HIDE DEF g
<1>4. IsFiniteSet(inds) /\ Cardinality(inds) = Cardinality(view)
  BY <1>2, <1>3, ImageSize DEF Makes
<1>5. Cardinality(view) \in Nat
  BY FS_CardinalityType DEF Makes
<1>6. (\A i \in inds : i.iri[1] = stem) /\ \A i, j \in inds : i.iri = j.iri => i = j
  BY <1>1 DEF Makes
<1>7. QED
  BY <1>4, <1>5, <1>6 DEF Family

(* Families with other stems make a larger one.                                *)
LEMMA FamilyUnion ==
  ASSUME NEW A, NEW a, NEW m, Family(A, a, m), NEW B, NEW b, NEW n, Family(B, b, n),
         a \cap b = {}
  PROVE  Family(A \cup B, a \cup b, m + n)
<1>1. /\ IsFiniteSet(A) /\ Cardinality(A) = m /\ m \in Nat
      /\ IsFiniteSet(B) /\ Cardinality(B) = n /\ n \in Nat
      /\ \A i \in A : i.iri[1] \in a
      /\ \A i \in B : i.iri[1] \in b
      /\ \A i, j \in A : i.iri = j.iri => i = j
      /\ \A i, j \in B : i.iri = j.iri => i = j
  BY DEF Family
<1>2. A \cap B = {} /\ \A i \in A, j \in B : i.iri # j.iri
  BY <1>1
<1>3. /\ IsFiniteSet(A \cup B)
      /\ Cardinality(A \cup B) = Cardinality(A) + Cardinality(B) - Cardinality(A \cap B)
  BY <1>1, FS_Union
<1>4. Cardinality(A \cap B) = 0
  BY <1>2, FS_EmptySet
<1>5. Cardinality(A \cup B) = m + n /\ m + n \in Nat
  BY <1>1, <1>3, <1>4
<1>6. QED
  BY <1>1, <1>2, <1>3, <1>5 DEF Family

(* A family has as many IRIs as members.                                       *)
LEMMA FamilyIris ==
  ASSUME NEW inds, NEW stems, NEW n, Family(inds, stems, n)
  PROVE  Cardinality({i.iri : i \in inds}) = n
<1> DEFINE T == {i.iri : i \in inds}
           f == [i \in inds |-> i.iri]
<1>1. /\ f \in [inds -> T] /\ \A i, j \in inds : f[i] = f[j] => i = j
      /\ \A t \in T : \E i \in inds : f[i] = t
  BY DEF Family
<1> HIDE DEF f
<1>2. IsFiniteSet(inds) /\ Cardinality(inds) = n
  BY DEF Family
<1>3. Cardinality(T) = n
  BY <1>1, <1>2, ImageSize
<1>4. QED
  BY <1>3

(* The IRI of a row below a book is the one it is made with.                   *)
LEMMA ChildIri ==
  ASSUME NEW label, NEW content, NEW r, NEW iri, NEW class, NEW of, NEW has, NEW properties
  PROVE  /\ Child(label, content, r, iri, class, of, has, properties).iri = iri
         /\ \A more : With(Child(label, content, r, iri, class, of, has, properties), more).iri = iri
<1> DEFINE c == Child(label, content, r, iri, class, of, has, properties)
<1>1. \E graph, all, up : c = With(Individual(graph, iri, class, all), up)
  BY DEF Child
<1> HIDE DEF c
<1>2. c.iri = iri /\ \A more : With(c, more).iri = iri
  BY <1>1, WithParts, AgainParts
<1>3. QED
  BY <1>2 DEF c

(* The m018 individuals of an accepted database: one per row.                  *)
LEMMA BacktestFamily ==
  ASSUME NEW label, NEW content, NEW assets, ~BacktestRefused(label, content), IsDatabase(content)
  PROVE  \E stems : Family(BacktestIndividuals(label, content, assets), stems,
           Cardinality(content.v_book)
             + Cardinality(content.v_guard_alert)
             + Cardinality(content.v_book_rebalance)
             + Cardinality(content.v_guard_action)
             + Cardinality(content.v_book_weight_daily)
             + Cardinality(content.v_book_daily_performance)
             + Cardinality(content.v_portfolio_period_summary)
             + Cardinality(content.v_backtest_test))
<1>1. Family({Book(label, b) : b \in content.v_book}, {"Book"}, Cardinality(content.v_book))
  <2> DEFINE f == [b \in content.v_book |-> Book(label, b)]
             name == [b \in content.v_book |-> BookIri(label, b)]
             inds == {Book(label, b) : b \in content.v_book}
             view == content.v_book
  <2>1. \A b \in content.v_book : Book(label, b).iri = BookIri(label, b)
    BY IndividualParts DEF Book
  <2>2. \A b \in view : f[b].iri = name[b] /\ name[b][1] = "Book"
    BY <2>1 DEF BookIri
  <2>3. ~Clash(name)
    BY DEF BacktestRefused, BooksRefused
  <2>4. IsFiniteSet(view) /\ DOMAIN f = view /\ DOMAIN name = view
    BY DEF IsDatabase, Views, BacktestViews
  <2>5. (\A b \in view : f[b] \in inds) /\ \A i \in inds : \E b \in view : f[b] = i
    OBVIOUS
  <2> HIDE DEF f, name, inds, view
  <2>6. Makes(view, f, name, "Book", inds)
    BY <2>2, <2>3, <2>4, <2>5 DEF Makes
  <2>7. Family(inds, {"Book"}, Cardinality(view))
    BY <2>6, ViewFamily
  <2>8. QED
    BY <2>7 DEF inds, view
<1>2. Family({Alert(label, a, assets) : a \in content.v_guard_alert}, {"GuardAlert"}, Cardinality(content.v_guard_alert))
  <2> DEFINE f == [a \in content.v_guard_alert |-> Alert(label, a, assets)]
             name == [a \in content.v_guard_alert |-> AlertIri(label, a)]
             inds == {Alert(label, a, assets) : a \in content.v_guard_alert}
             view == content.v_guard_alert
  <2>1. \A a \in content.v_guard_alert : Alert(label, a, assets).iri = AlertIri(label, a)
    BY IndividualParts DEF Alert
  <2>2. \A a \in view : f[a].iri = name[a] /\ name[a][1] = "GuardAlert"
    BY <2>1 DEF AlertIri
  <2>3. ~Clash(name)
    BY DEF BacktestRefused, AlertsRefused
  <2>4. IsFiniteSet(view) /\ DOMAIN f = view /\ DOMAIN name = view
    BY DEF IsDatabase, Views, BacktestViews
  <2>5. (\A a \in view : f[a] \in inds) /\ \A i \in inds : \E a \in view : f[a] = i
    OBVIOUS
  <2> HIDE DEF f, name, inds, view
  <2>6. Makes(view, f, name, "GuardAlert", inds)
    BY <2>2, <2>3, <2>4, <2>5 DEF Makes
  <2>7. Family(inds, {"GuardAlert"}, Cardinality(view))
    BY <2>6, ViewFamily
  <2>8. QED
    BY <2>7 DEF inds, view
<1>3. Family({Rebalance(label, content, r) : r \in content.v_book_rebalance}, {"Rebalance"}, Cardinality(content.v_book_rebalance))
  <2> DEFINE f == [r \in content.v_book_rebalance |-> Rebalance(label, content, r)]
             name == [r \in content.v_book_rebalance |-> RebalanceIri(label, content, r)]
             inds == {Rebalance(label, content, r) : r \in content.v_book_rebalance}
             view == content.v_book_rebalance
  <2>1. \A r \in content.v_book_rebalance : Rebalance(label, content, r).iri = RebalanceIri(label, content, r)
    BY ChildIri DEF Rebalance
  <2>2. \A r \in view : f[r].iri = name[r] /\ name[r][1] = "Rebalance"
    BY <2>1 DEF RebalanceIri
  <2>3. ~Clash(name)
    BY DEF BacktestRefused, ChildrenRefused
  <2>4. IsFiniteSet(view) /\ DOMAIN f = view /\ DOMAIN name = view
    BY DEF IsDatabase, Views, BacktestViews
  <2>5. (\A r \in view : f[r] \in inds) /\ \A i \in inds : \E r \in view : f[r] = i
    OBVIOUS
  <2> HIDE DEF f, name, inds, view
  <2>6. Makes(view, f, name, "Rebalance", inds)
    BY <2>2, <2>3, <2>4, <2>5 DEF Makes
  <2>7. Family(inds, {"Rebalance"}, Cardinality(view))
    BY <2>6, ViewFamily
  <2>8. QED
    BY <2>7 DEF inds, view
<1>4. Family({Action(label, content, r, assets) : r \in content.v_guard_action}, {"GuardAction"}, Cardinality(content.v_guard_action))
  <2> DEFINE f == [r \in content.v_guard_action |-> Action(label, content, r, assets)]
             name == [r \in content.v_guard_action |-> ActionIri(label, content, r)]
             inds == {Action(label, content, r, assets) : r \in content.v_guard_action}
             view == content.v_guard_action
  <2>1. \A r \in content.v_guard_action : Action(label, content, r, assets).iri = ActionIri(label, content, r)
    BY ChildIri DEF Action
  <2>2. \A r \in view : f[r].iri = name[r] /\ name[r][1] = "GuardAction"
    BY <2>1 DEF ActionIri
  <2>3. ~Clash(name)
    BY DEF BacktestRefused, ChildrenRefused
  <2>4. IsFiniteSet(view) /\ DOMAIN f = view /\ DOMAIN name = view
    BY DEF IsDatabase, Views, BacktestViews
  <2>5. (\A r \in view : f[r] \in inds) /\ \A i \in inds : \E r \in view : f[r] = i
    OBVIOUS
  <2> HIDE DEF f, name, inds, view
  <2>6. Makes(view, f, name, "GuardAction", inds)
    BY <2>2, <2>3, <2>4, <2>5 DEF Makes
  <2>7. Family(inds, {"GuardAction"}, Cardinality(view))
    BY <2>6, ViewFamily
  <2>8. QED
    BY <2>7 DEF inds, view
<1>5. Family({Weight(label, content, r, assets) : r \in content.v_book_weight_daily}, {"BookWeight"}, Cardinality(content.v_book_weight_daily))
  <2> DEFINE f == [r \in content.v_book_weight_daily |-> Weight(label, content, r, assets)]
             name == [r \in content.v_book_weight_daily |-> WeightIri(label, content, r)]
             inds == {Weight(label, content, r, assets) : r \in content.v_book_weight_daily}
             view == content.v_book_weight_daily
  <2>1. \A r \in content.v_book_weight_daily : Weight(label, content, r, assets).iri = WeightIri(label, content, r)
    BY ChildIri DEF Weight
  <2>2. \A r \in view : f[r].iri = name[r] /\ name[r][1] = "BookWeight"
    BY <2>1 DEF WeightIri
  <2>3. ~Clash(name)
    BY DEF BacktestRefused, ChildrenRefused
  <2>4. IsFiniteSet(view) /\ DOMAIN f = view /\ DOMAIN name = view
    BY DEF IsDatabase, Views, BacktestViews
  <2>5. (\A r \in view : f[r] \in inds) /\ \A i \in inds : \E r \in view : f[r] = i
    OBVIOUS
  <2> HIDE DEF f, name, inds, view
  <2>6. Makes(view, f, name, "BookWeight", inds)
    BY <2>2, <2>3, <2>4, <2>5 DEF Makes
  <2>7. Family(inds, {"BookWeight"}, Cardinality(view))
    BY <2>6, ViewFamily
  <2>8. QED
    BY <2>7 DEF inds, view
<1>6. Family({Performance(label, content, r) : r \in content.v_book_daily_performance}, {"BookPerf"}, Cardinality(content.v_book_daily_performance))
  <2> DEFINE f == [r \in content.v_book_daily_performance |-> Performance(label, content, r)]
             name == [r \in content.v_book_daily_performance |-> PerformanceIri(label, content, r)]
             inds == {Performance(label, content, r) : r \in content.v_book_daily_performance}
             view == content.v_book_daily_performance
  <2>1. \A r \in content.v_book_daily_performance : Performance(label, content, r).iri = PerformanceIri(label, content, r)
    BY ChildIri DEF Performance
  <2>2. \A r \in view : f[r].iri = name[r] /\ name[r][1] = "BookPerf"
    BY <2>1 DEF PerformanceIri
  <2>3. ~Clash(name)
    BY DEF BacktestRefused, ChildrenRefused
  <2>4. IsFiniteSet(view) /\ DOMAIN f = view /\ DOMAIN name = view
    BY DEF IsDatabase, Views, BacktestViews
  <2>5. (\A r \in view : f[r] \in inds) /\ \A i \in inds : \E r \in view : f[r] = i
    OBVIOUS
  <2> HIDE DEF f, name, inds, view
  <2>6. Makes(view, f, name, "BookPerf", inds)
    BY <2>2, <2>3, <2>4, <2>5 DEF Makes
  <2>7. Family(inds, {"BookPerf"}, Cardinality(view))
    BY <2>6, ViewFamily
  <2>8. QED
    BY <2>7 DEF inds, view
<1>7. Family({Summary(label, content, r) : r \in content.v_portfolio_period_summary}, {"PeriodSummary"}, Cardinality(content.v_portfolio_period_summary))
  <2> DEFINE f == [r \in content.v_portfolio_period_summary |-> Summary(label, content, r)]
             name == [r \in content.v_portfolio_period_summary |-> SummaryIri(label, content, r)]
             inds == {Summary(label, content, r) : r \in content.v_portfolio_period_summary}
             view == content.v_portfolio_period_summary
  <2>1. \A r \in content.v_portfolio_period_summary : Summary(label, content, r).iri = SummaryIri(label, content, r)
    BY ChildIri DEF Summary
  <2>2. \A r \in view : f[r].iri = name[r] /\ name[r][1] = "PeriodSummary"
    BY <2>1 DEF SummaryIri
  <2>3. ~Clash(name)
    BY DEF BacktestRefused, ChildrenRefused
  <2>4. IsFiniteSet(view) /\ DOMAIN f = view /\ DOMAIN name = view
    BY DEF IsDatabase, Views, BacktestViews
  <2>5. (\A r \in view : f[r] \in inds) /\ \A i \in inds : \E r \in view : f[r] = i
    OBVIOUS
  <2> HIDE DEF f, name, inds, view
  <2>6. Makes(view, f, name, "PeriodSummary", inds)
    BY <2>2, <2>3, <2>4, <2>5 DEF Makes
  <2>7. Family(inds, {"PeriodSummary"}, Cardinality(view))
    BY <2>6, ViewFamily
  <2>8. QED
    BY <2>7 DEF inds, view
<1>8. Family({Test(label, r) : r \in content.v_backtest_test}, {"BacktestTest"}, Cardinality(content.v_backtest_test))
  <2> DEFINE f == [r \in content.v_backtest_test |-> Test(label, r)]
             name == [r \in content.v_backtest_test |-> TestIri(label, r)]
             inds == {Test(label, r) : r \in content.v_backtest_test}
             view == content.v_backtest_test
  <2>1. \A r \in content.v_backtest_test : Test(label, r).iri = TestIri(label, r)
    BY IndividualParts DEF Test
  <2>2. \A r \in view : f[r].iri = name[r] /\ name[r][1] = "BacktestTest"
    BY <2>1 DEF TestIri
  <2>3. ~Clash(name)
    BY DEF BacktestRefused, TestsRefused
  <2>4. IsFiniteSet(view) /\ DOMAIN f = view /\ DOMAIN name = view
    BY DEF IsDatabase, Views, BacktestViews
  <2>5. (\A r \in view : f[r] \in inds) /\ \A i \in inds : \E r \in view : f[r] = i
    OBVIOUS
  <2> HIDE DEF f, name, inds, view
  <2>6. Makes(view, f, name, "BacktestTest", inds)
    BY <2>2, <2>3, <2>4, <2>5 DEF Makes
  <2>7. Family(inds, {"BacktestTest"}, Cardinality(view))
    BY <2>6, ViewFamily
  <2>8. QED
    BY <2>7 DEF inds, view
<1> DEFINE V1 == {Book(label, b) : b \in content.v_book}
           n1 == Cardinality(content.v_book)
           V2 == {Alert(label, a, assets) : a \in content.v_guard_alert}
           n2 == Cardinality(content.v_guard_alert)
           V3 == {Rebalance(label, content, r) : r \in content.v_book_rebalance}
           n3 == Cardinality(content.v_book_rebalance)
           V4 == {Action(label, content, r, assets) : r \in content.v_guard_action}
           n4 == Cardinality(content.v_guard_action)
           V5 == {Weight(label, content, r, assets) : r \in content.v_book_weight_daily}
           n5 == Cardinality(content.v_book_weight_daily)
           V6 == {Performance(label, content, r) : r \in content.v_book_daily_performance}
           n6 == Cardinality(content.v_book_daily_performance)
           V7 == {Summary(label, content, r) : r \in content.v_portfolio_period_summary}
           n7 == Cardinality(content.v_portfolio_period_summary)
           V8 == {Test(label, r) : r \in content.v_backtest_test}
           n8 == Cardinality(content.v_backtest_test)
<1> HIDE DEF V1, n1, V2, n2, V3, n3, V4, n4, V5, n5, V6, n6, V7, n7, V8, n8
<1>9. /\ Family(V1, {"Book"}, n1)
      /\ Family(V2, {"GuardAlert"}, n2)
      /\ Family(V3, {"Rebalance"}, n3)
      /\ Family(V4, {"GuardAction"}, n4)
      /\ Family(V5, {"BookWeight"}, n5)
      /\ Family(V6, {"BookPerf"}, n6)
      /\ Family(V7, {"PeriodSummary"}, n7)
      /\ Family(V8, {"BacktestTest"}, n8)
  BY <1>1, <1>2, <1>3, <1>4, <1>5, <1>6, <1>7, <1>8 DEF V1, n1, V2, n2, V3, n3, V4, n4, V5, n5, V6, n6, V7, n7, V8, n8
<1>10. Family(V1 \cup V2, {"Book", "GuardAlert"},
             n1 + n2)
  <2>1. {"Book"} \cup {"GuardAlert"} = {"Book", "GuardAlert"}
        /\ {"Book"} \cap {"GuardAlert"} = {}
    OBVIOUS
  <2>2. QED
    BY <1>9, <2>1, FamilyUnion
<1>11. Family(V1 \cup V2 \cup V3, {"Book", "GuardAlert", "Rebalance"},
             n1 + n2 + n3)
  <2>1. {"Book", "GuardAlert"} \cup {"Rebalance"} = {"Book", "GuardAlert", "Rebalance"}
        /\ {"Book", "GuardAlert"} \cap {"Rebalance"} = {}
    OBVIOUS
  <2>2. QED
    BY <1>9, <1>10, <2>1, FamilyUnion
<1>12. Family(V1 \cup V2 \cup V3 \cup V4, {"Book", "GuardAlert", "Rebalance", "GuardAction"},
             n1 + n2 + n3 + n4)
  <2>1. {"Book", "GuardAlert", "Rebalance"} \cup {"GuardAction"} = {"Book", "GuardAlert", "Rebalance", "GuardAction"}
        /\ {"Book", "GuardAlert", "Rebalance"} \cap {"GuardAction"} = {}
    OBVIOUS
  <2>2. QED
    BY <1>9, <1>11, <2>1, FamilyUnion
<1>13. Family(V1 \cup V2 \cup V3 \cup V4 \cup V5, {"Book", "GuardAlert", "Rebalance", "GuardAction", "BookWeight"},
             n1 + n2 + n3 + n4 + n5)
  <2>1. {"Book", "GuardAlert", "Rebalance", "GuardAction"} \cup {"BookWeight"} = {"Book", "GuardAlert", "Rebalance", "GuardAction", "BookWeight"}
        /\ {"Book", "GuardAlert", "Rebalance", "GuardAction"} \cap {"BookWeight"} = {}
    OBVIOUS
  <2>2. QED
    BY <1>9, <1>12, <2>1, FamilyUnion
<1>14. Family(V1 \cup V2 \cup V3 \cup V4 \cup V5 \cup V6, {"Book", "GuardAlert", "Rebalance", "GuardAction", "BookWeight", "BookPerf"},
             n1 + n2 + n3 + n4 + n5 + n6)
  <2>1. {"Book", "GuardAlert", "Rebalance", "GuardAction", "BookWeight"} \cup {"BookPerf"} = {"Book", "GuardAlert", "Rebalance", "GuardAction", "BookWeight", "BookPerf"}
        /\ {"Book", "GuardAlert", "Rebalance", "GuardAction", "BookWeight"} \cap {"BookPerf"} = {}
    OBVIOUS
  <2>2. QED
    BY <1>9, <1>13, <2>1, FamilyUnion
<1>15. Family(V1 \cup V2 \cup V3 \cup V4 \cup V5 \cup V6 \cup V7, {"Book", "GuardAlert", "Rebalance", "GuardAction", "BookWeight", "BookPerf", "PeriodSummary"},
             n1 + n2 + n3 + n4 + n5 + n6 + n7)
  <2>1. {"Book", "GuardAlert", "Rebalance", "GuardAction", "BookWeight", "BookPerf"} \cup {"PeriodSummary"} = {"Book", "GuardAlert", "Rebalance", "GuardAction", "BookWeight", "BookPerf", "PeriodSummary"}
        /\ {"Book", "GuardAlert", "Rebalance", "GuardAction", "BookWeight", "BookPerf"} \cap {"PeriodSummary"} = {}
    OBVIOUS
  <2>2. QED
    BY <1>9, <1>14, <2>1, FamilyUnion
<1>16. Family(V1 \cup V2 \cup V3 \cup V4 \cup V5 \cup V6 \cup V7 \cup V8, {"Book", "GuardAlert", "Rebalance", "GuardAction", "BookWeight", "BookPerf", "PeriodSummary", "BacktestTest"},
             n1 + n2 + n3 + n4 + n5 + n6 + n7 + n8)
  <2>1. {"Book", "GuardAlert", "Rebalance", "GuardAction", "BookWeight", "BookPerf", "PeriodSummary"} \cup {"BacktestTest"} = {"Book", "GuardAlert", "Rebalance", "GuardAction", "BookWeight", "BookPerf", "PeriodSummary", "BacktestTest"}
        /\ {"Book", "GuardAlert", "Rebalance", "GuardAction", "BookWeight", "BookPerf", "PeriodSummary"} \cap {"BacktestTest"} = {}
    OBVIOUS
  <2>2. QED
    BY <1>9, <1>15, <2>1, FamilyUnion
<1>17. QED
  BY <1>16 DEF BacktestIndividuals, V1, n1, V2, n2, V3, n3, V4, n4, V5, n5, V6, n6, V7, n7, V8, n8

(* The selection individuals of an accepted database: one per row that is      *)
(* projected.                                                                  *)
LEMMA SelectionFamily ==
  ASSUME NEW label, NEW content, NEW assets, ~SelectionRefused(label, content), IsDatabase(content)
  PROVE  \E stems : Family(SelectionIndividuals(label, content, assets), stems,
           Cardinality(content.v_cycle_run)
             + Cardinality(content.v_weight_scheme)
             + Cardinality(content.v_weight_component)
             + Cardinality(Projected(content))
             + Cardinality(Weighed(content))
             + Cardinality(content.v_veto))
<1> DEFINE c == Context(label, content)
<1> HIDE DEF c
<1>0. IsFiniteSet(Projected(content)) /\ IsFiniteSet(Weighed(content))
  <2>1. /\ IsFiniteSet(content.v_cycle_ranking) /\ IsFiniteSet(content.v_cycle_ranking_component)
        /\ Projected(content) \in SUBSET content.v_cycle_ranking
        /\ Weighed(content) \in SUBSET content.v_cycle_ranking_component
    BY DEF IsDatabase, Views, BacktestViews, Projected, Weighed
  <2>2. QED
    BY <2>1, FS_Subset
<1>1. Family({Cycle(c, r) : r \in content.v_cycle_run}, {"Cycle"}, Cardinality(content.v_cycle_run))
  <2> DEFINE f == [r \in content.v_cycle_run |-> Cycle(c, r)]
             name == [r \in content.v_cycle_run |-> CycleIri(c, r.cycle)]
             inds == {Cycle(c, r) : r \in content.v_cycle_run}
             view == content.v_cycle_run
  <2>1. \A r \in content.v_cycle_run : Cycle(c, r).iri = CycleIri(c, r.cycle)
    BY IndividualParts DEF Cycle
  <2>2. \A r \in view : f[r].iri = name[r] /\ name[r][1] = "Cycle"
    BY <2>1 DEF CycleIri
  <2>3. ~Clash(name)
    BY DEF SelectionRefused, SelectionStops, Clash, CycleIri
  <2>4. IsFiniteSet(view) /\ DOMAIN f = view /\ DOMAIN name = view
    BY DEF IsDatabase, Views, BacktestViews
  <2>5. (\A r \in view : f[r] \in inds) /\ \A i \in inds : \E r \in view : f[r] = i
    OBVIOUS
  <2> HIDE DEF f, name, inds, view
  <2>6. Makes(view, f, name, "Cycle", inds)
    BY <2>2, <2>3, <2>4, <2>5 DEF Makes
  <2>7. Family(inds, {"Cycle"}, Cardinality(view))
    BY <2>6, ViewFamily
  <2>8. QED
    BY <2>7 DEF inds, view
<1>2. Family({Scheme(c, r) : r \in content.v_weight_scheme}, {"Scheme"}, Cardinality(content.v_weight_scheme))
  <2> DEFINE f == [r \in content.v_weight_scheme |-> Scheme(c, r)]
             name == [r \in content.v_weight_scheme |-> SchemeIri(c, r.cycle)]
             inds == {Scheme(c, r) : r \in content.v_weight_scheme}
             view == content.v_weight_scheme
  <2>1. \A r \in content.v_weight_scheme : Scheme(c, r).iri = SchemeIri(c, r.cycle)
    BY IndividualParts DEF Scheme
  <2>2. \A r \in view : f[r].iri = name[r] /\ name[r][1] = "Scheme"
    BY <2>1 DEF SchemeIri
  <2>3. ~Clash(name)
    BY DEF SelectionRefused, SelectionStops, Clash, SchemeIri
  <2>4. IsFiniteSet(view) /\ DOMAIN f = view /\ DOMAIN name = view
    BY DEF IsDatabase, Views, BacktestViews
  <2>5. (\A r \in view : f[r] \in inds) /\ \A i \in inds : \E r \in view : f[r] = i
    OBVIOUS
  <2> HIDE DEF f, name, inds, view
  <2>6. Makes(view, f, name, "Scheme", inds)
    BY <2>2, <2>3, <2>4, <2>5 DEF Makes
  <2>7. Family(inds, {"Scheme"}, Cardinality(view))
    BY <2>6, ViewFamily
  <2>8. QED
    BY <2>7 DEF inds, view
<1>3. Family({Configured(c, r) : r \in content.v_weight_component}, {"Weight"}, Cardinality(content.v_weight_component))
  <2> DEFINE f == [r \in content.v_weight_component |-> Configured(c, r)]
             name == [r \in content.v_weight_component |-> ConfiguredIri(c, r)]
             inds == {Configured(c, r) : r \in content.v_weight_component}
             view == content.v_weight_component
  <2>1. \A r \in content.v_weight_component : Configured(c, r).iri = ConfiguredIri(c, r)
    BY WithParts DEF Configured
  <2>2. \A r \in view : f[r].iri = name[r] /\ name[r][1] = "Weight"
    BY <2>1 DEF ConfiguredIri
  <2>3. ~Clash(name)
    BY DEF SelectionRefused, SelectionStops, Clash, ConfiguredIri
  <2>4. IsFiniteSet(view) /\ DOMAIN f = view /\ DOMAIN name = view
    BY DEF IsDatabase, Views, BacktestViews
  <2>5. (\A r \in view : f[r] \in inds) /\ \A i \in inds : \E r \in view : f[r] = i
    OBVIOUS
  <2> HIDE DEF f, name, inds, view
  <2>6. Makes(view, f, name, "Weight", inds)
    BY <2>2, <2>3, <2>4, <2>5 DEF Makes
  <2>7. Family(inds, {"Weight"}, Cardinality(view))
    BY <2>6, ViewFamily
  <2>8. QED
    BY <2>7 DEF inds, view
<1>4. Family({Ranking(c, content, r, assets) : r \in Projected(content)}, {"Snap"}, Cardinality(Projected(content)))
  <2> DEFINE f == [r \in Projected(content) |-> Ranking(c, content, r, assets)]
             name == [r \in Projected(content) |-> SnapIri(c, r)]
             inds == {Ranking(c, content, r, assets) : r \in Projected(content)}
             view == Projected(content)
  <2>1. \A r \in Projected(content) : Ranking(c, content, r, assets).iri = SnapIri(c, r)
    BY IndividualParts DEF Ranking
  <2>2. \A r \in view : f[r].iri = name[r] /\ name[r][1] = "Snap"
    BY <2>1 DEF SnapIri
  <2>3. ~Clash(name)
    BY DEF SelectionRefused, SelectionStops, Clash, SnapIri, Projected
  <2>4. IsFiniteSet(view) /\ DOMAIN f = view /\ DOMAIN name = view
    BY <1>0 DEF IsDatabase, Views, BacktestViews
  <2>5. (\A r \in view : f[r] \in inds) /\ \A i \in inds : \E r \in view : f[r] = i
    OBVIOUS
  <2> HIDE DEF f, name, inds, view
  <2>6. Makes(view, f, name, "Snap", inds)
    BY <2>2, <2>3, <2>4, <2>5 DEF Makes
  <2>7. Family(inds, {"Snap"}, Cardinality(view))
    BY <2>6, ViewFamily
  <2>8. QED
    BY <2>7 DEF inds, view
<1>5. Family({Effective(c, r) : r \in Weighed(content)}, {"RankComp"}, Cardinality(Weighed(content)))
  <2> DEFINE f == [r \in Weighed(content) |-> Effective(c, r)]
             name == [r \in Weighed(content) |-> EffectiveIri(c, r)]
             inds == {Effective(c, r) : r \in Weighed(content)}
             view == Weighed(content)
  <2>1. \A r \in Weighed(content) : Effective(c, r).iri = EffectiveIri(c, r)
    BY WithParts DEF Effective
  <2>2. \A r \in view : f[r].iri = name[r] /\ name[r][1] = "RankComp"
    BY <2>1 DEF EffectiveIri
  <2>3. ~Clash(name)
    BY DEF SelectionRefused, SelectionStops, Clash, EffectiveIri, Weighed
  <2>4. IsFiniteSet(view) /\ DOMAIN f = view /\ DOMAIN name = view
    BY <1>0 DEF IsDatabase, Views, BacktestViews
  <2>5. (\A r \in view : f[r] \in inds) /\ \A i \in inds : \E r \in view : f[r] = i
    OBVIOUS
  <2> HIDE DEF f, name, inds, view
  <2>6. Makes(view, f, name, "RankComp", inds)
    BY <2>2, <2>3, <2>4, <2>5 DEF Makes
  <2>7. Family(inds, {"RankComp"}, Cardinality(view))
    BY <2>6, ViewFamily
  <2>8. QED
    BY <2>7 DEF inds, view
<1>6. Family({Veto(c, content, r, assets) : r \in content.v_veto}, {"Veto"}, Cardinality(content.v_veto))
  <2> DEFINE f == [r \in content.v_veto |-> Veto(c, content, r, assets)]
             name == [r \in content.v_veto |-> VetoIri(c, r)]
             inds == {Veto(c, content, r, assets) : r \in content.v_veto}
             view == content.v_veto
  <2>1. \A r \in content.v_veto : Veto(c, content, r, assets).iri = VetoIri(c, r)
    BY IndividualParts DEF Veto
  <2>2. \A r \in view : f[r].iri = name[r] /\ name[r][1] = "Veto"
    BY <2>1 DEF VetoIri
  <2>3. ~Clash(name)
    BY DEF SelectionRefused, SelectionStops, Clash, VetoIri
  <2>4. IsFiniteSet(view) /\ DOMAIN f = view /\ DOMAIN name = view
    BY DEF IsDatabase, Views, BacktestViews
  <2>5. (\A r \in view : f[r] \in inds) /\ \A i \in inds : \E r \in view : f[r] = i
    OBVIOUS
  <2> HIDE DEF f, name, inds, view
  <2>6. Makes(view, f, name, "Veto", inds)
    BY <2>2, <2>3, <2>4, <2>5 DEF Makes
  <2>7. Family(inds, {"Veto"}, Cardinality(view))
    BY <2>6, ViewFamily
  <2>8. QED
    BY <2>7 DEF inds, view
<1> DEFINE V1 == {Cycle(c, r) : r \in content.v_cycle_run}
           n1 == Cardinality(content.v_cycle_run)
           V2 == {Scheme(c, r) : r \in content.v_weight_scheme}
           n2 == Cardinality(content.v_weight_scheme)
           V3 == {Configured(c, r) : r \in content.v_weight_component}
           n3 == Cardinality(content.v_weight_component)
           V4 == {Ranking(c, content, r, assets) : r \in Projected(content)}
           n4 == Cardinality(Projected(content))
           V5 == {Effective(c, r) : r \in Weighed(content)}
           n5 == Cardinality(Weighed(content))
           V6 == {Veto(c, content, r, assets) : r \in content.v_veto}
           n6 == Cardinality(content.v_veto)
<1> HIDE DEF V1, n1, V2, n2, V3, n3, V4, n4, V5, n5, V6, n6
<1>7. /\ Family(V1, {"Cycle"}, n1)
      /\ Family(V2, {"Scheme"}, n2)
      /\ Family(V3, {"Weight"}, n3)
      /\ Family(V4, {"Snap"}, n4)
      /\ Family(V5, {"RankComp"}, n5)
      /\ Family(V6, {"Veto"}, n6)
  BY <1>1, <1>2, <1>3, <1>4, <1>5, <1>6 DEF V1, n1, V2, n2, V3, n3, V4, n4, V5, n5, V6, n6
<1>8. Family(V1 \cup V2, {"Cycle", "Scheme"},
             n1 + n2)
  <2>1. {"Cycle"} \cup {"Scheme"} = {"Cycle", "Scheme"}
        /\ {"Cycle"} \cap {"Scheme"} = {}
    OBVIOUS
  <2>2. QED
    BY <1>7, <2>1, FamilyUnion
<1>9. Family(V1 \cup V2 \cup V3, {"Cycle", "Scheme", "Weight"},
             n1 + n2 + n3)
  <2>1. {"Cycle", "Scheme"} \cup {"Weight"} = {"Cycle", "Scheme", "Weight"}
        /\ {"Cycle", "Scheme"} \cap {"Weight"} = {}
    OBVIOUS
  <2>2. QED
    BY <1>7, <1>8, <2>1, FamilyUnion
<1>10. Family(V1 \cup V2 \cup V3 \cup V4, {"Cycle", "Scheme", "Weight", "Snap"},
             n1 + n2 + n3 + n4)
  <2>1. {"Cycle", "Scheme", "Weight"} \cup {"Snap"} = {"Cycle", "Scheme", "Weight", "Snap"}
        /\ {"Cycle", "Scheme", "Weight"} \cap {"Snap"} = {}
    OBVIOUS
  <2>2. QED
    BY <1>7, <1>9, <2>1, FamilyUnion
<1>11. Family(V1 \cup V2 \cup V3 \cup V4 \cup V5, {"Cycle", "Scheme", "Weight", "Snap", "RankComp"},
             n1 + n2 + n3 + n4 + n5)
  <2>1. {"Cycle", "Scheme", "Weight", "Snap"} \cup {"RankComp"} = {"Cycle", "Scheme", "Weight", "Snap", "RankComp"}
        /\ {"Cycle", "Scheme", "Weight", "Snap"} \cap {"RankComp"} = {}
    OBVIOUS
  <2>2. QED
    BY <1>7, <1>10, <2>1, FamilyUnion
<1>12. Family(V1 \cup V2 \cup V3 \cup V4 \cup V5 \cup V6, {"Cycle", "Scheme", "Weight", "Snap", "RankComp", "Veto"},
             n1 + n2 + n3 + n4 + n5 + n6)
  <2>1. {"Cycle", "Scheme", "Weight", "Snap", "RankComp"} \cup {"Veto"} = {"Cycle", "Scheme", "Weight", "Snap", "RankComp", "Veto"}
        /\ {"Cycle", "Scheme", "Weight", "Snap", "RankComp"} \cap {"Veto"} = {}
    OBVIOUS
  <2>2. QED
    BY <1>7, <1>11, <2>1, FamilyUnion
<1>13. QED
  BY <1>12 DEF SelectionIndividuals, c, V1, n1, V2, n2, V3, n3, V4, n4, V5, n5, V6, n6

(* The reference individuals of an accepted database: one per row.             *)
LEMMA ReferenceFamily ==
  ASSUME NEW label, NEW day, NEW content, NEW assets, ~ReferenceRefused(label, day, content),
         IsDatabase(content)
  PROVE  \E stems : Family(ReferenceIndividuals(label, day, content, assets), stems,
           Cardinality(content.v_ticker_history)
             + Cardinality(content.v_orchestrator_run)
             + Cardinality(content.v_orchestrator_step))
<1>1. Family({Ticker(label, day, r, assets) : r \in content.v_ticker_history}, {"TickerHistory"}, Cardinality(content.v_ticker_history))
  <2> DEFINE f == [r \in content.v_ticker_history |-> Ticker(label, day, r, assets)]
             name == [r \in content.v_ticker_history |-> TickerIri(label, day, r)]
             inds == {Ticker(label, day, r, assets) : r \in content.v_ticker_history}
             view == content.v_ticker_history
  <2>1. \A r \in content.v_ticker_history : Ticker(label, day, r, assets).iri = TickerIri(label, day, r)
    BY IndividualParts DEF Ticker
  <2>2. \A r \in view : f[r].iri = name[r] /\ name[r][1] = "TickerHistory"
    BY <2>1 DEF TickerIri
  <2>3. ~Clash(name)
    BY DEF ReferenceRefused, TickersRefused
  <2>4. IsFiniteSet(view) /\ DOMAIN f = view /\ DOMAIN name = view
    BY DEF IsDatabase, Views, BacktestViews
  <2>5. (\A r \in view : f[r] \in inds) /\ \A i \in inds : \E r \in view : f[r] = i
    OBVIOUS
  <2> HIDE DEF f, name, inds, view
  <2>6. Makes(view, f, name, "TickerHistory", inds)
    BY <2>2, <2>3, <2>4, <2>5 DEF Makes
  <2>7. Family(inds, {"TickerHistory"}, Cardinality(view))
    BY <2>6, ViewFamily
  <2>8. QED
    BY <2>7 DEF inds, view
<1>2. Family({OrchestratorRun(label, r) : r \in content.v_orchestrator_run}, {"OrchestratorRun"}, Cardinality(content.v_orchestrator_run))
  <2> DEFINE f == [r \in content.v_orchestrator_run |-> OrchestratorRun(label, r)]
             name == [r \in content.v_orchestrator_run |-> OrchestratorRunIri(label, r.run)]
             inds == {OrchestratorRun(label, r) : r \in content.v_orchestrator_run}
             view == content.v_orchestrator_run
  <2>1. \A r \in content.v_orchestrator_run : OrchestratorRun(label, r).iri = OrchestratorRunIri(label, r.run)
    BY IndividualParts DEF OrchestratorRun
  <2>2. \A r \in view : f[r].iri = name[r] /\ name[r][1] = "OrchestratorRun"
    BY <2>1 DEF OrchestratorRunIri
  <2>3. ~Clash(name)
    BY DEF ReferenceRefused, OrchestratorRefused
  <2>4. IsFiniteSet(view) /\ DOMAIN f = view /\ DOMAIN name = view
    BY DEF IsDatabase, Views, BacktestViews
  <2>5. (\A r \in view : f[r] \in inds) /\ \A i \in inds : \E r \in view : f[r] = i
    OBVIOUS
  <2> HIDE DEF f, name, inds, view
  <2>6. Makes(view, f, name, "OrchestratorRun", inds)
    BY <2>2, <2>3, <2>4, <2>5 DEF Makes
  <2>7. Family(inds, {"OrchestratorRun"}, Cardinality(view))
    BY <2>6, ViewFamily
  <2>8. QED
    BY <2>7 DEF inds, view
<1>3. Family({OrchestratorStep(label, r) : r \in content.v_orchestrator_step}, {"OrchestratorStep"}, Cardinality(content.v_orchestrator_step))
  <2> DEFINE f == [r \in content.v_orchestrator_step |-> OrchestratorStep(label, r)]
             name == [r \in content.v_orchestrator_step |-> OrchestratorStepIri(label, r)]
             inds == {OrchestratorStep(label, r) : r \in content.v_orchestrator_step}
             view == content.v_orchestrator_step
  <2>1. \A r \in content.v_orchestrator_step : OrchestratorStep(label, r).iri = OrchestratorStepIri(label, r)
    BY IndividualParts DEF OrchestratorStep
  <2>2. \A r \in view : f[r].iri = name[r] /\ name[r][1] = "OrchestratorStep"
    BY <2>1 DEF OrchestratorStepIri
  <2>3. ~Clash(name)
    BY DEF ReferenceRefused, OrchestratorRefused
  <2>4. IsFiniteSet(view) /\ DOMAIN f = view /\ DOMAIN name = view
    BY DEF IsDatabase, Views, BacktestViews
  <2>5. (\A r \in view : f[r] \in inds) /\ \A i \in inds : \E r \in view : f[r] = i
    OBVIOUS
  <2> HIDE DEF f, name, inds, view
  <2>6. Makes(view, f, name, "OrchestratorStep", inds)
    BY <2>2, <2>3, <2>4, <2>5 DEF Makes
  <2>7. Family(inds, {"OrchestratorStep"}, Cardinality(view))
    BY <2>6, ViewFamily
  <2>8. QED
    BY <2>7 DEF inds, view
<1> DEFINE V1 == {Ticker(label, day, r, assets) : r \in content.v_ticker_history}
           n1 == Cardinality(content.v_ticker_history)
           V2 == {OrchestratorRun(label, r) : r \in content.v_orchestrator_run}
           n2 == Cardinality(content.v_orchestrator_run)
           V3 == {OrchestratorStep(label, r) : r \in content.v_orchestrator_step}
           n3 == Cardinality(content.v_orchestrator_step)
<1> HIDE DEF V1, n1, V2, n2, V3, n3
<1>4. /\ Family(V1, {"TickerHistory"}, n1)
      /\ Family(V2, {"OrchestratorRun"}, n2)
      /\ Family(V3, {"OrchestratorStep"}, n3)
  BY <1>1, <1>2, <1>3 DEF V1, n1, V2, n2, V3, n3
<1>5. Family(V1 \cup V2, {"TickerHistory", "OrchestratorRun"},
             n1 + n2)
  <2>1. {"TickerHistory"} \cup {"OrchestratorRun"} = {"TickerHistory", "OrchestratorRun"}
        /\ {"TickerHistory"} \cap {"OrchestratorRun"} = {}
    OBVIOUS
  <2>2. QED
    BY <1>4, <2>1, FamilyUnion
<1>6. Family(V1 \cup V2 \cup V3, {"TickerHistory", "OrchestratorRun", "OrchestratorStep"},
             n1 + n2 + n3)
  <2>1. {"TickerHistory", "OrchestratorRun"} \cup {"OrchestratorStep"} = {"TickerHistory", "OrchestratorRun", "OrchestratorStep"}
        /\ {"TickerHistory", "OrchestratorRun"} \cap {"OrchestratorStep"} = {}
    OBVIOUS
  <2>2. QED
    BY <1>4, <1>5, <2>1, FamilyUnion
<1>7. QED
  BY <1>6 DEF ReferenceIndividuals, V1, n1, V2, n2, V3, n3

(* What the slots hold are databases, whatever is delivered.                   *)
DatabasesInv == DOMAIN db = Slot /\ \A slot \in Slot : IsDatabase(db[slot])

(* A delivery replaces one of them by another.                                 *)
LEMMA DatabasesStep == ASSUME DatabasesInv, [Next]_vars PROVE DatabasesInv'
<1>1. CASE UNCHANGED db
  BY <1>1 DEF DatabasesInv
<1>2. ASSUME NEW slot \in Slot, NEW content \in Later[slot], Redeliver(slot, content)
      PROVE  DatabasesInv'
  <2>1. db' = [db EXCEPT ![slot] = content] /\ IsDatabase(content)
    BY <1>2, DatabaseAssumption DEF Redeliver
  <2>2. QED
    BY <2>1 DEF DatabasesInv
<1>3. QED
  BY <1>1, <1>2 DEF Next, Work, Faults, UniverseMoves, CatalogLoad, Start, Open, Stop, Close, Finish,
     Validate, Skip, Write, Doubt, StoreFails, Running, Reads, Posts, vars

(* The three sides together.                                                   *)
LEMMA AcceptedFamily ==
  ASSUME NEW slot, Projectable(slot), command.line \in CommandLine, IsDatabase(db[slot])
  PROVE  \E stems :
           Family(Individuals(command.line.side, slot, db[slot], command.line.day, command.assets),
                  stems, Projecting(command.line.side, db[slot]))
<1> DEFINE side == command.line.side
<1>1. side \in {"m018", "selection", "reference"}
  BY ProjectorAssumption
<1>2. CASE side = "m018"
  BY <1>2, BacktestFamily DEF Individuals, Projectable, Refused, Projecting, Size
<1>3. CASE side = "selection"
  BY <1>3, SelectionFamily DEF Individuals, Projectable, Refused, Projecting, Size
<1>4. CASE side = "reference"
  BY <1>4, ReferenceFamily DEF Individuals, Projectable, Refused, Projecting, Size
<1>5. QED
  BY <1>1, <1>2, <1>3, <1>4

(* Every row of an accepted database has an individual of its own, although the *)
(* IRIs name a window and never a run: the checks of backtest.py and reference.py *)
(* and the key checks of the boundary together keep two rows apart.            *)
THEOREM RowsStayApart == Spec => []OneIndividualPerRow
<1> DEFINE Inv == CommandInv /\ WorkInv /\ DatabasesInv
<1>1. Init => Inv
  BY DatabaseAssumption DEF Init, CommandInv, WorkInv, DatabasesInv
<1>2. ShapeInv /\ Inv /\ [Next]_vars => Inv'
  BY CommandStep, WorkStep, DatabasesStep
<1>3. ASSUME ShapeInv, Inv PROVE OneIndividualPerRow
  <2> SUFFICES ASSUME Ready
               PROVE  /\ Cardinality({i.iri : i \in todo.individuals}) = Cardinality(todo.individuals)
                      /\ Cardinality(todo.individuals) = Projecting(command.line.side, db[todo.slot])
    BY DEF OneIndividualPerRow, Size
  <2>1. outcome = "running"
    BY <1>3, EmptyShapes DEF ShapeInv, Idle, Ready
  <2>2. /\ command.line \in CommandLine /\ Projectable(todo.slot)
        /\ todo.slot \in Range(command.line.slots)
    BY <1>3, <2>1 DEF CommandInv, Current
  <2>3. todo.slot \in Slot
    <3>1. command.line.slots \in Seq(Slot)
      BY <2>2, ProjectorAssumption
    <3>2. Range(command.line.slots) \subseteq Slot
      BY <3>1 DEF Range
    <3>3. QED
      BY <2>2, <3>2
  <2>4. PICK stems : Family(todo.individuals, stems, Projecting(command.line.side, db[todo.slot]))
    BY <1>3, <2>1, <2>2, <2>3, AcceptedFamily DEF WorkInv, DatabasesInv
  <2>5. QED
    BY <2>4, FamilyIris DEF Family
<1> HIDE DEF Inv
<1>4. Spec => []Inv
  BY <1>1, <1>2, Inductive, PTL DEF Spec
<1>5. QED
  BY <1>3, <1>4, Inductive, PTL

-----------------------------------------------------------------------------
(* The verifier reads back what was written.                                   *)

(* The properties by which a row says that the individual above it has it.     *)
Upward == {"bookHasRebalance", "bookHasGuardAction", "bookHasWeight", "bookHasPerformance",
           "bookHasSummary", "alertHasGuardAction", "hasWeightComponent", "hasEffectiveWeight"}

(* An individual states its class and facts (a record: of each property the    *)
(* values), and of the individuals above it only that they have it.            *)
Tells(i, graph, iri, class, facts) ==
  /\ i.graph = graph /\ i.iri = iri /\ i.class = class
  /\ <<iri, "a", class>> \in i.triples
  /\ \A p \in DOMAIN facts : \A v \in facts[p] : <<iri, p, v>> \in i.triples
  /\ \A t \in i.triples :
       \/ t[2] \in Upward \/ t = <<iri, "a", class>>
       \/ t = <<iri, t[2], t[3]>> /\ t[2] \in DOMAIN facts /\ t[3] \in facts[t[2]]
  /\ DOMAIN facts \cap (Upward \cup {"a"}) = {}

(* The property values that a builder is given amount to the facts.            *)
Amounts(properties, facts) ==
  /\ \A p \in DOMAIN facts : \A v \in facts[p] : <<p, v>> \in properties
  /\ \A q \in properties : q = <<q[1], q[2]>> /\ q[1] \in DOMAIN facts /\ q[2] \in facts[q[1]]
  /\ DOMAIN facts \cap (Upward \cup {"a"}) = {}

(* How the builders make one.                                                  *)
LEMMA NodeTells ==
  ASSUME NEW graph, NEW iri, NEW class, NEW properties, NEW facts, Amounts(properties, facts)
  PROVE  Tells(Individual(graph, iri, class, properties), graph, iri, class, facts)
<1> DEFINE i == Individual(graph, iri, class, properties)
<1>1. i.iri = iri /\ i.graph = graph /\ i.triples = Statements(iri, class, properties)
  BY IndividualParts
<1>2. i.class = class
  BY DEF Individual
<1> HIDE DEF i
<1>3. ASSUME NEW p \in DOMAIN facts, NEW v \in facts[p] PROVE <<iri, p, v>> \in i.triples
  <2>1. <<p, v>> \in properties
    BY DEF Amounts
  <2>2. QED
    BY <1>1, <2>1 DEF Statements
<1>4. ASSUME NEW t \in i.triples
      PROVE  \/ t = <<iri, "a", class>>
             \/ t = <<iri, t[2], t[3]>> /\ t[2] \in DOMAIN facts /\ t[3] \in facts[t[2]]
  BY <1>1 DEF Amounts, Statements
<1>5. <<iri, "a", class>> \in i.triples
  BY <1>1 DEF Statements
<1>6. Tells(i, graph, iri, class, facts)
  BY <1>1, <1>2, <1>3, <1>4, <1>5 DEF Tells, Amounts
<1>7. QED
  BY <1>6 DEF i

(* It is in its graph under its IRI.                                           *)
LEMMA OwnGraph ==
  \A i, graph, iri, class, facts :
    Tells(i, graph, iri, class, facts)
      => i.graph = graph /\ i.iri = iri /\ i.class = class /\ Tells(i, i.graph, iri, class, facts)
BY DEF Tells

(* Further triples of the right kind change nothing.                           *)
LEMMA MoreTells ==
  ASSUME NEW graph, NEW iri, NEW class, NEW facts, NEW i, Tells(i, graph, iri, class, facts),
         i = [graph |-> i.graph, iri |-> i.iri, class |-> i.class, triples |-> i.triples],
         NEW more, \A t \in more : t[2] \in Upward
  PROVE  Tells(With(i, more), graph, iri, class, facts)
<1> DEFINE w == With(i, more)
<1>1. w.graph = i.graph /\ w.iri = i.iri /\ w.class = i.class /\ w.triples = i.triples \cup more
  BY DEF With
<1> HIDE DEF w
<1>2. Tells(w, graph, iri, class, facts)
  BY <1>1 DEF Tells
<1>3. QED
  BY <1>2 DEF w

(* They keep the record's form.                                                *)
LEMMA RecordForm ==
  /\ \A graph, iri, class, facts :
       LET i == Individual(graph, iri, class, facts)
       IN  i = [graph |-> i.graph, iri |-> i.iri, class |-> i.class, triples |-> i.triples]
  /\ \A i, more :
       i = [graph |-> i.graph, iri |-> i.iri, class |-> i.class, triples |-> i.triples]
         => LET w == With(i, more)
            IN  w = [graph |-> w.graph, iri |-> w.iri, class |-> w.class, triples |-> w.triples]
BY DEF Individual, With

(* A row below a book.                                                         *)
BookGraph(label, content, r) ==
  GraphName(label, TheBook(content, r).window, TheBook(content, r).run)
BelowBook(label, content, r, of) ==
  {<<"bookId", r.book>>, <<"backtestRunId", TheBook(content, r).run>>,
   <<"armCode", TheBook(content, r).arm>>, <<of, BookIri(label, TheBook(content, r))>>,
   <<"knowledgeDate", r.known>>}

(* So does a row below a book.                                                *)
LEMMA ChildTells ==
  ASSUME NEW label, NEW content, NEW r, NEW iri, NEW class, NEW of, NEW has, NEW own, NEW more,
         NEW facts, Amounts(own \cup BelowBook(label, content, r, of), facts), has \in Upward,
         \A t \in more : t[2] \in Upward
  PROVE  LET c == Child(label, content, r, iri, class, of, has, own)
         IN  /\ Tells(c, BookGraph(label, content, r), iri, class, facts)
             /\ Tells(With(c, more), BookGraph(label, content, r), iri, class, facts)
<1> DEFINE c == Child(label, content, r, iri, class, of, has, own)
           all == own \cup BelowBook(label, content, r, of)
           graph == BookGraph(label, content, r)
           up == {<<BookIri(label, TheBook(content, r)), has, iri>>}
           node == Individual(graph, iri, class, all)
<1>1. c = With(node, up)
  BY DEF Child, BelowBook, BookGraph
<1>2. \A t \in up : t[2] \in Upward
  OBVIOUS
<1> HIDE DEF all, graph, up
<1>3. Tells(node, graph, iri, class, facts)
  BY NodeTells DEF all
<1>4. node = [graph |-> node.graph, iri |-> node.iri, class |-> node.class, triples |-> node.triples]
  BY RecordForm
<1> HIDE DEF node, c
<1>5. Tells(c, graph, iri, class, facts)
  BY <1>1, <1>2, <1>3, <1>4, MoreTells
<1>6. c = [graph |-> c.graph, iri |-> c.iri, class |-> c.class, triples |-> c.triples]
  BY <1>1, <1>4, RecordForm
<1>7. Tells(With(c, more), graph, iri, class, facts)
  BY <1>5, <1>6, MoreTells
<1>8. QED
  BY <1>5, <1>7 DEF c, graph

-----------------------------------------------------------------------------
(* A projection whose individuals tell of themselves and share no IRI.         *)
Plain(i) == \E facts : Tells(i, i.graph, i.iri, i.class, facts)

(* What tells something is plain.                                             *)
LEMMA TellsPlain ==
  \A i, graph, iri, class, facts :
    Tells(i, graph, iri, class, facts) => Plain(i) /\ i.class = class
<1> SUFFICES ASSUME NEW i, NEW graph, NEW iri, NEW class, NEW facts, Tells(i, graph, iri, class, facts)
             PROVE  Plain(i) /\ i.class = class
  OBVIOUS
<1>1. i.iri = iri /\ i.class = class /\ Tells(i, i.graph, iri, class, facts)
  BY OwnGraph
<1>2. QED
  BY <1>1 DEF Plain

Legible(inds) ==
  (\A i \in inds : Plain(i)) /\ \A i, j \in inds : i.iri = j.iri => i = j

(* What a query finds of an individual in the graph is what it tells.          *)
Said(facts, p) == IF p \in DOMAIN facts THEN facts[p] ELSE {}

(* A query for one property of one individual.                                *)
LEMMA ReadFacts ==
  ASSUME NEW inds, Legible(inds), NEW graph, NEW i \in inds, NEW iri, NEW class, NEW facts,
         Tells(i, graph, iri, class, facts), NEW p, p \notin Upward \cup {"a"}
  PROVE  Of(Batch(inds, graph), iri, p) = Said(facts, p)
<1> DEFINE T == Batch(inds, graph)
<1>1. /\ i.iri = iri /\ i.graph = graph
      /\ \A v \in Said(facts, p) : <<iri, p, v>> \in i.triples
      /\ \A t \in i.triples : t[2] = p => t[3] \in Said(facts, p)
  BY DEF Tells, Said
<1>2. \A j \in inds : \A t \in j.triples : t[2] = p => t[1] = j.iri
  <2> SUFFICES ASSUME NEW j \in inds, NEW t \in j.triples, t[2] = p PROVE t[1] = j.iri
    OBVIOUS
  <2>1. PICK told : Tells(j, j.graph, j.iri, j.class, told)
    BY DEF Legible, Plain
  <2>2. QED
    BY <2>1 DEF Tells
<1> HIDE DEF Said
<1>3. ASSUME NEW o, o \in Of(T, iri, p) PROVE o \in Said(facts, p)
  <2>1. PICK t \in T : t[1] = iri /\ t[2] = p /\ t[3] = o
    BY <1>3 DEF Of
  <2>2. PICK j \in inds : j.graph = graph /\ t \in j.triples
    BY <2>1 DEF Batch
  <2>3. j = i
    BY <1>1, <1>2, <2>1, <2>2 DEF Legible
  <2>4. QED
    BY <1>1, <2>1, <2>2, <2>3
<1>4. ASSUME NEW v \in Said(facts, p) PROVE v \in Of(T, iri, p)
  <2>1. <<iri, p, v>> \in T
    BY <1>1 DEF Batch
  <2>2. QED
    BY <2>1 DEF Of
<1>5. QED
  BY <1>3, <1>4

(* The individuals of a class that a query finds.                              *)
LEMMA ReadTyped ==
  ASSUME NEW inds, Legible(inds), NEW graph, NEW class
  PROVE  Typed(Batch(inds, graph), class)
           = {i.iri : i \in {j \in inds : j.graph = graph /\ j.class = class}}
<1> DEFINE T == Batch(inds, graph)
<1>1. \A i \in inds : /\ <<i.iri, "a", i.class>> \in i.triples
                      /\ \A t \in i.triples : t[2] = "a" => t = <<i.iri, "a", i.class>>
  <2> SUFFICES ASSUME NEW i \in inds
               PROVE  /\ <<i.iri, "a", i.class>> \in i.triples
                      /\ \A t \in i.triples : t[2] = "a" => t = <<i.iri, "a", i.class>>
    OBVIOUS
  <2>1. PICK facts : Tells(i, i.graph, i.iri, i.class, facts)
    BY DEF Legible, Plain
  <2>2. "a" \notin Upward
    BY DEF Upward
  <2>3. QED
    BY <2>1, <2>2 DEF Tells
<1>2. ASSUME NEW s \in Typed(T, class)
      PROVE  \E i \in inds : i.graph = graph /\ i.class = class /\ i.iri = s
  <2>1. PICK t \in T : t[1] = s /\ t[2] = "a" /\ t[3] = class
    BY DEF Typed
  <2>2. PICK i \in inds : i.graph = graph /\ t \in i.triples
    BY <2>1 DEF Batch
  <2>3. t = <<i.iri, "a", i.class>>
    BY <1>1, <2>1, <2>2
  <2>4. QED
    BY <2>1, <2>2, <2>3
<1>3. ASSUME NEW i \in inds, i.graph = graph, i.class = class PROVE i.iri \in Typed(T, class)
  <2>1. <<i.iri, "a", class>> \in T
    BY <1>1, <1>3 DEF Batch
  <2>2. QED
    BY <2>1 DEF Typed
<1>4. QED
  BY <1>2, <1>3

(* The rows that a graph T shows as the individuals of a class, row by row,    *)
(* with all that a row tells.                                                  *)
Listed(T, class, rows, name, facts) ==
  /\ IsFiniteSet(rows) /\ rows \subseteq DOMAIN name
  /\ Typed(T, class) = {name[r] : r \in rows}
  /\ \A r, s \in rows : name[r] = name[s] => r = s
  /\ \A r \in rows : \A p : p \notin Upward \cup {"a"} => Of(T, name[r], p) = Said(facts[r], p)

(* A view whose rows f makes into individuals of a class, some of them in the  *)
(* graph; what is named name is of one row.                                    *)
Presents(view, f, name, class, facts, inds, graph, rows) ==
  /\ IsFiniteSet(view) /\ DOMAIN name = view /\ ~Clash(name) /\ rows \subseteq view
  /\ \A r \in view : f[r] \in inds /\ Tells(f[r], f[r].graph, name[r], class, facts[r])
  /\ \A r \in view : f[r].graph = graph <=> r \in rows
  /\ \A i \in inds : i.class = class => \E r \in view : i = f[r]

(* Such a view is listed, row by row.                                         *)
LEMMA ReadView ==
  ASSUME NEW inds, Legible(inds), NEW graph, NEW class, NEW view, NEW f, NEW name, NEW facts, NEW rows,
         Presents(view, f, name, class, facts, inds, graph, rows)
  PROVE  Listed(Batch(inds, graph), class, rows, name, facts)
<1> DEFINE T == Batch(inds, graph)
<1>1. rows \in SUBSET view
  BY DEF Presents
<1>2. IsFiniteSet(rows) /\ rows \subseteq DOMAIN name
  BY <1>1, FS_Subset DEF Presents
<1>3. \A r, s \in rows : name[r] = name[s] => r = s
  BY <1>1 DEF Clash, Presents
<1>4. Typed(T, class) = {i.iri : i \in {j \in inds : j.graph = graph /\ j.class = class}}
  BY ReadTyped
<1>5. ASSUME NEW r \in rows, NEW p, p \notin Upward \cup {"a"}
      PROVE  Of(T, name[r], p) = Said(facts[r], p)
  <2>1. f[r] \in inds /\ Tells(f[r], graph, name[r], class, facts[r])
    BY <1>1 DEF Presents
  <2>2. QED
    BY <1>5, <2>1, ReadFacts
<1> HIDE DEF T
<1>6. \A r \in view : f[r].iri = name[r] /\ f[r].class = class
  BY DEF Presents, Tells
<1>7. Typed(T, class) = {name[r] : r \in rows}
  <2>1. ASSUME NEW s \in Typed(T, class) PROVE \E r \in rows : s = name[r]
    BY <1>1, <1>4, <1>6 DEF Presents
  <2>2. ASSUME NEW r \in rows PROVE name[r] \in Typed(T, class)
    BY <1>1, <1>4, <1>6 DEF Presents
  <2>3. QED
    BY <2>1, <2>2
<1>8. Listed(T, class, rows, name, facts)
  BY <1>2, <1>3, <1>5, <1>7 DEF Listed
<1>9. QED
  BY <1>8 DEF T

-----------------------------------------------------------------------------
(* What the rows of the eight m018 views tell.                                 *)
Known(value) == IF value = Null THEN {} ELSE {value}
RuleIri(a) == <<"Rule", a.rule>>
Published(a) == IF a.rule \in BasingPoints THEN {} ELSE {a.threshold}
BookFacts(label, r) ==
  [bookId |-> {r.book}, backtestRunId |-> {r.run}, runLabel |-> {label},
   windowId |-> {r.window}, armCode |-> {r.arm}, knowledgeDate |-> {r.known}]
AlertFacts(r, assets) ==
  [alertId |-> {r.alert}, backtestRunId |-> {r.run}, windowId |-> {r.window},
   guardLayer |-> {r.layer}, alertRule |-> {RuleIri(r)}, alertState |-> {r.state},
   knowledgeDate |-> {r.known}, guardTicker |-> Known(r.ticker),
   guardAsset |-> {r.ticker} \cap assets, alertThreshold |-> Published(r)]
RebalanceFacts(label, content, r) ==
  [rebalanceId |-> {r.rebalance}, cycleRunId |-> Known(r.cycle), bookId |-> {r.book},
   backtestRunId |-> {TheBook(content, r).run}, armCode |-> {TheBook(content, r).arm},
   rebalanceOfBook |-> {BookIri(label, TheBook(content, r))}, knowledgeDate |-> {r.known}]
ActionFacts(label, content, r, assets) ==
  [actionId |-> {r.action}, decisionDate |-> {r.decision}, status |-> {r.status},
   actionAlert |-> {ActionAlert(label, content, r)}, guardTicker |-> Known(r.ticker),
   guardAsset |-> {r.ticker} \cap assets, bookId |-> {r.book},
   backtestRunId |-> {TheBook(content, r).run}, armCode |-> {TheBook(content, r).arm},
   actionOfBook |-> {BookIri(label, TheBook(content, r))}, knowledgeDate |-> {r.known}]
WeightFacts(label, content, r, assets) ==
  [weightDate |-> {r.date}, holdingKey |-> {r.holding},
   holdingAsset |-> ({r.holding} \ {Cash}) \cap assets, bookId |-> {r.book},
   backtestRunId |-> {TheBook(content, r).run}, armCode |-> {TheBook(content, r).arm},
   weightOfBook |-> {BookIri(label, TheBook(content, r))}, knowledgeDate |-> {r.known}]
PerformanceFacts(label, content, r) ==
  [windowId |-> {r.window}, performanceDate |-> {r.date}, nav |-> {r.nav},
   bookId |-> {r.book}, backtestRunId |-> {TheBook(content, r).run},
   armCode |-> {TheBook(content, r).arm},
   performanceOfBook |-> {BookIri(label, TheBook(content, r))}, knowledgeDate |-> {r.known}]
SummaryFacts(label, content, r) ==
  [windowId |-> {r.window}, segment |-> {r.segment}, dateFrom |-> {r.from}, dateTo |-> {r.to},
   nGuardActions |-> {r.acted}, bookId |-> {r.book},
   backtestRunId |-> {TheBook(content, r).run}, armCode |-> {TheBook(content, r).arm},
   summaryOfBook |-> {BookIri(label, TheBook(content, r))}, knowledgeDate |-> {r.known}]
TestFacts(label, r) ==
  [backtestRunId |-> {r.run}, runLabel |-> {label}, windowId |-> {r.window},
   segment |-> {r.segment}, pValue |-> {r.p}, knowledgeDate |-> {r.known}]

(* A book tells what its columns say.                                        *)
LEMMA BookTells ==
  ASSUME NEW label, NEW r
  PROVE  Tells(Book(label, r), GraphName(label, r.window, r.run), BookIri(label, r),
               "StrategyBook", BookFacts(label, r))
<1> DEFINE own == {<<"bookId", r.book>>, <<"backtestRunId", r.run>>, <<"runLabel", label>>,
                   <<"windowId", r.window>>, <<"armCode", r.arm>>, <<"knowledgeDate", r.known>>}
           facts == BookFacts(label, r)
           all == own
<1>1. \A p \in DOMAIN facts : \A v \in facts[p] : <<p, v>> \in all
  BY DEF BookFacts
<1>2. \A q \in all : q = <<q[1], q[2]>> /\ q[1] \in DOMAIN facts /\ q[2] \in facts[q[1]]
  BY DEF BookFacts
<1>3. DOMAIN facts \cap (Upward \cup {"a"}) = {}
  BY DEF BookFacts, Upward
<1>4. Amounts(all, facts)
  BY <1>1, <1>2, <1>3 DEF Amounts
<1> HIDE DEF all, facts
<1>5. Tells(Individual(GraphName(label, r.window, r.run), BookIri(label, r), "StrategyBook", all),
            GraphName(label, r.window, r.run), BookIri(label, r), "StrategyBook", facts)
  BY <1>4, NodeTells
<1>6. QED
  BY <1>5 DEF all, facts, Book

(* An alert tells what its columns say.                                      *)
LEMMA AlertTells ==
  ASSUME NEW label, NEW r, NEW assets
  PROVE  Tells(Alert(label, r, assets), GraphName(label, r.window, r.run), AlertIri(label, r),
               "GuardAlert", AlertFacts(r, assets))
<1> DEFINE own == {<<"alertId", r.alert>>, <<"backtestRunId", r.run>>, <<"windowId", r.window>>,
                   <<"guardLayer", r.layer>>, <<"alertRule", <<"Rule", r.rule>>>>,
                   <<"alertState", r.state>>, <<"knowledgeDate", r.known>>}
                  \cup Optional("guardTicker", r.ticker) \cup LinkAsset("guardAsset", r.ticker, assets)
                  \cup (IF r.rule \in BasingPoints THEN {} ELSE {<<"alertThreshold", r.threshold>>})
           facts == AlertFacts(r, assets)
           all == own
<1>1. \A p \in DOMAIN facts : \A v \in facts[p] : <<p, v>> \in all
  BY DEF Known, RuleIri, Published, Optional, LinkAsset, AlertFacts
<1>2. \A q \in all : q = <<q[1], q[2]>> /\ q[1] \in DOMAIN facts /\ q[2] \in facts[q[1]]
  BY DEF Known, RuleIri, Published, Optional, LinkAsset, AlertFacts
<1>3. DOMAIN facts \cap (Upward \cup {"a"}) = {}
  BY DEF AlertFacts, Upward
<1>4. Amounts(all, facts)
  BY <1>1, <1>2, <1>3 DEF Amounts
<1> HIDE DEF all, facts
<1>5. Tells(Individual(GraphName(label, r.window, r.run), AlertIri(label, r), "GuardAlert", all),
            GraphName(label, r.window, r.run), AlertIri(label, r), "GuardAlert", facts)
  BY <1>4, NodeTells
<1>6. QED
  BY <1>5 DEF all, facts, Alert

(* A rebalance tells what its columns say.                                   *)
LEMMA RebalanceTells ==
  ASSUME NEW label, NEW content, NEW r
  PROVE  Tells(Rebalance(label, content, r),
               BookGraph(label, content, r), RebalanceIri(label, content, r),
               "BookRebalance", RebalanceFacts(label, content, r))
<1> DEFINE own == {<<"rebalanceId", r.rebalance>>} \cup Optional("cycleRunId", r.cycle)
           facts == RebalanceFacts(label, content, r)
           iri == RebalanceIri(label, content, r)
           more == {}
           all == own \cup BelowBook(label, content, r, "rebalanceOfBook")
<1>1. \A p \in DOMAIN facts : \A v \in facts[p] : <<p, v>> \in all
  BY DEF Known, Optional, RebalanceFacts, BelowBook
<1>2. \A q \in all : q = <<q[1], q[2]>> /\ q[1] \in DOMAIN facts /\ q[2] \in facts[q[1]]
  BY DEF Known, Optional, RebalanceFacts, BelowBook
<1>3. DOMAIN facts \cap (Upward \cup {"a"}) = {}
  BY DEF RebalanceFacts, Upward
<1>4. Amounts(all, facts)
  BY <1>1, <1>2, <1>3 DEF Amounts
<1>5. "bookHasRebalance" \in Upward /\ \A t \in more : t[2] \in Upward
  BY DEF Upward
<1> HIDE DEF own, facts, iri, more
<1>6. Tells(Child(label, content, r, iri, "BookRebalance", "rebalanceOfBook", "bookHasRebalance", own),
            BookGraph(label, content, r), iri, "BookRebalance", facts)
  BY <1>4, <1>5, ChildTells
<1>7. QED
  BY <1>6 DEF own, facts, iri, more, Rebalance

(* An action tells what its columns say.                                     *)
LEMMA ActionTells ==
  ASSUME NEW label, NEW content, NEW r, NEW assets
  PROVE  Tells(Action(label, content, r, assets),
               BookGraph(label, content, r), ActionIri(label, content, r),
               "GuardAction", ActionFacts(label, content, r, assets))
<1> DEFINE own == {<<"actionId", r.action>>, <<"decisionDate", r.decision>>, <<"status", r.status>>,
                   <<"actionAlert", ActionAlert(label, content, r)>>}
                  \cup Optional("guardTicker", r.ticker)
                  \cup LinkAsset("guardAsset", r.ticker, assets)
           facts == ActionFacts(label, content, r, assets)
           iri == ActionIri(label, content, r)
           more == {<<ActionAlert(label, content, r), "alertHasGuardAction", iri>>}
           all == own \cup BelowBook(label, content, r, "actionOfBook")
<1>1. \A p \in DOMAIN facts : \A v \in facts[p] : <<p, v>> \in all
  BY DEF Known, Optional, LinkAsset, ActionFacts, BelowBook
<1>2. \A q \in all : q = <<q[1], q[2]>> /\ q[1] \in DOMAIN facts /\ q[2] \in facts[q[1]]
  BY DEF Known, Optional, LinkAsset, ActionFacts, BelowBook
<1>3. DOMAIN facts \cap (Upward \cup {"a"}) = {}
  BY DEF ActionFacts, Upward
<1>4. Amounts(all, facts)
  BY <1>1, <1>2, <1>3 DEF Amounts
<1>5. "bookHasGuardAction" \in Upward /\ \A t \in more : t[2] \in Upward
  BY DEF Upward
<1> HIDE DEF own, facts, iri, more
<1>6. Tells(With(Child(label, content, r, iri, "GuardAction", "actionOfBook", "bookHasGuardAction", own), more),
            BookGraph(label, content, r), iri, "GuardAction", facts)
  BY <1>4, <1>5, ChildTells
<1>7. QED
  BY <1>6 DEF own, facts, iri, more, Action

(* A daily weight tells what its columns say.                                *)
LEMMA WeightTells ==
  ASSUME NEW label, NEW content, NEW r, NEW assets
  PROVE  Tells(Weight(label, content, r, assets),
               BookGraph(label, content, r), WeightIri(label, content, r),
               "BookWeightDaily", WeightFacts(label, content, r, assets))
<1> DEFINE own == {<<"weightDate", r.date>>, <<"holdingKey", r.holding>>}
                  \cup (IF r.holding = Cash THEN {} ELSE LinkAsset("holdingAsset", r.holding, assets))
           facts == WeightFacts(label, content, r, assets)
           iri == WeightIri(label, content, r)
           more == {}
           all == own \cup BelowBook(label, content, r, "weightOfBook")
<1>1. \A p \in DOMAIN facts : \A v \in facts[p] : <<p, v>> \in all
  BY DEF LinkAsset, WeightFacts, BelowBook
<1>2. \A q \in all : q = <<q[1], q[2]>> /\ q[1] \in DOMAIN facts /\ q[2] \in facts[q[1]]
  BY DEF LinkAsset, WeightFacts, BelowBook
<1>3. DOMAIN facts \cap (Upward \cup {"a"}) = {}
  BY DEF WeightFacts, Upward
<1>4. Amounts(all, facts)
  BY <1>1, <1>2, <1>3 DEF Amounts
<1>5. "bookHasWeight" \in Upward /\ \A t \in more : t[2] \in Upward
  BY DEF Upward
<1> HIDE DEF own, facts, iri, more
<1>6. Tells(Child(label, content, r, iri, "BookWeightDaily", "weightOfBook", "bookHasWeight", own),
            BookGraph(label, content, r), iri, "BookWeightDaily", facts)
  BY <1>4, <1>5, ChildTells
<1>7. QED
  BY <1>6 DEF own, facts, iri, more, Weight

(* A day's performance tells what its columns say.                           *)
LEMMA PerformanceTells ==
  ASSUME NEW label, NEW content, NEW r
  PROVE  Tells(Performance(label, content, r),
               BookGraph(label, content, r), PerformanceIri(label, content, r),
               "BookDailyPerformance", PerformanceFacts(label, content, r))
<1> DEFINE own == {<<"windowId", r.window>>, <<"performanceDate", r.date>>, <<"nav", r.nav>>}
           facts == PerformanceFacts(label, content, r)
           iri == PerformanceIri(label, content, r)
           more == {}
           all == own \cup BelowBook(label, content, r, "performanceOfBook")
<1>1. \A p \in DOMAIN facts : \A v \in facts[p] : <<p, v>> \in all
  BY DEF PerformanceFacts, BelowBook
<1>2. \A q \in all : q = <<q[1], q[2]>> /\ q[1] \in DOMAIN facts /\ q[2] \in facts[q[1]]
  BY DEF PerformanceFacts, BelowBook
<1>3. DOMAIN facts \cap (Upward \cup {"a"}) = {}
  BY DEF PerformanceFacts, Upward
<1>4. Amounts(all, facts)
  BY <1>1, <1>2, <1>3 DEF Amounts
<1>5. "bookHasPerformance" \in Upward /\ \A t \in more : t[2] \in Upward
  BY DEF Upward
<1> HIDE DEF own, facts, iri, more
<1>6. Tells(Child(label, content, r, iri, "BookDailyPerformance", "performanceOfBook", "bookHasPerformance", own),
            BookGraph(label, content, r), iri, "BookDailyPerformance", facts)
  BY <1>4, <1>5, ChildTells
<1>7. QED
  BY <1>6 DEF own, facts, iri, more, Performance

(* A period summary tells what its columns say.                              *)
LEMMA SummaryTells ==
  ASSUME NEW label, NEW content, NEW r
  PROVE  Tells(Summary(label, content, r),
               BookGraph(label, content, r), SummaryIri(label, content, r),
               "PortfolioPeriodSummary", SummaryFacts(label, content, r))
<1> DEFINE own == {<<"windowId", r.window>>, <<"segment", r.segment>>, <<"dateFrom", r.from>>,
                   <<"dateTo", r.to>>, <<"nGuardActions", r.acted>>}
           facts == SummaryFacts(label, content, r)
           iri == SummaryIri(label, content, r)
           more == {}
           all == own \cup BelowBook(label, content, r, "summaryOfBook")
<1>1. \A p \in DOMAIN facts : \A v \in facts[p] : <<p, v>> \in all
  BY DEF SummaryFacts, BelowBook
<1>2. \A q \in all : q = <<q[1], q[2]>> /\ q[1] \in DOMAIN facts /\ q[2] \in facts[q[1]]
  BY DEF SummaryFacts, BelowBook
<1>3. DOMAIN facts \cap (Upward \cup {"a"}) = {}
  BY DEF SummaryFacts, Upward
<1>4. Amounts(all, facts)
  BY <1>1, <1>2, <1>3 DEF Amounts
<1>5. "bookHasSummary" \in Upward /\ \A t \in more : t[2] \in Upward
  BY DEF Upward
<1> HIDE DEF own, facts, iri, more
<1>6. Tells(Child(label, content, r, iri, "PortfolioPeriodSummary", "summaryOfBook", "bookHasSummary", own),
            BookGraph(label, content, r), iri, "PortfolioPeriodSummary", facts)
  BY <1>4, <1>5, ChildTells
<1>7. QED
  BY <1>6 DEF own, facts, iri, more, Summary

(* A test tells what its columns say.                                        *)
LEMMA TestTells ==
  ASSUME NEW label, NEW r
  PROVE  Tells(Test(label, r), GraphName(label, r.window, r.run), TestIri(label, r),
               "BacktestTest", TestFacts(label, r))
<1> DEFINE own == {<<"backtestRunId", r.run>>, <<"runLabel", label>>, <<"windowId", r.window>>,
                   <<"segment", r.segment>>, <<"pValue", r.p>>, <<"knowledgeDate", r.known>>}
           facts == TestFacts(label, r)
           all == own
<1>1. \A p \in DOMAIN facts : \A v \in facts[p] : <<p, v>> \in all
  BY DEF TestFacts
<1>2. \A q \in all : q = <<q[1], q[2]>> /\ q[1] \in DOMAIN facts /\ q[2] \in facts[q[1]]
  BY DEF TestFacts
<1>3. DOMAIN facts \cap (Upward \cup {"a"}) = {}
  BY DEF TestFacts, Upward
<1>4. Amounts(all, facts)
  BY <1>1, <1>2, <1>3 DEF Amounts
<1> HIDE DEF all, facts
<1>5. Tells(Individual(GraphName(label, r.window, r.run), TestIri(label, r), "BacktestTest", all),
            GraphName(label, r.window, r.run), TestIri(label, r), "BacktestTest", facts)
  BY <1>4, NodeTells
<1>6. QED
  BY <1>5 DEF all, facts, Test

(* The class of an individual says which view it is from.                      *)
LEMMA BacktestClasses ==
  ASSUME NEW label, NEW content, NEW assets, NEW i \in BacktestIndividuals(label, content, assets)
  PROVE  /\ Plain(i)
         /\ i.class = "StrategyBook" => \E r \in content.v_book : i = Book(label, r)
         /\ i.class = "GuardAlert" => \E r \in content.v_guard_alert : i = Alert(label, r, assets)
         /\ i.class = "BookRebalance"
              => \E r \in content.v_book_rebalance : i = Rebalance(label, content, r)
         /\ i.class = "GuardAction"
              => \E r \in content.v_guard_action : i = Action(label, content, r, assets)
         /\ i.class = "BookWeightDaily"
              => \E r \in content.v_book_weight_daily : i = Weight(label, content, r, assets)
         /\ i.class = "BookDailyPerformance"
              => \E r \in content.v_book_daily_performance : i = Performance(label, content, r)
         /\ i.class = "PortfolioPeriodSummary"
              => \E r \in content.v_portfolio_period_summary : i = Summary(label, content, r)
         /\ i.class = "BacktestTest" => \E r \in content.v_backtest_test : i = Test(label, r)
<1>1. ASSUME NEW r \in content.v_book, i = Book(label, r)
      PROVE  Plain(i) /\ i.class = "StrategyBook"
  BY <1>1, BookTells, TellsPlain
<1>2. ASSUME NEW r \in content.v_guard_alert, i = Alert(label, r, assets)
      PROVE  Plain(i) /\ i.class = "GuardAlert"
  BY <1>2, AlertTells, TellsPlain
<1>3. ASSUME NEW r \in content.v_book_rebalance, i = Rebalance(label, content, r)
      PROVE  Plain(i) /\ i.class = "BookRebalance"
  BY <1>3, RebalanceTells, TellsPlain
<1>4. ASSUME NEW r \in content.v_guard_action, i = Action(label, content, r, assets)
      PROVE  Plain(i) /\ i.class = "GuardAction"
  BY <1>4, ActionTells, TellsPlain
<1>5. ASSUME NEW r \in content.v_book_weight_daily, i = Weight(label, content, r, assets)
      PROVE  Plain(i) /\ i.class = "BookWeightDaily"
  BY <1>5, WeightTells, TellsPlain
<1>6. ASSUME NEW r \in content.v_book_daily_performance, i = Performance(label, content, r)
      PROVE  Plain(i) /\ i.class = "BookDailyPerformance"
  BY <1>6, PerformanceTells, TellsPlain
<1>7. ASSUME NEW r \in content.v_portfolio_period_summary, i = Summary(label, content, r)
      PROVE  Plain(i) /\ i.class = "PortfolioPeriodSummary"
  BY <1>7, SummaryTells, TellsPlain
<1>8. ASSUME NEW r \in content.v_backtest_test, i = Test(label, r)
      PROVE  Plain(i) /\ i.class = "BacktestTest"
  BY <1>8, TestTells, TellsPlain
<1>9. \/ \E r \in content.v_book : i = Book(label, r)
      \/ \E r \in content.v_guard_alert : i = Alert(label, r, assets)
      \/ \E r \in content.v_book_rebalance : i = Rebalance(label, content, r)
      \/ \E r \in content.v_guard_action : i = Action(label, content, r, assets)
      \/ \E r \in content.v_book_weight_daily : i = Weight(label, content, r, assets)
      \/ \E r \in content.v_book_daily_performance : i = Performance(label, content, r)
      \/ \E r \in content.v_portfolio_period_summary : i = Summary(label, content, r)
      \/ \E r \in content.v_backtest_test : i = Test(label, r)
  BY DEF BacktestIndividuals
<1>10. QED
  BY <1>1, <1>2, <1>3, <1>4, <1>5, <1>6, <1>7, <1>8, <1>9

(* One can read in a graph what the rows of an accepted database told.         *)
LEMMA BacktestLegible ==
  ASSUME NEW label, NEW content, NEW assets, ~BacktestRefused(label, content), IsDatabase(content)
  PROVE  Legible(BacktestIndividuals(label, content, assets))
<1>1. PICK stems, n : Family(BacktestIndividuals(label, content, assets), stems, n)
  BY BacktestFamily
<1>2. QED
  BY <1>1, BacktestClasses DEF Family, Legible

(* A row below a book is of the run and the arm of its book.                   *)
LEMMA RowBelow ==
  ASSUME NEW label, NEW content, ~BacktestRefused(label, content), NEW r, SameBook(content, r)
  PROVE  /\ TheBook(content, r) \in content.v_book /\ TheBook(content, r).book = r.book
         /\ TheBook(content, r).run = r.run /\ TheBook(content, r).arm = r.arm
<1>1. \A b, c \in content.v_book : b.book = c.book => b = c
  BY DEF BacktestRefused, BoundaryStops, Clash
<1>2. PICK b \in content.v_book : b.book = r.book /\ b.run = r.run /\ b.arm = r.arm
  BY DEF SameBook
<1>3. TheBook(content, r) \in content.v_book /\ TheBook(content, r).book = r.book
  BY <1>2 DEF TheBook
<1>4. TheBook(content, r) = b
  BY <1>1, <1>2, <1>3
<1>5. QED
  BY <1>2, <1>4

(* A graph holds the rows of one run.                                          *)
LEMMA GraphOfRun ==
  ASSUME NEW label, NEW content, ~BacktestRefused(label, content), NEW b \in content.v_book,
         NEW window, NEW run, \E c \in content.v_book : c.run = run /\ c.window = window
  PROVE  GraphName(label, window, run) = GraphName(label, b.window, b.run) <=> run = b.run
BY DEF BacktestRefused, BooksRefused, GraphName

(* So does it of the rows below the books.                                    *)
LEMMA GraphBelow ==
  ASSUME NEW label, NEW content, ~BacktestRefused(label, content), NEW b \in content.v_book,
         NEW r, SameBook(content, r)
  PROVE  BookGraph(label, content, r) = GraphName(label, b.window, b.run) <=> r.run = b.run
<1>1. TheBook(content, r) \in content.v_book /\ TheBook(content, r).run = r.run
  BY RowBelow
<1>2. QED
  BY <1>1, GraphOfRun DEF BookGraph

(* The graph of a book's run lists the rows of that run, view by view.         *)
LEMMA BacktestLists ==
  ASSUME NEW label, NEW content, NEW assets, ~BacktestRefused(label, content), IsDatabase(content),
         NEW b \in content.v_book
  PROVE  LET T == Batch(BacktestIndividuals(label, content, assets), GraphName(label, b.window, b.run))
         IN
         /\ Listed(T, "StrategyBook", RunRows(content.v_book, b.run),
                   [r \in content.v_book |-> BookIri(label, r)],
                   [r \in content.v_book |-> BookFacts(label, r)])
         /\ Listed(T, "GuardAlert", RunRows(content.v_guard_alert, b.run),
                   [r \in content.v_guard_alert |-> AlertIri(label, r)],
                   [r \in content.v_guard_alert |-> AlertFacts(r, assets)])
         /\ Listed(T, "BookRebalance", RunRows(content.v_book_rebalance, b.run),
                   [r \in content.v_book_rebalance |-> RebalanceIri(label, content, r)],
                   [r \in content.v_book_rebalance |-> RebalanceFacts(label, content, r)])
         /\ Listed(T, "GuardAction", RunRows(content.v_guard_action, b.run),
                   [r \in content.v_guard_action |-> ActionIri(label, content, r)],
                   [r \in content.v_guard_action |-> ActionFacts(label, content, r, assets)])
         /\ Listed(T, "BookWeightDaily", RunRows(content.v_book_weight_daily, b.run),
                   [r \in content.v_book_weight_daily |-> WeightIri(label, content, r)],
                   [r \in content.v_book_weight_daily |-> WeightFacts(label, content, r, assets)])
         /\ Listed(T, "BookDailyPerformance", RunRows(content.v_book_daily_performance, b.run),
                   [r \in content.v_book_daily_performance |-> PerformanceIri(label, content, r)],
                   [r \in content.v_book_daily_performance |-> PerformanceFacts(label, content, r)])
         /\ Listed(T, "PortfolioPeriodSummary", RunRows(content.v_portfolio_period_summary, b.run),
                   [r \in content.v_portfolio_period_summary |-> SummaryIri(label, content, r)],
                   [r \in content.v_portfolio_period_summary |-> SummaryFacts(label, content, r)])
         /\ Listed(T, "BacktestTest", RunRows(content.v_backtest_test, b.run),
                   [r \in content.v_backtest_test |-> TestIri(label, r)],
                   [r \in content.v_backtest_test |-> TestFacts(label, r)])
<1> DEFINE graph == GraphName(label, b.window, b.run)
           inds == BacktestIndividuals(label, content, assets)
           T == Batch(inds, graph)
<1>1. Legible(inds)
  BY BacktestLegible
<1>2. \A r \in content.v_book_rebalance \cup content.v_guard_action \cup content.v_book_weight_daily
             \cup content.v_book_daily_performance \cup content.v_portfolio_period_summary :
        BookGraph(label, content, r) = graph <=> r.run = b.run
  <2>1. \A r \in content.v_book_rebalance \cup content.v_guard_action \cup content.v_book_weight_daily
               \cup content.v_book_daily_performance \cup content.v_portfolio_period_summary :
          SameBook(content, r)
    BY DEF BacktestRefused, ChildrenRefused, SameWindow
  <2>2. QED
    BY <2>1, GraphBelow
<1>3. \A r \in content.v_book \cup content.v_guard_alert \cup content.v_backtest_test :
        GraphName(label, r.window, r.run) = graph <=> r.run = b.run
  <2>1. \A r \in content.v_book \cup content.v_guard_alert \cup content.v_backtest_test :
          \E c \in content.v_book : c.run = r.run /\ c.window = r.window
    BY DEF BacktestRefused, AlertsRefused, TestsRefused, RunHasWindow
  <2>2. QED
    BY <2>1, GraphOfRun
<1>4. Listed(T, "StrategyBook", RunRows(content.v_book, b.run),
             [r \in content.v_book |-> BookIri(label, r)],
             [r \in content.v_book |-> BookFacts(label, r)])
  <2> DEFINE f == [r \in content.v_book |-> Book(label, r)]
             name == [r \in content.v_book |-> BookIri(label, r)]
             facts == [r \in content.v_book |-> BookFacts(label, r)]
             view == content.v_book
  <2>1. \A r \in view : Tells(f[r], f[r].graph, name[r], "StrategyBook", facts[r])
    BY BookTells, OwnGraph
  <2>2. \A r \in view : f[r].graph = graph <=> r.run = b.run
    BY <1>3, BookTells, OwnGraph
  <2>3. ~Clash(name)
    BY DEF BacktestRefused, BooksRefused
  <2>4. IsFiniteSet(view) /\ DOMAIN name = view /\ \A r \in view : f[r] \in inds
    BY DEF IsDatabase, Views, BacktestViews, BacktestIndividuals
  <2>5. \A i \in inds : i.class = "StrategyBook" => \E r \in view : i = f[r]
    BY BacktestClasses
  <2> HIDE DEF f, name, facts, view, inds, graph
  <2>6. Presents(view, f, name, "StrategyBook", facts, inds, graph, RunRows(view, b.run))
    BY <2>1, <2>2, <2>3, <2>4, <2>5 DEF Presents, RunRows
  <2>7. Listed(T, "StrategyBook", RunRows(view, b.run), name, facts)
    BY <1>1, <2>6, ReadView
  <2>8. QED
    BY <2>7 DEF name, facts, view
<1>5. Listed(T, "GuardAlert", RunRows(content.v_guard_alert, b.run),
             [r \in content.v_guard_alert |-> AlertIri(label, r)],
             [r \in content.v_guard_alert |-> AlertFacts(r, assets)])
  <2> DEFINE f == [r \in content.v_guard_alert |-> Alert(label, r, assets)]
             name == [r \in content.v_guard_alert |-> AlertIri(label, r)]
             facts == [r \in content.v_guard_alert |-> AlertFacts(r, assets)]
             view == content.v_guard_alert
  <2>1. \A r \in view : Tells(f[r], f[r].graph, name[r], "GuardAlert", facts[r])
    BY AlertTells, OwnGraph
  <2>2. \A r \in view : f[r].graph = graph <=> r.run = b.run
    BY <1>3, AlertTells, OwnGraph
  <2>3. ~Clash(name)
    BY DEF BacktestRefused, AlertsRefused
  <2>4. IsFiniteSet(view) /\ DOMAIN name = view /\ \A r \in view : f[r] \in inds
    BY DEF IsDatabase, Views, BacktestViews, BacktestIndividuals
  <2>5. \A i \in inds : i.class = "GuardAlert" => \E r \in view : i = f[r]
    BY BacktestClasses
  <2> HIDE DEF f, name, facts, view, inds, graph
  <2>6. Presents(view, f, name, "GuardAlert", facts, inds, graph, RunRows(view, b.run))
    BY <2>1, <2>2, <2>3, <2>4, <2>5 DEF Presents, RunRows
  <2>7. Listed(T, "GuardAlert", RunRows(view, b.run), name, facts)
    BY <1>1, <2>6, ReadView
  <2>8. QED
    BY <2>7 DEF name, facts, view
<1>6. Listed(T, "BookRebalance", RunRows(content.v_book_rebalance, b.run),
             [r \in content.v_book_rebalance |-> RebalanceIri(label, content, r)],
             [r \in content.v_book_rebalance |-> RebalanceFacts(label, content, r)])
  <2> DEFINE f == [r \in content.v_book_rebalance |-> Rebalance(label, content, r)]
             name == [r \in content.v_book_rebalance |-> RebalanceIri(label, content, r)]
             facts == [r \in content.v_book_rebalance |-> RebalanceFacts(label, content, r)]
             view == content.v_book_rebalance
  <2>1. \A r \in view : Tells(f[r], f[r].graph, name[r], "BookRebalance", facts[r])
    BY RebalanceTells, OwnGraph
  <2>2. \A r \in view : f[r].graph = graph <=> r.run = b.run
    BY <1>2, RebalanceTells, OwnGraph
  <2>3. ~Clash(name)
    BY DEF BacktestRefused, ChildrenRefused
  <2>4. IsFiniteSet(view) /\ DOMAIN name = view /\ \A r \in view : f[r] \in inds
    BY DEF IsDatabase, Views, BacktestViews, BacktestIndividuals
  <2>5. \A i \in inds : i.class = "BookRebalance" => \E r \in view : i = f[r]
    BY BacktestClasses
  <2> HIDE DEF f, name, facts, view, inds, graph
  <2>6. Presents(view, f, name, "BookRebalance", facts, inds, graph, RunRows(view, b.run))
    BY <2>1, <2>2, <2>3, <2>4, <2>5 DEF Presents, RunRows
  <2>7. Listed(T, "BookRebalance", RunRows(view, b.run), name, facts)
    BY <1>1, <2>6, ReadView
  <2>8. QED
    BY <2>7 DEF name, facts, view
<1>7. Listed(T, "GuardAction", RunRows(content.v_guard_action, b.run),
             [r \in content.v_guard_action |-> ActionIri(label, content, r)],
             [r \in content.v_guard_action |-> ActionFacts(label, content, r, assets)])
  <2> DEFINE f == [r \in content.v_guard_action |-> Action(label, content, r, assets)]
             name == [r \in content.v_guard_action |-> ActionIri(label, content, r)]
             facts == [r \in content.v_guard_action |-> ActionFacts(label, content, r, assets)]
             view == content.v_guard_action
  <2>1. \A r \in view : Tells(f[r], f[r].graph, name[r], "GuardAction", facts[r])
    BY ActionTells, OwnGraph
  <2>2. \A r \in view : f[r].graph = graph <=> r.run = b.run
    BY <1>2, ActionTells, OwnGraph
  <2>3. ~Clash(name)
    BY DEF BacktestRefused, ChildrenRefused
  <2>4. IsFiniteSet(view) /\ DOMAIN name = view /\ \A r \in view : f[r] \in inds
    BY DEF IsDatabase, Views, BacktestViews, BacktestIndividuals
  <2>5. \A i \in inds : i.class = "GuardAction" => \E r \in view : i = f[r]
    BY BacktestClasses
  <2> HIDE DEF f, name, facts, view, inds, graph
  <2>6. Presents(view, f, name, "GuardAction", facts, inds, graph, RunRows(view, b.run))
    BY <2>1, <2>2, <2>3, <2>4, <2>5 DEF Presents, RunRows
  <2>7. Listed(T, "GuardAction", RunRows(view, b.run), name, facts)
    BY <1>1, <2>6, ReadView
  <2>8. QED
    BY <2>7 DEF name, facts, view
<1>8. Listed(T, "BookWeightDaily", RunRows(content.v_book_weight_daily, b.run),
             [r \in content.v_book_weight_daily |-> WeightIri(label, content, r)],
             [r \in content.v_book_weight_daily |-> WeightFacts(label, content, r, assets)])
  <2> DEFINE f == [r \in content.v_book_weight_daily |-> Weight(label, content, r, assets)]
             name == [r \in content.v_book_weight_daily |-> WeightIri(label, content, r)]
             facts == [r \in content.v_book_weight_daily |-> WeightFacts(label, content, r, assets)]
             view == content.v_book_weight_daily
  <2>1. \A r \in view : Tells(f[r], f[r].graph, name[r], "BookWeightDaily", facts[r])
    BY WeightTells, OwnGraph
  <2>2. \A r \in view : f[r].graph = graph <=> r.run = b.run
    BY <1>2, WeightTells, OwnGraph
  <2>3. ~Clash(name)
    BY DEF BacktestRefused, ChildrenRefused
  <2>4. IsFiniteSet(view) /\ DOMAIN name = view /\ \A r \in view : f[r] \in inds
    BY DEF IsDatabase, Views, BacktestViews, BacktestIndividuals
  <2>5. \A i \in inds : i.class = "BookWeightDaily" => \E r \in view : i = f[r]
    BY BacktestClasses
  <2> HIDE DEF f, name, facts, view, inds, graph
  <2>6. Presents(view, f, name, "BookWeightDaily", facts, inds, graph, RunRows(view, b.run))
    BY <2>1, <2>2, <2>3, <2>4, <2>5 DEF Presents, RunRows
  <2>7. Listed(T, "BookWeightDaily", RunRows(view, b.run), name, facts)
    BY <1>1, <2>6, ReadView
  <2>8. QED
    BY <2>7 DEF name, facts, view
<1>9. Listed(T, "BookDailyPerformance", RunRows(content.v_book_daily_performance, b.run),
             [r \in content.v_book_daily_performance |-> PerformanceIri(label, content, r)],
             [r \in content.v_book_daily_performance |-> PerformanceFacts(label, content, r)])
  <2> DEFINE f == [r \in content.v_book_daily_performance |-> Performance(label, content, r)]
             name == [r \in content.v_book_daily_performance |-> PerformanceIri(label, content, r)]
             facts == [r \in content.v_book_daily_performance |-> PerformanceFacts(label, content, r)]
             view == content.v_book_daily_performance
  <2>1. \A r \in view : Tells(f[r], f[r].graph, name[r], "BookDailyPerformance", facts[r])
    BY PerformanceTells, OwnGraph
  <2>2. \A r \in view : f[r].graph = graph <=> r.run = b.run
    BY <1>2, PerformanceTells, OwnGraph
  <2>3. ~Clash(name)
    BY DEF BacktestRefused, ChildrenRefused
  <2>4. IsFiniteSet(view) /\ DOMAIN name = view /\ \A r \in view : f[r] \in inds
    BY DEF IsDatabase, Views, BacktestViews, BacktestIndividuals
  <2>5. \A i \in inds : i.class = "BookDailyPerformance" => \E r \in view : i = f[r]
    BY BacktestClasses
  <2> HIDE DEF f, name, facts, view, inds, graph
  <2>6. Presents(view, f, name, "BookDailyPerformance", facts, inds, graph, RunRows(view, b.run))
    BY <2>1, <2>2, <2>3, <2>4, <2>5 DEF Presents, RunRows
  <2>7. Listed(T, "BookDailyPerformance", RunRows(view, b.run), name, facts)
    BY <1>1, <2>6, ReadView
  <2>8. QED
    BY <2>7 DEF name, facts, view
<1>10. Listed(T, "PortfolioPeriodSummary", RunRows(content.v_portfolio_period_summary, b.run),
             [r \in content.v_portfolio_period_summary |-> SummaryIri(label, content, r)],
             [r \in content.v_portfolio_period_summary |-> SummaryFacts(label, content, r)])
  <2> DEFINE f == [r \in content.v_portfolio_period_summary |-> Summary(label, content, r)]
             name == [r \in content.v_portfolio_period_summary |-> SummaryIri(label, content, r)]
             facts == [r \in content.v_portfolio_period_summary |-> SummaryFacts(label, content, r)]
             view == content.v_portfolio_period_summary
  <2>1. \A r \in view : Tells(f[r], f[r].graph, name[r], "PortfolioPeriodSummary", facts[r])
    BY SummaryTells, OwnGraph
  <2>2. \A r \in view : f[r].graph = graph <=> r.run = b.run
    BY <1>2, SummaryTells, OwnGraph
  <2>3. ~Clash(name)
    BY DEF BacktestRefused, ChildrenRefused
  <2>4. IsFiniteSet(view) /\ DOMAIN name = view /\ \A r \in view : f[r] \in inds
    BY DEF IsDatabase, Views, BacktestViews, BacktestIndividuals
  <2>5. \A i \in inds : i.class = "PortfolioPeriodSummary" => \E r \in view : i = f[r]
    BY BacktestClasses
  <2> HIDE DEF f, name, facts, view, inds, graph
  <2>6. Presents(view, f, name, "PortfolioPeriodSummary", facts, inds, graph, RunRows(view, b.run))
    BY <2>1, <2>2, <2>3, <2>4, <2>5 DEF Presents, RunRows
  <2>7. Listed(T, "PortfolioPeriodSummary", RunRows(view, b.run), name, facts)
    BY <1>1, <2>6, ReadView
  <2>8. QED
    BY <2>7 DEF name, facts, view
<1>11. Listed(T, "BacktestTest", RunRows(content.v_backtest_test, b.run),
             [r \in content.v_backtest_test |-> TestIri(label, r)],
             [r \in content.v_backtest_test |-> TestFacts(label, r)])
  <2> DEFINE f == [r \in content.v_backtest_test |-> Test(label, r)]
             name == [r \in content.v_backtest_test |-> TestIri(label, r)]
             facts == [r \in content.v_backtest_test |-> TestFacts(label, r)]
             view == content.v_backtest_test
  <2>1. \A r \in view : Tells(f[r], f[r].graph, name[r], "BacktestTest", facts[r])
    BY TestTells, OwnGraph
  <2>2. \A r \in view : f[r].graph = graph <=> r.run = b.run
    BY <1>3, TestTells, OwnGraph
  <2>3. ~Clash(name)
    BY DEF BacktestRefused, TestsRefused
  <2>4. IsFiniteSet(view) /\ DOMAIN name = view /\ \A r \in view : f[r] \in inds
    BY DEF IsDatabase, Views, BacktestViews, BacktestIndividuals
  <2>5. \A i \in inds : i.class = "BacktestTest" => \E r \in view : i = f[r]
    BY BacktestClasses
  <2> HIDE DEF f, name, facts, view, inds, graph
  <2>6. Presents(view, f, name, "BacktestTest", facts, inds, graph, RunRows(view, b.run))
    BY <2>1, <2>2, <2>3, <2>4, <2>5 DEF Presents, RunRows
  <2>7. Listed(T, "BacktestTest", RunRows(view, b.run), name, facts)
    BY <1>1, <2>6, ReadView
  <2>8. QED
    BY <2>7 DEF name, facts, view
<1>12. QED
  BY <1>4, <1>5, <1>6, <1>7, <1>8, <1>9, <1>10, <1>11

-----------------------------------------------------------------------------
(* T is the graph of the run of book b of an accepted database.                *)
Shows(T, label, content, assets, b) ==
  /\ ~BacktestRefused(label, content) /\ IsDatabase(content) /\ b \in content.v_book
  /\ T = Batch(BacktestIndividuals(label, content, assets), GraphName(label, b.window, b.run))

(* One value, and what a query for it answers.                                 *)
Gives(T, s, p, value) == Of(T, s, p) = {value} /\ The(T, s, p) = value

(* A query that finds one value gives it.                                     *)
LEMMA OneValue == ASSUME NEW T, NEW s, NEW p, NEW value, Of(T, s, p) = {value} PROVE Gives(T, s, p, value)
BY DEF Gives, The

(* What queries find of the books.                                           *)
LEMMA BookList ==
  ASSUME NEW T, NEW label, NEW content, NEW assets, NEW b, Shows(T, label, content, assets, b)
  PROVE  Listed(T, "StrategyBook", RunRows(content.v_book, b.run),
                [r \in content.v_book |-> BookIri(label, r)],
                [r \in content.v_book |-> BookFacts(label, r)])
BY BacktestLists DEF Shows

(* A book, property by property.                                              *)
LEMMA BookRead ==
  ASSUME NEW T, NEW label, NEW content, NEW assets, NEW b, Shows(T, label, content, assets, b)
  PROVE  LET rows == RunRows(content.v_book, b.run)
         IN  /\ Typed(T, "StrategyBook") = {BookIri(label, r) : r \in rows}
             /\ \A r \in rows :
                  /\ r \in content.v_book /\ r.run = b.run
                  /\ Gives(T, BookIri(label, r), "runLabel", label)
                  /\ Gives(T, BookIri(label, r), "windowId", r.window)
                  /\ Gives(T, BookIri(label, r), "backtestRunId", r.run)
                  /\ Gives(T, BookIri(label, r), "armCode", r.arm)
                  /\ Gives(T, BookIri(label, r), "knowledgeDate", r.known)
                  /\ Of(T, BookIri(label, r), "holdingAsset") = {}
                  /\ Of(T, BookIri(label, r), "guardAsset") = {}
<1> DEFINE rows == RunRows(content.v_book, b.run)
           name == [r \in content.v_book |-> BookIri(label, r)]
           facts == [r \in content.v_book |-> BookFacts(label, r)]
<1>1. Listed(T, "StrategyBook", rows, name, facts)
  BY BookList
<1>2. {"runLabel", "windowId", "backtestRunId", "armCode", "knowledgeDate", "holdingAsset",
            "guardAsset"}
        \cap (Upward \cup {"a"}) = {}
  BY DEF Upward
<1>3. \A r \in rows : r \in content.v_book /\ r.run = b.run
  BY DEF RunRows
<1>4. \A r \in rows :
        \A p \in {"runLabel", "windowId", "backtestRunId", "armCode", "knowledgeDate", "holdingAsset",
            "guardAsset"} : Of(T, BookIri(label, r), p) = Said(BookFacts(label, r), p)
  BY <1>1, <1>2, <1>3 DEF Listed
<1>5. ASSUME NEW r \in rows
      PROVE  /\ Of(T, BookIri(label, r), "runLabel") = {label}
             /\ Of(T, BookIri(label, r), "windowId") = {r.window}
             /\ Of(T, BookIri(label, r), "backtestRunId") = {r.run}
             /\ Of(T, BookIri(label, r), "armCode") = {r.arm}
             /\ Of(T, BookIri(label, r), "knowledgeDate") = {r.known}
             /\ Of(T, BookIri(label, r), "holdingAsset") = {}
             /\ Of(T, BookIri(label, r), "guardAsset") = {}
  BY <1>4 DEF Said, BookFacts
<1>6. Typed(T, "StrategyBook") = {BookIri(label, r) : r \in rows}
  BY <1>1, <1>3 DEF Listed
<1>7. QED
  BY <1>3, <1>5, <1>6, OneValue

(* What queries find of the alerts.                                          *)
LEMMA AlertList ==
  ASSUME NEW T, NEW label, NEW content, NEW assets, NEW b, Shows(T, label, content, assets, b)
  PROVE  Listed(T, "GuardAlert", RunRows(content.v_guard_alert, b.run),
                [r \in content.v_guard_alert |-> AlertIri(label, r)],
                [r \in content.v_guard_alert |-> AlertFacts(r, assets)])
BY BacktestLists DEF Shows

(* An alert, property by property.                                            *)
LEMMA AlertRead ==
  ASSUME NEW T, NEW label, NEW content, NEW assets, NEW b, Shows(T, label, content, assets, b)
  PROVE  LET rows == RunRows(content.v_guard_alert, b.run)
         IN  /\ Typed(T, "GuardAlert") = {AlertIri(label, r) : r \in rows}
             /\ \A r \in rows :
                  /\ r \in content.v_guard_alert /\ r.run = b.run
                  /\ Gives(T, AlertIri(label, r), "alertRule", RuleIri(r))
                  /\ Gives(T, AlertIri(label, r), "guardLayer", r.layer)
                  /\ Gives(T, AlertIri(label, r), "alertState", r.state)
                  /\ Gives(T, AlertIri(label, r), "knowledgeDate", r.known)
                  /\ Of(T, AlertIri(label, r), "guardTicker") = Known(r.ticker)
                  /\ Of(T, AlertIri(label, r), "guardAsset") = {r.ticker} \cap assets
                  /\ Of(T, AlertIri(label, r), "alertThreshold") = Published(r)
                  /\ Of(T, AlertIri(label, r), "holdingAsset") = {}
<1> DEFINE rows == RunRows(content.v_guard_alert, b.run)
           name == [r \in content.v_guard_alert |-> AlertIri(label, r)]
           facts == [r \in content.v_guard_alert |-> AlertFacts(r, assets)]
<1>1. Listed(T, "GuardAlert", rows, name, facts)
  BY AlertList
<1>2. {"alertRule", "guardLayer", "alertState", "knowledgeDate", "guardTicker",
            "guardAsset", "alertThreshold", "holdingAsset"}
        \cap (Upward \cup {"a"}) = {}
  BY DEF Upward
<1>3. \A r \in rows : r \in content.v_guard_alert /\ r.run = b.run
  BY DEF RunRows
<1>4. \A r \in rows :
        \A p \in {"alertRule", "guardLayer", "alertState", "knowledgeDate", "guardTicker",
            "guardAsset", "alertThreshold", "holdingAsset"} :
        Of(T, AlertIri(label, r), p) = Said(AlertFacts(r, assets), p)
  BY <1>1, <1>2, <1>3 DEF Listed
<1>5. ASSUME NEW r \in rows
      PROVE  /\ Of(T, AlertIri(label, r), "alertRule") = {RuleIri(r)}
             /\ Of(T, AlertIri(label, r), "guardLayer") = {r.layer}
             /\ Of(T, AlertIri(label, r), "alertState") = {r.state}
             /\ Of(T, AlertIri(label, r), "knowledgeDate") = {r.known}
             /\ Of(T, AlertIri(label, r), "guardTicker") = Known(r.ticker)
             /\ Of(T, AlertIri(label, r), "guardAsset") = {r.ticker} \cap assets
             /\ Of(T, AlertIri(label, r), "alertThreshold") = Published(r)
             /\ Of(T, AlertIri(label, r), "holdingAsset") = {}
  BY <1>4 DEF Said, AlertFacts
<1>6. Typed(T, "GuardAlert") = {AlertIri(label, r) : r \in rows}
  BY <1>1, <1>3 DEF Listed
<1>7. QED
  BY <1>3, <1>5, <1>6, OneValue

(* What queries find of the rebalances.                                      *)
LEMMA RebalanceList ==
  ASSUME NEW T, NEW label, NEW content, NEW assets, NEW b, Shows(T, label, content, assets, b)
  PROVE  Listed(T, "BookRebalance", RunRows(content.v_book_rebalance, b.run),
                [r \in content.v_book_rebalance |-> RebalanceIri(label, content, r)],
                [r \in content.v_book_rebalance |-> RebalanceFacts(label, content, r)])
BY BacktestLists DEF Shows

(* A rebalance, property by property.                                         *)
LEMMA RebalanceRead ==
  ASSUME NEW T, NEW label, NEW content, NEW assets, NEW b, Shows(T, label, content, assets, b)
  PROVE  LET rows == RunRows(content.v_book_rebalance, b.run)
         IN  /\ Typed(T, "BookRebalance") = {RebalanceIri(label, content, r) : r \in rows}
             /\ \A r \in rows :
                  /\ r \in content.v_book_rebalance /\ r.run = b.run
                  /\ Gives(T, RebalanceIri(label, content, r), "rebalanceOfBook",
                           BookIri(label, TheBook(content, r)))
                  /\ Gives(T, RebalanceIri(label, content, r), "knowledgeDate", r.known)
                  /\ Of(T, RebalanceIri(label, content, r), "cycleRunId") = Known(r.cycle)
                  /\ Of(T, RebalanceIri(label, content, r), "holdingAsset") = {}
                  /\ Of(T, RebalanceIri(label, content, r), "guardAsset") = {}
<1> DEFINE rows == RunRows(content.v_book_rebalance, b.run)
           name == [r \in content.v_book_rebalance |-> RebalanceIri(label, content, r)]
           facts == [r \in content.v_book_rebalance |-> RebalanceFacts(label, content, r)]
<1>1. Listed(T, "BookRebalance", rows, name, facts)
  BY RebalanceList
<1>2. {"rebalanceOfBook", "knowledgeDate", "cycleRunId", "holdingAsset", "guardAsset"}
        \cap (Upward \cup {"a"}) = {}
  BY DEF Upward
<1>3. \A r \in rows : r \in content.v_book_rebalance /\ r.run = b.run
  BY DEF RunRows
<1>4. \A r \in rows : \A p \in {"rebalanceOfBook", "knowledgeDate", "cycleRunId", "holdingAsset", "guardAsset"} :
        Of(T, RebalanceIri(label, content, r), p) = Said(RebalanceFacts(label, content, r), p)
  BY <1>1, <1>2, <1>3 DEF Listed
<1>5. ASSUME NEW r \in rows
      PROVE  /\ Of(T, RebalanceIri(label, content, r), "rebalanceOfBook") = {BookIri(label, TheBook(content, r))}
             /\ Of(T, RebalanceIri(label, content, r), "knowledgeDate") = {r.known}
             /\ Of(T, RebalanceIri(label, content, r), "cycleRunId") = Known(r.cycle)
             /\ Of(T, RebalanceIri(label, content, r), "holdingAsset") = {}
             /\ Of(T, RebalanceIri(label, content, r), "guardAsset") = {}
  BY <1>4 DEF Said, RebalanceFacts
<1>6. Typed(T, "BookRebalance") = {RebalanceIri(label, content, r) : r \in rows}
  BY <1>1, <1>3 DEF Listed
<1>7. QED
  BY <1>3, <1>5, <1>6, OneValue

(* What queries find of the actions.                                         *)
LEMMA ActionList ==
  ASSUME NEW T, NEW label, NEW content, NEW assets, NEW b, Shows(T, label, content, assets, b)
  PROVE  Listed(T, "GuardAction", RunRows(content.v_guard_action, b.run),
                [r \in content.v_guard_action |-> ActionIri(label, content, r)],
                [r \in content.v_guard_action |-> ActionFacts(label, content, r, assets)])
BY BacktestLists DEF Shows

(* An action, property by property.                                           *)
LEMMA ActionRead ==
  ASSUME NEW T, NEW label, NEW content, NEW assets, NEW b, Shows(T, label, content, assets, b)
  PROVE  LET rows == RunRows(content.v_guard_action, b.run)
         IN  /\ Typed(T, "GuardAction") = {ActionIri(label, content, r) : r \in rows}
             /\ \A r \in rows :
                  /\ r \in content.v_guard_action /\ r.run = b.run
                  /\ Gives(T, ActionIri(label, content, r), "actionOfBook",
                           BookIri(label, TheBook(content, r)))
                  /\ Gives(T, ActionIri(label, content, r), "bookId", r.book)
                  /\ Gives(T, ActionIri(label, content, r), "armCode", TheBook(content, r).arm)
                  /\ Gives(T, ActionIri(label, content, r), "status", r.status)
                  /\ Gives(T, ActionIri(label, content, r), "decisionDate", r.decision)
                  /\ Gives(T, ActionIri(label, content, r), "knowledgeDate", r.known)
                  /\ Of(T, ActionIri(label, content, r), "guardTicker") = Known(r.ticker)
                  /\ Of(T, ActionIri(label, content, r), "guardAsset") = {r.ticker} \cap assets
                  /\ Of(T, ActionIri(label, content, r), "holdingAsset") = {}
<1> DEFINE rows == RunRows(content.v_guard_action, b.run)
           name == [r \in content.v_guard_action |-> ActionIri(label, content, r)]
           facts == [r \in content.v_guard_action |-> ActionFacts(label, content, r, assets)]
<1>1. Listed(T, "GuardAction", rows, name, facts)
  BY ActionList
<1>2. {"actionOfBook", "bookId", "armCode", "status", "decisionDate", "knowledgeDate",
            "guardTicker", "guardAsset", "holdingAsset"}
        \cap (Upward \cup {"a"}) = {}
  BY DEF Upward
<1>3. \A r \in rows : r \in content.v_guard_action /\ r.run = b.run
  BY DEF RunRows
<1>4. \A r \in rows :
        \A p \in {"actionOfBook", "bookId", "armCode", "status", "decisionDate", "knowledgeDate",
            "guardTicker", "guardAsset", "holdingAsset"} :
        Of(T, ActionIri(label, content, r), p) = Said(ActionFacts(label, content, r, assets), p)
  BY <1>1, <1>2, <1>3 DEF Listed
<1>5. ASSUME NEW r \in rows
      PROVE  /\ Of(T, ActionIri(label, content, r), "actionOfBook") = {BookIri(label, TheBook(content, r))}
             /\ Of(T, ActionIri(label, content, r), "bookId") = {r.book}
             /\ Of(T, ActionIri(label, content, r), "armCode") = {TheBook(content, r).arm}
             /\ Of(T, ActionIri(label, content, r), "status") = {r.status}
             /\ Of(T, ActionIri(label, content, r), "decisionDate") = {r.decision}
             /\ Of(T, ActionIri(label, content, r), "knowledgeDate") = {r.known}
             /\ Of(T, ActionIri(label, content, r), "guardTicker") = Known(r.ticker)
             /\ Of(T, ActionIri(label, content, r), "guardAsset") = {r.ticker} \cap assets
             /\ Of(T, ActionIri(label, content, r), "holdingAsset") = {}
  BY <1>4 DEF Said, ActionFacts
<1>6. Typed(T, "GuardAction") = {ActionIri(label, content, r) : r \in rows}
  BY <1>1, <1>3 DEF Listed
<1>7. QED
  BY <1>3, <1>5, <1>6, OneValue

(* What queries find of the daily weights.                                   *)
LEMMA WeightList ==
  ASSUME NEW T, NEW label, NEW content, NEW assets, NEW b, Shows(T, label, content, assets, b)
  PROVE  Listed(T, "BookWeightDaily", RunRows(content.v_book_weight_daily, b.run),
                [r \in content.v_book_weight_daily |-> WeightIri(label, content, r)],
                [r \in content.v_book_weight_daily |-> WeightFacts(label, content, r, assets)])
BY BacktestLists DEF Shows

(* A weight, property by property.                                            *)
LEMMA WeightRead ==
  ASSUME NEW T, NEW label, NEW content, NEW assets, NEW b, Shows(T, label, content, assets, b)
  PROVE  LET rows == RunRows(content.v_book_weight_daily, b.run)
         IN  /\ Typed(T, "BookWeightDaily") = {WeightIri(label, content, r) : r \in rows}
             /\ \A r \in rows :
                  /\ r \in content.v_book_weight_daily /\ r.run = b.run
                  /\ Gives(T, WeightIri(label, content, r), "weightOfBook",
                           BookIri(label, TheBook(content, r)))
                  /\ Gives(T, WeightIri(label, content, r), "holdingKey", r.holding)
                  /\ Gives(T, WeightIri(label, content, r), "knowledgeDate", r.known)
                  /\ Of(T, WeightIri(label, content, r), "holdingAsset") = ({r.holding} \ {Cash}) \cap assets
                  /\ Of(T, WeightIri(label, content, r), "guardAsset") = {}
<1> DEFINE rows == RunRows(content.v_book_weight_daily, b.run)
           name == [r \in content.v_book_weight_daily |-> WeightIri(label, content, r)]
           facts == [r \in content.v_book_weight_daily |-> WeightFacts(label, content, r, assets)]
<1>1. Listed(T, "BookWeightDaily", rows, name, facts)
  BY WeightList
<1>2. {"weightOfBook", "holdingKey", "knowledgeDate", "holdingAsset", "guardAsset"}
        \cap (Upward \cup {"a"}) = {}
  BY DEF Upward
<1>3. \A r \in rows : r \in content.v_book_weight_daily /\ r.run = b.run
  BY DEF RunRows
<1>4. \A r \in rows : \A p \in {"weightOfBook", "holdingKey", "knowledgeDate", "holdingAsset", "guardAsset"} :
        Of(T, WeightIri(label, content, r), p) = Said(WeightFacts(label, content, r, assets), p)
  BY <1>1, <1>2, <1>3 DEF Listed
<1>5. ASSUME NEW r \in rows
      PROVE  /\ Of(T, WeightIri(label, content, r), "weightOfBook") = {BookIri(label, TheBook(content, r))}
             /\ Of(T, WeightIri(label, content, r), "holdingKey") = {r.holding}
             /\ Of(T, WeightIri(label, content, r), "knowledgeDate") = {r.known}
             /\ Of(T, WeightIri(label, content, r), "holdingAsset") = ({r.holding} \ {Cash}) \cap assets
             /\ Of(T, WeightIri(label, content, r), "guardAsset") = {}
  BY <1>4 DEF Said, WeightFacts
<1>6. Typed(T, "BookWeightDaily") = {WeightIri(label, content, r) : r \in rows}
  BY <1>1, <1>3 DEF Listed
<1>7. QED
  BY <1>3, <1>5, <1>6, OneValue

(* What queries find of the daily performance.                               *)
LEMMA PerformanceList ==
  ASSUME NEW T, NEW label, NEW content, NEW assets, NEW b, Shows(T, label, content, assets, b)
  PROVE  Listed(T, "BookDailyPerformance", RunRows(content.v_book_daily_performance, b.run),
                [r \in content.v_book_daily_performance |-> PerformanceIri(label, content, r)],
                [r \in content.v_book_daily_performance |-> PerformanceFacts(label, content, r)])
BY BacktestLists DEF Shows

(* A daily performance, property by property.                                 *)
LEMMA PerformanceRead ==
  ASSUME NEW T, NEW label, NEW content, NEW assets, NEW b, Shows(T, label, content, assets, b)
  PROVE  LET rows == RunRows(content.v_book_daily_performance, b.run)
         IN  /\ Typed(T, "BookDailyPerformance") = {PerformanceIri(label, content, r) : r \in rows}
             /\ \A r \in rows :
                  /\ r \in content.v_book_daily_performance /\ r.run = b.run
                  /\ Gives(T, PerformanceIri(label, content, r), "performanceOfBook",
                           BookIri(label, TheBook(content, r)))
                  /\ Gives(T, PerformanceIri(label, content, r), "armCode", TheBook(content, r).arm)
                  /\ Gives(T, PerformanceIri(label, content, r), "performanceDate", r.date)
                  /\ Gives(T, PerformanceIri(label, content, r), "nav", r.nav)
                  /\ Gives(T, PerformanceIri(label, content, r), "knowledgeDate", r.known)
                  /\ Of(T, PerformanceIri(label, content, r), "holdingAsset") = {}
                  /\ Of(T, PerformanceIri(label, content, r), "guardAsset") = {}
<1> DEFINE rows == RunRows(content.v_book_daily_performance, b.run)
           name == [r \in content.v_book_daily_performance |-> PerformanceIri(label, content, r)]
           facts == [r \in content.v_book_daily_performance |-> PerformanceFacts(label, content, r)]
<1>1. Listed(T, "BookDailyPerformance", rows, name, facts)
  BY PerformanceList
<1>2. {"performanceOfBook", "armCode", "performanceDate", "nav", "knowledgeDate",
            "holdingAsset", "guardAsset"}
        \cap (Upward \cup {"a"}) = {}
  BY DEF Upward
<1>3. \A r \in rows : r \in content.v_book_daily_performance /\ r.run = b.run
  BY DEF RunRows
<1>4. \A r \in rows :
        \A p \in {"performanceOfBook", "armCode", "performanceDate", "nav", "knowledgeDate",
            "holdingAsset", "guardAsset"} :
        Of(T, PerformanceIri(label, content, r), p) = Said(PerformanceFacts(label, content, r), p)
  BY <1>1, <1>2, <1>3 DEF Listed
<1>5. ASSUME NEW r \in rows
      PROVE  /\ Of(T, PerformanceIri(label, content, r), "performanceOfBook") = {BookIri(label, TheBook(content, r))}
             /\ Of(T, PerformanceIri(label, content, r), "armCode") = {TheBook(content, r).arm}
             /\ Of(T, PerformanceIri(label, content, r), "performanceDate") = {r.date}
             /\ Of(T, PerformanceIri(label, content, r), "nav") = {r.nav}
             /\ Of(T, PerformanceIri(label, content, r), "knowledgeDate") = {r.known}
             /\ Of(T, PerformanceIri(label, content, r), "holdingAsset") = {}
             /\ Of(T, PerformanceIri(label, content, r), "guardAsset") = {}
  BY <1>4 DEF Said, PerformanceFacts
<1>6. Typed(T, "BookDailyPerformance") = {PerformanceIri(label, content, r) : r \in rows}
  BY <1>1, <1>3 DEF Listed
<1>7. QED
  BY <1>3, <1>5, <1>6, OneValue

(* What queries find of the period summaries.                                *)
LEMMA SummaryList ==
  ASSUME NEW T, NEW label, NEW content, NEW assets, NEW b, Shows(T, label, content, assets, b)
  PROVE  Listed(T, "PortfolioPeriodSummary", RunRows(content.v_portfolio_period_summary, b.run),
                [r \in content.v_portfolio_period_summary |-> SummaryIri(label, content, r)],
                [r \in content.v_portfolio_period_summary |-> SummaryFacts(label, content, r)])
BY BacktestLists DEF Shows

(* A period summary, property by property.                                    *)
LEMMA SummaryRead ==
  ASSUME NEW T, NEW label, NEW content, NEW assets, NEW b, Shows(T, label, content, assets, b)
  PROVE  LET rows == RunRows(content.v_portfolio_period_summary, b.run)
         IN  /\ Typed(T, "PortfolioPeriodSummary") = {SummaryIri(label, content, r) : r \in rows}
             /\ \A r \in rows :
                  /\ r \in content.v_portfolio_period_summary /\ r.run = b.run
                  /\ Gives(T, SummaryIri(label, content, r), "summaryOfBook",
                           BookIri(label, TheBook(content, r)))
                  /\ Gives(T, SummaryIri(label, content, r), "bookId", r.book)
                  /\ Gives(T, SummaryIri(label, content, r), "armCode", TheBook(content, r).arm)
                  /\ Gives(T, SummaryIri(label, content, r), "segment", r.segment)
                  /\ Gives(T, SummaryIri(label, content, r), "dateFrom", r.from)
                  /\ Gives(T, SummaryIri(label, content, r), "dateTo", r.to)
                  /\ Gives(T, SummaryIri(label, content, r), "nGuardActions", r.acted)
                  /\ Gives(T, SummaryIri(label, content, r), "knowledgeDate", r.known)
                  /\ Of(T, SummaryIri(label, content, r), "holdingAsset") = {}
                  /\ Of(T, SummaryIri(label, content, r), "guardAsset") = {}
<1> DEFINE rows == RunRows(content.v_portfolio_period_summary, b.run)
           name == [r \in content.v_portfolio_period_summary |-> SummaryIri(label, content, r)]
           facts == [r \in content.v_portfolio_period_summary |-> SummaryFacts(label, content, r)]
<1>1. Listed(T, "PortfolioPeriodSummary", rows, name, facts)
  BY SummaryList
<1>2. {"summaryOfBook", "bookId", "armCode", "segment", "dateFrom", "dateTo",
            "nGuardActions", "knowledgeDate", "holdingAsset", "guardAsset"}
        \cap (Upward \cup {"a"}) = {}
  BY DEF Upward
<1>3. \A r \in rows : r \in content.v_portfolio_period_summary /\ r.run = b.run
  BY DEF RunRows
<1>4. \A r \in rows :
        \A p \in {"summaryOfBook", "bookId", "armCode", "segment", "dateFrom", "dateTo",
            "nGuardActions", "knowledgeDate", "holdingAsset", "guardAsset"} :
        Of(T, SummaryIri(label, content, r), p) = Said(SummaryFacts(label, content, r), p)
  BY <1>1, <1>2, <1>3 DEF Listed
<1>5. ASSUME NEW r \in rows
      PROVE  /\ Of(T, SummaryIri(label, content, r), "summaryOfBook") = {BookIri(label, TheBook(content, r))}
             /\ Of(T, SummaryIri(label, content, r), "bookId") = {r.book}
             /\ Of(T, SummaryIri(label, content, r), "armCode") = {TheBook(content, r).arm}
             /\ Of(T, SummaryIri(label, content, r), "segment") = {r.segment}
             /\ Of(T, SummaryIri(label, content, r), "dateFrom") = {r.from}
             /\ Of(T, SummaryIri(label, content, r), "dateTo") = {r.to}
             /\ Of(T, SummaryIri(label, content, r), "nGuardActions") = {r.acted}
             /\ Of(T, SummaryIri(label, content, r), "knowledgeDate") = {r.known}
             /\ Of(T, SummaryIri(label, content, r), "holdingAsset") = {}
             /\ Of(T, SummaryIri(label, content, r), "guardAsset") = {}
  BY <1>4 DEF Said, SummaryFacts
<1>6. Typed(T, "PortfolioPeriodSummary") = {SummaryIri(label, content, r) : r \in rows}
  BY <1>1, <1>3 DEF Listed
<1>7. QED
  BY <1>3, <1>5, <1>6, OneValue

(* What queries find of the tests.                                           *)
LEMMA TestList ==
  ASSUME NEW T, NEW label, NEW content, NEW assets, NEW b, Shows(T, label, content, assets, b)
  PROVE  Listed(T, "BacktestTest", RunRows(content.v_backtest_test, b.run),
                [r \in content.v_backtest_test |-> TestIri(label, r)],
                [r \in content.v_backtest_test |-> TestFacts(label, r)])
BY BacktestLists DEF Shows

(* A test, property by property.                                              *)
LEMMA TestRead ==
  ASSUME NEW T, NEW label, NEW content, NEW assets, NEW b, Shows(T, label, content, assets, b)
  PROVE  LET rows == RunRows(content.v_backtest_test, b.run)
         IN  /\ Typed(T, "BacktestTest") = {TestIri(label, r) : r \in rows}
             /\ \A r \in rows :
                  /\ r \in content.v_backtest_test /\ r.run = b.run
                  /\ Gives(T, TestIri(label, r), "runLabel", label)
                  /\ Gives(T, TestIri(label, r), "knowledgeDate", r.known)
                  /\ Of(T, TestIri(label, r), "holdingAsset") = {}
                  /\ Of(T, TestIri(label, r), "guardAsset") = {}
<1> DEFINE rows == RunRows(content.v_backtest_test, b.run)
           name == [r \in content.v_backtest_test |-> TestIri(label, r)]
           facts == [r \in content.v_backtest_test |-> TestFacts(label, r)]
<1>1. Listed(T, "BacktestTest", rows, name, facts)
  BY TestList
<1>2. {"runLabel", "knowledgeDate", "holdingAsset", "guardAsset"}
        \cap (Upward \cup {"a"}) = {}
  BY DEF Upward
<1>3. \A r \in rows : r \in content.v_backtest_test /\ r.run = b.run
  BY DEF RunRows
<1>4. \A r \in rows : \A p \in {"runLabel", "knowledgeDate", "holdingAsset", "guardAsset"} :
        Of(T, TestIri(label, r), p) = Said(TestFacts(label, r), p)
  BY <1>1, <1>2, <1>3 DEF Listed
<1>5. ASSUME NEW r \in rows
      PROVE  /\ Of(T, TestIri(label, r), "runLabel") = {label}
             /\ Of(T, TestIri(label, r), "knowledgeDate") = {r.known}
             /\ Of(T, TestIri(label, r), "holdingAsset") = {}
             /\ Of(T, TestIri(label, r), "guardAsset") = {}
  BY <1>4 DEF Said, TestFacts
<1>6. Typed(T, "BacktestTest") = {TestIri(label, r) : r \in rows}
  BY <1>1, <1>3 DEF Listed
<1>7. QED
  BY <1>3, <1>5, <1>6, OneValue

-----------------------------------------------------------------------------
(* Counting what is stored counts the rows.                                    *)
LEMMA PartSize ==
  ASSUME NEW T, NEW class, NEW rows, NEW name, NEW facts, Listed(T, class, rows, name, facts),
         NEW part \in SUBSET rows, NEW found, \A s : s \in found <=> \E r \in part : s = name[r]
  PROVE  IsFiniteSet(part) /\ IsFiniteSet(found) /\ Cardinality(found) = Cardinality(part)
<1> DEFINE f == [r \in part |-> name[r]]
<1>1. IsFiniteSet(part)
  BY FS_Subset DEF Listed
<1>2. f \in [part -> found] /\ \A t \in found : \E r \in part : f[r] = t
  OBVIOUS
<1>3. \A r, s \in part : f[r] = f[s] => r = s
  BY DEF Listed
<1> HIDE DEF f
<1>4. QED
  BY <1>1, <1>2, <1>3, ImageSize

(* A row beside a value of its own counts once.                               *)
LEMMA PairSize ==
  ASSUME NEW part, IsFiniteSet(part), NEW pairs, NEW g, pairs = {<<r, g[r]>> : r \in part}
  PROVE  Cardinality(pairs) = Cardinality(part)
<1> DEFINE f == [r \in part |-> <<r, g[r]>>]
<1>1. f \in [part -> pairs] /\ \A t \in pairs : \E r \in part : f[r] = t
  OBVIOUS
<1>2. \A r, s \in part : f[r] = f[s] => r = s
  OBVIOUS
<1> HIDE DEF f
<1>3. QED
  BY <1>1, <1>2, ImageSize

(* Groups of what is stored are the groups of the rows.                        *)
LEMMA CountsAgree ==
  ASSUME NEW T, NEW class, NEW rows, NEW name, NEW facts, Listed(T, class, rows, name, facts),
         NEW stored, DOMAIN stored = Typed(T, class), NEW source, DOMAIN source = rows,
         \A r \in rows : stored[name[r]] = source[r]
  PROVE  Counts(stored) = Counts(source)
<1>1. Typed(T, class) = {name[r] : r \in rows}
  BY DEF Listed
<1>2. ASSUME NEW r \in rows
      PROVE  Cardinality({y \in DOMAIN stored : stored[y] = stored[name[r]]})
               = Cardinality({y \in DOMAIN source : source[y] = source[r]})
  <2> DEFINE part == {y \in DOMAIN source : source[y] = source[r]}
             found == {y \in DOMAIN stored : stored[y] = stored[name[r]]}
  <2>1. part \in SUBSET rows
    OBVIOUS
  <2>2. \A s : s \in found <=> \E q \in part : s = name[q]
    BY <1>1
  <2> HIDE DEF part, found
  <2>3. Cardinality(found) = Cardinality(part)
    BY <2>1, <2>2, PartSize
  <2>4. QED
    BY <2>3 DEF part, found
<1> DEFINE N(x) == Cardinality({y \in DOMAIN stored : stored[y] = stored[x]})
           M(x) == Cardinality({y \in DOMAIN source : source[y] = source[x]})
<1>3. Counts(stored) = {<<stored[x], N(x)>> : x \in DOMAIN stored}
  BY DEF Counts
<1>4. Counts(source) = {<<source[x], M(x)>> : x \in DOMAIN source}
  BY DEF Counts
<1>5. \A r \in rows : N(name[r]) = M(r)
  BY <1>2
<1> HIDE DEF N, M
<1>6. QED
  BY <1>1, <1>3, <1>4, <1>5

-----------------------------------------------------------------------------
(* The graph's name and what its books say.                                    *)
LEMMA IdentityHolds ==
  ASSUME NEW T, NEW label, NEW content, NEW assets, NEW b, Shows(T, label, content, assets, b)
  PROVE  Failed(IdentityChecks(label, GraphName(label, b.window, b.run), content, assets, T)) = {}
<1> DEFINE graph == GraphName(label, b.window, b.run)
           names == {i.graph : i \in BacktestIndividuals(label, content, assets)}
           rows == RunRows(content.v_book, b.run)
<1>1. graph[2] = label /\ graph[3] = b.window /\ graph[4] = b.run
  BY DEF GraphName
<1>2. graph \in names
  <2>1. Book(label, b).graph = graph /\ Book(label, b) \in BacktestIndividuals(label, content, assets)
    BY BookTells, OwnGraph DEF Shows, BacktestIndividuals
  <2>2. QED
    BY <2>1
<1>3. \A r \in rows : /\ Gives(T, BookIri(label, r), "runLabel", label)
                       /\ Gives(T, BookIri(label, r), "windowId", r.window)
                       /\ Gives(T, BookIri(label, r), "backtestRunId", r.run)
  BY BookRead
<1>4. b \in rows /\ \A r \in rows : r \in content.v_book /\ r.run = b.run /\ r.window = b.window
  BY DEF RunRows, Shows, BacktestRefused, BooksRefused
<1>5. Typed(T, "StrategyBook") = {BookIri(label, r) : r \in rows}
  BY BookRead
<1>6. T # {}
  BY <1>4, <1>5 DEF Typed
<1> HIDE DEF rows
<1>7. ASSUME NEW s \in Typed(T, "StrategyBook")
      PROVE  /\ Of(T, s, "runLabel") = {label} /\ Of(T, s, "windowId") = {b.window}
             /\ Of(T, s, "backtestRunId") = {b.run}
  BY <1>3, <1>4, <1>5 DEF Gives
<1>8. \E s : s \in Typed(T, "StrategyBook")
  BY <1>4, <1>5
<1>9. Identities(T, "StrategyBook") = {<<label, b.window, b.run>>}
  BY <1>7, <1>8 DEF Identities
<1>10. QED
  BY <1>1, <1>2, <1>6, <1>9 DEF Failed, IdentityChecks

(* As many triples as projected, as many individuals as rows.                  *)
LEMMA CountsHold ==
  ASSUME NEW T, NEW label, NEW content, NEW assets, NEW b, Shows(T, label, content, assets, b)
  PROVE  Failed(CountChecks(label, GraphName(label, b.window, b.run), content, assets, T)) = {}
<1>1. ASSUME NEW class, NEW rows, NEW name, NEW facts, Listed(T, class, rows, name, facts)
      PROVE  Cardinality(Typed(T, class)) = Cardinality(rows)
  <2>1. rows \in SUBSET rows /\ \A s : s \in Typed(T, class) <=> \E r \in rows : s = name[r]
    BY <1>1 DEF Listed
  <2>2. QED
    BY <1>1, <2>1, PartSize
<1> DEFINE Same(class, view) == Cardinality(Typed(T, class)) = Cardinality(RunRows(view, b.run))
<1>2. /\ Same("StrategyBook", content.v_book) /\ Same("GuardAlert", content.v_guard_alert)
  BY <1>1, BookList, AlertList
<1>3. /\ Same("BookRebalance", content.v_book_rebalance) /\ Same("GuardAction", content.v_guard_action)
  BY <1>1, RebalanceList, ActionList
<1>4. /\ Same("BookWeightDaily", content.v_book_weight_daily)
      /\ Same("BookDailyPerformance", content.v_book_daily_performance)
  BY <1>1, WeightList, PerformanceList
<1>5. /\ Same("PortfolioPeriodSummary", content.v_portfolio_period_summary)
      /\ Same("BacktestTest", content.v_backtest_test)
  BY <1>1, SummaryList, TestList
<1>6. \A v \in BacktestViews : Same(ClassOf[v], content[v])
  <2> HIDE DEF Same
  <2>1. QED
    BY <1>2, <1>3, <1>4, <1>5 DEF BacktestViews, ClassOf
<1> DEFINE graph == GraphName(label, b.window, b.run)
           checks == CountChecks(label, graph, content, assets, T)
<1>7. graph[4] = b.run
  BY DEF GraphName
<1>8. T = Batch(BacktestIndividuals(label, content, assets), graph)
  BY DEF Shows
<1> HIDE DEF graph
<1>9. DOMAIN checks = {"triples", "individuals"} /\ checks.triples
  BY <1>8 DEF CountChecks
<1>10. checks.individuals
  BY <1>6, <1>7 DEF CountChecks
<1> HIDE DEF checks
<1>11. Failed(checks) = {}
  BY <1>9, <1>10 DEF Failed
<1>12. QED
  BY <1>11 DEF checks, graph

-----------------------------------------------------------------------------
(* What a query finds as values of a property, class by class.                 *)
LEMMA ReadObjects ==
  ASSUME NEW T, NEW label, NEW content, NEW assets, NEW b, Shows(T, label, content, assets, b),
         NEW p, p \notin Upward \cup {"a"}, NEW o
  PROVE  o \in Objects(T, p) <=> \E v \in BacktestViews : \E s \in Typed(T, ClassOf[v]) : o \in Of(T, s, p)
<1> DEFINE inds == BacktestIndividuals(label, content, assets)
           graph == GraphName(label, b.window, b.run)
<1>1. Legible(inds) /\ T = Batch(inds, graph)
  BY BacktestLegible DEF Shows
<1>2. \A i \in inds : \E v \in BacktestViews : i.class = ClassOf[v]
  <2>1. \A i \in inds : i.class \in {ClassOf[v] : v \in BacktestViews}
    <3>1. {"StrategyBook", "GuardAlert", "BookRebalance", "GuardAction", "BookWeightDaily",
           "BookDailyPerformance", "PortfolioPeriodSummary", "BacktestTest"}
            \subseteq {ClassOf[v] : v \in BacktestViews}
      BY DEF ClassOf, BacktestViews
    <3>2. QED
      BY <3>1, BookTells, AlertTells, RebalanceTells, ActionTells, WeightTells, PerformanceTells,
         SummaryTells, TestTells, OwnGraph DEF BacktestIndividuals
  <2>2. QED
    BY <2>1
<1> HIDE DEF inds, graph
<1>3. ASSUME o \in Objects(T, p)
      PROVE  \E v \in BacktestViews : \E s \in Typed(T, ClassOf[v]) : o \in Of(T, s, p)
  <2>1. PICK t \in T : t[2] = p /\ t[3] = o
    BY <1>3 DEF Objects, Triples
  <2>2. PICK i \in inds : i.graph = graph /\ t \in i.triples
    BY <1>1, <2>1 DEF Batch
  <2>3. PICK told : Tells(i, i.graph, i.iri, i.class, told)
    BY <1>1 DEF Legible, Plain
  <2>4. t[1] = i.iri
    BY <2>1, <2>2, <2>3 DEF Tells
  <2>5. PICK v \in BacktestViews : i.class = ClassOf[v]
    BY <1>2
  <2>6. Typed(T, ClassOf[v]) = {j.iri : j \in {k \in inds : k.graph = graph /\ k.class = ClassOf[v]}}
    BY <1>1, ReadTyped
  <2>7. t[1] \in Typed(T, ClassOf[v]) /\ o \in Of(T, t[1], p)
    BY <2>1, <2>2, <2>4, <2>5, <2>6 DEF Of
  <2>8. QED
    BY <2>7
<1>4. ASSUME NEW s, o \in Of(T, s, p) PROVE o \in Objects(T, p)
  BY <1>4 DEF Of, Objects, Triples
<1>5. QED
  BY <1>3, <1>4

(* Only the daily weights link a holding, only alerts and actions a ticker.    *)
LEMMA LinkedObjects ==
  ASSUME NEW T, NEW label, NEW content, NEW assets, NEW b, Shows(T, label, content, assets, b)
  PROVE  /\ Objects(T, "holdingAsset")
              = {r.holding : r \in {w \in RunRows(content.v_book_weight_daily, b.run) : w.holding # Cash}}
                \cap assets
         /\ Objects(T, "guardAsset")
              = ({r.ticker : r \in RunRows(content.v_guard_alert, b.run)}
                 \cup {r.ticker : r \in RunRows(content.v_guard_action, b.run)}) \cap assets
<1>1. {"holdingAsset", "guardAsset"} \cap (Upward \cup {"a"}) = {}
  BY DEF Upward
<1> DEFINE Links(class, p, o) == \E s \in Typed(T, class) : o \in Of(T, s, p)
           Rows(view) == RunRows(view, b.run)
<1>2. \A o : ~Links("StrategyBook", "holdingAsset", o) /\ ~Links("StrategyBook", "guardAsset", o)
  BY BookRead
<1>3. \A o : ~Links("BookRebalance", "holdingAsset", o) /\ ~Links("BookRebalance", "guardAsset", o)
  BY RebalanceRead
<1>4. \A o : ~Links("BookDailyPerformance", "holdingAsset", o) /\ ~Links("BookDailyPerformance", "guardAsset", o)
  BY PerformanceRead
<1>5. \A o : ~Links("PortfolioPeriodSummary", "holdingAsset", o) /\ ~Links("PortfolioPeriodSummary", "guardAsset", o)
  BY SummaryRead
<1>6. \A o : ~Links("BacktestTest", "holdingAsset", o) /\ ~Links("BacktestTest", "guardAsset", o)
  BY TestRead
<1>7. ASSUME NEW o
      PROVE  /\ ~Links("GuardAlert", "holdingAsset", o)
             /\ Links("GuardAlert", "guardAsset", o)
                  <=> \E r \in Rows(content.v_guard_alert) : o = r.ticker /\ o \in assets
  <2> DEFINE rows == Rows(content.v_guard_alert)
  <2>1. Typed(T, "GuardAlert") = {AlertIri(label, r) : r \in rows}
    BY AlertRead
  <2>2. \A r \in rows : /\ Of(T, AlertIri(label, r), "guardAsset") = {r.ticker} \cap assets
                        /\ Of(T, AlertIri(label, r), "holdingAsset") = {}
    BY AlertRead
  <2> HIDE DEF rows
  <2>3. \A r \in rows : /\ o \notin Of(T, AlertIri(label, r), "holdingAsset")
                        /\ o \in Of(T, AlertIri(label, r), "guardAsset") <=> o = r.ticker /\ o \in assets
    BY <2>2
  <2>4. QED
    BY <2>1, <2>3 DEF rows
<1>8. ASSUME NEW o
      PROVE  /\ ~Links("GuardAction", "holdingAsset", o)
             /\ Links("GuardAction", "guardAsset", o)
                  <=> \E r \in Rows(content.v_guard_action) : o = r.ticker /\ o \in assets
  <2> DEFINE rows == Rows(content.v_guard_action)
  <2>1. Typed(T, "GuardAction") = {ActionIri(label, content, r) : r \in rows}
    BY ActionRead
  <2>2. \A r \in rows : /\ Of(T, ActionIri(label, content, r), "guardAsset") = {r.ticker} \cap assets
                        /\ Of(T, ActionIri(label, content, r), "holdingAsset") = {}
    BY ActionRead
  <2> HIDE DEF rows
  <2>3. \A r \in rows : /\ o \notin Of(T, ActionIri(label, content, r), "holdingAsset")
                        /\ o \in Of(T, ActionIri(label, content, r), "guardAsset") <=> o = r.ticker /\ o \in assets
    BY <2>2
  <2>4. QED
    BY <2>1, <2>3 DEF rows
<1>9. ASSUME NEW o
      PROVE  /\ ~Links("BookWeightDaily", "guardAsset", o)
             /\ Links("BookWeightDaily", "holdingAsset", o)
                  <=> \E r \in Rows(content.v_book_weight_daily) :
                        o = r.holding /\ o # Cash /\ o \in assets
  <2> DEFINE rows == Rows(content.v_book_weight_daily)
  <2>1. Typed(T, "BookWeightDaily") = {WeightIri(label, content, r) : r \in rows}
    BY WeightRead
  <2>2. \A r \in rows : /\ Of(T, WeightIri(label, content, r), "holdingAsset") = ({r.holding} \ {Cash}) \cap assets
                        /\ Of(T, WeightIri(label, content, r), "guardAsset") = {}
    BY WeightRead
  <2> HIDE DEF rows
  <2>3. \A r \in rows :
          /\ o \notin Of(T, WeightIri(label, content, r), "guardAsset")
          /\ o \in Of(T, WeightIri(label, content, r), "holdingAsset")
               <=> o = r.holding /\ o # Cash /\ o \in assets
    BY <2>2
  <2>4. QED
    BY <2>1, <2>3 DEF rows
<1>10. \A p \in {"holdingAsset", "guardAsset"} : \A o :
         o \in Objects(T, p) <=> \E v \in BacktestViews : Links(ClassOf[v], p, o)
  BY <1>1, ReadObjects
<1> HIDE DEF Links
<1>11. ASSUME NEW p \in {"holdingAsset", "guardAsset"}, NEW o
       PROVE  o \in Objects(T, p)
          <=> \/ Links("StrategyBook", p, o) \/ Links("BookRebalance", p, o)
              \/ Links("GuardAlert", p, o) \/ Links("GuardAction", p, o)
              \/ Links("BookWeightDaily", p, o) \/ Links("BookDailyPerformance", p, o)
              \/ Links("PortfolioPeriodSummary", p, o) \/ Links("BacktestTest", p, o)
  BY <1>10 DEF BacktestViews, ClassOf
<1>12. ASSUME NEW o PROVE o \in Objects(T, "holdingAsset") <=> Links("BookWeightDaily", "holdingAsset", o)
  BY <1>2, <1>3, <1>4, <1>5, <1>6, <1>7, <1>8, <1>11
<1>13. ASSUME NEW o
       PROVE  o \in Objects(T, "guardAsset")
                <=> Links("GuardAlert", "guardAsset", o) \/ Links("GuardAction", "guardAsset", o)
  BY <1>2, <1>3, <1>4, <1>5, <1>6, <1>9, <1>11
<1>14. ASSUME NEW o
       PROVE  o \in Objects(T, "holdingAsset")
          <=> /\ o \in {r.holding : r \in {w \in Rows(content.v_book_weight_daily) : w.holding # Cash}}
              /\ o \in assets
  <2>1. Links("BookWeightDaily", "holdingAsset", o)
          <=> \E r \in Rows(content.v_book_weight_daily) : o = r.holding /\ o # Cash /\ o \in assets
    BY <1>9
  <2> HIDE DEF Rows
  <2>2. QED
    BY <1>12, <2>1
<1>15. ASSUME NEW o
       PROVE  o \in Objects(T, "guardAsset")
          <=> /\ \/ o \in {r.ticker : r \in Rows(content.v_guard_alert)}
                 \/ o \in {r.ticker : r \in Rows(content.v_guard_action)}
              /\ o \in assets
  <2>1. /\ Links("GuardAlert", "guardAsset", o)
             <=> \E r \in Rows(content.v_guard_alert) : o = r.ticker /\ o \in assets
        /\ Links("GuardAction", "guardAsset", o)
             <=> \E r \in Rows(content.v_guard_action) : o = r.ticker /\ o \in assets
    BY <1>7, <1>8
  <2> HIDE DEF Rows
  <2>2. QED
    BY <1>13, <2>1
<1>16. QED
  BY <1>14, <1>15

-----------------------------------------------------------------------------
(* As many rows as individuals, whatever is said of each.                      *)
LEMMA PartPairs ==
  ASSUME NEW T, NEW class, NEW rows, NEW name, NEW facts, Listed(T, class, rows, name, facts),
         NEW part \in SUBSET rows, NEW found, \A s : s \in found <=> \E r \in part : s = name[r],
         NEW g, NEW pairs, pairs = {<<r, g[r]>> : r \in part}
  PROVE  Cardinality(found) <= Cardinality(pairs)
<1>1. IsFiniteSet(part) /\ Cardinality(found) = Cardinality(part)
  BY PartSize
<1>2. Cardinality(pairs) = Cardinality(part)
  BY <1>1, PairSize
<1>3. Cardinality(part) \in Nat
  BY <1>1, FS_CardinalityType
<1>4. QED
  BY <1>1, <1>2, <1>3

(* Weights whose holding is no loaded asset.                                   *)
LEMMA UnheldFew ==
  ASSUME NEW T, NEW label, NEW content, NEW assets, NEW b, Shows(T, label, content, assets, b)
  PROVE  LET rows == RunRows(content.v_book_weight_daily, b.run)
             held == {<<r, r.holding>> : r \in {w \in rows : w.holding # Cash}}
             unheld == {s \in Unlinked(T, "BookWeightDaily", "holdingKey", "holdingAsset") :
                          Of(T, s, "holdingKey") # {Cash}}
         IN  Cardinality(unheld) <= Cardinality({h \in held : h[2] \notin assets})
<1> DEFINE rows == RunRows(content.v_book_weight_daily, b.run)
           name == [r \in content.v_book_weight_daily |-> WeightIri(label, content, r)]
           facts == [r \in content.v_book_weight_daily |-> WeightFacts(label, content, r, assets)]
           held == {<<r, r.holding>> : r \in {w \in rows : w.holding # Cash}}
           unheld == {s \in Unlinked(T, "BookWeightDaily", "holdingKey", "holdingAsset") :
                        Of(T, s, "holdingKey") # {Cash}}
           part == {r \in rows : r.holding # Cash /\ r.holding \notin assets}
           g == [r \in rows |-> r.holding]
           pairs == {h \in held : h[2] \notin assets}
<1>1. Listed(T, "BookWeightDaily", rows, name, facts)
  BY WeightList
<1>2. Typed(T, "BookWeightDaily") = {WeightIri(label, content, r) : r \in rows}
  BY WeightRead
<1>3. \A r \in rows :
        /\ name[r] = WeightIri(label, content, r)
        /\ Of(T, WeightIri(label, content, r), "holdingKey") = {r.holding}
        /\ Of(T, WeightIri(label, content, r), "holdingAsset") = ({r.holding} \ {Cash}) \cap assets
  BY WeightRead DEF Gives
<1> HIDE DEF name, facts
<1>4. \A s : s \in unheld <=> \E r \in part : s = name[r]
  <2>1. \A r \in rows : WeightIri(label, content, r) \in unheld <=> r.holding # Cash /\ r.holding \notin assets
    BY <1>2, <1>3 DEF Unlinked
  <2>2. unheld \subseteq Typed(T, "BookWeightDaily")
    BY DEF Unlinked
  <2> HIDE DEF unheld, rows
  <2>3. QED
    BY <1>2, <1>3, <2>1, <2>2
<1>5. pairs = {<<r, g[r]>> : r \in part}
  OBVIOUS
<1>6. part \in SUBSET rows
  OBVIOUS
<1> HIDE DEF pairs, part, unheld, g, rows
<1>7. Cardinality(unheld) <= Cardinality(pairs)
  BY <1>1, <1>4, <1>5, <1>6, PartPairs
<1>8. QED
  BY <1>7 DEF pairs, unheld, rows

(* Alerts and actions whose ticker is no loaded asset.                         *)
LEMMA UnguardedFew ==
  ASSUME NEW T, NEW class, NEW rows, NEW name, NEW facts, Listed(T, class, rows, name, facts), NEW assets,
         \A r \in rows : /\ Of(T, name[r], "guardTicker") = Known(r.ticker)
                         /\ Of(T, name[r], "guardAsset") = {r.ticker} \cap assets
  PROVE  Cardinality(Unlinked(T, class, "guardTicker", "guardAsset"))
           <= Cardinality(UnlinkedRows({<<r, r.ticker>> : r \in rows}, assets))
<1> DEFINE part == {r \in rows : r.ticker # Null /\ r.ticker \notin assets}
           found == Unlinked(T, class, "guardTicker", "guardAsset")
           g == [r \in rows |-> r.ticker]
           pairs == UnlinkedRows({<<r, r.ticker>> : r \in rows}, assets)
<1>1. Typed(T, class) = {name[r] : r \in rows}
  BY DEF Listed
<1>2. \A r \in rows : name[r] \in found <=> r.ticker # Null /\ r.ticker \notin assets
  BY <1>1 DEF Unlinked, Known
<1>3. found \subseteq Typed(T, class)
  BY DEF Unlinked
<1>4. \A s : s \in found <=> \E r \in part : s = name[r]
  <2> HIDE DEF found
  <2>1. QED
    BY <1>1, <1>2, <1>3
<1>5. pairs = {<<r, g[r]>> : r \in part}
  BY DEF UnlinkedRows
<1>6. part \in SUBSET rows
  OBVIOUS
<1> HIDE DEF pairs, part, found, g
<1>7. Cardinality(found) <= Cardinality(pairs)
  BY <1>4, <1>5, <1>6, PartPairs
<1>8. QED
  BY <1>7 DEF pairs, found

(* Distinct linked assets, and unlinked rows.                                  *)
LEMMA LinkHolds ==
  ASSUME NEW T, NEW label, NEW content, NEW assets, NEW b, Shows(T, label, content, assets, b)
  PROVE  Failed(LinkChecks(GraphName(label, b.window, b.run), content, assets, T)) = {}
<1> DEFINE graph == GraphName(label, b.window, b.run)
           checks == LinkChecks(graph, content, assets, T)
           weights == RunRows(content.v_book_weight_daily, b.run)
           alerts == RunRows(content.v_guard_alert, b.run)
           actions == RunRows(content.v_guard_action, b.run)
           held == {<<r, r.holding>> : r \in {w \in weights : w.holding # Cash}}
           alerted == {<<r, r.ticker>> : r \in alerts}
           guarded == {<<r, r.ticker>> : r \in actions}
           unheld == {s \in Unlinked(T, "BookWeightDaily", "holdingKey", "holdingAsset") :
                        Of(T, s, "holdingKey") # {Cash}}
<1>1. graph[4] = b.run
  BY DEF GraphName
<1>2. Objects(T, "holdingAsset") = {h[2] : h \in held} \cap assets
  <2>1. ASSUME NEW h \in held PROVE \E r \in {w \in weights : w.holding # Cash} : h[2] = r.holding
    OBVIOUS
  <2>2. ASSUME NEW r \in {w \in weights : w.holding # Cash} PROVE \E h \in held : h[2] = r.holding
    <3>1. <<r, r.holding>> \in held
      OBVIOUS
    <3>2. QED
      BY <3>1
  <2> HIDE DEF held
  <2>3. {h[2] : h \in held} = {r.holding : r \in {w \in weights : w.holding # Cash}}
    BY <2>1, <2>2
  <2>4. QED
    BY <2>3, LinkedObjects
<1>3. Objects(T, "guardAsset") = {h[2] : h \in alerted \cup guarded} \cap assets
  <2>1. ASSUME NEW h \in alerted \cup guarded PROVE \E r \in alerts \cup actions : h[2] = r.ticker
    OBVIOUS
  <2>2. ASSUME NEW r \in alerts \cup actions PROVE \E h \in alerted \cup guarded : h[2] = r.ticker
    <3>1. <<r, r.ticker>> \in alerted \cup guarded
      OBVIOUS
    <3>2. QED
      BY <3>1
  <2> HIDE DEF alerted, guarded
  <2>3. {h[2] : h \in alerted \cup guarded} = {r.ticker : r \in alerts} \cup {r.ticker : r \in actions}
    BY <2>1, <2>2
  <2>4. QED
    BY <2>3, LinkedObjects
<1>4. Cardinality(unheld) <= Cardinality({h \in held : h[2] \notin assets})
  BY UnheldFew
<1>5. Cardinality(Unlinked(T, "GuardAlert", "guardTicker", "guardAsset"))
        <= Cardinality(UnlinkedRows(alerted, assets))
  <2> DEFINE name == [r \in content.v_guard_alert |-> AlertIri(label, r)]
             facts == [r \in content.v_guard_alert |-> AlertFacts(r, assets)]
  <2>1. Listed(T, "GuardAlert", alerts, name, facts)
    BY AlertList
  <2>2. \A r \in alerts : /\ Of(T, name[r], "guardTicker") = Known(r.ticker)
                          /\ Of(T, name[r], "guardAsset") = {r.ticker} \cap assets
    BY AlertRead
  <2> HIDE DEF name, facts, alerts
  <2>3. QED
    BY <2>1, <2>2, UnguardedFew
<1>6. Cardinality(Unlinked(T, "GuardAction", "guardTicker", "guardAsset"))
        <= Cardinality(UnlinkedRows(guarded, assets))
  <2> DEFINE name == [r \in content.v_guard_action |-> ActionIri(label, content, r)]
             facts == [r \in content.v_guard_action |-> ActionFacts(label, content, r, assets)]
  <2>1. Listed(T, "GuardAction", actions, name, facts)
    BY ActionList
  <2>2. \A r \in actions : /\ Of(T, name[r], "guardTicker") = Known(r.ticker)
                           /\ Of(T, name[r], "guardAsset") = {r.ticker} \cap assets
    BY ActionRead
  <2> HIDE DEF name, facts, actions
  <2>3. QED
    BY <2>1, <2>2, UnguardedFew
<1> HIDE DEF graph
<1>7. DOMAIN checks = {"holding", "guard", "unlinked"}
  BY DEF LinkChecks
<1>8. checks.holding /\ checks.guard
  BY <1>1, <1>2, <1>3 DEF LinkChecks
<1>9. checks.unlinked
  BY <1>1, <1>4, <1>5, <1>6 DEF LinkChecks
<1> HIDE DEF checks
<1>10. Failed(checks) = {}
  BY <1>7, <1>8, <1>9 DEF Failed
<1>11. QED
  BY <1>10 DEF checks, graph

-----------------------------------------------------------------------------
(* The stored alerts and actions fall into the groups of the rows.             *)
LEMMA AlertsGroup ==
  ASSUME NEW T, NEW label, NEW content, NEW assets, NEW b, Shows(T, label, content, assets, b)
  PROVE  StoredAlerts(T) = SourceAlerts(content, b.run)
<1> DEFINE rows == RunRows(content.v_guard_alert, b.run)
           name == [r \in content.v_guard_alert |-> AlertIri(label, r)]
           facts == [r \in content.v_guard_alert |-> AlertFacts(r, assets)]
           stored == [a \in Typed(T, "GuardAlert") |->
                        <<The(T, a, "alertRule")[2], The(T, a, "guardLayer"), The(T, a, "alertState")>>]
           source == [a \in rows |-> <<a.rule, a.layer, a.state>>]
<1>1. Listed(T, "GuardAlert", rows, name, facts)
  BY AlertList
<1>2. \A r \in rows : /\ name[r] = AlertIri(label, r) /\ AlertIri(label, r) \in Typed(T, "GuardAlert")
                      /\ The(T, AlertIri(label, r), "alertRule") = RuleIri(r)
                      /\ The(T, AlertIri(label, r), "guardLayer") = r.layer
                      /\ The(T, AlertIri(label, r), "alertState") = r.state
  BY AlertRead DEF Gives
<1>3. \A r \in rows : stored[name[r]] = source[r]
  BY <1>2 DEF RuleIri
<1>4. DOMAIN stored = Typed(T, "GuardAlert") /\ DOMAIN source = rows
  OBVIOUS
<1> HIDE DEF stored, source, rows, name, facts
<1>5. Counts(stored) = Counts(source)
  BY <1>1, <1>3, <1>4, CountsAgree
<1>6. QED
  BY <1>5 DEF stored, source, rows, StoredAlerts, SourceAlerts

(* The same for the actions by status.                                        *)
LEMMA StatusesGroup ==
  ASSUME NEW T, NEW label, NEW content, NEW assets, NEW b, Shows(T, label, content, assets, b)
  PROVE  StoredStatuses(T) = SourceStatuses(content, b.run)
<1> DEFINE rows == RunRows(content.v_guard_action, b.run)
           name == [r \in content.v_guard_action |-> ActionIri(label, content, r)]
           facts == [r \in content.v_guard_action |-> ActionFacts(label, content, r, assets)]
           stored == [a \in Typed(T, "GuardAction") |-> The(T, a, "status")]
           source == [a \in rows |-> a.status]
<1>1. Listed(T, "GuardAction", rows, name, facts)
  BY ActionList
<1>2. \A r \in rows : /\ name[r] = ActionIri(label, content, r)
                      /\ ActionIri(label, content, r) \in Typed(T, "GuardAction")
                      /\ The(T, ActionIri(label, content, r), "status") = r.status
  BY ActionRead DEF Gives
<1>3. \A r \in rows : stored[name[r]] = source[r]
  BY <1>2
<1>4. DOMAIN stored = Typed(T, "GuardAction") /\ DOMAIN source = rows
  OBVIOUS
<1> HIDE DEF stored, source, rows, name, facts
<1>5. Counts(stored) = Counts(source)
  BY <1>1, <1>3, <1>4, CountsAgree
<1>6. QED
  BY <1>5 DEF stored, source, rows, StoredStatuses, SourceStatuses

(* Of a period summary the store and the rows count the same actions: the rows *)
(* of one book are of one arm.                                                 *)
LEMMA ActedAgree ==
  ASSUME NEW T, NEW label, NEW content, NEW assets, NEW b, Shows(T, label, content, assets, b)
  PROVE  StoredActed(T) = SourceActed(content, b.run)
<1> DEFINE actions == RunRows(content.v_guard_action, b.run)
           summaries == RunRows(content.v_portfolio_period_summary, b.run)
           iri(s) == SummaryIri(label, content, s)
           Inside(s) == {a \in actions : a.book = s.book /\ a.status = "APPLIED"
                                         /\ s.from <= a.decision /\ a.decision <= s.to}
           Counted(s) == {a \in Typed(T, "GuardAction") :
                           /\ The(T, a, "bookId") = The(T, s, "bookId")
                           /\ The(T, a, "armCode") = The(T, s, "armCode")
                           /\ The(T, a, "status") = "APPLIED"
                           /\ The(T, s, "dateFrom") <= The(T, a, "decisionDate")
                           /\ The(T, a, "decisionDate") <= The(T, s, "dateTo")}
<1>1. \A s \in summaries : SameBook(content, s) /\ s \in content.v_portfolio_period_summary
  BY DEF RunRows, Shows, BacktestRefused, ChildrenRefused, SameWindow
<1>2. \A s \in summaries : TheBook(content, s).arm = s.arm
  BY <1>1, RowBelow DEF Shows
<1>3. \A a \in actions, s \in summaries : a.book = s.book => TheBook(content, a) = TheBook(content, s)
  BY DEF TheBook
<1>4. Typed(T, "PortfolioPeriodSummary") = {iri(s) : s \in summaries}
  BY SummaryRead
<1>5. \A s \in summaries :
        /\ The(T, iri(s), "bookId") = s.book /\ The(T, iri(s), "armCode") = TheBook(content, s).arm
        /\ The(T, iri(s), "segment") = s.segment /\ The(T, iri(s), "dateFrom") = s.from
        /\ The(T, iri(s), "dateTo") = s.to /\ The(T, iri(s), "nGuardActions") = s.acted
  BY SummaryRead DEF Gives
<1>6. Typed(T, "GuardAction") = {ActionIri(label, content, a) : a \in actions}
  BY ActionRead
<1>7. \A a \in actions :
        /\ The(T, ActionIri(label, content, a), "bookId") = a.book
        /\ The(T, ActionIri(label, content, a), "armCode") = TheBook(content, a).arm
        /\ The(T, ActionIri(label, content, a), "status") = a.status
        /\ The(T, ActionIri(label, content, a), "decisionDate") = a.decision
  BY ActionRead DEF Gives
<1>8. ASSUME NEW s \in summaries PROVE Cardinality(Counted(iri(s))) = Cardinality(Inside(s))
  <2> DEFINE name == [r \in content.v_guard_action |-> ActionIri(label, content, r)]
             facts == [r \in content.v_guard_action |-> ActionFacts(label, content, r, assets)]
             found == Counted(iri(s))
             part == Inside(s)
  <2>1. Listed(T, "GuardAction", actions, name, facts)
    BY ActionList
  <2>2. \A a \in actions : name[a] = ActionIri(label, content, a)
    BY DEF RunRows
  <2> HIDE DEF actions, summaries, iri, name, facts
  <2>3. \A a \in actions : ActionIri(label, content, a) \in found <=> a \in part
    BY <1>3, <1>5, <1>6, <1>7
  <2>4. found \subseteq Typed(T, "GuardAction") /\ part \in SUBSET actions
    OBVIOUS
  <2> HIDE DEF found, part
  <2>5. \A x : x \in found <=> \E a \in part : x = name[a]
    BY <1>6, <2>2, <2>3, <2>4
  <2>6. Cardinality(found) = Cardinality(part)
    BY <2>1, <2>4, <2>5, PartSize
  <2>7. QED
    BY <2>6 DEF found, part
<1> DEFINE N(s) == Cardinality(Inside(s))
           M(s) == Cardinality(Counted(s))
<1>9. SourceActed(content, b.run) = {<<s.book, s.arm, s.segment, s.acted, N(s)>> : s \in summaries}
  BY DEF SourceActed
<1>10. StoredActed(T) = {<<The(T, s, "bookId"), The(T, s, "armCode"), The(T, s, "segment"),
                           The(T, s, "nGuardActions"), M(s)>> : s \in Typed(T, "PortfolioPeriodSummary")}
  BY DEF StoredActed
<1>11. \A s \in summaries : M(iri(s)) = N(s)
  BY <1>8
<1> HIDE DEF N, M, iri, summaries, actions
<1>12. QED
  BY <1>2, <1>4, <1>5, <1>9, <1>10, <1>11

(* No threshold of a basing-point rule is published.                           *)
LEMMA ThresholdsKept ==
  ASSUME NEW T, NEW label, NEW content, NEW assets, NEW b, Shows(T, label, content, assets, b)
  PROVE  LET published == {a \in Typed(T, "GuardAlert") : The(T, a, "alertRule")[2] \in BasingPoints}
             part == {a \in RunRows(content.v_guard_alert, b.run) : a.rule \in BasingPoints}
         IN  /\ Cardinality(published) = Cardinality(part)
             /\ \A a \in published : Of(T, a, "alertThreshold") = {}
<1> DEFINE rows == RunRows(content.v_guard_alert, b.run)
           name == [r \in content.v_guard_alert |-> AlertIri(label, r)]
           facts == [r \in content.v_guard_alert |-> AlertFacts(r, assets)]
           published == {a \in Typed(T, "GuardAlert") : The(T, a, "alertRule")[2] \in BasingPoints}
           part == {a \in rows : a.rule \in BasingPoints}
<1>1. Listed(T, "GuardAlert", rows, name, facts)
  BY AlertList
<1>2. Typed(T, "GuardAlert") = {AlertIri(label, r) : r \in rows}
  BY AlertRead
<1>3. \A r \in rows : /\ name[r] = AlertIri(label, r)
                      /\ The(T, AlertIri(label, r), "alertRule")[2] = r.rule
                      /\ Of(T, AlertIri(label, r), "alertThreshold") = Published(r)
  BY AlertRead DEF Gives, RuleIri
<1> HIDE DEF rows, name, facts
<1>4. \A r \in rows : AlertIri(label, r) \in published <=> r \in part
  BY <1>2, <1>3
<1>5. published \subseteq Typed(T, "GuardAlert") /\ part \in SUBSET rows
  OBVIOUS
<1>6. \A r \in part : Published(r) = {}
  BY DEF Published
<1> HIDE DEF published, part
<1>7. \A x : x \in published <=> \E a \in part : x = name[a]
  BY <1>2, <1>3, <1>4, <1>5
<1>8. Cardinality(published) = Cardinality(part)
  BY <1>1, <1>5, <1>7, PartSize
<1>9. \A a \in published : Of(T, a, "alertThreshold") = {}
  BY <1>3, <1>5, <1>6, <1>7
<1>10. QED
  BY <1>8, <1>9 DEF published, part, rows

(* Only a period summary that disagrees with its actions can fail.             *)
LEMMA GuardHolds ==
  ASSUME NEW T, NEW label, NEW content, NEW assets, NEW b, Shows(T, label, content, assets, b)
  PROVE  Failed(GuardChecks(GraphName(label, b.window, b.run), content, T)) \subseteq ActedFaults(content, b.run)
<1> DEFINE graph == GraphName(label, b.window, b.run)
           checks == GuardChecks(graph, content, T)
<1>1. graph[4] = b.run
  BY DEF GraphName
<1> HIDE DEF graph
<1>2. DOMAIN checks = {"alerts", "statuses", "acted", "published"}
  BY DEF GuardChecks
<1>3. checks.alerts /\ checks.statuses
  BY <1>1, AlertsGroup, StatusesGroup DEF GuardChecks
<1>4. checks.published
  BY <1>1, ThresholdsKept DEF GuardChecks
<1>5. Consistent(SourceActed(content, b.run)) => checks.acted
  BY <1>1, ActedAgree DEF GuardChecks
<1> HIDE DEF checks
<1>6. Failed(checks) \subseteq ActedFaults(content, b.run)
  BY <1>2, <1>3, <1>4, <1>5 DEF Failed, ActedFaults
<1>7. QED
  BY <1>6 DEF checks, graph

-----------------------------------------------------------------------------
(* The last net asset values, and the weights held in cash.                    *)
LEMMA NavAgree ==
  ASSUME NEW T, NEW label, NEW content, NEW assets, NEW b, Shows(T, label, content, assets, b)
  PROVE  StoredNav(T) = SourceNav(content, b.run)
<1> DEFINE rows == RunRows(content.v_book_daily_performance, b.run)
           stored == {<<The(T, p, "armCode"), The(T, p, "performanceDate"), The(T, p, "nav")>> :
                        p \in Typed(T, "BookDailyPerformance")}
           source == {<<p.arm, p.date, p.nav>> : p \in rows}
<1>1. \A r \in rows : SameBook(content, r)
  BY DEF RunRows, Shows, BacktestRefused, ChildrenRefused, SameWindow
<1>2. \A r \in rows : TheBook(content, r).arm = r.arm
  BY <1>1, RowBelow DEF Shows
<1>3. Typed(T, "BookDailyPerformance") = {PerformanceIri(label, content, r) : r \in rows}
  BY PerformanceRead
<1>4. \A r \in rows :
        /\ The(T, PerformanceIri(label, content, r), "armCode") = TheBook(content, r).arm
        /\ The(T, PerformanceIri(label, content, r), "performanceDate") = r.date
        /\ The(T, PerformanceIri(label, content, r), "nav") = r.nav
  BY PerformanceRead DEF Gives
<1> HIDE DEF rows
<1>5. stored = source
  BY <1>2, <1>3, <1>4
<1>6. QED
  BY <1>5 DEF StoredNav, SourceNav, rows

(* As many weights held in cash as rows.                                      *)
LEMMA CashAgree ==
  ASSUME NEW T, NEW label, NEW content, NEW assets, NEW b, Shows(T, label, content, assets, b)
  PROVE  Cardinality({s \in Typed(T, "BookWeightDaily") : Of(T, s, "holdingKey") = {Cash}})
           = Cardinality({w \in RunRows(content.v_book_weight_daily, b.run) : w.holding = Cash})
<1> DEFINE rows == RunRows(content.v_book_weight_daily, b.run)
           name == [r \in content.v_book_weight_daily |-> WeightIri(label, content, r)]
           facts == [r \in content.v_book_weight_daily |-> WeightFacts(label, content, r, assets)]
           found == {s \in Typed(T, "BookWeightDaily") : Of(T, s, "holdingKey") = {Cash}}
           part == {w \in rows : w.holding = Cash}
<1>1. Listed(T, "BookWeightDaily", rows, name, facts)
  BY WeightList
<1>2. Typed(T, "BookWeightDaily") = {WeightIri(label, content, r) : r \in rows}
  BY WeightRead
<1>3. \A r \in rows : /\ name[r] = WeightIri(label, content, r)
                      /\ Of(T, WeightIri(label, content, r), "holdingKey") = {r.holding}
  BY WeightRead DEF Gives
<1> HIDE DEF rows, name, facts
<1>4. \A r \in rows : WeightIri(label, content, r) \in found <=> r \in part
  BY <1>2, <1>3
<1>5. found \subseteq Typed(T, "BookWeightDaily") /\ part \in SUBSET rows
  OBVIOUS
<1> HIDE DEF found, part
<1>6. \A x : x \in found <=> \E r \in part : x = name[r]
  BY <1>2, <1>3, <1>4, <1>5
<1>7. Cardinality(found) = Cardinality(part)
  BY <1>1, <1>5, <1>6, PartSize
<1>8. QED
  BY <1>7 DEF found, part, rows

(* Every individual but an alert has a label, its own or its book's.           *)
LEMMA AllLabelled ==
  ASSUME NEW T, NEW label, NEW content, NEW assets, NEW b, Shows(T, label, content, assets, b)
  PROVE  \A v \in BacktestViews \ {"v_guard_alert"} : \A s \in Typed(T, ClassOf[v]) : Labelled(T, s)
<1> DEFINE Fine(class) == \A s \in Typed(T, class) : Labelled(T, s)
<1>1. \A c \in RunRows(content.v_book, b.run) : Of(T, BookIri(label, c), "runLabel") = {label}
  BY BookRead DEF Gives
<1>2. ASSUME NEW r, SameBook(content, r), r.run = b.run
      PROVE  Of(T, BookIri(label, TheBook(content, r)), "runLabel") # {}
  <2>1. TheBook(content, r) \in RunRows(content.v_book, b.run)
    BY <1>2, RowBelow DEF Shows, RunRows
  <2>2. QED
    BY <1>1, <2>1
<1>3. \A r \in content.v_book_rebalance \cup content.v_guard_action \cup content.v_book_weight_daily
             \cup content.v_book_daily_performance \cup content.v_portfolio_period_summary :
        SameBook(content, r)
  BY DEF Shows, BacktestRefused, ChildrenRefused, SameWindow
<1>4. ASSUME NEW s, NEW r, NEW p \in PublishedByBook, SameBook(content, r), r.run = b.run,
             Of(T, s, p) = {BookIri(label, TheBook(content, r))}
      PROVE  Labelled(T, s)
  BY <1>2, <1>4 DEF Labelled
<1>5. Fine("StrategyBook")
  BY BookRead DEF Gives, Labelled
<1>6. Fine("BacktestTest")
  BY TestRead DEF Gives, Labelled
<1>7. Fine("BookRebalance")
  <2>1. \A s \in Typed(T, "BookRebalance") : \E r \in content.v_book_rebalance :
          r.run = b.run /\ Of(T, s, "rebalanceOfBook") = {BookIri(label, TheBook(content, r))}
    BY RebalanceRead DEF Gives
  <2>2. QED
    BY <1>3, <1>4, <2>1 DEF PublishedByBook
<1>8. Fine("GuardAction")
  <2>1. \A s \in Typed(T, "GuardAction") : \E r \in content.v_guard_action :
          r.run = b.run /\ Of(T, s, "actionOfBook") = {BookIri(label, TheBook(content, r))}
    BY ActionRead DEF Gives
  <2>2. QED
    BY <1>3, <1>4, <2>1 DEF PublishedByBook
<1>9. Fine("BookWeightDaily")
  <2>1. \A s \in Typed(T, "BookWeightDaily") : \E r \in content.v_book_weight_daily :
          r.run = b.run /\ Of(T, s, "weightOfBook") = {BookIri(label, TheBook(content, r))}
    BY WeightRead DEF Gives
  <2>2. QED
    BY <1>3, <1>4, <2>1 DEF PublishedByBook
<1>10. Fine("BookDailyPerformance")
  <2>1. \A s \in Typed(T, "BookDailyPerformance") : \E r \in content.v_book_daily_performance :
          r.run = b.run /\ Of(T, s, "performanceOfBook") = {BookIri(label, TheBook(content, r))}
    BY PerformanceRead DEF Gives
  <2>2. QED
    BY <1>3, <1>4, <2>1 DEF PublishedByBook
<1>11. Fine("PortfolioPeriodSummary")
  <2>1. \A s \in Typed(T, "PortfolioPeriodSummary") : \E r \in content.v_portfolio_period_summary :
          r.run = b.run /\ Of(T, s, "summaryOfBook") = {BookIri(label, TheBook(content, r))}
    BY SummaryRead DEF Gives
  <2>2. QED
    BY <1>3, <1>4, <2>1 DEF PublishedByBook
<1> HIDE DEF Fine
<1>12. \A v \in BacktestViews \ {"v_guard_alert"} : Fine(ClassOf[v])
  BY <1>5, <1>6, <1>7, <1>8, <1>9, <1>10, <1>11 DEF BacktestViews, ClassOf
<1>13. QED
  BY <1>12 DEF Fine

(* Every individual says when it was known.                                    *)
LEMMA AllDated ==
  ASSUME NEW T, NEW label, NEW content, NEW assets, NEW b, Shows(T, label, content, assets, b)
  PROVE  \A v \in BacktestViews : \A s \in Typed(T, ClassOf[v]) : Of(T, s, "knowledgeDate") # {}
<1> DEFINE Fine(class) == \A s \in Typed(T, class) : Of(T, s, "knowledgeDate") # {}
<1>1. Fine("StrategyBook") /\ Fine("GuardAlert")
  BY BookRead, AlertRead DEF Gives
<1>2. Fine("BookRebalance")
  BY RebalanceRead DEF Gives
<1>7. Fine("GuardAction")
  BY ActionRead DEF Gives
<1>3. Fine("BookWeightDaily") /\ Fine("BookDailyPerformance")
  BY WeightRead, PerformanceRead DEF Gives
<1>4. Fine("PortfolioPeriodSummary") /\ Fine("BacktestTest")
  BY SummaryRead, TestRead DEF Gives
<1> HIDE DEF Fine
<1>5. \A v \in BacktestViews : Fine(ClassOf[v])
  BY <1>1, <1>2, <1>7, <1>3, <1>4 DEF BacktestViews, ClassOf
<1>6. QED
  BY <1>5 DEF Fine

(* The checks of the books and their weights.                                 *)
LEMMA BookHolds ==
  ASSUME NEW T, NEW label, NEW content, NEW assets, NEW b, Shows(T, label, content, assets, b)
  PROVE  Failed(BookChecks(GraphName(label, b.window, b.run), content, T)) = {}
<1> DEFINE graph == GraphName(label, b.window, b.run)
           checks == BookChecks(graph, content, T)
<1>1. graph[4] = b.run
  BY DEF GraphName
<1> HIDE DEF graph
<1>2. DOMAIN checks = {"nav", "cash", "labelled", "dated"}
  BY DEF BookChecks
<1>3. checks.nav
  BY <1>1, NavAgree DEF BookChecks
<1>8. checks.cash
  <2> DEFINE stored == Cardinality({s \in Typed(T, "BookWeightDaily") : Of(T, s, "holdingKey") = {Cash}})
             source == Cardinality({w \in RunRows(content.v_book_weight_daily, b.run) : w.holding = Cash})
  <2>1. stored = source
    BY CashAgree
  <2>2. checks.cash = (stored = source)
    BY <1>1 DEF BookChecks
  <2> HIDE DEF stored, source, checks
  <2>3. QED
    BY <2>1, <2>2
<1>4. checks.labelled
  BY AllLabelled DEF BookChecks
<1>5. checks.dated
  BY AllDated DEF BookChecks
<1> HIDE DEF checks
<1>6. Failed(checks) = {}
  BY <1>2, <1>3, <1>8, <1>4, <1>5 DEF Failed
<1>7. QED
  BY <1>6 DEF checks, graph

(* The verifier passes what the projection makes of a run, whatever the        *)
(* database, but for a period summary that disagrees with its actions.         *)
LEMMA BacktestVerifies ==
  ASSUME NEW T, NEW label, NEW content, NEW assets, NEW b, Shows(T, label, content, assets, b)
  PROVE  BacktestFailures(label, GraphName(label, b.window, b.run), content, assets, T)
           \subseteq ActedFaults(content, b.run)
<1> DEFINE graph == GraphName(label, b.window, b.run)
<1>1. Failed(IdentityChecks(label, graph, content, assets, T)) = {}
  BY IdentityHolds
<1>2. Failed(CountChecks(label, graph, content, assets, T)) = {}
  BY CountsHold
<1>3. Failed(LinkChecks(graph, content, assets, T)) = {}
  BY LinkHolds
<1>4. Failed(GuardChecks(graph, content, T)) \subseteq ActedFaults(content, b.run)
  BY GuardHolds
<1>5. Failed(BookChecks(graph, content, T)) = {}
  BY BookHolds
<1>6. QED
  BY <1>1, <1>2, <1>3, <1>4, <1>5 DEF BacktestFailures

-----------------------------------------------------------------------------
(* What the rows of the six cycle views tell.                                  *)
Found(content, r, assets) == ResolveAsset(r.ticker, TickerCik(content.v_ticker_history, r.ticker), assets)
Ruled(c, r) == {d.iri : d \in InForce(r.rule, c.day)}
AsOf(content, r) == {k.as_of : k \in {k \in content.v_cycle_run : k.cycle = r.cycle}}
CycleFacts(c, r) ==
  [cycleRunId |-> {r.cycle}, status |-> {r.status}, runLabel |-> {c.label},
   windowId |-> {c.window}, backtestRunId |-> {c.run}]
SchemeFacts(r) == [cycleRunId |-> {r.cycle}]
ConfiguredFacts(r) == [weightMetricName |-> {r.score}, weightValue |-> {r.weight}]
RankingFacts(c, content, r, assets) ==
  [rankingTicker |-> {r.ticker}, rankingOfCycle |-> {CycleIri(c, r.cycle)},
   computedWithScheme |-> {SchemeIri(c, r.cycle)}, runLabel |-> {c.label},
   windowId |-> {c.window}, backtestRunId |-> {c.run}, vetoRulesJson |-> Known(r.rules),
   attractivenessOfAsset |-> Found(content, r, assets)]
EffectiveFacts(r) == [weightMetricName |-> {r.score}]
VetoFacts(c, content, r, assets) ==
  [vetoTicker |-> {r.ticker}, cycleRun |-> {r.cycle}, appliesRule |-> Ruled(c, r),
   primaryRule |-> Ruled(c, r), runAsOf |-> AsOf(content, r), runLabel |-> {c.label},
   windowId |-> {c.window}, backtestRunId |-> {c.run}, vetoOfAsset |-> Found(content, r, assets)]

(* A cycle tells what its columns say.                                       *)
LEMMA CycleTells ==
  ASSUME NEW c, NEW r
  PROVE  Tells(Cycle(c, r), c.graph, CycleIri(c, r.cycle), "SelectionCycle", CycleFacts(c, r))
<1> DEFINE facts == CycleFacts(c, r)
           iri == CycleIri(c, r.cycle)
           all == {<<"cycleRunId", r.cycle>>, <<"status", r.status>>} \cup RunFacts(c)
<1>1. \A p \in DOMAIN facts : \A v \in facts[p] : <<p, v>> \in all
  BY DEF RunFacts, CycleFacts
<1>2. \A q \in all : q = <<q[1], q[2]>> /\ q[1] \in DOMAIN facts /\ q[2] \in facts[q[1]]
  BY DEF RunFacts, CycleFacts
<1>3. DOMAIN facts \cap (Upward \cup {"a"}) = {}
  BY DEF CycleFacts, Upward
<1>4. Amounts(all, facts)
  BY <1>1, <1>2, <1>3 DEF Amounts
<1> HIDE DEF all, facts, iri
<1>5. Tells(Individual(c.graph, iri, "SelectionCycle", all), c.graph, iri, "SelectionCycle", facts)
  BY <1>4, NodeTells
<1>6. QED
  BY <1>5 DEF all, facts, iri, Cycle

(* A weight scheme tells what its columns say.                               *)
LEMMA SchemeTells ==
  ASSUME NEW c, NEW r
  PROVE  Tells(Scheme(c, r),
               c.graph, SchemeIri(c, r.cycle), "AttractivenessWeightScheme", SchemeFacts(r))
<1> DEFINE facts == SchemeFacts(r)
           iri == SchemeIri(c, r.cycle)
           all == {<<"cycleRunId", r.cycle>>}
<1>1. \A p \in DOMAIN facts : \A v \in facts[p] : <<p, v>> \in all
  BY DEF SchemeFacts
<1>2. \A q \in all : q = <<q[1], q[2]>> /\ q[1] \in DOMAIN facts /\ q[2] \in facts[q[1]]
  BY DEF SchemeFacts
<1>3. DOMAIN facts \cap (Upward \cup {"a"}) = {}
  BY DEF SchemeFacts, Upward
<1>4. Amounts(all, facts)
  BY <1>1, <1>2, <1>3 DEF Amounts
<1> HIDE DEF all, facts, iri
<1>5. Tells(Individual(c.graph, iri, "AttractivenessWeightScheme", all),
          c.graph, iri, "AttractivenessWeightScheme", facts)
  BY <1>4, NodeTells
<1>6. QED
  BY <1>5 DEF all, facts, iri, Scheme

(* A configured weight tells what its columns say.                           *)
LEMMA ConfiguredTells ==
  ASSUME NEW c, NEW r
  PROVE  Tells(Configured(c, r),
               c.graph, ConfiguredIri(c, r), "WeightComponent", ConfiguredFacts(r))
<1> DEFINE facts == ConfiguredFacts(r)
           iri == ConfiguredIri(c, r)
           all == {<<"weightMetricName", r.score>>, <<"weightValue", r.weight>>}
           more == {<<SchemeIri(c, r.cycle), "hasWeightComponent", ConfiguredIri(c, r)>>}
<1>1. \A p \in DOMAIN facts : \A v \in facts[p] : <<p, v>> \in all
  BY DEF ConfiguredFacts
<1>2. \A q \in all : q = <<q[1], q[2]>> /\ q[1] \in DOMAIN facts /\ q[2] \in facts[q[1]]
  BY DEF ConfiguredFacts
<1>3. DOMAIN facts \cap (Upward \cup {"a"}) = {}
  BY DEF ConfiguredFacts, Upward
<1>4. Amounts(all, facts)
  BY <1>1, <1>2, <1>3 DEF Amounts
<1>5. \A t \in more : t[2] \in Upward
  BY DEF Upward
<1> HIDE DEF all, facts, iri, more
<1> DEFINE node == Individual(c.graph, iri, "WeightComponent", all)
<1>6. Tells(node, c.graph, iri, "WeightComponent", facts)
  BY <1>4, NodeTells
<1>7. node = [graph |-> node.graph, iri |-> node.iri, class |-> node.class, triples |-> node.triples]
  BY RecordForm
<1> HIDE DEF node
<1>8. Tells(With(node, more), c.graph, iri, "WeightComponent", facts)
  BY <1>5, <1>6, <1>7, MoreTells
<1>9. QED
  BY <1>8 DEF node, all, facts, iri, more, Configured

(* A ranking tells what its columns say.                                     *)
LEMMA RankingTells ==
  ASSUME NEW c, NEW content, NEW r, NEW assets
  PROVE  Tells(Ranking(c, content, r, assets),
               c.graph, SnapIri(c, r), "AttractivenessSnapshot", RankingFacts(c, content, r, assets))
<1> DEFINE facts == RankingFacts(c, content, r, assets)
           iri == SnapIri(c, r)
           all == {<<"rankingTicker", r.ticker>>, <<"rankingOfCycle", CycleIri(c, r.cycle)>>,
              <<"computedWithScheme", SchemeIri(c, r.cycle)>>}
             \cup RunFacts(c) \cup Optional("vetoRulesJson", r.rules)
             \cup SelectionLink("attractivenessOfAsset", content, r.ticker, assets)
<1>1. \A p \in DOMAIN facts : \A v \in facts[p] : <<p, v>> \in all
  BY DEF RunFacts, Known, Optional, SelectionLink, Found, RankingFacts
<1>2. \A q \in all : q = <<q[1], q[2]>> /\ q[1] \in DOMAIN facts /\ q[2] \in facts[q[1]]
  BY DEF RunFacts, Known, Optional, SelectionLink, Found, RankingFacts
<1>3. DOMAIN facts \cap (Upward \cup {"a"}) = {}
  BY DEF RankingFacts, Upward
<1>4. Amounts(all, facts)
  BY <1>1, <1>2, <1>3 DEF Amounts
<1> HIDE DEF all, facts, iri
<1>5. Tells(Individual(c.graph, iri, "AttractivenessSnapshot", all),
          c.graph, iri, "AttractivenessSnapshot", facts)
  BY <1>4, NodeTells
<1>6. QED
  BY <1>5 DEF all, facts, iri, Ranking

(* An effective weight tells what its columns say.                           *)
LEMMA EffectiveTells ==
  ASSUME NEW c, NEW r
  PROVE  Tells(Effective(c, r), c.graph, EffectiveIri(c, r), "WeightComponent", EffectiveFacts(r))
<1> DEFINE facts == EffectiveFacts(r)
           iri == EffectiveIri(c, r)
           all == {<<"weightMetricName", r.score>>}
           more == {<<SnapIri(c, r), "hasEffectiveWeight", EffectiveIri(c, r)>>}
<1>1. \A p \in DOMAIN facts : \A v \in facts[p] : <<p, v>> \in all
  BY DEF EffectiveFacts
<1>2. \A q \in all : q = <<q[1], q[2]>> /\ q[1] \in DOMAIN facts /\ q[2] \in facts[q[1]]
  BY DEF EffectiveFacts
<1>3. DOMAIN facts \cap (Upward \cup {"a"}) = {}
  BY DEF EffectiveFacts, Upward
<1>4. Amounts(all, facts)
  BY <1>1, <1>2, <1>3 DEF Amounts
<1>5. \A t \in more : t[2] \in Upward
  BY DEF Upward
<1> HIDE DEF all, facts, iri, more
<1> DEFINE node == Individual(c.graph, iri, "WeightComponent", all)
<1>6. Tells(node, c.graph, iri, "WeightComponent", facts)
  BY <1>4, NodeTells
<1>7. node = [graph |-> node.graph, iri |-> node.iri, class |-> node.class, triples |-> node.triples]
  BY RecordForm
<1> HIDE DEF node
<1>8. Tells(With(node, more), c.graph, iri, "WeightComponent", facts)
  BY <1>5, <1>6, <1>7, MoreTells
<1>9. QED
  BY <1>8 DEF node, all, facts, iri, more, Effective

(* A veto tells what its columns say.                                        *)
LEMMA VetoTells ==
  ASSUME NEW c, NEW content, NEW r, NEW assets
  PROVE  Tells(Veto(c, content, r, assets),
               c.graph, VetoIri(c, r), "Veto", VetoFacts(c, content, r, assets))
<1> DEFINE facts == VetoFacts(c, content, r, assets)
           iri == VetoIri(c, r)
           all == {<<"vetoTicker", r.ticker>>, <<"cycleRun", r.cycle>>}
             \cup {<<"appliesRule", d.iri>> : d \in InForce(r.rule, c.day)}
             \cup {<<"primaryRule", d.iri>> : d \in InForce(r.rule, c.day)}
             \cup {<<"runAsOf", k.as_of>> : k \in {k \in content.v_cycle_run : k.cycle = r.cycle}}
             \cup RunFacts(c)
             \cup SelectionLink("vetoOfAsset", content, r.ticker, assets)
<1>1. \A p \in DOMAIN facts : \A v \in facts[p] : <<p, v>> \in all
  BY DEF RunFacts, SelectionLink, Found, Ruled, AsOf, VetoFacts
<1>2. \A q \in all : q = <<q[1], q[2]>> /\ q[1] \in DOMAIN facts /\ q[2] \in facts[q[1]]
  BY DEF RunFacts, SelectionLink, Found, Ruled, AsOf, VetoFacts
<1>3. DOMAIN facts \cap (Upward \cup {"a"}) = {}
  BY DEF VetoFacts, Upward
<1>4. Amounts(all, facts)
  BY <1>1, <1>2, <1>3 DEF Amounts
<1> HIDE DEF all, facts, iri
<1>5. Tells(Individual(c.graph, iri, "Veto", all), c.graph, iri, "Veto", facts)
  BY <1>4, NodeTells
<1>6. QED
  BY <1>5 DEF all, facts, iri, Veto

-----------------------------------------------------------------------------
(* The class of a selection individual says which view it is from.             *)
LEMMA SelectionClasses ==
  ASSUME NEW label, NEW content, NEW assets, NEW c, c = Context(label, content),
         NEW i \in SelectionIndividuals(label, content, assets)
  PROVE  /\ Plain(i) /\ i.graph = c.graph
         /\ i.class = "SelectionCycle" => \E r \in content.v_cycle_run : i = Cycle(c, r)
         /\ i.class = "AttractivenessWeightScheme"
              => \E r \in content.v_weight_scheme : i = Scheme(c, r)
         /\ i.class = "AttractivenessSnapshot" =>
              \E r \in Projected(content) : i = Ranking(c, content, r, assets)
         /\ i.class = "Veto" => \E r \in content.v_veto : i = Veto(c, content, r, assets)
<1>1. ASSUME NEW r \in content.v_cycle_run, i = Cycle(c, r)
      PROVE  Plain(i) /\ i.class = "SelectionCycle" /\ i.graph = c.graph
  BY <1>1, CycleTells, TellsPlain, OwnGraph
<1>2. ASSUME NEW r \in content.v_weight_scheme, i = Scheme(c, r)
      PROVE  Plain(i) /\ i.class = "AttractivenessWeightScheme" /\ i.graph = c.graph
  BY <1>2, SchemeTells, TellsPlain, OwnGraph
<1>3. ASSUME NEW r \in content.v_weight_component, i = Configured(c, r)
      PROVE  Plain(i) /\ i.class = "WeightComponent" /\ i.graph = c.graph
  BY <1>3, ConfiguredTells, TellsPlain, OwnGraph
<1>4. ASSUME NEW r \in Projected(content), i = Ranking(c, content, r, assets)
      PROVE  Plain(i) /\ i.class = "AttractivenessSnapshot" /\ i.graph = c.graph
  BY <1>4, RankingTells, TellsPlain, OwnGraph
<1>5. ASSUME NEW r \in Weighed(content), i = Effective(c, r)
      PROVE  Plain(i) /\ i.class = "WeightComponent" /\ i.graph = c.graph
  BY <1>5, EffectiveTells, TellsPlain, OwnGraph
<1>6. ASSUME NEW r \in content.v_veto, i = Veto(c, content, r, assets)
      PROVE  Plain(i) /\ i.class = "Veto" /\ i.graph = c.graph
  BY <1>6, VetoTells, TellsPlain, OwnGraph
<1>7. \/ \E r \in content.v_cycle_run : i = Cycle(c, r)
      \/ \E r \in content.v_weight_scheme : i = Scheme(c, r)
      \/ \E r \in content.v_weight_component : i = Configured(c, r)
      \/ \E r \in Projected(content) : i = Ranking(c, content, r, assets)
      \/ \E r \in Weighed(content) : i = Effective(c, r)
      \/ \E r \in content.v_veto : i = Veto(c, content, r, assets)
  BY DEF SelectionIndividuals
<1>8. QED
  BY <1>1, <1>2, <1>3, <1>4, <1>5, <1>6, <1>7

(* One can read in the graph what the rows of an accepted database told.       *)
LEMMA SelectionLegible ==
  ASSUME NEW label, NEW content, NEW assets, ~SelectionRefused(label, content), IsDatabase(content)
  PROVE  Legible(SelectionIndividuals(label, content, assets))
<1>1. PICK stems, n : Family(SelectionIndividuals(label, content, assets), stems, n)
  BY SelectionFamily
<1>2. QED
  BY <1>1, SelectionClasses DEF Family, Legible

(* T is the selection graph c of an accepted database.                         *)
Ranks(T, label, content, assets, c) ==
  /\ ~SelectionRefused(label, content) /\ IsDatabase(content) /\ c = Context(label, content)
  /\ T = Batch(SelectionIndividuals(label, content, assets), c.graph)

(* The graph lists the rows of four views.                                     *)
LEMMA SelectionLists ==
  ASSUME NEW T, NEW label, NEW content, NEW assets, NEW c, Ranks(T, label, content, assets, c)
  PROVE  /\ Listed(T, "SelectionCycle", content.v_cycle_run,
                   [r \in content.v_cycle_run |-> CycleIri(c, r.cycle)],
                   [r \in content.v_cycle_run |-> CycleFacts(c, r)])
         /\ Listed(T, "AttractivenessWeightScheme", content.v_weight_scheme,
                   [r \in content.v_weight_scheme |-> SchemeIri(c, r.cycle)],
                   [r \in content.v_weight_scheme |-> SchemeFacts(r)])
         /\ Listed(T, "AttractivenessSnapshot", Projected(content),
                   [r \in Projected(content) |-> SnapIri(c, r)],
                   [r \in Projected(content) |-> RankingFacts(c, content, r, assets)])
         /\ Listed(T, "Veto", content.v_veto,
                   [r \in content.v_veto |-> VetoIri(c, r)],
                   [r \in content.v_veto |-> VetoFacts(c, content, r, assets)])
<1> DEFINE inds == SelectionIndividuals(label, content, assets)
           graph == c.graph
<1>1. Legible(inds) /\ c = Context(label, content) /\ T = Batch(inds, graph)
  BY SelectionLegible DEF Ranks
<1>2. IsFiniteSet(Projected(content))
  <2>1. IsFiniteSet(content.v_cycle_ranking) /\ Projected(content) \in SUBSET content.v_cycle_ranking
    BY DEF Ranks, IsDatabase, Views, Projected
  <2>2. QED
    BY <2>1, FS_Subset
<1>3. Listed(T, "SelectionCycle", content.v_cycle_run, [r \in content.v_cycle_run |-> CycleIri(c, r.cycle)],
             [r \in content.v_cycle_run |-> CycleFacts(c, r)])
  <2> DEFINE f == [r \in content.v_cycle_run |-> Cycle(c, r)]
             name == [r \in content.v_cycle_run |-> CycleIri(c, r.cycle)]
             facts == [r \in content.v_cycle_run |-> CycleFacts(c, r)]
             view == content.v_cycle_run
  <2>1. \A r \in view : Tells(f[r], f[r].graph, name[r], "SelectionCycle", facts[r]) /\ f[r].graph = graph
    BY CycleTells, OwnGraph
  <2>2. ~Clash(name)
    BY DEF Ranks, SelectionRefused, SelectionStops, Clash, CycleIri
  <2>3. IsFiniteSet(view) /\ DOMAIN name = view
    BY <1>2 DEF Ranks, IsDatabase, Views
  <2>4. \A r \in view : f[r] \in inds
    BY <1>1 DEF SelectionIndividuals
  <2>5. \A i \in inds : i.class = "SelectionCycle" => \E r \in view : i = f[r]
    BY <1>1, SelectionClasses
  <2> HIDE DEF f, name, facts, view, inds, graph
  <2>6. Presents(view, f, name, "SelectionCycle", facts, inds, graph, view)
    BY <2>1, <2>2, <2>3, <2>4, <2>5 DEF Presents
  <2>7. Listed(T, "SelectionCycle", view, name, facts)
    BY <1>1, <2>6, ReadView
  <2>8. QED
    BY <2>7 DEF name, facts, view
<1>4. Listed(T, "AttractivenessWeightScheme", content.v_weight_scheme, [r \in content.v_weight_scheme |-> SchemeIri(c, r.cycle)],
             [r \in content.v_weight_scheme |-> SchemeFacts(r)])
  <2> DEFINE f == [r \in content.v_weight_scheme |-> Scheme(c, r)]
             name == [r \in content.v_weight_scheme |-> SchemeIri(c, r.cycle)]
             facts == [r \in content.v_weight_scheme |-> SchemeFacts(r)]
             view == content.v_weight_scheme
  <2>1. \A r \in view : Tells(f[r], f[r].graph, name[r], "AttractivenessWeightScheme", facts[r]) /\ f[r].graph = graph
    BY SchemeTells, OwnGraph
  <2>2. ~Clash(name)
    BY DEF Ranks, SelectionRefused, SelectionStops, Clash, SchemeIri
  <2>3. IsFiniteSet(view) /\ DOMAIN name = view
    BY <1>2 DEF Ranks, IsDatabase, Views
  <2>4. \A r \in view : f[r] \in inds
    BY <1>1 DEF SelectionIndividuals
  <2>5. \A i \in inds : i.class = "AttractivenessWeightScheme" => \E r \in view : i = f[r]
    BY <1>1, SelectionClasses
  <2> HIDE DEF f, name, facts, view, inds, graph
  <2>6. Presents(view, f, name, "AttractivenessWeightScheme", facts, inds, graph, view)
    BY <2>1, <2>2, <2>3, <2>4, <2>5 DEF Presents
  <2>7. Listed(T, "AttractivenessWeightScheme", view, name, facts)
    BY <1>1, <2>6, ReadView
  <2>8. QED
    BY <2>7 DEF name, facts, view
<1>5. Listed(T, "AttractivenessSnapshot", Projected(content), [r \in Projected(content) |-> SnapIri(c, r)],
             [r \in Projected(content) |-> RankingFacts(c, content, r, assets)])
  <2> DEFINE f == [r \in Projected(content) |-> Ranking(c, content, r, assets)]
             name == [r \in Projected(content) |-> SnapIri(c, r)]
             facts == [r \in Projected(content) |-> RankingFacts(c, content, r, assets)]
             view == Projected(content)
  <2>1. \A r \in view : Tells(f[r], f[r].graph, name[r], "AttractivenessSnapshot", facts[r]) /\ f[r].graph = graph
    BY RankingTells, OwnGraph
  <2>2. ~Clash(name)
    BY DEF Ranks, SelectionRefused, SelectionStops, Clash, SnapIri, Projected
  <2>3. IsFiniteSet(view) /\ DOMAIN name = view
    BY <1>2 DEF Ranks, IsDatabase, Views
  <2>4. \A r \in view : f[r] \in inds
    BY <1>1 DEF SelectionIndividuals
  <2>5. \A i \in inds : i.class = "AttractivenessSnapshot" => \E r \in view : i = f[r]
    BY <1>1, SelectionClasses
  <2> HIDE DEF f, name, facts, view, inds, graph
  <2>6. Presents(view, f, name, "AttractivenessSnapshot", facts, inds, graph, view)
    BY <2>1, <2>2, <2>3, <2>4, <2>5 DEF Presents
  <2>7. Listed(T, "AttractivenessSnapshot", view, name, facts)
    BY <1>1, <2>6, ReadView
  <2>8. QED
    BY <2>7 DEF name, facts, view
<1>6. Listed(T, "Veto", content.v_veto, [r \in content.v_veto |-> VetoIri(c, r)],
             [r \in content.v_veto |-> VetoFacts(c, content, r, assets)])
  <2> DEFINE f == [r \in content.v_veto |-> Veto(c, content, r, assets)]
             name == [r \in content.v_veto |-> VetoIri(c, r)]
             facts == [r \in content.v_veto |-> VetoFacts(c, content, r, assets)]
             view == content.v_veto
  <2>1. \A r \in view : Tells(f[r], f[r].graph, name[r], "Veto", facts[r]) /\ f[r].graph = graph
    BY VetoTells, OwnGraph
  <2>2. ~Clash(name)
    BY DEF Ranks, SelectionRefused, SelectionStops, Clash, VetoIri
  <2>3. IsFiniteSet(view) /\ DOMAIN name = view
    BY <1>2 DEF Ranks, IsDatabase, Views
  <2>4. \A r \in view : f[r] \in inds
    BY <1>1 DEF SelectionIndividuals
  <2>5. \A i \in inds : i.class = "Veto" => \E r \in view : i = f[r]
    BY <1>1, SelectionClasses
  <2> HIDE DEF f, name, facts, view, inds, graph
  <2>6. Presents(view, f, name, "Veto", facts, inds, graph, view)
    BY <2>1, <2>2, <2>3, <2>4, <2>5 DEF Presents
  <2>7. Listed(T, "Veto", view, name, facts)
    BY <1>1, <2>6, ReadView
  <2>8. QED
    BY <2>7 DEF name, facts, view
<1>7. QED
  BY <1>3, <1>4, <1>5, <1>6

-----------------------------------------------------------------------------
(* What queries find of the cycles.                                            *)
LEMMA CycleRead ==
  ASSUME NEW T, NEW label, NEW content, NEW assets, NEW c, Ranks(T, label, content, assets, c)
  PROVE  /\ Typed(T, "SelectionCycle") = {CycleIri(c, r.cycle) : r \in content.v_cycle_run}
         /\ \A r \in content.v_cycle_run :
              /\ Of(T, CycleIri(c, r.cycle), "cycleRunId") = {r.cycle}
              /\ Of(T, CycleIri(c, r.cycle), "runLabel") = {c.label}
              /\ Of(T, CycleIri(c, r.cycle), "windowId") = {c.window}
              /\ Of(T, CycleIri(c, r.cycle), "backtestRunId") = {c.run}
<1> DEFINE rows == content.v_cycle_run
           name == [r \in rows |-> CycleIri(c, r.cycle)]
           facts == [r \in rows |-> CycleFacts(c, r)]
<1>1. Listed(T, "SelectionCycle", rows, name, facts)
  BY SelectionLists
<1>2. {"cycleRunId", "runLabel", "windowId", "backtestRunId"} \cap (Upward \cup {"a"}) = {}
  BY DEF Upward
<1>3. \A r \in rows : \A p \in {"cycleRunId", "runLabel", "windowId", "backtestRunId"} :
        Of(T, CycleIri(c, r.cycle), p) = Said(CycleFacts(c, r), p)
  BY <1>1, <1>2 DEF Listed
<1>4. ASSUME NEW r \in rows
      PROVE  /\ Of(T, CycleIri(c, r.cycle), "cycleRunId") = {r.cycle}
             /\ Of(T, CycleIri(c, r.cycle), "runLabel") = {c.label}
             /\ Of(T, CycleIri(c, r.cycle), "windowId") = {c.window}
             /\ Of(T, CycleIri(c, r.cycle), "backtestRunId") = {c.run}
  BY <1>3 DEF Said, CycleFacts
<1>5. Typed(T, "SelectionCycle") = {CycleIri(c, r.cycle) : r \in rows}
  BY <1>1 DEF Listed
<1>6. QED
  BY <1>4, <1>5

(* The name of the graph and its parts.                                        *)
LEMMA ContextParts ==
  ASSUME NEW label, NEW content, NEW c, c = Context(label, content), content.v_book # {}
  PROVE  \E b \in content.v_book :
           /\ c.label = label /\ c.window = b.window /\ c.run = b.run
           /\ c.graph = SelectionName(label, b.window, b.run)
BY DEF Context

(* A ranking that is refused no more has its cycle, so there is a cycle.       *)
LEMMA CyclesExist ==
  ASSUME NEW label, NEW content, ~SelectionRefused(label, content)
  PROVE  content.v_cycle_run # {} /\ content.v_book # {}
<1>1. content.v_cycle_ranking # {} /\ content.v_book # {}
  BY DEF SelectionRefused, SelectionStops, SourceRefused
<1>2. \A r \in content.v_cycle_ranking : Has(content.v_cycle_run, r.cycle)
  BY DEF SelectionRefused, RankingsRefused
<1>3. QED
  BY <1>1, <1>2 DEF Has

(* The graph's name, what its cycles say, and as many of each as rows.         *)
LEMMA CyclesHold ==
  ASSUME NEW T, NEW label, NEW content, NEW assets, NEW c, Ranks(T, label, content, assets, c)
  PROVE  Failed(CycleChecks(label, c.graph, content, assets, T)) = {}
<1> DEFINE inds == SelectionIndividuals(label, content, assets)
           graph == c.graph
           checks == CycleChecks(label, graph, content, assets, T)
<1>1. PICK b \in content.v_book :
        /\ c.label = label /\ c.window = b.window /\ c.run = b.run
        /\ graph = SelectionName(label, b.window, b.run)
  BY ContextParts, CyclesExist DEF Ranks
<1>2. graph[2] = label /\ graph[3] = c.window /\ graph[4] = c.run
  BY <1>1 DEF SelectionName
<1>3. PICK k \in content.v_cycle_run : TRUE
  BY CyclesExist DEF Ranks
<1>4. graph \in {i.graph : i \in inds}
  <2>1. Cycle(c, k).graph = graph /\ Cycle(c, k) \in inds
    BY CycleTells, OwnGraph DEF Ranks, SelectionIndividuals
  <2>2. QED
    BY <2>1
<1>5. Typed(T, "SelectionCycle") = {CycleIri(c, r.cycle) : r \in content.v_cycle_run}
  BY CycleRead
<1>6. CycleIri(c, k.cycle) \in Typed(T, "SelectionCycle")
  BY <1>5
<1>7. T # {}
  BY <1>6 DEF Typed
<1>8. ASSUME NEW s \in Typed(T, "SelectionCycle")
      PROVE  /\ Of(T, s, "runLabel") = {label} /\ Of(T, s, "windowId") = {c.window}
             /\ Of(T, s, "backtestRunId") = {c.run}
  BY <1>1, <1>5, CycleRead
<1>9. Identities(T, "SelectionCycle") = {<<label, c.window, c.run>>}
  BY <1>6, <1>8 DEF Identities
<1>10. ASSUME NEW class, NEW rows, NEW name, NEW facts, Listed(T, class, rows, name, facts)
       PROVE  Cardinality(Typed(T, class)) = Cardinality(rows)
  <2>1. rows \in SUBSET rows /\ \A s : s \in Typed(T, class) <=> \E r \in rows : s = name[r]
    BY <1>10 DEF Listed
  <2>2. QED
    BY <1>10, <2>1, PartSize
<1>11. /\ Cardinality(Typed(T, "SelectionCycle")) = Cardinality(content.v_cycle_run)
       /\ Cardinality(Typed(T, "AttractivenessWeightScheme")) = Cardinality(content.v_weight_scheme)
       /\ Cardinality(Typed(T, "AttractivenessSnapshot")) = Cardinality(Projected(content))
       /\ Cardinality(Typed(T, "Veto")) = Cardinality(content.v_veto)
  BY <1>10, SelectionLists
<1>12. T = Batch(inds, graph)
  BY DEF Ranks
<1> HIDE DEF graph
<1>13. DOMAIN checks = {"graph", "triples", "individuals"}
  BY DEF CycleChecks
<1>14. checks.graph
  BY <1>2, <1>4, <1>7, <1>9 DEF CycleChecks
<1>15. checks.triples
  BY <1>12 DEF CycleChecks
<1>16. checks.individuals
  BY <1>11 DEF CycleChecks
<1> HIDE DEF checks
<1>17. Failed(checks) = {}
  BY <1>13, <1>14, <1>15, <1>16 DEF Failed
<1>18. QED
  BY <1>17 DEF checks, graph

(* Every snapshot without an effective weight says why, unless the source does *)
(* not.                                                                        *)
LEMMA PlaceholdersExplained ==
  ASSUME NEW T, NEW label, NEW content, NEW assets, NEW c, Ranks(T, label, content, assets, c),
         RankingFaults(content) = {}
  PROVE  Explained(T) = Placeholders(T)
<1> DEFINE rows == Projected(content)
           name == [r \in rows |-> SnapIri(c, r)]
           facts == [r \in rows |-> RankingFacts(c, content, r, assets)]
<1>1. Listed(T, "AttractivenessSnapshot", rows, name, facts)
  BY SelectionLists
<1>2. \A r \in rows :
        r.rules = "UNSCORED" \/ \E w \in Weighed(content) : w.cycle = r.cycle /\ w.asset = r.asset
  BY DEF RankingFaults
<1>3. ASSUME NEW s \in Placeholders(T) PROVE "UNSCORED" \in Of(T, s, "vetoRulesJson")
  <2>1. s \in Typed(T, "AttractivenessSnapshot") /\ Of(T, s, "hasEffectiveWeight") = {}
    BY DEF Placeholders
  <2>2. PICK r \in rows : s = SnapIri(c, r)
    BY <1>1, <2>1 DEF Listed
  <2>3. ASSUME NEW w \in Weighed(content), w.cycle = r.cycle, w.asset = r.asset PROVE FALSE
    <3>1. SnapIri(c, w) = s
      BY <2>2, <2>3 DEF SnapIri
    <3>2. <<SnapIri(c, w), "hasEffectiveWeight", EffectiveIri(c, w)>> \in Effective(c, w).triples
      BY WithParts DEF Effective
    <3>3. Effective(c, w) \in SelectionIndividuals(label, content, assets) /\ Effective(c, w).graph = c.graph
      BY EffectiveTells, OwnGraph DEF Ranks, SelectionIndividuals
    <3>4. <<s, "hasEffectiveWeight", EffectiveIri(c, w)>> \in T
      BY <3>1, <3>2, <3>3 DEF Ranks, Batch
    <3>5. QED
      BY <2>1, <3>4 DEF Of
  <2>4. r.rules = "UNSCORED"
    BY <1>2, <2>3
  <2>5. "vetoRulesJson" \notin Upward \cup {"a"}
    BY DEF Upward
  <2>6. Of(T, s, "vetoRulesJson") = Said(RankingFacts(c, content, r, assets), "vetoRulesJson")
    BY <1>1, <2>2, <2>5 DEF Listed
  <2>7. Said(RankingFacts(c, content, r, assets), "vetoRulesJson") = Known(r.rules)
    BY DEF Said, RankingFacts
  <2>8. QED
    BY <2>4, <2>6, <2>7, UnscoredAssumption DEF Known
<1>4. QED
  BY <1>3 DEF Explained

(* What a fresh projection says of the rankings and vetoes.                    *)
LEMMA RankingsHold ==
  ASSUME NEW T, NEW label, NEW content, NEW assets, NEW c, Ranks(T, label, content, assets, c)
  PROVE  Failed(RankingChecks(label, c.graph, content, assets, T)) \subseteq RankingFaults(content)
<1> DEFINE checks == RankingChecks(label, c.graph, content, assets, T)
<1>1. T = Batch(SelectionIndividuals(label, content, assets), c.graph)
  BY DEF Ranks
<1>2. ASSUME NEW class \in {"AttractivenessSnapshot", "Veto"}, NEW key, NEW link
      PROVE  Cardinality(Unlinked(T, class, key, link)) \in Nat
  <2>1. IsFiniteSet(Typed(T, class))
    <3>1. \E rows, name, facts : Listed(T, class, rows, name, facts)
      BY SelectionLists
    <3>2. PICK rows, name, facts : Listed(T, class, rows, name, facts)
      BY <3>1
    <3>3. rows \in SUBSET rows /\ \A s : s \in Typed(T, class) <=> \E r \in rows : s = name[r]
      BY <3>2 DEF Listed
    <3>4. QED
      BY <3>2, <3>3, PartSize
  <2>2. Unlinked(T, class, key, link) \in SUBSET Typed(T, class)
    BY DEF Unlinked
  <2>3. IsFiniteSet(Unlinked(T, class, key, link))
    BY <2>1, <2>2, FS_Subset
  <2>4. QED
    BY <2>3, FS_CardinalityType
<1>3. DOMAIN checks = {"components", "placeholders", "links", "unlinked", "vetoes"}
  BY DEF RankingChecks
<1>4. checks.components /\ checks.links /\ checks.vetoes
  BY <1>1 DEF RankingChecks
<1>5. checks.unlinked
  <2> DEFINE n == Cardinality(Unlinked(T, "AttractivenessSnapshot", "rankingTicker", "attractivenessOfAsset"))
             m == Cardinality(Unlinked(T, "Veto", "vetoTicker", "vetoOfAsset"))
  <2>1. n <= n /\ m <= m
    <3>1. n \in Nat /\ m \in Nat
      BY <1>2
    <3> HIDE DEF n, m
    <3>2. QED
      BY <3>1
  <2>2. QED
    BY <1>1, <2>1 DEF RankingChecks
<1>6. RankingFaults(content) = {} => checks.placeholders
  <2>1. RankingFaults(content) = {} => Explained(T) = Placeholders(T)
    BY PlaceholdersExplained
  <2>2. QED
    BY <1>1, <2>1 DEF RankingChecks
<1> HIDE DEF checks
<1>7. RankingFaults(content) \in {{}, {"placeholders"}}
  BY DEF RankingFaults
<1>8. Failed(checks) \subseteq RankingFaults(content)
  BY <1>3, <1>4, <1>5, <1>6, <1>7 DEF Failed
<1>9. QED
  BY <1>8 DEF checks

-----------------------------------------------------------------------------
(* The rebalances that an m018 graph shows, arm and cycle.                     *)
LEMMA RebalancedRead ==
  ASSUME NEW M, NEW label, NEW content, NEW assets, NEW b, Shows(M, label, content, assets, b), NEW x
  PROVE  x \in Rebalanced(M)
           <=> \E r \in RunRows(content.v_book_rebalance, b.run) : r.cycle # Null /\ x = <<r.arm, r.cycle>>
<1> DEFINE rows == RunRows(content.v_book_rebalance, b.run)
           iri(r) == RebalanceIri(label, content, r)
           book(r) == BookIri(label, TheBook(content, r))
<1>1. Typed(M, "BookRebalance") = {iri(r) : r \in rows}
  BY RebalanceRead
<1>2. \A r \in rows : The(M, iri(r), "rebalanceOfBook") = book(r)
  BY RebalanceRead DEF Gives
<1>3. \A r \in rows : Of(M, iri(r), "cycleRunId") = Known(r.cycle)
  BY RebalanceRead
<1>4. ASSUME NEW r \in rows PROVE Of(M, book(r), "armCode") = {r.arm}
  <2>1. SameBook(content, r) /\ r.run = b.run
    BY DEF RunRows, Shows, BacktestRefused, ChildrenRefused
  <2>2. TheBook(content, r) \in RunRows(content.v_book, b.run) /\ TheBook(content, r).arm = r.arm
    BY <2>1, RowBelow DEF Shows, RunRows
  <2>3. QED
    BY <2>2, BookRead DEF Gives
<1> HIDE DEF rows, iri, book
<1>5. x \in Rebalanced(M)
        <=> \E r \in rows : \E arm \in Of(M, The(M, iri(r), "rebalanceOfBook"), "armCode") :
              \E cycle \in Of(M, iri(r), "cycleRunId") : x = <<arm, cycle>>
  BY <1>1 DEF Rebalanced
<1>6. \A r \in rows : \A cycle : cycle \in Of(M, iri(r), "cycleRunId") <=> r.cycle # Null /\ cycle = r.cycle
  BY <1>3 DEF Known
<1>7. QED
  BY <1>2, <1>4, <1>5, <1>6 DEF rows

(* With the m018 sibling of the same database, whose rebalances have cycles and *)
(* no arm without one, the graphs agree.                                       *)
LEMMA GraphsAgree ==
  ASSUME NEW T, NEW label, NEW content, NEW assets, NEW c, Ranks(T, label, content, assets, c),
         NEW M, NEW name, NEW held, NEW b, Shows(M, name, content, held, b),
         {r \in content.v_book_rebalance : r.cycle # Null} # {},
         \A r \in content.v_book_rebalance :
           r.cycle # Null => r.arm \notin Markowitz /\ Has(content.v_cycle_run, r.cycle)
  PROVE  CrossGraph(M, T, Markowitz)
<1>1. \A r \in content.v_book_rebalance : r.run = b.run
  <2>1. \A r \in content.v_book_rebalance : \E d \in content.v_book : d.run = r.run
    BY DEF Shows, BacktestRefused, ChildrenRefused, SameBook
  <2>2. \A d \in content.v_book : d.run = b.run
    BY DEF Ranks, SelectionRefused, ContextRefused, Shows
  <2>3. QED
    BY <2>1, <2>2
<1>2. \A x : x \in Rebalanced(M)
        <=> \E r \in content.v_book_rebalance : r.cycle # Null /\ x = <<r.arm, r.cycle>>
  BY <1>1, RebalancedRead DEF RunRows
<1>3. Rebalanced(M) # {}
  BY <1>2
<1>4. ASSUME NEW x \in Rebalanced(M)
      PROVE  x[1] \notin Markowitz /\ \E s \in Typed(T, "SelectionCycle") : x[2] \in Of(T, s, "cycleRunId")
  <2>1. PICK r \in content.v_book_rebalance : r.cycle # Null /\ x = <<r.arm, r.cycle>>
    BY <1>2
  <2>2. PICK k \in content.v_cycle_run : k.cycle = r.cycle
    BY <2>1 DEF Has
  <2>3. /\ CycleIri(c, k.cycle) \in Typed(T, "SelectionCycle")
        /\ Of(T, CycleIri(c, k.cycle), "cycleRunId") = {k.cycle}
    BY CycleRead
  <2>4. QED
    BY <2>1, <2>2, <2>3
<1>5. QED
  BY <1>3, <1>4 DEF CrossGraph

-----------------------------------------------------------------------------
(* A stored graph with an m018 name is what was projected of a book's run.     *)
OriginInv ==
  \A g \in DOMAIN graphs : g[1] = "backtest" =>
    \E label, assets, b :
      Shows(graphs[g], label, origin[g].db, assets, b) /\ g = GraphName(label, b.window, b.run)

(* What lands is the projection of an accepted database, named by its side.    *)
LEMMA LandShows ==
  ASSUME ShapeInv, CommandInv, WorkInv, DatabasesInv, NEW graph, Posts(graph), Land(graph)
  PROVE  /\ origin'[graph].db = db[todo.slot] /\ origin'[graph].label = Label[todo.slot]
         /\ origin'[graph].side = command.line.side
         /\ command.line.side = "m018" =>
              \E b \in db[todo.slot].v_book :
                /\ Shows(graphs'[graph], Label[todo.slot], db[todo.slot], DOMAIN command.assets, b)
                /\ graph = GraphName(Label[todo.slot], b.window, b.run)
         /\ command.line.side = "selection" =>
              \E c : /\ Ranks(graphs'[graph], Label[todo.slot], db[todo.slot], command.assets, c)
                     /\ graph = c.graph /\ graph = SelectionName(Label[todo.slot], c.window, c.run)
         /\ graph[1] = "backtest" => command.line.side = "m018"
<1> DEFINE side == command.line.side
           slot == todo.slot
           content == db[slot]
           inds == Individuals(side, slot, content, command.line.day, command.assets)
<1>1. /\ outcome = "running" /\ graph \in todo.graphs /\ Ready
      /\ command.line \in CommandLine /\ Projectable(slot)
      /\ slot \in Range(command.line.slots) /\ graph \in Named(slot)
  BY DEF Posts, Running, CommandInv, Current
<1>2. /\ graphs'[graph] = Batch(inds, graph) /\ origin'[graph].db = content
      /\ origin'[graph].label = Label[slot] /\ origin'[graph].side = side
  BY <1>1 DEF Land, WorkInv
<1>3. IsDatabase(content)
  <2>1. command.line.slots \in Seq(Slot)
    BY <1>1, ProjectorAssumption
  <2>2. slot \in Slot
    BY <1>1, <2>1 DEF Range
  <2>3. QED
    BY <2>2 DEF DatabasesInv
<1>4. PICK i \in inds : i.graph = graph
  BY <1>1 DEF Named
<1>5. side \in {"m018", "selection", "reference"}
  BY <1>1, ProjectorAssumption
<1>6. CASE side = "m018"
  <2>1. inds = BacktestIndividuals(Label[slot], content, DOMAIN command.assets)
        /\ ~BacktestRefused(Label[slot], content)
    BY <1>1, <1>6 DEF Individuals, Projectable, Refused
  <2>2. PICK b \in content.v_book : graph = GraphName(Label[slot], b.window, b.run)
    BY <1>4, <2>1, BacktestNames
  <2>3. Shows(graphs'[graph], Label[slot], content, DOMAIN command.assets, b)
    BY <1>2, <1>3, <2>1, <2>2 DEF Shows
  <2>4. QED
    BY <1>2, <1>6, <2>2, <2>3
<1>7. CASE side = "selection"
  <2>1. inds = SelectionIndividuals(Label[slot], content, command.assets)
        /\ ~SelectionRefused(Label[slot], content)
    BY <1>1, <1>7 DEF Individuals, Projectable, Refused
  <2>2. PICK c : c = Context(Label[slot], content)
    OBVIOUS
  <2>3. graph = c.graph
    BY <1>4, <2>1, <2>2, SelectionClasses
  <2>4. graph = SelectionName(Label[slot], c.window, c.run)
    BY <2>1, <2>2, <2>3, ContextParts, CyclesExist
  <2>5. Ranks(graphs'[graph], Label[slot], content, command.assets, c)
    BY <1>2, <1>3, <2>1, <2>2, <2>3 DEF Ranks
  <2>6. graph[1] # "backtest"
    BY <2>4 DEF SelectionName
  <2>7. QED
    BY <1>2, <1>7, <2>3, <2>4, <2>5, <2>6
<1>8. CASE side = "reference"
  <2>1. inds = ReferenceIndividuals(Label[slot], command.line.day, content, command.assets)
    BY <1>8 DEF Individuals
  <2>2. graph[1] # "backtest"
    BY <1>4, <2>1, ReferenceNames DEF TickerGraph, OrchestratorGraph
  <2>3. QED
    BY <1>2, <1>8, <2>2
<1>9. QED
  BY <1>5, <1>6, <1>7, <1>8

(* Graphs only change when one lands.                                          *)
LEMMA OriginStep ==
  ASSUME ShapeInv, OrderInv, CommandInv, WorkInv, DatabasesInv, OriginInv, [Next]_vars
  PROVE  OriginInv'
<1>1. CASE UNCHANGED <<graphs, origin>>
  BY <1>1 DEF OriginInv
<1>2. ASSUME NEW graph, Posts(graph), Land(graph) PROVE OriginInv'
  <2>1. ASSUME graph[1] = "backtest"
        PROVE  \E label, assets, b :
                 /\ Shows(graphs'[graph], label, origin'[graph].db, assets, b)
                 /\ graph = GraphName(label, b.window, b.run)
    BY <1>2, <2>1, LandShows
  <2>2. ASSUME NEW g \in DOMAIN graphs', g # graph
        PROVE  g \in DOMAIN graphs /\ graphs'[g] = graphs[g] /\ origin'[g] = origin[g]
    BY <1>2, <2>2 DEF Land, OrderInv
  <2>3. QED
    BY <2>1, <2>2 DEF OriginInv
<1>3. QED
  BY <1>1, <1>2 DEF Next, Work, Faults, Redeliver, UniverseMoves, CatalogLoad, Start, Open, Stop, Close,
     Finish, Validate, Skip, Write, Doubt, StoreFails, vars

(* A graph that lands passes its verifier.                                     *)
LEMMA FreshStep ==
  ASSUME ShapeInv, OrderInv, CommandInv, WorkInv, DatabasesInv, OriginInv, [Next]_vars,
         NEW g \in DOMAIN graphs' \ DOMAIN graphs
  PROVE  LET o == origin'[g]
             M == IF o.side = "selection" /\ Sibling(g) \in DOMAIN graphs THEN graphs[Sibling(g)] ELSE {}
         IN  /\ o.side = "m018" =>
                  BacktestFailures(o.label, g, o.db, DOMAIN command.assets, graphs'[g])
                  \subseteq ActedFaults(o.db, g[4])
             /\ o.side = "selection" =>
                  SelectionFailures(o.label, g, o.db, command.assets, graphs'[g], M, Markowitz)
                  \subseteq RankingFaults(o.db) \cup CycleFaults(o.db, Sibling(g))
<1> DEFINE o == origin'[g]
           M == IF o.side = "selection" /\ Sibling(g) \in DOMAIN graphs THEN graphs[Sibling(g)] ELSE {}
<1>1. Posts(g) /\ Land(g)
  <2>1. PICK graph : Posts(graph) /\ Land(graph)
    BY DEF Next, Work, Faults, Redeliver, UniverseMoves, CatalogLoad, Start, Open, Stop, Close,
       Finish, Validate, Skip, Write, Doubt, StoreFails, vars
  <2>2. graph = g
    BY <2>1 DEF Land
  <2>3. QED
    BY <2>1, <2>2
<1>2. /\ o.db = db[todo.slot] /\ o.label = Label[todo.slot] /\ o.side = command.line.side
  BY <1>1, LandShows
<1>3. ASSUME o.side = "m018"
      PROVE  BacktestFailures(o.label, g, o.db, DOMAIN command.assets, graphs'[g])
               \subseteq ActedFaults(o.db, g[4])
  <2>1. PICK b \in o.db.v_book :
          /\ Shows(graphs'[g], o.label, o.db, DOMAIN command.assets, b)
          /\ g = GraphName(o.label, b.window, b.run)
    BY <1>1, <1>2, <1>3, LandShows
  <2>2. g[4] = b.run
    BY <2>1 DEF GraphName
  <2> HIDE DEF o
  <2>3. QED
    BY <2>1, <2>2, BacktestVerifies
<1>4. ASSUME o.side = "selection"
      PROVE  SelectionFailures(o.label, g, o.db, command.assets, graphs'[g], M, Markowitz)
               \subseteq RankingFaults(o.db) \cup CycleFaults(o.db, Sibling(g))
  <2>1. PICK c : /\ Ranks(graphs'[g], o.label, o.db, command.assets, c)
                 /\ g = c.graph /\ g = SelectionName(o.label, c.window, c.run)
    BY <1>1, <1>2, <1>4, LandShows
  <2>2. Failed(CycleChecks(o.label, g, o.db, command.assets, graphs'[g])) = {}
    BY <2>1, CyclesHold
  <2>3. Failed(RankingChecks(o.label, g, o.db, command.assets, graphs'[g])) \subseteq RankingFaults(o.db)
    BY <2>1, RankingsHold
  <2>4. ASSUME CycleFaults(o.db, Sibling(g)) = {} PROVE CrossGraph(M, graphs'[g], Markowitz)
    <3>1. /\ Sibling(g) \in DOMAIN graphs /\ origin[Sibling(g)].db = o.db
          /\ {r \in o.db.v_book_rebalance : r.cycle # Null} # {}
          /\ \A r \in o.db.v_book_rebalance :
               r.cycle # Null => r.arm \notin Markowitz /\ Has(o.db.v_cycle_run, r.cycle)
      BY <2>4 DEF CycleFaults
    <3>2. Sibling(g)[1] = "backtest" /\ M = graphs[Sibling(g)]
      BY <1>4, <3>1 DEF Sibling, GraphName
    <3> HIDE DEF o, M
    <3>3. PICK label, assets, b : Shows(graphs[Sibling(g)], label, origin[Sibling(g)].db, assets, b)
      BY <3>1, <3>2 DEF OriginInv
    <3>4. Shows(M, label, o.db, assets, b)
      BY <3>1, <3>2, <3>3
    <3>5. QED
      BY <2>1, <3>1, <3>4, GraphsAgree
  <2>5. CycleFaults(o.db, Sibling(g)) \in {{}, {"crossGraph"}}
    BY DEF CycleFaults
  <2> HIDE DEF o, M
  <2>6. QED
    BY <2>2, <2>3, <2>4, <2>5 DEF SelectionFailures
<1> HIDE DEF o, M
<1>5. QED
  BY <1>3, <1>4 DEF o, M

(* The verifier passes every graph that lands, for any databases, command      *)
(* lines, assets and faults, but for what is wrong in the source itself: what  *)
(* verify_backtest.py counts and groups in the store is what backtest.py made  *)
(* of the rows, because no two rows share an individual and each tells its own *)
(* columns only.                                                               *)
THEOREM FreshGraphsPass == Spec => FreshGraphsVerify
<1> DEFINE Inv == OrderInv /\ CommandInv /\ WorkInv /\ DatabasesInv /\ OriginInv
<1>1. Init => Inv
  <2> SUFFICES ASSUME Init PROVE Inv
    OBVIOUS
  <2>1. OrderInv
    BY ProjectorAssumption DEF Init, OrderInv
  <2>2. CommandInv /\ WorkInv /\ OriginInv
    BY DEF Init, CommandInv, WorkInv, OriginInv
  <2>3. DatabasesInv
    BY DatabaseAssumption DEF Init, DatabasesInv
  <2>4. QED
    BY <2>1, <2>2, <2>3
<1>2. ShapeInv /\ Inv /\ [Next]_vars => Inv'
  BY OrderStep, CommandStep, WorkStep, DatabasesStep, OriginStep
<1> DEFINE Fresh ==
      \A g \in DOMAIN graphs' \ DOMAIN graphs :
        LET o == origin'[g]
            M == IF o.side = "selection" /\ Sibling(g) \in DOMAIN graphs THEN graphs[Sibling(g)] ELSE {}
        IN  /\ o.side = "m018" =>
                 BacktestFailures(o.label, g, o.db, DOMAIN command.assets, graphs'[g])
                 \subseteq ActedFaults(o.db, g[4])
            /\ o.side = "selection" =>
                 SelectionFailures(o.label, g, o.db, command.assets, graphs'[g], M, Markowitz)
                 \subseteq RankingFaults(o.db) \cup CycleFaults(o.db, Sibling(g))
<1>3. ShapeInv /\ Inv /\ [Next]_vars => Fresh
  BY FreshStep
<1> HIDE DEF Inv, Fresh
<1>4. Spec => []Inv
  BY <1>1, <1>2, Inductive, PTL DEF Spec
<1>5. Spec => [][Fresh]_vars
  BY <1>3, <1>4, Inductive, PTL DEF Spec
<1>6. QED
  BY <1>5 DEF FreshGraphsVerify, Fresh
=============================================================================
