--------------------------- MODULE MCGraphProjector ---------------------------
(* Two databases of one label: the first is delivered in the variants below,  *)
(* each one edit away from a sound database, the second as another window,    *)
(* another run of the first's window, or the first's run again.               *)
EXTENDS GraphProjector, TLC

CONSTANTS A, B

MCLabel == [s \in Slot |-> "rule"]
MCArm == {"LLM", "MARKOWITZ", "MOMENTUM"}
MCGuardLayer == [L1_BP |-> "L1", L2_DD |-> "L2"]
MCScoreType == {"QUALITY", "VALUE"}
MCSelectionRule == {[rule |-> "EXCL", iri |-> "EXCL_v1", from |-> 0, to |-> 2],
                    [rule |-> "EXCL", iri |-> "EXCL_v2", from |-> 2, to |-> Null]}
MCUniverse == <<[AAA |-> 11], [AAA |-> 11, BBB |-> 22]>>
MCReference == [SPY |-> Null]

Sound(run, window, first) ==
  LET book == [book |-> first, run |-> run, window |-> window, arm |-> "LLM",
               status |-> "completed", known |-> 3]
      other == [book EXCEPT !.book = first + 1, !.arm = "MARKOWITZ"]
      Below(b) == [book |-> b.book, run |-> run, arm |-> b.arm, known |-> 3]
  IN  [v_book |-> {book, other},
       v_guard_alert |->
         {[alert |-> first, run |-> run, window |-> window, rule |-> "L1_BP", layer |-> "L1",
           ticker |-> "AAA", threshold |-> 5, state |-> "OPEN", known |-> 3],
          [alert |-> first + 1, run |-> run, window |-> window, rule |-> "L2_DD", layer |-> "L2",
           ticker |-> Null, threshold |-> 7, state |-> "OPEN", known |-> 3]},
       v_book_rebalance |->
         {Below(book) @@ [rebalance |-> first, execution |-> 1, cycle |-> 7],
          Below(other) @@ [rebalance |-> first + 1, execution |-> 1, cycle |-> Null]},
       v_guard_action |->
         {Below(book) @@ [action |-> first, alert |-> first, decision |-> 2, status |-> "APPLIED",
                          ticker |-> "BBB"]},
       v_book_weight_daily |->
         {Below(book) @@ [date |-> 1, holding |-> "AAA", asset |-> 1],
          Below(book) @@ [date |-> 1, holding |-> Cash, asset |-> Null]},
       v_book_daily_performance |->
         {Below(book) @@ [window |-> window, date |-> 1, nav |-> 100],
          Below(book) @@ [window |-> window, date |-> 2, nav |-> 101]},
       v_portfolio_period_summary |->
         {Below(book) @@ [window |-> window, segment |-> "ALL", from |-> 1, to |-> 2, acted |-> 1]},
       v_backtest_test |->
         {[run |-> run, window |-> window, segment |-> "ALL", arm_a |-> "LLM",
           arm_b |-> "MARKOWITZ", test |-> "DM", p |-> 1, known |-> 3]},
       v_cycle_run |-> {[cycle |-> 7, status |-> "completed", as_of |-> 1, finished |-> 2],
                        [cycle |-> 8, status |-> "failed", as_of |-> 1, finished |-> Null]},
       v_weight_scheme |-> {[cycle |-> 7]},
       v_weight_component |-> {[cycle |-> 7, score |-> "QUALITY", weight |-> 1]},
       v_cycle_ranking |-> {[cycle |-> 7, asset |-> 1, ticker |-> "AAA", rules |-> Null],
                            [cycle |-> 7, asset |-> 2, ticker |-> "BBN", rules |-> "UNSCORED"],
                            [cycle |-> 8, asset |-> 1, ticker |-> "AAA", rules |-> Null]},
       v_cycle_ranking_component |-> {[cycle |-> 7, asset |-> 1, score |-> "QUALITY"],
                                      [cycle |-> 8, asset |-> 1, score |-> "QUALITY"]},
       v_veto |-> {[id |-> 1, rule |-> "EXCL", ticker |-> "BBN", cycle |-> 7]},
       v_ticker_history |->
         {[symbol |-> "BBN", canonical |-> "BBN", cik |-> 22, from |-> 1, to |-> 2],
          [symbol |-> "BBB", canonical |-> "BBB", cik |-> 22, from |-> 3, to |-> Null]},
       v_orchestrator_run |-> {[run |-> 1, status |-> Null]},
       v_orchestrator_step |-> {[run |-> 1, ordinal |-> 1]}]

Base == Sound(1, "P1", 1)

(* Edits of one row of a view, or of all of them.                             *)
Change(view, Old(_), New(_)) ==
  [Base EXCEPT ![view] = {IF Old(r) THEN New(r) ELSE r : r \in @}]
Add(view, Old(_), New(_)) ==
  [Base EXCEPT ![view] = @ \cup {New(r) : r \in {q \in @ : Old(q)}}]
Every(r) == TRUE

(* A second run beside the first: its own books and alerts, and the window    *)
(* and arms given; the first run's action may point at the second's alert.    *)
SecondRun(window, arm, alert) ==
  [Base EXCEPT
     !.v_book = @ \cup {[book |-> 3, run |-> 2, window |-> window, arm |-> arm,
                         status |-> "completed", known |-> 3]},
     !.v_guard_alert = @ \cup {[alert |-> 3, run |-> 2, window |-> window, rule |-> "L2_DD",
                                layer |-> "L2", ticker |-> "AAA", threshold |-> 7,
                                state |-> "OPEN", known |-> 3]},
     !.v_book_rebalance = @ \cup {[rebalance |-> 3, book |-> 3, run |-> 2, arm |-> arm,
                                   execution |-> 2, cycle |-> Null, known |-> 3]},
     !.v_guard_action = {[a EXCEPT !.alert = alert] : a \in @}]

(* One edit of a view the m018 graph shows with one the selection or the      *)
(* ticker history shows.                                                      *)
Beside(edit, other, view) == [edit EXCEPT ![view] = other[view]]

FirstSlot ==
  {Base,
   SecondRun("P2", "LLM", 1), SecondRun("P2", "LLM", 3), SecondRun("P1", "LLM", 1),
   SecondRun("P1", "MOMENTUM", 1), SecondRun("P1", "MOMENTUM", 3),
   LET New(r) == [r EXCEPT !.status = "running"] IN Change("v_book", Every, New),
   LET New(r) == [r EXCEPT !.window = "P2"] IN Change("v_guard_alert", Every, New),
   LET New(r) == [r EXCEPT !.alert = 2] IN Change("v_guard_alert", Every, New),
   LET New(r) == [r EXCEPT !.action = 9, !.alert = 2] IN Add("v_guard_action", Every, New),
   LET New(r) == [r EXCEPT !.status = "SKIPPED"] IN Change("v_guard_action", Every, New),
   LET New(r) == [r EXCEPT !.p = 2] IN Add("v_backtest_test", Every, New),
   LET New(r) == [r EXCEPT !.run = 2] IN Change("v_backtest_test", Every, New),
   LET New(r) == [r EXCEPT !.book = 9] IN Change("v_book_rebalance", Every, New),
   LET New(r) == [r EXCEPT !.layer = "L1"] Gone(r) == [r EXCEPT !.rule = "GONE"]
   IN  Beside(Change("v_guard_alert", Every, New), Change("v_veto", Every, Gone), "v_veto"),
   LET New(r) == [r EXCEPT !.rebalance = 9] Unmarked(r) == [r EXCEPT !.rules = Null]
   IN  Beside(Add("v_book_rebalance", Every, New), Change("v_cycle_ranking", Every, Unmarked),
              "v_cycle_ranking"),
   LET New(r) == [r EXCEPT !.alert = 9] Completed(r) == [r EXCEPT !.status = "completed"]
   IN  Beside(Change("v_guard_action", Every, New), Change("v_cycle_run", Every, Completed),
              "v_cycle_run"),
   LET Held(r) == [r EXCEPT !.asset = 9] Old(r) == r.symbol = "BBN" Lent(r) == [r EXCEPT !.cik = 11]
   IN  Beside(Change("v_book_weight_daily", Every, Held), Change("v_ticker_history", Old, Lent),
              "v_ticker_history"),
   LET Old(r) == r.date = 2 New(r) == [r EXCEPT !.nav = 102] Moved(r) == [r EXCEPT !.cycle = 8]
   IN  Beside(Add("v_book_daily_performance", Old, New), Change("v_weight_scheme", Every, Moved),
              "v_weight_scheme")}

SecondSlot == {Sound(1, "P2", 5), Sound(2, "P1", 5), Sound(1, "P1", 5)}

MCDelivery == {(A :> first) @@ (B :> Sound(1, "P2", 5)) : first \in FirstSlot}
              \cup {(A :> Base) @@ (B :> second) : second \in SecondSlot}

(* Later the first database's orchestrator has taken another step.            *)
MCLater ==
  (A :> {LET New(r) == [r EXCEPT !.ordinal = 2] IN Add("v_orchestrator_step", Every, New)})
  @@ (B :> {})

Line(side, mode, slots) == [side |-> side, mode |-> mode, slots |-> slots, day |-> 1]
MCCommandLine ==
  {Line("m018", "dry", <<A>>), Line("m018", "check", <<B, A>>), Line("m018", "write", <<A, B>>),
   Line("m018", "write", <<B, A>>), Line("selection", "dry", <<A>>), Line("selection", "write", <<A, B>>), Line("reference", "write", <<A>>),
   Line("reference", "check", <<A, B>>)}
=============================================================================
