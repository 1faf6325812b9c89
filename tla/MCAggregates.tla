----------------------------- MODULE MCAggregates -----------------------------
(* A label of two windows, the second with its two cuts; the folder is sound,  *)
(* or has one of the faults a parser, a check or a shape is there for.         *)
EXTENDS Aggregates

Trend(w, d, s, c) == [window |-> w, date |-> d, state |-> s, cash |-> c]
Returns(w, cut, from, to, ret) ==
  {[window |-> w, segment |-> <<w, cut>>, from |-> from, to |-> to, reference |-> r, return |-> ret,
    sessions |-> 1, drawdown |-> 0] :
     r \in References}
Summary(w, cut, from, to) == [window |-> w, segment |-> <<w, cut>>, from |-> from, to |-> to]
Decided(days) == {[arm |-> arm, date |-> d] : arm \in TopNArms, d \in days}

File == [trend |-> {Trend("P1", 1, "below", 1), Trend("P2", 3, "at_or_above", 0)},
         returns |-> Returns("P1", "", 1, 2, 2) \cup Returns("P2", "", 3, 4, 2)
                     \cup Returns("P2", "a", 3, 3, 0) \cup Returns("P2", "b", 4, 4, 2)]
Dbs == [w \in {"P1", "P2"} |->
          IF w = "P1" THEN [rebalances |-> Decided({1}), summaries |-> {Summary("P1", "", 1, 2)}]
          ELSE [rebalances |-> Decided({3}),
                summaries |-> {Summary("P2", "", 3, 4), Summary("P2", "a", 3, 3), Summary("P2", "b", 4, 4)}]]
Sound(file) == [file |-> file, manifest |-> file, dbs |-> Dbs]

Of(w, cut) == {r \in File.returns : r.segment = <<w, cut>>}
MoreTrend(r) == [File EXCEPT !.trend = @ \cup {r}]
Trends(rows) == [File EXCEPT !.trend = rows]
Less(rows) == [File EXCEPT !.returns = @ \ rows]
More(rows) == [File EXCEPT !.returns = @ \cup rows]
Again == [File EXCEPT !.returns = (@ \ Of("P1", "")) \cup Returns("P1", "", 1, 2, 4)]
Odd(key, v) ==
  [File EXCEPT !.returns = (@ \ Of("P1", "")) \cup {[r EXCEPT ![key] = v] : r \in Of("P1", "")}]
Strange == {[r EXCEPT !.window = "P1"] : r \in Of("P2", "a")}

(* Refused by the parser, or by a comparison with the databases.               *)
BadFiles ==
  {MoreTrend(Trend("P1", 1, "at_or_above", 0)), MoreTrend(Trend("P1", 2, "unknown", 0)),
   MoreTrend(Trend("P1", 2, "below", Unit + 1)), More(Strange), More({[r EXCEPT !.return = 1] : r \in Of("P1", "")}),
   Less({r \in Of("P1", "") : r.reference = "SPY"}), More(Returns("P1", "b", 2, 1, 0)),
   MoreTrend(Trend("P1", 2, "not_evaluable", 0)), Trends({Trend("P1", 1, "below", 0), Trend("P2", 3, "below", 1)}),
   Trends({Trend("P1", 1, "below", 1)}), Less(Of("P2", "a")), Less(Of("P1", "")), More(Returns("P1", "a", 1, 1, 0)),
   Odd("sessions", 0), Odd("drawdown", -1), Odd("to", 3),
   [File EXCEPT !.returns = (@ \ Of("P2", "a")) \cup Returns("P2", "a", 3, 3, 1)]}
BadDbs ==
  {[Dbs EXCEPT !["P1"].rebalances = @ \cup {[arm |-> "TOPN_MV_NOGUARD", date |-> 2]}],
   [Dbs EXCEPT !["P1"].rebalances = @ \cup Decided({2})],
   [Dbs EXCEPT !["P1"].rebalances = {r \in @ : r.arm = "TOPN_MV_NOGUARD"}],
   [Dbs EXCEPT !["P1"].summaries = {Summary("P1", "", 1, 3)}],
   [Dbs EXCEPT !["P1"].summaries = @ \cup {Summary("P2", "a", 3, 4)}],
   [Dbs EXCEPT !["P2"].summaries = @ \cup {Summary("P2", "c", 4, 4)}],
   [w \in {"P2"} |-> Dbs[w]]}

MCFirst ==
  {Sound(File), Sound(Again), [Sound(File) EXCEPT !.manifest = Again], [Sound(File) EXCEPT !.manifest = Null],
   [Sound(File) EXCEPT !.file = Null]}
  \cup {Sound(f) : f \in BadFiles} \cup {[Sound(File) EXCEPT !.dbs = d] : d \in BadDbs}
MCFolder == MCFirst
=============================================================================
