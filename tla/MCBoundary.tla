------------------------------ MODULE MCBoundary ------------------------------
(***************************************************************************)
(* Boundary over the selection's four views and the score snapshots, with    *)
(* the checks their files under view_expectations name.  The shipped caps    *)
(* are all 0, which stops every run that quarantines a row; here they are    *)
(* high enough for a cascade to be returned.  TLC.                          *)
(***************************************************************************)
EXTENDS Boundary, TLC

EveryRow == [column \in {} |-> {}]
NotNull(columns) == {[column |-> c, max |-> 0] : c \in columns}
Share(column) == [column |-> column, min |-> 0, max |-> 100, where |-> EveryRow]

Checks(keys, min, cap, types, nulls, ranges) ==
  [keys |-> keys, min |-> min, cap |-> cap, types |-> types, nulls |-> NotNull(nulls),
   ranges |-> ranges, pairs |-> {}, means |-> {}, formats |-> {}]

RankingKey == {"cycle_run_id", "asset_id"}
ComponentKey == RankingKey \cup {"score_type"}
Percent(types) ==
  [column |-> "component_value", by |-> {"cycle_run_id", "score_type"},
   target |-> 50, tolerance |-> 5, where |-> ("score_type" :> types)]
MCExpect ==
  "v_weight_scheme" :> Checks(<<{"cycle_run_id"}>>, 0, 60, {"top_n"}, {"cycle_run_id"},
       {[column |-> "top_n", min |-> 1, max |-> 1000, where |-> EveryRow]})
  @@ "v_weight_component" :> Checks(<<{"cycle_run_id", "score_type"}>>, 0, 60, {"weight"},
       {"cycle_run_id", "score_type", "weight"}, {Share("weight")})
  @@ "v_cycle_ranking" :> Checks(<<RankingKey>>, 1, 80, {"rank"}, RankingKey \cup {"rank"},
       {[column |-> "rank", min |-> 1, max |-> 1000, where |-> EveryRow]})
  @@ "v_cycle_ranking_component" :>
       [Checks(<<ComponentKey>>, 1, 80, {"component_value"}, ComponentKey \cup {"component_value"},
               {Share("component_value")})
        EXCEPT !.means = {Percent({"TECHNICAL", "SECTOR"})}]
  @@ "v_score_snapshot" :>
       [Checks(<<{"id"}>>, 1, 60, {"available_at"}, {"id"}, {})
        EXCEPT !.formats = {[column |-> "computed_at", null |-> TRUE]},
               !.pairs = {[left |-> "available_at", op |-> ">", right |-> "event_time",
                           where |-> ("score_type" :> {"FUNDAMENTAL"}), skip |-> FALSE],
                          [left |-> "available_at", op |-> "=", right |-> "event_time",
                           where |-> ("score_type" :> {"SECTOR", "TECHNICAL"}), skip |-> TRUE]}]

Scheme(k) == "cycle_run_id" :> k @@ "top_n" :> 2
Weight(k, t) == "cycle_run_id" :> k @@ "score_type" :> t @@ "weight" :> 50
Rank(k, a, n) == "cycle_run_id" :> k @@ "asset_id" :> a @@ "rank" :> n
Component(k, a, t, x) ==
  "cycle_run_id" :> k @@ "asset_id" :> a @@ "score_type" :> t @@ "component_value" :> x
Score(i, t, at, from) ==
  "id" :> i @@ "score_type" :> t @@ "event_time" :> at @@ "available_at" :> from
    @@ "computed_at" :> 0

MCFirstRows ==
  "v_weight_scheme" :> <<Scheme(1), Scheme(2)>>
  @@ "v_weight_component" :> <<Weight(1, "SECTOR"), Weight(2, "SECTOR")>>
  @@ "v_cycle_ranking" :> <<Rank(1, 1, 1), Rank(1, 2, 2), Rank(2, 1, 1)>>
  @@ "v_cycle_ranking_component" :>
       <<Component(1, 1, "SECTOR", 45), Component(1, 2, "SECTOR", 55),
         Component(1, 2, "SEMANTIC", 90), Component(2, 1, "SECTOR", 50)>>
  @@ "v_score_snapshot" :> <<Score(1, "SECTOR", 1, 1), Score(2, "SECTOR", 1, 1),
                            Score(3, "FUNDAMENTAL", 1, 2)>>

MCEdits ==
  {<<"v_weight_scheme", 1, "top_n", 0>>, <<"v_weight_component", 1, "weight", 101>>,
   <<"v_weight_component", 2, "cycle_run_id", 1>>,
   <<"v_cycle_ranking", 1, "rank", Junk>>, <<"v_cycle_ranking", 2, "asset_id", 1>>,
   <<"v_cycle_ranking", 2, "rank", Null>>,
   <<"v_cycle_ranking_component", 3, "component_value", 101>>,
   <<"v_cycle_ranking_component", 4, "component_value", 60>>,
   <<"v_cycle_ranking_component", 4, "component_value", 50>>,
   <<"v_score_snapshot", 1, "available_at", 2>>, <<"v_score_snapshot", 1, "available_at", 1>>,
   <<"v_score_snapshot", 2, "available_at", Null>>, <<"v_score_snapshot", 2, "id", 1>>,
   <<"v_score_snapshot", 1, "id", 4>>, <<"v_score_snapshot", 2, "computed_at", Junk>>,
   <<"v_score_snapshot", 3, "available_at", Null>>, <<"v_score_snapshot", 3, "available_at", Junk>>}

MCCycleTypes == {"REPLAY"}
=============================================================================
