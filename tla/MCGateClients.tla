---------------------------- MODULE MCGateClients ----------------------------
(* Callers of the gate working at the same time: batches about one asset,   *)
(* one membership and some sections that close, link, restate or redeclare   *)
(* the same individuals or fill the same append-only graph.                 *)
EXTENDS GateClients, TLC

CONSTANTS m, a, v,          (* a membership, an Asset, a Veto                *)
          s1, s2, s3,       (* three filing sections                         *)
          dated, live,      (* an append-only graph and portfolio:current    *)
          c1, c2            (* the clients                                   *)

Dates == 1..3
ClientSymmetry == Permutations(Client)

With(c, field, s, values) == [c EXCEPT ![field][s] = values]
Declare(s, class) == With(Nothing, "type", s, {class})
In(g, content) == [graph |-> g, content |-> content]

Assets == Declare(a, "Asset")
Membership(from) ==
  With(With(Declare(m, "UniverseMembership"), "validFrom", m, {from}), "ofAsset", m, {a})
Closing(d) == With(Nothing, "validTo", m, {d})
Raising(d) == With(Declare(v, "Veto"), "raisedOn", v, {d})
Clearing(d) == With(Nothing, "clearedOn", v, {d})
Section(s) == Declare(s, "SECFilingSection")
Restating(old, new) == With(Section(new), "supersededBy", old, {new})

(* An asset, its membership in the same append-only graph or in the live    *)
(* one, two rival closings; a labelled section, three rival restatements of  *)
(* it, one under another item's label, a restatement of the first            *)
(* restatement and a pointer back.                                          *)
Labelled(s, old, label) == With(Restating(old, s), "itemLabel", s, {label})
CarefulBatches ==
  {In(dated, Assets), In(dated, Merge(Assets, Membership(1))), In(live, Membership(2)),
   In(live, Closing(1)), In(live, Closing(3))}
  \cup {In(live, With(Section(s1), "itemLabel", s1, {"1A"})), In(live, Labelled(s2, s1, "1A")),
        In(live, Labelled(s3, s1, "7")), In(live, Restating(s1, s3)), In(live, Restating(s2, s3)),
        In(live, With(Nothing, "supersededBy", s2, {s1}))}

(* Two declarations of one membership and a closing too early for the       *)
(* second; a Veto and a clearing too early; a section, its restatement and a *)
(* pointer back to a section the batch does not declare.                    *)
RacingBatches ==
  {In(dated, Merge(Assets, Membership(1))), In(live, Merge(Assets, Membership(2))),
   In(live, Closing(1)), In(live, Raising(2)), In(live, Clearing(2)), In(live, Section(s1)),
   In(live, Restating(s1, s2)), In(live, With(Nothing, "supersededBy", s2, {s1}))}
=============================================================================
