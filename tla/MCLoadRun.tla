------------------------------ MODULE MCLoadRun ------------------------------
(* Two windows.  Of the first there are changed files of the first run, one   *)
(* with other figures and one with the same, a second run of the same arms    *)
(* and cycles, and a third with the same arms but cycles of its own.         *)
(* Deliveries have one window or both; two are pilot folders without manifest. *)
EXTENDS LoadRun, TLC

Db(w, r, f) == [window |-> w, run |-> r, file |-> f]
MCFigures == 1 :> "first" @@ 2 :> "others" @@ 3 :> "first" @@ 4 :> "fourth"
MCNames == "m018" :> [f \in File |-> {"arm"}]
           @@ "selection" :> [f \in File |-> {IF f = 4 THEN "late cycle" ELSE "cycle"}]

Deliveries ==
  {[dbs |-> {Db(1, 2, 1)}, meta |-> FALSE], [dbs |-> {Db(1, 3, 4)}, meta |-> FALSE],
   [dbs |-> {Db(1, 1, 2)}, meta |-> TRUE], [dbs |-> {Db(1, 1, 3)}, meta |-> TRUE],
   [dbs |-> {Db(1, 1, 1), Db(2, 1, 1)}, meta |-> TRUE]}
FullDelivery == {[dbs |-> {Db(1, 1, 1), Db(2, 1, 1)}, meta |-> TRUE]}
=============================================================================
