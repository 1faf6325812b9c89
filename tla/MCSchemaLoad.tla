----------------------------- MODULE MCSchemaLoad -----------------------------
(* Two versions of schema/ in three files (tbox and shapes share a graph,   *)
(* instances names two) over a graph the gate also writes, one that the     *)
(* second version no longer names, and one that is not schema/'s.           *)
EXTENDS SchemaLoad

CONSTANTS tbox, current, retired, other,  (* the graphs                      *)
          x1, x2                          (* statements                       *)

File(t, c, r) ==
  [g \in Graph |-> CASE g = tbox -> t [] g = current -> c [] g = retired -> r [] OTHER -> {}]
SchemaFiles ==
  [v \in Version |->
     IF v = 1 THEN <<File({x1}, {}, {}), File({x2}, {}, {}), File({}, {x1}, {x1})>>
              ELSE <<File({x1}, {}, {}), File({x1}, {}, {}), File({}, {x2}, {})>>]
=============================================================================
