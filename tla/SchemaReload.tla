----------------------------- MODULE SchemaReload -----------------------------
(* What load_schema.py promises (its docstring): the graphs schema/ owns are *)
(* replaced together by what the files say, or nothing changes; no other    *)
(* graph is touched.  Other writers append statements at any time; what they *)
(* append while a load is under way may or may not survive it.              *)
EXTENDS Integers, FiniteSets, Sequences

CONSTANTS Graph, Statement, Version,  (* Version: the states schema/ goes through *)
          Files,       (* Files[v]: what each file of LOAD_PLAN puts where      *)
          Appendable   (* the graphs other programs write (the gate's targets)  *)

ASSUME FilesAssumption ==
  /\ Files \in [Version -> Seq([Graph -> SUBSET Statement])]
  /\ Appendable \subseteq Graph

VARIABLES store,
          base     (* the store as it was when the load under way opened       *)

(* expected_sizes: the graphs a load must produce, and their triples.       *)
Expected(v, g) == UNION {Files[v][i][g] : i \in 1..Len(Files[v])}
Owned(v) == {g \in Graph : Expected(v, g) # {}}

Empty == [g \in Graph |-> {}]

Open == base' = store /\ store' = store
Reload(v) ==
  /\ store' \in [Graph -> SUBSET Statement]
  /\ \A g \in Owned(v) : /\ Expected(v, g) \subseteq store'[g]
                         /\ store'[g] \subseteq Expected(v, g) \cup (store[g] \ base[g])
  /\ \A g \in Graph \ Owned(v) : store'[g] = store[g]
  /\ base' = base
AppendTo(g, x) == store' = [store EXCEPT ![g] = @ \cup {x}] /\ base' = base

ReloadNext ==
  \/ Open
  \/ \E v \in Version : Reload(v)
  \/ \E g \in Appendable, x \in Statement : AppendTo(g, x)
ReloadSpec == store = Empty /\ base = Empty /\ [][ReloadNext]_<<store, base>>
=============================================================================
