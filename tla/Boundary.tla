------------------------------- MODULE Boundary -------------------------------
(***************************************************************************)
(* boundary.py: what of the rows read from upstream's views may reach a     *)
(* projection.  A source or aggregate failure stops the run, a row failure  *)
(* quarantines the row with its group, and the quarantined share of a view  *)
(* has a cap.  Keys of late rows are kept in a file for the next run.       *)
(***************************************************************************)
EXTENDS Integers, Sequences, FiniteSets, FiniteSetsExt

CONSTANTS Expect,   (* view -> ViewExpectation, the files of view_expectations *)
          Floor, ForbiddenCycleTypes,             (* _source.json              *)
          Null,
          Junk,     (* a value of the wrong type, or a date nobody can read    *)
          Unit,     (* shares and tolerances are in 1/Unit                     *)
          FirstRows, Edits, MaxEdits   (* upstream: what it has and what changes *)

View == DOMAIN Expect
Caller == {"cycle", "backtest", "reference"}

ASSUME BoundaryAssumption ==
  /\ Unit \in Nat \ {0} /\ MaxEdits \in Nat
  /\ \A v \in View : 1 \in DOMAIN Expect[v].keys

VARIABLES
  rows,      (* view -> the rows it has: a row maps columns to values          *)
  source,    (* the database's schema version, cycle types and run statuses    *)
  file,      (* the late-key file: view -> key columns and keys                *)
  pc, dropped, queue,
  root,      (* cascaded_from: dropped cell -> the failing cell it goes back to *)
  kept,      (* what validate returned                                         *)
  edits

upstream == <<rows, source, edits>>
vars == <<upstream, file, pc, dropped, queue, root, kept>>

(* A row is named by its view and its place in the read.                    *)
Cells(v) == {v} \X DOMAIN rows[v]
Cell == UNION {Cells(v) : v \in View}
Get(c, column) ==
  IF column \in DOMAIN rows[c[1]][c[2]] THEN rows[c[1]][c[2]][column] ELSE Null
Key(c, columns) == [column \in columns |-> Get(c, column)]
NullIn(key) == \E column \in DOMAIN key : key[column] = Null
IsNumber(x) == x \notin {Null, Junk}
Matches(c, where) == \A column \in DOMAIN where : Get(c, column) \in where[column]

-----------------------------------------------------------------------------
(* Checks of a single row.  NULL is the NULL-rate check's business, except   *)
(* in an ordered pair that does not skip it.                                *)
TypeFails(c) == \E column \in Expect[c[1]].types : Get(c, column) = Junk
RangeFails(c) ==
  \E r \in Expect[c[1]].ranges :
    /\ Matches(c, r.where) /\ IsNumber(Get(c, r.column))
    /\ Get(c, r.column) \notin r.min..r.max
FormatFails(c) ==   \* timestamps and forensic flags; null: NULL is not this check's
  \E f \in Expect[c[1]].formats :
    IF Get(c, f.column) = Null THEN ~f.null ELSE Get(c, f.column) = Junk
KeyFailsSlip(c) ==
  \E k \in DOMAIN Expect[c[1]].keys, d \in Cells(c[1]) :
    /\ d[2] < c[2]
    /\ Key(c, Expect[c[1]].keys[k]) = Key(d, Expect[c[1]].keys[k])
    /\ ~NullIn(Key(c, Expect[c[1]].keys[k]))
KeyFails(c) ==
  \E k \in DOMAIN Expect[c[1]].keys, d \in Cells(c[1]) \ {c} :
    /\ Key(c, Expect[c[1]].keys[k]) = Key(d, Expect[c[1]].keys[k])
    /\ ~NullIn(Key(c, Expect[c[1]].keys[k]))
Holds(op, l, r) == CASE op = ">" -> l > r [] op = ">=" -> l >= r [] op = "=" -> l = r
                     [] op = "<" -> l < r [] op = "<=" -> l <= r
PairFails(c) ==
  \E p \in Expect[c[1]].pairs :
    LET l == Get(c, p.left)
        r == Get(c, p.right)
    IN  /\ Matches(c, p.where)
        /\ IF Null \in {l, r} THEN ~p.skip ELSE Junk \in {l, r} \/ ~Holds(p.op, l, r)
Failing ==
  {c \in Cell : TypeFails(c) \/ RangeFails(c) \/ FormatFails(c) \/ KeyFails(c) \/ PairFails(c)}

(* Checks of a whole view, which leave no row to drop.                      *)
Named(v) ==
  UNION {Expect[v].keys[k] : k \in DOMAIN Expect[v].keys} \cup Expect[v].types
    \cup {r.column : r \in Expect[v].nulls \cup Expect[v].ranges \cup Expect[v].means
                                 \cup Expect[v].formats}
    \cup UNION {{p.left, p.right} : p \in Expect[v].pairs} \cup UNION {m.by : m \in Expect[v].means}
    \cup UNION {DOMAIN r.where : r \in Expect[v].ranges \cup Expect[v].pairs \cup Expect[v].means}
MissingColumn(v) == rows[v] # <<>> /\ ~(Named(v) \subseteq DOMAIN rows[v][1])
Nulls(v, column) == {c \in Cells(v) : Get(c, column) = Null}
NullRateFails(v) ==
  \E n \in Expect[v].nulls :
    IF n.max = Null THEN Nulls(v, n.column) # Cells(v)
    ELSE Cardinality(Nulls(v, n.column)) * Unit > n.max * Cardinality(Cells(v))
Distance(n, m) == IF n < m THEN m - n ELSE n - m
MeanFails(v) ==
  \E m \in Expect[v].means :
    LET valued == {c \in Cells(v) : Matches(c, m.where) /\ IsNumber(Get(c, m.column))}
        group(c) == {d \in valued : Key(d, m.by) = Key(c, m.by)}
        total(G) == MapThenSumSet(LAMBDA d : Get(d, m.column), G)
    IN  \E c \in valued :
          Distance(total(group(c)), m.target * Cardinality(group(c)))
            > m.tolerance * Cardinality(group(c))
AggregateFails ==
  \E v \in View : \/ MissingColumn(v)
                  \/ Len(rows[v]) < Expect[v].min
                  \/ NullRateFails(v)
                  \/ MeanFails(v)

(* check_source, check_backtest_source and check_schema_floor.              *)
SourceFails(caller) ==
  \/ source.version < Floor
  \/ caller = "cycle" /\ source.cycles \cap ForbiddenCycleTypes # {}
  \/ caller = "backtest" /\ source.statuses # {"completed"}

-----------------------------------------------------------------------------
(* CASCADES: a dropped row of one view takes the rows of another that share  *)
(* these columns.                                                           *)
CascadesSlip ==
  {<<"v_cycle_ranking", "v_cycle_ranking_component", {"cycle_run_id", "asset_id"}>>,
   <<"v_cycle_ranking_component", "v_cycle_ranking", {"cycle_run_id", "asset_id"}>>,
   <<"v_weight_scheme", "v_weight_component", {"cycle_run_id"}>>,
   <<"v_weight_component", "v_weight_scheme", {"cycle_run_id"}>>}
Cascades ==
  {<<"v_cycle_ranking", "v_cycle_ranking_component", {"cycle_run_id", "asset_id"}>>,
   <<"v_cycle_ranking_component", "v_cycle_ranking", {"cycle_run_id", "asset_id"}>>,
   <<"v_weight_scheme", "v_weight_component", {"cycle_run_id"}>>,
   <<"v_weight_scheme", "v_cycle_ranking", {"cycle_run_id"}>>,
   <<"v_weight_component", "v_weight_scheme", {"cycle_run_id"}>>}
Takes(c) ==
  {d \in Cell : \E k \in Cascades :
     /\ k[1] = c[1] /\ k[2] = d[1]
     /\ Key(c, k[3]) = Key(d, k[3]) /\ ~NullIn(Key(c, k[3]))}

IngestionDated == {"v_score_snapshot"}
CycleLanes == {"SEMANTIC", "VALORIZATION", "TECHNICAL", "SECTOR"}
IsLate(c) == c[1] \in IngestionDated /\ Get(c, "score_type") \in CycleLanes
RowKey(v) == Expect[v].keys[1]
NaturalKey(c) == Key(c, RowKey(c[1]))
Dropped(v) == {c \in dropped : c[1] = v}
OverCap(v) == Cardinality(Dropped(v)) * Unit > Expect[v].cap * Len(rows[v])

NoKeys(v) == [columns |-> RowKey(v), keys |-> {}]
Nowhere == [c \in {} |-> c]

Init ==
  /\ rows = FirstRows
  /\ source \in [version : {Floor - 1, Floor}, cycles : {{}, ForbiddenCycleTypes},
                 statuses : {{}, {"completed"}, {"completed", "failed"}}]
  /\ \E V \in SUBSET (View \cap IngestionDated) :   \* keyed differently in the past
       file = [v \in View |->
                 IF v \in V THEN [columns |-> {"before"}, keys |-> {[column \in {"before"} |-> 1]}]
                 ELSE NoKeys(v)]
  /\ pc = "idle" /\ dropped = {} /\ queue = {} /\ root = Nowhere /\ kept = {}
  /\ edits = 0

Edit(v, i, column, x) ==
  /\ pc \in {"idle", "returned", "stopped"} /\ edits < MaxEdits
  /\ i \in DOMAIN rows[v] /\ rows[v][i][column] # x
  /\ rows' = [rows EXCEPT ![v][i][column] = x]
  /\ pc' = "idle" /\ edits' = edits + 1
  /\ dropped' = {} /\ queue' = {} /\ root' = Nowhere /\ kept' = {}
  /\ UNCHANGED <<source, file>>

Stop == pc' = "stopped" /\ UNCHANGED <<upstream, file, dropped, queue, root, kept>>

(* validate, up to the cascade.                                             *)
Refuse(caller) ==
  /\ pc = "idle" /\ (SourceFails(caller) \/ AggregateFails)
  /\ Stop
Begin(caller) ==
  /\ pc = "idle" /\ ~SourceFails(caller) /\ ~AggregateFails
  /\ pc' = "cascade"
  /\ dropped' = Failing /\ queue' = Failing /\ root' = [c \in Failing |-> c]
  /\ UNCHANGED <<upstream, file, kept>>

(* One turn of _cascade's loop; the order of its queue does not matter.     *)
TakenSlip(c) == {d \in Takes(c) : d \notin dropped /\ c \in Failing}
Taken(c) == Takes(c) \ dropped
RootOf(c) == root[c]
Take(c) ==
  /\ pc = "cascade" /\ c \in queue
  /\ dropped' = dropped \cup Taken(c)
  /\ queue' = (queue \ {c}) \cup Taken(c)
  /\ root' = [d \in dropped \cup Taken(c) |-> IF d \in dropped THEN root[d] ELSE RootOf(c)]
  /\ UNCHANGED <<upstream, file, pc, kept>>

EnforceCaps ==
  /\ pc = "cascade" /\ queue = {} /\ \E v \in View : OverCap(v)
  /\ Stop

(* _persist_late: keys stored under other columns can match no row any more. *)
PersistedSlip(v) ==
  [columns |-> RowKey(v), keys |-> {NaturalKey(c) : c \in {d \in Dropped(v) : IsLate(d)}}]
Persisted(v) ==
  LET late == {NaturalKey(c) : c \in {d \in Dropped(v) : IsLate(d)}}
      old == IF file[v].columns = RowKey(v) THEN file[v].keys ELSE {}
  IN  [columns |-> RowKey(v), keys |-> old \cup late]
Return ==
  /\ pc = "cascade" /\ queue = {} /\ \A v \in View : ~OverCap(v)
  /\ pc' = "returned"
  /\ kept' = Cell \ dropped
  /\ file' = [v \in View |-> Persisted(v)]
  /\ UNCHANGED <<upstream, dropped, queue, root>>

(* mark_written, as _settle_late_keys calls it: the projection has settled    *)
(* some rows of what it was given, and of other keys the read had no row.     *)
Gone(v) == file[v].keys \ {NaturalKey(c) : c \in Cells(v)}
MarkWritten(v) ==
  /\ pc = "returned" /\ file[v].columns = RowKey(v)
  /\ \E K \in SUBSET {NaturalKey(c) : c \in kept \cap Cells(v)} :
        /\ (K \cup Gone(v)) \cap file[v].keys # {}
        /\ file' = [file EXCEPT ![v] = [columns |-> RowKey(v), keys |-> file[v].keys \ (K \cup Gone(v))]]
  /\ UNCHANGED <<upstream, pc, dropped, queue, root, kept>>

Next ==
  \/ \E e \in Edits : Edit(e[1], e[2], e[3], e[4])
  \/ \E caller \in Caller : Refuse(caller) \/ Begin(caller)
  \/ \E c \in queue : Take(c)
  \/ EnforceCaps \/ Return
  \/ \E v \in View : MarkWritten(v)

Spec == Init /\ [][Next]_vars

-----------------------------------------------------------------------------
Closed(S) == \A c \in S : Takes(c) \subseteq S

(* However the queue is ordered, what is quarantined is the failing rows and  *)
(* everything they take with them, directly or through others, and no row    *)
(* more.                                                                    *)
CascadeIsLeast ==
  pc \in {"cascade", "returned"} /\ queue = {} =>
    /\ Failing \subseteq dropped /\ Closed(dropped)
    /\ \A S \in SUBSET dropped : Failing \subseteq S /\ Closed(S) => S = dropped

(* The report sends a reader to a row that failed itself, for every row that *)
(* was taken, and not to a row that was only taken before it.                *)
RootsFailed ==
  pc \in {"cascade", "returned"} => \A c \in dropped : root[c] \in Failing

(* A ranking reaches the projector with all of its components, and with the  *)
(* weight scheme of its cycle and all components of that scheme as they were *)
(* read: no asset is ranked by half of its inputs.                          *)
Of(v, cycle) == {c \in Cell : c[1] = v /\ Get(c, "cycle_run_id") = cycle}
WholeSelections ==
  pc = "returned" => \A r \in kept :
    r[1] = "v_cycle_ranking" /\ Get(r, "cycle_run_id") # Null =>
      /\ Of("v_weight_scheme", Get(r, "cycle_run_id")) \subseteq kept
      /\ Of("v_weight_scheme", Get(r, "cycle_run_id")) # {} =>
           Of("v_weight_component", Get(r, "cycle_run_id")) \subseteq kept
      /\ {c \in Of("v_cycle_ranking_component", Get(r, "cycle_run_id")) :
            Get(c, "asset_id") = Get(r, "asset_id") /\ Get(c, "asset_id") # Null} \subseteq kept

(* "A failed write never loses one": the key of a cycle lane's row that was  *)
(* quarantined stays in the file, through later runs, while any row upstream  *)
(* that has this key is held back.  It leaves when all of them were given to a *)
(* projection, which settled one, or when upstream has none left.  (mark_written *)
(* trusts keys to tell rows apart, which is the uniqueness check's to see to.)  *)
LateKeysAreFound ==
  [][\A v \in View : file[v].columns = RowKey(v) =>
       \A k \in file[v].keys \ file'[v].keys :
         ~NullIn(k) => {c \in Cells(v) : NaturalKey(c) = k} \subseteq kept]_vars
=============================================================================
