---------------------------- MODULE Boundary_proofs ----------------------------
(***************************************************************************)
(* For every view, row and expectation: what the cascade of Boundary takes   *)
(* is the least closed set with the failing rows, a selection is returned    *)
(* whole, and a late key stays in its file while a row with it is held back.  *)
(***************************************************************************)
EXTENDS Boundary, TLAPS

(* What is known of the cascade while its queue is worked off.              *)
Collecting ==
  /\ queue \subseteq dropped /\ dropped \subseteq Cell
  /\ Failing \subseteq dropped
  /\ \A c \in dropped \ queue : Takes(c) \subseteq dropped
  /\ \A S \in SUBSET Cell : Failing \subseteq S /\ Closed(S) => dropped \subseteq S
RootsInv == DOMAIN root = dropped /\ \A c \in dropped : root[c] \in Failing
FileInv == DOMAIN file = View
Inv ==
  /\ pc \in {"idle", "cascade", "returned", "stopped"}
  /\ pc \in {"cascade", "returned"} => Collecting /\ RootsInv
  /\ pc = "returned" => queue = {} /\ kept = Cell \ dropped

(* What a row takes depends on nothing but the rows.                        *)
LEMMA SameRows ==
  ASSUME rows' = rows
  PROVE  /\ Cell' = Cell /\ Failing' = Failing
         /\ \A c : Takes(c)' = Takes(c)
<1>1. Cell' = Cell
  BY DEF Cell, Cells
<1>2. Failing' = Failing
  BY DEF Failing, Cell, Cells, TypeFails, RangeFails, FormatFails, KeyFails, PairFails, Get, Key, NullIn,
         IsNumber, Matches
<1>3. \A c : Takes(c)' = Takes(c)
  BY DEF Takes, Cell, Cells, Key, Get, NullIn
<1> QED
  BY <1>1, <1>2, <1>3

LEMMA TakesBy ==
  ASSUME NEW c \in Cell, NEW d \in Cell, NEW on,
         <<c[1], d[1], on>> \in Cascades, Key(c, on) = Key(d, on), ~NullIn(Key(c, on))
  PROVE  d \in Takes(c)
<1> DEFINE k == <<c[1], d[1], on>>
<1>1. k[1] = c[1] /\ k[2] = d[1] /\ k[3] = on
  OBVIOUS
<1> QED
  BY <1>1 DEF Takes

(* What the program starts with.                                            *)
LEMMA Initially == Init => Inv /\ FileInv
<1> SUFFICES ASSUME Init PROVE Inv /\ FileInv
  OBVIOUS
<1>1. Inv
  BY DEF Init, Inv
<1>2. FileInv
  <2>1. PICK V \in SUBSET (View \cap IngestionDated) :
          file = [v \in View |->
                    IF v \in V THEN [columns |-> {"before"}, keys |-> {[column \in {"before"} |-> 1]}]
                    ELSE NoKeys(v)]
    BY DEF Init
  <2> QED
    BY <2>1 DEF FileInv, NoKeys
<1> QED
  BY <1>1, <1>2

(* A run starts with the failing rows in its queue.                         *)
LEMMA BeginInv ==
  ASSUME Inv, NEW caller \in Caller, Begin(caller)
  PROVE  Inv'
<1>1. rows' = rows
  BY DEF Begin, upstream
<1>2. Failing' = Failing /\ Cell' = Cell /\ \A c : Takes(c)' = Takes(c)
  BY <1>1, SameRows
<1>3. dropped' = Failing /\ queue' = Failing /\ root' = [c \in Failing |-> c] /\ pc' = "cascade"
  BY DEF Begin
<1>4. Failing \subseteq Cell
  BY DEF Failing
<1>5. Collecting'
  BY <1>2, <1>3, <1>4 DEF Collecting, Closed
<1>6. RootsInv'
  BY <1>2, <1>3 DEF RootsInv
<1> QED
  BY <1>3, <1>5, <1>6 DEF Inv

(* One turn of the queue keeps what is known of it.                         *)
LEMMA TakeInv ==
  ASSUME Inv, NEW c \in queue, Take(c)
  PROVE  Inv'
<1>1. rows' = rows /\ pc = "cascade" /\ pc' = "cascade"
  BY DEF Take, upstream
<1>2. Failing' = Failing /\ Cell' = Cell /\ \A d : Takes(d)' = Takes(d)
  BY <1>1, SameRows
<1>3. Collecting /\ RootsInv
  BY <1>1 DEF Inv
<1>4. /\ dropped' = dropped \cup (Takes(c) \ dropped)
      /\ queue' = (queue \ {c}) \cup (Takes(c) \ dropped)
      /\ root' = [d \in dropped \cup (Takes(c) \ dropped) |->
                    IF d \in dropped THEN root[d] ELSE root[c]]
  BY DEF Take, Taken, RootOf
<1>5. Takes(c) \subseteq Cell /\ c \in dropped
  BY <1>3 DEF Takes, Collecting
<1>6. Collecting'
  <2>1. queue' \subseteq dropped' /\ dropped' \subseteq Cell' /\ Failing' \subseteq dropped'
    BY <1>2, <1>3, <1>4, <1>5 DEF Collecting
  <2>2. ASSUME NEW d \in dropped' \ queue' PROVE Takes(d)' \subseteq dropped'
    BY <1>2, <1>3, <1>4 DEF Collecting
  <2>3. ASSUME NEW S \in SUBSET Cell', Failing' \subseteq S, Closed(S)' PROVE dropped' \subseteq S
    <3>1. \A d \in S : Takes(d) \subseteq S
      BY <1>2, <2>3 DEF Closed
    <3>2. dropped \subseteq S
      BY <1>2, <1>3, <2>3, <3>1 DEF Collecting, Closed
    <3> QED
      BY <1>4, <1>5, <3>1, <3>2
  <2> QED
    BY <2>1, <2>2, <2>3 DEF Collecting
<1>7. RootsInv'
  <2>1. DOMAIN root' = dropped'
    BY <1>4
  <2>2. ASSUME NEW d \in dropped' PROVE root'[d] \in Failing'
    BY <1>2, <1>3, <1>4, <1>5 DEF RootsInv
  <2> QED
    BY <2>1, <2>2 DEF RootsInv
<1> QED
  BY <1>1, <1>6, <1>7 DEF Inv

(* Steps that leave the rows and the cascade as they are.                    *)
LEMMA Resting ==
  ASSUME Inv, rows' = rows, UNCHANGED <<dropped, queue, root>>,
         \/ pc' = pc /\ kept' = kept
         \/ pc = "cascade" /\ pc' = "returned" /\ queue = {} /\ kept' = Cell \ dropped
         \/ pc' = "stopped"
  PROVE  Inv'
<1>1. Failing' = Failing /\ Cell' = Cell /\ \A d : Takes(d)' = Takes(d)
  BY SameRows
<1>2. dropped' = dropped /\ queue' = queue /\ root' = root
  OBVIOUS
<1>3. Collecting => Collecting'
  BY <1>1, <1>2 DEF Collecting, Closed
<1>4. RootsInv => RootsInv'
  BY <1>1, <1>2 DEF RootsInv
<1> QED
  BY <1>1, <1>2, <1>3, <1>4 DEF Inv

LEMMA StepInv == Inv /\ [Next]_vars => Inv'
<1> SUFFICES ASSUME Inv, [Next]_vars PROVE Inv'
  OBVIOUS
<1>1. ASSUME NEW e \in Edits, Edit(e[1], e[2], e[3], e[4]) PROVE Inv'
  BY <1>1 DEF Edit, Inv
<1>2. ASSUME NEW caller \in Caller, Refuse(caller) PROVE Inv'
  BY <1>2, Resting DEF Refuse, Stop, upstream
<1>3. ASSUME NEW caller \in Caller, Begin(caller) PROVE Inv'
  BY <1>3, BeginInv
<1>4. ASSUME NEW c \in queue, Take(c) PROVE Inv'
  BY <1>4, TakeInv
<1>5. CASE EnforceCaps
  BY <1>5, Resting DEF EnforceCaps, Stop, upstream
<1>6. CASE Return
  BY <1>6, Resting DEF Return, upstream
<1>7. ASSUME NEW v \in View, MarkWritten(v) PROVE Inv'
  BY <1>7, Resting DEF MarkWritten, upstream
<1>8. CASE UNCHANGED vars
  BY <1>8, Resting DEF vars, upstream
<1> QED
  BY <1>1, <1>2, <1>3, <1>4, <1>5, <1>6, <1>7, <1>8 DEF Next

LEMMA Invariance == Spec => []Inv
<1> QED
  BY Initially, StepInv, PTL DEF Spec

(* _cascade drops the failing rows and what they take, and no row more, in   *)
(* whatever order it works off its queue.                                   *)
THEOREM CascadeLeast == Spec => []CascadeIsLeast
<1>1. Inv => CascadeIsLeast
  <2> SUFFICES ASSUME Inv, pc \in {"cascade", "returned"}, queue = {}
               PROVE  /\ Failing \subseteq dropped /\ Closed(dropped)
                      /\ \A S \in SUBSET dropped : Failing \subseteq S /\ Closed(S) => S = dropped
    BY DEF CascadeIsLeast
  <2>1. Collecting
    BY DEF Inv
  <2> QED
    BY <2>1 DEF Collecting, Closed
<1> QED
  BY <1>1, Invariance, PTL

(* The report names for every taken row a row that failed by itself.        *)
THEOREM RootsFail == Spec => []RootsFailed
<1>1. Inv => RootsFailed
  BY DEF Inv, RootsInv, RootsFailed
<1> QED
  BY <1>1, Invariance, PTL

(* A ranking that is returned has its scheme, the scheme's components and    *)
(* its own components with it.                                              *)
THEOREM SelectionsWhole == Spec => []WholeSelections
<1>1. ASSUME Inv PROVE WholeSelections
  <2> SUFFICES ASSUME pc = "returned", NEW r \in kept, r[1] = "v_cycle_ranking",
                      Get(r, "cycle_run_id") # Null
               PROVE  /\ Of("v_weight_scheme", Get(r, "cycle_run_id")) \subseteq kept
                      /\ Of("v_weight_scheme", Get(r, "cycle_run_id")) # {} =>
                           Of("v_weight_component", Get(r, "cycle_run_id")) \subseteq kept
                      /\ {c \in Of("v_cycle_ranking_component", Get(r, "cycle_run_id")) :
                            /\ Get(c, "asset_id") = Get(r, "asset_id")
                            /\ Get(c, "asset_id") # Null} \subseteq kept
    BY DEF WholeSelections
  <2> DEFINE k == Get(r, "cycle_run_id")
  <2>1. kept = Cell \ dropped /\ Closed(dropped) /\ r \in Cell
    BY <1>1 DEF Inv, Collecting, Closed
  <2>2. ASSUME NEW c \in Of("v_weight_scheme", k) PROVE r \in Takes(c)
    <3>1. <<"v_weight_scheme", "v_cycle_ranking", {"cycle_run_id"}>> \in Cascades
      BY DEF Cascades
    <3>2. Key(c, {"cycle_run_id"}) = Key(r, {"cycle_run_id"}) /\ ~NullIn(Key(c, {"cycle_run_id"}))
      BY <2>2 DEF Of, Key, NullIn
    <3> QED
      BY <2>1, <2>2, <3>1, <3>2, TakesBy DEF Of
  <2>3. Of("v_weight_scheme", k) \subseteq kept
    BY <2>1, <2>2 DEF Closed, Of
  <2>4. ASSUME NEW c \in Of("v_weight_component", k), NEW s \in Of("v_weight_scheme", k)
        PROVE s \in Takes(c)
    <3>1. <<"v_weight_component", "v_weight_scheme", {"cycle_run_id"}>> \in Cascades
      BY DEF Cascades
    <3>2. Key(c, {"cycle_run_id"}) = Key(s, {"cycle_run_id"}) /\ ~NullIn(Key(c, {"cycle_run_id"}))
      BY <2>4 DEF Of, Key, NullIn
    <3>3. c \in Cell /\ s \in Cell /\ c[1] = "v_weight_component" /\ s[1] = "v_weight_scheme"
      BY <2>4 DEF Of
    <3> QED
      BY <3>1, <3>2, <3>3, TakesBy
  <2>5. Of("v_weight_scheme", k) # {} => Of("v_weight_component", k) \subseteq kept
    BY <2>1, <2>3, <2>4 DEF Closed, Of
  <2>6. ASSUME NEW c \in Of("v_cycle_ranking_component", k),
               Get(c, "asset_id") = Get(r, "asset_id"), Get(c, "asset_id") # Null
        PROVE  c \in kept
    <3>1. <<"v_cycle_ranking_component", "v_cycle_ranking", {"cycle_run_id", "asset_id"}>> \in Cascades
      BY DEF Cascades
    <3>2. /\ Key(c, {"cycle_run_id", "asset_id"}) = Key(r, {"cycle_run_id", "asset_id"})
          /\ ~NullIn(Key(c, {"cycle_run_id", "asset_id"}))
      BY <2>6 DEF Of, Key, NullIn
    <3>3. c \in Cell /\ c[1] = "v_cycle_ranking_component"
      BY <2>6 DEF Of
    <3>4. r \in Takes(c)
      BY <2>1, <3>1, <3>2, <3>3, TakesBy
    <3> QED
      BY <2>1, <3>3, <3>4 DEF Closed
  <2> QED
    BY <2>3, <2>5, <2>6
<1> QED
  BY <1>1, Invariance, PTL

(* What the two writers of the file do to its keys.                         *)
HeldBack(v, k) == ~NullIn(k) => {c \in Cells(v) : NaturalKey(c) = k} \subseteq kept

(* Two rows of one key both fail, so with one of them every one was let      *)
(* through.                                                                 *)
LEMMA KeysTellApart ==
  ASSUME Inv, pc = "returned", NEW v \in View, NEW c \in kept \cap Cells(v)
  PROVE  HeldBack(v, NaturalKey(c))
<1> SUFFICES ASSUME NEW d \in Cells(v), NaturalKey(d) = NaturalKey(c), ~NullIn(NaturalKey(c))
             PROVE  d \in kept
  BY DEF HeldBack
<1>1. kept = Cell \ dropped /\ Failing \subseteq dropped
  BY DEF Inv, Collecting
<1>2. c \in Cell /\ d \in Cell /\ c[1] = v /\ d[1] = v
  BY DEF Cell, Cells
<1>3. CASE c = d
  BY <1>3
<1>4. CASE c # d
  <2>1. 1 \in DOMAIN Expect[v].keys
    BY BoundaryAssumption
  <2>2. Key(c, Expect[v].keys[1]) = Key(d, Expect[v].keys[1]) /\ ~NullIn(Key(c, Expect[v].keys[1]))
    BY <1>2 DEF NaturalKey, RowKey
  <2>3. KeyFails(c)
    BY <1>2, <1>4, <2>1, <2>2 DEF KeyFails
  <2> QED
    BY <1>1, <1>2, <2>3 DEF Failing
<1> QED
  BY <1>3, <1>4

LEMMA MarkFile ==
  ASSUME Inv, FileInv, NEW v \in View, MarkWritten(v)
  PROVE  /\ FileInv'
         /\ \A w \in View \ {v} : file'[w] = file[w]
         /\ \A k \in file[v].keys \ file'[v].keys : HeldBack(v, k)
<1>1. PICK K \in SUBSET {NaturalKey(c) : c \in kept \cap Cells(v)} :
        file' = [file EXCEPT ![v] = [columns |-> RowKey(v), keys |-> file[v].keys \ (K \cup Gone(v))]]
  BY DEF MarkWritten
<1>2. file'[v].keys = file[v].keys \ (K \cup Gone(v))
  BY <1>1 DEF FileInv
<1>3. FileInv' /\ \A w \in View \ {v} : file'[w] = file[w]
  BY <1>1 DEF FileInv
<1>4. ASSUME NEW k \in K PROVE HeldBack(v, k)
  <2>1. PICK c \in kept \cap Cells(v) : k = NaturalKey(c)
    OBVIOUS
  <2> QED
    BY <2>1, KeysTellApart DEF MarkWritten
<1>5. ASSUME NEW k \in Gone(v) PROVE HeldBack(v, k)
  BY DEF Gone, HeldBack
<1> QED
  BY <1>2, <1>3, <1>4, <1>5

LEMMA ReturnFile ==
  ASSUME FileInv, Return
  PROVE  /\ FileInv'
         /\ \A v \in View : file[v].columns = RowKey(v) => file[v].keys \subseteq file'[v].keys
<1>1. file' = [v \in View |-> Persisted(v)]
  BY DEF Return
<1>2. \A v \in View : file[v].columns = RowKey(v) => file[v].keys \subseteq Persisted(v).keys
  BY DEF Persisted, NoKeys
<1> QED
  BY <1>1, <1>2 DEF FileInv

(* While a row upstream that has the key is held back, the key stays in the  *)
(* late-key file: validate only adds, and of what mark_written is given, a    *)
(* key of a row let through is no other row's, or both had failed.            *)
THEOREM LateKeysFound == Spec => LateKeysAreFound
<1> DEFINE Found == \A v \in View : file[v].columns = RowKey(v) =>
       \A k \in file[v].keys \ file'[v].keys :
         ~NullIn(k) => {c \in Cells(v) : NaturalKey(c) = k} \subseteq kept
<1>1. Inv /\ FileInv /\ [Next]_vars => FileInv' /\ [Found]_vars
  <2> SUFFICES ASSUME Inv, FileInv, [Next]_vars PROVE FileInv' /\ [Found]_vars
    OBVIOUS
  <2>1. CASE file' = file
    BY <2>1 DEF FileInv
  <2>2. ASSUME NEW v \in View, MarkWritten(v) PROVE FileInv' /\ Found
    BY <2>2, MarkFile DEF HeldBack
  <2>3. ASSUME Return PROVE FileInv' /\ Found
    BY <2>3, ReturnFile
  <2>4. Next => file' = file \/ Return \/ \E v \in View : MarkWritten(v)
    BY DEF Next, Edit, Refuse, Stop, Begin, Take, EnforceCaps
  <2> QED
    BY <2>1, <2>2, <2>3, <2>4 DEF vars
<1>2. Spec => [][Found]_vars
  BY Initially, Invariance, <1>1, PTL DEF Spec
<1> QED
  BY <1>2, PTL DEF LateKeysAreFound
=============================================================================
