--------------------------- MODULE SchemaLoad_proofs ---------------------------
(* load_schema.py's transaction implements the one-step replacement, for     *)
(* any graphs, statements, files and versions of schema/; and its check of   *)
(* counts is as good as a check of contents.                                 *)
EXTENDS SchemaLoad, FiniteSetTheorems, TLAPS

(* What the first n files say of a graph.                                   *)
Said(v, n, g) == UNION {Files[v][i][g] : i \in 1..n}

LInv ==
  /\ TypeOK
  /\ pc = "drop" => next = 1 /\ \A g \in Owned(disk) \ left : txn[g] = {}
  /\ pc = "add" => /\ next \in 1..(Len(Files[disk]) + 1)
                   /\ \A g \in Owned(disk) : txn[g] = Said(disk, next - 1, g)
  /\ pc = "commit" => \A g \in Owned(disk) : txn[g] = Expected(disk, g)
  /\ pc = "verify" => \A g \in Owned(disk) : Expected(disk, g) \subseteq store[g]

(* What a version's files say are statements.                               *)
LEMMA FilesType ==
  ASSUME NEW v \in Version
  PROVE  /\ Len(Files[v]) \in Nat
         /\ \A i \in 1..Len(Files[v]) : Files[v][i] \in [Graph -> SUBSET Statement]
         /\ \A g \in Graph : Expected(v, g) \subseteq Statement
<1>1. Files[v] \in Seq([Graph -> SUBSET Statement])
  BY FilesAssumption
<1>2. \A i \in 1..Len(Files[v]) : Files[v][i] \in [Graph -> SUBSET Statement]
  BY <1>1
<1>3. QED
  BY <1>1, <1>2 DEF Expected

(* One more file joins what the files so far say.                           *)
LEMMA SaidStep ==
  ASSUME NEW v \in Version, NEW n \in Nat, NEW g \in Graph
  PROVE  Said(v, n + 1, g) = Said(v, n, g) \cup Files[v][n + 1][g]
<1>1. 1..(n + 1) = 1..n \cup {n + 1}
  OBVIOUS
<1>2. QED
  BY <1>1 DEF Said

(* The loader's invariant at the start.                                     *)
LEMMA LoadInit == Init => LInv
<1> SUFFICES ASSUME Init PROVE LInv
  OBVIOUS
<1>1. Empty \in [Graph -> SUBSET Statement]
  BY DEF Empty
<1>2. QED
  BY <1>1 DEF Init, LInv, TypeOK

(* A commit replaces the owned graphs by what the files say, beside what    *)
(* others appended meanwhile.                                               *)
LEMMA CommitReloads ==
  ASSUME LInv, pc = "commit", Committed, base' = base
  PROVE  Reload(disk)
<1>1. PICK late \in SUBSET {e \in Owned(disk) \X Statement : e[2] \in store[e[1]] \ base[e[1]]} :
        store' = [g \in Graph |-> IF g \in Owned(disk)
                                THEN txn[g] \cup {x \in Statement : <<g, x>> \in late}
                                ELSE store[g]]
  BY DEF Committed
<1>2. txn \in [Graph -> SUBSET Statement] /\ store \in [Graph -> SUBSET Statement]
  BY DEF LInv, TypeOK
<1>3. store' \in [Graph -> SUBSET Statement]
  BY <1>1, <1>2
<1>4. ASSUME NEW g \in Owned(disk)
      PROVE  Expected(disk, g) \subseteq store'[g]
             /\ store'[g] \subseteq Expected(disk, g) \cup (store[g] \ base[g])
  <2>1. g \in Graph /\ txn[g] = Expected(disk, g)
    BY DEF LInv, Owned
  <2>2. store'[g] = txn[g] \cup {x \in Statement : <<g, x>> \in late}
    BY <1>1, <2>1
  <2>3. \A x \in Statement : <<g, x>> \in late => x \in store[g] \ base[g]
    BY <1>1
  <2>4. QED
    BY <2>1, <2>2, <2>3
<1>5. \A g \in Graph \ Owned(disk) : store'[g] = store[g]
  BY <1>1
<1>6. QED
  BY <1>3, <1>4, <1>5 DEF Reload

(* Every step of the loader and of the others keeps the invariant.          *)
LEMMA LoadStep == ASSUME LInv, [Next]_loadVars PROVE LInv'
<1>0. /\ TypeOK /\ disk \in Version
      /\ pc = "drop" => next = 1 /\ \A g \in Owned(disk) \ left : txn[g] = {}
      /\ pc = "add" => /\ next \in 1..(Len(Files[disk]) + 1)
                       /\ \A g \in Owned(disk) : txn[g] = Said(disk, next - 1, g)
      /\ pc = "verify" => \A g \in Owned(disk) : Expected(disk, g) \subseteq store[g]
  BY DEF LInv, TypeOK
<1>1. CASE UNCHANGED loadVars
  BY <1>1 DEF loadVars, TypeOK, LInv
<1>2. CASE Start
  BY <1>0, <1>2 DEF Start, TypeOK, LInv
<1>3. CASE Begin
  <2>1. Owned(disk) \subseteq Graph
    BY DEF Owned
  <2>2. /\ pc' = "drop" /\ txn' = store /\ base' = store /\ left' = Owned(disk) /\ next' = 1
        /\ store' = store /\ disk' = disk /\ outcome' = outcome
    BY <1>3 DEF Begin, Open
  <2>3. left' \subseteq Graph /\ next' \in Nat \ {0}
    BY <2>1, <2>2
  <2>4. TypeOK'
    BY <1>0, <2>2, <2>3 DEF TypeOK
  <2>5. \A g \in Owned(disk') \ left' : txn'[g] = {}
    BY <2>2
  <2>6. QED
    BY <2>2, <2>4, <2>5 DEF LInv
<1>4. ASSUME NEW g \in Graph, DropGraph(g) PROVE LInv'
  <2>1. TypeOK'
    BY <1>0, <1>4 DEF DropGraph, TypeOK
  <2>2. \A h \in Owned(disk) \ left' : txn'[h] = {}
    BY <1>0, <1>4 DEF DropGraph, TypeOK, Owned
  <2>3. QED
    BY <1>0, <1>4, <2>1, <2>2 DEF DropGraph, LInv
<1>5. CASE Dropped
  <2>1. TypeOK' /\ pc' = "add" /\ UNCHANGED <<disk, txn, next>> /\ next = 1
    BY <1>0, <1>5 DEF Dropped, TypeOK
  <2>2. Len(Files[disk]) \in Nat
    BY <1>0, FilesType
  <2>3. \A g \in Owned(disk) : txn[g] = {} /\ Said(disk, 0, g) = {}
    BY <1>0, <1>5 DEF Dropped, Said
  <2>4. next' \in 1..(Len(Files[disk]) + 1) /\ next' - 1 = 0
    BY <2>1, <2>2
  <2>5. QED
    BY <2>1, <2>3, <2>4 DEF LInv
<1>6. CASE AddFile
  <2>1. /\ pc = "add" /\ pc' = "add" /\ next' = next + 1 /\ next <= Len(Files[disk])
        /\ txn' = [g \in Graph |-> txn[g] \cup Files[disk][next][g]]
        /\ store' = store /\ disk' = disk /\ base' = base /\ left' = left
        /\ outcome' = outcome
    BY <1>6 DEF AddFile
  <2>2. Len(Files[disk]) \in Nat
    BY <1>0, FilesType
  <2>3. next \in 1..Len(Files[disk])
    BY <1>0, <2>1, <2>2
  <2>4. Files[disk][next] \in [Graph -> SUBSET Statement]
    BY <1>0, <2>3, FilesType
  <2>5. txn' \in [Graph -> SUBSET Statement] /\ next' \in Nat \ {0}
    <3>1. txn \in [Graph -> SUBSET Statement]
      BY <1>0 DEF TypeOK
    <3>2. \A g \in Graph : txn[g] \cup Files[disk][next][g] \in SUBSET Statement
      BY <2>4, <3>1
    <3>3. QED
      BY <2>1, <2>2, <2>3, <3>2
  <2>6. TypeOK'
    BY <1>0, <2>1, <2>5 DEF TypeOK
  <2>7. ASSUME NEW g \in Owned(disk) PROVE txn'[g] = Said(disk, next, g)
    <3>1. g \in Graph /\ txn[g] = Said(disk, next - 1, g)
      BY <1>0, <2>1 DEF Owned
    <3>2. Said(disk, next, g) = Said(disk, next - 1, g) \cup Files[disk][next][g]
      <4>1. next - 1 \in Nat /\ (next - 1) + 1 = next
        BY <2>2, <2>3
      <4>2. QED
        BY <1>0, <3>1, <4>1, SaidStep
    <3>3. QED
      BY <2>1, <3>1, <3>2
  <2>8. next' \in 1..(Len(Files[disk]) + 1) /\ next' - 1 = next
    BY <2>1, <2>2, <2>3
  <2>9. QED
    BY <2>1, <2>6, <2>7, <2>8 DEF LInv
<1>7. CASE Added
  <2>1. /\ pc = "add" /\ pc' = "commit" /\ next > Len(Files[disk])
        /\ UNCHANGED <<store, disk, txn, next, base, left, outcome>>
    BY <1>7 DEF Added
  <2>2. Len(Files[disk]) \in Nat
    BY <1>0, FilesType
  <2>3. next - 1 = Len(Files[disk])
    BY <1>0, <2>1, <2>2
  <2>4. \A g \in Owned(disk) : txn[g] = Expected(disk, g)
    BY <1>0, <2>1, <2>3 DEF Said, Expected
  <2>5. TypeOK'
    BY <1>0, <2>1 DEF TypeOK
  <2>6. QED
    BY <2>1, <2>4, <2>5 DEF LInv
<1>8. CASE Commit
  <2>1. Reload(disk) /\ pc' = "verify" /\ disk' = disk
    BY <1>8, CommitReloads DEF Commit
  <2>2. TypeOK'
    BY <1>0, <1>8, <2>1 DEF Commit, TypeOK, Reload
  <2>3. QED
    BY <2>1, <2>2 DEF Reload, LInv
<1>9. CASE LoseCommit
  <2>1. Reload(disk) /\ pc' = "idle"
    BY <1>9, CommitReloads DEF LoseCommit, End
  <2>2. TypeOK'
    BY <1>0, <1>9, <2>1 DEF LoseCommit, End, TypeOK, Reload
  <2>3. QED
    BY <2>1, <2>2 DEF LInv
<1>10. CASE RollBack \/ Verify \/ VerifyFails
  BY <1>0, <1>10 DEF RollBack, Verify, VerifyFails, End, TypeOK, LInv
<1>11. ASSUME NEW v \in Version, Edit(v) PROVE LInv'
  BY <1>0, <1>11 DEF Edit, TypeOK, LInv
<1>12. ASSUME NEW g \in Graph, NEW x \in Statement, OtherWriter(g, x) PROVE LInv'
  <2>1. /\ store' = [store EXCEPT ![g] = @ \cup {x}]
        /\ UNCHANGED <<disk, pc, txn, base, left, next, outcome>>
    BY <1>12 DEF OtherWriter, AppendTo
  <2>2. TypeOK'
    BY <1>0, <2>1 DEF TypeOK
  <2>3. \A h \in Graph : store[h] \subseteq store'[h]
    BY <1>0, <2>1 DEF TypeOK
  <2>4. Owned(disk) \subseteq Graph
    BY DEF Owned
  <2>5. QED
    BY <2>1, <2>2, <2>3, <2>4 DEF LInv
<1>13. QED
  BY <1>1, <1>2, <1>3, <1>4, <1>5, <1>6, <1>7, <1>8, <1>9, <1>10, <1>11, <1>12
     DEF Next

THEOREM LoadInvariant == Spec => []LInv
BY LoadInit, LoadStep, PTL DEF Spec

(* The loader's state always has its types: in particular a transaction     *)
(* only ever holds statements of the schema and of the store.               *)
THEOREM LoadTypeCorrect == Spec => []TypeOK
<1>1. LInv => TypeOK
  BY DEF LInv
<1>2. QED
  BY <1>1, LoadInvariant, PTL

(* Seen from the store, a load is one replacement of the owned graphs, or   *)
(* nothing: readers and other writers never meet a half-loaded schema.      *)
THEOREM LoadIsOneReplacement == Spec => OneReplacement
<1>1. Init => store = Empty /\ base = Empty
  BY DEF Init
<1>2. LInv /\ [Next]_loadVars => [ReloadNext]_<<store, base>>
  <2> SUFFICES ASSUME LInv, Next PROVE ReloadNext \/ UNCHANGED <<store, base>>
    BY DEF loadVars
  <2>1. disk \in Version
    BY DEF LInv, TypeOK
  <2>2. CASE Commit \/ LoseCommit
    BY <2>1, <2>2, CommitReloads DEF Commit, LoseCommit, ReloadNext
  <2>3. ASSUME NEW g \in Graph, NEW x \in Statement, OtherWriter(g, x)
        PROVE  ReloadNext
    BY <2>3 DEF OtherWriter, ReloadNext
  <2>4. CASE Begin
    BY <2>4 DEF Begin, ReloadNext
  <2>5. CASE Start \/ (\E g \in Graph : DropGraph(g)) \/ Dropped \/ AddFile
             \/ Added \/ Verify \/ RollBack \/ VerifyFails \/ \E v \in Version : Edit(v)
    BY <2>5 DEF Start, DropGraph, Dropped, AddFile, Added, Verify, RollBack,
                VerifyFails, Edit
  <2>6. QED
    BY <2>2, <2>3, <2>4, <2>5 DEF Next
<1>3. QED
  BY <1>1, <1>2, LoadInvariant, PTL DEF Spec, OneReplacement, ReloadSpec

(* Equal counts mean equal contents, because a commit leaves at least what  *)
(* the files say and nobody removes anything before verify reads.           *)
THEOREM CountsSuffice ==
  ASSUME IsFiniteSet(Statement)
  PROVE  Spec => VerifiedMeansLoaded
<1> DEFINE Sound == pc = "verify" /\ pc' = "idle" /\ outcome' = "verified" =>
                      \A g \in Owned(disk) : store[g] = Expected(disk, g)
<1>1. LInv /\ [Next]_loadVars => [Sound]_loadVars
  <2> SUFFICES ASSUME LInv, Next, pc = "verify", pc' = "idle", outcome' = "verified",
                      NEW g \in Owned(disk)
               PROVE  store[g] = Expected(disk, g) \/ UNCHANGED loadVars
    OBVIOUS
  <2>1. CASE CountsMatch
    <3>1. g \in Graph /\ Expected(disk, g) \subseteq store[g] /\ store[g] \subseteq Statement
      BY DEF LInv, TypeOK, Owned
    <3>2. IsFiniteSet(store[g])
      BY <3>1, FS_Subset
    <3>3. Cardinality(store[g]) = Cardinality(Expected(disk, g))
      BY <2>1 DEF CountsMatch
    <3>4. QED
      BY <3>1, <3>2, <3>3, FS_Subset
  <2>2. CASE ~CountsMatch
    <3>1. CASE Verify
      BY <2>2, <3>1 DEF Verify, End
    <3>2. ~Start /\ ~Begin /\ (\A h \in Graph : ~DropGraph(h)) /\ ~Dropped
      BY DEF Start, Begin, DropGraph, Dropped
    <3>3. ~AddFile /\ ~Added /\ ~Commit /\ ~RollBack /\ ~LoseCommit
      BY DEF AddFile, Added, Commit, RollBack, LoseCommit
    <3>4. ~VerifyFails /\ \A v \in Version : ~Edit(v)
      BY DEF VerifyFails, End, Edit
    <3>5. \A h \in Graph, x \in Statement : ~OtherWriter(h, x)
      BY DEF OtherWriter
    <3>6. QED
      BY <3>1, <3>2, <3>3, <3>4, <3>5 DEF Next
  <2>3. QED
    BY <2>1, <2>2
<1>2. QED
  BY <1>1, LoadInvariant, PTL DEF Spec, VerifiedMeansLoaded
=============================================================================
