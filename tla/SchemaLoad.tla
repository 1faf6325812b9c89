------------------------------ MODULE SchemaLoad ------------------------------
(***************************************************************************)
(* load_schema.py request by request: parse the files, open an RDF4J       *)
(* transaction, drop every owned graph, add every file, commit, then       *)
(* compare counts.  Any request may fail or be interrupted, and the answer *)
(* to the commit may be lost with the commit done or not.                  *)
(***************************************************************************)
EXTENDS SchemaReload

VARIABLES disk,     (* the version of schema/ in the working tree            *)
          pc,       (* the loader's next request                             *)
          txn,      (* the transaction's own view of the store               *)
          left,     (* owned graphs still to be dropped                      *)
          next,     (* the file of LOAD_PLAN to add next                     *)
          outcome   (* how the last load ended                               *)

loadVars == <<store, disk, pc, txn, base, left, next, outcome>>

Init ==
  /\ store = Empty /\ disk \in Version
  /\ pc = "idle" /\ txn = Empty /\ base = Empty
  /\ left = {} /\ next = 1 /\ outcome = "none"

End(result) == pc' = "idle" /\ outcome' = result

(* expected_sizes: unreadable or ill-formed files end the load before the   *)
(* store is contacted; that changes nothing, so only the good case steps.   *)
Start ==
  /\ pc = "idle"
  /\ pc' = "begin" /\ outcome' = "none"
  /\ UNCHANGED <<store, disk, txn, base, left, next>>

Begin ==
  /\ pc = "begin"
  /\ pc' = "drop"
  /\ txn' = store /\ Open
  /\ left' = Owned(disk) /\ next' = 1
  /\ UNCHANGED <<disk, outcome>>
DropGraphSlip(g) ==
  /\ pc = "drop" /\ g \in left
  /\ left' = left \ {g}
  /\ UNCHANGED <<store, disk, pc, txn, base, next, outcome>>
DropGraph(g) ==
  /\ pc = "drop" /\ g \in left
  /\ txn' = [txn EXCEPT ![g] = {}]
  /\ left' = left \ {g}
  /\ UNCHANGED <<store, disk, pc, base, next, outcome>>
Dropped ==
  /\ pc = "drop" /\ left = {}
  /\ pc' = "add"
  /\ UNCHANGED <<store, disk, txn, base, left, next, outcome>>
AddFile ==
  /\ pc = "add" /\ next <= Len(Files[disk])
  /\ txn' = [g \in Graph |-> txn[g] \cup Files[disk][next][g]]
  /\ next' = next + 1
  /\ UNCHANGED <<store, disk, pc, base, left, outcome>>
Added ==
  /\ pc = "add" /\ next > Len(Files[disk])
  /\ pc' = "commit"
  /\ UNCHANGED <<store, disk, txn, base, left, next, outcome>>

(* A request fails or Ctrl-C stops the loader: the transaction is rolled    *)
(* back, or left for the server to time out if that fails too.              *)
RollBack ==
  /\ pc \in {"begin", "drop", "add", "commit"}
  /\ End("error")
  /\ UNCHANGED <<store, disk, txn, base, left, next>>

(* The server commits: the drops and uploads become visible in one step;    *)
(* statements others appended since the transaction opened may survive.     *)
Committed ==
  \E late \in SUBSET {e \in Owned(disk) \X Statement : e[2] \in store[e[1]] \ base[e[1]]} :
    store' = [g \in Graph |-> IF g \in Owned(disk)
                             THEN txn[g] \cup {x \in Statement : <<g, x>> \in late}
                             ELSE store[g]]
Commit ==
  /\ pc = "commit"
  /\ Committed
  /\ pc' = "verify"
  /\ UNCHANGED <<disk, txn, base, left, next, outcome>>
(* AnswerLost on the commit is a GraphDBError like any other to main.       *)
LoseCommit ==
  /\ pc = "commit"
  /\ Committed
  /\ End("error")
  /\ UNCHANGED <<disk, txn, base, left, next>>

(* verify: asserted counts of the owned graphs against the parsed files.    *)
CountsMatchSlip ==
  \A g \in Owned(disk) : Cardinality(store[g]) >= Cardinality(Expected(disk, g))
CountsMatch ==
  \A g \in Owned(disk) : Cardinality(store[g]) = Cardinality(Expected(disk, g))
Verify ==
  /\ pc = "verify"
  /\ End(IF CountsMatch THEN "verified" ELSE "verification failed")
  /\ UNCHANGED <<store, disk, txn, base, left, next>>
VerifyFails ==
  /\ pc = "verify"
  /\ End("error")
  /\ UNCHANGED <<store, disk, txn, base, left, next>>

(* Between loads schema/ is edited; any time the gate appends elsewhere.    *)
Edit(v) ==
  /\ pc = "idle" /\ disk' = v
  /\ UNCHANGED <<store, pc, txn, base, left, next, outcome>>
OtherWriter(g, x) ==
  /\ g \in Appendable
  /\ AppendTo(g, x)
  /\ UNCHANGED <<disk, pc, txn, left, next, outcome>>

Next ==
  \/ Start \/ Begin \/ (\E g \in Graph : DropGraph(g)) \/ Dropped \/ AddFile \/ Added
  \/ Commit \/ Verify \/ RollBack \/ LoseCommit \/ VerifyFails
  \/ \E v \in Version : Edit(v)
  \/ \E g \in Graph, x \in Statement : OtherWriter(g, x)

Spec == Init /\ [][Next]_loadVars

-----------------------------------------------------------------------------
TypeOK ==
  /\ store \in [Graph -> SUBSET Statement] /\ disk \in Version
  /\ pc \in {"idle", "begin", "drop", "add", "commit", "verify"}
  /\ txn \in [Graph -> SUBSET Statement] /\ base \in [Graph -> SUBSET Statement]
  /\ left \subseteq Graph /\ next \in Nat \ {0}
  /\ outcome \in {"none", "verified", "verification failed", "error"}

(* The drops, uploads and failures of a load are together one replacement   *)
(* of the owned graphs or none, whatever fails and whoever writes meanwhile. *)
OneReplacement == ReloadSpec

(* "verified" (exit 0) is only said when every owned graph holds exactly    *)
(* what the files say, though verify compares counts and other programs     *)
(* may have appended since the commit.                                      *)
VerifiedMeansLoaded ==
  [][pc = "verify" /\ pc' = "idle" /\ outcome' = "verified" =>
       \A g \in Owned(disk) : store[g] = Expected(disk, g)]_loadVars
=============================================================================
