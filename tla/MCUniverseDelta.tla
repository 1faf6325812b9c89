--------------------------- MODULE MCUniverseDelta ---------------------------
(***************************************************************************)
(* UniverseDelta bounded for TLC: at most MaxRows source rows, and the      *)
(* source moves while a delta is waiting to be written only to correct a    *)
(* date (what a delta writes does not depend on the source after its plan). *)
(* Runs and days still move freely between a plan and its write.            *)
(***************************************************************************)
EXTENDS UniverseDelta, TLC

CONSTANTS MaxRows,
          Line  (* the symbols each company number may trade under *)

Waiting == \E r \in Run : batch[r].planned
MCNext ==
  /\ Next
  /\ source' # source /\ Waiting =>
        /\ \E t \in Symbol : Correct(t)
        /\ \A r \in Run : batch[r].planned =>
              batch[r].kept = source /\ batch[r].delta.closures # {}
        /\ Cardinality(source) < MaxRows
  /\ touched' \subseteq touched \/ (graphs # {} /\ ~Waiting)
  /\ (\E t \in Symbol : Correct(t)) => Waiting
  /\ \A r \in Run : batch'[r].planned => Actionable(batch'[r].delta)
  /\ Cardinality({r \in Run : batch'[r].planned}) <= 1 + MaxRows - Cardinality(source')
  /\ Cardinality(source') <= MaxRows
  /\ \A s \in source' : s.cik \in Cik => s.symbol \in Line[s.cik]
  /\ Cardinality(touched') <= 1
MCSpec == Init /\ [][MCNext]_vars

MCLine == ("c1" :> {"A", "B"}) @@ ("c2" :> {"B"})

Symmetry == Permutations(Run)
=============================================================================
