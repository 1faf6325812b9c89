---------------------------- MODULE ScoreProjection ----------------------------
(***************************************************************************)
(* project_scores.py, run again and again over a view that upstream changes *)
(* and completes afterwards: which rows become snapshots in which graph,    *)
(* which wait, which are lost, and what the two key files remember.         *)
(***************************************************************************)
EXTENDS Integers, FiniteSets

CONSTANTS Row,              (* the ids of v_score_snapshot                     *)
          Lane,             (* numbered in the order of their names            *)
          LaneOf, Avail, QuarterLength,
          FirstRows,        (* what upstream has computed at the start         *)
          Edits,            (* bound: the changes it makes, pairs <<row, status>> *)
          MaxDay,           (* bound: the last day                             *)
          Cap,              (* quarantined rows a run accepts (a share in code) *)
          MaxChanges, MaxFaults   (* bounds: upstream's edits, failures        *)

Day == 0..MaxDay
Status == {"absent",
           "good",
           "bad",           (* fails a row check of the boundary               *)
           "unusable",      (* no asset, NULL value or available_at: left out  *)
           "misshapen"}     (* passes the boundary, refused by shapes.ttl      *)

VARIABLE store
INSTANCE SnapshotLedger

ASSUME ScoreAssumption ==
  /\ Lane \subseteq Nat /\ Fundamental \in Lane
  /\ LaneOf \in [Row -> Lane] /\ Avail \in [Row -> Day]
  /\ QuarterLength \in Nat \ {0} /\ MaxDay \in Nat /\ IsFiniteSet(Row)
  /\ FirstRows \subseteq Row /\ Edits \subseteq Row \X Status
  /\ Cap \in Nat /\ MaxChanges \in Nat /\ MaxFaults \in Nat

VARIABLES
  upstream,       (* [Row -> Status]                                           *)
  runs,           (* as_of days of the full analysis runs (AnalysisRun.covers)  *)
  today,
  late, known,    (* late.json and late.lost.json                              *)
  pc, runDay,
  read,           (* the view as this run read it                              *)
  todo,           (* graphs still to write                                     *)
  settled, lost,  (* rows this run settled, rows of report.lost                *)
  broken,         (* history: rows upstream did not have when it should        *)
  before, raced,  (* history: runs when the view was read, rows missed by then *)
  changes, faults

files == <<late, known>>
world == <<upstream, runs, today, broken, changes>>
run == <<pc, runDay, read, before, todo, settled, lost>>
vars == <<store, world, files, run, raced, faults>>

DataDated(r) == LaneOf[r] = Fundamental
Bad(view) == {r \in Row : view[r] = "bad"}
LeftOut(view) == {r \in Row : view[r] = "unusable"}

(* quarter_covered: a full run as of a later quarter, not after the run day. *)
QuarterCoveredSlip(q, day) == \E a \in runs : Quarter(a) >= q /\ a <= day
QuarterCovered(q, day) == \E a \in runs : Quarter(a) > q /\ a <= day

(* project: the rows that a run of this day makes snapshots of.             *)
Projectable(r, view, day) ==
  /\ view[r] \in {"good", "misshapen"}
  /\ Avail[r] <= day
  /\ DataDated(r) => /\ Quarter(Avail[r]) < Quarter(day)
                     /\ QuarterCovered(Quarter(Avail[r]), day)
GraphName(r, day) == <<LaneOf[r], IF DataDated(r) THEN Quarter(Avail[r]) ELSE day>>

NoView == [r \in Row |-> "absent"]

Init ==
  /\ LedgerInit
  /\ upstream = [r \in Row |-> IF r \in FirstRows THEN "good" ELSE "absent"]
  /\ runs = {} /\ today = 0
  /\ late = {} /\ known = {}
  /\ pc = "idle" /\ runDay = 0 /\ read = NoView /\ todo = {} /\ settled = {} /\ lost = {}
  /\ broken = {} /\ before = {} /\ raced = {} /\ changes = 0 /\ faults = 0

-----------------------------------------------------------------------------
(* Upstream: rows are added, corrected, spoiled and deleted; a full analysis  *)
(* run is recorded once it has completed.  Its promise is that the first full *)
(* run after a quarter leaves it complete: who was not there is "broken".   *)
Promised(r, analysed) == DataDated(r) /\ \E a \in analysed : Quarter(a) > Quarter(Avail[r])
NoteBroken ==
  broken' = broken \cup {r \in Row : Promised(r, runs') /\ upstream'[r] # "good"}

NextDay ==
  /\ today < MaxDay /\ today' = today + 1
  /\ UNCHANGED <<store, upstream, runs, broken, changes, files, run, raced, faults>>
Change(r, s) ==
  /\ DataDated(r) \/ today < MaxDay   (* bound: a day is left to write it in   *)
  /\ changes < MaxChanges /\ changes' = changes + 1
  /\ s # upstream[r] /\ upstream' = [upstream EXCEPT ![r] = s]
  /\ UNCHANGED runs /\ NoteBroken
  /\ UNCHANGED <<store, today, files, run, raced, faults>>
Analyse(asOf) ==
  /\ changes < MaxChanges /\ changes' = changes + 1
  /\ asOf \in Day \ runs /\ asOf <= today /\ runs' = runs \cup {asOf}
  /\ UNCHANGED upstream /\ NoteBroken
  /\ UNCHANGED <<store, today, files, run, raced, faults>>

-----------------------------------------------------------------------------
(* read_rows and read_runs are two SELECTs: upstream may change and analyse   *)
(* between them.  The boundary keeps the late keys of the cycle lanes'       *)
(* quarantined rows, the rest is projected.  Over the cap the run stops       *)
(* before it changes anything.  A day before today needs --replay, into a    *)
(* repository with key files of its own.                                    *)
ReadRows(day) ==
  /\ pc = "idle" /\ day \in 0..today
  /\ Cardinality(Bad(upstream)) <= Cap
  /\ pc' = "read" /\ runDay' = day /\ read' = upstream /\ before' = runs
  /\ UNCHANGED <<store, world, files, todo, settled, lost, raced, faults>>

LateKeys(view) == {r \in Bad(view) : ~DataDated(r)}
(* Rows that are missing from the reading of a quarter whose first full       *)
(* analysis was recorded after it.                                          *)
Torn == {r \in Row : read[r] # "good" /\ Promised(r, runs) /\ ~Promised(r, before)}
Begin(day) ==   (* read_runs, the boundary and the projection                *)
  /\ pc = "read" /\ runDay = day /\ pc' = "write"
  /\ late' = late \cup LateKeys(read)
  /\ todo' = {GraphName(r, day) : r \in {s \in Row : Projectable(s, read, day)}}
  /\ settled' = LeftOut(read)
  /\ lost' = Bad(read) \ LateKeys(read)
  /\ raced' = raced \cup Torn /\ before' = {}
  /\ UNCHANGED <<store, world, known, runDay, read, faults>>

Exit == /\ pc' = "idle" /\ runDay' = 0 /\ read' = NoView /\ before' = {}
        /\ todo' = {} /\ settled' = {} /\ lost' = {} /\ UNCHANGED raced
(* Without --write only the boundary's late keys are kept.                   *)
DryRun ==
  /\ pc = "read" /\ Exit
  /\ late' = late \cup LateKeys(read)
  /\ UNCHANGED <<store, world, known, faults>>

(* gate.existing_subjects and the gate's test for an append-only graph.      *)
InStore(r) == \E g \in Graph : r \in store[g]
GraphExistsSlip(g) == FALSE
GraphExists(g) == store[g] # {}

(* The run's projection; a quarter it covered at Begin stays covered.        *)
Blocks(g) == {r \in Row : GraphName(r, runDay) = g /\ Projectable(r, read, runDay)}
Have(g) == {r \in Blocks(g) : InStore(r)}
FreshSlip(g) == Blocks(g)
Fresh(g) == Blocks(g) \ Have(g)

(* gate.ingest: a new graph of new individuals that conform to the shapes.   *)
Conforms(g) == \A r \in Fresh(g) : read[r] # "misshapen" /\ ~InStore(r)

(* Graphs are written in the order of their names.                          *)
Current(g) ==
  /\ pc = "write" /\ g \in todo
  /\ \A h \in todo : g[1] < h[1] \/ (g[1] = h[1] /\ g[2] <= h[2])
asRead == <<runDay, read, before, raced>>
Done(g) == todo' = todo \ {g} /\ UNCHANGED <<world, files, pc, asRead, faults>>

Skip(g) ==
  /\ Current(g) /\ Fresh(g) = {}
  /\ settled' = settled \cup Have(g)
  /\ Done(g) /\ UNCHANGED <<store, lost>>
Lose(g) ==
  /\ Current(g) /\ Fresh(g) # {} /\ GraphExists(g) /\ g[1] = Fundamental
  /\ settled' = settled \cup Blocks(g)
  /\ lost' = lost \cup Fresh(g)
  /\ Done(g) /\ UNCHANGED store
Defer(g) ==
  /\ Current(g) /\ Fresh(g) # {} /\ GraphExists(g) /\ g[1] # Fundamental
  /\ settled' = settled \cup Have(g)
  /\ Done(g) /\ UNCHANGED <<store, lost>>
Refuse(g) ==
  /\ Current(g) /\ Fresh(g) # {} /\ ~GraphExists(g) /\ ~Conforms(g)
  /\ settled' = settled \cup Have(g)
  /\ Done(g) /\ UNCHANGED <<store, lost>>
Add(g) ==
  /\ Current(g) /\ Fresh(g) # {} /\ ~GraphExists(g) /\ Conforms(g)
  /\ store' = [store EXCEPT ![g] = @ \cup Fresh(g)]
Write(g) ==
  /\ Add(g)
  /\ settled' = settled \cup Blocks(g)
  /\ Done(g) /\ UNCHANGED lost

(* StoreInterrupted: the rest is not tried, what was done is settled.        *)
Fault == faults < MaxFaults /\ faults' = faults + 1
Interrupted(g) == pc' = "settle" /\ UNCHANGED <<world, files, asRead, todo, lost>>
StoreFails(g) ==
  /\ Current(g) /\ Fault
  /\ settled' \in {settled, settled \cup Have(g)}
  /\ Interrupted(g) /\ UNCHANGED store
Sent(g) ==   (* the store executed the request or it did not                *)
  \/ Add(g)
  \/ /\ Current(g) /\ Fresh(g) # {} /\ ~GraphExists(g) /\ Conforms(g)
     /\ UNCHANGED store
LoseAnswerSlip(g) ==
  /\ Sent(g) /\ Fault
  /\ settled' = settled \cup Blocks(g)
  /\ Interrupted(g)
LoseAnswer(g) ==
  /\ Sent(g) /\ Fault
  /\ settled' = settled \cup Have(g)
  /\ Interrupted(g)
GraphsDone ==
  /\ pc = "write" /\ todo = {} /\ pc' = "settle"
  /\ UNCHANGED <<store, world, files, asRead, todo, settled, lost, faults>>

(* _settle_late_keys, then _sort_losses: one atomic file after the other.    *)
Gone == {r \in late : read[r] = "absent"}
SettleLateKeys ==
  /\ pc = "settle" /\ pc' = "sort"
  /\ late' = late \ (Gone \cup settled)
  /\ UNCHANGED <<store, world, known, asRead, todo, settled, lost, faults>>
SortLosses ==
  /\ pc = "sort" /\ Exit
  /\ known' = known \cup lost
  /\ UNCHANGED <<store, world, late, faults>>

(* Killed, stopped by a row it cannot read, or a key file cannot be written. *)
Kill ==
  /\ pc # "idle" /\ Fault /\ Exit
  /\ (\E g \in Graph : Add(g)) \/ UNCHANGED store
  /\ UNCHANGED <<world, files>>

Project == DryRun \/ \E day \in Day : Begin(day)
RunStep ==
  \/ \E g \in Graph : Skip(g) \/ Lose(g) \/ Defer(g) \/ Refuse(g) \/ Write(g)
  \/ GraphsDone \/ SettleLateKeys \/ SortLosses
Failure == Kill \/ \E g \in Graph : StoreFails(g) \/ LoseAnswer(g)
Upstream ==
  \/ \E e \in Edits : Change(e[1], e[2])
  \/ \E a \in Day : Analyse(a)
Next ==
  \/ RunStep \/ Failure \/ Upstream \/ NextDay
  \/ Project \/ \E day \in Day : ReadRows(day)

(* The projector is run every day, with --write, and a day is followed by    *)
(* the next.                                                                *)
Spec == /\ Init /\ [][Next]_vars
        /\ WF_vars(Project) /\ WF_vars(RunStep) /\ WF_vars(NextDay)
        /\ SF_vars(ReadRows(today)) /\ SF_vars(Begin(today))

-----------------------------------------------------------------------------
TypeOK ==
  /\ store \in [Graph -> SUBSET Row]
  /\ upstream \in [Row -> Status] /\ runs \subseteq Day /\ today \in Day
  /\ late \subseteq Row /\ known \subseteq Row /\ broken \subseteq Row
  /\ before \subseteq Day /\ raced \subseteq Row
  /\ pc \in {"idle", "read", "write", "settle", "sort"} /\ runDay \in Day /\ read \in [Row -> Status]
  /\ todo \subseteq Graph /\ settled \subseteq Row /\ lost \subseteq Row
  /\ changes \in 0..MaxChanges /\ faults \in 0..MaxFaults

(* Runs that fail, are killed, repeated or replayed put a snapshot into one   *)
(* graph only, the right one, and never touch a graph again.                 *)
OneGraphPerSnapshot == LedgerSpec

(* "A quarter is written only once it is complete": a row that is missing     *)
(* from its written quarter was missing upstream after the quarter was       *)
(* analysed in full, or a run read the view without it just before that       *)
(* analysis was recorded and the analysis runs just after.                   *)
OnlyLatecomersAreLost ==
  \A r \in Row :
    DataDated(r) /\ GraphExists(GraphName(r, 0)) /\ ~InStore(r) => r \in broken \cup raced

(* A late key leaves the file only if its row is in the store, or when it was *)
(* read upstream had no such row or one left out by design.                 *)
LateKeysAreKept ==
  [][\A r \in late \ late' : InStore(r) \/ read[r] \in {"absent", "unusable"}]_vars

(* A row that stays good upstream gets into the store in the end, unless its  *)
(* quarter was written without it and it is listed as lost.                  *)
Lost(r) == DataDated(r) /\ GraphExists(GraphName(r, 0)) /\ r \in known
RowsSettle ==
  \A r \in Row :
    /\ <>[](upstream[r] = "good")
    /\ <>[](\A s \in Row : upstream[s] \notin {"bad", "misshapen"})
    /\ DataDated(r) => <>QuarterCovered(Quarter(Avail[r]), MaxDay)
    => <>(InStore(r) \/ Lost(r))
=============================================================================
