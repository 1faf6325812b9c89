-------------------------------- MODULE LoadRun --------------------------------
(***************************************************************************)
(* load_run.py --write, one command after another: plan every graph of a   *)
(* delivery against the store, write the plans if none was refused, verify *)
(* every graph, and on failure print the DROP commands that undo the run.  *)
(***************************************************************************)
EXTENDS Integers, FiniteSets

CONSTANTS Window,     (* numbered in chronological order (v_book.d_start)        *)
          Run, File,  (* upstream's run ids, and the contents of database files  *)
          Delivery,   (* [dbs, meta]: databases, and whether it has a manifest   *)
          Meta,       (* the label's metadata graph                              *)
          None,
          Figures,    (* file -> what the verifier reads of it: counts, groups,  *)
                      (* linked tickers, last values.  Files may have the same.  *)
          Names,      (* kind -> file -> what names its individuals beside label *)
                      (* and window: arms, alerts and actions; cycles and vetoes *)
          MaxFaults   (* bound: failures met in one behaviour                    *)

Database == [window : Window, run : Run, file : File]
Kind == {"m018", "selection"}
DataGraph == Kind \X Window \X Run
Graph == DataGraph \cup {Meta}

ASSUME LoadAssumption ==
  /\ Window \subseteq Nat
  /\ \A d \in Delivery : /\ d.dbs \subseteq Database /\ d.dbs # {} /\ d.meta \in BOOLEAN
                         /\ \A a, b \in d.dbs : a.window = b.window => a = b
  /\ Meta \notin DataGraph /\ None \notin Graph
  /\ MaxFaults \in Nat

(* A graph holds the triples projected from a set of databases: a data      *)
(* graph those of one, the metadata graph one BacktestRun for each.         *)
VARIABLE store
Source == UNION {d.dbs : d \in Delivery}
Content == (SUBSET Source) \ {{}}
INSTANCE GraphArchive WITH Nothing <- {}

VARIABLES pc, job,    (* the delivery being loaded, and with --write or not      *)
          todo,       (* the graphs the current phase has still to do            *)
          plan,       (* graphs planned as would-be-written                      *)
          refused, written,
          outcome, drops, doubt,  (* the report: DROP commands, graph in doubt   *)
          base,       (* history: the store when the command started             *)
          faults

report == <<outcome, drops, doubt>>
vars == <<store, pc, job, todo, plan, refused, written, report, base, faults>>

Graphs(d) == {<<k, db.window, db.run>> : k \in Kind, db \in d.dbs}
             \cup (IF d.meta THEN {Meta} ELSE {})
Body(d, g) == IF g = Meta THEN d.dbs ELSE {db \in d.dbs : db.window = g[2]}

Init ==
  /\ ArchiveInit
  /\ pc = "idle" /\ job \in [delivery : Delivery, write : BOOLEAN]
  /\ todo = {} /\ plan = {} /\ refused = {} /\ written = {}
  /\ outcome = "none" /\ drops = {} /\ doubt = None
  /\ base = store /\ faults = 0

(* Windows run in chronological order: each m018 graph then its selection   *)
(* sibling to plan and to verify, all m018 graphs first to write; metadata   *)
(* comes last.                                                              *)
PlanBefore(g, h) ==
  /\ g # Meta
  /\ \/ h = Meta
     \/ g[2] < h[2]
     \/ g[2] = h[2] /\ g[1] = "m018" /\ h[1] = "selection"
WriteBeforeSlip(g, h) ==
  /\ h # Meta
  /\ \/ g = Meta
     \/ g[1] = "m018" /\ h[1] = "selection"
     \/ g[1] = h[1] /\ g[2] < h[2]
WriteBefore(g, h) ==
  /\ g # Meta
  /\ \/ h = Meta
     \/ g[1] = "m018" /\ h[1] = "selection"
     \/ g[1] = h[1] /\ g[2] < h[2]
NextToRead(g) == g \in todo /\ \A h \in todo : ~PlanBefore(h, g)
NextToWrite(g) == g \in todo /\ \A h \in todo : ~WriteBefore(h, g)

Stop(result) ==
  /\ pc' = "idle" /\ outcome' = result
  /\ UNCHANGED <<job, todo, plan, refused, written, base>>
Fault == faults < MaxFaults /\ faults' = faults + 1

(* The delivery files, contract and dry run are good: main reaches the store.*)
Start(d, write) ==
  /\ pc = "idle"
  /\ pc' = "preflight" /\ job' = [delivery |-> d, write |-> write]
  /\ todo' = Graphs(d) /\ plan' = {} /\ refused' = {} /\ written' = {}
  /\ outcome' = "none" /\ drops' = {} /\ doubt' = None
  /\ base' = store
  /\ UNCHANGED <<store, faults>>

(* gate.plan: an individual's IRI has label and window but no run id, so a   *)
(* second run of a stored window is refused by check 6 when the two have a    *)
(* name in common.                                                          *)
Share(k, a, b) == Names[k][a.file] \cap Names[k][b.file] # {}
Taken(g) ==
  g # Meta /\ \E h \in DataGraph \ {g} :
    /\ h[1] = g[1] /\ h[2] = g[2]
    /\ \E a \in Body(job.delivery, g), b \in store[h] : Share(g[1], a, b)
PlannedSlip(g) ==
  \/ (store[g] # {} \/ Taken(g)) /\ refused' = refused \cup {g} /\ UNCHANGED <<plan, faults>>
  \/ store[g] = {} /\ ~Taken(g) /\ plan' = plan \cup {g} /\ UNCHANGED <<refused, faults>>
Planned(g) ==
  \/ store[g] # {} /\ UNCHANGED <<plan, refused, faults>>
  \/ store[g] = {} /\ ~Taken(g) /\ plan' = plan \cup {g} /\ UNCHANGED <<refused, faults>>
  \/ store[g] = {} /\ Taken(g) /\ refused' = refused \cup {g} /\ UNCHANGED <<plan, faults>>
  \/ refused' = refused \cup {g} /\ Fault /\ UNCHANGED plan  (* shapes, references *)
PlanGraph(g) ==
  /\ pc = "preflight" /\ NextToRead(g)
  /\ Planned(g)
  /\ todo' = todo \ {g}
  /\ UNCHANGED <<store, pc, job, written, report, base>>

Refuse ==
  /\ pc = "preflight" /\ todo = {} /\ refused # {}
  /\ Stop("refused")
  /\ UNCHANGED <<store, drops, doubt, faults>>
Checked ==
  /\ pc = "preflight" /\ todo = {} /\ refused = {} /\ ~job.write
  /\ Stop("checked")
  /\ UNCHANGED <<store, drops, doubt, faults>>
AcceptedSlip ==
  /\ pc = "preflight" /\ todo = {} /\ job.write
  /\ pc' = "write" /\ todo' = Graphs(job.delivery)
  /\ UNCHANGED <<store, job, plan, refused, written, report, base, faults>>
Accepted ==
  /\ pc = "preflight" /\ todo = {} /\ refused = {} /\ job.write
  /\ pc' = "write" /\ todo' = Graphs(job.delivery)
  /\ UNCHANGED <<store, job, plan, refused, written, report, base, faults>>

Append(g) == store' = [store EXCEPT ![g] = @ \cup Body(job.delivery, g)]

SkipGraph(g) ==
  /\ pc = "write" /\ NextToWrite(g) /\ g \notin plan
  /\ todo' = todo \ {g}
  /\ UNCHANGED <<store, pc, job, plan, refused, written, report, base, faults>>
WriteGraphSlip(g) ==
  /\ pc = "write" /\ NextToWrite(g)
  /\ Append(g)
  /\ written' = written \cup {g} /\ todo' = todo \ {g}
  /\ UNCHANGED <<pc, job, plan, refused, report, base, faults>>
WriteGraph(g) ==
  /\ pc = "write" /\ NextToWrite(g) /\ g \in plan
  /\ Append(g)
  /\ written' = written \cup {g} /\ todo' = todo \ {g}
  /\ UNCHANGED <<pc, job, plan, refused, report, base, faults>>

(* StoreInterrupted or MetadataWriteFailed: the store answered an error.     *)
WriteFailsSlip(g) ==
  /\ pc = "write" /\ NextToWrite(g) /\ g \in plan
  /\ Fault /\ Stop("stopped")
  /\ UNCHANGED <<store, drops, doubt>>
WriteFails(g) ==
  /\ pc = "write" /\ NextToWrite(g) /\ g \in plan
  /\ Fault /\ Stop("stopped")
  /\ drops' = written
  /\ UNCHANGED <<store, doubt>>
(* LowDiskStop: its report also drops the graph that was refused.           *)
LowDisk(g) ==
  /\ pc = "write" /\ NextToWrite(g) /\ g \in plan
  /\ Fault /\ Stop("stopped")
  /\ drops' = written \cup {g}
  /\ UNCHANGED <<store, doubt>>
(* WriteInDoubt: _report_metadata_failure lists the graph, _report_interrupted*)
(* does not.  The request was executed or it was not.                       *)
LoseAnswer(g) ==
  /\ pc = "write" /\ NextToWrite(g) /\ g \in plan
  /\ Fault /\ Stop("stopped")
  /\ Append(g) \/ UNCHANGED store
  /\ doubt' = g
  /\ drops' = written \cup (IF g = Meta THEN {g} ELSE {})
(* DiskMonitor.check finds less than --min-free-pct, or a query fails.      *)
ReadFails ==
  /\ pc \in {"preflight", "write", "verify"}
  /\ Fault /\ Stop("stopped")
  /\ drops' = written
  /\ UNCHANGED <<store, doubt>>

Written ==
  /\ pc = "write" /\ todo = {}
  /\ pc' = "verify" /\ todo' = Graphs(job.delivery)
  /\ UNCHANGED <<store, job, plan, refused, written, report, base, faults>>

(* Of a data graph the verifier compares figures; of the metadata graph each  *)
(* window's run, file name and SHA-256, which no two files have in common.   *)
Shown(content) == {<<db.window, db.run, Figures[db.file]>> : db \in content}
Matches(g) ==
  IF g = Meta THEN store[g] = Body(job.delivery, g)
  ELSE Shown(store[g]) = Shown(Body(job.delivery, g))
VerifyGraphSlip(g) ==
  /\ pc = "verify" /\ NextToRead(g) /\ (Matches(g) \/ g \notin plan)
  /\ todo' = todo \ {g}
  /\ UNCHANGED <<store, pc, job, plan, refused, written, report, base, faults>>
VerifyGraph(g) ==
  /\ pc = "verify" /\ NextToRead(g) /\ Matches(g)
  /\ todo' = todo \ {g}
  /\ UNCHANGED <<store, pc, job, plan, refused, written, report, base, faults>>
VerifyFails(g) ==
  /\ pc = "verify" /\ NextToRead(g) /\ ~Matches(g)
  /\ Stop("unverified")
  /\ drops' = written
  /\ UNCHANGED <<store, doubt, faults>>
Loaded ==
  /\ pc = "verify" /\ todo = {}
  /\ Stop("loaded")
  /\ UNCHANGED <<store, drops, doubt, faults>>

(* Killed, or an exception main does not know (IncompleteRead): no report.   *)
Kill ==
  /\ pc # "idle" /\ Fault
  /\ \/ UNCHANGED store
     \/ pc = "write" /\ \E g \in plan : NextToWrite(g) /\ Append(g)
  /\ Stop("killed")
  /\ UNCHANGED <<drops, doubt>>

(* The operator decides that the loss is acceptable.                        *)
OperatorDrops(g) ==
  /\ pc = "idle" /\ g \in drops
  /\ Drop(g)
  /\ drops' = drops \ {g}
  /\ UNCHANGED <<pc, job, todo, plan, refused, written, outcome, doubt, base, faults>>

LoadStep ==
  \/ Refuse \/ Checked \/ Accepted \/ Written \/ Loaded
  \/ \E g \in Graph : PlanGraph(g) \/ SkipGraph(g) \/ WriteGraph(g)
                      \/ VerifyGraph(g) \/ VerifyFails(g)
Failure ==
  \/ ReadFails \/ Kill
  \/ \E g \in Graph : WriteFails(g) \/ LowDisk(g) \/ LoseAnswer(g)
Next ==
  \/ LoadStep \/ Failure
  \/ \E d \in Delivery, write \in BOOLEAN : Start(d, write)
  \/ \E g \in Graph : OperatorDrops(g)

Spec == Init /\ [][Next]_vars

(* The operator runs the same command again until it has loaded.            *)
Retry == outcome # "loaded" /\ \E d \in Delivery : Start(d, TRUE)
RetryNext == LoadStep \/ Failure \/ Retry \/ \E g \in Graph : OperatorDrops(g)
RetrySpec == Init /\ [][RetryNext]_vars /\ WF_vars(LoadStep) /\ WF_vars(Retry)

-----------------------------------------------------------------------------
TypeOK ==
  /\ store \in [Graph -> SUBSET Database]
  /\ pc \in {"idle", "preflight", "write", "verify"}
  /\ job \in [delivery : Delivery, write : BOOLEAN]
  /\ todo \subseteq Graph /\ plan \subseteq Graph
  /\ refused \subseteq Graph /\ written \subseteq Graph
  /\ outcome \in {"none", "refused", "checked", "stopped", "unverified", "loaded", "killed"}
  /\ drops \subseteq Graph /\ doubt \in Graph \cup {None}
  /\ base \in [Graph -> SUBSET Database] /\ faults \in 0..MaxFaults

(* The printed DROP commands undo a failed command and nothing else: every   *)
(* graph but the one in doubt is then as it was when the command started.    *)
(* In particular a refused or a checked delivery leaves the store alone.     *)
RollbackRestores ==
  pc = "idle" /\ outcome \in {"refused", "checked", "stopped", "unverified"} =>
    \A g \in Graph \ {doubt} : (IF g \in drops THEN {} ELSE store[g]) = base[g]

(* Exit 0 means that every graph of the delivery is in the store, whichever   *)
(* earlier command wrote it: the metadata graph names exactly the delivery's  *)
(* files, and a data graph shows the figures of the delivery's file.  Where it *)
(* was made from another file with the same figures, this command found it    *)
(* there; what the command wrote itself is the delivery's.                   *)
LoadedMeansStored ==
  pc = "idle" /\ outcome = "loaded" =>
    \A g \in Graphs(job.delivery) :
      \/ store[g] = Body(job.delivery, g)
      \/ /\ g # Meta /\ base[g] # {} /\ store[g] = base[g]
         /\ Shown(store[g]) = Shown(Body(job.delivery, g))

(* Commands that fail, are killed or repeated still write each graph once    *)
(* and whole.                                                               *)
WholeGraphs == ArchiveSpec

(* "A label identifies one run per window" (docs/07), for runs whose files    *)
(* always have an arm and a cycle in common: the m018 and selection graphs of  *)
(* a window never come from two of them, whatever was dropped.               *)
Delivered(w, r) == {db \in Source : db.window = w /\ db.run = r}
Alike(w, r, s) == \A k \in Kind, a \in Delivered(w, r), b \in Delivered(w, s) : Share(k, a, b)
OneRunPerWindow ==
  \A g, h \in DataGraph :
    store[g] # {} /\ store[h] # {} /\ g[2] = h[2] /\ Alike(g[2], g[3], h[3]) => g[3] = h[3]

(* The metadata graph is written when all it describes is in the store.      *)
MetadataLast ==
  [][store[Meta] = {} /\ store'[Meta] # {} =>
       \A db \in store'[Meta], k \in Kind : store[<<k, db.window, db.run>>] # {}]_vars

(* Whatever interrupted it, the same command run again gets the delivery in. *)
RetryLoads == <>(outcome = "loaded")

=============================================================================
