---------------------------- MODULE LoadRun_proofs ----------------------------
(* What load_run.py's commands leave in the store and report, for any       *)
(* windows, runs, files and deliveries and any number of failures.          *)
EXTENDS LoadRun, TLAPS

(* While a command runs nothing is reported, and only the graphs it wrote,   *)
(* which were empty and now hold the delivery's, differ from what it found.  *)
Running == pc # "idle" =>
  /\ outcome = "none" /\ drops = {} /\ doubt = None
  /\ \A g \in Graph : IF g \in written THEN base[g] = {} /\ store[g] = Body(job.delivery, g)
                      ELSE store[g] = base[g]
Preflight == pc = "preflight" =>
  /\ todo \subseteq Graphs(job.delivery) /\ plan \subseteq Graphs(job.delivery)
  /\ written = {}
  /\ \A g \in plan : store[g] = {} /\ ~Taken(g)
  /\ \A g \in Graphs(job.delivery) \ todo : g \in plan \cup refused \/ store[g] # {}
NoRival(g) ==
  g # Meta => \A h \in DataGraph :
    h[2] = g[2] /\ h[3] # g[3] /\ Alike(g[2], g[3], h[3]) => store[h] = {}
(* A data graph holds delivered databases of its window and run.             *)
OwnDatabases(g) == g # Meta => store[g] \subseteq Delivered(g[2], g[3])
Writing == pc = "write" =>
  /\ todo \subseteq Graphs(job.delivery) /\ plan \subseteq Graphs(job.delivery)
  /\ written \subseteq plan \ todo
  /\ \A g \in plan : base[g] = {}
  /\ \A g \in plan \cap todo : store[g] = {}
  /\ \A g \in Graphs(job.delivery) : store[g] # {} \/ g \in plan \cap todo
  /\ \A g \in Graphs(job.delivery) : NoRival(g)
Verifying == pc = "verify" =>
  /\ todo \subseteq Graphs(job.delivery)
  /\ \A g \in Graphs(job.delivery) \ todo : Matches(g)
Reported ==
  /\ RollbackRestores /\ LoadedMeansStored
  /\ outcome = "loaded" => drops = {}

LInv == TypeOK /\ OneRunPerWindow /\ (\A g \in Graph : OwnDatabases(g)) /\ Running /\ Preflight /\ Writing /\ Verifying /\ Reported

(* A delivery's graphs have content, one run per window, and both kinds.     *)
LEMMA DeliveryGraphs ==
  ASSUME NEW d \in Delivery
  PROVE  /\ Graphs(d) \subseteq Graph
         /\ \A g \in Graphs(d) : Body(d, g) \in Content /\ Body(d, g) \subseteq Database
         /\ \A g \in Graphs(d) : g # Meta => Body(d, g) \subseteq Delivered(g[2], g[3])
         /\ \A g, h \in Graphs(d) : g # Meta /\ h # Meta /\ g[2] = h[2] => g[3] = h[3]
         /\ \A g \in Graphs(d) : g # Meta =>
              g \in DataGraph /\ \A k \in Kind : <<k, g[2], g[3]>> \in Graphs(d)
<1>1. /\ d.dbs \subseteq Database /\ d.dbs # {}
      /\ \A a, b \in d.dbs : a.window = b.window => a = b
      /\ Meta \notin DataGraph
  BY LoadAssumption
<1>2. \A db \in d.dbs : db.window \in Window /\ db.run \in Run
  BY <1>1 DEF Database
<1>3. \A k \in Kind, db \in d.dbs : <<k, db.window, db.run>> \in DataGraph
  BY <1>2 DEF DataGraph
<1>4. ASSUME NEW g \in Graphs(d), g # Meta
      PROVE  \E k \in Kind, db \in d.dbs : g = <<k, db.window, db.run>>
  BY <1>4 DEF Graphs
<1>5. Graphs(d) \subseteq Graph
  BY <1>3, <1>4 DEF Graph
<1>6. ASSUME NEW g \in Graphs(d)
      PROVE  /\ Body(d, g) \in Content /\ Body(d, g) \subseteq Database
             /\ g # Meta => Body(d, g) \subseteq Delivered(g[2], g[3])
  <2>0. d.dbs \subseteq Source
    BY DEF Source
  <2>1. CASE g = Meta
    BY <1>1, <2>0, <2>1 DEF Body, Content
  <2>2. CASE g # Meta
    <3>1. PICK k \in Kind, db \in d.dbs : g = <<k, db.window, db.run>>
      BY <1>4, <2>2
    <3>2. db \in {b \in d.dbs : b.window = g[2]}
      BY <3>1
    <3>3. Body(d, g) = {b \in d.dbs : b.window = g[2]} /\ g[2] = db.window /\ g[3] = db.run
      BY <2>2, <3>1 DEF Body
    <3>4. \A b \in Body(d, g) : b = db
      BY <1>1, <3>1, <3>3
    <3>5. Body(d, g) \subseteq Delivered(g[2], g[3])
      BY <2>0, <3>3, <3>4 DEF Delivered
    <3>6. Body(d, g) \in Content /\ Body(d, g) \subseteq Database
      BY <1>1, <2>0, <3>2, <3>3 DEF Content
    <3>7. QED
      BY <3>5, <3>6
  <2>3. QED
    BY <2>1, <2>2
<1>7. ASSUME NEW g \in Graphs(d), NEW h \in Graphs(d), g # Meta, h # Meta, g[2] = h[2]
      PROVE  g[3] = h[3]
  <2>1. PICK k \in Kind, a \in d.dbs : g = <<k, a.window, a.run>>
    BY <1>4, <1>7
  <2>2. PICK l \in Kind, b \in d.dbs : h = <<l, b.window, b.run>>
    BY <1>4, <1>7
  <2>3. QED
    BY <1>1, <1>7, <2>1, <2>2
<1>8. ASSUME NEW g \in Graphs(d), g # Meta
      PROVE  g \in DataGraph /\ \A k \in Kind : <<k, g[2], g[3]>> \in Graphs(d)
  <2>1. PICK k \in Kind, db \in d.dbs : g = <<k, db.window, db.run>>
    BY <1>4, <1>8
  <2>2. g \in DataGraph
    BY <1>3, <2>1
  <2>3. \A l \in Kind : <<l, db.window, db.run>> \in Graphs(d)
    BY DEF Graphs
  <2>4. QED
    BY <2>1, <2>2, <2>3
<1>9. QED
  BY <1>5, <1>6, <1>7, <1>8

(* No command has run: the invariant holds.                                 *)
LEMMA LoadInit == Init => LInv
<1> SUFFICES ASSUME Init PROVE LInv
  OBVIOUS
<1>1. store = [g \in Graph |-> {}] /\ base = store /\ pc = "idle" /\ outcome = "none"
  BY DEF Init, ArchiveInit
<1>2. TypeOK
  BY <1>1, LoadAssumption DEF Init, TypeOK
<1>3. \A g \in Graph : store[g] = {}
  BY <1>1
<1>4. OneRunPerWindow
  BY <1>3 DEF OneRunPerWindow, Graph
<1>5. QED
  BY <1>1, <1>2, <1>3, <1>4 DEF LInv, OwnDatabases, Running, Preflight, Writing, Verifying, Reported,
                          RollbackRestores, LoadedMeansStored

(* Types are kept by every step.                                            *)
LEMMA TypeStep == ASSUME LInv, Next PROVE TypeOK'
<1>0. /\ TypeOK /\ job \in [delivery : Delivery, write : BOOLEAN]
      /\ job.delivery \in Delivery /\ MaxFaults \in Nat
  BY LoadAssumption DEF LInv, TypeOK
<1>1. Graphs(job.delivery) \subseteq Graph /\ {} \in SUBSET Database
  BY <1>0, DeliveryGraphs
<1>2. Fault => faults' \in 0..MaxFaults
  BY <1>0 DEF Fault, TypeOK
<1>3. ASSUME NEW g \in todo, Append(g), pc = "write"
      PROVE  store' \in [Graph -> SUBSET Database]
  <2>1. g \in Graphs(job.delivery)
    BY <1>3 DEF LInv, Writing
  <2>2. Body(job.delivery, g) \subseteq Database
    BY <1>0, <2>1, DeliveryGraphs
  <2>3. QED
    BY <1>0, <1>3, <2>2 DEF Append, TypeOK
<1>4. CASE Refuse \/ Checked \/ Accepted \/ Written \/ Loaded
  BY <1>0, <1>1, <1>4 DEF Refuse, Checked, Accepted, Written, Loaded, Stop, report, TypeOK
<1>5. ASSUME NEW g \in Graph, PlanGraph(g) PROVE TypeOK'
  <2>1. /\ todo' = todo \ {g}
        /\ UNCHANGED <<store, pc, job, written, outcome, drops, doubt, base>>
    BY <1>5 DEF PlanGraph, report
  <2>2. plan' \subseteq Graph /\ refused' \subseteq Graph /\ faults' \in 0..MaxFaults
    BY <1>0, <1>2, <1>5 DEF PlanGraph, Planned, TypeOK
  <2>3. QED
    BY <1>0, <2>1, <2>2 DEF TypeOK
<1>6. ASSUME NEW g \in Graph, SkipGraph(g) \/ VerifyGraph(g) \/ VerifyFails(g) PROVE TypeOK'
  BY <1>0, <1>6 DEF SkipGraph, VerifyGraph, VerifyFails, Stop, report, TypeOK
<1>7. ASSUME NEW g \in Graph, WriteGraph(g) PROVE TypeOK'
  <2>1. store' \in [Graph -> SUBSET Database]
    BY <1>3, <1>7 DEF WriteGraph, NextToWrite
  <2>2. QED
    BY <1>0, <1>7, <2>1 DEF WriteGraph, report, TypeOK
<1>8. ASSUME NEW g \in Graph, WriteFails(g) \/ LowDisk(g) PROVE TypeOK'
  BY <1>0, <1>2, <1>8 DEF WriteFails, LowDisk, Stop, TypeOK
<1>9. ASSUME NEW g \in Graph, LoseAnswer(g) PROVE TypeOK'
  <2>1. store' \in [Graph -> SUBSET Database]
    BY <1>0, <1>3, <1>9 DEF LoseAnswer, NextToWrite, TypeOK
  <2>2. drops' \subseteq Graph
    BY <1>0, <1>9 DEF LoseAnswer, TypeOK
  <2>3. QED
    BY <1>0, <1>2, <1>9, <2>1, <2>2 DEF LoseAnswer, Stop, TypeOK
<1>10. CASE ReadFails
  BY <1>0, <1>2, <1>10 DEF ReadFails, Stop, TypeOK
<1>11. CASE Kill
  <2>1. store' \in [Graph -> SUBSET Database]
    BY <1>0, <1>3, <1>11 DEF Kill, NextToWrite, TypeOK
  <2>2. QED
    BY <1>0, <1>2, <1>11, <2>1 DEF Kill, Stop, TypeOK
<1>12. ASSUME NEW d \in Delivery, NEW write \in BOOLEAN, Start(d, write) PROVE TypeOK'
  <2>1. Graphs(d) \subseteq Graph
    BY DeliveryGraphs
  <2>2. QED
    BY <1>0, <1>12, <2>1 DEF Start, TypeOK
<1>13. ASSUME NEW g \in Graph, OperatorDrops(g) PROVE TypeOK'
  <2>1. store' \in [Graph -> SUBSET Database]
    BY <1>0, <1>1, <1>13 DEF OperatorDrops, Drop, TypeOK
  <2>2. QED
    BY <1>0, <1>13, <2>1 DEF OperatorDrops, TypeOK
<1>14. QED
  BY <1>4, <1>5, <1>6, <1>7, <1>8, <1>9, <1>10, <1>11, <1>12, <1>13
     DEF Next, LoadStep, Failure

(* Two runs are alike in either order.                                       *)
LEMMA AlikeBothWays == \A w, r, s : Alike(w, r, s) => Alike(w, s, r)
<1>1. \A k, a, b : Share(k, a, b) <=> Share(k, b, a)
  BY DEF Share
<1> QED
  BY <1>1 DEF Alike

(* A POST fills an empty graph with its whole body and no rival's.           *)
LEMMA AppendPuts ==
  ASSUME LInv, pc = "write", NEW g \in plan, g \in todo, Append(g)
  PROVE  /\ g \in Graphs(job.delivery) /\ g \in Graph
         /\ store[g] = {} /\ base[g] = {} /\ g \notin written
         /\ Body(job.delivery, g) \in Content
         /\ store'[g] = Body(job.delivery, g) /\ store'[g] # {}
         /\ \A h \in Graph : h # g => store'[h] = store[h]
         /\ Put(g, Body(job.delivery, g))
         /\ OneRunPerWindow' /\ \A h \in Graph : OwnDatabases(h)'
<1>0. TypeOK /\ job.delivery \in Delivery
  BY DEF LInv, TypeOK
<1>1. /\ g \in Graphs(job.delivery) /\ store[g] = {} /\ base[g] = {} /\ g \notin written
      /\ NoRival(g)
  BY DEF LInv, Writing
<1>2. g \in Graph /\ Body(job.delivery, g) \in Content
  BY <1>0, <1>1, DeliveryGraphs
<1>3. store \in [Graph -> SUBSET Database]
  BY <1>0 DEF TypeOK
<1>4. /\ store' = [store EXCEPT ![g] = Body(job.delivery, g)]
      /\ store'[g] = Body(job.delivery, g) /\ store'[g] # {}
      /\ \A h \in Graph : h # g => store'[h] = store[h]
  BY <1>1, <1>2, <1>3 DEF Append, Content
<1>5. ASSUME NEW a \in DataGraph, NEW b \in DataGraph,
             store'[a] # {}, store'[b] # {}, a[2] = b[2], Alike(a[2], a[3], b[3])
      PROVE  a[3] = b[3]
  <2>1. a \in Graph /\ b \in Graph /\ a # Meta /\ b # Meta
    BY LoadAssumption DEF Graph
  <2>2. CASE a = g /\ b # g
    BY <1>1, <1>4, <1>5, <2>1, <2>2 DEF NoRival
  <2>3. CASE a # g /\ b = g
    BY <1>1, <1>4, <1>5, <2>1, <2>3, AlikeBothWays DEF NoRival
  <2>4. CASE a # g /\ b # g
    <3>1. store[a] # {} /\ store[b] # {}
      BY <1>4, <1>5, <2>1, <2>4
    <3>2. QED
      BY <1>5, <3>1 DEF LInv, OneRunPerWindow
  <2>5. QED
    BY <2>2, <2>3, <2>4
<1>6. OneRunPerWindow'
  BY <1>5 DEF OneRunPerWindow
<1>7. Put(g, Body(job.delivery, g))
  BY <1>1, <1>4 DEF Put
<1>9. \A h \in Graph : OwnDatabases(h)'
  <2>1. g # Meta => Body(job.delivery, g) \subseteq Delivered(g[2], g[3])
    BY <1>0, <1>1, DeliveryGraphs
  <2>2. \A h \in Graph : OwnDatabases(h)
    BY DEF LInv
  <2>3. QED
    BY <1>4, <2>1, <2>2 DEF OwnDatabases
<1>8. QED
  BY <1>1, <1>2, <1>4, <1>6, <1>7, <1>9

(* A command that ends other than loaded keeps the invariant if its report   *)
(* undoes what it did.                                                      *)
LEMMA StopKeeps ==
  ASSUME TypeOK', OneRunPerWindow', \A g \in Graph : OwnDatabases(g)', pc' = "idle",
         outcome' \in {"refused", "checked", "stopped", "unverified", "killed"},
         outcome' # "killed" =>
           \A g \in Graph \ {doubt'} : (IF g \in drops' THEN {} ELSE store'[g]) = base'[g]
  PROVE  LInv'
BY DEF LInv, Running, Preflight, Writing, Verifying, Reported, RollbackRestores,
       LoadedMeansStored

(* A graph of the delivery that is stored or was planned free has no rival:  *)
(* nothing of another run of its window that is like its own is stored.      *)
LEMMA AcceptedHasNoRival ==
  ASSUME LInv, pc = "preflight", todo = {}, refused = {}, NEW g \in Graphs(job.delivery)
  PROVE  NoRival(g)
<1> SUFFICES ASSUME g # Meta, NEW h \in DataGraph, h[2] = g[2], h[3] # g[3],
                    Alike(g[2], g[3], h[3])
             PROVE  store[h] = {}
  BY DEF NoRival
<1>1. job.delivery \in Delivery
  BY DEF LInv, TypeOK
<1>2. g \in DataGraph /\ \A k \in Kind : <<k, g[2], g[3]>> \in Graphs(job.delivery)
  BY <1>1, DeliveryGraphs
<1>3. PICK k \in Kind : h[1] = k
  BY DEF DataGraph
<1> DEFINE s == <<k, g[2], g[3]>>
<1>4. /\ s \in Graphs(job.delivery) /\ s \in DataGraph /\ s # Meta
      /\ s[1] = h[1] /\ s[2] = h[2] /\ s[3] # h[3] /\ s[1] = k
      /\ s[2] = g[2] /\ s[3] = g[3]
  BY <1>2, <1>3, LoadAssumption DEF DataGraph
<1> HIDE DEF s
<1>5. s \in plan \/ store[s] # {}
  BY <1>4 DEF LInv, Preflight
<1>6. CASE store[s] # {}
  BY <1>4, <1>6 DEF LInv, OneRunPerWindow
<1>7. CASE s \in plan
  <2>1. ~Taken(s) /\ h \in DataGraph \ {s}
    BY <1>4, <1>7 DEF LInv, Preflight
  <2>2. Body(job.delivery, s) # {} /\ Body(job.delivery, s) \subseteq Delivered(s[2], s[3])
    BY <1>1, <1>4, DeliveryGraphs DEF Content
  <2>3. store[h] \subseteq Delivered(h[2], h[3])
    BY LoadAssumption DEF LInv, OwnDatabases, Graph
  <2>4. \A a \in Body(job.delivery, s), b \in store[h] : ~Share(k, a, b)
    BY <1>4, <2>1 DEF Taken
  <2>5. \A a \in Body(job.delivery, s), b \in store[h] : Share(k, a, b)
    BY <1>4, <2>2, <2>3 DEF Alike
  <2>6. QED
    BY <2>2, <2>4, <2>5
<1>8. QED
  BY <1>5, <1>6, <1>7

(* The preflight keeps the invariant.                                       *)
LEMMA PreflightStep ==
  ASSUME LInv, Next,
         \/ \E g \in Graph : PlanGraph(g)
         \/ Refuse \/ Checked \/ Accepted
         \/ \E d \in Delivery, write \in BOOLEAN : Start(d, write)
  PROVE  LInv'
<1>1. TypeOK'
  BY TypeStep
<1>2. ASSUME NEW g \in Graph, PlanGraph(g) PROVE LInv'
  <2>1. /\ pc = "preflight" /\ pc' = "preflight" /\ todo' = todo \ {g} /\ g \in todo
        /\ store' = store /\ job' = job /\ written' = written /\ base' = base
        /\ outcome' = outcome /\ drops' = drops /\ doubt' = doubt
    BY <1>2 DEF PlanGraph, NextToRead, report
  <2>2. /\ todo \subseteq Graphs(job.delivery) /\ plan \subseteq Graphs(job.delivery)
        /\ written = {}
        /\ \A h \in plan : store[h] = {} /\ ~Taken(h)
        /\ \A h \in Graphs(job.delivery) \ todo : h \in plan \cup refused \/ store[h] # {}
    BY <2>1 DEF LInv, Preflight
  <2>3. \A h : Taken(h)' <=> Taken(h)
    BY <2>1 DEF Taken, Body
  <2>4. /\ plan \subseteq plan' /\ refused \subseteq refused' /\ plan' \subseteq plan \cup {g}
        /\ g \in plan' \ plan => store[g] = {} /\ ~Taken(g)
        /\ g \in plan' \cup refused' \/ store[g] # {}
    BY <1>2 DEF PlanGraph, Planned
  <2>5. \A h \in plan' : store'[h] = {} /\ ~Taken(h)'
    BY <2>1, <2>2, <2>3, <2>4
  <2>6. Preflight'
    BY <2>1, <2>2, <2>4, <2>5 DEF Preflight
  <2>7. OneRunPerWindow' /\ \A h \in Graph : OwnDatabases(h)'
    BY <2>1 DEF LInv, OneRunPerWindow, OwnDatabases
  <2>8. QED
    BY <1>1, <2>1, <2>6, <2>7 DEF LInv, Running, Writing, Verifying, Reported,
                                  RollbackRestores, LoadedMeansStored
<1>3. CASE Refuse \/ Checked
  <2>1. /\ pc = "preflight" /\ pc' = "idle" /\ outcome' \in {"refused", "checked"}
        /\ store' = store /\ base' = base /\ drops' = drops
    BY <1>3 DEF Refuse, Checked, Stop
  <2>2. drops = {} /\ \A g \in Graph : store[g] = base[g]
    BY <2>1 DEF LInv, Running, Preflight
  <2>3. OneRunPerWindow' /\ \A h \in Graph : OwnDatabases(h)'
    BY <2>1 DEF LInv, OneRunPerWindow, OwnDatabases
  <2>4. QED
    BY <1>1, <2>1, <2>2, <2>3, StopKeeps
<1>4. CASE Accepted
  <2>1. /\ pc = "preflight" /\ todo = {} /\ refused = {} /\ pc' = "write"
        /\ todo' = Graphs(job.delivery)
        /\ store' = store /\ job' = job /\ plan' = plan /\ written' = written /\ base' = base
        /\ outcome' = outcome /\ drops' = drops /\ doubt' = doubt
    BY <1>4 DEF Accepted, report
  <2>2. \A g \in Graphs(job.delivery) : NoRival(g)
    BY <2>1, AcceptedHasNoRival
  <2>3. \A g \in Graphs(job.delivery) : NoRival(g)'
    BY <2>1, <2>2 DEF NoRival
  <2>4. /\ plan \subseteq Graphs(job.delivery) /\ written = {}
        /\ \A g \in plan : store[g] = {}
        /\ \A g \in Graphs(job.delivery) : g \in plan \/ store[g] # {}
    BY <2>1 DEF LInv, Preflight
  <2>5. \A g \in plan : base[g] = {}
    <3>1. Graphs(job.delivery) \subseteq Graph
      BY DeliveryGraphs DEF LInv, TypeOK
    <3>2. QED
      BY <2>1, <2>4, <3>1 DEF LInv, Running
  <2>6. Writing'
    BY <2>1, <2>3, <2>4, <2>5 DEF Writing
  <2>7. OneRunPerWindow' /\ \A h \in Graph : OwnDatabases(h)'
    BY <2>1 DEF LInv, OneRunPerWindow, OwnDatabases
  <2>8. QED
    BY <1>1, <2>1, <2>6, <2>7 DEF LInv, Running, Preflight, Verifying, Reported,
                                  RollbackRestores, LoadedMeansStored
<1>5. ASSUME NEW d \in Delivery, NEW write \in BOOLEAN, Start(d, write) PROVE LInv'
  <2>1. /\ pc' = "preflight" /\ job' = [delivery |-> d, write |-> write]
        /\ todo' = Graphs(d) /\ plan' = {} /\ written' = {}
        /\ outcome' = "none" /\ drops' = {} /\ doubt' = None
        /\ base' = store /\ store' = store
    BY <1>5 DEF Start
  <2>2. OneRunPerWindow' /\ \A h \in Graph : OwnDatabases(h)'
    BY <2>1 DEF LInv, OneRunPerWindow, OwnDatabases
  <2>3. Preflight'
    BY <2>1 DEF Preflight
  <2>4. QED
    BY <1>1, <2>1, <2>2, <2>3 DEF LInv, Running, Writing, Verifying, Reported,
                                  RollbackRestores, LoadedMeansStored
<1>6. QED
  BY <1>2, <1>3, <1>4, <1>5

(* Writing keeps the invariant.                                             *)
LEMMA WriteStep ==
  ASSUME LInv, Next, Written \/ \E g \in Graph : SkipGraph(g) \/ WriteGraph(g)
  PROVE  LInv'
<1>1. TypeOK'
  BY TypeStep
<1>2. ASSUME NEW g \in Graph, SkipGraph(g) PROVE LInv'
  <2>1. /\ pc = "write" /\ pc' = "write" /\ todo' = todo \ {g} /\ g \notin plan
        /\ store' = store /\ job' = job /\ plan' = plan /\ written' = written /\ base' = base
        /\ outcome' = outcome /\ drops' = drops /\ doubt' = doubt
    BY <1>2 DEF SkipGraph, report
  <2>2. \A h \in Graphs(job.delivery) : NoRival(h)' <=> NoRival(h)
    BY <2>1 DEF NoRival
  <2>3. Writing'
    BY <2>1, <2>2 DEF LInv, Writing
  <2>4. OneRunPerWindow' /\ \A h \in Graph : OwnDatabases(h)'
    BY <2>1 DEF LInv, OneRunPerWindow, OwnDatabases
  <2>5. QED
    BY <1>1, <2>1, <2>3, <2>4 DEF LInv, Running, Preflight, Verifying, Reported,
                                  RollbackRestores, LoadedMeansStored
<1>3. ASSUME NEW g \in Graph, WriteGraph(g) PROVE LInv'
  <2>1. /\ pc = "write" /\ pc' = "write" /\ todo' = todo \ {g} /\ g \in plan /\ g \in todo
        /\ Append(g) /\ written' = written \cup {g}
        /\ job' = job /\ plan' = plan /\ base' = base
        /\ outcome' = outcome /\ drops' = drops /\ doubt' = doubt
    BY <1>3 DEF WriteGraph, NextToWrite, report
  <2>2. /\ base[g] = {} /\ store'[g] # {} /\ g \in Graphs(job.delivery)
        /\ store'[g] = Body(job.delivery, g)
        /\ \A h \in Graph : h # g => store'[h] = store[h]
        /\ OneRunPerWindow' /\ \A h \in Graph : OwnDatabases(h)'
    BY <2>1, AppendPuts
  <2>3. /\ todo \subseteq Graphs(job.delivery) /\ plan \subseteq Graphs(job.delivery)
        /\ written \subseteq plan \ todo
        /\ \A h \in plan : base[h] = {}
        /\ \A h \in plan \cap todo : store[h] = {}
        /\ \A h \in Graphs(job.delivery) : store[h] # {} \/ h \in plan \cap todo
        /\ \A h \in Graphs(job.delivery) : NoRival(h)
    BY <2>1 DEF LInv, Writing
  <2>4. Graphs(job.delivery) \subseteq Graph /\ job.delivery \in Delivery
    BY DeliveryGraphs DEF LInv, TypeOK
  <2>5. ASSUME NEW h \in Graphs(job.delivery), h # Meta, NEW i \in DataGraph,
               i[2] = h[2], i[3] # h[3], Alike(h[2], h[3], i[3])
        PROVE  store'[i] = {}
    <3>1. store[i] = {}
      BY <2>3, <2>5 DEF NoRival
    <3>2. i # g
      <4>1. Meta \notin DataGraph
        BY LoadAssumption
      <4>2. QED
        BY <2>2, <2>4, <2>5, <4>1, DeliveryGraphs
    <3>3. QED
      BY <2>2, <3>1, <3>2 DEF Graph
  <2>6. \A h \in Graphs(job.delivery) : NoRival(h)'
    BY <2>5 DEF NoRival
  <2>7. /\ todo' \subseteq Graphs(job.delivery) /\ written' \subseteq plan \ todo'
        /\ \A h \in plan \cap todo' : store'[h] = {}
        /\ \A h \in Graphs(job.delivery) : store'[h] # {} \/ h \in plan \cap todo'
    BY <2>1, <2>2, <2>3, <2>4
  <2>8. Writing'
    BY <2>1, <2>3, <2>6, <2>7 DEF Writing
  <2>9. Running'
    BY <2>1, <2>2 DEF LInv, Running
  <2>10. QED
    BY <1>1, <2>1, <2>2, <2>8, <2>9 DEF LInv, Preflight, Verifying, Reported,
                                        RollbackRestores, LoadedMeansStored, Running
<1>4. CASE Written
  <2>1. /\ pc = "write" /\ pc' = "verify" /\ todo' = Graphs(job.delivery)
        /\ store' = store /\ job' = job /\ plan' = plan /\ written' = written /\ base' = base
        /\ outcome' = outcome /\ drops' = drops /\ doubt' = doubt
    BY <1>4 DEF Written, report
  <2>2. OneRunPerWindow' /\ \A h \in Graph : OwnDatabases(h)'
    BY <2>1 DEF LInv, OneRunPerWindow, OwnDatabases
  <2>3. Verifying'
    BY <2>1 DEF Verifying
  <2>4. QED
    BY <1>1, <2>1, <2>2, <2>3 DEF LInv, Running, Preflight, Writing, Reported,
                                  RollbackRestores, LoadedMeansStored
<1>5. QED
  BY <1>2, <1>3, <1>4

(* Verifying and every way to end keep the invariant.                       *)
LEMMA EndStep ==
  ASSUME LInv, Next,
         \/ Loaded \/ ReadFails \/ Kill
         \/ \E g \in Graph : \/ VerifyGraph(g) \/ VerifyFails(g) \/ WriteFails(g)
                             \/ LowDisk(g) \/ LoseAnswer(g) \/ OperatorDrops(g)
  PROVE  LInv'
<1>1. TypeOK'
  BY TypeStep
<1>2. store' = store => OneRunPerWindow' /\ \A g \in Graph : OwnDatabases(g)'
  BY DEF LInv, OneRunPerWindow, OwnDatabases
<1>3. pc # "idle" => \A g \in Graph : IF g \in written THEN base[g] = {} ELSE store[g] = base[g]
  BY DEF LInv, Running
<1>4. ASSUME NEW g \in Graph, VerifyGraph(g) PROVE LInv'
  <2>1. /\ pc = "verify" /\ pc' = "verify" /\ todo' = todo \ {g} /\ Matches(g)
        /\ store' = store /\ job' = job /\ plan' = plan /\ written' = written /\ base' = base
        /\ outcome' = outcome /\ drops' = drops /\ doubt' = doubt
    BY <1>4 DEF VerifyGraph, report
  <2>2. Verifying'
    BY <2>1 DEF LInv, Verifying, Matches
  <2>3. QED
    BY <1>1, <1>2, <2>1, <2>2 DEF LInv, Running, Preflight, Writing, Reported,
                                  RollbackRestores, LoadedMeansStored
<1>5. CASE Loaded
  <2>1. /\ pc = "verify" /\ todo = {} /\ pc' = "idle" /\ outcome' = "loaded"
        /\ store' = store /\ job' = job /\ drops' = drops /\ base' = base
    BY <1>5 DEF Loaded, Stop
  <2>2. drops = {} /\ \A g \in Graphs(job.delivery) : Matches(g)
    BY <2>1 DEF LInv, Running, Verifying
  <2>4. \A g \in Graphs(job.delivery) :
          store[g] = Body(job.delivery, g) \/ (g # Meta /\ store[g] = base[g])
    <3>1. Graphs(job.delivery) \subseteq Graph
      BY DeliveryGraphs DEF LInv, TypeOK
    <3>2. QED
      BY <2>1, <2>2, <3>1 DEF LInv, Running, Matches
  <2>5. ASSUME NEW g \in Graphs(job.delivery), store[g] # Body(job.delivery, g)
        PROVE  /\ g # Meta /\ base[g] # {} /\ store[g] = base[g]
               /\ Shown(store[g]) = Shown(Body(job.delivery, g))
    <3>1. Shown(store[g]) = Shown(Body(job.delivery, g)) /\ g # Meta /\ store[g] = base[g]
      BY <2>2, <2>4, <2>5 DEF Matches
    <3>2. Body(job.delivery, g) # {}
      BY DeliveryGraphs DEF LInv, TypeOK, Content
    <3>3. store[g] # {}
      BY <3>1, <3>2 DEF Shown
    <3>4. QED
      BY <3>1, <3>3
  <2>6. LoadedMeansStored'
    <3>1. \A g : /\ (store'[g] = Body(job'.delivery, g)) <=> (store[g] = Body(job.delivery, g))
                 /\ Shown(store'[g]) = Shown(store[g])
                 /\ Shown(Body(job'.delivery, g)) = Shown(Body(job.delivery, g))
      BY <2>1
    <3>2. Graphs(job'.delivery) = Graphs(job.delivery)
      BY <2>1
    <3>3. QED
      BY <2>1, <2>5, <3>1, <3>2 DEF LoadedMeansStored
  <2>3. QED
    BY <1>1, <1>2, <2>1, <2>2, <2>6 DEF LInv, Running, Preflight, Writing, Verifying,
                                        Reported, RollbackRestores
<1>6. CASE ReadFails
  <2>1. /\ pc # "idle" /\ pc' = "idle" /\ outcome' = "stopped"
        /\ store' = store /\ base' = base /\ drops' = written
    BY <1>6 DEF ReadFails, Stop
  <2>2. QED
    BY <1>1, <1>2, <1>3, <2>1, StopKeeps
<1>7. ASSUME NEW g \in Graph, VerifyFails(g) \/ WriteFails(g) PROVE LInv'
  <2>1. /\ pc # "idle" /\ pc' = "idle" /\ outcome' \in {"stopped", "unverified"}
        /\ store' = store /\ base' = base /\ drops' = written
    BY <1>7 DEF VerifyFails, WriteFails, Stop
  <2>2. QED
    BY <1>1, <1>2, <1>3, <2>1, StopKeeps
<1>8. ASSUME NEW g \in Graph, LowDisk(g) PROVE LInv'
  <2>1. /\ pc = "write" /\ pc' = "idle" /\ outcome' = "stopped" /\ g \in plan
        /\ store' = store /\ base' = base /\ drops' = written \cup {g}
    BY <1>8 DEF LowDisk, Stop
  <2>2. base[g] = {}
    BY <2>1 DEF LInv, Writing
  <2>3. QED
    BY <1>1, <1>2, <1>3, <2>1, <2>2, StopKeeps
<1>9. ASSUME NEW g \in Graph, LoseAnswer(g) PROVE LInv'
  <2>1. /\ pc = "write" /\ pc' = "idle" /\ outcome' = "stopped" /\ g \in plan /\ g \in todo
        /\ base' = base /\ doubt' = g /\ (Append(g) \/ store' = store)
        /\ drops' = written \cup (IF g = Meta THEN {g} ELSE {})
    BY <1>9 DEF LoseAnswer, NextToWrite, Stop
  <2>2. /\ OneRunPerWindow' /\ \A h \in Graph : OwnDatabases(h)'
        /\ \A h \in Graph : h # g => store'[h] = store[h]
    BY <1>2, <2>1, AppendPuts
  <2>3. QED
    BY <1>1, <1>3, <2>1, <2>2, StopKeeps
<1>10. CASE Kill
  <2>1. /\ pc' = "idle" /\ outcome' = "killed"
        /\ \/ store' = store
           \/ pc = "write" /\ \E g \in plan : g \in todo /\ Append(g)
    BY <1>10 DEF Kill, NextToWrite, Stop
  <2>2. OneRunPerWindow' /\ \A h \in Graph : OwnDatabases(h)'
    BY <1>2, <2>1, AppendPuts
  <2>3. QED
    BY <1>1, <2>1, <2>2, StopKeeps
<1>11. ASSUME NEW g \in Graph, OperatorDrops(g) PROVE LInv'
  <2>1. /\ pc = "idle" /\ pc' = "idle" /\ g \in drops /\ drops' = drops \ {g}
        /\ outcome' = outcome /\ doubt' = doubt /\ base' = base /\ job' = job
        /\ store' = [store EXCEPT ![g] = {}]
    BY <1>11 DEF OperatorDrops, Drop
  <2>2. store'[g] = {} /\ \A h \in Graph : h # g => store'[h] = store[h]
    BY <2>1 DEF LInv, TypeOK
  <2>3. OneRunPerWindow' /\ \A h \in Graph : OwnDatabases(h)'
    <3>1. \A h \in Graph : store'[h] \subseteq store[h]
      BY <2>2
    <3>2. OneRunPerWindow'
      BY <3>1 DEF LInv, OneRunPerWindow, Graph
    <3>3. \A h \in Graph : OwnDatabases(h)'
      BY <3>1 DEF LInv, OwnDatabases
    <3>4. QED
      BY <3>2, <3>3
  <2>4. outcome # "loaded"
    BY <2>1 DEF LInv, Reported
  <2>5. RollbackRestores'
    BY <2>1, <2>2 DEF LInv, Reported, RollbackRestores
  <2>6. QED
    BY <1>1, <2>1, <2>3, <2>4, <2>5 DEF LInv, Running, Preflight, Writing, Verifying, Reported,
                                        LoadedMeansStored
<1>12. QED
  BY <1>4, <1>5, <1>6, <1>7, <1>8, <1>9, <1>10, <1>11

LEMMA LoadStutter == ASSUME LInv, UNCHANGED vars PROVE LInv'
<1>1. /\ store' = store /\ pc' = pc /\ job' = job /\ todo' = todo /\ plan' = plan
      /\ refused' = refused /\ written' = written /\ outcome' = outcome /\ drops' = drops
      /\ doubt' = doubt /\ base' = base /\ faults' = faults
  BY DEF vars, report
<1>2. TypeOK' /\ OneRunPerWindow' /\ Running' /\ Reported' /\ \A g \in Graph : OwnDatabases(g)'
  BY <1>1 DEF LInv, TypeOK, OneRunPerWindow, Running, Reported, RollbackRestores,
              LoadedMeansStored, OwnDatabases
<1>3. /\ \A g : Taken(g)' <=> Taken(g)
      /\ \A g : NoRival(g)' <=> NoRival(g)
      /\ \A g : Matches(g)' <=> Matches(g)
  BY <1>1 DEF Taken, NoRival, Matches, Body
<1>4. Verifying'
  BY <1>1, <1>3 DEF LInv, Verifying
<1>5. Preflight'
  <2>1. CASE pc = "preflight"
    <3>1. /\ todo \subseteq Graphs(job.delivery) /\ plan \subseteq Graphs(job.delivery)
          /\ written = {}
          /\ \A g \in plan : store[g] = {} /\ ~Taken(g)
          /\ \A g \in Graphs(job.delivery) \ todo : g \in plan \cup refused \/ store[g] # {}
      BY <2>1 DEF LInv, Preflight
    <3>2. \A g \in plan' : store'[g] = {} /\ ~Taken(g)'
      BY <1>1, <1>3, <3>1
    <3>3. QED
      BY <1>1, <3>1, <3>2 DEF Preflight
  <2>2. QED
    BY <1>1, <2>1 DEF Preflight
<1>6. Writing'
  <2>1. CASE pc = "write"
    <3>1. /\ todo \subseteq Graphs(job.delivery) /\ plan \subseteq Graphs(job.delivery)
          /\ written \subseteq plan \ todo
          /\ \A g \in plan : base[g] = {}
          /\ \A g \in plan \cap todo : store[g] = {}
          /\ \A g \in Graphs(job.delivery) : store[g] # {} \/ g \in plan \cap todo
          /\ \A g \in Graphs(job.delivery) : NoRival(g)
      BY <2>1 DEF LInv, Writing
    <3>2. \A g \in Graphs(job.delivery)' : NoRival(g)'
      BY <1>1, <1>3, <3>1
    <3>3. QED
      BY <1>1, <3>1, <3>2 DEF Writing
  <2>2. QED
    BY <1>1, <2>1 DEF Writing
<1>7. QED
  BY <1>2, <1>4, <1>5, <1>6 DEF LInv

THEOREM LoadInvariant == Spec => []LInv
<1>1. LInv /\ [Next]_vars => LInv'
  <2> SUFFICES ASSUME LInv, Next PROVE LInv'
    BY LoadStutter
  <2>1. QED
    BY PreflightStep, WriteStep, EndStep DEF Next, LoadStep, Failure
<1>2. QED
  BY <1>1, LoadInit, PTL DEF Spec

(* Plans, reports and store always have their types.                        *)
THEOREM LoadTypeCorrect == Spec => []TypeOK
<1>1. LInv => TypeOK
  BY DEF LInv
<1>2. QED
  BY <1>1, LoadInvariant, PTL

(* After any failure that is reported, the printed drops undo the command.   *)
THEOREM DropsUndo == Spec => []RollbackRestores
<1>1. LInv => RollbackRestores
  BY DEF LInv, Reported
<1>2. QED
  BY <1>1, LoadInvariant, PTL

(* A command that exits 0 leaves a graph in the store for all it was given:   *)
(* what it wrote is the delivery's, what it found shows the same figures.     *)
THEOREM LoadedIsStored == Spec => []LoadedMeansStored
<1>1. LInv => LoadedMeansStored
  BY DEF LInv, Reported
<1>2. QED
  BY <1>1, LoadInvariant, PTL

(* Runs of one window that share an arm and a cycle never mix, though each    *)
(* kind of graph is checked alone.                                          *)
THEOREM RunsDoNotMix == Spec => []OneRunPerWindow
<1>1. LInv => OneRunPerWindow
  BY DEF LInv
<1>2. QED
  BY <1>1, LoadInvariant, PTL

(* A step that changes the store POSTs one planned graph or drops one.       *)
LEMMA StoreSteps ==
  ASSUME LInv, Next
  PROVE  \/ store' = store
         \/ \E g \in Graph : Drop(g)
         \/ pc = "write" /\ \E g \in plan : NextToWrite(g) /\ Append(g)
<1>1. CASE Refuse \/ Checked \/ Accepted \/ Written \/ Loaded \/ ReadFails
  BY <1>1 DEF Refuse, Checked, Accepted, Written, Loaded, ReadFails
<1>2. CASE Kill
  BY <1>2 DEF Kill
<1>3. ASSUME NEW g \in Graph,
             PlanGraph(g) \/ SkipGraph(g) \/ VerifyGraph(g) \/ VerifyFails(g)
             \/ WriteFails(g) \/ LowDisk(g)
      PROVE  store' = store
  BY <1>3 DEF PlanGraph, SkipGraph, VerifyGraph, VerifyFails, WriteFails, LowDisk
<1>4. ASSUME NEW g \in Graph, WriteGraph(g) \/ LoseAnswer(g)
      PROVE  store' = store \/ (pc = "write" /\ g \in plan /\ NextToWrite(g) /\ Append(g))
  BY <1>4 DEF WriteGraph, LoseAnswer
<1>5. ASSUME NEW d \in Delivery, NEW write \in BOOLEAN, Start(d, write) PROVE store' = store
  BY <1>5 DEF Start
<1>6. ASSUME NEW g \in Graph, OperatorDrops(g) PROVE Drop(g)
  BY <1>6 DEF OperatorDrops
<1>7. QED
  BY <1>1, <1>2, <1>3, <1>4, <1>5, <1>6 DEF Next, LoadStep, Failure

(* Every command, failed or not, implements the append-only archive.         *)
THEOREM GraphsStayWhole == Spec => WholeGraphs
<1>1. Init => ArchiveInit
  BY DEF Init
<1>2. LInv /\ [Next]_vars => [ArchiveNext]_store
  <2> SUFFICES ASSUME LInv, Next PROVE [ArchiveNext]_store
    BY DEF vars
  <2>1. ASSUME pc = "write", NEW g \in plan, NextToWrite(g), Append(g) PROVE ArchiveNext
    <3>1. g \in Graph /\ Body(job.delivery, g) \in Content /\ Put(g, Body(job.delivery, g))
      BY <2>1, AppendPuts DEF NextToWrite
    <3>2. QED
      BY <3>1 DEF ArchiveNext
  <2>2. QED
    BY <2>1, StoreSteps DEF ArchiveNext
<1>3. QED
  BY <1>1, <1>2, LoadInvariant, PTL DEF Spec, WholeGraphs, ArchiveSpec

(* A label's metadata never describes a run whose graphs are not stored.     *)
THEOREM MetadataComesLast == Spec => MetadataLast
<1> DEFINE Last == store[Meta] = {} /\ store'[Meta] # {} =>
              \A db \in store'[Meta], k \in Kind : store[<<k, db.window, db.run>>] # {}
<1>1. LInv /\ [Next]_vars => [Last]_vars
  <2> SUFFICES ASSUME LInv, Next, store[Meta] = {}, store'[Meta] # {},
                      NEW db \in store'[Meta], NEW k \in Kind
               PROVE  store[<<k, db.window, db.run>>] # {}
    BY DEF vars
  <2>0. Meta \in Graph
    BY DEF Graph
  <2>1. ~\E g \in Graph : Drop(g)
    BY <2>0 DEF Drop, LInv, TypeOK
  <2>2. PICK g \in plan : pc = "write" /\ NextToWrite(g) /\ Append(g)
    BY <2>1, StoreSteps
  <2>3. g = Meta /\ store'[Meta] = Body(job.delivery, Meta) /\ Meta \in todo
    BY <2>0, <2>2, AppendPuts DEF NextToWrite
  <2>4. \A h \in todo : h = Meta
    BY <2>2, <2>3 DEF NextToWrite, WriteBefore
  <2>5. db \in job.delivery.dbs
    BY <2>3 DEF Body
  <2> DEFINE h == <<k, db.window, db.run>>
  <2>6. h \in Graphs(job.delivery)
    BY <2>5 DEF Graphs
  <2>7. db.window \in Window /\ db.run \in Run
    BY <2>5, LoadAssumption DEF LInv, TypeOK, Database
  <2>8. h # Meta
    BY <2>7, LoadAssumption DEF DataGraph
  <2>9. QED
    BY <2>2, <2>4, <2>6, <2>8 DEF LInv, Writing
<1>2. QED
  BY <1>1, LoadInvariant, PTL DEF Spec, MetadataLast
=============================================================================
