------------------------ MODULE ScoreProjection_proofs ------------------------
(* What the score projector keeps true for any rows, lanes and days, however *)
(* often upstream edits and analyses, and wherever its runs fail.           *)
EXTENDS ScoreProjection, TLAPS

(* Only cycle lanes' keys are late; a settled row of a cycle lane is in the  *)
(* store or was left out by design.                                         *)
LateAreOfCycles == \A r \in late : ~DataDated(r)
SettledAreSafe == \A r \in settled : DataDated(r) \/ InStore(r) \/ read[r] = "unusable"

(* A quarter that a full run covered is complete upstream but for broken     *)
(* rows, and so it was when a run read it; a run that is about to write a     *)
(* quarter has read all of it, but for broken and raced rows.               *)
CoveredAreGood == \A r \in Row : Promised(r, runs) => upstream[r] = "good" \/ r \in broken
ReadingIsWhole ==
  pc = "read" => \A r \in Row : Promised(r, before) => read[r] = "good" \/ r \in broken
QuartersAreWhole ==
  pc = "write" =>
    \A r \in Row : DataDated(r) /\ GraphName(r, runDay) \in todo =>
                     Projectable(r, read, runDay) \/ r \in broken \cup raced

(* Nothing is settled before the rows are read.                             *)
Resting == pc \in {"idle", "read"} => settled = {}

PInv == /\ TypeOK /\ Resting /\ LateAreOfCycles /\ SettledAreSafe /\ CoveredAreGood
        /\ ReadingIsWhole /\ QuartersAreWhole /\ OnlyLatecomersAreLost

-----------------------------------------------------------------------------
(* Days and quarters are in the same order.                                 *)
LEMMA QuarterFacts ==
  /\ \A d \in Day : Quarter(d) \in Day
  /\ \A d, e \in Day : d <= e => Quarter(d) <= Quarter(e)
<1>1. QuarterLength \in Nat /\ QuarterLength > 0 /\ MaxDay \in Nat
  BY ScoreAssumption
<1>2. ASSUME NEW d \in Day PROVE Quarter(d) \in Day
  BY <1>1 DEF Day, Quarter
<1>3. ASSUME NEW d \in Day, NEW e \in Day, d <= e PROVE Quarter(d) <= Quarter(e)
  BY <1>1, <1>3 DEF Day, Quarter
<1>4. QED
  BY <1>2, <1>3

(* A row's graph is a graph, and the same on every day if it is a quarter.   *)
LEMMA GraphNames ==
  ASSUME NEW r \in Row
  PROVE  /\ \A day \in Day : GraphName(r, day) \in Graph
         /\ \A day : GraphName(r, day)[1] = LaneOf[r]
         /\ DataDated(r) => \A day : GraphName(r, day) = <<Fundamental, Quarter(Avail[r])>>
<1>1. LaneOf[r] \in Lane /\ Avail[r] \in Day
  BY ScoreAssumption
<1>2. Quarter(Avail[r]) \in Day
  BY <1>1, QuarterFacts
<1>3. QED
  BY <1>1, <1>2 DEF GraphName, Graph, DataDated

(* A row the run projects fits its graph.                                   *)
LEMMA BlocksFit ==
  ASSUME NEW g \in Graph, NEW r \in Blocks(g)
  PROVE  r \in Row /\ Fits(r, g)
<1>1. r \in Row /\ g = GraphName(r, runDay) /\ Avail[r] <= runDay
  BY DEF Blocks, Projectable
<1>2. g = <<LaneOf[r], IF DataDated(r) THEN Quarter(Avail[r]) ELSE runDay>>
  BY <1>1 DEF GraphName
<1>3. QED
  BY <1>1, <1>2 DEF Fits, DataDated

(* Adding a graph publishes it.                                             *)
LEMMA AddPublishes ==
  ASSUME TypeOK, NEW g \in Graph, Add(g)
  PROVE  /\ Publish(g, Fresh(g)) /\ Fresh(g) \in SUBSET Row
         /\ store' = [store EXCEPT ![g] = Fresh(g)] /\ store[g] = {}
<1>1. Fresh(g) \subseteq Blocks(g) /\ Fresh(g) # {} /\ store[g] = {} /\ Conforms(g)
  BY DEF Add, Fresh, GraphExists
<1>2. \A r \in Fresh(g) : Fits(r, g) /\ r \in Row
  BY <1>1, BlocksFit
<1>3. \A r \in Fresh(g) : \A h \in Graph : r \notin store[h]
  BY <1>1 DEF Conforms, InStore
<1>4. store' = [store EXCEPT ![g] = Fresh(g)]
  BY <1>1 DEF Add
<1>5. QED
  BY <1>1, <1>2, <1>3, <1>4 DEF Publish

(* The store only grows, and by rows the run has read.                      *)
LEMMA StoreGrows ==
  ASSUME TypeOK, (\E g \in Graph : Add(g)) \/ store' = store
  PROVE  /\ store' \in [Graph -> SUBSET Row]
         /\ \A h \in Graph : store[h] \subseteq store'[h]
         /\ \A r : InStore(r) => InStore(r)'
<1>1. store \in [Graph -> SUBSET Row]
  BY DEF TypeOK
<1>2. ASSUME NEW g \in Graph, Add(g)
      PROVE  store' \in [Graph -> SUBSET Row] /\ \A h \in Graph : store[h] \subseteq store'[h]
  BY <1>1, <1>2, AddPublishes
<1>3. store' \in [Graph -> SUBSET Row] /\ \A h \in Graph : store[h] \subseteq store'[h]
  BY <1>1, <1>2
<1>4. QED
  BY <1>3 DEF InStore

-----------------------------------------------------------------------------
(* What every step of a run on one of its graphs has in common.             *)
GraphStep(g) ==
  Skip(g) \/ Lose(g) \/ Defer(g) \/ Refuse(g) \/ Write(g) \/ StoreFails(g) \/ LoseAnswer(g)
LEMMA GraphStepFrame ==
  ASSUME TypeOK, NEW g \in Graph, GraphStep(g)
  PROVE  /\ pc = "write" /\ pc' \in {"write", "settle"} /\ g \in todo
         /\ todo' \subseteq todo /\ faults' \in 0..MaxFaults
         /\ Add(g) \/ store' = store
         /\ settled' \subseteq Row /\ lost' \subseteq Row
         /\ upstream' = upstream /\ runs' = runs /\ today' = today /\ broken' = broken
         /\ changes' = changes /\ late' = late /\ known' = known
         /\ runDay' = runDay /\ read' = read /\ before' = before /\ raced' = raced
<1>1. pc = "write" /\ g \in todo
  BY DEF GraphStep, Skip, Lose, Defer, Refuse, Write, Add, StoreFails, LoseAnswer, Sent, Current
<1>2. /\ upstream' = upstream /\ runs' = runs /\ today' = today /\ broken' = broken
      /\ changes' = changes /\ late' = late /\ known' = known
      /\ runDay' = runDay /\ read' = read /\ before' = before /\ raced' = raced
  BY DEF GraphStep, Skip, Lose, Defer, Refuse, Write, StoreFails, LoseAnswer, Done, Interrupted,
         world, files, asRead
<1>3. /\ pc' \in {"write", "settle"} /\ todo' \subseteq todo
  BY <1>1 DEF GraphStep, Skip, Lose, Defer, Refuse, Write, StoreFails, LoseAnswer, Done,
              Interrupted
<1>4. faults' = faults \/ (faults < MaxFaults /\ faults' = faults + 1)
  BY DEF GraphStep, Skip, Lose, Defer, Refuse, Write, StoreFails, LoseAnswer, Done, Fault
<1>5. faults' \in 0..MaxFaults
  BY <1>4, ScoreAssumption DEF TypeOK
<1>6. Add(g) \/ store' = store
  BY DEF GraphStep, Skip, Lose, Defer, Refuse, Write, StoreFails, LoseAnswer, Sent
<1>7. Have(g) \subseteq Row /\ Blocks(g) \subseteq Row /\ Fresh(g) \subseteq Row
  BY DEF Have, Blocks, Fresh
<1>8. settled \subseteq Row /\ lost \subseteq Row
  BY DEF TypeOK
<1>9. settled' \subseteq Row /\ lost' \subseteq Row
  BY <1>7, <1>8 DEF GraphStep, Skip, Lose, Defer, Refuse, Write, StoreFails, LoseAnswer,
                    Interrupted
<1>10. QED
  BY <1>1, <1>2, <1>3, <1>5, <1>6, <1>9

(* What such a step settles is in the store, or belongs to a lost quarter.   *)
LEMMA GraphStepSettles ==
  ASSUME TypeOK, NEW g \in Graph, GraphStep(g)
  PROVE  \A r \in settled' \ settled : DataDated(r) \/ InStore(r)'
<1>1. \A r : InStore(r) => InStore(r)'
  BY GraphStepFrame, StoreGrows
<1>2. \A r \in Have(g) : InStore(r)'
  BY <1>1 DEF Have
<1>3. CASE Skip(g) \/ Defer(g) \/ Refuse(g) \/ StoreFails(g) \/ LoseAnswer(g)
  BY <1>2, <1>3 DEF Skip, Defer, Refuse, StoreFails, LoseAnswer
<1>4. CASE Lose(g)
  <2>1. ASSUME NEW r \in Blocks(g) PROVE DataDated(r)
    BY <1>4, BlocksFit DEF Lose, Fits, DataDated
  <2>2. QED
    BY <1>4, <2>1 DEF Lose
<1>5. CASE Write(g)
  <2>1. Add(g) /\ settled' = settled \cup Blocks(g)
    BY <1>5 DEF Write
  <2>2. store \in [Graph -> SUBSET Row] /\ store' = [store EXCEPT ![g] = Fresh(g)]
    BY <2>1, AddPublishes DEF TypeOK
  <2>3. \A r \in Fresh(g) : r \in store'[g]
    BY <2>2
  <2>4. \A r \in Fresh(g) : InStore(r)'
    BY <2>3 DEF InStore
  <2>5. QED
    BY <1>2, <2>1, <2>4 DEF Fresh
<1>6. QED
  BY <1>3, <1>4, <1>5 DEF GraphStep

(* A quarter that is added lacks only broken rows.                          *)
LEMMA AddKeepsQuarters ==
  ASSUME TypeOK, QuartersAreWhole, OnlyLatecomersAreLost, raced' = raced,
         broken \subseteq broken',
         (\E g \in Graph : Add(g)) \/ store' = store
  PROVE  OnlyLatecomersAreLost'
<1>1. CASE store' = store
  BY <1>1 DEF OnlyLatecomersAreLost, GraphExists, InStore
<1>2. ASSUME NEW g \in Graph, Add(g), NEW r \in Row, DataDated(r),
             store'[GraphName(r, 0)] # {}, ~InStore(r)'
      PROVE  r \in broken' \cup raced'
  <2>1. /\ GraphName(r, 0) \in Graph /\ GraphName(r, 0) = GraphName(r, runDay)
        /\ \A day \in Day : GraphName(r, day) \in Graph
    BY <1>2, GraphNames, ScoreAssumption DEF Day
  <2>2. ~InStore(r)
    BY <1>2, StoreGrows
  <2>3. store \in [Graph -> SUBSET Row] /\ store' = [store EXCEPT ![g] = Fresh(g)]
    BY <1>2, AddPublishes DEF TypeOK
  <2>4. CASE GraphName(r, 0) = g
    <3>1. pc = "write" /\ g \in todo
      BY <1>2 DEF Add, Current
    <3>2. Projectable(r, read, runDay) \/ r \in broken \cup raced
      BY <1>2, <2>1, <2>4, <3>1 DEF QuartersAreWhole
    <3>3. Projectable(r, read, runDay) => r \in Fresh(g)
      BY <2>1, <2>2, <2>4 DEF Fresh, Blocks, Have
    <3>4. r \in Fresh(g) => InStore(r)'
      BY <2>3 DEF InStore
    <3>5. QED
      BY <1>2, <3>2, <3>3, <3>4
  <2>5. CASE GraphName(r, 0) # g
    <3>1. store[GraphName(r, 0)] # {}
      BY <1>2, <2>1, <2>3, <2>5
    <3>2. QED
      BY <1>2, <2>2, <3>1 DEF OnlyLatecomersAreLost, GraphExists
  <2>6. QED
    BY <2>4, <2>5
<1>3. QED
  BY <1>1, <1>2 DEF OnlyLatecomersAreLost, GraphExists

-----------------------------------------------------------------------------
(* A run that projects one row of a quarter has read the whole quarter, but  *)
(* for broken rows and those that the reading came too early for.           *)
LEMMA CoveredQuarterIsRead ==
  ASSUME ReadingIsWhole, pc = "read", NEW day \in Day, NEW r \in Row, NEW s \in Row,
         DataDated(r), GraphName(r, day) = GraphName(s, day), Projectable(s, read, day)
  PROVE  Projectable(r, read, day) \/ r \in broken \cup Torn
<1>1. DataDated(s) /\ Quarter(Avail[s]) = Quarter(Avail[r])
  <2>1. LaneOf[s] = LaneOf[r]
    BY GraphNames
  <2>2. DataDated(s)
    BY <2>1 DEF DataDated
  <2>3. <<Fundamental, Quarter(Avail[r])>> = <<Fundamental, Quarter(Avail[s])>>
    BY <2>2, GraphNames
  <2>4. QED
    BY <2>2, <2>3
<1>2. Quarter(Avail[r]) < Quarter(day) /\ QuarterCovered(Quarter(Avail[r]), day)
  BY <1>1 DEF Projectable
<1>3. Avail[r] \in Day
  BY ScoreAssumption
<1>4. Avail[r] <= day
  <2>1. Quarter(Avail[r]) \in Int /\ Quarter(day) \in Int /\ Avail[r] \in Int /\ day \in Int
    BY <1>3, QuarterFacts DEF Day
  <2>2. day <= Avail[r] => Quarter(day) <= Quarter(Avail[r])
    BY <1>3, QuarterFacts
  <2>3. QED
    BY <1>2, <2>1, <2>2
<1>5. Promised(r, runs)
  BY <1>2 DEF QuarterCovered, Promised
<1>6. read[r] = "good" \/ r \in broken \cup Torn
  BY <1>5 DEF ReadingIsWhole, Torn
<1>7. QED
  BY <1>2, <1>4, <1>6 DEF Projectable

(* Upstream's edits and analyses keep the invariant.                        *)
LEMMA UpstreamKeeps ==
  ASSUME PInv, upstream' \in [Row -> Status], runs \subseteq runs', runs' \subseteq Day,
         changes' \in 0..MaxChanges,
         NoteBroken, UNCHANGED <<store, today, files, run, raced, faults>>
  PROVE  PInv'
<1>1. /\ store' = store /\ today' = today /\ late' = late /\ known' = known /\ pc' = pc
      /\ runDay' = runDay /\ read' = read /\ todo' = todo /\ settled' = settled
      /\ lost' = lost /\ faults' = faults /\ before' = before /\ raced' = raced
  BY DEF files, run
<1>2. broken \subseteq broken' /\ broken' \subseteq Row
  BY DEF NoteBroken, PInv, TypeOK
<1>3. TypeOK'
  BY <1>1, <1>2 DEF PInv, TypeOK
<1>4. CoveredAreGood'
  BY DEF NoteBroken, CoveredAreGood
<1>5. LateAreOfCycles' /\ SettledAreSafe'
  BY <1>1 DEF PInv, LateAreOfCycles, SettledAreSafe, InStore
<1>6. ReadingIsWhole' /\ QuartersAreWhole' /\ Resting'
  BY <1>1, <1>2 DEF PInv, Resting, ReadingIsWhole, QuartersAreWhole, Projectable,
                    QuarterCovered, Promised
<1>7. OnlyLatecomersAreLost'
  BY <1>1, <1>2 DEF PInv, OnlyLatecomersAreLost, GraphExists, InStore
<1>8. QED
  BY <1>3, <1>4, <1>5, <1>6, <1>7 DEF PInv

(* A run reads what upstream has, whole but for broken rows.                *)
LEMMA ReadKeeps == ASSUME PInv, NEW day \in Day, ReadRows(day) PROVE PInv'
<1>1. /\ pc' = "read" /\ runDay' = day /\ read' = upstream /\ before' = runs
      /\ todo' = todo /\ settled' = settled /\ lost' = lost /\ raced' = raced
      /\ store' = store /\ upstream' = upstream /\ runs' = runs /\ today' = today
      /\ broken' = broken /\ changes' = changes /\ late' = late /\ known' = known
      /\ faults' = faults
  BY DEF ReadRows, world, files
<1>2. pc = "idle" /\ settled = {}
  BY DEF ReadRows, PInv, Resting
<1>3. TypeOK'
  BY <1>1 DEF PInv, TypeOK
<1>4. LateAreOfCycles' /\ SettledAreSafe' /\ QuartersAreWhole'
  BY <1>1, <1>2 DEF PInv, LateAreOfCycles, SettledAreSafe, QuartersAreWhole
<1>5. CoveredAreGood' /\ OnlyLatecomersAreLost'
  BY <1>1 DEF PInv, CoveredAreGood, OnlyLatecomersAreLost, GraphExists, InStore
<1>6. ReadingIsWhole'
  BY <1>1 DEF PInv, CoveredAreGood, ReadingIsWhole, Promised
<1>7. Resting'
  BY <1>1, <1>2 DEF Resting
<1>8. QED
  BY <1>3, <1>4, <1>5, <1>6, <1>7 DEF PInv

(* A run starts to write with nothing settled but what it leaves out by      *)
(* design, and notes what its reading came too early for.                   *)
LEMMA BeginKeeps == ASSUME PInv, NEW day \in Day, Begin(day) PROVE PInv'
<1>1. /\ pc' = "write" /\ runDay' = day /\ read' = read /\ before' = {}
      /\ late' = late \cup LateKeys(read)
      /\ todo' = {GraphName(r, day) : r \in {s \in Row : Projectable(s, read, day)}}
      /\ settled' = LeftOut(read)
      /\ lost' = Bad(read) \ LateKeys(read)
      /\ raced' = raced \cup Torn
      /\ store' = store /\ upstream' = upstream /\ runs' = runs /\ today' = today
      /\ broken' = broken /\ changes' = changes /\ known' = known /\ faults' = faults
      /\ pc = "read"
  BY DEF Begin, world
<1>2. TypeOK'
  <2>1. todo' \subseteq Graph
    BY <1>1, GraphNames
  <2>2. LateKeys(read) \subseteq Row /\ LeftOut(read) \subseteq Row
        /\ Bad(read) \subseteq Row /\ Torn \subseteq Row
    BY DEF LateKeys, LeftOut, Bad, Torn
  <2>3. QED
    BY <1>1, <2>1, <2>2 DEF PInv, TypeOK
<1>3. LateAreOfCycles'
  BY <1>1 DEF PInv, LateAreOfCycles, LateKeys
<1>4. SettledAreSafe'
  BY <1>1 DEF SettledAreSafe, LeftOut
<1>5. CoveredAreGood' /\ OnlyLatecomersAreLost'
  BY <1>1 DEF PInv, CoveredAreGood, OnlyLatecomersAreLost, GraphExists, InStore
<1>6. ASSUME NEW r \in Row, DataDated(r), GraphName(r, day) \in todo'
      PROVE  Projectable(r, read, day) \/ r \in broken \cup Torn
  <2>1. PICK s \in Row : Projectable(s, read, day) /\ GraphName(r, day) = GraphName(s, day)
    BY <1>1, <1>6
  <2>2. QED
    BY <1>1, <1>6, <2>1, CoveredQuarterIsRead DEF PInv
<1>7. QuartersAreWhole'
  BY <1>1, <1>6 DEF QuartersAreWhole, Projectable, QuarterCovered
<1>8. ReadingIsWhole' /\ Resting'
  BY <1>1 DEF ReadingIsWhole, Resting
<1>9. QED
  BY <1>2, <1>3, <1>4, <1>5, <1>7, <1>8 DEF PInv

(* Work on one graph keeps the invariant.                                   *)
LEMMA GraphStepKeeps == ASSUME PInv, NEW g \in Graph, GraphStep(g) PROVE PInv'
<1>0. TypeOK
  BY DEF PInv
<1>1. /\ pc = "write" /\ pc' \in {"write", "settle"} /\ todo' \subseteq todo
      /\ faults' \in 0..MaxFaults /\ settled' \subseteq Row /\ lost' \subseteq Row
      /\ (\E h \in Graph : Add(h)) \/ store' = store
      /\ upstream' = upstream /\ runs' = runs /\ today' = today /\ broken' = broken
      /\ changes' = changes /\ late' = late /\ known' = known
      /\ runDay' = runDay /\ read' = read /\ before' = before /\ raced' = raced
  BY <1>0, GraphStepFrame
<1>2. store' \in [Graph -> SUBSET Row] /\ \A r : InStore(r) => InStore(r)'
  BY <1>0, <1>1, StoreGrows
<1>3. TypeOK'
  BY <1>0, <1>1, <1>2 DEF TypeOK
<1>4. LateAreOfCycles' /\ CoveredAreGood'
  BY <1>1 DEF PInv, LateAreOfCycles, CoveredAreGood
<1>5. \A r \in settled' \ settled : DataDated(r) \/ InStore(r)'
  BY <1>0, GraphStepSettles
<1>6. SettledAreSafe'
  BY <1>1, <1>2, <1>5 DEF PInv, SettledAreSafe
<1>7. QuartersAreWhole' /\ ReadingIsWhole' /\ Resting'
  BY <1>1 DEF PInv, QuartersAreWhole, Projectable, QuarterCovered, ReadingIsWhole, Resting
<1>8. OnlyLatecomersAreLost'
  BY <1>1, AddKeepsQuarters DEF PInv
<1>9. QED
  BY <1>3, <1>4, <1>6, <1>7, <1>8 DEF PInv

(* The end of a run, orderly or not, keeps the invariant.                   *)
LEMMA EndKeeps ==
  ASSUME PInv, GraphsDone \/ SettleLateKeys \/ SortLosses \/ Kill \/ DryRun
  PROVE  PInv'
<1>0. TypeOK
  BY DEF PInv
<1>1. /\ upstream' = upstream /\ runs' = runs /\ today' = today /\ broken' = broken
      /\ changes' = changes /\ known' \subseteq known \cup lost
      /\ late' \subseteq late \cup LateKeys(read) /\ raced' = raced
  BY DEF GraphsDone, SettleLateKeys, SortLosses, Kill, DryRun, Exit, asRead, world, files
<1>2. (\E h \in Graph : Add(h)) \/ store' = store
  BY DEF GraphsDone, SettleLateKeys, SortLosses, Kill, DryRun
<1>3. \/ /\ pc' \in {"settle", "sort"} /\ runDay' = runDay /\ read' = read /\ todo' = todo
         /\ settled' = settled /\ lost' = lost /\ before' = before
      \/ /\ pc' = "idle" /\ runDay' = 0 /\ read' = NoView /\ todo' = {} /\ settled' = {}
         /\ lost' = {} /\ before' = {}
  BY DEF GraphsDone, SettleLateKeys, SortLosses, Kill, DryRun, Exit, asRead
<1>4. faults' = faults \/ (faults < MaxFaults /\ faults' = faults + 1)
  BY DEF GraphsDone, SettleLateKeys, SortLosses, Kill, DryRun, Fault
<1>5. store' \in [Graph -> SUBSET Row] /\ \A r : InStore(r) => InStore(r)'
  BY <1>0, <1>2, StoreGrows
<1>6. TypeOK'
  <2>1. faults' \in 0..MaxFaults /\ 0 \in Day /\ NoView \in [Row -> Status]
    BY <1>0, <1>4, ScoreAssumption DEF TypeOK, Day, NoView, Status
  <2>2. /\ pc' \in {"idle", "read", "write", "settle", "sort"} /\ runDay' \in Day
        /\ before' \subseteq Day
        /\ read' \in [Row -> Status]
        /\ todo' \subseteq Graph /\ settled' \subseteq Row /\ lost' \subseteq Row
    BY <1>0, <1>3, <2>1 DEF TypeOK
  <2>3. QED
    BY <1>0, <1>1, <1>5, <2>1, <2>2 DEF TypeOK, LateKeys, Bad
<1>7. LateAreOfCycles' /\ CoveredAreGood'
  BY <1>1 DEF PInv, LateAreOfCycles, CoveredAreGood, LateKeys
<1>8. SettledAreSafe'
  BY <1>3, <1>5 DEF PInv, SettledAreSafe
<1>9. QuartersAreWhole' /\ ReadingIsWhole' /\ Resting'
  BY <1>3 DEF QuartersAreWhole, ReadingIsWhole, Resting
<1>10. OnlyLatecomersAreLost'
  BY <1>1, <1>2, AddKeepsQuarters DEF PInv
<1>11. QED
  BY <1>6, <1>7, <1>8, <1>9, <1>10 DEF PInv

(* The empty view, store and key files satisfy the invariant.               *)
LEMMA ProjectionInit == Init => PInv
<1> SUFFICES ASSUME Init PROVE PInv
  OBVIOUS
<1>1. store = [g \in Graph |-> {}]
  BY DEF Init, LedgerInit
<1>2. TypeOK
  <2>1. 0 \in Day /\ NoView \in [Row -> Status] /\ upstream \in [Row -> Status]
    BY ScoreAssumption DEF Day, NoView, Status, Init
  <2>2. 0 \in 0..MaxChanges /\ 0 \in 0..MaxFaults
    BY ScoreAssumption
  <2>3. QED
    BY <1>1, <2>1, <2>2 DEF Init, TypeOK
<1>3. /\ LateAreOfCycles /\ SettledAreSafe /\ CoveredAreGood /\ QuartersAreWhole
      /\ ReadingIsWhole /\ Resting
  BY DEF Init, LateAreOfCycles, SettledAreSafe, CoveredAreGood, Promised, QuartersAreWhole,
         ReadingIsWhole, Resting
<1>4. ASSUME NEW r \in Row, DataDated(r) PROVE store[GraphName(r, 0)] = {}
  BY <1>1, GraphNames, ScoreAssumption DEF Day
<1>5. OnlyLatecomersAreLost
  BY <1>4 DEF OnlyLatecomersAreLost, GraphExists
<1>6. QED
  BY <1>2, <1>3, <1>5 DEF PInv

(* Every step keeps the invariant.                                          *)
LEMMA ProjectionStep == ASSUME PInv, [Next]_vars PROVE PInv'
<1>0. TypeOK
  BY DEF PInv
<1>1. CASE UNCHANGED vars
  BY <1>1 DEF vars, files, world, run, PInv, TypeOK, LateAreOfCycles, SettledAreSafe,
              CoveredAreGood, ReadingIsWhole, Resting, Promised, QuartersAreWhole, Projectable, QuarterCovered,
              OnlyLatecomersAreLost, GraphExists, InStore
<1>2. ASSUME NEW g \in Graph, GraphStep(g) PROVE PInv'
  BY <1>2, GraphStepKeeps
<1>3. CASE GraphsDone \/ SettleLateKeys \/ SortLosses \/ Kill \/ DryRun
  BY <1>3, EndKeeps
<1>4. ASSUME NEW day \in Day, Begin(day) PROVE PInv'
  BY <1>4, BeginKeeps
<1>5. ASSUME NEW day \in Day, ReadRows(day) PROVE PInv'
  BY <1>5, ReadKeeps
<1>6. CASE NextDay
  <2>1. /\ today < MaxDay /\ today' = today + 1 /\ late' = late /\ store' = store
        /\ upstream' = upstream /\ runs' = runs /\ broken' = broken /\ changes' = changes
        /\ known' = known /\ faults' = faults /\ pc' = pc /\ runDay' = runDay
        /\ read' = read /\ todo' = todo /\ settled' = settled /\ lost' = lost
        /\ before' = before /\ raced' = raced
    BY <1>6 DEF NextDay, files, run
  <2>2. today' \in Day
    BY <1>0, <2>1, ScoreAssumption DEF TypeOK, Day
  <2>3. TypeOK' /\ LateAreOfCycles'
    BY <2>1, <2>2 DEF PInv, TypeOK, LateAreOfCycles
  <2>4. SettledAreSafe' /\ CoveredAreGood' /\ OnlyLatecomersAreLost'
    BY <2>1 DEF PInv, SettledAreSafe, CoveredAreGood, OnlyLatecomersAreLost, GraphExists,
                InStore
  <2>5. QuartersAreWhole' /\ ReadingIsWhole' /\ Resting'
    BY <2>1 DEF PInv, QuartersAreWhole, Projectable, QuarterCovered, ReadingIsWhole, Resting
  <2>6. QED
    BY <2>3, <2>4, <2>5 DEF PInv
<1>7. ASSUME NEW e \in Edits, Change(e[1], e[2]) PROVE PInv'
  <2>1. e[1] \in Row /\ e[2] \in Status
    BY ScoreAssumption
  <2>2. upstream' \in [Row -> Status] /\ changes' \in 0..MaxChanges
    BY <1>0, <1>7, <2>1, ScoreAssumption DEF Change, TypeOK
  <2>3. runs' = runs /\ NoteBroken /\ UNCHANGED <<store, today, files, run, raced, faults>>
    BY <1>7 DEF Change
  <2>4. runs \subseteq runs' /\ runs' \subseteq Day
    BY <1>0, <2>3 DEF TypeOK
  <2>5. QED
    BY <2>2, <2>3, <2>4, UpstreamKeeps
<1>8. ASSUME NEW a \in Day, Analyse(a) PROVE PInv'
  <2>1. /\ upstream' \in [Row -> Status] /\ changes' \in 0..MaxChanges
        /\ runs \subseteq runs' /\ runs' \subseteq Day
    BY <1>0, <1>8, ScoreAssumption DEF Analyse, TypeOK
  <2>2. NoteBroken /\ UNCHANGED <<store, today, files, run, raced, faults>>
    BY <1>8 DEF Analyse
  <2>3. QED
    BY <2>1, <2>2, UpstreamKeeps
<1>9. QED
  BY <1>1, <1>2, <1>3, <1>4, <1>5, <1>6, <1>7, <1>8
     DEF Next, Project, RunStep, Failure, Upstream, GraphStep

THEOREM ProjectionInvariant == Spec => []PInv
BY ProjectionInit, ProjectionStep, PTL DEF Spec

-----------------------------------------------------------------------------
(* Runs, key files and upstream always have their types.                    *)
THEOREM ProjectionTypeCorrect == Spec => []TypeOK
<1>1. PInv => TypeOK
  BY DEF PInv
<1>2. QED
  BY <1>1, ProjectionInvariant, PTL

(* score_snapshots: "a quarter is written only once it is complete" — what   *)
(* a quarter's graph lacks, upstream lacked after it had analysed it, or the  *)
(* run had read the view before the analysis and the analysis runs after it. *)
THEOREM QuartersAreComplete == Spec => []OnlyLatecomersAreLost
<1>1. PInv => OnlyLatecomersAreLost
  BY DEF PInv
<1>2. QED
  BY <1>1, ProjectionInvariant, PTL

(* Whatever fails, is repeated or replayed, the projector publishes graphs   *)
(* once, of rows that fit them and are in no other graph.                   *)
THEOREM SnapshotsArePublishedOnce == Spec => OneGraphPerSnapshot
<1>1. Init => LedgerInit
  BY DEF Init
<1>2. PInv /\ [Next]_vars => [\E g \in Graph, R \in SUBSET Row : Publish(g, R)]_store
  <2> SUFFICES ASSUME PInv, [Next]_vars
               PROVE  (\E g \in Graph : Add(g)) \/ store' = store
    BY AddPublishes DEF PInv
  <2>0. TypeOK
    BY DEF PInv
  <2>1. CASE UNCHANGED vars
    BY <2>1 DEF vars
  <2>2. ASSUME NEW g \in Graph, GraphStep(g)
        PROVE  (\E h \in Graph : Add(h)) \/ store' = store
    BY <2>0, <2>2, GraphStepFrame
  <2>3. CASE GraphsDone \/ SettleLateKeys \/ SortLosses \/ Kill
    BY <2>3 DEF GraphsDone, SettleLateKeys, SortLosses, Kill
  <2>4. CASE DryRun \/ NextDay \/ \E day \in Day : ReadRows(day) \/ Begin(day)
    BY <2>4 DEF DryRun, NextDay, ReadRows, Begin
  <2>5. CASE Upstream
    BY <2>5 DEF Upstream, Change, Analyse
  <2>6. QED
    BY <2>1, <2>2, <2>3, <2>4, <2>5 DEF Next, Project, RunStep, Failure, GraphStep
<1>3. QED
  BY <1>1, <1>2, ProjectionInvariant, PTL DEF Spec, OneGraphPerSnapshot, LedgerSpec

(* A key leaves late.json only when its row is in the store, is gone, or was *)
(* left out by design: no crash or lost answer forgets a quarantined row.   *)
THEOREM LateKeysAreSafe == Spec => LateKeysAreKept
<1> DEFINE Kept == \A r \in late \ late' : InStore(r) \/ read[r] \in {"absent", "unusable"}
<1>1. PInv /\ [Next]_vars => [Kept]_vars
  <2> SUFFICES ASSUME PInv, Next, NEW r \in late \ late'
               PROVE  InStore(r) \/ read[r] \in {"absent", "unusable"}
    OBVIOUS
  <2>0. TypeOK
    BY DEF PInv
  <2>1. ASSUME NEW g \in Graph, GraphStep(g) PROVE FALSE
    BY <2>0, <2>1, GraphStepFrame
  <2>2. CASE SettleLateKeys
    <3>1. r \in Gone \/ r \in settled
      BY <2>2 DEF SettleLateKeys
    <3>2. r \in settled => InStore(r) \/ read[r] = "unusable"
      BY DEF PInv, LateAreOfCycles, SettledAreSafe
    <3>3. QED
      BY <3>1, <3>2 DEF Gone
  <2>3. CASE GraphsDone \/ SortLosses \/ Kill
    BY <2>3 DEF GraphsDone, SortLosses, Kill, files
  <2>4. CASE DryRun \/ NextDay \/ \E day \in Day : ReadRows(day) \/ Begin(day)
    BY <2>4 DEF DryRun, NextDay, ReadRows, Begin, files
  <2>5. CASE Upstream
    BY <2>5 DEF Upstream, Change, Analyse, files
  <2>6. QED
    BY <2>1, <2>2, <2>3, <2>4, <2>5 DEF Next, Project, RunStep, Failure, GraphStep
<1>2. QED
  BY <1>1, ProjectionInvariant, PTL DEF Spec, LateKeysAreKept
=============================================================================
