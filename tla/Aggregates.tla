------------------------------ MODULE Aggregates ------------------------------
(* load_aggregates.py: upstream's aggregates_<label>.json of one label is      *)
(* hashed, parsed, compared with the databases it was computed from and        *)
(* appended to the label's one aggregates graph, while the folder may be       *)
(* delivered again at any moment and an answer of the store may be lost.       *)
(* A file is a record of two sets of rows, a database one of two sets of rows; *)
(* a hash is the file it was computed from, the manifest's entry for the file  *)
(* the file it was written for; a segment is <<window, cut>>, "" for no cut.   *)
EXTENDS Integers, FiniteSets

CONSTANTS Folder,          \* what upstream may deliver: [file, manifest, dbs]
          First,           \* the folders a behaviour may begin with
          Null,            \* no file, no entry
          Unit,            \* cash fractions and returns are multiples of 1/Unit
          Compounded,      \* the window whose cuts a and b compound to the whole: P2
          MaxDeliveries, MaxCommands, MaxFaults

ASSUME AggregatesAssumption == First \subseteq Folder /\ Unit \in Nat \ {0}

TopNArms == {"TOPN_MV_NOGUARD", "TOPN_MV_GUARD_NO_NLP"}
TrendStates == {"below", "at_or_above", "not_evaluable"}
References == {"SPY", "SP500_EW_INTERNAL"}

VARIABLES folder,    \* the delivery folder
          graph,     \* the triples of urn:graph:derived:backtest:aggregates:{label}
          pc, mode, sha, data,
          outcome,   \* how the last command ended
          quiet,     \* history: nothing was delivered since the command began
          crossed,   \* history: a late request landed between plan's two questions
          sent,      \* history: what was posted, and from which folder
          strays,    \* posted batches whose answer was lost and that may land yet
          budget
vars == <<folder, graph, pc, mode, sha, data, outcome, quiet, crossed, sent, strays, budget>>

-----------------------------------------------------------------------------
(* parse_aggregates: a whitelist.  Keys, patterns and number formats are left  *)
(* out; what rows must satisfy together is here.                               *)
Same(r, s, keys) == \A k \in keys : r[k] = s[k]
TrendAccepted(rows) ==
  /\ \A r \in rows : r.state \in TrendStates /\ r.cash \in 0..Unit
  /\ \A r, s \in rows : Same(r, s, {"window", "date"}) => r = s

(* Slip: a segment need not be a cut of its row's window.                      *)
SegmentOfWindowSlip(r) == r.segment # r.window
SegmentOfWindow(r) == r.segment[1] = r.window

ReturnsAccepted(rows) ==
  /\ \A r \in rows : /\ SegmentOfWindow(r) /\ r.from <= r.to
                     /\ r.sessions >= 1 /\ r.drawdown >= 0
                     /\ r.reference \in References
  /\ \A r, s \in rows : Same(r, s, {"window", "segment", "reference"}) => r = s
  /\ \A r \in rows :
       {s.reference : s \in {t \in rows : Same(r, t, {"window", "segment"})}} = References

Accepted(file) == TrendAccepted(file.trend) /\ ReturnsAccepted(file.returns)

(* verify_manifest: the file is there, listed, and has the listed hash.        *)
Listed(f) == f.file # Null /\ f.manifest = f.file

-----------------------------------------------------------------------------
(* project: one set, one individual per row, named by window and date or by    *)
(* segment and reference.                                                      *)
SetIri == <<"AggregatesSet">>
TrendIri(r) == <<"TrendFilter", r.window, r.date>>
ReturnIri(r) == <<"RefReturn", r.segment, r.reference>>
SetTriples(d) == {<<SetIri, "a", "AggregatesSet">>, <<SetIri, "aggregatesSourceSha256", d.sha>>}
TrendTriples(r) ==
  {<<TrendIri(r), "a", "TrendFilterState">>, <<TrendIri(r), "trendState", r.state>>,
   <<TrendIri(r), "trendWindow", r.window>>, <<TrendIri(r), "trendDecisionDate", r.date>>,
   <<TrendIri(r), "cashFraction", r.cash>>, <<TrendIri(r), "aggregatesSet", SetIri>>}
  \cup {<<TrendIri(r), "appliesToArm", arm>> : arm \in TopNArms}
ReturnTriples(r) ==
  {<<ReturnIri(r), "a", "ReferenceReturn">>, <<ReturnIri(r), "returnWindow", r.window>>,
   <<ReturnIri(r), "returnSegment", r.segment>>, <<ReturnIri(r), "referenceName", r.reference>>,
   <<ReturnIri(r), "referenceDateFrom", r.from>>, <<ReturnIri(r), "referenceDateTo", r.to>>,
   <<ReturnIri(r), "nSessions", r.sessions>>, <<ReturnIri(r), "referenceMaxDrawdown", r.drawdown>>,
   <<ReturnIri(r), "referenceTotalReturn", r.return>>, <<ReturnIri(r), "aggregatesSet", SetIri>>}
Batch(d) ==
  SetTriples(d) \cup (UNION {TrendTriples(r) : r \in d.rows.trend})
                \cup (UNION {ReturnTriples(r) : r \in d.rows.returns})

(* The three shapes of shapes.ttl.                                             *)
Values(T, s, p) == {t[3] : t \in {u \in T : u[1] = s /\ u[2] = p}}
Members(T, class) == {t[1] : t \in {u \in T : u[2] = "a" /\ u[3] = class}}
One(T, s, p, range) == \E o \in range : Values(T, s, p) = {o}
Some(T, s, p) == Cardinality(Values(T, s, p)) = 1
Conforms(T) ==
  /\ \A s \in Members(T, "AggregatesSet") : Some(T, s, "aggregatesSourceSha256")
  /\ \A s \in Members(T, "TrendFilterState") :
       /\ Some(T, s, "trendWindow") /\ Some(T, s, "trendDecisionDate")
       /\ One(T, s, "trendState", TrendStates) /\ One(T, s, "cashFraction", 0..Unit)
       /\ Values(T, s, "appliesToArm") \subseteq TopNArms
       /\ Cardinality(Values(T, s, "appliesToArm")) = 2
       /\ One(T, s, "aggregatesSet", Members(T, "AggregatesSet"))
  /\ \A s \in Members(T, "ReferenceReturn") :
       /\ Some(T, s, "returnWindow") /\ Some(T, s, "returnSegment")
       /\ One(T, s, "referenceName", References) /\ Some(T, s, "referenceTotalReturn")
       /\ Some(T, s, "referenceDateFrom") /\ Some(T, s, "referenceDateTo")
       /\ \A f \in Values(T, s, "referenceDateFrom"), t \in Values(T, s, "referenceDateTo") : f <= t
       /\ Some(T, s, "nSessions") /\ \A n \in Values(T, s, "nSessions") : n >= 1
       /\ Some(T, s, "referenceMaxDrawdown") /\ \A x \in Values(T, s, "referenceMaxDrawdown") : x >= 0
       /\ One(T, s, "aggregatesSet", Members(T, "AggregatesSet"))

-----------------------------------------------------------------------------
(* verify_sources: checks (a)-(e), against the databases of the windows that   *)
(* the file names, as they are read now.                                       *)
WindowsOf(rows) == {r.window : r \in rows}
Decisions(dbs, w, arm) == {r.date : r \in {s \in dbs[w].rebalances : s.arm = arm}}

TrendMatches(dbs, rows, w) ==
  /\ w \in DOMAIN dbs
  /\ \A arm \in TopNArms :
       /\ Decisions(dbs, w, arm) # {}
       /\ {r.date : r \in {s \in rows : s.window = w}} = Decisions(dbs, w, arm)

(* _summary_segments: a segment is published with one window and one period.   *)
Published(dbs, windows) == UNION {dbs[w].summaries : w \in windows \cap DOMAIN dbs}
OnePeriod(summaries) == \A s, t \in summaries : s.segment = t.segment => s = t

(* Slip: a published segment for which the file has no row passes.             *)
ReturnsMatchSlip(dbs, rows, windows) ==
  /\ windows \subseteq DOMAIN dbs
  /\ OnePeriod(Published(dbs, windows))
  /\ {r.segment : r \in rows} \subseteq {s.segment : s \in Published(dbs, windows)}
  /\ \A r \in rows, s \in Published(dbs, windows) :
       r.segment = s.segment => Same(r, s, {"window", "from", "to"})
ReturnsMatch(dbs, rows, windows) ==
  /\ windows \subseteq DOMAIN dbs
  /\ OnePeriod(Published(dbs, windows))
  /\ {r.segment : r \in rows} = {s.segment : s \in Published(dbs, windows)}
  /\ \A r \in rows, s \in Published(dbs, windows) :
       r.segment = s.segment => Same(r, s, {"window", "from", "to"})
  /\ \A r \in rows : /\ r.window \in windows
                     /\ \A reference \in References :
                          Cardinality({s \in rows : s.segment = r.segment /\ s.reference = reference}) = 1

CashMatches(rows) == \A r \in rows : IF r.state = "below" THEN r.cash > 0 ELSE r.cash = 0

(* _compounding_check, exact in units instead of within 1e-6.                  *)
Compounds(rows) ==
  \A whole, first, second \in rows :
    /\ whole.segment = <<Compounded, "">> /\ first.segment = <<Compounded, "a">>
    /\ second.segment = <<Compounded, "b">>
    /\ whole.reference = first.reference /\ first.reference = second.reference
    => (Unit + whole.return) * Unit = (Unit + first.return) * (Unit + second.return)

Verifies(f, rows) ==
  /\ Listed(f)
  /\ \A w \in WindowsOf(rows.trend) : TrendMatches(f.dbs, rows.trend, w)
  /\ ReturnsMatch(f.dbs, rows.returns, WindowsOf(rows.trend) \cup WindowsOf(rows.returns))
  /\ CashMatches(rows.trend) /\ Compounds(rows.returns)

-----------------------------------------------------------------------------
Init ==
  /\ folder \in First /\ graph = {}
  /\ pc = "idle" /\ mode = "dry" /\ sha = Null /\ data = Null /\ outcome = "none"
  /\ quiet = TRUE /\ crossed = FALSE /\ sent = {} /\ strays = {}
  /\ budget = [deliveries |-> MaxDeliveries, commands |-> MaxCommands, faults |-> MaxFaults]

(* Upstream replaces what the folder holds, a running command or not.          *)
Deliver(f) ==
  /\ budget.deliveries > 0 /\ budget' = [budget EXCEPT !.deliveries = @ - 1]
  /\ f # folder /\ folder' = f /\ quiet' = FALSE
  /\ UNCHANGED <<graph, pc, mode, sha, data, outcome, crossed, sent, strays>>

Start(m) ==
  /\ pc = "idle" /\ budget.commands > 0 /\ budget' = [budget EXCEPT !.commands = @ - 1]
  /\ pc' = "hash" /\ mode' = m /\ sha' = Null /\ data' = Null /\ outcome' = "none"
  /\ quiet' = TRUE /\ crossed' = FALSE
  /\ UNCHANGED <<folder, graph, sent, strays>>

Goto(step) == pc' = step /\ UNCHANGED outcome
End(result) == pc' = "idle" /\ outcome' = result
Fault == budget.faults > 0 /\ budget' = [budget EXCEPT !.faults = @ - 1]

(* load_file hashes the file, then opens it again to parse it.                 *)
Hash ==
  /\ pc = "hash"
  /\ IF Listed(folder) THEN sha' = folder.manifest /\ Goto("parse")
     ELSE UNCHANGED sha /\ End("stopped")
  /\ UNCHANGED <<folder, graph, mode, data, quiet, crossed, sent, strays, budget>>

Parse ==
  /\ pc = "parse"
  /\ IF folder.file # Null /\ Accepted(folder.file)
     THEN data' = [rows |-> folder.file, sha |-> sha] /\ Goto("verify")
     ELSE UNCHANGED data /\ End("stopped")
  /\ UNCHANGED <<folder, graph, mode, sha, quiet, crossed, sent, strays, budget>>

(* A dry run also validates the batch by itself.                               *)
Verify ==
  /\ pc = "verify"
  /\ \/ mode = "dry" /\ End(IF Verifies(folder, data.rows) /\ Conforms(Batch(data)) THEN "ok" ELSE "failed")
     \/ mode # "dry" /\ Verifies(folder, data.rows) /\ Goto("plan")
     \/ mode # "dry" /\ ~Verifies(folder, data.rows) /\ End("failed")
  /\ UNCHANGED <<folder, graph, mode, sha, data, quiet, crossed, sent, strays, budget>>

Subjects(T) == {t[1] : t \in T}
(* Slip: the individuals are looked for before the graph is.                   *)
FoundSlip == graph # {} /\ Subjects(Batch(data)) \cap Subjects(graph) = {}
Found == graph # {}

(* gate.plan asks the store twice, and a late request may land in between:     *)
(* whether the graph exists, and then for the batch's individuals.             *)
Plan ==
  /\ pc = "plan"
  /\ IF ~Conforms(Batch(data)) THEN End("stopped")
     ELSE IF Found THEN Goto("compare") ELSE Goto("subjects")
  /\ UNCHANGED <<folder, graph, mode, sha, data, quiet, crossed, sent, strays, budget>>

PlanSubjects ==
  /\ pc = "subjects"
  /\ \/ Subjects(Batch(data)) \cap Subjects(graph) # {} /\ End("stopped")
     \/ Subjects(Batch(data)) \cap Subjects(graph) = {} /\ mode = "write" /\ Goto("write")
     \/ Subjects(Batch(data)) \cap Subjects(graph) = {} /\ mode = "check" /\ End("ok")
  /\ UNCHANGED <<folder, graph, mode, sha, data, quiet, crossed, sent, strays, budget>>

Send == sent' = sent \cup {[data |-> data, folder |-> folder, quiet |-> quiet]}
Write ==
  /\ pc = "write" /\ Send /\ graph' = graph \cup Batch(data) /\ Goto("compare")
  /\ UNCHANGED <<folder, mode, sha, data, quiet, crossed, strays, budget>>

(* WriteInDoubt: the batch has landed, will land, or never will.               *)
LoseAnswer ==
  /\ pc = "write" /\ Fault /\ Send /\ End("in doubt")
  /\ \/ graph' = graph \cup Batch(data) /\ UNCHANGED strays
     \/ strays' = strays \cup {data} /\ UNCHANGED graph
     \/ UNCHANGED <<graph, strays>>
  /\ UNCHANGED <<folder, mode, sha, data, quiet, crossed>>
StrayLands(d) ==
  /\ graph' = graph \cup Batch(d) /\ strays' = strays \ {d}
  /\ crossed' = (crossed \/ pc = "subjects")
  /\ UNCHANGED <<folder, pc, mode, sha, data, outcome, quiet, sent, budget>>

(* verify_stored: the graph's explicit triples are the batch's.                *)
Compare ==
  /\ pc = "compare" /\ End(IF graph = Batch(data) THEN "ok" ELSE "failed")
  /\ UNCHANGED <<folder, graph, mode, sha, data, quiet, crossed, sent, strays, budget>>

(* A query fails, the POST is refused, or the process is killed.               *)
StoreFails ==
  /\ pc \in {"plan", "subjects", "write", "compare"} /\ Fault /\ End("store error")
  /\ UNCHANGED <<folder, graph, mode, sha, data, quiet, crossed, sent, strays>>

Next == \/ \E f \in Folder : Deliver(f)
        \/ \E m \in {"dry", "check", "write"} : Start(m)
        \/ Hash \/ Parse \/ Verify \/ Plan \/ PlanSubjects \/ Write \/ Compare
        \/ LoseAnswer \/ StoreFails \/ \E d \in strays : StrayLands(d)
Spec == Init /\ [][Next]_vars

-----------------------------------------------------------------------------
(* What the parser accepts the shapes accept: in particular no two rows share  *)
(* an individual, though the names leave out the window of a return and the    *)
(* state of a date.  Parser and shapes state these rules independently.        *)
ParsedConforms == pc \in {"verify", "plan", "subjects", "write"} => Conforms(Batch(data))

(* A write, or a check of a label that is stored, that ends with 0 means that  *)
(* the store holds what the folder publishes: the listed file and its hash;    *)
(* the trend dates of a window that has any are the decision dates of both     *)
(* Top-N arms; and the returns are, for each reference, the summaries that the *)
(* databases of the named windows publish, with their window and period, and   *)
(* nothing else (docs/06, 1.13).  A row of either list names its window.  It   *)
(* is about a folder that is not delivered again while the command runs.       *)
Summaries(f) == UNION {f.dbs[r.window].summaries : r \in f.file.trend \cup f.file.returns}
RefReturn(s, reference) == <<"RefReturn", s.segment, reference>>
Agrees(T, f) ==
  /\ Values(T, SetIri, "aggregatesSourceSha256") = {f.manifest} /\ f.manifest = f.file
  /\ \A r \in f.file.trend : \A arm \in TopNArms, b \in f.dbs[r.window].rebalances :
       b.arm = arm => <<"TrendFilter", r.window, b.date>> \in Subjects(T)
  /\ \A s \in Members(T, "TrendFilterState") : \A w \in Values(T, s, "trendWindow") :
       \A d \in Values(T, s, "trendDecisionDate"), arm \in TopNArms :
          \E b \in f.dbs[w].rebalances : b.arm = arm /\ b.date = d
  /\ Members(T, "ReferenceReturn") = {RefReturn(s, reference) : s \in Summaries(f), reference \in References}
  /\ \A s \in Summaries(f), reference \in References :
       /\ Values(T, RefReturn(s, reference), "returnWindow") = {s.window}
       /\ Values(T, RefReturn(s, reference), "referenceDateFrom") = {s.from}
       /\ Values(T, RefReturn(s, reference), "referenceDateTo") = {s.to}
DoneMeansPublished ==
  [][pc # "idle" /\ outcome' = "ok" /\ quiet /\ (mode = "write" \/ graph # {}) /\ mode # "dry" =>
       graph' = Batch([rows |-> folder.file, sha |-> folder.manifest]) /\ Agrees(graph', folder)]_vars

(* "Do not retry blindly": repeating the command on the folder that was sent   *)
(* while it lay still, and on no other, never finds a difference, and is       *)
(* refused only when the lost request landed between the two questions of this *)
(* very command.  The next repeat finds the graph and is not refused.          *)
OnlySent(f) ==
  \A s \in sent : s.folder = f /\ s.quiet
RepeatIsSafe ==
  [][pc # "idle" /\ outcome' \in {"stopped", "failed"} /\ quiet /\ sent # {} /\ OnlySent(folder) =>
       crossed /\ outcome' = "stopped" /\ graph = Batch(data)]_vars
=============================================================================
