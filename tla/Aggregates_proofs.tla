--------------------------- MODULE Aggregates_proofs ---------------------------
(* For every file, manifest and set of databases, every delivery and every     *)
(* lost answer: what the parser accepts the shapes accept, a write that ends   *)
(* with 0 has stored what was published, and repeating a command is safe.      *)
EXTENDS Aggregates, FiniteSetTheorems, TLAPS

(* The individuals of a batch.                                                 *)
LEMMA Iris ==
  /\ \A r : SetIri # TrendIri(r) /\ SetIri # ReturnIri(r)
  /\ \A r, s : TrendIri(r) # ReturnIri(s)
  /\ \A r, s : TrendIri(r) = TrendIri(s) => r.window = s.window /\ r.date = s.date
  /\ \A r, s : ReturnIri(r) = ReturnIri(s) => r.segment = s.segment /\ r.reference = s.reference
BY DEF SetIri, TrendIri, ReturnIri

LEMMA TripleSubjects ==
  /\ \A d, t : t \in SetTriples(d) => t[1] = SetIri
  /\ \A r, t : t \in TrendTriples(r) => t[1] = TrendIri(r)
  /\ \A r, t : t \in ReturnTriples(r) => t[1] = ReturnIri(r)
<1>1. \A d, t : t \in SetTriples(d) => t[1] = SetIri
  BY DEF SetTriples
<1>2. \A r, t : t \in TrendTriples(r) => t[1] = TrendIri(r)
  BY DEF TrendTriples
<1>3. \A r, t : t \in ReturnTriples(r) => t[1] = ReturnIri(r)
  BY DEF ReturnTriples
<1>4. QED
  BY <1>1, <1>2, <1>3

(* Every triple of a batch comes from the set or from one row.                 *)
LEMMA BatchTriples ==
  ASSUME NEW d
  PROVE  \A t : t \in Batch(d) <=> \/ t \in SetTriples(d)
                                   \/ \E r \in d.rows.trend : t \in TrendTriples(r)
                                   \/ \E r \in d.rows.returns : t \in ReturnTriples(r)
BY DEF Batch

(* The triples of an individual are those of its row, for no two accepted rows *)
(* share it.                                                                   *)
LEMMA SetOf ==
  ASSUME NEW d, NEW t \in Batch(d), t[1] = SetIri
  PROVE  t \in SetTriples(d)
BY BatchTriples, TripleSubjects, Iris

LEMMA TrendOf ==
  ASSUME NEW d, TrendAccepted(d.rows.trend), NEW r \in d.rows.trend, NEW t \in Batch(d), t[1] = TrendIri(r)
  PROVE  t \in TrendTriples(r)
<1>1. PICK s \in d.rows.trend : t \in TrendTriples(s)
  BY BatchTriples, TripleSubjects, Iris
<1>2. TrendIri(s) = TrendIri(r)
  BY <1>1, TripleSubjects
<1>3. s = r
  BY <1>2, Iris DEF TrendAccepted, Same
<1>4. QED
  BY <1>1, <1>3

LEMMA ReturnOf ==
  ASSUME NEW d, ReturnsAccepted(d.rows.returns), NEW r \in d.rows.returns, NEW t \in Batch(d),
         t[1] = ReturnIri(r)
  PROVE  t \in ReturnTriples(r)
<1>1. PICK s \in d.rows.returns : t \in ReturnTriples(s)
  BY BatchTriples, TripleSubjects, Iris
<1>2. ReturnIri(s) = ReturnIri(r)
  BY <1>1, TripleSubjects
<1>3. s.segment = r.segment /\ s.reference = r.reference
  BY <1>2, Iris
<1>4. s.window = r.window
  BY <1>3 DEF ReturnsAccepted, SegmentOfWindow
<1>5. s = r
  BY <1>3, <1>4 DEF ReturnsAccepted, Same
<1>6. QED
  BY <1>1, <1>5

(* What the batch says about each individual.                                  *)
LEMMA SetValues ==
  ASSUME NEW d
  PROVE  Values(Batch(d), SetIri, "aggregatesSourceSha256") = {d.sha}
<1>1. <<SetIri, "aggregatesSourceSha256", d.sha>> \in Batch(d)
  BY BatchTriples DEF SetTriples
<1>2. ASSUME NEW t \in Batch(d), t[1] = SetIri, t[2] = "aggregatesSourceSha256" PROVE t[3] = d.sha
  BY <1>2, SetOf DEF SetTriples
<1>3. QED
  BY <1>1, <1>2 DEF Values

LEMMA TrendValues ==
  ASSUME NEW d, TrendAccepted(d.rows.trend), NEW r \in d.rows.trend
  PROVE  /\ Values(Batch(d), TrendIri(r), "trendWindow") = {r.window}
         /\ Values(Batch(d), TrendIri(r), "trendDecisionDate") = {r.date}
         /\ Values(Batch(d), TrendIri(r), "trendState") = {r.state}
         /\ Values(Batch(d), TrendIri(r), "cashFraction") = {r.cash}
         /\ Values(Batch(d), TrendIri(r), "appliesToArm") = TopNArms
         /\ Values(Batch(d), TrendIri(r), "aggregatesSet") = {SetIri}
<1> DEFINE V(p) == Values(Batch(d), TrendIri(r), p)
<1>1. ASSUME NEW p
      PROVE  V(p) = {t[3] : t \in {u \in TrendTriples(r) : u[2] = p}}
  <2>1. \A t \in TrendTriples(r) : t \in Batch(d) /\ t[1] = TrendIri(r)
    BY BatchTriples, TripleSubjects
  <2>2. QED
    BY <2>1, TrendOf DEF Values
<1>2. V("trendWindow") = {r.window}
  <2>1. <<TrendIri(r), "trendWindow", r.window>> \in TrendTriples(r) /\ \A t \in TrendTriples(r) : t[2] = "trendWindow" => t[3] = r.window
    BY DEF TrendTriples
  <2>2. QED
    BY <1>1, <2>1
<1>3. V("trendDecisionDate") = {r.date}
  <2>1. <<TrendIri(r), "trendDecisionDate", r.date>> \in TrendTriples(r) /\ \A t \in TrendTriples(r) : t[2] = "trendDecisionDate" => t[3] = r.date
    BY DEF TrendTriples
  <2>2. QED
    BY <1>1, <2>1
<1>4. V("trendState") = {r.state}
  <2>1. <<TrendIri(r), "trendState", r.state>> \in TrendTriples(r) /\ \A t \in TrendTriples(r) : t[2] = "trendState" => t[3] = r.state
    BY DEF TrendTriples
  <2>2. QED
    BY <1>1, <2>1
<1>5. V("cashFraction") = {r.cash}
  <2>1. <<TrendIri(r), "cashFraction", r.cash>> \in TrendTriples(r) /\ \A t \in TrendTriples(r) : t[2] = "cashFraction" => t[3] = r.cash
    BY DEF TrendTriples
  <2>2. QED
    BY <1>1, <2>1
<1>6. V("appliesToArm") = TopNArms
  <2>1. \A arm \in TopNArms : <<TrendIri(r), "appliesToArm", arm>> \in TrendTriples(r)
    BY DEF TrendTriples
  <2>2. \A t \in TrendTriples(r) : t[2] = "appliesToArm" => t[3] \in TopNArms
    BY DEF TrendTriples
  <2>3. V("appliesToArm") \subseteq TopNArms
    BY <1>1, <2>2
  <2>4. ASSUME NEW arm \in TopNArms PROVE arm \in V("appliesToArm")
    <3> DEFINE t == <<TrendIri(r), "appliesToArm", arm>>
    <3>1. t \in TrendTriples(r) /\ t[2] = "appliesToArm" /\ t[3] = arm
      BY <2>1
    <3>2. QED
      BY <1>1, <3>1
  <2>5. QED
    BY <2>3, <2>4
<1>7. V("aggregatesSet") = {SetIri}
  <2>1. <<TrendIri(r), "aggregatesSet", SetIri>> \in TrendTriples(r) /\ \A t \in TrendTriples(r) : t[2] = "aggregatesSet" => t[3] = SetIri
    BY DEF TrendTriples
  <2>2. QED
    BY <1>1, <2>1
<1>8. QED
  BY <1>2, <1>3, <1>4, <1>5, <1>6, <1>7

LEMMA ReturnValues ==
  ASSUME NEW d, ReturnsAccepted(d.rows.returns), NEW r \in d.rows.returns
  PROVE  /\ Values(Batch(d), ReturnIri(r), "returnWindow") = {r.window}
         /\ Values(Batch(d), ReturnIri(r), "returnSegment") = {r.segment}
         /\ Values(Batch(d), ReturnIri(r), "referenceName") = {r.reference}
         /\ Values(Batch(d), ReturnIri(r), "referenceTotalReturn") = {r.return}
         /\ Values(Batch(d), ReturnIri(r), "referenceDateFrom") = {r.from}
         /\ Values(Batch(d), ReturnIri(r), "referenceDateTo") = {r.to}
         /\ Values(Batch(d), ReturnIri(r), "nSessions") = {r.sessions}
         /\ Values(Batch(d), ReturnIri(r), "referenceMaxDrawdown") = {r.drawdown}
         /\ Values(Batch(d), ReturnIri(r), "aggregatesSet") = {SetIri}
<1> DEFINE V(p) == Values(Batch(d), ReturnIri(r), p)
<1>1. ASSUME NEW p
      PROVE  V(p) = {t[3] : t \in {u \in ReturnTriples(r) : u[2] = p}}
  <2>1. \A t \in ReturnTriples(r) : t \in Batch(d) /\ t[1] = ReturnIri(r)
    BY BatchTriples, TripleSubjects
  <2>2. QED
    BY <2>1, ReturnOf DEF Values
<1>2. V("returnWindow") = {r.window}
  <2>1. <<ReturnIri(r), "returnWindow", r.window>> \in ReturnTriples(r) /\ \A t \in ReturnTriples(r) : t[2] = "returnWindow" => t[3] = r.window
    BY DEF ReturnTriples
  <2>2. QED
    BY <1>1, <2>1
<1>3. V("returnSegment") = {r.segment}
  <2>1. <<ReturnIri(r), "returnSegment", r.segment>> \in ReturnTriples(r) /\ \A t \in ReturnTriples(r) : t[2] = "returnSegment" => t[3] = r.segment
    BY DEF ReturnTriples
  <2>2. QED
    BY <1>1, <2>1
<1>4. V("referenceName") = {r.reference}
  <2>1. <<ReturnIri(r), "referenceName", r.reference>> \in ReturnTriples(r) /\ \A t \in ReturnTriples(r) : t[2] = "referenceName" => t[3] = r.reference
    BY DEF ReturnTriples
  <2>2. QED
    BY <1>1, <2>1
<1>5. V("referenceTotalReturn") = {r.return}
  <2>1. <<ReturnIri(r), "referenceTotalReturn", r.return>> \in ReturnTriples(r) /\ \A t \in ReturnTriples(r) : t[2] = "referenceTotalReturn" => t[3] = r.return
    BY DEF ReturnTriples
  <2>2. QED
    BY <1>1, <2>1
<1>6. V("referenceDateFrom") = {r.from}
  <2>1. <<ReturnIri(r), "referenceDateFrom", r.from>> \in ReturnTriples(r) /\ \A t \in ReturnTriples(r) : t[2] = "referenceDateFrom" => t[3] = r.from
    BY DEF ReturnTriples
  <2>2. QED
    BY <1>1, <2>1
<1>7. V("referenceDateTo") = {r.to}
  <2>1. <<ReturnIri(r), "referenceDateTo", r.to>> \in ReturnTriples(r) /\ \A t \in ReturnTriples(r) : t[2] = "referenceDateTo" => t[3] = r.to
    BY DEF ReturnTriples
  <2>2. QED
    BY <1>1, <2>1
<1>8. V("aggregatesSet") = {SetIri}
  <2>1. <<ReturnIri(r), "aggregatesSet", SetIri>> \in ReturnTriples(r) /\ \A t \in ReturnTriples(r) : t[2] = "aggregatesSet" => t[3] = SetIri
    BY DEF ReturnTriples
  <2>2. QED
    BY <1>1, <2>1
<1>9. V("nSessions") = {r.sessions}
  <2>1. <<ReturnIri(r), "nSessions", r.sessions>> \in ReturnTriples(r) /\ \A t \in ReturnTriples(r) : t[2] = "nSessions" => t[3] = r.sessions
    BY DEF ReturnTriples
  <2>2. QED
    BY <1>1, <2>1
<1>10. V("referenceMaxDrawdown") = {r.drawdown}
  <2>1. <<ReturnIri(r), "referenceMaxDrawdown", r.drawdown>> \in ReturnTriples(r) /\ \A t \in ReturnTriples(r) : t[2] = "referenceMaxDrawdown" => t[3] = r.drawdown
    BY DEF ReturnTriples
  <2>2. QED
    BY <1>1, <2>1
<1>11. QED
  BY <1>2, <1>3, <1>4, <1>5, <1>6, <1>7, <1>8, <1>9, <1>10

LEMMA MembersOf ==
  ASSUME NEW d
  PROVE  /\ Members(Batch(d), "AggregatesSet") = {SetIri}
         /\ Members(Batch(d), "TrendFilterState") = {TrendIri(r) : r \in d.rows.trend}
         /\ Members(Batch(d), "ReferenceReturn") = {ReturnIri(r) : r \in d.rows.returns}
<1>1. \A t \in SetTriples(d) : t[2] = "a" => t = <<SetIri, "a", "AggregatesSet">>
  BY DEF SetTriples
<1>2. \A r : \A t \in TrendTriples(r) : t[2] = "a" => t = <<TrendIri(r), "a", "TrendFilterState">>
  BY DEF TrendTriples
<1>3. \A r : \A t \in ReturnTriples(r) : t[2] = "a" => t = <<ReturnIri(r), "a", "ReferenceReturn">>
  BY DEF ReturnTriples
<1>4. /\ <<SetIri, "a", "AggregatesSet">> \in Batch(d)
      /\ \A r \in d.rows.trend : <<TrendIri(r), "a", "TrendFilterState">> \in Batch(d)
      /\ \A r \in d.rows.returns : <<ReturnIri(r), "a", "ReferenceReturn">> \in Batch(d)
  BY BatchTriples DEF SetTriples, TrendTriples, ReturnTriples
<1>5. \A t \in Batch(d) : t[2] = "a" =>
        \/ t = <<SetIri, "a", "AggregatesSet">>
        \/ \E r \in d.rows.trend : t = <<TrendIri(r), "a", "TrendFilterState">>
        \/ \E r \in d.rows.returns : t = <<ReturnIri(r), "a", "ReferenceReturn">>
  BY <1>1, <1>2, <1>3, BatchTriples
<1>6. Members(Batch(d), "AggregatesSet") = {SetIri}
  <2>1. \A t \in Batch(d) : t[2] = "a" /\ t[3] = "AggregatesSet" => t[1] = SetIri
    BY <1>5
  <2>2. QED
    BY <1>4, <2>1 DEF Members
<1>7. Members(Batch(d), "TrendFilterState") = {TrendIri(r) : r \in d.rows.trend}
  <2>1. \A t \in Batch(d) : t[2] = "a" /\ t[3] = "TrendFilterState" =>
                             \E r \in d.rows.trend : t[1] = TrendIri(r)
    BY <1>5
  <2>2. QED
    BY <1>4, <2>1 DEF Members
<1>8. Members(Batch(d), "ReferenceReturn") = {ReturnIri(r) : r \in d.rows.returns}
  <2>1. \A t \in Batch(d) : t[2] = "a" /\ t[3] = "ReferenceReturn" =>
                             \E r \in d.rows.returns : t[1] = ReturnIri(r)
    BY <1>5
  <2>2. QED
    BY <1>4, <2>1 DEF Members
<1>9. QED
  BY <1>6, <1>7, <1>8

-----------------------------------------------------------------------------
LEMMA OneValue ==
  ASSUME NEW T, NEW s, NEW p, NEW v, Values(T, s, p) = {v}
  PROVE  /\ Some(T, s, p)
         /\ \A range : v \in range => One(T, s, p, range)
BY FS_Singleton DEF Some, One

LEMMA TwoArms == Cardinality(TopNArms) = 2
<1>1. TopNArms = {"TOPN_MV_NOGUARD"} \cup {"TOPN_MV_GUARD_NO_NLP"}
  BY DEF TopNArms
<1>2. IsFiniteSet({"TOPN_MV_NOGUARD"}) /\ Cardinality({"TOPN_MV_NOGUARD"}) = 1
  BY FS_Singleton
<1>3. "TOPN_MV_GUARD_NO_NLP" \notin {"TOPN_MV_NOGUARD"}
  OBVIOUS
<1>4. Cardinality({"TOPN_MV_NOGUARD"} \cup {"TOPN_MV_GUARD_NO_NLP"}) = 1 + 1
  BY <1>2, <1>3, FS_AddElement
<1>5. QED
  BY <1>1, <1>4

LEMMA TrendConforms ==
  ASSUME NEW d, Accepted(d.rows), NEW s \in Members(Batch(d), "TrendFilterState")
  PROVE  LET T == Batch(d)
         IN  /\ Some(T, s, "trendWindow") /\ Some(T, s, "trendDecisionDate")
             /\ One(T, s, "trendState", TrendStates) /\ One(T, s, "cashFraction", 0..Unit)
             /\ Values(T, s, "appliesToArm") \subseteq TopNArms
             /\ Cardinality(Values(T, s, "appliesToArm")) = 2
             /\ One(T, s, "aggregatesSet", Members(T, "AggregatesSet"))
<1>1. PICK r \in d.rows.trend : s = TrendIri(r)
  BY MembersOf
<1>2. TrendAccepted(d.rows.trend)
  BY DEF Accepted
<1>3. r.state \in TrendStates /\ r.cash \in 0..Unit /\ SetIri \in Members(Batch(d), "AggregatesSet")
  BY <1>2, MembersOf DEF TrendAccepted
<1> DEFINE T == Batch(d)
<1>4. /\ Values(T, s, "trendWindow") = {r.window} /\ Values(T, s, "trendDecisionDate") = {r.date}
      /\ Values(T, s, "trendState") = {r.state} /\ Values(T, s, "cashFraction") = {r.cash}
      /\ Values(T, s, "appliesToArm") = TopNArms /\ Values(T, s, "aggregatesSet") = {SetIri}
  BY <1>1, <1>2, TrendValues
<1>5. Some(T, s, "trendWindow") /\ Some(T, s, "trendDecisionDate")
  BY <1>4, OneValue
<1>6. One(T, s, "trendState", TrendStates) /\ One(T, s, "cashFraction", 0..Unit)
  BY <1>3, <1>4, OneValue
<1>7. One(T, s, "aggregatesSet", Members(T, "AggregatesSet"))
  BY <1>3, <1>4, OneValue
<1> HIDE DEF T
<1>8. QED
  BY <1>4, <1>5, <1>6, <1>7, TwoArms DEF T

LEMMA ReturnConforms ==
  ASSUME NEW d, Accepted(d.rows), NEW s \in Members(Batch(d), "ReferenceReturn")
  PROVE  LET T == Batch(d)
         IN  /\ Some(T, s, "returnWindow") /\ Some(T, s, "returnSegment")
             /\ One(T, s, "referenceName", References) /\ Some(T, s, "referenceTotalReturn")
             /\ Some(T, s, "referenceDateFrom") /\ Some(T, s, "referenceDateTo")
             /\ \A f \in Values(T, s, "referenceDateFrom"), t \in Values(T, s, "referenceDateTo") : f <= t
             /\ Some(T, s, "nSessions") /\ \A n \in Values(T, s, "nSessions") : n >= 1
             /\ Some(T, s, "referenceMaxDrawdown") /\ \A x \in Values(T, s, "referenceMaxDrawdown") : x >= 0
             /\ One(T, s, "aggregatesSet", Members(T, "AggregatesSet"))
<1>1. PICK r \in d.rows.returns : s = ReturnIri(r)
  BY MembersOf
<1>2. ReturnsAccepted(d.rows.returns)
  BY DEF Accepted
<1>3. r.reference \in References /\ r.from <= r.to /\ r.sessions >= 1 /\ r.drawdown >= 0
      /\ SetIri \in Members(Batch(d), "AggregatesSet")
  BY <1>2, MembersOf DEF ReturnsAccepted
<1> DEFINE T == Batch(d)
<1>4. /\ Values(T, s, "returnWindow") = {r.window} /\ Values(T, s, "returnSegment") = {r.segment}
      /\ Values(T, s, "referenceName") = {r.reference} /\ Values(T, s, "referenceTotalReturn") = {r.return}
      /\ Values(T, s, "referenceDateFrom") = {r.from} /\ Values(T, s, "referenceDateTo") = {r.to}
      /\ Values(T, s, "nSessions") = {r.sessions} /\ Values(T, s, "referenceMaxDrawdown") = {r.drawdown}
      /\ Values(T, s, "aggregatesSet") = {SetIri}
  BY <1>1, <1>2, ReturnValues
<1>5. /\ Some(T, s, "returnWindow") /\ Some(T, s, "returnSegment")
      /\ Some(T, s, "referenceTotalReturn") /\ Some(T, s, "nSessions") /\ Some(T, s, "referenceMaxDrawdown")
      /\ Some(T, s, "referenceDateFrom") /\ Some(T, s, "referenceDateTo")
  BY <1>4, OneValue
<1>6. One(T, s, "referenceName", References) /\ One(T, s, "aggregatesSet", Members(T, "AggregatesSet"))
  BY <1>3, <1>4, OneValue
<1>7. /\ \A f \in Values(T, s, "referenceDateFrom"), t \in Values(T, s, "referenceDateTo") : f <= t
      /\ \A n \in Values(T, s, "nSessions") : n >= 1
      /\ \A x \in Values(T, s, "referenceMaxDrawdown") : x >= 0
  BY <1>3, <1>4
<1> HIDE DEF T
<1>8. QED
  BY <1>5, <1>6, <1>7 DEF T

(* Whatever rows the parser accepts, their batch conforms to the shapes.       *)
LEMMA AcceptedConforms ==
  ASSUME NEW d, Accepted(d.rows)
  PROVE  Conforms(Batch(d))
<1>1. \A s \in Members(Batch(d), "AggregatesSet") : Some(Batch(d), s, "aggregatesSourceSha256")
  BY MembersOf, SetValues, OneValue
<1>2. QED
  BY <1>1, TrendConforms, ReturnConforms DEF Conforms

-----------------------------------------------------------------------------
(* Past Parse the command holds rows the parser accepted.                      *)
Parsed == {"verify", "plan", "subjects", "write", "compare"}
Working == Parsed \cup {"hash", "parse"}
Held == pc \in Parsed => Accepted(data.rows)

LEMMA HeldKept ==
  ASSUME Held, [Next]_vars
  PROVE  Held'
<1> USE DEF Parsed, Held
<1>1. CASE Parse
  <2>1. CASE folder.file # Null /\ Accepted(folder.file)
    <3>1. data' = [rows |-> folder.file, sha |-> sha]
      BY <1>1, <2>1 DEF Parse
    <3>2. data'.rows = folder.file
      BY <3>1
    <3>3. QED
      BY <2>1, <3>2 DEF Accepted, TrendAccepted, ReturnsAccepted, SegmentOfWindow, Same
  <2>2. QED
    BY <1>1, <2>1 DEF Parse, End
<1>2. CASE UNCHANGED vars
  BY <1>2 DEF vars
<1>3. QED
  BY <1>1, <1>2 DEF Next, Deliver, Start, Hash, Verify, Plan, PlanSubjects, Write, LoseAnswer, StrayLands, Compare,
       StoreFails, Goto, End, Send, Fault

(* Parser and shapes agree: what is parsed is never rejected for its content.  *)
THEOREM ShapesAcceptParsed == Spec => []ParsedConforms
<1>1. Init => Held
  BY DEF Init, Held, Parsed
<1>2. Held /\ [Next]_vars => Held'
  BY HeldKept
<1>3. Held => ParsedConforms
  BY AcceptedConforms DEF Held, Parsed, ParsedConforms
<1>4. QED
  BY <1>1, <1>2, <1>3, PTL DEF Spec

-----------------------------------------------------------------------------
Content(f) == [rows |-> f.file, sha |-> f.manifest]
Right(f) == Listed(f) /\ Accepted(f.file) /\ Verifies(f, f.file)

LEMMA ContentFields == \A f : Content(f).rows = f.file /\ Content(f).sha = f.manifest
BY DEF Content

(* A folder whose file passes every check is told right by its own batch.      *)
LEMMA RightAgrees ==
  ASSUME NEW f, Right(f)
  PROVE  Agrees(Batch(Content(f)), f)
<1> DEFINE T == Batch(Content(f))
           trend == f.file.trend
           returns == f.file.returns
           windows == WindowsOf(trend) \cup WindowsOf(returns)
<1>1. TrendAccepted(trend) /\ ReturnsAccepted(returns) /\ f.manifest = f.file
  BY DEF Right, Accepted, Listed
<1>2. Content(f).rows.trend = trend /\ Content(f).rows.returns = returns /\ Content(f).sha = f.manifest
  BY ContentFields
<1>3. (\A w \in WindowsOf(trend) : TrendMatches(f.dbs, trend, w)) /\ ReturnsMatch(f.dbs, returns, windows)
  BY DEF Right, Verifies
<1>4. Values(T, SetIri, "aggregatesSourceSha256") = {f.manifest}
  BY <1>2, SetValues
<1>5. ASSUME NEW r \in trend, NEW arm \in TopNArms, NEW b \in f.dbs[r.window].rebalances, b.arm = arm
      PROVE  <<"TrendFilter", r.window, b.date>> \in Subjects(T)
  <2>1. b.date \in {s.date : s \in {q \in trend : q.window = r.window}}
    <3>1. TrendMatches(f.dbs, trend, r.window)
      BY <1>3 DEF WindowsOf
    <3>2. b.date \in Decisions(f.dbs, r.window, arm)
      BY <1>5 DEF Decisions
    <3>3. QED
      BY <3>1, <3>2 DEF TrendMatches
  <2>2. PICK s \in trend : s.window = r.window /\ s.date = b.date
    BY <2>1
  <2>3. <<TrendIri(s), "a", "TrendFilterState">> \in T
    BY <1>2, BatchTriples DEF TrendTriples
  <2>4. TrendIri(s) \in Subjects(T)
    BY <2>3 DEF Subjects
  <2>5. QED
    BY <2>2, <2>4 DEF TrendIri
<1>6. ASSUME NEW s \in Members(T, "TrendFilterState"), NEW w \in Values(T, s, "trendWindow"),
             NEW d \in Values(T, s, "trendDecisionDate"), NEW arm \in TopNArms
      PROVE  \E b \in f.dbs[w].rebalances : b.arm = arm /\ b.date = d
  <2>1. PICK r \in trend : s = TrendIri(r)
    BY <1>2, MembersOf
  <2>2. w = r.window /\ d = r.date
    BY <1>1, <1>2, <2>1, TrendValues
  <2>3. TrendMatches(f.dbs, trend, w) /\ d \in {q.date : q \in {o \in trend : o.window = w}}
    BY <1>3, <2>2 DEF WindowsOf
  <2>4. d \in Decisions(f.dbs, w, arm)
    BY <2>3 DEF TrendMatches
  <2>5. QED
    BY <2>4 DEF Decisions
<1>7. Summaries(f) = Published(f.dbs, windows)
  <2>1. windows \subseteq DOMAIN f.dbs
    BY <1>3 DEF ReturnsMatch
  <2>2. windows = {r.window : r \in trend \cup returns}
    BY DEF WindowsOf
  <2>3. Published(f.dbs, windows) = UNION {f.dbs[w].summaries : w \in windows}
    BY <2>1 DEF Published
  <2> HIDE DEF windows
  <2>4. QED
    BY <2>2, <2>3 DEF Summaries
<1>8. ASSUME NEW s \in Summaries(f), NEW reference \in References
      PROVE  \E z \in returns : ReturnIri(z) = RefReturn(s, reference) /\ Same(z, s, {"window", "from", "to"})
  <2>1. s \in Published(f.dbs, windows)
    BY <1>7
  <2>2. s.segment \in {q.segment : q \in returns}
    BY <1>3, <2>1 DEF ReturnsMatch
  <2>3. PICK q \in returns : q.segment = s.segment
    BY <2>2
  <2> DEFINE R == {o \in returns : o.segment = q.segment /\ o.reference = reference}
  <2>4. Cardinality(R) = 1
    BY <1>3 DEF ReturnsMatch
  <2>5. R # {}
    <3> HIDE DEF R
    <3>1. QED
      BY <2>4, FS_EmptySet
  <2>6. PICK z \in returns : z.segment = s.segment /\ z.reference = reference
    BY <2>3, <2>5
  <2>7. Same(z, s, {"window", "from", "to"})
    BY <1>3, <2>1, <2>6 DEF ReturnsMatch
  <2>8. ReturnIri(z) = RefReturn(s, reference)
    BY <2>6 DEF ReturnIri, RefReturn
  <2>9. QED
    BY <2>7, <2>8
<1>9. ASSUME NEW z \in returns
      PROVE  \E s \in Summaries(f), reference \in References : ReturnIri(z) = RefReturn(s, reference)
  <2>1. PICK s \in Summaries(f) : s.segment = z.segment
    BY <1>3, <1>7 DEF ReturnsMatch
  <2>2. z.reference \in References
    BY <1>1 DEF ReturnsAccepted
  <2>3. QED
    BY <2>1, <2>2 DEF ReturnIri, RefReturn
<1>10. Members(T, "ReferenceReturn") = {RefReturn(s, reference) : s \in Summaries(f), reference \in References}
  <2>1. Members(T, "ReferenceReturn") = {ReturnIri(z) : z \in returns}
    BY <1>2, MembersOf
  <2>2. QED
    BY <2>1, <1>8, <1>9
<1>11. ASSUME NEW s \in Summaries(f), NEW reference \in References
       PROVE  /\ Values(T, RefReturn(s, reference), "returnWindow") = {s.window}
              /\ Values(T, RefReturn(s, reference), "referenceDateFrom") = {s.from}
              /\ Values(T, RefReturn(s, reference), "referenceDateTo") = {s.to}
  <2>1. PICK z \in returns : ReturnIri(z) = RefReturn(s, reference) /\ Same(z, s, {"window", "from", "to"})
    BY <1>8
  <2>2. z.window = s.window /\ z.from = s.from /\ z.to = s.to
    BY <2>1 DEF Same
  <2>3. /\ Values(T, ReturnIri(z), "returnWindow") = {z.window}
        /\ Values(T, ReturnIri(z), "referenceDateFrom") = {z.from}
        /\ Values(T, ReturnIri(z), "referenceDateTo") = {z.to}
    BY <1>1, <1>2, ReturnValues
  <2>4. QED
    BY <2>1, <2>2, <2>3
<1> HIDE DEF T
<1>12. QED
  BY <1>1, <1>4, <1>5, <1>6, <1>10, <1>11 DEF Agrees, T

-----------------------------------------------------------------------------
(* While the folder lies still, what the command holds is what the folder has. *)
Checked == {"plan", "subjects", "write", "compare"}
Fresh == pc # "idle" => outcome = "none"
Steady ==
  quiet => /\ pc \in {"parse"} \cup Parsed => Listed(folder) /\ sha = folder.manifest
           /\ pc \in Parsed => data = Content(folder) /\ Accepted(folder.file)
           /\ pc \in Checked => mode # "dry" /\ Verifies(folder, folder.file)

LEMMA Rigid ==
  ASSUME UNCHANGED folder
  PROVE  /\ Listed(folder)' = Listed(folder) /\ Accepted(folder.file)' = Accepted(folder.file)
         /\ Verifies(folder, folder.file)' = Verifies(folder, folder.file)
         /\ Content(folder)' = Content(folder)
BY DEF Listed, Accepted, TrendAccepted, ReturnsAccepted, SegmentOfWindow, Same, Verifies, WindowsOf, Decisions,
       TrendMatches, Published, OnePeriod, ReturnsMatch, CashMatches, Compounds, Content

LEMMA FreshKept ==
  ASSUME Fresh, [Next]_vars
  PROVE  Fresh'
BY DEF Fresh, Next, vars, Deliver, Start, Hash, Parse, Verify, Plan, PlanSubjects, Write, LoseAnswer, StrayLands, Compare,
       StoreFails, Goto, End, Send, Fault

LEMMA SteadyKept ==
  ASSUME Steady, [Next]_vars
  PROVE  Steady'
<1> USE DEF Parsed, Checked
<1>1. CASE \E f \in Folder : Deliver(f)
  BY <1>1 DEF Deliver, Steady
<1>2. CASE \E m \in {"dry", "check", "write"} : Start(m)
  BY <1>2 DEF Start, Steady
<1>3. CASE Hash
  <2>1. CASE Listed(folder)
    BY <1>3, <2>1, Rigid DEF Hash, Goto, Steady
  <2>2. CASE ~Listed(folder)
    BY <1>3, <2>2 DEF Hash, End, Steady
  <2>3. QED
    BY <2>1, <2>2
<1>4. CASE Parse
  <2>1. CASE folder.file # Null /\ Accepted(folder.file)
    <3>1. pc' = "verify" /\ data' = [rows |-> folder.file, sha |-> sha] /\ UNCHANGED <<folder, sha, quiet>>
      BY <1>4, <2>1 DEF Parse, Goto
    <3>2. quiet => sha = folder.manifest /\ Listed(folder)
      BY <1>4 DEF Parse, Steady
    <3>3. quiet => data' = Content(folder)
      BY <3>1, <3>2 DEF Content
    <3>4. QED
      BY <2>1, <3>1, <3>2, <3>3, Rigid DEF Steady
  <2>2. CASE ~(folder.file # Null /\ Accepted(folder.file))
    BY <1>4, <2>2 DEF Parse, End, Steady
  <2>3. QED
    BY <2>1, <2>2
<1>5. CASE Verify
  <2>1. CASE pc' = "idle"
    BY <2>1 DEF Steady
  <2>2. CASE pc' = "plan"
    <3>1. pc = "verify" /\ mode # "dry" /\ Verifies(folder, data.rows) /\ UNCHANGED <<folder, sha, data, mode, quiet>>
      BY <1>5, <2>2 DEF Verify, End, Goto
    <3>2. quiet => data = Content(folder) /\ data.rows = folder.file
      BY <3>1, ContentFields DEF Steady
    <3>3. QED
      BY <2>2, <3>1, <3>2, Rigid DEF Steady
  <2>3. QED
    BY <1>5, <2>1, <2>2 DEF Verify, End, Goto
<1>6. CASE Plan \/ PlanSubjects \/ Write \/ Compare \/ LoseAnswer \/ StoreFails
  <2>1. pc \in Checked /\ pc' \in Checked \cup {"idle"} /\ UNCHANGED <<folder, sha, data, mode, quiet>>
    BY <1>6 DEF Plan, PlanSubjects, Write, Compare, LoseAnswer, StoreFails, End, Goto
  <2>2. QED
    BY <2>1, Rigid DEF Steady
<1>7. CASE \E d \in strays : StrayLands(d)
  BY <1>7, Rigid DEF StrayLands, Steady
<1>8. CASE UNCHANGED vars
  BY <1>8, Rigid DEF vars, Steady
<1>9. QED
  BY <1>1, <1>2, <1>3, <1>4, <1>5, <1>6, <1>7, <1>8 DEF Next

(* The store holds nothing of the label, or its set.                           *)
Rooted == graph # {} => SetIri \in Subjects(graph)

LEMMA SetSubject == \A d : SetIri \in Subjects(Batch(d))
<1>1. ASSUME NEW d PROVE SetIri \in Subjects(Batch(d))
  <2>1. <<SetIri, "a", "AggregatesSet">> \in Batch(d)
    BY BatchTriples DEF SetTriples
  <2>2. QED
    BY <2>1 DEF Subjects
<1>2. QED
  BY <1>1

LEMMA RootedKept ==
  ASSUME Rooted, [Next]_vars
  PROVE  Rooted'
<1>1. \A d : SetIri \in Subjects(graph \cup Batch(d))
  BY SetSubject DEF Subjects
<1>2. SetIri' = SetIri /\ (graph' = graph => Subjects(graph)' = Subjects(graph))
  BY DEF SetIri, Subjects
<1>3. ASSUME NEW d, graph' = graph \cup Batch(d) PROVE Rooted'
  <2>1. Subjects(graph)' = Subjects(graph \cup Batch(d))
    BY <1>3 DEF Subjects
  <2>2. QED
    BY <1>1, <1>2, <2>1 DEF Rooted
<1>4. CASE Write \/ LoseAnswer
  BY <1>2, <1>3, <1>4 DEF Write, LoseAnswer, Rooted
<1>5. CASE \E d \in strays : StrayLands(d)
  BY <1>3, <1>5 DEF StrayLands
<1>6. CASE graph' = graph
  BY <1>2, <1>6 DEF Rooted
<1>7. QED
  BY <1>4, <1>5, <1>6 DEF Next, vars, Deliver, Start, Hash, Parse, Verify, Plan, PlanSubjects, Compare, StoreFails

(* The step that ends a write with 0 found the stored graph to be the batch.   *)
THEOREM DonePublished == Spec => DoneMeansPublished
<1>1. Init => Fresh /\ Steady /\ Rooted
  BY DEF Init, Fresh, Steady, Parsed, Checked, Rooted
<1>2. Fresh /\ Steady /\ Rooted /\ [Next]_vars => Fresh' /\ Steady' /\ Rooted'
  BY FreshKept, SteadyKept, RootedKept
<1>3. ASSUME Fresh, Steady, Rooted, Next, pc # "idle", outcome' = "ok", quiet, mode = "write" \/ graph # {}, mode # "dry"
      PROVE  graph' = Batch([rows |-> folder.file, sha |-> folder.manifest]) /\ Agrees(graph', folder)
  <2>1. outcome = "none"
    BY <1>3 DEF Fresh
  <2>2. Compare /\ graph = Batch(data)
    <3>1. CASE PlanSubjects
      <4>1. graph = {}
        BY <3>1, SetSubject, <1>3, <2>1 DEF PlanSubjects, Rooted, Goto, End
      <4>2. mode = "check"
        BY <1>3, <2>1, <3>1 DEF PlanSubjects, Goto, End
      <4>3. QED
        BY <1>3, <4>1, <4>2
    <3>2. CASE Verify
      BY <1>3, <2>1, <3>2 DEF Verify, Goto, End
    <3>3. CASE Compare
      BY <3>3, <1>3 DEF Compare, End
    <3>4. QED
      BY <1>3, <2>1, <3>1, <3>2, <3>3 DEF Next, Deliver, Start, Hash, Parse, Plan, Write, LoseAnswer, StrayLands, StoreFails,
           Goto, End
  <2>3. data = Content(folder) /\ Right(folder)
    BY <1>3, <2>2 DEF Compare, Steady, Parsed, Checked, Right
  <2>4. graph' = Batch(Content(folder))
    BY <2>2, <2>3 DEF Compare
  <2>5. Agrees(graph', folder)
    BY <2>3, <2>4, RightAgrees
  <2>6. QED
    BY <2>4, <2>5 DEF Content
<1>4. ASSUME Fresh, Steady, Rooted, [Next]_vars
      PROVE  [pc # "idle" /\ outcome' = "ok" /\ quiet /\ (mode = "write" \/ graph # {}) /\ mode # "dry" =>
                graph' = Batch([rows |-> folder.file, sha |-> folder.manifest]) /\ Agrees(graph', folder)]_vars
  BY <1>3, <1>4
<1>5. QED
  BY <1>1, <1>2, <1>4, PTL DEF Spec, DoneMeansPublished

-----------------------------------------------------------------------------
(* What was sent from a folder that lay still was right; the graph and the     *)
(* requests still on their way hold nothing else than what was sent.           *)
SentRight == \A s \in sent : s.quiet => s.data = Content(s.folder) /\ Right(s.folder)
OnlyPosted ==
  /\ sent = {} => graph = {} /\ strays = {}
  /\ \A s \in sent : (\A o \in sent : o.data = s.data) =>
                     graph \in {{}, Batch(s.data)} /\ strays \subseteq {s.data}
Stays == pc = "compare" => graph # {}
Crossing == pc = "subjects" /\ graph # {} => crossed

LEMMA RigidData ==
  ASSUME NEW CONSTANT d, NEW CONSTANT f
  PROVE  Batch(d)' = Batch(d) /\ Content(f)' = Content(f) /\ Right(f)' = Right(f)
BY DEF Batch, SetTriples, TrendTriples, ReturnTriples, SetIri, TrendIri, ReturnIri, TopNArms, Content, Right,
       Listed, Accepted, TrendAccepted, ReturnsAccepted, SegmentOfWindow, Same, Verifies, WindowsOf, Decisions,
       TrendMatches, Published, OnePeriod, ReturnsMatch, CashMatches, Compounds

LEMMA Sending ==
  ASSUME Send
  PROVE  /\ \E o \in sent' : o.data = data /\ o.folder = folder /\ o.quiet = quiet
         /\ \A s \in sent' : s \in sent \/ (s.data = data /\ s.folder = folder /\ s.quiet = quiet)
         /\ sent \subseteq sent'
<1> DEFINE posted == [data |-> data, folder |-> folder, quiet |-> quiet]
<1>1. posted.data = data /\ posted.folder = folder /\ posted.quiet = quiet
  OBVIOUS
<1>2. sent' = sent \cup {posted}
  BY DEF Send
<1> HIDE DEF posted
<1>3. QED
  BY <1>1, <1>2

LEMMA BatchFull == \A d : Batch(d) # {}
BY BatchTriples DEF SetTriples

LEMMA SentRightKept ==
  ASSUME SentRight, Steady, [Next]_vars
  PROVE  SentRight'
<1>1. CASE Write \/ LoseAnswer
  <2>1. Send /\ (quiet => data = Content(folder) /\ Right(folder))
    BY <1>1 DEF Write, LoseAnswer, Steady, Parsed, Checked, Right
  <2>2. ASSUME NEW s \in sent', s.quiet PROVE s.data = Content(s.folder) /\ Right(s.folder)
    BY <2>1, <2>2, Sending DEF SentRight
  <2>3. QED
    BY <2>2, RigidData DEF SentRight
<1>2. CASE sent' = sent
  BY <1>2, RigidData DEF SentRight
<1>3. QED
  BY <1>1, <1>2 DEF Next, vars, Deliver, Start, Hash, Parse, Verify, Plan, PlanSubjects, StrayLands, Compare, StoreFails, End, Goto

LEMMA OnlyPostedKept ==
  ASSUME OnlyPosted, [Next]_vars
  PROVE  OnlyPosted'
<1>1. CASE Write \/ LoseAnswer
  <2>1. /\ Send /\ graph' \in {graph, graph \cup Batch(data)} /\ strays' \in {strays, strays \cup {data}}
    BY <1>1 DEF Write, LoseAnswer
  <2>2. sent' # {}
    BY <2>1, Sending
  <2>3. ASSUME NEW s \in sent', \A o \in sent' : o.data = s.data
        PROVE  graph' \in {{}, Batch(s.data)} /\ strays' \subseteq {s.data}
    <3>1. s.data = data
      BY <2>1, <2>3, Sending
    <3>2. graph \in {{}, Batch(data)} /\ strays \subseteq {data}
      <4>1. CASE sent = {}
        BY <4>1 DEF OnlyPosted
      <4>2. CASE sent # {}
        <5>1. PICK o \in sent : TRUE
          BY <4>2
        <5>2. o.data = data /\ \A q \in sent : q.data = o.data
          BY <2>1, <2>3, <3>1, Sending
        <5>3. QED
          BY <5>2 DEF OnlyPosted
      <4>3. QED
        BY <4>1, <4>2
    <3>3. QED
      BY <2>1, <3>1, <3>2
  <2>4. QED
    BY <2>2, <2>3, RigidData DEF OnlyPosted
<1>2. CASE \E d \in strays : StrayLands(d)
  <2>1. PICK d \in strays : graph' = graph \cup Batch(d) /\ strays' = strays \ {d} /\ sent' = sent
    BY <1>2 DEF StrayLands
  <2>2. sent # {}
    BY <2>1 DEF OnlyPosted
  <2>3. ASSUME NEW s \in sent, \A o \in sent : o.data = s.data
        PROVE  graph' \in {{}, Batch(s.data)} /\ strays' \subseteq {s.data}
    BY <2>1, <2>3 DEF OnlyPosted
  <2>4. QED
    BY <2>1, <2>2, <2>3, RigidData DEF OnlyPosted
<1>3. CASE UNCHANGED <<sent, graph, strays>>
  BY <1>3, RigidData DEF OnlyPosted
<1>4. QED
  BY <1>1, <1>2, <1>3 DEF Next, vars, Deliver, Start, Hash, Parse, Verify, Plan, PlanSubjects, Compare, StoreFails, End, Goto

LEMMA StaysKept ==
  ASSUME Stays, [Next]_vars
  PROVE  Stays'
<1>1. CASE Plan
  BY <1>1 DEF Plan, Found, Stays, Goto, End
<1>2. CASE Write
  BY <1>2, BatchFull DEF Write, Stays
<1>3. CASE \E d \in strays : StrayLands(d)
  BY <1>3 DEF StrayLands, Stays
<1>4. CASE PlanSubjects \/ Compare \/ StoreFails \/ LoseAnswer
  <2>1. pc' # "compare"
    BY <1>4 DEF PlanSubjects, Compare, StoreFails, LoseAnswer, End, Goto
  <2>2. QED
    BY <2>1 DEF Stays
<1>5. QED
  BY <1>1, <1>2, <1>3, <1>4 DEF Next, vars, Deliver, Start, Hash, Parse, Verify, Compare, StoreFails, LoseAnswer,
     End, Goto, Stays

LEMMA CrossingKept ==
  ASSUME Crossing, [Next]_vars
  PROVE  Crossing'
BY DEF Crossing, Next, vars, Deliver, Start, Hash, Parse, Verify, Plan, Found, PlanSubjects, Write, LoseAnswer,
       StrayLands, Compare, StoreFails, Goto, End, Send, Fault

(* Repeating the command on the one folder that was sent never finds a         *)
(* difference, and is refused only when the request landed between plan's two  *)
(* questions, and then it landed whole.                                        *)
THEOREM RepeatSafe == Spec => RepeatIsSafe
<1> DEFINE Inv == Fresh /\ Steady /\ SentRight /\ OnlyPosted /\ Stays /\ Crossing
<1>1. Init => Inv
  BY DEF Init, Fresh, Steady, Parsed, Checked, SentRight, OnlyPosted, Stays, Crossing
<1>2. Inv /\ [Next]_vars => Inv'
  BY FreshKept, SteadyKept, SentRightKept, OnlyPostedKept, StaysKept, CrossingKept
<1>3. ASSUME Inv, Next, pc # "idle", outcome' \in {"stopped", "failed"}, quiet, sent # {}, OnlySent(folder)
      PROVE  crossed /\ outcome' = "stopped" /\ graph = Batch(data)
  <2>1. outcome = "none"
    BY <1>3 DEF Fresh
  <2>2. PICK s \in sent : s.folder = folder /\ s.quiet
    BY <1>3 DEF OnlySent
  <2>3. s.data = Content(folder) /\ Right(folder) /\ \A o \in sent : o.data = s.data
    BY <1>3, <2>2 DEF SentRight, OnlySent
  <2>4. graph \in {{}, Batch(Content(folder))}
    BY <1>3, <2>2, <2>3 DEF OnlyPosted
  <2>5. pc \in Parsed => data = Content(folder) /\ data.rows = folder.file
    BY <1>3, ContentFields DEF Steady
  <2>6. Conforms(Batch(Content(folder)))
    BY <2>3, ContentFields, AcceptedConforms DEF Right
  <2>7. ~Hash /\ ~Parse
    BY <1>3, <2>1, <2>3 DEF Hash, Parse, Right, Listed, Goto, End
  <2>8. ~Verify
    BY <1>3, <2>1, <2>3, <2>5, <2>6 DEF Verify, Right, Goto, End, Parsed
  <2>9. ~Plan
    BY <1>3, <2>1, <2>5, <2>6 DEF Plan, Parsed, Goto, End
  <2>10. ~Compare
    BY <1>3, <2>4, <2>5 DEF Compare, End, Parsed, Stays
  <2>11. PlanSubjects
    BY <1>3, <2>1, <2>7, <2>8, <2>9, <2>10 DEF Next, Deliver, Start, Write, LoseAnswer, StrayLands, StoreFails, Goto, End
  <2>12. Subjects(Batch(data)) \cap Subjects(graph) # {} /\ outcome' = "stopped"
    BY <1>3, <2>1, <2>11 DEF PlanSubjects, Goto, End
  <2>13. graph # {}
    BY <2>12 DEF Subjects
  <2>14. data = Content(folder) /\ crossed
    BY <1>3, <2>5, <2>11, <2>13 DEF PlanSubjects, Parsed, Crossing
  <2>15. QED
    BY <2>4, <2>12, <2>13, <2>14
<1>4. ASSUME Inv, [Next]_vars
      PROVE  [pc # "idle" /\ outcome' \in {"stopped", "failed"} /\ quiet /\ sent # {} /\ OnlySent(folder) =>
                crossed /\ outcome' = "stopped" /\ graph = Batch(data)]_vars
  BY <1>3, <1>4
<1>5. QED
  BY <1>1, <1>2, <1>4, PTL DEF Spec, RepeatIsSafe
=============================================================================
