------------------------- MODULE UniverseDelta_proofs -------------------------
(***************************************************************************)
(* Proofs about the asset catalog for any symbols, companies, days, edits  *)
(* of the source and overlapping runs.  The source keeps one row per       *)
(* symbol and first day; a planned delta says of every row it was computed *)
(* from what it does about it, and the store only grows, so that what was  *)
(* settled when it was planned is still settled when it lands; and what the *)
(* gate admitted still fits when requests of the same rows landed since.    *)
(***************************************************************************)
EXTENDS UniverseDelta, FiniteSetTheorems, TLAPS

(* A source, or what a run keeps of it: one row per membership, none ending *)
(* before it begins.                                                        *)
Sound(S) ==
  /\ S \subseteq Stint
  /\ \A s \in S : s.from <= s.to
  /\ \A s, t \in S : s.symbol = t.symbol /\ s.from = t.from => s = t
SourceInv ==
  /\ today \in Day
  /\ Sound(source)
  /\ \A s \in source : s.from <= today

(* Resolution only regroups the rows it is given.                           *)
LEMMA ResolveRegroups ==
  ASSUME NEW S, NEW a \in Resolve(S) PROVE a.stints \subseteq S
<1>1. ASSUME NEW T, NEW b \in BySymbol(T) PROVE b.stints \subseteq T
  BY DEF BySymbol, Asset
<1>2. ASSUME NEW b \in ByCompany(S) PROVE b.stints \subseteq S
  <2>1. PICK c \in {s.cik : s \in S} \ {NoCik} :
          LET line == {s \in S : s.cik = c}
          IN  b \in IF Succession(line) THEN {Asset(Latest(line).symbol, line)}
                    ELSE BySymbol(line)
    BY DEF ByCompany
  <2>2. b.stints \subseteq {s \in S : s.cik = c}
    BY <1>1, <2>1 DEF Asset
  <2>3. QED
    BY <2>2
<1> DEFINE bare == {s \in S : s.cik = NoCik}
           loose == BySymbol(bare)
<1>3. \A l \in loose : l.stints \subseteq S
  BY <1>1
<1>4. a \in Attach(ByCompany(S), loose)
  BY DEF Resolve
<1> HIDE DEF loose
<1>5. CASE a \in loose
  BY <1>3, <1>5
<1>6. CASE a \notin loose
  <2>1. PICK b \in ByCompany(S), J \in SUBSET loose :
          a = Asset(b.symbol, b.stints \cup UNION {l.stints : l \in J})
    BY <1>4, <1>6 DEF Attach
  <2>2. a.stints = b.stints \cup UNION {l.stints : l \in J}
    BY <2>1 DEF Asset
  <2>3. QED
    BY <1>2, <1>3, <2>2
<1>7. QED
  BY <1>5, <1>6

(* A row with a company number is in one asset of the company's.            *)
LEMMA OneOfCompany ==
  ASSUME NEW S, NEW a \in ByCompany(S), NEW b \in ByCompany(S),
         NEW s, s \in a.stints, s \in b.stints
  PROVE  a.symbol = b.symbol
<1> DEFINE line(c) == {t \in S : t.cik = c}
           Of(c) == IF Succession(line(c)) THEN {Asset(Latest(line(c)).symbol, line(c))}
                    ELSE BySymbol(line(c))
<1>1. \E c \in {t.cik : t \in S} \ {NoCik} : a \in Of(c)
  BY DEF ByCompany
<1>2. \E c \in {t.cik : t \in S} \ {NoCik} : b \in Of(c)
  BY DEF ByCompany
<1>3. ASSUME NEW c, NEW x \in Of(c), s \in x.stints
      PROVE  /\ s.cik = c
             /\ x.symbol = IF Succession(line(c)) THEN Latest(line(c)).symbol ELSE s.symbol
  BY <1>3 DEF BySymbol, Asset
<1> HIDE DEF Of
<1>4. PICK c, e : a \in Of(c) /\ b \in Of(e)
  BY <1>1, <1>2
<1>5. /\ s.cik = c
      /\ a.symbol = IF Succession(line(c)) THEN Latest(line(c)).symbol ELSE s.symbol
  BY <1>3, <1>4
<1>6. /\ s.cik = e
      /\ b.symbol = IF Succession(line(e)) THEN Latest(line(e)).symbol ELSE s.symbol
  BY <1>3, <1>4
<1>7. QED
  BY <1>5, <1>6

(* A row is in one asset only.                                              *)
LEMMA OneAsset ==
  ASSUME NEW S, NEW a \in Resolve(S), NEW b \in Resolve(S),
         NEW s, s \in a.stints, s \in b.stints
  PROVE  a.symbol = b.symbol
<1> DEFINE bare == {t \in S : t.cik = NoCik}
           loose == BySymbol(bare)
<1>1. ASSUME NEW l \in loose, NEW t \in l.stints PROVE t.cik = NoCik /\ t.symbol = l.symbol
  BY DEF BySymbol, Asset
<1>2. ASSUME NEW x \in ByCompany(S), NEW t \in x.stints PROVE t.cik # NoCik
  <2>1. PICK c \in {r.cik : r \in S} \ {NoCik} :
          LET line == {r \in S : r.cik = c}
          IN  x \in IF Succession(line) THEN {Asset(Latest(line).symbol, line)}
                    ELSE BySymbol(line)
    BY DEF ByCompany
  <2>2. x.stints \subseteq {r \in S : r.cik = c}
    BY <2>1 DEF BySymbol, Asset
  <2>3. QED
    BY <2>2
<1> HIDE DEF loose
<1>3. ASSUME NEW x \in Resolve(S), s \in x.stints
      PROVE  \/ s.cik = NoCik /\ x.symbol = s.symbol
             \/ s.cik # NoCik /\ \E y \in ByCompany(S) : s \in y.stints /\ y.symbol = x.symbol
  <2>1. x \in Attach(ByCompany(S), loose)
    BY DEF Resolve, loose
  <2>2. CASE x \in loose
    BY <1>1, <1>3, <2>2
  <2>3. CASE x \notin loose
    <3> DEFINE Joined(y) ==
                 {l \in loose : /\ l.symbol = y.symbol
                               /\ {p \in ByCompany(S) : p.symbol = l.symbol} = {y}}
    <3>1. PICK y \in ByCompany(S) :
            x = Asset(y.symbol, y.stints \cup UNION {l.stints : l \in Joined(y)})
      BY <2>1, <2>3 DEF Attach
    <3> DEFINE J == Joined(y)
    <3>2. /\ x.symbol = y.symbol /\ x.stints = y.stints \cup UNION {l.stints : l \in J}
          /\ \A l \in J : l \in loose /\ l.symbol = y.symbol
      BY <3>1 DEF Asset
    <3> HIDE DEF J
    <3>3. CASE s \in y.stints
      BY <1>2, <3>2, <3>3
    <3>4. CASE \E l \in J : s \in l.stints
      BY <1>1, <3>2, <3>4
    <3>5. QED
      BY <1>3, <3>2, <3>3, <3>4
  <2>4. QED
    BY <2>2, <2>3
<1>4. QED
  BY <1>3, OneOfCompany

(* The rows of a resolved source: each is a stint's, and a key is one       *)
(* row's only.                                                              *)
LEMMA RowFacts ==
  ASSUME NEW S, Sound(S)
  PROVE  LET R == Rows(Resolve(S))
         IN  /\ \A r \in R : \E s \in S, a \in Resolve(S) : r = RowOf(a, s)
             /\ \A r \in R : /\ r.key[2] <= r.to
                             /\ r.to \in Day \cup {Open}
                             /\ r.asset \in {a.symbol : a \in Resolve(S)}
             /\ \A q, r \in R : q.key = r.key => q = r
<1> DEFINE R == Rows(Resolve(S))
<1>1. \A r \in R : \E s \in S, a \in Resolve(S) : s \in a.stints /\ r = RowOf(a, s)
  BY ResolveRegroups DEF Rows
<1>2. ASSUME NEW a, NEW s \in S
      PROVE  LET r == RowOf(a, s)
             IN  /\ r.key = <<s.symbol, s.from>> /\ r.key[1] = s.symbol
                 /\ r.key[2] = s.from /\ r.to = s.to /\ r.asset = a.symbol
  BY DEF RowOf, Membership
<1>3. \A s \in S : s.from <= s.to /\ s.to \in Day \cup {Open}
  BY DEF Sound, Stint
<1>4. ASSUME NEW q \in R, NEW r \in R, q.key = r.key PROVE q = r
  <2>1. PICK s \in S, a \in Resolve(S) : s \in a.stints /\ q = RowOf(a, s)
    BY <1>1
  <2>2. PICK t \in S, b \in Resolve(S) : t \in b.stints /\ r = RowOf(b, t)
    BY <1>1
  <2>3. s.symbol = t.symbol /\ s.from = t.from
    BY <1>2, <1>4, <2>1, <2>2
  <2>4. s = t
    BY <2>3 DEF Sound
  <2>5. a.symbol = b.symbol
    BY <2>1, <2>2, <2>4, OneAsset
  <2>6. QED
    BY <2>1, <2>2, <2>4, <2>5 DEF RowOf
<1>5. QED
  BY <1>1, <1>2, <1>3, <1>4

-----------------------------------------------------------------------------
(* The stored catalog as values, and the numbers of its graphs: per quarter *)
(* there is a last one, so that the next is new.                            *)
StoreInv ==
  /\ assets = [t \in DOMAIN assets |-> assets[t]]
  /\ members \in [DOMAIN members -> [asset : DOMAIN assets, to : SUBSET Day]]
Numbers(q) == {0} \cup {g.number : g \in {g \in graphs : g.quarter = q}}
GraphsInv ==
  /\ \A g \in graphs : g.number \in Nat
  /\ \A q \in {1, 2} : \E x \in Numbers(q) : \A y \in Numbers(q) : x >= y

(* What any batch of the catalog brings, before the gate looks at it.       *)
Legal(d) ==
  /\ \A r \in d.rows \cup d.closures : r.key[2] <= r.to /\ r.to \in Day \cup {Open}
  /\ \A q, r \in d.rows \cup d.closures : q.key = r.key => q = r
  /\ \A r \in d.closures : r.to # Open

(* A batch that can be POSTed: what the store holds of it is what it says.   *)
Fits(d) ==
  /\ \A t \in d.new \cap DOMAIN assets : assets[t] = d.cik[t]
  /\ \A r \in d.rows :
        /\ r.asset \in d.new \cup DOMAIN assets
        /\ r.to = Open =>
             \/ r.asset \in d.new /\ d.cik[r.asset] # NoCik
             \/ r.asset \in DOMAIN assets /\ assets[r.asset] # NoCik
        /\ r.key \in DOMAIN members =>
              members[r.key].asset = r.asset /\ members[r.key].to = ValidTo(r.to)
  /\ \A r \in d.closures : r.key \in DOMAIN members /\ members[r.key].to \subseteq {r.to}

(* A planned delta, whatever landed since: each resolved name is declared   *)
(* by it or stored, each row is written by it or stored, and then open in   *)
(* both, closed in the store, another asset's, or closed by it.             *)
Numbered(A, new) == [t \in new |-> DescribedBy(CHOOSE a \in A : a.symbol = t)]
Plan(b) == [planned |-> TRUE, checked |-> b.checked, kept |-> b.kept,
            delta |-> b.delta, graph |-> b.graph]
Pending(r) ==
  LET d == batch[r].delta
      R == Rows(Resolve(batch[r].kept))
  IN  /\ batch[r] = Plan(batch[r])
      /\ batch[r].graph.number \in Nat
      /\ Sound(batch[r].kept)
      /\ d.rows \subseteq R
      /\ d.closures \subseteq {s \in R : s.to # Open}
      /\ d.cik = Numbered(Resolve(batch[r].kept), d.new)
      /\ \A a \in Resolve(batch[r].kept) :
            a.symbol \in d.new \cup DOMAIN assets \cup Reference
      /\ \A s \in R : \/ s \in d.rows
                      \/ /\ s.key \in DOMAIN members
                         /\ \/ s.to = Open
                            \/ members[s.key].to # {}
                            \/ members[s.key].asset # s.asset
                            \/ s \in d.closures

(* Requests under way fit the store and come from the same source.          *)
CheckedInv ==
  \A r \in Run : batch[r].checked =>
     /\ batch[r].planned /\ Fits(batch[r].delta)
     /\ \A q \in Run : batch[q].checked => batch[q].kept = batch[r].kept

(* The inductive invariant.                                                 *)
CatalogInv ==
  /\ SourceInv
  /\ StoreInv
  /\ GraphsInv
  /\ CatalogTimeline
  /\ OpenMembershipsHaveCik
  /\ batch = [r \in Run |-> batch[r]]
  /\ \A r \in Run : batch[r].planned => Pending(r)
  /\ CheckedInv

(* A set without two members counts at most one.                            *)
LEMMA CountOne ==
  ASSUME NEW S, \A x, y \in S : x = y PROVE Cardinality(S) <= 1
<1>1. CASE S = {}
  BY <1>1, FS_EmptySet
<1>2. CASE S # {}
  <2>1. PICK x \in S : S = {x}
    BY <1>2
  <2>2. Cardinality(S) = 1
    BY <2>1, FS_Singleton
  <2>3. QED
    BY <2>2
<1>3. QED
  BY <1>1, <1>2

(* What the gate admits fits.                                               *)
LEMMA AcceptedFits ==
  ASSUME StoreInv, NEW d, NEW g, Accepted(d, g) PROVE Fits(d)
<1>1. d.new \cap DOMAIN assets = {} /\ \A r \in d.rows : r.key \notin DOMAIN members
  BY DEF Accepted, AllNew
<1>2. ASSUME NEW r \in d.rows, r.to = Open
      PROVE  \/ r.asset \in d.new /\ d.cik[r.asset] # NoCik
             \/ r.asset \notin d.new /\ assets[r.asset] # NoCik
  <2>1. CikOrClosed(d, r.asset) /\ r \in NewOf(d, r.asset)
    BY DEF Accepted, ShapesOK, NewOf
  <2>2. QED
    BY <1>2, <2>1 DEF CikOrClosed
<1>3. \A r \in d.rows : r.asset \in d.new \cup DOMAIN assets
  BY DEF Accepted, ShapesOK
<1>4. \A r \in d.closures : r.key \in DOMAIN members /\ members[r.key].to = {}
  BY DEF Accepted, CanClose
<1>5. QED
  BY <1>1, <1>2, <1>3, <1>4 DEF Fits

(* A membership before and after a batch lands.                             *)
LEMMA AppendAt ==
  ASSUME StoreInv, NEW d, NEW g, Fits(d), Append(d, g),
         NEW m \in DOMAIN members'
  PROVE  \/ /\ m \in DOMAIN members
            /\ members'[m] = [asset |-> members[m].asset,
                               to |-> members[m].to \cup Closings(d, m)]
         \/ /\ m \notin DOMAIN members
            /\ \E r \in d.rows : /\ r.key = m
                                /\ members'[m] = [asset |-> r.asset, to |-> ValidTo(r.to)]
<1>1. m \in DOMAIN members \cup {r.key : r \in d.rows}
  BY DEF Append
<1>2. CASE m \in DOMAIN members
  <2>1. members'[m] = [members[m] EXCEPT !.to = @ \cup Closings(d, m) \cup Redeclared(d, m)]
    BY <1>2 DEF Append
  <2>2. members[m] \in [asset : DOMAIN assets, to : SUBSET Day]
    BY <1>2 DEF StoreInv
  <2>3. Redeclared(d, m) \subseteq members[m].to
    BY <1>2 DEF Redeclared, Fits
  <2>4. QED
    BY <1>2, <2>1, <2>2, <2>3
<1>3. CASE m \notin DOMAIN members
  <2> DEFINE r == CHOOSE r \in d.rows : r.key = m
  <2>1. r \in d.rows /\ r.key = m
    BY <1>1, <1>3
  <2>2. members'[m] = [asset |-> r.asset, to |-> ValidTo(r.to)]
    BY <1>1, <1>3 DEF Append
  <2>3. QED
    BY <1>3, <2>1, <2>2
<1>4. QED
  BY <1>2, <1>3

(* The store only grows: assets keep their number, memberships their asset  *)
(* and their dates.                                                         *)
LEMMA AppendGrows ==
  ASSUME StoreInv, NEW d, NEW g, Fits(d), Append(d, g)
  PROVE  /\ DOMAIN assets' = DOMAIN assets \cup d.new
         /\ \A t \in DOMAIN assets : assets'[t] = assets[t]
         /\ \A t \in d.new : assets'[t] = d.cik[t]
         /\ DOMAIN members' = DOMAIN members \cup {r.key : r \in d.rows}
         /\ \A m \in DOMAIN members : /\ members'[m].asset = members[m].asset
                                     /\ members[m].to \subseteq members'[m].to
<1>1. \A t \in d.new \cap DOMAIN assets : assets[t] = d.cik[t]
  BY DEF Fits
<1>2. /\ DOMAIN assets' = DOMAIN assets \cup d.new
      /\ \A t \in DOMAIN assets : assets'[t] = assets[t]
      /\ \A t \in d.new : assets'[t] = d.cik[t]
  BY <1>1 DEF Append
<1>3. DOMAIN members' = DOMAIN members \cup {r.key : r \in d.rows}
  BY DEF Append
<1>4. ASSUME NEW m \in DOMAIN members
      PROVE  members'[m].asset = members[m].asset /\ members[m].to \subseteq members'[m].to
  <2>1. members'[m] = [asset |-> members[m].asset,
                       to |-> members[m].to \cup Closings(d, m)]
    BY <1>3, AppendAt
  <2>2. QED
    BY <2>1
<1>5. QED
  BY <1>2, <1>3, <1>4

(* What may be written keeps the catalog in order: a new row is that of a   *)
(* declared or stored asset and a closing meets an open membership.         *)
LEMMA AppendKeeps ==
  ASSUME StoreInv, CatalogTimeline, OpenMembershipsHaveCik,
         NEW d, NEW g, Legal(d), Fits(d), Append(d, g)
  PROVE  (StoreInv /\ CatalogTimeline /\ OpenMembershipsHaveCik)'
<1>1. assets' = [t \in DOMAIN assets' |-> assets'[t]]
  BY DEF Append
<1>2. \A r \in d.rows : r.asset \in DOMAIN assets'
  BY AppendGrows DEF Fits
<1>3. ASSUME NEW m \in DOMAIN members'
      PROVE  /\ members'[m] \in [asset : DOMAIN assets', to : SUBSET Day]
             /\ \A x, y \in members'[m].to : x = y
             /\ \A x \in members'[m].to : m[2] <= x
  <2>1. CASE m \in DOMAIN members
    <3>1. /\ members'[m].asset = members[m].asset
          /\ members'[m].to = members[m].to \cup Closings(d, m)
          /\ members'[m] = [asset |-> members[m].asset,
                             to |-> members[m].to \cup Closings(d, m)]
      BY <2>1, AppendAt
    <3>2. members[m].asset \in DOMAIN assets /\ members[m].to \subseteq Day
      BY <2>1 DEF StoreInv
    <3>3. ASSUME NEW x \in Closings(d, m)
          PROVE  members[m].to \subseteq {x} /\ m[2] <= x /\ x \in Day
      <4>1. PICK r \in d.closures : r.key = m /\ r.to = x
        BY DEF Closings
      <4>2. QED
        BY <4>1 DEF Fits, Legal
    <3>4. \A x, y \in Closings(d, m) : x = y
      BY DEF Closings, Legal
    <3>5. \A x \in members[m].to : m[2] <= x
      BY <2>1 DEF CatalogTimeline
    <3>6. \A x, y \in members[m].to : x = y
      <4>1. CASE members[m].to = {}
        BY <4>1
      <4>2. CASE members[m].to # {}
        <5>1. PICK x \in Day : x \in members[m].to
          BY <3>2, <4>2
        <5>2. Cardinality(members[m].to) <= 1 /\ IsFiniteSet(members[m].to)
          <6>1. 1 \in Int /\ LastDay \in Int
            BY UniverseAssumption
          <6>2. IsFiniteSet(Day)
            BY <6>1, FS_Interval DEF Day
          <6>3. members[m].to \in SUBSET Day
            BY <3>2
          <6>4. IsFiniteSet(members[m].to)
            BY <6>2, <6>3, FS_Subset
          <6>5. QED
            BY <2>1, <6>4 DEF CatalogTimeline
        <5>3. Cardinality(members[m].to) = 1
          BY <5>1, <5>2, FS_EmptySet, FS_CardinalityType
        <5>4. QED
          BY <5>2, <5>3, FS_Singleton
      <4>3. QED
        BY <4>1, <4>2
    <3>7. members[m].asset \in DOMAIN assets'
      BY <3>2, AppendGrows
    <3>8. QED
      BY <3>1, <3>2, <3>3, <3>4, <3>5, <3>6, <3>7
  <2>2. CASE m \notin DOMAIN members
    <3>1. PICK r \in d.rows :
            /\ r.key = m /\ members'[m] = [asset |-> r.asset, to |-> ValidTo(r.to)]
      BY <2>2, AppendAt
    <3>2. ValidTo(r.to) \subseteq {r.to} \cap Day
      BY DEF ValidTo, Legal
    <3>3. r.asset \in DOMAIN assets' /\ r.key[2] <= r.to
      BY <1>2 DEF Legal
    <3>4. QED
      BY <3>1, <3>2, <3>3
  <2>3. QED
    BY <2>1, <2>2
<1>4. \A m \in DOMAIN members' : Cardinality(members'[m].to) <= 1
  BY <1>3, CountOne
<1>5. members' = [m \in DOMAIN members' |-> members'[m]]
  BY DEF Append
<1>6. ASSUME NEW m \in DOMAIN members', members'[m].to = {}
      PROVE  assets'[members'[m].asset] # NoCik
  <2>1. CASE m \in DOMAIN members
    <3>1. members[m].to = {} /\ members'[m].asset = members[m].asset
          /\ members[m].asset \in DOMAIN assets
      BY <1>6, <2>1, AppendGrows DEF StoreInv
    <3>2. QED
      BY <2>1, <3>1, AppendGrows DEF OpenMembershipsHaveCik
  <2>2. CASE m \notin DOMAIN members
    <3>1. PICK r \in d.rows :
            /\ r.key = m /\ members'[m] = [asset |-> r.asset, to |-> ValidTo(r.to)]
      BY <2>2, AppendAt
    <3>2. r.to = Open
      BY <1>6, <3>1 DEF ValidTo
    <3>3. \/ r.asset \in d.new /\ d.cik[r.asset] # NoCik
          \/ r.asset \in DOMAIN assets /\ assets[r.asset] # NoCik
      BY <3>2 DEF Fits
    <3>4. members'[m].asset = r.asset
      BY <3>1
    <3>5. QED
      BY <3>3, <3>4, AppendGrows
  <2>3. QED
    BY <2>1, <2>2
<1>7. StoreInv'
  BY <1>1, <1>3, <1>5 DEF StoreInv
<1>8. CatalogTimeline'
  BY <1>3, <1>4 DEF CatalogTimeline
<1>9. QED
  BY <1>6, <1>7, <1>8 DEF OpenMembershipsHaveCik

-----------------------------------------------------------------------------
(* The source's edits.                                                      *)

(* A row replaced by one of the same symbol and first day.                  *)
LEMMA ReplaceRow ==
  ASSUME NEW S, Sound(S), NEW s \in S, NEW t \in Stint,
         t.symbol = s.symbol, t.from = s.from, t.from <= t.to
  PROVE  Sound((S \ {s}) \cup {t})
BY DEF Sound

(* A row of a symbol that begins after all of its others.                   *)
LEMMA AddRow ==
  ASSUME NEW S, Sound(S), NEW t \in Stint, t.from <= t.to,
         \A s \in S : s.symbol = t.symbol => s.from # t.from
  PROVE  Sound(S \cup {t})
BY DEF Sound

(* A row closed on a day.                                                   *)
LEMMA ClosedRow ==
  ASSUME NEW s \in Stint, NEW day \in Day, NEW c \in Cik \cup {NoCik}
  PROVE  LET row == Closed(s, day, c)
         IN  /\ row \in Stint /\ row.symbol = s.symbol /\ row.from = s.from
             /\ row.to = day
BY DEF Closed, Stint

(* The row that begins today.                                               *)
LEMMA NewRowFacts ==
  ASSUME SourceInv, NEW t \in Symbol, NEW c, NewRow(t, c)
  PROVE  LET row == OpenRow(t, c)
         IN  /\ row \in Stint /\ row.symbol = t /\ row.from = today /\ row.from <= row.to
             /\ \A s \in source : s.symbol = t => s.from # today
<1> DEFINE row == OpenRow(t, c)
<1>1. today \in Day /\ today \in Int /\ LastDay \in Int /\ today <= LastDay
  BY UniverseAssumption DEF SourceInv, Day
<1>2. /\ row = [symbol |-> t, cik |-> c, from |-> today, to |-> Open]
      /\ c \in Cik /\ Open \in Int /\ today <= Open
  BY <1>1 DEF OpenRow, NewRow, Open
<1>3. ASSUME NEW s \in source, s.symbol = t PROVE s.from # today
  <2>1. s.from <= s.to /\ s.to < today /\ s.from \in Day /\ s.to \in Day \cup {Open}
    BY <1>3 DEF NewRow, SourceInv, Sound, Stint
  <2>2. s.from \in Int /\ s.to \in Int
    BY <1>2, <2>1 DEF Day
  <2>3. QED
    BY <1>1, <2>1, <2>2
<1>4. row \in Stint /\ row.symbol = t /\ row.from = today /\ row.from <= row.to
  BY <1>1, <1>2 DEF Stint
<1>5. QED
  BY <1>3, <1>4

(* The source keeps one row per symbol and first day, whatever is edited.   *)
LEMMA SourceStep ==
  ASSUME SourceInv, [Next]_vars PROVE SourceInv'
<1> USE UniverseAssumption
<1>0. /\ today \in Day /\ today \in Int /\ LastDay \in Int /\ today <= LastDay
      /\ Open \in Int /\ today < Open
      /\ \A s \in source : /\ s \in Stint /\ s.from <= s.to /\ s.from <= today
                          /\ s.from \in Int /\ s.to \in Int
  BY DEF SourceInv, Sound, Stint, Day, Open
<1>1. ASSUME NEW t \in Symbol, NEW c \in Cik, Join(t, c) PROVE SourceInv'
  <2>1. source' = source \cup {OpenRow(t, c)} /\ today' = today /\ NewRow(t, c)
    BY <1>1 DEF Join
  <2>2. QED
    BY <1>0, <2>1, NewRowFacts, AddRow DEF SourceInv
<1>2. ASSUME NEW t \in Symbol, Leave(t) PROVE SourceInv'
  <2>1. PICK s \in Current(t), c \in Cik \cup {NoCik} :
          source' = (source \ {s}) \cup {Closed(s, today, c)}
    BY <1>2 DEF Leave
  <2>2. /\ s \in source /\ today' = today
    BY <1>2 DEF Leave, Current
  <2>3. LET row == Closed(s, today, c)
        IN  /\ row \in Stint /\ row.symbol = s.symbol /\ row.from = s.from
            /\ row.from <= row.to
    BY <1>0, <2>2, ClosedRow
  <2>4. QED
    BY <1>0, <2>1, <2>2, <2>3, ReplaceRow DEF SourceInv
<1>3. ASSUME NEW t \in Symbol, NEW u \in Symbol, Rename(t, u) PROVE SourceInv'
  <2>1. PICK s \in Current(t) :
          /\ NewRow(u, s.cik) /\ s.from < today
          /\ source' = (source \ {s}) \cup {Closed(s, today - 1, s.cik), OpenRow(u, s.cik)}
    BY <1>3 DEF Rename
  <2> DEFINE old == Closed(s, today - 1, s.cik)
             new == OpenRow(u, s.cik)
             S == (source \ {s}) \cup {old}
  <2>2. s \in source /\ today' = today
    BY <1>3 DEF Rename, Current
  <2>3. /\ old \in Stint /\ old.symbol = s.symbol /\ old.from = s.from
        /\ old.from <= old.to
    <3>1. today - 1 \in Day /\ s.cik \in Cik \cup {NoCik} /\ s \in Stint
      BY <1>0, <2>1, <2>2 DEF Stint, Day
    <3>2. s.from <= today - 1
      BY <1>0, <2>1, <2>2
    <3>3. QED
      BY <3>1, <3>2, ClosedRow
  <2>4. /\ new \in Stint /\ new.symbol = u /\ new.from = today /\ new.from <= new.to
        /\ \A r \in source : r.symbol = u => r.from # today
    BY <2>1, NewRowFacts
  <2> HIDE DEF old, new
  <2>5. Sound(S)
    BY <2>2, <2>3, ReplaceRow DEF SourceInv
  <2>6. \A r \in S : r.symbol = new.symbol => r.from # new.from
    BY <2>2, <2>3, <2>4
  <2>7. Sound(S \cup {new})
    BY <2>4, <2>5, <2>6, AddRow
  <2>8. source' = S \cup {new} /\ \A r \in S \cup {new} : r.from <= today
    BY <1>0, <2>1, <2>2, <2>3, <2>4 DEF old, new
  <2>9. QED
    BY <1>0, <2>2, <2>7, <2>8 DEF SourceInv
<1>4. ASSUME NEW t \in Symbol, Correct(t) PROVE SourceInv'
  <2>1. PICK s \in source : /\ s.to \in s.from..today - 1
                            /\ source' = (source \ {s}) \cup {[s EXCEPT !.to = @ + 1]}
    BY <1>4 DEF Correct
  <2>2. today' = today
    BY <1>4 DEF Correct
  <2>3. LET row == [s EXCEPT !.to = @ + 1]
        IN  /\ row \in Stint /\ row.symbol = s.symbol /\ row.from = s.from
            /\ row.from <= row.to
    BY <1>0, <2>1 DEF Stint, Day
  <2>4. QED
    BY <1>0, <2>1, <2>2, <2>3, ReplaceRow DEF SourceInv
<1>5. CASE NextDay
  <2>1. today' = today + 1 /\ today < LastDay /\ source' = source
    BY <1>5 DEF NextDay
  <2>2. today' \in Day /\ \A s \in source : s.from <= today'
    BY <1>0, <2>1 DEF Day
  <2>3. QED
    BY <2>1, <2>2 DEF SourceInv
<1>6. CASE UNCHANGED <<source, today>>
  BY <1>6 DEF SourceInv
<1>7. ASSUME \/ \E t \in Symbol : ScoreFirst(t)
             \/ LoadCatalog
             \/ \E r \in Run : PlanDelta(r) \/ CheckDelta(r) \/ PostDelta(r) \/ LoseDelta(r)
             \/ UNCHANGED vars
      PROVE  UNCHANGED <<source, today>>
  BY <1>7 DEF ScoreFirst, LoadCatalog, PlanDelta, CheckDelta, PostDelta, LoseDelta, vars
<1>8. QED
  BY <1>1, <1>2, <1>3, <1>4, <1>5, <1>6, <1>7 DEF Next

-----------------------------------------------------------------------------
(* The number of a delta graph is new in its quarter.                       *)
LEMMA NextNumber ==
  ASSUME GraphsInv, NEW q \in {1, 2}
  PROVE  /\ DeltaGraph(q) \notin graphs
         /\ DeltaGraph(q).number \in Nat /\ DeltaGraph(q).quarter = q
<1> DEFINE N == Numbers(q)
           last == Max(N)
<1>1. /\ last \in N
      /\ \A y \in N : last >= y
  BY DEF GraphsInv, Max
<1>2. N \subseteq Nat
  BY DEF GraphsInv, Numbers
<1>3. DeltaGraph(q) = [quarter |-> q, number |-> 1 + last]
  BY DEF DeltaGraph, Numbers
<1> HIDE DEF last
<1>4. 1 + last \notin N /\ 1 + last \in Nat
  BY <1>1, <1>2
<1>5. \A g \in graphs : g.quarter = q => g.number \in N
  BY DEF Numbers
<1>6. QED
  BY <1>3, <1>4, <1>5

(* One more numbered graph leaves a last one per quarter.                   *)
LEMMA GraphsStep ==
  ASSUME GraphsInv, NEW g, g.number \in Nat, graphs' = graphs \cup {g}
  PROVE  GraphsInv'
<1>1. \A h \in graphs' : h.number \in Nat
  BY DEF GraphsInv
<1>2. ASSUME NEW q \in {1, 2}
      PROVE  \E x \in Numbers(q)' : \A y \in Numbers(q)' : x >= y
  <2>1. PICK x \in Numbers(q) : \A y \in Numbers(q) : x >= y
    BY DEF GraphsInv
  <2>2. Numbers(q) \subseteq Nat
    BY DEF GraphsInv, Numbers
  <2>3. CASE g.quarter = q
    <3>1. Numbers(q)' = Numbers(q) \cup {g.number}
      BY <2>3 DEF Numbers
    <3>2. CASE x >= g.number
      BY <2>1, <3>1, <3>2
    <3>3. CASE ~(x >= g.number)
      <4>1. \A y \in Numbers(q) : g.number >= y
        BY <2>1, <2>2, <3>3
      <4>2. g.number >= g.number
        OBVIOUS
      <4>3. QED
        BY <3>1, <4>1, <4>2
    <3>4. QED
      BY <3>2, <3>3
  <2>4. CASE g.quarter # q
    <3>1. Numbers(q)' = Numbers(q)
      BY <2>4 DEF Numbers
    <3>2. QED
      BY <2>1, <3>1
  <2>5. QED
    BY <2>3, <2>4
<1>3. QED
  BY <1>1, <1>2 DEF GraphsInv

(* A delta as it is planned: what it does about each row.                   *)
LEMMA Planned ==
  ASSUME StoreInv, NEW S, Sound(S)
  PROVE  LET d == Delta(Resolve(S))
             R == Rows(Resolve(S))
         IN  /\ d.rows = {s \in R : s.key \notin DOMAIN members}
             /\ d.closures = Closures(Resolve(S))
             /\ d.new = NewAssets(Resolve(S))
             /\ d.cik = Numbered(Resolve(S), d.new)
             /\ Legal(d)
             /\ d.closures \subseteq {s \in R : s.to # Open}
             /\ \A a \in Resolve(S) : a.symbol \in d.new \cup DOMAIN assets \cup Reference
             /\ \A s \in R : \/ s \in d.rows
                             \/ /\ s.key \in DOMAIN members
                                /\ \/ s.to = Open
                                   \/ members[s.key].to # {}
                                   \/ members[s.key].asset # s.asset
                                   \/ s \in d.closures
<1> DEFINE A == Resolve(S)
           d == Delta(A)
           R == Rows(A)
<1>1. /\ d.rows = NewMemberships(A) /\ d.closures = Closures(A) /\ d.new = NewAssets(A)
      /\ d.cik = Numbered(A, d.new)
  BY DEF Delta, Numbered
<1> HIDE DEF d
<1>2. d.rows = {s \in R : s.key \notin DOMAIN members}
  BY <1>1 DEF NewMemberships
<1>3. d.closures \subseteq {s \in R : s.to # Open}
  BY <1>1 DEF Closures
<1>4. Legal(d)
  <2>1. d.rows \cup d.closures \subseteq R
    BY <1>2, <1>3
  <2>2. QED
    BY <1>3, <2>1, RowFacts DEF Legal
<1>5. \A a \in A : a.symbol \in d.new \cup DOMAIN assets \cup Reference
  BY <1>1 DEF NewAssets
<1>6. ASSUME NEW s \in R, s.key \in DOMAIN members, s.to # Open,
             members[s.key].to = {}, members[s.key].asset = s.asset
      PROVE  s \in d.closures
  <2>1. s.asset \in DOMAIN assets
    BY <1>6 DEF StoreInv
  <2>2. QED
    BY <1>1, <1>6, <2>1 DEF Closures, Stored
<1>7. QED
  BY <1>1, <1>2, <1>3, <1>4, <1>5, <1>6 DEF d

(* What a planned delta says stays true as the store grows.                 *)
LEMMA PendingStays ==
  ASSUME NEW r \in Run, Pending(r), batch'[r] = batch[r],
         DOMAIN assets \subseteq DOMAIN assets', DOMAIN members \subseteq DOMAIN members',
         \A m \in DOMAIN members : /\ members'[m].asset = members[m].asset
                                 /\ members[m].to \subseteq members'[m].to
  PROVE  Pending(r)'
<1> DEFINE d == batch[r].delta
           R == Rows(Resolve(batch[r].kept))
<1>1. \A s \in R : \/ s \in d.rows
                  \/ /\ s.key \in DOMAIN members'
                     /\ \/ s.to = Open
                        \/ members'[s.key].to # {}
                        \/ members'[s.key].asset # s.asset
                        \/ s \in d.closures
  <2>1. TAKE s \in R
  <2>2. CASE s \in d.rows
    BY <2>2
  <2>3. CASE s \notin d.rows
    <3>1. /\ s.key \in DOMAIN members
          /\ \/ s.to = Open
             \/ members[s.key].to # {}
             \/ members[s.key].asset # s.asset
             \/ s \in d.closures
      BY <2>3 DEF Pending
    <3>2. s.key \in DOMAIN members' /\ members'[s.key].asset = members[s.key].asset
          /\ members[s.key].to \subseteq members'[s.key].to
      BY <3>1
    <3>3. QED
      BY <3>1, <3>2
  <2>4. QED
    BY <2>2, <2>3
<1>2. /\ batch[r].graph.number \in Nat /\ Sound(batch[r].kept)
      /\ d.rows \subseteq R /\ d.closures \subseteq {s \in R : s.to # Open}
      /\ d.cik = Numbered(Resolve(batch[r].kept), d.new)
      /\ \A a \in Resolve(batch[r].kept) : a.symbol \in d.new \cup DOMAIN assets' \cup Reference
  BY DEF Pending
<1>3. QED
  BY <1>1, <1>2 DEF Pending

-----------------------------------------------------------------------------
(* A request of the same rows that lands first leaves the other one fitting. *)
LEMMA FitsStays ==
  ASSUME StoreInv, NEW q \in Run, NEW r \in Run, Pending(q), Pending(r),
         Fits(batch[q].delta), Fits(batch[r].delta), batch[q].kept = batch[r].kept,
         batch'[r] = batch[r], NEW g, Append(batch[q].delta, g)
  PROVE  Fits(batch[r].delta)'
<1> DEFINE d == batch[r].delta
           e == batch[q].delta
           A == Resolve(batch[r].kept)
           R == Rows(A)
<1>1. /\ d.rows \cup d.closures \cup e.rows \cup e.closures \subseteq R
      /\ d.cik = Numbered(A, d.new) /\ e.cik = Numbered(A, e.new)
      /\ \A s \in e.closures : s.to # Open
  BY DEF Pending
<1>2. \A s, t \in R : s.key = t.key => s = t
  BY RowFacts DEF Pending
<1>3. \A t \in d.new \cap e.new : d.cik[t] = e.cik[t]
  BY <1>1 DEF Numbered
<1> HIDE DEF A, R, d
<1>4. /\ DOMAIN assets' = DOMAIN assets \cup e.new
      /\ \A t \in DOMAIN assets : assets'[t] = assets[t]
      /\ \A t \in e.new : assets'[t] = e.cik[t]
      /\ DOMAIN members' = DOMAIN members \cup {s.key : s \in e.rows}
  BY AppendGrows
<1>5. ASSUME NEW m \in DOMAIN members'
      PROVE  \/ /\ m \in DOMAIN members
                /\ members'[m] = [asset |-> members[m].asset,
                                   to |-> members[m].to \cup Closings(e, m)]
             \/ /\ m \notin DOMAIN members
                /\ \E s \in e.rows : /\ s.key = m
                                    /\ members'[m] = [asset |-> s.asset, to |-> ValidTo(s.to)]
  BY AppendAt
<1> HIDE DEF e
<1>6. Fits(d)
  BY DEF d
<1>7. \A s \in R : Closings(e, s.key) \subseteq ValidTo(s.to)
  BY <1>1, <1>2 DEF Closings, ValidTo
<1>8. \A t \in d.new \cap DOMAIN assets' : assets'[t] = d.cik[t]
  BY <1>3, <1>4, <1>6 DEF Fits
<1>9. ASSUME NEW s \in d.rows
      PROVE  /\ s.asset \in d.new \cup DOMAIN assets'
             /\ s.to = Open =>
                  \/ s.asset \in d.new /\ d.cik[s.asset] # NoCik
                  \/ s.asset \in DOMAIN assets' /\ assets'[s.asset] # NoCik
             /\ s.key \in DOMAIN members' =>
                   members'[s.key].asset = s.asset /\ members'[s.key].to = ValidTo(s.to)
  <2>1. /\ s.asset \in d.new \cup DOMAIN assets
        /\ s.to = Open =>
             \/ s.asset \in d.new /\ d.cik[s.asset] # NoCik
             \/ s.asset \in DOMAIN assets /\ assets[s.asset] # NoCik
        /\ s.key \in DOMAIN members =>
              members[s.key].asset = s.asset /\ members[s.key].to = ValidTo(s.to)
    BY <1>6 DEF Fits
  <2>2. s \in R
    BY <1>1
  <2>3. CASE s.key \in DOMAIN members
    <3>1. members'[s.key] = [asset |-> members[s.key].asset,
                             to |-> members[s.key].to \cup Closings(e, s.key)]
      BY <1>4, <1>5, <2>3
    <3>2. QED
      BY <1>4, <1>7, <2>1, <2>2, <2>3, <3>1
  <2>4. CASE s.key \in DOMAIN members' /\ s.key \notin DOMAIN members
    <3>1. PICK t \in e.rows : /\ t.key = s.key
                             /\ members'[s.key] = [asset |-> t.asset, to |-> ValidTo(t.to)]
      BY <1>5, <2>4
    <3>2. t = s
      BY <1>1, <1>2, <2>2, <3>1
    <3>3. QED
      BY <1>4, <2>1, <3>1, <3>2
  <2>5. CASE s.key \notin DOMAIN members'
    BY <1>4, <2>1, <2>5
  <2>6. QED
    BY <2>3, <2>4, <2>5
<1>10. ASSUME NEW s \in d.closures
       PROVE  s.key \in DOMAIN members' /\ members'[s.key].to \subseteq {s.to}
  <2>1. s \in R /\ s.key \in DOMAIN members /\ members[s.key].to \subseteq {s.to}
    BY <1>1, <1>6 DEF Fits
  <2>2. members'[s.key] = [asset |-> members[s.key].asset,
                           to |-> members[s.key].to \cup Closings(e, s.key)]
    BY <1>4, <1>5, <2>1
  <2>3. Closings(e, s.key) \subseteq {s.to}
    BY <1>7, <2>1 DEF ValidTo
  <2>4. QED
    BY <1>4, <2>1, <2>2, <2>3
<1>11. batch'[r].delta = d
  BY DEF d
<1>12. QED
  BY <1>8, <1>9, <1>10, <1>11 DEF Fits

(* A batch that lands on the catalog, seen by the plans that wait.          *)
LEMMA LandKeeps ==
  ASSUME CatalogInv, [Next]_vars, NEW d, NEW g, Legal(d), g.number \in Nat,
         Fits(d), Append(d, g), CheckedInv',
         batch' = [r \in Run |-> batch'[r]],
         \A r \in Run : batch'[r].planned => batch'[r] = batch[r]
  PROVE  CatalogInv'
<1>1. (StoreInv /\ CatalogTimeline /\ OpenMembershipsHaveCik)'
  BY AppendKeeps DEF CatalogInv
<1>2. SourceInv'
  BY SourceStep DEF CatalogInv
<1>3. GraphsInv'
  BY GraphsStep DEF CatalogInv, Append
<1>4. ASSUME NEW r \in Run, batch'[r].planned PROVE Pending(r)'
  <2>1. batch'[r] = batch[r] /\ Pending(r)
    BY <1>4 DEF CatalogInv
  <2>2. QED
    BY <2>1, AppendGrows, PendingStays DEF CatalogInv
<1>5. QED
  BY <1>1, <1>2, <1>3, <1>4 DEF CatalogInv

(* A step that leaves the store alone, and what it plans.                   *)
LEMMA PlanKeeps ==
  ASSUME CatalogInv, [Next]_vars, UNCHANGED <<assets, members, graphs>>, CheckedInv',
         batch' = [r \in Run |-> batch'[r]],
         \A r \in Run : batch'[r].planned => batch'[r] = batch[r] \/ Pending(r)'
  PROVE  CatalogInv'
<1>1. (StoreInv /\ CatalogTimeline /\ OpenMembershipsHaveCik)'
  BY DEF CatalogInv, StoreInv, CatalogTimeline, OpenMembershipsHaveCik
<1>2. SourceInv'
  BY SourceStep DEF CatalogInv
<1>3. GraphsInv'
  BY DEF CatalogInv, GraphsInv, Numbers
<1>4. ASSUME NEW r \in Run, batch'[r].planned PROVE Pending(r)'
  <2>1. CASE batch'[r] = batch[r]
    <3>1. Pending(r)
      BY <1>4, <2>1 DEF CatalogInv
    <3>2. QED
      BY <2>1, <3>1, PendingStays
  <2>2. QED
    BY <1>4, <2>1
<1>5. QED
  BY <1>1, <1>2, <1>3, <1>4 DEF CatalogInv

(* A run that ends without writing.                                         *)
LEMMA EndKeeps ==
  ASSUME CatalogInv, [Next]_vars, UNCHANGED <<assets, members, graphs>>,
         batch' = [q \in Run |-> batch'[q]], NEW r \in Run, batch'[r] = NoBatch,
         \A q \in Run : q # r => batch'[q] = batch[q]
  PROVE  CatalogInv'
<1>1. \A q \in Run : batch'[q].planned \/ batch'[q].checked => batch'[q] = batch[q]
  BY DEF NoBatch
<1>2. CheckedInv'
  BY <1>1 DEF CatalogInv, CheckedInv, Fits
<1>3. QED
  BY <1>1, <1>2, PlanKeeps

(* Every edit, plan, check and request keeps the invariant.                 *)
LEMMA CatalogStep == ASSUME CatalogInv, [Next]_vars PROVE CatalogInv'
<1> DEFINE Same == batch' = batch
<1>1. batch = [r \in Run |-> batch[r]]
  BY DEF CatalogInv
<1>2. Quarter(today) \in {1, 2}
  BY DEF Quarter
<1>3. Sound(KeepStints(source))
  BY DEF CatalogInv, SourceInv, Sound, KeepStints
<1>4. CASE UNCHANGED <<assets, members, graphs, batch>>
  <2>1. CheckedInv'
    BY <1>4 DEF CatalogInv, CheckedInv, Fits
  <2>2. QED
    BY <1>1, <1>4, <2>1, PlanKeeps
<1>5. ASSUME \/ \E t \in Symbol, c \in Cik : Join(t, c)
             \/ \E t \in Symbol : Leave(t) \/ Correct(t) \/ ScoreFirst(t)
             \/ \E t, u \in Symbol : Rename(t, u)
             \/ NextDay
             \/ UNCHANGED vars
      PROVE  UNCHANGED <<assets, members, graphs, batch>>
  BY <1>5 DEF Join, Leave, Correct, Rename, NextDay, ScoreFirst, store, vars
<1>6. CASE LoadCatalog
  <2> DEFINE A == Resolve(KeepStints(source))
             d == Catalog(A)
             g == Base(Quarter(today))
  <2>1. Accepted(d, g) /\ Append(d, g) /\ batch' = batch /\ \A r \in Run : ~batch[r].checked
    BY <1>6 DEF LoadCatalog
  <2>2. Legal(d) /\ g.number \in Nat
    <3>1. d.rows = Rows(A) /\ d.closures = {} /\ g.number = 0
      BY DEF Catalog, Base
    <3>2. QED
      BY <1>3, <3>1, RowFacts DEF Legal
  <2> HIDE DEF d, g
  <2>3. CheckedInv' /\ Fits(d)
    BY <2>1, AcceptedFits DEF CatalogInv, CheckedInv
  <2>4. QED
    BY <1>1, <2>1, <2>2, <2>3, LandKeeps
<1>7. ASSUME NEW r \in Run, PlanDelta(r) PROVE CatalogInv'
  <2> DEFINE kept == KeepStints(source)
             d == Delta(Resolve(kept))
             g == DeltaGraph(Quarter(today))
  <2>1. /\ batch' = [batch EXCEPT ![r] =
               [planned |-> TRUE, checked |-> FALSE, kept |-> kept, delta |-> d, graph |-> g]]
        /\ UNCHANGED <<assets, members, graphs>>
    BY <1>7 DEF PlanDelta, store
  <2>2. g.number \in Nat
    BY <1>2, NextNumber DEF CatalogInv
  <2> HIDE DEF kept, g
  <2>3. /\ batch'[r].kept = kept /\ batch'[r].delta = d /\ batch'[r].graph = g
        /\ ~batch'[r].checked /\ batch'[r] = Plan(batch'[r])
        /\ \A q \in Run : q # r => batch'[q] = batch[q]
        /\ batch' = [q \in Run |-> batch'[q]]
    BY <1>1, <2>1 DEF Plan
  <2>4. Sound(kept) /\ StoreInv
    BY <1>3 DEF kept, CatalogInv
  <2>5. Pending(r)'
    <3> DEFINE R == Rows(Resolve(kept))
    <3>1. /\ d.rows \subseteq R /\ d.closures \subseteq {s \in R : s.to # Open}
          /\ d.cik = Numbered(Resolve(kept), d.new)
          /\ \A a \in Resolve(kept) : a.symbol \in d.new \cup DOMAIN assets \cup Reference
          /\ \A s \in R : \/ s \in d.rows
                          \/ /\ s.key \in DOMAIN members
                             /\ \/ s.to = Open
                                \/ members[s.key].to # {}
                                \/ members[s.key].asset # s.asset
                                \/ s \in d.closures
      BY <2>4, Planned
    <3> HIDE DEF d
    <3>2. QED
      BY <2>1, <2>2, <2>3, <2>4, <3>1 DEF Pending
  <2> HIDE DEF d
  <2>6. CheckedInv'
    <3>1. \A q \in Run : batch'[q].checked => q # r /\ batch[q].checked /\ batch'[q] = batch[q]
      BY <2>3
    <3>2. \A q \in Run : batch'[q].checked => batch'[q].planned /\ Fits(batch[q].delta)'
      BY <2>1, <3>1 DEF CatalogInv, CheckedInv, Fits
    <3>3. QED
      BY <3>1, <3>2 DEF CatalogInv, CheckedInv
  <2>7. QED
    BY <2>1, <2>3, <2>5, <2>6, PlanKeeps
<1>8. ASSUME NEW r \in Run, CheckDelta(r) PROVE CatalogInv'
  <2>1. /\ batch[r].planned /\ SameSource(r) /\ UNCHANGED <<assets, members, graphs>>
        /\ batch' = [batch EXCEPT ![r] =
                       IF Admitted(r) THEN [@ EXCEPT !.checked = TRUE] ELSE NoBatch]
    BY <1>8 DEF CheckDelta, store
  <2>2. /\ batch' = [q \in Run |-> batch'[q]]
        /\ \A q \in Run : q # r => batch'[q] = batch[q]
    BY <1>1, <2>1
  <2>3. CASE Admitted(r)
    <3>1. batch'[r] = [batch[r] EXCEPT !.checked = TRUE]
      BY <1>1, <2>1, <2>3
    <3>2. /\ batch'[r].planned /\ batch'[r].kept = batch[r].kept
          /\ batch'[r].delta = batch[r].delta /\ batch'[r].graph = batch[r].graph
      BY <2>1, <3>1 DEF CatalogInv, Pending, Plan
    <3>3. Pending(r)'
      <4>1. batch'[r] = Plan(batch'[r])
        BY <2>1, <3>1 DEF CatalogInv, Pending, Plan
      <4>2. QED
        BY <2>1, <3>2, <4>1 DEF CatalogInv, Pending
    <3>4. Fits(batch[r].delta)
      BY <2>3, AcceptedFits DEF CatalogInv, Admitted
    <3>5. CheckedInv'
      <4>1. \A q \in Run : batch'[q].checked =>
              /\ batch'[q].planned /\ batch'[q].delta = batch[q].delta
              /\ batch'[q].kept = batch[r].kept /\ Fits(batch[q].delta)
        BY <2>1, <2>2, <3>2, <3>4 DEF CatalogInv, CheckedInv, SameSource
      <4>2. QED
        BY <2>1, <4>1 DEF CheckedInv, Fits
    <3>6. QED
      BY <2>1, <2>2, <3>3, <3>5, PlanKeeps
  <2>4. CASE ~Admitted(r)
    <3>1. batch'[r] = NoBatch
      BY <1>1, <2>1, <2>4
    <3>2. QED
      BY <2>1, <2>2, <3>1, EndKeeps
  <2>5. QED
    BY <2>3, <2>4
<1>9. ASSUME NEW r \in Run, LoseDelta(r) PROVE CatalogInv'
  <2>1. batch' = [batch EXCEPT ![r] = NoBatch] /\ UNCHANGED <<assets, members, graphs>>
    BY <1>9 DEF LoseDelta, store
  <2>2. /\ batch' = [q \in Run |-> batch'[q]] /\ batch'[r] = NoBatch
        /\ \A q \in Run : q # r => batch'[q] = batch[q]
    BY <1>1, <2>1
  <2>3. QED
    BY <2>1, <2>2, EndKeeps
<1>10. ASSUME NEW r \in Run, PostDelta(r) PROVE CatalogInv'
  <2> DEFINE d == batch[r].delta
             g == batch[r].graph
  <2>1. /\ batch' = [batch EXCEPT ![r] = NoBatch] /\ batch[r].checked /\ Append(d, g)
    BY <1>10 DEF PostDelta
  <2>2. /\ batch' = [q \in Run |-> batch'[q]] /\ batch'[r] = NoBatch
        /\ \A q \in Run : q # r => batch'[q] = batch[q]
    BY <1>1, <2>1
  <2>3. /\ batch[r].planned /\ Fits(d) /\ Pending(r)
        /\ \A q \in Run : batch[q].checked =>
             /\ batch[q].planned /\ Fits(batch[q].delta) /\ Pending(q)
             /\ batch[q].kept = batch[r].kept
    BY <2>1 DEF CatalogInv, CheckedInv
  <2>4. Legal(d) /\ g.number \in Nat
    <3>1. d.rows \cup d.closures \subseteq Rows(Resolve(batch[r].kept))
      BY <2>3 DEF Pending
    <3>2. QED
      BY <2>3, <3>1, RowFacts DEF Pending, Legal
  <2>5. \A q \in Run : batch'[q].planned => q # r /\ batch'[q] = batch[q]
    BY <2>2 DEF NoBatch
  <2>6. CheckedInv'
    <3>1. ASSUME NEW q \in Run, batch'[q].checked
          PROVE  /\ batch'[q].planned /\ Fits(batch[q].delta)'
                 /\ batch'[q].kept = batch[r].kept
      <4>1. q # r /\ batch'[q] = batch[q]
        BY <2>2, <3>1 DEF NoBatch
      <4>2. QED
        BY <2>1, <2>3, <3>1, <4>1, FitsStays DEF CatalogInv
    <3>2. QED
      BY <3>1 DEF CheckedInv
  <2>7. QED
    BY <2>1, <2>2, <2>3, <2>4, <2>5, <2>6, LandKeeps
<1>11. QED
  BY <1>4, <1>5, <1>6, <1>7, <1>8, <1>9, <1>10 DEF Next

(* So does the catalog before its first load.                               *)
LEMMA CatalogStart == Init => CatalogInv
<1> SUFFICES ASSUME Init PROVE CatalogInv
  OBVIOUS
<1>1. /\ source = {} /\ today = 1 /\ DOMAIN members = {} /\ graphs = {}
      /\ members = [m \in {} |-> {}]
      /\ batch = [r \in Run |-> NoBatch]
      /\ assets = [t \in Reference |-> assets[t]] /\ DOMAIN assets = Reference
  BY DEF Init
<1>2. SourceInv
  BY <1>1, UniverseAssumption DEF SourceInv, Sound, Day
<1>3. StoreInv
  BY <1>1 DEF StoreInv
<1>4. GraphsInv
  <2>1. \A q \in {1, 2} : Numbers(q) = {0}
    BY <1>1 DEF Numbers
  <2>2. QED
    BY <1>1, <2>1 DEF GraphsInv
<1>5. CatalogTimeline /\ OpenMembershipsHaveCik
  BY <1>1 DEF CatalogTimeline, OpenMembershipsHaveCik
<1>6. batch = [r \in Run |-> batch[r]] /\ \A r \in Run : ~batch[r].planned /\ ~batch[r].checked
  BY <1>1 DEF NoBatch
<1>7. QED
  BY <1>2, <1>3, <1>4, <1>5, <1>6 DEF CatalogInv, CheckedInv

(* It is an invariant of the specification.                                 *)
LEMMA CatalogInductive == Spec => []CatalogInv
BY CatalogStart, CatalogStep, PTL DEF Spec

-----------------------------------------------------------------------------
(* However many deltas overlapped or landed twice, when those between check   *)
(* and POST came of the same rows, a stored membership belongs to a stored    *)
(* asset and closed at most once, not before it opened                      *)
(* (kg_store/universe.py write_delta, kg_store/gate.py check 7 and write).   *)
THEOREM TimelineHolds == Spec => []CatalogTimeline
<1>1. CatalogInv => CatalogTimeline
  BY DEF CatalogInv
<1>2. QED
  BY <1>1, CatalogInductive, PTL

(* No stored asset without a CIK has an open membership, although AssetShape*)
(* is evaluated on the assets of a batch only (kg_store/gate.py _check_shapes).*)
THEOREM OpenHasCik == Spec => []OpenMembershipsHaveCik
<1>1. CatalogInv => OpenMembershipsHaveCik
  BY DEF CatalogInv
<1>2. QED
  BY <1>1, CatalogInductive, PTL

(* A delta with nothing to write and no drift means that the catalog is what*)
(* the source describes, membership by membership (_classify, Drift).       *)
THEOREM SilenceIsSync == Spec => []SilenceMeansInSync
<1>1. ASSUME CatalogInv PROVE SilenceMeansInSync
  <2> DEFINE A == Resolve(KeepStints(source))
             d == Delta(A)
  <2> SUFFICES ASSUME Plannable, Silent(d) PROVE InSync(A)
    BY DEF SilenceMeansInSync
  <2>1. /\ NewAssets(A) = {} /\ NewMemberships(A) = {} /\ Closures(A) = {}
        /\ DifferingAssets(A) = {} /\ DifferingRows(A) = {}
        /\ DOMAIN assets \subseteq {a.symbol : a \in A} \cup Reference
        /\ DOMAIN members \subseteq {r.key : r \in Rows(A)}
    <3>1. /\ d.new = NewAssets(A) /\ d.rows = NewMemberships(A)
          /\ d.closures = Closures(A) /\ d.drift = Drift(A)
      BY DEF Delta
    <3>2. /\ d.new = {} /\ d.rows = {} /\ d.closures = {}
          /\ Drift(A).assets = {} /\ Drift(A).rows = {}
      BY <3>1 DEF Silent, Actionable
    <3>3. /\ DifferingAssets(A)
               \cup (DOMAIN assets \ ({a.symbol : a \in A} \cup Reference)) = {}
          /\ DifferingRows(A) \cup (DOMAIN members \ {r.key : r \in Rows(A)}) = {}
      BY <3>2 DEF Drift
    <3>4. QED
      BY <3>1, <3>2, <3>3
  <2> HIDE DEF A
  <2>2. {a.symbol : a \in A} \ Reference = DOMAIN assets \ Reference
    BY <2>1 DEF NewAssets
  <2>3. \A a \in A : a.symbol \notin Reference => assets[a.symbol] = DescribedBy(a)
    BY <2>1, <2>2 DEF DifferingAssets
  <2>4. DOMAIN members = {r.key : r \in Rows(A)}
    BY <2>1 DEF NewMemberships
  <2>5. ASSUME NEW r \in Rows(A)
        PROVE  members[r.key] = [asset |-> r.asset, to |-> ValidTo(r.to)]
    <3>1. r.key \in DOMAIN members
      BY <2>4
    <3>2. /\ r.asset \in DOMAIN assets /\ members[r.key].asset = r.asset
          /\ members[r.key].to \in {{}, ValidTo(r.to)}
      BY <2>1, <3>1 DEF DifferingRows, ValidTo
    <3>3. members[r.key].to = {} => r.to = Open
      BY <2>1, <3>1, <3>2 DEF Closures, Stored
    <3>4. members[r.key].to = ValidTo(r.to)
      BY <3>2, <3>3 DEF ValidTo
    <3>5. members[r.key] \in [asset : DOMAIN assets, to : SUBSET Day]
      BY <1>1, <3>1 DEF CatalogInv, StoreInv
    <3>6. QED
      BY <3>2, <3>4, <3>5
  <2>6. QED
    BY <2>2, <2>3, <2>4, <2>5 DEF InSync
<1>2. QED
  BY <1>1, CatalogInductive, PTL

-----------------------------------------------------------------------------
(* The gate refuses a delta written at once only when it carries an asset   *)
(* with statements, an open membership of an asset without a CIK, or a new  *)
(* asset with neither (write_delta, the gate's checks 2, 5, 6 and 7).       *)
THEOREM FreshPlansLand == Spec => []FreshDeltasLand
<1>1. ASSUME CatalogInv PROVE FreshDeltasLand
  <2> DEFINE S == KeepStints(source)
             A == Resolve(S)
             d == Delta(A)
             g == DeltaGraph(Quarter(today))
  <2> SUFFICES ASSUME Plannable, ~Blocked(d) PROVE Accepted(d, g)
    BY DEF FreshDeltasLand
  <2>1. Sound(S) /\ StoreInv
    BY <1>1 DEF CatalogInv, SourceInv, Sound, KeepStints
  <2>2. /\ d.rows = {s \in Rows(A) : s.key \notin DOMAIN members}
        /\ d.closures = Closures(A) /\ d.new = NewAssets(A) /\ Legal(d)
    BY <2>1, Planned
  <2>3. \A r \in Rows(A) : r.asset \in {a.symbol : a \in A}
    BY <2>1, RowFacts
  <2> HIDE DEF d, A, S
  <2>4. \A r \in d.rows : r.asset \in d.new \cup DOMAIN assets
    BY <2>2, <2>3 DEF NewAssets, Plannable
  <2>5. ASSUME NEW t \in d.new PROVE CikOrClosed(d, t)
    BY DEF Blocked, CikOrClosed
  <2>6. ASSUME NEW r \in d.rows, r.asset \notin d.new PROVE CikOrClosed(d, r.asset)
    <3> DEFINE t == r.asset
    <3>1. CASE assets[t] # NoCik
      BY <2>6, <3>1 DEF CikOrClosed
    <3>2. CASE assets[t] = NoCik
      <4>1. r \in NewOf(d, t) /\ \A q \in NewOf(d, t) : q.to # Open
        BY <2>6, <3>2 DEF NewOf, Blocked
      <4>2. \A m \in DOMAIN members : members[m].asset = t => members[m].to # {}
        BY <1>1, <3>2 DEF CatalogInv, OpenMembershipsHaveCik
      <4>3. QED
        BY <4>1, <4>2 DEF CikOrClosed
    <3>3. QED
      BY <3>1, <3>2
  <2>7. ShapesOK(d)
    BY <2>4, <2>5, <2>6 DEF ShapesOK
  <2>8. GraphFree(g)
    BY <1>1, NextNumber DEF CatalogInv, GraphFree, Quarter
  <2>9. \A r \in d.closures : CanClose(r)
    BY <2>2 DEF Closures, Stored, Legal, CanClose
  <2>10. AllNew(d)
    BY <2>2 DEF NewAssets, AllNew, Blocked
  <2>11. QED
    BY <2>7, <2>8, <2>9, <2>10 DEF Accepted
<1>2. QED
  BY <1>1, CatalogInductive, PTL

(* What a landed delta leaves to do for the source it was computed from:    *)
(* nothing, whatever landed between its plan and its write.                 *)
LEMMA NothingLeft ==
  ASSUME CatalogInv, NEW r \in Run, batch[r].checked, NEW S, S = batch[r].kept,
         Append(batch[r].delta, batch[r].graph)
  PROVE  /\ \A a \in Resolve(S) : a.symbol \in DOMAIN assets' \cup Reference
         /\ \A s \in Rows(Resolve(S)) :
               /\ s.key \in DOMAIN members'
               /\ \/ members'[s.key].asset # s.asset
                  \/ members'[s.key].to # {}
                  \/ s.to = Open
<1> DEFINE d == batch[r].delta
           g == batch[r].graph
           A == Resolve(S)
           R == Rows(A)
<1>1. /\ StoreInv /\ Sound(S) /\ Fits(d)
      /\ d.rows \subseteq R
      /\ \A a \in A : a.symbol \in d.new \cup DOMAIN assets \cup Reference
      /\ \A s \in R : \/ s \in d.rows
                      \/ /\ s.key \in DOMAIN members
                         /\ \/ s.to = Open
                            \/ members[s.key].to # {}
                            \/ members[s.key].asset # s.asset
                            \/ s \in d.closures
  BY DEF CatalogInv, CheckedInv, Pending
<1>2. \A p, q \in R : p.key = q.key => p = q
  BY <1>1, RowFacts
<1> HIDE DEF d, g, A
<1>3. Append(d, g)
  BY DEF d, g
<1>4. /\ DOMAIN assets' = DOMAIN assets \cup d.new
      /\ DOMAIN members' = DOMAIN members \cup {s.key : s \in d.rows}
      /\ \A m \in DOMAIN members : /\ members'[m].asset = members[m].asset
                                  /\ members[m].to \subseteq members'[m].to
  BY <1>1, <1>3, AppendGrows
<1>5. ASSUME NEW s \in R, s \in d.rows
      PROVE  s.key \in DOMAIN members' /\ (members'[s.key].to # {} \/ s.to = Open)
  <2>1. s.key \in DOMAIN members'
    BY <1>4, <1>5
  <2>2. CASE s.key \in DOMAIN members
    <3>1. members[s.key].to = ValidTo(s.to)
      BY <1>1, <1>5, <2>2 DEF Fits
    <3>2. QED
      BY <1>4, <2>1, <2>2, <3>1 DEF ValidTo
  <2>3. CASE s.key \notin DOMAIN members
    <3>1. PICK q \in d.rows : /\ q.key = s.key
                              /\ members'[s.key] = [asset |-> q.asset, to |-> ValidTo(q.to)]
      BY <1>1, <1>3, <2>1, <2>3, AppendAt
    <3>2. q = s
      BY <1>1, <1>2, <3>1
    <3>3. QED
      BY <2>1, <3>1, <3>2 DEF ValidTo
  <2>4. QED
    BY <2>2, <2>3
<1>6. ASSUME NEW s \in R, s \notin d.rows
      PROVE  /\ s.key \in DOMAIN members'
             /\ \/ members'[s.key].asset # s.asset
                \/ members'[s.key].to # {}
                \/ s.to = Open
  <2>1. /\ s.key \in DOMAIN members
        /\ \/ s.to = Open
           \/ members[s.key].to # {}
           \/ members[s.key].asset # s.asset
           \/ s \in d.closures
    BY <1>1, <1>6
  <2>2. /\ s.key \in DOMAIN members' /\ members'[s.key].asset = members[s.key].asset
        /\ members[s.key].to \subseteq members'[s.key].to
    BY <1>4, <2>1
  <2>3. CASE s \in d.closures
    <3>1. members'[s.key] = [asset |-> members[s.key].asset,
                             to |-> members[s.key].to \cup Closings(d, s.key)]
      BY <1>1, <1>3, <2>1, <2>2, AppendAt
    <3>2. s.to \in Closings(d, s.key)
      BY <2>3 DEF Closings
    <3>3. QED
      BY <2>2, <3>1, <3>2
  <2>4. QED
    BY <2>1, <2>2, <2>3
<1>7. \A a \in A : a.symbol \in DOMAIN assets' \cup Reference
  BY <1>1, <1>4
<1>8. QED
  BY <1>5, <1>6, <1>7 DEF A

(* A re-run is idempotent: once a delta has landed the next plan of the     *)
(* same source has nothing to write, although other deltas may have landed  *)
(* in between (PLAN.md, Work item 28; write_delta).                         *)
THEOREM RepeatsAreEmpty == Spec => RepeatIsEmpty
<1>1. ASSUME CatalogInv
      PROVE  \A r \in Run :
               PostDelta(r) /\ KeepStints(source) = batch[r].kept
                 => ~Actionable(Delta(Resolve(KeepStints(source))))'
  <2> SUFFICES ASSUME NEW r \in Run, PostDelta(r), KeepStints(source) = batch[r].kept
               PROVE  ~Actionable(Delta(Resolve(KeepStints(source))))'
    OBVIOUS
  <2>1. batch[r].checked
    BY DEF PostDelta
  <2>2. Append(batch[r].delta, batch[r].graph) /\ source' = source
    BY DEF PostDelta
  <2>3. PICK S : S = batch[r].kept
    OBVIOUS
  <2>4. KeepStints(source') = S
    BY <1>1, <2>2, <2>3
  <2> DEFINE A == Resolve(S)
  <2>6. /\ \A a \in A : a.symbol \in DOMAIN assets' \cup Reference
        /\ \A s \in Rows(A) : /\ s.key \in DOMAIN members'
                              /\ \/ members'[s.key].asset # s.asset
                                 \/ members'[s.key].to # {}
                                 \/ s.to = Open
    BY <1>1, <2>1, <2>2, <2>3, NothingLeft
  <2> HIDE DEF A
  <2>7. NewAssets(A)' = {}
    BY <2>6 DEF NewAssets
  <2>8. NewMemberships(A)' = {}
    BY <2>6 DEF NewMemberships
  <2>9. Closures(A)' = {}
    BY <2>6 DEF Closures
  <2>10. ~Actionable(Delta(A))'
    BY <2>7, <2>8, <2>9 DEF Delta, Actionable
  <2>11. QED
    BY <2>4, <2>10 DEF A
<1>2. QED
  BY <1>1, CatalogInductive, PTL DEF RepeatIsEmpty, Spec
=============================================================================
