----------------------------- MODULE MCGateDates -----------------------------
(* Batches for IngestGate about one Veto, one UniverseMembership and one    *)
(* Asset, written to an append-only graph and to portfolio:current.         *)
(* Illegal batches are offered beside legal ones, so that every check of    *)
(* the gate decides something.                                              *)
EXTENDS IngestGate

CONSTANTS v, m, a,        (* the Veto, the membership, the Asset            *)
          dated, live     (* an append-only graph and portfolio:current     *)

Dates == 1..3
MaybeDate == {{}} \cup {{d} : d \in Dates}

With(c, field, s, values) == [c EXCEPT ![field][s] = values]
Declare(s, class) == With(Nothing, "type", s, {class})
Batch(g, contents) == {[graph |-> g, content |-> c] : c \in contents}

VetoDeclared(r, l, c) ==
  With(With(With(Declare(v, "Veto"), "raisedOn", v, {r}), "lastSeenOn", v, l),
       "clearedOn", v, c)
VetoTouched(l, c) == With(With(Nothing, "lastSeenOn", v, l), "clearedOn", v, c)
MembershipDeclared(f, t) ==
  With(With(With(Declare(m, "UniverseMembership"), "validFrom", m, {f}),
            "validTo", m, t), "ofAsset", m, {a})
DatedContents ==
  {VetoDeclared(1, l, c) : l \in {{}, {1}, {3}}, c \in {{}, {2}}}
    \cup {VetoDeclared(2, {1}, {}), VetoDeclared(2, {}, {2})}
    \cup {VetoTouched(l, c) : l \in MaybeDate, c \in {{}, {2}, {3}}}
    \cup {MembershipDeclared(2, t) : t \in {{}, {1}, {2}}}
    \cup {Merge(MembershipDeclared(2, {}), Declare(a, "Asset")),
          Declare(a, "Asset"), Declare(a, "ObservationSnapshot")}
    \cup {With(Nothing, "validTo", m, ds) : ds \in {{1}, {2}, {3}, {2, 3}}}
    \cup {With(Nothing, "validFrom", m, {3}), With(Nothing, "validTo", v, {2}),
          With(Nothing, "link", a, {v})}

DatedBatches == UNION {Batch(g, DatedContents) : g \in {dated, live}}

(* The same batches and one that only relates: an untyped subject may be    *)
(* given any object property, so a stored membership a second asset.        *)
RelatingBatches == DatedBatches \cup Batch(live, {With(Nothing, "ofAsset", m, {v})})
=============================================================================
