----------------------------- MODULE GateClients -----------------------------
(***************************************************************************)
(* gate.ingest as its callers really run it.  plan is up to four SELECTs,  *)
(* each answered by the store as it is at that moment, and write is one    *)
(* POST that nothing re-checks; other callers move in between.  A SELECT   *)
(* may fail; the answer to the POST may be lost (AnswerLost, after 120 s   *)
(* at most), with the request applied, dropped, or still on its way.       *)
(* IngestGate is what this should look like from outside.                  *)
(***************************************************************************)
EXTENDS IngestGate

CONSTANTS Client,     (* processes that call ingest                          *)
          Careful,    (* do they keep clear of each other's batches?         *)
          NoBatch,    (* what an idle client works on                        *)
          MaxStrays   (* bound on requests left behind by lost answers       *)

ASSUME ClientsAssumption ==
  Careful \in BOOLEAN /\ NoBatch \notin Batches /\ MaxStrays \in Nat

VARIABLES pc,      (* per client: what its ingest does next                  *)
          batch,   (* per client: the batch it ingests                       *)
          strays   (* batches whose POST nobody waits for any more           *)

gateVars == <<store, graphs, landed>>
clientVars == <<store, graphs, landed, pc, batch, strays>>

Asking == {"context", "graph", "state", "existing"}
Steps == {"planned", "sent", "applied"} \cup Asking

ClientInit ==
  /\ Init
  /\ pc = [c \in Client |-> "idle"]
  /\ batch = [c \in Client |-> NoBatch]
  /\ strays = {}

Busy == {c \in Client : pc[c] # "idle"}
Goto(c, step) == pc' = [pc EXCEPT ![c] = step] /\ UNCHANGED batch
Finish(c) == pc' = [pc EXCEPT ![c] = "idle"] /\ batch' = [batch EXCEPT ![c] = NoBatch]

(* Two batches that no check of either can see the other through: they may  *)
(* point at the same individuals and link the same stored ones, nothing     *)
(* more.                                                                    *)
Closes(b, s) == b.validTo[s] # {} \/ b.clearedOn[s] # {} \/ b.lastSeenOn[s] # {}
Alters(b) ==
  Typed(b) \cup
  {s \in Ind : Closes(b, s) \/ b.ofAsset[s] # {} \/ b.supersededBy[s] # {}}
Unseen(v, w) ==
  /\ v.graph # w.graph \/ v.graph \in Mutable
  /\ \A s \in Typed(v.content) : ~Holds(w.content, s)
  /\ Alters(w.content) \cap (Alters(v.content) \cup References(v.content)) = {}
Independent(v, w) == Unseen(v, w) /\ Unseen(w, v)

InFlight == strays \cup {batch[c] : c \in Busy}

(* plan up to validate's first query: checks 1, 3, 4 and 8's first half.    *)
Submit(c, w) ==
  /\ c \notin Busy
  /\ Careful => \A v \in InFlight : Independent(v, w)
  /\ w \in WellFormed
  /\ pc' = [pc EXCEPT ![c] = "context"] /\ batch' = [batch EXCEPT ![c] = w]
  /\ UNCHANGED <<gateVars, strays>>

(* One check against the store: go on, or raise IngestRejected.             *)
Check(c, here, next, passes) ==
  /\ pc[c] = here
  /\ IF passes THEN Goto(c, next) ELSE Finish(c)
  /\ UNCHANGED <<gateVars, strays>>

FetchContext(c) == Check(c, "context", "graph", ShapesOK(store, batch[c].content))
CheckGraph(c) == Check(c, "graph", "state", GraphFree(graphs, batch[c].graph))
ReadClosingStateSlip(c) == Check(c, "state", "existing", TRUE)
ReadClosingState(c) ==
  Check(c, "state", "existing", /\ ClosuresOK(store, batch[c].content)
                                /\ SupersessionsOK(store, batch[c].content))
ReadExisting(c) == Check(c, "existing", "planned", AllNew(store, batch[c].content))

(* Which of plan's steps query the store at all; such a query may raise     *)
(* GraphDBError, and the ingest ends with nothing sent.                     *)
Asks(w, step) ==
  LET b == w.content
  IN  \/ step = "context" /\ References(b) # {}
      \/ step = "graph" /\ w.graph \notin Mutable
      \/ step = "state" /\ \E s \in Ind \ Typed(b) : Closes(b, s) \/ b.supersededBy[s] # {}
      \/ step = "existing" /\ Typed(b) # {}
QueryFails(c) ==
  /\ pc[c] \in Asking /\ Asks(batch[c], pc[c])
  /\ Finish(c)
  /\ UNCHANGED <<gateVars, strays>>

(* write: the POST leaves, and the store applies it in one piece or refuses *)
(* it (HTTPError, URLError: GraphDBError).                                  *)
Send(c) ==
  /\ pc[c] = "planned"
  /\ Goto(c, "sent")
  /\ UNCHANGED <<gateVars, strays>>
Apply(c) ==
  /\ pc[c] = "sent"
  /\ Append(batch[c])
  /\ Goto(c, "applied")
  /\ UNCHANGED strays
Refuse(c) ==
  /\ pc[c] = "sent"
  /\ Finish(c)
  /\ UNCHANGED <<gateVars, strays>>
Confirm(c) ==
  /\ pc[c] = "applied"
  /\ Finish(c)
  /\ UNCHANGED <<gateVars, strays>>

(* AnswerLost, which write turns into WriteInDoubt: the store has applied   *)
(* the request, will never see it, or has it still to come.                 *)
LoseAnswerNoTimeoutSlip(c) ==
  /\ pc[c] = "applied"
  /\ Finish(c)
  /\ UNCHANGED <<gateVars, strays>>
LoseAnswer(c) ==
  /\ pc[c] \in {"sent", "applied"}
  /\ Finish(c)
  /\ \E late \in SUBSET {w \in {batch[c]} : pc[c] = "sent"} :
        /\ strays' = strays \cup late
        /\ Cardinality(strays') <= MaxStrays
  /\ UNCHANGED gateVars
StrayLands(w) ==
  /\ w \in strays
  /\ Append(w)
  /\ strays' = strays \ {w}
  /\ UNCHANGED <<pc, batch>>

ClientStep(c) ==
  \/ FetchContext(c) \/ CheckGraph(c) \/ ReadClosingState(c) \/ ReadExisting(c)
  \/ QueryFails(c) \/ Send(c) \/ Apply(c) \/ Refuse(c) \/ Confirm(c) \/ LoseAnswer(c)
ClientNext ==
  \/ \E c \in Client : ClientStep(c) \/ \E w \in Batches : Submit(c, w)
  \/ \E w \in Batches : StrayLands(w)

(* A client that began goes on, and every request ends within its timeout;  *)
(* nothing promises that the store applies or answers it.                   *)
ClientFairness ==
  \A c \in Client :
     WF_clientVars(\/ FetchContext(c) \/ CheckGraph(c) \/ ReadClosingState(c)
                   \/ ReadExisting(c) \/ Send(c) \/ LoseAnswer(c))

ClientSpec == ClientInit /\ [][ClientNext]_clientVars /\ ClientFairness

-----------------------------------------------------------------------------
(* Callers who keep their batches independent of everything in flight see   *)
(* one ingest at a time: every POST lands on a store that still passes all  *)
(* the checks made for it, though they were made earlier and one by one.    *)
Serializable == Spec

(* Whatever races happen, an individual that only one batch declared ends   *)
(* after it began: its opening date was fixed before any end was checked.   *)
DeclaredIn(s) == {w \in landed : w.content.type[s] # {}}
EndsFollowOpenings ==
  \A s \in Ind : AtMostOne(DeclaredIn(s)) =>
     /\ "Veto" \in store.type[s] =>
          \A r \in store.raisedOn[s], c \in store.clearedOn[s] : r < c
     /\ store.type[s] \cap Inclusive # {} =>
          \A o \in store.validFrom[s], e \in store.validTo[s] : o <= e

(* Races may fork a restatement chain, but no chain loops while every       *)
(* section was declared once: a pointer leads to a section its own batch    *)
(* declares.                                                                *)
LoopsNeedRedeclaration ==
  (\A s \in Ind : AtMostOne(DeclaredIn(s))) => NoLoop(store.supersededBy)

(* Every ingest comes to an end, even if the store never answers.           *)
EveryIngestEnds == \A c \in Client : pc[c] # "idle" ~> pc[c] = "idle"
=============================================================================
