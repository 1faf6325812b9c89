# Verification of portfolio-knowledge-graph

TLA+ models of the parts of this repository that decide what gets into the knowledge
graph, TLC configurations that check them on small instances, and TLAPS proofs of what
matters most for every instance. Paths below are those of the repository.

    tlc -workers 2 -config <run>.cfg <MC module>.tla      # PROJECT.json "runs" pairs them
    tlapm <module>_proofs.tla

## 1. The system and its parts

The repository keeps a knowledge graph in one GraphDB repository. Nothing in it is
updated in place: programs append batches of triples to named graphs, and what a
reader may rely on is a matter of which batches were accepted, in which order.

| part | state it keeps | operations | talks to |
|---|---|---|---|
| ingest gate (`kg_store/gate.py`, `cli/ingest.py`, `schema/shapes.ttl`) | none; reads the store | `validate`, `plan` (up to four SELECTs), `write` (one POST) | store |
| GraphDB client (`kg_store/graphdb.py`) | none | `select`, `add`, `transaction`; `AnswerLost` | store |
| schema loader (`kg_store/load_schema.py`) | an RDF4J transaction | drop the owned graphs, add every file, commit, compare counts | client |
| universe declarations (`kg_store/universe.py`, rows of `etl/asset_master.py`) | none | the full catalog once, then deltas of the source against the store | gate, universe.db |
| boundary (`projection/boundary.py`, `source.py`, `expectations.py`) | late keys | source, row and aggregate checks, cascade, caps, late or lost | sqlite views |
| backtest and selection projection (`projection/backtest.py`, `asset_link.py`) | none | rows of fourteen views to individuals of one graph per run, or a refusal | boundary |
| reference projector (`projection/reference.py`) | none | ticker histories and orchestrator runs to graphs | boundary |
| projector commands (`project_backtest.py`, `project_selection.py`, `project_reference.py`) | results so far | dry run, `--check-store`, `--write` over several databases, graph by graph | projections, gate |
| backtest verifier (`projection/verify_backtest.py`) | none | compares stored graphs with rows | store |
| backtest load runner (`projection/load_run.py` with `run_metadata.py`, `disk_space.py`, `delivery.py`) | plans, report | preflight, write, verify, report DROPs | gate, client |
| score projector (`projection/score_snapshots.py`, `project_scores.py`) | `late.json`, `late.lost.json` | read the view, project, write a graph per lane, settle keys | boundary, gate |
| aggregates loader (`projection/aggregates.py`, `load_aggregates.py`) | none | hash, parse, compare with the databases, one graph per label, compare again | gate |
| view contract, FIBO slice, score scale, store acceptance, ETL generators, command lines | none | pure conversions and read-only checks | files |

What is hard here:

* **A batch is validated, the store is not.** Shapes see a batch plus the stored types it
  refers to; closings, sightings and restatements of stored individuals are covered only
  by hand-written checks (gate checks 4 to 8), which must add up to the shapes over any
  sequence of batches.
* **plan and write are not one step.** Between the SELECTs and the POST other callers
  move; a POST whose answer timed out can land long after its caller gave up.
* **Half-done work.** A load of dozens of graphs, a transaction over many files and a
  projector with two key files can stop between any two steps and are then run again.
* **Write-once graphs over a source that keeps changing.** A quarter's graph written too
  early loses rows for good; a graph named after the day of the run meets rows an
  earlier run already put elsewhere; a catalog delta is computed from a source and a
  store that have moved on when it is written.
* **Names instead of keys.** An individual's IRI holds a window, an arm, a date, a number,
  hardly ever the row's key. Whether two rows share one, or a link finds the right one, is
  decided by checks in several files that must fit together.
* **Rules stated twice.** Parser and shapes, projector and verifier, boundary and
  projection each state the same rules by other means.

PROJECT.json lists each hazard at its line, with the property that would notice it.

## 2. Modules

### Ingest gate

* `GateStore` has no variables. RDF content is a record with, per property that decides
  anything, the set of values each individual holds; the store and a batch are values of
  that one type and writing is their union (`Merge`). The checks of `gate.py` are
  operators over (store, batch): `KnownTypes` (3), `NoStrayWrites` (4), `References` and
  `ShapesOK` (1, 5), `GraphFree` (2), `AllNew` (6), `ClosuresOK` (7), `RestatementsOK`
  and `SupersessionsOK` (8).
* `IngestGate` is the abstract gate: `ingest` in one step, one caller at a time.
* `GateClients` is the gate as it runs: each SELECT of `plan` and the POST are steps of
  their own, any number of clients interleave, queries fail, POSTs are refused, answers
  are lost and the request is then applied, dropped or still under way (`strays`).
  `Careful` switches on a discipline for callers (see 4).

Only properties some check reads are kept. `ofAsset` stands for `membershipAsset`,
`tickerHistoryAsset` and `positionAsset`, `link` for all other object properties; class
`Asset` stands for every leaf class without closing or restatement rules. `parse_batch` is
assumed to have succeeded: a batch that does not parse changes nothing.

### Schema loader

* `SchemaReload` is the promise of `load_schema.py`'s docstring: the graphs schema/ owns
  are replaced together or not at all, no other graph is touched, and of what others
  append only statements added since the load opened may survive it.
* `SchemaLoad` is the sequence of requests: begin, one drop per owned graph, one upload
  per file, commit, count. Any request may fail; the answer to the commit may be lost.

### Backtest load runner

* `GraphArchive`: a derived graph appears whole, once, and goes only when dropped.
* `LoadRun`: one command after another, each a preflight over every graph of the
  delivery, writes in the runner's order (all m018 graphs, then selection, then
  metadata), verification, report. A graph's content is the set of databases it was
  projected from, so "another file's content" and "one window missing" are visible while
  triples are not. The verifier sees less than the content: of a data graph the `Figures`
  of the file (counts, groups, linked tickers, last values), which two files may share; of
  the metadata graph runs, file names and SHA-256. Check 6 of the gate compares `Names`
  (arms, alerts, actions; cycles, vetoes), which two runs of a window need not share.
  `drops` are the DROP commands of the report and `base` remembers the store at the start.

### Score projector

* `SnapshotLedger`: a snapshot is in one graph, of its lane and its quarter (or of a day
  by which it was usable), and a graph never changes.
* `ScoreProjection`: runs of `project_scores` over a view that upstream edits meanwhile.
  A row is `absent`, `good`, `bad` (fails the boundary), `unusable` (left out by design) or
  `misshapen` (refused by the gate). `ReadRows` reads the view, `Begin` the analysis runs, in
  two SELECTs between which upstream may change both, and persists the late keys; then one
  step per graph, in the order of names (`Skip`, `Lose`, `Defer`,
  `Refuse`, `Write`, or a store failure, or a lost answer); then the late keys are
  settled, then the losses sorted. `Kill` can strike between any two steps, with the
  graph in hand written or not. Upstream changes rows and completes full analysis runs at
  any moment; `broken` remembers the rows that were not good once their quarter had been
  analysed in full, which is what the module's docstring assumes never happens, and `raced`
  the rows that a run read before that analysis while it read the analysis itself.

### Asset catalog

* `UniverseDelta`: membership stints in universe.db, edited by hand (join, leave, rename, a
  corrected date); resolution of rows into assets (a company number whose symbols never
  overlap is one asset named by its latest symbol); the one-time catalog load; deltas,
  planned, checked by the gate (`CheckDelta`) and posted (`PostDelta`, at once or long after its
  caller gave up, or `LoseDelta`, never) in steps of their own by any number of runs,
  numbered within the quarter by what the store holds. The POST is unconditional: what the
  gate saw may no longer hold. `SameSource` names what operators have to see to (see 5). `touched` are assets that a
  score batch spoke of before the catalog declared them. `cikNumber` stands for every value
  that a delta compares.

### Boundary

* `Boundary`: rows per view as functions from columns to values, source checks, row checks
  (types, formats, ranges, keys, pairs), aggregates (NULL rate, means), the cascade as the code's
  queue with one step per row taken off it, caps, and the late-key file with `mark_written`,
  which removes keys of settled rows and of rows gone upstream, and lost keys. Upstream changes a cell between runs. The expectation records are the
  constant `Expect`; MCBoundary writes out what the shipped files say of five views.

### Projection and verification

* `AssetLink` is `resolve_asset` and `ticker_cik_map`. `BacktestGraph` (eight m018 views),
  `SelectionGraph` (six cycle views) and `ReferenceGraph` (ticker history, orchestrator
  runs) say for a database, a set of rows per view, when it is refused and which
  individuals it becomes: an individual has a graph, an IRI (a tuple of the parts the code
  joins) and its triples. Columns that are copied literally are left out unless the
  verifier reads them.
* `BacktestVerify` is the verifier: each of its checks as a set of failures, computed from the
  triples of a stored graph and the database, by other means than the projection.
* `GraphProjector` composes the four with the gate: commands over several databases, clash
  check first, then database by database and graph by graph, with a gate verdict, a POST, a
  lost answer, a failing store, a refused database. Meanwhile universe.db moves
  on, the catalog is loaded from it, and between commands upstream delivers databases
  again. `origin` remembers what each stored graph was projected from, `printed` what the
  operator was told.

### Aggregates

* `Aggregates`: a file of trend rows and reference returns with its manifest entry and
  the databases of the same folder; hashing, parsing, verification, the two questions of
  the gate's plan, POST and comparison are steps of their own, between which the folder may
  be delivered again and a late request may land. The shapes of shapes.ttl are evaluated on the batch's triples.

`MC*` modules hold the values of the constants. Each `...Slip` operator is a plausible
mistake in the operator below it. No specification uses one; put in that operator's
place it makes the named property fail (PROJECT.json "mutants"), so that every
property is known to depend on the code it is about.

## 3. Runs

| run | states | shows |
|---|---|---|
| `gate_dates` | 5.6k | Legal and illegal batches about a Veto, a membership and an Asset, in two graphs: dates stay in order, ends stay fixed, a repeated batch is refused |
| `clients_careful` | 36k | Two callers who keep independent: refines `IngestGate`; sections stay in chains; every ingest ends |
| `clients_race` | 177k | Two callers under no discipline: what still holds of dates and chains |
| `schema_load` | 16k | Loads of two versions of schema/ with failures and other writers: refines `SchemaReload`; "verified" means equal contents |
| `load_run` | 421k | Five deliveries in any order, up to three failures: DROPs restore, exit 0 means stored as far as the verifier looks, runs that share names do not mix in a window, metadata last, refines `GraphArchive` |
| `load_retry` | 12k | The same command repeated after up to three failures gets the delivery in |
| `score_projection` | 205k | Four rows, three days, three upstream edits, one failure: complete quarters but for late and raced rows, one graph per snapshot, late keys kept, rows settle |
| `universe_delta` | 677k | Two symbols, two companies, three days, two runs that overlap between plan, check and POST: a silent delta means store and source agree, memberships close once and never before they opened, what alone can block a delta, a repeated delta is empty |
| `boundary` | 43k | Any two of seventeen edits to five views: what is quarantined is the least closed set, selections are whole, a late key stays while a row that has it is held back |
| `projector` | 194k | Two databases, the first in nineteen variants, two commands of eight: one individual per row, links stay in the graph, assets resolve, no database hides behind another, exit 0 means stored, a fresh graph verifies |
| `aggregates` | 45k | Twenty-nine folders, sound or with one fault, one redelivery, two commands, one failure: what is parsed conforms, exit 0 means what was published is stored, no more and no less, a repeat is refused only across the landing of the lost request |

`gate_relations` is expected to fail (PROJECT.json "findings"): `untyped_writes` accepts any
object property on a stored subject, so a stored membership can be given a second
`membershipAsset` (shapes.ttl: `maxCount 1`).

### Bounds

* Gate: three dates are enough for before, equal and after; one individual per class,
  because no check relates two individuals of a class except restatement. Each pair of
  individual and property that a check reads is offered with legal and illegal values, in
  an append-only graph and in `portfolio:current`.
* Clients: two, since each check-then-act race needs one other writer; one stray request.
  `clients_careful` has three sections of one item: a chain of three, a rival, a label of
  another item and a pointer back. `clients_race` uses the batches that make stale checks
  matter and symmetry in the clients (its properties are invariants that do not name one).
* Schema: two statements, two versions that move and remove graphs, three files, two of
  which share a graph.
* Load: two windows; of the first, files of one run that differ in their figures or only
  in content, a run with the same arms and cycles and one with cycles of its own. `MaxFaults` = 3 lets a command fail, its
  repetition fail and the drop-and-retry fail.
* Scores: two days per quarter, `MaxDay` = 2, two rows in each of two lanes. `Edits` lists
  the changes upstream makes (spoil, repair, add, delete), `MaxChanges` = 3 bounds edits
  and analyses together. `Cap` = 1 counts rows where the code takes a share. The shipped
  cap of `v_score_snapshot` is 0, under which a quarantined row stops the run and no key
  is ever late or lost at the boundary; the model covers raised caps too, which the
  code supports. Changes to cycle rows stop
  before the last day, so that a day is left to write them in.
* Catalog: a rename needs two symbols of one company, a clash two companies of one symbol;
  a closing needs a day before and after, and the third day is the next quarter.
  `MCUniverseDelta` lets the source move under a planned delta only to correct a date: what a
  delta writes does not depend on the source after its plan, so other edits add states but
  no behaviour of the store. At most three rows, and two deltas overlap while the source has
  two rows or fewer.
* Boundary: two cycles, two assets, two edits, since a cascade needs a first failure and a
  second that meets it (a group reached twice, a second root, a repair). The caps are high
  where the shipped ones are 0, which stop every run that quarantines a row.
* Projector: each variant of the first database breaks one rule that the projection, the
  boundary or the verifier states, or breaks it in one view of each side (they are read by
  different commands); the second database is another window, another run of the same
  window, or the same run. Two commands are enough for "already in the store", for a
  catalog that lags and for a graph that verifies against a changed database.
* Aggregates: each faulty folder breaks one rule of the parser, of one of the checks (a) to
  (e), or of the manifest; a redelivery reaches every pair. One unit is a quarter, so that
  returns of the cuts compound to the whole exactly or not at all.

### Fairness

* `clients_careful`: weak fairness of each client's own steps. `write` and `select` have a
  120 s timeout, so a request ends; nothing is assumed of the store's answer, and
  `EveryIngestEnds` holds through `LoseAnswer` alone.
* `load_retry`: the command goes on, and an operator repeats it until it has loaded
  (the runbook's instruction). Failures are bounded, not fair.
* `score_projection`: a run goes on, days pass, and the projector is started on the day
  (strong fairness of `ReadRows(today)`, because the cap can disable it for a while) and with
  `--write` (strong fairness of `Begin(today)`, because a dry run or a kill may end a reading
  in its place): a row deferred today "waits for a later run day", so the code counts on one.
  Upstream's edits, kills and dry runs are never assumed to happen.

## 4. Proofs

All proofs are for any values of the constants that satisfy the named assumptions
(`ConstantsAssumption`, `BatchesAssumption`, `ClientsAssumption`, `FilesAssumption`,
`LoadAssumption`, `ScoreAssumption`, `UniverseAssumption`, `BoundaryAssumption`,
`ProjectorAssumption`, `DatabaseAssumption`, `UnscoredAssumption`, `AggregatesAssumption`); in
particular for any number of individuals, dates, clients, files, graphs, rows, databases and
days.

* `Gate_proofs`, the gate alone. `IInv` joins the type invariant with the timelines, the chains and
  "nothing lost". Each step is split by individual: either the batch declares it, then the
  store held nothing of it and the shape speaks, or it does not, then checks 4 to 8 do
  (`DeclaredStep`, `UntypedStep`).
  Chains: a new pointer leads to a section the batch declares, so a loop would lie in
  the batch alone. Then `TypeCorrect`, `TimelinesHold`, `ChainsHold`, `AppendOnly`,
  `RetriesRefused`, and the action properties `DeclarationsKept` and `EndsKept`.
* `Gate_proofs`, its clients. `CarefulIsSerial`: callers whose batch is independent of every
  batch in flight, strays included, implement `IngestGate`. The invariant says of each
  client that the checks it has passed still hold, which independence preserves under
  another's `Append`. `CarefulKeepsTimelines` carries the gate's theorems over. The
  discipline is not enforced by the code (`docs/graphdb-setup.md` says that two simultaneous
  writers could both pass the checks): this is what operators have to provide, and
  `clients_race` is what remains without it. `RaceInv` says of every write, landed, in
  flight or stray, what its finished checks saw of the writes landed by then; hence
  `RacesKeepOrder` and `RacesDoNotLoop` (a loop of restatements needs a section that two
  writes declared: otherwise the pointers of the write
  that closed it would already make a loop in its own batch, which the shapes refuse).
* `SchemaLoad_proofs`. The transaction's view of each owned graph is what the files so
  far say. `LoadIsOneReplacement` is the refinement; `CountsSuffice` shows that equal
  counts imply equal contents, since the owned graphs contain at least what was loaded.
* `LoadRun_proofs`. `LInv` says that what differs from `base` is what is in `written`, that
  planned graphs are empty, and that no planned graph has a rival from another run
  (`NoRival`), which is why `OneRunPerWindow` holds although each graph is only checked
  against its own kind: its sibling was refused in the same preflight. It holds of runs that
  have a name of each kind in common (`Alike`). `LoadedIsStored` says what exit 0 is worth: what
  the command wrote is the delivery's, what it found was verified by figures, and the
  metadata names the delivery's files. Then `DropsUndo`, `RunsDoNotMix`, `GraphsStayWhole`,
  `MetadataComesLast`.
* `ScoreProjection_proofs`. `PInv` needs these facts beside the property: a covered quarter
  is good upstream but for `broken` rows (`CoveredAreGood`), the same of what was read, by the
  analyses known at that moment (`ReadingIsWhole`), so that a graph still to write was read
  whole but for `broken` and `raced` rows (`QuartersAreWhole`), and a settled row is stored,
  unusable or of a quarter (`SettledAreSafe`). Then `QuartersAreComplete`, `SnapshotsArePublishedOnce`,
  `LateKeysAreSafe`.
* `UniverseDelta_proofs`. `CatalogInv`: the source, and what a run keeps of it, has one row
  per symbol and first day, none ending before it begins; a plan says of every row that a
  stored membership stands for it or what the delta does about it; what is stored is only
  added to, so a plan made earlier stays true of what it found. `Fits` is what the gate's checks
  leave of a delta in the store: a new membership is new, or stands there already with the
  very values; a closing starts where the stored membership does and ends it where it is
  ended already, if it is. `FitsStays`: while requests under way have the same source, one that
  lands does not take this from another (`CheckedInv`). Then `TimelineHolds`, `OpenHasCik` (an asset that the shapes
  were never evaluated on is closed already), `SilenceIsSync`, `FreshPlansLand` (a delta
  written before anything else lands meets no check but the three named) and `RepeatsAreEmpty`.
* `Boundary_proofs`. The cascade's invariant: what was dropped is reachable from a failing
  row, and whatever a dropped row takes is dropped or the row is still in the queue. With
  an empty queue that is the least closed set (`CascadeLeast`), from which follow
  `RootsFail` and `SelectionsWhole` (a ranking without its scheme would have been taken by
  it). `LateKeysFound`: `mark_written` removes keys of kept rows and of rows that are gone; a
  key that some row upstream still has is therefore one that a kept row has, and the
  uniqueness check held back all rows that share a key.
* `GraphProjector_proofs`, over any databases, projections and verdicts of the gate. For
  `DoneStores`: of a running write, each slot waits in the queue, or every graph of it has an
  answer, or it is the one in hand (`SlotsInv`), and what is reported written or already there is in the store
  (`HeldInv`). `LinksFound`: the gate looked before the graph landed and the catalog only
  grows. `AlreadyIsEarlier` needs the names: a graph of an accepted database is named after one of its
  books (or its label and day), the clash check compared just those names, and a path is
  given once (`ProjectorAssumption`, from `parse_args`). `LinksStay`: one lemma per side
  shows each class `Closed` (a subject's class and the targets of its own links are
  individuals of the same graph, row by row of the views it reads, from the joins that the
  projection raises on); a graph to be written is a union of closed individuals (`WorkInv`), and a
  stored one is one that was written. `RowsStayApart`: a view makes a `Family`, one
  individual per row under IRIs with a stem of its own; stems of different views differ, so
  sizes add. It needs finite views (`DatabaseAssumption`) and the key checks
  of the boundary. `FreshGraphsPass`: an individual `Tells` its own facts and of the individuals
  above it only that they have it; with one individual per row, a graph therefore lists the
  rows of its run, each property reading back as the column it was made from (`ReadFacts`,
  `ReadView`, `BacktestLists`, `SelectionLists`). From there check by check: counts, groups,
  linked and unlinked tickers, the actions of a period, the last net asset values
  (`BacktestVerifies`), the rankings and vetoes (`RankingsHold`), and the comparison with the
  sibling graph, for which `OriginInv` keeps of each stored m018 graph the database it shows.
* `Aggregates_proofs`. `BatchTriples` and the `...Of` lemmas: the triples of an individual come
  from one row, because the parser lets no two rows share a window and date, or a segment
  and reference within a segment's window. Hence `AcceptedConforms` and
  `ShapesAcceptParsed`. `RightAgrees`: a folder that passes the checks is told right by its
  own batch, both ways: each published summary has its returns, each return its summary. `Steady` says that while the folder lies still the command holds what the
  folder has; with it `DonePublished`, and with "the graph and the late requests hold
  nothing but what was sent" (`OnlyPosted`) `RepeatSafe`: the one refusal left is that of a
  command whose two questions lie on either side of the landing (`Crossing`).

Model-checked only: all liveness (`EveryIngestEnds`, `RetryLoads`, `RowsSettle`), which the prover does not do under fairness. Every invariant and every action
property that a passing run checks is a theorem.

## 5. Assumptions

* Gate: the batch parses; dates are well-formed; a SELECT sees one state of the store;
  GraphDB applies a POST as a whole.
* Schema: schema/ is not edited during a load, which parses it once for the counts and
  reads it again for the upload. A commit whose answer is lost has been executed or not
  before the next load begins.
* Load: one command at a time (the race with other writers is documented, and GateClients
  models it); a POST in doubt is settled before the next command; the delivery's files and
  dry run are good before the store is contacted. That a shape or reference check fails is
  a nondeterministic refusal, counted as a fault. A SHA-256 tells any two files apart.
* Scores: a late-key file is given and one projector runs at a time; a POST in doubt is
  settled before the next run; a row's ticker, dates and lane do not change, as its id
  is in the snapshot's IRI. Runs for a past day go to a repository with key files of its own
  (`key_file`), so the model's store is either repository. A run that stops on a row it
  cannot project, or at a key file it cannot write, is a `Kill`. Over the cap, or with an
  aggregate failure, a run changes nothing.
* Catalog: the gate's read-then-write window applies to closures (PLAN.md:2090), and two
  requests planned from different sources can close a membership twice; nothing in the code
  prevents it. `SameSource` is what the operators have to see to: whoever passes the gate while
  another request is under way (its answer possibly lost) planned the same rows of
  universe.db. Without it TLC finds `CatalogTimeline` violated in twelve states. What the gate
  keeps of dates without any discipline is `clients_race`. The one-time catalog load is one
  step, with no delta under way.
* Projectors: databases are delivered between commands. The clash check and the projection
  each read `v_book`, so a database replaced during a command can bring back the clash
  that was ruled out; nothing in the code notices. A view has finitely many rows; an absent `veto_rules_json` carries no mark
  (`UnscoredAssumption`).

## 6. Observations without a run

Where the code and its documents part, or where nobody promises anything:

* Gate and client. `gate.write`'s docstring says that an existing append-only graph is still
  refused there; what `write` looks at is the plan's status, so a graph that came to exist
  after the plan is written to (`GateClients`' `Send` has no guard on `graphs`).
  `GraphDB._request_full` reads an HTTPError's body; an `OSError` there escapes both
  `GraphDBError` and `WriteInDoubt`.
* Schema. A lost answer to COMMIT (graphdb.py:210) is reported like any error, though
  load_schema.py:11 says that if anything fails nothing changes. The files are parsed for
  the counts and read again for the upload (load_schema.py:70).
* Load. The report on a metadata graph in doubt prints its DROP (load_run.py:807), while the
  runbook (line 674) leaves graphs in doubt out. A delivery that adds windows to a loaded
  label gets no `:BacktestRun` for them, because the label's metadata graph exists
  (load_run.py:571, runbook line 20). The verifier compares counts, groups, links and last
  values, while the runbook (line 5) has the load "prove that the store matches the source
  and the delivery's `SHA256SUMS`": where a changed file has equal figures and the metadata
  graph was dropped or never written, the command exits 0 over data graphs of the earlier
  file, under metadata that names the SHA-256 of the new one (`LoadedMeansStored`, second case).
* Scores. The docstring's "a quarter is written only once it is complete" has a gap: rows
  and analysis runs are two SELECTs without a transaction (score_snapshots.py:538, 540). A
  filing computed, and its quarter's full run recorded, between the two is missing from a
  quarter that is then written, for good, though upstream kept its promise (`raced`).
  `_sort_losses` saves `late.lost.json` before `main` prints the losses, so that a run
  killed in between has recorded as known a loss nobody was told of. Over the cap a run
  stops before the late keys of its quarantined rows are kept (boundary.py:619).
* Catalog. The re-entry of a company whose asset was stored without a CIK is refused by the
  shapes (universe.py:451; PLAN.md:2032 expects it to land): `Blocked` has the case.
* Projection. Of two runs in one window, an action of one may link to the other's alert.
  Graphs are frozen: a database projected before the catalog knew a ticker keeps no link,
  and the run again that runbook section 10 prescribes answers "already in store"; an
  orchestrator run projected while it runs stays so. Selection links have no `sh:class`.
  `resolve_asset` takes the exact symbol without comparing numbers, although its docstring
  rules out links across them. `--check-store` does not look for clashes.
* Commands over several databases. The summaries of the earlier databases are lost when a
  later one raises; of a store error other than a lost answer nothing is printed at all,
  though graphs were written. A refusal in a dry run (`IngestRejected`) is a traceback.
* Verifier. It compares counts and groups. A ticker that universe.db gains after a write makes a
  correct graph fail.
* Aggregates. The databases compared are those of the windows that the file names
  (docs/06:1012 and PLAN.md:2817 speak of every window): a window without rows in the file
  passes, and so does one with returns and no trend rows although both arms have decision
  dates there. Hash and parse open the file twice. A repeat of an unchanged folder ends with
  STOPPED when the lost request lands after the gate asked for the graph (gate.py:970) and
  before it asks for the individuals (987); the next one finds the graph.

## 7. Not modelled, and why

* View contract (`view_contract.py`, `contract_check.py`): compares the columns a sqlite file
  has with a list and stops. One pure comparison of names, without state, before anything
  else runs; a model would repeat its set differences.
* FIBO slice and terms: offline extraction from vendored ontology files, graph reachability
  by a library; no state, no caller in the write paths.
* Score scale: two linear functions of one decimal, range-checked. `ScoreProjection` has
  the outcome (a row that cannot be converted is `misshapen`).
* Store acceptance: six read-only queries and their expected answers.
* ETL generators and `build_data_ttl`: one-shot conversions of files to Turtle. The rows they
  and the catalog loader share are in `UniverseDelta`.
* Command lines: option parsing and the guards for production. What each mode does is in the
  module of its part.
* Of modelled parts: number formats, decimals and literals; the parse of one value of an
  aggregates file; manifest and configuration checks of a backtest delivery, which stop a
  load before its first request; HTTP.

## 8. Plan

Done: (1) `GateStore`, `IngestGate`; (2) `GateClients`; (3) `SchemaReload`, `SchemaLoad`;
(4) `GraphArchive`, `LoadRun`; (5) `SnapshotLedger`, `ScoreProjection`; (6) `UniverseDelta`;
(7) `Boundary`; (8) `AssetLink`, `BacktestGraph`, `SelectionGraph`, `ReferenceGraph`,
`BacktestVerify`, `GraphProjector`; (9) `Aggregates`; proofs of every safety and action
property that a run checks.

Next, in this order:

10. `AnalysisRun.covers` (the scopes in `params_json`) in place of `ScoreProjection`'s full runs.
11. The delivery checks of a load, with a delivery replaced between check and read.
