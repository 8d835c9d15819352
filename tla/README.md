# Formal model of pancakes

TLA+ modules, TLC model-checking configurations and TLAPS proofs for the parts
of pancakes that keep shared state: queues, leases, repository stores and the
operations that several worker processes perform on them at once.

pancakes edits, validates and exports Make.com blueprints. Most of its code is
a function of one document. What is hard to test sits in `src/mcp` and
`src/catalog`: an MCP server and command-line tools, any number of each, share
one SQLite file (`src/data/pancakes.sqlite`), snapshot files derived from it
and a git checkout. They take leases with wall-clock ends, replay what they
answered before, and undo half-done work by hand.

Files, by module:

| file | role |
| --- | --- |
| `BatchLedger.tla` | what the catalog work queue promises: one holder per unit, one save |
| `CatalogWork.tla` | the queue as coded: leases, expiry, repair, saves, run restarts |
| `CatalogWorkProofs.tla` | theorems about `CatalogWork`, and that it implements `BatchLedger` |
| `CatalogGraph.tla` | the typed graph: nodes, edges, proposals, the event log, saves |
| `CatalogGraphProofs.tla` | theorems about it |
| `LinterRuleEditor.tla` | the rule editor over SQLite, snapshot files and git |
| `LinterRuleEditorProofs.tla` | theorems about it |
| `LinterQuarantine.tla` | intake, reviews, snapshots and sweeps over SQLite and three kinds of file |
| `LinterQuarantineProofs.tla` | theorems about it |
| `KnowledgeRebuild.tla` | the rebuild of the database beside tools that keep writing |
| `KnowledgeRebuildProofs.tla` | theorems about it |
| `SpecJournal.tla` | what the raw spec ledger promises to who reads it as of a time |
| `RawSpecLedger.tla` | full and partial syncs of raw specs, history and reviews |
| `RawSpecLedgerProofs.tla` | theorems about it |
| `LiveUpload.tla` | the upload of a package to Make, call by call, with its rollback |
| `LiveUploadProofs.tla` | theorems about it |
| `ProjectEdit.tla` | `project.edit`: what each edit makes of a scenario |
| `ProjectFile.tla` | overlapping edits of one `scenario.json` |
| `ProjectFileProofs.tla` | theorems about both |
| `MC*.tla`, `*.cfg` | instances for TLC; `MCCatalogWork` has fairness and liveness too |
| `PROJECT.json` | definitions and the lines they model, runs, hazards, theorems |

In every module a definition `X_Slip`, placed before `X`, is a plausible slip in
`X` that one of the properties catches. `Next` uses none of them; `PROJECT.json`
lists them under `mutants`.

## Inventory

**Catalog work queue** (`mcp/inactive_catalog_work.py`,
`catalog/knowledge/catalog_quality_reset.py`, `catalog/knowledge/__main__.py`).
State: `catalog_runs`, `catalog_units` (status, lock, expiry, token),
`catalog_unit_outputs`. Operations: `catalog.work.next` (ensure a run, sweep,
replay or lease), `catalog.work.save`, `reset` from the command line. Hard:
several processes, clocks read before a lock that may be waited for 24 days,
workers that vanish, saves sent twice, restarts under live leases. Correct when
each unit is held by one worker, saved once under a lease of its own, and comes
back to the queue when its holder is gone.

**Catalog mutations** (`mcp/catalog_mutation.py`). State: versioned
`entity_nodes` and `entity_edges`, `catalog_edge_proposals`, an event log.
Operations: modify a node, propose, approve, reject and apply an edge, write a
unit status. Hard: the order of propose and approve across workers, a proposal
replaced after it was applied, two events in one instant under one key. Correct
when each node and edge has one current version and no edge is applied that was
not approved as it stands. It meets the queue in `catalog_units` and in the graph
a save materialises.

**Linter quarantine and rule editor** (`mcp/linter_quarantine.py`,
`mcp/linter_rule_editor.py`). State: quarantine records and leases in SQLite,
manifest and coverage files, review files, the git index and history. Operations:
next, status, merge, reject, rollback; implement and edit only check; and in the
quarantine write, review, list, snapshot and the backlog sweep. Hard: one
disposition spans three stores that share no transaction; the undo writes back
the bytes of a database that others write to. The files are derived from SQLite,
replaced before it commits, and imported into it at the start of the next call,
before that has the write lock. Correct when a disposition is in all stores or in
none, nobody else's work is lost, and what is imported is what was committed.

**MCP server, session and OAuth store** (`mcp/server.py`, `mcp/executor.py`,
`mcp/session.py`, `mcp/http_server.py`). State: intent receipts in memory, one
JSON file for each session; registrations, codes and tokens in dictionaries under
one lock of one process, with two files behind them that are replaced whole
through a temporary file and read once at the start. Not modelled.

**Project loop** (`mcp/project_loop.py`, `mcp/project_loop_storage.py`). State:
`scenario.json` (the datastore manifest is in it), metadata rows. Operations: create,
edit, verify, make. Hard: a read, a change and a write of a whole file without a lock or
a temporary file, from threads of one server and from several servers. Correct
when an answered edit is lost only to one that overlapped it and a file that
nobody is writing can be read.

**Knowledge store** (`catalog/knowledge/storage.py`, `projection.py`). State: the
shared database, rebuilt into a temporary file that replaces it, with the local
state of the old one copied over. Hard: tools have the old file open in WAL mode
and commit to it; two builds share one temporary path; a build is killed. Correct
when the path names a complete build and no acknowledged row is lost.

**Raw specs** (`languages/make/raw_specs`). State: payloads, manifest rows and
reviews, each with `valid_from` and `valid_to`. Operations: full and partial
syncs, the loader, the rebuild that starts the ledger over. Hard: minutes between
the time a sync is given and its commit; a merge read without a lock; equal times.
Correct when current payloads, manifest rows and pending reviews tell one story
and history is kept.

**Live upload and guided deployment** (`languages/make/live_upload.py`,
`guided_deployment.py`). State: objects at Make, ids the upload was told. Hard: an
effect whose answer is lost, a failure half-way, a rollback that fails itself.
Correct when nothing is left behind that could have been deleted and nothing refers
to what was. Guided deployment is a chain of gates over reports, not modelled.

**Blueprint repair** (`blueprints/repair`): staging of repairs, failing
transports.

**Pure algorithms**: traversal, execution paths and layout (`blueprints/ast`),
routes and cycles (`blueprints/validation`), graph deduplication
(`catalog/knowledge/catalog_graph_dedup.py`), drift (`catalog/drift.py`), graph
construction (`ir`). Correct when equal to a direct definition.

**Left aside**: rule tables and text checks of `blueprints/validation`, the Make
module tables, search ranking, documentation, golden comparison and the media
tools. They keep no state and nothing interleaves.

`PROJECT.json` lists each component with what is modelled of it, and every hazard
found so far at its line.

## How the modules correspond to the code

### CatalogWork

| variable | code |
| --- | --- |
| `clock` | `_utc_now()` of every process |
| `runs` | `catalog_runs.run_status` |
| `units` | `catalog_units`: status, `locked_by`, `lock_expires_at_utc`, `lease_token` |
| `outputs` | `catalog_unit_outputs` |
| `calls` | what a call in flight has read outside its write transaction |
| `reseeds` | counts restarts, to bound them |

SQLite runs one write transaction at a time, so a transaction is one action.
What a call reads before it has the write lock is an earlier one: `NextEnsure`
(a transaction of its own), `NextClock` (the clock), then one of `NextReplay`,
`NextLease`, `NextNothing`; `SaveClock`, then `SaveBatch`; `ReseedCheck`, then
`ReseedCommit`. `CallFails` is every way a call can end with a rollback: an
exception, a rejected save, the death of the process. A worker that vanishes is
one that does not call again; a lost reply is a save sent again.
`OperatorSetsStatus` is `catalog.modify` with `update_unit_status`, which writes
the status and leaves the lease columns.

Data is cut down to what properties tell apart. A token is the record it hashes
(run, worker, time, units). A semantic output is a model value. The payload
budget decides how long a prefix of the queue is leased: any nonempty prefix.
Seeds stand for what the raw-spec tables yield.

The abstract specification is `BatchLedger`: a unit is free or held by one
worker, only its holder saves it and only once. `KeepsLedger` is the refinement
with `held` and `saved` computed from the tables.

### LinterRuleEditor

| variable | code |
| --- | --- |
| `records` | `linter_quarantine_records` as SQLite reads it: status, and whether the commit hash is filled in |
| `leases` | active rows of `linter_rule_editor_leases`, as SQLite reads them (an expired row equals none) |
| `disk`, `frames` | both tables as the bytes of the database file have them; the tables of which the `-wal` beside it has frames |
| `tools` | other calls that have the database open, as `linter.rule.status` does for its reads |
| `snapshot` | manifest and coverage files, always written together |
| `staged`, `history` | git index and branch |
| `lock`, `calls` | the open write transaction; where each disposition stands |
| `held` | leases handed to workers |
| `receipts` | "committed" replies not rolled back |
| `clobbered` | whether the file has been put back over frames or over what another call wrote, or taken for the database when it was not |

`_apply_disposition` is eleven actions, one for each store it touches:
`ValidateLease`, `CheckClean` or `Refused`, `BackUp`, `BeginWrite` (which exports
the snapshot files before the transaction commits), `CommitWrite`, `GitAdd`,
`GitCommit`, then `BeginWrite`, `CommitWrite`, `GitAdd` again for the commit hash,
and `Amend`. From any of them after the backup `Fails` leads to `RestoreDatabase` and
`RestoreSnapshot`. `Crash` may come at any step and rolls back the open
transaction only.

SQLite, backup, restore and git do not see the same database. Every connection is in WAL
mode (`catalog_plan_ssot.py:332`): a commit goes to the `-wal`, SQLite reads it over the
file, and the last connection to close folds it in (`Closes`). `_file_backups`,
`_restore_file_backups` and `git add` know the bytes of the file alone. So `BackUp` takes
`disk`, `GitAdd` stages `disk`, and `RestoreDatabase` puts bytes under whatever frames
there are (`Under`). `OpenDb`, `CloseDb` and `KillTool` are a call that keeps a connection,
closes it, or dies and leaves the `-wal` behind. A call knows in `stale` (history) that its
backup lacks frames or that somebody wrote a store since it was made (`Overtaken`).

`DatabaseIgnored` is the `.gitignore` line `src/data/*.sqlite`:
`git add` then stages the snapshot files, refuses the database and exits 1, so
with the repository as it is **no disposition ever commits**: each one is undone
after its transaction, the index stays dirty, and the next one is refused until
somebody resets it. `Checkouts` holds both kinds of checkout, because the stamp,
the amend and the rollback are reached only where git tracks the database; which
one it is, is part of the state and never changes.

Left out: a `git revert` that conflicts (any but the last commit; the database is
binary) or that replaces the file under an open connection, writing the bytes of the
database while a transaction is open (such a step waits), what a connection has in its
page cache when the file changes under it, the checkpoint at a thousand pages of `-wal`
(a table is in the `-wal` as a whole or not at all), the checks of proofs and predicates,
and the operations `implement` and `edit`, which validate and then refuse.

### CatalogGraph

| variable | code |
| --- | --- |
| `nodes`, `edges` | `entity_nodes`, `entity_edges`: rows with `valid_from`, `valid_to` |
| `proposals` | `catalog_edge_proposals`, by id |
| `log` | `catalog_modification_events`, in the order of the commits |

Each tool of `catalog_mutation.py` is one transaction, so one action; the time it
writes is taken before it waits for the lock, so an action may have any time.
`NodeModify`, `Propose`, `SetStatus` (approve and reject), `Apply`. `Save` is
`_index_saved_graph_outputs`, the part of a save that materialises what a worker
found; the lease around it is in `CatalogWork`. A content is all a proposal says of
its edge; `Derived` is the id hashed from it. A row's `run` tells who wrote it: a
save closes rows of its own run only, a tool whatever is current. Primary keys
matter and are modelled: a plain `INSERT` is refused (`Free`), `INSERT OR REPLACE`
takes the row with the same id and start (`Replaced`), and an event with the same
op, target and time is refused with all that its tool has done (`Logged`). An id of
a node or edge is never one of a proposal: `target_kind` tells them apart in the log,
and the model has no other use for it. Left out: notes and reviews
(`update_unit_note`, `review.add`), each a row that nothing else reads.

### KnowledgeRebuild

| variable | code |
| --- | --- |
| `live`, `tmp` | the files at the database path and at `<database>.build.tmp` |
| `wal` | the files whose frames the `-wal` beside the database holds |
| `rows`, `odd`, `built` | by file: rows; tables with other columns; a build that ran to its end |
| `conn` | connections of tools, each to the file it was opened on |
| `pc`, `own`, `bundle` | where each build stands, its file, the raw specs it has read |

A file is an inode, so replacing the path leaves open connections on the old one.
`build_knowledge_store` is eight steps: unlink, connect, seed, load the raw specs of
the old database, ingest, copy and count local state, publish with `os.replace`, or
fail with the temporary file removed; `BuildCrash` leaves it there. What SQLite does
is modelled as external: the `-wal` is read over whatever file is beside it, the last
connection folds it in, and no write transaction starts on a file that was moved.
Rows are three kinds: those a build writes again, those it copies and counts, and
those it copies only.

### RawSpecLedger

| variable | code |
| --- | --- |
| `payloads`, `manifests` | `make_raw_spec_payloads`, `make_raw_spec_manifest_records` |
| `reviews` | `make_raw_spec_update_reviews` |
| `pc`, `sync`, `bundle` | each sync: its step, its time and what it fetched, what it will write |

`Start` takes the time and fetches, `Read` merges without a lock, `Persist` is the
transaction of `persist_sqlite_raw_spec_bundle`, and `Fail` any end without a commit.
`Written` is the three helpers that close rows and open new ones in the three tables.
`Rebuild` is what a rebuild of the knowledge store makes of the ledger: current rows
at the latest time among them, old reviews copied over the new ones; what a sync
loses that commits during a rebuild is in `KnowledgeRebuild`. Payloads are their
hashes. `Accepted` are the sources that the loader knows.

`SpecJournal` is what the ledger is kept for, without rows, reviews or merges: at each
time a set of specs was current; a sync enters what is current from its time on, and
only a rebuild forgets, the past alone. `KeepsJournal` is the refinement: `asOf[t]` is
read off `valid_from` and `valid_to` (`AsOf`), and nothing is promised once a commit has
come out of the order of the times.

### LiveUpload

| variable | code |
| --- | --- |
| `objects`, `live`, `noted` | what exists, or did, at Make |
| `created`, `bound` | the ids the upload was told, and what each placeholder is bound to |
| `todo` | what `_rollback_created` has left to delete |

One action for each call: a call may be carried out and answered, carried out
without an answer, or refused. `Delete` may not take effect, and an exception that
`_suppressing_live_error` does not pass over ends the rollback. `Kill` is a killed
process, and `KeyboardInterrupt`, which `except Exception` does not see. The
package is data: rows of its manifests, required bindings and values, notes, and the
blueprint as its strings with a placeholder (`fields`, by path) and the paths that can be
written (`writable`). A client's values and the created ids replace strings that are equal
to a placeholder (`Replaced`); a client's connection is written at the paths its
requirement lists, or replaces equal strings if it lists none (`PathsOf`, `Pathless`).
`Bind` fails on a listed path that is not in the blueprint and on a placeholder that is
left; one with blanks or text around it is found by the search for leftovers and not by
the replacement, so `Spelling` does not make a field equal to what it spells.
Left out: a listed path that leads through a field of another, and values of the client
that have a placeholder in them.
`listed` says that every field name is on the list of `public_safe_artifacts.py`,
whose names end in a space at lines 60 to 185, so that the command refuses packages
with the names themselves.

### ProjectFile and ProjectEdit

| variable | code |
| --- | --- |
| `file` | the text of `scenario.json`: a version, empty, or a mixture of two |
| `calls` | each call: what it read, what it will write, whom it overlapped |

`ProjectFile` has the calls and the file. A call is
`Load` (read and edit a copy), `OpenFile` (which empties the file), `Write`. Calls
overlap because `ThreadingHTTPServer` runs each in a thread, and `Kill` may come
between any two. When two have the file open, one text may stay under the end of a
longer one (`Mixed`).

`ProjectEdit` says what an edit makes of a scenario: nothing, when it raises, or one
scenario. A scenario is a tree of modules that have routes and error handlers with flows
of modules. It is written as an outline: its entries in the order in which
`_iter_modules` walks the tree, each with its level, so that what hangs from an entry is
what follows it on deeper levels, up to `End`. The order and the levels are all that the
tree is, and the first module of an id (`_required_module`, `_remove_from_flow`) is the
first entry that has it. An edit replaces a part of the outline (`Spliced`): a module with
all below it, a handler, a filter, or the empty part where something is added. `Added`,
`Modified`, `Deleted`, `Filtered`, `Handled` and `Stocked` are the operations, with the
lookups and the duplicate check as coded; `IsEdit` says which arguments they may get.
Left out: notes, dry runs, drafts and `project.make`; a module's fields are its id and one
value, and patches of filters and handlers replace where the code merges fields; the
datastore manifest is a list of keys (`resources`), as it is `metadata` of the scenario.

### LinterQuarantine

| variable | code |
| --- | --- |
| `rows` | `linter_quarantine_records`: where a record came from, and its `current_review` |
| `events` | `linter_quarantine_review_events` |
| `manifest`, `coverage` | `manifest.json` by its ids, `review-coverage.json` by its reviews |
| `decisions` | the review files of `mcp-review-decisions/` |
| `lock`, `calls` | SQLite's write lock; each call with what it has read and what it will write |
| `reviewed`, `unrecorded` | numbers of calls with reviews; those that left a ledger and no transaction |

Every call is `Start` (which reads the files), `LookUp` (the SELECTs before the first
statement that writes), `Begin` (the import, then what the call is for, in a
transaction that Python opens at that statement) or `Refuse`, then `WriteDecision`,
`WriteManifest`, `WriteCoverage` as far as the operation exports, and `Commit`. `Fail`
may come at any step: the transaction is rolled back and the files stay. A call that
finds nothing to write takes no lock. `Imported` follows the two import functions row
by row: after an INSERT the ledger is read under the lock, without one it is older, and
so is the first row it is added to (`Covering`). `Swept` is the sweep's cascade of
duplicate, equivalent, implemented, invalid. Left out: the integration review and its
history, severities and texts; which candidates are duplicates, equivalent or invalid
is given by `Twin` and `Verdict`. What the editor puts back when git fails is in
`LinterRuleEditor`; here its dispositions are one more writer.

## Runs

| run | instance | question |
| --- | --- | --- |
| `catalog_work_leases` | 2 runs, 2 units, 2 workers, 2 calls, any seed, 2 restarts, lease 1, clock to 1 | is the worker protocol safe, and does it implement `BatchLedger` |
| `catalog_work_progress` | 1 run, 2 units, 2 workers, 1 call, an operator who writes two statuses, clock to 2, fairness | does every unit complete, once |
| `linter_rule_faults` | both checkouts, 2 candidates, 1 worker, 1 request, 3 commits, clock to 2; two dispositions that overlap, then one beside a call that keeps the database open; any step may fail, calls may crash, commits are rolled back | what failing, crashing and overlapping dispositions leave behind |
| `knowledge_rebuild` | 2 builds, 2 tools, 1 key in each table, 3 files | what a rebuild loses, and what it breaks |
| `raw_spec_ledger` | 3 syncs, 2 apps, 2 payloads, 2 sources, 3 times, a rebuild | do payloads, manifest rows and reviews tell one story, and is what was current as of a time kept |
| `live_upload` | every package of up to 2 structures, 2 stores and a webhook, and every blueprint of 2 fields with a connection listed at no path, at one or at both; with and without cleanup, with any values | what a failed upload leaves at Make, and what an answered one has made |
| `catalog_graph` | 1 id, 2 domains, 2 contents, 1 proposal, 1 run, 2 times, 5 events | versions, approvals and the event log |
| `project_edit` | 3 calls, 18 edits of a tree with a route and an error handler | what overlapping edits lose, double or tear |
| `linter_quarantine` | 1 call at a time, 2 candidates of which one repeats the other, with and without an old ledger, every operation, 3 reviews | what failures leave in SQLite and the files, and do outcomes stand |
| `catalog_work_reseed`, `linter_rule_exclusive`, `linter_quarantine_stale` | as small as the behaviour needs | findings, below |

Type invariants are theorems, and the runs do not repeat them. The properties, by what they say:

* `OneBatchPerWorker`, `AtMostOneActiveRun`, `SavedUnderOwnLease`,
  `CompletedWasSaved`: tables of the queue agree with each other after any
  interleaving of stale calls.
* `LeaseHonoured`: a live lease is taken away by a save under it or a restart only.
* `SavedOnce`, `SaveDrainsBatch`: hold even under operator writes.
* `EveryUnitCompletes`: liveness.
* `SnapshotCoversSQLite`: no disposition is in the ignored database alone, at any
  step a call may die, beside any other. It rests on two orders in the code: files are
  written before the transaction commits, and the database is restored before the files.
  It says nothing from the moment the stores are `clobbered`, which is where the code
  gives up its own guarantee (see below): a backup put back over the frames of an open
  connection, or over what another call wrote after it was made.
* `OneLeasePerRequest`: a worker keeps one live lease per mode and family, under
  stale clocks and restored bytes.
* `ReceiptsHold`: no failure or crash of a later call, no amend of an overlapping one and
  no rollback of another commit undoes a disposition that was reported committed, with
  the same exception, and that of a commit or a backup of a file whose `-wal` has more.
* `PublishedIsComplete`, `CommittedRowsSurvive`: while builds do not overlap, the
  path names a build that ran to its end, and a row is lost only if it was
  committed after the build had read its table, or over a connection to a replaced
  file. `OnlyPublishingReplaces`: a build that fails or is killed changes nothing.
* `ReadableUnlessReplacedBeneath`: the database can be read unless it was replaced
  while a tool had it open, or while frames of a killed tool were in the `-wal`. It
  rests on the copy opening the old database for writing: closing it folds in the
  `-wal` of tools that were killed before. (Where the premise fails, every later
  connection reads old pages over the new file; the code does nothing against it,
  and the property says exactly when it happens.)
* `CurrentRowsAgree`, `PendingReviewsMatch`, `HistoryIsKept`, `TimelineIsDisjoint`:
  one current row for an app and one pending review, of the same payload, whatever
  overlaps; no payload row is deleted; intervals follow one another. The last three
  have premises that the code does not enforce and that the properties name: syncs
  have times of their own, or commit in the order of their times.
* `PartialSyncKeepsTheRest`: a partial sync that nobody overtook changes nothing of
  the slugs it was not asked for, and a full one leaves what it fetched.
* `KeepsJournal`: read as of a time, by `valid_from` and `valid_to`, the payloads
  implement `SpecJournal`. It relates rows opened and closed by different syncs: one
  that closes a row again, or closes it late, rewrites what was current in between.
* `LeftoversAreExcused`, `NothingDangles`: a failed upload leaves only what it was
  never told of, what Make would not delete, and what a broken rollback did not come
  to; and at every step, killed or not, nothing refers to what is gone.
  `AppliedIsWhole`, `SoundPackagesApply`: an answered upload has made each row of the
  package once and bound to its own, but where a connection was written over it; and only
  a contradictory package fails by itself: a store without its structure, a connection
  listed at a path that the blueprint has not, a placeholder that no row, value or
  connection stands for, notes for absent modules.
* `OneOpenRow`, `HistoryIsKept` (of the graph): one current row for an id, domain and
  writer; rows are closed once and never lost but to a save of the same instant.
  `EdgesWereApproved`, `LogTellsStatus`: no edge but by an approval that was the last
  word, of the content proposed last; the log tells where each proposal stands.
* `LostOnlyToOverlap`, `TornIsExcused`: an answered edit is lost only to one that had
  loaded before the answer, and the file is unreadable only after a kill or two
  writers. `EditsKeepIds`, `DuplicatesAreTheCallers`: an id doubles only where an edit
  brought it past the check (a patch of an id, modules inside a new module), in one
  call and in the file after any overlap of calls. `OthersAreKept`: without the first
  module of the id that an edit names, and what hangs from it, the flow is after the edit
  what it was before; a module added or deleted is all that is more or less.
* `IntakeStands`, `ReviewsAreRecorded`, `ReviewPathsExist`: whatever a call has read too
  early, it replaces no candidate, and a review that it brings back was recorded, or
  comes from a ledger whose call failed, and has its file. `CoverageIsDerived`,
  `OutcomesStand`: one call at a time, the ledger has the reviews of SQLite, and only a
  decision on the candidate, a sweep or the ledger of a failed call changes an outcome.

**Bounds.** Two units make a batch of one, a batch of two and a queue left over;
two workers and two calls in flight make every race of two; a third call would
repeat one of them, the transactions being serial. Two restarts put one over the
other. A lease of one tick with the clock at 0 or 1 gives live, expired and
granted-when-already-expired leases; a stale call reads 0 when it is 1. Two
candidates let a failure on one meet a lease, a receipt or a replay on the other, and
both be disposed of at once. Dispositions overlap because `ThreadingHTTPServer` runs each
call in a thread and several servers may run beside each other. `Explored` bounds
`linter_rule_faults`: with the clock at 0 or 1 two dispositions overlap and no tool has the
database open; at 2, on every store these left behind (of at most two commits), one at a
time runs beside a tool. Two and a tool at once is left to the theorems. So are the states
past a `clobbered` one, past a failed call whose backup is `stale` (its restore clobbers,
its crash is as good as one before the failure), and, beside a tool, those with such a backup
once the frames are folded in: two of the three properties say nothing of clobbered stores,
and that `OneLeasePerRequest` holds there rests on its theorem. `VIEW NotHeld` leaves out `held`,
which no action and none of the three properties reads. One request suffices for
`OneLeasePerRequest`, whose premise is that worker and request are the same. The run finds
2.3 million states.
Three files are the old database and one for each build; a third build would find
what the second finds. Three syncs are needed for an app that goes and comes back, or
for one to commit between the read and the commit of another over something that was
there. Two times suffice for a clock that goes back; five events for propose,
approve, apply, and then approve and apply again. Three calls put an edit before,
beside or after two that overlap. Two structures and two stores give an order to
undo, and a failure between and after them. Two fields let a connection be written at one
and needed at the other, too. In the
quarantine, three reviews of two candidates let one be lost, another take its place and
a third bring it back; calls come one after the other there, because what overlaps is
proved for any number of calls (`IntakeStands`, `ReviewsAreRecorded`,
`ReviewPathsExist`), and the other two properties are about calls that do not overlap.
Two that do refute `SnapshotPreservesOutcomes`.

Symmetry is used, in safety runs only, on workers, slots, answers, builds, tools,
keys, payloads, syncs, contents and calls, none of which an instance treats
differently; units and candidates are ordered. Deadlock is checked in
`LinterQuarantine`, where a call can always start; elsewhere `CHECK_DEADLOCK FALSE`:
behaviours end where a bound ends them (the clock, restarts, commits, files, events),
where every sync, call or upload is done, and, in `KnowledgeRebuild`, where a build
waits for its own lock.

**Fairness.** `FairSpec` in `MCCatalogWork` assumes that time passes, that each
call in flight ends some day (the write lock is granted or the busy timeout
fires), and that worker `w1` keeps asking and saving, some of its calls
succeeding (strong fairness: they may fail, not for ever). That is the loop the
worker prompt in `docs/operations/catalog-intelligence-prompt.md` prescribes.
Nothing is assumed of the other worker, which may vanish holding a lease, or of
the operator. An operator who writes `working` by hand is excluded: neither sweep
nor repair touches such a row, so the unit is stranded (a hazard in
`PROJECT.json`). The other parts have no retry loop of their own: a sync, an upload,
an edit or a rebuild that fails is over, so nothing fair can be assumed of them and
no liveness is claimed.

## Findings

Each is a run TLC refutes; the line quoted and the line of code are in
`PROJECT.json`.

* `catalog_work_reseed`: the command-line reset checks outside its transaction
  that no unit was started; a batch leased in between is thrown away.
* `linter_rule_exclusive`: undoing a failed disposition writes back the whole
  database of its start. A lease (or anything else) committed since is lost, and
  the candidate is given to somebody else.
* `linter_quarantine_stale`: a snapshot, which is to preserve implemented and blocked
  outcomes, imports the ledger it read before it had the lock, over a review committed
  since; any other call that imports does the same.

Seen while modelling, and not checked by a run of their own:

* "Fail before replacement when semantic, graph, or runtime state would be lost"
  (`catalog/knowledge/storage.py:1185`): rows are counted when they are copied, and a row
  that a tool commits between the copy and the replacement is lost. `CommittedRowsSurvive`
  excuses exactly these rows (`excused`, `since`).
* `load_sqlite_raw_spec_bundle` compares sources with names that end in a space
  (`languages/make/raw_specs/sqlite_store.py:751`) and refuses what a live refresh or a
  fixture sync has stored, and with it every partial sync and rebuild after that. `Loads`
  is that test, and `Accepted` the sources it lets pass.
* The quarantine "must not ... treat JSON/Markdown snapshots as authority"
  (`mcp/linter_quarantine.py:20`), yet every call imports the ledger, and a review replaces
  it before it commits: the review of a call that died in between is in SQLite after the
  next call, without an event. `ReviewsAreRecorded` excuses exactly these (`unrecorded`).
* Statements whose text begins with a `# noqa` comment inside the string, which
  SQLite does not parse: the rename of the legacy default run
  (`mcp/inactive_catalog_work.py:640`, `:693`, so that every `catalog.work.next` fails
  once there is such a run), and `:3201`, `mcp/catalog_graph.py:417`, `:846`,
  `mcp/catalog_search.py:4122`, `mcp/project_loop_storage.py:1204`. The last one makes
  `project.create` fail after `scenario.json` is written, and a second try is refused
  because the file is there.
* `initialize_if_missing` ("when no active run exists", `mcp/registry.py:492`)
  supersedes a run that is active but is not the default one.
* "Updates SQLite and snapshots only after lease ... guards pass"
  (`mcp/registry.py:1980`): the lease is validated before the write transaction and
  not inside it. A disposition also never releases its lease
  (`mcp/linter_rule_editor.py:984`).
* A disposition that fails is undone by writing back the bytes of the database file
  (`mcp/linter_rule_editor.py:2001`). Without `clobbered` TLC refutes `SnapshotCoversSQLite`
  in a dozen steps: `linter.rule.status` has the database open when the disposition
  commits, git fails, the file is put back under the `-wal` and nothing is undone, then
  the snapshot files are put back; the disposition is in SQLite alone. As the shipped
  `.gitignore` names the database, git fails every time. A backup made while the `-wal` has
  frames lacks them likewise and, put back after a checkpoint, takes back a disposition
  with a receipt; so does one put back over an overlapping disposition (`ReceiptsHold`).
* `project.make` lists at most three paths for a connection (`PROJECT_EXAMPLE_LIMIT`,
  `mcp/project_loop.py:293`), and the upload writes it there and nowhere else: a package
  whose connection is used in a fourth field is refused by
  `languages/make/live_upload.py:606` after its resources were created. Nor does it look
  at what a listed path holds; a connection of one package is written over a field of
  another's blueprint (`AppliedIsWhole` excuses that field).
* `mcp/catalog_graph.py:599` takes one of the current rows of an id; several domains
  and writers may each have one (`OneOpenRow` says how many).
* A second save of a unit leaves current what the first one found and it did not
  (`mcp/inactive_catalog_work.py:1595`).

## Proofs

Every theorem holds for all values of the constants that satisfy the assumptions of
its module, and each assumption is one the code justifies: bounds are natural
numbers, `None` is none of the values it stands beside, sets that the code keeps apart
are disjoint.

`CatalogWorkProofs` (assuming `CatalogWorkConstants`: an injective order, a positive
lease time; at most one legacy run, which is what the code's lookup supports):

* `TypeCorrect`: `Spec => []TypeOK`.
* `Inductive`: `Spec => []IInv`, the inductive invariant.
* `OutputsAreSavedOnce`, `OutputsAreLeased`, `OneActiveRun`: the properties
  `SavedOnce`, `SavedUnderOwnLease` and `AtMostOneActiveRun`.
* `SavesDrainTheirBatch`: the action property `SaveDrainsBatch`.
* `LeasesAreHonoured`: the action property `LeaseHonoured`, without operator writes.

It proves, without operator writes (`OperatorStatuses = {}`,
the hypothesis of each theorem; `catalog_work_leases` has it too):

* `OneBatchIsReplayed`, `CompletedUnitsWereSaved`: `OneBatchPerWorker` and
  `CompletedWasSaved`.
* `ImplementsLedger`: `Spec => KeepsLedger`, the refinement of `BatchLedger`.

`SavedOnce` is not inductive: a save adds an output to whatever unit it finds
under its handle, so one has to know that such a unit has none. `IInv` adds that
a row that carries a handle has no output, carries a handle of its own run and
unit, and is locked by the worker of the handle. Leasing establishes this
because the sweep in the same transaction completes every queued unit with an
output; a save keeps it because `_complete_leased_units` clears the handle of
each row it stores; a restart keeps it because fresh rows carry none; an
operator keeps it because only the status is written. The proof has a lemma for
each action, and a case for each conjunct the action can disturb. It holds with
any `OperatorStatuses`, any number of calls in flight and any stale clock: the
clock plays no part in it. `SavesDrainTheirBatch` follows: the batch of a save is
every row under its worker and handle, and by `IInv` no other worker's row can
carry that handle.

`LeasesAreHonoured` is where the clock matters. `ClockInv`, proved apart, says
that what a call has read is not ahead of the clock, so a late sweep reclaims too
little and never too much; and `IInv` keeps the repair away from a row with a
live lease, which has no output.

The refinement needs `QInv`: a row is "working" exactly when it carries a handle,
a completed row has an output, and a worker's working rows of one run carry one
handle. The last part is what makes a save of one handle everything the worker
holds (`SaveAll`). A lease keeps it since the swept table, in the same
transaction, has no live row of that worker; and what the sweep leaves working
has not expired on the clock of the call, so "no live row" is "no row". `Steps`
sorts every step into letting go, a lease, a save or nothing, which are
`Release`, `Grant`, `SaveAll` and a stutter of `BatchLedger`. With operator writes
the first part of `QInv` fails at once, and so does the refinement.

`CatalogGraphProofs` proves the type invariant and the four properties of `CatalogGraph`. `OneOpenRow` is
inductive as it stands, because every action closes what it is about to stand
beside: a tool the whole of an id and domain, a save its own run's rows.
`HistoryIsKept` needs types only. The two properties of the log are proved together
as `LogInv`: for each proposal the last event about it gives its status (`Stands`) and
the last proposal gives its content (`Says`), and every edge is borne out by three
positions of the log (`BorneOut`). An apply establishes the third from the first two,
and appending an event disturbs none of them, as positions before it do not move.

`KnowledgeRebuildProofs` proves the type invariant and the four properties of
`KnowledgeRebuild`. `Base` holds
always: files have been created before they have a name, a build that copied is in
`built`, and before there is a database nothing was committed and nobody has it open
(`NothingBefore`). `Alone` is what holds while builds do not overlap: at most one is under
way, the build path names the file it has open, and that file is not the database. On it
rests `Survives`: what was acknowledged is in the database but for `excused`, and the
bundle that a build loaded, then its file, cover the rows it has taken so far but for
`since` and a ledger with other columns. The count compares cardinalities, so one may
expect a gap there. `CopyIsWhole` shows why there is none: a table is copied whole, or
skipped for its columns, and a protected one that is skipped and has rows fails the
build. `Clean` says that, while nobody opened the database beneath a publish, the `-wal`
holds frames of the current file only, every connection is to it, and a build that has
copied while no tool is connected has left no frames.

`RawSpecLedgerProofs` proves the type invariant and the six properties of
`RawSpecLedger`. The key lemma is
`WrittenIsTheBundle`: if payloads and manifest rows agree before, then after `Written` the
current rows of both tables are the bundle, one row for each app, whatever the times
are. It makes `CurrentRowsAgree` inductive. `Merging` says what a sync that has merged
will write, relative to what is current if nobody wrote since, and gives
`PartialSyncKeepsTheRest`. `Times` says that every time in the tables is that of a sync
that is done; so a sync with a time of its own replaces no row (`HistoryIsKept`) and
collides with no review (`PendingReviewsMatch`, with the parts of `Matching`), and one
that commits in order has a time after all others (`TimelineIsDisjoint`).
`ImplementsJournal` maps every step of the ledger to one of `SpecJournal`. What is as of
a time after a commit in order (`AsOfAfter`) is what was, before the commit's time, and
the bundle from then on; and the rebuild is the harder step, because it dates the current
rows by the latest time among them. `Latest` says that no time in the tables is later than
a current row of the manifest, which every sync opens anew, so that a rebuild moves no
boundary. `ManifestsImplementJournal` says the same of the manifest rows.

`LiveUploadProofs` proves the type invariant and the four properties of `LiveUpload`, for
any packages. `Steps`
sorts the calls into an object that the upload hears of, one that it does not, a failure,
and going on. `Safe` says that what is made is in the record while the upload works
(`Aware`), that a rollback still has on its list all that exists and is not excused, in
its order (`Owed`), that what is bound is of the kind and name of its key (`BoundIs`), and
that a reference points to an object with a later turn in the cleanup (`RefersLater`); a
delete of the first of the list can then leave no reference to it behind. `Whole` says
that the object of a row is at the row's position (`InOrder`), which gives
`AppliedIsWhole`, and that a step that fails without a fault has met a flaw of the package
(`Blameless`), which gives `SoundPackagesApply`. A blueprint that `Bind` refuses has one:
what is bound by then is every row, so that a field is left over only if nothing stands
for it.

`LinterRuleEditorProofs` proves the type invariant and the three properties of
`linter_rule_faults`.
All are for any number of dispositions in flight, of tools and of clocks.
`Base` adds to the types that the first commit is never amended, so that git tracks the
database always or never (`Fits`). `OneLeasePerRequest` is not inductive, because tables
of leases come back from copies: `Kept` says it of the table and of each copy, in the
file, in a call, in the index and in every commit; time and sweeps only end leases, and a
call that grants one has swept at a clock that is not ahead.

`SnapshotCoversSQLiteHolds` and `ReceiptsHoldAlways` rest on `Sound`, which holds until
the stores are clobbered. It says of each call what its own disposition has come to
(`Progress`: the export covers the transaction that is open, and what is committed is in
SQLite, in the index if that is not empty, and in HEAD), and of a call whose backup is not
stale that the backup covers itself, is covered by what there is, and has every
disposition that another call has committed or that has a receipt (`Faithful`). Another
call's write makes a backup stale, so only the call's own steps have to keep `Faithful`;
a backup that is put back while it is not stale then takes back the call's own disposition
and no other. `InGit` says that each commit covers itself, and that each candidate with a
receipt is in HEAD and in HEAD's parent, unless HEAD is the commit of that candidate
(`InHead`); hence a rollback takes back one receipt only. An overlapping amend keeps
`InHead`, because what it replaces HEAD's tree by has all that was pending when it was
staged.

`LinterQuarantineProofs` proves the type invariant and the five properties of
`linter_quarantine`: `IntakeStands`, `ReviewsAreRecorded` and
`ReviewPathsExist` for any number of calls, any files and any failures. For
`IntakeStands`, `Past` says that what a call has looked at is there still, and `Covers`
that the call with the lock will commit every row there is. Neither of the properties of
reviews is inductive, because reviews come back from files and rows read earlier.
`Traced` says of every review by a reviewer, in SQLite, in the ledger, in each copy a call
has read and in each table it will commit, that its file is as new (`Filed`) and that it
has its event or belongs to a failed call (`Kept`). The exception is the review of the call
that has written the ledger and not committed (`Open`): it holds the lock, so nobody can
import it until the commit records it or the failure makes it one of the unrecorded.
`Grows` says that no step takes any of this back; decisions are filed by the holder of the
lock in the order of their numbers (`InTurn`), which is why a file only gets newer.

`CoverageIsDerivedHolds` and `OutcomesStandHolds` assume `OneAtATime`, one slot that
serves any number of calls one after the other: two calls at once refute both, as each
imports the files of before the other. `Alone` is their invariant. `Since` relates a row
and a review of the ledger: it is the row's own, or that of a call that failed and later
than the row's, so that an import can only carry a row on. While no call is at work the
ledger is so to the rows; a call's own rows are so to those it began with
(`WritesAlone`), and the ledger to the call's rows when it exports nothing; once the ledger is written it is `Exported`, and the commit
or the failure makes one or the other of these facts true again. `Spares` says which
outcomes a call may change before it commits them.

`ProjectFileProofs` proves the type invariant and all five properties of `ProjectFile`,
for any scenario (`OriginalIsAScenario`: a tree with an id each), any edits whose
arguments are of the kind that the code accepts (`EditsAreEdits`) and any number of calls.
Four groups of lemmas are about outlines. `EndIs`, `Inside` and `HandlersAre` say where
what hangs from an entry ends, by the least number of a set. `SplicedTree`: an outline
with a part of it replaced is again that of a tree, if the part fits in the level of its
place. `RestIsKept` and `InsertedIs`: a part replaced below a module leaves what is
without that module as it was, and a module put in can be taken out again.
`SplicedIds`: ids stay apart in a splice if those of the new part are not among those that
stay. From these, one lemma for each operation (`AddedIsSound` to `HandledIsSound`) proves
`Sound`: the result is a scenario, keeps ids apart unless the edit brings ids past the
check, and leaves the others as they were. The calls add the invariant
`Edited`: what a call is about to write is what its edit makes of what it read. With
`Sound` it gives `EditsKeepIds` and `OthersAreKept`, and the types of the scenarios in
the type invariant.

`Traced` says what a
version on its way was made from (`Follows`): every edit in its base was answered, and
one that was answered before the call loaded and is not in the base is missed by an
edit that is. A write then loses only what the writer had not seen. `Torn` says that of
two that have the file open one opened it beside the other, and that what is neither a
version nor being written was `Excused` when it came about. `Brought` says of the file and of each
version on its way that a double id has an edit to blame; it needs `Traced`, since the
edits of a version must be those of answered calls, which no later step changes, and
`EditsKeepIds` for the one edit that a call makes.

Only model-checked: `EveryUnitCompletes`, as liveness under fairness is beyond the prover,
and the properties of the three runs that are refuted, which do not hold.

## Not modelled, and next

* Pure algorithms: cycles and routes, graph deduplication, layout, execution paths,
  each to be compared with a direct definition over small graphs. They and the
  rendering, the text checks and the tables around them are most of the code by lines,
  keep no state, and are what the unit tests of the repository are good at.
* `OAuth` tokens and sessions: one lock, one process; the interleavings that matter
  would be of two servers over one file, which only the last to write survives.
* Guided deployment, browser validation, notes, drafts and `project.make`: gates over
  reports and files that one call writes.
* The integration reviews of the linter quarantine and their history: each sweep
  computes them anew from one row.
* `catalog_graph_projection.py`: its rebuild has no caller.

No module has a `RECURSIVE` operator, so that all of them can be proved about.
