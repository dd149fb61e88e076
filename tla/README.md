# Formal specification of miningpool-observer

miningpool-observer compares the block templates of its own Bitcoin Core node
with the blocks that mining pools produce. A daemon polls the node over RPC and
fills a PostgreSQL database; a web server shows what is in the database. This
directory holds TLA+ modules that model the daemon's threads, the tables they
share and the web server's queries, configurations that check them with TLC, and
proofs that TLAPS checks.

## Inventory

| Part | Source | State it keeps | Operations |
|---|---|---|---|
| Main loop | `daemon/src/main.rs` `main_loop` | queue `last_templates`; locals of a round | poll a template; keep it, or fetch the block that changed the tip (or the one that was skipped) and call `process` |
| Processing | `main.rs` `process`, `processing.rs` | locals only | select a template, compare, one INSERT per table, clear the queue |
| Template selection | `main.rs` `select_best_template_for_block` | none | least `missing + extra`, first minimum |
| Conflict sets | `processing.rs` `build_conflicting_transactions` | list of conflicts | per contested outpoint: new, extend or merge |
| Packages | `processing.rs` `build_packages` | list of packages | group neighbours that spend each other |
| Tables | `migrations/`, `daemon/src/db.rs` | the rows, their primary and foreign keys | autocommitted INSERTs; two multi-statement transactions |
| Tags | `shared/src/tags.rs`, `db.rs` `insert_transactions`, `main.rs` `retag_transactions` | column `transaction.tags` | merge on insert; a one-shot thread that retags everything |
| Sanctioned addresses, UTXOs | `main.rs` updater and scan threads, `db.rs` | tables `sanctioned_address`, `sanctioned_utxo`, `..._scan_info` | download and replace; `scantxoutset` and replace; `process` adds outputs |
| Pool identification | `main.rs` dataset updater, re-identification | shared mutex with the pool list; column `block.pool_name` | download and replace; one-shot thread over unknown pools |
| Web queries | `web/src/db.rs`, `web/src/handler.rs` | none | several SELECTs per request |
| Web pages, feeds, images | `web/src/*`, `www/` | none | presentation |
| Configuration, startup | `shared/src/config.rs`, `main.rs` `main` | none | read once, panic on error |
| Metrics | `shared/src/prometheus_metric_server.rs`, `daemon/src/metrics.rs` | write-only counters | |

Interaction: the daemon's main thread, its helper threads and the web server
share nothing but the database (and, for pools, one mutex); none of them holds a
database transaction across more than one statement, except the two replace
operations. The node is a separate process that moves whenever it wants.

What is hard:

- a round of `main_loop` makes up to five RPC calls, and the node's tip may move
  between any two of them: skipped blocks, reorgs;
- every call and every INSERT can fail, and the reaction is always the same:
  return, keep `last_templates`, try again in the next round against what the
  failed attempt left in the tables;
- the daemon can be killed between two INSERTs; nothing repairs or completes a
  block afterwards;
- `last_templates.clear()` at the very end of `process` is the only thing that
  lets the loop leave a block behind;
- conflicts are built in the order of a `HashSet`;
- helper threads read, compute for minutes, and overwrite;
- the web server builds a page from up to five SELECTs without a transaction, and
  unwraps lookups of what an earlier SELECT named.

What makes the parts correct:

- main loop and processing: no block is recorded twice; a block is compared with
  templates for that block; the height column is the block's height; the queue
  is bounded; the loop gets past every block; what the tables say about one
  block belongs together;
- conflict sets: the connected components of the contested outpoints, whatever
  the order; every transaction of them that can be built is tagged;
- tables: what the web server looks up without handling `None` is there;
- packages: a partition of the transactions into runs of neighbours that depend on
  each other, cut only where nothing connects;
- tags: no row loses a tag, or at least none that cannot be computed again;
- sanctioned UTXOs: the table is a scan and what was added since, and catches up;
- pool identification: a pool once found stays, the dataset gets newer only, blocks
  without a pool are tried again, nobody keeps the mutex;
- web queries: no handler panics, a page does not mix halves of a comparison, and a
  visitor who follows the pages of a list sees all of it.

`PROJECT.json` lists the hazards with their lines and the properties that cover
them.

## Modules

| Module | Contents |
|---|---|
| `Observer` | node, `main_loop`, `process`, the tables `process` writes, failures, restart; properties |
| `MCObserver` | block tree, transactions and templates for TLC |
| `ObserverProofs` | type correctness; `HeightInv`; `NeverProcessedAgain`, `OneAttemptWrites`; what holds when the database works |
| `Record` | abstract: what the tables promise to their readers |
| `RecordProofs` | `Observer` implements `Record`; what the tables hold of a block |
| `WebReader` | extends `Record` by the pages of the web server, one SELECT per action |
| `MCWebReader` | three blocks with ids, times, heights and pools for TLC |
| `WebReaderProofs` | all properties of `WebReader` |
| `PoolIdentification` | the shared dataset, its mutex and the three threads that use it |
| `MCPoolIdentification` | three blocks and three versions of the dataset for TLC |
| `PoolIdentificationProofs` | names are kept, versions advance |
| `ConflictSets` | `build_conflicting_transactions` |
| `MCConflictSets` | symmetry for TLC |
| `ConflictSetsProofs` | disjointness, components, tagging |
| `TagMerge` | `insert_transactions` and the retag thread on column `tags` |
| `MCTagMerge` | two transactions and their tags for TLC |
| `TagMergeProofs` | what the two threads cannot take from each other |
| `SanctionedUtxos` | address updater, scan thread and `process` on their two tables |
| `MCSanctionedUtxos` | a chain of two blocks and three lists for TLC |
| `SanctionedUtxosProofs` | exactness of the UTXO table, recognition of spends |
| `Packages` | `build_packages` |
| `PackagesProofs` | partition into connected, maximal runs |

A definition whose comment starts with "Mutant of" is a plausible bug in the
definition after it. No specification uses it; a property is only worth keeping
if replacing the definition by its mutant breaks it.

### Observer and the code

`pc` names the call the daemon is about to make, so every RPC call and every
database statement is a step of its own and the node, a failure or a restart can
come between any two.

| Step | Action | Code |
|---|---|---|
| `get_block_template` | `FirstTemplate`, `SameTip`, `TipChanged` | `main.rs` 309-369 |
| `get_block` | `GetBlock`, `GetBlockSkipped` | 369-406 |
| `get_block_hash`, `get_missed_block` | `GetBlockHash`, `GetMissedBlock` | 407-442 |
| `get_fees` | `GetBlockTxidFee` | 444-512 |
| `process` | `SelectTemplate` | 535-549, 785-800 |
| `connection`, `retry_connection` | `GetConnection`, `ConnectionFails` | 589-609 |
| `addresses`, `utxos` | `SanctionedAddresses`, `GetSanctionedUtxos`, `LookupFails` | 611-625 |
| `block` ... `debug` | `InsertBlock` ... `InsertDebug` | 662-783, `db.rs` |
| any RPC step | `RpcFails` | the `Err` arms of `main_loop` |
| any INSERT | `InsertRejected` (keys), `InsertFails` | the `Err` arms of `process` |
| any | `Restart` | the process is killed; only the tables survive |

`Return(q)` is what happens after `process` returns with queue `q`: in the branch
for skipped blocks (`missed`) `main_loop` pushes the current template, without a
look at the capacity; `NextRound` forgets the locals. Sleeps are not modelled:
any number of node steps may happen between two daemon steps.

Data: a transaction is the outpoints it spends and the sanctioned outputs it
creates. A template is the block it builds on, its height and its transactions.
A row of table `block` keeps the template it was made from and the sanctioned
transactions counted as missing. A transaction in `Unbuildable` is one for which
`build_transaction` returns an error; it gets no row in table `transaction` but is
still named by the rows of other tables. A block's set of rows in
`debug_template_selection`, the last table to be written, is abstracted to "has
rows" (`Complete`). `conflicting[b]` is the union of the conflict sets; how they
are grouped is `ConflictSets`.

External behaviour: the node's chain (`NodeConnect`, `NodeReorg`; a reorg leads to
a longer chain), `getblocktemplate` (the template builds on the tip),
`getblockhash` (by height in the chain as it is now), PostgreSQL's constraints and
autocommit. The node serves `getblock` for stale blocks too.

### Record, the promise to readers

`Record` says what a reader of the database may rely on: the rows of a block are
written once, by one attempt, in the order `block`, `transaction`,
`transaction_only_in_block`, `transaction_only_in_template`,
`sanctioned_transaction_info`, `conflicting_transactions`,
`debug_template_selection`; an attempt may be given up after any of them (`GiveUp`),
and nothing completes or changes what it has written. The comparison a row is about is
chosen once (`WriteBlock`) and all later rows of the block follow from it.

`Observer` instantiates it at the end of its module. The refinement mapping: a block is
`stored` if it has a row, `row` is the comparison of the block with the template in that
row, `writing` is the block in hand while `pc` is at one of the INSERTs after the first,
`next` is that INSERT (`sanctioned_utxo` is not one of the tables, so that INSERT is a
stutter). An INSERT of `process` is the write of the same name; a failure, rejection or
restart in the middle is `GiveUp`; everything else is a stutter.

### WebReader and the code

`WebReader` extends `Record`, so the daemon it is checked with is the abstract one: what
holds there holds for every daemon that implements `Record`, and `RecordProofs` shows
that `Observer` does. It adds the columns that only the server reads (`id`,
`pool_name`), and one action per SELECT of the functions of `web/src/db.rs` that need
more than one:

| Page | Actions | Code (`web/src/db.rs`) |
|---|---|---|
| block list, by pool | `BlocksList`, `BlocksCount` | `blocks`, `blocks_by_pool` |
| a block | `FindBlock`, `SelectOnlyInTemplate`, `SelectOnlyInBlock`, `SelectSanctioned` | `block_with_tx`, `missing_sanctioned_txns_for_block` |
| missing transactions | `MissingCount`, `MissingList`, `SelectTransactions`, `SelectTemplateRows`, `SelectMissingBlocks` | `missing_transactions_data` |
| a missing transaction | `SelectTransaction` and the last two | `single_missing_transaction_data` |
| conflicts | `ConflictingList`, `ConflictingCount`, `SelectConflicts`, `SelectConflictTransactions`, `SelectConflictBlocks` | `conflicting_transactions_data` |
| conflicts of a block | `FindBlock`, `SelectConflicts`, `SelectConflictTransactions` | `single_block_with_conflicting_transactions_data` |
| debug rows | `DebugList`, `DebugInfos`, `DebugBlocks`, `DebugCount` | `debug_template_selection_infos` |

`result` holds what the SELECTs have returned; a lookup that the code unwraps and that
finds nothing ends in status `panic`. A visitor asks for the first page of a list, or for
a block or a transaction, and may follow the links to further pages. `before` and `crawl`
are history variables. `id` follows a sequence with gaps (`Gap`): a rejected INSERT uses
up an id. The position of a transaction in its template and the number of transactions in
a block, by which `missing_transactions_data` leaves rows out, are the constant
`Excluded`.

### PoolIdentification and the code

`main`, `updater` and `reid` are the program counters of the three threads
(`daemon/src/main.rs`: startup and main loop, `start_pool_identification_update_thread`,
`start_retry_unknown_pool_identification_thread`). A step that locks the mutex and lets it go again within the
step needs `holder = {}`; the re-identification thread keeps it across its UPDATE,
because the guard of `pools.lock()` lives to the end of the `if let`. `UpdateFails` and
`NotIdentified` go on with the next block; a block that the node does not return ends the
thread (`ReidFails`). `NewBlock` takes any block, one that has a row already too: the
loop tries a block again after a failed INSERT or a restart (`Observer` has the
conditions), and the primary key rejects it (`InsertRejected`). A dataset is a version number and the pool it gives for a block
(`PoolOf`, the library function `identify_pool`).

### ConflictSets and the code

Init chooses any assignment of spenders to outpoints. `NewConflict`,
`ExtendConflict` and `MergeConflicts` are the three arms of the `match` at
`processing.rs` 970-1029, for an outpoint chosen freely from the ones still to
visit. `ReturnConflicts` is the code after the loop: a transaction of a conflict that
`build_transaction` cannot build (`Unbuildable`, as in `Observer`) is only logged. It
stays in the conflict and gets no tag, so `TaggedExactly` is about the others; any
transactions may be unbuildable. The vectors of `Conflict` are
sets: the code pushes what is not contained, and sorts and dedups after a merge.
The order of transactions and outpoints within a row is left out.

### TagMerge and the code

Every statement of `insert_transactions` (`db.rs` 35-80) and of the retag thread
(`main.rs` 964-1070) is a step: `InsertNew`; then per transaction that was there
`LoadTags` and `UpdateTags` or `SameTags`; `LoadTransactions` and
`RetagTransaction`. Tags are sets. The code compares arrays, and an array that was
never merged is not sorted, so equal sets may still be written (`UpdateTags` has no
guard) but only equal sets may be skipped (`SameTags`). Which tags a transaction gets
is abstracted to those that follow from it alone (`Intrinsic`) and those that depend
on the block, the addresses and the UTXOs at hand (`Contextual`: Conflicting,
ToSanctioned, FromSanctioned); the retag thread can compute the first kind and
ToSanctioned. `Retag` is the configuration option.

### SanctionedUtxos and the code

The three threads are three program counters. The updater downloads and replaces in
one database transaction; it is the only writer of its table, so that is one step.
The scan thread's replacement is two steps, `DeleteUtxos` and `InsertScanned`, with
PostgreSQL's read committed isolation: the others see the deleted rows until the
commit; a row `process` inserts in between survives, or makes the INSERT fail
(`InsertRejected`); an INSERT of a row that is being deleted waits. `process` is
reduced to what it does with the two tables; everything else it stores is
`InsertInfos`. `next` stands for the queue of templates: `main_loop` processes the
block at the height it has a template for, and drops or keeps the template as in
`Observer`. The chain is linear. `applied`, `since`, `fresh` and `loaded` are history
variables: no action reads them in its guard or for another variable.

### Packages and the code

A transaction is its position in the list, with the positions and outside
transactions it spends from. A package is the set of its positions: the order within
a package is the (reversed) order of the list. `StartPackage`, `ExtendPackage` and
`ClosePackage` are the branches of the loop at `processing.rs` 349-379;
`ReturnPackages` is the rest of the function, with `packages.reverse()`.

## Runs

| Run | Configuration | Shows |
|---|---|---|
| `observer_reliable` | fork, RPC failures, a restart, database works, fairness | `InsertedOnce`, `OneParent`, `QueueBounded`, `HeightCorrect`, `PairedUnlessSkipped`, `WatchesTip`, `NextBlockRecorded` |
| `observer_faults` | fork, RPC failures, a restart, 2 database failures anywhere and unbuildable transactions | `TypeOK`, `NeverProcessedAgain`, `ConflictsResolvable`, `CompleteRowsExact`, `OneAttemptWrites`, `ImplementsRecord` |
| `web_reader` | every page that needs several SELECTs, next to the daemon | `WebTypeOK`, `LookupsSucceed`, `SidesWhole`, `CompletePageExact`, `MissingRepeatedly`, `ListedPageExists`, `CrawlComplete` |
| `pool_identification` | three versions of the dataset, a failing call, a restart, fairness | `TypeOK`, `NamedNeverRenamed`, `DatasetNeverOlder`, `UnknownRetried`, `MutexNeverKept` |
| `conflict_sets` | 4 outpoints, 3 + 3 transactions, one a side unbuildable, all orders | `ConflictsDisjoint`, `ConflictsAreComponents`, `TaggedExactly` |
| `packages` | every dependency among up to 5 transactions and one outside | `PackagesPartition`, `PackagesConnected`, `PackagesMaximal` |
| `tag_merge` | with and without retagging, 2 calls of `insert_transactions`, failures, restarts | `TypeOK`, `RetagCovers`, `MergedTagsThere`, `IntrinsicKept`, `TagsGrowAlone` |
| `sanctioned_utxos` | list changes, duplicates, failures everywhere, a restart, fairness | `TypeOK`, `TableExact`, `ScannedSpendFlagged`, `TablesConverge` |
| `reorg_pairing` | violation of `PairedWithParent` | finding 1 |
| `debug_fault` | violation of `WatchesTip` | finding 2 |
| `tag_lost` | violation of `TagsGrow` | finding 3 |
| `sanctioned_lost` | violation of `RecentSpendKnown` | finding 4 |

`SidesWhole` holds because the server reads the tables in the order opposite to the one
in which the daemon fills them; `ListedPageExists` because the count of a list is read
after the list. Neither order is documented in the code, and either could be turned
around in good faith.

Run one with `tlc -config MCObserver_faults.cfg MCObserver`, the proofs with
`tlapm ObserverProofs.tla` and so on.

### Findings

1. `reorg_pairing`: the branch for skipped blocks finds "its respective block" by
   height in the chain as it is now. After a reorg by two blocks that is a block of
   the new branch, whose parent the template does not build on; the comparison is
   stored. The comment above the branch says a comparison needs equal hashes.
2. `debug_fault`: a failed INSERT of debug rows is logged as non-critical but
   returns before `last_templates.clear()`. The loop then processes the same block
   without a pause, is rejected by the primary key each time, and takes no template
   on the new tip until another block arrives. The same happens after any INSERT
   that fails once the block's row is stored; the debug rows are the case where the
   code's own message denies it.
3. `tag_lost`: the retag thread writes back tags merged with a snapshot it took
   when it started. A contextual tag that `insert_transactions` has merged since is
   lost. The other direction exists too: `insert_transactions` loads, the thread
   writes ToSanctioned, `insert_transactions` writes back without it.
4. `sanctioned_lost`: a scan takes minutes. `process` inserts the outputs of a block
   that arrives meanwhile; the replacement deletes them and stores the older scan. A
   spend in one of the next blocks is not recognised until the next scan.

Observations without a run of their own:

- `PairedWithParent` also fails without a reorg when `process` fails once in the branch
  for skipped blocks: the queue then holds templates of two parents, the check before
  the next `process` looks at the last one only and the selection at all of them. The
  same push does not look at the capacity, so the queue can stay above
  `MAX_OLD_TEMPLATES`. `OneParent`, `QueueBounded` and `PairedUnlessSkipped` are therefore
  properties of a working database.
- `missing_sanctioned_txns_for_block` (`web/src/db.rs` 349-357) joins
  `transaction_only_in_template` on the transaction alone. A sanctioned transaction that
  several blocks miss is listed once per such block on the page of each of them
  (`SanctionedRows`), with the age and position it had in the other block's template
  next to the size of this one (`macro/template_and_block.html` 176-181), and the text
  above the list counts the rows (`subpage/template_and_block.html` 38-41). TLC refutes
  `result.rows = {b} \X row[b].sanctioned` in 17 states: b1 is complete, its page is being
  built, and the daemon inserts the rows of b2, which misses t1 too. What does hold is
  `CompletePageExact`: all the rows together name exactly the transactions that the row
  of the block counts, and the block's own row is there for each.
- The blocks of the pool "Unknown" are the one list that shrinks: the thread that
  identifies them again runs beside the server. `ListedPageExists` and `CrawlComplete`
  leave that list out.
- The lists are ordered by block time, height or id. Two blocks with the same time or,
  after a reorg, the same height may change places from query to query, so that the one
  or the other is on two pages and the other on none. `CrawlComplete` excuses exactly the
  blocks that share their time or height with another one on the list.

A comment at `main.rs` 545-546 describes the selection of a template as the one that
shares the most transactions, before the block's timestamp; the code, like the FAQ
page, minimises `missing + extra` over the whole queue. `Observer` follows the code.

### Bounds, and why they are enough

- `MAX_OLD_TEMPLATES` is 2 (15 in the code): with 2 the queue can be empty, have
  room, be full and be over its capacity. The proofs hold for every capacity.
- Three blocks on each of two branches: enough to skip a block (two blocks between
  polls), to reorganize by one and by two blocks, and to reorganize back.
- Two database failures: the second hits the retry that the first one caused. One
  restart: a second one adds nothing that survives it but rows, and the proofs hold
  for any number.
- Three blocks that miss different sets of sanctioned transactions, so that a page that
  took in those of another block would differ; one per page, a block counts as recent if its id is one of the latest
  two: a page boundary lies between any two blocks, one block is too old because of a gap
  in the ids and not because of its number, and one is excluded. Two blocks have the same
  height, so that the exception in `CrawlComplete` is needed (TLC finds a missed block
  without it) and reached. One visitor: no page depends on another.
- Three versions of the dataset, three blocks: one that later versions know, one whose
  pool the versions disagree about, one that is never known and comes first in the list.
- Six transactions: a conflict, a sanctioned output that is created and then spent,
  transactions that cannot be built on either side, templates that differ.
- Four outpoints and three transactions a side: two conflicts of two outpoints that
  a later outpoint merges need three outpoints; the fourth lets something be left
  alone or be merged afterwards. One transaction a side cannot be built. Outpoints, and
  the buildable transactions of a side, are symmetric in the algorithm, so the symmetry
  set is sound (no liveness is checked there).
- Five transactions: a package of three next to one of two, a parent shared across a
  gap, and a parent that is not in the list. The proofs hold for lists of any length.
- Two transactions, two intrinsic and two contextual tags, two calls of
  `insert_transactions`: one call to bring a tag between the retag thread's two
  statements and one before; restarts and failures are not bounded there.
- Two blocks, one output, three lists: a scan before, between and after the blocks; a
  list with the address, one without, one that is rejected. Failures are not bounded.
- RPC failures are not bounded: they lead back to the start of a round.
- `CHECK_DEADLOCK FALSE` only in `conflict_sets` and `packages`, where the function
  returns.

### Fairness

`main_loop` never ends, so its steps are weakly fair, and so are the steps of
`process`, which has no loop. An RPC call that fails is made again in a later
round, so `GetBlock` and the other calls are not continuously enabled; they are
strongly fair: a node that is asked again and again answers in the end. No
fairness is assumed of the node's blocks, of failures or of restarts.
In `SanctionedUtxos` the updater and the scan thread loop forever; a statement or call
that may fail is strongly fair for the same reason, and what depends on the thread
alone (starting over, rejecting a duplicate) is weakly fair. `process`, the node and
the server of the list are not assumed to do anything.
In `PoolIdentification` a step of a thread is weakly fair, and a step that waits for
the mutex while another thread may take it again and again is strongly fair. Nothing is
assumed of new blocks and new datasets.
`NextBlockRecorded` excuses a restart and a reorg that removes the block, which both
may legitimately lose it, and is checked without database failures, which do (finding
2). `UnknownRetried` excuses a failing call and a restart.
`WebReader` has no liveness properties: a handler is a straight line.

## Proofs

Assumptions (evaluated by TLC in every run): `Parent` and `Height` describe a tree
and `ReorgTargets` are chains in it (`TreeAssumption`), transactions and blocks
have the stated types (`TxAssumption`), the bounds are naturals and the capacity is
not 0 (`BoundAssumption`). The tree, the transactions, the capacity and the numbers
of failures and restarts are arbitrary.

| Theorem | Statement |
|---|---|
| `TypeCorrect` | `Spec => []TypeOK` |
| `NoReprocessing` | `Spec => []NeverProcessedAgain` |
| `OneAttempt` | `Spec => OneAttemptWrites` |
| `ConflictsNamed`, `RowsExact` | `Spec => []ConflictsResolvable`, `Spec => []CompleteRowsExact` |
| `Refinement` | `Spec => ImplementsRecord`, that is `Record!Spec` |
| `NoDuplicates`, `OneParentQueue`, `QueueCapacity`, `RightHeights` | for a working database, `[]` of `InsertedOnce`, `OneParent`, `QueueBounded`, `HeightCorrect` |
| `RoundPairing` | for a working database, `Spec => PairedUnlessSkipped` |
| `Pairing` | for a working database and no reorg, `Spec => []PairedWithParent` |
| `Disjointness`, `Components`, `Tagging` | the three properties of `ConflictSets` |
| `TagTypes`, `IntrinsicSafe`, `RetagWorks` | `TagMerge`: `[]TypeOK`, `IntrinsicKept`, `[]RetagCovers` |
| `MergeGrows`, `MergeComplete` | `TagMerge`: `TagsGrowAlone`, `[]MergedTagsThere` |
| `UtxoTypes`, `Exactness`, `ScannedSpends` | `SanctionedUtxos`: `[]TypeOK`, `[]TableExact`, `[]ScannedSpendFlagged` |
| `Partition`, `Runs`, `LongestRuns` | the properties of `Packages` |
| `WebTypeCorrect`, `NoLookupFails` | `WebReader`: `WebSpec => []WebTypeOK`, `[]LookupsSucceed` |
| `SidesAreWhole`, `CompletePagesExact` | `WebReader`, the page of a block: `[]SidesWhole`, `[]CompletePageExact` |
| `ListedAreMissing` | `WebReader`, missing transactions: `[]MissingRepeatedly` |
| `ListedPagesExist`, `CrawlsComplete` | `WebReader`, lists: `[]ListedPageExists`, `[]CrawlComplete` |
| `DebugCrawlComplete` | `WebReader`: the list ordered by id is read without exception |
| `PoolTypes`, `NamesKept`, `DatasetAdvances` | `PoolIdentification`: `[]TypeOK`, `NamedNeverRenamed`, `DatasetNeverOlder` |

`NeverProcessedAgain` is not inductive: nothing in it says which block the loop
will look at next. `HeightInv` does: a template in the queue or in hand is for the
height after its parent's and not beyond the tip's successor (`Taken`), every
completed block lies below all heights the queue is for (`QueueHeights`), the round
in progress is about a higher template than the queue's last (`RoundHeights`), and
the block in hand has the height of the queue's last template. A completed block
cannot then be the block in hand. This needs no assumption about failures: a failed
attempt keeps the queue, and only a completed one clears it.

With a working database (`Reliable`: no statement fails, every transaction can be
built) every attempt that is not killed completes, so the queue has one parent and
stored blocks lie below it (`StoredBelowQueue`), even the unfinished ones that a
restart leaves behind: the restart empties the queue and later templates are above
`StoredBelowTip`. `TransactionsThere` says that foreign keys are met, so that
`InsertRejected` cannot happen. That is `ReliableInv`.

`HandInv` adds what a round has found out: unless it is in the branch for skipped
blocks, the block in hand has the parent of the queue's last template, and so of all.

`RowsInv` is about the rows. `TemplateInv` says that every template the daemon holds is
one of the node's, so that a row in table `block` is never mistaken for none;
`RowsSoFar` says what the attempt in progress has written at each INSERT;
`NeverProcessedAgain` keeps an attempt away from complete blocks. No transaction that
cannot be built gets into table `transaction`, so if the foreign key of
`transaction_only_in_template` lets the rows in, all that is missing could be built and
the sanctioned ones have their infos: that is the link between the count in table
`block` and the infos. `Refinement` needs `RowsInv` too: what `Observer` inserts comes
from its locals, what `Record` inserts comes from the row, and `RowsSoFar` says that they
are the same.

Without reorgs a template's parent is the block of the active chain below the
height it is for, and stays so; so the block that the branch for skipped blocks
finds by height is the template's child. That is `PairInv`.

For `ConflictSets` the property "the conflicts are the components of the visited
outpoints" quantifies over the whole graph. The inductive invariant `IInv`
recognises components locally: conflicts cover the visited outpoints, have exactly
the spenders of their outpoints, share no transaction, and no proper non-empty part
of one is closed under sharing a spender. Adding an outpoint joins exactly the
conflicts it touches. Assumed of the unbuildable transactions: nothing but that they are
transactions (`ConflictAssumption`).

For `TagMerge`, `TagInv` says that whatever either thread is about to write has the
transaction's intrinsic tags, or had them when the snapshot was taken and the row has
them still. `AloneInv` adds, without the retag thread, that the loaded tags are the
row's tags until they are written back. Assumed: contextual and intrinsic tags are
disjoint (`TagsAssumption`).

For `SanctionedUtxos`, `TableExact` alone is not inductive: a commit needs to know
what is left of the table. `OpenInv` says that while a replacement is open the table
is made up of what it has deleted and what was added since, disjointly, which holds
because an INSERT of a deleted row waits. `LoadedInv` carries the scan through
`process`. Assumed: only the types of the chain and the lists (`ChainAssumption`,
`ListsAssumption`).

For `Packages`, the invariant describes the open package (`RunInv`: a run that starts
after the positions still to visit, connected) and the closed ones (`ClosedInv`:
consecutive runs in reverse order, connected, with nothing linked across the cut).
Assumed: outside transactions are not positions (`PackagesAssumption`).

For `PoolIdentification`, `NamesInv` says that the blocks on the list of the
re-identification thread are still "Unknown". The main loop cannot disturb that: the
primary key lets it write blocks without a row only, so the two never write the same
row. `VersionInv` says that a download
waiting to be stored is not older than the dataset in use. Assumed: the types of the
datasets, and that "Unknown" is no pool's name (`PoolAssumption`).

For `WebReader` the argument has three layers.

1. The tables in every state. `RecordInv`: a table holds all rows of a block's side or
   none, in the order of the writes (`RowsOK`, with `Written` for the block in hand), a
   block without a row in table `block` has none elsewhere, and a block with debug rows
   has all (`Whole`). `IdInv`: ids are unique and in the order of insertion, so that the
   block in hand has the latest one and the maxima that the queries take exist.
2. How they change. `Grows`: no row is removed or changed by any step, but for the
   `pool_name` of an "Unknown". `WebStep` says that every step of the system satisfies it
   and is one of the daemon, of the visitor or of the server; `ServerByKind` that a step
   of the server is a SELECT of the page that was asked for.
3. What a handler knows after each of its SELECTs. These invariants survive the daemon
   because of `Grows`, and the SELECT itself because of `RecordInv`. `BlockInv`: if the
   template's side was there when it was read, the block's side was written before and
   is still there when it is read next. `MissingInv`: the transactions of a page still
   have more than the threshold of blocks above the bound that was in force when the page
   was asked for; the bound only rises (`NewestGrows`), so the later SELECT that filters
   with a higher one chooses fewer. `LookupInv`: a conflict names transactions that are
   in table `transaction`, although no foreign key says so, because it is written after
   the two tables that have one. `ListInv`: a block that was on the list at the start and
   has not been shown has at least as many blocks before it as the pages served so far
   hold. OFFSET alone does not say that: an INSERT moves rows to later pages, never to
   earlier ones, and `PageInOrder` turns it into what LIMIT and OFFSET return. If such a
   block is left, the count that follows therefore announces another page.

Assumed (`WebAssumption`): the types of the columns, a page size other than 0, and that
block hashes and txids are finitely many, so that the rows of a table can be counted.
Block times and heights are arbitrary, ties included. Since `Observer` implements
`Record` (`Refinement`), the theorems are about the daemon as it is modelled there.

Only model-checked: `NextBlockRecorded`, `WatchesTip`, `TablesConverge`,
`UnknownRetried` and `MutexNeverKept`: liveness is outside what TLAPS proves here.

## Not modelled

- Fees, weights, package fee rates and positions: columns that no property here
  relates. Template times: which of the debug rows is marked as the selected one depends
  on them (two templates with the same second are both marked); the node returns the
  same template for some seconds, which the model does not tell apart.
- The mempool age lookup of `process`: its failures only leave ages out.
- Template transactions that cannot be deserialised: `process` skips them.
- PostgreSQL's limit on bind parameters: an INSERT that exceeds it fails, which
  `InsertFails` covers.
- Pages and feeds that are one SELECT (pool statistics, sanctioned blocks, scans, FAQ),
  and the drop-down list of pools: they see one state of the database.
- Databases whose ids were not handed out by the sequence alone (imported backups): then
  the latest ids are not the latest blocks.
- HTML, feeds' layout, OpenGraph images, formatting helpers, routing: presentation.
- Configuration and startup (read once, panic on error), Prometheus metrics (write-only).

## Plan

1. Template times in `Observer`: which debug row is marked as selected.
