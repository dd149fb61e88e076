----------------------------- MODULE WebReader ------------------------------
(***************************************************************************)
(* The web server beside the daemon: the functions of web/src/db.rs that   *)
(* build a page, and the handlers that call them.  A page is built from    *)
(* several SELECTs without a transaction around them, so the daemon        *)
(* (Record, and its re-identification of pools) writes between any two.    *)
(* Every action of the server is one SELECT.                               *)
(*                                                                         *)
(* One visitor asks for a page at a time: no page depends on another.  He  *)
(* starts at the first page of a list and may follow the links to the next *)
(* ones.  Feeds use the functions of the pages.                            *)
(***************************************************************************)
EXTENDS Record

CONSTANTS
    BlockTime,             \* table block: block_time
    Height,                \* table block: height
    Pools,                 \* pool names other than "Unknown"
    Excluded,              \* rows of transaction_only_in_template that do not
                           \* count as missing: <<block, tx>> with a position
                           \* in the last 2% or in a block with one transaction
    MAX_BLOCKS_PER_PAGE,
    Threshold,             \* a transaction is listed if missing more often
    Window,                \* ... from the blocks with the latest ids
    FirstName,             \* pool_name of the row that process inserts
    Gap                    \* how far the sequence of ids has moved on when a
                           \* block is inserted: rejected INSERTs use up ids

Unknown   == "Unknown"
AllBlocks == "all"         \* no ?pool= in the query
NotThere  == "no row"

ASSUME WebAssumption ==
    /\ IsFiniteSet(Blocks) /\ IsFiniteSet(Txs)   \* hashes have 256 bits
    /\ BlockTime \in [Blocks -> Nat] /\ Height \in [Blocks -> Nat]
    /\ Pools \cap {Unknown, AllBlocks, NotThere} = {}
    /\ Excluded \subseteq Blocks \X Txs
    /\ MAX_BLOCKS_PER_PAGE \in Nat \ {0}
    /\ Threshold \in Nat /\ Window \in Nat
    /\ FirstName \in [Blocks -> Pools \cup {Unknown}]
    /\ Gap \in [Blocks -> Nat \ {0}]

VARIABLES
    id,          \* table block: id, 0 while there is no row
    pool_name,   \* table block: pool_name
    request,     \* the page that was asked for
    step,        \* the SELECT the handler is about to do
    result,      \* what its SELECTs have returned
    before,      \* history: the database when the page was asked for
    crawl        \* history: the lists on the pages of the same visit

webvars  == <<request, step, result, before, crawl>>
colvars  == <<id, pool_name>>
vars     == <<recordVars, colvars, webvars>>

MaxId(S)  == IF S = {} THEN 0
             ELSE CHOOSE n \in { id[b] : b \in S } : \A b \in S : id[b] <= n
Named(p)  == { b \in stored : p \in {AllBlocks, pool_name[b]} }
TemplateBlocks(tx) == { b \in Blocks : tx \in only_in_template[b] }
NewestMissing == MaxId({ b \in Blocks : only_in_template[b] # {} })

NoResult == [list |-> {}, pages |-> 0, missing |-> {}, extra |-> {},
             rows |-> {}, found |-> {}, blocks |-> {}, status |-> "none"]
NoRequest == [kind |-> "none", page |-> 0, pool |-> AllBlocks, arg |-> {}]
Nothing   == [complete |-> {}, newest |-> 0]
NoCrawl   == [first |-> {}, seen |-> {}]

WebInit ==
    /\ Init
    /\ id = [b \in Blocks |-> 0]
    /\ pool_name = [b \in Blocks |-> NotThere]
    /\ request = NoRequest /\ step = "idle" /\ result = NoResult
    /\ before = Nothing /\ crawl = NoCrawl

-----------------------------------------------------------------------------
(* The daemon                                                              *)

\* insert_block; the id is the next value of a sequence.
DaemonInsertBlock(b) ==
    /\ WriteBlock(b)
    /\ id' = [id EXCEPT ![b] = MaxId(stored) + Gap[b]]
    /\ pool_name' = [pool_name EXCEPT ![b] = FirstName[b]]
    /\ UNCHANGED webvars

DaemonInsertRest == WriteRest /\ UNCHANGED <<colvars, webvars>>

\* update_pool_name_with_block_id
DaemonIdentifies(b) ==
    /\ pool_name[b] = Unknown
    /\ \E p \in Pools : pool_name' = [pool_name EXCEPT ![b] = p]
    /\ UNCHANGED <<recordVars, id, webvars>>

-----------------------------------------------------------------------------
(* Lists                                                                   *)

CeilDiv(n, d) == (n + d - 1) \div d

\* Mutant of PageCount: the number of the last page, counted from 0.
LastPage(S) == CeilDiv(Cardinality(S), MAX_BLOCKS_PER_PAGE) - 1

\* max_pages
PageCount(S) == CeilDiv(Cardinality(S), MAX_BLOCKS_PER_PAGE)

\* The rows that LIMIT and OFFSET may leave of S ordered by key, descending;
\* rows with the same key come in any order.
Page(S, key, page) ==
    LET offset == MAX_BLOCKS_PER_PAGE * page
        Down(A, B) == \A a \in A, b \in B : key[a] >= key[b]
    IN  { L \in SUBSET S :
            \E skipped \in SUBSET (S \ L) :
               LET rest == S \ (skipped \cup L)
               IN  /\ Down(skipped, L) /\ Down(skipped, rest) /\ Down(L, rest)
                   /\ skipped = S \/ Cardinality(skipped) = offset
                   /\ Cardinality(skipped) <= offset
                   /\ rest = {} \/ Cardinality(L) = MAX_BLOCKS_PER_PAGE
                   /\ Cardinality(L) <= MAX_BLOCKS_PER_PAGE }

-----------------------------------------------------------------------------
(* Requests                                                                *)

BlocksWithConflicts == { b \in Blocks : conflicting[b] # {} }

\* What a list is about.
Listed(kind, pool) == CASE kind = "blocks"      -> Named(pool)
                        [] kind = "conflicting" -> BlocksWithConflicts
                        [] kind = "debug"       -> debug
                        [] OTHER                -> {}

\* The column that its SELECT orders by, descending.
OrderedBy(kind) == CASE kind = "blocks"      -> BlockTime
                     [] kind = "conflicting" -> Height
                     [] OTHER                -> id

FirstStep == [blocks |-> "blocks_list", missing |-> "missing_count",
              conflicting |-> "conflicting_list", debug |-> "debug_list",
              block |-> "block", conflicting_block |-> "block",
              missing_tx |-> "transaction"]

\* A handler gets its connection and calls into db.rs.
Ask(at, kind, page, pool, arg) ==
    /\ step = at
    /\ request' = [kind |-> kind, page |-> page, pool |-> pool, arg |-> arg]
    /\ step' = FirstStep[kind]
    /\ result' = NoResult
    /\ before' = [complete |-> debug \cap arg,
                  newest |-> IF kind = "missing" THEN NewestMissing ELSE 0]
    /\ UNCHANGED <<recordVars, colvars>>

\* The first page of a list.
AskList(kind, pool) ==
    /\ Ask("idle", kind, 0, pool, {})
    /\ crawl' = [first |-> Listed(kind, pool), seen |-> {}]

AskBlocks      == \E pool \in Pools \cup {Unknown, AllBlocks} : AskList("blocks", pool)
AskMissing     == AskList("missing", AllBlocks)
AskConflicting == AskList("conflicting", AllBlocks)
AskDebug       == AskList("debug", AllBlocks)

\* A link to the next page, as far as MAX_PAGES goes.
AskNextPage ==
    /\ result.status = "ok"
    /\ request.page + 1 < result.pages
    /\ Ask("done", request.kind, request.page + 1, request.pool, {})
    /\ UNCHANGED crawl

\* The page of one block or transaction.
AskOne(kind, arg) == Ask("idle", kind, 0, AllBlocks, {arg}) /\ crawl' = NoCrawl

AskBlock(b)            == AskOne("block", b)
AskConflictingBlock(b) == AskOne("conflicting_block", b)
AskTx(tx)              == AskOne("missing_tx", tx)

Leave ==
    /\ step = "done"
    /\ request' = NoRequest /\ step' = "idle" /\ result' = NoResult
    /\ before' = Nothing /\ crawl' = NoCrawl
    /\ UNCHANGED <<recordVars, colvars>>

\* One SELECT of the page: its result, and where the function goes on.
Select(at, res, to) ==
    /\ step = at
    /\ result' = res
    /\ step' = to
    /\ UNCHANGED <<recordVars, colvars, request, before>>

\* A SELECT that returns a page of a list of blocks.
SelectList(at, to) ==
    /\ step = at
    /\ \E L \in Page(Listed(request.kind, request.pool), OrderedBy(request.kind),
                     request.page) :
          /\ Select(at, [result EXCEPT !.list = L], to)
          /\ crawl' = [crawl EXCEPT !.seen = @ \cup L]

\* Any other SELECT.
SelectRows(at, res, to) == Select(at, res, to) /\ UNCHANGED crawl

\* The last one; an unwrap() of a lookup that finds nothing is a panic.
Finish(at, res, lookups_succeed) ==
    SelectRows(at,
               [res EXCEPT !.status = IF lookups_succeed THEN "ok" ELSE "panic"],
               "done")

-----------------------------------------------------------------------------
(* blocks, blocks_by_pool                                                  *)

BlocksList ==
    SelectList("blocks_list", "blocks_count")

\* Mutant of BlocksCount: only blocks with all their rows are counted.
BlocksCountComplete ==
    Finish("blocks_count",
           [result EXCEPT !.pages = PageCount(Named(request.pool) \cap debug)], TRUE)

BlocksCount ==
    Finish("blocks_count",
           [result EXCEPT !.pages = PageCount(Named(request.pool))], TRUE)

-----------------------------------------------------------------------------
(* block_with_tx, missing_sanctioned_txns_for_block and the first SELECT   *)
(* of single_block_with_conflicting_transactions_data; the rows of table   *)
(* transaction are joined                                                  *)

FindBlock ==
    LET there == request.arg \cap stored
    IN  IF there = {}
          THEN SelectRows("block", [result EXCEPT !.status = "error"], "done")
          ELSE SelectRows("block", [result EXCEPT !.list = there],
                          IF request.kind = "block" THEN "only_in_template"
                                                    ELSE "conflicts")

SelectOnlyInTemplate ==
    SelectRows("only_in_template",
               [result EXCEPT !.missing =
                   transaction \cap UNION { only_in_template[b] : b \in result.list }],
               "only_in_block")

\* The list of sanctioned transactions is loaded if the row counts any.
SelectOnlyInBlock ==
    LET res == [result EXCEPT !.extra =
                   transaction \cap UNION { only_in_block[b] : b \in result.list }]
    IN  IF \E b \in result.list : row[b].sanctioned # {}
          THEN SelectRows("only_in_block", res, "sanctioned")
          ELSE Finish("only_in_block", res, TRUE)

\* Mutant of SanctionedRows: the condition on block_id is forgotten.
SanctionedRowsOfAll(b) ==
    { r \in Blocks \X transaction :
         /\ \E c \in Blocks : r[2] \in sanctioned_info[c] \cap row[c].missing
         /\ r[2] \in only_in_template[r[1]] }

\* The join with transaction_only_in_template is on the transaction alone: it
\* finds the row of every block that misses the transaction.
SanctionedRows(b) ==
    { r \in Blocks \X transaction :
         /\ r[2] \in sanctioned_info[b] \cap row[b].missing
         /\ r[2] \in only_in_template[r[1]] }

\* The id of the block is looked up by its hash again first; it cannot change.
SelectSanctioned ==
    Finish("sanctioned",
           [result EXCEPT !.rows = UNION { SanctionedRows(b) : b \in result.list }],
           TRUE)

-----------------------------------------------------------------------------
(* missing_transactions_data, single_missing_transaction_data              *)

\* Mutant of MissingFrom: all blocks count, however old.
MissingFromEver(tx) == { b \in TemplateBlocks(tx) : <<b, tx>> \notin Excluded }

\* The blocks that count, by id, below the latest that has such rows.
MissingFrom(tx) ==
    { b \in TemplateBlocks(tx) :
         /\ <<b, tx>> \notin Excluded
         /\ id[b] > NewestMissing - Window }

Missing == { tx \in Txs : Cardinality(MissingFrom(tx)) > Threshold }

MissingCount ==
    SelectRows("missing_count", [result EXCEPT !.pages = PageCount(Missing)],
               "missing_list")

MissingList ==
    /\ step = "missing_list"
    /\ \E L \in Page(Missing, [tx \in Missing |-> MaxId(MissingFrom(tx))],
                     request.page) :
          SelectRows("missing_list", [result EXCEPT !.found = L], "transactions")

\* transaction.filter(txid.eq_any(..)); a single one must be there
SelectTransaction ==
    LET there == request.arg \cap transaction
    IN  SelectRows("transaction",
                   [result EXCEPT !.found = there,
                                  !.status = IF there = {} THEN "error" ELSE @],
                   IF there = {} THEN "done" ELSE "template_rows")

SelectTransactions ==
    SelectRows("transactions", [result EXCEPT !.found = @ \cap transaction],
               "template_rows")

SelectTemplateRows ==
    SelectRows("template_rows",
               [result EXCEPT !.rows = { r \in Blocks \X result.found :
                                            r[2] \in only_in_template[r[1]] }],
               "missing_blocks")

\* Mutant of SelectMissingBlocks: only blocks with all their rows are loaded.
SelectCompleteBlocks ==
    LET blocks == { b \in debug : \E r \in result.rows : r[1] = b }
    IN  Finish("missing_blocks", [result EXCEPT !.blocks = blocks],
               \A r \in result.rows : r[1] \in blocks)

\* block_id_to_block_map.get(..).unwrap(), and max_height() of the list
SelectMissingBlocks ==
    LET blocks == { b \in stored : \E r \in result.rows : r[1] = b }
    IN  Finish("missing_blocks", [result EXCEPT !.blocks = blocks],
               /\ \A r \in result.rows : r[1] \in blocks
               /\ request.kind = "missing" =>
                     \A tx \in result.found : \E r \in result.rows : r[2] = tx)

-----------------------------------------------------------------------------
(* conflicting_transactions_data and the variant for a single block        *)

ConflictingList ==
    SelectList("conflicting_list", "conflicting_count")

ConflictingCount ==
    SelectRows("conflicting_count",
               [result EXCEPT !.pages = PageCount(BlocksWithConflicts)], "conflicts")

SelectConflicts ==
    SelectRows("conflicts",
               [result EXCEPT !.rows = { r \in result.list \X Txs :
                                            r[2] \in conflicting[r[1]] }],
               "conflict_transactions")

\* txid_to_tx_map.get(txid).unwrap() for every transaction of the conflicts
SelectConflictTransactions ==
    LET txids == { r[2] : r \in result.rows }
        res   == [result EXCEPT !.found = txids \cap transaction]
    IN  IF request.kind = "conflicting"
          THEN SelectRows("conflict_transactions", res, "conflict_blocks")
          ELSE Finish("conflict_transactions", res, txids \subseteq res.found)

SelectConflictBlocks ==
    LET blocks == result.list \cap stored
    IN  Finish("conflict_blocks", [result EXCEPT !.blocks = blocks],
               \A r \in result.rows : r[1] \in blocks => r[2] \in result.found)

-----------------------------------------------------------------------------
(* debug_template_selection_infos                                          *)

DebugList == SelectList("debug_list", "debug_infos")

\* The listed blocks whose rows are found.
DebugInfos ==
    SelectRows("debug_infos", [result EXCEPT !.blocks = result.list \cap debug],
               "debug_blocks")

DebugBlocks ==
    SelectRows("debug_blocks", [result EXCEPT !.blocks = @ \cap stored],
               "debug_count")

DebugCount == Finish("debug_count", [result EXCEPT !.pages = PageCount(debug)], TRUE)

-----------------------------------------------------------------------------
Daemon ==
    \/ \E b \in Blocks : DaemonInsertBlock(b) \/ DaemonIdentifies(b)
    \/ DaemonInsertRest

Visitor ==
    \/ AskBlocks \/ AskMissing \/ AskConflicting \/ AskDebug \/ AskNextPage
    \/ \E b \in Blocks : AskBlock(b) \/ AskConflictingBlock(b)
    \/ \E tx \in Txs : AskTx(tx)
    \/ Leave

Server ==
    \/ BlocksList \/ BlocksCount
    \/ FindBlock \/ SelectOnlyInTemplate \/ SelectOnlyInBlock \/ SelectSanctioned
    \/ MissingCount \/ MissingList \/ SelectTransaction \/ SelectTransactions
    \/ SelectTemplateRows \/ SelectMissingBlocks
    \/ ConflictingList \/ ConflictingCount \/ SelectConflicts
    \/ SelectConflictTransactions \/ SelectConflictBlocks
    \/ DebugList \/ DebugInfos \/ DebugBlocks \/ DebugCount

WebNext == Daemon \/ Visitor \/ Server

WebSpec == WebInit /\ [][WebNext]_vars

-----------------------------------------------------------------------------
(* Properties                                                              *)

Served(kind) == step = "done" /\ request.kind = kind /\ result.status = "ok"

Requests == [kind : DOMAIN FirstStep \cup {"none"}, page : Nat,
             pool : Pools \cup {Unknown, AllBlocks}, arg : SUBSET (Blocks \cup Txs)]
Results  == [list : SUBSET Blocks, pages : Nat, missing : SUBSET Txs,
             extra : SUBSET Txs, rows : SUBSET (Blocks \X Txs), found : SUBSET Txs,
             blocks : SUBSET Blocks, status : {"none", "ok", "error", "panic"}]

\* The types of the state.
WebTypeOK ==
    /\ id \in [Blocks -> Nat]
    /\ pool_name \in [Blocks -> Pools \cup {Unknown, NotThere}]
    /\ request \in Requests /\ result \in Results
    /\ before \in [complete : SUBSET Blocks, newest : Nat]
    /\ crawl \in [first : SUBSET Blocks, seen : SUBSET Blocks]

\* No handler panics at an unwrap(): what one SELECT names is found by a later
\* one, though the daemon writes between them and conflicts have no foreign key.
LookupsSucceed == result.status # "panic"

\* The page of a block that is still being written shows each side of the
\* comparison with all its transactions or with none, and the template's side
\* only together with the block's: the daemon writes the tables in the order
\* opposite to the one in which the server reads them.
SidesWhole ==
    Served("block") =>
        \A b \in result.list :
            /\ result.extra \in {{}, row[b].extra}
            /\ result.missing \in {{}, row[b].missing}
            /\ result.missing # {} => result.extra = row[b].extra

\* The page of a block that was complete when it was asked for shows exactly the
\* transactions its row counts: the extra ones, the missing ones and, in the list
\* that warns of them, the missing sanctioned ones.  The rows of other blocks that
\* come into that list name no other transaction, and none of its own is absent.
CompletePageExact ==
    Served("block") =>
        \A b \in result.list \cap before.complete :
            /\ result.extra = row[b].extra /\ result.missing = row[b].missing
            /\ { r[2] : r \in result.rows } = row[b].sanctioned
            /\ {b} \X row[b].sanctioned \subseteq result.rows

\* missing.html:48: the transactions on the list are shown with more blocks than
\* the threshold that count and are recent, whatever is written while the page
\* is built.
MissingRepeatedly ==
    Served("missing") =>
        \A tx \in result.found :
            Cardinality({ b \in result.blocks : /\ <<b, tx>> \in result.rows \ Excluded
                                                /\ id[b] > before.newest - Window })
                > Threshold

\* A page that lists blocks is one of the pages it announces, so that it is not
\* rendered as an empty list: the count is read after the list and the lists
\* grow, but for the blocks of the pool "Unknown", which get other names.
ListedPageExists ==
    \A kind \in {"blocks", "conflicting", "debug"} :
        Served(kind) /\ request.pool # Unknown /\ result.list # {}
            => request.page < result.pages

\* Whoever follows the pages of a list to the end has seen every block that was
\* on it when he began, although the daemon inserts before, between and after
\* the rows he has come to.  Only a block that has the same time, or height, as
\* another one may be missed: nothing fixes the order of such rows.
CrawlComplete ==
    \A kind \in {"blocks", "conflicting", "debug"} :
        Served(kind) /\ request.pool # Unknown /\ request.page + 1 >= result.pages
            => \A b \in crawl.first \ crawl.seen :
                  \E c \in Listed(kind, request.pool) \ {b} :
                     OrderedBy(kind)[c] = OrderedBy(kind)[b]
=============================================================================
