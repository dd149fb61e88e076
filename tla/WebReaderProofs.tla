--------------------------- MODULE WebReaderProofs --------------------------
(***************************************************************************)
(* Proofs about WebReader.  The argument has three layers: what is true of *)
(* the tables in every state (RecordInv, IdInv), how they change from one  *)
(* state to the next (Grows: they only grow), and what a handler knows     *)
(* after each of its SELECTs because of the first two (the invariants of   *)
(* the pages).                                                             *)
(***************************************************************************)
EXTENDS WebReader, FiniteSetTheorems, TLAPS

-----------------------------------------------------------------------------
(* The tables                                                              *)

Tables == {"none", "transactions", "only_in_block", "only_in_template",
           "sanctioned_infos", "conflicting", "debug"}

RecordTypeOK ==
    /\ stored \subseteq Blocks
    /\ row \in [Blocks -> Comparison]
    /\ transaction \subseteq Txs
    /\ only_in_block \in [Blocks -> SUBSET Txs]
    /\ only_in_template \in [Blocks -> SUBSET Txs]
    /\ sanctioned_info \in [Blocks -> SUBSET Txs]
    /\ conflicting \in [Blocks -> SUBSET Txs]
    /\ debug \subseteq stored
    /\ writing \subseteq stored
    /\ \A b, c \in writing : b = c
    /\ next \in Tables

\* The rows of a table hold all of a side or nothing of it, a table is written
\* after the ones before it, and foreign keys hold.
RowsOK(b) ==
    /\ row[b].sanctioned \subseteq row[b].missing
    /\ row[b].conflicts \subseteq row[b].extra \cup row[b].missing
    /\ only_in_block[b] \in {{}, row[b].extra}
    /\ only_in_template[b] \in {{}, row[b].missing}
    /\ conflicting[b] \in {{}, row[b].conflicts}
    /\ only_in_block[b] \subseteq transaction
    /\ only_in_template[b] \subseteq transaction
    /\ sanctioned_info[b] \subseteq transaction
    /\ only_in_template[b] # {} => only_in_block[b] = row[b].extra
    /\ conflicting[b] # {} => /\ only_in_block[b] = row[b].extra
                              /\ only_in_template[b] = row[b].missing

\* A block without a row in table block has none in the others.
NoRows(b) ==
    /\ only_in_block[b] = {} /\ only_in_template[b] = {}
    /\ sanctioned_info[b] = {} /\ conflicting[b] = {}

\* How far the attempt that writes b has come.
Written(b) ==
    /\ next \in {"transactions", "only_in_block"} => NoRows(b)
    /\ next \in {"only_in_template", "sanctioned_infos", "conflicting", "debug"}
          => only_in_block[b] = row[b].extra
    /\ next \in {"sanctioned_infos", "conflicting", "debug"}
          => only_in_template[b] = row[b].missing
    /\ next \in {"conflicting", "debug"}
          => sanctioned_info[b] \cap row[b].missing = row[b].sanctioned
    /\ next = "only_in_template" => only_in_template[b] = {}
    /\ next # "debug" => conflicting[b] = {}

\* A block with debug rows has all its rows.
Whole(b) ==
    /\ only_in_block[b] = row[b].extra
    /\ only_in_template[b] = row[b].missing
    /\ sanctioned_info[b] \cap row[b].missing = row[b].sanctioned

RecordInv ==
    /\ RecordTypeOK
    /\ \A b \in Blocks : RowsOK(b)
    /\ \A b \in Blocks \ stored : NoRows(b)
    /\ \A b \in writing : b \notin debug /\ Written(b)
    /\ \A b \in debug : Whole(b)

HasMax(S) == S = {} \/ \E m \in S : \A b \in S : id[b] <= id[m]

HaveMissing == { b \in Blocks : only_in_template[b] # {} }

\* Ids are in the order of insertion, so the block being written has the latest.
IdInv ==
    /\ id \in [Blocks -> Nat]
    /\ pool_name \in [Blocks -> Pools \cup {Unknown, NotThere}]
    /\ \A b, c \in stored : id[b] = id[c] => b = c
    /\ \A b \in writing, c \in stored : id[c] <= id[b]
    /\ HasMax(stored)
    /\ HasMax(HaveMissing)

LEMMA RecordInit == Init => RecordInv
BY DEF Init, RecordInv, RecordTypeOK, RowsOK, NoRows, NoComparison, Comparison,
       Tables

LEMMA WriteBlockRows ==
    ASSUME RecordInv, NEW b \in Blocks, WriteBlock(b)
    PROVE  RecordInv'
<1> PICK c \in Comparisons[b] : row' = [row EXCEPT ![b] = c]
    BY DEF WriteBlock
<1>1. /\ c \in Comparison
      /\ c.sanctioned \subseteq c.missing
      /\ c.conflicts \subseteq c.extra \cup c.missing
    BY ComparisonAssumption
<1>2. RecordTypeOK'
    BY <1>1 DEF RecordInv, RecordTypeOK, WriteBlock, Tables
<1>3. /\ row'[b] = c
      /\ \A a \in Blocks \ {b} : row'[a] = row[a]
    BY DEF RecordInv, RecordTypeOK
<1>4. NoRows(b)
    BY DEF RecordInv, WriteBlock
<1>5. ASSUME NEW a \in Blocks PROVE RowsOK(a)'
    <2>1. CASE a = b
        BY <1>1, <1>3, <1>4, <2>1 DEF RowsOK, NoRows, WriteBlock
    <2>2. CASE a # b
        <3>1. row'[a] = row[a]
            BY <1>3, <2>2
        <3> QED BY <3>1 DEF RecordInv, RowsOK, WriteBlock
    <2> QED BY <2>1, <2>2
<1>6. \A a \in debug : a # b
    BY DEF RecordInv, RecordTypeOK, WriteBlock
<1>7. ASSUME NEW a \in debug PROVE Whole(a)'
    <2>1. row'[a] = row[a]
        BY <1>3, <1>6 DEF RecordInv, RecordTypeOK
    <2> QED BY <2>1 DEF RecordInv, Whole, WriteBlock
<1> QED
    BY <1>2, <1>4, <1>5, <1>6, <1>7 DEF RecordInv, WriteBlock, NoRows, Written

LEMMA WriteRestRows ==
    ASSUME RecordInv, WriteRest
    PROVE  RecordInv'
<1> USE DEF RecordInv, RecordTypeOK, RowsOK, NoRows, Written, Whole, blockTable, Tables
<1>1. CASE WriteTransactions
    BY <1>1 DEF WriteTransactions
<1>2. CASE GiveUp
    BY <1>2 DEF GiveUp
<1>3. ASSUME NEW b \in writing, WriteOnlyInBlock(b) PROVE RecordInv'
    BY <1>3, ComparisonAssumption DEF WriteOnlyInBlock, Comparison
<1>4. ASSUME NEW b \in writing, WriteOnlyInTemplate(b) PROVE RecordInv'
    BY <1>4 DEF WriteOnlyInTemplate, Comparison
<1>5. ASSUME NEW b \in writing, WriteSanctionedInfos(b) PROVE RecordInv'
    BY <1>5 DEF WriteSanctionedInfos, Comparison
<1>6. ASSUME NEW b \in writing, WriteConflicting(b) PROVE RecordInv'
    BY <1>6 DEF WriteConflicting, Comparison
<1>7. ASSUME NEW b \in writing, WriteDebug(b) PROVE RecordInv'
    BY <1>7 DEF WriteDebug
<1> QED BY <1>1, <1>2, <1>3, <1>4, <1>5, <1>6, <1>7 DEF WriteRest

-----------------------------------------------------------------------------
(* How the tables change                                                   *)

\* No row is removed or changed, but for the pool_name of an Unknown.
Grows ==
    /\ stored \subseteq stored' /\ transaction \subseteq transaction'
    /\ debug \subseteq debug'
    /\ \A b \in stored : row'[b] = row[b] /\ id'[b] = id[b]
    /\ \A b \in stored : pool_name[b] # Unknown => pool_name'[b] = pool_name[b]
    /\ \A b \in Blocks : /\ only_in_block[b] \subseteq only_in_block'[b]
                         /\ only_in_template[b] \subseteq only_in_template'[b]
                         /\ conflicting[b] \subseteq conflicting'[b]

\* What MaxId chooses, for the ids of any state.
LEMMA MaxOf ==
    ASSUME NEW f \in [Blocks -> Nat], NEW S \in SUBSET Blocks,
           S = {} \/ \E m \in S : \A b \in S : f[b] <= f[m],
           NEW x, x = IF S = {} THEN 0
                      ELSE CHOOSE n \in { f[b] : b \in S } : \A b \in S : f[b] <= n
    PROVE  /\ x \in Nat
           /\ \A b \in S : f[b] <= x
           /\ S # {} => \E b \in S : x = f[b]
<1>1. CASE S = {}
    BY <1>1
<1>2. CASE S # {}
    <2>1. \E n \in { f[b] : b \in S } : \A b \in S : f[b] <= n
        BY <1>2
    <2>2. x = CHOOSE n \in { f[b] : b \in S } : \A b \in S : f[b] <= n
        BY <1>2
    <2>3. /\ x \in { f[b] : b \in S }
          /\ \A b \in S : f[b] <= x
        BY <2>1, <2>2
    <2> QED BY <2>3
<1> QED BY <1>1, <1>2

LEMMA MaxIdIsMax ==
    ASSUME IdInv, NEW S \in SUBSET Blocks, HasMax(S)
    PROVE  /\ MaxId(S) \in Nat
           /\ \A b \in S : id[b] <= MaxId(S)
           /\ S # {} => \E b \in S : MaxId(S) = id[b]
<1>1. id \in [Blocks -> Nat] /\ (S = {} \/ \E m \in S : \A b \in S : id[b] <= id[m])
    BY DEF IdInv, HasMax
<1>2. MaxId(S) = IF S = {} THEN 0
                 ELSE CHOOSE n \in { id[b] : b \in S } : \A b \in S : id[b] <= n
    BY DEF MaxId
<1> QED BY <1>1, <1>2, MaxOf

LEMMA MissingAreStored ==
    ASSUME RecordInv
    PROVE  HaveMissing \subseteq stored /\ BlocksWithConflicts \subseteq stored
BY DEF RecordInv, NoRows, HaveMissing, BlocksWithConflicts

LEMMA InsertBlockIds ==
    ASSUME RecordInv, IdInv, NEW b \in Blocks, DaemonInsertBlock(b)
    PROVE  IdInv' /\ Grows
<1>1. stored \subseteq Blocks /\ b \notin stored /\ writing' = {b}
      /\ stored' = stored \cup {b}
    BY DEF RecordInv, RecordTypeOK, DaemonInsertBlock, WriteBlock
<1>2. /\ MaxId(stored) \in Nat
      /\ \A c \in stored : id[c] <= MaxId(stored)
    BY <1>1, MaxIdIsMax DEF IdInv
<1>3. Gap[b] \in Nat \ {0}
    BY WebAssumption
<1>4. /\ id' \in [Blocks -> Nat]
      /\ id'[b] = MaxId(stored) + Gap[b]
      /\ \A c \in Blocks \ {b} : id'[c] = id[c]
    BY <1>2, <1>3 DEF DaemonInsertBlock, IdInv
<1>5. \A c \in stored : id'[c] = id[c] /\ id'[c] < id'[b]
    <2> TAKE c \in stored
    <2>1. c \in Blocks /\ c # b
        BY <1>1
    <2>2. id[c] \in Nat /\ id[c] <= MaxId(stored) /\ id'[c] = id[c]
        BY <2>1, <1>2, <1>4 DEF IdInv
    <2> QED BY <2>2, <1>2, <1>3, <1>4
<1>6. \A c \in stored' : id'[c] \in Nat /\ id'[c] <= id'[b]
    BY <1>1, <1>4, <1>5
<1>7. HasMax(stored)'
    BY <1>1, <1>6 DEF HasMax
<1>8. HaveMissing' = HaveMissing
    BY DEF HaveMissing, DaemonInsertBlock, WriteBlock
<1>9. HasMax(HaveMissing)'
    <2>1. \A c \in HaveMissing : id'[c] = id[c]
        BY <1>5, MissingAreStored
    <2> QED BY <2>1, <1>8 DEF HasMax, IdInv
<1>10. \A c, d \in stored' : id'[c] = id'[d] => c = d
    BY <1>1, <1>4, <1>5, <1>6 DEF IdInv
<1>11. IdInv'
    <2>1. pool_name' \in [Blocks -> Pools \cup {Unknown, NotThere}]
        BY WebAssumption DEF IdInv, DaemonInsertBlock
    <2> QED BY <2>1, <1>1, <1>4, <1>6, <1>7, <1>9, <1>10 DEF IdInv
<1>12. \A c \in stored : row'[c] = row[c] /\ pool_name'[c] = pool_name[c]
    BY <1>1 DEF DaemonInsertBlock, WriteBlock, RecordInv, RecordTypeOK
<1>13. Grows
    BY <1>1, <1>5, <1>12 DEF Grows, DaemonInsertBlock, WriteBlock
<1> QED BY <1>11, <1>13

LEMMA InsertRestIds ==
    ASSUME RecordInv, IdInv, DaemonInsertRest
    PROVE  IdInv' /\ Grows
<1> USE DEF RecordInv, RecordTypeOK, blockTable
<1>1. WriteRest /\ id' = id /\ pool_name' = pool_name
    BY DEF DaemonInsertRest, colvars
<1>2. stored' = stored /\ row' = row /\ writing' \subseteq writing
    BY <1>1 DEF WriteRest, WriteTransactions, WriteOnlyInBlock, WriteOnlyInTemplate,
            WriteSanctionedInfos, WriteConflicting, WriteDebug, GiveUp
<1>3. HaveMissing' = HaveMissing \/ \E b \in writing : HaveMissing' = HaveMissing \cup {b}
    <2>1. ASSUME NEW b \in writing, WriteOnlyInTemplate(b)
          PROVE  HaveMissing' = HaveMissing \/ HaveMissing' = HaveMissing \cup {b}
        <3>1. /\ only_in_template' = [only_in_template EXCEPT ![b] = row[b].missing]
              /\ only_in_template[b] = {}
              /\ b \in Blocks
            BY <2>1 DEF WriteOnlyInTemplate, Written
        <3>2. \A a \in Blocks : only_in_template'[a] =
                   IF a = b THEN row[b].missing ELSE only_in_template[a]
            BY <3>1
        <3> QED BY <3>1, <3>2 DEF HaveMissing
    <2>2. ASSUME only_in_template' = only_in_template PROVE HaveMissing' = HaveMissing
        BY <2>2 DEF HaveMissing
    <2> QED BY <1>1, <2>1, <2>2 DEF WriteRest, WriteTransactions, WriteOnlyInBlock,
                WriteSanctionedInfos, WriteConflicting, WriteDebug, GiveUp
<1>4. HasMax(HaveMissing)'
    BY <1>1, <1>3, MissingAreStored DEF HasMax, IdInv
<1>5. IdInv'
    BY <1>1, <1>2, <1>4 DEF IdInv, HasMax
<1>6. Grows
    <2>1. CASE WriteTransactions \/ GiveUp
        BY <1>1, <2>1 DEF WriteTransactions, GiveUp, Grows
    <2>2. ASSUME NEW b \in writing,
                 WriteSanctionedInfos(b) \/ WriteDebug(b)
          PROVE  Grows
        BY <1>1, <2>2 DEF WriteSanctionedInfos, WriteDebug, Grows
    <2>3. ASSUME NEW b \in writing, WriteOnlyInBlock(b)
          PROVE  Grows
        BY <1>1, <2>3 DEF WriteOnlyInBlock, Grows, RowsOK
    <2>4. ASSUME NEW b \in writing, WriteOnlyInTemplate(b)
          PROVE  Grows
        BY <1>1, <2>4 DEF WriteOnlyInTemplate, Grows, RowsOK
    <2>5. ASSUME NEW b \in writing, WriteConflicting(b)
          PROVE  Grows
        BY <1>1, <2>5 DEF WriteConflicting, Grows, RowsOK
    <2> QED BY <1>1, <2>1, <2>2, <2>3, <2>4, <2>5 DEF WriteRest
<1> QED BY <1>5, <1>6

\* The tables in every state, and every step of the daemon.
LEMMA DaemonStep ==
    ASSUME RecordInv, IdInv, Daemon
    PROVE  RecordInv' /\ IdInv' /\ Grows /\ UNCHANGED webvars
<1>1. ASSUME NEW b \in Blocks, DaemonInsertBlock(b)
      PROVE  RecordInv' /\ IdInv' /\ Grows /\ UNCHANGED webvars
    BY <1>1, WriteBlockRows, InsertBlockIds DEF DaemonInsertBlock
<1>2. CASE DaemonInsertRest
    BY <1>2, WriteRestRows, InsertRestIds DEF DaemonInsertRest
<1>3. ASSUME NEW b \in Blocks, DaemonIdentifies(b)
      PROVE  RecordInv' /\ IdInv' /\ Grows /\ UNCHANGED webvars
    <2>1. UNCHANGED <<recordVars, id, webvars>>
        BY <1>3 DEF DaemonIdentifies
    <2>2. pool_name' \in [Blocks -> Pools \cup {Unknown, NotThere}]
        BY <1>3 DEF DaemonIdentifies, IdInv
    <2>3. RecordInv' /\ IdInv'
        BY <2>1, <2>2 DEF recordVars, blockTable, RecordInv, RecordTypeOK, RowsOK, NoRows,
                Written, Whole, IdInv, HasMax, HaveMissing
    <2>4. \A c \in stored : pool_name[c] # Unknown => pool_name'[c] = pool_name[c]
        BY <1>3 DEF DaemonIdentifies, RecordInv, RecordTypeOK, IdInv
    <2> QED BY <2>1, <2>3, <2>4 DEF Grows, recordVars, blockTable
<1> QED BY <1>1, <1>2, <1>3 DEF Daemon

-----------------------------------------------------------------------------
(* The handlers                                                            *)

USE DEF Requests, Results

ListKinds == {"blocks", "conflicting", "debug"}

\* The SELECTs of each page.
StepInv ==
    /\ \/ request.kind = "none" /\ step = "idle"
       \/ request.kind = "blocks" /\ step \in {"blocks_list", "blocks_count", "done"}
       \/ /\ request.kind = "block"
          /\ step \in {"block", "only_in_template", "only_in_block", "sanctioned",
                      "done"}
       \/ /\ request.kind = "missing"
          /\ step \in {"missing_count", "missing_list", "transactions",
                      "template_rows", "missing_blocks", "done"}
       \/ /\ request.kind = "missing_tx"
          /\ step \in {"transaction", "template_rows", "missing_blocks", "done"}
       \/ /\ request.kind = "conflicting"
          /\ step \in {"conflicting_list", "conflicting_count", "conflicts",
                      "conflict_transactions", "conflict_blocks", "done"}
       \/ /\ request.kind = "conflicting_block"
          /\ step \in {"block", "conflicts", "conflict_transactions", "done"}
       \/ /\ request.kind = "debug"
          /\ step \in {"debug_list", "debug_infos", "debug_blocks", "debug_count",
                      "done"}
    /\ request.kind \notin ListKinds \cup {"missing"} => result.pages = 0
    /\ request.kind \in {"block", "conflicting_block"} =>
          \E b \in Blocks : request.arg = {b}
    /\ request.kind # "blocks" => request.pool = AllBlocks

TableInv == RecordInv /\ IdInv

WebTypeInv == TableInv /\ WebTypeOK /\ StepInv

LEMMA ListedAreBlocks ==
    ASSUME TableInv, NEW kind, NEW pool
    PROVE  Listed(kind, pool) \subseteq stored /\ Listed(kind, pool) \subseteq Blocks
BY MissingAreStored
DEF TableInv, RecordInv, RecordTypeOK, Listed, Named, BlocksWithConflicts

LEMMA NewestIsNat ==
    ASSUME TableInv
    PROVE  NewestMissing \in Nat
BY MaxIdIsMax DEF TableInv, IdInv, HaveMissing, NewestMissing

LEMMA PageIsPart ==
    ASSUME NEW S, NEW key, NEW page, NEW L \in Page(S, key, page)
    PROVE  L \subseteq S
BY DEF Page

LEMMA PageCountIsNat ==
    ASSUME NEW S, IsFiniteSet(S)
    PROVE  PageCount(S) \in Nat
<1>1. Cardinality(S) \in Nat /\ MAX_BLOCKS_PER_PAGE \in Nat \ {0}
    BY FS_CardinalityType, WebAssumption
<1> QED BY <1>1 DEF PageCount, CeilDiv

\* A step of the server is a SELECT of the page that was asked for.
LEMMA ServerByKind ==
    ASSUME StepInv, Server
    PROVE  /\ UNCHANGED <<recordVars, colvars, request, before>>
           /\ request.kind # "none"
           /\ request.kind = "blocks" => BlocksList \/ BlocksCount
           /\ request.kind = "block" =>
                 \/ FindBlock \/ SelectOnlyInTemplate \/ SelectOnlyInBlock
                 \/ SelectSanctioned
           /\ request.kind = "missing" =>
                 \/ MissingCount \/ MissingList \/ SelectTransactions
                 \/ SelectTemplateRows \/ SelectMissingBlocks
           /\ request.kind = "missing_tx" =>
                 SelectTransaction \/ SelectTemplateRows \/ SelectMissingBlocks
           /\ request.kind = "conflicting" =>
                 \/ ConflictingList \/ ConflictingCount \/ SelectConflicts
                 \/ SelectConflictTransactions \/ SelectConflictBlocks
           /\ request.kind = "conflicting_block" =>
                 FindBlock \/ SelectConflicts \/ SelectConflictTransactions
           /\ request.kind = "debug" =>
                 DebugList \/ DebugInfos \/ DebugBlocks \/ DebugCount
<1> USE DEF Select, SelectList, SelectRows, Finish,
        BlocksList, BlocksCount, FindBlock, SelectOnlyInTemplate, SelectOnlyInBlock,
        SelectSanctioned, MissingCount, MissingList, SelectTransaction,
        SelectTransactions, SelectTemplateRows, SelectMissingBlocks, ConflictingList,
        ConflictingCount, SelectConflicts, SelectConflictTransactions,
        SelectConflictBlocks, DebugList, DebugInfos, DebugBlocks, DebugCount
<1>1. UNCHANGED <<recordVars, colvars, request, before>>
    BY DEF Server
<1> QED BY <1>1 DEF Server, StepInv

LEMMA SameTables ==
    ASSUME TableInv, UNCHANGED <<recordVars, colvars>>
    PROVE  TableInv' /\ Grows
BY DEF TableInv, recordVars, colvars, blockTable, RecordInv, RecordTypeOK, RowsOK,
       NoRows, Written, Whole, IdInv, HasMax, HaveMissing, Grows

\* Asking for a page.
LEMMA VisitorStep ==
    ASSUME WebTypeInv, Visitor
    PROVE  /\ UNCHANGED <<recordVars, colvars>>
           /\ result' = NoResult
           /\ WebTypeInv'
<1> USE DEF WebTypeInv
<1>1. UNCHANGED <<recordVars, colvars>> /\ result' = NoResult
    BY DEF Visitor, AskBlocks, AskMissing, AskConflicting, AskDebug, AskNextPage,
           AskBlock, AskConflictingBlock, AskTx, AskOne, AskList, Ask, Leave
<1>2. id' = id /\ pool_name' = pool_name
    BY <1>1 DEF colvars
<1>3. result' \in Results
      /\ result'.pages = 0
    BY <1>1 DEF NoResult
<1>4. TableInv'
    BY <1>1, SameTables
<1>5. ASSUME NEW at, NEW kind \in DOMAIN FirstStep, NEW page \in Nat,
             NEW pool \in Pools \cup {Unknown, AllBlocks},
             NEW arg \in SUBSET (Blocks \cup Txs), Ask(at, kind, page, pool, arg)
      PROVE  /\ request' \in Requests
             /\ before' \in [complete : SUBSET Blocks, newest : Nat]
             /\ request'.kind = kind /\ request'.arg = arg /\ request'.pool = pool
             /\ step' = FirstStep[kind]
    BY <1>5, NewestIsNat DEF Ask, TableInv, RecordInv, RecordTypeOK
<1>6. ASSUME NEW kind \in ListKinds \cup {"missing"},
             NEW pool \in Pools \cup {Unknown, AllBlocks}, AskList(kind, pool),
             kind # "blocks" => pool = AllBlocks
      PROVE  WebTypeInv'
    <2>1. crawl' \in [first : SUBSET Blocks, seen : SUBSET Blocks]
        BY <1>6, ListedAreBlocks DEF AskList
    <2>2. kind \in DOMAIN FirstStep
        BY DEF FirstStep, ListKinds
    <2>3. StepInv'
        BY <1>3, <1>5, <1>6, <2>2 DEF AskList, StepInv, FirstStep, ListKinds
    <2> QED BY <1>2, <1>3, <1>4, <1>5, <1>6, <2>1, <2>2, <2>3 DEF AskList, WebTypeOK
<1>7. CASE AskNextPage
    <2>1. request.kind \in ListKinds \cup {"missing"}
        BY <1>7 DEF AskNextPage, StepInv, WebTypeOK
    <2>2. /\ request.kind \in DOMAIN FirstStep
          /\ request.page + 1 \in Nat
          /\ request.pool \in Pools \cup {Unknown, AllBlocks}
          /\ {} \in SUBSET (Blocks \cup Txs)
        BY <2>1 DEF FirstStep, ListKinds, WebTypeOK
    <2>3. Ask("done", request.kind, request.page + 1, request.pool, {}) /\ crawl' = crawl
        BY <1>7 DEF AskNextPage
    <2>4. /\ request' \in Requests
          /\ before' \in [complete : SUBSET Blocks, newest : Nat]
        BY <1>5, <2>2, <2>3
    <2>5. StepInv'
        <3>1. /\ request'.kind = request.kind /\ request'.pool = request.pool
              /\ step' = FirstStep[request.kind]
            BY <2>3 DEF Ask
        <3> QED BY <1>3, <2>1, <3>1 DEF StepInv, FirstStep, ListKinds
    <2>6. /\ id' \in [Blocks -> Nat]
          /\ pool_name' \in [Blocks -> Pools \cup {Unknown, NotThere}]
          /\ crawl' \in [first : SUBSET Blocks, seen : SUBSET Blocks]
        <3>1. crawl' = crawl
            BY <2>3
        <3> QED BY <1>2, <3>1 DEF WebTypeOK
    <2>7. WebTypeOK'
        BY <1>3, <2>4, <2>6 DEF WebTypeOK
    <2> QED BY <1>1, <1>4, <2>5, <2>7
<1>8. ASSUME NEW kind \in {"block", "conflicting_block", "missing_tx"}, NEW x,
             kind = "missing_tx" => x \in Txs, kind # "missing_tx" => x \in Blocks,
             AskOne(kind, x)
      PROVE  WebTypeInv'
    <2>1. crawl' \in [first : SUBSET Blocks, seen : SUBSET Blocks]
        BY <1>8 DEF AskOne, NoCrawl
    <2>2. kind \in DOMAIN FirstStep /\ {x} \in SUBSET (Blocks \cup Txs)
          /\ AllBlocks \in Pools \cup {Unknown, AllBlocks} /\ 0 \in Nat
        BY <1>8 DEF FirstStep
    <2>3. /\ request' \in Requests
          /\ before' \in [complete : SUBSET Blocks, newest : Nat]
          /\ request'.kind = kind /\ request'.arg = {x} /\ request'.pool = AllBlocks
          /\ step' = FirstStep[kind]
        BY <1>5, <1>8, <2>2 DEF AskOne
    <2>4. StepInv'
        BY <1>3, <1>8, <2>3 DEF StepInv, FirstStep, ListKinds
    <2> QED BY <1>2, <1>3, <1>4, <2>1, <2>3, <2>4 DEF WebTypeOK
<1>9. CASE Leave
    BY <1>2, <1>3, <1>4, <1>9
    DEF Leave, NoRequest, Nothing, NoCrawl, WebTypeOK, StepInv, ListKinds
<1>10. WebTypeInv'
    <2>1. CASE AskBlocks
        BY <1>6, <2>1 DEF AskBlocks, ListKinds
    <2>2. CASE AskMissing \/ AskConflicting \/ AskDebug
        BY <1>6, <2>2 DEF AskMissing, AskConflicting, AskDebug, ListKinds
    <2>3. CASE \E b \in Blocks : AskBlock(b) \/ AskConflictingBlock(b)
        BY <1>8, <2>3 DEF AskBlock, AskConflictingBlock
    <2>4. CASE \E tx \in Txs : AskTx(tx)
        BY <1>8, <2>4 DEF AskTx
    <2> QED BY <1>7, <1>9, <2>1, <2>2, <2>3, <2>4 DEF Visitor
<1> QED BY <1>1, <1>10

\* What a SELECT returns has its type, and the next SELECT is one of the page.
LEMMA ServerStep ==
    ASSUME WebTypeInv, Server
    PROVE  /\ UNCHANGED <<recordVars, colvars, request, before>>
           /\ WebTypeInv'
<1> USE DEF WebTypeInv
<1>1. UNCHANGED <<recordVars, colvars, request, before>>
    BY ServerByKind
<1>2. id' = id /\ pool_name' = pool_name
    BY <1>1 DEF colvars
<1>3. TableInv'
    BY <1>1, SameTables
<1> DEFINE S == Listed(request.kind, request.pool)
<1>4. IsFiniteSet(Blocks) /\ IsFiniteSet(Txs) /\ S \subseteq Blocks
    BY WebAssumption, ListedAreBlocks
<1>5. \A T : T \subseteq Blocks \/ T \subseteq Txs => PageCount(T) \in Nat
    BY <1>4, FS_Subset, PageCountIsNat
<1>6. ASSUME NEW at, NEW to, SelectList(at, to)
      PROVE  /\ result' \in Results /\ result'.pages = result.pages
             /\ crawl' \in [first : SUBSET Blocks, seen : SUBSET Blocks]
             /\ step = at /\ step' = to
    <2>1. PICK L \in Page(S, OrderedBy(request.kind), request.page) :
              /\ Select(at, [result EXCEPT !.list = L], to)
              /\ crawl' = [crawl EXCEPT !.seen = @ \cup L]
        BY <1>6 DEF SelectList
    <2>2. L \subseteq Blocks
        BY <1>4, PageIsPart
    <2> QED BY <2>1, <2>2 DEF Select, WebTypeOK
<1>7. ASSUME NEW r, r \in Results, NEW at, NEW ok, Finish(at, r, ok)
      PROVE  /\ result' \in Results /\ result'.pages = r.pages
             /\ crawl' = crawl /\ step = at /\ step' = "done"
    BY <1>7 DEF Finish, SelectRows, Select
<1>8. ASSUME NEW r, r \in Results, NEW at, NEW to, SelectRows(at, r, to)
      PROVE  /\ result' \in Results /\ result'.pages = r.pages
             /\ crawl' = crawl /\ step = at /\ step' = to
    BY <1>8 DEF SelectRows, Select
<1>9. result \in Results
    BY DEF WebTypeOK
<1> DEFINE Fine == /\ result' \in Results
                   /\ \/ crawl' = crawl
                      \/ crawl' \in [first : SUBSET Blocks, seen : SUBSET Blocks]
                   /\ request.kind \notin ListKinds \cup {"missing"} =>
                         result'.pages = result.pages
<1>10. Fine
    <2>1. CASE BlocksList \/ ConflictingList \/ DebugList
        BY <1>6, <2>1 DEF BlocksList, ConflictingList, DebugList
    <2>2. CASE BlocksCount
        <3>1. Named(request.pool) \subseteq Blocks
            BY DEF Named, TableInv, RecordInv, RecordTypeOK
        <3>2. [result EXCEPT !.pages = PageCount(Named(request.pool))] \in Results
            BY <1>5, <1>9, <3>1
        <3>3. request.kind = "blocks"
            BY <2>2 DEF BlocksCount, Finish, SelectRows, Select, StepInv
        <3> QED BY <1>7, <2>2, <3>2, <3>3 DEF BlocksCount, ListKinds
    <2>3. CASE ConflictingCount
        <3>1. [result EXCEPT !.pages = PageCount(BlocksWithConflicts)] \in Results
            BY <1>5, <1>9 DEF BlocksWithConflicts
        <3>2. request.kind = "conflicting"
            BY <2>3 DEF ConflictingCount, SelectRows, Select, StepInv
        <3> QED BY <1>8, <2>3, <3>1, <3>2 DEF ConflictingCount, ListKinds
    <2>4. CASE DebugCount
        <3>1. [result EXCEPT !.pages = PageCount(debug)] \in Results
            BY <1>5, <1>9 DEF TableInv, RecordInv, RecordTypeOK
        <3>2. request.kind = "debug"
            BY <2>4 DEF DebugCount, Finish, SelectRows, Select, StepInv
        <3> QED BY <1>7, <2>4, <3>1, <3>2 DEF DebugCount, ListKinds
    <2>5. CASE MissingCount
        <3>1. [result EXCEPT !.pages = PageCount(Missing)] \in Results
            BY <1>5, <1>9 DEF Missing
        <3>2. request.kind = "missing"
            BY <2>5 DEF MissingCount, SelectRows, Select, StepInv
        <3> QED BY <1>8, <2>5, <3>1, <3>2 DEF MissingCount
    <2>6. CASE MissingList
        <3>1. PICK L \in Page(Missing, [tx \in Missing |-> MaxId(MissingFrom(tx))],
                              request.page) :
                  SelectRows("missing_list", [result EXCEPT !.found = L], "transactions")
            BY <2>6 DEF MissingList
        <3>2. L \subseteq Txs
            BY PageIsPart DEF Missing
        <3>3. /\ [result EXCEPT !.found = L] \in Results
              /\ [result EXCEPT !.found = L].pages = result.pages
            BY <1>9, <3>2
        <3> QED BY <1>8, <3>1, <3>3
    <2>7. CASE FindBlock
        <3> DEFINE there == request.arg \cap stored
        <3>1. there \subseteq Blocks
            BY DEF TableInv, RecordInv, RecordTypeOK
        <3>2. /\ [result EXCEPT !.status = "error"] \in Results
              /\ [result EXCEPT !.status = "error"].pages = result.pages
              /\ [result EXCEPT !.list = there] \in Results
              /\ [result EXCEPT !.list = there].pages = result.pages
            BY <1>9, <3>1
        <3> QED BY <1>8, <2>7, <3>2 DEF FindBlock
    <2>8. CASE SelectOnlyInTemplate \/ SelectOnlyInBlock
        <3> DEFINE M == transaction \cap UNION { only_in_template[b] : b \in result.list }
                   E == transaction \cap UNION { only_in_block[b] : b \in result.list }
        <3>1. M \subseteq Txs /\ E \subseteq Txs
            BY DEF TableInv, RecordInv, RecordTypeOK
        <3>2. /\ [result EXCEPT !.missing = M] \in Results
              /\ [result EXCEPT !.missing = M].pages = result.pages
              /\ [result EXCEPT !.extra = E] \in Results
              /\ [result EXCEPT !.extra = E].pages = result.pages
            BY <1>9, <3>1
        <3>3. CASE SelectOnlyInTemplate
            BY <1>8, <3>2, <3>3 DEF SelectOnlyInTemplate
        <3>4. CASE SelectOnlyInBlock
            BY <1>7, <1>8, <3>2, <3>4 DEF SelectOnlyInBlock
        <3> QED BY <2>8, <3>3, <3>4
    <2>9. CASE SelectSanctioned
        <3> DEFINE R == UNION { SanctionedRows(b) : b \in result.list }
        <3>1. R \subseteq Blocks \X Txs
            BY DEF SanctionedRows, TableInv, RecordInv, RecordTypeOK
        <3>2. /\ [result EXCEPT !.rows = R] \in Results
              /\ [result EXCEPT !.rows = R].pages = result.pages
            BY <1>9, <3>1
        <3> QED BY <1>7, <2>9, <3>2 DEF SelectSanctioned
    <2>10. CASE SelectTransaction
        <3> DEFINE there == request.arg \cap transaction
                   r == [result EXCEPT !.found = there,
                                       !.status = IF there = {} THEN "error" ELSE @]
        <3>1. there \subseteq Txs
            BY DEF TableInv, RecordInv, RecordTypeOK
        <3>2. r \in Results /\ r.pages = result.pages
            BY <1>9, <3>1
        <3> QED BY <1>8, <2>10, <3>2 DEF SelectTransaction
    <2>11. CASE SelectTransactions
        <3> DEFINE r == [result EXCEPT !.found = @ \cap transaction]
        <3>1. r \in Results /\ r.pages = result.pages
            BY <1>9
        <3> QED BY <1>8, <2>11, <3>1 DEF SelectTransactions
    <2>12. CASE SelectTemplateRows
        <3> DEFINE R == { r \in Blocks \X result.found : r[2] \in only_in_template[r[1]] }
        <3>1. R \subseteq Blocks \X Txs
            BY <1>9
        <3>2. /\ [result EXCEPT !.rows = R] \in Results
              /\ [result EXCEPT !.rows = R].pages = result.pages
            BY <1>9, <3>1
        <3> QED BY <1>8, <2>12, <3>2 DEF SelectTemplateRows
    <2>13. CASE SelectMissingBlocks
        <3> DEFINE B == { b \in stored : \E r \in result.rows : r[1] = b }
        <3>1. B \subseteq Blocks
            BY DEF TableInv, RecordInv, RecordTypeOK
        <3>2. /\ [result EXCEPT !.blocks = B] \in Results
              /\ [result EXCEPT !.blocks = B].pages = result.pages
            BY <1>9, <3>1
        <3> QED BY <1>7, <2>13, <3>2 DEF SelectMissingBlocks
    <2>14. CASE SelectConflicts
        <3> DEFINE R == { r \in result.list \X Txs : r[2] \in conflicting[r[1]] }
        <3>1. R \subseteq Blocks \X Txs
            BY <1>9
        <3>2. /\ [result EXCEPT !.rows = R] \in Results
              /\ [result EXCEPT !.rows = R].pages = result.pages
            BY <1>9, <3>1
        <3> QED BY <1>8, <2>14, <3>2 DEF SelectConflicts
    <2>15. CASE SelectConflictTransactions
        <3> DEFINE F == { r[2] : r \in result.rows } \cap transaction
        <3>1. F \subseteq Txs
            BY DEF TableInv, RecordInv, RecordTypeOK
        <3>2. /\ [result EXCEPT !.found = F] \in Results
              /\ [result EXCEPT !.found = F].pages = result.pages
            BY <1>9, <3>1
        <3> QED BY <1>7, <1>8, <2>15, <3>2 DEF SelectConflictTransactions
    <2>16. CASE SelectConflictBlocks
        <3> DEFINE B == result.list \cap stored
        <3>2. /\ [result EXCEPT !.blocks = B] \in Results
              /\ [result EXCEPT !.blocks = B].pages = result.pages
            BY <1>9
        <3> QED BY <1>7, <2>16, <3>2 DEF SelectConflictBlocks
    <2>17. CASE DebugInfos \/ DebugBlocks
        <3>1. ASSUME NEW B \in SUBSET Blocks
              PROVE  [result EXCEPT !.blocks = B] \in Results
                     /\ [result EXCEPT !.blocks = B].pages = result.pages
            BY <1>9
        <3>2. /\ result.list \cap debug \in SUBSET Blocks
              /\ result.blocks \cap stored \in SUBSET Blocks
            BY <1>9
        <3> QED BY <1>8, <2>17, <3>1, <3>2 DEF DebugInfos, DebugBlocks
    <2> QED BY <2>1, <2>2, <2>3, <2>4, <2>5, <2>6, <2>7, <2>8, <2>9, <2>10, <2>11,
               <2>12, <2>13, <2>14, <2>15, <2>16, <2>17 DEF Server
<1>11. WebTypeOK'
    BY <1>1, <1>2, <1>10 DEF WebTypeOK
<1>12. StepInv'
    <2> USE DEF Select, SelectList, SelectRows, Finish,
        BlocksList, BlocksCount, FindBlock, SelectOnlyInTemplate, SelectOnlyInBlock,
        SelectSanctioned, MissingCount, MissingList, SelectTransaction,
        SelectTransactions, SelectTemplateRows, SelectMissingBlocks, ConflictingList,
        ConflictingCount, SelectConflicts, SelectConflictTransactions,
        SelectConflictBlocks, DebugList, DebugInfos, DebugBlocks, DebugCount
    <2>1. request' = request /\ Fine
        BY <1>1, <1>10
    <2> QED BY <2>1 DEF StepInv, Server
<1> QED BY <1>1, <1>3, <1>11, <1>12

\* Every step: the tables grow, and the daemon, the visitor or the server moves.
LEMMA WebStep ==
    ASSUME WebTypeInv, [WebNext]_vars
    PROVE  /\ WebTypeInv' /\ Grows
           /\ \/ UNCHANGED webvars
              \/ Visitor /\ UNCHANGED <<recordVars, colvars>> /\ result' = NoResult
              \/ Server /\ UNCHANGED <<recordVars, colvars, request, before>>
<1>1. CASE Daemon
    <2>1. TableInv' /\ Grows /\ UNCHANGED webvars
        BY <1>1, DaemonStep DEF WebTypeInv, TableInv
    <2>2. WebTypeOK' /\ StepInv'
        BY <2>1 DEF WebTypeInv, TableInv, IdInv, WebTypeOK, StepInv, webvars
    <2> QED BY <2>1, <2>2 DEF WebTypeInv
<1>2. CASE Visitor
    BY <1>2, VisitorStep, SameTables DEF WebTypeInv
<1>3. CASE Server
    BY <1>3, ServerStep, SameTables DEF WebTypeInv
<1>4. CASE UNCHANGED vars
    <2>1. UNCHANGED <<recordVars, colvars>> /\ UNCHANGED webvars
        BY <1>4 DEF vars
    <2>2. WebTypeOK' /\ StepInv'
        BY <2>1 DEF WebTypeInv, WebTypeOK, StepInv, webvars, colvars
    <2> QED BY <2>1, <2>2, SameTables DEF WebTypeInv
<1> QED BY <1>1, <1>2, <1>3, <1>4 DEF WebNext

LEMMA WebInitTypes == WebInit => WebTypeInv
<1> SUFFICES ASSUME WebInit PROVE WebTypeInv
    OBVIOUS
<1>1. RecordInv
    BY RecordInit DEF WebInit
<1>2. IdInv
    BY DEF WebInit, Init, IdInv, HasMax, HaveMissing
<1>3. WebTypeOK
    BY DEF WebInit, WebTypeOK, NoRequest, NoResult, Nothing, NoCrawl
<1>4. StepInv
    BY DEF WebInit, StepInv, NoRequest, NoResult
<1> QED BY <1>1, <1>2, <1>3, <1>4 DEF WebTypeInv, TableInv

\* What the SELECTs of a page return has its type, and the rows of the tables are
\* what RecordInv and IdInv say.
THEOREM WebTypes == WebSpec => []WebTypeInv
<1>1. WebTypeInv /\ [WebNext]_vars => WebTypeInv'
    BY WebStep
<1> QED BY <1>1, WebInitTypes, PTL DEF WebSpec

\* The types of the state, for every history of the database and the visitor.
THEOREM WebTypeCorrect == WebSpec => []WebTypeOK
<1>1. WebTypeInv => WebTypeOK
    BY DEF WebTypeInv
<1> QED BY <1>1, WebTypes, PTL

-----------------------------------------------------------------------------
(* The page of a block                                                     *)

\* What has been read of block b.
SidesInv(b) ==
    /\ result.missing \in {{}, row[b].missing}
    /\ result.extra \in {{}, row[b].extra}
    /\ step = "only_in_block" =>
          (result.missing # {} => only_in_block[b] = row[b].extra)
    /\ step \in {"sanctioned", "done"} =>
          (result.missing # {} => result.extra = row[b].extra)

\* ... if it was complete before.
CompleteInv(b) ==
    /\ b \in debug
    /\ step \in {"only_in_block", "sanctioned", "done"} => result.missing = row[b].missing
    /\ step \in {"sanctioned", "done"} => result.extra = row[b].extra
    /\ step = "done" => /\ { r[2] : r \in result.rows } = row[b].sanctioned
                        /\ {b} \X row[b].sanctioned \subseteq result.rows

BlockInv ==
    /\ before.complete \subseteq debug
    /\ request.kind = "block" =>
          /\ result.list \subseteq request.arg \cap stored
          /\ step = "block" => result.list = {}
          /\ step \in {"block", "only_in_template"} => result.missing = {}
          /\ step \in {"block", "only_in_template", "only_in_block"} => result.extra = {}
          /\ step # "done" => result.rows = {}
          /\ \A b \in result.list : SidesInv(b)
          /\ \A b \in result.list \cap before.complete : CompleteInv(b)

LEMMA BlockPageGrows ==
    ASSUME WebTypeInv, WebTypeInv', Grows, BlockInv, UNCHANGED webvars
    PROVE  BlockInv'
<1> USE DEF BlockInv, webvars
<1>1. before'.complete \subseteq debug'
    BY DEF Grows
<1>2. SUFFICES ASSUME request.kind = "block"
               PROVE  /\ result.list \subseteq stored'
                      /\ \A b \in result.list : SidesInv(b)'
                      /\ \A b \in result.list \cap before.complete : CompleteInv(b)'
    BY <1>1
<1>3. result.list \subseteq stored /\ result.list \subseteq stored'
      /\ \A b \in result.list : row'[b] = row[b]
    BY <1>2 DEF Grows
<1>4. \A b \in result.list \cap before.complete : CompleteInv(b)'
    BY <1>2, <1>3 DEF CompleteInv, Grows
<1>5. ASSUME NEW b \in result.list PROVE SidesInv(b)'
    <2>1. SidesInv(b) /\ row'[b] = row[b] /\ b \in Blocks
        BY <1>2, <1>3 DEF WebTypeInv, WebTypeOK
    <2>2. RowsOK(b)' /\ only_in_block[b] \subseteq only_in_block'[b]
        BY <2>1 DEF WebTypeInv, TableInv, RecordInv, Grows
    <2>3. only_in_block[b] = row[b].extra => only_in_block'[b] = row'[b].extra
        BY <2>1, <2>2 DEF RowsOK
    <2> QED BY <2>1, <2>3 DEF SidesInv
<1> QED BY <1>3, <1>4, <1>5

LEMMA BlockPageAsked ==
    ASSUME WebTypeInv, WebTypeInv', Visitor, UNCHANGED <<recordVars, colvars>>,
           result' = NoResult
    PROVE  BlockInv'
<1>1. before'.complete \subseteq debug'
    BY DEF Visitor, AskBlocks, AskMissing, AskConflicting, AskDebug, AskNextPage,
           AskBlock, AskConflictingBlock, AskTx, AskOne, AskList, Ask, Leave, Nothing,
           recordVars
<1> QED BY <1>1 DEF BlockInv, NoResult

LEMMA BlockPageServed ==
    ASSUME WebTypeInv, BlockInv, Server,
           UNCHANGED <<recordVars, colvars, request, before>>
    PROVE  BlockInv'
<1>1. stored' = stored /\ row' = row /\ debug' = debug /\ only_in_block' = only_in_block
      /\ request' = request /\ before' = before
    BY DEF recordVars, blockTable
<1>2. SUFFICES ASSUME request.kind = "block" PROVE BlockInv'
    BY <1>1 DEF BlockInv
<1>3. PICK a \in Blocks : request.arg = {a}
    BY <1>2 DEF WebTypeInv, StepInv
<1>4. result.list \subseteq {a} \cap stored
    BY <1>2, <1>3 DEF BlockInv
<1>5. RowsOK(a) /\ (a \in debug => Whole(a))
    BY DEF WebTypeInv, TableInv, RecordInv
<1>6. /\ row \in [Blocks -> Comparison] /\ only_in_block \in [Blocks -> SUBSET Txs]
      /\ only_in_template \in [Blocks -> SUBSET Txs] /\ transaction \subseteq Txs
    BY DEF WebTypeInv, TableInv, RecordInv, RecordTypeOK
<1>7. result \in Results
    BY DEF WebTypeInv, WebTypeOK
<1> USE DEF SelectRows, Select
<1>8. CASE FindBlock
    <2>1. step = "block" /\ result.list = {} /\ result.missing = {} /\ result.extra = {}
          /\ result.rows = {}
        BY <1>2, <1>8 DEF FindBlock, BlockInv
    <2>2. CASE request.arg \cap stored = {}
        <3>1. result' = [result EXCEPT !.status = "error"]
            BY <1>8, <2>2 DEF FindBlock
        <3>2. result'.list = {}
            BY <1>7, <2>1, <3>1
        <3>3. step' = "done"
            BY <1>8, <2>2 DEF FindBlock
        <3> QED BY <1>1, <3>2, <3>3 DEF BlockInv
    <2>3. CASE request.arg \cap stored # {}
        <3>1. /\ result' = [result EXCEPT !.list = request.arg \cap stored]
              /\ step' = "only_in_template"
            BY <1>2, <1>8, <2>3 DEF FindBlock
        <3>2. /\ result'.list = request.arg \cap stored
              /\ result'.missing = {} /\ result'.extra = {} /\ result'.rows = {}
            BY <1>7, <2>1, <3>1
        <3> QED BY <1>1, <3>1, <3>2 DEF BlockInv, SidesInv, CompleteInv
    <2> QED BY <2>2, <2>3
<1>9. CASE SelectOnlyInTemplate
    <2>1. /\ step = "only_in_template" /\ step' = "only_in_block"
          /\ result' = [result EXCEPT !.missing =
                 transaction \cap UNION { only_in_template[b] : b \in result.list }]
        BY <1>9 DEF SelectOnlyInTemplate
    <2>2. /\ result'.list = result.list /\ result'.extra = {} /\ result'.rows = {}
          /\ result'.missing =
                transaction \cap UNION { only_in_template[b] : b \in result.list }
        BY <1>2, <1>7, <2>1 DEF BlockInv
    <2>3. ASSUME a \in result.list PROVE result'.missing = only_in_template[a]
        BY <1>4, <1>5, <2>2, <2>3 DEF RowsOK
    <2> QED BY <1>1, <1>2, <1>4, <1>5, <2>1, <2>2, <2>3
            DEF BlockInv, SidesInv, CompleteInv, RowsOK, Whole
<1>10. CASE SelectOnlyInBlock
    <2> DEFINE res == [result EXCEPT !.extra =
                   transaction \cap UNION { only_in_block[b] : b \in result.list }]
    <2>1. /\ res.list = result.list /\ res.missing = result.missing
          /\ res.rows = {}
          /\ res.extra = transaction \cap UNION { only_in_block[b] : b \in result.list }
        <3>1. step = "only_in_block"
            BY <1>10 DEF SelectOnlyInBlock, Finish
        <3> QED BY <1>2, <1>7, <3>1 DEF BlockInv
    <2>2. /\ step = "only_in_block" /\ step' \in {"sanctioned", "done"}
          /\ result'.list = res.list /\ result'.missing = res.missing
          /\ result'.rows = res.rows /\ result'.extra = res.extra
        BY <1>7, <1>10 DEF SelectOnlyInBlock, Finish
    <2>3. ASSUME a \in result.list PROVE result'.extra = only_in_block[a]
        BY <1>4, <1>5, <2>1, <2>2, <2>3 DEF RowsOK
    <2>4. ASSUME a \in result.list, step' = "done" PROVE row[a].sanctioned = {}
        BY <1>10, <2>4 DEF SelectOnlyInBlock, Finish
    <2> QED BY <1>1, <1>2, <1>4, <1>5, <2>1, <2>2, <2>3, <2>4
            DEF BlockInv, SidesInv, CompleteInv, RowsOK, Whole
<1>11. CASE SelectSanctioned
    <2> DEFINE R == UNION { SanctionedRows(b) : b \in result.list }
    <2>1. /\ step = "sanctioned" /\ step' = "done"
          /\ result'.list = result.list /\ result'.missing = result.missing
          /\ result'.extra = result.extra /\ result'.rows = R
        BY <1>7, <1>11 DEF SelectSanctioned, Finish
    <2>2. ASSUME a \in result.list, a \in before.complete
          PROVE  /\ { r[2] : r \in R } = row[a].sanctioned
                 /\ {a} \X row[a].sanctioned \subseteq R
        <3>1. Whole(a)
            BY <1>2, <1>5, <2>2 DEF BlockInv
        <3>2. R = SanctionedRows(a)
            BY <1>4, <2>2
        <3>3. \A r \in SanctionedRows(a) : r[2] \in row[a].sanctioned
            BY <1>5, <3>1 DEF SanctionedRows, Whole, RowsOK
        <3>4. ASSUME NEW tx \in row[a].sanctioned
              PROVE  <<a, tx>> \in SanctionedRows(a)
            <4>1. tx \in transaction
                BY <1>5, <3>1, <3>4 DEF Whole, RowsOK
            <4> QED BY <1>5, <3>1, <3>4, <4>1 DEF SanctionedRows, Whole, RowsOK
        <3>5. \A tx \in row[a].sanctioned : \E r \in SanctionedRows(a) : r[2] = tx
            BY <3>4
        <3>6. { r[2] : r \in SanctionedRows(a) } = row[a].sanctioned
            BY <3>3, <3>5
        <3> QED BY <3>2, <3>4, <3>6
    <2> QED BY <1>1, <1>2, <1>4, <1>5, <2>1, <2>2 DEF BlockInv, SidesInv, CompleteInv
<1> QED BY <1>2, <1>8, <1>9, <1>10, <1>11, ServerByKind DEF WebTypeInv

LEMMA BlockStep ==
    ASSUME WebTypeInv, BlockInv, [WebNext]_vars
    PROVE  BlockInv'
BY WebStep, BlockPageGrows, BlockPageAsked, BlockPageServed

\* What block_with_tx has read, SELECT by SELECT.
THEOREM BlockPages == WebSpec => []BlockInv
<1>1. WebInit => BlockInv
    BY DEF WebInit, Init, BlockInv, NoRequest, Nothing
<1>2. WebTypeInv /\ BlockInv /\ [WebNext]_vars => BlockInv'
    BY BlockStep
<1> QED BY <1>1, <1>2, WebTypes, PTL DEF WebSpec

\* block_with_tx while process writes the block: no page shows a part of a side,
\* or the template's side without the block's.
THEOREM SidesAreWhole == WebSpec => []SidesWhole
<1>1. BlockInv => SidesWhole
    BY DEF BlockInv, SidesInv, SidesWhole, Served
<1> QED BY <1>1, BlockPages, PTL

\* block_with_tx and missing_sanctioned_txns_for_block of a block with debug rows:
\* the page shows what its row counts, and no row of the join on the transaction
\* alone, whichever block it belongs to, names another transaction.
THEOREM CompletePagesExact == WebSpec => []CompletePageExact
<1>1. BlockInv => CompletePageExact
    BY DEF BlockInv, CompleteInv, CompletePageExact, Served
<1> QED BY <1>1, BlockPages, PTL

-----------------------------------------------------------------------------
(* The pages of missing transactions                                       *)

MissingKinds == {"missing", "missing_tx"}

\* The blocks that count for tx, seen from the time of the request.
Recent(tx) == { b \in TemplateBlocks(tx) : /\ <<b, tx>> \notin Excluded
                                          /\ id[b] > before.newest - Window }

\* ... those with a row in the answer.
Shown(tx) == { b \in Blocks : /\ <<b, tx>> \in result.rows \ Excluded
                              /\ id[b] > before.newest - Window }

MissingInv ==
    /\ request.kind \in MissingKinds => \A r \in result.rows : r[1] \in stored
    /\ request.kind = "missing" =>
          /\ before.newest <= NewestMissing
          /\ step \in {"transactions", "template_rows"} =>
                \A tx \in result.found : Cardinality(Recent(tx)) > Threshold
          /\ step \in {"missing_blocks", "done"} =>
                \A tx \in result.found : Cardinality(Shown(tx)) > Threshold
          /\ step = "done" => \A r \in result.rows : r[1] \in result.blocks

LEMMA MoreBlocks ==
    ASSUME NEW S \in SUBSET Blocks, NEW T \in SUBSET Blocks, S \subseteq T,
           Cardinality(S) > Threshold
    PROVE  Cardinality(T) > Threshold
<1>1. IsFiniteSet(T) /\ Threshold \in Nat
    BY FS_Subset, WebAssumption
<1>2. /\ IsFiniteSet(S) /\ Cardinality(S) <= Cardinality(T)
      /\ Cardinality(S) \in Nat /\ Cardinality(T) \in Nat
    BY <1>1, FS_Subset, FS_CardinalityType
<1> QED BY <1>1, <1>2

\* The latest block with missing transactions only gets later.
LEMMA NewestGrows ==
    ASSUME TableInv, TableInv', Grows
    PROVE  /\ NewestMissing \in Nat /\ NewestMissing' \in Nat
           /\ NewestMissing <= NewestMissing'
<1>1. HaveMissing \subseteq HaveMissing' /\ HaveMissing \subseteq stored
      /\ HaveMissing \subseteq Blocks /\ HaveMissing' \subseteq Blocks
    BY MissingAreStored DEF TableInv, HaveMissing, Grows
<1>2. /\ MaxId(HaveMissing) \in Nat
      /\ HaveMissing # {} => \E b \in HaveMissing : MaxId(HaveMissing) = id[b]
    BY <1>1, MaxIdIsMax DEF TableInv, IdInv
<1>3. /\ MaxId(HaveMissing)' \in Nat
      /\ \A b \in HaveMissing' : id'[b] <= MaxId(HaveMissing)'
    <2>1. id' \in [Blocks -> Nat] /\ HaveMissing' \in SUBSET Blocks
          /\ (HaveMissing' = {}
                \/ \E m \in HaveMissing' : \A b \in HaveMissing' : id'[b] <= id'[m])
        BY <1>1 DEF TableInv, IdInv, HasMax
    <2>2. MaxId(HaveMissing)' =
             IF HaveMissing' = {} THEN 0
             ELSE CHOOSE n \in { id'[b] : b \in HaveMissing' } :
                     \A b \in HaveMissing' : id'[b] <= n
        BY DEF MaxId
    <2> QED BY <2>1, <2>2, MaxOf
<1>4. NewestMissing = MaxId(HaveMissing) /\ NewestMissing' = MaxId(HaveMissing)'
    BY DEF NewestMissing, HaveMissing
<1>5. CASE HaveMissing = {}
    BY <1>2, <1>3, <1>4, <1>5 DEF MaxId
<1>6. CASE HaveMissing # {}
    BY <1>1, <1>2, <1>3, <1>4, <1>6 DEF Grows
<1> QED BY <1>5, <1>6

LEMMA MissingPageGrows ==
    ASSUME WebTypeInv, WebTypeInv', Grows, MissingInv, UNCHANGED webvars
    PROVE  MissingInv'
<1> USE DEF webvars
<1>1. stored \subseteq stored' /\ stored \subseteq Blocks
    BY DEF Grows, WebTypeInv, TableInv, RecordInv, RecordTypeOK
<1>2. request.kind \in MissingKinds => \A r \in result.rows : r[1] \in stored'
    BY <1>1 DEF MissingInv
<1>3. SUFFICES ASSUME request.kind = "missing"
               PROVE  MissingInv'
    BY <1>2 DEF MissingInv
<1>4. before.newest <= NewestMissing'
    <2>1. /\ before.newest \in Nat /\ NewestMissing \in Nat /\ NewestMissing' \in Nat
          /\ NewestMissing <= NewestMissing'
        BY NewestGrows DEF WebTypeInv, WebTypeOK
    <2> QED BY <1>3, <2>1 DEF MissingInv
<1>5. ASSUME NEW tx \in result.found, step \in {"transactions", "template_rows"}
      PROVE  Cardinality(Recent(tx)') > Threshold
    <2>1. Cardinality(Recent(tx)) > Threshold
        BY <1>3, <1>5 DEF MissingInv
    <2>2. Recent(tx) \subseteq Recent(tx)'
        BY MissingAreStored
        DEF Recent, TemplateBlocks, Grows, WebTypeInv, TableInv, HaveMissing
    <2>3. Recent(tx) \in SUBSET Blocks /\ Recent(tx)' \in SUBSET Blocks
        BY DEF Recent, TemplateBlocks
    <2> QED BY <2>1, <2>2, <2>3, MoreBlocks
<1>6. ASSUME NEW tx \in result.found, step \in {"missing_blocks", "done"}
      PROVE  Cardinality(Shown(tx)') > Threshold
    <2>1. Cardinality(Shown(tx)) > Threshold
        BY <1>3, <1>6 DEF MissingInv
    <2>2. \A b \in Blocks : <<b, tx>> \in result.rows => id'[b] = id[b]
        BY <1>3 DEF MissingInv, MissingKinds, Grows
    <2>3. Shown(tx) \subseteq Shown(tx)'
        BY <2>2 DEF Shown
    <2>4. Shown(tx) \in SUBSET Blocks /\ Shown(tx)' \in SUBSET Blocks
        BY DEF Shown
    <2> QED BY <2>1, <2>3, <2>4, MoreBlocks
<1> QED BY <1>2, <1>3, <1>4, <1>5, <1>6 DEF MissingInv

LEMMA MissingPageAsked ==
    ASSUME WebTypeInv, WebTypeInv', Visitor, UNCHANGED <<recordVars, colvars>>,
           result' = NoResult
    PROVE  MissingInv'
<1>1. result'.rows = {} /\ result'.found = {}
    BY DEF NoResult
<1>2. NewestMissing' = NewestMissing /\ NewestMissing \in Nat
    BY NewestIsNat DEF recordVars, colvars, NewestMissing, MaxId, WebTypeInv
<1>3. request'.kind = "missing" => before'.newest = NewestMissing
    BY DEF Visitor, AskBlocks, AskMissing, AskConflicting, AskDebug, AskNextPage,
           AskBlock, AskConflictingBlock, AskTx, AskOne, AskList, Ask, Leave,
           NoRequest
<1> QED BY <1>1, <1>2, <1>3 DEF MissingInv

LEMMA MissingPageServed ==
    ASSUME WebTypeInv, MissingInv, Server,
           UNCHANGED <<recordVars, colvars, request, before>>
    PROVE  MissingInv'
<1>1. /\ stored' = stored /\ only_in_template' = only_in_template /\ id' = id
      /\ transaction' = transaction /\ request' = request /\ before' = before
    BY DEF recordVars, blockTable, colvars
<1>2. SUFFICES ASSUME request.kind \in MissingKinds PROVE MissingInv'
    BY <1>1 DEF MissingInv, MissingKinds
<1>3. NewestMissing' = NewestMissing /\ \A tx : Recent(tx)' = Recent(tx)
    BY <1>1 DEF NewestMissing, MaxId, Recent, TemplateBlocks
<1>4. result \in Results
    BY DEF WebTypeInv, WebTypeOK
<1>5. \A b \in Blocks : only_in_template[b] # {} => b \in stored
    BY DEF WebTypeInv, TableInv, RecordInv, NoRows
<1> USE DEF SelectRows, Select
<1>6. CASE MissingCount \/ SelectTransaction
    <2>1. result'.rows = result.rows /\ step' # "missing_blocks"
          /\ (request.kind = "missing" => step' = "missing_list")
        BY <1>2, <1>4, <1>6 DEF MissingCount, SelectTransaction, WebTypeInv, StepInv
    <2> QED BY <1>1, <1>3, <2>1 DEF MissingInv
<1>7. CASE MissingList
    <2>1. PICK L \in Page(Missing, [tx \in Missing |-> MaxId(MissingFrom(tx))],
                          request.page) :
              SelectRows("missing_list", [result EXCEPT !.found = L], "transactions")
        BY <1>7 DEF MissingList
    <2>2. result'.rows = result.rows /\ result'.found = L /\ step' = "transactions"
        BY <1>4, <2>1
    <2>3. ASSUME NEW tx \in L, request.kind = "missing"
          PROVE  Cardinality(Recent(tx)) > Threshold
        <3>1. Cardinality(MissingFrom(tx)) > Threshold
            BY PageIsPart DEF Missing
        <3>2. MissingFrom(tx) \subseteq Recent(tx)
            <4> SUFFICES ASSUME NEW b \in Blocks, id[b] > NewestMissing - Window
                         PROVE  id[b] > before.newest - Window
                BY DEF MissingFrom, Recent, TemplateBlocks
            <4>1. before.newest <= NewestMissing
                BY <2>3 DEF MissingInv
            <4>2. /\ before.newest \in Nat /\ NewestMissing \in Nat
                  /\ Window \in Nat /\ id[b] \in Nat
                BY NewestIsNat, WebAssumption DEF WebTypeInv, WebTypeOK
            <4> QED BY <4>1, <4>2
        <3>3. MissingFrom(tx) \in SUBSET Blocks /\ Recent(tx) \in SUBSET Blocks
            BY DEF MissingFrom, Recent, TemplateBlocks
        <3> QED BY <3>1, <3>2, <3>3, MoreBlocks
    <2> QED BY <1>1, <1>3, <2>2, <2>3 DEF MissingInv
<1>8. CASE SelectTransactions
    <2>1. /\ result'.rows = result.rows /\ result'.found \subseteq result.found
          /\ step = "transactions" /\ step' = "template_rows"
        BY <1>4, <1>8 DEF SelectTransactions
    <2> QED BY <1>1, <1>3, <2>1 DEF MissingInv
<1>9. CASE SelectTemplateRows
    <2> DEFINE R == { r \in Blocks \X result.found : r[2] \in only_in_template[r[1]] }
    <2>1. /\ result'.rows = R /\ result'.found = result.found
          /\ step = "template_rows" /\ step' = "missing_blocks"
        BY <1>4, <1>9 DEF SelectTemplateRows
    <2>2. \A r \in R : r[1] \in stored
        BY <1>5
    <2>3. ASSUME NEW tx \in result.found PROVE Shown(tx)' = Recent(tx)
        <3>1. \A b \in Blocks : <<b, tx>> \in R <=> tx \in only_in_template[b]
            OBVIOUS
        <3> QED BY <1>1, <2>1, <3>1 DEF Shown, Recent, TemplateBlocks
    <2> QED BY <1>1, <1>3, <2>1, <2>2, <2>3 DEF MissingInv
<1>10. CASE SelectMissingBlocks
    <2> DEFINE B == { b \in stored : \E r \in result.rows : r[1] = b }
    <2>1. /\ result'.rows = result.rows /\ result'.found = result.found
          /\ result'.blocks = B
          /\ step = "missing_blocks" /\ step' = "done"
        BY <1>4, <1>10 DEF SelectMissingBlocks, Finish
    <2>2. \A r \in result.rows : r[1] \in B
        BY <1>2 DEF MissingInv
    <2>3. \A tx : Shown(tx)' = Shown(tx)
        BY <1>1, <2>1 DEF Shown
    <2> QED BY <1>1, <1>3, <2>1, <2>2, <2>3 DEF MissingInv
<1> QED BY <1>2, <1>6, <1>7, <1>8, <1>9, <1>10, ServerByKind DEF WebTypeInv, MissingKinds

LEMMA MissingStep ==
    ASSUME WebTypeInv, MissingInv, [WebNext]_vars
    PROVE  MissingInv'
BY WebStep, MissingPageGrows, MissingPageAsked, MissingPageServed

\* What missing_transactions_data has read, SELECT by SELECT.
THEOREM MissingPages == WebSpec => []MissingInv
<1>1. WebInit => MissingInv
    BY DEF WebInit, MissingInv, MissingKinds, NoRequest
<1>2. WebTypeInv /\ MissingInv /\ [WebNext]_vars => MissingInv'
    BY MissingStep
<1> QED BY <1>1, <1>2, WebTypes, PTL DEF WebSpec

\* missing_transactions_data: whatever is written between its SELECTs, a listed
\* transaction is shown with more recent blocks than the threshold.
THEOREM ListedAreMissing == WebSpec => []MissingRepeatedly
<1>1. ASSUME WebTypeInv, MissingInv PROVE MissingRepeatedly
    <2> SUFFICES ASSUME Served("missing"), NEW tx \in result.found
                 PROVE  Cardinality({ b \in result.blocks :
                                       /\ <<b, tx>> \in result.rows \ Excluded
                                       /\ id[b] > before.newest - Window }) > Threshold
        BY DEF MissingRepeatedly
    <2>1. /\ Cardinality(Shown(tx)) > Threshold
          /\ \A r \in result.rows : r[1] \in result.blocks
        BY <1>1 DEF MissingInv, Served
    <2>2. Shown(tx) = { b \in result.blocks : /\ <<b, tx>> \in result.rows \ Excluded
                                             /\ id[b] > before.newest - Window }
        BY <1>1, <2>1 DEF Shown, WebTypeInv, WebTypeOK
    <2> QED BY <2>1, <2>2
<1> QED BY <1>1, WebTypes, MissingPages, PTL

-----------------------------------------------------------------------------
(* Lookups                                                                 *)

\* The conflicts of a page name transactions that are in table transaction; the
\* table of conflicts has no foreign key, but it is written after those that do.
LookupInv ==
    /\ result.status # "panic"
    /\ request.kind \in {"conflicting", "conflicting_block"} =>
          /\ \A r \in result.rows : r[2] \in transaction
          /\ step = "conflict_blocks" => \A r \in result.rows : r[2] \in result.found

LEMMA ConflictsStored ==
    ASSUME TableInv, NEW b \in Blocks, NEW tx \in conflicting[b]
    PROVE  tx \in transaction
<1>1. RowsOK(b)
    BY DEF TableInv, RecordInv
<1> QED BY <1>1 DEF RowsOK

\* A transaction above the threshold has a row.
LEMMA ShownHasRow ==
    ASSUME NEW tx, Cardinality(Shown(tx)) > Threshold
    PROVE  \E r \in result.rows : r[2] = tx
<1>1. Threshold \in Nat
    BY WebAssumption
<1>2. Shown(tx) # {}
    BY <1>1, FS_EmptySet
<1>3. PICK b \in Shown(tx) : TRUE
    BY <1>2
<1> QED BY <1>3 DEF Shown

LEMMA LookupServed ==
    ASSUME WebTypeInv, MissingInv, LookupInv, Server,
           UNCHANGED <<recordVars, colvars, request, before>>
    PROVE  LookupInv'
<1>1. stored' = stored /\ transaction' = transaction /\ request' = request
    BY DEF recordVars, blockTable
<1>2. result \in Results
    BY DEF WebTypeInv, WebTypeOK
<1>3. result.status # "panic"
    BY DEF LookupInv
<1> USE DEF SelectRows, Select, SelectList, Finish
<1>4. CASE request.kind \in {"blocks", "debug"}
    <2>1. result'.status # "panic"
        BY <1>2, <1>3, <1>4, ServerByKind
        DEF WebTypeInv, BlocksList, BlocksCount, DebugList, DebugInfos, DebugBlocks,
            DebugCount
    <2> QED BY <1>1, <1>4, <2>1 DEF LookupInv
<1>5. CASE request.kind = "block"
    <2>1. result'.status # "panic"
        BY <1>2, <1>3, <1>5, ServerByKind
        DEF WebTypeInv, FindBlock, SelectOnlyInTemplate, SelectOnlyInBlock,
            SelectSanctioned
    <2> QED BY <1>1, <1>5, <2>1 DEF LookupInv
<1>6. CASE request.kind \in MissingKinds
    <2>1. CASE SelectMissingBlocks
        <3> DEFINE B == { b \in stored : \E r \in result.rows : r[1] = b }
        <3>1. \A r \in result.rows : r[1] \in B
            BY <1>6 DEF MissingInv
        <3>2. step = "missing_blocks"
            BY <2>1 DEF SelectMissingBlocks
        <3>3. request.kind = "missing" =>
                 \A tx \in result.found : \E r \in result.rows : r[2] = tx
            BY <3>2, ShownHasRow DEF MissingInv
        <3>4. result' = [[result EXCEPT !.blocks = B] EXCEPT !.status = "ok"]
            BY <2>1, <3>1, <3>3 DEF SelectMissingBlocks
        <3>5. result'.status # "panic"
            BY <1>2, <3>4
        <3> QED BY <1>1, <1>6, <3>5 DEF LookupInv, MissingKinds
    <2>2. CASE \/ MissingCount \/ MissingList \/ SelectTransaction
               \/ SelectTransactions \/ SelectTemplateRows
        <3>1. result'.status # "panic"
            BY <1>2, <1>3, <2>2
            DEF MissingCount, MissingList, SelectTransaction, SelectTransactions,
                SelectTemplateRows
        <3> QED BY <1>1, <1>6, <3>1 DEF LookupInv, MissingKinds
    <2> QED BY <1>6, <2>1, <2>2, ServerByKind DEF WebTypeInv, MissingKinds
<1>7. CASE request.kind \in {"conflicting", "conflicting_block"}
    <2>1. CASE ConflictingList \/ ConflictingCount \/ FindBlock
        <3>1. result'.status # "panic" /\ result'.rows = result.rows
              /\ step' # "conflict_blocks"
            BY <1>2, <1>3, <2>1 DEF ConflictingList, ConflictingCount, FindBlock
        <3> QED BY <1>1, <3>1 DEF LookupInv
    <2>2. CASE SelectConflicts
        <3> DEFINE R == { r \in result.list \X Txs : r[2] \in conflicting[r[1]] }
        <3>1. result'.status # "panic" /\ result'.rows = R
              /\ step' = "conflict_transactions"
            BY <1>2, <1>3, <2>2 DEF SelectConflicts
        <3>2. \A r \in R : r[2] \in transaction
            BY <1>2, ConflictsStored DEF WebTypeInv
        <3> QED BY <1>1, <3>1, <3>2 DEF LookupInv
    <2>3. CASE SelectConflictTransactions
        <3> DEFINE F == { r[2] : r \in result.rows } \cap transaction
                   res == [result EXCEPT !.found = F]
        <3>1. \A r \in result.rows : r[2] \in transaction /\ r[2] \in F
            BY <1>7 DEF LookupInv
        <3>2. { r[2] : r \in result.rows } \subseteq F
            BY <3>1
        <3>3. res.found = F /\ res.rows = result.rows /\ res.status = result.status
            BY <1>2
        <3>4. result' = res \/ result' = [res EXCEPT !.status = "ok"]
            BY <2>3, <3>2, <3>3 DEF SelectConflictTransactions
        <3>5. result'.found = F /\ result'.rows = result.rows /\ result'.status # "panic"
            BY <1>2, <1>3, <3>4
        <3> QED BY <1>1, <3>1, <3>5 DEF LookupInv
    <2>4. CASE SelectConflictBlocks
        <3> DEFINE B == result.list \cap stored
        <3>1. \A r \in result.rows : r[2] \in transaction /\ r[2] \in result.found
            BY <1>7, <2>4 DEF LookupInv, SelectConflictBlocks
        <3>2. result' = [[result EXCEPT !.blocks = B] EXCEPT !.status = "ok"]
              /\ step' = "done"
            BY <2>4, <3>1 DEF SelectConflictBlocks
        <3>3. result'.status # "panic" /\ result'.rows = result.rows
            BY <1>2, <3>2
        <3> QED BY <1>1, <3>1, <3>2, <3>3 DEF LookupInv
    <2> QED BY <1>7, <2>1, <2>2, <2>3, <2>4, ServerByKind DEF WebTypeInv
<1>8. request.kind \in {"blocks", "debug", "block", "conflicting", "conflicting_block"}
                          \cup MissingKinds
    BY ServerByKind DEF WebTypeInv, StepInv, MissingKinds
<1> QED BY <1>4, <1>5, <1>6, <1>7, <1>8

LEMMA LookupStep ==
    ASSUME WebTypeInv, MissingInv, LookupInv, [WebNext]_vars
    PROVE  LookupInv'
<1>1. CASE UNCHANGED webvars
    BY <1>1, WebStep DEF LookupInv, webvars, Grows
<1>2. CASE result' = NoResult
    BY <1>2 DEF LookupInv, NoResult
<1> QED BY <1>1, <1>2, WebStep, LookupServed

\* No unwrap() of a handler panics.
THEOREM NoLookupFails == WebSpec => []LookupsSucceed
<1>1. WebInit => LookupInv
    BY DEF WebInit, LookupInv, NoResult, NoRequest
<1>2. WebTypeInv /\ MissingInv /\ LookupInv /\ [WebNext]_vars => LookupInv'
    BY LookupStep
<1>3. LookupInv => LookupsSucceed
    BY DEF LookupInv, LookupsSucceed
<1> QED BY <1>1, <1>2, <1>3, WebTypes, MissingPages, PTL DEF WebSpec

-----------------------------------------------------------------------------
(* Lists                                                                   *)

ListSteps == {"blocks_list", "conflicting_list", "debug_list"}

\* The steps until the pages are counted.
CountSteps == ListSteps \cup {"blocks_count", "conflicting_count", "debug_infos",
                             "debug_blocks", "debug_count"}

List == Listed(request.kind, request.pool)
Key  == OrderedBy(request.kind)

\* Nobody else has the key of u, and who comes before u.
Alone(u) == \A b \in List : Key[b] = Key[u] => b = u
Ahead(u) == { b \in List : Key[b] > Key[u] }

\* Of the blocks the visitor began with, those he has not seen are behind the
\* pages he has been served.
ListInv ==
    request.kind \in ListKinds /\ request.pool # Unknown =>
        /\ crawl.first \subseteq List
        /\ step \in ListSteps => result.list = {}
        /\ result.list # {} => Cardinality(List) >= MAX_BLOCKS_PER_PAGE * request.page + 1
        /\ result.list # {} /\ step \notin CountSteps => request.page < result.pages
        /\ \A u \in crawl.first \ crawl.seen : Alone(u) =>
              /\ Cardinality(Ahead(u)) >= MAX_BLOCKS_PER_PAGE * request.page
              /\ step \notin ListSteps =>
                    Cardinality(Ahead(u)) >= MAX_BLOCKS_PER_PAGE * (request.page + 1)
              /\ step \notin CountSteps => request.page + 1 < result.pages

LEMMA CardinalityGrows ==
    ASSUME NEW T \in SUBSET Blocks, NEW S \in SUBSET T
    PROVE  /\ IsFiniteSet(S) /\ IsFiniteSet(T)
           /\ Cardinality(S) \in Nat /\ Cardinality(T) \in Nat
           /\ Cardinality(S) <= Cardinality(T)
<1>1. IsFiniteSet(T)
    BY WebAssumption, FS_Subset
<1> QED BY <1>1, FS_Subset, FS_CardinalityType

\* S is a proper part of T.
LEMMA CardinalityLess ==
    ASSUME NEW T \in SUBSET Blocks, NEW S \in SUBSET T, NEW u \in T \ S
    PROVE  Cardinality(S) + 1 <= Cardinality(T)
<1>1. S \cup {u} \in SUBSET T
    OBVIOUS
<1>2. IsFiniteSet(S) /\ Cardinality(S \cup {u}) <= Cardinality(T)
    BY <1>1, CardinalityGrows
<1> QED BY <1>2, FS_AddElement

LEMMA PageProducts ==
    ASSUME NEW page \in Nat
    PROVE  /\ MAX_BLOCKS_PER_PAGE \in Nat \ {0}
           /\ MAX_BLOCKS_PER_PAGE * page \in Nat
           /\ MAX_BLOCKS_PER_PAGE * (page + 1) =
                 MAX_BLOCKS_PER_PAGE * page + MAX_BLOCKS_PER_PAGE
<1>1. MAX_BLOCKS_PER_PAGE \in Nat \ {0}
    BY WebAssumption
<1> QED BY <1>1

\* max_pages is the number of the last page with rows, and one more.
LEMMA PageCounted ==
    ASSUME NEW S \in SUBSET Blocks, NEW page \in Nat,
           Cardinality(S) >= MAX_BLOCKS_PER_PAGE * page + 1
    PROVE  page < PageCount(S)
<1>1. Cardinality(S) \in Nat /\ MAX_BLOCKS_PER_PAGE \in Nat \ {0}
    BY CardinalityGrows, PageProducts
<1> QED BY <1>1 DEF PageCount, CeilDiv

\* What LIMIT and OFFSET leave: a page with rows has the earlier pages before it,
\* and a row that is neither on an earlier page nor on this one is after it.
LEMMA PageInOrder ==
    ASSUME NEW S \in SUBSET Blocks, NEW key \in [Blocks -> Nat], NEW page \in Nat,
           NEW L \in Page(S, key, page)
    PROVE  /\ L # {} => Cardinality(S) >= MAX_BLOCKS_PER_PAGE * page + 1
           /\ \A u \in S \ L :
                 /\ \A b \in S : key[b] = key[u] => b = u
                 /\ Cardinality({ b \in S : key[b] > key[u] })
                       >= MAX_BLOCKS_PER_PAGE * page
                 => Cardinality({ b \in S : key[b] > key[u] })
                       >= MAX_BLOCKS_PER_PAGE * (page + 1)
<1> DEFINE offset == MAX_BLOCKS_PER_PAGE * page
<1>1. PICK skipped \in SUBSET (S \ L) :
          LET rest == S \ (skipped \cup L)
          IN  /\ \A a \in skipped, b \in L : key[a] >= key[b]
              /\ \A a \in skipped, b \in rest : key[a] >= key[b]
              /\ \A a \in L, b \in rest : key[a] >= key[b]
              /\ skipped = S \/ Cardinality(skipped) = offset
              /\ Cardinality(skipped) <= offset
              /\ rest = {} \/ Cardinality(L) = MAX_BLOCKS_PER_PAGE
    BY DEF Page
<1>2. L \subseteq S
    BY PageIsPart
<1>3. offset \in Nat /\ MAX_BLOCKS_PER_PAGE \in Nat
      /\ MAX_BLOCKS_PER_PAGE * (page + 1) = offset + MAX_BLOCKS_PER_PAGE
    BY PageProducts
<1>4. /\ IsFiniteSet(S) /\ IsFiniteSet(skipped) /\ IsFiniteSet(L)
      /\ Cardinality(S) \in Nat /\ Cardinality(skipped) \in Nat
      /\ Cardinality(L) \in Nat
    BY <1>2, CardinalityGrows
<1>5. ASSUME L # {} PROVE Cardinality(S) >= offset + 1
    <2>1. PICK u \in L : TRUE
        BY <1>5
    <2>2. u \in S \ skipped
        BY <1>2, <2>1
    <2>3. Cardinality(skipped) = offset
        BY <1>1, <2>2
    <2>4. Cardinality(skipped) + 1 <= Cardinality(S)
        BY <2>2, CardinalityLess
    <2> QED BY <1>3, <1>4, <2>3, <2>4
<1>6. ASSUME NEW u \in S \ L, \A b \in S : key[b] = key[u] => b = u,
             Cardinality({ b \in S : key[b] > key[u] }) >= offset
      PROVE  Cardinality({ b \in S : key[b] > key[u] }) >= offset + MAX_BLOCKS_PER_PAGE
    <2> DEFINE ahead == { b \in S : key[b] > key[u] }
    <2>1. \A b \in S : key[b] \in Nat
        OBVIOUS
    <2>2. u \notin skipped
        <3> SUFFICES ASSUME u \in skipped PROVE FALSE
            OBVIOUS
        <3>1. ahead \subseteq skipped
            BY <1>1, <2>1
        <3>2. u \notin ahead
            BY <2>1
        <3>3. Cardinality(ahead) + 1 <= Cardinality(skipped)
            BY <3>1, <3>2, CardinalityLess
        <3>4. Cardinality(ahead) \in Nat
            BY CardinalityGrows
        <3> QED BY <1>1, <1>3, <1>4, <1>6, <3>3, <3>4
    <2>3. Cardinality(skipped) = offset /\ Cardinality(L) = MAX_BLOCKS_PER_PAGE
        BY <1>1, <1>6, <2>2
    <2>4. skipped \cup L \subseteq ahead
        <3> SUFFICES ASSUME NEW b \in skipped \cup L PROVE key[b] > key[u]
            BY <1>2
        <3>1. b \in S /\ key[b] >= key[u]
            BY <1>1, <1>2, <1>6, <2>2
        <3>2. b # u
            BY <1>6, <2>2
        <3> QED BY <1>6, <2>1, <3>1, <3>2
    <2>5. Cardinality(skipped \cup L) = offset + MAX_BLOCKS_PER_PAGE
        <3>1. skipped \cap L = {}
            OBVIOUS
        <3>2. Cardinality(skipped \cap L) = 0
            BY <3>1, FS_EmptySet
        <3>3. Cardinality(skipped \cup L) =
                 Cardinality(skipped) + Cardinality(L) - Cardinality(skipped \cap L)
            BY <1>4, FS_Union
        <3> HIDE DEF offset
        <3> QED BY <1>3, <2>3, <3>2, <3>3
    <2>6. Cardinality(skipped \cup L) <= Cardinality(ahead) /\ Cardinality(ahead) \in Nat
        BY <2>4, CardinalityGrows
    <2> QED BY <1>3, <2>5, <2>6
<1> QED BY <1>3, <1>5, <1>6

LEMMA KeysAreNat ==
    ASSUME WebTypeInv
    PROVE  /\ Key \in [Blocks -> Nat] /\ List \in SUBSET Blocks /\ List \subseteq stored
           /\ request.page \in Nat /\ result.pages \in Nat
BY WebAssumption, ListedAreBlocks
DEF Key, OrderedBy, List, WebTypeInv, WebTypeOK

\* The lists grow, but for the one of the pool "Unknown".
LEMMA ListGrows ==
    ASSUME WebTypeInv, WebTypeInv', Grows, request' = request,
           request.kind \in ListKinds, request.pool # Unknown
    PROVE  /\ List \subseteq List' /\ List' \subseteq Blocks
           /\ \A b \in List : Key'[b] = Key[b]
<1>1. /\ stored \subseteq Blocks /\ debug \subseteq stored
      /\ stored' \subseteq Blocks /\ debug' \subseteq stored'
    BY DEF WebTypeInv, TableInv, RecordInv, RecordTypeOK
<1>2. CASE request.kind = "blocks"
    BY <1>1, <1>2 DEF List, Key, OrderedBy, Listed, Named, Grows
<1>3. CASE request.kind = "conflicting"
    BY <1>1, <1>3 DEF List, Key, OrderedBy, Listed, BlocksWithConflicts, Grows
<1>4. CASE request.kind = "debug"
    BY <1>1, <1>4 DEF List, Key, OrderedBy, Listed, Grows
<1> QED BY <1>2, <1>3, <1>4 DEF ListKinds

LEMMA ListPageGrows ==
    ASSUME WebTypeInv, WebTypeInv', Grows, ListInv, UNCHANGED webvars
    PROVE  ListInv'
<1>1. request' = request /\ step' = step /\ result' = result /\ crawl' = crawl
    BY DEF webvars
<1>2. SUFFICES ASSUME request.kind \in ListKinds, request.pool # Unknown
               PROVE  ListInv'
    BY <1>1 DEF ListInv
<1>3. /\ List \subseteq List' /\ List' \subseteq Blocks
      /\ \A b \in List : Key'[b] = Key[b]
    BY <1>1, <1>2, ListGrows
<1>4. /\ request.page \in Nat
      /\ MAX_BLOCKS_PER_PAGE * request.page \in Nat
      /\ MAX_BLOCKS_PER_PAGE * (request.page + 1) \in Nat
    <2>1. request.page \in Nat /\ request.page + 1 \in Nat
        BY KeysAreNat
    <2> QED BY <2>1, PageProducts
<1>5. ASSUME result.list # {}
      PROVE  Cardinality(List') >= MAX_BLOCKS_PER_PAGE * request.page + 1
    <2>1. Cardinality(List) >= MAX_BLOCKS_PER_PAGE * request.page + 1
        BY <1>2, <1>5 DEF ListInv
    <2>2. Cardinality(List) <= Cardinality(List')
          /\ Cardinality(List) \in Nat /\ Cardinality(List') \in Nat
        BY <1>3, CardinalityGrows
    <2> QED BY <1>4, <2>1, <2>2
<1>6. ASSUME NEW u \in crawl.first \ crawl.seen, Alone(u)'
      PROVE  /\ Alone(u)
             /\ Cardinality(Ahead(u)) \in Nat /\ Cardinality(Ahead(u)') \in Nat
             /\ Cardinality(Ahead(u)) <= Cardinality(Ahead(u)')
    <2>1. u \in List
        BY <1>2 DEF ListInv
    <2>2. Alone(u)
        BY <1>3, <1>6, <2>1 DEF Alone
    <2>3. Ahead(u) \subseteq Ahead(u)' /\ Ahead(u)' \in SUBSET Blocks
        BY <1>3, <2>1 DEF Ahead
    <2> QED BY <2>2, <2>3, CardinalityGrows
<1>7. ASSUME NEW u \in crawl.first \ crawl.seen, Alone(u)'
      PROVE  /\ Cardinality(Ahead(u)') >= MAX_BLOCKS_PER_PAGE * request.page
             /\ step \notin ListSteps =>
                   Cardinality(Ahead(u)') >= MAX_BLOCKS_PER_PAGE * (request.page + 1)
             /\ step \notin CountSteps => request.page + 1 < result.pages
    <2>1. /\ Cardinality(Ahead(u)) >= MAX_BLOCKS_PER_PAGE * request.page
          /\ step \notin ListSteps =>
                Cardinality(Ahead(u)) >= MAX_BLOCKS_PER_PAGE * (request.page + 1)
          /\ step \notin CountSteps => request.page + 1 < result.pages
        BY <1>2, <1>6, <1>7 DEF ListInv
    <2> QED BY <1>4, <1>6, <1>7, <2>1
<1>8. crawl.first \subseteq List'
    BY <1>2, <1>3 DEF ListInv
<1> QED BY <1>1, <1>2, <1>5, <1>7, <1>8 DEF ListInv

LEMMA ListPageAsked ==
    ASSUME WebTypeInv, WebTypeInv', ListInv, Visitor,
           UNCHANGED <<recordVars, colvars>>, result' = NoResult
    PROVE  ListInv'
<1>1. result'.list = {}
    BY DEF NoResult
<1>2. ASSUME NEW kind \in ListKinds, NEW pool, AskList(kind, pool)
      PROVE  ListInv'
    <2>1. /\ request' = [kind |-> kind, page |-> 0, pool |-> pool, arg |-> {}]
          /\ step' = FirstStep[kind]
          /\ crawl' = [first |-> Listed(kind, pool), seen |-> {}]
        BY <1>2 DEF AskList, Ask
    <2>2. request'.page = 0 /\ step' \in ListSteps /\ crawl'.first = Listed(kind, pool)
          /\ request'.kind = kind /\ request'.pool = pool
        BY <2>1 DEF FirstStep, ListSteps, ListKinds
    <2>3. List' = Listed(kind, pool)
        BY <2>2 DEF List, Listed, Named, BlocksWithConflicts, recordVars, colvars,
                blockTable
    <2>4. ASSUME NEW u PROVE Cardinality(Ahead(u)') >= MAX_BLOCKS_PER_PAGE * request'.page
        <3>1. Ahead(u)' \in SUBSET Blocks
            BY <2>3, ListedAreBlocks DEF Ahead, WebTypeInv
        <3>2. Cardinality(Ahead(u)') \in Nat
            BY <3>1, CardinalityGrows
        <3>3. MAX_BLOCKS_PER_PAGE * 0 = 0
            BY WebAssumption
        <3> QED BY <2>2, <3>2, <3>3
    <2> QED BY <1>1, <2>2, <2>3, <2>4 DEF ListInv, CountSteps
<1>3. CASE AskNextPage
    <2>1. /\ request' = [kind |-> request.kind, page |-> request.page + 1,
                         pool |-> request.pool, arg |-> {}]
          /\ step = "done" /\ step' = FirstStep[request.kind]
          /\ crawl' = crawl
        BY <1>3 DEF AskNextPage, Ask
    <2>2. SUFFICES ASSUME request.kind \in ListKinds, request.pool # Unknown
                   PROVE  ListInv'
        BY <2>1 DEF ListInv
    <2>3. request'.page = request.page + 1 /\ step' \in ListSteps
          /\ request'.kind = request.kind /\ request'.pool = request.pool
        BY <2>1, <2>2 DEF FirstStep, ListSteps, ListKinds
    <2>4. List' = List /\ Key' = Key
        BY <2>3 DEF List, Listed, Named, BlocksWithConflicts, recordVars, colvars,
                blockTable, Key, OrderedBy
    <2>5. \A u : Alone(u)' = Alone(u) /\ Ahead(u)' = Ahead(u)
        BY <2>4 DEF Alone, Ahead
    <2>6. step \notin CountSteps /\ step \notin ListSteps
        BY <2>1 DEF CountSteps, ListSteps
    <2> QED BY <1>1, <2>1, <2>2, <2>3, <2>4, <2>5, <2>6 DEF ListInv, CountSteps
<1>4. ASSUME request'.kind \notin ListKinds PROVE ListInv'
    BY <1>4 DEF ListInv
<1>5. CASE AskMissing \/ Leave \/ (\E tx \in Txs : AskTx(tx))
           \/ \E b \in Blocks : AskBlock(b) \/ AskConflictingBlock(b)
    <2>1. request'.kind \notin ListKinds
        BY <1>5 DEF AskMissing, Leave, AskTx, AskBlock, AskConflictingBlock, AskOne,
                AskList, Ask, NoRequest, ListKinds
    <2> QED BY <1>4, <2>1
<1>6. CASE AskBlocks \/ AskConflicting \/ AskDebug
    BY <1>2, <1>6 DEF AskBlocks, AskConflicting, AskDebug, ListKinds
<1> QED BY <1>3, <1>5, <1>6 DEF Visitor

\* The SELECT of the blocks of a page.
LEMMA ListSelected ==
    ASSUME WebTypeInv, ListInv, request.kind \in ListKinds, request.pool # Unknown,
           NEW at \in ListSteps, NEW to \in CountSteps \ ListSteps,
           SelectList(at, to), UNCHANGED <<recordVars, colvars, request, before>>
    PROVE  ListInv'
<1>1. request' = request /\ List' = List /\ Key' = Key
    BY DEF List, Listed, Named, BlocksWithConflicts, recordVars, colvars,
           blockTable, Key, OrderedBy
<1>2. \A u : Alone(u)' = Alone(u) /\ Ahead(u)' = Ahead(u)
    BY <1>1 DEF Alone, Ahead
<1>3. PICK L \in Page(List, Key, request.page) :
          /\ step = at /\ step' = to
          /\ result' = [result EXCEPT !.list = L]
          /\ crawl' = [crawl EXCEPT !.seen = @ \cup L]
    BY DEF SelectList, Select, List, Key
<1>4. /\ result'.list = L
      /\ crawl'.first = crawl.first /\ crawl'.seen = crawl.seen \cup L
    BY <1>3 DEF WebTypeInv, WebTypeOK
<1>5. Key \in [Blocks -> Nat] /\ List \in SUBSET Blocks /\ request.page \in Nat
    BY KeysAreNat
<1>6. L # {} => Cardinality(List) >= MAX_BLOCKS_PER_PAGE * request.page + 1
    BY <1>3, <1>5, PageInOrder
<1>7. ASSUME NEW u \in crawl'.first \ crawl'.seen, Alone(u)
      PROVE  /\ Cardinality(Ahead(u)) >= MAX_BLOCKS_PER_PAGE * request.page
             /\ Cardinality(Ahead(u)) >= MAX_BLOCKS_PER_PAGE * (request.page + 1)
    <2>1. u \in crawl.first \ crawl.seen /\ u \in List \ L
        BY <1>4, <1>7 DEF ListInv
    <2>2. Cardinality(Ahead(u)) >= MAX_BLOCKS_PER_PAGE * request.page
        BY <1>7, <2>1 DEF ListInv
    <2>3. /\ \A b \in List : Key[b] = Key[u] => b = u
          /\ Cardinality({ b \in List : Key[b] > Key[u] })
                >= MAX_BLOCKS_PER_PAGE * request.page
        BY <1>7, <2>2 DEF Alone, Ahead
    <2>4. Cardinality({ b \in List : Key[b] > Key[u] })
             >= MAX_BLOCKS_PER_PAGE * (request.page + 1)
        <3>1. \A v \in List \ L :
                 /\ \A b \in List : Key[b] = Key[v] => b = v
                 /\ Cardinality({ b \in List : Key[b] > Key[v] })
                       >= MAX_BLOCKS_PER_PAGE * request.page
                 => Cardinality({ b \in List : Key[b] > Key[v] })
                       >= MAX_BLOCKS_PER_PAGE * (request.page + 1)
            BY <1>3, <1>5, PageInOrder
        <3> QED BY <2>1, <2>3, <3>1, Zenon
    <2> QED BY <2>2, <2>4 DEF Ahead
<1>8. crawl.first \subseteq List
    BY DEF ListInv
<1> QED BY <1>1, <1>2, <1>3, <1>4, <1>6, <1>7, <1>8 DEF ListInv

\* The SELECT of their number: result.pages announces a next page if a block that
\* was there at the beginning is still unseen.
LEMMA PagesCounted ==
    ASSUME WebTypeInv, ListInv, request.kind \in ListKinds, request.pool # Unknown,
           step \in CountSteps \ ListSteps,
           step' \notin ListSteps, crawl' = crawl, result'.list = result.list,
           result'.pages = PageCount(List),
           UNCHANGED <<recordVars, colvars, request, before>>
    PROVE  ListInv'
<1>1. request' = request /\ List' = List /\ Key' = Key
    BY DEF List, Listed, Named, BlocksWithConflicts, recordVars, colvars,
           blockTable, Key, OrderedBy
<1>2. \A u : Alone(u)' = Alone(u) /\ Ahead(u)' = Ahead(u)
    BY <1>1 DEF Alone, Ahead
<1>3. Key \in [Blocks -> Nat] /\ List \in SUBSET Blocks /\ request.page \in Nat
    BY KeysAreNat
<1>4. result.list # {} => request.page < PageCount(List)
    BY <1>3, PageCounted DEF ListInv
<1>5. ASSUME NEW u \in crawl.first \ crawl.seen, Alone(u)
      PROVE  request.page + 1 < PageCount(List)
    <2>1. /\ Cardinality(Ahead(u)) >= MAX_BLOCKS_PER_PAGE * (request.page + 1)
          /\ u \in List
        BY <1>5 DEF ListInv
    <2>2. Ahead(u) \in SUBSET List /\ u \notin Ahead(u)
        BY <1>3, <2>1 DEF Ahead
    <2>3. Cardinality(Ahead(u)) + 1 <= Cardinality(List)
        BY <1>3, <2>1, <2>2, CardinalityLess
    <2>4. /\ request.page + 1 \in Nat
          /\ MAX_BLOCKS_PER_PAGE * (request.page + 1) \in Nat
          /\ Cardinality(Ahead(u)) \in Nat /\ Cardinality(List) \in Nat
        <3>1. request.page + 1 \in Nat
            BY <1>3
        <3>2. MAX_BLOCKS_PER_PAGE * (request.page + 1) \in Nat
            BY <3>1, PageProducts
        <3>3. Cardinality(Ahead(u)) \in Nat /\ Cardinality(List) \in Nat
            BY <1>3, <2>2, CardinalityGrows
        <3> QED BY <3>1, <3>2, <3>3
    <2>5. Cardinality(List) >= MAX_BLOCKS_PER_PAGE * (request.page + 1) + 1
        BY <2>1, <2>3, <2>4
    <2> QED BY <1>3, <2>4, <2>5, PageCounted
<1> QED BY <1>1, <1>2, <1>4, <1>5 DEF ListInv

\* Any other SELECT.
LEMMA OtherSelected ==
    ASSUME ListInv, request.kind \in ListKinds, request.pool # Unknown,
           step \notin ListSteps, step' \notin ListSteps,
           step \in CountSteps => step' \in CountSteps,
           crawl' = crawl, result'.list = result.list, result'.pages = result.pages,
           UNCHANGED <<recordVars, colvars, request, before>>
    PROVE  ListInv'
<1>1. request' = request /\ List' = List /\ Key' = Key
    BY DEF List, Listed, Named, BlocksWithConflicts, recordVars, colvars,
           blockTable, Key, OrderedBy
<1>2. \A u : Alone(u)' = Alone(u) /\ Ahead(u)' = Ahead(u)
    BY <1>1 DEF Alone, Ahead
<1> QED BY <1>1, <1>2 DEF ListInv

LEMMA ListPageServed ==
    ASSUME WebTypeInv, ListInv, Server,
           UNCHANGED <<recordVars, colvars, request, before>>
    PROVE  ListInv'
<1>1. SUFFICES ASSUME request.kind \in ListKinds, request.pool # Unknown
               PROVE  ListInv'
    BY DEF ListInv
<1>2. result \in Results
    BY DEF WebTypeInv, WebTypeOK
<1>3. CASE BlocksList \/ ConflictingList \/ DebugList
    <2>1. PICK at \in ListSteps, to \in CountSteps \ ListSteps : SelectList(at, to)
        BY <1>3 DEF BlocksList, ConflictingList, DebugList, ListSteps, CountSteps
    <2> QED BY <1>1, <2>1, ListSelected
<1>4. CASE request.kind = "blocks" /\ BlocksCount
    <2>1. /\ step = "blocks_count" /\ step' = "done" /\ crawl' = crawl
          /\ result'.list = result.list /\ result'.pages = PageCount(Named(request.pool))
        BY <1>2, <1>4 DEF BlocksCount, Finish, SelectRows, Select
    <2>2. List = Named(request.pool)
        BY <1>4 DEF List, Listed
    <2>3. step \in CountSteps \ ListSteps /\ step' \notin ListSteps
        BY <2>1 DEF CountSteps, ListSteps
    <2> QED BY <1>1, <2>1, <2>2, <2>3, PagesCounted
<1>5. CASE request.kind = "conflicting" /\ ConflictingCount
    <2>1. /\ step = "conflicting_count" /\ step' = "conflicts" /\ crawl' = crawl
          /\ result'.list = result.list /\ result'.pages = PageCount(BlocksWithConflicts)
        BY <1>2, <1>5 DEF ConflictingCount, SelectRows, Select
    <2>2. List = BlocksWithConflicts
        BY <1>5 DEF List, Listed
    <2>3. step \in CountSteps \ ListSteps /\ step' \notin ListSteps
        BY <2>1 DEF CountSteps, ListSteps
    <2> QED BY <1>1, <2>1, <2>2, <2>3, PagesCounted
<1>6. CASE request.kind = "debug" /\ DebugCount
    <2>1. /\ step = "debug_count" /\ step' = "done" /\ crawl' = crawl
          /\ result'.list = result.list /\ result'.pages = PageCount(debug)
        BY <1>2, <1>6 DEF DebugCount, Finish, SelectRows, Select
    <2>2. List = debug
        BY <1>6 DEF List, Listed
    <2>3. step \in CountSteps \ ListSteps /\ step' \notin ListSteps
        BY <2>1 DEF CountSteps, ListSteps
    <2> QED BY <1>1, <2>1, <2>2, <2>3, PagesCounted
<1>7. CASE \/ SelectConflicts \/ SelectConflictTransactions \/ SelectConflictBlocks
           \/ DebugInfos \/ DebugBlocks
    <2>1. /\ crawl' = crawl
          /\ result'.list = result.list /\ result'.pages = result.pages
        BY <1>2, <1>7 DEF SelectConflicts, SelectConflictTransactions,
           SelectConflictBlocks, DebugInfos, DebugBlocks, Finish, SelectRows, Select
    <2>2. /\ step \notin ListSteps /\ step' \notin ListSteps
          /\ step \in CountSteps => step' \in CountSteps
        BY <1>7 DEF SelectConflicts, SelectConflictTransactions, SelectConflictBlocks,
           DebugInfos, DebugBlocks, Finish, SelectRows, Select, ListSteps, CountSteps
    <2> QED BY <1>1, <2>1, <2>2, OtherSelected
<1> QED BY <1>1, <1>3, <1>4, <1>5, <1>6, <1>7, ServerByKind DEF WebTypeInv, ListKinds

LEMMA ListStep ==
    ASSUME WebTypeInv, ListInv, [WebNext]_vars
    PROVE  ListInv'
BY WebStep, ListPageGrows, ListPageAsked, ListPageServed

\* How far the visitor of a list has come, SELECT by SELECT and page by page.
THEOREM ListPages == WebSpec => []ListInv
<1>1. WebInit => ListInv
    BY DEF WebInit, ListInv, ListKinds, NoRequest
<1>2. WebTypeInv /\ ListInv /\ [WebNext]_vars => ListInv'
    BY ListStep
<1> QED BY <1>1, <1>2, WebTypes, PTL DEF WebSpec

\* blocks, conflicting_transactions_data, debug_template_selection_infos: a page
\* that lists blocks is one of the pages that are counted after it.
THEOREM ListedPagesExist == WebSpec => []ListedPageExists
<1>1. ListInv => ListedPageExists
    BY DEF ListInv, ListedPageExists, Served, ListKinds, CountSteps, ListSteps
<1> QED BY <1>1, ListPages, PTL

\* Following the links from page to page misses no block but one whose place in
\* the order is open.
THEOREM CrawlsComplete == WebSpec => []CrawlComplete
<1>1. ASSUME WebTypeInv, ListInv PROVE CrawlComplete
    <2> SUFFICES ASSUME NEW kind \in ListKinds, Served(kind), request.pool # Unknown,
                        request.page + 1 >= result.pages,
                        NEW u \in crawl.first \ crawl.seen, Alone(u)
                 PROVE  FALSE
        BY DEF CrawlComplete, Alone, List, Key, Served, ListKinds
    <2>1. request.page + 1 < result.pages
        BY <1>1 DEF ListInv, Served, CountSteps, ListSteps
    <2>2. request.page \in Nat /\ result.pages \in Nat
        BY <1>1, KeysAreNat
    <2> QED BY <2>1, <2>2
<1> QED BY <1>1, WebTypes, ListPages, PTL

\* The list that is ordered by id, read to the end.
DebugListRead ==
    Served("debug") /\ request.page + 1 >= result.pages
        => crawl.first \subseteq crawl.seen

\* debug_template_selection_infos orders by id, and no two blocks have the same
\* id: nothing is missed, however many pages are read while the daemon inserts.
THEOREM DebugCrawlComplete == WebSpec => []DebugListRead
<1>1. ASSUME WebTypeInv, ListInv, Served("debug"), request.page + 1 >= result.pages,
             NEW u \in crawl.first \ crawl.seen
      PROVE  FALSE
    <2>1. List = debug /\ Key = id
        BY <1>1 DEF List, Key, Listed, OrderedBy, Served
    <2>2. request.pool # Unknown
        BY <1>1 DEF WebTypeInv, StepInv, Served, AllBlocks, Unknown
    <2>3. u \in debug /\ debug \subseteq stored
        <3>1. debug \subseteq stored
            BY <1>1 DEF WebTypeInv, TableInv, RecordInv, RecordTypeOK
        <3>2. crawl.first \subseteq List
            BY <1>1, <2>2 DEF ListInv, Served, ListKinds
        <3> QED BY <1>1, <2>1, <3>1, <3>2
    <2>4. Alone(u)
        BY <1>1, <2>1, <2>3 DEF Alone, WebTypeInv, TableInv, IdInv
    <2>5. request.page + 1 < result.pages
        BY <1>1, <2>4, <2>2 DEF ListInv, Served, ListKinds, CountSteps, ListSteps
    <2>6. request.page \in Nat /\ result.pages \in Nat
        BY <1>1, KeysAreNat
    <2> QED BY <1>1, <2>5, <2>6
<1>2. WebTypeInv /\ ListInv => DebugListRead
    BY <1>1 DEF DebugListRead
<1> QED BY <1>2, WebTypes, ListPages, PTL
=============================================================================
