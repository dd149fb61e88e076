-------------------------- MODULE SanctionedUtxos --------------------------
(***************************************************************************)
(* The tables sanctioned_addresses and sanctioned_utxo and the three       *)
(* threads of daemon/src/main.rs that share them: the address updater      *)
(* replaces the first, the scan thread reads the first and replaces the    *)
(* second, process reads both and adds to the second.                      *)
(*                                                                         *)
(* The chain is linear here: a block is its height, and what matters of it *)
(* are the outputs it creates and spends.  A list of addresses is the set  *)
(* of its valid addresses and whether one of them is in it twice.          *)
(***************************************************************************)
EXTENDS Integers

CONSTANTS
    Addresses,
    Outputs,
    AddressOf,        \* the address of an output
    MaxHeight,        \* bound on the chain
    Creates,          \* the outputs that the block at a height creates ...
    Spends,           \* ... and spends
    Lists,            \* lists that the configured URL may serve
    FailingSteps,     \* statements and calls that may fail
    MaxPublications,  \* bound on changes of the list
    MaxRestarts       \* bound on restarts

Heights == 1..MaxHeight

ASSUME ChainAssumption ==
    /\ MaxHeight \in Nat
    /\ AddressOf \in [Outputs -> Addresses]
    /\ Creates \in [Heights -> SUBSET Outputs]
    /\ Spends \in [Heights -> SUBSET Outputs]

ASSUME ListsAssumption ==
    /\ Lists \subseteq [addresses : SUBSET Addresses, duplicate : BOOLEAN]
    /\ MaxPublications \in Nat
    /\ MaxRestarts \in Nat

VARIABLES
    tip,                   \* the node's height
    published,             \* the list at the URL
    publications,
    restarts,
    sanctioned_addresses,  \* the tables
    sanctioned_utxo,
    scan_info,             \* end_height of the latest sanctioned_utxo_scan_info
    started,               \* main has got past the first update
    up_pc, downloaded,     \* the updater: its next step, the list it has
    scan_pc, scan,         \* the scan thread: ..., the list and height scanned
    deleted,               \* rows its open database transaction has deleted
    pc, blk,               \* process: ..., the block
    addresses, utxos,      \* ..., what it has loaded
    next,                  \* main_loop has a template for this height, 0 is none
    done,                  \* the last block that has a row
    flagged,               \* sanctioned_transaction_info: spends found per block
    \* History: the scan that is in the table, the outputs process has added
    \* since, those of them it added while a replacement was in progress, the
    \* scan that was in the table when process loaded it.
    applied, since, fresh, loaded

nodevars == <<tip, published, publications, restarts>>
tables   == <<sanctioned_addresses, sanctioned_utxo, scan_info, flagged>>
upvars   == <<started, up_pc, downloaded>>
scanvars == <<scan_pc, scan, deleted>>
procvars == <<pc, blk, addresses, utxos, next, done>>
history  == <<applied, since, fresh, loaded>>
vars     == <<nodevars, tables, upvars, scanvars, procvars, history>>

UpSteps   == {"download", "replace"}
ScanSteps == {"scan_addresses", "scan", "scan_info", "delete", "insert"}
ProcSteps == {"idle", "addresses", "utxos", "infos", "new_utxos"}

Scan   == [height : 0..MaxHeight, addresses : SUBSET Addresses]
NoScan == [height |-> 0, addresses |-> {}]
NoList == [addresses |-> {}, duplicate |-> FALSE]

\* scantxoutset: what is unspent at a height ...
UnspentAt(h) ==
    { o \in Outputs : /\ \E b \in 1..h : o \in Creates[b]
                      /\ \A b \in 1..h : o \notin Spends[b] }

\* ... and belongs to one of the addresses.
ScanResult(s) == { o \in UnspentAt(s.height) : AddressOf[o] \in s.addresses }

Init ==
    /\ tip = 0 /\ published \in Lists /\ publications = 0 /\ restarts = 0
    /\ sanctioned_addresses = {} /\ sanctioned_utxo = {} /\ scan_info = 0
    /\ flagged = [b \in Heights |-> {}]
    /\ started = FALSE /\ up_pc = "download" /\ downloaded = NoList
    /\ scan_pc = "scan_addresses" /\ scan = NoScan /\ deleted = {}
    /\ pc = "idle" /\ blk = 0 /\ addresses = {} /\ utxos = {}
    /\ next = 0 /\ done = 0
    /\ applied = NoScan /\ since = {} /\ fresh = {} /\ loaded = NoScan

-----------------------------------------------------------------------------
(* The node and the server with the list                                   *)

NodeConnect ==
    /\ tip < MaxHeight
    /\ tip' = tip + 1
    /\ UNCHANGED <<published, publications, restarts, tables, upvars, scanvars,
                   procvars, history>>

Publish ==
    /\ publications < MaxPublications
    /\ publications' = publications + 1
    /\ published' \in Lists \ {published}
    /\ UNCHANGED <<tip, restarts, tables, upvars, scanvars, procvars, history>>

-----------------------------------------------------------------------------
(* start_sanctioned_addresses_updater_thread                               *)

\* A download that fails changes nothing and is made again; at startup main
\* panics and is started again.
Download ==
    /\ up_pc = "download"
    /\ downloaded' = published
    /\ up_pc' = "replace"
    /\ UNCHANGED <<nodevars, tables, started, scanvars, procvars, history>>

\* replace_sanctioned_addresses; main goes on after the first time.
ReplaceAddresses ==
    /\ up_pc = "replace"
    /\ ~downloaded.duplicate
    /\ sanctioned_addresses' = downloaded.addresses
    /\ started' = TRUE
    /\ up_pc' = "download" /\ downloaded' = NoList
    /\ UNCHANGED <<nodevars, sanctioned_utxo, scan_info, flagged, scanvars, procvars,
                   history>>

\* Mutant of ReplaceRejected: the replacement is retried without a new download.
ReplaceRetries ==
    /\ up_pc = "replace"
    /\ downloaded.duplicate
    /\ UNCHANGED <<nodevars, tables, upvars, scanvars, procvars, history>>

\* The primary key rejects a duplicate: the transaction is rolled back.
ReplaceRejected ==
    /\ up_pc = "replace"
    /\ downloaded.duplicate
    /\ up_pc' = "download" /\ downloaded' = NoList
    /\ UNCHANGED <<nodevars, tables, started, scanvars, procvars, history>>

ReplaceFails ==
    /\ up_pc = "replace"
    /\ up_pc \in FailingSteps
    /\ up_pc' = "download" /\ downloaded' = NoList
    /\ UNCHANGED <<nodevars, tables, started, scanvars, procvars, history>>

-----------------------------------------------------------------------------
(* start_sanctioned_utxos_scan_thread                                      *)

\* The next iteration; a database transaction that is open is rolled back.
NextScan == scan_pc' = "scan_addresses" /\ scan' = NoScan /\ deleted' = {}

LoadAddresses ==
    /\ started /\ scan_pc = "scan_addresses"
    /\ scan' = [scan EXCEPT !.addresses = sanctioned_addresses]
    /\ scan_pc' = "scan"
    /\ UNCHANGED <<nodevars, tables, upvars, deleted, procvars, history>>

\* Mutant of ScanTxOutSet: the height of the next block.
ScanNextHeight ==
    /\ scan_pc = "scan"
    /\ scan' = [scan EXCEPT !.height = tip + 1]
    /\ scan_pc' = "scan_info"
    /\ UNCHANGED <<nodevars, tables, upvars, deleted, procvars, history>>

\* scantxoutset_sanctioned_tx: the UTXO set as it is when the scan starts.
ScanTxOutSet ==
    /\ scan_pc = "scan"
    /\ scan' = [scan EXCEPT !.height = tip]
    /\ scan_pc' = "scan_info"
    /\ UNCHANGED <<nodevars, tables, upvars, deleted, procvars, history>>

InsertScanInfo ==
    /\ scan_pc = "scan_info"
    /\ scan_info' = scan.height
    /\ scan_pc' = "delete"
    /\ UNCHANGED <<nodevars, sanctioned_addresses, sanctioned_utxo, flagged, upvars,
                   scan, deleted, procvars, history>>

\* Mutant of DeleteUtxos: the DELETE is committed on its own.
DeleteCommitted ==
    /\ scan_pc = "delete"
    /\ deleted' = sanctioned_utxo /\ sanctioned_utxo' = {} /\ fresh' = {}
    /\ scan_pc' = "insert"
    /\ UNCHANGED <<nodevars, sanctioned_addresses, scan_info, flagged, upvars, scan,
                   procvars, applied, since, loaded>>

\* clean_and_insert_sanctioned_utxos deletes the rows it sees.  The others see
\* them until it commits.
DeleteUtxos ==
    /\ scan_pc = "delete"
    /\ deleted' = sanctioned_utxo
    /\ fresh' = {}
    /\ scan_pc' = "insert"
    /\ UNCHANGED <<nodevars, tables, upvars, scan, procvars, applied, since, loaded>>

\* Rows that process has committed since the DELETE.
Remaining == sanctioned_utxo \ deleted

\* clean_and_insert_sanctioned_utxos inserts and commits.
InsertScanned ==
    /\ scan_pc = "insert"
    /\ ScanResult(scan) \cap Remaining = {}
    /\ sanctioned_utxo' = Remaining \cup ScanResult(scan)
    /\ NextScan
    /\ applied' = scan /\ since' = fresh /\ fresh' = {}
    /\ UNCHANGED <<nodevars, sanctioned_addresses, scan_info, flagged, upvars,
                   procvars, loaded>>

\* process has inserted one of the outputs in between.
InsertRejected ==
    /\ scan_pc = "insert"
    /\ ScanResult(scan) \cap Remaining # {}
    /\ NextScan /\ fresh' = {}
    /\ UNCHANGED <<nodevars, tables, upvars, procvars, applied, since, loaded>>

\* Mutant of ScanFails: what was deleted stays deleted.
FailsWithoutRollback ==
    /\ scan_pc \in FailingSteps
    /\ sanctioned_utxo' = Remaining
    /\ NextScan /\ fresh' = {}
    /\ UNCHANGED <<nodevars, sanctioned_addresses, scan_info, flagged, upvars,
                   procvars, applied, since, loaded>>

ScanFails ==
    /\ scan_pc \in FailingSteps
    /\ NextScan /\ fresh' = {}
    /\ UNCHANGED <<nodevars, tables, upvars, procvars, applied, since, loaded>>

-----------------------------------------------------------------------------
(* process, as far as it is about these tables                             *)

Return ==
    pc' = "idle" /\ blk' = 0 /\ addresses' = {} /\ utxos' = {} /\ loaded' = NoScan

\* main_loop is left with the template it had before (h), or pushes the current
\* one if it had missed a block.
TemplateFor(h) == next' \in {h} \cup ((blk + 2)..(tip + 1))

TakeTemplate ==
    /\ started /\ pc = "idle" /\ next = 0
    /\ next' = tip + 1
    /\ UNCHANGED <<nodevars, tables, upvars, scanvars, pc, blk, addresses, utxos, done,
                   history>>

\* The block that the template is for is there.
ProcessBlock ==
    /\ pc = "idle"
    /\ next \in 1..tip
    /\ blk' = next
    /\ pc' = "addresses"
    /\ UNCHANGED <<nodevars, tables, upvars, scanvars, addresses, utxos, next, done,
                   history>>

\* An empty list is used if the lookup fails.
SanctionedAddresses ==
    /\ pc = "addresses"
    /\ \/ addresses' = sanctioned_addresses
       \/ "addresses" \in FailingSteps /\ addresses' = {}
    /\ pc' = "utxos"
    /\ UNCHANGED <<nodevars, tables, upvars, scanvars, blk, utxos, next, done,
                   history>>

\* So are no UTXOs.
GetSanctionedUtxos ==
    /\ pc = "utxos"
    /\ \/ utxos' = sanctioned_utxo /\ loaded' = applied
       \/ "utxos" \in FailingSteps /\ utxos' = {} /\ loaded' = NoScan
    /\ pc' = "infos"
    /\ UNCHANGED <<nodevars, tables, upvars, scanvars, blk, addresses, next, done,
                   applied, since, fresh>>

\* The tables from block to sanctioned_transaction_info are filled.
InsertInfos ==
    /\ pc = "infos"
    /\ blk > done
    /\ done' = blk
    /\ flagged' = [flagged EXCEPT ![blk] = Spends[blk] \cap utxos]
    /\ pc' = "new_utxos"
    /\ UNCHANGED <<nodevars, sanctioned_addresses, sanctioned_utxo, scan_info, upvars,
                   scanvars, blk, addresses, utxos, next, history>>

\* build_newly_created_sanctioned_utxos
NewUtxos == { o \in Creates[blk] : AddressOf[o] \in addresses }

\* insert_sanctioned_utxos.  A row that the open transaction of the scan thread
\* has deleted makes the statement wait for the end of that transaction.
InsertNewUtxos ==
    /\ pc = "new_utxos"
    /\ NewUtxos \cap deleted = {}
    /\ sanctioned_utxo' = sanctioned_utxo \cup NewUtxos
    /\ since' = since \cup NewUtxos
    /\ fresh' = IF scan_pc = "insert" THEN fresh \cup NewUtxos ELSE {}
    /\ Return /\ TemplateFor(0)
    /\ UNCHANGED <<nodevars, sanctioned_addresses, scan_info, flagged, upvars,
                   scanvars, done, applied>>

\* The block has a row since an earlier attempt, or a statement fails before or
\* after it gets one.  The queue of templates is kept.
ProcessFails ==
    /\ \/ pc = "infos" /\ blk <= done /\ done' = done
       \/ pc = "infos" /\ pc \in FailingSteps /\ blk > done /\ done' \in {done, blk}
       \/ pc = "new_utxos" /\ pc \in FailingSteps /\ done' = done
    /\ Return /\ TemplateFor(next)
    /\ UNCHANGED <<nodevars, tables, upvars, scanvars, applied, since, fresh>>

-----------------------------------------------------------------------------
Restart ==
    /\ restarts < MaxRestarts
    /\ restarts' = restarts + 1
    /\ started' = FALSE /\ up_pc' = "download" /\ downloaded' = NoList
    /\ NextScan /\ fresh' = {}
    /\ Return /\ next' = 0
    /\ UNCHANGED <<tip, published, publications, tables, done, applied, since>>

Updater == Download \/ ReplaceAddresses \/ ReplaceRejected \/ ReplaceFails

Scanner ==
    \/ LoadAddresses \/ ScanTxOutSet \/ InsertScanInfo \/ DeleteUtxos
    \/ InsertScanned \/ InsertRejected \/ ScanFails

Process ==
    \/ TakeTemplate \/ ProcessBlock \/ SanctionedAddresses \/ GetSanctionedUtxos \/ InsertInfos
    \/ InsertNewUtxos \/ ProcessFails

Next == NodeConnect \/ Publish \/ Updater \/ Scanner \/ Process \/ Restart

Spec == Init /\ [][Next]_vars

\* Both threads loop forever; what fails is tried again in the next iteration
\* and does not fail forever.
Fairness ==
    /\ WF_vars(Download) /\ WF_vars(ReplaceRejected) /\ SF_vars(ReplaceAddresses)
    /\ WF_vars(LoadAddresses) /\ SF_vars(ScanTxOutSet) /\ SF_vars(InsertScanInfo)
    /\ SF_vars(DeleteUtxos) /\ SF_vars(InsertScanned) /\ WF_vars(InsertRejected)

FairSpec == Spec /\ Fairness

-----------------------------------------------------------------------------
(* Properties                                                              *)

\* The types of the state.
TypeOK ==
    /\ tip \in 0..MaxHeight /\ published \in Lists
    /\ publications \in 0..MaxPublications /\ restarts \in 0..MaxRestarts
    /\ sanctioned_addresses \subseteq Addresses
    /\ sanctioned_utxo \subseteq Outputs
    /\ scan_info \in 0..MaxHeight
    /\ flagged \in [Heights -> SUBSET Outputs]
    /\ started \in BOOLEAN /\ up_pc \in UpSteps /\ downloaded \in Lists \cup {NoList}
    /\ scan_pc \in ScanSteps /\ scan \in Scan /\ deleted \subseteq Outputs
    /\ pc \in ProcSteps /\ blk \in 0..MaxHeight
    /\ addresses \subseteq Addresses /\ utxos \subseteq Outputs
    /\ next \in 0..(MaxHeight + 1) /\ done \in 0..MaxHeight
    /\ applied \in Scan /\ loaded \in Scan
    /\ since \subseteq Outputs /\ fresh \subseteq Outputs

\* However the scan thread's replacement and the INSERTs of process meet, fail
\* and are rolled back, sanctioned_utxo holds what the last scan that was
\* committed has found and what process has added since, nothing less or more.
TableExact == sanctioned_utxo = ScanResult(applied) \cup since

\* A block's spend of a sanctioned output is recognised if the scan in the table
\* when process loaded it was made while the output was unspent, whatever
\* replacements, insertions and restarts there were before and after.
ScannedSpendFlagged ==
    pc = "new_utxos" => Spends[blk] \cap ScanResult(loaded) \subseteq flagged[blk]

\* faq.html:152: a transaction is sanctioned when it spends an output of a
\* sanctioned address.  At the least process knows the outputs of the block it
\* has processed just before, which it has put into the table itself.
RecentSpendKnown ==
    pc = "infos" /\ done = blk - 1 /\ done > 0 =>
        { o \in Spends[blk] \cap Creates[done] : AddressOf[o] \in addresses }
            \subseteq utxos

\* Once the chain and the list are at rest, the tables agree with them: a list
\* with a duplicate, failures, restarts and races delay this, no more.
TablesConverge ==
    <>[](~published.duplicate) =>
        <>[](/\ sanctioned_addresses = published.addresses
             /\ sanctioned_utxo = ScanResult([height |-> tip,
                                               addresses |-> published.addresses]))
=============================================================================
