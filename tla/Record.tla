------------------------------- MODULE Record -------------------------------
(***************************************************************************)
(* What the daemon promises to the readers of its database: the rows of a  *)
(* block are written once, by one attempt, table after table.  An attempt  *)
(* may be given up after any statement; what it has written stays, and     *)
(* nobody completes or changes it.                                         *)
(*                                                                         *)
(* Observer implements this specification.  WebReader adds the web server  *)
(* to it, so what is shown there needs nothing else of the daemon.         *)
(***************************************************************************)
EXTENDS Integers, FiniteSets

CONSTANTS
    Blocks,          \* block hashes
    Txs,             \* txids
    SanctionedTxs,   \* those that may be sanctioned
    Comparisons      \* the comparisons that the row of a block can hold

\* The comparison of a block with a template: the transactions that the row of
\* table block counts as extra_tx, missing_tx and sanctioned_missing_tx, and the
\* ones that are in conflict with the other side.
Comparison == [extra : SUBSET Txs, missing : SUBSET Txs, sanctioned : SUBSET Txs,
               conflicts : SUBSET Txs]

ASSUME ComparisonAssumption ==
    /\ SanctionedTxs \subseteq Txs
    /\ Comparisons \in [Blocks -> SUBSET Comparison]
    /\ \A b \in Blocks : \A c \in Comparisons[b] :
          /\ c.extra \cap c.missing = {}
          /\ c.sanctioned \subseteq c.missing \cap SanctionedTxs
          /\ c.conflicts \subseteq c.extra \cup c.missing

VARIABLES
    stored,             \* table block: the blocks with a row
    row,                \* the comparison that the row is about
    transaction,        \* table transaction: its txids
    only_in_block,      \* table transaction_only_in_block
    only_in_template,   \* table transaction_only_in_template
    sanctioned_info,    \* table sanctioned_transaction_info
    conflicting,        \* table conflicting_transactions: the txids it names
    debug,              \* table debug_template_selection: blocks with rows
    writing,            \* the block whose rows are being written, if any
    next                \* the table whose rows are next

blockTable == <<stored, row>>
recordVars == <<blockTable, transaction, only_in_block, only_in_template,
                sanctioned_info, conflicting, debug, writing, next>>

NoComparison == [extra |-> {}, missing |-> {}, sanctioned |-> {}, conflicts |-> {}]

Init ==
    /\ stored = {}
    /\ row = [b \in Blocks |-> NoComparison]
    /\ transaction = {}
    /\ only_in_block = [b \in Blocks |-> {}]
    /\ only_in_template = [b \in Blocks |-> {}]
    /\ sanctioned_info = [b \in Blocks |-> {}]
    /\ conflicting = [b \in Blocks |-> {}]
    /\ debug = {}
    /\ writing = {} /\ next = "none"

\* The first row; the hash is the primary key.
WriteBlock(b) ==
    /\ writing = {}
    /\ b \notin stored
    /\ stored' = stored \cup {b}
    /\ \E c \in Comparisons[b] : row' = [row EXCEPT ![b] = c]
    /\ writing' = {b} /\ next' = "transactions"
    /\ UNCHANGED <<transaction, only_in_block, only_in_template, sanctioned_info,
                   conflicting, debug>>

WriteTransactions ==
    /\ next = "transactions"
    /\ \E txs \in SUBSET Txs : transaction' = transaction \cup txs
    /\ next' = "only_in_block"
    /\ UNCHANGED <<blockTable, only_in_block, only_in_template, sanctioned_info,
                   conflicting, debug, writing>>

\* Mutant of WriteOnlyInBlock: a failing INSERT is logged and process goes on.
WriteOnlyInBlockFails(b) ==
    /\ next = "only_in_block"
    /\ next' = "only_in_template"
    /\ UNCHANGED <<blockTable, transaction, only_in_block, only_in_template,
                   sanctioned_info, conflicting, debug, writing>>

\* The next three tables have foreign keys to table transaction.
WriteOnlyInBlock(b) ==
    /\ next = "only_in_block"
    /\ row[b].extra \subseteq transaction
    /\ only_in_block' = [only_in_block EXCEPT ![b] = row[b].extra]
    /\ next' = "only_in_template"
    /\ UNCHANGED <<blockTable, transaction, only_in_template, sanctioned_info,
                   conflicting, debug, writing>>

WriteOnlyInTemplate(b) ==
    /\ next = "only_in_template"
    /\ row[b].missing \subseteq transaction
    /\ only_in_template' = [only_in_template EXCEPT ![b] = row[b].missing]
    /\ next' = "sanctioned_infos"
    /\ UNCHANGED <<blockTable, transaction, only_in_block, sanctioned_info,
                   conflicting, debug, writing>>

\* Sanctioned transactions of the template and of the block; the ones in the
\* template only are those that the row counts.
WriteSanctionedInfos(b) ==
    /\ next = "sanctioned_infos"
    /\ \E infos \in SUBSET (transaction \cap SanctionedTxs) :
          /\ infos \cap row[b].missing = row[b].sanctioned
          /\ sanctioned_info' = [sanctioned_info EXCEPT ![b] = infos]
    /\ next' = "conflicting"
    /\ UNCHANGED <<blockTable, transaction, only_in_block, only_in_template,
                   conflicting, debug, writing>>

WriteConflicting(b) ==
    /\ next = "conflicting"
    /\ conflicting' = [conflicting EXCEPT ![b] = row[b].conflicts]
    /\ next' = "debug"
    /\ UNCHANGED <<blockTable, transaction, only_in_block, only_in_template,
                   sanctioned_info, debug, writing>>

\* The last rows.
WriteDebug(b) ==
    /\ next = "debug"
    /\ debug' = debug \cup {b}
    /\ writing' = {} /\ next' = "none"
    /\ UNCHANGED <<blockTable, transaction, only_in_block, only_in_template,
                   sanctioned_info, conflicting>>

\* A statement fails or the daemon is killed.  insert_transactions may fail
\* after its rows are there.
GiveUp ==
    /\ writing # {}
    /\ \/ UNCHANGED transaction
       \/ /\ next = "transactions"
          /\ \E txs \in SUBSET Txs : transaction' = transaction \cup txs
    /\ writing' = {} /\ next' = "none"
    /\ UNCHANGED <<blockTable, only_in_block, only_in_template, sanctioned_info,
                   conflicting, debug>>

\* The steps after the first.
WriteRest ==
    \/ WriteTransactions
    \/ \E b \in writing :
          \/ WriteOnlyInBlock(b) \/ WriteOnlyInTemplate(b)
          \/ WriteSanctionedInfos(b) \/ WriteConflicting(b) \/ WriteDebug(b)
    \/ GiveUp

Next == (\E b \in Blocks : WriteBlock(b)) \/ WriteRest

Spec == Init /\ [][Next]_recordVars
=============================================================================
