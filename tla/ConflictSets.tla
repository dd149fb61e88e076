---------------------------- MODULE ConflictSets ----------------------------
(***************************************************************************)
(* build_conflicting_transactions of daemon/src/processing.rs: groups the  *)
(* transactions only in the template and the transactions only in the      *)
(* block that spend the same outpoints into sets of conflicting            *)
(* transactions.                                                           *)
(*                                                                         *)
(* The loop takes the contested outpoints in the order a HashSet yields    *)
(* them, that is in any order.  What it must compute is independent of the *)
(* order: the connected components of the graph whose nodes are the        *)
(* contested outpoints and whose edges join outpoints with a common        *)
(* spender.                                                                *)
(***************************************************************************)
EXTENDS Integers, FiniteSets

CONSTANTS
    Outpoints,
    TemplateTxs,     \* transactions only in the template
    BlockTxs,        \* transactions only in the block
    Unbuildable,     \* transactions for which build_transaction fails
    None             \* no transaction spends the outpoint

ASSUME ConflictAssumption ==
    /\ None \notin TemplateTxs \cup BlockTxs
    /\ Unbuildable \subseteq TemplateTxs \cup BlockTxs

VARIABLES
    template_spender,   \* template_outpoints_to_txinfo
    block_spender,      \* block_outpoints_to_txinfo
    todo,               \* conflicting_outpoints the loop has yet to visit
    conflicts,          \* conflicts
    tagged,             \* transactions built with is_conflicting_tx
    returned            \* the function has returned

vars == <<template_spender, block_spender, todo, conflicts, tagged, returned>>
inputs == <<template_spender, block_spender>>

\* The intersection of the outpoints spent on both sides.
Contested ==
    { o \in Outpoints : template_spender[o] # None /\ block_spender[o] # None }

\* The struct Conflict; its vectors hold no element twice.
Conflict == [template_transactions : SUBSET TemplateTxs,
             block_transactions    : SUBSET BlockTxs,
             conflicting_outpoints : SUBSET Outpoints]

\* A transaction spends any number of outpoints, an outpoint is spent at most
\* once in a template and at most once in a block.
Init ==
    /\ template_spender \in [Outpoints -> TemplateTxs \cup {None}]
    /\ block_spender \in [Outpoints -> BlockTxs \cup {None}]
    /\ todo = Contested
    /\ conflicts = {}
    /\ tagged = {}
    /\ returned = FALSE

\* Mutant of Existing: only the template's transaction is looked up.
ExistingByTemplate(o) ==
    { c \in conflicts : template_spender[o] \in c.template_transactions }

\* existing_conficts_with_these_transactions
Existing(o) ==
    { c \in conflicts : \/ template_spender[o] \in c.template_transactions
                        \/ block_spender[o] \in c.block_transactions }

\* The conflicts of E with outpoint o and its two spenders added.
Joined(o, E) ==
    [template_transactions |->
        {template_spender[o]} \cup UNION { c.template_transactions : c \in E },
     block_transactions |->
        {block_spender[o]} \cup UNION { c.block_transactions : c \in E },
     conflicting_outpoints |->
        {o} \cup UNION { c.conflicting_outpoints : c \in E }]

Visit(o) ==
    /\ todo' = todo \ {o}
    /\ UNCHANGED <<inputs, tagged, returned>>

\* 0 existing conflicts: push a new one.
NewConflict ==
    \E o \in todo :
        /\ Existing(o) = {}
        /\ conflicts' = conflicts \cup {Joined(o, {})}
        /\ Visit(o)

\* 1: add the outpoint and what is missing of its spenders to it.
ExtendConflict ==
    \E o \in todo : \E c \in conflicts :
        /\ Existing(o) = {c}
        /\ conflicts' = (conflicts \ {c}) \cup {Joined(o, {c})}
        /\ Visit(o)

\* Mutant of MergeConflicts: only the first conflict is extended.
MergeIntoFirst ==
    \E o \in todo : \E c, d \in Existing(o) :
        /\ c # d
        /\ conflicts' = (conflicts \ {c}) \cup {Joined(o, {c})}
        /\ Visit(o)

\* More: append them all to the first, then retain the non-empty ones.
MergeConflicts ==
    \E o \in todo :
        /\ \E c, d \in Existing(o) : c # d
        /\ conflicts' = (conflicts \ Existing(o)) \cup {Joined(o, Existing(o))}
        /\ Visit(o)

\* Mutant of ReturnConflicts: the second loop, over the block's transactions,
\* is forgotten.
ReturnTemplateConflicts ==
    /\ ~returned
    /\ todo = {}
    /\ tagged' = (UNION { c.template_transactions : c \in conflicts }) \ Unbuildable
    /\ returned' = TRUE
    /\ UNCHANGED <<inputs, todo, conflicts>>

\* Every transaction of a conflict is built with the tag for conflicts and added
\* to the transactions of the block; one that cannot be built is only logged, and
\* the conflict names it nevertheless.
ReturnConflicts ==
    /\ ~returned
    /\ todo = {}
    /\ tagged' = (UNION { c.template_transactions \cup c.block_transactions :
                             c \in conflicts }) \ Unbuildable
    /\ returned' = TRUE
    /\ UNCHANGED <<inputs, todo, conflicts>>

Next == NewConflict \/ ExtendConflict \/ MergeConflicts \/ ReturnConflicts

Spec == Init /\ [][Next]_vars

-----------------------------------------------------------------------------
(* What the function promises                                              *)

Visited == Contested \ todo

Linked(o, p) == \/ template_spender[o] = template_spender[p]
                \/ block_spender[o] = block_spender[p]

ClosedIn(S, V) == \A o \in S, p \in V : Linked(o, p) => p \in S

\* The connected component of o in the graph on V: the least closed set.
Component(o, V) ==
    { p \in V : \A S \in SUBSET V : o \in S /\ ClosedIn(S, V) => p \in S }

ConflictOn(S) ==
    [template_transactions |-> { template_spender[o] : o \in S },
     block_transactions    |-> { block_spender[o] : o \in S },
     conflicting_outpoints |-> S]

-----------------------------------------------------------------------------
(* Properties                                                              *)

\* The types of the state: only outpoints that both sides spend get here.
TypeOK ==
    /\ template_spender \in [Outpoints -> TemplateTxs \cup {None}]
    /\ block_spender \in [Outpoints -> BlockTxs \cup {None}]
    /\ todo \subseteq Contested
    /\ conflicts \subseteq Conflict
    /\ tagged \subseteq TemplateTxs \cup BlockTxs
    /\ returned \in BOOLEAN

\* No transaction is in two conflicts.  So at most two conflicts are ever
\* merged, and no two rows of a block collide on the primary key
\* (block_id, template_txids, block_txids) of table conflicting_transactions.
ConflictsDisjoint ==
    \A c, d \in conflicts : c # d =>
        /\ c.template_transactions \cap d.template_transactions = {}
        /\ c.block_transactions \cap d.block_transactions = {}

\* The conflicts are the connected components of the contested outpoints
\* visited so far with exactly their spenders, in whatever order the HashSet
\* yielded the outpoints.
ConflictsAreComponents ==
    conflicts = { ConflictOn(Component(o, Visited)) : o \in Visited }

\* The transactions that get the tag for conflicts are exactly the ones that
\* spend a contested outpoint and can be built, however their conflicts were
\* extended, merged and emptied before.
TaggedExactly ==
    returned => tagged = ({ template_spender[o] : o \in Contested }
                              \cup { block_spender[o] : o \in Contested })
                         \ Unbuildable
=============================================================================
