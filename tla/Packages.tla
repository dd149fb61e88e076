------------------------------ MODULE Packages ------------------------------
(***************************************************************************)
(* build_packages of daemon/src/processing.rs: splits the transactions of  *)
(* a block or a template into packages of neighbours that depend on each   *)
(* other.                                                                  *)
(*                                                                         *)
(* A transaction is its position; in a block and in a template a           *)
(* transaction comes after those it spends from.  Transactions that are    *)
(* not in the list are the members of Outside.                             *)
(***************************************************************************)
EXTENDS Integers, Sequences

CONSTANTS
    MaxTxs,      \* bound on the number of transactions
    Outside      \* txids of transactions that are not in the list

ASSUME PackagesAssumption ==
    /\ MaxTxs \in Nat
    /\ \A i \in 1..MaxTxs : i \notin Outside

VARIABLES
    count,       \* txns.len()
    spends,      \* prev_output_txids of each transaction
    rest,        \* the loop has yet to visit transactions 1..rest
    package,     \* package_txns
    packages,    \* packages
    returned     \* the function has returned

vars == <<count, spends, rest, package, packages, returned>>

Positions == 1..count

Init ==
    /\ count \in 0..MaxTxs
    /\ \E inside \in SUBSET { p \in (1..count) \X (1..count) : p[2] < p[1] } :
       \E outside \in [1..count -> SUBSET Outside] :
          spends = [i \in 1..count |->
                       { j \in 1..count : <<i, j>> \in inside } \cup outside[i]]
    /\ rest = count
    /\ package = {}
    /\ packages = <<>>
    /\ returned = FALSE

-----------------------------------------------------------------------------
\* Mutant of parent_txids: only the transaction added last is considered.
LastParents == UNION { spends[i] : i \in package \cap {rest + 1} }

parent_txids == UNION { spends[i] : i \in package }

IsParent(i) == i \in parent_txids

\* Mutant of SharesParent: parents that are not in the list count as well.
SharesAnyParent(i) == spends[i] \cap parent_txids # {}

\* A common parent counts if it is in the list itself.
SharesParent(i) == spends[i] \cap Positions \cap parent_txids # {}

Belongs(i) == IsParent(i) \/ SharesParent(i)

\* The loop goes from the last transaction to the first.
Visit == rest' = rest - 1 /\ UNCHANGED <<count, spends, returned>>

StartPackage ==
    /\ rest > 0
    /\ package = {}
    /\ package' = {rest}
    /\ Visit
    /\ UNCHANGED packages

ExtendPackage ==
    /\ rest > 0
    /\ package # {}
    /\ Belongs(rest)
    /\ package' = package \cup {rest}
    /\ Visit
    /\ UNCHANGED packages

ClosePackage ==
    /\ rest > 0
    /\ package # {}
    /\ ~Belongs(rest)
    /\ packages' = Append(packages, package)
    /\ package' = {rest}
    /\ Visit

\* packages.reverse()
Reversed(s) == [k \in 1..Len(s) |-> s[Len(s) - k + 1]]

\* Mutant of ReturnPackages: the last package is forgotten.
ReturnClosedPackages ==
    /\ rest = 0 /\ ~returned
    /\ packages' = Reversed(packages)
    /\ returned' = TRUE
    /\ UNCHANGED <<count, spends, rest, package>>

ReturnPackages ==
    /\ rest = 0 /\ ~returned
    /\ packages' = Reversed(IF package # {} THEN Append(packages, package)
                                            ELSE packages)
    /\ returned' = TRUE
    /\ UNCHANGED <<count, spends, rest, package>>

Next == StartPackage \/ ExtendPackage \/ ClosePackage \/ ReturnPackages

Spec == Init /\ [][Next]_vars

-----------------------------------------------------------------------------
(* Properties                                                              *)

\* Two transactions of the list depend on each other: one spends from the other
\* or both spend from a third.
Linked(i, j) ==
    \/ i \in spends[j] \/ j \in spends[i]
    \/ spends[i] \cap spends[j] \cap Positions # {}

\* The types of the state.
TypeOK ==
    /\ count \in 0..MaxTxs
    /\ spends \in [Positions -> SUBSET (Positions \cup Outside)]
    /\ rest \in 0..count
    /\ package \subseteq Positions
    /\ packages \in Seq(SUBSET Positions)
    /\ returned \in BOOLEAN

\* processing.rs:388: no transaction is lost or counted twice.  More than that:
\* the packages are runs of neighbours in the order of the list, so that their
\* weights and feerates line up with the block.
PackagesPartition ==
    returned =>
        /\ \A i \in Positions : \E k \in DOMAIN packages : i \in packages[k]
        /\ \A k, l \in DOMAIN packages : k < l =>
              \A i \in packages[k], j \in packages[l] : i < j

\* A part of P that depends on nothing in the rest of P is P.
ConnectedSet(P) ==
    \A S \in SUBSET P :
        S # {} /\ (\A i \in S, j \in P : Linked(i, j) => j \in S) => S = P

\* No package mixes transactions that have nothing to do with each other.
PackagesConnected ==
    returned => \A k \in DOMAIN packages : ConnectedSet(packages[k])

\* The transaction before the run P depends on none of its transactions.
MaximalRun(P) ==
    \A i \in Positions : i \notin P /\ i + 1 \in P => \A j \in P : ~Linked(i, j)

\* No package is cut short: a child right after its parent, for example, is in
\* the parent's package.
PackagesMaximal ==
    returned => \A k \in DOMAIN packages : MaximalRun(packages[k])
=============================================================================
