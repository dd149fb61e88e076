------------------------- MODULE ConflictSetsProofs -------------------------
(***************************************************************************)
(* Proofs about ConflictSets, for any outpoints and transactions: the      *)
(* conflicts are disjoint, and they are the connected components of the    *)
(* contested outpoints in whatever order these are visited.                *)
(*                                                                         *)
(* That the conflicts are components is not inductive by itself.  The      *)
(* inductive invariant says how a component is recognised without looking  *)
(* at the rest of the graph: the conflicts cover the visited outpoints     *)
(* (Covering), have exactly the spenders of their outpoints (Exact), share *)
(* no transaction (ConflictsDisjoint), and none of them has a closed       *)
(* proper part (Connected).                                                *)
(***************************************************************************)
EXTENDS ConflictSets, TLAPS

Exact ==
    \A c \in conflicts :
        /\ c.conflicting_outpoints \subseteq Visited
        /\ c.conflicting_outpoints # {}
        /\ c = ConflictOn(c.conflicting_outpoints)

Covering == \A o \in Visited : \E c \in conflicts : o \in c.conflicting_outpoints

Connected ==
    \A c \in conflicts : \A S \in SUBSET c.conflicting_outpoints :
        S # {} /\ ClosedIn(S, c.conflicting_outpoints)
            => S = c.conflicting_outpoints

IInv ==
    /\ TypeOK
    /\ Exact
    /\ Covering
    /\ ConflictsDisjoint
    /\ Connected
    /\ returned => todo = {}
    /\ TaggedExactly

-----------------------------------------------------------------------------
\* In every state of the invariant the conflicts are the components: a
\* conflict is closed because conflicts are disjoint, and it is the least
\* closed set because it has no closed proper part.
LEMMA ComponentsLemma == IInv => ConflictsAreComponents
<1> SUFFICES ASSUME IInv PROVE ConflictsAreComponents
  OBVIOUS
<1>1. ASSUME NEW c \in conflicts, NEW o \in c.conflicting_outpoints
      PROVE  Component(o, Visited) = c.conflicting_outpoints
  <2> DEFINE C == c.conflicting_outpoints
  <2>1. C \subseteq Visited /\ c = ConflictOn(C)
    BY DEF IInv, Exact
  <2>2. ClosedIn(C, Visited)
    <3> SUFFICES ASSUME NEW p \in C, NEW q \in Visited, Linked(p, q)
                 PROVE  q \in C
      BY DEF ClosedIn
    <3>1. PICK d \in conflicts : q \in d.conflicting_outpoints
      BY DEF IInv, Covering
    <3>2. d = ConflictOn(d.conflicting_outpoints)
      BY DEF IInv, Exact
    <3>3. /\ template_spender[p] \in c.template_transactions
          /\ block_spender[p] \in c.block_transactions
      BY <2>1 DEF ConflictOn
    <3>4. /\ template_spender[q] \in d.template_transactions
          /\ block_spender[q] \in d.block_transactions
      BY <3>1, <3>2 DEF ConflictOn
    <3>5. c = d
      BY <3>3, <3>4 DEF Linked, IInv, ConflictsDisjoint
    <3> QED BY <3>1, <3>5
  <2>3. Component(o, Visited) \subseteq C
    BY <2>1, <2>2 DEF Component
  <2>4. ASSUME NEW p \in C, NEW S \in SUBSET Visited, o \in S, ClosedIn(S, Visited)
        PROVE  p \in S
    <3>1. ClosedIn(S \cap C, C)
      BY <2>1, <2>4 DEF ClosedIn
    <3>2. S \cap C = C
      BY <3>1, <2>4 DEF IInv, Connected
    <3> QED BY <3>2
  <2>5. C \subseteq Component(o, Visited)
    BY <2>1, <2>4 DEF Component
  <2> QED BY <2>3, <2>5
<1>2. ASSUME NEW c \in conflicts
      PROVE  \E o \in Visited : c = ConflictOn(Component(o, Visited))
  <2>1. PICK o \in c.conflicting_outpoints : o \in Visited
    BY DEF IInv, Exact
  <2>2. c = ConflictOn(Component(o, Visited))
    BY <1>1, <2>1 DEF IInv, Exact
  <2> QED BY <2>1, <2>2
<1>3. ASSUME NEW o \in Visited
      PROVE  ConflictOn(Component(o, Visited)) \in conflicts
  <2>1. PICK c \in conflicts : o \in c.conflicting_outpoints
    BY DEF IInv, Covering
  <2>2. c = ConflictOn(Component(o, Visited))
    BY <1>1, <2>1 DEF IInv, Exact
  <2> QED BY <2>2
<1> QED BY <1>2, <1>3 DEF ConflictsAreComponents

-----------------------------------------------------------------------------
\* The three branches of the match do the same thing for 0, 1 and more
\* existing conflicts: replace them by one that has the outpoint as well.
JoinStep(o) ==
    /\ o \in todo
    /\ conflicts' = (conflicts \ Existing(o)) \cup {Joined(o, Existing(o))}
    /\ Visit(o)

\* Every iteration of the loop is a JoinStep.
LEMMA BranchesJoin ==
    NewConflict \/ ExtendConflict \/ MergeConflicts => \E o \in todo : JoinStep(o)
<1>1. NewConflict => \E o \in todo : JoinStep(o)
  <2> SUFFICES ASSUME NEW o \in todo, Existing(o) = {},
                      conflicts' = conflicts \cup {Joined(o, {})}, Visit(o)
               PROVE  JoinStep(o)
    BY DEF NewConflict
  <2> QED BY Zenon DEF JoinStep
<1>2. ExtendConflict => \E o \in todo : JoinStep(o)
  BY DEF ExtendConflict, JoinStep
<1>3. MergeConflicts => \E o \in todo : JoinStep(o)
  BY DEF MergeConflicts, JoinStep
<1> QED BY <1>1, <1>2, <1>3

\* A JoinStep preserves the invariant.
LEMMA JoinLemma ==
    ASSUME IInv, NEW o \in todo, JoinStep(o)
    PROVE  IInv'
<1> DEFINE E == Existing(o)
           n == Joined(o, E)
           N == n.conflicting_outpoints
           old == conflicts \ E
<1>1. /\ UNCHANGED <<template_spender, block_spender, tagged, returned>>
      /\ todo' = todo \ {o}
      /\ conflicts' = old \cup {n}
  BY DEF JoinStep, Visit, inputs
<1>2. /\ Contested' = Contested
      /\ o \in Contested
      /\ Visited' = Visited \cup {o}
      /\ template_spender[o] \in TemplateTxs /\ block_spender[o] \in BlockTxs
  BY <1>1 DEF IInv, TypeOK, Contested, Visited
<1>3. E \subseteq conflicts
  BY DEF Existing
<1>4. /\ \A c \in conflicts : c \in Conflict
      /\ \A c \in conflicts : c = ConflictOn(c.conflicting_outpoints)
      /\ \A c \in conflicts : c.conflicting_outpoints \subseteq Visited
  BY DEF IInv, TypeOK, Exact
<1>5. /\ N = {o} \cup UNION { c.conflicting_outpoints : c \in E }
      /\ n.template_transactions = {template_spender[o]}
             \cup UNION { c.template_transactions : c \in E }
      /\ n.block_transactions = {block_spender[o]}
             \cup UNION { c.block_transactions : c \in E }
      /\ N \subseteq Visited \cup {o} /\ o \in N
  BY <1>3, <1>4 DEF Joined
<1>6. n = ConflictOn(N)
  <2>1. ASSUME NEW c \in E
        PROVE  /\ c.template_transactions
                     = { template_spender[p] : p \in c.conflicting_outpoints }
               /\ c.block_transactions
                     = { block_spender[p] : p \in c.conflicting_outpoints }
    BY <1>3, <1>4 DEF ConflictOn
  <2>2. n.template_transactions = { template_spender[p] : p \in N }
    BY <2>1, <1>5
  <2>3. n.block_transactions = { block_spender[p] : p \in N }
    BY <2>1, <1>5
  <2> QED BY <2>2, <2>3 DEF ConflictOn, Joined
<1>7. TypeOK'
  <2>1. n \in Conflict
    <3>1. n.template_transactions \subseteq TemplateTxs
      BY <1>2, <1>3, <1>4, <1>5 DEF Conflict
    <3>2. n.block_transactions \subseteq BlockTxs
      BY <1>2, <1>3, <1>4, <1>5 DEF Conflict
    <3>3. N \subseteq Outpoints
      BY <1>2, <1>5 DEF Visited, Contested
    <3> QED BY <3>1, <3>2, <3>3 DEF Conflict, Joined
  <2> QED BY <2>1, <1>1, <1>2 DEF IInv, TypeOK
<1>8. Exact'
  <2>1. \A S : ConflictOn(S)' = ConflictOn(S)
    BY <1>1 DEF ConflictOn
  <2> QED BY <2>1, <1>1, <1>2, <1>5, <1>6 DEF IInv, Exact
<1>9. Covering'
  <2> SUFFICES ASSUME NEW p \in Visited \cup {o}
               PROVE  \E c \in old \cup {n} : p \in c.conflicting_outpoints
    BY <1>1, <1>2 DEF Covering
  <2>1. CASE p = o
    BY <2>1, <1>5
  <2>2. CASE p \in Visited
    <3>1. PICK c \in conflicts : p \in c.conflicting_outpoints
      BY <2>2 DEF IInv, Covering
    <3> QED BY <3>1, <1>5
  <2> QED BY <2>1, <2>2
<1>10. ConflictsDisjoint'
  <2>1. ASSUME NEW c \in old
        PROVE  /\ c.template_transactions \cap n.template_transactions = {}
               /\ c.block_transactions \cap n.block_transactions = {}
    <3>1. /\ template_spender[o] \notin c.template_transactions
          /\ block_spender[o] \notin c.block_transactions
      BY DEF Existing
    <3>2. \A d \in E : /\ c.template_transactions \cap d.template_transactions = {}
                       /\ c.block_transactions \cap d.block_transactions = {}
      BY <1>3 DEF IInv, ConflictsDisjoint
    <3> QED BY <3>1, <3>2, <1>5
  <2>2. \A c, d \in old : c # d =>
            /\ c.template_transactions \cap d.template_transactions = {}
            /\ c.block_transactions \cap d.block_transactions = {}
    BY DEF IInv, ConflictsDisjoint
  <2> QED BY <2>1, <2>2, <1>1 DEF ConflictsDisjoint
<1>11. Connected'
  <2>1. \A S, V : ClosedIn(S, V)' <=> ClosedIn(S, V)
    BY <1>1 DEF ClosedIn, Linked
  <2>2. ASSUME NEW S \in SUBSET N, S # {}, ClosedIn(S, N)
        PROVE  S = N
    <3>1. ASSUME NEW c \in E
          PROVE  S \cap c.conflicting_outpoints \in {{}, c.conflicting_outpoints}
      <4>1. ClosedIn(S \cap c.conflicting_outpoints, c.conflicting_outpoints)
        BY <2>2, <1>5 DEF ClosedIn
      <4> QED BY <4>1, <1>3 DEF IInv, Connected
    <3>2. ASSUME NEW c \in E
          PROVE  \E p \in c.conflicting_outpoints : Linked(o, p) /\ Linked(p, o)
      <4>1. c = ConflictOn(c.conflicting_outpoints)
        BY <1>3, <1>4
      <4>2. CASE template_spender[o] \in c.template_transactions
        BY <4>1, <4>2 DEF ConflictOn, Linked
      <4>3. CASE block_spender[o] \in c.block_transactions
        BY <4>1, <4>3 DEF ConflictOn, Linked
      <4> QED BY <4>2, <4>3 DEF Existing
    <3>3. o \in S
      <4>1. PICK p \in S : TRUE
        BY <2>2
      <4>2. CASE p = o
        BY <4>2
      <4>3. CASE p # o
        <5>1. PICK c \in E : p \in c.conflicting_outpoints
          BY <4>3, <1>5
        <5>2. c.conflicting_outpoints \subseteq S
          BY <3>1, <5>1
        <5> QED BY <5>2, <3>2, <2>2, <1>5 DEF ClosedIn
      <4> QED BY <4>2, <4>3
    <3>4. ASSUME NEW c \in E
          PROVE  c.conflicting_outpoints \subseteq S
      <4>1. PICK p \in c.conflicting_outpoints : Linked(o, p)
        BY <3>2
      <4>2. p \in N
        BY <1>5
      <4>3. p \in S
        BY <4>1, <4>2, <3>3, <2>2 DEF ClosedIn
      <4> QED BY <4>3, <3>1
    <3> QED BY <3>3, <3>4, <1>5
  <2> QED BY <2>1, <2>2, <1>1 DEF IInv, Connected
<1>12. (returned => todo = {})' /\ TaggedExactly'
  BY <1>1, <1>2 DEF IInv, TaggedExactly
<1> QED BY <1>7, <1>8, <1>9, <1>10, <1>11, <1>12 DEF IInv

-----------------------------------------------------------------------------
\* Returning preserves the invariant: every contested outpoint is visited, so
\* the transactions of the conflicts are exactly the spenders, and the tagged
\* ones those of them that can be built.
LEMMA ReturnLemma == IInv /\ ReturnConflicts => IInv'
<1> SUFFICES ASSUME IInv, ReturnConflicts PROVE IInv'
  OBVIOUS
<1>1. /\ UNCHANGED <<template_spender, block_spender, todo, conflicts>>
      /\ todo = {}
      /\ tagged' = (UNION { c.template_transactions \cup c.block_transactions :
                               c \in conflicts }) \ Unbuildable
  BY DEF ReturnConflicts, inputs
<1>2. returned' = TRUE
  BY Zenon DEF ReturnConflicts
<1>3. Contested' = Contested /\ Visited' = Visited /\ Visited = Contested
  BY <1>1 DEF Contested, Visited
<1>4. ASSUME NEW c \in conflicts
      PROVE  /\ c.template_transactions
                   = { template_spender[p] : p \in c.conflicting_outpoints }
             /\ c.block_transactions
                   = { block_spender[p] : p \in c.conflicting_outpoints }
             /\ c.conflicting_outpoints \subseteq Contested
  BY <1>3 DEF IInv, Exact, ConflictOn
<1>5. tagged' = ({ template_spender[o] : o \in Contested }
                     \cup { block_spender[o] : o \in Contested }) \ Unbuildable
  <2>1. \A o \in Contested : \E c \in conflicts : o \in c.conflicting_outpoints
    BY <1>3 DEF IInv, Covering
  <2>2. UNION { c.template_transactions \cup c.block_transactions : c \in conflicts }
           = { template_spender[o] : o \in Contested }
                 \cup { block_spender[o] : o \in Contested }
    BY <2>1, <1>4
  <2> QED BY <2>2, <1>1, Zenon
<1>6. tagged' \subseteq TemplateTxs \cup BlockTxs
  <2>1. \A c \in conflicts :
           c.template_transactions \cup c.block_transactions
               \subseteq TemplateTxs \cup BlockTxs
    BY DEF IInv, TypeOK, Conflict
  <2> QED BY <2>1, <1>1
<1>7. TypeOK'
  <2>1. returned' \in BOOLEAN
    BY <1>2
  <2> QED BY <2>1, <1>1, <1>3, <1>6 DEF IInv, TypeOK
<1>8. Exact' /\ Covering' /\ ConflictsDisjoint' /\ Connected'
  BY <1>1, <1>3 DEF IInv, Exact, Covering, ConflictsDisjoint, Connected,
                    ConflictOn, ClosedIn, Linked
<1>9. TaggedExactly'
  BY <1>1, <1>3, <1>5, Zenon DEF TaggedExactly
<1> QED BY <1>1, <1>7, <1>8, <1>9 DEF IInv

\* IInv is an invariant of the loop.
THEOREM Invariance == Spec => []IInv
<1>1. Init => IInv
  BY DEF Init, IInv, TypeOK, Exact, Covering, ConflictsDisjoint, Connected,
         TaggedExactly, Visited
<1>2. IInv /\ [Next]_vars => IInv'
  <2> SUFFICES ASSUME IInv, [Next]_vars PROVE IInv'
    OBVIOUS
  <2>1. CASE NewConflict \/ ExtendConflict \/ MergeConflicts
    BY <2>1, BranchesJoin, JoinLemma
  <2>2. CASE ReturnConflicts
    BY <2>2, ReturnLemma
  <2>3. CASE UNCHANGED vars
    BY <2>3 DEF vars, IInv, TypeOK, Exact, Covering, ConflictsDisjoint,
                Connected, TaggedExactly, Visited, Contested, ConflictOn,
                ClosedIn, Linked
  <2> QED BY <2>1, <2>2, <2>3 DEF Next
<1> QED BY <1>1, <1>2, PTL DEF Spec

\* No transaction is in two conflicts, whatever the template and the block
\* spend and in whatever order the outpoints are visited.
THEOREM Disjointness == Spec => []ConflictsDisjoint
<1>1. IInv => ConflictsDisjoint
  BY DEF IInv
<1> QED BY <1>1, Invariance, PTL

\* The conflicts are the connected components of the contested outpoints.
THEOREM Components == Spec => []ConflictsAreComponents
BY ComponentsLemma, Invariance, PTL

\* The transactions tagged as conflicting are exactly the spenders of contested
\* outpoints that can be built, for any set of transactions that cannot.
THEOREM Tagging == Spec => []TaggedExactly
<1>1. IInv => TaggedExactly
  BY DEF IInv
<1> QED BY <1>1, Invariance, PTL
=============================================================================
