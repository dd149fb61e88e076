--------------------------- MODULE PackagesProofs ---------------------------
(***************************************************************************)
(* Proofs about Packages, for lists of any length and any dependencies.    *)
(***************************************************************************)
EXTENDS Packages, SequenceTheorems, TLAPS

ParentsFirst == \A i, j \in Positions : j \in spends[i] => j < i

\* The run that is being built: it ends right after what is left to visit.
RunInv ==
    /\ package = {} => rest = count
    /\ \A i \in package : rest < i
    /\ package # {} => rest + 1 \in package
    /\ \A i \in Positions : i \notin package /\ i + 1 \in package => i = rest
    /\ ConnectedSet(package)

\* The runs that are closed, last one first.
ClosedInv ==
    /\ \A i \in Positions : rest < i =>
          i \in package \/ \E k \in DOMAIN packages : i \in packages[k]
    /\ \A k \in DOMAIN packages : \A i \in packages[k], j \in package : j < i
    /\ \A k \in DOMAIN packages : \A i \in packages[k] : rest < i
    /\ \A k, l \in DOMAIN packages : k < l =>
          \A i \in packages[k], j \in packages[l] : j < i
    /\ \A k \in DOMAIN packages :
          ConnectedSet(packages[k]) /\ MaximalRun(packages[k])

IInv ==
    /\ TypeOK
    /\ ParentsFirst
    /\ returned => rest = 0
    /\ ~returned => RunInv /\ ClosedInv
    /\ PackagesPartition
    /\ PackagesConnected
    /\ PackagesMaximal

-----------------------------------------------------------------------------
\* Belongs asks whether the next transaction depends on one of the package.
LEMMA BelongsLemma ==
    ASSUME TypeOK, ParentsFirst, RunInv, rest \in Positions
    PROVE  Belongs(rest) <=> \E j \in package : Linked(rest, j)
<1> USE DEF TypeOK, Positions
<1>1. ASSUME Belongs(rest) PROVE \E j \in package : Linked(rest, j)
  BY <1>1 DEF Belongs, IsParent, SharesParent, parent_txids, Linked
<1>2. ASSUME NEW j \in package, Linked(rest, j) PROVE Belongs(rest)
  <2>1. j \notin spends[rest]
    BY DEF ParentsFirst, RunInv
  <2> QED BY <1>2, <2>1 DEF Belongs, IsParent, SharesParent, parent_txids, Linked
<1> QED BY <1>1, <1>2

\* A connected set and something it depends on are connected.
LEMMA ConnectedExtends ==
    ASSUME NEW P, NEW r, r \notin P, ConnectedSet(P),
           NEW j \in P, Linked(r, j)
    PROVE  ConnectedSet(P \cup {r})
<1> SUFFICES ASSUME NEW S \in SUBSET (P \cup {r}), S # {},
                    \A a \in S, b \in P \cup {r} : Linked(a, b) => b \in S
             PROVE  S = P \cup {r}
  BY DEF ConnectedSet
<1>1. Linked(j, r)
  BY DEF Linked
<1>2. S \cap P # {}
  BY <1>1
<1>3. S \cap P = P
  <2>1. \A a \in S \cap P, b \in P : Linked(a, b) => b \in S \cap P
    OBVIOUS
  <2> QED BY <1>2, <2>1 DEF ConnectedSet
<1> QED BY <1>1, <1>3

\* One transaction is connected.
LEMMA ConnectedSingle == ASSUME NEW r PROVE ConnectedSet({r})
BY DEF ConnectedSet

-----------------------------------------------------------------------------
\* The initial states satisfy the invariant.
LEMMA InitInv == Init => IInv
<1> SUFFICES ASSUME Init PROVE IInv
  OBVIOUS
<1>1. PICK inside \in SUBSET { p \in (1..count) \X (1..count) : p[2] < p[1] } :
         \E outside \in [1..count -> SUBSET Outside] :
            spends = [i \in 1..count |->
                         { j \in 1..count : <<i, j>> \in inside } \cup outside[i]]
  BY DEF Init
<1>2. PICK outside \in [1..count -> SUBSET Outside] :
         spends = [i \in 1..count |->
                      { j \in 1..count : <<i, j>> \in inside } \cup outside[i]]
  BY <1>1
<1>3. TypeOK
  <2>1. spends \in [Positions -> SUBSET (Positions \cup Outside)]
    BY <1>2 DEF Positions
  <2>2. count \in Nat /\ rest \in 0..count
    BY PackagesAssumption DEF Init
  <2>3. package \subseteq Positions /\ packages \in Seq(SUBSET Positions)
    BY DEF Init
  <2> QED BY <2>1, <2>2, <2>3 DEF Init, TypeOK
<1>4. ParentsFirst
  <2> SUFFICES ASSUME NEW i \in Positions, NEW j \in Positions, j \in spends[i]
               PROVE  j < i
    BY DEF ParentsFirst
  <2>1. j \notin Outside
    BY PackagesAssumption DEF Positions, Init
  <2>2. <<i, j>> \in inside
    BY <1>2, <2>1 DEF Positions
  <2> QED BY <2>2
<1>5. RunInv /\ ClosedInv
  BY DEF Init, RunInv, ClosedInv, ConnectedSet, Positions
<1> QED BY <1>3, <1>4, <1>5
        DEF Init, IInv, PackagesPartition, PackagesConnected, PackagesMaximal

\* The first transaction of the loop.
LEMMA StartInv == IInv /\ StartPackage => IInv'
<1> SUFFICES ASSUME IInv, StartPackage PROVE IInv'
  OBVIOUS
<1> USE DEF IInv, TypeOK, StartPackage, Visit, Positions
<1>1. ~returned
  OBVIOUS
<1>2. TypeOK' /\ ParentsFirst'
  BY DEF ParentsFirst
<1>3. ConnectedSet(package)'
  <2>1. ConnectedSet({rest})
    BY ConnectedSingle
  <2> QED BY <2>1 DEF ConnectedSet, Linked
<1>4. RunInv'
  BY <1>1, <1>3 DEF RunInv
<1>5. ClosedInv'
  BY <1>1 DEF ClosedInv, RunInv, ConnectedSet, MaximalRun, Linked
<1> QED BY <1>1, <1>2, <1>4, <1>5
        DEF PackagesPartition, PackagesConnected, PackagesMaximal

\* A transaction that depends on one of the package.
LEMMA ExtendInv == IInv /\ ExtendPackage => IInv'
<1> SUFFICES ASSUME IInv, ExtendPackage PROVE IInv'
  OBVIOUS
<1> USE DEF IInv, TypeOK, ExtendPackage, Visit, Positions
<1>1. ~returned
  OBVIOUS
<1>2. TypeOK' /\ ParentsFirst'
  BY DEF ParentsFirst
<1>3. ConnectedSet(package)'
  <2>1. PICK j \in package : Linked(rest, j)
    BY <1>1, BelongsLemma
  <2>2. rest \notin package
    BY <1>1 DEF RunInv
  <2>3. ConnectedSet(package \cup {rest})
    BY <1>1, <2>1, <2>2, ConnectedExtends DEF RunInv
  <2> QED BY <2>3 DEF ConnectedSet, Linked
<1>4. RunInv'
  BY <1>1, <1>3 DEF RunInv
<1>5. ClosedInv'
  <2>1. \A k \in DOMAIN packages :
            (ConnectedSet(packages[k]) /\ MaximalRun(packages[k]))'
    BY <1>1 DEF ClosedInv, ConnectedSet, MaximalRun, Linked
  <2> QED BY <1>1, <2>1 DEF ClosedInv
<1> QED BY <1>1, <1>2, <1>4, <1>5
        DEF PackagesPartition, PackagesConnected, PackagesMaximal

\* The package as it is when it is closed ends at a transaction that does not
\* depend on it.
LEMMA ClosedMaximal ==
    ASSUME TypeOK, ParentsFirst, RunInv, rest \in Positions => ~Belongs(rest)
    PROVE  MaximalRun(package)
<1> SUFFICES ASSUME NEW i \in Positions, i \notin package, i + 1 \in package,
                    NEW j \in package
             PROVE  ~Linked(i, j)
  BY DEF MaximalRun
<1>1. i = rest
  BY DEF RunInv
<1> QED BY <1>1, BelongsLemma

\* Elements of the list of packages after one was added.
LEMMA AppendPackage ==
    ASSUME NEW q \in Seq(SUBSET Positions), NEW P \in SUBSET Positions
    PROVE  /\ Append(q, P) \in Seq(SUBSET Positions)
           /\ Len(q) \in Nat
           /\ DOMAIN q = 1..Len(q)
           /\ DOMAIN Append(q, P) = 1..(Len(q) + 1)
           /\ \A k \in DOMAIN q : Append(q, P)[k] = q[k]
           /\ Append(q, P)[Len(q) + 1] = P
           /\ \A k \in DOMAIN Append(q, P) :
                 \/ k \in DOMAIN q /\ Append(q, P)[k] = q[k]
                 \/ k = Len(q) + 1 /\ Append(q, P)[k] = P
<1>1. /\ Append(q, P) \in Seq(SUBSET Positions)
      /\ Len(q) \in Nat
      /\ DOMAIN q = 1..Len(q)
      /\ DOMAIN Append(q, P) = 1..(Len(q) + 1)
      /\ \A k \in DOMAIN q : Append(q, P)[k] = q[k]
      /\ Append(q, P)[Len(q) + 1] = P
  OBVIOUS
<1>2. \A k \in 1..(Len(q) + 1) : k \in 1..Len(q) \/ k = Len(q) + 1
  BY <1>1
<1> QED BY <1>1, <1>2

\* A transaction that depends on none of the package.
LEMMA CloseInv == IInv /\ ClosePackage => IInv'
<1> SUFFICES ASSUME IInv, ClosePackage PROVE IInv'
  OBVIOUS
<1> USE DEF IInv, TypeOK, ClosePackage, Visit, Positions
<1>1. ~returned
  OBVIOUS
<1>2. /\ Len(packages) \in Nat
      /\ DOMAIN packages = 1..Len(packages)
      /\ DOMAIN packages' = 1..(Len(packages) + 1)
      /\ \A k \in DOMAIN packages : packages'[k] = packages[k]
      /\ packages'[Len(packages) + 1] = package
      /\ packages' \in Seq(SUBSET Positions)
      /\ \A k \in DOMAIN packages' :
            \/ k \in DOMAIN packages /\ packages'[k] = packages[k]
            \/ k = Len(packages) + 1 /\ packages'[k] = package
  BY AppendPackage
<1>3. TypeOK' /\ ParentsFirst'
  BY <1>2 DEF ParentsFirst
<1>4. ConnectedSet(package)'
  <2>1. ConnectedSet({rest})
    BY ConnectedSingle
  <2> QED BY <2>1 DEF ConnectedSet, Linked
<1>5. RunInv'
  BY <1>1, <1>4 DEF RunInv
<1>6. ConnectedSet(package) /\ MaximalRun(package)
  BY <1>1, ClosedMaximal DEF RunInv
<1>7. \A k \in DOMAIN packages' :
          (ConnectedSet(packages[k]) /\ MaximalRun(packages[k]))'
  <2> SUFFICES ASSUME NEW k \in DOMAIN packages'
               PROVE  ConnectedSet(packages[k])' /\ MaximalRun(packages[k])'
    OBVIOUS
  <2>1. ConnectedSet(packages'[k]) /\ MaximalRun(packages'[k])
    BY <1>1, <1>2, <1>6 DEF ClosedInv
  <2> QED BY <2>1 DEF ConnectedSet, MaximalRun, Linked
<1>8. ClosedInv'
  <2>1. \A i \in Positions' : rest' < i =>
            i \in package' \/ \E k \in DOMAIN packages' : i \in packages'[k]
    <3> SUFFICES ASSUME NEW i \in Positions, rest' < i, i \notin package'
                 PROVE  \E k \in DOMAIN packages' : i \in packages'[k]
      OBVIOUS
    <3>1. rest < i
      OBVIOUS
    <3> QED BY <1>1, <1>2, <3>1 DEF ClosedInv
  <2>2. ASSUME NEW k \in DOMAIN packages', NEW i \in packages'[k] PROVE i \in Int /\ rest < i
    <3>1. CASE k \in DOMAIN packages /\ packages'[k] = packages[k]
      <4>1. packages[k] \subseteq Positions
        BY <1>2, <3>1
      <4> QED BY <1>1, <3>1, <4>1 DEF ClosedInv
    <3>2. CASE packages'[k] = package
      BY <1>1, <3>2 DEF RunInv
    <3> QED BY <1>2, <3>1, <3>2
  <2>3. ASSUME NEW k \in DOMAIN packages', NEW l \in DOMAIN packages', k < l,
               NEW i \in packages'[k], NEW j \in packages'[l]
        PROVE  j < i
    <3>1. k \in DOMAIN packages /\ packages'[k] = packages[k]
      BY <1>2, <2>3
    <3>2. CASE l \in DOMAIN packages /\ packages'[l] = packages[l]
      BY <1>1, <2>3, <3>1, <3>2 DEF ClosedInv
    <3>3. CASE packages'[l] = package
      BY <1>1, <2>3, <3>1, <3>3 DEF ClosedInv
    <3> QED BY <1>2, <3>2, <3>3
  <2>4. \A k \in DOMAIN packages' : \A i \in packages'[k], j \in package' : j < i
    BY <2>2
  <2>5. \A k \in DOMAIN packages' : \A i \in packages'[k] : rest' < i
    BY <2>2
  <2> QED BY <1>7, <2>1, <2>3, <2>4, <2>5 DEF ClosedInv
<1> QED BY <1>1, <1>3, <1>5, <1>8
        DEF PackagesPartition, PackagesConnected, PackagesMaximal

\* After the loop the last package is added and the order is reversed.
LEMMA ReturnInv == IInv /\ ReturnPackages => IInv'
<1> SUFFICES ASSUME IInv, ReturnPackages PROVE IInv'
  OBVIOUS
<1> USE DEF IInv, TypeOK, Positions
<1> DEFINE q == IF package # {} THEN Append(packages, package) ELSE packages
<1>1. ~returned /\ rest = 0 /\ returned' /\ packages' = Reversed(q)
      /\ UNCHANGED <<count, spends, rest, package>>
  BY DEF ReturnPackages
<1>2. q \in Seq(SUBSET Positions) /\ Len(q) \in Nat /\ DOMAIN q = 1..Len(q)
  BY AppendPackage
<1>3. /\ \A i \in Positions : \E k \in DOMAIN q : i \in q[k]
      /\ \A k, l \in DOMAIN q : k < l => \A i \in q[k], j \in q[l] : j < i
      /\ \A k \in DOMAIN q : ConnectedSet(q[k]) /\ MaximalRun(q[k])
  <2>1. CASE package # {}
    <3>1. /\ q = Append(packages, package)
          /\ DOMAIN packages = 1..Len(packages)
          /\ DOMAIN q = 1..(Len(packages) + 1)
          /\ Len(packages) \in Nat
          /\ \A k \in DOMAIN packages : q[k] = packages[k]
          /\ q[Len(packages) + 1] = package
          /\ \A k \in DOMAIN q : \/ k \in DOMAIN packages /\ q[k] = packages[k]
                                 \/ k = Len(packages) + 1 /\ q[k] = package
      BY <2>1, AppendPackage
    <3>2. MaximalRun(package) /\ ConnectedSet(package)
      BY <1>1, ClosedMaximal DEF RunInv
    <3> HIDE DEF q
    <3>3. \A i \in Positions : \E k \in DOMAIN q : i \in q[k]
      BY <1>1, <3>1 DEF ClosedInv
    <3>4. ASSUME NEW k \in DOMAIN q, NEW l \in DOMAIN q, k < l,
                 NEW i \in q[k], NEW j \in q[l]
          PROVE  j < i
      <4>1. k \in DOMAIN packages /\ q[k] = packages[k]
        BY <3>1, <3>4
      <4>2. CASE l \in DOMAIN packages /\ q[l] = packages[l]
        BY <1>1, <3>4, <4>1, <4>2 DEF ClosedInv
      <4>3. CASE q[l] = package
        BY <1>1, <3>4, <4>1, <4>3 DEF ClosedInv
      <4> QED BY <3>1, <4>2, <4>3
    <3>5. \A k \in DOMAIN q : ConnectedSet(q[k]) /\ MaximalRun(q[k])
      BY <1>1, <3>1, <3>2 DEF ClosedInv
    <3> QED BY <3>3, <3>4, <3>5
  <2>2. CASE package = {}
    BY <1>1, <2>2 DEF ClosedInv, RunInv
  <2> QED BY <2>1, <2>2
<1> HIDE DEF q
<1>4. /\ DOMAIN packages' = 1..Len(q)
      /\ \A k \in 1..Len(q) : Len(q) - k + 1 \in 1..Len(q)
                              /\ packages'[k] = q[Len(q) - k + 1]
      /\ packages' \in Seq(SUBSET Positions)
  <2>1. packages' = [k \in 1..Len(q) |-> q[Len(q) - k + 1]]
    BY <1>1 DEF Reversed
  <2>2. \A k \in 1..Len(q) : Len(q) - k + 1 \in 1..Len(q)
    BY <1>2
  <2>3. \A k \in 1..Len(q) : q[Len(q) - k + 1] \in SUBSET Positions
    BY <1>2, <2>2
  <2> QED BY <1>2, <2>1, <2>2, <2>3, IsASeq
<1>5. TypeOK' /\ ParentsFirst'
  BY <1>1, <1>4 DEF ParentsFirst
<1>6. PackagesPartition'
  <2>1. ASSUME NEW i \in Positions PROVE \E k \in DOMAIN packages' : i \in packages'[k]
    <3>1. PICK l \in 1..Len(q) : i \in q[l]
      BY <1>2, <1>3
    <3>2. Len(q) - l + 1 \in 1..Len(q) /\ Len(q) - (Len(q) - l + 1) + 1 = l
      BY <1>2
    <3>3. packages'[Len(q) - l + 1] = q[l]
      BY <1>4, <3>2
    <3> QED BY <1>4, <3>1, <3>2, <3>3
  <2>2. ASSUME NEW k \in DOMAIN packages', NEW l \in DOMAIN packages', k < l,
               NEW i \in packages'[k], NEW j \in packages'[l]
        PROVE  i < j
    <3> DEFINE a == Len(q) - k + 1
               b == Len(q) - l + 1
    <3>1. a \in DOMAIN q /\ b \in DOMAIN q /\ b < a
      BY <1>2, <1>4, <2>2
    <3>2. i \in q[a] /\ j \in q[b]
      BY <1>4, <2>2
    <3> HIDE DEF a, b
    <3> QED BY <1>3, <3>1, <3>2
  <2> QED BY <1>1, <2>1, <2>2 DEF PackagesPartition
<1>7. \A k \in DOMAIN packages' : ConnectedSet(packages[k])' /\ MaximalRun(packages[k])'
  <2> SUFFICES ASSUME NEW k \in DOMAIN packages'
               PROVE  ConnectedSet(packages[k])' /\ MaximalRun(packages[k])'
    OBVIOUS
  <2>1. ConnectedSet(packages'[k]) /\ MaximalRun(packages'[k])
    BY <1>2, <1>3, <1>4
  <2> QED BY <1>1, <2>1 DEF ConnectedSet, MaximalRun, Linked
<1> QED BY <1>1, <1>5, <1>6, <1>7 DEF PackagesConnected, PackagesMaximal

\* The invariant of the loop.
THEOREM Invariance == Spec => []IInv
<1>1. ASSUME IInv, UNCHANGED vars PROVE IInv'
  <2> USE <1>1 DEF vars, Positions
  <2>1. TypeOK' /\ ParentsFirst'
    BY DEF IInv, TypeOK, ParentsFirst
  <2>2. ~returned => RunInv'
    BY DEF IInv, RunInv, ConnectedSet, Linked
  <2>3. ~returned => ClosedInv'
    BY DEF IInv, ClosedInv, ConnectedSet, MaximalRun, Linked
  <2>4. PackagesPartition'
    BY DEF IInv, PackagesPartition
  <2>5. PackagesConnected' /\ PackagesMaximal'
    BY DEF IInv, PackagesConnected, PackagesMaximal, ConnectedSet, MaximalRun, Linked
  <2> QED BY <2>1, <2>2, <2>3, <2>4, <2>5 DEF IInv
<1>2. IInv /\ [Next]_vars => IInv'
  BY <1>1, StartInv, ExtendInv, CloseInv, ReturnInv DEF Next
<1> QED BY <1>2, InitInv, PTL DEF Spec

\* The packages are the whole list, cut into runs, in order.
THEOREM Partition == Spec => []PackagesPartition
<1>1. IInv => PackagesPartition
  BY DEF IInv
<1> QED BY <1>1, Invariance, PTL

\* Every package is connected: no transaction is in one that depends on nothing
\* in it.
THEOREM Runs == Spec => []PackagesConnected
<1>1. IInv => PackagesConnected
  BY DEF IInv
<1> QED BY <1>1, Invariance, PTL

\* No package is cut short of the transaction before it.
THEOREM LongestRuns == Spec => []PackagesMaximal
<1>1. IInv => PackagesMaximal
  BY DEF IInv
<1> QED BY <1>1, Invariance, PTL
=============================================================================
