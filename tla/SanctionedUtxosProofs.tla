----------------------- MODULE SanctionedUtxosProofs -----------------------
(***************************************************************************)
(* Proofs about SanctionedUtxos, for any chain, lists, failures and number *)
(* of restarts: what is in the table, and what process finds with it.      *)
(***************************************************************************)
EXTENDS SanctionedUtxos, TLAPS

\* What an open replacement has deleted and what has been added since make up
\* the table as the others see it.
OpenInv ==
    IF scan_pc = "insert"
    THEN sanctioned_utxo = deleted \cup fresh /\ deleted \cap fresh = {}
    ELSE deleted = {} /\ fresh = {}

\* process has a block of the chain and has loaded at least the scan.
LoadedInv ==
    /\ pc # "idle" => blk \in 1..tip
    /\ pc = "infos" => ScanResult(loaded) \subseteq utxos

IInv == TypeOK /\ OpenInv /\ TableExact /\ LoadedInv /\ ScannedSpendFlagged

-----------------------------------------------------------------------------
\* A scan finds outputs.
LEMMA ScanResultType == \A s : ScanResult(s) \subseteq Outputs
BY DEF ScanResult, UnspentAt

\* An empty list of addresses has no outputs.
LEMMA NoScanEmpty == ScanResult(NoScan) = {}
BY DEF ScanResult, NoScan

\* The scan there is at the start.
LEMMA NoScanType == NoScan \in Scan
BY ChainAssumption DEF NoScan, Scan

\* The initial states satisfy the invariant.
LEMMA InitInv == Init => IInv
<1> SUFFICES ASSUME Init PROVE IInv
  OBVIOUS
<1>0. started \in BOOLEAN
  BY Zenon DEF Init
<1>1. TypeOK
  BY <1>0, ChainAssumption, ListsAssumption, NoScanType
     DEF Init, TypeOK, UpSteps, ScanSteps, ProcSteps
<1>2. OpenInv /\ TableExact /\ LoadedInv /\ ScannedSpendFlagged
  BY NoScanEmpty DEF Init, OpenInv, TableExact, LoadedInv, ScannedSpendFlagged
<1> QED BY <1>1, <1>2 DEF IInv

\* The node, the server and the updater leave the UTXOs alone.
LEMMA OutsideStep == IInv /\ (NodeConnect \/ Publish \/ Updater) => IInv'
<1> SUFFICES ASSUME IInv, NodeConnect \/ Publish \/ Updater PROVE IInv'
  OBVIOUS
<1> USE DEF IInv, TypeOK, nodevars, tables, upvars, scanvars, procvars, history
<1>1. TypeOK'
  <2>1. CASE NodeConnect
    BY <2>1, ChainAssumption DEF NodeConnect
  <2>2. CASE Publish
    BY <2>2, ListsAssumption DEF Publish
  <2>3. CASE Download
    BY <2>3 DEF Download, UpSteps
  <2>4. CASE ReplaceAddresses
    <3>1. downloaded.addresses \subseteq Addresses
      <4>1. CASE downloaded \in Lists
        BY <4>1, ListsAssumption
      <4>2. CASE downloaded = NoList
        BY <4>2 DEF NoList
      <4> QED BY <4>1, <4>2
    <3>2. started' \in BOOLEAN
      BY <2>4, Zenon DEF ReplaceAddresses
    <3> QED BY <2>4, <3>1, <3>2 DEF ReplaceAddresses, UpSteps
  <2>5. CASE ReplaceRejected \/ ReplaceFails
    BY <2>5 DEF ReplaceRejected, ReplaceFails, UpSteps
  <2> QED BY <2>1, <2>2, <2>3, <2>4, <2>5 DEF Updater
<1>2. /\ UNCHANGED <<sanctioned_utxo, flagged, scanvars, procvars, history>>
      /\ tip' \in {tip, tip + 1}
  BY DEF NodeConnect, Publish, Updater, Download, ReplaceAddresses, ReplaceRejected,
         ReplaceFails
<1>3. OpenInv' /\ TableExact' /\ ScannedSpendFlagged'
  BY <1>2 DEF OpenInv, TableExact, ScannedSpendFlagged
<1>4. LoadedInv'
  BY <1>2 DEF LoadedInv
<1> QED BY <1>1, <1>3, <1>4

\* The scan thread: a replacement that commits leaves its scan and what was
\* added in between, one that does not leaves the table as it was.
LEMMA ScannerStep == IInv /\ Scanner => IInv'
<1> SUFFICES ASSUME IInv, Scanner PROVE IInv'
  OBVIOUS
<1> USE DEF IInv, TypeOK, nodevars, tables, upvars, scanvars, procvars, history
<1>1. TypeOK'
  <2>1. CASE LoadAddresses
    BY <2>1 DEF LoadAddresses, Scan, ScanSteps
  <2>2. CASE ScanTxOutSet
    BY <2>2 DEF ScanTxOutSet, Scan, ScanSteps
  <2>3. CASE InsertScanInfo
    BY <2>3 DEF InsertScanInfo, Scan, ScanSteps
  <2>4. CASE DeleteUtxos
    BY <2>4 DEF DeleteUtxos, ScanSteps
  <2>5. CASE InsertScanned
    BY <2>5, ScanResultType, ChainAssumption
       DEF InsertScanned, NextScan, NoScan, Scan, Remaining, ScanSteps
  <2>6. CASE InsertRejected \/ ScanFails
    BY <2>6, ChainAssumption
       DEF InsertRejected, ScanFails, NextScan, NoScan, Scan, ScanSteps
  <2> QED BY <2>1, <2>2, <2>3, <2>4, <2>5, <2>6 DEF Scanner
<1>2. OpenInv' /\ TableExact'
  <2>1. CASE LoadAddresses
    BY <2>1 DEF LoadAddresses, OpenInv, TableExact
  <2>2. CASE ScanTxOutSet
    BY <2>2 DEF ScanTxOutSet, OpenInv, TableExact
  <2>3. CASE InsertScanInfo
    BY <2>3 DEF InsertScanInfo, OpenInv, TableExact
  <2>4. CASE DeleteUtxos
    BY <2>4 DEF DeleteUtxos, OpenInv, TableExact
  <2>5. CASE InsertScanned
    <3>1. Remaining = fresh
      BY <2>5 DEF InsertScanned, OpenInv, Remaining
    <3> QED BY <2>5, <3>1 DEF InsertScanned, NextScan, OpenInv, TableExact
  <2>6. CASE InsertRejected \/ ScanFails
    BY <2>6 DEF InsertRejected, ScanFails, NextScan, OpenInv, TableExact
  <2> QED BY <2>1, <2>2, <2>3, <2>4, <2>5, <2>6 DEF Scanner
<1>3. UNCHANGED <<tip, pc, blk, utxos, loaded, flagged>>
  BY DEF Scanner, LoadAddresses, ScanTxOutSet, InsertScanInfo, DeleteUtxos,
         InsertScanned, InsertRejected, ScanFails
<1>4. LoadedInv' /\ ScannedSpendFlagged'
  BY <1>3 DEF LoadedInv, ScannedSpendFlagged
<1> QED BY <1>1, <1>2, <1>4

\* process: it loads the whole table, and adds to it next to a replacement.
LEMMA ProcessStep == IInv /\ Process => IInv'
<1> SUFFICES ASSUME IInv, Process PROVE IInv'
  OBVIOUS
<1> USE DEF IInv, TypeOK, nodevars, tables, upvars, scanvars, procvars, history
<1>1. CASE TakeTemplate
  <2>1. TypeOK'
    BY <1>1, ChainAssumption DEF TakeTemplate
  <2> QED BY <1>1, <2>1
          DEF TakeTemplate, OpenInv, TableExact, LoadedInv, ScannedSpendFlagged
<1>2. CASE ProcessBlock
  <2>1. TypeOK'
    BY <1>2, ChainAssumption DEF ProcessBlock, ProcSteps
  <2> QED BY <1>2, <2>1
          DEF ProcessBlock, OpenInv, TableExact, LoadedInv, ScannedSpendFlagged
<1>3. CASE SanctionedAddresses
  <2>1. TypeOK'
    BY <1>3 DEF SanctionedAddresses, ProcSteps
  <2> QED BY <1>3, <2>1
          DEF SanctionedAddresses, OpenInv, TableExact, LoadedInv, ScannedSpendFlagged
<1>4. CASE GetSanctionedUtxos
  <2>1. TypeOK'
    BY <1>4, ChainAssumption DEF GetSanctionedUtxos, ProcSteps, Scan, NoScan
  <2>2. LoadedInv'
    BY <1>4, NoScanEmpty DEF GetSanctionedUtxos, LoadedInv, TableExact
  <2> QED BY <1>4, <2>1, <2>2
          DEF GetSanctionedUtxos, OpenInv, TableExact, ScannedSpendFlagged
<1>5. CASE InsertInfos
  <2>0. blk \in Heights
    BY <1>5, ChainAssumption DEF InsertInfos, LoadedInv, Heights
  <2>1. TypeOK'
    BY <1>5, <2>0, ChainAssumption DEF InsertInfos, ProcSteps
  <2>2. ScannedSpendFlagged'
    BY <1>5, <2>0 DEF InsertInfos, LoadedInv, ScannedSpendFlagged
  <2> QED BY <1>5, <2>1, <2>2 DEF InsertInfos, OpenInv, TableExact, LoadedInv
<1>6. CASE InsertNewUtxos
  <2>0. NewUtxos \subseteq Outputs
    <3>1. blk \in Heights
      BY <1>6, ChainAssumption DEF InsertNewUtxos, LoadedInv, Heights
    <3> QED BY <3>1, ChainAssumption DEF NewUtxos
  <2>1. TypeOK'
    BY <1>6, <2>0, ChainAssumption
       DEF InsertNewUtxos, Return, TemplateFor, ProcSteps, Scan, NoScan
  <2>2. OpenInv'
    BY <1>6 DEF InsertNewUtxos, OpenInv
  <2>3. TableExact'
    BY <1>6 DEF InsertNewUtxos, TableExact
  <2> QED BY <1>6, <2>1, <2>2, <2>3
          DEF InsertNewUtxos, Return, LoadedInv, ScannedSpendFlagged
<1>7. CASE ProcessFails
  <2>1. TypeOK'
    BY <1>7, ChainAssumption
       DEF ProcessFails, Return, TemplateFor, ProcSteps, Scan, NoScan
  <2> QED BY <1>7, <2>1
          DEF ProcessFails, Return, OpenInv, TableExact, LoadedInv, ScannedSpendFlagged
<1> QED BY <1>1, <1>2, <1>3, <1>4, <1>5, <1>6, <1>7 DEF Process

\* A restart rolls back and forgets.
LEMMA RestartStep == IInv /\ Restart => IInv'
<1> SUFFICES ASSUME IInv, Restart PROVE IInv'
  OBVIOUS
<1> USE DEF IInv, TypeOK, nodevars, tables, upvars, scanvars, procvars, history
<1>0. started' \in BOOLEAN
  BY Zenon DEF Restart
<1>1. TypeOK'
  BY <1>0, ChainAssumption, ListsAssumption, NoScanType
     DEF Restart, NextScan, Return, UpSteps, ScanSteps, ProcSteps
<1> QED BY <1>1 DEF Restart, NextScan, Return, OpenInv, TableExact, LoadedInv,
                    ScannedSpendFlagged

\* The invariant.
THEOREM Invariance == Spec => []IInv
<1>1. IInv /\ UNCHANGED vars => IInv'
  BY DEF IInv, TypeOK, OpenInv, TableExact, LoadedInv, ScannedSpendFlagged, vars,
         nodevars, tables, upvars, scanvars, procvars, history
<1>2. IInv /\ [Next]_vars => IInv'
  BY <1>1, OutsideStep, ScannerStep, ProcessStep, RestartStep DEF Next
<1> QED BY <1>2, InitInv, PTL DEF Spec

\* The types of the threads' state and of the tables.
THEOREM UtxoTypes == Spec => []TypeOK
<1>1. IInv => TypeOK
  BY DEF IInv
<1> QED BY <1>1, Invariance, PTL

\* sanctioned_utxo holds the last committed scan and what process has added
\* since, however replacements and insertions interleave and fail.
THEOREM Exactness == Spec => []TableExact
<1>1. IInv => TableExact
  BY DEF IInv
<1> QED BY <1>1, Invariance, PTL

\* process recognises the spends of all outputs that the scan in the table had
\* found.
THEOREM ScannedSpends == Spec => []ScannedSpendFlagged
<1>1. IInv => ScannedSpendFlagged
  BY DEF IInv
<1> QED BY <1>1, Invariance, PTL
=============================================================================
