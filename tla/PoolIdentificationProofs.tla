---------------------- MODULE PoolIdentificationProofs ----------------------
(***************************************************************************)
(* Proofs about PoolIdentification, for any blocks, any datasets and any   *)
(* number of failures and restarts.                                        *)
(*                                                                         *)
(* The re-identification thread works on a list it read earlier, beside    *)
(* the main loop, and no transaction protects it.  It is right because the *)
(* blocks of the list stay "Unknown" until it comes to them: the primary   *)
(* key lets the main loop write only blocks that have no row yet.          *)
(***************************************************************************)
EXTENDS PoolIdentification, TLAPS

-----------------------------------------------------------------------------
(* Types                                                                   *)

\* A failing call stays within the bound on them.
LEMMA FailureTypes ==
    TypeOK /\ Failure => failures' \in 0..MaxFailures /\ restarts' \in 0..MaxRestarts
<1>1. MaxFailures \in Nat
  BY PoolAssumption
<1> QED BY <1>1 DEF TypeOK, Failure

\* A step of main keeps the types.
LEMMA MainTypes == TypeOK /\ Main => TypeOK'
<1> SUFFICES ASSUME TypeOK, Main PROVE TypeOK'
  OBVIOUS
<1> USE PoolAssumption DEF mainvars, updvars, reidvars, envvars, TypeOK
<1>1. CASE StartupDownload \/ StartupStore \/ Spawn
  BY <1>1 DEF StartupDownload, StartupStore, Spawn
<1>2. CASE StartupDownloadFails \/ InsertFails
  <2>1. failures' \in 0..MaxFailures /\ restarts' \in 0..MaxRestarts
    BY <1>2, FailureTypes DEF StartupDownloadFails, InsertFails
  <2> QED BY <1>2, <2>1 DEF StartupDownloadFails, InsertFails, Names
<1>3. CASE NewBlock \/ InsertRejected
  BY <1>3 DEF NewBlock, InsertRejected, Names
<1>4. CASE BuildBlock
  <2>1. PICK b \in blk : name' = PoolOf[pools][b]
    BY <1>4 DEF BuildBlock
  <2>2. name' \in Names
    BY <2>1
  <2> QED BY <1>4, <2>2 DEF BuildBlock
<1>5. CASE InsertBlock
  <2>1. PICK b \in blk : pool_name' = [pool_name EXCEPT ![b] = name]
    BY <1>5 DEF InsertBlock
  <2>2. pool_name' \in [Blocks -> Names \cup {NotThere}]
    BY <2>1
  <2> QED BY <1>5, <2>2 DEF InsertBlock, Names
<1> QED BY <1>1, <1>2, <1>3, <1>4, <1>5 DEF Main

\* A step of the re-identification thread keeps the types.
LEMMA ReidTypes == TypeOK /\ Reid => TypeOK'
<1> SUFFICES ASSUME TypeOK, Reid PROVE TypeOK'
  OBVIOUS
<1> USE PoolAssumption DEF mainvars, updvars, reidvars, envvars, TypeOK
<1>1. CASE Connect \/ LoadUnknowns \/ Identified \/ NotIdentified \/ Finish
  BY <1>1 DEF Connect, LoadUnknowns, Identified, NotIdentified, Finish
<1>2. CASE GetBlock
  BY <1>2 DEF GetBlock, Newest
<1>3. CASE UpdatePoolName
  <2>1. PICK b \in retried : pool_name' = [pool_name EXCEPT ![b] = PoolOf[pools][b]]
    BY <1>3 DEF UpdatePoolName
  <2>2. PoolOf[pools][b] \in Names
    OBVIOUS
  <2>3. pool_name' \in [Blocks -> Names \cup {NotThere}]
    BY <2>1, <2>2
  <2> QED BY <1>3, <2>3 DEF UpdatePoolName
<1>4. CASE UpdateFails \/ ReidFails
  <2>1. failures' \in 0..MaxFailures /\ restarts' \in 0..MaxRestarts
    BY <1>4, FailureTypes DEF UpdateFails, ReidFails
  <2> QED BY <1>4, <2>1 DEF UpdateFails, ReidFails
<1> QED BY <1>1, <1>2, <1>3, <1>4 DEF Reid

\* The state of the threads, the dataset and the table keeps its types.
THEOREM PoolTypes == Spec => []TypeOK
<1>1. Init => TypeOK
  BY PoolAssumption DEF Init, TypeOK, Versions, Names
<1>2. TypeOK /\ [Next]_vars => TypeOK'
  <2> SUFFICES ASSUME TypeOK, [Next]_vars PROVE TypeOK'
    OBVIOUS
  <2> USE PoolAssumption DEF mainvars, updvars, reidvars, envvars
  <2>1. CASE UNCHANGED vars
    BY <2>1 DEF vars, TypeOK
  <2>2. CASE Publish
    BY <2>2 DEF Publish, TypeOK, Versions
  <2>3. CASE Updater
    <3>1. DownloadFails => failures' \in 0..MaxFailures /\ restarts' \in 0..MaxRestarts
      BY FailureTypes DEF DownloadFails
    <3> QED BY <2>3, <3>1 DEF Updater, Download, DownloadFails, StorePools, TypeOK
  <2>4. CASE Restart
    BY <2>4 DEF Restart, TypeOK, Versions, Names
  <2> QED BY <2>1, <2>2, <2>3, <2>4, MainTypes, ReidTypes DEF Next
<1> QED BY <1>1, <1>2, PTL DEF Spec

-----------------------------------------------------------------------------
(* Names                                                                   *)

\* The blocks that the re-identification thread is about to write.
NamesInv ==
    /\ \A b \in unknowns \cup retried : pool_name[b] = Unknown
    /\ unknowns \cap retried = {}
    /\ reid \notin {"identify", "update"} => retried = {}
    /\ main \in {"startup", "startup_store", "spawn"} => reid = "off"

\* A step writes no row that has a pool, and keeps NamesInv.
LEMMA NamesStep ==
    ASSUME TypeOK, NamesInv, [Next]_vars
    PROVE  /\ NamesInv'
           /\ \A b \in Blocks : pool_name[b] \in Pools => pool_name'[b] = pool_name[b]
<1> USE PoolAssumption DEF mainvars, updvars, reidvars, envvars
<1>1. Unknown \notin Pools /\ NotThere \notin Pools /\ Unknown # NotThere
  BY DEF Names
<1>2. CASE UNCHANGED vars \/ Publish \/ Updater
  BY <1>2 DEF vars, Publish, Updater, Download, DownloadFails, StorePools, NamesInv
<1>3. CASE Restart
  BY <1>3 DEF Restart, NamesInv
<1>4. CASE \/ StartupDownload \/ StartupDownloadFails \/ StartupStore
           \/ NewBlock \/ BuildBlock \/ InsertRejected \/ InsertFails
  <2>1. /\ UNCHANGED <<reid, unknowns, retried, pool_name>>
        /\ main' = main \/ main' \notin {"startup", "startup_store", "spawn"}
              \/ main \in {"startup", "startup_store"}
    BY <1>4 DEF StartupDownload, StartupDownloadFails, StartupStore, NewBlock,
                BuildBlock, InsertRejected, InsertFails
  <2> QED BY <2>1 DEF NamesInv
<1>5. CASE Spawn
  BY <1>5 DEF Spawn, NamesInv
<1>6. CASE InsertBlock
  <2>1. PICK b \in blk : /\ pool_name[b] = NotThere
                         /\ pool_name' = [pool_name EXCEPT ![b] = name]
    BY <1>6 DEF InsertBlock, Stored
  <2>2. main' = "poll" /\ UNCHANGED <<reid, unknowns, retried>>
    BY <1>6 DEF InsertBlock
  <2>3. \A c \in Blocks : pool_name[c] # NotThere => pool_name'[c] = pool_name[c]
    BY <2>1 DEF TypeOK
  <2>4. NamesInv'
    BY <1>1, <2>2, <2>3 DEF NamesInv, TypeOK
  <2> QED BY <1>1, <2>3, <2>4
<1>7. CASE UpdatePoolName
  <2>1. PICK b \in retried : pool_name' = [pool_name EXCEPT ![b] = PoolOf[pools][b]]
    BY <1>7 DEF UpdatePoolName
  <2>2. retried' = {} /\ UNCHANGED <<main, unknowns>> /\ reid = "update"
    BY <1>7 DEF UpdatePoolName
  <2>3. \A c \in Blocks : c # b => pool_name'[c] = pool_name[c]
    BY <2>1 DEF TypeOK
  <2>4. NamesInv'
    BY <1>1, <2>1, <2>2, <2>3 DEF NamesInv, TypeOK
  <2>5. pool_name[b] = Unknown
    BY <2>1 DEF NamesInv
  <2> QED BY <1>1, <2>3, <2>4, <2>5
<1>8. CASE \/ Connect \/ Identified \/ NotIdentified \/ UpdateFails \/ Finish
           \/ ReidFails
  BY <1>8 DEF Connect, Identified, NotIdentified, UpdateFails, Finish, ReidFails,
              NamesInv
<1>9. CASE LoadUnknowns
  BY <1>9 DEF LoadUnknowns, NamesInv
<1>10. CASE GetBlock
  BY <1>10 DEF GetBlock, Newest, NamesInv
<1> QED BY <1>2, <1>3, <1>4, <1>5, <1>6, <1>7, <1>8, <1>9, <1>10
        DEF Next, Main, Reid

\* A pool once found is never replaced, however the re-identification thread and
\* the main loop interleave and whatever fails in between.
THEOREM NamesKept == Spec => NamedNeverRenamed
<1>1. Init => NamesInv
  BY DEF Init, NamesInv
<1>2. TypeOK /\ NamesInv /\ [Next]_vars => NamesInv'
  BY NamesStep
<1>3. TypeOK /\ NamesInv /\ [Next]_vars =>
          [ \A b \in Blocks : pool_name[b] \in Pools
                => pool_name'[b] = pool_name[b] ]_vars
  BY NamesStep
<1> QED BY <1>1, <1>2, <1>3, PoolTypes, PTL DEF Spec, NamedNeverRenamed

-----------------------------------------------------------------------------
(* Versions                                                                *)

\* A download waiting to be stored is not older than the dataset in use, since
\* nobody else stores one meanwhile.
VersionInv ==
    /\ pools <= served /\ downloaded <= served
    /\ updater = "store" => pools <= downloaded
    /\ main \in {"startup", "startup_store"} => pools = 0 /\ updater = "off"

\* A step keeps VersionInv and never goes back in versions, but for a restart.
LEMMA VersionStep ==
    ASSUME TypeOK, VersionInv, [Next]_vars
    PROVE  /\ VersionInv'
           /\ restarts' = restarts => pools' >= pools
<1> USE PoolAssumption DEF mainvars, updvars, reidvars, envvars
<1>1. /\ served \in Nat /\ pools \in Nat /\ downloaded \in Nat
      /\ restarts \in Nat
  BY DEF TypeOK, Versions
<1>2. CASE UNCHANGED vars \/ Publish
  BY <1>1, <1>2 DEF vars, Publish, VersionInv
<1>3. CASE Updater
  BY <1>1, <1>3 DEF Updater, Download, DownloadFails, StorePools, VersionInv
<1>4. CASE Restart
  BY <1>1, <1>4 DEF Restart, VersionInv
<1>5. CASE Main
  BY <1>1, <1>5 DEF Main, StartupDownload, StartupDownloadFails, StartupStore,
     Spawn, NewBlock, BuildBlock, InsertBlock, InsertRejected, InsertFails, VersionInv
<1>6. CASE Reid
  BY <1>1, <1>6 DEF Reid, Connect, LoadUnknowns, GetBlock, Identified,
     NotIdentified, UpdatePoolName, UpdateFails, Finish, ReidFails, VersionInv
<1> QED BY <1>2, <1>3, <1>4, <1>5, <1>6 DEF Next

\* The dataset in use never gets older while the daemon runs.
THEOREM DatasetAdvances == Spec => DatasetNeverOlder
<1>1. Init => VersionInv
  BY DEF Init, VersionInv
<1>2. TypeOK /\ VersionInv /\ [Next]_vars => VersionInv'
  BY VersionStep
<1>3. TypeOK /\ VersionInv /\ [Next]_vars =>
          [ restarts' = restarts => pools' >= pools ]_vars
  BY VersionStep
<1> QED BY <1>1, <1>2, <1>3, PoolTypes, PTL DEF Spec, DatasetNeverOlder
=============================================================================
