------------------------- MODULE PoolIdentification -------------------------
(***************************************************************************)
(* Identification of the mining pool of a block.  Three threads of the     *)
(* daemon share the dataset of known pools behind a mutex: main identifies *)
(* the pool of each new block; an updater replaces the dataset with what   *)
(* the dataset URL serves; a thread that runs once per start identifies    *)
(* again the blocks stored as "Unknown", and holds the mutex while it      *)
(* updates a row.                                                          *)
(*                                                                         *)
(* A dataset is abstracted to a version and the pool it gives for a block. *)
(***************************************************************************)
EXTENDS Integers, FiniteSets

CONSTANTS
    Blocks,        \* blocks the main loop may process
    Pools,         \* pool names
    PoolOf,        \* the pool a version of the dataset gives for a block
    BlockTime,     \* header.time
    MaxVersion,    \* bound: the newest version ever served
    MaxFailures,   \* bound on failing calls
    MaxRestarts    \* bound on restarts of the daemon

Unknown  == "Unknown"
Names    == Pools \cup {Unknown}
NotThere == "no row"
Versions == 0..MaxVersion    \* 0: DEFAULT_MAINNET_POOL_LIST

ASSUME PoolAssumption ==
    /\ Unknown \notin Pools /\ NotThere \notin Names
    /\ PoolOf \in [Versions -> [Blocks -> Names]]
    /\ BlockTime \in [Blocks -> Nat]
    /\ MaxVersion \in Nat /\ MaxFailures \in Nat /\ MaxRestarts \in Nat

VARIABLES
    served,       \* version at the dataset URL
    pools,        \* version in the mutex
    holder,       \* the thread that holds the mutex across a wait, if any
    main,         \* the step main or main_loop is at
    blk,          \* main_loop: the block being processed, if any
    name,         \* process: pool_name of the row that is built
    updater,      \* the step of the dataset updater
    downloaded,   \* updater or startup: new_pools
    reid,         \* the step of the re-identification thread
    unknowns,     \* re-identification: the blocks still to be retried
    retried,      \* re-identification: the block being retried, if any
    pool_name,    \* table block: pool_name by block
    failures,     \* failing calls so far
    restarts      \* restarts so far

mainvars == <<main, blk, name>>
updvars  == <<updater, downloaded>>
reidvars == <<reid, unknowns, retried>>
envvars  == <<failures, restarts>>
vars     == <<served, pools, holder, mainvars, updvars, reidvars, pool_name,
              envvars>>

Stored(b) == pool_name[b] # NotThere

Init ==
    /\ served = 0 /\ pools = 0 /\ holder = {}
    /\ main = "startup" /\ blk = {} /\ name = Unknown
    /\ updater = "off" /\ downloaded = 0
    /\ reid = "off" /\ unknowns = {} /\ retried = {}
    /\ pool_name = [b \in Blocks |-> NotThere]
    /\ failures = 0 /\ restarts = 0

Failure ==
    /\ failures < MaxFailures
    /\ failures' = failures + 1
    /\ UNCHANGED restarts

\* The dataset at the URL is replaced, by the same or by a later version.  This
\* goes on whatever the daemon does, so a daemon whose threads all wait for each
\* other is no deadlock to TLC: MutexNeverKept is about that.
Publish ==
    /\ served' \in served..MaxVersion
    /\ UNCHANGED <<pools, holder, mainvars, updvars, reidvars, pool_name, envvars>>

-----------------------------------------------------------------------------
(* Startup                                                                 *)

\* load_pool_identification_dataset, before any thread runs
StartupDownload ==
    /\ main = "startup"
    /\ downloaded' = served
    /\ main' = "startup_store"
    /\ UNCHANGED <<served, pools, holder, blk, name, updater, reidvars, pool_name,
                   envvars>>

\* The download fails: the built-in list stays.
StartupDownloadFails ==
    /\ main = "startup"
    /\ Failure
    /\ main' = "spawn"
    /\ UNCHANGED <<served, pools, holder, blk, name, updvars, reidvars, pool_name>>

StartupStore ==
    /\ main = "startup_store"
    /\ holder = {}
    /\ pools' = downloaded
    /\ main' = "spawn"
    /\ UNCHANGED <<served, holder, blk, name, updvars, reidvars, pool_name, envvars>>

\* The threads start, then main_loop does.
Spawn ==
    /\ main = "spawn"
    /\ updater' = "sleep" /\ reid' = "connect"
    /\ main' = "poll"
    /\ UNCHANGED <<served, pools, holder, blk, name, downloaded, unknowns,
                   retried, pool_name, envvars>>

-----------------------------------------------------------------------------
(* main_loop and process, as far as the pool of a block is concerned       *)

\* A new block, or one that is tried again; its pool is looked up once for the
\* log, under the mutex.
NewBlock ==
    /\ main = "poll"
    /\ holder = {}
    /\ \E b \in Blocks : blk' = {b}
    /\ main' = "build_block"
    /\ UNCHANGED <<served, pools, holder, name, updvars, reidvars, pool_name,
                   envvars>>

\* build_block: identify_pool under the mutex, "Unknown" if there is no match
BuildBlock ==
    /\ main = "build_block"
    /\ holder = {}
    /\ \E b \in blk : name' = PoolOf[pools][b]
    /\ main' = "insert"
    /\ UNCHANGED <<served, pools, holder, blk, updvars, reidvars, pool_name,
                   envvars>>

\* The hash of a block is the primary key.
InsertBlock ==
    /\ main = "insert"
    /\ \E b \in blk : /\ ~Stored(b)
                      /\ pool_name' = [pool_name EXCEPT ![b] = name]
    /\ main' = "poll" /\ blk' = {} /\ name' = Unknown
    /\ UNCHANGED <<served, pools, holder, updvars, reidvars, envvars>>

\* The block has a row: process logs the error and returns.
InsertRejected ==
    /\ main = "insert"
    /\ \E b \in blk : Stored(b)
    /\ main' = "poll" /\ blk' = {} /\ name' = Unknown
    /\ UNCHANGED <<served, pools, holder, updvars, reidvars, pool_name, envvars>>

InsertFails ==
    /\ main = "insert"
    /\ Failure
    /\ main' = "poll" /\ blk' = {} /\ name' = Unknown
    /\ UNCHANGED <<served, pools, holder, updvars, reidvars, pool_name>>

-----------------------------------------------------------------------------
(* The dataset updater                                                     *)

\* thread::sleep is over and the download succeeds.
Download ==
    /\ updater = "sleep"
    /\ downloaded' = served
    /\ updater' = "store"
    /\ UNCHANGED <<served, pools, holder, mainvars, reidvars, pool_name, envvars>>

\* Mutant of DownloadFails: the dataset falls back to the built-in list.
DownloadFailsResets ==
    /\ updater = "sleep"
    /\ holder = {}
    /\ Failure
    /\ pools' = 0
    /\ UNCHANGED <<served, holder, mainvars, updvars, reidvars, pool_name>>

DownloadFails ==
    /\ updater = "sleep"
    /\ Failure
    /\ UNCHANGED <<served, pools, holder, mainvars, updvars, reidvars, pool_name>>

StorePools ==
    /\ updater = "store"
    /\ holder = {}
    /\ pools' = downloaded
    /\ updater' = "sleep"
    /\ UNCHANGED <<served, holder, mainvars, downloaded, reidvars, pool_name,
                   envvars>>

-----------------------------------------------------------------------------
(* The re-identification thread                                            *)

Connect ==
    /\ reid = "connect"
    /\ reid' = "load"
    /\ UNCHANGED <<served, pools, holder, mainvars, updvars, unknowns, retried,
                   pool_name, envvars>>

\* Mutant of LoadUnknowns: the names in place of the blocks.
LoadUnknownNames ==
    /\ reid = "load"
    /\ unknowns' = { pool_name[b] : b \in { c \in Blocks : pool_name[c] = Unknown } }
    /\ reid' = "next"
    /\ UNCHANGED <<served, pools, holder, mainvars, updvars, retried, pool_name,
                   envvars>>

\* Mutant of LoadUnknowns: the filter on the name is missing.
LoadAllBlocks ==
    /\ reid = "load"
    /\ unknowns' = { b \in Blocks : Stored(b) }
    /\ reid' = "next"
    /\ UNCHANGED <<served, pools, holder, mainvars, updvars, retried, pool_name,
                   envvars>>

\* unknown_pool_blocks: what is "Unknown" at this moment
LoadUnknowns ==
    /\ reid = "load"
    /\ unknowns' = { b \in Blocks : pool_name[b] = Unknown }
    /\ reid' = "next"
    /\ UNCHANGED <<served, pools, holder, mainvars, updvars, retried, pool_name,
                   envvars>>

\* order(block_time.desc())
Newest(S) == { b \in S : \A c \in S : BlockTime[b] >= BlockTime[c] }

GetBlock ==
    /\ reid = "next"
    /\ \E b \in Newest(unknowns) :
          retried' = {b} /\ unknowns' = unknowns \ {b}
    /\ reid' = "identify"
    /\ UNCHANGED <<served, pools, holder, mainvars, updvars, pool_name, envvars>>

\* A match: the guard of pools.lock() lives to the end of the if let.
Identified ==
    /\ reid = "identify"
    /\ holder = {}
    /\ \E b \in retried : PoolOf[pools][b] # Unknown
    /\ holder' = {"reid"}
    /\ reid' = "update"
    /\ UNCHANGED <<served, pools, mainvars, updvars, unknowns, retried, pool_name,
                   envvars>>

\* Mutant of NotIdentified: the thread stops at a block it cannot identify.
NotIdentifiedStops ==
    /\ reid = "identify"
    /\ holder = {}
    /\ \E b \in retried : PoolOf[pools][b] = Unknown
    /\ reid' = "off" /\ retried' = {}
    /\ UNCHANGED <<served, pools, holder, mainvars, updvars, unknowns, pool_name,
                   envvars>>

NotIdentified ==
    /\ reid = "identify"
    /\ holder = {}
    /\ \E b \in retried : PoolOf[pools][b] = Unknown
    /\ reid' = "next" /\ retried' = {}
    /\ UNCHANGED <<served, pools, holder, mainvars, updvars, unknowns, pool_name,
                   envvars>>

\* update_pool_name_with_block_id; nobody can have replaced the dataset.
UpdatePoolName ==
    /\ reid = "update"
    /\ \E b \in retried : pool_name' = [pool_name EXCEPT ![b] = PoolOf[pools][b]]
    /\ holder' = {}
    /\ reid' = "next" /\ retried' = {}
    /\ UNCHANGED <<served, pools, mainvars, updvars, unknowns, envvars>>

\* Mutant of UpdateFails: the thread ends and keeps the mutex.
UpdateFailsKeepsMutex ==
    /\ reid = "update"
    /\ Failure
    /\ reid' = "off" /\ retried' = {}
    /\ UNCHANGED <<served, pools, holder, mainvars, updvars, unknowns, pool_name>>

\* The UPDATE fails: the next block is tried.
UpdateFails ==
    /\ reid = "update"
    /\ Failure
    /\ holder' = {}
    /\ reid' = "next" /\ retried' = {}
    /\ UNCHANGED <<served, pools, mainvars, updvars, unknowns, pool_name>>

Finish ==
    /\ reid = "next" /\ unknowns = {}
    /\ reid' = "off"
    /\ UNCHANGED <<served, pools, holder, mainvars, updvars, unknowns, retried,
                   pool_name, envvars>>

\* No connection, no list of blocks, or no block from the node: the thread
\* ends, with the blocks it has not come to.
ReidFails ==
    /\ reid \in {"connect", "load", "next"}
    /\ reid = "next" => unknowns # {}
    /\ Failure
    /\ reid' = "off" /\ unknowns' = {} /\ retried' = {}
    /\ UNCHANGED <<served, pools, holder, mainvars, updvars, pool_name>>

-----------------------------------------------------------------------------
\* The daemon ends anywhere and starts again with the built-in list.
Restart ==
    /\ restarts < MaxRestarts
    /\ restarts' = restarts + 1
    /\ pools' = 0 /\ holder' = {}
    /\ main' = "startup" /\ blk' = {} /\ name' = Unknown
    /\ updater' = "off" /\ downloaded' = 0
    /\ reid' = "off" /\ unknowns' = {} /\ retried' = {}
    /\ UNCHANGED <<served, pool_name, failures>>

Main    == \/ StartupDownload \/ StartupDownloadFails \/ StartupStore \/ Spawn
           \/ NewBlock \/ BuildBlock
           \/ InsertBlock \/ InsertRejected \/ InsertFails
Updater == Download \/ DownloadFails \/ StorePools
Reid    == \/ Connect \/ LoadUnknowns \/ GetBlock \/ Identified \/ NotIdentified
           \/ UpdatePoolName \/ UpdateFails \/ Finish \/ ReidFails

Next == Publish \/ Main \/ Updater \/ Reid \/ Restart

Spec == Init /\ [][Next]_vars

\* The operating system runs every thread, and a call returns; a thread that
\* waits for the mutex gets it when it is free again and again.  Nothing is
\* assumed of new blocks and new versions.
Fairness ==
    /\ WF_vars(StartupDownload) /\ WF_vars(StartupStore) /\ WF_vars(Spawn)
    /\ SF_vars(BuildBlock) /\ WF_vars(InsertBlock \/ InsertRejected)
    /\ WF_vars(Download) /\ SF_vars(StorePools)
    /\ WF_vars(Reid)

FairSpec == Spec /\ Fairness

-----------------------------------------------------------------------------
(* Properties                                                              *)

\* The types of the state.
TypeOK ==
    /\ served \in Versions /\ pools \in Versions /\ downloaded \in Versions
    /\ holder \subseteq {"reid"}
    /\ main \in {"startup", "startup_store", "spawn", "poll", "build_block",
                 "insert"}
    /\ blk \subseteq Blocks /\ name \in Names
    /\ updater \in {"off", "sleep", "store"}
    /\ reid \in {"off", "connect", "load", "next", "identify", "update"}
    /\ unknowns \subseteq Blocks /\ retried \subseteq Blocks
    /\ pool_name \in [Blocks -> Names \cup {NotThere}]
    /\ failures \in 0..MaxFailures /\ restarts \in 0..MaxRestarts

\* A pool once found is never replaced, neither by another pool nor by
\* "Unknown": the re-identification thread works on a list of blocks that it
\* read before, and the main loop inserts rows beside it, for blocks it has
\* processed already too.
NamedNeverRenamed ==
    [][ \A b \in Blocks : pool_name[b] \in Pools => pool_name'[b] = pool_name[b] ]_vars

\* While the daemon runs the shared dataset never goes back to an older version,
\* nor to the built-in list: a download that fails leaves it as it is, and only
\* one thread stores downloads.
DatasetNeverOlder ==
    [][ restarts' = restarts => pools' >= pools ]_vars

\* The versions that the daemon may still come to use all know the pool of b.
KnownFromNowOn(b) == \A v \in pools..MaxVersion : PoolOf[v][b] # Unknown

\* A block that is "Unknown" when the threads start gets a name as soon as the
\* dataset knows its pool, whatever blocks before it in the list are not found,
\* and while the dataset changes; unless a call fails or the daemon is restarted.
UnknownRetried ==
    \A b \in Blocks, f \in 0..MaxFailures, r \in 0..MaxRestarts :
        (/\ main = "spawn" /\ pool_name[b] = Unknown /\ KnownFromNowOn(b)
         /\ failures = f /\ restarts = r)
        ~> (pool_name[b] \in Pools \/ failures > f \/ restarts > r)

\* The main loop and the updater wait for the mutex, which is held across an
\* UPDATE, but never without end.
MutexNeverKept ==
    /\ (main = "build_block") ~> (main # "build_block")
    /\ (updater = "store") ~> (updater # "store")
=============================================================================
