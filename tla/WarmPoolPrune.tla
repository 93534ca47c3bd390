---------------------------- MODULE WarmPoolPrune -----------------------------
(***************************************************************************)
(* The warm pool together with the prune of the runtime root that every    *)
(* request runs before it works (ScraperEngine.prune_runtime_dirs and      *)
(* prune_orphan_runtime_dirs).  The prune asks the pool for the live spare *)
(* directories, lists the root, and removes entry by entry what it finds   *)
(* unprotected.  It holds the engine's id lock, so there is one at a time, *)
(* but not the pool's: the daemon and the sessions go on meanwhile.        *)
(***************************************************************************)
EXTENDS WarmPool

VARIABLES prune,      \* where the prune is
          protected,  \* the live spare directories it was told
          listed,     \* entries of the root still to be looked at
          born        \* history: ids a build was begun under since then

pruneVars == <<prune, protected, listed, born>>
allVars == <<vars, pruneVars>>

PruneInit == /\ Init
             /\ prune = "idle"
             /\ protected = {} /\ listed = {} /\ born = {}

\* Faulty: directories of spares that were taken are not among the live ones.
SnapshotForgetsAdopted == /\ prune = "idle" /\ daemon # "boot"
                          /\ protected' = {spare, building} \ {NoSpare}
                          /\ prune' = "list"
                          /\ born' = {}
                          /\ UNCHANGED <<vars, listed>>

PruneSnapshot == /\ prune = "idle" /\ daemon # "boot"
                 /\ protected' = LiveSpareDirs
                 /\ prune' = "list"
                 /\ born' = {}
                 /\ UNCHANGED <<vars, listed>>

\* iterdir() reads the names of the directory at once.
PruneList == /\ prune = "list"
             /\ listed' = dirs
             /\ prune' = "remove"
             /\ UNCHANGED <<vars, protected, born>>

PruneEntry(s) == /\ prune = "remove"
                 /\ s \in listed
                 /\ listed' = listed \ {s}
                 /\ dirs' = IF s \in protected THEN dirs ELSE dirs \ {s}
                 /\ UNCHANGED <<slot, refill, signals, chromium, thread, sessions,
                                prune, protected, born>>

PruneDone == /\ prune = "remove"
             /\ listed = {}
             /\ prune' = "idle"
             /\ protected' = {} /\ born' = {}
             /\ UNCHANGED <<vars, listed>>

\* A step of the pool.  An id the prune still refers to is not given again.
PoolStep == /\ Next
            /\ building' \in {building, NoSpare} \cup (Spares \ (listed \cup protected))
            /\ born' = IF prune # "idle" /\ building' # NoSpare
                       THEN born \cup {building'} ELSE born
            /\ UNCHANGED <<prune, protected, listed>>

PruneNext == \/ PoolStep
             \/ PruneSnapshot \/ PruneList
             \/ \E s \in Spares : PruneEntry(s)
             \/ PruneDone

PruneSpec == PruneInit /\ [][PruneNext]_allVars

-------------------------------------------------------------------------------
\* warm_pool.py, live_spare_dirs: "Dirs that must not be pruned: ready,
\* in-build, or adopted-in-use" - no step of the prune removes such a directory.
PruneSparesLiveDirs ==
    [][prune = "remove" /\ listed' # listed
         => dirs \cap LiveSpareDirs \subseteq dirs']_allVars

\* How far that can fail: only a spare whose build overlapped the snapshot or
\* came after it is ever at risk.  One that was ready or lent out when the
\* prune asked stays protected through takes, aborted takes and refills.
OnlyNewbornsAtRisk ==
    prune = "remove" => (listed \ protected) \cap LiveSpareDirs \subseteq born
===============================================================================
