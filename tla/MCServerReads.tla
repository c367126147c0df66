---------------------------- MODULE MCServerReads ----------------------------
(* The reads of a server for TLC: their admission (ReadScheduler), the tree   *)
(* of directories of the window (DirectoryReads) and the listings the search  *)
(* and the schema keep (ListingCache).  The three share no state; which of    *)
(* them is at work is chosen at the start.                                    *)
EXTENDS ReadScheduler

CONSTANTS
  t1, t2, t3, t4, k1, k2, l1, l2, None,
  Callers, Paths, Linked, Reads, Channels, MaxDirectories, MaxEntries, MaxIdle,
  Askers, Listings, Bytes, MaxBytes, MaxListings, MaxPending, MaxVersion, MaxCleared

VARIABLES
  part,
  snapshots, item, read, caller, chan, conn,
  user, content, cleared, entries, bytes, pending, refreshes, ask

\* Two plugins, one with three callers; the log searches of t1 reserve most
\* of the memory budget.
MCKeyOf == t1 :> k1 @@ t2 :> k1 @@ t3 :> k2 @@ t4 :> k1
MCSize == t1 :> 3 @@ t2 :> 1 @@ t3 :> 2 @@ t4 :> 1
MCBytes == l1 :> 1 @@ l2 :> 2

Tree == INSTANCE DirectoryReads
Cache == INSTANCE ListingCache WITH Keys <- Listings, MaxEntries <- MaxListings

ASSUME ServerReadsAssumption == Tree!TreeAssumption /\ Cache!CacheAssumption

treeVars == <<snapshots, item, read, caller, chan, conn>>
cacheVars == <<user, content, cleared, entries, bytes, pending, refreshes, ask>>
allVars == <<part, vars, treeVars, cacheVars>>

MCInit == part \in {"admission", "tree", "cache"} /\ Init /\ Tree!Init
          /\ Cache!Init /\ (part # "cache" => user = "search")
MCNext ==
  \/ part = "admission" /\ Next /\ UNCHANGED <<part, treeVars, cacheVars>>
  \/ part = "tree" /\ Tree!Next /\ UNCHANGED <<part, vars, cacheVars>>
  \/ part = "cache" /\ Cache!Next /\ UNCHANGED <<part, vars, treeVars>>
MCLiveSpec == MCInit /\ [][MCNext]_allVars /\ Fairness

\* What a reader gets and leaves behind is its own: see DirectoryReads and
\* ListingCache.
ReadsOwned ==
  /\ [](/\ part = "tree" => Tree!ReadsOwned
        /\ part = "cache" => Cache!CacheExact /\ Cache!RefreshIsNew)
  /\ Tree!CurrentPages
=============================================================================
