----------------------------- MODULE MCStagedWork -----------------------------
(* Changes that take several steps and may be stopped, overtaken or cut off    *)
(* between any two of them, for TLC.  Six parts  that share no state; which of *)
(* them is at work is chosen at the start:                                     *)
(*   config    imports and batches of configuration      SealedCommit          *)
(*   upload    a file on its way to a server             ServerUpload          *)
(*   window    the blocks of two such files              UploadWindow          *)
(*   edits     a text file of a server in two tabs       FileEdits             *)
(*   redis     edits and the export of a Redis key       RedisEdits            *)
(*   updates   the update of the program itself          SoftwareUpdates       *)
EXTENDS SealedCommit, TLC

CONSTANTS
  a1, a2, v1, v2, v3, f1, f2, u1, u2, None,
  Blocks, MaxResumes, MaxRuns, MaxLosses,
  Files, BatchBlocks, WindowBlocks, MaxBatches,
  Tabs, MaxDrafts, MaxSaves, MaxCuts,
  Edits, MaxChanges,
  Sources, Secure, Drivers, MaxActive

VARIABLES
  part,
  job, transfer, prepared, conn, temp, target, writes, renames, landed, meddled,
  window, file, sent,
  text, saves, saved, late, typed, link, tab,
  key, changes, since, watched, dirty, execs, applied, line, edit, answer, export,
  platform, linked, service, selecting, work, origin, made, stopped, handed, gate

Upload == INSTANCE ServerUpload WITH run <- transfer
Blocking == INSTANCE UploadWindow
Editing == INSTANCE FileEdits
             WITH target <- text, renames <- saves, landed <- saved, made <- typed
Redis == INSTANCE RedisEdits WITH sent <- execs, conn <- line
Updates == INSTANCE SoftwareUpdates

ASSUME Upload!UploadAssumption /\ Blocking!WindowAssumption /\ Updates!SecureAssumption

uploadVars == <<job, transfer, prepared, conn, temp, target, writes, renames, landed, meddled>>
windowVars == <<window, file, sent>>
editVars == <<text, saves, saved, late, typed, link, tab>>
redisVars == <<key, changes, since, watched, dirty, execs, applied, line, edit, answer, export>>
updateVars ==
  <<platform, linked, service, selecting, work, origin, made, stopped, handed, gate>>
allVars == <<part, vars, uploadVars, windowVars, editVars, redisVars, updateVars>>

\* Environments, the drivers of an update, the tabs of a file and those of a key go by the same
\* interchangeable names.
MCSymmetry == Permutations({a1, a2}) \cup Permutations(Values)

MCInit ==
  /\ part \in {"config", "upload", "window", "edits", "redis", "updates"}
  /\ Init /\ Upload!Init /\ Blocking!Init /\ Editing!Init /\ Redis!Init /\ Updates!Init
  /\ part # "upload" => job.existed
  /\ part # "redis" => key = None
  /\ part # "updates" => platform = "win32" /\ linked = {}

\* Calls of the window and of the Agent matter only around an installation.
UpdateBound ==
  \/ gate'.active = 0 /\ ~gate'.busy
  \/ service'.phase \in {"downloaded", "installing"}

\* While the export is under way one tab at most is used.
RedisBound == export'.at = "none" \/ \E e \in Edits : edit'[e].at = "none"

\* Of a second tab, someone else's write and a cut one comes with the first tab.
EditBound ==
  LET single == \E e \in Tabs : tab'[e] = Editing!NoTab
  IN \/ single /\ typed'.changes = 0
     \/ single /\ typed'.cuts = 0
     \/ typed'.changes = 0 /\ typed'.cuts = 0

MCNext ==
  \/ /\ part = "config" /\ Next
     /\ UNCHANGED <<part, uploadVars, windowVars, editVars, redisVars, updateVars>>
  \/ /\ part = "upload" /\ Upload!Next
     /\ UNCHANGED <<part, vars, windowVars, editVars, redisVars, updateVars>>
  \/ /\ part = "window" /\ Blocking!Next
     /\ UNCHANGED <<part, vars, uploadVars, editVars, redisVars, updateVars>>
  \/ /\ part = "edits" /\ Editing!Next /\ EditBound
     /\ UNCHANGED <<part, vars, uploadVars, windowVars, redisVars, updateVars>>
  \/ /\ part = "redis" /\ Redis!Next /\ RedisBound
     /\ UNCHANGED <<part, vars, uploadVars, windowVars, editVars, updateVars>>
  \/ /\ part = "updates" /\ Updates!Next /\ UpdateBound
     /\ UNCHANGED <<part, vars, uploadVars, windowVars, editVars, redisVars>>
  \/ part = "redis" /\ UNCHANGED allVars  \* its calls are bounded
MCSpec == MCInit /\ [][MCNext]_allVars

\* What is changed outside the program (a file on a server, a Redis key, the
\* installed program) is what was confirmed or offered, the outcome that is told
\* is the one it had, and nothing of anyone else is lost: see ServerUpload,
\* UploadWindow, FileEdits, RedisEdits and SoftwareUpdates.
ChangesKeep ==
  /\ [](/\ part = "upload" => Upload!UploadSound
        /\ part = "window" => Blocking!WindowSound
        /\ part = "edits" => Editing!EditsSound
        /\ part = "redis" => Redis!RedisSound
        /\ part = "updates" => Updates!UpdateSound)
  /\ Upload!ForeignKept
  /\ Upload!StopStands
  /\ Editing!ReplacesShown
  /\ Redis!NoLostUpdate
  /\ Updates!InstallsOffered
=============================================================================
