----------------------------- MODULE ServerUpload -----------------------------
(* One file a user uploads to a server: its job (ServerWorkspaceFiles,        *)
(* src/src/server-workspace-files.mjs), its pauses and resumptions            *)
(* (ServerUploadResumes, src/src/server-upload-resumes.mjs) and the transfer  *)
(* (uploadWithCheckpoints, src/src/server-upload-transfer.mjs).  The file is  *)
(* written beside its target under a temporary name and renamed at the end.   *)
(* Requests that were sent may still be carried out by the server after the   *)
(* transfer has given up waiting for them.                                    *)
EXTENDS Naturals, FiniteSets

CONSTANTS
  Blocks,      \* batches of the file
  MaxResumes,  \* MAX_RESUMES
  MaxRuns,     \* bound: transfers of the job
  MaxLosses,   \* bound: losses of the connection
  None

UploadAssumption ==
  /\ Blocks \in Nat \ {0} /\ MaxResumes \in Nat /\ MaxRuns \in Nat /\ MaxLosses \in Nat

VARIABLES
  job,      \* the job, its checkpoint and the connection it was confirmed for
  run,      \* the transfer in flight: its step and its own state
  prepared, \* preparations, confirmUpload: the resumption offered, the one taken
  conn,     \* the connection: its generation, and whether it stands
  temp,     \* on the server: the temporary file
  target,   \* on the server: the file at the target
  writes,   \* sent to the server, not carried out
  renames,  \* transfers whose rename was sent and is not carried out
  landed,   \* history variable: renames carried out
  meddled   \* what others changed: at most one thing

vars == <<job, run, prepared, conn, temp, target, writes, renames, landed, meddled>>
server == <<temp, target, writes, renames, landed>>

Active == {"queued", "running", "verifying", "pausing"}
Resumable == {"paused", "interrupted"}
Checkpoint == [phase : {"opening", "uploading", "committing"}, owned : BOOLEAN,
               bytes : 0..Blocks, run : 1..MaxRuns]
Fresh == [phase |-> "opening", owned |-> FALSE, bytes |-> 0]
NoTransfer == [step |-> None, state |-> Fresh, dirty |-> FALSE]
NoTemp == [there |-> FALSE, size |-> 0, good |-> TRUE]
Transfer(r) == [phase |-> r.phase, owned |-> r.owned, bytes |-> r.bytes]

\* confirmUpload: a job for a target that is there or not.
NewJob(existed, gen) ==
  [status |-> "queued", inFlight |-> FALSE, attempts |-> 0, runs |-> 0, aborted |-> None,
   pause |-> FALSE, checkpoint |-> None, gen |-> gen, existed |-> existed]
Confirmed(j) == IF j.existed THEN "old" ELSE "absent"

Init ==
  /\ \E existed \in BOOLEAN : job = NewJob(existed, 1)
  /\ target = Confirmed(job)
  /\ run = NoTransfer
  /\ prepared = [offer |-> None, taken |-> None]
  /\ conn = [gen |-> 1, up |-> TRUE]
  /\ temp = NoTemp
  /\ writes = {} /\ renames = {}
  /\ landed = 0
  /\ meddled = "nothing"

\* requirePlugin, for the connection the job was confirmed for
Bound == conn.up /\ job.gen = conn.gen
-----------------------------------------------------------------------------
(* The job.                                                                  *)
\* AbortController.abort: only the first reason counts.
Aborted(j, reason) == IF j.aborted = None THEN reason ELSE j.aborted

\* ServerUploadResumes.forget
Forgotten(j) == [j EXCEPT !.checkpoint = None]

\* stopJob
Stopped(j, status) ==
  IF j.status \notin Active \cup Resumable THEN j
  ELSE LET s == [j EXCEPT !.status = status, !.aborted = Aborted(j, "stopped")]
       IN IF j.inFlight THEN s ELSE Forgotten(s)

\* ServerUploadResumes.interrupt
Interrupted(j) ==
  IF j.status \notin Active THEN j
  ELSE IF j.attempts >= MaxResumes THEN Stopped(j, "error")
  ELSE [j EXCEPT !.status = "interrupted", !.aborted = Aborted(j, "lost")]

\* cancelUpload, closeOwner; the expiry of the record and closeScope
Stop ==
  \E status \in {"cancelled", "error"} :
    /\ job.status \in Active \cup Resumable
    /\ job' = Stopped(job, status)
    /\ UNCHANGED <<run, prepared, conn, server, meddled>>

\* pauseUpload
Pause ==
  /\ job.checkpoint # None => job.checkpoint.phase # "committing"
  /\ \/ job.status = "queued" /\ job' = [job EXCEPT !.status = "paused"]
     \/ job.status = "running" /\ job' = [job EXCEPT !.status = "pausing", !.pause = TRUE]
  /\ UNCHANGED <<run, prepared, conn, server, meddled>>

\* The session ends: interruptScope stops or interrupts the job and forgets
\* what was offered.
Lose ==
  /\ conn.up /\ conn.gen <= MaxLosses
  /\ conn' = [conn EXCEPT !.up = FALSE]
  /\ job' = Interrupted(job)
  /\ prepared' = [prepared EXCEPT !.offer = None]
  /\ UNCHANGED <<run, server, meddled>>

Reconnect ==
  /\ ~conn.up
  /\ conn' = [gen |-> conn.gen + 1, up |-> TRUE]
  /\ UNCHANGED <<job, run, prepared, server, meddled>>

\* ServerUploadResumes.get
Get(j) == j.status \in Resumable /\ ~j.inFlight

Offer == [checkpoint |-> job.checkpoint, gen |-> conn.gen]

\* prepare
Prepare ==
  /\ Get(job) /\ conn.up /\ job.runs < MaxRuns
  /\ prepared.offer # Offer
  /\ prepared' = [prepared EXCEPT !.offer = Offer]
  /\ UNCHANGED <<job, run, conn, server, meddled>>

\* confirmUpload uses the preparation up before it waits.
Confirm ==
  /\ prepared.offer # None /\ prepared.taken = None
  /\ prepared' = [offer |-> None, taken |-> prepared.offer]
  /\ UNCHANGED <<job, run, conn, server, meddled>>

\* confirm of ServerUploadResumes: all is as it was when it was offered.
Resume ==
  /\ prepared.taken # None
  /\ Get(job) /\ conn.up
  /\ prepared.taken = Offer
  /\ prepared' = [prepared EXCEPT !.taken = None]
  /\ job' = [job EXCEPT !.status = "queued", !.aborted = None, !.pause = FALSE, !.gen = conn.gen,
                        !.attempts = IF job.status = "interrupted" THEN @ + 1 ELSE @]
  /\ UNCHANGED <<run, conn, server, meddled>>

ResumeRefused ==
  /\ prepared.taken # None
  /\ prepared' = [prepared EXCEPT !.taken = None]
  /\ UNCHANGED <<job, run, conn, server, meddled>>

\* drain: the transfer starts from the checkpoint.
Drain ==
  /\ job.status = "queued" /\ ~job.inFlight /\ job.runs < MaxRuns
  /\ job' = [job EXCEPT !.status = "running", !.inFlight = TRUE, !.runs = @ + 1]
  /\ run' = [NoTransfer EXCEPT !.step = "asks"]
  /\ UNCHANGED <<prepared, conn, server, meddled>>
-----------------------------------------------------------------------------
(* The transfer.                                                             *)
At(step) == run.step = step /\ job.aborted = None

\* publish, and onCheckpoint of the job
Published(state) ==
  [job EXCEPT !.checkpoint = [phase |-> state.phase, owned |-> state.owned,
                              bytes |-> state.bytes, run |-> job.runs]]

Publishes(state, step) ==
  /\ run' = [run EXCEPT !.state = state, !.step = step]
  /\ job' = IF job.status \in Active THEN Published(state) ELSE job

Goes(step) == run' = [run EXCEPT !.step = step] /\ UNCHANGED job

\* recoverableUpload
Recoverable(code) == job.aborted = "lost" \/ code = "unavailable"

\* catch of runJob
Outcome(code) ==
  LET paused == IF job.status = "pausing" /\ code = "paused" /\ job.aborted = None
                  THEN [job EXCEPT !.status = "paused"] ELSE job
      settled == IF Recoverable(code) THEN Interrupted(paused) ELSE paused
  IN IF settled.status \in Resumable \cup {"cancelled", "error"} THEN settled
     ELSE [settled EXCEPT !.status = IF settled.aborted = None THEN "error" ELSE "cancelled"]

\* Whether the transfer tries to take its temporary file away.
CleansUp(code) ==
  /\ ~Recoverable(code)
  /\ run.state.owned /\ run.state.phase # "committing"
  /\ code \notin {"paused", "partial", "remote"}

Fails(code) ==
  /\ run' = [run EXCEPT !.step = "ends"]
  /\ job' = Outcome(code)
  /\ \/ UNCHANGED temp
     \/ CleansUp(code) /\ temp' = NoTemp

\* Nothing of the server's changes but the temporary file.
FailsOnServer(code) == Fails(code) /\ UNCHANGED <<target, writes, renames, landed>>

PauseSeen == job.pause

\* requirePlugin: twice before the transfer, and before the commit
Asked(step, next) == At(step) /\ Bound /\ Goes(next) /\ UNCHANGED server

\* The file on this computer is what was confirmed; the checkpoint of a
\* resumption is kept.
ReadLocal ==
  /\ At("reads")
  /\ IF meddled = "source" THEN FailsOnServer("local")
     ELSE IF PauseSeen THEN FailsOnServer("paused")
     ELSE LET kept == job.checkpoint
              state == IF kept # None /\ kept.owned THEN Transfer(kept) ELSE Fresh
          IN Publishes(state, IF state.phase = "committing" THEN "looks" ELSE "compares")
             /\ UNCHANGED server

\* The last rename was sent: without the temporary file it was carried out.
Look ==
  /\ At("looks")
  /\ Goes(IF temp.there THEN "compares" ELSE "reconciles") /\ UNCHANGED server

\* Mutant: a missing temporary file is proof enough.
TargetTrusted == TRUE

TargetMatches == target = "full"

Reconcile ==
  /\ At("reconciles")
  /\ IF ~TargetMatches THEN FailsOnServer("remote")
     ELSE IF meddled = "source" THEN FailsOnServer("local")
     ELSE Bound /\ Goes("done") /\ UNCHANGED server

\* Mutant: the target is looked at when the upload begins, not at its end.
Unchecked == TRUE

\* requireRemoteSnapshot
SnapshotHolds == target = Confirmed(job)

Compared(step, next) ==
  /\ At(step)
  /\ IF SnapshotHolds THEN Goes(next) /\ UNCHANGED server ELSE FailsOnServer("remote")

\* Mutant: what is on the server is not read again.
PartialTrusted(state) == temp.there

\* checkedRemoteHandle, remoteHash
PartialHolds(state) == temp.there /\ temp.size >= state.bytes /\ temp.good

\* Mutant: every transfer starts a file of its own.
AlwaysAnew == FALSE

Continues == run.state.owned

Open ==
  /\ At("opens")
  /\ LET own == [run.state EXCEPT !.phase = "uploading", !.owned = TRUE]
     IN IF ~Continues
          THEN /\ Publishes(own, "batch")
               /\ temp' = [NoTemp EXCEPT !.there = TRUE]
               /\ UNCHANGED <<target, writes, renames, landed>>
        ELSE IF ~temp.there THEN FailsOnServer("other")
        ELSE IF ~PartialHolds(run.state) THEN FailsOnServer("partial")
        ELSE IF PauseSeen /\ run.state.bytes > 0 THEN FailsOnServer("paused")
        ELSE Publishes(own, "batch") /\ UNCHANGED server

\* writeUploadBlocks: the next batch is read and sent.
Send ==
  /\ At("writes") /\ run.state.bytes < Blocks
  /\ LET dirty == run.dirty \/ meddled = "source"
     IN /\ run' = [run EXCEPT !.step = "acks", !.dirty = dirty]
        /\ writes' = writes \cup {[size |-> run.state.bytes + 1, dirty |-> dirty]}
  /\ UNCHANGED <<job, temp, target, renames, landed>>

\* Mutant: a batch counts when it has been sent.
AnswerIgnored == TRUE

Answered == [size |-> run.state.bytes + 1, dirty |-> run.dirty] \notin writes

\* The batch was acknowledged: the checkpoint moves.
Acknowledge ==
  /\ At("acks") /\ Answered
  /\ Publishes([run.state EXCEPT !.bytes = @ + 1], "batch")
  /\ UNCHANGED server

\* checkPause, before the first batch and after every one
Continue ==
  /\ At("batch")
  /\ IF PauseSeen THEN FailsOnServer("paused") ELSE Goes("writes") /\ UNCHANGED server

\* All is written; the user sees that it is being checked.
Verify ==
  /\ At("writes") /\ run.state.bytes = Blocks
  /\ IF run.dirty \/ meddled = "source" THEN FailsOnServer("local")
     ELSE IF temp.there /\ temp.size # Blocks THEN FailsOnServer("other")
     ELSE /\ run' = [run EXCEPT !.step = "binds"]
          /\ job' = [job EXCEPT !.status = IF job.pause THEN "pausing" ELSE "verifying"]
          /\ UNCHANGED server

\* The name still leads to the file that was written.
NameHolds ==
  /\ At("names")
  /\ IF temp.there /\ temp.size = Blocks THEN Goes("commits") /\ UNCHANGED server
     ELSE FailsOnServer("other")

\* Mutant: the checkpoint is published without a look at the signal.
Unsignalled(step) == run.step = step

Signalled(step) == At(step)

Commit ==
  /\ Signalled("commits")
  /\ Publishes([run.state EXCEPT !.phase = "committing"], "renames")
  /\ renames' = renames \cup {job.runs}
  /\ UNCHANGED <<temp, target, writes, landed>>

\* The answer of the rename has come, or its effect was found.
Complete ==
  /\ At("done")
  /\ run' = [run EXCEPT !.step = "ends"]
  /\ job' = [job EXCEPT !.status = "completed"]
  /\ UNCHANGED server

Working == run.step \notin {None, "ends"}

\* The job was stopped or interrupted.
AbortSeen ==
  /\ Working /\ job.aborted # None
  /\ FailsOnServer("aborted")

\* An answer that does not come in time or a channel that closes; or an error
\* of the server, of a file, of the plugin that is asked for or of the audit.
Errs ==
  /\ Working /\ run.step # "batch" /\ job.aborted = None
  /\ \/ run.step # "reads" /\ FailsOnServer("unavailable")
     \/ run.step # "done" /\ FailsOnServer("other")

\* finally of runJob
Settle ==
  /\ run.step = "ends"
  /\ run' = NoTransfer
  /\ job' = LET j == [job EXCEPT !.inFlight = FALSE]
            IN IF j.status \in Resumable THEN j ELSE Forgotten(j)
  /\ UNCHANGED server
-----------------------------------------------------------------------------
(* The server and the others who work on it.                                 *)
Written(w) ==
  [temp EXCEPT !.size = IF w.size > @ THEN w.size ELSE @, !.good = @ /\ ~w.dirty]

WriteLands ==
  /\ \E w \in writes :
       /\ writes' = writes \ {w}
       /\ temp' = IF temp.there THEN Written(w) ELSE temp
  /\ UNCHANGED <<job, run, prepared, conn, target, renames, landed, meddled>>

Awaited(n) == run.step = "renames" /\ job.runs = n

\* sftpRename: over the target only when it was there to be confirmed.
Accepts == temp.there /\ (job.existed \/ target = "absent")

RenameLands ==
  \E n \in renames :
    /\ Accepts
    /\ renames' = renames \ {n}
    /\ target' = IF temp.good /\ temp.size = Blocks THEN "full" ELSE "broken"
    /\ temp' = NoTemp
    /\ landed' = landed + 1
    /\ run' = IF Awaited(n) THEN [run EXCEPT !.step = "done"] ELSE run
    /\ UNCHANGED <<job, prepared, conn, writes, meddled>>

\* A rename the server refuses, or that never arrived.
RenameFails ==
  \E n \in renames :
    /\ renames' = renames \ {n}
    /\ UNCHANGED <<job, run, prepared, conn, temp, target, writes, landed, meddled>>

\* Batches that never arrived.
WritesLost ==
  /\ run.step # "acks" /\ writes # {}
  /\ writes' = {}
  /\ UNCHANGED <<job, run, prepared, conn, temp, target, renames, landed, meddled>>

\* The target is past its last check, or a rename may still be carried out.
Late == renames # {} \/ run.step \in {"names", "commits"}

MeddleWithTarget ==
  /\ meddled = "nothing" /\ SnapshotHolds
  /\ target' = "foreign"
  /\ meddled' = IF Late THEN "target late" ELSE "target"
  /\ UNCHANGED <<job, run, prepared, conn, temp, writes, renames, landed>>

\* Between two transfers, when no request is left to be carried out.
MeddleWithTemp ==
  /\ meddled = "nothing" /\ temp.there
  /\ ~job.inFlight /\ writes = {} /\ renames = {}
  /\ temp' \in {NoTemp, [temp EXCEPT !.good = FALSE]}
  /\ meddled' = "temp"
  /\ UNCHANGED <<job, run, prepared, conn, target, writes, renames, landed>>

MeddleWithSource ==
  /\ meddled = "nothing"
  /\ meddled' = "source"
  /\ UNCHANGED <<job, run, prepared, conn, server>>

\* clearTransfers, and another file.
Another ==
  /\ job.status \notin Active \cup Resumable /\ ~job.inFlight /\ conn.up
  /\ \E existed \in BOOLEAN : job' = NewJob(existed, conn.gen)
  /\ target' = Confirmed(job')
  /\ temp' = NoTemp /\ writes' = {} /\ renames' = {} /\ landed' = 0
  /\ meddled' = "nothing"
  /\ prepared' = [offer |-> None, taken |-> None]
  /\ UNCHANGED <<run, conn>>
-----------------------------------------------------------------------------
RunStep ==
  /\ \/ Asked("asks", "reads") \/ ReadLocal \/ Look \/ Reconcile \/ Compared("compares", "opens")
     \/ Open \/ Continue \/ Send \/ Acknowledge \/ Verify \/ Asked("binds", "rechecks")
     \/ Compared("rechecks", "names") \/ NameHolds \/ Commit
     \/ Complete \/ AbortSeen \/ Errs \/ Settle
  /\ UNCHANGED <<prepared, conn, meddled>>

Next ==
  \/ Stop \/ Pause \/ Lose \/ Reconnect \/ Prepare \/ Confirm \/ Resume \/ ResumeRefused
  \/ Drain \/ RunStep \/ WriteLands \/ RenameLands \/ RenameFails \/ WritesLost
  \/ MeddleWithTarget \/ MeddleWithTemp \/ MeddleWithSource \/ Another

Spec == Init /\ [][Next]_vars
-----------------------------------------------------------------------------
TypeOK ==
  /\ job.status \in Active \cup Resumable \cup {"completed", "cancelled", "error"}
  /\ job.inFlight \in BOOLEAN /\ job.pause \in BOOLEAN /\ job.existed \in BOOLEAN
  /\ job.attempts \in 0..MaxResumes /\ job.runs \in 0..MaxRuns
  /\ job.aborted \in {None, "stopped", "lost"}
  /\ job.checkpoint \in Checkpoint \cup {None}
  /\ temp \in [there : BOOLEAN, size : 0..Blocks, good : BOOLEAN]
  /\ target \in {"absent", "old", "foreign", "full", "broken"}
  /\ renames \subseteq 1..MaxRuns
  /\ job.inFlight <=> run.step # None

\* An upload is reported as completed only when the rename of the whole file
\* was carried out, however many answers were lost on the way.
CompletedLanded == job.status = "completed" => landed = 1

\* Whatever was interrupted, changed or resumed in between, the target is never
\* a part of the file nor a file that others have changed, and the file is
\* never put there twice.
TargetWhole == target # "broken" /\ landed <= 1

\* A resumption never skips what the server may not have: the checkpoint stays
\* behind the temporary file.
CheckpointBehind ==
  job.checkpoint # None /\ job.checkpoint.owned /\ temp.there /\ meddled # "temp" =>
    job.checkpoint.bytes <= temp.size

UploadSound == TypeOK /\ CompletedLanded /\ TargetWhole /\ CheckpointBehind

\* What others put at the target after the user confirmed is not replaced,
\* not even by a transfer that is resumed later.
ForeignKept == [][meddled = "target" /\ meddled' = "target" => target' = target]_vars

\* No rename is sent for a job that was cancelled, has expired or was
\* interrupted, nor over a connection other than the one it was confirmed for.
StopStands ==
  [][~(renames' \subseteq renames) =>
       job.status \in Active /\ job.aborted = None /\ Bound]_vars
=============================================================================
