----------------------------- MODULE UploadWindow -----------------------------
(* The blocks that uploads over one connection may have on their way:         *)
(* UploadWriteWindow (src/src/server-upload-transfer.mjs), shared by the      *)
(* files, whose batches (writeUploadBlocks) take turns.  An answer may come   *)
(* long after its batch has failed, when the file has begun another one.      *)
EXTENDS Naturals, Sequences, SequencesExt, FiniteSets

CONSTANTS
  Files,
  BatchBlocks,   \* blocks of a batch
  WindowBlocks,  \* UPLOAD_WINDOW_BLOCKS
  MaxBatches     \* bound: batches of a file that still have answers to come

WindowAssumption == BatchBlocks \in Nat \ {0} /\ WindowBlocks \in Nat \ {0} /\ MaxBatches \in Nat

VARIABLES
  window,  \* limit, fastAcks, the generation's age, and jobs: the files in their turn
  file,    \* each file: where it is, and its latest batch
  sent     \* writes without an answer; active is their number

vars == <<window, file, sent>>
-----------------------------------------------------------------------------
(* The state as one record, for the handlers that end with a pump.           *)
Now == [window |-> window, file |-> file, sent |-> sent]
Becomes(s) == window' = s.window /\ file' = s.file /\ sent' = s.sent

Idle == [at |-> "idle", batch |-> 0, offset |-> 0, remaining |-> 0, shut |-> FALSE]

Init ==
  /\ window = [limit |-> 1, fastAcks |-> 0, jobs |-> <<>>]
  /\ file = [f \in Files |-> Idle]
  /\ sent = {}

Users(s) == {f \in Files : s.file[f].at # "idle"}

\* A write belongs to its batch, and to the generation of the window it was
\* sent in.
Resized(s, limit) ==
  [s EXCEPT !.window.limit = limit, !.window.fastAcks = 0,
            !.sent = {[w EXCEPT !.current = FALSE] : w \in @}]

Half(n) == IF n \div 2 = 0 THEN 1 ELSE n \div 2
Twice(n) == IF n * 2 > WindowBlocks THEN WindowBlocks ELSE n * 2

\* finish
Finished(s, f, outcome) ==
  [s EXCEPT !.window.jobs = SelectSeq(@, LAMBDA g : g # f), !.file[f].at = outcome]

Fails(s, f) == Finished(s, f, "failed")

Unsent(s) == SelectSeq(s.window.jobs, LAMBDA f : s.file[f].offset < BatchBlocks)

\* One turn of pump: the next file in turn sends a block; when its channel is
\* shut the write fails at once, and its batch with it.
Turn(s) ==
  LET f == Head(Unsent(s))
      turned == [s EXCEPT !.window.jobs = Append(SelectSeq(@, LAMBDA g : g # f), f)]
      write == [file |-> f, batch |-> s.file[f].batch, block |-> s.file[f].offset, current |-> TRUE]
  IN IF s.file[f].shut
       THEN Fails(Resized(turned, Half(s.window.limit)), f)
       ELSE [turned EXCEPT !.file[f].offset = @ + 1, !.sent = @ \cup {write}]

RECURSIVE Pumped(_)
Pumped(s) ==
  IF Cardinality(s.sent) >= s.window.limit \/ Unsent(s) = <<>> THEN s ELSE Pumped(Turn(s))

\* enter: the first user begins with a window of one block.
Enter(f) ==
  /\ file[f].at = "idle"
  /\ LET begun == [Now EXCEPT !.file[f].at = "reads"]
     IN Becomes(IF Users(Now) = {} THEN Resized(begun, 1) ELSE begun)

\* Names for batches are used again when all their answers are in.
Names(f) == 1..MaxBatches \ {w.batch : w \in {v \in sent : v.file = f}}

\* run: a batch is ready.
Run(f) ==
  /\ file[f].at = "reads" /\ Names(f) # {}
  /\ LET name == CHOOSE n \in Names(f) : \A o \in Names(f) : n <= o
         job == [file[f] EXCEPT !.at = "waits", !.batch = name, !.offset = 0, !.remaining = BatchBlocks]
     IN Becomes(Pumped([Now EXCEPT !.file[f] = job, !.window.jobs = Append(@, f)]))

\* The batch has succeeded, and the next one is read; or the file is done
\* with its uploads.
Proceed(f) ==
  /\ file[f].at = "resolved"
  /\ Becomes([Now EXCEPT !.file[f] = [Idle EXCEPT !.at = "reads", !.shut = file[f].shut]])

Leave(f) ==
  /\ file[f].at \in {"reads", "resolved", "failed"}
  /\ Becomes([Now EXCEPT !.file[f] = Idle])

\* The signal of the file aborts.
Abort(f) ==
  /\ file[f].at = "waits"
  /\ Becomes(Pumped(Fails(Now, f)))

\* acknowledged, for an answer that is slow or not compared with the best one
Slower(s) == Resized(s, Half(s.window.limit))

Faster(s, w) ==
  IF ~w.current THEN s
  ELSE IF s.window.fastAcks + 1 < s.window.limit THEN [s EXCEPT !.window.fastAcks = @ + 1]
  ELSE [s EXCEPT !.window.limit = Twice(@), !.window.fastAcks = 0]

Counted(s, f) ==
  LET counted == [s EXCEPT !.file[f].remaining = @ - 1]
  IN IF counted.file[f].remaining = 0 THEN Finished(counted, f, "resolved") ELSE counted

\* Mutant: an answer counts for whatever batch its file is at.
CountsForAny(w) == file[w.file].at = "waits"

CountsFor(w) == file[w.file].at = "waits" /\ file[w.file].batch = w.batch

Noted(w, kind) ==
  LET returned == [Now EXCEPT !.sent = @ \ {w}]
  IN IF ~CountsFor(w) THEN returned
     ELSE IF kind = "error" THEN Fails(Slower(returned), w.file)
     ELSE Counted(IF kind = "slow" THEN Slower(returned) ELSE Faster(returned, w), w.file)

\* Mutant: a late answer lets nobody send.
AnswerLate(w, kind) ==
  Becomes(IF CountsFor(w) THEN Pumped(Noted(w, kind)) ELSE Noted(w, kind))

\* complete: an answer returns its share of the window, and means something
\* only to a batch that still waits for it.
Answer(w, kind) == Becomes(Pumped(Noted(w, kind)))

Answers == \E w \in sent : \E kind \in {"fast", "slow", "error"} : Answer(w, kind)

\* The channel of a file closes; what it sent is answered with errors.
Shut(f) ==
  /\ file[f].at # "idle" /\ ~file[f].shut
  /\ Becomes([Now EXCEPT !.file[f].shut = TRUE])

Next ==
  \/ \E f \in Files : Enter(f) \/ Run(f) \/ Proceed(f) \/ Leave(f) \/ Abort(f) \/ Shut(f)
  \/ Answers

Spec == Init /\ [][Next]_vars
-----------------------------------------------------------------------------
Outstanding(f) == {w \in sent : w.file = f /\ w.batch = file[f].batch}

TypeOK ==
  /\ window.limit \in 1..WindowBlocks /\ window.fastAcks \in 0..WindowBlocks
  /\ window.jobs \in Seq(Files)
  /\ file \in [Files -> [at : {"idle", "reads", "waits", "resolved", "failed"},
                         batch : 0..MaxBatches, offset : 0..BatchBlocks,
                         remaining : 0..BatchBlocks, shut : BOOLEAN]]
  /\ sent \subseteq [file : Files, batch : 1..MaxBatches, block : 0..BatchBlocks, current : BOOLEAN]

\* The jobs in turn are the batches that wait, and a share of the window is
\* never idle while one of them has a block to send.
WorkConserving ==
  /\ Range(window.jobs) = {f \in Files : file[f].at = "waits"}
  /\ Cardinality(sent) < window.limit => Unsent(Now) = <<>>

\* A batch is reported as written when every one of its own blocks was
\* acknowledged, late answers of earlier batches notwithstanding.
BatchesExact ==
  \A f \in Files :
    /\ file[f].at = "waits" =>
         file[f].remaining = (BatchBlocks - file[f].offset) + Cardinality(Outstanding(f))
    /\ file[f].at = "resolved" => Outstanding(f) = {} /\ file[f].offset = BatchBlocks

\* All files of a connection together never have more on their way than the
\* largest window, batches that have failed included.
WindowHolds == Cardinality(sent) <= WindowBlocks

WindowSound == TypeOK /\ WorkConserving /\ BatchesExact /\ WindowHolds
=============================================================================
