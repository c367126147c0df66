------------------------- MODULE SealedCommitProofs -------------------------
(***************************************************************************)
(* Proofs about SealedCommit for any environments, versions and number of  *)
(* edits by hand.                                                          *)
(***************************************************************************)
EXTENDS SealedCommit, TLAPS

\* A commit or recovery works on a record that is on disk.
RunInv ==
  \A a \in Actors : ~Idle(a) =>
    /\ up /\ recovering = {}
    /\ run[a].record \in journal /\ run[a].record.actor = a
    /\ run[a].stage \in {"forward", "back"} => run[a].record.phase = "prepared"
    /\ run[a].stage = "committed" => /\ run[a].record.phase = "committed"
                                     /\ run[a].todo = {}

\* What it has done so far; a batch has met no state it does not know.
ProgressInv ==
  \A a \in Actors : ~Idle(a) =>
    /\ \A c \in CellsOf(a) \ run[a].todo : disk[c] = Target(run[a])[c]
    /\ Kind(a) = "batch" => ~ThirdState(run[a].record)

\* A record on disk keeps everybody else out.
FenceInv ==
  /\ recovering \subseteq journal
  /\ up => \A r \in journal :
       r \in recovering \/ Kind(r.actor) \in blocked \cup blockAll

\* All the cells of one environment go to the same version.
Uniform(a, after) == \A c, d \in CellsOf(a) : c[2] = d[2] => after[c] = after[d]
UniformInv ==
  /\ \A r \in journal : Uniform(r.actor, r.after)
  /\ \A i \in 1..Len(queue) : Uniform(queue[i].actor, queue[i].after)

\* What a waiting batch has captured is still there when its turn comes.
QueueInv ==
  /\ \A i \in 1..Len(queue) :
       /\ Idle(queue[i].actor)
       /\ queue[i].before = Capture(queue[i].actor)
  /\ \A i, j \in 1..Len(queue) : queue[i].actor = queue[j].actor => i = j
  /\ queue # <<>> => Started /\ Idle(Cloud) /\ \A r \in journal : Kind(r.actor) = "batch"

IInv == /\ TypeOK /\ OneRecord /\ RunInv /\ ProgressInv /\ FenceInv
        /\ UniformInv /\ QueueInv
-----------------------------------------------------------------------------
LEMMA CellFacts ==
  /\ \A a \in Actors : CellsOf(a) \subseteq Cells
  /\ CellsOf(Cloud) = Cells
  /\ \A e, f \in Environments : e # f => CellsOf(e) \cap CellsOf(f) = {}
  /\ \A e \in Environments : Kind(e) = "batch" /\ e # Cloud
  /\ Kind(Cloud) = "cloud"
  /\ \A a \in Actors : Kind(a) \in Kinds
  BY CommitAssumption DEF Actors, CellsOf, Cells, Scope, Kind, Kinds

LEMMA WritesWithinTodo ==
  ASSUME NEW todo, NEW cells \in NextWrites(todo)
  PROVE  cells \subseteq todo
  BY DEF NextWrites

\* When the project is available nothing is left on disk.
LEMMA NoRecords ==
  ASSUME IInv, Started, Available
  PROVE  journal = {}
  BY DEF IInv, TypeOK, FenceInv, Started, Available, AvailableFor, IsRecord, RecordsOf,
         Kind, Actors

\* What the types say of a run.
LEMMA RunFacts ==
  ASSUME TypeOK, NEW a \in Actors, ~Idle(a)
  PROVE  /\ run[a] \in RunsOf(a)
         /\ run[a] = [stage |-> run[a].stage, record |-> run[a].record, todo |-> run[a].todo]
         /\ run[a].stage \in Stages
         /\ run[a].record \in RecordsOf(a)
         /\ run[a].record.actor = a
         /\ run[a].record.before \in Snapshots(a) /\ run[a].record.after \in Snapshots(a)
         /\ Settles(run[a].record) \in Snapshots(a)
         /\ Target(run[a]) \in Snapshots(a)
         /\ run[a].todo \subseteq CellsOf(a)
  BY DEF TypeOK, Idle, RunsOf, RecordsOf, Settles, Target

\* The initial state satisfies the inductive invariant.
LEMMA InitInv == Init => IInv
  <1> SUFFICES ASSUME Init PROVE IInv
    OBVIOUS
  <1>1. TypeOK
    <2>1. run = [a \in Actors |-> run[a]] /\ \A a \in Actors : run[a] = NoRun
      BY DEF Init
    <2>2. queue \in Seq(Batches)
      BY DEF Init
    <2>3. disk \in [Cells -> Values] /\ edits \in 0..MaxEdits
      BY CommitAssumption DEF Init
    <2> QED BY <2>1, <2>2, <2>3 DEF Init, TypeOK, IsRecord
  <1>2. OneRecord /\ RunInv /\ ProgressInv /\ FenceInv
    BY DEF Init, OneRecord, RunInv, ProgressInv, FenceInv, Idle
  <1>3. UniformInv /\ QueueInv
    BY DEF Init, UniformInv, QueueInv
  <1> QED BY <1>1, <1>2, <1>3 DEF IInv

LEMMA KeyringInv == IInv /\ KeyringFlips => IInv'
  <1> SUFFICES ASSUME IInv, KeyringFlips PROVE IInv'
    OBVIOUS
  <1>1. TypeOK'
    BY DEF IInv, KeyringFlips, disks, memory, TypeOK, IsRecord
  <1>2. (OneRecord /\ RunInv /\ ProgressInv /\ FenceInv)'
    BY DEF IInv, KeyringFlips, disks, memory, OneRecord, RunInv, ProgressInv, FenceInv, Idle,
           ThirdState
  <1>3. (UniformInv /\ QueueInv)'
    BY DEF IInv, KeyringFlips, disks, memory, UniformInv, QueueInv, Idle, Capture, Started
  <1> QED BY <1>1, <1>2, <1>3 DEF IInv

LEMMA StopInv == IInv /\ Stop => IInv'
  <1> SUFFICES ASSUME IInv, Stop PROVE IInv'
    OBVIOUS
  <1>1. TypeOK'
    <2>1. run' = [a \in Actors |-> run'[a]] /\ \A a \in Actors : run'[a] = NoRun
      BY DEF Stop
    <2>2. queue' \in Seq(Batches)
      BY DEF Stop
    <2> QED BY <2>1, <2>2 DEF IInv, Stop, disks, TypeOK, IsRecord
  <1>2. (OneRecord /\ RunInv /\ ProgressInv /\ FenceInv)'
    BY DEF IInv, Stop, disks, OneRecord, RunInv, ProgressInv, FenceInv, Idle
  <1>3. (UniformInv /\ QueueInv)'
    BY DEF IInv, Stop, disks, UniformInv, QueueInv
  <1> QED BY <1>1, <1>2, <1>3 DEF IInv

\* While the program is down nothing runs and nothing waits.
LEMMA DownFacts ==
  ASSUME IInv, ~up
  PROVE  (\A a \in Actors : Idle(a)) /\ queue = <<>>
  BY DEF IInv, RunInv, QueueInv, Started

LEMMA StartInv == IInv /\ Start => IInv'
  <1> SUFFICES ASSUME IInv, Start PROVE IInv'
    OBVIOUS
  <1>0. (\A a \in Actors : Idle(a)) /\ queue = <<>>
    BY DownFacts DEF Start
  <1>1. TypeOK'
    BY DEF IInv, Start, disks, TypeOK, IsRecord
  <1>2. (OneRecord /\ RunInv /\ ProgressInv /\ FenceInv)'
    BY <1>0 DEF IInv, Start, disks, OneRecord, RunInv, ProgressInv, FenceInv, Idle
  <1>3. (UniformInv /\ QueueInv)'
    BY <1>0 DEF IInv, Start, disks, UniformInv, QueueInv
  <1> QED BY <1>1, <1>2, <1>3 DEF IInv

LEMMA HandEditInv ==
  ASSUME IInv, NEW c \in Cells, HandEdit(c)
  PROVE  IInv'
  <1>0. (\A a \in Actors : Idle(a)) /\ queue = <<>>
    BY DownFacts DEF HandEdit
  <1>1. TypeOK'
    BY CommitAssumption DEF IInv, HandEdit, memory, TypeOK, IsRecord
  <1>2. (OneRecord /\ RunInv /\ ProgressInv /\ FenceInv)'
    BY <1>0 DEF IInv, HandEdit, memory, OneRecord, RunInv, ProgressInv, FenceInv, Idle
  <1>3. (UniformInv /\ QueueInv)'
    BY <1>0 DEF IInv, HandEdit, memory, UniformInv, QueueInv
  <1> QED BY <1>1, <1>2, <1>3 DEF IInv

LEMMA SaveInv ==
  ASSUME IInv, NEW e \in Environments, Save(e)
  PROVE  IInv'
  <1>0. journal = {} /\ Started
    BY NoRecords DEF Save, Admitted
  <1>1. \A a \in Actors : Idle(a)
    BY <1>0 DEF IInv, RunInv
  <1>2. disk' \in [Cells -> Values] /\ \A c \in Cells \ CellsOf(e) : disk'[c] = disk[c]
    BY DEF Save, IInv, TypeOK
  <1>3. \A i \in 1..Len(queue) : /\ queue[i].actor \in Environments
                                 /\ queue[i].actor # e
    BY DEF Save, Waiting, IInv, TypeOK, Batches, BatchesOf
  <1>4. \A f \in Environments : f # e => Capture(f) = Capture(f)'
    BY <1>2, CellFacts DEF Capture, Actors
  <1>5. TypeOK'
    BY <1>2 DEF IInv, Save, memory, TypeOK, IsRecord
  <1>6. (OneRecord /\ RunInv /\ ProgressInv /\ FenceInv)'
    BY <1>0, <1>1 DEF IInv, Save, memory, OneRecord, RunInv, ProgressInv, FenceInv, Idle
  <1>7. UniformInv' /\ QueueInv'
    BY <1>0, <1>1, <1>3, <1>4 DEF IInv, Save, memory, UniformInv, QueueInv, Idle, Started
  <1> QED BY <1>5, <1>6, <1>7 DEF IInv

LEMMA PreviewInv == IInv /\ Preview => IInv'
  <1> SUFFICES ASSUME IInv, Preview PROVE IInv'
    OBVIOUS
  <1>0. Capture(Cloud) \in Snapshots(Cloud)
    BY CellFacts DEF Capture, Snapshots, IInv, TypeOK
  <1>1. TypeOK'
    BY <1>0 DEF IInv, Preview, disks, TypeOK, IsRecord
  <1>2. (OneRecord /\ RunInv /\ ProgressInv /\ FenceInv)'
    BY DEF IInv, Preview, disks, OneRecord, RunInv, ProgressInv, FenceInv, Idle, ThirdState
  <1>3. (UniformInv /\ QueueInv)'
    BY DEF IInv, Preview, disks, UniformInv, QueueInv, Idle, Capture, Started
  <1> QED BY <1>1, <1>2, <1>3 DEF IInv

LEMMA ImportBeginInv == IInv /\ ImportBegin => IInv'
  <1> SUFFICES ASSUME IInv, ImportBegin PROVE IInv'
    OBVIOUS
  <1>1. TypeOK'
    BY DEF IInv, ImportBegin, disks, TypeOK, IsRecord
  <1>2. (OneRecord /\ RunInv /\ ProgressInv /\ FenceInv)'
    BY DEF IInv, ImportBegin, disks, OneRecord, RunInv, ProgressInv, FenceInv, Idle, ThirdState
  <1>3. (UniformInv /\ QueueInv)'
    BY DEF IInv, ImportBegin, disks, UniformInv, QueueInv, Idle, Capture, Started
  <1> QED BY <1>1, <1>2, <1>3 DEF IInv

LEMMA ImportRefusedInv == IInv /\ ImportRefused => IInv'
  <1> SUFFICES ASSUME IInv, ImportRefused PROVE IInv'
    OBVIOUS
  <1>1. TypeOK'
    BY DEF IInv, ImportRefused, disks, TypeOK, IsRecord
  <1>2. (OneRecord /\ RunInv /\ ProgressInv /\ FenceInv)'
    BY DEF IInv, ImportRefused, disks, OneRecord, RunInv, ProgressInv, FenceInv, Idle, ThirdState
  <1>3. (UniformInv /\ QueueInv)'
    BY DEF IInv, ImportRefused, disks, UniformInv, QueueInv, Idle, Capture, Started
  <1> QED BY <1>1, <1>2, <1>3 DEF IInv

LEMMA BatchBeginInv ==
  ASSUME IInv, NEW e \in Environments, BatchBegin(e)
  PROVE  IInv'
  <1>0. journal = {} /\ Started
    BY NoRecords DEF BatchBegin, Admitted
  <1>1. \A a \in Actors : Idle(a)
    BY <1>0 DEF IInv, RunInv
  <1>2. PICK v \in Values :
          queue' = Append(queue, [actor |-> e, before |-> Capture(e),
                                  after |-> [c \in CellsOf(e) |-> v]])
    BY DEF BatchBegin
  <1> DEFINE b == [actor |-> e, before |-> Capture(e), after |-> [c \in CellsOf(e) |-> v]]
  <1>3. b \in Batches
    <2>1. Capture(e) \in Snapshots(e)
      BY CellFacts DEF Capture, Snapshots, IInv, TypeOK, Actors
    <2>2. [c \in CellsOf(e) |-> v] \in Snapshots(e)
      BY DEF Snapshots
    <2> QED BY <2>1, <2>2 DEF Batches, BatchesOf
  <1>4. queue \in Seq(Batches)
    BY DEF IInv, TypeOK
  <1> HIDE DEF b
  <1>5. /\ queue' \in Seq(Batches) /\ Len(queue') = Len(queue) + 1
        /\ queue'[Len(queue) + 1] = b
        /\ \A i \in 1..Len(queue) : queue'[i] = queue[i]
    BY <1>2, <1>3, <1>4 DEF b
  <1>6. /\ b.actor = e /\ b.before = Capture(e) /\ Uniform(e, b.after)
    BY DEF b, Uniform
  <1>7. \A i \in 1..Len(queue) : queue[i].actor # e
    BY DEF BatchBegin, Waiting
  <1>8. TypeOK'
    BY <1>5 DEF IInv, BatchBegin, disks, TypeOK, IsRecord
  <1>9. (OneRecord /\ RunInv /\ ProgressInv /\ FenceInv)'
    BY <1>0, <1>1 DEF IInv, BatchBegin, disks, OneRecord, RunInv, ProgressInv, FenceInv, Idle
  <1>10. UniformInv'
    BY <1>0, <1>4, <1>5, <1>6 DEF IInv, BatchBegin, disks, UniformInv
  <1>11. QueueInv'
    <2>1. \A i \in 1..Len(queue') : /\ run'[queue'[i].actor] = NoRun
                                    /\ queue'[i].before = Capture(queue'[i].actor)
      <3>1. run' = run /\ \A a \in Actors : run[a] = NoRun
        BY <1>1 DEF BatchBegin, Idle
      <3>2. \A i \in 1..Len(queue) : /\ queue[i].actor \in Actors
                                     /\ queue[i].before = Capture(queue[i].actor)
        BY <1>4 DEF IInv, QueueInv, Batches, BatchesOf, Actors
      <3> QED BY <3>1, <3>2, <1>4, <1>5, <1>6 DEF Actors
    <2>2. \A i, j \in 1..Len(queue') : queue'[i].actor = queue'[j].actor => i = j
      BY <1>4, <1>5, <1>6, <1>7 DEF IInv, QueueInv
    <2>3. Started' /\ Idle(Cloud)' /\ journal' = {}
      BY <1>0, <1>1 DEF BatchBegin, disks, Started, Idle, Actors
    <2>4. disk' = disk
      BY DEF BatchBegin, disks
    <2> QED BY <2>1, <2>2, <2>3, <2>4 DEF QueueInv, Idle, Capture
  <1> QED BY <1>8, <1>9, <1>10, <1>11 DEF IInv

\* What the first write of a commit does to everything but the queue.
LEMMA OpenedFacts ==
  ASSUME IInv, NEW a \in Actors, NEW before \in Snapshots(a), NEW after \in Snapshots(a),
         journal = {}, up, before = Capture(a), Uniform(a, after),
         Opened(a, before, after),
         disk' = disk, up' = up, recovering' = recovering, blockAll' = blockAll
  PROVE  /\ \A r \in journal' \cup recovering' : IsRecord(r)
         /\ \A r \in journal' : r.actor = a /\ Uniform(r.actor, r.after)
         /\ run' = [b \in Actors |-> run'[b]]
         /\ \A b \in Actors : run'[b] \in RunsOf(b) \cup {NoRun}
         /\ \A b \in Actors : run'[b] = NoRun \/ (b = a /\ run'[b].stage = "forward")
         /\ blocked' \subseteq Kinds
         /\ OneRecord' /\ RunInv' /\ ProgressInv' /\ FenceInv'
  <1>0. \A b \in Actors : run[b] = NoRun
    BY DEF IInv, RunInv, Idle
  <1>1. recovering = {}
    BY DEF IInv, FenceInv
  <1>2. CASE UNCHANGED <<journal, blocked, run>>
    <2>1. (OneRecord /\ RunInv /\ ProgressInv /\ FenceInv)'
      BY <1>2, <1>0, <1>1 DEF OneRecord, RunInv, ProgressInv, FenceInv, Idle
    <2>2. /\ run' = [b \in Actors |-> run'[b]] /\ (\A b \in Actors : run'[b] = NoRun)
          /\ blocked' \subseteq Kinds
      BY <1>2, <1>0 DEF IInv, TypeOK
    <2>3. journal' = {} /\ recovering' = {}
      BY <1>2, <1>1
    <2> QED BY <2>1, <2>2, <2>3
  <1> DEFINE record == Prepared(a, before, after)
             x == [stage |-> "forward", record |-> record, todo |-> CellsOf(a)]
  <1>3. CASE /\ journal' = {record}
             /\ blocked' = blocked \cup {Kind(a)}
             /\ run' = [run EXCEPT ![a] = x]
    <2>1. record \in RecordsOf(a) /\ record.actor = a /\ record.phase = "prepared"
          /\ record.before = before /\ record.after = after
      BY DEF RecordsOf, Prepared
    <2>2. x \in RunsOf(a)
      BY <2>1 DEF RunsOf, Stages
    <2>3. x # NoRun
      BY <2>2, NoRunAssumption
    <2>4. x.stage = "forward" /\ x.record = record /\ x.todo = CellsOf(a)
      OBVIOUS
    <2> HIDE DEF x, record
    <2>5. run'[a] = x /\ (\A b \in Actors : b # a => run'[b] = NoRun)
          /\ run' = [b \in Actors |-> run'[b]]
      BY <1>0, <1>3 DEF IInv, TypeOK
    <2>6. ~ \E c \in CellsOf(a) : disk[c] \notin {record.before[c], record.after[c]}
      BY <2>1 DEF Capture
    <2>7. OneRecord'
      BY <1>3 DEF OneRecord
    <2>8. RunInv'
      BY <1>1, <1>3, <2>1, <2>3, <2>4, <2>5 DEF RunInv, Idle
    <2>9. ProgressInv'
      BY <2>1, <2>3, <2>4, <2>5, <2>6 DEF ProgressInv, Idle, ThirdState
    <2>10. FenceInv'
      BY <1>1, <1>3, <2>1 DEF FenceInv
    <2>11. blocked' \subseteq Kinds
      BY <1>3, CellFacts DEF IInv, TypeOK
    <2>12. \A r \in journal' \cup recovering' : IsRecord(r)
      BY <1>1, <1>3, <2>1 DEF IsRecord
    <2>13. \A r \in journal' : r.actor = a /\ Uniform(r.actor, r.after)
      BY <1>3, <2>1
    <2>14. \A b \in Actors : /\ run'[b] \in RunsOf(b) \cup {NoRun}
                             /\ run'[b] = NoRun \/ (b = a /\ run'[b].stage = "forward")
      BY <2>2, <2>4, <2>5
    <2> QED BY <2>5, <2>7, <2>8, <2>9, <2>10, <2>11, <2>12, <2>13, <2>14
  <1> QED BY <1>2, <1>3 DEF Opened

LEMMA BatchStartInv == IInv /\ BatchStart => IInv'
  <1> SUFFICES ASSUME IInv, BatchStart PROVE IInv'
    OBVIOUS
  <1> DEFINE b == Head(queue)
             n == Len(queue)
  <1>1. queue \in Seq(Batches) /\ queue # <<>> /\ up
    BY DEF IInv, TypeOK, BatchStart, Started
  <1>2. /\ n \in Nat /\ n >= 1 /\ b = queue[1] /\ b \in Batches
        /\ queue' = Tail(queue) /\ queue' \in Seq(Batches) /\ Len(queue') = n - 1
        /\ \A i \in 1..Len(queue') : i + 1 \in 1..n /\ queue'[i] = queue[i + 1]
    BY <1>1 DEF BatchStart
  <1>3. /\ b.actor \in Environments /\ b.actor \in Actors
        /\ b.before \in Snapshots(b.actor) /\ b.after \in Snapshots(b.actor)
    BY <1>2 DEF Batches, BatchesOf, Actors
  <1>4. b.before = Capture(b.actor) /\ Uniform(b.actor, b.after)
    BY <1>2 DEF IInv, QueueInv, UniformInv
  <1>s. Started
    BY DEF BatchStart
  <1>o. \A r \in journal : Kind(r.actor) = "batch"
    BY <1>1 DEF IInv, QueueInv
  <1>i. \A a \in Actors : Idle(a)
    BY <1>1 DEF BatchStart, IInv, QueueInv, Actors
  <1> HIDE DEF b, n
  <1>5. /\ disk' = disk /\ up' = up /\ recovering' = recovering /\ blockAll' = blockAll
        /\ keyring' = keyring /\ preview' = preview /\ importing' = importing /\ edits' = edits
    BY DEF BatchStart
  <1>6. \A i \in 1..Len(queue') : queue'[i].actor \in Environments /\ queue'[i].actor # b.actor
    BY <1>2 DEF IInv, QueueInv, Batches, BatchesOf
  <1>7. CASE UNCHANGED <<journal, blocked, run>>
    <2>1. TypeOK'
      BY <1>7, <1>2, <1>5 DEF IInv, TypeOK, IsRecord
    <2>2. (OneRecord /\ RunInv /\ ProgressInv /\ FenceInv)'
      BY <1>7, <1>i, <1>5 DEF IInv, OneRecord, RunInv, ProgressInv, FenceInv, Idle
    <2>3. UniformInv'
      BY <1>7, <1>2 DEF IInv, UniformInv
    <2>4. QueueInv'
      <3>1. \A i \in 1..Len(queue') : /\ run'[queue'[i].actor] = NoRun
                                      /\ queue'[i].before = Capture(queue'[i].actor)
        BY <1>7, <1>2 DEF IInv, QueueInv, Idle
      <3>2. \A i, j \in 1..Len(queue') : queue'[i].actor = queue'[j].actor => i = j
        BY <1>2 DEF IInv, QueueInv
      <3>3. Started' /\ Idle(Cloud)' /\ \A r \in journal' : Kind(r.actor) = "batch"
        BY <1>7, <1>s, <1>i, <1>o, <1>5 DEF Started, Idle, Actors
      <3> QED BY <3>1, <3>2, <3>3, <1>5 DEF QueueInv, Idle, Capture
    <2> QED BY <2>1, <2>2, <2>3, <2>4 DEF IInv
  <1>8. CASE AvailableFor("batch") /\ Opened(b.actor, b.before, b.after)
    <2>1. journal = {}
      BY <1>8, <1>s, <1>o DEF IInv, FenceInv, Started, AvailableFor
    <2>2. /\ \A r \in journal' \cup recovering' : IsRecord(r)
          /\ \A r \in journal' : r.actor = b.actor /\ Uniform(r.actor, r.after)
          /\ run' = [a \in Actors |-> run'[a]]
          /\ \A a \in Actors : run'[a] \in RunsOf(a) \cup {NoRun}
          /\ \A a \in Actors : run'[a] = NoRun \/ (a = b.actor /\ run'[a].stage = "forward")
          /\ blocked' \subseteq Kinds
          /\ OneRecord' /\ RunInv' /\ ProgressInv' /\ FenceInv'
      BY <2>1, <1>1, <1>3, <1>4, <1>5, <1>8, OpenedFacts
    <2>3. TypeOK'
      BY <2>2, <1>2, <1>5 DEF IInv, TypeOK
    <2>4. UniformInv'
      BY <2>2, <1>2 DEF IInv, UniformInv
    <2>5. QueueInv'
      <3>1. \A i \in 1..Len(queue') : /\ run'[queue'[i].actor] = NoRun
                                      /\ queue'[i].before = Capture(queue'[i].actor)
        BY <2>2, <1>2, <1>6 DEF IInv, QueueInv, Actors
      <3>2. \A i, j \in 1..Len(queue') : queue'[i].actor = queue'[j].actor => i = j
        BY <1>2 DEF IInv, QueueInv
      <3>3. Started' /\ Idle(Cloud)'
        BY <2>2, <1>3, <1>s, <1>5, CellFacts DEF Started, Idle, Actors
      <3>4. \A r \in journal' : Kind(r.actor) = "batch"
        BY <2>2, <1>3, CellFacts
      <3> QED BY <3>1, <3>2, <3>3, <3>4, <1>5 DEF QueueInv, Idle, Capture
    <2> QED BY <2>2, <2>3, <2>4, <2>5 DEF IInv
  <1> QED BY <1>7, <1>8 DEF BatchStart, b

LEMMA ImportStartInv == IInv /\ ImportStart => IInv'
  <1> SUFFICES ASSUME IInv, ImportStart PROVE IInv'
    OBVIOUS
  <1>1. journal = {} /\ up /\ queue = <<>>
    BY NoRecords DEF ImportStart, Started
  <1>2. PICK new \in [Environments -> Values] :
          Opened(Cloud, preview, [c \in CellsOf(Cloud) |-> new[c[2]]])
    BY DEF ImportStart
  <1> DEFINE after == [c \in CellsOf(Cloud) |-> new[c[2]]]
  <1>3. Cloud \in Actors /\ Uniform(Cloud, after)
    BY DEF Actors, Uniform
  <1>4. after \in Snapshots(Cloud)
    BY CellFacts DEF Snapshots, Cells
  <1>5. preview \in Snapshots(Cloud) /\ preview = Capture(Cloud)
    <2>1. disk \in Snapshots(Cloud) /\ disk = [c \in CellsOf(Cloud) |-> disk[c]]
      BY CellFacts DEF IInv, TypeOK, Snapshots
    <2> QED BY <2>1 DEF ImportStart, Capture
  <1>6. /\ disk' = disk /\ up' = up /\ recovering' = recovering /\ blockAll' = blockAll
        /\ keyring' = keyring /\ preview' = NoPreview /\ importing' \in BOOLEAN
        /\ queue' = queue /\ edits' = edits
    BY DEF ImportStart
  <1>7. Opened(Cloud, preview, after)
    BY <1>2
  <1> HIDE DEF after
  <1>8. /\ \A r \in journal' \cup recovering' : IsRecord(r)
        /\ \A r \in journal' : Uniform(r.actor, r.after)
        /\ run' = [b \in Actors |-> run'[b]]
        /\ \A b \in Actors : run'[b] \in RunsOf(b) \cup {NoRun}
        /\ blocked' \subseteq Kinds
        /\ OneRecord' /\ RunInv' /\ ProgressInv' /\ FenceInv'
    BY <1>1, <1>3, <1>4, <1>5, <1>6, <1>7, OpenedFacts
  <1>9. TypeOK'
    BY <1>6, <1>8 DEF IInv, TypeOK
  <1>10. UniformInv' /\ QueueInv'
    BY <1>1, <1>6, <1>8 DEF UniformInv, QueueInv
  <1> QED BY <1>8, <1>9, <1>10 DEF IInv

\* A step that lets the commit or recovery of a go on with `x`, or end.
LEMMA StepFacts ==
  ASSUME IInv, NEW a \in Actors, ~Idle(a), NEW x, run' = [run EXCEPT ![a] = x]
  PROVE  /\ run'[a] = x /\ \A b \in Actors : b # a => run'[b] = NoRun /\ run[b] = NoRun
         /\ run' = [b \in Actors |-> run'[b]]
         /\ \A i \in 1..Len(queue) : queue[i].actor \in Environments /\ queue[i].actor # a
         /\ up /\ recovering = {} /\ journal = {run[a].record}
  <1>1. up /\ recovering = {} /\ run[a].record \in journal /\ run[a].record.actor = a
    BY DEF IInv, RunInv
  <1>2. journal = {run[a].record}
    BY <1>1 DEF IInv, OneRecord
  <1>3. \A b \in Actors : b # a => run[b] = NoRun
    BY <1>1, <1>2 DEF IInv, RunInv, Idle
  <1>4. \A i \in 1..Len(queue) : queue[i].actor \in Environments /\ queue[i].actor # a
    BY DEF IInv, QueueInv, TypeOK, Batches, BatchesOf
  <1> QED BY <1>1, <1>2, <1>3, <1>4 DEF IInv, TypeOK

\* The queue does not mind, as long as what it captured is not written to.
LEMMA StepQueue ==
  ASSUME IInv, NEW a \in Actors, ~Idle(a), NEW x, run' = [run EXCEPT ![a] = x],
         \A c \in Cells \ CellsOf(a) : disk'[c] = disk[c],
         x = NoRun \/ x.stage = run[a].stage \/ x.stage # "recover",
         up' = up, recovering' = recovering, queue' = queue,
         \A r \in journal' : r.actor = a
  PROVE  QueueInv'
  <1>1. /\ run'[a] = x /\ \A b \in Actors : b # a => run'[b] = NoRun /\ run[b] = NoRun
        /\ \A i \in 1..Len(queue) : queue[i].actor \in Environments /\ queue[i].actor # a
        /\ journal = {run[a].record} /\ run[a].record.actor = a
    BY StepFacts DEF IInv, RunInv
  <1>2. queue = <<>> \/ a \in Environments
    BY <1>1, CellFacts DEF IInv, QueueInv, Actors
  <1>3. \A i \in 1..Len(queue') : /\ run'[queue'[i].actor] = NoRun
                                  /\ queue'[i].before = [c \in CellsOf(queue'[i].actor) |-> disk'[c]]
    <2> SUFFICES ASSUME NEW i \in 1..Len(queue)
                 PROVE  /\ run'[queue[i].actor] = NoRun
                        /\ queue[i].before = [c \in CellsOf(queue[i].actor) |-> disk'[c]]
      OBVIOUS
    <2>0. queue # <<>>
      OBVIOUS
    <2>1. /\ queue[i].actor \in Environments /\ queue[i].actor # a /\ a \in Environments
          /\ queue[i].actor \in Actors
      BY <1>1, <1>2, <2>0 DEF Actors
    <2>2. \A c \in CellsOf(queue[i].actor) : c \in Cells \ CellsOf(a)
      BY <2>1, CellFacts
    <2>3. queue[i].before = [c \in CellsOf(queue[i].actor) |-> disk[c]]
      BY DEF IInv, QueueInv, Capture
    <2> QED BY <1>1, <2>1, <2>2, <2>3
  <1>4. queue' # <<>> => Started'
    BY <1>1 DEF IInv, QueueInv, Started, Idle
  <1>5. queue' # <<>> => Idle(Cloud)' /\ \A r \in journal' : Kind(r.actor) = "batch"
    BY <1>1, <1>2, CellFacts DEF Idle, Actors
  <1> QED BY <1>3, <1>4, <1>5 DEF IInv, QueueInv, Idle, Capture

LEMMA WriteInv ==
  ASSUME IInv, NEW a \in Actors, Write(a)
  PROVE  IInv'
  <1>1. PICK cells \in NextWrites(run[a].todo) :
          /\ disk' = [c \in Cells |-> IF c \in cells THEN Target(run[a])[c] ELSE disk[c]]
          /\ run' = [run EXCEPT ![a].todo = @ \ cells]
    BY DEF Write
  <1> DEFINE r == run[a].record
             x == [stage |-> run[a].stage, record |-> r, todo |-> run[a].todo \ cells]
  <1>2. /\ ~Idle(a) /\ run[a].stage # "committed"
        /\ journal' = journal /\ up' = up /\ recovering' = recovering /\ queue' = queue
        /\ blocked' = blocked /\ blockAll' = blockAll /\ keyring' = keyring
        /\ preview' = preview /\ importing' = importing /\ edits' = edits
    BY DEF Write
  <1>3. /\ run[a] \in RunsOf(a)
        /\ run[a] = [stage |-> run[a].stage, record |-> r, todo |-> run[a].todo]
        /\ run[a].stage \in Stages /\ r \in RecordsOf(a) /\ r.actor = a
        /\ r.before \in Snapshots(a) /\ r.after \in Snapshots(a)
        /\ Target(run[a]) \in Snapshots(a)
        /\ run[a].todo \subseteq CellsOf(a)
    BY <1>2, RunFacts DEF IInv
  <1>4. cells \subseteq run[a].todo
    BY WritesWithinTodo
  <1>5. run' = [run EXCEPT ![a] = x]
    <2>1. [run[a] EXCEPT !.todo = @ \ cells] = x
      BY <1>3
    <2>2. run' = [run EXCEPT ![a] = [run[a] EXCEPT !.todo = @ \ cells]]
      BY <1>1
    <2> QED BY <2>1, <2>2
  <1>6. x \in RunsOf(a) /\ x # NoRun
    BY <1>3, NoRunAssumption DEF RunsOf
  <1>7. x.stage = run[a].stage /\ x.record = r /\ x.todo = run[a].todo \ cells
        /\ Target(x) = Target(run[a])
    BY DEF Target
  <1> HIDE DEF x
  <1>8. /\ run'[a] = x /\ \A b \in Actors : b # a => run'[b] = NoRun /\ run[b] = NoRun
        /\ run' = [b \in Actors |-> run'[b]]
        /\ up /\ journal = {r}
    BY <1>2, <1>5, StepFacts
  <1>9. /\ \A c \in Cells : c \notin cells => disk'[c] = disk[c]
        /\ \A c \in cells : disk'[c] = Target(run[a])[c]
        /\ disk' \in [Cells -> Values]
        /\ cells \subseteq CellsOf(a) /\ CellsOf(a) \subseteq Cells
    BY <1>1, <1>3, <1>4, CellFacts DEF IInv, TypeOK, Snapshots
  <1>10. TypeOK'
    BY <1>2, <1>6, <1>8, <1>9 DEF IInv, TypeOK, IsRecord
  <1>11. OneRecord' /\ FenceInv' /\ UniformInv'
    BY <1>2 DEF IInv, OneRecord, FenceInv, UniformInv
  <1>12. RunInv'
    BY <1>2, <1>6, <1>7, <1>8 DEF IInv, RunInv, Idle
  <1>13. ProgressInv'
    <2>1. \A c \in CellsOf(a) \ x.todo : disk'[c] = Target(x)[c]
      BY <1>2, <1>7, <1>9 DEF IInv, ProgressInv
    <2>2. \A c \in cells : Target(run[a])[c] \in {r.before[c], r.after[c]}
      BY DEF Target, Settles
    <2>3. Kind(a) = "batch" =>
            ~ \E c \in CellsOf(r.actor) : disk'[c] \notin {r.before[c], r.after[c]}
      BY <1>2, <1>3, <1>9, <2>2 DEF IInv, ProgressInv, ThirdState
    <2> QED BY <1>7, <1>8, <2>1, <2>3 DEF ProgressInv, ThirdState, Idle
  <1>14. QueueInv'
    BY <1>2, <1>3, <1>5, <1>7, <1>8, <1>9, StepQueue
  <1> QED BY <1>10, <1>11, <1>12, <1>13, <1>14 DEF IInv

\* A commit turns back: everything is to be written again.
LEMMA BackInv ==
  ASSUME IInv, NEW a \in Actors, ~Idle(a), run[a].stage = "forward", RollsBack(a),
         UNCHANGED <<disks, keyring, up, recovering, blocked, blockAll, queue, preview,
                     importing, edits>>
  PROVE  IInv'
  <1> DEFINE r == run[a].record
             x == [stage |-> "back", record |-> r, todo |-> CellsOf(a)]
  <1>1. /\ run[a] = [stage |-> run[a].stage, record |-> r, todo |-> run[a].todo]
        /\ r \in RecordsOf(a) /\ r.actor = a
    BY RunFacts DEF IInv
  <1>2. run' = [run EXCEPT ![a] = x]
    BY DEF RollsBack
  <1>3. x \in RunsOf(a) /\ x # NoRun
    BY <1>1, NoRunAssumption DEF RunsOf, Stages
  <1>4. x.stage = "back" /\ x.record = r /\ x.todo = CellsOf(a)
    OBVIOUS
  <1> HIDE DEF x
  <1>5. /\ run'[a] = x /\ \A b \in Actors : b # a => run'[b] = NoRun /\ run[b] = NoRun
        /\ run' = [b \in Actors |-> run'[b]]
        /\ up /\ journal = {r}
    BY <1>2, StepFacts
  <1>6. TypeOK'
    BY <1>3, <1>5 DEF IInv, TypeOK, IsRecord, disks
  <1>7. OneRecord' /\ FenceInv' /\ UniformInv'
    BY DEF IInv, OneRecord, FenceInv, UniformInv, disks
  <1>8. RunInv'
    BY <1>3, <1>4, <1>5 DEF IInv, RunInv, Idle, disks
  <1>9. ProgressInv'
    BY <1>4, <1>5 DEF IInv, ProgressInv, Idle, ThirdState, disks
  <1>10. QueueInv'
    BY <1>1, <1>2, <1>4, <1>5, StepQueue DEF disks
  <1> QED BY <1>6, <1>7, <1>8, <1>9, <1>10 DEF IInv

\* A commit or recovery ends; its record may or may not be gone.
LEMMA EndInv ==
  ASSUME IInv, NEW a \in Actors, ~Idle(a), Ends(a),
         \/ UNCHANGED <<journal, blocked>>
         \/ journal' = journal \ {run[a].record} /\ blocked' = blocked \ {Kind(a)},
         UNCHANGED <<disk, keyring, up, recovering, blockAll, queue, preview, edits>>
  PROVE  IInv'
  <1>1. /\ run'[a] = NoRun /\ \A b \in Actors : b # a => run'[b] = NoRun /\ run[b] = NoRun
        /\ run' = [b \in Actors |-> run'[b]]
        /\ up /\ recovering = {} /\ journal = {run[a].record} /\ run[a].record.actor = a
    BY StepFacts DEF Ends, IInv, RunInv
  <1>2. journal' = {} \/ (journal' = journal /\ blocked' = blocked)
    BY <1>1
  <1>3. TypeOK'
    BY <1>1, <1>2 DEF IInv, TypeOK, IsRecord, Ends
  <1>4. OneRecord' /\ FenceInv' /\ UniformInv'
    BY <1>1, <1>2 DEF IInv, OneRecord, FenceInv, UniformInv
  <1>5. RunInv' /\ ProgressInv'
    BY <1>1 DEF RunInv, ProgressInv, Idle
  <1>6. QueueInv'
    BY <1>1, <1>2, StepQueue DEF Ends
  <1> QED BY <1>3, <1>4, <1>5, <1>6 DEF IInv

LEMMA WriteFailsInv ==
  ASSUME IInv, NEW a \in Actors, WriteFails(a)
  PROVE  IInv'
  <1>1. CASE run[a].stage = "forward"
    BY <1>1, BackInv DEF WriteFails
  <1>2. CASE run[a].stage # "forward"
    BY <1>2, EndInv DEF WriteFails, disks
  <1> QED BY <1>1, <1>2

LEMMA CommitFailsInv ==
  ASSUME IInv, NEW a \in Actors, CommitFails(a)
  PROVE  IInv'
  BY BackInv DEF CommitFails

LEMMA FinishInv ==
  ASSUME IInv, NEW a \in Actors, Finish(a)
  PROVE  IInv'
  BY EndInv DEF Finish

LEMMA CommitInv ==
  ASSUME IInv, NEW a \in Actors, Commit(a)
  PROVE  IInv'
  <1> DEFINE r == run[a].record
             m == Marked(r)
             x == [stage |-> "committed", record |-> m, todo |-> {}]
  <1>1. /\ ~Idle(a) /\ run[a].stage = "forward" /\ run[a].todo = {}
        /\ journal' = (journal \ {r}) \cup {m} /\ run' = [run EXCEPT ![a] = x]
        /\ disk' = disk /\ up' = up /\ recovering' = recovering /\ queue' = queue
        /\ blocked' = blocked /\ blockAll' = blockAll /\ keyring' = keyring
        /\ preview' = preview /\ importing' = importing /\ edits' = edits
    BY DEF Commit
  <1>2. r \in RecordsOf(a) /\ r.actor = a
    BY <1>1, RunFacts DEF IInv
  <1>3. /\ m \in RecordsOf(a) /\ m.actor = a /\ m.phase = "committed"
        /\ m.before = r.before /\ m.after = r.after
    BY <1>2 DEF RecordsOf, Marked
  <1>4. x \in RunsOf(a) /\ x # NoRun
    BY <1>3, NoRunAssumption DEF RunsOf, Stages
  <1>5. x.stage = "committed" /\ x.record = m /\ x.todo = {}
    OBVIOUS
  <1>6. Target(x) = r.after /\ Target(run[a]) = r.after
    BY <1>1, <1>3, <1>5 DEF Target, Settles
  <1> HIDE DEF x, m
  <1>7. /\ run'[a] = x /\ \A b \in Actors : b # a => run'[b] = NoRun /\ run[b] = NoRun
        /\ run' = [b \in Actors |-> run'[b]]
        /\ up /\ recovering = {} /\ journal = {r}
    BY <1>1, StepFacts
  <1>8. journal' = {m}
    BY <1>1, <1>7
  <1>9. TypeOK'
    BY <1>1, <1>3, <1>4, <1>7, <1>8 DEF IInv, TypeOK, IsRecord
  <1>10. OneRecord' /\ RunInv'
    BY <1>1, <1>3, <1>4, <1>5, <1>7, <1>8 DEF OneRecord, RunInv, Idle
  <1>11. FenceInv' /\ UniformInv'
    BY <1>1, <1>2, <1>3, <1>7, <1>8 DEF IInv, FenceInv, UniformInv, Uniform
  <1>12. ProgressInv'
    <2>1. \A c \in CellsOf(a) : disk[c] = r.after[c]
      BY <1>1, <1>6 DEF IInv, ProgressInv
    <2> QED BY <2>1, <1>1, <1>3, <1>5, <1>6, <1>7 DEF IInv, ProgressInv, ThirdState, Idle
  <1>13. QueueInv'
    <2>1. x = NoRun \/ x.stage = run[a].stage \/ x.stage # "recover"
      BY <1>5
    <2> QED BY <2>1, <1>1, <1>3, <1>8, StepQueue
  <1> QED BY <1>9, <1>10, <1>11, <1>12, <1>13 DEF IInv

LEMMA RecoverInv ==
  ASSUME IInv, NEW r \in recovering, Recover(r)
  PROVE  IInv'
  <1> DEFINE a == r.actor
             x == [stage |-> "recover", record |-> r, todo |-> CellsOf(a)]
  <1>1. /\ up /\ recovering' = recovering \ {r} /\ \A b \in Actors : run[b] = NoRun
        /\ disk' = disk /\ journal' = journal /\ keyring' = keyring /\ up' = up
        /\ queue' = queue /\ preview' = preview /\ importing' = importing /\ edits' = edits
    BY DEF Recover, NextRecord, Idle, disks
  <1>2. r \in journal /\ journal = {r} /\ recovering' = {}
    BY <1>1 DEF IInv, FenceInv, OneRecord
  <1>3. a \in Actors /\ r \in RecordsOf(a)
    BY DEF IInv, TypeOK, IsRecord, RecordsOf
  <1>4. queue = <<>>
    BY DEF IInv, QueueInv, Started
  <1>5. x \in RunsOf(a) /\ x # NoRun
    BY <1>3, NoRunAssumption DEF RunsOf, Stages
  <1>6. x.stage = "recover" /\ x.record = r /\ x.todo = CellsOf(a)
    OBVIOUS
  <1>7. OneRecord' /\ UniformInv' /\ QueueInv'
    BY <1>1, <1>4 DEF IInv, OneRecord, UniformInv, QueueInv
  <1>8. CASE UNCHANGED run /\ blocked' \cup blockAll' = blocked \cup blockAll \cup {Kind(a)}
             /\ blocked' \subseteq Kinds /\ blockAll' \subseteq Kinds
    <2>1. TypeOK'
      BY <1>8, <1>1 DEF IInv, TypeOK, IsRecord
    <2>2. RunInv' /\ ProgressInv' /\ FenceInv'
      BY <1>8, <1>1, <1>2 DEF RunInv, ProgressInv, FenceInv, Idle
    <2> QED BY <1>7, <2>1, <2>2 DEF IInv
  <1> HIDE DEF x
  <1>9. CASE /\ ~Refuses(r) /\ run' = [run EXCEPT ![a] = x]
             /\ blocked' = blocked \cup {Kind(a)} /\ blockAll' = blockAll
    <2>1. /\ run'[a] = x /\ \A b \in Actors : b # a => run'[b] = NoRun
          /\ run' = [b \in Actors |-> run'[b]]
      BY <1>1, <1>3, <1>9 DEF IInv, TypeOK
    <2>2. TypeOK'
      BY <1>9, <1>1, <1>3, <1>5, <2>1, CellFacts DEF IInv, TypeOK, IsRecord
    <2>3. RunInv'
      BY <1>1, <1>2, <1>6, <2>1 DEF RunInv, Idle
    <2>4. ProgressInv'
      BY <1>1, <1>9, <1>6, <2>1 DEF ProgressInv, Idle, ThirdState, Refuses
    <2>5. FenceInv'
      BY <1>1, <1>2, <1>9 DEF FenceInv
    <2> QED BY <1>7, <2>2, <2>3, <2>4, <2>5 DEF IInv
  <1>10. blocked \subseteq Kinds /\ blockAll \subseteq Kinds /\ Kind(a) \in Kinds
    BY <1>3, CellFacts DEF IInv, TypeOK
  <1> QED BY <1>8, <1>9, <1>10 DEF Recover, x

THEOREM Inductive == Spec => []IInv
  <1>1. IInv /\ [Next]_vars => IInv'
    <2> SUFFICES ASSUME IInv, [Next]_vars PROVE IInv'
      OBVIOUS
    <2>1. ASSUME NEW e \in Environments, Save(e) \/ BatchBegin(e) PROVE IInv'
      BY <2>1, SaveInv, BatchBeginInv
    <2>2. ASSUME BatchStart \/ Preview \/ ImportBegin \/ ImportStart \/ ImportRefused
          PROVE  IInv'
      BY <2>2, BatchStartInv, PreviewInv, ImportBeginInv, ImportStartInv, ImportRefusedInv
    <2>3. ASSUME NEW a \in Actors, CommitStep(a) PROVE IInv'
      BY <2>3, WriteInv, WriteFailsInv, CommitInv, CommitFailsInv, FinishInv DEF CommitStep
    <2>4. ASSUME NEW r \in recovering, Recover(r) PROVE IInv'
      BY <2>4, RecoverInv
    <2>5. ASSUME Stop \/ Start \/ KeyringFlips PROVE IInv'
      BY <2>5, StopInv, StartInv, KeyringInv
    <2>6. ASSUME NEW c \in Cells, HandEdit(c) PROVE IInv'
      BY <2>6, HandEditInv
    <2>7. CASE UNCHANGED vars
      <3>1. TypeOK'
        BY <2>7 DEF IInv, vars, disks, memory, TypeOK, IsRecord
      <3>2. (OneRecord /\ RunInv /\ ProgressInv /\ FenceInv)'
        BY <2>7 DEF IInv, vars, disks, memory, OneRecord, RunInv, ProgressInv, FenceInv, Idle,
                    ThirdState
      <3>3. (UniformInv /\ QueueInv)'
        BY <2>7 DEF IInv, vars, disks, memory, UniformInv, QueueInv, Idle, Capture, Started
      <3> QED BY <3>1, <3>2, <3>3 DEF IInv
    <2> QED BY <2>1, <2>2, <2>3, <2>4, <2>5, <2>6, <2>7 DEF Next
  <1> QED BY <1>1, InitInv, PTL DEF Spec
-----------------------------------------------------------------------------
(* For any number of environments and versions the state of the files and  *)
(* of the journals is well typed.                                          *)
THEOREM TypeCorrect == Spec => []TypeOK
  BY Inductive, PTL DEF IInv

(* A project never has two records, of the same kind or of both, whatever  *)
(* failed and wherever the program stopped.                                *)
THEOREM SingleRecord == Spec => []OneRecord
  BY Inductive, PTL DEF IInv

\* What a step writes while a record is on disk.
LEMMA WritesOfStep ==
  ASSUME IInv, [Next]_vars, up, NEW r \in journal, NEW c \in CellsOf(r.actor),
         disk'[c] # disk[c]
  PROVE  /\ ~Idle(r.actor) /\ disk'[c] = Target(run[r.actor])[c]
         /\ run[r.actor].record = r
  <1>0. r.actor \in Actors /\ c \in Cells
    BY CellFacts DEF IInv, TypeOK, IsRecord, RecordsOf
  <1>1. ASSUME NEW a \in Actors, Write(a)
        PROVE  /\ ~Idle(r.actor) /\ disk'[c] = Target(run[r.actor])[c]
               /\ run[r.actor].record = r
    <2>1. ~Idle(a) /\ run[a].record = r /\ r.actor = a
      BY <1>1 DEF Write, IInv, RunInv, OneRecord
    <2>2. disk'[c] = Target(run[a])[c]
      BY <1>0, <1>1 DEF Write
    <2> QED BY <2>1, <2>2
  <1>2. ASSUME NEW e \in Environments, Save(e) PROVE FALSE
    BY <1>2, NoRecords DEF Save, Admitted
  <1>3. CASE disk' = disk
    BY <1>3
  <1>4. ASSUME NEW a \in Actors, CommitStep(a) PROVE Write(a) \/ disk' = disk
    BY <1>4 DEF CommitStep, WriteFails, Commit, CommitFails, Finish, disks
  <1>5. \/ disk' = disk \/ (\E e \in Environments : Save(e))
        \/ \E a \in Actors : Write(a)
    BY <1>4 DEF Next, vars, disks, BatchBegin, BatchStart, Preview, ImportBegin, ImportStart,
                ImportRefused, Recover, Stop, Start, KeyringFlips, HandEdit
  <1> QED BY <1>1, <1>2, <1>3, <1>5

(* Nothing but its own commit or recovery writes to the cells of a record. *)
THEOREM Quarantine == Spec => OnlyItsRecordWrites
  <1>1. IInv /\ [Next]_vars =>
          [\A r \in journal, c \in Cells :
             (up /\ c \in CellsOf(r.actor) /\ disk'[c] # disk[c]) =>
               ~Idle(r.actor) /\ disk'[c] = Target(run[r.actor])[c]]_vars
    BY WritesOfStep
  <1> QED BY <1>1, Inductive, PTL DEF Spec, OnlyItsRecordWrites

(* No recovery of a batch overwrites what was edited by hand.              *)
THEOREM EditsKept == Spec => HandEditsKept
  <1>1. ASSUME IInv, [Next]_vars, NEW r \in journal, NEW c \in Cells, up,
               Kind(r.actor) = "batch", c \in CellsOf(r.actor),
               disk[c] \notin {r.before[c], r.after[c]}, disk'[c] # disk[c]
        PROVE  FALSE
    <2>1. ~Idle(r.actor) /\ run[r.actor].record = r
      BY <1>1, WritesOfStep
    <2>2. r.actor \in Actors
      BY <1>1 DEF IInv, TypeOK, IsRecord, RecordsOf
    <2> QED BY <1>1, <2>1, <2>2 DEF IInv, ProgressInv, ThirdState
  <1>2. IInv /\ [Next]_vars =>
          [\A r \in journal, c \in Cells :
             (/\ up /\ Kind(r.actor) = "batch" /\ c \in CellsOf(r.actor)
              /\ disk[c] \notin {r.before[c], r.after[c]}) => disk'[c] = disk[c]]_vars
    BY <1>1
  <1> QED BY <1>2, Inductive, PTL DEF Spec, HandEditsKept
-----------------------------------------------------------------------------
\* What a restart shows, in the two cases there are.
Shown(r, d) ==
  [c \in Cells |-> IF c \in CellsOf(r.actor) THEN Settles(r)[c] ELSE d[c]]

LEMMA LogicalFacts ==
  ASSUME TypeOK
  PROVE  /\ journal = {} => Logical = disk
         /\ \A r : journal = {r} => Logical = Shown(r, disk)
  BY DEF TypeOK, Logical, Shown

LEMMA LogicalFactsPrimed ==
  ASSUME TypeOK'
  PROVE  /\ journal' = {} => Logical' = disk'
         /\ \A r : journal' = {r} => Logical' = Shown(r, disk')
  BY DEF TypeOK, Logical, Shown

LEMMA NoChange ==
  ASSUME disk' = disk, journal' = journal
  PROVE  Logical' = Logical
  BY DEF Logical

\* The first write of a commit is not seen by a restart.
LEMMA OpeningUnseen ==
  ASSUME IInv, IInv', NEW a \in Actors, NEW after, journal = {}, disk' = disk,
         Opened(a, Capture(a), after)
  PROVE  Logical' = Logical
  <1>1. CASE journal' = journal
    BY <1>1, NoChange
  <1>2. CASE journal' = {Prepared(a, Capture(a), after)}
    <2> DEFINE r == Prepared(a, Capture(a), after)
    <2>1. r.actor = a /\ Settles(r) = Capture(a)
      BY DEF Prepared, Settles
    <2> HIDE DEF r
    <2>2. Logical' = Shown(r, disk')
      BY <1>2, LogicalFactsPrimed DEF IInv, r
    <2>3. Shown(r, disk) = disk
      BY <2>1 DEF Shown, Capture, IInv, TypeOK
    <2> QED BY <2>2, <2>3, LogicalFacts DEF IInv
  <1> QED BY <1>1, <1>2 DEF Opened

\* The same cells and the same scopes on both levels.
LEMMA SameCells ==
  /\ Atomic!Cells = Cells
  /\ \A a \in Actors : CellsOf(a) = Atomic!Over(Scope(a))
  /\ \A a \in Actors : Scope(a) \in {Environments} \cup {{e} : e \in Environments}
  BY CommitAssumption DEF Atomic!Cells, Atomic!Slots, Atomic!Over, Cells, CellsOf, Slots, Scope,
     Actors

LEMMA WriteUnseen ==
  ASSUME IInv, IInv', NEW a \in Actors, Write(a)
  PROVE  Logical' = Logical
  <1> DEFINE r == run[a].record
  <1>1. journal = {r} /\ r.actor = a /\ journal' = journal
    BY DEF Write, IInv, RunInv, OneRecord
  <1>2. \A c \in Cells \ CellsOf(a) : disk'[c] = disk[c]
    <2>1. ~Idle(a)
      BY DEF Write
    <2>2. run[a].todo \subseteq CellsOf(a)
      BY <2>1, RunFacts DEF IInv
    <2> QED BY <2>2, WritesWithinTodo DEF Write
  <1> HIDE DEF r
  <1>3. Shown(r, disk') = Shown(r, disk)
    BY <1>1, <1>2 DEF Shown
  <1> QED BY <1>1, <1>3, LogicalFacts, LogicalFactsPrimed DEF IInv

LEMMA FinishUnseen ==
  ASSUME IInv, IInv', NEW a \in Actors, Finish(a)
  PROVE  Logical' = Logical
  <1> DEFINE r == run[a].record
  <1>1. /\ journal = {r} /\ r.actor = a /\ disk' = disk
        /\ ~Idle(a) /\ run[a].stage # "forward" /\ run[a].todo = {}
        /\ journal' = journal \/ journal' = {}
    BY DEF Finish, IInv, RunInv, OneRecord
  <1>2. \A c \in CellsOf(a) : disk[c] = Settles(r)[c]
    BY <1>1 DEF IInv, ProgressInv, Target
  <1> HIDE DEF r
  <1>3. Shown(r, disk) = disk
    BY <1>1, <1>2 DEF Shown, IInv, TypeOK
  <1> QED BY <1>1, <1>3, NoChange, LogicalFacts, LogicalFactsPrimed DEF IInv

\* The mark is what replaces everything at once.
LEMMA CommitReplaces ==
  ASSUME IInv, IInv', NEW a \in Actors, Commit(a)
  PROVE  Atomic!Replace(Scope(a))
  <1> DEFINE r == run[a].record
             new == [e \in Scope(a) |-> r.after[<<"file", e>>]]
  <1>1. /\ journal = {r} /\ r.actor = a /\ disk' = disk /\ up /\ up' = up /\ ~Idle(a)
        /\ journal' = (journal \ {r}) \cup {Marked(r)} /\ r \in journal
    BY DEF Commit, IInv, RunInv, OneRecord
  <1>2. r \in RecordsOf(a) /\ r.after \in Snapshots(a) /\ Uniform(a, r.after)
    BY <1>1, RunFacts DEF IInv, UniformInv
  <1>3. journal' = {Marked(r)} /\ Marked(r).actor = a /\ Settles(Marked(r)) = r.after
    BY <1>1, <1>2 DEF Marked, Settles, RecordsOf
  <1>4. \A c \in CellsOf(a) : /\ <<"file", c[2]>> \in CellsOf(a) /\ c[2] \in Scope(a)
                              /\ r.after[c] = new[c[2]]
    <2> SUFFICES ASSUME NEW c \in CellsOf(a)
                 PROVE  /\ <<"file", c[2]>> \in CellsOf(a) /\ c[2] \in Scope(a)
                        /\ r.after[c] = new[c[2]]
      OBVIOUS
    <2>1. c[2] \in Scope(a) /\ <<"file", c[2]>> \in CellsOf(a)
      BY DEF CellsOf, Slots
    <2>2. r.after[c] = r.after[<<"file", c[2]>>]
      BY <1>2, <2>1 DEF Uniform
    <2> QED BY <2>1, <2>2
  <1>5. new \in [Scope(a) -> Values]
    BY <1>2 DEF CellsOf, Slots, Snapshots
  <1> HIDE DEF r, new
  <1>6. Logical = Shown(r, disk) /\ Logical' = Shown(Marked(r), disk)
    BY <1>1, <1>3, LogicalFacts, LogicalFactsPrimed DEF IInv
  <1>7. Logical' = [c \in Cells |-> IF c \in CellsOf(a) THEN new[c[2]] ELSE Logical[c]]
    BY <1>1, <1>3, <1>4, <1>6 DEF Shown
  <1> QED BY <1>1, <1>5, <1>7, SameCells DEF Atomic!Replace

LEMMA SaveReplaces ==
  ASSUME IInv, IInv', NEW e \in Environments, Save(e)
  PROVE  Atomic!Replace({e})
  <1>1. journal = {} /\ journal' = {} /\ up /\ up' = up
    BY NoRecords DEF Save, Admitted, Started, memory
  <1>2. Logical = disk /\ Logical' = disk'
    BY <1>1, LogicalFacts, LogicalFactsPrimed DEF IInv
  <1>3. e \in Actors /\ Scope(e) = {e}
    BY CommitAssumption DEF Actors, Scope
  <1>4. PICK v \in Values :
          disk' = [c \in Cells |-> IF c \in CellsOf(e) THEN v ELSE disk[c]]
    BY DEF Save
  <1> DEFINE new == [f \in {e} |-> v]
  <1>5. new \in [{e} -> Values] /\ \A c \in CellsOf(e) : new[c[2]] = v
    BY <1>3 DEF CellsOf
  <1> HIDE DEF new
  <1>6. disk' = [c \in Cells |-> IF c \in CellsOf(e) THEN new[c[2]] ELSE disk[c]]
    BY <1>4, <1>5
  <1> QED BY <1>1, <1>2, <1>3, <1>5, <1>6, SameCells DEF Atomic!Replace

\* An edit under a record is not seen: the record decides.
LEMMA EditMapped ==
  ASSUME IInv, IInv', NEW c \in Cells, HandEdit(c)
  PROVE  (Logical' = Logical /\ up' = up) \/ Atomic!Edit(c)
  <1>1. PICK v \in Values : disk' = [disk EXCEPT ![c] = v]
    BY DEF HandEdit
  <1>2. journal' = journal /\ ~up /\ up' = up /\ disk \in [Cells -> Values]
    BY DEF HandEdit, memory, IInv, TypeOK
  <1>3. CASE journal = {}
    BY <1>1, <1>2, <1>3, LogicalFacts, LogicalFactsPrimed DEF IInv, Atomic!Edit
  <1>4. ASSUME NEW r, journal = {r} PROVE Logical' = Logical \/ Atomic!Edit(c)
    <2>1. Logical = Shown(r, disk) /\ Logical' = Shown(r, disk')
      BY <1>2, <1>4, LogicalFacts, LogicalFactsPrimed DEF IInv
    <2>2. CASE c \in CellsOf(r.actor)
      BY <1>1, <1>2, <2>1, <2>2 DEF Shown
    <2>3. CASE c \notin CellsOf(r.actor)
      <3>1. Shown(r, disk') = [Shown(r, disk) EXCEPT ![c] = v]
        BY <1>1, <1>2, <2>3 DEF Shown
      <3> QED BY <1>2, <2>1, <3>1 DEF Atomic!Edit
    <2> QED BY <2>2, <2>3
  <1> QED BY <1>2, <1>3, <1>4 DEF IInv, OneRecord

LEMMA BatchStartUnseen ==
  ASSUME IInv, IInv', BatchStart
  PROVE  Logical' = Logical
  <1>1. CASE AvailableFor("batch")
    <2> DEFINE b == Head(queue)
    <2>1. b = queue[1] /\ 1 \in 1..Len(queue) /\ queue[1] \in Batches
      BY DEF BatchStart, IInv, TypeOK
    <2>2. b.actor \in Actors /\ b.actor \in Environments /\ b.before = Capture(b.actor)
      BY <2>1 DEF IInv, QueueInv, Batches, BatchesOf, Actors
    <2>3. journal = {}
      <3>1. up /\ recovering = {} /\ \A r \in journal : Kind(r.actor) = "batch"
        BY DEF BatchStart, IInv, QueueInv, Started
      <3> QED BY <1>1, <3>1 DEF IInv, FenceInv, AvailableFor
    <2>4. Opened(b.actor, Capture(b.actor), b.after) /\ disk' = disk
      BY <1>1, <2>2 DEF BatchStart
    <2> HIDE DEF b
    <2> QED BY <2>2, <2>3, <2>4, OpeningUnseen
  <1>2. CASE ~AvailableFor("batch")
    BY <1>2, NoChange DEF BatchStart
  <1> QED BY <1>1, <1>2

LEMMA ImportStartUnseen ==
  ASSUME IInv, IInv', ImportStart
  PROVE  Logical' = Logical
  <1>1. journal = {} /\ Cloud \in Actors /\ disk' = disk
    BY NoRecords DEF ImportStart, Actors
  <1>2. preview = Capture(Cloud)
    BY CellFacts DEF ImportStart, IInv, TypeOK, Capture
  <1>3. PICK new \in [Environments -> Values] :
          Opened(Cloud, Capture(Cloud), [c \in CellsOf(Cloud) |-> new[c[2]]])
    BY <1>2 DEF ImportStart
  <1> QED BY <1>1, <1>3, OpeningUnseen

LEMMA StepMapped ==
  ASSUME IInv, IInv', [Next]_vars
  PROVE  [Atomic!AtomicNext]_(Atomic!atomicVars)
  <1>1. ASSUME Logical' = Logical, up' = up
        PROVE  [Atomic!AtomicNext]_(Atomic!atomicVars)
    BY <1>1 DEF Atomic!atomicVars
  <1>2. ASSUME NEW e \in Environments, Save(e)
        PROVE  [Atomic!AtomicNext]_(Atomic!atomicVars)
    BY <1>2, SaveReplaces DEF Atomic!AtomicNext
  <1>3. ASSUME NEW e \in Environments, BatchBegin(e)
        PROVE  [Atomic!AtomicNext]_(Atomic!atomicVars)
    BY <1>1, <1>3, NoChange DEF BatchBegin, disks
  <1>4. CASE BatchStart
    BY <1>1, <1>4, BatchStartUnseen DEF BatchStart
  <1>5. CASE ImportStart
    BY <1>1, <1>5, ImportStartUnseen DEF ImportStart
  <1>6. CASE Preview \/ ImportBegin \/ ImportRefused
    BY <1>1, <1>6, NoChange DEF Preview, ImportBegin, ImportRefused, disks
  <1>7. ASSUME NEW a \in Actors, Write(a) \/ Finish(a)
        PROVE  [Atomic!AtomicNext]_(Atomic!atomicVars)
    <2>1. Logical' = Logical
      BY <1>7, WriteUnseen, FinishUnseen
    <2>2. up' = up
      BY <1>7 DEF Write, Finish
    <2> QED BY <1>1, <2>1, <2>2
  <1>8. ASSUME NEW a \in Actors, WriteFails(a) \/ CommitFails(a)
        PROVE  [Atomic!AtomicNext]_(Atomic!atomicVars)
    BY <1>1, <1>8, NoChange DEF WriteFails, CommitFails, disks
  <1>9. ASSUME NEW a \in Actors, Commit(a)
        PROVE  [Atomic!AtomicNext]_(Atomic!atomicVars)
    BY <1>9, CommitReplaces, SameCells DEF Atomic!AtomicNext
  <1>10. ASSUME NEW r \in recovering, Recover(r)
         PROVE  [Atomic!AtomicNext]_(Atomic!atomicVars)
    BY <1>1, <1>10, NoChange DEF Recover, disks
  <1>11. CASE Stop \/ Start
    <2>1. Logical' = Logical /\ up' = ~up
      BY <1>11, NoChange DEF Stop, Start, disks, IInv, TypeOK
    <2> QED BY <2>1 DEF Atomic!AtomicNext, Atomic!StartOrStop
  <1>12. CASE KeyringFlips \/ UNCHANGED vars
    BY <1>1, <1>12, NoChange DEF KeyringFlips, vars, disks, memory
  <1>13. ASSUME NEW c \in Cells, HandEdit(c)
         PROVE  [Atomic!AtomicNext]_(Atomic!atomicVars)
    BY <1>1, <1>13, EditMapped, SameCells DEF Atomic!AtomicNext
  <1> QED BY <1>2, <1>3, <1>4, <1>5, <1>6, <1>7, <1>8, <1>9, <1>10, <1>11, <1>12, <1>13
          DEF Next, CommitStep

(* An import or a batch is, to a restart, one step: all of its cells or    *)
(* none, for any number of environments and whatever fails or crashes.     *)
THEOREM Refinement == Spec => ImplementsAtomic
  <1>1. Init => Atomic!AtomicInit
    <2> SUFFICES ASSUME Init PROVE Atomic!AtomicInit
      OBVIOUS
    <2>1. Logical = disk
      BY InitInv, LogicalFacts DEF IInv, Init
    <2> QED BY <2>1, InitInv, SameCells DEF IInv, TypeOK, Init, Atomic!AtomicInit
  <1>2. IInv /\ IInv' /\ [Next]_vars => [Atomic!AtomicNext]_(Atomic!atomicVars)
    BY StepMapped
  <1> QED BY <1>1, <1>2, Inductive, PTL DEF Spec, ImplementsAtomic, Atomic!AtomicSpec
=============================================================================
