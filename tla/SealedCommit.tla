---------------------------- MODULE SealedCommit ----------------------------
(***************************************************************************)
(* Changes of a project that touch several files and both slots of the     *)
(* credential vault, made one by the encrypted journal of                  *)
(*   CloudConfigWorkspace     src/src/cloud-config-workspace.mjs           *)
(*   PluginBatchTransaction   src/src/plugin-batch-transaction.mjs         *)
(* An import or a restore ("cloud") replaces the whole project, a batch    *)
(* the plugins of one environment.  A cell is one of the files or entries  *)
(* that are replaced: what matters of a file is which version it is, and   *)
(* an absent file is a version too.  The order in which an ordinary save   *)
(* writes its own cells is ConfigTransaction's subject: one step here.     *)
(*                                                                         *)
(* Every write, removal and sealing may fail, the program may stop between *)
(* any two of them, the system keyring comes and goes, and files may be    *)
(* edited by hand while the program is not running.                        *)
(***************************************************************************)
EXTENDS Naturals, Sequences

CONSTANTS
  Environments,   \* of the project
  Cloud,          \* who imports and restores; a batch is named by its environment
  Values,         \* versions of a cell
  NoRun, NoPreview,
  MaxEdits        \* bound: files edited by hand

ASSUME CommitAssumption ==
  /\ Cloud \notin Environments
  /\ MaxEdits \in Nat

VARIABLES
  disk,         \* on disk: the version of every cell
  journal,      \* on disk: the sealed records of both transactions directories
  keyring,      \* safeStorage is available
  up,
  recovering,   \* records recoverAll has still to look at
  blocked,      \* whose `blocked` set holds the project
  blockAll,     \* whose records could not be read
  run,          \* the commit or recovery under way for each actor
  queue,        \* commitQueues: batches waiting for their turn
  preview,      \* what the project held when the import was previewed
  importing,    \* the project is in cloudProjects
  edits         \* files edited by hand so far

disks == <<disk, journal>>
memory == <<up, recovering, blocked, blockAll, run, queue, preview, importing>>
vars == <<disks, keyring, memory, edits>>
-----------------------------------------------------------------------------
Actors == Environments \cup {Cloud}
Kinds == {"cloud", "batch"}
Kind(a) == IF a = Cloud THEN "cloud" ELSE "batch"
Scope(a) == IF a = Cloud THEN Environments ELSE {a}

Slots == {"file", "primary", "secondary"}
Cells == Slots \X Environments
CellsOf(a) == Slots \X Scope(a)

Snapshots(a) == [CellsOf(a) -> Values]
RecordsOf(a) == [actor : {a}, phase : {"prepared", "committed"},
                 before : Snapshots(a), after : Snapshots(a)]
IsRecord(r) == \E a \in Actors : r \in RecordsOf(a)
Stages == {"forward", "back", "committed", "recover"}
RunsOf(a) == [stage : Stages, record : RecordsOf(a), todo : SUBSET CellsOf(a)]
BatchesOf(e) == [actor : {e}, before : Snapshots(e), after : Snapshots(e)]
Batches == UNION {BatchesOf(e) : e \in Environments}

ASSUME NoRunAssumption == \A a \in Actors : NoRun \notin RunsOf(a)

Capture(a) == [c \in CellsOf(a) |-> disk[c]]
Prepared(a, before, after) ==
  [actor |-> a, phase |-> "prepared", before |-> before, after |-> after]

\* A record decides what its cells hold until it is gone.
Settles(r) == IF r.phase = "committed" THEN r.after ELSE r.before
MutantTarget(x) == IF x.stage = "forward" THEN x.record.after ELSE x.record.before
Target(x) == IF x.stage = "forward" THEN x.record.after ELSE Settles(x.record)

\* Neither of the two states the record knows.
ThirdState(r) == \E c \in CellsOf(r.actor) : disk[c] \notin {r.before[c], r.after[c]}

Idle(a) == run[a] = NoRun
Waiting(e) == \E i \in 1..Len(queue) : queue[i].actor = e
Started == up /\ recovering = {} /\ \A a \in Actors : ~Idle(a) => run[a].stage # "recover"

\* assertProjectAvailable of one kind, and of both as the coordinator's guard.
AvailableFor(kind) == kind \notin blocked /\ kind \notin blockAll
MutantAvailable == AvailableFor("cloud")
Available == AvailableFor("cloud") /\ AvailableFor("batch")
Admitted == Started /\ Available /\ ~importing

Init ==
  /\ \E v \in Values : disk = [c \in Cells |-> v]
  /\ journal = {} /\ keyring = TRUE
  /\ up = TRUE /\ recovering = {}
  /\ blocked = {} /\ blockAll = {}
  /\ run = [a \in Actors |-> NoRun]
  /\ queue = <<>>
  /\ preview = NoPreview /\ importing = FALSE
  /\ edits = 0
-----------------------------------------------------------------------------
(* Who may change the project, and when.                                   *)

\* A save of one environment, alone in its mutation queue.
Save(e) ==
  /\ Admitted /\ Idle(e) /\ ~Waiting(e)
  /\ \E v \in Values :
       disk' = [c \in Cells |-> IF c \in CellsOf(e) THEN v ELSE disk[c]]
  /\ UNCHANGED <<journal, keyring, memory, edits>>

\* The mutation of a batch captures its cells and joins the project's queue.
BatchBegin(e) ==
  /\ Admitted /\ Idle(e) /\ ~Waiting(e)
  /\ \E v \in Values :
       queue' = Append(queue, [actor |-> e, before |-> Capture(e),
                               after |-> [c \in CellsOf(e) |-> v]])
  /\ UNCHANGED <<disks, keyring, up, recovering, blocked, blockAll, run,
                 preview, importing, edits>>

\* The backup and the journal record are sealed and written, then the
\* project is blocked; a failure before that leaves no trace.
Opened(a, before, after) ==
  LET record == Prepared(a, before, after) IN
  \/ /\ keyring
     /\ journal' = journal \cup {record}
     /\ blocked' = blocked \cup {Kind(a)}
     /\ run' = [run EXCEPT ![a] =
          [stage |-> "forward", record |-> record, todo |-> CellsOf(a)]]
  \/ UNCHANGED <<journal, blocked, run>>

\* A mutant of BatchStart that does not wait for the previous batch.
MutantBatchStart ==
  /\ Started /\ queue # <<>>
  /\ Idle(Head(queue).actor)
  /\ queue' = Tail(queue)
  /\ Opened(Head(queue).actor, Head(queue).before, Head(queue).after)
  /\ UNCHANGED <<disk, keyring, up, recovering, blockAll, preview, importing, edits>>

\* The oldest batch has its turn once the previous one has ended.
BatchStart ==
  /\ Started /\ queue # <<>>
  /\ \A e \in Environments : Idle(e)
  /\ queue' = Tail(queue)
  /\ LET b == Head(queue) IN
     IF AvailableFor("batch") THEN Opened(b.actor, b.before, b.after)
                              ELSE UNCHANGED <<journal, blocked, run>>
  /\ UNCHANGED <<disk, keyring, up, recovering, blockAll, preview, importing, edits>>

\* prepareDownload, prepareRestore: the project is read twice and shown.
Preview ==
  /\ Started /\ Available /\ ~importing
  /\ preview' = Capture(Cloud)
  /\ UNCHANGED <<disks, keyring, up, recovering, blocked, blockAll, run, queue,
                 importing, edits>>

\* confirm: withProject closes the project to new mutations.
ImportBegin ==
  /\ Admitted /\ preview # NoPreview
  /\ importing' = TRUE
  /\ UNCHANGED <<disks, keyring, up, recovering, blocked, blockAll, run, queue,
                 preview, edits>>

\* Once the mutations that were under way have ended, the project must still
\* be the one that was shown, and quiesce finds no unresolved transaction.
ImportStart ==
  /\ Started /\ importing /\ preview # NoPreview
  /\ queue = <<>> /\ \A a \in Actors : Idle(a)
  /\ disk = preview /\ Available
  /\ preview' = NoPreview
  /\ \E new \in [Environments -> Values] :
       Opened(Cloud, preview, [c \in CellsOf(Cloud) |-> new[c[2]]])
  /\ importing' = (run'[Cloud] # NoRun)
  /\ UNCHANGED <<disk, keyring, up, recovering, blockAll, queue, edits>>

\* The wait ran into its deadline, the project has changed, a connection
\* could not be closed or a transaction of the project is unresolved.
ImportRefused ==
  /\ Started /\ importing /\ preview # NoPreview
  /\ preview' = NoPreview /\ importing' = FALSE
  /\ UNCHANGED <<disks, keyring, up, recovering, blocked, blockAll, run, queue, edits>>
-----------------------------------------------------------------------------
(* CloudConfigWorkspace.commit and replace.                                *)

\* Files one by one, then the entries of the primary slot, then the others.
NextWrites(todo) ==
  LET of(slot) == {c \in todo : c[1] = slot} IN
  IF of("file") # {} THEN {{c} : c \in of("file")}
  ELSE IF of("primary") # {} THEN {of("primary")} ELSE {of("secondary")}

Write(a) ==
  /\ up /\ ~Idle(a) /\ run[a].stage # "committed" /\ run[a].todo # {}
  /\ \E cells \in NextWrites(run[a].todo) :
       /\ disk' = [c \in Cells |-> IF c \in cells THEN Target(run[a])[c] ELSE disk[c]]
       /\ run' = [run EXCEPT ![a].todo = @ \ cells]
  /\ UNCHANGED <<journal, keyring, up, recovering, blocked, blockAll, queue,
                 preview, importing, edits>>

\* The commit or recovery of a is over; an import gives the project back.
Ends(a) ==
  /\ run' = [run EXCEPT ![a] = NoRun]
  /\ importing' = (importing /\ a # Cloud)

MutantRollsBack(a) ==
  run' = [run EXCEPT ![a] =
    [stage |-> "back", record |-> @.record, todo |-> Cells]]

RollsBack(a) ==
  run' = [run EXCEPT ![a] =
    [stage |-> "back", record |-> @.record, todo |-> CellsOf(a)]]

\* replace throws: on the way there the commit turns back; on the way back,
\* or in recoverAll, the project stays blocked with its record.
WriteFails(a) ==
  /\ up /\ ~Idle(a) /\ run[a].stage # "committed" /\ run[a].todo # {}
  /\ IF run[a].stage = "forward" THEN RollsBack(a) /\ UNCHANGED importing ELSE Ends(a)
  /\ UNCHANGED <<disks, keyring, up, recovering, blocked, blockAll, queue,
                 preview, edits>>

Marked(r) == [r EXCEPT !.phase = "committed"]

Commit(a) ==
  /\ up /\ ~Idle(a) /\ run[a].stage = "forward" /\ run[a].todo = {}
  /\ keyring
  /\ journal' = (journal \ {run[a].record}) \cup {Marked(run[a].record)}
  /\ run' = [run EXCEPT ![a] =
       [stage |-> "committed", record |-> Marked(@.record), todo |-> {}]]
  /\ UNCHANGED <<disk, keyring, up, recovering, blocked, blockAll, queue,
                 preview, importing, edits>>

\* The mark cannot be sealed or written: the commit turns back.
CommitFails(a) ==
  /\ up /\ ~Idle(a) /\ run[a].stage = "forward" /\ run[a].todo = {}
  /\ RollsBack(a)
  /\ UNCHANGED <<disks, keyring, up, recovering, blocked, blockAll, queue,
                 preview, importing, edits>>

\* The record is removed and the project unblocked; when it cannot be removed
\* the project stays blocked until the next start.
Finish(a) ==
  /\ up /\ ~Idle(a) /\ run[a].stage # "forward" /\ run[a].todo = {}
  /\ \/ /\ journal' = journal \ {run[a].record}
        /\ blocked' = blocked \ {Kind(a)}
     \/ UNCHANGED <<journal, blocked>>
  /\ Ends(a)
  /\ UNCHANGED <<disk, keyring, up, recovering, blockAll, queue, preview, edits>>
-----------------------------------------------------------------------------
(* recoverAll: imports first, then batches, before anything else starts.   *)

NextRecord(r) ==
  /\ r \in recovering /\ \A a \in Actors : Idle(a)
  /\ Kind(r.actor) = "batch" => \A q \in recovering : Kind(q.actor) = "batch"

MutantRefuses(r) == FALSE

\* A batch leaves alone what it does not know.
Refuses(r) == Kind(r.actor) = "batch" /\ ThirdState(r)

Recover(r) ==
  /\ up /\ NextRecord(r)
  /\ recovering' = recovering \ {r}
  /\ \/ /\ keyring
        /\ blocked' = blocked \cup {Kind(r.actor)}
        /\ run' = IF Refuses(r) THEN run ELSE [run EXCEPT ![r.actor] =
             [stage |-> "recover", record |-> r, todo |-> CellsOf(r.actor)]]
        /\ UNCHANGED blockAll
     \/ /\ blockAll' = blockAll \cup {Kind(r.actor)}
        /\ UNCHANGED <<blocked, run>>
  /\ UNCHANGED <<disks, keyring, up, queue, preview, importing, edits>>

Stop ==
  /\ up /\ up' = FALSE
  /\ recovering' = {} /\ blocked' = {} /\ blockAll' = {}
  /\ run' = [a \in Actors |-> NoRun] /\ queue' = <<>>
  /\ preview' = NoPreview /\ importing' = FALSE
  /\ UNCHANGED <<disks, keyring, edits>>

Start ==
  /\ ~up /\ up' = TRUE
  /\ recovering' = journal
  /\ UNCHANGED <<disks, keyring, blocked, blockAll, run, queue, preview,
                 importing, edits>>

KeyringFlips == keyring' = ~keyring /\ UNCHANGED <<disks, memory, edits>>

HandEdit(c) ==
  /\ ~up /\ edits < MaxEdits
  /\ edits' = edits + 1
  /\ \E v \in Values : disk' = [disk EXCEPT ![c] = v]
  /\ UNCHANGED <<journal, keyring, memory>>
-----------------------------------------------------------------------------
CommitStep(a) ==
  Write(a) \/ WriteFails(a) \/ Commit(a) \/ CommitFails(a) \/ Finish(a)

Next ==
  \/ \E e \in Environments : Save(e) \/ BatchBegin(e)
  \/ BatchStart
  \/ Preview \/ ImportBegin \/ ImportStart \/ ImportRefused
  \/ \E a \in Actors : CommitStep(a)
  \/ \E r \in recovering : Recover(r)
  \/ Stop \/ Start \/ KeyringFlips
  \/ \E c \in Cells : HandEdit(c)

Spec == Init /\ [][Next]_vars
-----------------------------------------------------------------------------
(* Every variable holds what the code can put into it.                     *)
TypeOK ==
  /\ disk \in [Cells -> Values]
  /\ \A r \in journal \cup recovering : IsRecord(r)
  /\ keyring \in BOOLEAN /\ up \in BOOLEAN /\ importing \in BOOLEAN
  /\ blocked \subseteq Kinds /\ blockAll \subseteq Kinds
  /\ run = [a \in Actors |-> run[a]]
  /\ \A a \in Actors : run[a] \in RunsOf(a) \cup {NoRun}
  /\ queue \in Seq(Batches)
  /\ preview \in Snapshots(Cloud) \cup {NoPreview}
  /\ edits \in 0..MaxEdits

\* What a restart would show: the record of a cell decides, if it has one.
Logical ==
  [c \in Cells |->
     IF \E r \in journal : c \in CellsOf(r.actor)
       THEN Settles(CHOOSE r \in journal : c \in CellsOf(r.actor))[c]
       ELSE disk[c]]

Atomic == INSTANCE AtomicProject WITH config <- Logical, running <- up

(* As seen by a restart, all the cells of a commit change in one step or   *)
(* none does; failures, crashes and recoveries in between change nothing,  *)
(* and no save is undone by an older record (commit, replace, recoverAll). *)
ImplementsAtomic == Atomic!AtomicSpec

(* While a record is on disk nothing but its own commit or recovery writes *)
(* to its cells, so that no save that was admitted is lost when the record *)
(* is settled later (assertProjectAvailable, cloudRecoveryGuard, commit).  *)
OnlyItsRecordWrites ==
  [][\A r \in journal, c \in Cells :
       (up /\ c \in CellsOf(r.actor) /\ disk'[c] # disk[c]) =>
         ~Idle(r.actor) /\ disk'[c] = Target(run[r.actor])[c]]_vars

(* A file that was edited by hand into a state a batch does not know is    *)
(* never overwritten by the recovery of that batch (the comment in         *)
(* PluginBatchTransaction.replace).                                        *)
HandEditsKept ==
  [][\A r \in journal, c \in Cells :
       (/\ up /\ Kind(r.actor) = "batch" /\ c \in CellsOf(r.actor)
        /\ disk[c] \notin {r.before[c], r.after[c]}) => disk'[c] = disk[c]]_vars

(* Two records never speak of the same project, so that the order in which *)
(* they are recovered cannot matter (commitQueues, cloudRecoveryGuard).    *)
OneRecord == \A r, q \in journal : r = q
=============================================================================
