------------------------ MODULE MutationCoordinator ------------------------
(***************************************************************************)
(* The per-environment reader/writer coordinator of RunbookBridge          *)
(* (src/src/workspace-mutation-coordinator.mjs) together with the three    *)
(* kinds of caller that rely on it for exclusion:                          *)
(*                                                                         *)
(*   - Agent and desktop operations (readers) and configuration saves      *)
(*     (mutations) of one environment,                                     *)
(*   - edit sessions, which install a fence over an environment, wait for  *)
(*     the running work to drain and later hand the fence to a connection  *)
(*     plan,                                                               *)
(*   - project deletion and cloud synchronisation, which close a whole     *)
(*     project and wait for its activity to end.                           *)
(*                                                                         *)
(* JavaScript is single threaded, so a step is the code between two        *)
(* awaits.  A call the coordinator refuses changes nothing: refusals       *)
(* appear as the guards of the actions.                                    *)
(***************************************************************************)
EXTENDS Integers, Sequences, FiniteSets

CONSTANTS
  Environments,   \* environment keys ("project/environment")
  Projects,       \* project ids
  ProjectOf,      \* the project each environment belongs to
  Operations,     \* concurrent calls (at most one use at a time of each)
  Owners,         \* fence owners: edit-session ids and plan ids
  Unowned         \* the null ownerId

ASSUME CoordinatorAssumption ==
  /\ IsFiniteSet(Operations)
  /\ ProjectOf \in [Environments -> Projects]
  /\ Unowned \notin Owners

VARIABLES
  op,         \* what each call is doing
  readers,    \* environmentActivity[e].readers
  writers,    \* environmentActivity[e].writers
  chain,      \* the promise chain whose tail is environmentQueues[e]
  fence,      \* environmentFences[e]
  client,     \* progress of each fence owner
  deletion,   \* progress of the project-delete handler
  sync        \* progress of the cloud withProject section

vars == <<op, readers, writers, chain, fence, client, deletion, sync>>
-----------------------------------------------------------------------------
OpPhases == {"idle", "queued", "waiting", "ready", "running"}
IdleOp == [phase |-> "idle"]
ActiveOp == [phase : OpPhases \ {"idle"}, kind : {"read", "mutation"}, env : Environments,
             owner : Owners \union {Unowned}]
Fence == [kind : {"none", "edit", "connection-plan"}, owner : Owners \union {Unowned}]
NoFence == [kind |-> "none", owner |-> Unowned]
ClientPhases == {"none", "draining", "exclusive", "planned"}
ScopePhases == {"none", "draining", "exclusive"}

Active(o) == op[o].phase # "idle"
ActiveIn(e) == {o \in Operations : Active(o) /\ op[o].env = e}
Reading(e) == {o \in ActiveIn(e) : op[o].kind = "read"}
Mutating(e) == {o \in ActiveIn(e) : op[o].kind = "mutation"}
EnvironmentsOf(p) == {e \in Environments : ProjectOf[e] = p}

\* Mutant: deletion is not looked at.
ProjectAvailableWhileDeleting(p) == sync[p] = "none"

\* A project being synchronised or deleted refuses every new call.
ProjectAvailable(p) == sync[p] = "none" /\ deletion[p] = "none"

\* A fence refuses everyone but its owner.
EnvironmentAvailable(e, w) ==
  /\ ProjectAvailable(ProjectOf[e])
  /\ fence[e] = NoFence \/ fence[e].owner = w

\* Mutants: the queued mutations, or the readers, are not waited for.
DrainedOfReaders(e) == readers[e] = 0
SettledOfMutations(e) == chain[e] = <<>>

\* waitEnvironmentDrain and waitProjectActivity look at the same two facts.
Drained(e) == readers[e] = 0 /\ writers[e] = 0 /\ chain[e] = <<>>
ActivitySettled(e) == chain[e] = <<>> /\ readers[e] = 0

Init ==
  /\ op = [o \in Operations |-> IdleOp]
  /\ readers = [e \in Environments |-> 0]
  /\ writers = [e \in Environments |-> 0]
  /\ chain = [e \in Environments |-> <<>>]
  /\ fence = [e \in Environments |-> NoFence]
  /\ client = [w \in Owners |-> "none"]
  /\ deletion = [p \in Projects |-> "none"]
  /\ sync = [p \in Projects |-> "none"]
-----------------------------------------------------------------------------
(***************************************************************************)
(* Readers and mutations.  Most callers pass no ownerId; an edit session   *)
(* passes its own, for its own environment, once begin has returned.       *)
(***************************************************************************)
Holds(w, e) == fence[e] # NoFence /\ fence[e].owner = w
Callers(e) == {Unowned} \union {w \in Owners : client[w] = "exclusive" /\ Holds(w, e)}

\* enqueueEnvironmentMutation: counted and chained in the calling step.
EnqueueMutation(o, e, w) ==
  /\ ~Active(o)
  /\ EnvironmentAvailable(e, w)
  /\ op' = [op EXCEPT ![o] = [phase |-> "queued", kind |-> "mutation", env |-> e, owner |-> w]]
  /\ writers' = [writers EXCEPT ![e] = @ + 1]
  /\ chain' = [chain EXCEPT ![e] = Append(@, o)]
  /\ UNCHANGED <<readers, fence, client, deletion, sync>>

\* The predecessor has settled: waitReaders returns at once or parks the
\* mutation on the drain promise.  Nothing is checked again afterwards.
WaitReaders(o) ==
  /\ op[o].phase = "queued"
  /\ LET e == op[o].env IN
     /\ Head(chain[e]) = o
     /\ op' = [op EXCEPT ![o].phase = IF readers[e] = 0 THEN "ready" ELSE "waiting"]
  /\ UNCHANGED <<readers, writers, chain, fence, client, deletion, sync>>

StartMutation(o) ==
  /\ op[o].phase = "ready"
  /\ op' = [op EXCEPT ![o].phase = "running"]
  /\ UNCHANGED <<readers, writers, chain, fence, client, deletion, sync>>

\* Mutant: the counter is decremented twice.
FinishMutationTwice(o) ==
  /\ op[o].phase = "running" /\ op[o].kind = "mutation"
  /\ op' = [op EXCEPT ![o] = IdleOp]
  /\ writers' = [writers EXCEPT ![op[o].env] = @ - 2]
  /\ chain' = [chain EXCEPT ![op[o].env] = Tail(@)]
  /\ UNCHANGED <<readers, fence, client, deletion, sync>>

\* The finally block, whether the mutation succeeded or threw.
FinishMutation(o) ==
  /\ op[o].phase = "running" /\ op[o].kind = "mutation"
  /\ op' = [op EXCEPT ![o] = IdleOp]
  /\ writers' = [writers EXCEPT ![op[o].env] = @ - 1]
  /\ chain' = [chain EXCEPT ![op[o].env] = Tail(@)]
  /\ UNCHANGED <<readers, fence, client, deletion, sync>>

\* Mutant: a reader slips in past a queued mutation.
StartReadBarging(o, e, w) ==
  /\ ~Active(o)
  /\ EnvironmentAvailable(e, w)
  /\ op' = [op EXCEPT ![o] = [phase |-> "running", kind |-> "read", env |-> e, owner |-> w]]
  /\ readers' = [readers EXCEPT ![e] = @ + 1]
  /\ UNCHANGED <<writers, chain, fence, client, deletion, sync>>

\* runEnvironmentOperation: refused while any mutation is queued or running.
StartRead(o, e, w) ==
  /\ ~Active(o)
  /\ EnvironmentAvailable(e, w)
  /\ writers[e] = 0
  /\ op' = [op EXCEPT ![o] = [phase |-> "running", kind |-> "read", env |-> e, owner |-> w]]
  /\ readers' = [readers EXCEPT ![e] = @ + 1]
  /\ UNCHANGED <<writers, chain, fence, client, deletion, sync>>

\* Mutant: the drain promise is never resolved.
FinishReadSilently(o) ==
  /\ op[o].phase = "running" /\ op[o].kind = "read"
  /\ readers' = [readers EXCEPT ![op[o].env] = @ - 1]
  /\ op' = [op EXCEPT ![o] = IdleOp]
  /\ UNCHANGED <<writers, chain, fence, client, deletion, sync>>

\* The last reader resolves the drain promise of whoever waits for it.
FinishRead(o) ==
  /\ op[o].phase = "running" /\ op[o].kind = "read"
  /\ LET e == op[o].env IN
     /\ readers' = [readers EXCEPT ![e] = @ - 1]
     /\ op' = [m \in Operations |->
                 IF m = o THEN IdleOp
                 ELSE IF readers[e] = 1 /\ op[m].phase = "waiting" /\ op[m].env = e
                      THEN [op[m] EXCEPT !.phase = "ready"]
                      ELSE op[m]]
  /\ UNCHANGED <<writers, chain, fence, client, deletion, sync>>
-----------------------------------------------------------------------------
(***************************************************************************)
(* Edit sessions and the plans they hand their fence to.                   *)
(***************************************************************************)
InstallFence(w, e) ==
  /\ client[w] = "none"
  /\ ProjectAvailable(ProjectOf[e])
  /\ fence[e] = NoFence
  /\ fence' = [fence EXCEPT ![e] = [kind |-> "edit", owner |-> w]]
  /\ client' = [client EXCEPT ![w] = "draining"]
  /\ UNCHANGED <<op, readers, writers, chain, deletion, sync>>

DrainEnvironment(w, e) ==
  /\ client[w] = "draining" /\ Holds(w, e)
  /\ Drained(e)
  /\ client' = [client EXCEPT ![w] = "exclusive"]
  /\ UNCHANGED <<op, readers, writers, chain, fence, deletion, sync>>

\* The fence moves to a plan id nobody else knows yet; it is never free
\* in between.
HandoffFence(w, v, e) ==
  /\ client[w] = "exclusive" /\ Holds(w, e) /\ fence[e].kind = "edit"
  /\ client[v] = "none"
  /\ fence' = [fence EXCEPT ![e] = [kind |-> "connection-plan", owner |-> v]]
  /\ client' = [client EXCEPT ![w] = "none", ![v] = "planned"]
  /\ UNCHANGED <<op, readers, writers, chain, deletion, sync>>

\* Drain timeout or abort, a failed begin, the end of a session, the start
\* of a plan: all release the fence the owner holds.
ReleaseFence(w, e) ==
  /\ client[w] # "none" /\ Holds(w, e)
  /\ fence' = [fence EXCEPT ![e] = NoFence]
  /\ client' = [client EXCEPT ![w] = "none"]
  /\ UNCHANGED <<op, readers, writers, chain, deletion, sync>>
-----------------------------------------------------------------------------
(***************************************************************************)
(* Project deletion (the project-delete handler) and cloud                 *)
(* synchronisation (withProject).                                          *)
(***************************************************************************)
BeginProjectDelete(p) ==
  /\ ProjectAvailable(p)
  /\ deletion' = [deletion EXCEPT ![p] = "draining"]
  /\ UNCHANGED <<op, readers, writers, chain, fence, client, sync>>

DeleteActivityEnds(p) ==
  /\ deletion[p] = "draining"
  /\ \A e \in EnvironmentsOf(p) : ActivitySettled(e)
  /\ deletion' = [deletion EXCEPT ![p] = "exclusive"]
  /\ UNCHANGED <<op, readers, writers, chain, fence, client, sync>>

EndProjectDelete(p) ==
  /\ deletion[p] # "none"
  /\ deletion' = [deletion EXCEPT ![p] = "none"]
  /\ UNCHANGED <<op, readers, writers, chain, fence, client, sync>>

\* Mutant: the fences are not looked at.
BeginCloudSyncBesideEdits(p) ==
  /\ ProjectAvailable(p)
  /\ sync' = [sync EXCEPT ![p] = "draining"]
  /\ UNCHANGED <<op, readers, writers, chain, fence, client, deletion>>

\* withProject also refuses a project with a live edit or plan fence.
BeginCloudSync(p) ==
  /\ ProjectAvailable(p)
  /\ \A e \in EnvironmentsOf(p) : fence[e] = NoFence
  /\ sync' = [sync EXCEPT ![p] = "draining"]
  /\ UNCHANGED <<op, readers, writers, chain, fence, client, deletion>>

SyncActivityEnds(p) ==
  /\ sync[p] = "draining"
  /\ \A e \in EnvironmentsOf(p) : ActivitySettled(e)
  /\ sync' = [sync EXCEPT ![p] = "exclusive"]
  /\ UNCHANGED <<op, readers, writers, chain, fence, client, deletion>>

EndCloudSync(p) ==
  /\ sync[p] # "none"
  /\ sync' = [sync EXCEPT ![p] = "none"]
  /\ UNCHANGED <<op, readers, writers, chain, fence, client, deletion>>
-----------------------------------------------------------------------------
OperationStep(o) ==
  \/ \E e \in Environments : \E w \in Callers(e) : EnqueueMutation(o, e, w) \/ StartRead(o, e, w)
  \/ WaitReaders(o) \/ StartMutation(o) \/ FinishMutation(o) \/ FinishRead(o)

FenceStep(w, e) ==
  \/ InstallFence(w, e) \/ DrainEnvironment(w, e) \/ ReleaseFence(w, e)
  \/ \E v \in Owners : HandoffFence(w, v, e)

ProjectStep(p) ==
  \/ BeginProjectDelete(p) \/ DeleteActivityEnds(p) \/ EndProjectDelete(p)
  \/ BeginCloudSync(p) \/ SyncActivityEnds(p) \/ EndCloudSync(p)

Next ==
  \/ \E o \in Operations : OperationStep(o)
  \/ \E w \in Owners, e \in Environments : FenceStep(w, e)
  \/ \E p \in Projects : ProjectStep(p)

\* Promise continuations always run, and every operation ends: remote calls,
\* file writes and connection attempts all carry a deadline.  Users owe
\* nothing, so no fairness is assumed of callers, fence owners or deletions,
\* except that a wait that may return does return.
Fairness ==
  /\ \A o \in Operations :
       /\ WF_vars(WaitReaders(o)) /\ WF_vars(StartMutation(o))
       /\ WF_vars(FinishMutation(o)) /\ WF_vars(FinishRead(o))
  /\ \A w \in Owners, e \in Environments : WF_vars(DrainEnvironment(w, e))
  /\ \A p \in Projects : WF_vars(DeleteActivityEnds(p)) /\ WF_vars(SyncActivityEnds(p))

Spec == Init /\ [][Next]_vars
FairSpec == Spec /\ Fairness
-----------------------------------------------------------------------------
TypeOK ==
  /\ op \in [Operations -> ActiveOp \union {IdleOp}]
  /\ readers \in [Environments -> Nat]
  /\ writers \in [Environments -> Nat]
  /\ chain \in [Environments -> Seq(Operations)]
  /\ fence \in [Environments -> Fence]
  /\ client \in [Owners -> ClientPhases]
  /\ deletion \in [Projects -> ScopePhases]
  /\ sync \in [Projects -> ScopePhases]

(***************************************************************************)
(* A configuration mutation runs alone in its environment: no read that    *)
(* began earlier is still running and no other mutation has started, even  *)
(* though nothing is checked again between the resolved drain promise and  *)
(* the start of the mutation.                                              *)
(***************************************************************************)
MutationRunsAlone ==
  \A o, m \in Operations :
    /\ op[o].phase = "running" /\ op[o].kind = "mutation"
    /\ m # o /\ Active(m) /\ op[m].env = op[o].env
    => op[m].phase = "queued"

(***************************************************************************)
(* Once begin has drained the environment, everything active there was     *)
(* submitted by the edit session itself; after the hand-over to a plan,    *)
(* by some edit session: a call nobody owns never overlaps an edit.        *)
(***************************************************************************)
FenceIsolates ==
  \A w \in Owners, e \in Environments : Holds(w, e) =>
    /\ client[w] = "exclusive" => \A o \in ActiveIn(e) : op[o].owner = w
    /\ client[w] = "planned" => \A o \in ActiveIn(e) : op[o].owner # Unowned

(***************************************************************************)
(* When project deletion or a cloud import gets to change the project's    *)
(* files, no operation is queued or running in any of its environments,    *)
(* and the two never hold the project together.                            *)
(***************************************************************************)
ProjectSectionIsQuiet ==
  \A p \in Projects :
    /\ "exclusive" \in {deletion[p], sync[p]} =>
         \A e \in EnvironmentsOf(p) : ActiveIn(e) = {}
    /\ deletion[p] = "none" \/ sync[p] = "none"

\* A cloud section excludes edit and plan fences for as long as it lasts.
CloudSectionHasNoFence ==
  \A p \in Projects : sync[p] # "none" => \A e \in EnvironmentsOf(p) : fence[e] = NoFence

(***************************************************************************)
(* Whoever holds an environment or a project exclusively - an edit, its    *)
(* connection plan, a deletion, a cloud section - meets no operation that  *)
(* was admitted before, and the exclusive sections exclude each other.     *)
(***************************************************************************)
ScopesIsolated == FenceIsolates /\ ProjectSectionIsQuiet /\ CloudSectionHasNoFence

(***************************************************************************)
(* The counters the admission tests read are exact, and every pending      *)
(* mutation is in the chain of its environment: an off-by-one would block  *)
(* an environment for good or let a reader in beside a writer.             *)
(***************************************************************************)
CountersExact ==
  \A e \in Environments :
    /\ readers[e] = Cardinality(Reading(e))
    /\ writers[e] = Len(chain[e])
    /\ Mutating(e) = {chain[e][i] : i \in 1..Len(chain[e])}

(***************************************************************************)
(* Liveness: a queued mutation runs, however many readers there are; an    *)
(* edit that waits for the environment to drain, a deletion and a cloud    *)
(* section that wait for the project's activity, get their turn or end.    *)
(***************************************************************************)
MutationsRun ==
  \A o \in Operations : (op[o].phase = "queued") ~> (op[o].phase = "running")
DrainsEnd ==
  /\ \A w \in Owners : (client[w] = "draining") ~> (client[w] # "draining")
  /\ \A p \in Projects :
       /\ (deletion[p] = "draining") ~> (deletion[p] # "draining")
       /\ (sync[p] = "draining") ~> (sync[p] # "draining")

\* Nobody who waits for an environment or a project waits for ever.
WaitsEnd == MutationsRun /\ DrainsEnd
-----------------------------------------------------------------------------
(***************************************************************************)
(* The coordinator implements the lock its callers reason with.  The head  *)
(* of a chain moves from "waiting" to "writing" when its operation starts. *)
(***************************************************************************)
Running(e) == {o \in Mutating(e) : op[o].phase = "running"}

Lock == INSTANCE EnvironmentLock WITH
  inside <- [e \in Environments |-> Reading(e)],
  writing <- [e \in Environments |-> Running(e)],
  waiting <- [e \in Environments |-> IF Running(e) = {} THEN chain[e] ELSE Tail(chain[e])]

\* First come, first served, and no reader past a waiting mutation.
ImplementsLock == Lock!LockSpec
=============================================================================
