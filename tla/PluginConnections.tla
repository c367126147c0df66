------------------------- MODULE PluginConnections -------------------------
(***************************************************************************)
(* Connecting and disconnecting the plugins of one environment:            *)
(* ConnectionIntentCoordinator (src/src/connection-intent-coordinator.mjs) *)
(* with its plans and operations, EnvironmentConnectionManager             *)
(* (src/src/environment-connection-manager.mjs) with its connect permits,  *)
(* its queue of disconnecting jobs and the state it publishes, and what    *)
(* the runtimes do with a session.                                         *)
(*                                                                         *)
(* Everything between two awaits of the code is one step. A step that only *)
(* continues after a settled promise goes before every step that waits for *)
(* a user, a file or the network: Settled guards the latter.               *)
(***************************************************************************)
EXTENDS Integers, FiniteSets, SequencesExt, FiniteSetsExt

CONSTANTS
  Plugins, Servers, \* every plugin is ready
  Provider,         \* the server each tunnelled plugin goes through
  Plans, Target,    \* plugins each plan is asked for
  Retries,          \* plans of the reconnect timer (retryableOnly)
  MaxConcurrency,
  Requests,         \* bound: the requests made, as <<kind, plugin>>
  MaxRequests,      \* bound: how many of them
  MaxLosses,        \* bound: connections that break
  Overlapping,      \* may a disconnecting job, and the forced end of a slow
                    \* disconnection, overlap with new connections?
  None

ASSUME ConnectionAssumption ==
  /\ IsFiniteSet(Plugins) /\ IsFiniteSet(Plans) /\ None \notin Plugins \cup (Plans \X Plugins)
  /\ Servers \subseteq Plugins
  /\ DOMAIN Provider \subseteq Plugins \ Servers
  /\ \A p \in DOMAIN Provider : Provider[p] \in Servers
  /\ Target \in [Plans -> SUBSET Plugins]
  /\ Retries \subseteq Plans
  /\ MaxConcurrency \in Nat \ {0}
  /\ MaxRequests \in Nat /\ MaxLosses \in Nat /\ Overlapping \in BOOLEAN

VARIABLES
  plan,       \* phase, nodes and configuration snapshot of each plan
  op,         \* the operation each plan may start for each plugin
  permit,     \* connect permits in use, operations waiting for one
  runtime,    \* newest attempt and session of each plugin, drivers at work
  view,       \* the published state of the environment
  jobs,       \* the environment's queue
  disk,       \* connection fingerprint of each plugin, and the one being saved
  seen        \* requests made and connections lost so far

vars == <<plan, op, permit, runtime, view, jobs, disk, seen>>
-----------------------------------------------------------------------------
\* A plan starts at most one operation for each plugin.
Ops == Plans \X Plugins
PluginOf(o) == o[2]
Ended(st) == [st |-> st, at |-> "none", subs |-> {}, fp |-> 0]
NoNode == [st |-> "none", on |-> None]

Init ==
  /\ plan = [l \in Plans |->
               [st |-> "idle", awaits |-> 0,
                fp |-> [p \in Plugins |-> 0], node |-> [p \in Plugins |-> NoNode]]]
  /\ op = [o \in Ops |-> Ended("none")]
  /\ permit = [active |-> 0, queue |-> <<>>]
  /\ runtime = [owner |-> [p \in Plugins |-> None], session |-> [p \in Plugins |-> None],
                trying |-> {}]
  /\ view = [desired |-> FALSE, manual |-> {}, phase |-> [p \in Plugins |-> "unknown"],
             by |-> [p \in Plugins |-> None]]
  /\ jobs = <<>>
  /\ disk = [fp |-> [p \in Plugins |-> 0], saving |-> None]
  /\ seen = [made |-> 0, lost |-> 0]

Dependents(p) == {d \in DOMAIN Provider : Provider[d] = p}
Scope(p) == {p} \cup Dependents(p)
Live(o) == op[o].at # "none"
Running(o) == op[o].st = "running"
OpsOn(p) == {o \in Ops : PluginOf(o) = p /\ Live(o)}
RunningIn(S) == {o \in Ops : PluginOf(o) \in S /\ Running(o)}
Active(l) == plan[l].st = "active"
\* The nodes of a plan that ended with a conflict go on.
Going(l) == plan[l].st \in {"active", "conflicted"}
Unknown(v, S) == {p \in S : v.phase[p] = "unknown"}
On(v) == {p \in Plugins : v.phase[p] = "on"}

\* The plugins of S are shown in a phase, owned by no operation.
Show(v, S, ph) ==
  [v EXCEPT !.phase = [p \in Plugins |-> IF p \in S THEN ph ELSE @[p]],
            !.by    = [p \in Plugins |-> IF p \in S THEN None ELSE @[p]]]

\* disconnect of a runtime: its session ends and its newest attempt is disowned.
Drop(r, S) ==
  [r EXCEPT !.owner   = [p \in Plugins |-> IF p \in S THEN None ELSE @[p]],
            !.session = [p \in Plugins |-> IF p \in S THEN None ELSE @[p]]]

\* Plugins are disconnected servers last, as many at once as may connect.
Batch(S) == IF S = {} THEN <<>> ELSE <<S>>
Chunks(S) ==
  [k \in 1..((Cardinality(S) + MaxConcurrency - 1) \div MaxConcurrency) |->
     {SetToSeq(S)[i] : i \in {j \in 1..Cardinality(S) : /\ (k - 1) * MaxConcurrency < j
                                                        /\ j <= k * MaxConcurrency}}]
Batches(S) == Chunks(S \ Servers) \o Chunks(S \cap Servers)
OneByOne(S) == [i \in 1..Cardinality(S) |-> {SetToSeq(S)[i]}]
-----------------------------------------------------------------------------
(* Cancellation of operations.                                             *)

\* forceCancelOperation for every operation of S: its plans end with it.
ForcedPlans(S) ==
  [l \in Plans |-> IF Active(l) /\ \E o \in S : l \in op[o].subs
                   THEN [plan[l] EXCEPT !.st = "cancelled"] ELSE plan[l]]
ForcedOps(S) ==
  [o \in Ops |-> IF o \in S THEN [op[o] EXCEPT !.st = "cancelling", !.subs = {}] ELSE op[o]]

\* Mutation: the signal does not reach the driver.
DriversUnaware(S) == runtime

\* An attempt whose signal has fired does not become a session any more.
Disowned(S) ==
  [runtime EXCEPT !.owner = [p \in Plugins |->
     IF \E o \in S : @[p] = o /\ op[o].at = "connecting" THEN None ELSE @[p]]]

\* Mutation: an operation is aborted for all of its plans.
WithdrawnForAll(A, S) ==
  [o \in Ops |-> IF o \in S /\ Running(o) /\ op[o].subs \cap A # {}
                 THEN [op[o] EXCEPT !.subs = @ \ A, !.st = "cancelling"] ELSE op[o]]

\* cancelPlan: the plans of A withdraw from operations of S; one nobody wants
\* any more is aborted.
WithdrawnOps(A, S) ==
  [o \in Ops |->
     IF o \in S /\ Running(o) /\ op[o].subs \cap A # {}
     THEN [op[o] EXCEPT !.subs = @ \ A,
                        !.st = IF op[o].subs \subseteq A THEN "cancelling" ELSE @]
     ELSE op[o]]
Unwanted(newop) == {o \in Ops : Running(o) /\ newop[o].st = "cancelling"}

\* publishCancellationState, once the operations are newop.
CancellationView(newop) ==
  LET live(o) == newop[o].st \in {"running", "cancelling"}
      wanted(o) == newop[o].st = "running" /\ newop[o].subs # {}
      closing == {p \in Plugins : /\ view.phase[p] = "connecting"
                                  /\ \E o \in Ops : PluginOf(o) = p /\ live(o) /\ ~wanted(o)}
  IN [view EXCEPT !.phase = [p \in Plugins |-> IF p \in closing THEN "closing" ELSE @[p]],
                  !.desired = On(view) # {} \/ \E o \in Ops : wanted(o)]
-----------------------------------------------------------------------------
(* Steps that follow a settled promise at once.                            *)

ProviderSettled(l, p) ==
  p \in DOMAIN Provider => plan[l].node[Provider[p]].st \in {"ok", "failed"}
ProviderFailed(l, p) ==
  p \in DOMAIN Provider /\ plan[l].node[Provider[p]].st = "failed"
Waited(l, p) ==
  plan[l].node[p].st = "waiting" /\ ~Live(plan[l].node[p].on)
NodeMoves(l, p) ==
  /\ Going(l)
  /\ \/ plan[l].node[p].st = "ready" /\ ProviderSettled(l, p)
     \/ Waited(l, p)
     \/ plan[l].node[p].st = "joined" /\ ~Live(plan[l].node[p].on)
PlanMoves(l) ==
  \/ Active(l) /\ \A p \in Plugins : plan[l].node[p].st \in {"none", "ok", "failed"}
  \/ plan[l].st = "fenced" /\ \A i \in DOMAIN jobs : jobs[i].id # plan[l].awaits
OpMoves(o) == op[o].st = "cancelling" /\ op[o].at \in {"permit", "connecting"}
JobMoves == jobs # <<>> /\ Head(jobs).at = "start"
Settled ==
  /\ ~JobMoves
  /\ \A l \in Plans : ~PlanMoves(l) /\ \A p \in Plugins : ~NodeMoves(l, p)
  /\ \A o \in Ops : ~OpMoves(o)

\* The checks connectNode makes before it looks for an operation.
Skips(l, p) ==
  \/ ProviderFailed(l, p)
  \/ view.phase[p] = "on"
  \/ l \in Retries /\ view.phase[p] \in {"fatal", "changed"}
Existing(p, st) == {o \in OpsOn(p) : op[o].st = st}

NodeSkips(l, p) ==
  /\ Going(l) /\ plan[l].node[p].st = "ready" /\ ProviderSettled(l, p) /\ Skips(l, p)
  /\ plan' = [plan EXCEPT ![l].node[p].st =
                IF ~ProviderFailed(l, p) /\ view.phase[p] = "on" THEN "ok" ELSE "failed"]
  /\ view' = IF ProviderFailed(l, p) THEN Show(view, {p}, "blocked") ELSE view
  /\ UNCHANGED <<op, permit, runtime, jobs, disk, seen>>

NodeWaits(l, p) ==
  /\ Going(l) /\ plan[l].node[p].st = "ready" /\ ProviderSettled(l, p) /\ ~Skips(l, p)
  /\ \E o \in Existing(p, "cancelling") :
       plan' = [plan EXCEPT ![l].node[p] = [st |-> "waiting", on |-> o]]
  /\ UNCHANGED <<op, permit, runtime, view, jobs, disk, seen>>

MayAcquire(l, p) ==
  /\ Going(l)
  /\ \/ /\ plan[l].node[p].st = "ready" /\ ProviderSettled(l, p) /\ ~Skips(l, p)
        /\ Existing(p, "cancelling") = {}
     \/ Waited(l, p)

NodeJoins(l, p) ==
  /\ MayAcquire(l, p)
  /\ \E o \in Existing(p, "running") :
       /\ op[o].fp = plan[l].fp[p]
       /\ op' = [op EXCEPT ![o].subs = @ \cup {l}]
       /\ plan' = [plan EXCEPT ![l].node[p] = [st |-> "joined", on |-> o]]
  /\ UNCHANGED <<permit, runtime, view, jobs, disk, seen>>

\* CONNECTION_OPERATION_CONFLICT: the plan is over, and so is every node that
\* goes through this one.
NodeConflicts(l, p) ==
  /\ MayAcquire(l, p)
  /\ \E o \in Existing(p, "running") : op[o].fp # plan[l].fp[p]
  /\ plan' = [plan EXCEPT ![l].st = IF Active(l) THEN "conflicted" ELSE @, ![l].node[p].st = "threw"]
  /\ UNCHANGED <<op, permit, runtime, view, jobs, disk, seen>>

\* The operation o gets a permit: connectRuntime starts an attempt, which ends
\* the session it supersedes.
Begun(r, o) == [Drop(r, {PluginOf(o)}) EXCEPT !.owner[PluginOf(o)] = o, !.trying = @ \cup {o}]

NodeStarts(l, p) ==
  LET o == <<l, p>>
      free == permit.active < MaxConcurrency
  IN /\ MayAcquire(l, p) /\ Existing(p, "running") = {}
     /\ plan' = [plan EXCEPT ![l].node[p] = [st |-> "joined", on |-> o]]
     /\ op' = [op EXCEPT ![o] = [st |-> "running", subs |-> {l}, fp |-> plan[l].fp[p],
                                 at |-> IF free THEN "connecting" ELSE "permit"]]
     /\ permit' = IF free THEN [permit EXCEPT !.active = @ + 1]
                  ELSE [permit EXCEPT !.queue = Append(@, o)]
     /\ runtime' = IF free THEN Begun(runtime, o) ELSE runtime
     /\ view' = [view EXCEPT !.phase[p] = "connecting", !.by[p] = o, !.desired = TRUE]
     /\ UNCHANGED <<jobs, disk, seen>>

NodeSettles(l, p) ==
  /\ Going(l) /\ plan[l].node[p].st = "joined" /\ ~Live(plan[l].node[p].on)
  /\ plan' = [plan EXCEPT ![l].node[p].st =
                IF op[plan[l].node[p].on].st = "completed" THEN "ok" ELSE "failed"]
  /\ UNCHANGED <<op, permit, runtime, view, jobs, disk, seen>>

PlanEnds(l) ==
  /\ Active(l) /\ PlanMoves(l)
  /\ plan' = [plan EXCEPT ![l].st = "completed"]
  /\ UNCHANGED <<op, permit, runtime, view, jobs, disk, seen>>

PlanUnfenced(l) ==
  /\ plan[l].st = "fenced" /\ PlanMoves(l)
  /\ plan' = [plan EXCEPT ![l].st = IF disk.saving = None THEN "building" ELSE "refused"]
  /\ UNCHANGED <<op, permit, runtime, view, jobs, disk, seen>>

\* Mutation: the slot passes to nobody.
ReleasedToNobody(newop, r) ==
  permit' = [permit EXCEPT !.active = @ - 1] /\ op' = newop /\ runtime' = r

\* The places in the queue of operations that were not aborted.
Waiting == {i \in DOMAIN permit.queue : Running(permit.queue[i])}

\* releaseConnectPermit: the slot passes to the operation that waits longest,
\* not counting those that were aborted.
Released(newop, r) ==
  IF Waiting = {}
  THEN /\ permit' = [active |-> permit.active - 1, queue |-> <<>>]
       /\ op' = newop /\ runtime' = r
  ELSE LET i == Min(Waiting)
           o == permit.queue[i]
       IN /\ permit' = [permit EXCEPT !.queue = SubSeq(@, i + 1, Len(@))]
          /\ op' = [newop EXCEPT ![o].at = "connecting"]
          /\ runtime' = Begun(r, o)

\* Mutation: a cancelled operation is not published.
CancelledSilently(o) == view

\* publishOperationCancelled, publishOperationError: only while the plugin is
\* shown as owned by the operation.
CancelledView(o) ==
  IF view.by[PluginOf(o)] # o THEN view
  ELSE LET v == Show(view, {PluginOf(o)}, "off")
       IN [v EXCEPT !.desired = @ /\ (On(v) # {} \/ RunningIn(Plugins) \ {o} # {})]
ErrorView(o, ph) ==
  IF view.by[PluginOf(o)] # o THEN view ELSE Show(view, {PluginOf(o)}, ph)

\* Mutation: an operation that was aborted in the queue releases a permit too.
AbortedReleases(o) ==
  /\ OpMoves(o)
  /\ view' = CancelledView(o)
  /\ Released([op EXCEPT ![o] = Ended("cancelled")], runtime)
  /\ UNCHANGED <<plan, jobs, disk, seen>>

AbortedEnds(o) ==
  /\ OpMoves(o)
  /\ view' = CancelledView(o)
  /\ LET newop == [op EXCEPT ![o] = Ended("cancelled")]
     IN IF op[o].at = "permit"
        THEN /\ permit' = [permit EXCEPT !.queue = RemoveFirst(@, o)]
             /\ op' = newop /\ UNCHANGED runtime
        ELSE Released(newop, runtime)
  /\ UNCHANGED <<plan, jobs, disk, seen>>
-----------------------------------------------------------------------------
(* Answers of the network and of the disk to an operation.                 *)

DriverConnects(o) ==
  LET p == PluginOf(o) IN
  /\ Settled /\ o \in runtime.trying /\ Running(o) /\ op[o].at = "connecting"
  /\ runtime.owner[p] = o
  /\ p \in DOMAIN Provider => runtime.session[Provider[p]] # None
  /\ Released([op EXCEPT ![o].at = "reading"],
              [runtime EXCEPT !.session[p] = o, !.trying = @ \ {o}])
  /\ UNCHANGED <<plan, view, jobs, disk, seen>>

\* The driver reports an error, or the deadline of the attempt passes while the
\* driver works on.
DriverFails(o) ==
  /\ Settled /\ Running(o) /\ op[o].at = "connecting" /\ runtime.owner[PluginOf(o)] = o
  /\ \E ph \in {"error", "fatal"}, goesOn \in BOOLEAN :
       /\ goesOn => ph = "error"
       /\ view' = ErrorView(o, ph)
       /\ Released([op EXCEPT ![o] = Ended("failed")],
                   [Drop(runtime, {PluginOf(o)}) EXCEPT !.trying = IF goesOn THEN @ ELSE @ \ {o}])
  /\ UNCHANGED <<plan, jobs, disk, seen>>

\* A driver finds at its next check that its attempt is no longer the newest
\* one, or was aborted. An operation that still waits for it ends as cancelled.
DriverDisowned(o) ==
  LET r == [runtime EXCEPT !.trying = @ \ {o}]
      waits == Running(o) /\ op[o].at = "connecting"
  IN /\ Settled /\ o \in runtime.trying /\ runtime.owner[PluginOf(o)] # o
     /\ \/ /\ ~waits /\ runtime' = r
           /\ UNCHANGED <<op, permit, view>>
        \/ /\ waits /\ view' = CancelledView(o)
           /\ Released([op EXCEPT ![o] = Ended("cancelled")], r)
     /\ UNCHANGED <<plan, jobs, disk, seen>>

\* The plugin is read again after it was connected.
ReadBack(o) ==
  LET p == PluginOf(o)
      verdict == IF op[o].st = "cancelling" THEN "undoCancelled"
                 ELSE IF disk.fp[p] # op[o].fp THEN "undoChanged" ELSE "good"
  IN /\ Settled /\ op[o].at = "reading"
     /\ IF verdict = "good"
        THEN /\ view' = Show(view, {p}, "on")
             /\ op' = [op EXCEPT ![o] = Ended("completed")]
             /\ UNCHANGED runtime
        ELSE /\ op' = [op EXCEPT ![o].at = verdict]
             /\ runtime' = Drop(runtime, {p})
             /\ UNCHANGED view
     /\ UNCHANGED <<plan, permit, jobs, disk, seen>>

\* Mutation: a plugin that cannot be read stays connected.
ReadFailsConnected(o) ==
  /\ Settled /\ op[o].at = "reading"
  /\ op' = [op EXCEPT ![o].at = IF op[o].st = "cancelling" THEN "undoCancelled" ELSE "undoError"]
  /\ UNCHANGED <<plan, permit, runtime, view, jobs, disk, seen>>

\* The plugin cannot be read.
ReadFails(o) ==
  /\ Settled /\ op[o].at = "reading"
  /\ op' = [op EXCEPT ![o].at = IF op[o].st = "cancelling" THEN "undoCancelled" ELSE "undoError"]
  /\ runtime' = Drop(runtime, {PluginOf(o)})
  /\ UNCHANGED <<plan, permit, view, jobs, disk, seen>>

\* Mutation: an operation fails without leaving the table of operations.
UndoneStays(o) ==
  /\ Settled /\ op[o].at = "undoError" /\ Running(o)
  /\ view' = ErrorView(o, "error") /\ op' = [op EXCEPT ![o].st = "failed"]
  /\ UNCHANGED <<plan, permit, runtime, jobs, disk, seen>>

\* disconnectRuntime returned; past its deadline it forces whatever session
\* the plugin has by then.
Undone(o) ==
  /\ Settled /\ op[o].at \in {"undoCancelled", "undoChanged", "undoError"}
  /\ IF op[o].at = "undoChanged"
     THEN view' = ErrorView(o, "changed") /\ op' = [op EXCEPT ![o] = Ended("failed")]
     ELSE IF op[o].st = "cancelling"
     THEN view' = CancelledView(o) /\ op' = [op EXCEPT ![o] = Ended("cancelled")]
     ELSE view' = ErrorView(o, "error") /\ op' = [op EXCEPT ![o] = Ended("failed")]
  /\ runtime' \in {runtime, Drop(runtime, {PluginOf(o)})}
  /\ UNCHANGED <<plan, permit, jobs, disk, seen>>
-----------------------------------------------------------------------------
(* Requests.                                                               *)

\* Mutation: a plan does not wait for the clean-up.
ConnectUnfenced(l) ==
  /\ Settled /\ plan[l].st = "idle" /\ disk.saving = None
  /\ Overlapping \/ jobs = <<>>
  /\ l \in Retries => view.desired
  /\ plan' = [plan EXCEPT ![l].st = "building",
                          ![l].awaits = IF jobs = <<>> THEN 0 ELSE Last(jobs).id]
  /\ UNCHANGED <<op, permit, runtime, view, jobs, disk, seen>>

ConnectRequested(l) ==
  /\ Settled /\ plan[l].st = "idle"
  /\ Overlapping \/ jobs = <<>>
  /\ l \in Retries => view.desired
  /\ LET cleanups == {i \in DOMAIN jobs : jobs[i].kind = "cleanup"}
     IN plan' = [plan EXCEPT ![l].st = IF cleanups # {} THEN "fenced"
                                       ELSE IF disk.saving # None THEN "refused"
                                       ELSE "building",
                             ![l].awaits = IF cleanups = {} THEN 0
                                           ELSE jobs[CHOOSE i \in cleanups : \A j \in cleanups : j <= i].id]
  /\ UNCHANGED <<op, permit, runtime, view, jobs, disk, seen>>

\* A plan of one plugin for an environment that is not connected marks the
\* others as disconnected by the user.
Single(l) == Cardinality(Target[l]) = 1
InitialView(l, nodes) ==
  LET others == IF Single(l) /\ ~view.desired THEN Plugins \ nodes ELSE {}
      v == Show(view, others \cup Unknown(view, Plugins), "off")
  IN [v EXCEPT !.manual = (@ \cup others) \ nodes,
               !.desired = nodes # {} \/ On(v) # {}]

\* buildConnectionPlan, initializePlanState.
PlanBuilt(l) ==
  LET chosen == IF l \in Retries /\ ~Single(l) THEN Target[l] \ view.manual ELSE Target[l]
      nodes == chosen \cup {Provider[p] : p \in chosen \cap DOMAIN Provider}
  IN /\ Settled /\ plan[l].st = "building"
     /\ IF disk.saving # None
        THEN plan' = [plan EXCEPT ![l].st = "refused"] /\ UNCHANGED view
        ELSE /\ plan' = [plan EXCEPT ![l].st = "active", ![l].fp = disk.fp, ![l].node =
                           [p \in Plugins |-> IF p \in nodes THEN [st |-> "ready", on |-> None]
                                              ELSE NoNode]]
             /\ view' = InitialView(l, nodes)
     /\ UNCHANGED <<op, permit, runtime, jobs, disk, seen>>

Requested(kind, p) ==
  /\ Settled /\ <<kind, p>> \in Requests /\ seen.made < MaxRequests
  /\ seen' = [seen EXCEPT !.made = @ + 1]

\* No plan is about to start operations while a job is being queued.
Calm ==
  Overlapping \/ \A l \in Plans : /\ plan[l].st \notin {"fenced", "building"}
                                  /\ \A p \in Plugins : plan[l].node[p].st # "waiting"

\* Plans wait for a clean-up by its number.
Queued(kind, p) ==
  jobs' = Append(jobs, [id |-> IF kind = "cleanup" THEN seen.made + 1 ELSE 0, kind |-> kind, of |-> p,
                        at |-> "start", todo |-> <<>>, clone |-> view])

CancelRequested(A, S) ==
  LET newop == WithdrawnOps(A, S)
  IN /\ op' = newop
     /\ runtime' = Disowned(Unwanted(newop))
     /\ view' = CancellationView(newop)
     /\ UNCHANGED <<permit, disk>>

OpsOf(l) == {plan[l].node[p].on : p \in {q \in Plugins : plan[l].node[q].on # None}}

CancelPlan(l) ==
  /\ Requested("cancelPlan", None) /\ Active(l)
  /\ plan' = [plan EXCEPT ![l].st = "cancelled"]
  /\ CancelRequested({l}, OpsOf(l))
  /\ UNCHANGED jobs

\* One operation of a plan. The plan ends with it unless it has started
\* another one.
CancelNode(l, p) ==
  LET o == plan[l].node[p].on
      starters == {q \in Plugins : plan[l].node[q].on = <<l, q>>}
  IN /\ Requested("cancelNode", None) /\ Active(l)
     /\ o # None /\ plan[l].node[p].st # "waiting"
     /\ plan' = [plan EXCEPT ![l].st = IF starters \subseteq {p} THEN "cancelled" ELSE @]
     /\ CancelRequested({l}, {o})
     /\ UNCHANGED jobs

ForceCancel(o) ==
  LET newop == ForcedOps({o})
  IN /\ Requested("force", None) /\ Running(o)
     /\ \E l \in op[o].subs : Active(l)
     /\ plan' = ForcedPlans({o}) /\ op' = newop
     /\ runtime' = Disowned({o})
     /\ view' = CancellationView(newop)
     /\ UNCHANGED <<permit, jobs, disk>>

\* cancel of a whole environment (legacyScope), with its clean-up job.
CancelAll ==
  LET A == {l \in Plans : Active(l)}
  IN /\ Requested("cancel", None) /\ A # {}
     /\ Calm /\ (Overlapping \/ On(view) = {})
     /\ plan' = [l \in Plans |-> IF l \in A THEN [plan[l] EXCEPT !.st = "cancelled"] ELSE plan[l]]
     /\ CancelRequested(A, Ops)
     /\ Queued("cleanup", None)

\* Nothing is going on but what disconnecting p is going to stop.
Alone(p) ==
  /\ \A o \in Ops : Live(o) => PluginOf(o) \in Scope(p)
  /\ \A l \in Plans : Going(l) => \E o \in RunningIn(Scope(p)) : l \in op[o].subs

\* disconnect of the environment, or of one plugin.
Disconnect(p) ==
  LET S == RunningIn(IF p = None THEN Plugins ELSE Scope(p))
  IN /\ Requested("disconnect", p)
     /\ Calm /\ (Overlapping \/ p = None \/ Alone(p))
     /\ plan' = ForcedPlans(S) /\ op' = ForcedOps(S) /\ runtime' = Disowned(S)
     /\ Queued("disconnect", p)
     /\ UNCHANGED <<permit, view, disk>>

\* networkChanged, for an environment that is meant to be connected.
NetworkChanged ==
  /\ Requested("network", None) /\ view.desired /\ Calm
  /\ Queued("network", None)
  /\ UNCHANGED <<plan, op, permit, runtime, view, disk>>

\* A session breaks and its runtime reports it: pluginLost.
Lost(p) ==
  /\ Settled /\ seen.lost < MaxLosses /\ runtime.session[p] # None
  /\ Calm
  /\ seen' = [seen EXCEPT !.lost = @ + 1]
  /\ runtime' = Drop(runtime, {p})
  /\ Queued("lost", p)
  /\ UNCHANGED <<plan, op, permit, view, disk>>

\* fenceConfigurationChange: the plugin is not usable from now on. It is still
\* shown as owned by its operation.
FencedView(p) ==
  IF view.phase[p] = "unknown" THEN view
  ELSE [view EXCEPT !.phase = [q \in Plugins |->
          IF q \in Scope(p) \ Unknown(view, Plugins) THEN "changed" ELSE @[q]]]
FencedBy(p) ==
  LET S == RunningIn(Scope(p))
  IN /\ plan' = ForcedPlans(S) /\ op' = ForcedOps(S) /\ runtime' = Disowned(S)
     /\ view' = FencedView(p)

SaveBegins(p) ==
  /\ Requested("save", p) /\ disk.saving = None
  /\ Calm /\ (Overlapping \/ Alone(p))
  /\ FencedBy(p)
  /\ disk' = [disk EXCEPT !.saving = p]
  /\ UNCHANGED <<permit, jobs>>

\* The file is written; configurationChanged fences again and queues its job.
SaveCommits(p) ==
  /\ Settled /\ disk.saving = p
  /\ \A i \in DOMAIN jobs : jobs[i].kind # "changed"
  /\ disk' = [disk EXCEPT !.fp[p] = @ + 1]
  /\ FencedBy(p)
  /\ Queued("changed", p)
  /\ UNCHANGED <<permit, seen>>
-----------------------------------------------------------------------------
(* The jobs of the queue. A job reads the plugins, then disconnects them    *)
(* batch by batch. clone is the copy of the published state it works on.    *)

JobStarts ==
  LET j == Head(jobs)
      leaves == \/ j.kind \in {"lost", "network"} /\ ~view.desired
                \/ j.kind = "lost" /\ j.of \in view.manual
      v == IF j.kind = "disconnect" /\ j.of = None
           THEN [view EXCEPT !.desired = FALSE, !.manual = {}] ELSE view
  IN /\ JobMoves
     /\ view' = v
     /\ jobs' = IF leaves THEN Tail(jobs)
                ELSE [jobs EXCEPT ![1].at = "list", ![1].clone = v]
     /\ UNCHANGED <<plan, op, permit, runtime, disk, seen>>

\* The plugins a job disconnects.
Reconnectable == {p \in Plugins \ view.manual : view.phase[p] # "changed"}
TodoOf(j) ==
  CASE j.kind = "disconnect" /\ j.of = None -> Batches(Plugins)
    [] j.kind = "disconnect" /\ j.of # None -> Append(OneByOne(Dependents(j.of)), {j.of})
    [] j.kind = "cleanup" -> Batches(Plugins)
    [] j.kind = "lost"    -> OneByOne(Dependents(j.of))
    [] j.kind = "network" -> Batches(Reconnectable)
    [] j.kind = "changed" -> Batch(Scope(j.of) \ Unknown(j.clone, Plugins))

\* Manual disconnection of the next plugin, in a copy of the state.
Leaving(v, g) == Show([v EXCEPT !.manual = @ \cup g], g, "closing")

\* What a job shows when it has read the plugins.
ListedView(j, todo) ==
  CASE j.kind = "disconnect" /\ j.of = None -> Show(j.clone, Plugins, "closing")
    [] j.kind = "disconnect" /\ j.of # None -> Leaving(view, Head(todo))
    [] j.kind = "cleanup" -> view
    [] j.kind = "lost"    -> Show(Show(view, Dependents(j.of) \ view.manual, "blocked"), {j.of}, "error")
    [] j.kind = "network" -> Show(view, Reconnectable, "reconnecting")
    [] j.kind = "changed" /\ Unknown(j.clone, Plugins) = Plugins -> view
    [] j.kind = "changed" /\ Unknown(j.clone, Plugins) # Plugins ->
         Show(Show(j.clone, Unknown(j.clone, Plugins), "off"),
              Scope(j.of) \ Unknown(j.clone, Plugins), IF j.clone.desired THEN "changed" ELSE "off")

\* The operations it aborts then.
Aborted(j) ==
  CASE j.kind = "lost"    -> RunningIn(Scope(j.of))
    [] j.kind = "network" -> RunningIn(Plugins)
    [] OTHER              -> {}

\* A lost plugin or a network change is of no interest to an environment that
\* has been disconnected while the plugins were read.
Moot(j) == \/ j.kind \in {"lost", "network"} /\ ~view.desired
           \/ j.kind = "lost" /\ j.of \in view.manual

JobLists ==
  LET j == Head(jobs)
      todo == IF Moot(j) THEN <<>> ELSE TodoOf(j)
      S == IF Moot(j) THEN {} ELSE Aborted(j)
      v == IF Moot(j) THEN view ELSE ListedView(j, todo)
  IN /\ Settled /\ jobs # <<>> /\ j.at = "list"
     /\ view' = v
     /\ plan' = ForcedPlans(S) /\ op' = ForcedOps(S)
     /\ runtime' = IF todo = <<>> THEN Disowned(S) ELSE Drop(Disowned(S), Head(todo))
     /\ jobs' = IF todo = <<>> THEN Tail(jobs)
                ELSE [jobs EXCEPT ![1].at = "drop", ![1].todo = todo, ![1].clone = v]
     /\ disk' = IF j.kind = "changed" /\ todo = <<>> THEN [disk EXCEPT !.saving = None] ELSE disk
     /\ UNCHANGED <<permit, seen>>

\* What a job shows when the first batch of todo is disconnected.
DroppedView(j) ==
  LET rest == Tail(j.todo)
      one == Show(j.clone, Head(j.todo), "off")
  IN CASE j.kind = "disconnect" /\ j.of = None /\ rest = <<>> -> Show(j.clone, Plugins, "off")
       [] j.kind = "disconnect" /\ j.of # None /\ rest = <<>> ->
            [one EXCEPT !.desired = @ /\ On(one) # {}]
       [] j.kind = "disconnect" /\ j.of # None /\ rest # <<>> -> Leaving(one, Head(rest))
       [] j.kind = "cleanup" /\ rest = <<>> /\ ~view.desired -> Show(view, Plugins, "off")
       [] OTHER -> view

JobDrops ==
  LET j == Head(jobs)
      rest == Tail(j.todo)
  IN /\ Settled /\ jobs # <<>> /\ j.at = "drop"
     /\ view' = DroppedView(j)
     /\ \E r \in {runtime} \cup IF Overlapping THEN {Drop(runtime, Head(j.todo))} ELSE {} :
          runtime' = IF rest = <<>> THEN r ELSE Drop(r, Head(rest))
     /\ jobs' = IF rest = <<>> THEN Tail(jobs)
                ELSE [jobs EXCEPT ![1].todo = rest, ![1].clone = DroppedView(j)]
     /\ disk' = IF j.kind = "changed" /\ rest = <<>> THEN [disk EXCEPT !.saving = None] ELSE disk
     /\ UNCHANGED <<plan, op, permit, seen>>
-----------------------------------------------------------------------------
NodeStep(l, p) ==
  \/ NodeSkips(l, p) \/ NodeWaits(l, p) \/ NodeJoins(l, p)
  \/ NodeConflicts(l, p) \/ NodeStarts(l, p) \/ NodeSettles(l, p)
PlanStep(l) == PlanEnds(l) \/ PlanUnfenced(l) \/ PlanBuilt(l)
OpStep(o) ==
  \/ AbortedEnds(o) \/ DriverConnects(o) \/ DriverFails(o) \/ DriverDisowned(o)
  \/ ReadBack(o) \/ ReadFails(o) \/ Undone(o)
JobStep == JobStarts \/ JobLists \/ JobDrops
Save == \E p \in Plugins : SaveCommits(p)

UserStep ==
  \/ \E l \in Plans : \/ ConnectRequested(l) \/ CancelPlan(l)
                      \/ \E p \in Plugins : CancelNode(l, p)
  \/ \E o \in Ops : ForceCancel(o)
  \/ CancelAll \/ NetworkChanged
  \/ \E p \in Plugins \cup {None} : Disconnect(p)
  \/ \E p \in Plugins : SaveBegins(p) \/ Lost(p)

Next ==
  \/ \E l \in Plans : PlanStep(l) \/ \E p \in Plugins : NodeStep(l, p)
  \/ \E o \in Ops : OpStep(o)
  \/ JobStep \/ Save \/ UserStep

Spec == Init /\ [][Next]_vars

\* Promises settle, every attempt and every disconnection has a deadline, and
\* files are read and written.
Fairness ==
  /\ \A l \in Plans : WF_vars(PlanStep(l)) /\ \A p \in Plugins : WF_vars(NodeStep(l, p))
  /\ \A o \in Ops : WF_vars(OpStep(o))
  /\ WF_vars(JobStep) /\ WF_vars(Save)
LiveSpec == Spec /\ Fairness
-----------------------------------------------------------------------------
(* Correctness.                                                            *)

PlanStates == {"idle", "fenced", "building", "active", "conflicted",
               "cancelled", "completed", "refused"}
Phases == {"unknown", "off", "connecting", "closing", "on", "error", "fatal",
           "changed", "blocked", "reconnecting"}

NodeStates == {"none", "ready", "waiting", "joined", "threw", "ok", "failed"}
OpStates == {"none", "running", "cancelling", "completed", "failed", "cancelled"}
OpPlaces == {"none", "permit", "connecting", "reading", "undoCancelled", "undoChanged", "undoError"}
PlanRecord ==
  [st : PlanStates, awaits : Nat, fp : [Plugins -> Nat],
   node : [Plugins -> [st : NodeStates, on : Ops \cup {None}]]]
OpRecord == [st : OpStates, at : OpPlaces, subs : SUBSET Plans, fp : Nat]
View ==
  [desired : BOOLEAN, manual : SUBSET Plugins, phase : [Plugins -> Phases],
   by : [Plugins -> Ops \cup {None}]]
JobRecord ==
  [id : Nat, kind : {"disconnect", "cleanup", "lost", "network", "changed"},
   of : Plugins \cup {None}, at : {"start", "list", "drop"}, todo : Seq(SUBSET Plugins),
   clone : View]

\* Every plan, operation and published phase is one the code knows, and every
\* operation has the permit state that its progress calls for.
TypeOK ==
  /\ plan \in [Plans -> PlanRecord]
  /\ op \in [Ops -> OpRecord]
  /\ \A o \in Ops : Live(o) <=> op[o].st \in {"running", "cancelling"}
  /\ permit \in [active : Nat, queue : Seq(Ops)]
  /\ runtime \in [owner : [Plugins -> Ops \cup {None}], session : [Plugins -> Ops \cup {None}],
                  trying : SUBSET Ops]
  /\ view \in View /\ jobs \in Seq(JobRecord)
  /\ disk \in [fp : [Plugins -> Nat], saving : Plugins \cup {None}]
  /\ seen \in [made : Nat, lost : Nat]

\* withConnectPermit, releaseConnectPermit: the permits in use are those of the
\* operations that are connecting, never more than allowed; exactly the waiting
\* operations are queued, and none waits while a permit is free.
PermitsExact ==
  /\ TypeOK
  /\ permit.active = Cardinality({o \in Ops : op[o].at = "connecting"})
  /\ permit.active <= MaxConcurrency
  /\ {permit.queue[i] : i \in Waiting} = {o \in Ops : op[o].at = "permit" /\ Running(o)}
  /\ IsInjective(permit.queue)
  /\ Waiting # {} => permit.active = MaxConcurrency

\* acquireOperation, runOperation: a plugin has one operation at a time, and a
\* session belongs to the operation that is checking it or completed with it;
\* an operation that failed or was cancelled leaves no session behind, and a
\* driver that goes on after its attempt was aborted or timed out can no longer
\* make one, however late it succeeds (connectRuntime).
SessionsOwned ==
  \A p \in Plugins :
    /\ Cardinality(OpsOn(p)) <= 1
    /\ LET o == runtime.session[p]
       IN o # None => PluginOf(o) = p /\ (op[o].at = "reading" \/ op[o].st = "completed")
    /\ \A o \in runtime.trying : runtime.owner[PluginOf(o)] = o =>
         Running(o) /\ op[o].at = "connecting"

\* cancelPlan, cancel: an operation that several plans share is aborted only
\* when every one of them ends or withdraws; at most the plan whose own node
\* the user cancelled goes on without it.
SharedOperationsSurvive ==
  [][\A o \in Ops : Running(o) /\ op'[o].st = "cancelling" =>
       Cardinality({l \in op[o].subs : Active(l) /\ plan'[l].st = "active"}) <= 1]_vars

\* The published state is true once nothing is in progress: a plugin is shown
\* connected exactly if it has a session, and none is shown in transit.
AtRest ==
  /\ jobs = <<>> /\ disk.saving = None
  /\ \A o \in Ops : ~Live(o)
  /\ \A l \in Plans : ~Going(l) \/ ~\E p \in Plugins : NodeMoves(l, p)
TruthAtRest ==
  AtRest => \A p \in Plugins :
    /\ view.phase[p] = "on" <=> runtime.session[p] # None
    /\ view.phase[p] \notin {"connecting", "closing"}

\* startConnectPlan, runOperation: every plan that was requested ends, also one
\* that waits for a clean-up, for a permit or for another plan's operation.
PlansEnd ==
  \A l \in Plans : plan[l].st \in {"fenced", "building", "active"}
                     ~> plan[l].st \in {"completed", "conflicted", "cancelled", "refused"}

\* disconnectPluginLegacy: disconnecting a plugin changes what is shown of that
\* plugin and of those that go through it, and of no other.
DisconnectActsOnMembersOnly ==
  [][\A p \in Plugins :
       (jobs # <<>> /\ Head(jobs).kind = "disconnect" /\ Head(jobs).of = p /\ (JobLists \/ JobDrops))
       => \A q \in Plugins \ Scope(p) : view'.phase[q] = view.phase[q]]_vars

\* ensureCancelledCleanup, legacyCancelFences: the clean-up after a cancel does
\* not tear down the session of a connect that was requested after it.
CleanupSparesNewSessions ==
  [][(jobs # <<>> /\ Head(jobs).kind = "cleanup" /\ (JobLists \/ JobDrops)) =>
       \A p \in Plugins :
         LET o == runtime.session[p]
         IN (o # None /\ plan[o[1]].awaits >= Head(jobs).id) => runtime'.session[p] = o]_vars

\* cleanupCancelled: cancelling does not roll back a plugin that has connected;
\* what is shown connected afterwards has its session.
ConnectedHasSession ==
  AtRest => \A p \in Plugins : view.phase[p] = "on" => runtime.session[p] # None
=============================================================================
