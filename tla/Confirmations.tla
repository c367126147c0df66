---------------------------- MODULE Confirmations ---------------------------
(***************************************************************************)
(* One-time user confirmation of Agent changes: ConfirmationManager        *)
(* (src/src/confirmation-manager.mjs), the authorize step of OperationGate *)
(* (src/src/operation-gate.mjs), the status history, and the part of       *)
(* V2Service that carries a confirmed operation through its audit record   *)
(* and its execution (src/src/v2-service.mjs).                             *)
(*                                                                         *)
(* A step is the code between two awaits.  Every entry point prunes the    *)
(* expired requests first, also when it then refuses: a refused call is    *)
(* the List step.  An operation stands for the fingerprint of a scope, a   *)
(* capability and its normalised arguments.                                *)
(***************************************************************************)
EXTENDS Integers, FiniteSets, ConfirmationStatusStore

CONSTANTS
  Operations,    \* fingerprints of operations that need a confirmation
  Scopes,        \* plugins, environments, projects: what is invalidated
  ScopeOf,       \* the scope of each operation
  NoOperation,
  Calls,         \* concurrent Agent calls
  Watchers,      \* concurrent status calls that wait
  MaxWaiters,    \* the store's limit on them
  TTL,           \* lifetime of a request, and again of an approval
  WaitTime,      \* the waitMs of the status calls
  MaxRequests,   \* bound: requests created in a behaviour
  MaxTime        \* bound: the clock stops here

ASSUME ConfirmationsAssumption ==
  /\ ScopeOf \in [Operations -> Scopes]
  /\ NoOperation \notin Operations
  /\ TTL \in Nat \ {0} /\ WaitTime \in Nat \ {0}
  /\ TTL <= RetainTTL                  \* 5 and 15 minutes in the code
  /\ MaxWaiters \in Nat /\ MaxRequests \in Nat /\ MaxTime \in Nat

VARIABLES
  now,        \* the clock
  issued,     \* number of request ids drawn so far
  entry,      \* operation and expiry of each request
  pending,    \* ids in the pending Map
  approved,   \* ids whose approval token is in the approved Map
  history,    \* the status store
  call,       \* progress of each confirmed operation
  watch,      \* waiting status calls
  trail       \* history variable: when each request was asked, granted, used

vars == <<now, issued, entry, pending, approved, history, call, watch, trail>>
-----------------------------------------------------------------------------
Ids == 1..MaxRequests
Never == -1
NoEntry == [operation |-> NoOperation, expiresAt |-> 0]
Untold == [asked |-> Never, granted |-> Never, used |-> Never, uses |-> 0]
IdleCall == [phase |-> "idle", id |-> 0, operation |-> NoOperation]
NoWatch == [id |-> 0, until |-> 0, seen |-> "none"]
CallPhases == {"idle", "authorized", "running"}
OpenStatuses == {"awaiting_user", "consumed", "running"}

\* Mutant: an entry is still good in the instant it expires.
FreshAtDeadline(S) == {i \in S : entry[i].expiresAt >= now}

\* What pruneExpired keeps, and what it drops.
Fresh(S) == {i \in S : entry[i].expiresAt > now}
Stale(S) == S \ Fresh(S)

\* Map order: requests by id, approvals by the time they were given.
InOrder(S) ==
  Ordered(S, {p \in S \X S : \/ entry[p[1]].expiresAt < entry[p[2]].expiresAt
                             \/ entry[p[1]].expiresAt = entry[p[2]].expiresAt /\ p[1] < p[2]})
AllAs(S, status) == LET order == InOrder(S) IN [k \in DOMAIN order |-> <<order[k], status>>]
Expiries == AllAs(Stale(pending), "expired") \o AllAs(Stale(approved), "expired")

\* Mutant: recording a status wakes nobody.
WokenNever(changed) == watch

\* The 'status' event of a record ends the waits for it.
Woken(changed) == [w \in Watchers |-> IF watch[w].id \in changed THEN NoWatch ELSE watch[w]]

\* pruneExpired followed by the given records, with their events.
Report(records) ==
  LET all == Expiries \o records IN
  /\ history' = RecordAll(history, now, all)
  /\ watch' = Woken({all[k][1] : k \in DOMAIN all})

Init ==
  /\ now = 0 /\ issued = 0
  /\ entry = [i \in Ids |-> NoEntry]
  /\ pending = {} /\ approved = {}
  /\ history = <<>>
  /\ call = [c \in Calls |-> IdleCall]
  /\ watch = [w \in Watchers |-> NoWatch]
  /\ trail = [i \in Ids |-> Untold]
-----------------------------------------------------------------------------
\* list, and every call that is refused after pruning.
List ==
  /\ pending' = Fresh(pending) /\ approved' = Fresh(approved)
  /\ Report(<<>>)
  /\ UNCHANGED <<now, issued, entry, call, trail>>

\* Mutant: an equal request that still waits is not looked for.
RequestAgain(operation) ==
  /\ issued < MaxRequests
  /\ \A i \in Fresh(approved) : entry[i].operation # operation
  /\ issued' = issued + 1
  /\ entry' = [entry EXCEPT ![issued'] = [operation |-> operation, expiresAt |-> now + TTL]]
  /\ pending' = Fresh(pending) \union {issued'} /\ approved' = Fresh(approved)
  /\ trail' = [trail EXCEPT ![issued'].asked = now]
  /\ Report(<< <<issued', "awaiting_user">> >>)
  /\ UNCHANGED <<now, call>>

\* authorize without an approval: the request is created unless an equal one
\* is already waiting.
Request(operation) ==
  /\ issued < MaxRequests
  /\ \A i \in Fresh(approved) \union Fresh(pending) : entry[i].operation # operation
  /\ issued' = issued + 1
  /\ entry' = [entry EXCEPT ![issued'] = [operation |-> operation, expiresAt |-> now + TTL]]
  /\ pending' = Fresh(pending) \union {issued'} /\ approved' = Fresh(approved)
  /\ trail' = [trail EXCEPT ![issued'].asked = now]
  /\ Report(<< <<issued', "awaiting_user">> >>)
  /\ UNCHANGED <<now, call>>

\* Mutants: the status is not published; the request stays on the list; the
\* new deadline is computed backwards.
ApproveSilently(i) ==
  /\ i \in Fresh(pending)
  /\ pending' = Fresh(pending) \ {i}
  /\ approved' = Fresh(approved) \union {i}
  /\ entry' = [entry EXCEPT ![i].expiresAt = now + TTL]
  /\ trail' = [trail EXCEPT ![i].granted = now]
  /\ Report(<<>>)
  /\ UNCHANGED <<now, issued, call>>

ApproveKeepingRequest(i) ==
  /\ i \in Fresh(pending)
  /\ pending' = Fresh(pending)
  /\ approved' = Fresh(approved) \union {i}
  /\ entry' = [entry EXCEPT ![i].expiresAt = now + TTL]
  /\ trail' = [trail EXCEPT ![i].granted = now]
  /\ Report(<< <<i, "approved">> >>)
  /\ UNCHANGED <<now, issued, call>>
ApproveBackwards(i) ==
  /\ i \in Fresh(pending)
  /\ pending' = Fresh(pending) \ {i}
  /\ approved' = Fresh(approved) \union {i}
  /\ entry' = [entry EXCEPT ![i].expiresAt = now - TTL]
  /\ trail' = [trail EXCEPT ![i].granted = now]
  /\ Report(<< <<i, "approved">> >>)
  /\ UNCHANGED <<now, issued, call>>

\* The user approves: the deadline starts again.
Approve(i) ==
  /\ i \in Fresh(pending)
  /\ pending' = Fresh(pending) \ {i}
  /\ approved' = Fresh(approved) \union {i}
  /\ entry' = [entry EXCEPT ![i].expiresAt = now + TTL]
  /\ trail' = [trail EXCEPT ![i].granted = now]
  /\ Report(<< <<i, "approved">> >>)
  /\ UNCHANGED <<now, issued, call>>

Reject(i) ==
  /\ i \in Fresh(pending)
  /\ pending' = Fresh(pending) \ {i} /\ approved' = Fresh(approved)
  /\ Report(<< <<i, "rejected">> >>)
  /\ UNCHANGED <<now, issued, entry, call, trail>>

\* A configuration, environment or project changed: the open requests and
\* the unused approvals of the scope go.
Invalidate(scope) ==
  LET InScope(S) == {i \in Fresh(S) : ScopeOf[entry[i].operation] = scope} IN
  /\ pending' = Fresh(pending) \ InScope(pending)
  /\ approved' = Fresh(approved) \ InScope(approved)
  /\ Report(AllAs(InScope(pending), "invalidated") \o AllAs(InScope(approved), "invalidated"))
  /\ UNCHANGED <<now, issued, entry, call, trail>>

\* Mutants: the approval survives its use; its operation is not compared.
ConsumeKeepingApproval(c, operation, i) ==
  /\ call[c].phase = "idle"
  /\ i \in Fresh(approved) /\ entry[i].operation = operation
  /\ call' = [call EXCEPT ![c] = [phase |-> "authorized", id |-> i, operation |-> operation]]
  /\ pending' = Fresh(pending) /\ approved' = Fresh(approved)
  /\ trail' = [trail EXCEPT ![i].used = now, ![i].uses = @ + 1]
  /\ Report(<< <<i, "consumed">> >>)
  /\ UNCHANGED <<now, issued, entry>>
ConsumeAnyOperation(c, operation, i) ==
  /\ call[c].phase = "idle"
  /\ i \in Fresh(approved)
  /\ call' = [call EXCEPT ![c] = [phase |-> "authorized", id |-> i, operation |-> operation]]
  /\ pending' = Fresh(pending) /\ approved' = Fresh(approved) \ {i}
  /\ trail' = [trail EXCEPT ![i].used = now, ![i].uses = @ + 1]
  /\ Report(<< <<i, "consumed">> >>)
  /\ UNCHANGED <<now, issued, entry>>

\* authorize with the approval's token, or without one and found by the
\* fingerprint: the approval is used up before anything is awaited.
Consume(c, operation, i) ==
  /\ call[c].phase = "idle"
  /\ i \in Fresh(approved) /\ entry[i].operation = operation
  /\ call' = [call EXCEPT ![c] = [phase |-> "authorized", id |-> i, operation |-> operation]]
  /\ pending' = Fresh(pending) /\ approved' = Fresh(approved) \ {i}
  /\ trail' = [trail EXCEPT ![i].used = now, ![i].uses = @ + 1]
  /\ Report(<< <<i, "consumed">> >>)
  /\ UNCHANGED <<now, issued, entry>>

\* A token presented with another operation is spent all the same.
ConsumeMismatch(operation, i) ==
  /\ i \in Fresh(approved) /\ entry[i].operation # operation
  /\ pending' = Fresh(pending) /\ approved' = Fresh(approved) \ {i}
  /\ Report(<< <<i, "invalidated">> >>)
  /\ UNCHANGED <<now, issued, entry, call, trail>>
-----------------------------------------------------------------------------
\* executionStatus: no pruning, and nothing if the record is gone.
ExecutionStatus(i, status) ==
  /\ history' = Update(history, now, i, status)
  /\ watch' = IF Visible(history, i) THEN Woken({i}) ELSE watch
  /\ UNCHANGED <<now, issued, entry, pending, approved, trail>>

\* Mutant: the status is not settled when the audit record cannot be written.
AuditFailsSilently(c) ==
  /\ call[c].phase = "authorized"
  /\ call' = [call EXCEPT ![c] = IdleCall]
  /\ UNCHANGED <<now, issued, entry, pending, approved, history, watch, trail>>

\* The "started" audit record could not be written: nothing is executed.
AuditFails(c) ==
  /\ call[c].phase = "authorized"
  /\ call' = [call EXCEPT ![c] = IdleCall]
  /\ ExecutionStatus(call[c].id, "failed")

StartExecution(c) ==
  /\ call[c].phase = "authorized"
  /\ call' = [call EXCEPT ![c].phase = "running"]
  /\ ExecutionStatus(call[c].id, "running")

FinishExecution(c, status) ==
  /\ call[c].phase = "running"
  /\ call' = [call EXCEPT ![c] = IdleCall]
  /\ ExecutionStatus(call[c].id, status)
-----------------------------------------------------------------------------
\* status with a waitMs: parked only while the status is open, and while
\* there is room.  A wait for the user ends with the request's deadline.
AwaitStatus(w, i) ==
  LET status == StatusOf(history, i)
      until == IF status = "awaiting_user" /\ entry[i].expiresAt < now + WaitTime
               THEN entry[i].expiresAt ELSE now + WaitTime
  IN /\ watch[w] = NoWatch
     /\ Stale(pending) \union Stale(approved) = {}
     /\ Shown(history, now, i) /\ status \in OpenStatuses
     /\ Cardinality({v \in Watchers : watch[v] # NoWatch}) < MaxWaiters
     /\ watch' = [watch EXCEPT ![w] = [id |-> i, until |-> until, seen |-> status]]
     /\ UNCHANGED <<now, issued, entry, pending, approved, history, call, trail>>

\* The timer; the pruning that follows it is the List step.
WaitEnds(w) ==
  /\ watch[w] # NoWatch /\ watch[w].until <= now
  /\ watch' = [watch EXCEPT ![w] = NoWatch]
  /\ UNCHANGED <<now, issued, entry, pending, approved, history, call, trail>>

Tick ==
  /\ now < MaxTime
  /\ now' = now + 1
  /\ UNCHANGED <<issued, entry, pending, approved, history, call, watch, trail>>
-----------------------------------------------------------------------------
ManagerStep ==
  \/ List
  \/ \E operation \in Operations : Request(operation)
  \/ \E i \in Ids : Approve(i) \/ Reject(i)
  \/ \E scope \in Scopes : Invalidate(scope)
  \/ \E operation \in Operations, i \in Ids : ConsumeMismatch(operation, i)

CallStep(c) ==
  \/ \E operation \in Operations, i \in Ids : Consume(c, operation, i)
  \/ AuditFails(c) \/ StartExecution(c)
  \/ \E status \in {"succeeded", "failed"} : FinishExecution(c, status)

WatchStep(w) == WaitEnds(w) \/ \E i \in Ids : AwaitStatus(w, i)

Next ==
  \/ ManagerStep \/ Tick
  \/ \E c \in Calls : CallStep(c)
  \/ \E w \in Watchers : WatchStep(w)

Spec == Init /\ [][Next]_vars
-----------------------------------------------------------------------------
TypeOK ==
  /\ now \in Nat /\ issued \in 0..MaxRequests
  /\ entry \in [Ids -> [operation : Operations \union {NoOperation}, expiresAt : Nat]]
  /\ pending \subseteq Ids /\ approved \subseteq Ids
  /\ call \in [Calls -> [phase : CallPhases, id : Ids \union {0},
                         operation : Operations \union {NoOperation}]]
  /\ trail \in [Ids -> [asked : Nat \union {Never}, granted : Nat \union {Never},
                        used : Nat \union {Never}, uses : Nat]]

(***************************************************************************)
(* An approval is used at most once, whatever calls race for it, and only  *)
(* one call ever carries it.                                               *)
(***************************************************************************)
OneUsePerApproval ==
  /\ \A i \in Ids : trail[i].uses <= 1
  /\ \A c, d \in Calls : c # d /\ call[c].phase # "idle" /\ call[d].phase # "idle"
                           => call[c].id # call[d].id

(***************************************************************************)
(* What runs under a confirmation is the operation the user was shown and  *)
(* approved, approved before its request expired and started before the    *)
(* approval expired.                                                       *)
(***************************************************************************)
RunsOnlyWhatWasApproved ==
  /\ \A c \in Calls : call[c].phase # "idle" =>
       /\ call[c].id \in Ids
       /\ call[c].operation = entry[call[c].id].operation
       /\ trail[call[c].id].uses > 0
  /\ \A i \in Ids : LET t == trail[i] IN
       /\ t.granted # Never => t.asked <= t.granted /\ t.granted < t.asked + TTL
       /\ t.uses > 0 => /\ t.granted # Never
                        /\ t.granted <= t.used /\ t.used < t.granted + TTL

(***************************************************************************)
(* Racing calls, expiry, rejection and invalidation included, an approval  *)
(* lets one call run, once, and only what the user approved.               *)
(***************************************************************************)
ApprovalsSound == OneUsePerApproval /\ RunsOnlyWhatWasApproved

(***************************************************************************)
(* An operation has at most one live request or approval: asking again     *)
(* while the user hesitates, or while an approval waits to be used, never  *)
(* collects a second permission for the same change.                       *)
(***************************************************************************)
OneLivePerOperation ==
  /\ pending \intersect approved = {}
  /\ \A i, j \in Fresh(pending \union approved) :
       entry[i].operation = entry[j].operation => i = j

(***************************************************************************)
(* The status an Agent can read is the truth: a request shown as open is   *)
(* open, an approval shown is there to be used, an execution shown is      *)
(* under way; a request shown as ended has left both maps for good.  As    *)
(* long as nothing was evicted for lack of room, every live request and    *)
(* approval can be looked up: records outlive what they describe.          *)
(***************************************************************************)
StatusIsTrue ==
  /\ \A i \in Ids : Visible(history, i) =>
       LET status == StatusOf(history, i) IN
       /\ (status = "awaiting_user") <=> (i \in pending)
       /\ (status = "approved") <=> (i \in approved)
       /\ (status = "consumed") <=> \E c \in Calls : call[c].phase = "authorized" /\ call[c].id = i
       /\ (status = "running") <=> \E c \in Calls : call[c].phase = "running" /\ call[c].id = i
  /\ issued <= MaxEntries => \A i \in Fresh(pending \union approved) : Visible(history, i)

(***************************************************************************)
(* No wake-up is lost: a status call that waits still sees the status it   *)
(* went to sleep on.                                                       *)
(***************************************************************************)
NoLostWakeup ==
  \A w \in Watchers : watch[w] # NoWatch /\ Visible(history, watch[w].id) =>
    StatusOf(history, watch[w].id) = watch[w].seen
-----------------------------------------------------------------------------
(***************************************************************************)
(* Every confirmation goes through the abstract life cycle.                *)
(***************************************************************************)
Stage(i) ==
  IF i > issued THEN "unasked"
  ELSE IF i \in pending THEN "asked"
  ELSE IF i \in approved THEN "granted"
  ELSE IF trail[i].uses > 0 THEN "spent" ELSE "void"

Cycle == INSTANCE ConfirmationLifecycle WITH stage <- [i \in Ids |-> Stage(i)]

\* Permissions are granted by the user, spent once, and never come back.
ImplementsLifecycle == Cycle!LifecycleSpec
=============================================================================
