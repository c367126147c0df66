--------------------------- MODULE ReadScheduler ---------------------------
(***************************************************************************)
(* BoundedReadScheduler (src/src/bounded-read-scheduler.mjs), the queue    *)
(* every remote read, log search, database query and download goes         *)
(* through, and the session check its users make on either side of the     *)
(* wait (boundedRead in src/src/server-plugin-runtime.mjs, query in        *)
(* src/src/mysql-plugin-runtime.mjs).                                      *)
(*                                                                         *)
(* A task is one call of run; once settled the same caller may call again. *)
(* Its operation is started a microtask after it got its slot.             *)
(***************************************************************************)
EXTENDS Integers, FiniteSets, SequencesExt, FiniteSetsExt

CONSTANTS
  Tasks,
  Keys,             \* plugins
  KeyOf,            \* plugin of each task
  Size,             \* reservationBytes of each task
  Patient,          \* tasks with queueTimeoutMs = 0
  MaxConcurrent, MaxPerKey, MaxReserved, MaxQueued,
  MaxSession        \* bound: connections of each plugin

ASSUME SchedulerAssumption ==
  /\ IsFiniteSet(Tasks)                         \* bound: callers
  /\ KeyOf \in [Tasks -> Keys]
  /\ Size \in [Tasks -> Nat \ {0}]
  /\ \A t \in Tasks : Size[t] <= MaxReserved   \* run refuses the others
  /\ Patient \subseteq Tasks
  /\ MaxConcurrent \in Nat \ {0} /\ MaxPerKey \in Nat \ {0}
  /\ MaxReserved \in Nat /\ MaxQueued \in Nat /\ MaxSession \in Nat \ {0}

VARIABLES
  pool,       \* queue and counters of the scheduler
  state,      \* progress of each task
  aborted,    \* tasks whose AbortSignal has fired
  session,    \* the connection each plugin has now
  meant       \* the connection each task was asked for

vars == <<pool, state, aborted, session, meant>>
-----------------------------------------------------------------------------
Init ==
  /\ pool = [queue |-> <<>>, active |-> 0, reserved |-> 0,
             counts |-> [k \in Keys |-> 0]]
  /\ state = [t \in Tasks |-> "idle"]
  /\ aborted = {}
  /\ session = [k \in Keys |-> 1]
  /\ meant = [t \in Tasks |-> 0]

Fits(p, t) ==
  /\ p.active < MaxConcurrent
  /\ p.counts[KeyOf[t]] < MaxPerKey
  /\ p.reserved + Size[t] <= MaxReserved
Take(p, t) ==
  [p EXCEPT !.queue = RemoveFirst(@, t), !.active = @ + 1,
            !.reserved = @ + Size[t], !.counts[KeyOf[t]] = @ + 1]

\* Mutant: the newest task that fits goes first.
DrainNewest(p) ==
  FoldRight(LAMBDA t, q : IF Fits(q, t) THEN Take(q, t) ELSE q, p.queue, p)

\* The first task that fits, again and again: what did not fit before a task
\* was taken does not fit after it, so one pass does it.
Drain(p) ==
  FoldLeft(LAMBDA q, t : IF Fits(q, t) THEN Take(q, t) ELSE q, p, p.queue)

\* The pool becomes p, drained; who left the queue has a slot.
Drained(p, settled) ==
  \E q \in {Drain(p)} : \E granted \in {ToSet(p.queue) \ ToSet(q.queue)} :
     /\ pool' = q
     /\ state' = [t \in Tasks |-> IF t \in granted THEN "granted"
                                  ELSE IF t = settled THEN "idle" ELSE state[t]]

\* run: refused at once when aborted already or when the queue is full.
Submit(t) ==
  /\ state[t] = "idle" /\ t \notin aborted
  /\ Len(pool.queue) < MaxQueued
  /\ LET p == [pool EXCEPT !.queue = Append(@, t)]
         q == Drain(p)
         granted == ToSet(p.queue) \ ToSet(q.queue)
     IN /\ pool' = q
        /\ state' = [u \in Tasks |-> IF u \in granted THEN "granted"
                                     ELSE IF u = t THEN "queued" ELSE state[u]]
  /\ meant' = [meant EXCEPT ![t] = session[KeyOf[t]]]
  /\ UNCHANGED <<aborted, session>>

\* Mutant: a queued task that is cancelled gives back a slot it never had.
AbortReleasing(t) ==
  /\ state[t] # "idle" /\ t \notin aborted
  /\ aborted' = aborted \cup {t}
  /\ pool' = [pool EXCEPT !.queue = RemoveFirst(@, t), !.active = @ - 1,
                          !.reserved = @ - Size[t], !.counts[KeyOf[t]] = @ - 1]
  /\ state' = [state EXCEPT ![t] = "idle"]
  /\ UNCHANGED <<session, meant>>

\* The signal fires: a queued task leaves, a started one ends by itself.
Abort(t) ==
  /\ state[t] # "idle" /\ t \notin aborted
  /\ aborted' = aborted \cup {t}
  /\ IF state[t] = "queued"
       THEN Drained([pool EXCEPT !.queue = RemoveFirst(@, t)], t)
       ELSE UNCHANGED <<pool, state>>
  /\ UNCHANGED <<session, meant>>

\* The caller is done with an aborted call; its next one has a new signal.
Renew(t) ==
  /\ state[t] = "idle" /\ t \in aborted
  /\ aborted' = aborted \ {t}
  /\ UNCHANGED <<pool, state, session, meant>>

TimeOut(t) ==
  /\ state[t] = "queued" /\ t \notin Patient
  /\ pool' = [pool EXCEPT !.queue = RemoveFirst(@, t)]
  /\ state' = [state EXCEPT ![t] = "idle"]
  /\ UNCHANGED <<aborted, session, meant>>

\* Mutant: neither the signal nor the session is looked at again.
BeginBlindly(t) ==
  /\ state[t] = "granted"
  /\ state' = [state EXCEPT ![t] = "running"]
  /\ UNCHANGED <<pool, aborted, session, meant>>

\* The operation starts, unless it was cancelled after it got its slot or
\* the connection it was meant for is not the current one any more.
Begin(t) ==
  /\ state[t] = "granted"
  /\ state' = [state EXCEPT ![t] =
       IF t \in aborted \/ meant[t] # session[KeyOf[t]] THEN "refused" ELSE "running"]
  /\ UNCHANGED <<pool, aborted, session, meant>>

Release(p, t) ==
  [p EXCEPT !.active = @ - 1, !.reserved = @ - Size[t], !.counts[KeyOf[t]] = @ - 1]

\* Mutant: a refused task gives nothing back but its place.
EndLeaking(t) ==
  /\ state[t] \in {"running", "refused"}
  /\ Drained(IF state[t] = "refused" THEN [pool EXCEPT !.active = @ - 1]
             ELSE Release(pool, t), t)
  /\ UNCHANGED <<aborted, session, meant>>

\* Mutant: the queue is not looked at when a task ends.
EndWithoutDrain(t) ==
  /\ state[t] \in {"running", "refused"}
  /\ pool' = Release(pool, t)
  /\ state' = [state EXCEPT ![t] = "idle"]
  /\ UNCHANGED <<aborted, session, meant>>

\* The operation settled, one way or another.
End(t) ==
  /\ state[t] \in {"running", "refused"}
  /\ Drained(Release(pool, t), t)
  /\ UNCHANGED <<aborted, session, meant>>

\* The plugin is connected anew.
Reconnect(k) ==
  /\ session[k] < MaxSession
  /\ session' = [session EXCEPT ![k] = @ + 1]
  /\ UNCHANGED <<pool, state, aborted, meant>>

TaskStep(t) ==
  Submit(t) \/ Abort(t) \/ Renew(t) \/ TimeOut(t) \/ Begin(t) \/ End(t)
Next == (\E t \in Tasks : TaskStep(t)) \/ (\E k \in Keys : Reconnect(k))

Spec == Init /\ [][Next]_vars

\* Promise continuations run, timers fire, and every operation has a timeout
\* of its own.  A task is ready for one of the three at most.
Fairness == \A t \in Tasks : WF_vars(Begin(t) \/ End(t) \/ TimeOut(t))
LiveSpec == Spec /\ Fairness
-----------------------------------------------------------------------------
Holders == {t \in Tasks : state[t] \in {"granted", "running", "refused"}}
HoldersOf(k) == {t \in Holders : KeyOf[t] = k}
TotalSize(S) == MapThenSumSet(LAMBDA t : Size[t], S)

\* Types of the queue, the counters and the tasks.
TypeOK ==
  /\ pool \in [queue : Seq(Tasks), active : Nat, reserved : Nat, counts : [Keys -> Nat]]
  /\ state \in [Tasks -> {"idle", "queued", "granted", "running", "refused"}]
  /\ aborted \subseteq Tasks
  /\ session \in [Keys -> 1..MaxSession]
  /\ meant \in [Tasks -> 0..MaxSession]

(* The three limits bind what really holds a slot, whatever was aborted,   *)
(* timed out, refused or reconnected on the way: no slot and no byte leaks *)
(* and none is given back twice.                                           *)
LimitsHold ==
  /\ pool.active = Cardinality(Holders) /\ pool.active <= MaxConcurrent
  /\ pool.reserved = TotalSize(Holders) /\ pool.reserved <= MaxReserved
  /\ \A k \in Keys : /\ pool.counts[k] = Cardinality(HoldersOf(k))
                     /\ pool.counts[k] <= MaxPerKey
  /\ Len(pool.queue) <= MaxQueued

(* The queue holds exactly the waiting tasks, each once, and none of them  *)
(* could have had a slot: a timeout or a cancellation wakes nobody it      *)
(* should have woken, and no release is missed.                            *)
WorkConserving ==
  /\ ToSet(pool.queue) = {t \in Tasks : state[t] = "queued"}
  /\ IsInjective(pool.queue)
  /\ \A t \in ToSet(pool.queue) : ~Fits(pool, t)

\* run, drain: both of the above.
PoolExact == TypeOK /\ LimitsHold /\ WorkConserving

(* No remote request is sent for a caller that has given up, nor on a      *)
(* connection other than the one it was checked for.                       *)
NothingLate ==
  [][\A t \in Tasks : state[t] = "granted" /\ state'[t] = "running"
       => t \notin aborted /\ meant[t] = session[KeyOf[t]]]_vars

(* A task is not overtaken by a later one of the same plugin that needs as *)
(* much or more.                                                           *)
Ahead(t, u) == \E i, j \in DOMAIN pool.queue :
                 i < j /\ pool.queue[i] = t /\ pool.queue[j] = u
NoOvertaking ==
  [][\A t, u \in Tasks :
       (state[u] = "queued" /\ state'[u] = "granted" /\ Ahead(t, u)
        /\ KeyOf[t] = KeyOf[u] /\ Size[t] <= Size[u]) => state'[t] # "queued"]_vars

(* A download waits without a timeout; it gets its turn nevertheless, or   *)
(* is cancelled, however often the other callers come back.                *)
PatientServed == \A t \in Patient : state[t] = "queued" ~> state[t] # "queued"
=============================================================================
