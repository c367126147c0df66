------------------------------ MODULE FormProbes ------------------------------
(* The probes of a form that is being filled in: PluginProbeManager            *)
(* (src/src/plugin-probe-manager.mjs) over PluginValidationRuntime             *)
(* (src/src/plugin-validation-runtime.mjs).  A group is a form and a purpose;  *)
(* its newest probe replaces the one before.                                   *)
EXTENDS Naturals, FiniteSets

CONSTANTS
  Probes,    \* bound: requests of one window
  GroupOf,   \* form and purpose of each request
  Sequence,  \* number of each request in its group, None if it has none
  None

\* Probes are told from the absence of one.
FormAssumption == None \notin Probes

VARIABLES
  groups,  \* groups of the manager: the newest probe of each
  probe    \* requests: where they are, what is known of them

vars == <<groups, probe>>

Groups == {GroupOf[r] : r \in Probes}
Stopped == {"cancelled", "stale"}
NoProbe == [at |-> "new", state |-> "queued", after |-> None, told |-> "nothing"]

Init ==
  /\ groups = [g \in Groups |-> None]
  /\ probe = [r \in Probes |-> NoProbe]

UnderWay(r) == probe[r].at \in {"waits", "enters", "validates", "cleans"}

\* stopRecord
Stops(S, state) ==
  [r \in Probes |-> IF r \in S /\ UnderWay(r) /\ probe[r].state \in {"queued", "running"}
                      THEN [probe[r] EXCEPT !.state = state] ELSE probe[r]]

\* Mutant: the former probe is stopped but not waited for.
FirstAtOnce(former) == "enters"

First(former) == IF former = None THEN "enters" ELSE "waits"

Runs(record) == [record EXCEPT !.at = "enters", !.state = "running"]

OutOfOrder(r, former) ==
  former # None /\ None \notin {Sequence[r], Sequence[former]} /\ Sequence[r] <= Sequence[former]

\* probePluginDraft: refused when its number is not newer.
Probe(r) ==
  LET g == GroupOf[r]
      former == groups[g]
      fresh == [NoProbe EXCEPT !.at = First(former), !.after = former]
  IN /\ probe[r].at = "new"
     /\ IF OutOfOrder(r, former)
          THEN /\ probe' = [probe EXCEPT ![r].at = "done", ![r].told = "refused"]
               /\ UNCHANGED groups
          ELSE /\ groups' = [groups EXCEPT ![g] = r]
               /\ probe' = [Stops({former}, "stale") EXCEPT
                              ![r] = IF fresh.at = "enters" THEN Runs(fresh) ELSE fresh]

\* Mutant: whoever ends forgets the group.
ForgottenByAny(r) == [groups EXCEPT ![GroupOf[r]] = None]

Forgotten(r) == [groups EXCEPT ![GroupOf[r]] = IF @ = r THEN None ELSE @]

\* finally, and what the caller is told.
Settles(r) ==
  /\ groups' = Forgotten(r)
  /\ probe' = [probe EXCEPT ![r].at = "done", ![r].after = None, ![r].told = probe[r].state]

Failing(r) == IF probe[r].state \in Stopped THEN probe[r].state ELSE "failed"

\* The former probe has settled.
Proceeds(r) ==
  /\ probe[r].at = "waits" /\ probe[probe[r].after].at = "done"
  /\ IF probe[r].state \in Stopped THEN Settles(r)
     ELSE /\ probe' = [probe EXCEPT ![r] = Runs([@ EXCEPT !.after = None])]
          /\ UNCHANGED groups

\* The coordinator admits the probe and the environment is there; the runtime
\* has nothing to clean when they refuse.
Enters(r) ==
  /\ probe[r].at = "enters" /\ probe[r].state = "running"
  /\ probe' = [probe EXCEPT ![r].at = "validates"]
  /\ UNCHANGED groups

Refused(r) ==
  /\ probe[r].at = "enters"
  /\ groups' = Forgotten(r)
  /\ probe' = [probe EXCEPT ![r].at = "done", ![r].state = Failing(r), ![r].told = Failing(r)]

\* Mutant: a result is taken whatever became of its probe.
TakenAnyway(r) == TRUE

Taken(r) == probe[r].state = "running" /\ groups[GroupOf[r]] = r

Validated(r) ==
  /\ probe[r].at = "validates"
  /\ \/ /\ Taken(r)
        /\ probe' = [probe EXCEPT ![r].at = "cleans", ![r].state = "valid"]
     \/ probe' = [probe EXCEPT ![r].at = "cleans", ![r].state = Failing(r)]
  /\ UNCHANGED groups

\* cleanup: the connection of the probe is closed.
Cleaned(r) == probe[r].at = "cleans" /\ Settles(r)

Cancel(r) ==
  /\ UnderWay(r) /\ probe[r].state \in {"queued", "running"}
  /\ probe' = Stops({r}, "cancelled")
  /\ UNCHANGED groups

\* invalidateOwner, invalidateAll
WindowCloses ==
  /\ \E r \in Probes : UnderWay(r)
  /\ probe' = Stops(Probes, "cancelled")
  /\ UNCHANGED groups

Next ==
  \/ \E r \in Probes :
       Probe(r) \/ Proceeds(r) \/ Enters(r) \/ Refused(r) \/ Validated(r) \/ Cleaned(r) \/ Cancel(r)
  \/ WindowCloses

Spec == Init /\ [][Next]_vars

-----------------------------------------------------------------------------
TypeOK ==
  /\ groups \in [Groups -> Probes \cup {None}]
  /\ probe \in [Probes -> [at : {"new", "waits", "enters", "validates", "cleans", "done"},
                           state : {"queued", "running", "valid", "failed", "cancelled", "stale"},
                           after : Probes \cup {None},
                           told : {"nothing", "refused", "valid", "failed", "cancelled", "stale"}]]

\* The probes of a form work one after the other, though a driver may ignore
\* that its probe was replaced: the next one starts on a clean runtime.
OneAtATime ==
  \A r, q \in Probes :
    (/\ GroupOf[r] = GroupOf[q] /\ r # q
     /\ probe[r].at \in {"enters", "validates", "cleans"}) =>
      probe[q].at \notin {"enters", "validates", "cleans"}

\* A probe that may still be told valid is the newest of its form: those it
\* has replaced are stopped for good, and it is not replaced by their end.
NewestCounts ==
  \A r \in Probes :
    UnderWay(r) /\ probe[r].state \in {"queued", "running"} => groups[GroupOf[r]] = r

ProbesOwned == TypeOK /\ OneAtATime /\ NewestCounts

\* What a probe was stopped for is what its caller is told: a result that
\* comes in later changes nothing.
StopsStand ==
  [][\A r \in Probes : probe[r].state \in Stopped =>
       probe'[r].state = probe[r].state
         /\ (probe'[r].at = "done" => probe'[r].told = probe[r].state)]_vars
=============================================================================
