--------------------------- MODULE EnvironmentLock --------------------------
(***************************************************************************)
(* What callers of the mutation coordinator may rely on: in every          *)
(* environment a first-come first-served lock for writers that readers     *)
(* never queue for.  A reader enters only when no writer holds or awaits   *)
(* the lock, so writers cannot starve; a writer enters only when it is the *)
(* oldest one waiting and nobody is inside.                                *)
(***************************************************************************)
EXTENDS Naturals, Sequences

CONSTANTS Environments, Operations

VARIABLES
  inside,    \* the operations reading in each environment
  writing,   \* the mutation running in each environment, as a set
  waiting    \* the mutations waiting in each environment, oldest first

lockVars == <<inside, writing, waiting>>

LockInit ==
  /\ inside = [e \in Environments |-> {}]
  /\ writing = [e \in Environments |-> {}]
  /\ waiting = [e \in Environments |-> <<>>]

Request(o, e) ==
  /\ waiting' = [waiting EXCEPT ![e] = Append(@, o)]
  /\ UNCHANGED <<inside, writing>>

Grant(o, e) ==
  /\ waiting[e] # <<>> /\ Head(waiting[e]) = o
  /\ inside[e] = {} /\ writing[e] = {}
  /\ waiting' = [waiting EXCEPT ![e] = Tail(@)]
  /\ writing' = [writing EXCEPT ![e] = {o}]
  /\ UNCHANGED inside

Release(o, e) ==
  /\ o \in writing[e]
  /\ writing' = [writing EXCEPT ![e] = {}]
  /\ UNCHANGED <<inside, waiting>>

Enter(o, e) ==
  /\ o \notin inside[e]
  /\ writing[e] = {} /\ waiting[e] = <<>>
  /\ inside' = [inside EXCEPT ![e] = @ \union {o}]
  /\ UNCHANGED <<writing, waiting>>

Leave(o, e) ==
  /\ o \in inside[e]
  /\ inside' = [inside EXCEPT ![e] = @ \ {o}]
  /\ UNCHANGED <<writing, waiting>>

LockNext ==
  \E o \in Operations, e \in Environments :
    Request(o, e) \/ Grant(o, e) \/ Release(o, e) \/ Enter(o, e) \/ Leave(o, e)

LockSpec == LockInit /\ [][LockNext]_lockVars

LockExclusion ==
  \A e \in Environments : writing[e] # {} => inside[e] = {}
=============================================================================
