------------------------ MODULE ConfirmationLifecycle -----------------------
(***************************************************************************)
(* What a confirmation promises the user: it is asked once, granted at     *)
(* most once and then either spent by one operation or void.  Any number   *)
(* of confirmations may lapse in a step, but only one is asked, granted or *)
(* spent.                                                                  *)
(***************************************************************************)
EXTENDS Naturals

CONSTANT Ids
VARIABLE stage

Stages == {"unasked", "asked", "granted", "spent", "void"}

LifecycleInit == stage = [i \in Ids |-> "unasked"]

\* The single deliberate step of a confirmation.
Advances(i) ==
  <<stage[i], stage'[i]>> \in
    {<<"unasked", "asked">>, <<"asked", "granted">>, <<"granted", "spent">>}

Lapses(i) == stage[i] \in {"asked", "granted"} /\ stage'[i] = "void"

LifecycleNext ==
  /\ stage' \in [Ids -> Stages]
  /\ \A i \in Ids : stage'[i] = stage[i] \/ Advances(i) \/ Lapses(i)
  /\ \A i, j \in Ids : Advances(i) /\ Advances(j) => i = j

LifecycleSpec == LifecycleInit /\ [][LifecycleNext]_stage
=============================================================================
