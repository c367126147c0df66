---------------------------- MODULE AtomicProject ---------------------------
(***************************************************************************)
(* What a user may rely on when several files and both slots of the        *)
(* credential vault change together: an import or a batch replaces all the *)
(* cells of its environments at once or none of them, a restart loses and  *)
(* revives nothing, and nothing else changes while the program runs but    *)
(* the saves it admitted.                                                  *)
(***************************************************************************)
CONSTANTS Environments, Values

VARIABLES
  config,    \* what each cell holds, as a restart would show it
  running

atomicVars == <<config, running>>

Slots == {"file", "primary", "secondary"}
Cells == Slots \X Environments
Over(S) == Slots \X S

AtomicInit == config \in [Cells -> Values] /\ running = TRUE

\* A save or a batch of one environment, or an import of all of them.
Replace(S) ==
  /\ running /\ UNCHANGED running
  /\ \E new \in [S -> Values] :
       config' = [c \in Cells |-> IF c \in Over(S) THEN new[c[2]] ELSE config[c]]

\* The files of a program that is not running may be edited by hand.
Edit(c) ==
  /\ ~running /\ UNCHANGED running
  /\ \E v \in Values : config' = [config EXCEPT ![c] = v]

StartOrStop == running' = ~running /\ UNCHANGED config

AtomicNext ==
  \/ \E S \in {Environments} \cup {{e} : e \in Environments} : Replace(S)
  \/ \E c \in Cells : Edit(c)
  \/ StartOrStop

AtomicSpec == AtomicInit /\ [][AtomicNext]_atomicVars
=============================================================================
