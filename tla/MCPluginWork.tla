----------------------------- MODULE MCPluginWork -----------------------------
(* Work around one plugin for TLC: its SQL tab (SqlSession), the attempts and *)
(* disconnects that take its route from each other (PluginRoutes) and the     *)
(* probes of a form (FormProbes).  The three share no state; which of them is *)
(* at work is chosen at the start.                                            *)
EXTENDS SqlSession, TLC

CONSTANTS Attempts, Leavers, Nobody, Probes, r1, r2, r3, r4, g1, g2

VARIABLES
  part,
  kind, owner, live, attempt, leaving, route, loose,  \* live: session of PluginRoutes
  groups, probe

Script(mode, items) == [mode |-> mode, items |-> items]

\* Every mode, with writes before and after a commit, and transactions that
\* stay open from one plan to the next.
MCScripts ==
  {Script("atomic", <<"write", "write">>), Script("autocommit", <<"write", "write">>),
   Script("manual", <<"write", "rollback">>), Script("manual", <<"begin", "write">>),
   Script("manual", <<"commit">>), Script("manual", <<"rollback", "read">>)}

\* Three probes of one purpose, the last without a number, and one of another.
MCGroupOf == r1 :> g1 @@ r2 :> g1 @@ r3 :> g1 @@ r4 :> g2
MCSequence == r1 :> 1 @@ r2 :> 2 @@ r3 :> None @@ r4 :> 1

Routes == INSTANCE PluginRoutes WITH session <- live, Disconnects <- Leavers
Form == INSTANCE FormProbes WITH GroupOf <- MCGroupOf, Sequence <- MCSequence

ASSUME PluginWorkAssumption == Routes!RoutesAssumption /\ Form!FormAssumption

routeVars == <<kind, owner, live, attempt, leaving, route, loose>>
formVars == <<groups, probe>>
allVars == <<part, vars, routeVars, formVars>>

MCInit == /\ part \in {"tab", "route", "form"} /\ Init /\ Routes!Init /\ Form!Init
          /\ part # "route" => kind = "relay"
MCNext ==
  \/ part = "tab" /\ Next /\ UNCHANGED <<part, routeVars, formVars>>
  \/ part = "route" /\ Routes!Next /\ UNCHANGED <<part, vars, formVars>>
  \/ part = "form" /\ Form!Next /\ UNCHANGED <<part, vars, routeVars>>
MCLiveSpec == MCInit /\ [][MCNext]_allVars /\ Fairness

\* What is taken from an attempt, a session or a probe is taken by its owner:
\* see PluginRoutes and FormProbes.
OwnersKeep ==
  /\ [](part = "route" => Routes!RoutesOwned)
  /\ [](part = "form" => Form!ProbesOwned)
  /\ Form!StopsStand
=============================================================================
