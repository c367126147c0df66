-------------------------- MODULE MCSavedConnections --------------------------
(* Saved connections and what is opened over them, for TLC.  Three parts that  *)
(* share no state; which of them is at work is chosen at the start:            *)
(*   saves     connections and credentials on disk       ConfigTransaction     *)
(*   ssh       the connection of a server                SshSession            *)
(*   terminal  the terminals of a tab of the server      Terminals             *)
EXTENDS MCConfigTransaction

CONSTANTS
  a1, a2, d1, d2, d3, None,
  Dials, HangUps,
  Asks, MaxTerminals, MaxConnections, MaxConfigs

VARIABLES
  part,
  owner, controller, lane, pending, session, call, client, socket, ending, told,
  connection, config, opened, ask, term, shell, closing

Ssh == INSTANCE SshSession WITH Attempts <- Dials, Disconnects <- HangUps, attempt <- call
Term == INSTANCE Terminals

ASSUME SavedConnectionsAssumption == Ssh!SshAssumption /\ Term!TerminalsAssumption

sshVars == <<owner, controller, lane, pending, session, call, client, socket, ending, told>>
terminalVars == <<connection, config, opened, ask, term, shell, closing>>
allVars == <<part, vars, sshVars, terminalVars>>

\* The two small parts use the same interchangeable names.
AllSymmetry == MCSymmetry \cup Permutations({a1, a2})

NothingSaved ==
  primary = MissingSlot /\ yaml = [p \in Plugins |-> [revision |-> 1, binding |-> bA]]

AllInit ==
  /\ part \in {"saves", "ssh", "terminal"}
  /\ Init /\ Ssh!Init /\ Term!Init
  /\ part # "saves" => NothingSaved

\* A second request, a terminal that is being closed and a save of the settings:
\* two of the three at a time.
FirstSettings == config' = [version |-> 1, save |-> "none"]
OneRequest == \E a \in Asks : ask'[a] = Term!NoAsk
TerminalBound ==
  \/ FirstSettings /\ closing' = None
  \/ FirstSettings /\ OneRequest
  \/ OneRequest /\ closing' = None /\ opened' <= 1

AllNext ==
  \/ /\ part = "saves" /\ Next /\ (LongHistory' \/ Neighbours')
     /\ UNCHANGED <<part, sshVars, terminalVars>>
  \/ part = "ssh" /\ Ssh!Next /\ UNCHANGED <<part, vars, terminalVars>>
  \/ /\ part = "terminal" /\ Term!Next /\ TerminalBound
     /\ UNCHANGED <<part, vars, sshVars>>
  \/ part # "saves" /\ UNCHANGED allVars  \* their calls are bounded
AllSpec == AllInit /\ [][AllNext]_allVars

\* Connections and terminals belong to the call or the tab that asked last, end
\* with it, and a lost terminal alone can be continued: see SshSession and
\* Terminals.
SessionsKeep ==
  /\ [](/\ part = "ssh" => Ssh!SessionSound
        /\ part = "terminal" => Term!TerminalsSound)
  /\ Ssh!LaterCallStands
  /\ Term!RightKept
=============================================================================
