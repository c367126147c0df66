------------------------------- MODULE Terminals -------------------------------
(* The terminals of one tab on one server: ServerWorkspaceManager               *)
(* (src/src/server-workspace-manager.mjs) over the shells that SshBroker opens  *)
(* (src/src/ssh-broker.mjs).  A terminal lost with its connection may be        *)
(* recovered; one that ended in any other way may not.                          *)
EXTENDS Naturals

CONSTANTS
  Asks,            \* bound: requests of the window under way at once
  MaxTerminals,    \* bound: terminals opened in the tab
  MaxConnections,  \* bound: connections of the server
  MaxConfigs,      \* bound: saves of its connection settings
  None

VARIABLES
  connection,  \* session of the broker: up, generation
  config,      \* settings on disk; a save under way
  opened,      \* terminals so far: they are numbered in the order of the map
  ask,         \* requests to open a terminal, up to the record of one
  term,        \* records of terminals
  shell,       \* channel of each terminal
  closing      \* the terminal the user is closing, before its record is checked

vars == <<connection, config, opened, ask, term, shell, closing>>

Terminals == 1..MaxTerminals
\* Terminals are told from the absence of one.
TerminalsAssumption == MaxTerminals \in Nat /\ None \notin Terminals

NoAsk == [at |-> "none", of |-> None, stale |-> FALSE, config |-> 0]
NoTerm == [at |-> "none", status |-> "none", reason |-> "none", known |-> FALSE,
           exited |-> FALSE, pending |-> FALSE, of |-> None, config |-> 0, generation |-> 0,
           over |-> FALSE]  \* history: it ended in another way than with its connection

Init ==
  /\ connection = [up |-> FALSE, generation |-> 0]
  /\ config = [version |-> 1, save |-> "none"]
  /\ opened = 0
  /\ ask = [a \in Asks |-> NoAsk]
  /\ term = [t \in Terminals |-> NoTerm]
  /\ shell = [t \in Terminals |-> "none"]
  /\ closing = None

\* The window is given the identity of a terminal once it is ready.
Told(t) == term[t].at = "done"
Live(r) == r.status \in {"opening", "open"}
Uncertain(reason) == reason \in {"channel-closed", "channel-error"}

\* canRecover
CanRecover(r) == r.status = "closed" /\ ~r.exited /\ r.reason = "connection-lost"

\* finish: a record ends once, for the first reason that is given.
Finished(r, reason) ==
  IF ~Live(r) THEN r
  ELSE [r EXCEPT !.status = "closed", !.reason = reason, !.pending = Uncertain(reason)]

\* The history of a terminal that did not end with its connection.
Ended(r) == [r EXCEPT !.over = r.known]

\* release: only start still has the record.
Released(r) == [NoTerm EXCEPT !.at = IF r.at = "done" THEN "over" ELSE r.at, !.status = "closed"]

\* The channels of the records that a step finishes are destroyed.
Destroys ==
  shell' = [t \in Terminals |->
    IF shell[t] = "open" /\ ~Live(term'[t]) THEN "gone" ELSE shell[t]]

\* Mutant: any end that is uncertain counts as lost with the connection.
ScopeClosedLate(r, reason) ==
  IF ~r.known THEN r
  ELSE IF reason = "connection-lost"
    THEN IF ~r.exited /\ (CanRecover(r) \/ Uncertain(r.reason))
           THEN [r EXCEPT !.reason = reason] ELSE Finished(r, reason)
  ELSE IF r.status = "closed" THEN [r EXCEPT !.reason = reason] ELSE Finished(r, reason)

\* Mutant: what had ended before keeps its reason.
ScopeClosedOnce(r, reason) ==
  IF ~r.known THEN r
  ELSE IF reason = "connection-lost" /\ ~r.exited /\ Uncertain(r.reason) /\ r.pending
    THEN [r EXCEPT !.reason = reason]
  ELSE Finished(r, reason)

\* closeScope, of one record: only what ends in the same round as the connection
\* is lost with it; any other reason takes the right to recover away.
ScopeClosed(r, reason) ==
  IF ~r.known THEN r
  ELSE IF reason = "connection-lost"
    THEN IF ~r.exited /\ (CanRecover(r) \/ (Uncertain(r.reason) /\ r.pending))
           THEN [r EXCEPT !.reason = reason] ELSE Finished(r, reason)
  ELSE IF r.status = "closed" THEN [r EXCEPT !.reason = reason] ELSE Finished(r, reason)

\* closeScope; it also ends the requests that came before.
CloseScope(reason) ==
  /\ term' = [t \in Terminals |->
       IF reason = "connection-lost" THEN ScopeClosed(term[t], reason)
       ELSE Ended(ScopeClosed(term[t], reason))]
  /\ ask' = [a \in Asks |-> [ask[a] EXCEPT !.stale = ask[a].at # "none"]]

(* The connection, as the broker tells of it. *)

\* A record is read from disk faster than a connection is made: a request that
\* came without one has been refused before there is one.
Connects ==
  /\ ~connection.up /\ connection.generation < MaxConnections
  /\ \A a \in Asks : ask[a].at = "read" => ask[a].stale
  /\ connection' = [up |-> TRUE, generation |-> connection.generation + 1]
  /\ UNCHANGED <<config, opened, ask, term, shell, closing>>

\* All channels go with their connection.
Down ==
  /\ connection' = [connection EXCEPT !.up = FALSE]
  /\ shell' = [t \in Terminals |-> IF shell[t] = "none" THEN "none" ELSE "gone"]

\* lost, or disconnected for a change of the network; by the user; or for the
\* program's own reasons.
Disconnects ==
  /\ connection.up /\ Down
  /\ \E reason \in {"connection-lost", "user-disconnected", "disconnected"} : CloseScope(reason)
  /\ UNCHANGED <<config, opened, closing>>

(* A save of the connection settings. *)

\* invalidateServerWorkspace, before the file is written
SaveBegins ==
  /\ config.save = "none" /\ config.version < MaxConfigs
  /\ config' = [config EXCEPT !.save = "writes"]
  /\ CloseScope("configuration-changed") /\ Destroys
  /\ UNCHANGED <<connection, opened, closing>>

SaveWrites ==
  /\ config.save = "writes"
  /\ \/ config' = [config EXCEPT !.save = "none"]
     \/ config' = [version |-> config.version + 1, save |-> "written"]
  /\ UNCHANGED <<connection, opened, ask, term, shell, closing>>

\* configurationChanged ends the session that was made with the old settings.
SaveEnds ==
  /\ config.save = "written" /\ config' = [config EXCEPT !.save = "none"]
  /\ IF connection.up
       THEN Down /\ CloseScope("disconnected")
       ELSE UNCHANGED <<connection, ask, term, shell>>
  /\ UNCHANGED <<opened, closing>>

(* openTerminal *)

\* The tab opens a terminal, or continues the one whose end it was told of; the
\* epochs are noted and the record is read (what falls between the two falls
\* before or after both).
Ask(a) ==
  /\ ask[a].at = "none"
  /\ \E of \in {None} \cup {t \in Terminals : Told(t) /\ ~Live(term[t])} :
       ask' = [ask EXCEPT ![a] = 
         [at |-> "read", of |-> of, stale |-> FALSE, config |-> config.version]]
  /\ UNCHANGED <<connection, config, opened, term, shell, closing>>

\* Mutant: the epochs are not compared.
AnyEpoch(a) == TRUE

\* Neither the scope nor the window was closed since the request.
SameEpoch(a) == ~ask[a].stale

\* Mutant: a terminal is continued without a look at why it ended.
SameServer(a) ==
  LET t == ask[a].of IN t # None => term[t].known /\ term[t].config = ask[a].config

\* The original is still known, has the same settings, and was lost.
RecoveryStands(a) ==
  LET t == ask[a].of
  IN t # None => term[t].known /\ term[t].config = ask[a].config /\ CanRecover(term[t])

Admitted(a) == connection.up /\ SameEpoch(a) /\ RecoveryStands(a)

\* The terminal of the tab on this connection and these settings.
Present(a) ==
  {t \in Terminals : /\ term[t].known /\ Live(term[t])
                     /\ term[t].config = ask[a].config
                     /\ term[t].generation = connection.generation}

\* Mutant: the one that is continued goes at once as well.
WholeTab(a, t) == term[t].known

\* Every other record of the tab goes, but for the one that is continued.
Others(a, t) == term[t].known /\ t # ask[a].of

Refuse(a) ==
  /\ ask[a].at = "read" /\ ~Admitted(a)
  /\ ask' = [ask EXCEPT ![a] = NoAsk]
  /\ UNCHANGED <<connection, config, opened, term, shell, closing>>

\* The request waits for the terminal that is there; records before it in the
\* map go.
Join(a) ==
  /\ ask[a].at = "read" /\ Admitted(a)
  /\ \E p \in Present(a) :
       /\ \A t \in Present(a) : p <= t
       /\ term' = [t \in Terminals |->
            IF t < p /\ Others(a, t) THEN Released(Finished(term[t], "replaced"))
            ELSE term[t]]
  /\ Destroys
  /\ ask' = [ask EXCEPT ![a] = NoAsk]
  /\ UNCHANGED <<connection, config, opened, closing>>

Admit(a) ==
  /\ ask[a].at = "read" /\ Admitted(a) /\ Present(a) = {} /\ opened < MaxTerminals
  /\ opened' = opened + 1
  /\ term' = [t \in Terminals |->
       IF t = opened + 1
         THEN [NoTerm EXCEPT !.at = "audits", !.status = "opening", !.known = TRUE,
                             !.of = ask[a].of, !.config = ask[a].config,
                             !.generation = connection.generation]
       ELSE IF Others(a, t) THEN Released(Finished(term[t], "replaced"))
       ELSE term[t]]
  /\ Destroys
  /\ ask' = [ask EXCEPT ![a] = NoAsk]
  /\ UNCHANGED <<connection, config, closing>>

(* start *)

\* The catch of start.
Failed(r) == [Released(r) EXCEPT !.at = "over"]

OpenFails(t) ==
  /\ term' = [term EXCEPT ![t] = Failed(@)] /\ Destroys
  /\ UNCHANGED <<connection, config, opened, ask, closing>>

\* The record of the audit log, which may fail; then the shell is requested.
Audited(t) ==
  /\ term[t].at = "audits"
  /\ \/ OpenFails(t)
     \/ /\ Live(term[t]) /\ connection.up
        /\ term' = [term EXCEPT ![t].at = "opening"]
        /\ shell' = [shell EXCEPT ![t] = "asked"]
        /\ UNCHANGED <<connection, config, opened, ask, closing>>

\* An error, 15 s without an answer, or the end of the connection.
ShellFails(t) == term[t].at = "opening" /\ OpenFails(t)

\* Mutant: a channel that arrives late is taken all the same.
WantedAnyway(t) == term[t].at = "opening"

\* The channel came in time, and nobody closed the terminal meanwhile.
StillWanted(t) == term[t].at = "opening" /\ Live(term[t]) /\ term[t].known

\* The callback of the broker and the rest of start.
ShellOpens(t) ==
  /\ shell[t] = "asked"
  /\ IF StillWanted(t)
       THEN /\ term' = [term EXCEPT ![t].at = "starting", ![t].status = "open"]
            /\ shell' = [shell EXCEPT ![t] = "open"]
       ELSE /\ term' = [term EXCEPT ![t] = IF @.at = "opening" THEN Failed(@) ELSE @]
            /\ shell' = [shell EXCEPT ![t] = "gone"]
  /\ UNCHANGED <<connection, config, opened, ask, closing>>

StartupFails(t) == term[t].at = "starting" /\ OpenFails(t)

\* The shell is ready; the terminal it continues is forgotten.
Ready(t) ==
  /\ term[t].at = "starting" /\ Live(term[t])
  /\ term' = [s \in Terminals |->
       IF s = t THEN [term[s] EXCEPT !.at = "done"]
       ELSE IF s = term[t].of THEN Released(term[s]) ELSE term[s]]
  /\ UNCHANGED <<connection, config, opened, ask, shell, closing>>

(* The channel. *)

Exited(r) ==
  [Ended(r) EXCEPT !.exited = TRUE,
                   !.reason = IF @ = "channel-closed" THEN "remote-exit" ELSE @]

\* The exit status: before the end of the output or after it.
Exits(t) ==
  /\ shell[t] \in {"open", "ended"} /\ term[t].known /\ ~term[t].exited
  /\ term' = [term EXCEPT ![t] = Exited(@)]
  /\ UNCHANGED <<connection, config, opened, ask, shell, closing>>

\* The end of the output, or the close of the channel without a status.
Ends(t) ==
  /\ shell[t] = "open"
  /\ shell' = [shell EXCEPT ![t] = "ended"]
  /\ term' = [term EXCEPT ![t] =
       Finished(@, IF term[t].exited THEN "remote-exit" ELSE "channel-closed")]
  /\ UNCHANGED <<connection, config, opened, ask, closing>>

\* An error of the channel, or input that is not taken within 15 s.
Breaks(t) ==
  /\ shell[t] = "open" /\ Live(term[t])
  /\ term' = [term EXCEPT ![t] = Finished(@, "channel-error")] /\ Destroys
  /\ UNCHANGED <<connection, config, opened, ask, closing>>

\* The setImmediate of finish: the round of the end is over.
RoundEnds(t) ==
  /\ term[t].pending
  /\ term' = [term EXCEPT ![t] = [(IF CanRecover(@) THEN @ ELSE Ended(@)) EXCEPT !.pending = FALSE]]
  /\ UNCHANGED <<connection, config, opened, ask, shell, closing>>

(* Other requests of the window. *)

\* requireRecord before a request: the settings have changed, or cannot be read.
Invalidates(t) ==
  /\ Told(t) /\ Live(term[t])
  /\ term' = [term EXCEPT ![t] = Ended(Finished(@, "scope-invalidated"))] /\ Destroys
  /\ UNCHANGED <<connection, config, opened, ask, closing>>

\* One at a time (bound).
AsksToClose(t) ==
  /\ Told(t) /\ closing = None /\ closing' = t
  /\ UNCHANGED <<connection, config, opened, ask, term, shell>>

\* Mutant: the reason of an end that came first stays.
UserClosedOnce(t) == Finished(term[t], "user-closed")

\* Mutant: a recovery under way goes on.
RecoveryLeft(r) == r

\* closeTerminal: whatever ended the terminal before, the user did now.
UserClosed(t) == [Finished(term[t], "user-closed") EXCEPT !.reason = "user-closed"]

RecoveryClosed(r) == Finished(r, "user-closed")

CloseTerminal(t) ==
  /\ t = closing /\ closing' = None
  /\ term' = [r \in Terminals |->
       IF r = t THEN Ended(UserClosed(t))
       ELSE IF term[r].known /\ term[r].of = t THEN RecoveryClosed(term[r]) ELSE term[r]]
  /\ Destroys
  /\ UNCHANGED <<connection, config, opened, ask>>

\* closeOwner: the window is closed, or shows another page.
CloseOwner ==
  /\ \E t \in Terminals : term[t].known
  /\ term' = [t \in Terminals |->
       IF term[t].known THEN Released(Finished(term[t], "window-closed")) ELSE term[t]]
  /\ Destroys
  /\ ask' = [a \in Asks |-> [ask[a] EXCEPT !.stale = ask[a].at # "none"]]
  /\ UNCHANGED <<connection, config, opened, closing>>

Next ==
  \/ Connects \/ Disconnects \/ SaveBegins \/ SaveWrites \/ SaveEnds \/ CloseOwner
  \/ \E a \in Asks : Ask(a) \/ Refuse(a) \/ Join(a) \/ Admit(a)
  \/ \E t \in Terminals :
       \/ Audited(t) \/ ShellFails(t) \/ ShellOpens(t) \/ StartupFails(t) \/ Ready(t)
       \/ Exits(t) \/ Ends(t) \/ Breaks(t) \/ RoundEnds(t)
       \/ Invalidates(t) \/ AsksToClose(t) \/ CloseTerminal(t)

Spec == Init /\ [][Next]_vars

--------------------------------------------------------------------------------
(* Properties *)

\* No shell runs on the server that no record can close, and a terminal that
\* is open runs on the connection there is.
ShellsOwned ==
  \A t \in Terminals :
    /\ shell[t] = "open" => term[t].status = "open" /\ term[t].known
    /\ Live(term[t]) => connection.up /\ term[t].generation = connection.generation

OneInTab == \A t, s \in Terminals : Live(term[t]) /\ Live(term[s]) => t = s

\* A terminal that was closed by the user, that exited, or that ended long
\* before its connection does not come back with the next loss.
NotResurrected ==
  \A t \in Terminals :
    /\ term[t].over => ~CanRecover(term[t])
    /\ term[t].reason = "user-closed" => \A r \in Terminals : term[r].of = t => ~Live(term[r])

\* Between two saves no terminal is open with the settings of an earlier one.
CurrentSettings ==
  config.save = "none" =>
    \A t \in Terminals : term[t].status = "open" => term[t].config = config.version

TerminalsSound == ShellsOwned /\ OneInTab /\ NotResurrected /\ CurrentSettings

\* The right to continue a lost terminal goes to the terminal that continues it
\* once it is ready, ends with a request for another one in the tab, or with the
\* window: a recovery that fails leaves it.
RightKept ==
  [][\A t \in Terminals :
       term[t].at = "done" /\ term[t].known /\ CanRecover(term[t]) /\ ~term'[t].known =>
         \/ \E r \in Terminals : term'[r].of = t /\ Live(term'[r]) /\ term'[r].at = "done"
         \/ \E a \in Asks : ask[a].at = "read" /\ ask[a].of # t /\ ask'[a].at = "none"
         \/ \A r \in Terminals : ~term'[r].known]_vars
================================================================================
