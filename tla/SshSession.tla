------------------------------ MODULE SshSession ------------------------------
(* The SSH connection of one server: connect, disconnect and forceDisconnect of  *)
(* ServerPluginRuntime (src/src/server-plugin-runtime.mjs) over the lane of      *)
(* SshBroker (src/src/ssh-broker.mjs).  Its lifecycle events are what terminals, *)
(* transfers and the connection manager go by.  Sockets and SSH clients belong   *)
(* to a library: a client that is ended closes sooner or later.                  *)
EXTENDS Naturals, Sequences

CONSTANTS
  Attempts,     \* bound: calls of connect
  Disconnects,  \* bound: calls of disconnect
  None

\* Calls are told from one another and from the absence of one.
SshAssumption == None \notin Attempts /\ Attempts \cap Disconnects = {}

VARIABLES
  owner,       \* runtime: connectAttempts, the attempt the connection is due to
  controller,  \* runtime: connectionControllers, the attempt that can be aborted
  lane,        \* broker: connectionOperations, what runs and what waits for it
  pending,     \* broker: pendingConnections
  session,     \* broker: sessions, the attempt whose client is in use
  attempt,     \* the calls of connect: stage, signal, flags of the broker
  client,      \* SSH client of each attempt
  socket,      \* socket of each attempt
  ending,      \* the calls of disconnect, and the session each has ended
  told         \* last lifecycle event of each attempt

vars == <<owner, controller, lane, pending, session, attempt, client, socket, ending, told>>

NoAttempt == [at |-> "none", aborted |-> FALSE, cancelled |-> FALSE, failed |-> FALSE,
              replaces |-> None,    \* the session that gives way to it
              overtaken |-> FALSE]  \* history: a later call came before it was over

Init ==
  /\ owner = None /\ controller = None /\ lane = <<>> /\ pending = None /\ session = None
  /\ attempt = [a \in Attempts |-> NoAttempt]
  /\ client = [a \in Attempts |-> "none"]
  /\ socket = [a \in Attempts |-> "none"]
  /\ ending = [d \in Disconnects |-> [at |-> "none", ends |-> None]]
  /\ told = [a \in Attempts |-> "none"]

Running(x) == lane # <<>> /\ Head(lane) = x
Alive == {"connecting", "ready"}
Over(a) == attempt[a].at \in {"none", "connected", "refused"}
At(a, stage) == attempt' = [attempt EXCEPT ![a].at = stage]

\* Clients that are told to end, and sockets that are destroyed under them.
Ends(S) ==
  /\ client' = [a \in Attempts |-> IF a \in S /\ client[a] \in Alive THEN "ending" ELSE client[a]]
  /\ socket' = [a \in Attempts |-> IF a \in S /\ socket[a] = "open" THEN "destroyed" ELSE socket[a]]

(* The calls. *)

\* cancelPendingConnection: the attempt the broker is at.
Cancelled == {pending} \ {None}

\* controller.abort: it cancels what is pending if that is the owner's, or the
\* attempt itself.
Aborted == {controller} \ {None}
CancelledWith(a) == IF a \in {owner, pending} THEN Cancelled ELSE {}

\* The attempts in S are aborted, those in C cancelled.
Stops(S, C, new) ==
  /\ attempt' = [a \in Attempts |->
       IF a = new THEN [NoAttempt EXCEPT !.at = "prepares"]
       ELSE [attempt[a] EXCEPT !.aborted = @ \/ a \in S, !.cancelled = @ \/ a \in C,
                               !.overtaken = @ \/ ~Over(a)]]
  /\ pending' = IF pending \in C THEN None ELSE pending
  /\ Ends(S \cup C)

\* connect: the former attempt is aborted while it still owns the connection.
Connect(a) ==
  /\ attempt[a].at = "none"
  /\ Stops(Aborted, UNION {CancelledWith(b) : b \in Aborted}, a)
  /\ owner' = a /\ controller' = a
  /\ UNCHANGED <<lane, session, ending, told>>

\* disconnect, of the runtime and of the broker
Disconnect(d) ==
  /\ ending[d].at = "none"
  /\ Stops(Aborted, Cancelled, None)
  /\ owner' = None
  /\ lane' = Append(lane, d)
  /\ ending' = [ending EXCEPT ![d].at = "queued"]
  /\ UNCHANGED <<controller, session, told>>

\* Mutant: a deadline ends whatever there is.
AnyOwner(a) == TRUE

\* attemptToken
StillDue(a) == owner = a

\* forceDisconnect with the token of an attempt: nothing if it is not due.
ForceDisconnect(a, d) == a # None /\ attempt[a].at # "none" /\ StillDue(a) /\ Disconnect(d)

(* connect *)

\* The catches of the broker and of the runtime.
Refused(a) ==
  /\ attempt' = [attempt EXCEPT ![a].at = "refused", ![a].replaces = None]
  /\ pending' = IF pending = a THEN None ELSE pending
  /\ Ends({a})
  /\ owner' = IF owner = a THEN None ELSE owner
  /\ controller' = IF controller = a THEN None ELSE controller

Refuse(a) ==
  /\ Refused(a)
  /\ lane' = IF Running(a) THEN Tail(lane) ELSE lane
  /\ UNCHANGED <<session, ending, told>>

\* assertOwned
Owned(a) == ~attempt[a].aborted /\ owner = a

\* The credentials are loaded and the socket is open, or not; then the lane.
Prepared(a) ==
  /\ attempt[a].at = "prepares"
  /\ \/ Refuse(a)
     \/ /\ Owned(a)
        /\ At(a, "queued") /\ lane' = Append(lane, a)
        /\ socket' = [socket EXCEPT ![a] = "open"]
        /\ UNCHANGED <<owner, controller, pending, session, client, ending, told>>

\* Mutant: the signal is not looked at again.
Unlooked(a) == TRUE

\* The signal, after each step before the attempt is pending.
Unaborted(a) == ~attempt[a].aborted

\* The record of the plugin is read.
Turn(a) ==
  /\ Running(a) /\ attempt[a].at = "queued"
  /\ \/ ~Unaborted(a) /\ Refuse(a)
     \/ /\ Unaborted(a) /\ At(a, "reads")
        /\ UNCHANGED <<owner, controller, lane, pending, session, client, socket, ending, told>>

\* The session leaves: the event first, then the client.
Leaves ==
  /\ session' = None
  /\ told' = [a \in Attempts |-> IF a = session THEN "disconnected" ELSE told[a]]
  /\ client' = [a \in Attempts |->
       IF a = session /\ client[a] \in Alive THEN "ending" ELSE client[a]]

\* disconnectUnlocked of the former session.
Replaces(a) ==
  /\ attempt[a].at = "reads"
  /\ \/ Refuse(a)
     \/ /\ Unaborted(a)
        /\ attempt' = [attempt EXCEPT ![a].at = "replaces", ![a].replaces = session]
        /\ Leaves
        /\ UNCHANGED <<owner, controller, lane, pending, socket, ending>>

\* The former client closed, or 2 s went by.
Replaced(a) ==
  /\ attempt[a].at = "replaces"
  /\ \/ ~Unaborted(a) /\ Refuse(a)
     \/ /\ Unaborted(a)
        /\ attempt' = [attempt EXCEPT ![a].at = "identifies", ![a].replaces = None]
        /\ pending' = a
        /\ UNCHANGED <<owner, controller, lane, session, client, socket, ending, told>>

\* Mutant: a client that closed meanwhile is not noticed.
NotCancelled(a) == pending = a /\ ~attempt[a].cancelled

\* assertPendingConnection
StillPending(a) == pending = a /\ ~attempt[a].cancelled /\ ~attempt[a].failed

\* The private key is read; the client starts.
Identified(a) ==
  /\ attempt[a].at = "identifies"
  /\ \/ Refuse(a)
     \/ /\ StillPending(a)
        /\ At(a, "connects") /\ client' = [client EXCEPT ![a] = "connecting"]
        /\ UNCHANGED <<owner, controller, lane, pending, session, socket, ending, told>>

\* ready, perhaps of a client that was just told to end; the fingerprint of the
\* host is recorded.
Ready(a) ==
  /\ attempt[a].at = "connects" /\ client[a] \in {"connecting", "ending"}
  /\ IF StillPending(a)
       THEN /\ At(a, "trusts") /\ client' = [client EXCEPT ![a] = "ready"]
            /\ UNCHANGED <<owner, controller, lane, pending, session, socket, ending, told>>
       ELSE Refuse(a)

\* The client becomes the session.
Trusted(a) ==
  /\ attempt[a].at = "trusts"
  /\ \/ Refuse(a)
     \/ /\ StillPending(a)
        /\ At(a, "records") /\ session' = a
        /\ told' = [told EXCEPT ![a] = "connected"]
        /\ UNCHANGED <<owner, controller, lane, pending, client, socket, ending>>

\* Mutant: the runtime reports what the broker did.
Reported(a) == TRUE

\* The last assertOwned.
Confirmed(a) == Owned(a)

\* The audit record is written or not; a connection that is not wanted any more
\* goes with its socket.
Recorded(a) ==
  /\ attempt[a].at = "records"
  /\ IF Confirmed(a)
       THEN /\ At(a, "connected")
            /\ controller' = IF controller = a THEN None ELSE controller
            /\ pending' = IF pending = a THEN None ELSE pending
            /\ lane' = Tail(lane)
            /\ UNCHANGED <<owner, session, client, socket, ending, told>>
       ELSE Refuse(a)

(* disconnect *)

Runs(d) ==
  /\ Running(d) /\ ending[d].at = "queued"
  /\ ending' = [ending EXCEPT ![d] = [at |-> "waits", ends |-> session]]
  /\ Leaves
  /\ UNCHANGED <<owner, controller, lane, pending, attempt, socket>>

\* The client closed, or 2 s went by; the audit record.
Disconnected(d) ==
  /\ ending[d].at = "waits"
  /\ ending' = [ending EXCEPT ![d] = [at |-> "over", ends |-> None]]
  /\ lane' = Tail(lane)
  /\ UNCHANGED <<owner, controller, pending, session, attempt, client, socket, told>>

(* The client. *)

\* clearInterruptedSession: only of its own record.
OwnSession(a) == session = a

\* error or close: it ends the attempt that waits for it, and the session.
Closes(a) ==
  /\ client[a] \in Alive \cup {"ending"}
  /\ client' = [client EXCEPT ![a] = "closed"]
  /\ socket' = [socket EXCEPT ![a] = "destroyed"]
  /\ IF attempt[a].at = "connects"
       THEN /\ attempt' = [attempt EXCEPT ![a].at = "refused", ![a].failed = TRUE]
            /\ pending' = IF pending = a THEN None ELSE pending
            /\ owner' = IF owner = a THEN None ELSE owner
            /\ controller' = IF controller = a THEN None ELSE controller
            /\ lane' = Tail(lane)
       ELSE /\ attempt' = [attempt EXCEPT ![a].failed = TRUE]
            /\ UNCHANGED <<pending, owner, controller, lane>>
  /\ IF told[a] # "none" /\ OwnSession(a)
       THEN session' = None /\ told' = [told EXCEPT ![a] = "lost"]
       ELSE UNCHANGED <<session, told>>
  /\ UNCHANGED ending

Next ==
  \/ \E a \in Attempts :
       \/ Connect(a) \/ Prepared(a) \/ Turn(a) \/ Replaces(a) \/ Replaced(a) \/ Identified(a)
       \/ Ready(a) \/ Trusted(a) \/ Recorded(a) \/ Closes(a)
  \/ \E d \in Disconnects :
       \/ Disconnect(d) \/ Runs(d) \/ Disconnected(d)
       \/ \E a \in Attempts : ForceDisconnect(a, d)

Spec == Init /\ [][Next]_vars

--------------------------------------------------------------------------------
(* Properties *)

\* Whoever follows the lifecycle events knows the session: each connected is
\* followed by one end, of the same client, and never by another's.
EventsTrue == \A a \in Attempts : told[a] = "connected" <=> session = a

\* The session is never a client that is closed, and an attempt that was
\* refused leaves neither a client nor a socket to go on.
NothingLeft ==
  \A a \in Attempts :
    /\ session = a => client[a] # "closed"
    /\ attempt[a].at = "refused" => client[a] \notin Alive /\ socket[a] # "open"

\* Two clients are never at the server but for one that was told to end.
OneClient == \A a, b \in Attempts : client[a] \in Alive /\ client[b] \in Alive => a = b

SessionSound == EventsTrue /\ NothingLeft /\ OneClient

\* A call that came later is the last word: an attempt it overtook, wherever it
\* was, neither becomes the session nor is reported connected, and a deadline
\* ends only the attempt it was set for.
LaterCallStands ==
  [][/\ \A a \in Attempts :
          attempt[a].overtaken => /\ session # a => session' # a
                                  /\ attempt'[a].at = "connected" => attempt[a].at = "connected"
     /\ \A a, b \in Attempts, d \in Disconnects :
          ForceDisconnect(a, d) /\ b # a =>
            /\ session = a \/ session' = session
            /\ attempt'[b].aborted = attempt[b].aborted]_vars
================================================================================
