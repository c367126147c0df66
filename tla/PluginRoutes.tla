----------------------------- MODULE PluginRoutes -----------------------------
(* The route of one plugin and those who take it from each other: RouteManager *)
(* (src/src/route-manager.mjs) under the connect, disconnect and               *)
(* forceDisconnect of its runtime (src/src/redis-plugin-runtime.mjs and, with  *)
(* the same steps, src/src/mysql-plugin-runtime.mjs).                          *)
(*                                                                             *)
(* A Redis plugin has a relay, which listens at once but takes time to close;  *)
(* a MySQL plugin has a socket, which takes time to open but closes at once.   *)
(* Generations are compared for equality only: that of a route is the attempt  *)
(* it was opened for, and the one a closing draws belongs to Nobody.           *)
EXTENDS Naturals, FiniteSets

CONSTANTS
  Attempts,     \* bound: calls of connect
  Disconnects,  \* bound: calls of disconnect
  Nobody,       \* the generation drawn by closeRelay
  None

\* Attempts are told from the absence of one.
RoutesAssumption == None \notin Attempts

VARIABLES
  kind,     \* "relay" or "socket"
  owner,    \* connectAttempts of the runtime
  session,  \* sessions of the runtime: the attempt that opened it
  attempt,  \* calls of connect
  leaving,  \* calls of disconnect
  route,    \* relays, generations and the routes that are open
  loose     \* calls of closeRelay that nobody waits for

vars == <<kind, owner, session, attempt, leaving, route, loose>>

NoAttempt == [at |-> "idle", aborted |-> FALSE, quits |-> None]
Idle == [at |-> "idle", quits |-> None]

Init ==
  /\ kind \in {"relay", "socket"}
  /\ owner = None /\ session = None
  /\ attempt = [a \in Attempts |-> NoAttempt]
  /\ leaving = [d \in Disconnects |-> Idle]
  /\ route = [cur |-> None, gen |-> None, open |-> {}]
  /\ loose = 0

UnderWay(a) == attempt[a].at \notin {"idle", "ended"}

-----------------------------------------------------------------------------
(* closeRelay up to its wait, given the generation that is expected, or None. *)

\* Mutant: whatever is current is closed.
ForeignTaken(rt, expected) == FALSE

Foreign(rt, expected) == expected # None /\ rt.cur # expected

\* Mutant: the generation of the one who comes too late is not looked at.
StaleAnyway(rt, expected) == IF rt.cur = None THEN [rt EXCEPT !.gen = None] ELSE rt

Stale(rt, expected) == IF rt.cur = None /\ rt.gen = expected THEN [rt EXCEPT !.gen = None] ELSE rt

\* Mutant: the generation is never forgotten.
Remembered(rt) == rt

\* After the wait: nothing is left of a plugin without a route.
Reclaimed(rt) == IF rt.cur = None THEN [rt EXCEPT !.gen = None] ELSE rt

CloseWaits(rt, expected) == ~Foreign(rt, expected) /\ rt.cur # None /\ kind = "relay"

Closed(rt, expected) ==
  IF Foreign(rt, expected) THEN Stale(rt, expected)
  ELSE LET left == [cur |-> None, open |-> rt.open \ {rt.cur},
                    gen |-> IF expected = None THEN Nobody ELSE rt.gen]
       IN IF CloseWaits(rt, expected) THEN left ELSE Reclaimed(left)

\* A call nobody waits for.
ClosesLoosely(rt, expected) ==
  /\ route' = Closed(rt, expected)
  /\ loose' = loose + (IF CloseWaits(rt, expected) THEN 1 ELSE 0)

LooseEnds ==
  /\ loose > 0 /\ loose' = loose - 1
  /\ route' = Reclaimed(route)
  /\ UNCHANGED <<kind, owner, session, attempt, leaving>>

-----------------------------------------------------------------------------
(* connect, from one wait to the next.  Each of the following gives the next  *)
(* stage of a from a route rt.                                                *)

Owned(a) == owner = a /\ ~attempt[a].aborted

At(a, stage) == attempt' = [attempt EXCEPT ![a].at = stage, ![a].quits = None]

\* finally: the attempt gives its ownership back.
Ends(a) ==
  /\ At(a, "ended")
  /\ owner' = IF owner = a THEN None ELSE owner

\* The attempt is at work; the connection manager starts another only after it
\* has aborted this one.
Begin(a) ==
  /\ attempt[a].at = "idle"
  /\ \A b \in Attempts \ {a} : UnderWay(b) => attempt[b].aborted
  /\ owner' = a
  /\ IF session # None
       THEN /\ attempt' = [attempt EXCEPT ![a] = [NoAttempt EXCEPT !.at = "quitting", !.quits = session]]
            /\ UNCHANGED route
       ELSE /\ At(a, IF CloseWaits(route, None) THEN "closing" ELSE "vault")
            /\ route' = Closed(route, None)
  /\ UNCHANGED <<kind, session, leaving, loose>>

\* disconnect has quit the session, answered or not, and closes its route.
Quit(a) ==
  LET s == attempt[a].quits
  IN /\ attempt[a].at = "quitting"
     /\ session' = IF session = s THEN None ELSE session
     /\ route' = Closed(route, s)
     /\ IF CloseWaits(route, s) THEN At(a, "closing") /\ UNCHANGED owner
        ELSE IF Owned(a) THEN At(a, "vault") /\ UNCHANGED owner
        ELSE Ends(a)
     /\ UNCHANGED <<kind, leaving, loose>>

QuitClosed(a) ==
  /\ attempt[a].at = "closing" /\ route' = Reclaimed(route)
  /\ IF Owned(a) THEN At(a, "vault") /\ UNCHANGED owner ELSE Ends(a)
  /\ UNCHANGED <<kind, session, leaving, loose>>

\* createRelay or createStreamRoute, once the former route is closed.
Opens(a, rt) ==
  IF attempt[a].aborted
    THEN Ends(a) /\ route' = rt /\ UNCHANGED loose
  ELSE IF kind = "socket"
    THEN At(a, "opening") /\ route' = [rt EXCEPT !.gen = a] /\ UNCHANGED <<owner, loose>>
  ELSE LET up == [cur |-> a, gen |-> a, open |-> rt.open \cup {a}]
       IN IF owner = a THEN At(a, "dialing") /\ route' = up /\ UNCHANGED <<owner, loose>>
          ELSE Ends(a) /\ ClosesLoosely(up, a)

\* The credential is read, or cannot be.
Loaded(a) ==
  /\ attempt[a].at = "vault"
  /\ \/ Ends(a) /\ UNCHANGED <<route, loose>>
     \/ /\ Owned(a)
        /\ IF CloseWaits(route, None)
             THEN At(a, "clearing") /\ route' = Closed(route, None) /\ UNCHANGED <<owner, loose>>
             ELSE Opens(a, Closed(route, None))
  /\ UNCHANGED <<kind, session, leaving>>

Cleared(a) ==
  /\ attempt[a].at = "clearing"
  /\ Opens(a, Reclaimed(route))
  /\ UNCHANGED <<kind, session, leaving>>

\* The socket is open; it is dropped when a newer attempt or a disconnect has
\* drawn a generation since.
Opened(a) ==
  /\ attempt[a].at = "opening" /\ route.gen = a /\ ~attempt[a].aborted
  /\ LET up == [route EXCEPT !.cur = a, !.open = @ \cup {a}]
     IN IF owner = a THEN At(a, "dialing") /\ route' = up /\ UNCHANGED <<owner, loose>>
        ELSE Ends(a) /\ ClosesLoosely(up, a)
  /\ UNCHANGED <<kind, session, leaving>>

NotOpened(a) ==
  /\ attempt[a].at = "opening"
  /\ route' = IF route.cur = None /\ route.gen = a THEN [route EXCEPT !.gen = None] ELSE route
  /\ Ends(a)
  /\ UNCHANGED <<kind, session, leaving, loose>>

Connected(a) ==
  /\ attempt[a].at = "dialing" /\ Owned(a)
  /\ session' = a /\ At(a, "ended")
  /\ UNCHANGED <<kind, owner, leaving, route, loose>>

\* The driver fails, or succeeds too late; its client is closed first.
Fails(a) ==
  /\ attempt[a].at = "dialing" /\ At(a, "failing")
  /\ UNCHANGED <<kind, owner, session, leaving, route, loose>>

Failed(a) ==
  /\ attempt[a].at = "failing"
  /\ ClosesLoosely(route, a) /\ Ends(a)
  /\ UNCHANGED <<kind, session, leaving>>

\* abort: the connection manager cancels an attempt or gives up on it.
Aborts(a) ==
  LET has == attempt[a].at \in {"dialing", "failing"}
      first == IF session # None THEN Closed(route, session) ELSE route
      waits == session # None /\ CloseWaits(route, session)
      second == IF has THEN Closed(first, a) ELSE first
  IN /\ UnderWay(a) /\ ~attempt[a].aborted
     /\ attempt' = [attempt EXCEPT ![a].aborted = TRUE]
     /\ IF owner = a
          THEN /\ session' = None /\ route' = second
               /\ loose' = loose + (IF waits THEN 1 ELSE 0) + (IF has /\ CloseWaits(first, a) THEN 1 ELSE 0)
          ELSE UNCHANGED <<session, route, loose>>
     /\ UNCHANGED <<kind, owner, leaving>>

-----------------------------------------------------------------------------
(* disconnect, forceDisconnect, and a session that breaks.                    *)

Disconnect(d) ==
  /\ leaving[d].at = "idle" /\ owner' = None
  /\ IF session # None
       THEN /\ leaving' = [leaving EXCEPT ![d] = [at |-> "quitting", quits |-> session]]
            /\ UNCHANGED <<route, loose>>
       ELSE /\ leaving' = [leaving EXCEPT ![d].at = "done"]
            /\ ClosesLoosely(route, None)
  /\ UNCHANGED <<kind, session, attempt>>

Left(d) ==
  LET s == leaving[d].quits
  IN /\ leaving[d].at = "quitting"
     /\ leaving' = [leaving EXCEPT ![d] = [at |-> "done", quits |-> None]]
     /\ session' = IF session = s THEN None ELSE session
     /\ ClosesLoosely(route, s)
     /\ UNCHANGED <<kind, owner, attempt>>

\* disconnectRuntime has waited long enough for a disconnect.
ForceDisconnect(d) ==
  /\ leaving[d].at = "quitting"
  /\ session' = None /\ owner' = None
  /\ IF session # None THEN ClosesLoosely(route, session) ELSE UNCHANGED <<route, loose>>
  /\ UNCHANGED <<kind, attempt, leaving>>

\* Sessions that are being closed report nothing.
Closing(s) == \/ \E a \in Attempts : attempt[a].quits = s
              \/ \E d \in Disconnects : leaving[d].quits = s

Lost ==
  /\ session # None /\ ~Closing(session)
  /\ session' = None
  /\ owner' = IF owner = session THEN None ELSE owner
  /\ ClosesLoosely(route, session)
  /\ UNCHANGED <<kind, attempt, leaving>>

AttemptStep(a) ==
  \/ Begin(a) \/ Quit(a) \/ QuitClosed(a) \/ Loaded(a) \/ Cleared(a) \/ Opened(a) \/ NotOpened(a)
  \/ Connected(a) \/ Fails(a) \/ Failed(a) \/ Aborts(a)

Next ==
  \/ \E a \in Attempts : AttemptStep(a)
  \/ \E d \in Disconnects : Disconnect(d) \/ Left(d) \/ ForceDisconnect(d)
  \/ Lost \/ LooseEnds

Spec == Init /\ [][Next]_vars

-----------------------------------------------------------------------------
TypeOK ==
  /\ kind \in {"relay", "socket"}
  /\ owner \in Attempts \cup {None} /\ session \in Attempts \cup {None}
  /\ attempt \in [Attempts -> [at : {"idle", "quitting", "closing", "vault", "clearing", "opening",
                                      "dialing", "failing", "ended"},
                               aborted : BOOLEAN, quits : Attempts \cup {None}]]
  /\ leaving \in [Disconnects -> [at : {"idle", "quitting", "done"}, quits : Attempts \cup {None}]]
  /\ route \in [cur : Attempts \cup {None}, gen : Attempts \cup {None, Nobody}, open : SUBSET Attempts]
  /\ loose \in Nat

\* The clean-up of an older attempt or session never takes the route of a
\* session that stands: whoever closes late expects another generation.
SessionRouted ==
  session # None /\ ~Closing(session) => route.cur = session /\ session \in route.open

\* An attempt is told that a newer one has replaced it only if so it is: the
\* newest attempt keeps the generation it has drawn while its socket opens.
NewestNotReplaced ==
  \A a \in Attempts : attempt[a].at = "opening" /\ Owned(a) => route.gen = a

\* No route stays open that nobody will close, and nothing is remembered of a
\* plugin that is at rest without a session.
NothingLeft ==
  /\ \A a \in route.open : \/ route.cur = a /\ (session = a \/ Closing(a))
                           \/ attempt[a].at \in {"dialing", "failing"}
  /\ (session = None /\ loose = 0 /\ (\A a \in Attempts : ~UnderWay(a))
       /\ \A d \in Disconnects : leaving[d].at # "quitting") =>
       route = [cur |-> None, gen |-> None, open |-> {}] /\ owner = None

RoutesOwned == TypeOK /\ SessionRouted /\ NewestNotReplaced /\ NothingLeft
=============================================================================
