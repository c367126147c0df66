------------------------------ MODULE SqlSession ------------------------------
(* The SQL tab of the desktop: a tab's session object, the script it runs on  *)
(* a connection of its own, the answers of the database, and what may reach   *)
(* the session while it waits: a stop, a release of the tab, a lost           *)
(* connection, the idle timer, and an edit or a disconnect of the plugin.     *)
(*                                                                            *)
(* A script is a sequence of statement kinds; its data, its policy checks and *)
(* its result rows are abstracted to the effect reported of each statement.   *)
EXTENDS Naturals, Sequences, FiniteSets

CONSTANTS
  Sessions,   \* the session objects the tab may create one after another
  None,
  Scripts,    \* [mode, items]: the scripts a user prepares
  MaxItems,   \* bound: statements of a script
  MaxPlans,   \* bound: plans prepared in all
  MaxLosses   \* bound: connections the network breaks

Kinds == {"read", "write", "begin", "commit", "rollback"}
Modes == {"atomic", "autocommit", "manual"}

ScriptRecord == [mode : Modes, items : Seq(Kinds)]

ASSUME ScriptsAssumption ==
  \A p \in Scripts : p \in ScriptRecord /\ Len(p.items) \in 1..MaxItems
ASSUME BoundsAssumption == MaxItems \in Nat /\ MaxPlans \in Nat \ {0} /\ MaxLosses \in Nat
ASSUME NoneAssumption == None \notin Sessions

VARIABLES
  tab,        \* this.sessions.get(key): the session object of the tab
  script,     \* plan number -> the script prepared under it
  session,    \* the session objects
  run,        \* where the asynchronous work of a session waits, at which item
  server,     \* what the database has of the connection of a session
  committed,  \* how often each statement <<plan, item>> has been committed
  desk,       \* a request admitted by the coordinator, not yet at the session
  edit,       \* the configuration edit of the environment
  disconnect, \* a requested disconnect that waits its turn
  losses

vars == <<tab, script, session, run, server, committed, desk, edit, disconnect, losses>>

Plans == 1..MaxPlans
Positions == 1..MaxItems
Waits == {"strict", "begin", "check", "item", "commit", "undo", "rollback", "idle"}
Effects == {"none", "pending", "committed", "rolledBack", "unknown"}

Fresh == [made |-> FALSE, plan |-> 0, ran |-> 0, used |-> FALSE, busy |-> FALSE,
          cancelled |-> FALSE, released |-> FALSE, stale |-> FALSE, child |-> "none",
          transaction |-> "none", status |-> "idle", results |-> <<>>]
Silent == [queue |-> <<>>, answer |-> "none", tx |-> FALSE, work |-> {}]

Init ==
  /\ tab = None
  /\ script = <<>>
  /\ session = [s \in Sessions |-> Fresh]
  /\ run = [s \in Sessions |-> [at |-> "none", i |-> 0]]
  /\ server = [s \in Sessions |-> Silent]
  /\ committed = [w \in Plans \X Positions |-> 0]
  /\ desk = "idle" /\ edit = "none" /\ disconnect = FALSE /\ losses = 0

-----------------------------------------------------------------------------
(* The synchronous stretch between two waits is computed on a record of the   *)
(* session, of where it waits, and of what it sends to the database.          *)

State(s) == [r |-> session[s], at |-> run[s].at, i |-> run[s].i, send |-> <<>>]
Items(st) == script[st.r.ran].items
Mode(st) == script[st.r.ran].mode
Item(st) == Items(st)[st.i]

\* The query st now waits for; COMMIT and ROLLBACK are the same whoever asks.
Await(st, at) ==
  [st EXCEPT !.at = at,
             !.send = <<[kind |-> IF at = "item" THEN Item(st) ELSE at,
                         write |-> <<st.r.ran, st.i>>]>>]

\* effects(): what becomes of the rows still pending.
Settled(results, effect) ==
  [k \in DOMAIN results |-> IF results[k] = "pending" THEN effect ELSE results[k]]

\* lost(): the connection is gone; with a transaction, a COMMIT or a write
\* under way the outcome is unknown.  The abort closes the connection.
Uncertain(st) ==
  \/ st.r.transaction = "active"
  \/ st.at = "commit"
  \/ st.at = "item" /\ Item(st) = "write"

Lost(st) ==
  IF st.r.released \/ st.r.status = "unknown" THEN st
  ELSE [st EXCEPT !.r.transaction = IF Uncertain(st) THEN "unknown" ELSE "none",
                  !.r.status = IF Uncertain(st) THEN "unknown" ELSE "error",
                  !.r.results = Settled(@, "unknown"),
                  !.r.child = IF @ = "none" THEN "none" ELSE "closed"]

\* The end of execute() after an error: the row of the failed statement, the
\* skipped ones, and the release of a connection nobody can trust.
Finish(st, uncertain) ==
  LET failed == IF st.i = 0 THEN 1 ELSE st.i
      Row(k) == IF k \in DOMAIN st.r.results THEN st.r.results[k]
                ELSE IF k = failed /\ uncertain THEN "unknown" ELSE "none"
  IN [st EXCEPT !.at = "none", !.r.busy = FALSE,
                !.r.status = IF uncertain THEN "unknown"
                             ELSE IF st.r.cancelled THEN "cancelled" ELSE "error",
                !.r.results = [k \in DOMAIN Items(st) |-> Row(k)],
                !.r.child = IF uncertain \/ st.r.cancelled THEN "none" ELSE @]

\* catch: a known transaction is rolled back before the outcome is told.
Catch(st) ==
  IF "unknown" \in {st.r.status, st.r.transaction} THEN Finish(st, TRUE)
  ELSE IF st.r.transaction # "active" THEN Finish(st, FALSE)
  ELSE IF st.r.child = "open" THEN Await(st, "rollback")
  ELSE Finish(Lost(st), TRUE)

Succeed(st) == [st EXCEPT !.at = "none", !.r.busy = FALSE, !.r.status = "success"]

Interrupted(st) == st.r.cancelled \/ st.r.child # "open" \/ st.r.stale

\* begin(), commit(): refused before the database is asked.
Begin(st) == IF st.r.transaction = "active" THEN Catch(st) ELSE Await(st, "begin")
Commit(st) == IF st.r.transaction = "active" THEN Await(st, "commit") ELSE Catch(st)

\* rollback() without a transaction asks nothing; controls() lets no second
\* one follow.
Past(st) ==
  IF /\ ~Interrupted(st) /\ st.i <= Len(Items(st))
     /\ Item(st) = "rollback" /\ st.r.transaction # "active"
  THEN [st EXCEPT !.r.results = Append(@, "none"), !.i = @ + 1] ELSE st

\* The first wait of the statement at hand, or the end of the script.
FirstWait(st) ==
  IF Interrupted(st) THEN Catch(st)
  ELSE IF st.i > Len(Items(st))
       THEN IF Mode(st) = "atomic" THEN Commit(st) ELSE Succeed(st)
  ELSE IF Item(st) = "begin" THEN Begin(st)
  ELSE IF Item(st) = "commit" THEN Commit(st)
  ELSE IF Item(st) = "rollback" THEN Await(st, "undo")
  ELSE IF \/ Mode(st) = "manual" /\ st.r.transaction # "active"
          \/ Mode(st) = "autocommit" /\ Item(st) = "write"
       THEN Begin(st)
  ELSE Await(st, IF Mode(st) = "atomic" THEN "item" ELSE "check")

Statement(st) == FirstWait(Past(st))

NextStatement(st, effect) ==
  Statement([st EXCEPT !.r.results = Append(@, effect), !.i = @ + 1])

\* Once connected: a strict mode for writes, one transaction for an atomic script.
Business(st) ==
  IF Mode(st) = "atomic" THEN Begin(st) ELSE Statement([st EXCEPT !.i = 1])
Connected(st) ==
  IF \E k \in DOMAIN Items(st) : Items(st)[k] = "write" THEN Await(st, "strict")
  ELSE Business(st)

-----------------------------------------------------------------------------
BecomeOn(s, st, connection) ==
  /\ session' = [session EXCEPT ![s] = st.r]
  /\ run' = [run EXCEPT ![s] = [at |-> st.at, i |-> st.i]]
  /\ server' = [server EXCEPT ![s] =
       [connection EXCEPT !.queue = @ \o st.send, !.answer = "none"]]
Become(s, st) == BecomeOn(s, st, server[s])

Running(s) == run[s].at \notin {"none", "idle"}
Live(s) == session[s].made /\ ~session[s].released

\* A request of the tab enters the environment unless an edit holds the fence.
Admit ==
  /\ desk = "idle" /\ edit = "none"
  /\ desk' = "admitted"
  /\ UNCHANGED <<tab, script, session, run, server, committed, edit, disconnect, losses>>

Refused ==
  /\ desk = "admitted"
  /\ desk' = "idle"
  /\ UNCHANGED <<tab, script, session, run, server, committed, edit, disconnect, losses>>

\* controls(): which statements a mode allows, given an open transaction.
OpenBefore(p, k, active) ==
  IF k = 1 THEN active ELSE p.items[k - 1] \notin {"commit", "rollback"}
Controls(p, active) ==
  /\ active => p.mode = "manual"
  /\ \A k \in DOMAIN p.items :
       /\ p.items[k] \in {"begin", "commit", "rollback"} => p.mode = "manual"
       /\ p.items[k] = "begin" => ~OpenBefore(p, k, active)
       /\ p.items[k] \in {"commit", "rollback"} => OpenBefore(p, k, active)

\* prepare(): a first plan makes the session of the tab; an unconfirmed
\* outcome or work under way refuses the next one.
Prepare(s, p) ==
  /\ desk = "admitted"
  /\ Len(script) < MaxPlans
  /\ \/ tab = None /\ ~session[s].made
     \/ tab = s /\ ~session[s].busy /\ "unknown" \notin {session[s].status, session[s].transaction}
  /\ ~session[s].stale /\ session[s].child # "closed"
  /\ Controls(p, session[s].transaction = "active")
  /\ tab' = s
  /\ script' = Append(script, p)
  /\ session' = [session EXCEPT ![s].made = TRUE, ![s].plan = Len(script) + 1,
                                ![s].used = FALSE, ![s].status = "prepared"]
  /\ desk' = "idle"
  /\ UNCHANGED <<run, server, committed, edit, disconnect, losses>>

\* Mutant: a plan delivered again runs again.
ExecuteAgain(s) ==
  /\ desk = "admitted" /\ tab = s
  /\ session[s].plan # 0 /\ ~session[s].busy
  /\ ~session[s].stale /\ session[s].child # "closed"
  /\ session' = [session EXCEPT ![s].busy = TRUE, ![s].cancelled = FALSE, ![s].status = "running",
                                ![s].results = <<>>, ![s].ran = session[s].plan]
  /\ run' = [run EXCEPT ![s] = [at |-> "audit", i |-> 0]]
  /\ desk' = "idle"
  /\ UNCHANGED <<tab, script, server, committed, edit, disconnect, losses>>

\* execute(): a plan is used once, before anything is awaited; delivering it
\* again answers with the state and runs nothing (Refused).
Execute(s) ==
  /\ desk = "admitted" /\ tab = s
  /\ session[s].plan # 0 /\ ~session[s].used /\ ~session[s].busy
  /\ ~session[s].stale /\ session[s].child # "closed"
  /\ session' = [session EXCEPT ![s].used = TRUE, ![s].busy = TRUE, ![s].cancelled = FALSE,
                                ![s].status = "running", ![s].results = <<>>,
                                ![s].ran = session[s].plan]
  /\ run' = [run EXCEPT ![s] = [at |-> "audit", i |-> 0]]
  /\ desk' = "idle"
  /\ UNCHANGED <<tab, script, server, committed, edit, disconnect, losses>>

Handled == UNCHANGED <<tab, script, committed, desk, edit, disconnect, losses>>

\* The record of the start is written; a session keeps the connection it has.
Audited(s) ==
  LET st == State(s) IN
  /\ run[s].at = "audit"
  /\ \/ Become(s, Catch(st))
     \/ /\ ~st.r.released /\ ~st.r.stale /\ st.r.child # "closed"
        /\ Become(s, IF st.r.child = "none" THEN [st EXCEPT !.at = "open"] ELSE Connected(st))
  /\ Handled

\* openSqlConnection() ends; a connection that comes too late is closed.  The
\* database has served by now what it ever serves of an earlier connection:
\* nothing that follows here depends on it.
Opened(s) ==
  LET st == State(s) IN
  /\ run[s].at = "open"
  /\ \/ Become(s, Catch(st))
     \/ /\ ~st.r.released /\ ~st.r.cancelled /\ ~st.r.stale
        /\ BecomeOn(s, Connected([st EXCEPT !.r.child = "open"]), Silent)
  /\ Handled

\* The answer of the database reaches a session that still has its connection.
AfterAnswer(st) ==
  CASE st.at = "strict" -> Business(st)
    [] st.at = "begin" ->
         LET begun == [st EXCEPT !.r.transaction = "active"]
         IN IF st.i # 0 /\ Item(st) = "begin" THEN NextStatement(begun, "none")
            ELSE Await(begun, "check")
    [] st.at = "check" ->
         IF st.i = 0 THEN Statement([st EXCEPT !.i = 1]) ELSE Await(st, "item")
    [] st.at = "item" ->
         IF Mode(st) = "autocommit" /\ Item(st) = "write" THEN Await(st, "commit")
         ELSE NextStatement(st, IF st.r.transaction = "active" THEN "pending" ELSE "none")
    [] st.at = "commit" ->
         LET done == [st EXCEPT !.r.transaction = "none",
                                !.r.results = Settled(@, "committed")]
         IN IF st.i > Len(Items(st)) THEN Succeed(done)
            ELSE NextStatement(done, IF Item(st) = "write" THEN "committed" ELSE "none")
    [] st.at = "undo" ->
         NextStatement([st EXCEPT !.r.transaction = "none",
                                  !.r.results = Settled(@, "rolledBack")], "none")
    [] st.at = "rollback" ->
         Finish([st EXCEPT !.r.transaction = "none",
                           !.r.results = Settled(@, "rolledBack")], FALSE)
    [] st.at = "idle" ->
         [st EXCEPT !.at = "none", !.r.transaction = "none", !.r.status = "cancelled",
                    !.r.results = Settled(@, "rolledBack"),
                    !.r.busy = FALSE, !.r.child = "none"]

\* Mutant: a COMMIT without an answer is taken for one that failed.
CommitFailed(st) == IF st.at = "rollback" THEN Finish(Lost(st), TRUE) ELSE Catch(st)

\* An error of the database, a time limit, or a connection that is gone.
AfterError(st) ==
  CASE st.at = "commit" -> Catch(Lost(st))
    [] st.at = "rollback" -> Finish(Lost(st), TRUE)
    [] st.at = "idle" -> [Lost(st) EXCEPT !.at = "none", !.r.busy = FALSE, !.r.child = "none"]
    [] OTHER -> Catch(st)

Answered(s) ==
  /\ run[s].at \in Waits /\ session[s].child = "open" /\ server[s].answer # "none"
  /\ Become(s, IF server[s].answer = "ok" THEN AfterAnswer(State(s)) ELSE AfterError(State(s)))
  /\ Handled

\* A query times out at the client; the database may still run it.
TimedOut(s) ==
  /\ run[s].at \in Waits /\ session[s].child = "open" /\ server[s].answer = "none"
  /\ Become(s, AfterError(State(s)))
  /\ Handled

Rejected(s) ==
  /\ run[s].at \in Waits /\ session[s].child # "open"
  /\ Become(s, AfterError(State(s)))
  /\ Handled

-----------------------------------------------------------------------------
(* The database runs the queries of a connection in order, and rolls back     *)
(* what is open when it notices that the connection is gone.                  *)

Awaited(s) == Len(server[s].queue) = 1 /\ run[s].at \in Waits /\ session[s].child = "open"

Rest(s, outcome) == [server[s] EXCEPT !.queue = Tail(@),
                                      !.answer = IF Awaited(s) THEN outcome ELSE "none"]

CommitAll(work) == [w \in DOMAIN committed |-> committed[w] + IF w \in work THEN 1 ELSE 0]

Serve(s) ==
  /\ server[s].queue # <<>>
  /\ LET q == Head(server[s].queue)
         work == server[s].work
     IN \/ /\ server' = [server EXCEPT ![s] = Rest(s, "error")]
           /\ UNCHANGED committed
        \/ /\ q.kind = "begin"
           /\ server' = [server EXCEPT ![s] = [Rest(s, "ok") EXCEPT !.tx = TRUE, !.work = {}]]
           /\ committed' = CommitAll(work)
        \/ /\ q.kind = "commit"
           /\ server' = [server EXCEPT ![s] = [Rest(s, "ok") EXCEPT !.tx = FALSE, !.work = {}]]
           /\ committed' = CommitAll(work)
        \/ /\ q.kind \in {"undo", "rollback", "idle"}
           /\ server' = [server EXCEPT ![s] = [Rest(s, "ok") EXCEPT !.tx = FALSE, !.work = {}]]
           /\ UNCHANGED committed
        \* a write the database warns of is applied and reported as an error
        \/ /\ q.kind = "write" /\ server[s].tx
           /\ \E outcome \in {"ok", "error"} :
                server' = [server EXCEPT ![s] = [Rest(s, outcome) EXCEPT !.work = @ \cup {q.write}]]
           /\ UNCHANGED committed
        \/ /\ q.kind = "write" /\ ~server[s].tx
           /\ server' = [server EXCEPT ![s] = Rest(s, "ok")]
           /\ committed' = CommitAll({q.write})
        \/ /\ q.kind \in {"strict", "check", "read"}
           /\ server' = [server EXCEPT ![s] = Rest(s, "ok")]
           /\ UNCHANGED committed
  /\ UNCHANGED <<tab, script, session, run, desk, edit, disconnect, losses>>

Dropped(s) ==
  /\ session[s].child # "open"
  /\ server[s].queue # <<>> \/ server[s].tx
  /\ server' = [server EXCEPT ![s] = Silent]
  /\ UNCHANGED <<tab, script, session, run, committed, desk, edit, disconnect, losses>>

-----------------------------------------------------------------------------
(* What reaches a session from outside.                                       *)

Lose(s) ==
  /\ losses < MaxLosses /\ session[s].child = "open"
  /\ session' = [session EXCEPT ![s] = Lost(State(s)).r]
  /\ losses' = losses + 1
  /\ UNCHANGED <<tab, script, run, server, committed, desk, edit, disconnect>>

\* stop(): interrupts the connection of this tab only.
Stop(s) ==
  /\ tab = s /\ session[s].busy
  /\ session' = [session EXCEPT ![s] = [Lost(State(s)).r EXCEPT !.cancelled = TRUE, !.child = "none"]]
  /\ UNCHANGED <<tab, script, run, server, committed, desk, edit, disconnect, losses>>

\* release(): the tab, or its window, is closed; work under way keeps its object.
Release(s) ==
  /\ tab = s
  /\ tab' = None
  /\ session' = [session EXCEPT ![s].released = TRUE, ![s].cancelled = TRUE, ![s].child = "none"]
  /\ UNCHANGED <<script, run, server, committed, desk, edit, disconnect, losses>>

\* Mutant: the timer releases only connections without a transaction.
IdlesWithout(s) ==
  LET st == State(s) IN
  /\ Live(s) /\ ~session[s].busy /\ session[s].child # "none" /\ session[s].transaction # "active"
  /\ Become(s, [Lost(st) EXCEPT !.r.child = "none"])
  /\ Handled

\* The timer of an idle session: a dead connection is given up, and an open
\* one is rolled back and released once nobody touched it for long enough.
Idles(s) ==
  LET st == State(s) IN
  /\ Live(s) /\ ~session[s].busy /\ session[s].child # "none"
  /\ Become(s, IF session[s].child = "closed" THEN [Lost(st) EXCEPT !.r.child = "none"]
               ELSE IF session[s].transaction = "active" THEN Await([st EXCEPT !.r.busy = TRUE], "idle")
               ELSE [st EXCEPT !.r.status = "cancelled", !.r.child = "none"])
  /\ Handled

\* Mutant: only a running statement counts as use of the scope.
ScopeQuiet == tab # None => ~session[tab].busy

\* assertScopeIdle(): what configuration and disconnects ask of the tabs.
ScopeIdle == tab # None => ~session[tab].busy /\ session[tab].transaction = "none"

\* The connection of the plugin ends, and every SQL connection with it.
ParentCloses ==
  session' = [s \in Sessions |->
                IF ~session[s].made THEN session[s]
                ELSE [(IF session[s].child = "open" THEN Lost(State(s)).r ELSE session[s])
                        EXCEPT !.stale = TRUE]]

\* A configuration edit: fence, drain, idle check, then the disconnect.
EditBegins ==
  /\ edit = "none"
  /\ edit' = "draining"
  /\ UNCHANGED <<tab, script, session, run, server, committed, desk, disconnect, losses>>

EditGivesUp ==
  /\ edit = "draining"
  /\ edit' = "none"
  /\ UNCHANGED <<tab, script, session, run, server, committed, desk, disconnect, losses>>

Drained == desk = "idle" /\ \A s \in Sessions : ~Running(s)

EditDrained ==
  /\ edit = "draining" /\ Drained /\ ScopeIdle
  /\ edit' = "cutting"
  /\ UNCHANGED <<tab, script, session, run, server, committed, desk, disconnect, losses>>

EditCuts ==
  /\ edit = "cutting"
  /\ edit' = "editing"
  /\ ParentCloses
  /\ UNCHANGED <<tab, script, run, server, committed, desk, disconnect, losses>>

EditEnds ==
  /\ edit = "editing"
  /\ edit' = "none"
  /\ UNCHANGED <<tab, script, session, run, server, committed, desk, disconnect, losses>>

\* An explicit disconnect checks the tabs when it is asked for, then waits.
DisconnectAsked ==
  /\ ~disconnect /\ ScopeIdle
  /\ disconnect' = TRUE
  /\ UNCHANGED <<tab, script, session, run, server, committed, desk, edit, losses>>

Disconnects ==
  /\ disconnect
  /\ disconnect' = FALSE
  /\ ParentCloses
  /\ UNCHANGED <<tab, script, run, server, committed, desk, edit, losses>>

Edits == EditBegins \/ EditGivesUp \/ EditDrained \/ EditCuts \/ EditEnds

Step(s) ==
  \/ Execute(s) \/ \E p \in Scripts : Prepare(s, p)
  \/ Audited(s) \/ Opened(s) \/ Answered(s) \/ TimedOut(s) \/ Rejected(s)
  \/ Serve(s) \/ Dropped(s)
  \/ Lose(s) \/ Stop(s) \/ Release(s) \/ Idles(s)

Next ==
  \/ Admit \/ Refused \/ Edits \/ DisconnectAsked \/ Disconnects
  \/ \E s \in Sessions : Step(s)

Spec == Init /\ [][Next]_vars

\* The timer ticks, files are written or fail, a connection opens or fails,
\* and a query is answered, times out or is rejected.
Fairness ==
  \A s \in Sessions :
    /\ WF_vars(Audited(s)) /\ WF_vars(Opened(s)) /\ WF_vars(Rejected(s))
    /\ WF_vars(Answered(s) \/ TimedOut(s))
    /\ WF_vars(Idles(s))

LiveSpec == Spec /\ Fairness

-----------------------------------------------------------------------------
SessionRecord ==
  [made : BOOLEAN, plan : 0..MaxPlans, ran : 0..MaxPlans, used : BOOLEAN, busy : BOOLEAN,
   cancelled : BOOLEAN, released : BOOLEAN, stale : BOOLEAN,
   child : {"none", "open", "closed"}, transaction : {"none", "active", "unknown"},
   status : {"idle", "prepared", "running", "success", "error", "cancelled", "unknown"},
   results : Seq(Effects)]
Query == [kind : Kinds \cup Waits, write : Nat \X Nat]
Connection == [queue : Seq(Query), answer : {"none", "ok", "error"},
               tx : BOOLEAN, work : SUBSET (Plans \X Positions)]

TypeOK ==
  /\ tab \in Sessions \cup {None}
  /\ script \in Seq(Scripts) /\ Len(script) <= MaxPlans
  /\ session \in [Sessions -> SessionRecord]
  /\ run \in [Sessions -> [at : Waits \cup {"none", "audit", "open"}, i : Nat]]
  /\ server \in [Sessions -> Connection]
  /\ committed \in [Plans \X Positions -> Nat]
  /\ desk \in {"idle", "admitted"} /\ edit \in {"none", "draining", "cutting", "editing"}
  /\ disconnect \in BOOLEAN /\ losses \in 0..MaxLosses

\* What the database may still commit of a connection.
Queued(c) == {c.queue[k].write : k \in {j \in DOMAIN c.queue : c.queue[j].kind = "write"}}
Pending(c) == c.work \cup Queued(c)

\* What a tab reports of each write is what became of it in the database: a
\* committed row was committed, a rolled back, failed or skipped one was not
\* and never will be, and after success every write has been committed, is
\* part of the open transaction, or was taken back by the script itself.
WriteOf(s, k) == <<session[s].ran, k>>
ItemsOf(s) == script[session[s].ran].items
Writes(s) == {k \in DOMAIN session[s].results : ItemsOf(s)[k] = "write"}
TakenBack(items, k) == \E j \in DOMAIN items : j > k /\ items[j] = "rollback"

OutcomeTruthful ==
  /\ TypeOK
  /\ \A s \in Sessions : Live(s) => \A k \in Writes(s) :
    LET effect == session[s].results[k]
        w == WriteOf(s, k)
    IN /\ effect = "committed" => committed[w] = 1
       /\ effect \in {"none", "rolledBack"} =>
            committed[w] = 0 /\ \A t \in Sessions : w \notin Pending(server[t])
       /\ effect = "pending" => /\ session[s].transaction = "active"
                                /\ committed[w] = 0 \/ run[s].at = "commit"
       /\ session[s].status = "success" =>
            \/ effect \in {"committed", "pending"}
            \/ effect = "rolledBack" /\ TakenBack(ItemsOf(s), k)

\* No statement takes effect twice, however often its plan is delivered and
\* whatever happened to the answer.
AppliedOnce == \A w \in DOMAIN committed : committed[w] <= 1

\* A configuration edit that passed the idle check cuts no statement and no
\* open transaction, on the client or in the database.
EditSparesTransactions ==
  edit = "cutting" =>
    \A s \in Sessions : session[s].child = "open" =>
      session[s].transaction = "none" /\ run[s].at = "none" /\ Pending(server[s]) = {}

\* A transaction nobody ends is ended by the idle timer or found lost.
AbandonedRollsBack ==
  \A s \in Sessions :
    (Live(s) /\ session[s].transaction = "active") ~>
      (~Live(s) \/ session[s].transaction # "active")
=============================================================================
