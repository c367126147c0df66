--------------------------- MODULE PluginWorkProofs --------------------------
(***************************************************************************)
(* Proofs about SqlSession for any scripts, sessions and bounds: what a    *)
(* tab tells of a write is what became of it in the database, no write     *)
(* takes effect twice, and a configuration edit cuts no transaction.       *)
(*                                                                         *)
(* The inductive invariant follows every write from the plan it stands in  *)
(* to the row that tells of it.  A statement that was not sent yet is      *)
(* nowhere in the database; one that was sent waits inside a transaction   *)
(* of its own connection, at the head of the queue; a row is pending only  *)
(* while that transaction is open and known to be.                         *)
(*                                                                         *)
(* The stretch between two waits is a function of a record, so most of     *)
(* what follows is about such records: SessionOK(s, st, c) says that the   *)
(* session s may stand as st says while the database has c of it.          *)
(***************************************************************************)
EXTENDS MCPluginWork, TLAPS

-----------------------------------------------------------------------------
(* SqlSession: the SQL tab of a plugin.                                     *)

-----------------------------------------------------------------------------
(* The inductive invariant.                                                  *)

Endings == {"commit", "undo", "rollback", "idle"}
Working == {"audit", "open"} \cup (Waits \ {"idle"})

StateSet == [r : SessionRecord, at : Waits \cup {"none", "audit", "open"}, i : Nat,
             send : Seq(Query)]

\* No other session will touch w, and it has not taken effect.
Own(s, w) == committed[w] = 0 /\ \A t \in Sessions \ {s} : w \notin Pending(server[t])
Clean(s, c, w) == Own(s, w) /\ w \notin Pending(c)

\* The plan is used once; what it has not sent yet is nowhere.
Reached(st) ==
  IF st.i > 0 /\ (st.at \in {"begin", "check"} \/ (st.at = "commit" /\ st.i > Len(Items(st))))
  THEN st.i - 1 ELSE st.i
AheadOK(s, st, c) ==
  /\ st.at \in Working => \A k \in Positions :
       /\ k > Reached(st) => Clean(s, c, <<st.r.ran, k>>)
       /\ k = st.i /\ st.at # "commit" /\ st.r.child = "open" => Own(s, <<st.r.ran, k>>)
  /\ st.r.plan # 0 /\ ~st.r.used => \A k \in Positions : Clean(s, c, <<st.r.plan, k>>)

\* Where a script is, and what is asked at each of its places.
PlaceOK(st) ==
  /\ st.r.used => st.r.ran = st.r.plan
  /\ ~st.r.used => st.r.ran < st.r.plan \/ (st.r.plan = 0 /\ st.r.ran = 0)
  /\ st.r.ran = 0 => st.r.results = <<>>
  /\ st.r.ran # 0 => st.r.ran <= Len(script) /\ Len(st.r.results) <= Len(Items(st))
  /\ st.at \in Working =>
       /\ st.r.ran # 0 /\ st.r.used
       /\ Len(st.r.results) = IF st.i = 0 THEN 0 ELSE st.i - 1
       /\ st.at \in {"audit", "open", "strict"} => st.i = 0
       /\ st.at \in {"item", "commit", "undo"} => st.i # 0
       /\ st.at \in {"begin", "check"} /\ st.i = 0 => Mode(st) = "atomic"
       /\ st.i > Len(Items(st)) => st.at \in {"commit", "rollback"}
       /\ st.i # 0 /\ st.i <= Len(Items(st)) =>
            /\ st.at = "undo" => Item(st) = "rollback"
            /\ st.at \in {"item", "check"} => Item(st) \in {"read", "write"}
            /\ st.at = "begin" => Item(st) \in {"begin", "read", "write"}
            /\ st.at = "commit" =>
                 Item(st) = "commit" \/ (Item(st) = "write" /\ Mode(st) = "autocommit")
       /\ Mode(st) = "atomic" /\ st.i # 0 => st.at \in {"item", "commit", "rollback"}

\* The flags of a session; without its connection it tells of no transaction,
\* and of a write it was waiting for only that its outcome is unknown.
FlagsOK(s, st) ==
  /\ st.r.made /\ ~st.r.released <=> tab = s
  /\ ~st.r.made => st.at = "none" /\ st.r.plan = 0 /\ ~st.r.released /\ ~st.r.busy
  /\ st.r.child # "none" => st.r.made /\ ~st.r.released
  /\ st.at # "none" => st.r.busy
  /\ st.r.made /\ ~st.r.released /\ st.r.busy => st.at # "none"
  /\ st.r.status = "unknown" => st.r.child # "open"
  /\ st.at = "open" => st.r.child = "none"
  /\ st.at \in {"audit", "open"} /\ st.r.child = "none" /\ st.r.status = "unknown" => st.r.cancelled
  /\ ~st.r.released /\ st.r.child # "open" =>
       /\ st.r.transaction # "active"
       /\ st.at = "item" /\ Item(st) = "write" => "unknown" \in {st.r.status, st.r.transaction}

\* A connection: at most one write waits, inside a transaction.
ConnectionOK(s, c) ==
  /\ \A k \in DOMAIN c.queue :
       /\ c.queue[k].kind = "write" => k = 1 /\ c.tx /\ c.queue[k].write \notin c.work
       /\ c.queue[k].kind = "begin" => Pending(c) = {}
  /\ \A w \in Pending(c) : w \in Plans \X Positions /\ Own(s, w)

\* While a transaction is known to be open, and while none is.
Asked(st) == [kind |-> IF st.at = "item" THEN Item(st) ELSE st.at, write |-> <<st.r.ran, st.i>>]
Harmless == {"strict", "begin", "check", "read", "undo"}

ActiveOK(st, c) ==
  /\ st.at # "begin"
  /\ st.at \in {"none", "audit"} => c.queue = <<>>
  /\ Len(c.queue) <= IF st.at = "rollback" THEN 2 ELSE 1
  /\ Len(c.queue) = 2 => c.queue[1].kind \in (Harmless \ {"begin"}) \cup {"write"}
  /\ st.at \notin Endings => c.tx

QuietOK(st, c) ==
  /\ c.work = {}
  /\ \A k \in DOMAIN c.queue : c.queue[k].kind \in Harmless
  /\ st.at \notin {"commit", "rollback", "idle"}
  /\ st.at \in {"check", "item"} => st.i # 0 /\ Item(st) = "read"
  /\ st.at \in Working /\ st.i # 0 => Mode(st) # "atomic"

AnswerOK(st, c) ==
  /\ c.answer # "none" => c.queue = <<>> /\ st.at \in Waits
  /\ st.at \in Waits /\ c.answer = "none" => c.queue # <<>> /\ c.queue[Len(c.queue)] = Asked(st)
  /\ c.answer = "ok" =>
       /\ st.at = "begin" => c.tx
       /\ st.at = "item" /\ Item(st) = "write" => <<st.r.ran, st.i>> \in c.work
       /\ st.at \in Endings => c.work = {}
  /\ st.at = "commit" /\ st.i <= Len(Items(st)) /\ Item(st) = "write" =>
       \/ <<st.r.ran, st.i>> \in c.work
       \/ c.answer = "ok" /\ committed[<<st.r.ran, st.i>>] = 1

OpenOK(st, c) ==
  st.r.child = "open" =>
    /\ st.r.transaction = "active" => ActiveOK(st, c)
    /\ st.r.transaction # "active" => QuietOK(st, c)
    /\ AnswerOK(st, c)

\* The rows of a session that still tells of them.
PendingOK(s, st, c, w) ==
  /\ st.r.child = "open" /\ st.r.transaction = "active"
  /\ st.at \notin Endings => w \in c.work
  /\ st.at \in {"undo", "rollback", "idle"} => Own(s, w)
  /\ st.at = "commit" => w \in c.work \/ (c.answer = "ok" /\ committed[w] = 1)

Told(st, k) ==
  \/ st.r.results[k] \in {"committed", "pending"}
  \/ st.r.results[k] = "rolledBack" /\ TakenBack(Items(st), k)

RowOK(s, st, c, k) ==
  /\ st.r.results[k] = "committed" => committed[<<st.r.ran, k>>] = 1
  /\ st.r.results[k] \in {"none", "rolledBack"} => Clean(s, c, <<st.r.ran, k>>)
  /\ st.r.results[k] = "pending" => PendingOK(s, st, c, <<st.r.ran, k>>)
  /\ st.r.status = "success" \/ (st.at \in Working /\ st.r.child = "open") => Told(st, k)

RowsOK(s, st, c) ==
  st.r.made /\ ~st.r.released =>
    \A k \in DOMAIN st.r.results : Items(st)[k] = "write" => RowOK(s, st, c, k)

SessionOK(s, st, c) ==
  /\ AheadOK(s, st, c) /\ PlaceOK(st) /\ FlagsOK(s, st)
  /\ ConnectionOK(s, c) /\ OpenOK(st, c) /\ RowsOK(s, st, c)

\* Sessions do not share plans, and a plan not yet prepared is nowhere.
Numbers(r) == {r.plan, r.ran} \ {0}
PlansApart ==
  /\ \A s \in Sessions : session[s].plan <= Len(script)
  /\ \A s, t \in Sessions : s # t => Numbers(session[s]) \cap Numbers(session[t]) = {}
  /\ \A p \in Plans : p > Len(script) => \A k \in Positions :
       committed[<<p, k>>] = 0 /\ \A t \in Sessions : <<p, k>> \notin Pending(server[t])

ScriptsOK ==
  \A p \in DOMAIN script : script[p].mode # "manual" =>
    \A k \in DOMAIN script[p].items : script[p].items[k] \in {"read", "write"}

CuttingOK ==
  edit = "cutting" =>
    /\ desk = "idle"
    /\ \A s \in Sessions : /\ ~Running(s)
                           /\ Live(s) => ~session[s].busy /\ session[s].transaction = "none"

IInv ==
  /\ TypeOK /\ AppliedOnce /\ PlansApart /\ ScriptsOK /\ CuttingOK
  /\ \A s \in Sessions : SessionOK(s, State(s), server[s])

-----------------------------------------------------------------------------
(* The records between two waits, field by field.                            *)

\* What no stretch changes of a session.
Kept(st, x) ==
  /\ x.r.made = st.r.made /\ x.r.plan = st.r.plan /\ x.r.ran = st.r.ran
  /\ x.r.used = st.r.used /\ x.r.released = st.r.released

LEMMA AwaitFields ==
  ASSUME NEW st \in StateSet, NEW at \in Waits, at = "item" => Item(st) \in Kinds
  PROVE  /\ Await(st, at) \in StateSet
         /\ Await(st, at).r = st.r /\ Await(st, at).at = at /\ Await(st, at).i = st.i
         /\ Await(st, at).send = <<Asked(Await(st, at))>>
         /\ Asked(Await(st, at)) \in Query
<1> DEFINE q == [kind |-> IF at = "item" THEN Item(st) ELSE at, write |-> <<st.r.ran, st.i>>]
           x == [st EXCEPT !.at = at, !.send = <<q>>]
<1>1. x.r = st.r /\ x.at = at /\ x.i = st.i /\ x.send = <<q>>
  BY DEF StateSet
<1>2. Await(st, at) = x BY DEF Await
<1>3. Item(x) = Item(st) BY <1>1 DEF Item, Items
<1> HIDE DEF x
<1>4. Asked(x) = q BY <1>1, <1>3 DEF Asked
<1> USE DEF x
<1>5. st.r.ran \in Nat /\ st.i \in Nat BY DEF StateSet, SessionRecord
<1>6. q \in Query BY <1>5 DEF Query
<1>7. <<q>> \in Seq(Query) BY <1>6
<1>8. x \in StateSet BY <1>7 DEF StateSet
<1>9. QED BY <1>1, <1>2, <1>4, <1>6, <1>8

LEMMA SettledRows ==
  ASSUME NEW results \in Seq(Effects), NEW effect \in Effects
  PROVE  /\ Settled(results, effect) \in Seq(Effects)
         /\ Len(Settled(results, effect)) = Len(results)
         /\ DOMAIN Settled(results, effect) = DOMAIN results
         /\ \A k \in DOMAIN results : Settled(results, effect)[k] =
              IF results[k] = "pending" THEN effect ELSE results[k]
BY DEF Settled

LEMMA LostFields ==
  ASSUME NEW st \in StateSet
  PROVE  /\ Lost(st) \in StateSet /\ Kept(st, Lost(st))
         /\ Lost(st).at = st.at /\ Lost(st).i = st.i /\ Lost(st).send = st.send
         /\ Lost(st).r.busy = st.r.busy /\ Lost(st).r.cancelled = st.r.cancelled
         /\ Lost(st).r.stale = st.r.stale
         /\ IF st.r.released \/ st.r.status = "unknown" THEN Lost(st) = st
            ELSE /\ Lost(st).r.transaction = IF Uncertain(st) THEN "unknown" ELSE "none"
                 /\ Lost(st).r.status = IF Uncertain(st) THEN "unknown" ELSE "error"
                 /\ Lost(st).r.results = Settled(st.r.results, "unknown")
                 /\ Lost(st).r.child = IF st.r.child = "none" THEN "none" ELSE "closed"
<1>1. CASE st.r.released \/ st.r.status = "unknown"
  BY <1>1 DEF Lost, Kept
<1>2. CASE ~(st.r.released \/ st.r.status = "unknown")
  <2> DEFINE t == IF Uncertain(st) THEN "unknown" ELSE "none"
             u == IF Uncertain(st) THEN "unknown" ELSE "error"
             f == Settled(st.r.results, "unknown")
             d == IF st.r.child = "none" THEN "none" ELSE "closed"
             x == [st EXCEPT !.r.transaction = t, !.r.status = u, !.r.results = f, !.r.child = d]
  <2>1. Lost(st) = x BY <1>2 DEF Lost
  <2>2. f \in Seq(Effects) BY SettledRows DEF StateSet, SessionRecord, Effects
  <2>3. t \in {"none", "unknown"} /\ u \in {"unknown", "error"} /\ d \in {"none", "closed"}
    OBVIOUS
  <2> HIDE DEF t, u, f, d
  <2>4. x \in StateSet /\ Kept(st, x) /\ x.at = st.at /\ x.i = st.i /\ x.send = st.send
        /\ x.r.busy = st.r.busy /\ x.r.cancelled = st.r.cancelled /\ x.r.stale = st.r.stale
        /\ x.r.transaction = t /\ x.r.status = u /\ x.r.results = f /\ x.r.child = d
    BY <2>2, <2>3, ZenonT(40) DEF StateSet, SessionRecord, Kept
  <2>5. QED BY <1>2, <2>1, <2>4 DEF t, u, f, d
<1>3. QED BY <1>1, <1>2

FailedAt(st) == IF st.i = 0 THEN 1 ELSE st.i
FinishRow(st, uncertain, k) ==
  IF k \in DOMAIN st.r.results THEN st.r.results[k]
  ELSE IF k = FailedAt(st) /\ uncertain THEN "unknown" ELSE "none"

LEMMA FinishFields ==
  ASSUME NEW st \in StateSet, NEW uncertain \in BOOLEAN, TypeOK, st.r.ran \in DOMAIN script
  PROVE  /\ Finish(st, uncertain) \in StateSet /\ Kept(st, Finish(st, uncertain))
         /\ Finish(st, uncertain).at = "none" /\ Finish(st, uncertain).send = st.send
         /\ Finish(st, uncertain).i = st.i
         /\ Finish(st, uncertain).r.busy = FALSE
         /\ Finish(st, uncertain).r.transaction = st.r.transaction
         /\ Finish(st, uncertain).r.status =
              IF uncertain THEN "unknown" ELSE IF st.r.cancelled THEN "cancelled" ELSE "error"
         /\ Finish(st, uncertain).r.child =
              IF uncertain \/ st.r.cancelled THEN "none" ELSE st.r.child
         /\ Len(Finish(st, uncertain).r.results) = Len(Items(st))
         /\ \A k \in DOMAIN Items(st) :
              Finish(st, uncertain).r.results[k] = FinishRow(st, uncertain, k)
         /\ DOMAIN Finish(st, uncertain).r.results = DOMAIN Items(st)
<1> DEFINE f == [k \in DOMAIN Items(st) |-> FinishRow(st, uncertain, k)]
           u == IF uncertain THEN "unknown" ELSE IF st.r.cancelled THEN "cancelled" ELSE "error"
           d == IF uncertain \/ st.r.cancelled THEN "none" ELSE st.r.child
           x == [st EXCEPT !.at = "none", !.r.busy = FALSE, !.r.status = u, !.r.results = f,
                           !.r.child = d]
<1>1. Items(st) \in Seq(Kinds)
  BY ScriptsAssumption DEF TypeOK, Items, ScriptRecord
<1>2. Finish(st, uncertain) = x
  BY DEF Finish, FinishRow, FailedAt
<1>3. \A k \in DOMAIN Items(st) : FinishRow(st, uncertain, k) \in Effects
  BY DEF FinishRow, StateSet, SessionRecord, Effects
<1>4. f \in Seq(Effects) /\ Len(f) = Len(Items(st)) /\ DOMAIN f = DOMAIN Items(st)
      /\ \A k \in DOMAIN Items(st) : f[k] = FinishRow(st, uncertain, k)
  BY <1>1, <1>3
<1>5. u \in {"unknown", "cancelled", "error"} /\ d \in {"none", "open", "closed"}
  BY DEF StateSet, SessionRecord
<1> HIDE DEF f, u, d
<1>6. x \in StateSet /\ Kept(st, x) /\ x.at = "none" /\ x.send = st.send /\ x.i = st.i
      /\ x.r.busy = FALSE
      /\ x.r.transaction = st.r.transaction /\ x.r.status = u /\ x.r.child = d
      /\ x.r.results = f
  BY <1>4, <1>5, ZenonT(40) DEF StateSet, SessionRecord, Kept
<1>7. QED BY <1>2, <1>4, <1>6 DEF u, d

LEMMA SucceedFields ==
  ASSUME NEW st \in StateSet
  PROVE  /\ Succeed(st) \in StateSet /\ Kept(st, Succeed(st))
         /\ Succeed(st).at = "none" /\ Succeed(st).send = st.send /\ Succeed(st).i = st.i
         /\ Succeed(st).r.busy = FALSE /\ Succeed(st).r.status = "success"
         /\ Succeed(st).r.transaction = st.r.transaction /\ Succeed(st).r.child = st.r.child
         /\ Succeed(st).r.results = st.r.results
BY DEF Succeed, StateSet, SessionRecord, Kept

-----------------------------------------------------------------------------
(* What a stretch leaves behind: a session that stands, and at most one more *)
(* query at the end of the queue.                                            *)

After(c, x) == [c EXCEPT !.queue = @ \o x.send, !.answer = "none"]

\* The only write a stretch can send is the statement it has come to.
Done(s, st, x, c) ==
  /\ x \in StateSet /\ Kept(st, x)
  /\ After(c, x) \in Connection
  /\ SessionOK(s, x, After(c, x))
  /\ \A w \in Pending(After(c, x)) :
       \/ w \in Pending(c)
       \/ /\ st.r.ran # 0 /\ x.i \in Positions /\ w = <<st.r.ran, x.i>>
          /\ Own(s, w)

LEMMA QueuedIff ==
  ASSUME NEW c, NEW w
  PROVE  w \in Queued(c) <=> \E k \in DOMAIN c.queue : c.queue[k].kind = "write" /\ c.queue[k].write = w
BY DEF Queued

LEMMA AfterNothing ==
  ASSUME NEW c \in Connection, NEW x \in StateSet, x.send = <<>>
  PROVE  /\ After(c, x) \in Connection
         /\ After(c, x).queue = c.queue /\ After(c, x).answer = "none"
         /\ After(c, x).tx = c.tx /\ After(c, x).work = c.work
         /\ Pending(After(c, x)) = Pending(c)
<1>1. c.queue \o <<>> = c.queue BY DEF Connection
<1>2. After(c, x) = [c EXCEPT !.queue = c.queue, !.answer = "none"] BY <1>1 DEF After
<1>3. /\ After(c, x) \in Connection
      /\ After(c, x).queue = c.queue /\ After(c, x).answer = "none"
      /\ After(c, x).tx = c.tx /\ After(c, x).work = c.work
  BY <1>2 DEF Connection
<1>4. Queued(After(c, x)) = Queued(c) BY <1>3 DEF Queued
<1>5. QED BY <1>3, <1>4 DEF Pending

LEMMA AfterAsked ==
  ASSUME NEW c \in Connection, NEW x \in StateSet, NEW q \in Query, x.send = <<q>>
  PROVE  /\ After(c, x) \in Connection
         /\ After(c, x).answer = "none"
         /\ After(c, x).tx = c.tx /\ After(c, x).work = c.work
         /\ Len(After(c, x).queue) = Len(c.queue) + 1 /\ After(c, x).queue # <<>>
         /\ DOMAIN After(c, x).queue = 1..Len(c.queue) + 1
         /\ \A k \in DOMAIN c.queue : k \in DOMAIN After(c, x).queue /\ After(c, x).queue[k] = c.queue[k]
         /\ After(c, x).queue[Len(c.queue) + 1] = q
         /\ \A w : w \in Pending(After(c, x)) <=>
                     w \in Pending(c) \/ (q.kind = "write" /\ w = q.write)
<1> DEFINE d == c.queue \o <<q>>
<1>1. /\ d \in Seq(Query) /\ Len(d) = Len(c.queue) + 1 /\ DOMAIN d = 1..Len(c.queue) + 1 /\ d # <<>>
      /\ \A k \in DOMAIN c.queue : k \in DOMAIN d /\ d[k] = c.queue[k]
      /\ d[Len(c.queue) + 1] = q
      /\ DOMAIN c.queue = 1..Len(c.queue) /\ Len(c.queue) \in Nat
  BY DEF Connection
<1>2. After(c, x) = [c EXCEPT !.queue = d, !.answer = "none"] BY DEF After
<1> HIDE DEF d
<1>3. After(c, x) \in Connection /\ After(c, x).queue = d /\ After(c, x).answer = "none"
      /\ After(c, x).tx = c.tx /\ After(c, x).work = c.work
  BY <1>1, <1>2 DEF Connection
<1>4. ASSUME NEW w
      PROVE  w \in Queued(After(c, x)) <=> w \in Queued(c) \/ (q.kind = "write" /\ w = q.write)
  <2>1. w \in Queued(After(c, x)) <=> \E k \in DOMAIN d : d[k].kind = "write" /\ d[k].write = w
    BY <1>3, QueuedIff
  <2>2. w \in Queued(c) <=> \E k \in DOMAIN c.queue : c.queue[k].kind = "write" /\ c.queue[k].write = w
    BY QueuedIff
  <2>3. \A k \in DOMAIN d : k \in DOMAIN c.queue \/ k = Len(c.queue) + 1
    BY <1>1
  <2>4. Len(c.queue) + 1 \in DOMAIN d BY <1>1
  <2>5. QED BY <1>1, <2>1, <2>2, <2>3, <2>4
<1>5. QED BY <1>1, <1>3, <1>4 DEF Pending

LEMMA ConnectionAsked ==
  ASSUME NEW s \in Sessions, NEW c \in Connection, NEW x \in StateSet, NEW q \in Query,
         x.send = <<q>>, ConnectionOK(s, c),
         q.kind = "begin" => Pending(c) = {},
         q.kind = "write" => /\ c.queue = <<>> /\ c.tx /\ q.write \in Plans \X Positions
                             /\ Own(s, q.write) /\ q.write \notin c.work
  PROVE  ConnectionOK(s, After(c, x))
<1> DEFINE d == After(c, x)
           n == Len(c.queue) + 1
<1>1. /\ d.tx = c.tx /\ d.work = c.work /\ DOMAIN d.queue = 1..n
      /\ \A k \in DOMAIN c.queue : d.queue[k] = c.queue[k]
      /\ d.queue[n] = q
      /\ \A w : w \in Pending(d) <=> w \in Pending(c) \/ (q.kind = "write" /\ w = q.write)
  BY AfterAsked
<1>2. DOMAIN c.queue = 1..Len(c.queue) /\ Len(c.queue) \in Nat BY DEF Connection
<1>3. \A k \in 1..n : k \in DOMAIN c.queue \/ k = n BY <1>2
<1>4. q.kind = "write" => n = 1 BY <1>2
<1> HIDE DEF d, n
<1>5. ASSUME NEW k \in DOMAIN d.queue, d.queue[k].kind = "write"
      PROVE  k = 1 /\ d.tx /\ d.queue[k].write \notin d.work
  <2>1. CASE k \in DOMAIN c.queue
    <3>1. k = 1 /\ c.tx /\ c.queue[k].write \notin c.work
      BY <1>1, <1>5, <2>1 DEF ConnectionOK
    <3>2. QED BY <1>1, <2>1, <3>1
  <2>2. CASE k = n BY <1>1, <1>4, <1>5, <2>2
  <2>3. QED BY <1>1, <1>3, <2>1, <2>2
<1>6. ASSUME NEW k \in DOMAIN d.queue, d.queue[k].kind = "begin"
      PROVE  Pending(d) = {}
  <2>1. q.kind # "write"
    <3>1. CASE k = n BY <1>1, <1>6, <3>1
    <3>2. CASE k \in DOMAIN c.queue BY <3>2
    <3>3. QED BY <1>1, <1>3, <3>1, <3>2
  <2>2. Pending(c) = {}
    <3>1. CASE k = n BY <1>1, <1>6, <3>1
    <3>2. CASE k \in DOMAIN c.queue BY <1>1, <1>6, <3>2 DEF ConnectionOK
    <3>3. QED BY <1>1, <1>3, <3>1, <3>2
  <2>3. QED BY <1>1, <2>1, <2>2
<1>7. \A w \in Pending(d) : w \in Plans \X Positions /\ Own(s, w)
  BY <1>1 DEF ConnectionOK
<1>8. QED BY <1>5, <1>6, <1>7 DEF ConnectionOK, d

-----------------------------------------------------------------------------
(* Where a stretch starts from.                                              *)

Quiet(c) == c.work = {} /\ \A k \in DOMAIN c.queue : c.queue[k].kind \in Harmless

Base(s, st, c) ==
  /\ st \in StateSet /\ c \in Connection /\ st.send = <<>>
  /\ ConnectionOK(s, c)
  /\ st.r.ran # 0 /\ st.r.ran <= Len(script) /\ st.r.used /\ st.r.ran = st.r.plan
  /\ Len(st.r.results) = IF st.i = 0 THEN 0 ELSE st.i - 1
  /\ Len(st.r.results) <= Len(Items(st))
  /\ st.r.made /\ st.r.busy
  /\ ~st.r.released <=> tab = s
  /\ st.r.child # "none" => ~st.r.released
  /\ st.r.status = "unknown" => st.r.child # "open"

\* What is told of a write that is no longer open.
RowTrue(s, st, c, k) ==
  /\ st.r.results[k] = "committed" => committed[<<st.r.ran, k>>] = 1
  /\ st.r.results[k] \in {"none", "rolledBack"} => Clean(s, c, <<st.r.ran, k>>)

FinishReady(s, st, c, uncertain) ==
  /\ Base(s, st, c)
  /\ ~st.r.released =>
       /\ st.r.transaction # "active"
       /\ st.r.child = "open" /\ ~uncertain => Quiet(c)
       /\ \A k \in DOMAIN st.r.results : Items(st)[k] = "write" =>
            RowTrue(s, st, c, k) /\ st.r.results[k] # "pending"
       /\ \A k \in DOMAIN Items(st) : k > Len(st.r.results) /\ Items(st)[k] = "write" =>
            \/ uncertain /\ k = FailedAt(st)
            \/ Clean(s, c, <<st.r.ran, k>>)

LEMMA ItemsKnown ==
  ASSUME TypeOK, NEW st \in StateSet, st.r.ran # 0, st.r.ran <= Len(script)
  PROVE  /\ st.r.ran \in DOMAIN script /\ st.r.ran \in Plans
         /\ Items(st) \in Seq(Kinds) /\ Len(Items(st)) <= MaxItems /\ Mode(st) \in Modes
         /\ DOMAIN Items(st) = 1..Len(Items(st)) /\ DOMAIN Items(st) \subseteq Positions
<1>1. st.r.ran \in DOMAIN script /\ st.r.ran \in Plans
  BY DEF TypeOK, StateSet, SessionRecord, Plans
<1>2. script[st.r.ran] \in Scripts BY <1>1 DEF TypeOK
<1>3. Items(st) \in Seq(Kinds) /\ Len(Items(st)) <= MaxItems /\ Mode(st) \in Modes
  BY <1>2, ScriptsAssumption, BoundsAssumption DEF Items, Mode, ScriptRecord
<1>4. QED BY <1>1, <1>3, BoundsAssumption DEF Positions

\* The end of a script whose transaction is settled.
LEMMA FinishDone ==
  ASSUME TypeOK, NEW s \in Sessions, NEW st, NEW c, NEW uncertain \in BOOLEAN,
         FinishReady(s, st, c, uncertain)
  PROVE  Done(s, st, Finish(st, uncertain), c)
<1> DEFINE x == Finish(st, uncertain)
           d == After(c, x)
<1>1. Base(s, st, c) /\ st \in StateSet /\ c \in Connection /\ st.r.ran \in DOMAIN script
  BY ItemsKnown DEF FinishReady, Base
<1>2. /\ x \in StateSet /\ Kept(st, x) /\ x.at = "none" /\ x.send = st.send /\ x.i = st.i
      /\ x.r.busy = FALSE /\ x.r.transaction = st.r.transaction
      /\ x.r.status = IF uncertain THEN "unknown" ELSE IF st.r.cancelled THEN "cancelled" ELSE "error"
      /\ x.r.child = IF uncertain \/ st.r.cancelled THEN "none" ELSE st.r.child
      /\ Len(x.r.results) = Len(Items(st)) /\ DOMAIN x.r.results = DOMAIN Items(st)
      /\ \A k \in DOMAIN Items(st) : x.r.results[k] = FinishRow(st, uncertain, k)
  BY <1>1, FinishFields
<1> HIDE DEF x
<1>3. /\ d \in Connection /\ d.queue = c.queue /\ d.answer = "none"
      /\ d.tx = c.tx /\ d.work = c.work /\ Pending(d) = Pending(c)
  BY <1>1, <1>2, AfterNothing DEF Base
<1> HIDE DEF d
<1>4. Items(x) = Items(st) /\ Mode(x) = Mode(st)
  BY <1>2 DEF Items, Mode, Kept
<1>5. AheadOK(s, x, d)
  BY <1>1, <1>2 DEF AheadOK, Base, Kept, Working, Waits
<1>6. PlaceOK(x)
  <2>1. x.r.used /\ x.r.ran = x.r.plan /\ x.r.ran # 0 /\ x.r.ran <= Len(script)
    BY <1>1, <1>2 DEF Base, Kept
  <2>2. Len(x.r.results) <= Len(Items(x))
    BY <1>1, <1>2, <1>4, ItemsKnown DEF Base
  <2>3. x.at \notin Working BY <1>2 DEF Working, Waits
  <2>4. QED BY <2>1, <2>2, <2>3 DEF PlaceOK
<1>7. FlagsOK(s, x)
  <2>1. x.r.made /\ (~x.r.released <=> tab = s) /\ x.r.busy = FALSE
    BY <1>1, <1>2 DEF Base, Kept
  <2>2. x.r.child # "none" => ~x.r.released
    BY <1>1, <1>2 DEF Base, Kept
  <2>3. x.r.status = "unknown" => x.r.child # "open"
    BY <1>2
  <2>4. ~x.r.released => x.r.transaction # "active"
    BY <1>2 DEF FinishReady, Kept
  <2>5. QED BY <1>2, <2>1, <2>2, <2>3, <2>4 DEF FlagsOK
<1>8. ConnectionOK(s, d)
  BY <1>1, <1>3 DEF ConnectionOK, Base
<1>9. OpenOK(x, d)
  <2> SUFFICES ASSUME x.r.child = "open" PROVE OpenOK(x, d) BY DEF OpenOK
  <2>1. ~uncertain /\ st.r.child = "open" /\ ~st.r.released
    BY <1>1, <1>2 DEF Base
  <2>2. x.r.transaction # "active" /\ Quiet(c)
    BY <1>2, <2>1 DEF FinishReady
  <2>3. QuietOK(x, d)
    BY <1>2, <1>3, <2>2 DEF QuietOK, Quiet, Working, Waits
  <2>4. AnswerOK(x, d)
    BY <1>2, <1>3 DEF AnswerOK, Waits
  <2>5. QED BY <2>2, <2>3, <2>4 DEF OpenOK
<1>10. RowsOK(s, x, d)
  <2> SUFFICES ASSUME ~x.r.released, NEW k \in DOMAIN x.r.results, Items(x)[k] = "write"
               PROVE  RowOK(s, x, d, k)
    BY DEF RowsOK
  <2>1. ~st.r.released /\ x.r.ran = st.r.ran BY <1>2 DEF Kept
  <2>2. x.r.status # "success" /\ x.at \notin Working
    BY <1>2 DEF Working, Waits
  <2>3. x.r.results[k] = FinishRow(st, uncertain, k) /\ k \in DOMAIN Items(st)
    BY <1>2
  <2>4. k \in Positions BY <1>1, <2>3, ItemsKnown DEF Base
  <2>5. \A w : Clean(s, c, w) => Clean(s, d, w)
    BY <1>3 DEF Clean
  <2>6. CASE k \in DOMAIN st.r.results
    <3>1. x.r.results[k] = st.r.results[k] BY <2>3, <2>6 DEF FinishRow
    <3>2. RowTrue(s, st, c, k) /\ st.r.results[k] # "pending"
      BY <1>4, <2>1, <2>6 DEF FinishReady
    <3>3. QED BY <2>1, <2>2, <2>5, <3>1, <3>2 DEF RowOK, RowTrue
  <2>7. CASE k \notin DOMAIN st.r.results
    <3>1. k > Len(st.r.results) BY <1>1, <2>4, <2>7 DEF StateSet, SessionRecord, Positions
    <3>2. x.r.results[k] = IF k = FailedAt(st) /\ uncertain THEN "unknown" ELSE "none"
      BY <2>3, <2>7 DEF FinishRow
    <3>3. x.r.results[k] = "none" => Clean(s, c, <<st.r.ran, k>>)
      BY <1>4, <2>1, <2>3, <3>1, <3>2 DEF FinishReady
    <3>4. QED BY <2>1, <2>2, <2>5, <3>2, <3>3 DEF RowOK
  <2>8. QED BY <2>6, <2>7
<1>11. QED BY <1>2, <1>3, <1>5, <1>6, <1>7, <1>8, <1>9, <1>10 DEF Done, SessionOK, d, x

-----------------------------------------------------------------------------
(* After a failure, and at the start of a statement.                         *)

Failing(s, st, c) ==
  /\ Base(s, st, c)
  /\ \A k \in Positions : k > st.i => Clean(s, c, <<st.r.ran, k>>)
  /\ ~st.r.released /\ "unknown" \notin {st.r.status, st.r.transaction} =>
       \A k \in Positions : k = st.i =>
         /\ st.r.transaction = "active" /\ st.r.child = "open" => Own(s, <<st.r.ran, k>>)
         /\ st.r.transaction # "active" /\ k \in DOMAIN Items(st) /\ Items(st)[k] = "write" =>
              Clean(s, c, <<st.r.ran, k>>)
  /\ ~st.r.released =>
       \A k \in DOMAIN st.r.results : Items(st)[k] = "write" =>
         /\ RowTrue(s, st, c, k)
         /\ st.r.child = "open" => Told(st, k)
         /\ st.r.results[k] = "pending" =>
              /\ st.r.child = "open" /\ st.r.transaction = "active"
              /\ Own(s, <<st.r.ran, k>>)
  /\ st.r.child = "open" /\ st.r.transaction = "active" =>
       /\ Len(c.queue) <= 1
       /\ Len(c.queue) = 1 => c.queue[1].kind \in (Harmless \ {"begin"}) \cup {"write"}
  /\ st.r.child = "open" /\ st.r.transaction # "active" => Quiet(c)
  /\ ~st.r.released /\ st.r.child # "open" => st.r.transaction # "active"

LEMMA CleanAsked ==
  ASSUME NEW s \in Sessions, NEW c \in Connection, NEW x \in StateSet, NEW q \in Query,
         x.send = <<q>>, NEW w, Clean(s, c, w), q.kind = "write" => w # q.write
  PROVE  Clean(s, After(c, x), w)
BY AfterAsked DEF Clean

LEMMA FailedUnknown ==
  ASSUME TypeOK, NEW s \in Sessions, NEW st, NEW c, Failing(s, st, c),
         "unknown" \in {st.r.status, st.r.transaction}
  PROVE  FinishReady(s, st, c, TRUE)
<1>1. ~st.r.released => st.r.transaction # "active"
  BY DEF Failing, Base
<1>2. ASSUME NEW k \in Positions, k > Len(st.r.results), k # FailedAt(st)
      PROVE  Clean(s, c, <<st.r.ran, k>>)
  <2>1. st.i \in Nat /\ k \in Nat /\ Len(st.r.results) = (IF st.i = 0 THEN 0 ELSE st.i - 1)
    BY DEF Failing, Base, StateSet, Positions
  <2>2. k > st.i BY <1>2, <2>1 DEF FailedAt
  <2>3. QED BY <2>2 DEF Failing
<1>3. DOMAIN Items(st) \subseteq Positions BY ItemsKnown DEF Failing, Base
<1>4. QED BY <1>1, <1>2, <1>3 DEF Failing, FinishReady

LEMMA FailedKnown ==
  ASSUME TypeOK, NEW s \in Sessions, NEW st, NEW c, Failing(s, st, c),
         "unknown" \notin {st.r.status, st.r.transaction}, st.r.transaction # "active"
  PROVE  FinishReady(s, st, c, FALSE)
<1>1. ASSUME ~st.r.released, NEW k \in DOMAIN Items(st), k > Len(st.r.results),
             Items(st)[k] = "write"
      PROVE  Clean(s, c, <<st.r.ran, k>>)
  <2>1. k \in Positions BY ItemsKnown DEF Failing, Base
  <2>2. st.i \in Nat /\ k \in Nat /\ Len(st.r.results) = (IF st.i = 0 THEN 0 ELSE st.i - 1)
    BY <2>1 DEF Failing, Base, StateSet, Positions
  <2>3. k > st.i \/ k = st.i BY <1>1, <2>2
  <2>4. QED BY <1>1, <2>1, <2>3 DEF Failing
<1>2. QED BY <1>1 DEF Failing, FinishReady

LEMMA FailedReleased ==
  ASSUME TypeOK, NEW s \in Sessions, NEW st, NEW c, Failing(s, st, c), st.r.released
  PROVE  FinishReady(s, st, c, TRUE)
BY DEF Failing, FinishReady

\* The rollback an error starts while a transaction is known to be open.
LEMMA RollbackDone ==
  ASSUME TypeOK, NEW s \in Sessions, NEW st, NEW c, Failing(s, st, c),
         st.r.transaction = "active", st.r.child = "open", st.r.status # "unknown"
  PROVE  Done(s, st, Await(st, "rollback"), c)
<1> DEFINE x == Await(st, "rollback")
           d == After(c, x)
           q == Asked(x)
<1>1. Base(s, st, c) /\ st \in StateSet /\ c \in Connection /\ st.r.ran \in DOMAIN script
  BY ItemsKnown DEF Failing, Base
<1>2. /\ x \in StateSet /\ x.r = st.r /\ x.at = "rollback" /\ x.i = st.i
      /\ x.send = <<q>> /\ q \in Query
  BY <1>1, AwaitFields DEF Waits
<1>3. q.kind = "rollback" BY <1>2 DEF Asked
<1> HIDE DEF x, q
<1>4. /\ d \in Connection /\ d.answer = "none" /\ d.tx = c.tx /\ d.work = c.work
      /\ Len(d.queue) = Len(c.queue) + 1 /\ d.queue # <<>>
      /\ \A k \in DOMAIN c.queue : d.queue[k] = c.queue[k]
      /\ d.queue[Len(c.queue) + 1] = q
      /\ \A w : w \in Pending(d) <=> w \in Pending(c)
  <2>1. /\ d \in Connection /\ d.answer = "none" /\ d.tx = c.tx /\ d.work = c.work
        /\ Len(d.queue) = Len(c.queue) + 1 /\ d.queue # <<>>
        /\ \A k \in DOMAIN c.queue : d.queue[k] = c.queue[k]
        /\ d.queue[Len(c.queue) + 1] = q
        /\ \A w : w \in Pending(d) <=> w \in Pending(c) \/ (q.kind = "write" /\ w = q.write)
    BY <1>1, <1>2, AfterAsked
  <2>2. QED BY <1>3, <2>1
<1>5. ConnectionOK(s, d)
  BY <1>1, <1>2, <1>3, ConnectionAsked DEF Base
<1> HIDE DEF d
<1>6. Items(x) = Items(st) /\ Mode(x) = Mode(st)
  BY <1>2 DEF Items, Mode
<1>7. \A w : Clean(s, c, w) => Clean(s, d, w) BY <1>4 DEF Clean
<1>8. ~st.r.released BY <1>1 DEF Base
<1>9. AheadOK(s, x, d)
  <2>1. Reached(x) = st.i BY <1>2 DEF Reached
  <2>2. \A k \in Positions : k = st.i => Own(s, <<st.r.ran, k>>)
    BY <1>8 DEF Failing
  <2>3. \A k \in Positions : k > st.i => Clean(s, d, <<st.r.ran, k>>)
    BY <1>7 DEF Failing
  <2>4. st.r.used BY <1>1 DEF Base
  <2>5. QED BY <1>2, <2>1, <2>2, <2>3, <2>4 DEF AheadOK
<1>10. PlaceOK(x)
  <2>1. x.at \in Working BY <1>2 DEF Working, Waits
  <2>2. /\ x.r.used /\ x.r.ran = x.r.plan /\ x.r.ran # 0 /\ x.r.ran <= Len(script)
        /\ Len(x.r.results) <= Len(Items(x))
        /\ Len(x.r.results) = IF x.i = 0 THEN 0 ELSE x.i - 1
    BY <1>1, <1>2, <1>6 DEF Base
  <2>3. QED BY <1>2, <2>1, <2>2 DEF PlaceOK
<1>11. FlagsOK(s, x)
  BY <1>1, <1>2 DEF FlagsOK, Base
<1>12. OpenOK(x, d)
  <2>1. Len(c.queue) \in Nat /\ DOMAIN c.queue = 1..Len(c.queue) BY <1>1 DEF Connection
  <2>2. Len(c.queue) <= 1 /\ (Len(c.queue) = 1 =>
          c.queue[1].kind \in (Harmless \ {"begin"}) \cup {"write"})
    BY DEF Failing
  <2>3. Len(d.queue) = 2 => d.queue[1].kind \in (Harmless \ {"begin"}) \cup {"write"}
    <3>0. Len(d.queue) = Len(c.queue) + 1 BY <1>4
    <3>1. Len(d.queue) = 2 => Len(c.queue) = 1
      <4> DEFINE m == Len(d.queue)
                 n == Len(c.queue)
      <4>1. n \in Nat /\ m = n + 1 BY <2>1, <3>0
      <4> HIDE DEF m, n
      <4>2. m = 2 => n = 1 BY <4>1
      <4>3. QED BY <4>2 DEF m, n
    <3>3. Len(c.queue) = 1 => 1 \in DOMAIN c.queue BY <2>1
    <3>4. QED BY <1>4, <2>2, <3>1, <3>3
  <2>4. Len(d.queue) <= 2 BY <1>4, <2>1, <2>2
  <2>5. x.at \in Endings BY <1>2 DEF Endings
  <2>6. ActiveOK(x, d) BY <1>2, <2>3, <2>4, <2>5 DEF ActiveOK
  <2>7. d.queue[Len(d.queue)] = Asked(x) BY <1>4 DEF q
  <2>8. AnswerOK(x, d) BY <1>2, <1>4, <2>7 DEF AnswerOK
  <2>9. QED BY <1>2, <2>6, <2>8 DEF OpenOK
<1>13. RowsOK(s, x, d)
  <2> SUFFICES ASSUME NEW k \in DOMAIN st.r.results, Items(st)[k] = "write"
               PROVE  RowOK(s, x, d, k)
    BY <1>2, <1>6 DEF RowsOK
  <2>1. /\ RowTrue(s, st, c, k) /\ Told(st, k)
        /\ st.r.results[k] = "pending" => Own(s, <<st.r.ran, k>>)
    BY <1>8 DEF Failing
  <2>2. Told(x, k) BY <1>2, <1>6, <2>1 DEF Told
  <2>3. st.r.results[k] = "pending" => PendingOK(s, x, d, <<st.r.ran, k>>)
    BY <1>2, <2>1 DEF PendingOK, Endings
  <2>4. QED BY <1>2, <1>7, <2>1, <2>2, <2>3 DEF RowOK, RowTrue
<1>14. Kept(st, x) BY <1>2 DEF Kept
<1>15. QED BY <1>2, <1>4, <1>5, <1>9, <1>10, <1>11, <1>12, <1>13, <1>14 DEF Done, SessionOK, d, x

LEMMA CatchDone ==
  ASSUME TypeOK, NEW s \in Sessions, NEW st, NEW c, Failing(s, st, c)
  PROVE  Done(s, st, Catch(st), c)
<1>1. CASE "unknown" \in {st.r.status, st.r.transaction}
  <2>1. Catch(st) = Finish(st, TRUE) BY <1>1 DEF Catch
  <2>2. QED BY <1>1, <2>1, FailedUnknown, FinishDone
<1>2. CASE "unknown" \notin {st.r.status, st.r.transaction} /\ st.r.transaction # "active"
  <2>1. Catch(st) = Finish(st, FALSE) BY <1>2 DEF Catch
  <2>2. QED BY <1>2, <2>1, FailedKnown, FinishDone
<1>3. CASE /\ "unknown" \notin {st.r.status, st.r.transaction}
           /\ st.r.transaction = "active" /\ st.r.child = "open"
  <2>1. Catch(st) = Await(st, "rollback") BY <1>3 DEF Catch
  <2>2. QED BY <1>3, <2>1, RollbackDone
<1>4. CASE /\ "unknown" \notin {st.r.status, st.r.transaction}
           /\ st.r.transaction = "active" /\ st.r.child # "open"
  <2>1. st.r.released BY <1>4 DEF Failing
  <2>2. Lost(st) = st BY <2>1 DEF Lost
  <2>3. Catch(st) = Finish(st, TRUE) BY <1>4, <2>2 DEF Catch
  <2>4. QED BY <2>1, <2>3, FailedReleased, FinishDone
<1>5. QED BY <1>1, <1>2, <1>3, <1>4

Standing(s, st, c) ==
  /\ Base(s, st, c)
  /\ st.r.child = "open"
  /\ st.r.transaction = "active" => c.queue = <<>> /\ c.tx
  /\ st.r.transaction # "active" => Quiet(c)
  /\ \A k \in Positions : k >= st.i => Clean(s, c, <<st.r.ran, k>>)
  /\ \A k \in DOMAIN st.r.results : Items(st)[k] = "write" =>
       /\ RowTrue(s, st, c, k) /\ Told(st, k)
       /\ st.r.results[k] = "pending" =>
            st.r.transaction = "active" /\ <<st.r.ran, k>> \in c.work
  /\ Mode(st) = "atomic" /\ st.i # 0 /\ st.i <= Len(Items(st)) => st.r.transaction = "active"

LEMMA StandingFails ==
  ASSUME NEW s \in Sessions, NEW st, NEW c, Standing(s, st, c)
  PROVE  Failing(s, st, c)
<1>1. Base(s, st, c) /\ st.r.child = "open" /\ ~st.r.released
  BY DEF Standing, Base
<1>2. \A k \in Positions : k >= st.i => Clean(s, c, <<st.r.ran, k>>)
  BY DEF Standing
<1>3. st.i \in Nat BY <1>1 DEF Base, StateSet
<1>4. \A k \in Positions : k > st.i \/ k = st.i => k >= st.i
  BY <1>3 DEF Positions
<1>5. \A k \in Positions : k = st.i => Own(s, <<st.r.ran, k>>) /\ Clean(s, c, <<st.r.ran, k>>)
  BY <1>2, <1>4 DEF Clean
<1>6. \A k \in DOMAIN st.r.results : Items(st)[k] = "write" =>
        /\ RowTrue(s, st, c, k) /\ Told(st, k)
        /\ st.r.results[k] = "pending" =>
             st.r.transaction = "active" /\ Own(s, <<st.r.ran, k>>)
  <2>1. \A w \in c.work : Own(s, w) BY <1>1 DEF Base, ConnectionOK, Pending
  <2>2. QED BY <2>1 DEF Standing
<1>7. st.r.transaction = "active" => Len(c.queue) = 0
  BY DEF Standing
<1>8. QED BY <1>1, <1>2, <1>4, <1>5, <1>6, <1>7 DEF Failing, Standing

LEMMA QuietPending ==
  ASSUME NEW c, Quiet(c)
  PROVE  Pending(c) = {}
<1>1. Queued(c) = {} BY DEF Quiet, Queued, Harmless
<1>2. QED BY <1>1 DEF Pending, Quiet

\* A query of the script, asked where the script has come to.
LEMMA AwaitDone ==
  ASSUME TypeOK, NEW s \in Sessions, NEW st, NEW c, Standing(s, st, c),
         NEW at \in {"strict", "begin", "check", "item", "commit", "undo"},
         PlaceOK(Await(st, at)),
         st.r.transaction = "active" => at # "begin",
         st.r.transaction # "active" =>
           /\ at # "commit"
           /\ at \in {"check", "item"} => st.i # 0 /\ Item(st) = "read"
           /\ st.i # 0 => Mode(st) # "atomic",
         at = "item" => st.i \in DOMAIN Items(st) /\ Item(st) \in {"read", "write"},
         at = "commit" => st.i > Len(Items(st)) \/ Item(st) = "commit"
  PROVE  Done(s, st, Await(st, at), c)
<1> DEFINE x == Await(st, at)
           d == After(c, x)
           q == Asked(x)
<1>1. Base(s, st, c) /\ st \in StateSet /\ c \in Connection /\ st.r.ran \in DOMAIN script
  BY ItemsKnown DEF Standing, Base
<1>2. /\ x \in StateSet /\ x.r = st.r /\ x.at = at /\ x.i = st.i
      /\ x.send = <<q>> /\ q \in Query
  BY <1>1, AwaitFields DEF Waits, Kinds
<1>3. Items(x) = Items(st) /\ Mode(x) = Mode(st) /\ Item(x) = Item(st)
  BY <1>2 DEF Items, Mode, Item
<1>4. /\ q.kind = IF at = "item" THEN Item(st) ELSE at
      /\ q.write = <<st.r.ran, st.i>>
  BY <1>2, <1>3 DEF Asked
<1>5. PlaceOK(x) OBVIOUS
<1> HIDE DEF x, q
<1>6. q.kind = "write" => at = "item" /\ Item(st) = "write" /\ st.i \in Positions
                          /\ st.r.transaction = "active" /\ st.r.ran \in Plans
  BY <1>1, <1>4, ItemsKnown DEF Base
<1>7. q.kind = "begin" => at = "begin" /\ st.r.transaction # "active"
  BY <1>4
<1>8. q.kind = "write" => /\ c.queue = <<>> /\ c.tx /\ q.write \in Plans \X Positions
                          /\ Own(s, q.write) /\ q.write \notin c.work /\ Clean(s, c, q.write)
  <2>1. ASSUME q.kind = "write"
        PROVE  c.queue = <<>> /\ c.tx /\ Clean(s, c, <<st.r.ran, st.i>>)
    <3>1. st.i >= st.i BY <1>1 DEF StateSet
    <3>2. QED BY <1>6, <2>1, <3>1 DEF Standing
  <2>2. QED BY <1>4, <1>6, <2>1 DEF Clean, Pending
<1>9. ConnectionOK(s, d)
  <2>1. q.kind = "begin" => Pending(c) = {}
    BY <1>7, QuietPending DEF Standing
  <2>2. QED BY <1>1, <1>2, <1>8, <2>1, ConnectionAsked DEF Base
<1>10. /\ d \in Connection /\ d.answer = "none" /\ d.tx = c.tx /\ d.work = c.work
       /\ Len(d.queue) = Len(c.queue) + 1 /\ d.queue # <<>>
       /\ DOMAIN d.queue = 1..Len(c.queue) + 1
       /\ \A k \in DOMAIN c.queue : d.queue[k] = c.queue[k]
       /\ d.queue[Len(c.queue) + 1] = q
       /\ \A w : w \in Pending(d) <=> w \in Pending(c) \/ (q.kind = "write" /\ w = q.write)
  BY <1>1, <1>2, AfterAsked
<1>11. \A w : Clean(s, c, w) /\ w # <<st.r.ran, st.i>> => Clean(s, d, w)
  BY <1>4, <1>10 DEF Clean
<1>12. q.kind # "write" => \A w : Clean(s, c, w) => Clean(s, d, w)
  BY <1>10 DEF Clean
<1>13. ~st.r.released BY <1>1 DEF Base, Standing
<1> HIDE DEF d
<1>14. AheadOK(s, x, d)
  <2>1. st.i \in Nat BY <1>1 DEF StateSet
  <2>2. st.r.used BY <1>1 DEF Base
  <2>3. ASSUME NEW k \in Positions, k = st.i
        PROVE  Own(s, <<st.r.ran, k>>)
    <3>1. k >= st.i BY <2>1, <2>3 DEF Positions
    <3>2. QED BY <3>1 DEF Standing, Clean
  <2>4. ASSUME NEW k \in Positions, k > Reached(x)
        PROVE  Clean(s, d, <<st.r.ran, k>>)
    <3>0. k \in Nat BY DEF Positions
    <3>1. CASE k > st.i
      <4>1. k >= st.i /\ k # st.i BY <2>1, <3>0, <3>1
      <4>2. QED BY <1>11, <4>1 DEF Standing
    <3>2. CASE ~(k > st.i)
      <4>1. at \in {"begin", "check", "commit"} BY <1>2, <2>4, <3>2 DEF Reached
      <4>2. k >= st.i BY <1>2, <2>1, <2>4, <3>0 DEF Reached
      <4>3. q.kind # "write" BY <1>4, <4>1
      <4>4. QED BY <1>12, <4>2, <4>3 DEF Standing
    <3>3. QED BY <3>1, <3>2
  <2>5. QED BY <1>2, <2>2, <2>3, <2>4 DEF AheadOK
<1>15. FlagsOK(s, x)
  BY <1>1, <1>2 DEF FlagsOK, Base, Standing
<1>16. OpenOK(x, d)
  <2>0. Len(c.queue) \in Nat BY <1>1 DEF Connection
  <2>1. ASSUME st.r.transaction = "active" PROVE ActiveOK(x, d)
    <3>1. c.queue = <<>> /\ c.tx BY <2>1 DEF Standing
    <3>2. Len(d.queue) = 1 BY <1>10, <3>1
    <3>3. at # "begin" BY <2>1
    <3>4. QED BY <1>2, <1>10, <3>1, <3>2, <3>3 DEF ActiveOK
  <2>2. ASSUME st.r.transaction # "active" PROVE QuietOK(x, d)
    <3>1. Quiet(c) BY <2>2 DEF Standing
    <3>2. q.kind \in Harmless BY <1>4, <2>2 DEF Harmless
    <3>3. ASSUME NEW k \in DOMAIN d.queue PROVE d.queue[k].kind \in Harmless
      <4>1. k \in DOMAIN c.queue \/ k = Len(c.queue) + 1
        BY <1>1, <1>10, <2>0 DEF Connection
      <4>2. QED BY <1>10, <3>1, <3>2, <4>1 DEF Quiet
    <3>4. QED BY <1>2, <1>3, <1>10, <2>2, <3>1, <3>3 DEF QuietOK, Quiet
  <2>3. AnswerOK(x, d)
    <3>1. d.queue[Len(d.queue)] = Asked(x) BY <1>10 DEF q
    <3>2. ~(x.at = "commit" /\ x.i <= Len(Items(x)) /\ Item(x) = "write")
      <4>1. at = "commit" => ~(st.i <= Len(Items(st))) \/ Item(st) = "commit"
        <5>1. Len(Items(st)) \in Nat /\ st.i \in Nat BY <1>1, ItemsKnown DEF Base, StateSet
        <5>2. QED BY <5>1
      <4>2. QED BY <1>2, <1>3, <4>1
    <3>3. QED BY <1>2, <1>10, <3>1, <3>2 DEF AnswerOK
  <2>4. QED BY <1>2, <2>1, <2>2, <2>3 DEF OpenOK
<1>17. RowsOK(s, x, d)
  <2> SUFFICES ASSUME NEW k \in DOMAIN st.r.results, Items(st)[k] = "write"
               PROVE  RowOK(s, x, d, k)
    BY <1>2, <1>3 DEF RowsOK
  <2>1. /\ RowTrue(s, st, c, k) /\ Told(st, k)
        /\ st.r.results[k] = "pending" =>
             st.r.transaction = "active" /\ <<st.r.ran, k>> \in c.work
    BY DEF Standing
  <2>2. Told(x, k) BY <1>2, <1>3, <2>1 DEF Told
  <2>3. \A w \in c.work : Own(s, w) BY <1>1 DEF Base, ConnectionOK, Pending
  <2>4. st.r.results[k] = "pending" => PendingOK(s, x, d, <<st.r.ran, k>>)
    BY <1>2, <1>10, <2>1, <2>3 DEF PendingOK, Endings, Standing
  <2>5. k # st.i
    <3>1. /\ st.i \in Nat /\ k \in 1..Len(st.r.results)
          /\ Len(st.r.results) = (IF st.i = 0 THEN 0 ELSE st.i - 1)
      BY <1>1 DEF Base, StateSet, SessionRecord
    <3>2. QED BY <3>1
  <2>6. Clean(s, c, <<st.r.ran, k>>) => Clean(s, d, <<st.r.ran, k>>)
    BY <1>11, <2>5
  <2>7. QED BY <1>2, <2>1, <2>2, <2>4, <2>6 DEF RowOK, RowTrue
<1>18. Kept(st, x) BY <1>2 DEF Kept
<1>19. ASSUME NEW w \in Pending(d)
       PROVE  w \in Pending(c) \/ (x.i \in Positions /\ w = <<st.r.ran, x.i>> /\ Own(s, w))
  BY <1>2, <1>4, <1>6, <1>8, <1>10, <1>19
<1>20. SessionOK(s, x, d)
  BY <1>5, <1>9, <1>14, <1>15, <1>16, <1>17 DEF SessionOK
<1>21. st.r.ran # 0 BY <1>1 DEF Base
<1>22. QED BY <1>2, <1>10, <1>18, <1>19, <1>20, <1>21 DEF Done, d, x

LEMMA PlaceAwait ==
  ASSUME TypeOK, NEW s \in Sessions, NEW st, NEW c, Base(s, st, c),
         NEW at \in {"strict", "begin", "check", "item", "commit", "undo"},
         at = "strict" => st.i = 0,
         at \in {"item", "commit", "undo"} => st.i # 0,
         at \in {"begin", "check"} /\ st.i = 0 => Mode(st) = "atomic",
         st.i > Len(Items(st)) => at = "commit",
         st.i # 0 /\ st.i <= Len(Items(st)) =>
           /\ at = "undo" => Item(st) = "rollback"
           /\ at \in {"item", "check"} => Item(st) \in {"read", "write"}
           /\ at = "begin" => Item(st) \in {"begin", "read", "write"}
           /\ at = "commit" =>
                Item(st) = "commit" \/ (Item(st) = "write" /\ Mode(st) = "autocommit"),
         Mode(st) = "atomic" /\ st.i # 0 => at \in {"item", "commit"}
  PROVE  PlaceOK(Await(st, at))
<1> DEFINE x == Await(st, at)
<1>1. at = "item" => Item(st) \in Kinds
  <2>1. st.i \in Nat /\ Len(Items(st)) \in Nat BY ItemsKnown DEF Base, StateSet
  <2>2. at = "item" => st.i # 0 /\ ~(st.i > Len(Items(st))) OBVIOUS
  <2>3. at = "item" => st.i # 0 /\ st.i <= Len(Items(st)) BY <2>1, <2>2
  <2>4. QED BY <2>3 DEF Kinds
<1>2. st \in StateSet /\ st.r.ran \in DOMAIN script /\ at \in Waits
  BY ItemsKnown DEF Base, Waits
<1>3. x \in StateSet /\ x.r = st.r /\ x.at = at /\ x.i = st.i
  BY <1>1, <1>2, AwaitFields
<1>4. Items(x) = Items(st) /\ Mode(x) = Mode(st) /\ Item(x) = Item(st)
  BY <1>3 DEF Items, Mode, Item
<1> HIDE DEF x
<1>5. /\ x.r.used /\ x.r.ran = x.r.plan /\ x.r.ran # 0 /\ x.r.ran <= Len(script)
      /\ Len(x.r.results) <= Len(Items(x))
      /\ Len(x.r.results) = IF x.i = 0 THEN 0 ELSE x.i - 1
  BY <1>3, <1>4 DEF Base
<1>6. at \notin {"audit", "open"} OBVIOUS
<1>7. QED BY <1>3, <1>4, <1>5, <1>6 DEF PlaceOK, x

LEMMA SucceedDone ==
  ASSUME TypeOK, NEW s \in Sessions, NEW st, NEW c, Standing(s, st, c)
  PROVE  Done(s, st, Succeed(st), c)
<1> DEFINE x == Succeed(st)
           d == After(c, x)
<1>1. Base(s, st, c) /\ st \in StateSet /\ c \in Connection /\ st.r.ran \in DOMAIN script
      /\ st.r.child = "open" /\ ~st.r.released
  BY ItemsKnown DEF Standing, Base
<1>2. /\ x \in StateSet /\ Kept(st, x) /\ x.at = "none" /\ x.send = st.send /\ x.i = st.i
      /\ x.r.busy = FALSE /\ x.r.transaction = st.r.transaction
      /\ x.r.status = "success" /\ x.r.child = st.r.child /\ x.r.results = st.r.results
  BY <1>1, SucceedFields
<1> HIDE DEF x
<1>3. /\ d \in Connection /\ d.queue = c.queue /\ d.answer = "none"
      /\ d.tx = c.tx /\ d.work = c.work /\ Pending(d) = Pending(c)
  BY <1>1, <1>2, AfterNothing DEF Base
<1> HIDE DEF d
<1>4. Items(x) = Items(st) /\ Mode(x) = Mode(st)
  BY <1>2 DEF Items, Mode, Kept
<1>5. x.at \notin Working BY <1>2 DEF Working, Waits
<1>6. AheadOK(s, x, d)
  BY <1>1, <1>2, <1>5 DEF AheadOK, Base, Kept
<1>7. PlaceOK(x)
  BY <1>1, <1>2, <1>4, <1>5 DEF PlaceOK, Base, Kept
<1>8. FlagsOK(s, x)
  BY <1>1, <1>2 DEF FlagsOK, Base, Kept
<1>9. ConnectionOK(s, d)
  BY <1>1, <1>3 DEF ConnectionOK, Base
<1>10. OpenOK(x, d)
  <2>1. st.r.transaction = "active" => ActiveOK(x, d)
    <3>1. ASSUME st.r.transaction = "active" PROVE ActiveOK(x, d)
      <4>1. d.queue = <<>> /\ d.tx /\ Len(d.queue) = 0 BY <1>3, <3>1 DEF Standing
      <4>2. QED BY <1>2, <4>1 DEF ActiveOK
    <3>2. QED BY <3>1
  <2>2. st.r.transaction # "active" => QuietOK(x, d)
    BY <1>2, <1>3, <1>5 DEF QuietOK, Quiet, Standing
  <2>3. AnswerOK(x, d) BY <1>2, <1>3 DEF AnswerOK, Waits
  <2>4. QED BY <1>2, <2>1, <2>2, <2>3 DEF OpenOK
<1>11. RowsOK(s, x, d)
  <2> SUFFICES ASSUME NEW k \in DOMAIN st.r.results, Items(st)[k] = "write"
               PROVE  RowOK(s, x, d, k)
    BY <1>2, <1>4 DEF RowsOK
  <2>1. /\ RowTrue(s, st, c, k) /\ Told(st, k)
        /\ st.r.results[k] = "pending" =>
             st.r.transaction = "active" /\ <<st.r.ran, k>> \in c.work
    BY DEF Standing
  <2>2. x.r.ran = st.r.ran BY <1>2 DEF Kept
  <2>3. Told(x, k) BY <1>1, <1>2, <1>4, <2>1 DEF Told
  <2>4. \A w : Clean(s, c, w) => Clean(s, d, w) BY <1>3 DEF Clean
  <2>5. st.r.results[k] = "pending" => PendingOK(s, x, d, <<st.r.ran, k>>)
    BY <1>1, <1>2, <1>3, <2>1 DEF PendingOK, Endings
  <2>6. QED BY <1>2, <2>1, <2>2, <2>3, <2>4, <2>5 DEF RowOK, RowTrue
<1>12. QED BY <1>2, <1>3, <1>6, <1>7, <1>8, <1>9, <1>10, <1>11 DEF Done, SessionOK, d, x

LEMMA BeginDone ==
  ASSUME TypeOK, NEW s \in Sessions, NEW st, NEW c, Standing(s, st, c),
         st.i <= Len(Items(st)),
         st.i = 0 => Mode(st) = "atomic",
         st.i # 0 => Item(st) \in {"begin", "read", "write"}
  PROVE  Done(s, st, Begin(st), c)
<1>1. Failing(s, st, c) /\ Base(s, st, c) BY StandingFails DEF Standing
<1>2. CASE st.r.transaction = "active"
  <2>1. Begin(st) = Catch(st) BY <1>2 DEF Begin
  <2>2. QED BY <1>1, <2>1, CatchDone
<1>3. CASE st.r.transaction # "active"
  <2>1. Begin(st) = Await(st, "begin") BY <1>3 DEF Begin
  <2>2. st.i # 0 => Mode(st) # "atomic" BY <1>3 DEF Standing
  <2>3. ~(st.i > Len(Items(st)))
    BY <1>1, ItemsKnown DEF Base, StateSet
  <2>4. PlaceOK(Await(st, "begin"))
    BY <1>1, <2>2, <2>3, PlaceAwait
  <2>5. QED BY <1>3, <2>1, <2>2, <2>4, AwaitDone
<1>4. QED BY <1>2, <1>3

LEMMA CommitDone ==
  ASSUME TypeOK, NEW s \in Sessions, NEW st, NEW c, Standing(s, st, c),
         st.i # 0, st.i > Len(Items(st)) \/ Item(st) = "commit"
  PROVE  Done(s, st, Commit(st), c)
<1>1. Failing(s, st, c) /\ Base(s, st, c) BY StandingFails DEF Standing
<1>2. CASE st.r.transaction # "active"
  <2>1. Commit(st) = Catch(st) BY <1>2 DEF Commit
  <2>2. QED BY <1>1, <2>1, CatchDone
<1>3. CASE st.r.transaction = "active"
  <2>1. Commit(st) = Await(st, "commit") BY <1>3 DEF Commit
  <2>2. st.i <= Len(Items(st)) => ~(st.i > Len(Items(st)))
    BY <1>1, ItemsKnown DEF Base, StateSet
  <2>3. PlaceOK(Await(st, "commit"))
    BY <1>1, <2>2, PlaceAwait
  <2>4. QED BY <1>3, <2>1, <2>3, AwaitDone
<1>4. QED BY <1>2, <1>3

LEMMA AtomicItems ==
  ASSUME TypeOK, ScriptsOK, NEW s \in Sessions, NEW st, NEW c, Base(s, st, c),
         Mode(st) # "manual", st.i # 0, st.i <= Len(Items(st))
  PROVE  Item(st) \in {"read", "write"}
<1>1. st.r.ran \in DOMAIN script /\ st.i \in DOMAIN Items(st)
  BY ItemsKnown DEF Base, StateSet
<1>2. QED BY <1>1 DEF ScriptsOK, Mode, Items, Item

LEMMA FirstWaitDone ==
  ASSUME TypeOK, ScriptsOK, NEW s \in Sessions, NEW st, NEW c, Standing(s, st, c), st.i # 0
  PROVE  Done(s, st, FirstWait(st), c)
<1>1. Failing(s, st, c) /\ Base(s, st, c) /\ st \in StateSet BY StandingFails DEF Standing, Base
<1>2. /\ Mode(st) \in Modes /\ Len(Items(st)) \in Nat /\ st.i \in Nat
      /\ DOMAIN Items(st) = 1..Len(Items(st)) /\ Items(st) \in Seq(Kinds)
  BY <1>1, ItemsKnown DEF Base, StateSet
<1>3. CASE Interrupted(st)
  <2>1. FirstWait(st) = Catch(st) BY <1>3 DEF FirstWait
  <2>2. QED BY <1>1, <2>1, CatchDone
<1>4. CASE ~Interrupted(st) /\ st.i > Len(Items(st))
  <2>1. CASE Mode(st) = "atomic"
    <3>1. FirstWait(st) = Commit(st) BY <1>4, <2>1 DEF FirstWait
    <3>2. QED BY <1>4, <3>1, CommitDone
  <2>2. CASE Mode(st) # "atomic"
    <3>1. FirstWait(st) = Succeed(st) BY <1>4, <2>2 DEF FirstWait
    <3>2. QED BY <3>1, SucceedDone
  <2>3. QED BY <2>1, <2>2
<1>5. CASE ~Interrupted(st) /\ ~(st.i > Len(Items(st)))
  <2>1. st.i <= Len(Items(st)) /\ st.i \in DOMAIN Items(st) BY <1>2, <1>5
  <2>2. Item(st) \in Kinds BY <1>2, <2>1 DEF Item
  <2>3. CASE Item(st) = "begin"
    <3>1. FirstWait(st) = Begin(st) BY <1>5, <2>3 DEF FirstWait
    <3>2. QED BY <2>1, <2>3, <3>1, BeginDone
  <2>4. CASE Item(st) = "commit"
    <3>1. FirstWait(st) = Commit(st) BY <1>5, <2>4 DEF FirstWait
    <3>2. QED BY <2>4, <3>1, CommitDone
  <2>5. CASE Item(st) = "rollback"
    <3>1. FirstWait(st) = Await(st, "undo") BY <1>5, <2>5 DEF FirstWait
    <3>2. Mode(st) # "atomic" BY <1>1, <2>1, <2>5, AtomicItems
    <3>3. PlaceOK(Await(st, "undo")) BY <1>1, <1>5, <2>5, <3>2, PlaceAwait
    <3>4. QED BY <3>1, <3>2, <3>3, AwaitDone
  <2>6. CASE Item(st) \in {"read", "write"}
    <3>1. CASE \/ Mode(st) = "manual" /\ st.r.transaction # "active"
               \/ Mode(st) = "autocommit" /\ Item(st) = "write"
      <4>1. FirstWait(st) = Begin(st) BY <1>5, <2>6, <3>1 DEF FirstWait
      <4>2. QED BY <2>1, <2>6, <4>1, BeginDone
    <3>2. CASE ~(\/ Mode(st) = "manual" /\ st.r.transaction # "active"
                 \/ Mode(st) = "autocommit" /\ Item(st) = "write")
      <4> DEFINE at == IF Mode(st) = "atomic" THEN "item" ELSE "check"
      <4>1. FirstWait(st) = Await(st, at) BY <1>5, <2>6, <3>2 DEF FirstWait
      <4>2. at \in {"item", "check"} /\ (at = "item" <=> Mode(st) = "atomic") OBVIOUS
      <4> HIDE DEF at
      <4>3. PlaceOK(Await(st, at)) BY <1>1, <1>5, <2>6, <4>2, PlaceAwait
      <4>4. st.r.transaction # "active" => Item(st) = "read" /\ Mode(st) # "atomic"
        BY <1>2, <2>1, <2>6, <3>2 DEF Standing, Modes
      <4>5. QED BY <2>1, <2>6, <4>1, <4>2, <4>3, <4>4, AwaitDone
    <3>3. QED BY <3>1, <3>2
  <2>7. QED BY <2>2, <2>3, <2>4, <2>5, <2>6 DEF Kinds
<1>6. QED BY <1>3, <1>4, <1>5

-----------------------------------------------------------------------------
(* From one statement to the next.                                           *)

Appended(st, effect) == [st EXCEPT !.r.results = Append(@, effect), !.i = @ + 1]

\* The statement at hand is over, and effect is told of it.
Passing(s, st, c, effect) ==
  /\ Base(s, st, c) /\ effect \in Effects
  /\ st.i # 0 /\ st.i <= Len(Items(st))
  /\ st.r.child = "open"
  /\ st.r.transaction = "active" => c.queue = <<>> /\ c.tx
  /\ st.r.transaction # "active" => Quiet(c) /\ Mode(st) # "atomic"
  /\ \A k \in Positions : k > st.i => Clean(s, c, <<st.r.ran, k>>)
  /\ \A k \in DOMAIN st.r.results : Items(st)[k] = "write" =>
       /\ RowTrue(s, st, c, k) /\ Told(st, k)
       /\ st.r.results[k] = "pending" =>
            st.r.transaction = "active" /\ <<st.r.ran, k>> \in c.work
  /\ Item(st) = "write" =>
       \/ effect = "committed" /\ committed[<<st.r.ran, st.i>>] = 1
       \/ /\ effect = "pending" /\ st.r.transaction = "active"
          /\ <<st.r.ran, st.i>> \in c.work

LEMMA AppendedFields ==
  ASSUME NEW st \in StateSet, NEW effect \in Effects
  PROVE  /\ Appended(st, effect) \in StateSet /\ Kept(st, Appended(st, effect))
         /\ Appended(st, effect).at = st.at /\ Appended(st, effect).i = st.i + 1
         /\ Appended(st, effect).send = st.send
         /\ Appended(st, effect).r.busy = st.r.busy
         /\ Appended(st, effect).r.child = st.r.child
         /\ Appended(st, effect).r.status = st.r.status
         /\ Appended(st, effect).r.transaction = st.r.transaction
         /\ Len(Appended(st, effect).r.results) = Len(st.r.results) + 1
         /\ DOMAIN Appended(st, effect).r.results = 1..Len(st.r.results) + 1
         /\ \A k \in DOMAIN st.r.results : Appended(st, effect).r.results[k] = st.r.results[k]
         /\ Appended(st, effect).r.results[Len(st.r.results) + 1] = effect
<1> DEFINE f == Append(st.r.results, effect)
           n == st.i + 1
           x == [st EXCEPT !.r.results = f, !.i = n]
<1>1. /\ f \in Seq(Effects) /\ Len(f) = Len(st.r.results) + 1
      /\ DOMAIN f = 1..Len(st.r.results) + 1
      /\ \A k \in DOMAIN st.r.results : f[k] = st.r.results[k]
      /\ f[Len(st.r.results) + 1] = effect
  BY DEF StateSet, SessionRecord
<1>2. Appended(st, effect) = x /\ n \in Nat BY DEF Appended, StateSet
<1> HIDE DEF f, n
<1>3. /\ x \in StateSet /\ Kept(st, x) /\ x.at = st.at /\ x.i = n /\ x.send = st.send
      /\ x.r.busy = st.r.busy /\ x.r.child = st.r.child /\ x.r.status = st.r.status
      /\ x.r.transaction = st.r.transaction /\ x.r.results = f
  BY <1>1, <1>2 DEF StateSet, SessionRecord, Kept
<1>4. QED BY <1>1, <1>2, <1>3 DEF n

LEMMA DoneKept ==
  ASSUME NEW s, NEW st, NEW y, NEW x, NEW c, Kept(st, y), Done(s, y, x, c)
  PROVE  Done(s, st, x, c)
BY DEF Done, Kept

LEMMA PassingStands ==
  ASSUME TypeOK, NEW s \in Sessions, NEW st, NEW c, NEW effect, Passing(s, st, c, effect)
  PROVE  /\ Standing(s, Appended(st, effect), c) /\ Appended(st, effect).i # 0
         /\ Kept(st, Appended(st, effect))
<1> DEFINE x == Appended(st, effect)
<1>1. /\ Base(s, st, c) /\ st \in StateSet /\ c \in Connection /\ effect \in Effects
      /\ st.i # 0 /\ st.i <= Len(Items(st)) /\ st.r.child = "open"
  BY DEF Passing, Base
<1>2. /\ x \in StateSet /\ Kept(st, x) /\ x.at = st.at /\ x.i = st.i + 1 /\ x.send = st.send
      /\ x.r.busy = st.r.busy /\ x.r.child = st.r.child /\ x.r.status = st.r.status
      /\ x.r.transaction = st.r.transaction
      /\ Len(x.r.results) = Len(st.r.results) + 1
      /\ DOMAIN x.r.results = 1..Len(st.r.results) + 1
      /\ \A k \in DOMAIN st.r.results : x.r.results[k] = st.r.results[k]
      /\ x.r.results[Len(st.r.results) + 1] = effect
  BY <1>1, AppendedFields
<1> HIDE DEF x
<1>3. Items(x) = Items(st) /\ Mode(x) = Mode(st)
  BY <1>2 DEF Items, Mode, Kept
<1>4. /\ st.i \in Nat /\ Len(Items(st)) \in Nat /\ Len(st.r.results) \in Nat
      /\ Len(st.r.results) = st.i - 1
      /\ DOMAIN st.r.results = 1..Len(st.r.results)
  BY <1>1, ItemsKnown DEF Base, StateSet, SessionRecord
<1>5. x.i # 0 /\ Len(x.r.results) = x.i - 1 /\ Len(x.r.results) = st.i
  BY <1>2, <1>4
<1>6. Base(s, x, c)
  <2>1. Len(x.r.results) <= Len(Items(x)) BY <1>1, <1>3, <1>5
  <2>2. Len(x.r.results) = IF x.i = 0 THEN 0 ELSE x.i - 1 BY <1>5
  <2>3. QED BY <1>1, <1>2, <2>1, <2>2 DEF Base, Kept
<1>7. x.r.transaction = "active" => c.queue = <<>> /\ c.tx BY <1>2 DEF Passing
<1>8. x.r.transaction # "active" => Quiet(c) /\ Mode(x) # "atomic" BY <1>2, <1>3 DEF Passing
<1>9. ASSUME NEW k \in Positions, k >= x.i PROVE Clean(s, c, <<x.r.ran, k>>)
  <2>1. k > st.i BY <1>2, <1>4, <1>9 DEF Positions
  <2>2. x.r.ran = st.r.ran BY <1>2 DEF Kept
  <2>3. QED BY <2>1, <2>2 DEF Passing
<1>10. ASSUME NEW k \in DOMAIN x.r.results, Items(x)[k] = "write"
       PROVE  /\ RowTrue(s, x, c, k) /\ Told(x, k)
              /\ x.r.results[k] = "pending" =>
                   x.r.transaction = "active" /\ <<x.r.ran, k>> \in c.work
  <2>1. x.r.ran = st.r.ran BY <1>2 DEF Kept
  <2>2. CASE k \in DOMAIN st.r.results
    <3>1. /\ RowTrue(s, st, c, k) /\ Told(st, k)
          /\ st.r.results[k] = "pending" =>
               st.r.transaction = "active" /\ <<st.r.ran, k>> \in c.work
      BY <1>3, <1>10, <2>2 DEF Passing
    <3>2. x.r.results[k] = st.r.results[k] BY <1>2, <2>2
    <3>3. QED BY <1>2, <1>3, <2>1, <3>1, <3>2 DEF RowTrue, Told
  <2>3. CASE k \notin DOMAIN st.r.results
    <3>1. k = st.i /\ k = Len(st.r.results) + 1 BY <1>2, <1>4, <2>3
    <3>2. x.r.results[k] = effect BY <1>2, <3>1
    <3>3. Item(st) = "write" BY <1>3, <1>10, <3>1 DEF Item
    <3>4. \/ effect = "committed" /\ committed[<<st.r.ran, st.i>>] = 1
          \/ /\ effect = "pending" /\ st.r.transaction = "active"
             /\ <<st.r.ran, st.i>> \in c.work
      BY <3>3 DEF Passing
    <3>5. QED BY <1>2, <2>1, <3>1, <3>2, <3>4 DEF RowTrue, Told
  <2>4. QED BY <2>2, <2>3
<1>11. QED BY <1>1, <1>2, <1>5, <1>6, <1>7, <1>8, <1>9, <1>10 DEF Standing, x

LEMMA StandingPasses ==
  ASSUME TypeOK, NEW s \in Sessions, NEW st, NEW c, Standing(s, st, c), NEW effect \in Effects,
         st.i # 0, st.i <= Len(Items(st)), Item(st) # "write"
  PROVE  Passing(s, st, c, effect)
<1>1. Base(s, st, c) /\ st.i \in Nat BY DEF Standing, Base, StateSet
<1>2. \A k \in Positions : k > st.i => k >= st.i BY <1>1 DEF Positions
<1>3. QED BY <1>1, <1>2 DEF Standing, Passing

LEMMA StatementDone ==
  ASSUME TypeOK, ScriptsOK, NEW s \in Sessions, NEW st, NEW c, Standing(s, st, c), st.i # 0
  PROVE  Done(s, st, Statement(st), c)
<1>1. CASE Past(st) = st
  BY <1>1, FirstWaitDone DEF Statement
<1>2. CASE Past(st) # st
  <2>1. /\ Past(st) = Appended(st, "none") /\ st.i <= Len(Items(st))
        /\ Item(st) = "rollback"
    BY <1>2 DEF Past, Appended
  <2>2. Passing(s, st, c, "none") BY <2>1, StandingPasses DEF Effects
  <2>3. Standing(s, Past(st), c) /\ Past(st).i # 0 /\ Kept(st, Past(st))
    BY <2>1, <2>2, PassingStands
  <2>4. Done(s, Past(st), FirstWait(Past(st)), c) BY <2>3, FirstWaitDone
  <2>5. QED BY <2>3, <2>4, DoneKept DEF Statement
<1>3. QED BY <1>1, <1>2

LEMMA NextDone ==
  ASSUME TypeOK, ScriptsOK, NEW s \in Sessions, NEW st, NEW c, NEW effect,
         Passing(s, st, c, effect)
  PROVE  Done(s, st, NextStatement(st, effect), c)
<1>1. NextStatement(st, effect) = Statement(Appended(st, effect))
  BY DEF NextStatement, Appended
<1>2. Standing(s, Appended(st, effect), c) /\ Appended(st, effect).i # 0
      /\ Kept(st, Appended(st, effect))
  BY PassingStands
<1>3. QED BY <1>1, <1>2, StatementDone, DoneKept

LEMMA FirstFields ==
  ASSUME NEW st \in StateSet
  PROVE  /\ [st EXCEPT !.i = 1] \in StateSet /\ Kept(st, [st EXCEPT !.i = 1])
         /\ [st EXCEPT !.i = 1].r = st.r /\ [st EXCEPT !.i = 1].i = 1
         /\ [st EXCEPT !.i = 1].send = st.send
BY DEF StateSet, Kept

\* The first statement, or the end of an empty script.
LEMMA FirstStands ==
  ASSUME TypeOK, NEW s \in Sessions, NEW st, NEW c, Standing(s, st, c), st.i = 0,
         Mode(st) = "atomic" => st.r.transaction = "active"
  PROVE  Standing(s, [st EXCEPT !.i = 1], c)
<1> DEFINE x == [st EXCEPT !.i = 1]
<1>1. Base(s, st, c) /\ st \in StateSet BY DEF Standing, Base
<1>2. x \in StateSet /\ x.r = st.r /\ x.i = 1 /\ x.send = st.send BY <1>1, FirstFields
<1> HIDE DEF x
<1>3. Items(x) = Items(st) /\ Mode(x) = Mode(st) BY <1>2 DEF Items, Mode
<1>4. Len(x.r.results) = IF x.i = 0 THEN 0 ELSE x.i - 1
  BY <1>1, <1>2 DEF Base
<1>5. Base(s, x, c) BY <1>1, <1>2, <1>3, <1>4 DEF Base
<1>6. \A k \in Positions : Clean(s, c, <<st.r.ran, k>>)
  BY DEF Standing, Positions
<1>7. QED BY <1>2, <1>3, <1>5, <1>6 DEF Standing, RowTrue, Told, x

LEMMA BusinessDone ==
  ASSUME TypeOK, ScriptsOK, NEW s \in Sessions, NEW st, NEW c, Standing(s, st, c), st.i = 0
  PROVE  Done(s, st, Business(st), c)
<1>1. Base(s, st, c) /\ st \in StateSet BY DEF Standing, Base
<1>2. CASE Mode(st) = "atomic"
  <2>1. Business(st) = Begin(st) BY <1>2 DEF Business
  <2>2. st.i <= Len(Items(st)) BY <1>1, ItemsKnown DEF Base
  <2>3. QED BY <1>2, <2>1, <2>2, BeginDone
<1>3. CASE Mode(st) # "atomic"
  <2>1. Business(st) = Statement([st EXCEPT !.i = 1]) BY <1>3 DEF Business
  <2>2. Standing(s, [st EXCEPT !.i = 1], c) BY <1>3, FirstStands
  <2>3. Kept(st, [st EXCEPT !.i = 1]) /\ [st EXCEPT !.i = 1].i # 0 BY <1>1, FirstFields
  <2>4. QED BY <2>1, <2>2, <2>3, StatementDone, DoneKept
<1>4. QED BY <1>2, <1>3

LEMMA ConnectedDone ==
  ASSUME TypeOK, ScriptsOK, NEW s \in Sessions, NEW st, NEW c, Standing(s, st, c), st.i = 0
  PROVE  Done(s, st, Connected(st), c)
<1>1. Base(s, st, c) /\ st \in StateSet BY DEF Standing, Base
<1>2. CASE \E k \in DOMAIN Items(st) : Items(st)[k] = "write"
  <2>1. Connected(st) = Await(st, "strict") BY <1>2 DEF Connected
  <2>2. ~(st.i > Len(Items(st))) BY <1>1, ItemsKnown DEF Base
  <2>3. PlaceOK(Await(st, "strict")) BY <1>1, <2>2, PlaceAwait
  <2>4. QED BY <2>1, <2>3, AwaitDone
<1>3. CASE ~ \E k \in DOMAIN Items(st) : Items(st)[k] = "write"
  <2>1. Connected(st) = Business(st) BY <1>3 DEF Connected
  <2>2. QED BY <2>1, BusinessDone
<1>4. QED BY <1>2, <1>3

-----------------------------------------------------------------------------
(* The answer of the database.                                               *)

Stands(s, st, c) ==
  st \in StateSet /\ c \in Connection /\ st.send = <<>> /\ SessionOK(s, st, c)

LEMMA WorkingBase ==
  ASSUME NEW s \in Sessions, NEW st, NEW c, Stands(s, st, c), st.at \in Working
  PROVE  Base(s, st, c)
<1>1. st.at # "none" BY DEF Working, Waits
<1>2. FlagsOK(s, st) /\ PlaceOK(st) /\ ConnectionOK(s, c) BY DEF Stands, SessionOK
<1>3. /\ st.r.ran # 0 /\ st.r.used
      /\ Len(st.r.results) = IF st.i = 0 THEN 0 ELSE st.i - 1
      /\ st.r.ran <= Len(script) /\ Len(st.r.results) <= Len(Items(st))
      /\ st.r.ran = st.r.plan
  BY <1>2 DEF PlaceOK
<1>4. st.r.made BY <1>1, <1>2 DEF FlagsOK
<1>5. /\ st.r.made /\ ~st.r.released <=> tab = s
      /\ st.r.child # "none" => st.r.made /\ ~st.r.released
      /\ st.r.busy
      /\ st.r.status = "unknown" => st.r.child # "open"
  BY <1>1, <1>2 DEF FlagsOK
<1>6. QED BY <1>2, <1>3, <1>4, <1>5 DEF Base, Stands

\* Another transaction, other rows: the same place of the same script.
LEMMA BaseLike ==
  ASSUME NEW s, NEW st, NEW c, NEW y \in StateSet, Base(s, st, c), Kept(st, y),
         y.send = st.send, y.i = st.i, y.r.busy = st.r.busy, y.r.child = st.r.child,
         y.r.status = st.r.status, Len(y.r.results) = Len(st.r.results)
  PROVE  Base(s, y, c) /\ Items(y) = Items(st) /\ Mode(y) = Mode(st) /\ Item(y) = Item(st)
<1>1. Items(y) = Items(st) /\ Mode(y) = Mode(st) /\ Item(y) = Item(st)
  BY DEF Items, Mode, Item, Kept
<1>2. QED BY <1>1 DEF Base, Kept

LEMMA OpenRows ==
  ASSUME NEW s \in Sessions, NEW st, NEW c, Stands(s, st, c), st.at \in Working,
         st.r.child = "open", NEW k \in DOMAIN st.r.results, Items(st)[k] = "write"
  PROVE  /\ RowTrue(s, st, c, k) /\ Told(st, k)
         /\ st.r.results[k] = "pending" => PendingOK(s, st, c, <<st.r.ran, k>>)
<1>1. RowsOK(s, st, c) /\ st.r.made /\ ~st.r.released
  BY DEF Stands, SessionOK, FlagsOK
<1>2. RowOK(s, st, c, k) BY <1>1 DEF RowsOK
<1>3. QED BY <1>2 DEF RowOK, RowTrue

\* Waits in which the statement at hand is not sent yet.
LEMMA EarlyStands ==
  ASSUME TypeOK, NEW s \in Sessions, NEW st, NEW c, Stands(s, st, c), st.r.child = "open",
         st.at \in {"audit", "strict", "begin", "check"},
         st.r.transaction = "active" => c.queue = <<>>
  PROVE  Standing(s, st, c)
<1>1. st.at \in Working /\ st.at \notin Endings BY DEF Working, Waits, Endings
<1>2. Base(s, st, c) BY <1>1, WorkingBase
<1>3. AheadOK(s, st, c) /\ PlaceOK(st) /\ OpenOK(st, c) BY DEF Stands, SessionOK
<1>4. st.i \in Nat BY DEF Stands, StateSet
<1>5. ASSUME NEW k \in Positions, k >= st.i PROVE Clean(s, c, <<st.r.ran, k>>)
  <2>1. k > Reached(st)
    <3>1. k \in Nat /\ k > 0 BY DEF Positions
    <3>2. st.at \in {"audit", "strict"} => st.i = 0 BY <1>1, <1>3 DEF PlaceOK
    <3>3. QED BY <1>4, <1>5, <3>1, <3>2 DEF Reached
  <2>2. QED BY <1>1, <1>3, <2>1 DEF AheadOK
<1>6. st.r.transaction = "active" => c.queue = <<>> /\ c.tx
  BY <1>1, <1>3 DEF OpenOK, ActiveOK
<1>7. st.r.transaction # "active" => Quiet(c) /\ (st.i # 0 => Mode(st) # "atomic")
  BY <1>1, <1>3 DEF OpenOK, QuietOK, Quiet
<1>8. \A k \in DOMAIN st.r.results : Items(st)[k] = "write" =>
        /\ RowTrue(s, st, c, k) /\ Told(st, k)
        /\ st.r.results[k] = "pending" =>
             st.r.transaction = "active" /\ <<st.r.ran, k>> \in c.work
  BY <1>1, OpenRows DEF PendingOK
<1>9. QED BY <1>2, <1>5, <1>6, <1>7, <1>8 DEF Standing

LEMMA BegunFields ==
  ASSUME NEW st \in StateSet
  PROVE  /\ [st EXCEPT !.r.transaction = "active"] \in StateSet
         /\ Kept(st, [st EXCEPT !.r.transaction = "active"])
         /\ [st EXCEPT !.r.transaction = "active"].at = st.at
         /\ [st EXCEPT !.r.transaction = "active"].i = st.i
         /\ [st EXCEPT !.r.transaction = "active"].send = st.send
         /\ [st EXCEPT !.r.transaction = "active"].r.busy = st.r.busy
         /\ [st EXCEPT !.r.transaction = "active"].r.child = st.r.child
         /\ [st EXCEPT !.r.transaction = "active"].r.status = st.r.status
         /\ [st EXCEPT !.r.transaction = "active"].r.results = st.r.results
         /\ [st EXCEPT !.r.transaction = "active"].r.transaction = "active"
BY DEF StateSet, SessionRecord, Kept

LEMMA BegunStands ==
  ASSUME TypeOK, NEW s \in Sessions, NEW st, NEW c, Stands(s, st, c), st.r.child = "open",
         st.at = "begin", c.answer = "ok"
  PROVE  Standing(s, [st EXCEPT !.r.transaction = "active"], c)
<1> DEFINE x == [st EXCEPT !.r.transaction = "active"]
<1>1. OpenOK(st, c) BY DEF Stands, SessionOK
<1>2. st.r.transaction # "active" BY <1>1 DEF OpenOK, ActiveOK
<1>3. Standing(s, st, c) BY <1>2, EarlyStands
<1>4. /\ x \in StateSet /\ Kept(st, x) /\ x.send = st.send /\ x.i = st.i
      /\ x.r.busy = st.r.busy /\ x.r.child = st.r.child /\ x.r.status = st.r.status
      /\ x.r.results = st.r.results /\ x.r.transaction = "active"
  BY BegunFields DEF Stands
<1> HIDE DEF x
<1>5. Base(s, x, c) /\ Items(x) = Items(st)
  BY <1>3, <1>4, BaseLike DEF Standing
<1>6. c.queue = <<>> /\ c.tx BY <1>1 DEF OpenOK, AnswerOK
<1>7. x.r.ran = st.r.ran BY <1>4 DEF Kept
<1>8. \A k \in Positions : k >= x.i => Clean(s, c, <<x.r.ran, k>>)
  BY <1>3, <1>4, <1>7 DEF Standing
<1>9. \A k \in DOMAIN x.r.results : Items(x)[k] = "write" =>
        /\ RowTrue(s, x, c, k) /\ Told(x, k)
        /\ x.r.results[k] = "pending" => <<x.r.ran, k>> \in c.work
  BY <1>3, <1>4, <1>5, <1>7 DEF Standing, RowTrue, Told
<1>10. QED BY <1>4, <1>5, <1>6, <1>8, <1>9 DEF Standing, x

LEMMA BegunDone ==
  ASSUME TypeOK, ScriptsOK, NEW s \in Sessions, NEW st, NEW c, Stands(s, st, c),
         st.r.child = "open", st.at = "begin", c.answer = "ok"
  PROVE  Done(s, st, AfterAnswer(st), c)
<1> DEFINE x == [st EXCEPT !.r.transaction = "active"]
<1>1. Standing(s, x, c) BY BegunStands
<1>2. Kept(st, x) /\ x.i = st.i /\ x.r.transaction = "active" BY BegunFields DEF Stands
<1>3. Items(x) = Items(st) /\ Item(x) = Item(st) /\ Mode(x) = Mode(st)
  BY <1>2 DEF Items, Item, Mode, Kept
<1>4. AfterAnswer(st) = IF st.i # 0 /\ Item(st) = "begin" THEN NextStatement(x, "none")
                        ELSE Await(x, "check")
  BY DEF AfterAnswer
<1> HIDE DEF x
<1>5. st.at \in Working /\ PlaceOK(st) BY DEF Working, Waits, Stands, SessionOK
<1>6. /\ ~(st.i > Len(Items(st))) /\ Len(Items(st)) \in Nat /\ st.i \in Nat
      /\ Base(s, st, c)
  BY <1>5, ItemsKnown, WorkingBase DEF PlaceOK, Base, StateSet
<1>7. st.i <= Len(Items(st)) BY <1>6
<1>8. CASE st.i # 0 /\ Item(st) = "begin"
  <2>1. Passing(s, x, c, "none") BY <1>1, <1>2, <1>3, <1>7, <1>8, StandingPasses DEF Effects
  <2>2. QED BY <1>2, <1>4, <1>8, <2>1, NextDone, DoneKept
<1>9. CASE ~(st.i # 0 /\ Item(st) = "begin")
  <2>1. st.i # 0 => Item(x) \in {"read", "write"} BY <1>3, <1>5, <1>7, <1>9 DEF PlaceOK
  <2>2. st.i = 0 => Mode(x) = "atomic" BY <1>3, <1>5 DEF PlaceOK
  <2>3. st.i # 0 => Mode(x) # "atomic" BY <1>3, <1>5 DEF PlaceOK
  <2>4. Base(s, x, c) BY <1>1 DEF Standing
  <2>5. PlaceOK(Await(x, "check"))
    BY <1>2, <1>3, <1>6, <2>1, <2>2, <2>3, <2>4, PlaceAwait
  <2>6. Done(s, x, Await(x, "check"), c) BY <1>1, <1>2, <2>5, AwaitDone
  <2>7. QED BY <1>2, <1>4, <1>9, <2>6, DoneKept
<1>10. QED BY <1>8, <1>9

LEMMA CheckedDone ==
  ASSUME TypeOK, ScriptsOK, NEW s \in Sessions, NEW st, NEW c, Stands(s, st, c),
         st.r.child = "open", st.at = "check", c.answer # "none"
  PROVE  Done(s, st, AfterAnswer(st), c)
<1>1. PlaceOK(st) /\ OpenOK(st, c) /\ st.at \in Working
  BY DEF Stands, SessionOK, Working, Waits
<1>2. c.queue = <<>> BY <1>1 DEF OpenOK, AnswerOK
<1>3. Standing(s, st, c) /\ Base(s, st, c) BY <1>2, EarlyStands DEF Standing
<1>4. st.r.transaction # "active" =>
        st.i # 0 /\ Item(st) = "read" /\ Mode(st) # "atomic"
  BY <1>1 DEF OpenOK, QuietOK
<1>5. ~(st.i > Len(Items(st))) /\ Len(Items(st)) \in Nat /\ st.i \in Nat
      /\ DOMAIN Items(st) = 1..Len(Items(st))
  BY <1>1, <1>3, ItemsKnown DEF PlaceOK, Base, StateSet
<1>6. CASE st.i = 0
  <2>1. AfterAnswer(st) = Statement([st EXCEPT !.i = 1]) BY <1>6 DEF AfterAnswer
  <2>2. Standing(s, [st EXCEPT !.i = 1], c) BY <1>3, <1>4, <1>6, FirstStands
  <2>3. Kept(st, [st EXCEPT !.i = 1]) /\ [st EXCEPT !.i = 1].i # 0
    BY <1>3, FirstFields DEF Base
  <2>4. QED BY <2>1, <2>2, <2>3, StatementDone, DoneKept
<1>7. CASE st.i # 0
  <2>1. AfterAnswer(st) = Await(st, "item") BY <1>7 DEF AfterAnswer
  <2>2. st.i <= Len(Items(st)) /\ st.i \in DOMAIN Items(st) BY <1>5, <1>7
  <2>3. Item(st) \in {"read", "write"} BY <1>1, <1>7, <2>2 DEF PlaceOK
  <2>4. PlaceOK(Await(st, "item")) BY <1>3, <1>5, <1>7, <2>3, PlaceAwait
  <2>5. QED BY <1>3, <1>4, <2>1, <2>2, <2>3, <2>4, AwaitDone
<1>8. QED BY <1>6, <1>7

LEMMA StrictDone ==
  ASSUME TypeOK, ScriptsOK, NEW s \in Sessions, NEW st, NEW c, Stands(s, st, c),
         st.r.child = "open", st.at = "strict", c.answer # "none"
  PROVE  Done(s, st, AfterAnswer(st), c)
<1>1. PlaceOK(st) /\ OpenOK(st, c) /\ st.at \in Working
  BY DEF Stands, SessionOK, Working, Waits
<1>2. c.queue = <<>> /\ st.i = 0 BY <1>1 DEF OpenOK, AnswerOK, PlaceOK
<1>3. Standing(s, st, c) BY <1>2, EarlyStands
<1>4. AfterAnswer(st) = Business(st) BY DEF AfterAnswer
<1>5. QED BY <1>2, <1>3, <1>4, BusinessDone

Over(st, effect) == [st EXCEPT !.r.transaction = "none", !.r.results = Settled(@, effect)]

LEMMA OverFields ==
  ASSUME NEW st \in StateSet, NEW effect \in Effects
  PROVE  /\ Over(st, effect) \in StateSet /\ Kept(st, Over(st, effect))
         /\ Over(st, effect).at = st.at /\ Over(st, effect).i = st.i
         /\ Over(st, effect).send = st.send
         /\ Over(st, effect).r.busy = st.r.busy /\ Over(st, effect).r.child = st.r.child
         /\ Over(st, effect).r.status = st.r.status
         /\ Over(st, effect).r.transaction = "none"
         /\ Len(Over(st, effect).r.results) = Len(st.r.results)
         /\ DOMAIN Over(st, effect).r.results = DOMAIN st.r.results
         /\ \A k \in DOMAIN st.r.results : Over(st, effect).r.results[k] =
              IF st.r.results[k] = "pending" THEN effect ELSE st.r.results[k]
<1> DEFINE f == Settled(st.r.results, effect)
           x == [st EXCEPT !.r.transaction = "none", !.r.results = f]
<1>1. /\ f \in Seq(Effects) /\ Len(f) = Len(st.r.results) /\ DOMAIN f = DOMAIN st.r.results
      /\ \A k \in DOMAIN st.r.results :
           f[k] = IF st.r.results[k] = "pending" THEN effect ELSE st.r.results[k]
  BY SettledRows DEF StateSet, SessionRecord
<1>2. Over(st, effect) = x BY DEF Over
<1> HIDE DEF f
<1>3. /\ x \in StateSet /\ Kept(st, x) /\ x.at = st.at /\ x.i = st.i /\ x.send = st.send
      /\ x.r.busy = st.r.busy /\ x.r.child = st.r.child /\ x.r.status = st.r.status
      /\ x.r.transaction = "none" /\ x.r.results = f
  BY <1>1 DEF StateSet, SessionRecord, Kept
<1>4. QED BY <1>1, <1>2, <1>3

\* An ending that was answered has left nothing of the transaction.
LEMMA EndingOver ==
  ASSUME NEW s \in Sessions, NEW st, NEW c, Stands(s, st, c), st.r.child = "open",
         st.at \in Endings, c.answer = "ok"
  PROVE  c.queue = <<>> /\ c.work = {} /\ Quiet(c) /\ Pending(c) = {}
<1>1. c.queue = <<>> /\ c.work = {}
  BY DEF Stands, SessionOK, OpenOK, AnswerOK
<1>2. Quiet(c) BY <1>1 DEF Quiet
<1>3. QED BY <1>1, <1>2, QuietPending

LEMMA CommittedRows ==
  ASSUME NEW s \in Sessions, NEW st, NEW c, Stands(s, st, c), st.r.child = "open",
         st.at = "commit", c.answer = "ok",
         NEW k \in DOMAIN Over(st, "committed").r.results, Items(st)[k] = "write"
  PROVE  /\ RowTrue(s, Over(st, "committed"), c, k) /\ Told(Over(st, "committed"), k)
         /\ Over(st, "committed").r.results[k] # "pending"
<1> DEFINE x == Over(st, "committed")
<1>1. /\ Kept(st, x) /\ k \in DOMAIN st.r.results
      /\ x.r.results[k] = IF st.r.results[k] = "pending" THEN "committed" ELSE st.r.results[k]
  BY OverFields DEF Stands, Effects
<1>2. st.at \in Working BY DEF Working, Waits
<1>3. /\ RowTrue(s, st, c, k) /\ Told(st, k)
      /\ st.r.results[k] = "pending" => PendingOK(s, st, c, <<st.r.ran, k>>)
  BY <1>1, <1>2, OpenRows
<1>4. st.r.results[k] = "pending" => committed[<<st.r.ran, k>>] = 1
  <2>1. c.work = {} BY EndingOver DEF Endings
  <2>2. QED BY <1>3, <2>1 DEF PendingOK
<1>5. x.r.ran = st.r.ran /\ Items(x) = Items(st) BY <1>1 DEF Kept, Items
<1> HIDE DEF x
<1>6. QED BY <1>1, <1>3, <1>4, <1>5 DEF RowTrue, Told, x

LEMMA TakenRows ==
  ASSUME NEW s \in Sessions, NEW st, NEW c, Stands(s, st, c), st.r.child = "open",
         st.at \in {"undo", "rollback", "idle"}, c.answer = "ok",
         NEW k \in DOMAIN Over(st, "rolledBack").r.results, Items(st)[k] = "write"
  PROVE  /\ RowTrue(s, Over(st, "rolledBack"), c, k)
         /\ Over(st, "rolledBack").r.results[k] # "pending"
<1> DEFINE x == Over(st, "rolledBack")
<1>1. /\ Kept(st, x) /\ k \in DOMAIN st.r.results
      /\ x.r.results[k] = IF st.r.results[k] = "pending" THEN "rolledBack" ELSE st.r.results[k]
  BY OverFields DEF Stands, Effects
<1>2. RowOK(s, st, c, k) BY <1>1 DEF Stands, SessionOK, FlagsOK, RowsOK
<1>3. st.r.results[k] = "pending" => Clean(s, c, <<st.r.ran, k>>)
  <2>1. Pending(c) = {} BY EndingOver DEF Endings
  <2>2. QED BY <1>2, <2>1 DEF RowOK, PendingOK, Clean
<1>4. x.r.ran = st.r.ran BY <1>1 DEF Kept
<1> HIDE DEF x
<1>5. QED BY <1>1, <1>2, <1>3, <1>4 DEF RowOK, RowTrue, x

LEMMA ItemPasses ==
  ASSUME TypeOK, NEW s \in Sessions, NEW st, NEW c, Stands(s, st, c),
         st.r.child = "open", st.at = "item", c.answer = "ok"
  PROVE  Passing(s, st, c, IF st.r.transaction = "active" THEN "pending" ELSE "none")
<1> DEFINE effect == IF st.r.transaction = "active" THEN "pending" ELSE "none"
<1>1. PlaceOK(st) /\ OpenOK(st, c) /\ AheadOK(s, st, c)
      /\ st.at \in Working /\ st.at \notin Endings
  BY DEF Stands, SessionOK, Working, Waits, Endings
<1>2. c.queue = <<>> /\ AnswerOK(st, c) BY <1>1 DEF OpenOK, AnswerOK
<1>3. Base(s, st, c) BY <1>1, WorkingBase
<1>4. st.i # 0 /\ st.i <= Len(Items(st))
  <2>1. st.i # 0 /\ ~(st.i > Len(Items(st))) /\ Len(Items(st)) \in Nat /\ st.i \in Nat
    BY <1>1, <1>3, ItemsKnown DEF PlaceOK, Base, StateSet
  <2>2. QED BY <2>1
<1>5. st.r.transaction = "active" => c.tx BY <1>1 DEF OpenOK, ActiveOK
<1>6. st.r.transaction # "active" => Quiet(c) /\ Mode(st) # "atomic" /\ Item(st) = "read"
  BY <1>1, <1>4 DEF OpenOK, QuietOK, Quiet
<1>7. \A k \in Positions : k > st.i => Clean(s, c, <<st.r.ran, k>>)
  <2>1. Reached(st) = st.i BY DEF Reached
  <2>2. QED BY <1>1, <2>1 DEF AheadOK
<1>8. \A k \in DOMAIN st.r.results : Items(st)[k] = "write" =>
       /\ RowTrue(s, st, c, k) /\ Told(st, k)
       /\ st.r.results[k] = "pending" =>
            st.r.transaction = "active" /\ <<st.r.ran, k>> \in c.work
  BY <1>1, OpenRows DEF PendingOK
<1>9. Item(st) = "write" => /\ effect = "pending" /\ st.r.transaction = "active"
                            /\ <<st.r.ran, st.i>> \in c.work
  BY <1>2, <1>6 DEF AnswerOK
<1>10. effect \in Effects BY DEF Effects
<1> HIDE DEF effect
<1>11. Passing(s, st, c, effect)
  BY <1>2, <1>3, <1>4, <1>5, <1>6, <1>7, <1>8, <1>9, <1>10 DEF Passing
<1>12. QED BY <1>11 DEF effect

\* A write committed by itself asks for its COMMIT at once.
LEMMA CommitNowDone ==
  ASSUME TypeOK, NEW s \in Sessions, NEW st, NEW c, Stands(s, st, c),
         st.r.child = "open", st.at = "item", c.answer = "ok",
         Mode(st) = "autocommit", Item(st) = "write"
  PROVE  Done(s, st, Await(st, "commit"), c)
<1> DEFINE x == Await(st, "commit")
           d == After(c, x)
           q == Asked(x)
<1>1. Passing(s, st, c, IF st.r.transaction = "active" THEN "pending" ELSE "none")
  BY ItemPasses
<1>2. st.r.transaction = "active" /\ <<st.r.ran, st.i>> \in c.work
  BY <1>1 DEF Passing
<1>3. /\ Base(s, st, c) /\ st \in StateSet /\ c \in Connection /\ st.r.ran \in DOMAIN script
      /\ st.i # 0 /\ st.i <= Len(Items(st)) /\ c.queue = <<>> /\ c.tx /\ ~st.r.released
      /\ st.i \in Nat /\ Len(Items(st)) \in Nat
  BY <1>1, <1>2, ItemsKnown DEF Passing, Base, StateSet
<1>4. /\ x \in StateSet /\ x.r = st.r /\ x.at = "commit" /\ x.i = st.i
      /\ x.send = <<q>> /\ q \in Query
  BY <1>3, AwaitFields DEF Waits
<1>5. Items(x) = Items(st) /\ Mode(x) = Mode(st) /\ Item(x) = Item(st)
  BY <1>4 DEF Items, Mode, Item
<1>6. PlaceOK(x)
  <2>1. ~(st.i > Len(Items(st))) BY <1>3
  <2>2. QED BY <1>3, <2>1, PlaceAwait
<1>7. q.kind = "commit" BY <1>4 DEF Asked
<1> HIDE DEF x, q
<1>8. /\ d \in Connection /\ d.answer = "none" /\ d.tx = c.tx /\ d.work = c.work
      /\ Len(d.queue) = Len(c.queue) + 1 /\ d.queue # <<>>
      /\ d.queue[Len(c.queue) + 1] = q
      /\ \A w : w \in Pending(d) <=> w \in Pending(c)
  <2>1. /\ d \in Connection /\ d.answer = "none" /\ d.tx = c.tx /\ d.work = c.work
        /\ Len(d.queue) = Len(c.queue) + 1 /\ d.queue # <<>>
        /\ d.queue[Len(c.queue) + 1] = q
        /\ \A w : w \in Pending(d) <=> w \in Pending(c) \/ (q.kind = "write" /\ w = q.write)
    BY <1>3, <1>4, AfterAsked
  <2>2. QED BY <1>7, <2>1
<1>9. ConnectionOK(s, d) BY <1>3, <1>4, <1>7, ConnectionAsked DEF Base
<1>10. \A w : Clean(s, c, w) => Clean(s, d, w) BY <1>8 DEF Clean
<1> HIDE DEF d
<1>11. AheadOK(s, x, d)
  <2>0. ~(x.i > Len(Items(x))) BY <1>3, <1>4, <1>5
  <2>1. Reached(x) = st.i BY <1>4, <2>0 DEF Reached
  <2>2. st.r.used BY <1>3 DEF Base
  <2>3. \A k \in Positions : k = st.i => ~(k > Len(Items(x))) BY <1>3, <1>5
  <2>4. \A k \in Positions : k > st.i => Clean(s, d, <<st.r.ran, k>>)
    BY <1>1, <1>10 DEF Passing
  <2>5. QED BY <1>4, <2>1, <2>2, <2>3, <2>4 DEF AheadOK
<1>12. FlagsOK(s, x) BY <1>1, <1>3, <1>4 DEF FlagsOK, Base, Passing
<1>13. OpenOK(x, d)
  <2>1. Len(d.queue) = 1 BY <1>3, <1>8
  <2>2. ActiveOK(x, d) BY <1>4, <1>8, <2>1 DEF ActiveOK, Endings
  <2>3. d.queue[Len(d.queue)] = Asked(x) BY <1>8 DEF q
  <2>4. AnswerOK(x, d) BY <1>2, <1>4, <1>8, <2>3 DEF AnswerOK
  <2>5. QED BY <1>2, <1>4, <2>2, <2>4 DEF OpenOK
<1>14. RowsOK(s, x, d)
  <2> SUFFICES ASSUME NEW k \in DOMAIN st.r.results, Items(st)[k] = "write"
               PROVE  RowOK(s, x, d, k)
    BY <1>4, <1>5 DEF RowsOK
  <2>1. /\ RowTrue(s, st, c, k) /\ Told(st, k)
        /\ st.r.results[k] = "pending" => <<st.r.ran, k>> \in c.work
    BY <1>1 DEF Passing
  <2>2. Told(x, k) BY <1>4, <1>5, <2>1 DEF Told
  <2>3. st.r.results[k] = "pending" => PendingOK(s, x, d, <<st.r.ran, k>>)
    BY <1>2, <1>4, <1>8, <2>1 DEF PendingOK, Endings
  <2>4. QED BY <1>4, <1>10, <2>1, <2>2, <2>3 DEF RowOK, RowTrue
<1>15. Kept(st, x) BY <1>4 DEF Kept
<1>16. QED BY <1>4, <1>6, <1>8, <1>9, <1>11, <1>12, <1>13, <1>14, <1>15 DEF Done, SessionOK, d, x

LEMMA ItemDone ==
  ASSUME TypeOK, ScriptsOK, NEW s \in Sessions, NEW st, NEW c, Stands(s, st, c),
         st.r.child = "open", st.at = "item", c.answer = "ok"
  PROVE  Done(s, st, AfterAnswer(st), c)
<1> DEFINE effect == IF st.r.transaction = "active" THEN "pending" ELSE "none"
<1>1. CASE Mode(st) = "autocommit" /\ Item(st) = "write"
  <2>1. AfterAnswer(st) = Await(st, "commit") BY <1>1 DEF AfterAnswer
  <2>2. QED BY <1>1, <2>1, CommitNowDone
<1>2. CASE ~(Mode(st) = "autocommit" /\ Item(st) = "write")
  <2>1. AfterAnswer(st) = NextStatement(st, effect) BY <1>2 DEF AfterAnswer
  <2>2. Passing(s, st, c, effect) BY ItemPasses
  <2> HIDE DEF effect
  <2>3. QED BY <2>1, <2>2, NextDone
<1>3. QED BY <1>1, <1>2

LEMMA CommittedDone ==
  ASSUME TypeOK, ScriptsOK, NEW s \in Sessions, NEW st, NEW c, Stands(s, st, c),
         st.r.child = "open", st.at = "commit", c.answer = "ok"
  PROVE  Done(s, st, AfterAnswer(st), c)
<1> DEFINE x == Over(st, "committed")
           effect == IF Item(st) = "write" THEN "committed" ELSE "none"
<1>1. PlaceOK(st) /\ OpenOK(st, c) /\ AheadOK(s, st, c) /\ st.at \in Working
  BY DEF Stands, SessionOK, Working, Waits
<1>2. c.queue = <<>> /\ c.work = {} /\ Quiet(c) /\ Pending(c) = {}
  BY EndingOver DEF Endings
<1>3. Base(s, st, c) /\ st \in StateSet BY <1>1, WorkingBase DEF Stands
<1>4. /\ x \in StateSet /\ Kept(st, x) /\ x.send = st.send /\ x.i = st.i
      /\ x.r.busy = st.r.busy /\ x.r.child = st.r.child /\ x.r.status = st.r.status
      /\ x.r.transaction = "none" /\ Len(x.r.results) = Len(st.r.results)
      /\ DOMAIN x.r.results = DOMAIN st.r.results
  BY <1>3, OverFields DEF Effects
<1>5. AfterAnswer(st) = IF x.i > Len(Items(x)) THEN Succeed(x) ELSE NextStatement(x, effect)
  <2>1. Items(x) = Items(st) BY <1>4 DEF Items, Kept
  <2>2. AfterAnswer(st) = IF st.i > Len(Items(st)) THEN Succeed(x) ELSE NextStatement(x, effect)
    BY DEF AfterAnswer, Over
  <2>3. QED BY <1>4, <2>1, <2>2
<1>6. \A k \in DOMAIN x.r.results : Items(st)[k] = "write" =>
        RowTrue(s, x, c, k) /\ Told(x, k) /\ x.r.results[k] # "pending"
  BY CommittedRows
<1> HIDE DEF x
<1>7. Base(s, x, c) /\ Items(x) = Items(st) /\ Mode(x) = Mode(st) /\ Item(x) = Item(st)
      /\ x.r.ran = st.r.ran
  BY <1>3, <1>4, BaseLike DEF Kept
<1>8. Len(Items(st)) \in Nat /\ st.i \in Nat /\ st.i # 0
  BY <1>1, <1>3, ItemsKnown DEF Base, StateSet, PlaceOK
<1>9. \A k \in Positions : k > Reached(st) => Clean(s, c, <<x.r.ran, k>>)
  BY <1>1, <1>7 DEF AheadOK
<1>10. CASE st.i > Len(Items(st))
  <2>1. \A k \in Positions : k >= x.i => Clean(s, c, <<x.r.ran, k>>)
    <3>1. \A k \in Positions : k >= st.i => k > Reached(st)
      BY <1>8, <1>10 DEF Reached, Positions
    <3>2. QED BY <1>4, <1>9, <3>1
  <2>2. ~(x.i <= Len(Items(x))) BY <1>4, <1>7, <1>8, <1>10
  <2>3. Standing(s, x, c)
    BY <1>2, <1>4, <1>6, <1>7, <2>1, <2>2 DEF Standing
  <2>4. AfterAnswer(st) = Succeed(x) BY <1>4, <1>5, <1>7, <1>10
  <2>5. QED BY <1>4, <2>3, <2>4, SucceedDone, DoneKept
<1>11. CASE ~(st.i > Len(Items(st)))
  <2>1. st.i <= Len(Items(st)) BY <1>8, <1>11
  <2>2. \/ Item(st) = "commit"
        \/ Item(st) = "write" /\ Mode(st) = "autocommit"
    BY <1>1, <1>8, <2>1 DEF PlaceOK
  <2>3. Mode(x) # "atomic" BY <1>3, <1>7, <1>8, <2>1, <2>2, AtomicItems
  <2>4. Item(st) = "write" => committed[<<st.r.ran, st.i>>] = 1
    BY <1>1, <1>2, <2>1 DEF OpenOK, AnswerOK
  <2>5. effect \in Effects /\ (Item(x) = "write" => effect = "committed")
    BY <1>7 DEF Effects
  <2> HIDE DEF effect
  <2>6. \A k \in Positions : k > x.i => Clean(s, c, <<x.r.ran, k>>)
    BY <1>4, <1>9, <1>11 DEF Reached
  <2>7. Passing(s, x, c, effect)
    BY <2>6, <1>2, <1>4, <1>6, <1>7, <1>8, <2>1, <2>3, <2>4, <2>5 DEF Passing
  <2>8. AfterAnswer(st) = NextStatement(x, effect) BY <1>4, <1>5, <1>7, <1>11
  <2>9. QED BY <1>4, <2>7, <2>8, NextDone, DoneKept
<1>12. QED BY <1>10, <1>11

LEMMA UndoneDone ==
  ASSUME TypeOK, ScriptsOK, NEW s \in Sessions, NEW st, NEW c, Stands(s, st, c),
         st.r.child = "open", st.at = "undo", c.answer = "ok"
  PROVE  Done(s, st, AfterAnswer(st), c)
<1> DEFINE x == Over(st, "rolledBack")
<1>1. PlaceOK(st) /\ OpenOK(st, c) /\ AheadOK(s, st, c) /\ st.at \in Working
  BY DEF Stands, SessionOK, Working, Waits
<1>2. c.queue = <<>> /\ c.work = {} /\ Quiet(c) /\ Pending(c) = {}
  BY EndingOver DEF Endings
<1>3. Base(s, st, c) /\ st \in StateSet BY <1>1, WorkingBase DEF Stands
<1>4. /\ x \in StateSet /\ Kept(st, x) /\ x.send = st.send /\ x.i = st.i
      /\ x.r.busy = st.r.busy /\ x.r.child = st.r.child /\ x.r.status = st.r.status
      /\ x.r.transaction = "none" /\ Len(x.r.results) = Len(st.r.results)
      /\ DOMAIN x.r.results = DOMAIN st.r.results
      /\ \A k \in DOMAIN st.r.results : x.r.results[k] =
           IF st.r.results[k] = "pending" THEN "rolledBack" ELSE st.r.results[k]
  BY <1>3, OverFields DEF Effects
<1>5. AfterAnswer(st) = NextStatement(x, "none")
  BY DEF AfterAnswer, Over
<1>6. \A k \in DOMAIN x.r.results : Items(st)[k] = "write" =>
        RowTrue(s, x, c, k) /\ x.r.results[k] # "pending"
  BY TakenRows
<1> HIDE DEF x
<1>7. Base(s, x, c) /\ Items(x) = Items(st) /\ Mode(x) = Mode(st) /\ Item(x) = Item(st)
      /\ x.r.ran = st.r.ran
  BY <1>3, <1>4, BaseLike DEF Kept
<1>8. /\ Len(Items(st)) \in Nat /\ st.i \in Nat /\ st.i # 0 /\ ~(st.i > Len(Items(st)))
      /\ DOMAIN Items(st) = 1..Len(Items(st))
      /\ DOMAIN st.r.results = 1..Len(st.r.results) /\ Len(st.r.results) = st.i - 1
  BY <1>1, <1>3, ItemsKnown DEF Base, StateSet, SessionRecord, PlaceOK
<1>9. \A k \in Positions : k > st.i => Clean(s, c, <<x.r.ran, k>>)
  <2>1. Reached(st) = st.i BY DEF Reached
  <2>2. QED BY <1>1, <1>7, <2>1 DEF AheadOK
<1>10. st.i <= Len(Items(st)) /\ st.i \in DOMAIN Items(st) BY <1>8
<1>11. Item(st) = "rollback" BY <1>1, <1>8, <1>10 DEF PlaceOK
<1>12. Mode(st) # "atomic" BY <1>1, <1>8 DEF PlaceOK
<1>13. ASSUME NEW k \in DOMAIN x.r.results, Items(st)[k] = "write" PROVE Told(x, k)
  <2>1. Told(st, k) BY <1>1, <1>4, <1>13, OpenRows
  <2>2. TakenBack(Items(x), k)
    <3>1. st.i > k BY <1>4, <1>8
    <3>2. QED BY <1>7, <1>10, <1>11, <3>1 DEF TakenBack, Item
  <2>3. QED BY <1>4, <1>7, <2>1, <2>2 DEF Told
<1>14. Passing(s, x, c, "none")
  BY <1>2, <1>4, <1>6, <1>7, <1>8, <1>9, <1>10, <1>11, <1>12, <1>13 DEF Passing, Effects
<1>15. QED BY <1>4, <1>5, <1>14, NextDone, DoneKept

LEMMA RolledBackDone ==
  ASSUME TypeOK, NEW s \in Sessions, NEW st, NEW c, Stands(s, st, c),
         st.r.child = "open", st.at = "rollback", c.answer = "ok"
  PROVE  Done(s, st, AfterAnswer(st), c)
<1> DEFINE x == Over(st, "rolledBack")
<1>1. PlaceOK(st) /\ OpenOK(st, c) /\ AheadOK(s, st, c) /\ st.at \in Working
  BY DEF Stands, SessionOK, Working, Waits
<1>2. c.queue = <<>> /\ c.work = {} /\ Quiet(c) /\ Pending(c) = {}
  BY EndingOver DEF Endings
<1>3. Base(s, st, c) /\ st \in StateSet BY <1>1, WorkingBase DEF Stands
<1>4. /\ x \in StateSet /\ Kept(st, x) /\ x.send = st.send /\ x.i = st.i
      /\ x.r.busy = st.r.busy /\ x.r.child = st.r.child /\ x.r.status = st.r.status
      /\ x.r.transaction = "none" /\ Len(x.r.results) = Len(st.r.results)
      /\ DOMAIN x.r.results = DOMAIN st.r.results
  BY <1>3, OverFields DEF Effects
<1>5. AfterAnswer(st) = Finish(x, FALSE)
  BY DEF AfterAnswer, Over
<1>6. \A k \in DOMAIN x.r.results : Items(st)[k] = "write" =>
        RowTrue(s, x, c, k) /\ x.r.results[k] # "pending"
  BY TakenRows
<1> HIDE DEF x
<1>7. Base(s, x, c) /\ Items(x) = Items(st) /\ Mode(x) = Mode(st) /\ Item(x) = Item(st)
      /\ x.r.ran = st.r.ran
  BY <1>3, <1>4, BaseLike DEF Kept
<1>8. ASSUME NEW k \in Positions, k > Len(x.r.results)
      PROVE  Clean(s, c, <<x.r.ran, k>>)
  <2>1. Reached(st) = st.i BY DEF Reached
  <2>2. /\ st.i \in Nat /\ k \in Nat
        /\ Len(x.r.results) = IF st.i = 0 THEN 0 ELSE st.i - 1
    BY <1>3, <1>4 DEF Base, StateSet, Positions
  <2>3. k = st.i \/ k > st.i BY <1>8, <2>2
  <2>4. QED BY <1>1, <1>2, <1>7, <2>1, <2>3 DEF AheadOK, Clean
<1>9. DOMAIN Items(x) \subseteq Positions BY <1>3, <1>7, ItemsKnown DEF Base
<1>10. FinishReady(s, x, c, FALSE)
  BY <1>9, <1>2, <1>4, <1>6, <1>7, <1>8 DEF FinishReady
<1>11. QED BY <1>4, <1>5, <1>10, FinishDone, DoneKept

-----------------------------------------------------------------------------
(* A session that gives its connection up.                                   *)

\* The rows it still tells of without a connection.
LEMMA ClosedOK ==
  ASSUME TypeOK, NEW s \in Sessions, NEW st, NEW c, Stands(s, st, c),
         NEW x \in StateSet, Kept(st, x), x.i = st.i,
         \/ x.at = st.at /\ x.r.busy = st.r.busy
         \/ x.at = "none" /\ x.r.busy = FALSE,
         x.r.child # "open", x.r.child # "none" => st.r.child # "none",
         ~st.r.released => x.r.transaction # "active",
         ~st.r.released /\ x.at = "item" /\ Item(x) = "write" =>
           "unknown" \in {x.r.status, x.r.transaction},
         x.at \in {"audit", "open"} /\ x.r.child = "none" /\ x.r.status = "unknown" => x.r.cancelled,
         Len(x.r.results) = Len(st.r.results),
         x.r.results = <<>> <=> st.r.results = <<>>,
         \A k \in DOMAIN x.r.results : st.r.made /\ ~st.r.released /\ Items(st)[k] = "write" =>
           /\ RowTrue(s, x, c, k) /\ x.r.results[k] # "pending"
           /\ x.r.status = "success" => Told(x, k),
         NEW d, ConnectionOK(s, d), Pending(d) = Pending(c)
  PROVE  SessionOK(s, x, d)
<1>1. AheadOK(s, st, c) /\ PlaceOK(st) /\ FlagsOK(s, st)
  BY DEF Stands, SessionOK
<1>2. Items(x) = Items(st) /\ Mode(x) = Mode(st) /\ Item(x) = Item(st)
  BY DEF Items, Mode, Item, Kept
<1>3. \A w : Clean(s, c, w) <=> Clean(s, d, w) BY DEF Clean
<1>4. x.at = "none" => x.at \notin Working BY DEF Working, Waits
<1>5. AheadOK(s, x, d)
  <2>1. x.at = st.at => Reached(x) = Reached(st) BY <1>2 DEF Reached
  <2>2. QED BY <1>1, <1>2, <1>3, <1>4, <2>1 DEF AheadOK, Kept
<1>6. PlaceOK(x)
  <2>1. /\ x.r.used => x.r.ran = x.r.plan
        /\ ~x.r.used => x.r.ran < x.r.plan \/ (x.r.plan = 0 /\ x.r.ran = 0)
        /\ x.r.ran = 0 => x.r.results = <<>>
        /\ x.r.ran # 0 => x.r.ran <= Len(script) /\ Len(x.r.results) <= Len(Items(x))
    BY <1>1, <1>2 DEF PlaceOK, Kept
  <2>2. CASE x.at = "none" BY <1>4, <2>1, <2>2 DEF PlaceOK
  <2>3. CASE x.at = st.at
    BY <1>1, <1>2, <2>1, <2>3 DEF PlaceOK, Kept
  <2>4. QED BY <2>2, <2>3
<1>7. FlagsOK(s, x)
  <2>1. x.at = "open" => x.r.child = "none" BY <1>1 DEF FlagsOK
  <2>2. QED BY <1>1, <2>1 DEF FlagsOK, Kept
<1>8. OpenOK(x, d) BY DEF OpenOK
<1>9. RowsOK(s, x, d)
  <2> SUFFICES ASSUME x.r.made /\ ~x.r.released, NEW k \in DOMAIN x.r.results, Items(x)[k] = "write"
               PROVE  RowOK(s, x, d, k)
    BY DEF RowsOK
  <2>1. /\ RowTrue(s, x, c, k) /\ x.r.results[k] # "pending"
        /\ x.r.status = "success" => Told(x, k)
    BY <1>2 DEF Kept
  <2>2. QED BY <1>3, <2>1 DEF RowOK, RowTrue
<1>10. QED BY <1>5, <1>6, <1>7, <1>8, <1>9 DEF SessionOK

\* What the loss of the connection leaves to tell.
LEMMA LostRows ==
  ASSUME NEW s \in Sessions, NEW st, NEW c, Stands(s, st, c), st.r.made, ~st.r.released,
         NEW k \in DOMAIN Lost(st).r.results, Items(st)[k] = "write"
  PROVE  RowTrue(s, Lost(st), c, k) /\ Lost(st).r.results[k] # "pending"
<1>1. st \in StateSet /\ RowsOK(s, st, c) /\ FlagsOK(s, st) BY DEF Stands, SessionOK
<1>2. Lost(st).r.ran = st.r.ran BY <1>1, LostFields DEF Kept
<1>3. CASE st.r.status = "unknown"
  <2>1. Lost(st) = st BY <1>1, <1>3, LostFields
  <2>2. RowOK(s, st, c, k) BY <1>1, <2>1 DEF RowsOK
  <2>3. st.r.child # "open" BY <1>1, <1>3 DEF FlagsOK
  <2>4. QED BY <2>1, <2>2, <2>3 DEF RowOK, RowTrue, PendingOK
<1>4. CASE st.r.status # "unknown"
  <2>1. Lost(st).r.results = Settled(st.r.results, "unknown") BY <1>1, <1>4, LostFields
  <2>2. /\ DOMAIN Settled(st.r.results, "unknown") = DOMAIN st.r.results
        /\ \A j \in DOMAIN st.r.results : Settled(st.r.results, "unknown")[j] =
             IF st.r.results[j] = "pending" THEN "unknown" ELSE st.r.results[j]
    BY <1>1, SettledRows DEF StateSet, SessionRecord, Effects
  <2>3. RowOK(s, st, c, k) BY <1>1, <2>1, <2>2 DEF RowsOK
  <2>4. QED BY <1>2, <2>1, <2>2, <2>3 DEF RowOK, RowTrue
<1>5. QED BY <1>3, <1>4

LEMMA LostShape ==
  ASSUME NEW s \in Sessions, NEW st, NEW c, Stands(s, st, c)
  PROVE  /\ Lost(st) \in StateSet /\ Kept(st, Lost(st)) /\ Lost(st).send = <<>>
         /\ Lost(st).at = st.at /\ Lost(st).i = st.i /\ Lost(st).r.busy = st.r.busy
         /\ Items(Lost(st)) = Items(st) /\ Mode(Lost(st)) = Mode(st) /\ Item(Lost(st)) = Item(st)
         /\ Lost(st).r.child # "open"
         /\ Lost(st).r.child # "none" => st.r.child # "none"
         /\ ~st.r.released => /\ Lost(st).r.transaction # "active"
                              /\ Lost(st).r.status \in {"unknown", "error"}
         /\ ~st.r.released /\ (st.at = "commit" \/ (st.at = "item" /\ Item(st) = "write")) =>
              "unknown" \in {Lost(st).r.status, Lost(st).r.transaction}
         /\ Len(Lost(st).r.results) = Len(st.r.results)
         /\ Lost(st).r.results = <<>> <=> st.r.results = <<>>
<1>1. st \in StateSet /\ FlagsOK(s, st) /\ st.send = <<>> BY DEF Stands, SessionOK
<1>2. /\ Lost(st) \in StateSet /\ Kept(st, Lost(st))
      /\ Lost(st).at = st.at /\ Lost(st).i = st.i /\ Lost(st).send = st.send
      /\ Lost(st).r.busy = st.r.busy
      /\ IF st.r.released \/ st.r.status = "unknown" THEN Lost(st) = st
         ELSE /\ Lost(st).r.transaction = IF Uncertain(st) THEN "unknown" ELSE "none"
              /\ Lost(st).r.status = IF Uncertain(st) THEN "unknown" ELSE "error"
              /\ Lost(st).r.results = Settled(st.r.results, "unknown")
              /\ Lost(st).r.child = IF st.r.child = "none" THEN "none" ELSE "closed"
  BY <1>1, LostFields
<1>3. /\ Items(Lost(st)) = Items(st) /\ Mode(Lost(st)) = Mode(st) /\ Item(Lost(st)) = Item(st)
  BY <1>2 DEF Items, Mode, Item, Kept
<1>4. st.r.released \/ st.r.status = "unknown" => st.r.child # "open"
  BY <1>1 DEF FlagsOK
<1>5. ~st.r.released /\ st.r.status = "unknown" => st.r.transaction # "active"
  BY <1>1, <1>4 DEF FlagsOK
<1>6. Len(Lost(st).r.results) = Len(st.r.results)
  BY <1>1, <1>2, SettledRows DEF StateSet, SessionRecord, Effects
<1>7. Lost(st).r.results = <<>> <=> st.r.results = <<>>
  <2>1. Lost(st).r.results \in Seq(Effects) /\ st.r.results \in Seq(Effects)
    BY <1>1, <1>2 DEF StateSet, SessionRecord
  <2>2. QED BY <1>6, <2>1
<1>8. ~st.r.released /\ (st.at = "commit" \/ (st.at = "item" /\ Item(st) = "write")) =>
        "unknown" \in {Lost(st).r.status, Lost(st).r.transaction}
  BY <1>2 DEF Uncertain
<1>9. QED BY <1>1, <1>2, <1>3, <1>4, <1>5, <1>6, <1>7, <1>8

\* The connection of a session ends, at the client.
LEMMA LostOK ==
  ASSUME TypeOK, NEW s \in Sessions, NEW st, NEW c, Stands(s, st, c),
         NEW x \in StateSet, Kept(Lost(st), x), x.i = st.i,
         \/ x.at = st.at /\ x.r.busy = st.r.busy
         \/ x.at = "none" /\ x.r.busy = FALSE,
         x.r.child \in {Lost(st).r.child, "none"}, x.r.transaction = Lost(st).r.transaction,
         x.r.status = Lost(st).r.status, x.r.results = Lost(st).r.results,
         x.at \in {"audit", "open"} /\ x.r.child = "none" /\ x.r.status = "unknown" => x.r.cancelled,
         NEW d, ConnectionOK(s, d), Pending(d) = Pending(c)
  PROVE  SessionOK(s, x, d)
<1>1. /\ Kept(st, Lost(st)) /\ Items(Lost(st)) = Items(st)
      /\ Lost(st).r.child # "open"
      /\ Lost(st).r.child # "none" => st.r.child # "none"
      /\ ~st.r.released => /\ Lost(st).r.transaction # "active"
                           /\ Lost(st).r.status \in {"unknown", "error"}
      /\ ~st.r.released /\ (st.at = "commit" \/ (st.at = "item" /\ Item(st) = "write")) =>
           "unknown" \in {Lost(st).r.status, Lost(st).r.transaction}
      /\ Len(Lost(st).r.results) = Len(st.r.results)
      /\ Lost(st).r.results = <<>> <=> st.r.results = <<>>
  BY LostShape
<1>2. \A k \in DOMAIN Lost(st).r.results : st.r.made /\ ~st.r.released /\ Items(st)[k] = "write" =>
        RowTrue(s, Lost(st), c, k) /\ Lost(st).r.results[k] # "pending"
  BY LostRows
<1>3. Kept(st, x) BY <1>1 DEF Kept
<1>4. \A k \in DOMAIN x.r.results : st.r.made /\ ~st.r.released /\ Items(st)[k] = "write" =>
        /\ RowTrue(s, x, c, k) /\ x.r.results[k] # "pending"
        /\ x.r.status = "success" => Told(x, k)
  <2>1. x.r.ran = Lost(st).r.ran BY DEF Kept
  <2>2. ~st.r.released => x.r.status # "success" BY <1>1
  <2>3. QED BY <1>2, <2>1, <2>2 DEF RowTrue
<1>5. Item(x) = Item(st) BY <1>3 DEF Item, Items, Kept
<1>6. x.r.child # "open" /\ (x.r.child # "none" => st.r.child # "none") BY <1>1
<1>7. ~st.r.released => x.r.transaction # "active" BY <1>1
<1>8. ~st.r.released /\ x.at = "item" /\ Item(x) = "write" =>
        "unknown" \in {x.r.status, x.r.transaction}
  BY <1>1, <1>5
<1>9. Len(x.r.results) = Len(st.r.results) /\ (x.r.results = <<>> <=> st.r.results = <<>>)
  BY <1>1
<1>10. QED BY <1>3, <1>4, <1>6, <1>7, <1>8, <1>9, ClosedOK

\* The same, as the end of a stretch.
LEMMA EndDone ==
  ASSUME TypeOK, NEW s \in Sessions, NEW st, NEW c, Stands(s, st, c),
         NEW x \in StateSet, x.send = <<>>, Kept(st, x), SessionOK(s, x, After(c, x))
  PROVE  Done(s, st, x, c)
<1>1. c \in Connection BY DEF Stands
<1>2. After(c, x) \in Connection /\ Pending(After(c, x)) = Pending(c) BY <1>1, AfterNothing
<1>3. QED BY <1>2 DEF Done

LEMMA ConnectionSame ==
  ASSUME NEW s \in Sessions, NEW st, NEW c, Stands(s, st, c), NEW x \in StateSet, x.send = <<>>
  PROVE  ConnectionOK(s, After(c, x)) /\ Pending(After(c, x)) = Pending(c)
<1>1. c \in Connection /\ ConnectionOK(s, c) BY DEF Stands, SessionOK
<1>2. /\ After(c, x).queue = c.queue /\ After(c, x).tx = c.tx /\ After(c, x).work = c.work
      /\ Pending(After(c, x)) = Pending(c)
  BY <1>1, AfterNothing
<1>3. QED BY <1>1, <1>2 DEF ConnectionOK

Given(st) == [Lost(st) EXCEPT !.at = "none", !.r.busy = FALSE, !.r.child = "none"]
Dropping(st) == [Lost(st) EXCEPT !.r.child = "none"]

LEMMA GivenFields ==
  ASSUME NEW st \in StateSet
  PROVE  /\ [st EXCEPT !.at = "none", !.r.busy = FALSE, !.r.child = "none"] \in StateSet
         /\ Kept(st, [st EXCEPT !.at = "none", !.r.busy = FALSE, !.r.child = "none"])
         /\ [st EXCEPT !.at = "none", !.r.busy = FALSE, !.r.child = "none"].at = "none"
         /\ [st EXCEPT !.at = "none", !.r.busy = FALSE, !.r.child = "none"].i = st.i
         /\ [st EXCEPT !.at = "none", !.r.busy = FALSE, !.r.child = "none"].send = st.send
         /\ [st EXCEPT !.at = "none", !.r.busy = FALSE, !.r.child = "none"].r.busy = FALSE
         /\ [st EXCEPT !.at = "none", !.r.busy = FALSE, !.r.child = "none"].r.child = "none"
         /\ [st EXCEPT !.at = "none", !.r.busy = FALSE, !.r.child = "none"].r.transaction
              = st.r.transaction
         /\ [st EXCEPT !.at = "none", !.r.busy = FALSE, !.r.child = "none"].r.status = st.r.status
         /\ [st EXCEPT !.at = "none", !.r.busy = FALSE, !.r.child = "none"].r.results
              = st.r.results
BY DEF StateSet, SessionRecord, Kept

LEMMA DroppingFields ==
  ASSUME NEW st \in StateSet
  PROVE  /\ [st EXCEPT !.r.child = "none"] \in StateSet
         /\ Kept(st, [st EXCEPT !.r.child = "none"])
         /\ [st EXCEPT !.r.child = "none"].at = st.at
         /\ [st EXCEPT !.r.child = "none"].i = st.i
         /\ [st EXCEPT !.r.child = "none"].send = st.send
         /\ [st EXCEPT !.r.child = "none"].r.busy = st.r.busy
         /\ [st EXCEPT !.r.child = "none"].r.child = "none"
         /\ [st EXCEPT !.r.child = "none"].r.transaction = st.r.transaction
         /\ [st EXCEPT !.r.child = "none"].r.status = st.r.status
         /\ [st EXCEPT !.r.child = "none"].r.results = st.r.results
BY DEF StateSet, SessionRecord, Kept

\* A rollback of the idle timer that failed.
LEMMA GivenDone ==
  ASSUME TypeOK, NEW s \in Sessions, NEW st, NEW c, Stands(s, st, c)
  PROVE  Done(s, st, Given(st), c)
<1> DEFINE x == Given(st)
<1>1. /\ Lost(st) \in StateSet /\ Kept(st, Lost(st)) /\ Lost(st).send = <<>>
      /\ Lost(st).i = st.i
  BY LostShape
<1>2. /\ x \in StateSet /\ Kept(Lost(st), x) /\ x.at = "none" /\ x.i = Lost(st).i
      /\ x.send = Lost(st).send /\ x.r.busy = FALSE /\ x.r.child = "none"
      /\ x.r.transaction = Lost(st).r.transaction /\ x.r.status = Lost(st).r.status
      /\ x.r.results = Lost(st).r.results
  BY <1>1, GivenFields DEF Given
<1> HIDE DEF x
<1>3. Kept(st, x) BY <1>1, <1>2 DEF Kept
<1>4. ConnectionOK(s, After(c, x)) /\ Pending(After(c, x)) = Pending(c)
  BY <1>1, <1>2, ConnectionSame
<1>5. SessionOK(s, x, After(c, x)) BY <1>1, <1>2, <1>4, LostOK
<1>6. Done(s, st, x, c) BY <1>1, <1>2, <1>3, <1>5, EndDone
<1>7. QED BY <1>6 DEF x

\* A dead connection the idle timer gives up.
LEMMA DroppingDone ==
  ASSUME TypeOK, NEW s \in Sessions, NEW st, NEW c, Stands(s, st, c), st.at = "none"
  PROVE  Done(s, st, Dropping(st), c)
<1> DEFINE x == Dropping(st)
<1>1. /\ Lost(st) \in StateSet /\ Kept(st, Lost(st)) /\ Lost(st).send = <<>>
      /\ Lost(st).at = st.at /\ Lost(st).i = st.i /\ Lost(st).r.busy = st.r.busy
  BY LostShape
<1>2. /\ x \in StateSet /\ Kept(Lost(st), x) /\ x.at = Lost(st).at /\ x.i = Lost(st).i
      /\ x.send = Lost(st).send /\ x.r.busy = Lost(st).r.busy /\ x.r.child = "none"
      /\ x.r.transaction = Lost(st).r.transaction /\ x.r.status = Lost(st).r.status
      /\ x.r.results = Lost(st).r.results
  BY <1>1, DroppingFields DEF Dropping
<1> HIDE DEF x
<1>3. Kept(st, x) BY <1>1, <1>2 DEF Kept
<1>4. ConnectionOK(s, After(c, x)) /\ Pending(After(c, x)) = Pending(c)
  BY <1>1, <1>2, ConnectionSame
<1>5. SessionOK(s, x, After(c, x)) BY <1>1, <1>2, <1>4, LostOK
<1>6. Done(s, st, x, c) BY <1>1, <1>2, <1>3, <1>5, EndDone
<1>7. QED BY <1>6 DEF x

\* An open connection without a transaction that nobody touched.
LEMMA ReleasedDone ==
  ASSUME TypeOK, NEW s \in Sessions, NEW st, NEW c, Stands(s, st, c),
         st.at = "none", ~st.r.busy, st.r.transaction # "active", st.r.child # "none"
  PROVE  Done(s, st, [st EXCEPT !.r.status = "cancelled", !.r.child = "none"], c)
<1> DEFINE x == [st EXCEPT !.r.status = "cancelled", !.r.child = "none"]
<1>1. st \in StateSet /\ st.send = <<>> /\ RowsOK(s, st, c) BY DEF Stands, SessionOK
<1>2. /\ x \in StateSet /\ Kept(st, x) /\ x.at = "none" /\ x.i = st.i
      /\ x.send = <<>> /\ x.r.busy = FALSE /\ x.r.child = "none"
      /\ x.r.transaction = st.r.transaction /\ x.r.status = "cancelled"
      /\ x.r.results = st.r.results
  BY <1>1 DEF StateSet, SessionRecord, Kept
<1> HIDE DEF x
<1>3. \A k \in DOMAIN x.r.results : st.r.made /\ ~st.r.released /\ Items(st)[k] = "write" =>
        RowTrue(s, x, c, k) /\ x.r.results[k] # "pending"
  BY <1>1, <1>2 DEF RowsOK, RowOK, RowTrue, PendingOK, Kept
<1>4. ConnectionOK(s, After(c, x)) /\ Pending(After(c, x)) = Pending(c)
  BY <1>2, ConnectionSame
<1>5. SessionOK(s, x, After(c, x)) BY <1>2, <1>3, <1>4, ClosedOK
<1>6. Done(s, st, x, c) BY <1>2, <1>5, EndDone
<1>7. QED BY <1>6 DEF x

\* A rollback of the idle timer that was answered.
LEMMA IdledDone ==
  ASSUME TypeOK, NEW s \in Sessions, NEW st, NEW c, Stands(s, st, c),
         st.r.child = "open", st.at = "idle", c.answer = "ok"
  PROVE  Done(s, st, AfterAnswer(st), c)
<1> DEFINE y == Over(st, "rolledBack")
           f == Settled(st.r.results, "rolledBack")
           x == [st EXCEPT !.at = "none", !.r.transaction = "none", !.r.status = "cancelled",
                           !.r.results = f, !.r.busy = FALSE, !.r.child = "none"]
<1>0. st \in StateSet /\ st.send = <<>> BY DEF Stands
<1>1. AfterAnswer(st) = x BY DEF AfterAnswer
<1>2. /\ f \in Seq(Effects) /\ Len(f) = Len(st.r.results)
  BY <1>0, SettledRows DEF StateSet, SessionRecord, Effects
<1> HIDE DEF f
<1>3. y.r.results = f /\ y.r.ran = st.r.ran BY <1>0 DEF StateSet, SessionRecord, Over, f
<1>4. \A k \in DOMAIN y.r.results : Items(st)[k] = "write" =>
        RowTrue(s, y, c, k) /\ y.r.results[k] # "pending"
  BY TakenRows
<1> HIDE DEF y
<1>5. /\ x \in StateSet /\ Kept(st, x) /\ x.at = "none" /\ x.i = st.i
      /\ x.send = st.send /\ x.r.busy = FALSE /\ x.r.child = "none"
      /\ x.r.transaction = "none" /\ x.r.status = "cancelled"
      /\ x.r.results = f
  BY <1>0, <1>2, ZenonT(40) DEF StateSet, SessionRecord, Kept
<1> HIDE DEF x
<1>6. \A k \in DOMAIN x.r.results : st.r.made /\ ~st.r.released /\ Items(st)[k] = "write" =>
        RowTrue(s, x, c, k) /\ x.r.results[k] # "pending"
  BY <1>3, <1>4, <1>5 DEF RowTrue, Kept
<1>7. ConnectionOK(s, After(c, x)) /\ Pending(After(c, x)) = Pending(c)
  BY <1>0, <1>5, ConnectionSame
<1>8. x.r.results = <<>> <=> st.r.results = <<>>
  <2>1. x.r.results \in Seq(Effects) /\ st.r.results \in Seq(Effects)
    BY <1>0, <1>5 DEF StateSet, SessionRecord
  <2>2. QED BY <1>2, <1>5, <2>1
<1>9. Len(x.r.results) = Len(st.r.results) /\ x.send = <<>>
  BY <1>0, <1>2, <1>5
<1>10. SessionOK(s, x, After(c, x)) BY <1>5, <1>6, <1>7, <1>8, <1>9, ClosedOK
<1>11. QED BY <1>1, <1>5, <1>9, <1>10, EndDone

LEMMA AnswerDone ==
  ASSUME TypeOK, ScriptsOK, NEW s \in Sessions, NEW st, NEW c, Stands(s, st, c),
         st.r.child = "open", st.at \in Waits, c.answer = "ok"
  PROVE  Done(s, st, AfterAnswer(st), c)
<1>1. CASE st.at = "strict" BY <1>1, StrictDone
<1>2. CASE st.at = "begin" BY <1>2, BegunDone
<1>3. CASE st.at = "check" BY <1>3, CheckedDone
<1>4. CASE st.at = "item" BY <1>4, ItemDone
<1>5. CASE st.at = "commit" BY <1>5, CommittedDone
<1>6. CASE st.at = "undo" BY <1>6, UndoneDone
<1>7. CASE st.at = "rollback" BY <1>7, RolledBackDone
<1>8. CASE st.at = "idle" BY <1>8, IdledDone
<1>9. QED BY <1>1, <1>2, <1>3, <1>4, <1>5, <1>6, <1>7, <1>8 DEF Waits

-----------------------------------------------------------------------------
(* Errors.                                                                   *)

LEMMA BehindClean ==
  ASSUME NEW s \in Sessions, NEW st, NEW c, Stands(s, st, c), st.at \in Working,
         NEW k \in Positions, k > st.i
  PROVE  Clean(s, c, <<st.r.ran, k>>)
<1>1. st.i \in Nat /\ k \in Nat /\ AheadOK(s, st, c)
  BY DEF Stands, SessionOK, StateSet, Positions
<1>2. k > Reached(st) BY <1>1 DEF Reached
<1>3. QED BY <1>1, <1>2 DEF AheadOK

\* With the connection went the COMMIT or ROLLBACK the script waited for.
LEMMA LostReady ==
  ASSUME TypeOK, NEW s \in Sessions, NEW st, NEW c, Stands(s, st, c), st.at \in Working
  PROVE  FinishReady(s, Lost(st), c, TRUE)
<1> DEFINE x == Lost(st)
<1>1. /\ x \in StateSet /\ Kept(st, x) /\ x.send = <<>> /\ x.i = st.i /\ x.r.busy = st.r.busy
      /\ Items(x) = Items(st)
      /\ x.r.child # "open" /\ (x.r.child # "none" => st.r.child # "none")
      /\ ~st.r.released => x.r.transaction # "active"
      /\ Len(x.r.results) = Len(st.r.results)
  BY LostShape
<1>2. \A k \in DOMAIN x.r.results : st.r.made /\ ~st.r.released /\ Items(st)[k] = "write" =>
        RowTrue(s, x, c, k) /\ x.r.results[k] # "pending"
  BY LostRows
<1> HIDE DEF x
<1>3. Base(s, st, c) BY WorkingBase
<1>4. Base(s, x, c)
  BY <1>1, <1>3 DEF Base, Kept
<1>5. ASSUME NEW k \in Positions, k > Len(x.r.results), k # FailedAt(x)
      PROVE  Clean(s, c, <<x.r.ran, k>>)
  <2>1. st.i \in Nat /\ k \in Nat /\ Len(x.r.results) = (IF st.i = 0 THEN 0 ELSE st.i - 1)
    BY <1>1, <1>3 DEF Base, StateSet, Positions
  <2>2. k > st.i BY <1>1, <1>5, <2>1 DEF FailedAt
  <2>3. QED BY <1>1, <2>2, BehindClean DEF Kept
<1>6. DOMAIN Items(x) \subseteq Positions BY <1>4, ItemsKnown DEF Base
<1>7. FinishReady(s, x, c, TRUE)
  BY <1>1, <1>2, <1>3, <1>4, <1>5, <1>6 DEF FinishReady, Base, Kept
<1>8. QED BY <1>7 DEF x

\* An error while the script waits for anything else.
LEMMA StandsFailing ==
  ASSUME TypeOK, NEW s \in Sessions, NEW st, NEW c, Stands(s, st, c), st.at \in Working,
         st.at # "rollback", st.at = "commit" => st.r.released
  PROVE  Failing(s, st, c)
<1>1. Base(s, st, c) BY WorkingBase
<1>2. AheadOK(s, st, c) /\ PlaceOK(st) /\ FlagsOK(s, st) /\ OpenOK(st, c) /\ RowsOK(s, st, c)
      /\ ConnectionOK(s, c) /\ c \in Connection /\ st.i \in Nat
  BY DEF Stands, SessionOK, StateSet
<1>3. \A k \in Positions : k > st.i => Clean(s, c, <<st.r.ran, k>>)
  BY BehindClean
<1>4. st.r.made /\ (st.r.child = "open" => ~st.r.released) BY <1>1 DEF Base
<1>5. ASSUME st.r.child = "open", NEW k \in Positions, k = st.i PROVE Own(s, <<st.r.ran, k>>)
  BY <1>2, <1>4, <1>5 DEF AheadOK
<1>6. ASSUME ~st.r.released, "unknown" \notin {st.r.status, st.r.transaction},
             NEW k \in Positions, k = st.i, st.r.transaction # "active",
             k \in DOMAIN Items(st), Items(st)[k] = "write"
      PROVE  Clean(s, c, <<st.r.ran, k>>)
  <2>1. k \in Nat /\ k > 0 /\ k <= Len(Items(st))
    BY <1>1, <1>6, ItemsKnown DEF Base, Positions
  <2>2. Item(st) = "write" BY <1>6 DEF Item
  <2>3. st.at \in {"begin", "check"}
    <3>1. st.at \notin {"audit", "open", "strict"} BY <1>2, <1>6, <2>1 DEF PlaceOK
    <3>2. st.at # "undo" BY <1>2, <1>6, <2>1, <2>2 DEF PlaceOK
    <3>3. st.at = "item" => st.r.child = "open" BY <1>2, <1>6, <2>2 DEF FlagsOK
    <3>4. st.at # "item" BY <1>2, <1>6, <2>2, <3>3 DEF OpenOK, QuietOK
    <3>5. QED BY <1>6, <3>1, <3>2, <3>4 DEF Working, Waits
  <2>4. k > Reached(st) BY <1>6, <2>1, <2>3 DEF Reached
  <2>5. QED BY <1>2, <2>4 DEF AheadOK
<1>7. ASSUME ~st.r.released, NEW k \in DOMAIN st.r.results, Items(st)[k] = "write"
      PROVE  /\ RowTrue(s, st, c, k)
             /\ st.r.child = "open" => Told(st, k)
             /\ st.r.results[k] = "pending" =>
                  /\ st.r.child = "open" /\ st.r.transaction = "active"
                  /\ Own(s, <<st.r.ran, k>>)
  <2>1. RowOK(s, st, c, k) BY <1>2, <1>4, <1>7 DEF RowsOK
  <2>2. st.at \notin Endings \/ st.at = "undo" BY <1>7 DEF Endings, Working
  <2>3. \A w \in c.work : Own(s, w) BY <1>2 DEF ConnectionOK, Pending
  <2>4. QED BY <2>1, <2>2, <2>3 DEF RowOK, RowTrue, PendingOK
<1>8. ASSUME st.r.child = "open", st.r.transaction = "active"
      PROVE  /\ Len(c.queue) <= 1
             /\ Len(c.queue) = 1 => c.queue[1].kind \in (Harmless \ {"begin"}) \cup {"write"}
  <2>1. ActiveOK(st, c) /\ AnswerOK(st, c) BY <1>2, <1>8 DEF OpenOK
  <2>2. Len(c.queue) <= 1 BY <2>1 DEF ActiveOK
  <2>3. ASSUME Len(c.queue) = 1
        PROVE  c.queue[1].kind \in (Harmless \ {"begin"}) \cup {"write"}
    <3>1. c.queue # <<>> BY <2>3
    <3>2. c.answer = "none" /\ st.at \notin {"none", "audit"} BY <2>1, <3>1 DEF AnswerOK, ActiveOK
    <3>3. st.at # "open" BY <1>2, <1>8 DEF FlagsOK
    <3>4. st.at # "commit" BY <1>4, <1>8
    <3>5. st.at \in {"strict", "check", "item", "undo"}
      BY <2>1, <3>2, <3>3, <3>4 DEF ActiveOK, Working, Waits
    <3>6. c.queue[1] = Asked(st) BY <2>1, <2>3, <3>2, <3>5 DEF AnswerOK, Waits
    <3>7. CASE st.at = "item"
      <4>1. Len(Items(st)) \in Nat BY <1>1, ItemsKnown DEF Base
      <4>2. st.i # 0 /\ st.i <= Len(Items(st)) BY <1>2, <3>7, <4>1 DEF PlaceOK
      <4>3. Item(st) \in {"read", "write"} BY <1>2, <3>7, <4>2 DEF PlaceOK
      <4>4. QED BY <3>6, <3>7, <4>3 DEF Asked, Harmless
    <3>8. CASE st.at # "item" BY <3>5, <3>6, <3>8 DEF Asked, Harmless
    <3>9. QED BY <3>7, <3>8
  <2>4. QED BY <2>2, <2>3
<1>9. st.r.child = "open" /\ st.r.transaction # "active" => Quiet(c)
  BY <1>2 DEF OpenOK, QuietOK, Quiet
<1>10. ~st.r.released /\ st.r.child # "open" => st.r.transaction # "active"
  BY <1>2 DEF FlagsOK
<1>11. QED BY <1>1, <1>3, <1>5, <1>6, <1>7, <1>8, <1>9, <1>10 DEF Failing

LEMMA ErrorDone ==
  ASSUME TypeOK, NEW s \in Sessions, NEW st, NEW c, Stands(s, st, c), st.at \in Waits
  PROVE  Done(s, st, AfterError(st), c)
<1>1. Kept(st, Lost(st)) /\ Done(s, st, Given(st), c) BY LostShape, GivenDone
<1>2. CASE st.at = "idle"
  <2>1. AfterError(st) = Given(st) BY <1>2 DEF AfterError, Given
  <2>2. QED BY <1>1, <2>1
<1>3. CASE st.at = "rollback"
  <2>1. FinishReady(s, Lost(st), c, TRUE) BY <1>3, LostReady DEF Working, Waits
  <2>2. AfterError(st) = Finish(Lost(st), TRUE) BY <1>3 DEF AfterError
  <2>3. QED BY <1>1, <2>1, <2>2, FinishDone, DoneKept
<1>4. CASE st.at = "commit" /\ ~st.r.released
  <2>1. FinishReady(s, Lost(st), c, TRUE) BY <1>4, LostReady DEF Working, Waits
  <2>2. "unknown" \in {Lost(st).r.status, Lost(st).r.transaction} BY <1>4, LostShape
  <2>3. AfterError(st) = Finish(Lost(st), TRUE) BY <1>4, <2>2 DEF AfterError, Catch
  <2>4. QED BY <1>1, <2>1, <2>3, FinishDone, DoneKept
<1>5. CASE st.at = "commit" /\ st.r.released
  <2>1. Failing(s, st, c) BY <1>5, StandsFailing DEF Working, Waits
  <2>2. AfterError(st) = Catch(st) BY <1>5 DEF AfterError, Lost
  <2>3. QED BY <2>1, <2>2, CatchDone
<1>6. CASE st.at \notin {"idle", "rollback", "commit"}
  <2>1. Failing(s, st, c) BY <1>6, StandsFailing DEF Working, Waits
  <2>2. AfterError(st) = Catch(st) BY <1>6 DEF AfterError
  <2>3. QED BY <2>1, <2>2, CatchDone
<1>7. QED BY <1>2, <1>3, <1>4, <1>5, <1>6

-----------------------------------------------------------------------------
(* The start of a script, and the idle timer.                                *)

LEMMA AuditDone ==
  ASSUME TypeOK, ScriptsOK, NEW s \in Sessions, NEW st, NEW c, Stands(s, st, c),
         st.at = "audit", st.r.child = "open"
  PROVE  Done(s, st, Connected(st), c)
<1>1. PlaceOK(st) /\ OpenOK(st, c) /\ st.at \in Working
  BY DEF Stands, SessionOK, Working, Waits
<1>2. st.i = 0 BY <1>1 DEF PlaceOK
<1>3. st.r.transaction = "active" => c.queue = <<>> BY <1>1 DEF OpenOK, ActiveOK
<1>4. Standing(s, st, c) BY <1>3, EarlyStands
<1>5. QED BY <1>2, <1>4, ConnectedDone

LEMMA OpenDone ==
  ASSUME TypeOK, NEW s \in Sessions, NEW st, NEW c, Stands(s, st, c),
         st.at = "audit", st.r.child = "none"
  PROVE  Done(s, st, [st EXCEPT !.at = "open"], c)
<1> DEFINE x == [st EXCEPT !.at = "open"]
<1>1. st \in StateSet /\ st.send = <<>> /\ AheadOK(s, st, c) /\ PlaceOK(st) /\ FlagsOK(s, st)
      /\ RowsOK(s, st, c) /\ st.at \in Working
  BY DEF Stands, SessionOK, Working, Waits
<1>2. /\ x \in StateSet /\ x.r = st.r /\ x.i = st.i /\ x.send = <<>> /\ x.at = "open"
  BY <1>1 DEF StateSet
<1> HIDE DEF x
<1>3. Items(x) = Items(st) /\ Mode(x) = Mode(st) /\ Item(x) = Item(st)
  BY <1>2 DEF Items, Mode, Item
<1>4. ConnectionOK(s, After(c, x)) /\ Pending(After(c, x)) = Pending(c)
  BY <1>2, ConnectionSame
<1>5. x.at \in Working BY <1>2 DEF Working
<1>6. \A w : Clean(s, c, w) => Clean(s, After(c, x), w) BY <1>4 DEF Clean
<1>7. AheadOK(s, x, After(c, x))
  <2>1. Reached(x) = Reached(st) BY <1>2 DEF Reached
  <2>2. QED BY <1>1, <1>2, <1>3, <1>6, <2>1 DEF AheadOK
<1>8. st.i = 0 BY <1>1 DEF PlaceOK
<1>9. PlaceOK(x)
  <2>1. st.r.ran # 0 /\ st.r.used /\ Len(st.r.results) = 0 BY <1>1, <1>8 DEF PlaceOK
  <2>2. ~(x.i > Len(Items(x)))
    <3>1. Len(Items(st)) \in Nat BY <1>1, <2>1, ItemsKnown DEF PlaceOK
    <3>2. QED BY <1>2, <1>3, <1>8, <3>1
  <2>3. QED BY <1>1, <1>2, <1>3, <1>8, <2>1, <2>2 DEF PlaceOK
<1>10. FlagsOK(s, x) BY <1>1, <1>2 DEF FlagsOK
<1>11. OpenOK(x, After(c, x)) BY <1>2 DEF OpenOK
<1>12. RowsOK(s, x, After(c, x))
  BY <1>1, <1>2, <1>3, <1>6 DEF RowsOK, RowOK, PendingOK, Told
<1>13. Kept(st, x) BY <1>2 DEF Kept
<1>14. SessionOK(s, x, After(c, x))
  BY <1>4, <1>7, <1>9, <1>10, <1>11, <1>12 DEF SessionOK
<1>15. Done(s, st, x, c) BY <1>2, <1>13, <1>14, EndDone
<1>16. QED BY <1>15 DEF x

\* A new connection of which the database has nothing.
LEMMA OpenedDone ==
  ASSUME TypeOK, ScriptsOK, NEW s \in Sessions, NEW st, NEW c, Stands(s, st, c),
         st.at = "open", ~st.r.released, ~st.r.cancelled
  PROVE  Done(s, st, Connected([st EXCEPT !.r.child = "open"]), Silent)
<1> DEFINE y == [st EXCEPT !.r.child = "open"]
<1>1. st \in StateSet /\ st.send = <<>> /\ AheadOK(s, st, c) /\ PlaceOK(st) /\ FlagsOK(s, st)
      /\ RowsOK(s, st, c) /\ st.at \in Working
  BY DEF Stands, SessionOK, Working, Waits
<1>2. /\ y \in StateSet /\ Kept(st, y) /\ y.at = st.at /\ y.i = st.i /\ y.send = <<>>
      /\ y.r.busy = st.r.busy /\ y.r.child = "open" /\ y.r.status = st.r.status
      /\ y.r.transaction = st.r.transaction /\ y.r.results = st.r.results
  BY <1>1 DEF StateSet, SessionRecord, Kept
<1> HIDE DEF y
<1>3. Items(y) = Items(st) BY <1>2 DEF Items, Kept
<1>4. Base(s, st, c) BY <1>1, WorkingBase
<1>5. st.i = 0 BY <1>1 DEF PlaceOK
<1>6. Silent \in Connection /\ Pending(Silent) = {} /\ Silent.queue = <<>> /\ Quiet(Silent)
  BY DEF Silent, Connection, Pending, Queued, Quiet
<1>7. ConnectionOK(s, Silent) BY <1>6 DEF ConnectionOK
<1>8. st.r.status # "unknown" /\ st.r.transaction # "active"
  BY <1>1 DEF FlagsOK
<1>9. Base(s, y, Silent)
  BY <1>2, <1>3, <1>4, <1>6, <1>7, <1>8 DEF Base, Kept
<1>10. \A k \in Positions : Clean(s, Silent, <<y.r.ran, k>>)
  <2>1. \A k \in Positions : k > st.i BY <1>5 DEF Positions
  <2>2. \A k \in Positions : Clean(s, c, <<st.r.ran, k>>) BY <1>1, <2>1, BehindClean
  <2>3. QED BY <1>2, <1>6, <2>2 DEF Clean, Kept
<1>11. DOMAIN y.r.results = {}
  <2>1. Len(y.r.results) = 0 /\ y.r.results \in Seq(Effects)
    BY <1>2, <1>4, <1>5 DEF Base, StateSet, SessionRecord
  <2>2. QED BY <2>1
<1>12. Standing(s, y, Silent)
  BY <1>2, <1>5, <1>6, <1>8, <1>9, <1>10, <1>11 DEF Standing
<1>13. Done(s, y, Connected(y), Silent) BY <1>2, <1>5, <1>12, ConnectedDone
<1>14. Done(s, st, Connected(y), Silent) BY <1>2, <1>13, DoneKept
<1>15. QED BY <1>14 DEF y

Idling(st) == Await([st EXCEPT !.r.busy = TRUE], "idle")

\* The rollback the idle timer asks for.
LEMMA IdlingDone ==
  ASSUME TypeOK, NEW s \in Sessions, NEW st, NEW c, Stands(s, st, c),
         st.at = "none", st.r.child = "open", st.r.transaction = "active"
  PROVE  Done(s, st, Idling(st), c)
<1> DEFINE y == [st EXCEPT !.r.busy = TRUE]
           x == Await(y, "idle")
           d == After(c, x)
           q == Asked(x)
<1>1. st \in StateSet /\ c \in Connection /\ AheadOK(s, st, c) /\ PlaceOK(st) /\ FlagsOK(s, st)
      /\ RowsOK(s, st, c) /\ OpenOK(st, c) /\ ConnectionOK(s, c)
  BY DEF Stands, SessionOK
<1>2. /\ y \in StateSet /\ Kept(st, y) /\ y.i = st.i /\ y.r.busy = TRUE
      /\ y.r.child = st.r.child /\ y.r.status = st.r.status
      /\ y.r.transaction = st.r.transaction /\ y.r.results = st.r.results
  BY <1>1 DEF StateSet, SessionRecord, Kept
<1> HIDE DEF y
<1>3. /\ x \in StateSet /\ x.r = y.r /\ x.at = "idle" /\ x.i = y.i
      /\ x.send = <<q>> /\ q \in Query
  BY <1>2, AwaitFields DEF Waits
<1>4. q.kind = "idle" BY <1>3 DEF Asked
<1> HIDE DEF x, q
<1>5. Items(x) = Items(st) /\ Mode(x) = Mode(st) /\ Item(x) = Item(st) /\ Kept(st, x)
  BY <1>2, <1>3 DEF Items, Mode, Item, Kept
<1>6. c.queue = <<>> /\ c.tx BY <1>1 DEF OpenOK, ActiveOK, Endings
<1>7. /\ d \in Connection /\ d.answer = "none" /\ d.tx = c.tx /\ d.work = c.work
      /\ Len(d.queue) = 1 /\ d.queue # <<>> /\ d.queue[1] = q
      /\ \A w : w \in Pending(d) <=> w \in Pending(c)
  <2>1. /\ d \in Connection /\ d.answer = "none" /\ d.tx = c.tx /\ d.work = c.work
        /\ Len(d.queue) = Len(c.queue) + 1 /\ d.queue # <<>>
        /\ d.queue[Len(c.queue) + 1] = q
        /\ \A w : w \in Pending(d) <=> w \in Pending(c) \/ (q.kind = "write" /\ w = q.write)
    BY <1>1, <1>3, AfterAsked
  <2>2. Len(c.queue) = 0 BY <1>6
  <2>3. QED BY <1>4, <2>1, <2>2
<1>8. ConnectionOK(s, d) BY <1>1, <1>3, <1>4, ConnectionAsked
<1> HIDE DEF d
<1>9. \A w : Clean(s, c, w) => Clean(s, d, w) BY <1>7 DEF Clean
<1>10. x.at \notin Working BY <1>3 DEF Working, Waits
<1>11. AheadOK(s, x, d) BY <1>1, <1>5, <1>9, <1>10 DEF AheadOK, Kept
<1>12. PlaceOK(x) BY <1>1, <1>2, <1>3, <1>5, <1>10 DEF PlaceOK, Kept
<1>13. FlagsOK(s, x) BY <1>1, <1>2, <1>3, <1>5 DEF FlagsOK, Kept
<1>14. OpenOK(x, d)
  <2>1. ActiveOK(x, d) BY <1>3, <1>7 DEF ActiveOK, Endings
  <2>2. d.queue[Len(d.queue)] = Asked(x) BY <1>7 DEF q
  <2>3. AnswerOK(x, d) BY <1>3, <1>7, <2>2 DEF AnswerOK
  <2>4. QED BY <1>2, <1>3, <2>1, <2>3 DEF OpenOK
<1>15. RowsOK(s, x, d)
  <2> SUFFICES ASSUME x.r.made /\ ~x.r.released, NEW k \in DOMAIN x.r.results, Items(x)[k] = "write"
               PROVE  RowOK(s, x, d, k)
    BY DEF RowsOK
  <2>1. RowOK(s, st, c, k) BY <1>1, <1>2, <1>3, <1>5 DEF RowsOK, Kept
  <2>2. \A w \in c.work : Own(s, w) BY <1>1 DEF ConnectionOK, Pending
  <2>3. st.r.results[k] = "pending" => PendingOK(s, x, d, <<st.r.ran, k>>)
    BY <1>2, <1>3, <2>1, <2>2 DEF RowOK, PendingOK, Endings
  <2>4. Told(st, k) => Told(x, k) BY <1>2, <1>3, <1>5 DEF Told
  <2>5. QED BY <1>2, <1>3, <1>5, <1>9, <1>10, <2>1, <2>3, <2>4 DEF RowOK, Kept
<1>16. \A w \in Pending(d) : w \in Pending(c) BY <1>7
<1>17. Done(s, st, x, c)
  BY <1>3, <1>5, <1>7, <1>8, <1>11, <1>12, <1>13, <1>14, <1>15, <1>16 DEF Done, SessionOK, d
<1>18. QED BY <1>17 DEF Idling, x, y

-----------------------------------------------------------------------------
(* Steps of others.  What stands keeps standing while its plan, its place in *)
(* the tab and what it has in the database are left alone.                   *)

Left(t, x, c) ==
  /\ tab = t <=> tab' = t
  /\ Len(script) <= Len(script')
  /\ \A p \in DOMAIN script : script'[p] = script[p]
  /\ \A w \in Pending(c) : Own(t, w) => Own(t, w)'
  /\ \A p \in Numbers(x.r), k \in Positions : Own(t, <<p, k>>) => Own(t, <<p, k>>)'
  /\ \A p \in Numbers(x.r), k \in Positions :
       committed[<<p, k>>] = 1 => committed'[<<p, k>>] = 1

LEMMA Shift ==
  ASSUME TypeOK, NEW t \in Sessions, NEW x, NEW c, Stands(t, x, c), Left(t, x, c)
  PROVE  SessionOK(t, x, c)'
<1>1. /\ x \in StateSet /\ AheadOK(t, x, c) /\ PlaceOK(x) /\ FlagsOK(t, x)
      /\ ConnectionOK(t, c) /\ OpenOK(x, c) /\ RowsOK(t, x, c)
  BY DEF Stands, SessionOK
<1>2. x.r.ran # 0 => /\ x.r.ran \in Numbers(x.r)
                     /\ Items(x)' = Items(x) /\ Mode(x)' = Mode(x) /\ Item(x)' = Item(x)
  <2>1. ASSUME x.r.ran # 0
        PROVE  script'[x.r.ran] = script[x.r.ran]
    <3>1. x.r.ran \in DOMAIN script BY <1>1, <2>1, ItemsKnown DEF PlaceOK
    <3>2. QED BY <3>1 DEF Left
  <2>2. QED BY <2>1 DEF Items, Mode, Item, Numbers
<1>3. x.r.plan # 0 => x.r.plan \in Numbers(x.r) BY DEF Numbers
<1>4. \A p \in Numbers(x.r), k \in Positions :
        /\ Own(t, <<p, k>>) => Own(t, <<p, k>>)'
        /\ Clean(t, c, <<p, k>>) => Clean(t, c, <<p, k>>)'
        /\ committed[<<p, k>>] = 1 => committed'[<<p, k>>] = 1
  BY DEF Left, Clean
<1>5. x.at \in Working => x.r.ran # 0 BY <1>1 DEF PlaceOK
<1>6. AheadOK(t, x, c)'
  <2>1. x.r.ran # 0 => Reached(x)' = Reached(x) BY <1>2 DEF Reached
  <2>2. QED BY <1>1, <1>2, <1>3, <1>4, <1>5, <2>1 DEF AheadOK
<1>7. PlaceOK(x)'
  <2>1. x.r.ran \in Nat /\ Len(script) <= Len(script') BY <1>1 DEF Left, StateSet, SessionRecord
  <2>2. Len(script) \in Nat /\ (x.r.ran # 0 => x.r.ran <= Len(script))
    BY <1>1 DEF TypeOK, PlaceOK
  <2>3. x.r.ran # 0 => x.r.ran <= Len(script')
    BY <1>1, <2>1, <2>2, ItemsKnown
  <2>4. QED BY <1>1, <1>2, <1>5, <2>3 DEF PlaceOK
<1>8. FlagsOK(t, x)'
  <2>1. x.at = "item" => x.at \in Working BY DEF Working, Waits
  <2>2. QED BY <1>1, <1>2, <1>5, <2>1 DEF FlagsOK, Left
<1>9. ConnectionOK(t, c)'
  BY <1>1 DEF ConnectionOK, Left
<1>10. OpenOK(x, c)'
  <2>1. x.at \in {"check", "item", "commit"} => x.at \in Working BY DEF Working, Waits
  <2>2. Asked(x)' = Asked(x) BY <1>2, <1>5, <2>1 DEF Asked
  <2>3. ActiveOK(x, c)' <=> ActiveOK(x, c) BY DEF ActiveOK
  <2>4. QuietOK(x, c) => QuietOK(x, c)' BY <1>2, <1>5, <2>1 DEF QuietOK
  <2>5. ASSUME AnswerOK(x, c) PROVE AnswerOK(x, c)'
    <3>1. ASSUME x.at = "commit", x.i <= Len(Items(x))
          PROVE  /\ committed[<<x.r.ran, x.i>>] = 1 => committed'[<<x.r.ran, x.i>>] = 1
                 /\ Item(x)' = Item(x) /\ Items(x)' = Items(x)
      <4>1. x.r.ran # 0 /\ x.i # 0 /\ x.r.ran <= Len(script) BY <1>1, <1>5, <2>1, <3>1 DEF PlaceOK
      <4>2. x.i \in Positions
        <5>1. Len(Items(x)) \in Nat /\ Len(Items(x)) <= MaxItems BY <1>1, <4>1, ItemsKnown
        <5>2. x.i \in Nat BY <1>1 DEF StateSet
        <5>3. QED BY <3>1, <4>1, <5>1, <5>2, BoundsAssumption DEF Positions
      <4>3. QED BY <1>2, <1>4, <4>1, <4>2
    <3>2. x.at = "commit" => Items(x)' = Items(x) BY <1>2, <1>5, <2>1
    <3>3. x.at = "item" => Item(x)' = Item(x) BY <1>2, <1>5, <2>1
    <3>4. QED BY <2>2, <2>5, <3>1, <3>2, <3>3 DEF AnswerOK
  <2>6. QED BY <1>1, <2>3, <2>4, <2>5 DEF OpenOK
<1>11. RowsOK(t, x, c)'
  <2>1. ASSUME x.r.made, ~x.r.released, NEW k \in DOMAIN x.r.results, Items(x)[k] = "write"
        PROVE  RowOK(t, x, c, k)'
    <3>1. x.r.ran # 0 /\ k \in Positions
      <4>1. x.r.ran # 0 /\ Len(x.r.results) <= Len(Items(x)) /\ x.r.ran <= Len(script)
        BY <1>1, <2>1 DEF PlaceOK
      <4>2. Len(Items(x)) \in Nat /\ Len(Items(x)) <= MaxItems BY <1>1, <4>1, ItemsKnown
      <4>3. k \in 1..Len(x.r.results) /\ Len(x.r.results) \in Nat
        BY <1>1, <2>1 DEF StateSet, SessionRecord
      <4>4. QED BY <4>1, <4>2, <4>3, BoundsAssumption DEF Positions
    <3>2. RowOK(t, x, c, k) BY <1>1, <2>1 DEF RowsOK
    <3>3. /\ Own(t, <<x.r.ran, k>>) => Own(t, <<x.r.ran, k>>)'
          /\ Clean(t, c, <<x.r.ran, k>>) => Clean(t, c, <<x.r.ran, k>>)'
          /\ committed[<<x.r.ran, k>>] = 1 => committed'[<<x.r.ran, k>>] = 1
      BY <1>2, <1>4, <3>1
    <3>4. PendingOK(t, x, c, <<x.r.ran, k>>) => PendingOK(t, x, c, <<x.r.ran, k>>)'
      BY <3>3 DEF PendingOK
    <3>5. Told(x, k) => Told(x, k)' BY <1>2, <3>1 DEF Told, TakenBack
    <3>6. QED BY <3>2, <3>3, <3>4, <3>5 DEF RowOK
  <2>2. x.r.ran = 0 => DOMAIN x.r.results = {} BY <1>1 DEF PlaceOK
  <2>3. QED BY <1>2, <2>1, <2>2 DEF RowsOK
<1>12. QED BY <1>6, <1>7, <1>8, <1>9, <1>10, <1>11 DEF SessionOK

LEMMA StateStands ==
  ASSUME IInv, NEW s \in Sessions
  PROVE  /\ Stands(s, State(s), server[s])
         /\ State(s).r = session[s] /\ State(s).at = run[s].at /\ State(s).i = run[s].i
         /\ session[s] \in SessionRecord /\ server[s] \in Connection
<1>1. session[s] \in SessionRecord /\ server[s] \in Connection
      /\ run[s] \in [at : Waits \cup {"none", "audit", "open"}, i : Nat]
  BY DEF IInv, TypeOK
<1>2. /\ State(s).r = session[s] /\ State(s).at = run[s].at /\ State(s).i = run[s].i
      /\ State(s).send = <<>>
  BY DEF State
<1>3. State(s) \in StateSet BY <1>1 DEF State, StateSet
<1>4. QED BY <1>1, <1>2, <1>3 DEF IInv, Stands

LEMMA NumbersPlans ==
  ASSUME NEW r \in SessionRecord
  PROVE  Numbers(r) \subseteq Plans
BY BoundsAssumption DEF SessionRecord, Numbers, Plans

\* What one session may do to what the others have in the database.
Apart(s) ==
  /\ \A u \in Sessions \ {s} :
       session'[u] = session[u] /\ run'[u] = run[u] /\ server'[u] = server[u]
  /\ \A w \in Pending(server[s])' :
       \/ w \in Pending(server[s])
       \/ \E k \in Positions : session[s].ran # 0 /\ w = <<session[s].ran, k>> /\ Own(s, w)
  /\ \A w \in Plans \X Positions :
       committed'[w] = committed[w] \/ (w \in Pending(server[s]) /\ committed'[w] = 1)
  /\ Len(script) <= Len(script')
  /\ \A p \in DOMAIN script : script'[p] = script[p]
  /\ \A u \in Sessions \ {s} : tab = u <=> tab' = u

LEMMA OthersStay ==
  ASSUME IInv, NEW s \in Sessions, Apart(s), NEW t \in Sessions, t # s
  PROVE  SessionOK(t, State(t), server[t])'
<1>1. PICK x : x = State(t) OBVIOUS
<1>2. PICK c : c = server[t] OBVIOUS
<1>3. Stands(t, x, c) /\ x.r = session[t] /\ x.r \in SessionRecord
  BY <1>1, <1>2, StateStands
<1>4. State(t)' = x /\ server'[t] = c
  BY <1>1, <1>2 DEF Apart, State
<1>5. ASSUME NEW w \in Plans \X Positions, Own(t, w),
             w \in Pending(c) \/ \E p \in Numbers(x.r), k \in Positions : w = <<p, k>>
      PROVE  Own(t, w)'
  <2>1. committed'[w] = 0
    <3>1. w \notin Pending(server[s]) BY <1>5 DEF Own
    <3>2. QED BY <1>5, <3>1 DEF Own, Apart
  <2>2. ASSUME NEW u \in Sessions \ {t} PROVE w \notin Pending(server[u])'
    <3>1. w \notin Pending(server[u]) BY <1>5 DEF Own
    <3>2. CASE u # s
      <4>1. server'[u] = server[u] BY <3>2 DEF Apart
      <4>2. Pending(server[u])' = Pending(server[u]) BY <4>1 DEF Pending, Queued
      <4>3. QED BY <3>1, <4>2
    <3>3. CASE u = s
      <4>1. SUFFICES ASSUME NEW k \in Positions, session[s].ran # 0, w = <<session[s].ran, k>>,
                            Own(s, w)
                     PROVE  FALSE
        BY <3>1, <3>3 DEF Apart
      <4>2. w \notin Pending(c) BY <1>2, <4>1 DEF Own
      <4>3. PICK p \in Numbers(x.r) : p = session[s].ran BY <1>5, <4>1, <4>2
      <4>4. session[s].ran \in Numbers(session[s]) BY <4>1 DEF Numbers
      <4>5. QED BY <1>3, <4>3, <4>4 DEF IInv, PlansApart
    <3>4. QED BY <3>2, <3>3
  <2>3. QED BY <2>1, <2>2 DEF Own
<1>6. \A w \in Pending(c) : w \in Plans \X Positions
  BY <1>3 DEF Stands, SessionOK, ConnectionOK
<1>7. \A p \in Numbers(x.r), k \in Positions : <<p, k>> \in Plans \X Positions
  BY <1>3, NumbersPlans
<1>8. \A p \in Numbers(x.r), k \in Positions :
        committed[<<p, k>>] = 1 => committed'[<<p, k>>] = 1
  BY <1>7 DEF Apart
<1>9. Left(t, x, c)
  <2>1. \A w \in Pending(c) : Own(t, w) => Own(t, w)' BY <1>5, <1>6
  <2>2. \A p \in Numbers(x.r), k \in Positions : Own(t, <<p, k>>) => Own(t, <<p, k>>)'
    BY <1>5, <1>7
  <2>3. QED BY <1>8, <2>1, <2>2 DEF Left, Apart
<1>10. SessionOK(t, x, c)' BY <1>3, <1>9, Shift DEF IInv
<1>11. QED BY <1>4, <1>10

\* The plans of the sessions after a step of one of them.
LEMMA PlansStay ==
  ASSUME IInv, NEW s \in Sessions, Apart(s), Len(script') \in Nat,
         session'[s].plan <= Len(script'),
         \A p \in Numbers(session'[s]) : p \in Numbers(session[s]) \/ p > Len(script)
  PROVE  PlansApart'
<1>1. \A t \in Sessions : /\ \A p \in Numbers(session[t]) : p \in Nat /\ p <= Len(script)
                          /\ session[t].plan \in Nat /\ Len(script) \in Nat
  <2>1. TAKE t \in Sessions
  <2>2. PICK x : x = State(t) OBVIOUS
  <2>3. x.r = session[t] /\ session[t] \in SessionRecord /\ PlaceOK(x)
    BY <2>2, StateStands DEF Stands, SessionOK
  <2>4. session[t].plan <= Len(script) /\ Len(script) \in Nat
    BY DEF IInv, PlansApart, TypeOK
  <2>5. session[t].ran # 0 => session[t].ran <= Len(script) BY <2>3 DEF PlaceOK
  <2>6. QED BY <2>3, <2>4, <2>5 DEF Numbers, SessionRecord
<1>2. ASSUME NEW t \in Sessions PROVE session'[t].plan <= Len(script')
  <2>1. CASE t = s BY <2>1
  <2>2. CASE t # s
    <3>1. session'[t].plan <= Len(script) BY <2>2 DEF IInv, PlansApart, Apart
    <3>2. session'[t].plan \in Nat /\ Len(script) \in Nat BY <1>1, <2>2 DEF Apart
    <3>3. QED BY <3>1, <3>2 DEF Apart
  <2>3. QED BY <2>1, <2>2
<1>3. \A t \in Sessions : t # s => Numbers(session'[t]) = Numbers(session[t]) BY DEF Apart
<1>4. ASSUME NEW t \in Sessions, t # s
      PROVE  Numbers(session'[s]) \cap Numbers(session'[t]) = {}
  <2>1. \A p \in Numbers(session[t]) : p \notin Numbers(session[s]) /\ ~(p > Len(script))
    BY <1>1, <1>4 DEF IInv, PlansApart
  <2>2. QED BY <1>3, <1>4, <2>1
<1>5. ASSUME NEW t \in Sessions, NEW u \in Sessions, t # u
      PROVE  Numbers(session'[t]) \cap Numbers(session'[u]) = {}
  <2>1. CASE t # s /\ u # s BY <1>3, <1>5, <2>1 DEF IInv, PlansApart
  <2>2. CASE t = s \/ u = s BY <1>4, <1>5, <2>2
  <2>3. QED BY <2>1, <2>2
<1>6. ASSUME NEW p \in Plans, p > Len(script'), NEW k \in Positions
      PROVE  committed'[<<p, k>>] = 0 /\ \A t \in Sessions : <<p, k>> \notin Pending(server[t])'
  <2>1. p > Len(script) BY <1>1, <1>6 DEF Apart, Plans
  <2>2. committed[<<p, k>>] = 0 /\ \A t \in Sessions : <<p, k>> \notin Pending(server[t])
    BY <2>1 DEF IInv, PlansApart
  <2>3. committed'[<<p, k>>] = 0 BY <2>2 DEF Apart
  <2>4. ASSUME NEW t \in Sessions PROVE <<p, k>> \notin Pending(server[t])'
    <3>1. CASE t # s
      <4>1. server'[t] = server[t] BY <3>1 DEF Apart
      <4>2. Pending(server[t])' = Pending(server[t]) BY <4>1 DEF Pending, Queued
      <4>3. QED BY <2>2, <4>2
    <3>2. CASE t = s
      <4>1. session[s].ran # 0 => session[s].ran \in Numbers(session[s]) BY DEF Numbers
      <4>2. session[s].ran # 0 => p # session[s].ran BY <1>1, <2>1, <4>1
      <4>3. QED BY <2>2, <3>2, <4>2 DEF Apart
    <3>3. QED BY <3>1, <3>2
  <2>5. QED BY <2>3, <2>4
<1>7. QED BY <1>2, <1>5, <1>6 DEF PlansApart

LEMMA OnceStays ==
  ASSUME IInv, NEW s \in Sessions, Apart(s), TypeOK'
  PROVE  AppliedOnce'
<1>1. DOMAIN committed' = Plans \X Positions /\ DOMAIN committed = Plans \X Positions
  BY DEF IInv, TypeOK
<1>2. ASSUME NEW w \in DOMAIN committed' PROVE committed'[w] <= 1
  <2>1. committed[w] <= 1 BY <1>1 DEF IInv, AppliedOnce
  <2>2. committed'[w] = committed[w] \/ committed'[w] = 1 BY <1>1 DEF Apart
  <2>3. QED BY <2>1, <2>2
<1>3. QED BY <1>2 DEF AppliedOnce

\* A step of one session, put together.
LEMMA OneStep ==
  ASSUME IInv, NEW s \in Sessions, Apart(s), TypeOK', ScriptsOK', CuttingOK',
         session'[s].plan <= Len(script'),
         \A p \in Numbers(session'[s]) : p \in Numbers(session[s]) \/ p > Len(script),
         SessionOK(s, State(s), server[s])'
  PROVE  IInv'
<1>1. Len(script') \in Nat BY DEF TypeOK
<1>2. PlansApart' BY <1>1, PlansStay
<1>3. AppliedOnce' BY OnceStays
<1>4. \A t \in Sessions : SessionOK(t, State(t), server[t])' BY OthersStay
<1>5. QED BY <1>2, <1>3, <1>4 DEF IInv

\* What was asked is no part of where a session stands.
LEMMA SendAside ==
  ASSUME NEW s, NEW x \in StateSet, NEW c, SessionOK(s, x, c),
         NEW y, y = [r |-> x.r, at |-> x.at, i |-> x.i, send |-> <<>>]
  PROVE  y \in StateSet /\ y.r = x.r /\ y.at = x.at /\ y.i = x.i /\ y.send = <<>> /\ SessionOK(s, y, c)
<1>1. y \in StateSet /\ y.r = x.r /\ y.at = x.at /\ y.i = x.i /\ y.send = <<>>
  BY DEF StateSet
<1>2. Items(y) = Items(x) /\ Mode(y) = Mode(x) /\ Item(y) = Item(x)
  BY <1>1 DEF Items, Mode, Item
<1>3. Reached(y) = Reached(x) BY <1>1, <1>2 DEF Reached
<1>4. Asked(y) = Asked(x) BY <1>1, <1>2 DEF Asked
<1>5. AheadOK(s, y, c) BY <1>1, <1>2, <1>3 DEF SessionOK, AheadOK
<1>6. PlaceOK(y) BY <1>1, <1>2 DEF SessionOK, PlaceOK
<1>7. FlagsOK(s, y) BY <1>1, <1>2 DEF SessionOK, FlagsOK
<1>8. OpenOK(y, c)
  BY <1>1, <1>2, <1>4 DEF SessionOK, OpenOK, ActiveOK, QuietOK, AnswerOK
<1>9. RowsOK(s, y, c)
  <2>1. \A k : Told(x, k) <=> Told(y, k) BY <1>1, <1>2 DEF Told
  <2>2. \A w : PendingOK(s, x, c, w) <=> PendingOK(s, y, c, w) BY <1>1 DEF PendingOK
  <2>3. \A k : RowOK(s, x, c, k) <=> RowOK(s, y, c, k) BY <1>1, <2>1, <2>2 DEF RowOK
  <2>4. QED BY <1>1, <1>2, <2>3 DEF SessionOK, RowsOK
<1>10. QED BY <1>1, <1>5, <1>6, <1>7, <1>8, <1>9 DEF SessionOK

\* The end of a stretch is a step that keeps the invariant.
LEMMA BecomeStep ==
  ASSUME IInv, NEW s \in Sessions, NEW st, st = State(s), NEW x, NEW d,
         d = server[s] \/ d = Silent,
         Done(s, st, x, d), BecomeOn(s, x, d), Handled,
         edit = "cutting" => /\ x.at \in {"none", "idle"}
                             /\ Live(s) => ~x.r.busy /\ x.r.transaction = "none"
  PROVE  IInv'
<1> DEFINE c == After(d, x)
           y == [r |-> x.r, at |-> x.at, i |-> x.i, send |-> <<>>]
<1>1. /\ x \in StateSet /\ Kept(st, x) /\ c \in Connection /\ SessionOK(s, x, c)
      /\ \A w \in Pending(c) :
           \/ w \in Pending(d)
           \/ /\ st.r.ran # 0 /\ x.i \in Positions /\ w = <<st.r.ran, x.i>>
              /\ Own(s, w)
  BY DEF Done
<1>2. st.r = session[s] /\ session[s] \in SessionRecord BY StateStands
<1>3. /\ session \in [Sessions -> SessionRecord] /\ server \in [Sessions -> Connection]
      /\ run \in [Sessions -> [at : Waits \cup {"none", "audit", "open"}, i : Nat]]
  BY DEF IInv, TypeOK
<1>4. x.r \in SessionRecord
      /\ [at |-> x.at, i |-> x.i] \in [at : Waits \cup {"none", "audit", "open"}, i : Nat]
  BY <1>1 DEF StateSet
<1>5. /\ session' = [session EXCEPT ![s] = x.r]
      /\ run' = [run EXCEPT ![s] = [at |-> x.at, i |-> x.i]]
      /\ server' = [server EXCEPT ![s] = c]
  BY DEF BecomeOn, After
<1> HIDE DEF c
<1>6. /\ session' \in [Sessions -> SessionRecord] /\ session'[s] = x.r
      /\ run' \in [Sessions -> [at : Waits \cup {"none", "audit", "open"}, i : Nat]]
      /\ run'[s] = [at |-> x.at, i |-> x.i]
      /\ server' \in [Sessions -> Connection] /\ server'[s] = c
      /\ \A t \in Sessions \ {s} :
           session'[t] = session[t] /\ run'[t] = run[t] /\ server'[t] = server[t]
  BY <1>1, <1>3, <1>4, <1>5
<1>7. UNCHANGED <<tab, script, committed, desk, edit, disconnect, losses>> BY DEF Handled
<1>8. TypeOK' BY <1>6, <1>7 DEF IInv, TypeOK
<1>9. Pending(server[s])' = Pending(c)
  <2>1. Pending(server[s])' = server'[s].work \cup Queued(server'[s]) BY DEF Pending, Queued
  <2>2. QED BY <1>6, <2>1 DEF Pending
<1>10. \A w \in Pending(d) : w \in Pending(server[s])
  <2>1. Pending(Silent) = {} BY DEF Silent, Pending, Queued
  <2>2. QED BY <2>1
<1>11. Apart(s)
  <2>1. ASSUME NEW w \in Pending(server[s])'
        PROVE  \/ w \in Pending(server[s])
               \/ \E k \in Positions : session[s].ran # 0 /\ w = <<session[s].ran, k>> /\ Own(s, w)
    BY <1>1, <1>2, <1>9, <1>10, <2>1
  <2>2. Len(script) <= Len(script')
    <3>1. Len(script) \in Nat BY DEF IInv, TypeOK
    <3>2. QED BY <1>7, <3>1
  <2>3. QED BY <1>6, <1>7, <2>1, <2>2 DEF Apart
<1>12. Numbers(session'[s]) = Numbers(session[s]) /\ session'[s].plan = session[s].plan
  BY <1>1, <1>2, <1>6 DEF Kept, Numbers
<1>13. session'[s].plan <= Len(script') BY <1>7, <1>12 DEF IInv, PlansApart
<1>14. ScriptsOK' BY <1>7 DEF IInv, ScriptsOK
<1>15. CuttingOK'
  <2> SUFFICES ASSUME edit = "cutting" PROVE CuttingOK'
    BY <1>7 DEF CuttingOK
  <2>1. desk' = "idle" BY <1>7 DEF IInv, CuttingOK
  <2>2. ASSUME NEW t \in Sessions
        PROVE  /\ ~Running(t)'
               /\ Live(t)' => ~session'[t].busy /\ session'[t].transaction = "none"
    <3>1. CASE t = s
      <4>1. Live(s)' <=> Live(s) BY <1>1, <1>2, <1>6 DEF Live, Kept
      <4>2. run'[s].at \in {"none", "idle"} BY <1>6
      <4>3. QED BY <1>6, <3>1, <4>1, <4>2 DEF Running
    <3>2. CASE t # s
      <4>1. session'[t] = session[t] /\ run'[t] = run[t] BY <1>6, <3>2
      <4>2. QED BY <4>1 DEF IInv, CuttingOK, Running, Live
    <3>3. QED BY <3>1, <3>2
  <2>3. QED BY <2>1, <2>2 DEF CuttingOK
<1>16. SessionOK(s, State(s), server[s])'
  <2>1. PICK z : z = y OBVIOUS
  <2>2. z \in StateSet /\ z.r = x.r /\ z.send = <<>> /\ SessionOK(s, z, c)
    BY <1>1, <2>1, SendAside
  <2>3. Stands(s, z, c) BY <1>1, <2>2 DEF Stands
  <2>4. \A w : Own(s, w) => Own(s, w)'
    <3>1. TAKE w
    <3>2. HAVE Own(s, w)
    <3>3. committed'[w] = 0 BY <1>7, <3>2 DEF Own
    <3>4. ASSUME NEW t \in Sessions \ {s} PROVE w \notin Pending(server[t])'
      <4>1. server'[t] = server[t] BY <1>6
      <4>2. Pending(server[t])' = Pending(server[t]) BY <4>1 DEF Pending, Queued
      <4>3. QED BY <3>2, <4>2 DEF Own
    <3>5. QED BY <3>3, <3>4 DEF Own
  <2>5. Left(s, z, c)
    BY <1>7, <1>11, <2>4 DEF Left, Apart
  <2>6. SessionOK(s, z, c)' BY <2>3, <2>5, Shift DEF IInv
  <2>7. State(s)' = y BY <1>6 DEF State
  <2>8. State(s)' = z /\ server'[s] = c BY <1>6, <2>1, <2>7
  <2>9. PICK e : e = c OBVIOUS
  <2>10. SessionOK(s, z, e)' BY <2>6, <2>9
  <2>11. QED BY <2>8, <2>9, <2>10
<1>17. QED BY <1>8, <1>11, <1>12, <1>13, <1>14, <1>15, <1>16, OneStep

LEMMA CuttingSession ==
  ASSUME IInv, NEW s \in Sessions, edit = "cutting"
  PROVE  /\ run[s].at \in {"none", "idle"}
         /\ Live(s) => ~session[s].busy /\ session[s].transaction = "none" /\ run[s].at = "none"
         /\ run[s].at = "idle" => session[s].child = "none"
<1>1. ~Running(s) /\ (Live(s) => ~session[s].busy /\ session[s].transaction = "none")
  BY DEF IInv, CuttingOK
<1>2. PICK x : x = State(s) OBVIOUS
<1>3. x.r = session[s] /\ x.at = run[s].at /\ FlagsOK(s, x)
  BY <1>2, StateStands DEF Stands, SessionOK
<1>4. Live(s) => run[s].at = "none" BY <1>1, <1>3 DEF FlagsOK
<1>5. run[s].at = "idle" => ~Live(s) BY <1>4
<1>6. ~Live(s) => session[s].child = "none" BY <1>3 DEF FlagsOK, Live
<1>7. QED BY <1>1, <1>4, <1>5, <1>6 DEF Running

LEMMA AuditedStep ==
  ASSUME IInv, NEW s \in Sessions, Audited(s)
  PROVE  IInv'
<1>1. PICK st : st = State(s) OBVIOUS
<1>2. PICK d : d = server[s] OBVIOUS
<1>3. Stands(s, st, d) /\ st.r = session[s] /\ st.at = run[s].at /\ st \in StateSet
  BY <1>1, <1>2, StateStands DEF Stands
<1>4. st.at = "audit" /\ Handled BY <1>3 DEF Audited
<1>5. edit # "cutting" BY <1>3, <1>4, CuttingSession
<1>6. TypeOK /\ ScriptsOK BY DEF IInv
<1>7. CASE Become(s, Catch(State(s)))
  <2>1. PICK x : x = Catch(st) OBVIOUS
  <2>2. BecomeOn(s, x, d) BY <1>1, <1>2, <1>7, <2>1 DEF Become
  <2>3. Failing(s, st, d) BY <1>3, <1>4, <1>6, StandsFailing DEF Working
  <2>4. Done(s, st, x, d) BY <1>6, <2>1, <2>3, CatchDone
  <2>5. QED BY <1>1, <1>2, <1>4, <1>5, <2>2, <2>4, BecomeStep
<1>8. CASE /\ ~st.r.released /\ ~st.r.stale /\ st.r.child # "closed"
           /\ Become(s, IF st.r.child = "none" THEN [st EXCEPT !.at = "open"] ELSE Connected(st))
  <2>1. PICK x : x = IF st.r.child = "none" THEN [st EXCEPT !.at = "open"] ELSE Connected(st)
    OBVIOUS
  <2>2. BecomeOn(s, x, d) BY <1>1, <1>2, <1>8, <2>1 DEF Become
  <2>3. Done(s, st, x, d)
    <3>1. CASE st.r.child = "none" BY <1>3, <1>4, <1>6, <2>1, <3>1, OpenDone
    <3>2. CASE st.r.child = "open" BY <1>3, <1>4, <1>6, <2>1, <3>2, AuditDone
    <3>3. st.r.child \in {"none", "open", "closed"} BY <1>3 DEF StateSet, SessionRecord
    <3>4. QED BY <1>8, <3>1, <3>2, <3>3
  <2>4. QED BY <1>1, <1>2, <1>4, <1>5, <2>2, <2>3, BecomeStep
<1>9. QED BY <1>1, <1>7, <1>8 DEF Audited

LEMMA OpenedStep ==
  ASSUME IInv, NEW s \in Sessions, Opened(s)
  PROVE  IInv'
<1>1. PICK st : st = State(s) OBVIOUS
<1>2. PICK d : d = server[s] OBVIOUS
<1>3. Stands(s, st, d) /\ st.r = session[s] /\ st.at = run[s].at
  BY <1>1, <1>2, StateStands
<1>4. st.at = "open" /\ Handled BY <1>3 DEF Opened
<1>5. edit # "cutting" BY <1>3, <1>4, CuttingSession
<1>6. TypeOK /\ ScriptsOK BY DEF IInv
<1>7. CASE Become(s, Catch(State(s)))
  <2>1. PICK x : x = Catch(st) OBVIOUS
  <2>2. BecomeOn(s, x, d) BY <1>1, <1>2, <1>7, <2>1 DEF Become
  <2>3. Failing(s, st, d) BY <1>3, <1>4, <1>6, StandsFailing DEF Working
  <2>4. Done(s, st, x, d) BY <1>6, <2>1, <2>3, CatchDone
  <2>5. QED BY <1>1, <1>2, <1>4, <1>5, <2>2, <2>4, BecomeStep
<1>8. CASE /\ ~st.r.released /\ ~st.r.cancelled /\ ~st.r.stale
           /\ BecomeOn(s, Connected([st EXCEPT !.r.child = "open"]), Silent)
  <2>1. PICK x : x = Connected([st EXCEPT !.r.child = "open"]) OBVIOUS
  <2>2. BecomeOn(s, x, Silent) BY <1>8, <2>1
  <2>3. Done(s, st, x, Silent) BY <1>3, <1>4, <1>6, <1>8, <2>1, OpenedDone
  <2>4. QED BY <1>1, <1>4, <1>5, <2>2, <2>3, BecomeStep
<1>9. QED BY <1>1, <1>7, <1>8 DEF Opened

\* Any end of the wait for the database.
LEMMA WaitStep ==
  ASSUME IInv, NEW s \in Sessions, Answered(s) \/ TimedOut(s) \/ Rejected(s)
  PROVE  IInv'
<1>1. PICK st : st = State(s) OBVIOUS
<1>2. PICK d : d = server[s] OBVIOUS
<1>3. Stands(s, st, d) /\ st.r = session[s] /\ st.at = run[s].at
  BY <1>1, <1>2, StateStands
<1>4. st.at \in Waits /\ Handled BY <1>3 DEF Answered, TimedOut, Rejected
<1>5. TypeOK /\ ScriptsOK BY DEF IInv
<1>6. CASE Become(s, AfterError(State(s)))
  <2>1. PICK x : x = AfterError(st) OBVIOUS
  <2>2. BecomeOn(s, x, d) BY <1>1, <1>2, <1>6, <2>1 DEF Become
  <2>3. Done(s, st, x, d) BY <1>3, <1>4, <1>5, <2>1, ErrorDone
  <2>4. ASSUME edit = "cutting" PROVE x.at = "none" /\ ~Live(s)
    <3>1. st.at = "idle" /\ ~Live(s) BY <1>3, <1>4, <2>4, CuttingSession DEF Waits
    <3>2. x = Given(st) BY <2>1, <3>1 DEF AfterError, Given
    <3>3. Lost(st) \in StateSet BY <1>3, LostShape
    <3>4. QED BY <3>1, <3>2, <3>3, GivenFields DEF Given
  <2>5. QED BY <1>1, <1>2, <1>4, <2>2, <2>3, <2>4, BecomeStep
<1>7. CASE /\ session[s].child = "open" /\ server[s].answer = "ok"
           /\ Become(s, AfterAnswer(State(s)))
  <2>1. PICK x : x = AfterAnswer(st) OBVIOUS
  <2>2. BecomeOn(s, x, d) BY <1>1, <1>2, <1>7, <2>1 DEF Become
  <2>3. Done(s, st, x, d) BY <1>2, <1>3, <1>4, <1>5, <1>7, <2>1, AnswerDone
  <2>4. edit # "cutting" BY <1>3, <1>4, <1>7, CuttingSession DEF Waits
  <2>5. QED BY <1>1, <1>2, <1>4, <2>2, <2>3, <2>4, BecomeStep
<1>8. QED BY <1>6, <1>7 DEF Answered, TimedOut, Rejected

LEMMA IdlesStep ==
  ASSUME IInv, NEW s \in Sessions, Idles(s)
  PROVE  IInv'
<1>1. PICK st : st = State(s) OBVIOUS
<1>2. PICK d : d = server[s] OBVIOUS
<1>3. Stands(s, st, d) /\ st.r = session[s] /\ st.at = run[s].at /\ st \in StateSet
      /\ FlagsOK(s, st)
  BY <1>1, <1>2, StateStands DEF Stands, SessionOK
<1>4. Live(s) /\ ~st.r.busy /\ st.r.child # "none" /\ Handled BY <1>3 DEF Idles
<1>5. TypeOK /\ ScriptsOK BY DEF IInv
<1>6. st.at = "none" /\ ~st.r.released BY <1>3, <1>4 DEF FlagsOK, Live
<1>7. edit = "cutting" => st.r.transaction = "none" BY <1>3, <1>4, CuttingSession
<1>8. CASE st.r.child = "closed"
  <2>1. PICK x : x = Dropping(st) OBVIOUS
  <2>2. BecomeOn(s, x, d)
    BY <1>1, <1>2, <1>3, <1>8, <2>1 DEF Idles, Become, Dropping
  <2>3. Done(s, st, x, d) BY <1>3, <1>5, <1>6, <2>1, DroppingDone
  <2>4. x.at = "none" /\ ~x.r.busy /\ (st.r.transaction = "none" => x.r.transaction = "none")
    <3>1. /\ Lost(st) \in StateSet /\ Lost(st).at = st.at /\ Lost(st).r.busy = st.r.busy
      BY <1>3, LostShape
    <3>2. st.r.transaction = "none" => Lost(st).r.transaction = "none"
      BY <1>3, <1>6, LostFields DEF Uncertain
    <3>3. QED BY <1>4, <1>6, <2>1, <3>1, <3>2, DroppingFields DEF Dropping
  <2>5. QED BY <1>1, <1>2, <1>4, <1>7, <2>2, <2>3, <2>4, BecomeStep
<1>9. CASE st.r.child # "closed" /\ st.r.transaction = "active"
  <2>1. PICK x : x = Idling(st) OBVIOUS
  <2>2. BecomeOn(s, x, d)
    BY <1>1, <1>2, <1>3, <1>9, <2>1 DEF Idles, Become, Idling
  <2>3. st.r.child = "open" BY <1>3, <1>4, <1>9 DEF StateSet, SessionRecord
  <2>4. Done(s, st, x, d) BY <1>3, <1>5, <1>6, <1>9, <2>1, <2>3, IdlingDone
  <2>5. edit # "cutting" BY <1>7, <1>9
  <2>6. QED BY <1>1, <1>2, <1>4, <2>2, <2>4, <2>5, BecomeStep
<1>10. CASE st.r.child # "closed" /\ st.r.transaction # "active"
  <2>1. PICK x : x = [st EXCEPT !.r.status = "cancelled", !.r.child = "none"] OBVIOUS
  <2>2. BecomeOn(s, x, d)
    BY <1>1, <1>2, <1>3, <1>10, <2>1 DEF Idles, Become
  <2>3. Done(s, st, x, d) BY <1>3, <1>4, <1>5, <1>6, <1>10, <2>1, ReleasedDone
  <2>4. x.at = "none" /\ ~x.r.busy /\ x.r.transaction = st.r.transaction
    BY <1>3, <1>4, <1>6, <2>1 DEF StateSet, SessionRecord
  <2>5. QED BY <1>1, <1>2, <1>4, <1>7, <2>2, <2>3, <2>4, BecomeStep
<1>11. QED BY <1>8, <1>9, <1>10

-----------------------------------------------------------------------------
(* What reaches a session from outside.                                      *)

\* The queries of the others, and what they have in the database, stay.
LEMMA OwnStays ==
  ASSUME NEW s \in Sessions, UNCHANGED committed,
         \A t \in Sessions \ {s} : server'[t] = server[t]
  PROVE  \A w : Own(s, w) => Own(s, w)'
<1>1. TAKE w
<1>2. HAVE Own(s, w)
<1>3. committed'[w] = 0 BY <1>2 DEF Own
<1>4. ASSUME NEW t \in Sessions \ {s} PROVE w \notin Pending(server[t])'
  <2>1. server'[t] = server[t] OBVIOUS
  <2>2. Pending(server[t])' = Pending(server[t]) BY <2>1 DEF Pending, Queued
  <2>3. QED BY <1>2, <2>2 DEF Own
<1>5. QED BY <1>3, <1>4 DEF Own

LEMMA ApartQuiet ==
  ASSUME IInv, NEW s \in Sessions, UNCHANGED <<script, server, committed>>,
         \A u \in Sessions \ {s} :
           session'[u] = session[u] /\ run'[u] = run[u] /\ (tab = u <=> tab' = u)
  PROVE  Apart(s)
<1>1. Pending(server[s])' = Pending(server[s]) BY DEF Pending, Queued
<1>2. Len(script) <= Len(script')
  <2>1. Len(script) \in Nat BY DEF IInv, TypeOK
  <2>2. QED BY <2>1
<1>3. QED BY <1>1, <1>2 DEF Apart

\* A step at the client that leaves the plan, its place and the tab alone.
LEMMA ClientStep ==
  ASSUME IInv, NEW s \in Sessions, NEW st, st = State(s), NEW x, x \in StateSet,
         Kept(st, x), x.at = st.at, x.i = st.i, NEW c, c = server[s], SessionOK(s, x, c),
         session' = [session EXCEPT ![s] = x.r],
         UNCHANGED <<tab, script, run, server, committed, desk, edit, disconnect>>,
         losses' \in 0..MaxLosses,
         edit = "cutting" /\ Live(s) => ~x.r.busy /\ x.r.transaction = "none"
  PROVE  IInv'
<1> DEFINE y == [r |-> x.r, at |-> x.at, i |-> x.i, send |-> <<>>]
<1>1. /\ st.r = session[s] /\ st.at = run[s].at /\ st.i = run[s].i
      /\ server[s] \in Connection
  BY StateStands
<1>2. session \in [Sessions -> SessionRecord] /\ x.r \in SessionRecord
  BY DEF IInv, TypeOK, StateSet
<1>3. /\ session' \in [Sessions -> SessionRecord] /\ session'[s] = x.r
      /\ \A t \in Sessions \ {s} : session'[t] = session[t]
  BY <1>2
<1>4. TypeOK' BY <1>3 DEF IInv, TypeOK
<1>5. Apart(s) BY <1>3, ApartQuiet
<1>6. Numbers(session'[s]) = Numbers(session[s]) /\ session'[s].plan = session[s].plan
  BY <1>1, <1>3 DEF Kept, Numbers
<1>7. session'[s].plan <= Len(script') BY <1>6 DEF IInv, PlansApart
<1>8. ScriptsOK' BY DEF IInv, ScriptsOK
<1>9. CuttingOK'
  <2> SUFFICES ASSUME edit = "cutting" PROVE CuttingOK' BY DEF CuttingOK
  <2>1. desk' = "idle" BY DEF IInv, CuttingOK
  <2>2. ASSUME NEW t \in Sessions
        PROVE  /\ ~Running(t)'
               /\ Live(t)' => ~session'[t].busy /\ session'[t].transaction = "none"
    <3>1. ~Running(t)' BY DEF IInv, CuttingOK, Running
    <3>2. CASE t = s
      <4>1. Live(s)' <=> Live(s) BY <1>1, <1>3 DEF Live, Kept
      <4>2. QED BY <1>3, <3>1, <3>2, <4>1
    <3>3. CASE t # s
      <4>1. session'[t] = session[t] BY <1>3, <3>3
      <4>2. QED BY <3>1, <4>1 DEF IInv, CuttingOK, Live
    <3>4. QED BY <3>2, <3>3
  <2>3. QED BY <2>1, <2>2 DEF CuttingOK
<1>10. SessionOK(s, State(s), server[s])'
  <2>1. PICK z : z = y OBVIOUS
  <2>2. z \in StateSet /\ z.r = x.r /\ z.send = <<>> /\ SessionOK(s, z, c)
    BY <2>1, SendAside
  <2>3. Stands(s, z, c) BY <1>1, <2>2 DEF Stands
  <2>4. \A w : Own(s, w) => Own(s, w)' BY OwnStays
  <2>5. Left(s, z, c) BY <1>5, <2>4 DEF Left, Apart
  <2>6. SessionOK(s, z, c)' BY <2>3, <2>5, Shift DEF IInv
  <2>7. State(s)' = y BY <1>1, <1>3 DEF State
  <2>8. State(s)' = z /\ server'[s] = c BY <2>1, <2>7
  <2>9. QED BY <2>6, <2>8
<1>11. QED BY <1>4, <1>5, <1>6, <1>7, <1>8, <1>9, <1>10, OneStep

LEMMA LoseStep ==
  ASSUME IInv, NEW s \in Sessions, Lose(s)
  PROVE  IInv'
<1>1. PICK st : st = State(s) OBVIOUS
<1>2. PICK c : c = server[s] OBVIOUS
<1>3. PICK x : x = Lost(st) OBVIOUS
<1>4. Stands(s, st, c) /\ st.r = session[s] /\ st.at = run[s].at
      /\ FlagsOK(s, st) /\ ConnectionOK(s, c)
  BY <1>1, <1>2, StateStands DEF Stands, SessionOK
<1>5. TypeOK BY DEF IInv
<1>6. st.r.child = "open" /\ ~st.r.released /\ st.r.status # "unknown"
  BY <1>4 DEF Lose, FlagsOK
<1>7. /\ x \in StateSet /\ Kept(st, x) /\ x.at = st.at /\ x.i = st.i /\ x.r.busy = st.r.busy
      /\ x.r.child = "closed"
      /\ x.r.transaction = IF Uncertain(st) THEN "unknown" ELSE "none"
  BY <1>3, <1>4, <1>6, LostFields DEF Stands
<1>8. Kept(Lost(st), x) BY <1>3 DEF Kept
<1>9. SessionOK(s, x, c) BY <1>3, <1>4, <1>5, <1>7, <1>8, LostOK
<1>10. session' = [session EXCEPT ![s] = x.r] /\ losses' \in 0..MaxLosses
       /\ UNCHANGED <<tab, script, run, server, committed, desk, edit, disconnect>>
  <2>1. losses \in 0..MaxLosses BY <1>5 DEF TypeOK
  <2>2. QED BY <1>1, <1>3, <2>1, BoundsAssumption DEF Lose
<1>11. edit = "cutting" /\ Live(s) => ~x.r.busy /\ x.r.transaction = "none"
  BY <1>4, <1>7, CuttingSession DEF Uncertain
<1>12. QED BY <1>1, <1>2, <1>7, <1>9, <1>10, <1>11, ClientStep

LEMMA StopStep ==
  ASSUME IInv, NEW s \in Sessions, Stop(s)
  PROVE  IInv'
<1>1. PICK st : st = State(s) OBVIOUS
<1>2. PICK c : c = server[s] OBVIOUS
<1>3. PICK x : x = [Lost(st) EXCEPT !.r.cancelled = TRUE, !.r.child = "none"] OBVIOUS
<1>4. Stands(s, st, c) /\ st.r = session[s] /\ st.at = run[s].at
      /\ FlagsOK(s, st) /\ ConnectionOK(s, c)
  BY <1>1, <1>2, StateStands DEF Stands, SessionOK
<1>5. TypeOK BY DEF IInv
<1>6. Live(s) /\ st.r.busy BY <1>4 DEF Stop, FlagsOK, Live
<1>7. /\ Lost(st) \in StateSet /\ Kept(st, Lost(st)) /\ Lost(st).at = st.at
      /\ Lost(st).i = st.i /\ Lost(st).r.busy = st.r.busy
  BY <1>4, LostShape
<1>8. /\ x \in StateSet /\ Kept(Lost(st), x) /\ x.at = Lost(st).at /\ x.i = Lost(st).i
      /\ x.r.busy = Lost(st).r.busy /\ x.r.child = "none" /\ x.r.cancelled = TRUE
      /\ x.r.transaction = Lost(st).r.transaction /\ x.r.status = Lost(st).r.status
      /\ x.r.results = Lost(st).r.results
      /\ x.r = [Lost(st).r EXCEPT !.cancelled = TRUE, !.child = "none"]
  BY <1>3, <1>7 DEF StateSet, SessionRecord, Kept
<1>9. Kept(st, x) BY <1>7, <1>8 DEF Kept
<1>10. SessionOK(s, x, c) BY <1>4, <1>5, <1>7, <1>8, LostOK
<1>11. session' = [session EXCEPT ![s] = x.r] /\ losses' \in 0..MaxLosses
       /\ UNCHANGED <<tab, script, run, server, committed, desk, edit, disconnect>>
  BY <1>1, <1>5, <1>8 DEF Stop, TypeOK
<1>12. edit # "cutting" BY <1>4, <1>6, CuttingSession
<1>13. QED BY <1>1, <1>2, <1>7, <1>8, <1>9, <1>10, <1>11, <1>12, ClientStep, ZenonT(40)

LEMMA ReleaseStep ==
  ASSUME IInv, NEW s \in Sessions, Release(s)
  PROVE  IInv'
<1>1. PICK st : st = State(s) OBVIOUS
<1>2. PICK c : c = server[s] OBVIOUS
<1>3. PICK x : x = [st EXCEPT !.r.released = TRUE, !.r.cancelled = TRUE, !.r.child = "none"]
  OBVIOUS
<1>4. st \in StateSet /\ st.r = session[s] /\ st.at = run[s].at /\ st.i = run[s].i
      /\ FlagsOK(s, st) /\ ConnectionOK(s, c) /\ AheadOK(s, st, c) /\ PlaceOK(st)
      /\ c \in Connection /\ st.send = <<>>
  BY <1>1, <1>2, StateStands DEF Stands, SessionOK
<1>5. TypeOK BY DEF IInv
<1>6. /\ x \in StateSet /\ x.at = st.at /\ x.i = st.i /\ x.send = <<>>
      /\ x.r.released = TRUE /\ x.r.cancelled = TRUE /\ x.r.child = "none"
      /\ x.r.made = st.r.made /\ x.r.plan = st.r.plan /\ x.r.ran = st.r.ran
      /\ x.r.used = st.r.used /\ x.r.busy = st.r.busy /\ x.r.results = st.r.results
      /\ x.r = [st.r EXCEPT !.released = TRUE, !.cancelled = TRUE, !.child = "none"]
  BY <1>3, <1>4 DEF StateSet, SessionRecord
<1>7. /\ session' = [session EXCEPT ![s] = x.r] /\ tab = s /\ tab' = None
      /\ UNCHANGED <<script, run, server, committed, desk, edit, disconnect, losses>>
  BY <1>4, <1>6, ZenonT(40) DEF Release
<1>8. /\ session' \in [Sessions -> SessionRecord] /\ session'[s] = x.r
      /\ \A t \in Sessions \ {s} : session'[t] = session[t]
  BY <1>5, <1>6, <1>7 DEF TypeOK, StateSet
<1>9. TypeOK' BY <1>5, <1>7, <1>8 DEF TypeOK
<1>10. Apart(s)
  <2>1. \A u \in Sessions \ {s} : tab = u <=> tab' = u
    BY <1>7, NoneAssumption
  <2>2. QED BY <1>7, <1>8, <2>1, ApartQuiet
<1>11. Numbers(session'[s]) = Numbers(session[s]) /\ session'[s].plan = session[s].plan
  BY <1>4, <1>6, <1>8 DEF Numbers
<1>12. session'[s].plan <= Len(script') BY <1>7, <1>11 DEF IInv, PlansApart
<1>13. ScriptsOK' BY <1>7 DEF IInv, ScriptsOK
<1>14. CuttingOK'
  <2>1. \A t \in Sessions : Running(t)' <=> Running(t) BY <1>7 DEF Running
  <2>2. \A t \in Sessions : Live(t)' => Live(t) /\ session'[t] = session[t]
    BY <1>6, <1>8 DEF Live
  <2>3. QED BY <1>7, <2>1, <2>2 DEF IInv, CuttingOK
<1>15. SessionOK(s, State(s), server[s])'
  <2>1. Items(x) = Items(st) /\ Mode(x) = Mode(st) /\ Item(x) = Item(st)
    BY <1>6 DEF Items, Mode, Item
  <2>2. State(s)' = x
    <3>1. State(s)' = [r |-> x.r, at |-> st.at, i |-> st.i, send |-> <<>>]
      BY <1>4, <1>7, <1>8 DEF State
    <3>2. QED BY <1>6, <3>1 DEF StateSet
  <2>3. \A w : Own(s, w) => Own(s, w)' BY <1>7, OwnStays
  <2>4. \A w : Clean(s, c, w) => Clean(s, c, w)' BY <2>3 DEF Clean
  <2>5. AheadOK(s, x, c)'
    <3>1. Items(x)' = Items(x) BY <1>7 DEF Items
    <3>2. Reached(x)' = Reached(st) BY <1>6, <2>1, <3>1 DEF Reached
    <3>3. QED BY <1>4, <1>6, <2>4, <3>2 DEF AheadOK
  <2>6. PlaceOK(x)'
    <3>1. PlaceOK(x) BY <1>4, <1>6, <2>1 DEF PlaceOK
    <3>2. Items(x)' = Items(x) /\ Mode(x)' = Mode(x) /\ Item(x)' = Item(x)
      BY <1>7 DEF Items, Mode, Item
    <3>3. QED BY <1>7, <3>1, <3>2 DEF PlaceOK
  <2>7. FlagsOK(s, x)'
    <3>1. tab' # s BY <1>7, NoneAssumption
    <3>2. st.r.made BY <1>4, <1>7 DEF FlagsOK
    <3>3. QED BY <1>4, <1>6, <3>1, <3>2 DEF FlagsOK
  <2>8. ConnectionOK(s, c)' BY <1>4, <2>3 DEF ConnectionOK
  <2>9. OpenOK(x, c)' BY <1>6 DEF OpenOK
  <2>10. RowsOK(s, x, c)' BY <1>6 DEF RowsOK
  <2>11. SessionOK(s, x, c)' BY <2>5, <2>6, <2>7, <2>8, <2>9, <2>10 DEF SessionOK
  <2>12. server'[s] = c BY <1>2, <1>7
  <2>13. QED BY <2>2, <2>11, <2>12
<1>16. QED BY <1>9, <1>10, <1>11, <1>12, <1>13, <1>14, <1>15, OneStep

\* The start of a script: its statements are nowhere yet.
LEMMA ExecuteStep ==
  ASSUME IInv, NEW s \in Sessions, Execute(s)
  PROVE  IInv'
<1>1. PICK st : st = State(s) OBVIOUS
<1>2. PICK c : c = server[s] OBVIOUS
<1>3. PICK x : x = [r |-> [st.r EXCEPT !.used = TRUE, !.busy = TRUE, !.cancelled = FALSE,
                                       !.status = "running", !.results = <<>>, !.ran = st.r.plan],
                    at |-> "audit", i |-> 0, send |-> <<>>]
  OBVIOUS
<1>4. st \in StateSet /\ st.r = session[s] /\ st.at = run[s].at /\ st.i = run[s].i
      /\ FlagsOK(s, st) /\ ConnectionOK(s, c) /\ AheadOK(s, st, c) /\ OpenOK(st, c)
      /\ c \in Connection
  BY <1>1, <1>2, StateStands DEF Stands, SessionOK
<1>5. TypeOK BY DEF IInv
<1>6. st.r.plan # 0 /\ ~st.r.used /\ ~st.r.busy /\ tab = s /\ desk = "admitted"
  BY <1>4 DEF Execute
<1>7. /\ x \in StateSet /\ x.at = "audit" /\ x.i = 0 /\ x.send = <<>>
      /\ x.r.released = st.r.released /\ x.r.cancelled = FALSE /\ x.r.child = st.r.child
      /\ x.r.made = st.r.made /\ x.r.plan = st.r.plan /\ x.r.ran = st.r.plan
      /\ x.r.used = TRUE /\ x.r.busy = TRUE /\ x.r.results = <<>> /\ x.r.status = "running"
      /\ x.r.transaction = st.r.transaction
      /\ x.r = [st.r EXCEPT !.used = TRUE, !.busy = TRUE, !.cancelled = FALSE,
                            !.status = "running", !.results = <<>>, !.ran = st.r.plan]
  <2> DEFINE r == [st.r EXCEPT !.used = TRUE, !.busy = TRUE, !.cancelled = FALSE,
                               !.status = "running", !.results = <<>>, !.ran = st.r.plan]
  <2>1. st.r \in SessionRecord /\ <<>> \in Seq(Effects) /\ <<>> \in Seq(Query)
    BY <1>4 DEF StateSet
  <2>2. /\ r \in SessionRecord
        /\ r.released = st.r.released /\ r.cancelled = FALSE /\ r.child = st.r.child
        /\ r.made = st.r.made /\ r.plan = st.r.plan /\ r.ran = st.r.plan
        /\ r.used = TRUE /\ r.busy = TRUE /\ r.results = <<>> /\ r.status = "running"
        /\ r.transaction = st.r.transaction
    BY <2>1 DEF SessionRecord
  <2> HIDE DEF r
  <2>3. x = [r |-> r, at |-> "audit", i |-> 0, send |-> <<>>] BY <1>3 DEF r
  <2>4. x \in StateSet /\ x.at = "audit" /\ x.i = 0 /\ x.send = <<>> /\ x.r = r
    BY <2>1, <2>2, <2>3 DEF StateSet
  <2>5. QED BY <2>2, <2>4 DEF r
<1>8. /\ session' = [session EXCEPT ![s] = x.r] /\ run' = [run EXCEPT ![s] = [at |-> "audit", i |-> 0]]
      /\ desk' = "idle"
      /\ UNCHANGED <<tab, script, server, committed, edit, disconnect, losses>>
  BY <1>4, <1>7, ZenonT(40) DEF Execute
<1>9. /\ session' \in [Sessions -> SessionRecord] /\ session'[s] = x.r
      /\ run' \in [Sessions -> [at : Waits \cup {"none", "audit", "open"}, i : Nat]]
      /\ run'[s] = [at |-> "audit", i |-> 0]
      /\ \A t \in Sessions \ {s} : session'[t] = session[t] /\ run'[t] = run[t]
  BY <1>5, <1>7, <1>8 DEF TypeOK, StateSet
<1>10. TypeOK' BY <1>5, <1>8, <1>9 DEF TypeOK
<1>11. Apart(s) BY <1>8, <1>9, ApartQuiet
<1>12. session'[s].plan = session[s].plan /\ \A p \in Numbers(session'[s]) : p \in Numbers(session[s])
  BY <1>4, <1>7, <1>9 DEF Numbers
<1>13. session'[s].plan <= Len(script') BY <1>8, <1>12 DEF IInv, PlansApart
<1>14. ScriptsOK' BY <1>8 DEF IInv, ScriptsOK
<1>15. CuttingOK' BY <1>6, <1>8 DEF IInv, CuttingOK
<1>16. SessionOK(s, State(s), server[s])'
  <2>1. State(s)' = x
    <3>1. State(s)' = [r |-> x.r, at |-> "audit", i |-> 0, send |-> <<>>]
      BY <1>9 DEF State
    <3>2. QED BY <1>3, <1>7, <3>1
  <2>2. \A w : Own(s, w) => Own(s, w)' BY <1>8, OwnStays
  <2>3. st.r.plan \in Nat /\ st.r.plan <= Len(script)
    BY <1>4 DEF IInv, PlansApart, StateSet, SessionRecord
  <2>4. /\ st.at = "none" /\ st.r.made /\ ~st.r.released
    BY <1>4, <1>6 DEF FlagsOK
  <2>5. x.at \in Working BY <1>7 DEF Working
  <2>6. AheadOK(s, x, c)'
    <3>1. \A k \in Positions : Clean(s, c, <<x.r.ran, k>>)
      BY <1>4, <1>6, <1>7 DEF AheadOK
    <3>2. \A k \in Positions : Clean(s, c, <<x.r.ran, k>>)' /\ Own(s, <<x.r.ran, k>>)'
      BY <2>2, <3>1 DEF Clean
    <3>3. QED BY <1>7, <3>2 DEF AheadOK
  <2>7. PlaceOK(x)'
    <3>1. Len(Items(x)') \in Nat
      <4>1. Items(x)' = Items(x) BY <1>8 DEF Items
      <4>2. Len(Items(x)) \in Nat BY <1>5, <1>6, <1>7, <2>3, ItemsKnown
      <4>3. QED BY <4>1, <4>2
    <3>2. ~(x.i > Len(Items(x)')) BY <1>7, <3>1
    <3>3. Len(x.r.results) = 0 BY <1>7
    <3>4. QED BY <1>6, <1>7, <1>8, <2>3, <3>1, <3>2, <3>3 DEF PlaceOK
  <2>8. FlagsOK(s, x)' BY <1>4, <1>7, <1>8, <2>4 DEF FlagsOK
  <2>9. ConnectionOK(s, c)' BY <1>4, <2>2 DEF ConnectionOK
  <2>10. OpenOK(x, c)'
    <3> SUFFICES ASSUME st.r.child = "open" PROVE OpenOK(x, c)' BY <1>7 DEF OpenOK
    <3>1. AnswerOK(st, c) /\ (st.r.transaction = "active" => ActiveOK(st, c))
          /\ (st.r.transaction # "active" => QuietOK(st, c))
      BY <1>4 DEF OpenOK
    <3>2. AnswerOK(x, c)'
      <4>1. c.answer = "none" BY <2>4, <3>1 DEF AnswerOK, Waits
      <4>2. QED BY <1>7, <4>1 DEF AnswerOK, Waits
    <3>3. st.r.transaction = "active" => ActiveOK(x, c)'
      BY <1>7, <2>4, <3>1 DEF ActiveOK, Endings
    <3>4. st.r.transaction # "active" => QuietOK(x, c)'
      BY <1>7, <3>1 DEF QuietOK
    <3>5. QED BY <1>7, <3>2, <3>3, <3>4 DEF OpenOK
  <2>11. RowsOK(s, x, c)' BY <1>7 DEF RowsOK
  <2>12. SessionOK(s, x, c)' BY <2>6, <2>7, <2>8, <2>9, <2>10, <2>11 DEF SessionOK
  <2>13. server'[s] = c BY <1>2, <1>8
  <2>14. QED BY <2>1, <2>12, <2>13
<1>17. QED BY <1>10, <1>11, <1>12, <1>13, <1>14, <1>15, <1>16, OneStep

\* A plan that is prepared has not been run: its statements are nowhere.
LEMMA PrepareStep ==
  ASSUME IInv, NEW s \in Sessions, NEW plan \in Scripts, Prepare(s, plan)
  PROVE  IInv'
<1> DEFINE n == Len(script) + 1
<1>1. PICK st : st = State(s) OBVIOUS
<1>2. PICK c : c = server[s] OBVIOUS
<1>3. PICK x : x = [r |-> [st.r EXCEPT !.made = TRUE, !.plan = n, !.used = FALSE,
                                       !.status = "prepared"],
                    at |-> st.at, i |-> st.i, send |-> <<>>]
  OBVIOUS
<1>4. st \in StateSet /\ st.r = session[s] /\ st.at = run[s].at /\ st.i = run[s].i
      /\ FlagsOK(s, st) /\ ConnectionOK(s, c) /\ OpenOK(st, c) /\ PlaceOK(st) /\ RowsOK(s, st, c)
      /\ c \in Connection
  BY <1>1, <1>2, StateStands DEF Stands, SessionOK
<1>5. TypeOK BY DEF IInv
<1>6. /\ Len(script) \in Nat /\ n \in Plans /\ n \in Nat /\ n # 0 /\ n <= MaxPlans
      /\ script \in Seq(Scripts)
  BY <1>5, BoundsAssumption DEF Prepare, TypeOK, Plans
<1>7. /\ ~st.r.busy /\ st.at = "none" /\ ~st.r.released /\ desk = "admitted"
      /\ (tab = s \/ (tab = None /\ ~st.r.made))
  BY <1>4 DEF Prepare, FlagsOK
<1>8. /\ session' = [session EXCEPT ![s] = [st.r EXCEPT !.made = TRUE, !.plan = n, !.used = FALSE,
                                                        !.status = "prepared"]]
      /\ tab' = s /\ script' = Append(script, plan) /\ desk' = "idle"
      /\ UNCHANGED <<run, server, committed, edit, disconnect, losses>>
  BY <1>4 DEF Prepare
<1>9. /\ script' \in Seq(Scripts) /\ Len(script') = n /\ script'[n] = plan
      /\ \A p \in DOMAIN script : script'[p] = script[p]
      /\ DOMAIN script = 1..Len(script) /\ DOMAIN script' = 1..n
  BY <1>6, <1>8
<1> HIDE DEF n
<1>10. /\ x \in StateSet /\ x.at = st.at /\ x.i = st.i /\ x.send = <<>>
       /\ x.r.released = st.r.released /\ x.r.cancelled = st.r.cancelled
       /\ x.r.child = st.r.child /\ x.r.made = TRUE /\ x.r.plan = n /\ x.r.ran = st.r.ran
       /\ x.r.used = FALSE /\ x.r.busy = st.r.busy /\ x.r.results = st.r.results
       /\ x.r.status = "prepared" /\ x.r.transaction = st.r.transaction
       /\ x.r = [st.r EXCEPT !.made = TRUE, !.plan = n, !.used = FALSE, !.status = "prepared"]
  <2> DEFINE r == [st.r EXCEPT !.made = TRUE, !.plan = n, !.used = FALSE, !.status = "prepared"]
  <2>1. st.r \in SessionRecord /\ <<>> \in Seq(Query) /\ n \in 0..MaxPlans
    BY <1>4, <1>6 DEF StateSet
  <2>2. /\ r \in SessionRecord
        /\ r.released = st.r.released /\ r.cancelled = st.r.cancelled /\ r.child = st.r.child
        /\ r.made = TRUE /\ r.plan = n /\ r.ran = st.r.ran /\ r.used = FALSE
        /\ r.busy = st.r.busy /\ r.results = st.r.results /\ r.status = "prepared"
        /\ r.transaction = st.r.transaction
    BY <2>1 DEF SessionRecord
  <2> HIDE DEF r
  <2>3. x = [r |-> r, at |-> st.at, i |-> st.i, send |-> <<>>] BY <1>3 DEF r
  <2>4. x \in StateSet /\ x.at = st.at /\ x.i = st.i /\ x.send = <<>> /\ x.r = r
    BY <1>4, <2>1, <2>2, <2>3 DEF StateSet
  <2>5. QED BY <2>2, <2>4 DEF r
<1>11. /\ session' \in [Sessions -> SessionRecord] /\ session'[s] = x.r
       /\ \A t \in Sessions \ {s} : session'[t] = session[t]
  BY <1>5, <1>8, <1>10 DEF TypeOK, StateSet
<1>12. TypeOK' BY <1>5, <1>6, <1>8, <1>9, <1>11 DEF TypeOK
<1>13. Apart(s)
  <2>1. Pending(server[s])' = Pending(server[s]) BY <1>8 DEF Pending, Queued
  <2>2. Len(script) <= Len(script') BY <1>6, <1>9 DEF n
  <2>3. \A u \in Sessions \ {s} : tab = u <=> tab' = u BY <1>7, <1>8, NoneAssumption
  <2>4. QED BY <1>8, <1>9, <1>11, <2>1, <2>2, <2>3 DEF Apart
<1>14. session'[s].plan <= Len(script') BY <1>6, <1>9, <1>10, <1>11
<1>15. \A p \in Numbers(session'[s]) : p \in Numbers(session[s]) \/ p > Len(script)
  <2>1. n > Len(script) BY <1>6 DEF n
  <2>2. QED BY <1>4, <1>10, <1>11, <2>1 DEF Numbers
<1>16. ScriptsOK'
  <2>1. ASSUME NEW p \in DOMAIN script', script'[p].mode # "manual",
               NEW k \in DOMAIN script'[p].items
        PROVE  script'[p].items[k] \in {"read", "write"}
    <3>1. CASE p \in DOMAIN script BY <1>9, <2>1, <3>1 DEF IInv, ScriptsOK
    <3>2. CASE p \notin DOMAIN script
      <4>1. p = n BY <1>6, <1>9, <3>2 DEF n
      <4>2. plan.items[k] \in Kinds BY <1>9, <2>1, <4>1, ScriptsAssumption DEF ScriptRecord
      <4>3. plan.items[k] \notin {"begin", "commit", "rollback"}
        BY <1>9, <2>1, <4>1 DEF Prepare, Controls
      <4>4. QED BY <1>9, <4>1, <4>2, <4>3 DEF Kinds
    <3>3. QED BY <3>1, <3>2
  <2>2. QED BY <2>1 DEF ScriptsOK
<1>17. CuttingOK' BY <1>7, <1>8 DEF IInv, CuttingOK
<1>18. SessionOK(s, State(s), server[s])'
  <2>1. State(s)' = x
    <3>1. State(s)' = [r |-> x.r, at |-> st.at, i |-> st.i, send |-> <<>>]
      BY <1>4, <1>8, <1>11 DEF State
    <3>2. QED BY <1>3, <1>10, <3>1
  <2>2. \A w : Own(s, w) => Own(s, w)' BY <1>8, OwnStays
  <2>3. \A w : Clean(s, c, w) => Clean(s, c, w)' BY <2>2 DEF Clean
  <2>4. x.at \notin Working BY <1>7, <1>10 DEF Working, Waits
  <2>5. n > Len(script) BY <1>6 DEF n
  <2>6. AheadOK(s, x, c)'
    <3>1. ASSUME NEW k \in Positions PROVE Clean(s, c, <<n, k>>)
      BY <1>2, <1>6, <2>5 DEF IInv, PlansApart, Clean, Own
    <3>2. QED BY <1>10, <2>3, <2>4, <3>1 DEF AheadOK
  <2>7. PlaceOK(x)'
    <3>1. st.r.ran \in Nat /\ (st.r.ran # 0 => st.r.ran <= Len(script))
      BY <1>4 DEF PlaceOK, StateSet, SessionRecord
    <3>2. st.r.ran < n /\ (st.r.ran # 0 => st.r.ran <= Len(script'))
      BY <1>6, <1>9, <3>1 DEF n
    <3>3. st.r.ran # 0 => Items(x)' = Items(st)
      BY <1>6, <1>9, <1>10, <3>1 DEF Items
    <3>4. QED BY <1>4, <1>10, <2>4, <3>2, <3>3 DEF PlaceOK
  <2>8. FlagsOK(s, x)' BY <1>4, <1>7, <1>8, <1>10 DEF FlagsOK
  <2>9. ConnectionOK(s, c)' BY <1>4, <2>2 DEF ConnectionOK
  <2>10. OpenOK(x, c)'
    <3> SUFFICES ASSUME st.r.child = "open" PROVE OpenOK(x, c)' BY <1>10 DEF OpenOK
    <3>1. AnswerOK(st, c) /\ (st.r.transaction = "active" => ActiveOK(st, c))
          /\ (st.r.transaction # "active" => QuietOK(st, c))
      BY <1>4 DEF OpenOK
    <3>2. AnswerOK(x, c)' BY <1>7, <1>10, <3>1 DEF AnswerOK, Waits, Endings
    <3>3. st.r.transaction = "active" => ActiveOK(x, c)'
      BY <1>7, <1>10, <3>1 DEF ActiveOK
    <3>4. st.r.transaction # "active" => QuietOK(x, c)'
      BY <1>7, <1>10, <2>4, <3>1 DEF QuietOK
    <3>5. QED BY <1>10, <3>2, <3>3, <3>4 DEF OpenOK
  <2>11. RowsOK(s, x, c)'
    <3> SUFFICES ASSUME NEW k \in DOMAIN x.r.results, Items(x)'[k] = "write"
                 PROVE  RowOK(s, x, c, k)'
      BY DEF RowsOK
    <3>1. st.r.ran # 0 BY <1>4, <1>10 DEF PlaceOK
    <3>2. st.r.made BY <1>4, <3>1 DEF FlagsOK, PlaceOK, StateSet, SessionRecord
    <3>3. Items(x)' = Items(st)
      <4>1. st.r.ran \in DOMAIN script BY <1>4, <1>5, <3>1, ItemsKnown DEF PlaceOK
      <4>2. QED BY <1>9, <1>10, <4>1 DEF Items
    <3>4. RowOK(s, st, c, k) BY <1>4, <1>7, <1>10, <3>2, <3>3 DEF RowsOK
    <3>5. PendingOK(s, st, c, <<st.r.ran, k>>) => PendingOK(s, x, c, <<st.r.ran, k>>)'
      BY <1>7, <1>8, <1>10, <2>2 DEF PendingOK
    <3>6. QED BY <1>8, <1>10, <2>3, <2>4, <3>4, <3>5 DEF RowOK
  <2>12. SessionOK(s, x, c)' BY <2>6, <2>7, <2>8, <2>9, <2>10, <2>11 DEF SessionOK
  <2>13. server'[s] = c BY <1>2, <1>8
  <2>14. QED BY <2>1, <2>12, <2>13
<1>19. QED BY <1>12, <1>13, <1>14, <1>15, <1>16, <1>17, <1>18, OneStep

-----------------------------------------------------------------------------
(* Steps of the environment: requests, edits, disconnects.                   *)

LEMMA Unmoved ==
  ASSUME IInv, UNCHANGED <<tab, script, session, run, server, committed>>
  PROVE  /\ PlansApart' /\ AppliedOnce' /\ ScriptsOK'
         /\ \A s \in Sessions : SessionOK(s, State(s), server[s])'
<1>1. PlansApart'
  <2>1. \A t \in Sessions : Pending(server[t])' = Pending(server[t]) BY DEF Pending, Queued
  <2>2. \A t \in Sessions : Numbers(session[t])' = Numbers(session[t]) BY DEF Numbers
  <2>3. \A t \in Sessions : session'[t].plan <= Len(script') BY DEF IInv, PlansApart
  <2>4. \A t, u \in Sessions : t # u =>
          Numbers(session[t])' \cap Numbers(session[u])' = {}
    BY <2>2 DEF IInv, PlansApart
  <2>5. \A p \in Plans : p > Len(script') => \A k \in Positions :
          committed'[<<p, k>>] = 0 /\ \A t \in Sessions : <<p, k>> \notin Pending(server[t])'
    BY <2>1 DEF IInv, PlansApart
  <2>6. QED BY <2>3, <2>4, <2>5 DEF PlansApart
<1>2. AppliedOnce' /\ ScriptsOK' BY DEF IInv, AppliedOnce, ScriptsOK
<1>3. ASSUME NEW s \in Sessions PROVE SessionOK(s, State(s), server[s])'
  <2>1. PICK x : x = State(s) OBVIOUS
  <2>2. PICK c : c = server[s] OBVIOUS
  <2>3. Stands(s, x, c) BY <2>1, <2>2, StateStands
  <2>4. \A w : Own(s, w) => Own(s, w)' BY OwnStays
  <2>5. Apart(s) BY ApartQuiet
  <2>6. Left(s, x, c) BY <2>4, <2>5 DEF Left, Apart
  <2>7. SessionOK(s, x, c)' BY <2>3, <2>6, Shift DEF IInv
  <2>8. State(s)' = x /\ server'[s] = c BY <2>1, <2>2 DEF State
  <2>9. QED BY <2>7, <2>8
<1>4. QED BY <1>1, <1>2, <1>3

\* While no edit is cutting, whoever asks for anything.
LEMMA RequestStep ==
  ASSUME IInv, Admit \/ Refused \/ EditBegins \/ EditGivesUp \/ EditEnds
  PROVE  IInv'
<1>1. UNCHANGED <<tab, script, session, run, server, committed, disconnect, losses>>
  BY DEF Admit, Refused, EditBegins, EditGivesUp, EditEnds
<1>2. /\ desk' \in {"idle", "admitted"} /\ edit' \in {"none", "draining", "cutting", "editing"}
      /\ edit' = "cutting" => edit = "cutting" /\ desk' = "idle"
  BY DEF Admit, Refused, EditBegins, EditGivesUp, EditEnds, IInv, TypeOK
<1>3. TypeOK' BY <1>1, <1>2 DEF IInv, TypeOK
<1>4. CuttingOK' BY <1>1, <1>2 DEF IInv, CuttingOK, Running, Live
<1>5. QED BY <1>1, <1>3, <1>4, Unmoved DEF IInv

LEMMA AskedStep ==
  ASSUME IInv, DisconnectAsked \/ UNCHANGED vars
  PROVE  IInv'
<1>1. /\ UNCHANGED <<tab, script, session, run, server, committed, desk, edit, losses>>
      /\ disconnect' \in BOOLEAN
  BY DEF DisconnectAsked, vars, IInv, TypeOK
<1>2. TypeOK' BY <1>1 DEF IInv, TypeOK
<1>3. CuttingOK' BY <1>1 DEF IInv, CuttingOK, Running, Live
<1>4. QED BY <1>1, <1>2, <1>3, Unmoved DEF IInv

\* The idle check sees the one session that is alive.
LEMMA DrainedStep ==
  ASSUME IInv, EditDrained
  PROVE  IInv'
<1>1. UNCHANGED <<tab, script, session, run, server, committed, desk, disconnect, losses>>
  BY DEF EditDrained
<1>2. TypeOK' BY <1>1 DEF EditDrained, IInv, TypeOK
<1>3. CuttingOK'
  <2>1. desk' = "idle" BY <1>1 DEF EditDrained, Drained
  <2>2. ASSUME NEW s \in Sessions
        PROVE  ~Running(s)' /\ (Live(s)' => ~session'[s].busy /\ session'[s].transaction = "none")
    <3>1. ~Running(s)' BY <1>1 DEF EditDrained, Drained, Running
    <3>2. PICK x : x = State(s) OBVIOUS
    <3>3. x.r = session[s] /\ FlagsOK(s, x) BY <3>2, StateStands DEF Stands, SessionOK
    <3>4. Live(s) => tab = s /\ tab # None BY <3>3, NoneAssumption DEF FlagsOK, Live
    <3>5. QED BY <1>1, <3>1, <3>4 DEF EditDrained, ScopeIdle, Live
  <2>3. QED BY <2>1, <2>2 DEF CuttingOK
<1>4. QED BY <1>1, <1>2, <1>3, Unmoved DEF IInv

\* What the end of the plugin's connection makes of a session.
Cut(st) ==
  IF ~st.r.made THEN st
  ELSE [(IF st.r.child = "open" THEN Lost(st) ELSE st) EXCEPT !.r.stale = TRUE]

LEMMA StaleFields ==
  ASSUME NEW st \in StateSet, NEW x, x = [st EXCEPT !.r.stale = TRUE]
  PROVE  /\ x \in StateSet /\ Kept(st, x) /\ x.at = st.at /\ x.i = st.i /\ x.send = st.send
         /\ x.r.busy = st.r.busy /\ x.r.child = st.r.child /\ x.r.cancelled = st.r.cancelled
         /\ x.r.transaction = st.r.transaction /\ x.r.status = st.r.status
         /\ x.r.results = st.r.results
         /\ x.r = [st.r EXCEPT !.stale = TRUE]
BY DEF StateSet, SessionRecord, Kept

LEMMA CutOK ==
  ASSUME TypeOK, NEW s \in Sessions, NEW st, NEW c, Stands(s, st, c), NEW x, x = Cut(st)
  PROVE  /\ x \in StateSet /\ Kept(st, x) /\ x.at = st.at /\ x.i = st.i /\ x.send = <<>>
         /\ x.r.busy = st.r.busy
         /\ st.at = "none" /\ st.r.transaction = "none" => x.r.transaction = "none"
         /\ SessionOK(s, x, c)
<1>1. /\ st \in StateSet /\ st.send = <<>> /\ SessionOK(s, st, c) /\ FlagsOK(s, st)
      /\ ConnectionOK(s, c) /\ RowsOK(s, st, c)
  BY DEF Stands, SessionOK
<1>2. CASE ~st.r.made
  <2>1. x = st BY <1>2 DEF Cut
  <2>2. QED BY <1>1, <2>1 DEF Kept
<1>3. CASE st.r.made /\ st.r.child = "open"
  <2>1. x = [Lost(st) EXCEPT !.r.stale = TRUE] BY <1>3 DEF Cut
  <2>2. PICK y : y = Lost(st) OBVIOUS
  <2>3. /\ y \in StateSet /\ Kept(st, y) /\ y.send = <<>> /\ y.at = st.at /\ y.i = st.i
        /\ y.r.busy = st.r.busy
    BY <2>2, LostShape
  <2>4. /\ x \in StateSet /\ Kept(y, x) /\ x.at = y.at /\ x.i = y.i /\ x.send = y.send
        /\ x.r.busy = y.r.busy /\ x.r.child = y.r.child /\ x.r.cancelled = y.r.cancelled
        /\ x.r.transaction = y.r.transaction /\ x.r.status = y.r.status
        /\ x.r.results = y.r.results
    BY <2>1, <2>2, <2>3, StaleFields
  <2>5. ~st.r.released /\ st.r.status # "unknown" BY <1>1, <1>3 DEF FlagsOK
  <2>6. /\ y.r.child = "closed"
        /\ y.r.transaction = IF Uncertain(st) THEN "unknown" ELSE "none"
    BY <1>1, <1>3, <2>2, <2>5, LostFields
  <2>7. SessionOK(s, x, c) BY <1>1, <2>2, <2>3, <2>4, <2>6, LostOK
  <2>8. Kept(st, x) BY <2>3, <2>4 DEF Kept
  <2>9. QED BY <2>3, <2>4, <2>6, <2>7, <2>8 DEF Uncertain
<1>4. CASE st.r.made /\ st.r.child # "open"
  <2>1. x = [st EXCEPT !.r.stale = TRUE] BY <1>4 DEF Cut
  <2>2. /\ x \in StateSet /\ Kept(st, x) /\ x.at = st.at /\ x.i = st.i /\ x.send = st.send
        /\ x.r.busy = st.r.busy /\ x.r.child = st.r.child /\ x.r.cancelled = st.r.cancelled
        /\ x.r.transaction = st.r.transaction /\ x.r.status = st.r.status
        /\ x.r.results = st.r.results
    BY <1>1, <2>1, StaleFields
  <2>3. Items(x) = Items(st) /\ Item(x) = Item(st) BY <2>2 DEF Items, Item, Kept
  <2>4. ~st.r.released => x.r.transaction # "active" BY <1>1, <1>4, <2>2 DEF FlagsOK
  <2>5. ~st.r.released /\ x.at = "item" /\ Item(x) = "write" =>
          "unknown" \in {x.r.status, x.r.transaction}
    BY <1>1, <1>4, <2>2, <2>3 DEF FlagsOK
  <2>6. x.at \in {"audit", "open"} /\ x.r.child = "none" /\ x.r.status = "unknown" => x.r.cancelled
    BY <1>1, <2>2 DEF FlagsOK
  <2>7. ASSUME NEW k \in DOMAIN x.r.results, st.r.made /\ ~st.r.released /\ Items(st)[k] = "write"
        PROVE  /\ RowTrue(s, x, c, k) /\ x.r.results[k] # "pending"
               /\ x.r.status = "success" => Told(x, k)
    <3>1. RowOK(s, st, c, k) BY <1>1, <2>2, <2>7 DEF RowsOK
    <3>2. x.r.ran = st.r.ran BY <2>2 DEF Kept
    <3>3. st.r.results[k] # "pending" BY <1>4, <3>1 DEF RowOK, PendingOK
    <3>4. QED BY <2>2, <2>3, <3>1, <3>2, <3>3 DEF RowOK, RowTrue, Told
  <2>8. SessionOK(s, x, c)
    BY <1>1, <1>4, <2>2, <2>4, <2>5, <2>6, <2>7, ClosedOK, ZenonT(40)
  <2>9. QED BY <1>1, <2>2, <2>8
<1>5. QED BY <1>2, <1>3, <1>4

LEMMA CutSession ==
  ASSUME IInv, ParentCloses, UNCHANGED <<tab, script, run, server, committed>>,
         NEW s \in Sessions
  PROVE  /\ session'[s] \in SessionRecord /\ SessionOK(s, State(s), server[s])'
         /\ Kept(State(s), [r |-> session'[s]]) /\ session'[s].busy = session[s].busy
         /\ run[s].at = "none" /\ session[s].transaction = "none" =>
              session'[s].transaction = "none"
<1>1. PICK st : st = State(s) OBVIOUS
<1>2. PICK c : c = server[s] OBVIOUS
<1>3. PICK x : x = Cut(st) OBVIOUS
<1>4. Stands(s, st, c) /\ st.r = session[s] /\ st.at = run[s].at /\ st.i = run[s].i
      /\ st \in StateSet /\ c \in Connection
  BY <1>1, <1>2, StateStands DEF Stands
<1>5. /\ x \in StateSet /\ Kept(st, x) /\ x.at = st.at /\ x.i = st.i /\ x.send = <<>>
      /\ x.r.busy = st.r.busy
      /\ st.at = "none" /\ st.r.transaction = "none" => x.r.transaction = "none"
      /\ SessionOK(s, x, c)
  BY <1>3, <1>4, CutOK DEF IInv
<1>6. session'[s] = x.r
  <2>1. CASE ~st.r.made BY <1>3, <1>4, <2>1 DEF ParentCloses, Cut
  <2>2. CASE st.r.made /\ st.r.child = "open"
    <3>1. PICK y : y = Lost(st) OBVIOUS
    <3>2. y \in StateSet BY <1>4, <3>1, LostShape
    <3>3. x = [y EXCEPT !.r.stale = TRUE] BY <1>3, <2>2, <3>1 DEF Cut
    <3>4. x.r = [y.r EXCEPT !.stale = TRUE] BY <3>2, <3>3, StaleFields
    <3>5. session'[s] = [Lost(State(s)).r EXCEPT !.stale = TRUE]
      BY <1>4, <2>2 DEF ParentCloses
    <3>6. QED BY <1>1, <3>1, <3>4, <3>5
  <2>3. CASE st.r.made /\ st.r.child # "open"
    <3>1. x = [st EXCEPT !.r.stale = TRUE] BY <1>3, <2>3 DEF Cut
    <3>2. x.r = [st.r EXCEPT !.stale = TRUE] BY <1>4, <3>1, StaleFields
    <3>3. QED BY <1>4, <2>3, <3>2 DEF ParentCloses
  <2>4. QED BY <2>1, <2>2, <2>3
<1>7. State(s)' = x
  <2>1. State(s)' = [r |-> x.r, at |-> st.at, i |-> st.i, send |-> <<>>] BY <1>4, <1>6 DEF State
  <2>2. QED BY <1>5, <2>1 DEF StateSet
<1>8. Stands(s, x, c) BY <1>4, <1>5 DEF Stands
<1>9. Left(s, x, c)
  <2>1. \A w : Own(s, w) => Own(s, w)' BY OwnStays
  <2>2. Len(script) \in Nat BY DEF IInv, TypeOK
  <2>3. QED BY <2>1, <2>2 DEF Left
<1>10. SessionOK(s, x, c)' BY <1>8, <1>9, Shift DEF IInv
<1>11. server'[s] = c BY <1>2
<1>12. SessionOK(s, State(s), server[s])' BY <1>7, <1>10, <1>11
<1>13. Kept(State(s), [r |-> session'[s]]) BY <1>1, <1>5, <1>6 DEF Kept
<1>14. session'[s] \in SessionRecord BY <1>5, <1>6 DEF StateSet
<1>15. QED BY <1>4, <1>5, <1>6, <1>12, <1>13, <1>14

LEMMA ClosesStep ==
  ASSUME IInv, EditCuts \/ Disconnects
  PROVE  IInv'
<1>1. /\ ParentCloses
      /\ UNCHANGED <<tab, script, run, server, committed, desk, losses>>
      /\ edit' \in {"none", "draining", "cutting", "editing"} /\ disconnect' \in BOOLEAN
      /\ edit' = "cutting" => edit = "cutting"
  BY DEF EditCuts, Disconnects, IInv, TypeOK
<1>2. \A s \in Sessions :
        /\ session'[s] \in SessionRecord /\ SessionOK(s, State(s), server[s])'
        /\ Kept(State(s), [r |-> session'[s]]) /\ session'[s].busy = session[s].busy
        /\ run[s].at = "none" /\ session[s].transaction = "none" =>
             session'[s].transaction = "none"
  BY <1>1, CutSession
<1>3. \A s \in Sessions : /\ session'[s].plan = session[s].plan
                          /\ session'[s].ran = session[s].ran
                          /\ session'[s].made = session[s].made
                          /\ session'[s].released = session[s].released
  BY <1>2 DEF Kept, State
<1>4. TypeOK'
  <2>1. session' = [s \in Sessions |-> session'[s]] BY <1>1 DEF ParentCloses
  <2>2. session' \in [Sessions -> SessionRecord] BY <1>2, <2>1
  <2>3. QED BY <1>1, <2>2 DEF IInv, TypeOK
<1>5. PlansApart'
  <2>1. \A t \in Sessions : Pending(server[t])' = Pending(server[t]) BY <1>1 DEF Pending, Queued
  <2>2. \A t \in Sessions : Numbers(session[t])' = Numbers(session[t]) BY <1>3 DEF Numbers
  <2>3. \A t \in Sessions : session'[t].plan <= Len(script') BY <1>1, <1>3 DEF IInv, PlansApart
  <2>4. \A t, u \in Sessions : t # u =>
          Numbers(session[t])' \cap Numbers(session[u])' = {}
    BY <2>2 DEF IInv, PlansApart
  <2>5. \A p \in Plans : p > Len(script') => \A k \in Positions :
          committed'[<<p, k>>] = 0 /\ \A t \in Sessions : <<p, k>> \notin Pending(server[t])'
    BY <1>1, <2>1 DEF IInv, PlansApart
  <2>6. QED BY <2>3, <2>4, <2>5 DEF PlansApart
<1>6. AppliedOnce' /\ ScriptsOK' BY <1>1 DEF IInv, AppliedOnce, ScriptsOK
<1>7. CuttingOK'
  <2> SUFFICES ASSUME edit = "cutting" PROVE CuttingOK' BY <1>1 DEF CuttingOK
  <2>1. desk' = "idle" BY <1>1 DEF IInv, CuttingOK
  <2>2. ASSUME NEW s \in Sessions
        PROVE  ~Running(s)' /\ (Live(s)' => ~session'[s].busy /\ session'[s].transaction = "none")
    <3>1. ~Running(s)' BY <1>1 DEF IInv, CuttingOK, Running
    <3>2. Live(s)' <=> Live(s) BY <1>3 DEF Live
    <3>3. Live(s) => ~session[s].busy /\ session[s].transaction = "none" /\ run[s].at = "none"
      BY CuttingSession
    <3>4. QED BY <1>2, <3>1, <3>2, <3>3
  <2>3. QED BY <2>1, <2>2 DEF CuttingOK
<1>8. QED BY <1>2, <1>4, <1>5, <1>6, <1>7 DEF IInv

-----------------------------------------------------------------------------
(* The database serves a query, or notices that its client is gone.          *)

\* What the database may do to what it has of a session.
Shrinks(s, c, d) ==
  /\ Pending(d) \subseteq Pending(c)
  /\ \A w \in Plans \X Positions :
       \/ committed'[w] = committed[w]
       \/ w \in Pending(c) /\ w \notin Pending(d) /\ committed'[w] = 1

LEMMA ServedClean ==
  ASSUME NEW s \in Sessions, NEW c, NEW d, Shrinks(s, c, d),
         \A t \in Sessions \ {s} : server'[t] = server[t]
  PROVE  /\ \A w \in Plans \X Positions :
              Own(s, w) /\ committed'[w] = committed[w] => Own(s, w)'
         /\ \A w \in Plans \X Positions : Clean(s, c, w) => Clean(s, d, w)'
<1>1. ASSUME NEW w \in Plans \X Positions, Own(s, w), committed'[w] = committed[w]
      PROVE  Own(s, w)'
  <2>1. ASSUME NEW t \in Sessions \ {s} PROVE w \notin Pending(server[t])'
    <3>1. server'[t] = server[t] OBVIOUS
    <3>2. Pending(server[t])' = Pending(server[t]) BY <3>1 DEF Pending, Queued
    <3>3. QED BY <1>1, <3>2 DEF Own
  <2>2. QED BY <1>1, <2>1 DEF Own
<1>2. ASSUME NEW w \in Plans \X Positions, Clean(s, c, w) PROVE Clean(s, d, w)'
  <2>1. committed'[w] = committed[w] /\ w \notin Pending(d) BY <1>2 DEF Shrinks, Clean
  <2>2. Pending(d)' = Pending(d) BY DEF Pending, Queued
  <2>3. QED BY <1>1, <1>2, <2>1, <2>2 DEF Clean
<1>3. QED BY <1>1, <1>2

\* A session stands as before while the database takes back or commits what
\* the session has come to the end of.
LEMMA ServedOK ==
  ASSUME TypeOK, NEW s \in Sessions, NEW st, NEW c, Stands(s, st, c), NEW d,
         UNCHANGED <<tab, script>>, \A t \in Sessions \ {s} : server'[t] = server[t],
         Shrinks(s, c, d),
         \A k \in DOMAIN d.queue : d.queue[k].kind # "write",
         (\E k \in DOMAIN d.queue : d.queue[k].kind = "begin") => Pending(c) = {},
         st.r.child = "open" /\ st.at \in Working /\ st.at # "commit" => UNCHANGED committed,
         OpenOK(st, d)',
         \A w \in Plans \X Positions : PendingOK(s, st, c, w) => PendingOK(s, st, d, w)'
  PROVE  SessionOK(s, st, d)'
<1>1. /\ st \in StateSet /\ AheadOK(s, st, c) /\ PlaceOK(st) /\ FlagsOK(s, st)
      /\ ConnectionOK(s, c) /\ RowsOK(s, st, c)
  BY DEF Stands, SessionOK
<1>2. /\ \A w \in Plans \X Positions :
           Own(s, w) /\ committed'[w] = committed[w] => Own(s, w)'
      /\ \A w \in Plans \X Positions : Clean(s, c, w) => Clean(s, d, w)'
  BY ServedClean
<1>3. Items(st)' = Items(st) /\ Mode(st)' = Mode(st) /\ Item(st)' = Item(st)
  BY DEF Items, Mode, Item
<1>4. \A p \in Numbers(st.r), k \in Positions : <<p, k>> \in Plans \X Positions
  BY <1>1, NumbersPlans DEF StateSet
<1>5. AheadOK(s, st, d)'
  <2>1. Reached(st)' = Reached(st) BY <1>3 DEF Reached
  <2>2. ASSUME st.at \in Working, NEW k \in Positions
        PROVE  /\ k > Reached(st) => Clean(s, d, <<st.r.ran, k>>)'
               /\ k = st.i /\ st.at # "commit" /\ st.r.child = "open" =>
                    Own(s, <<st.r.ran, k>>)'
    <3>1. st.r.ran \in Numbers(st.r) BY <1>1, <2>2 DEF PlaceOK, Numbers
    <3>2. <<st.r.ran, k>> \in Plans \X Positions BY <1>4, <3>1
    <3>3. QED BY <1>1, <1>2, <2>2, <3>2 DEF AheadOK
  <2>3. ASSUME st.r.plan # 0, ~st.r.used, NEW k \in Positions
        PROVE  Clean(s, d, <<st.r.plan, k>>)'
    <3>1. st.r.plan \in Numbers(st.r) BY <2>3 DEF Numbers
    <3>2. <<st.r.plan, k>> \in Plans \X Positions BY <1>4, <3>1
    <3>3. QED BY <1>1, <1>2, <2>3, <3>2 DEF AheadOK
  <2>4. QED BY <2>1, <2>2, <2>3 DEF AheadOK
<1>6. PlaceOK(st)' BY <1>1, <1>3 DEF PlaceOK
<1>7. FlagsOK(s, st)' BY <1>1, <1>3 DEF FlagsOK
<1>8. ConnectionOK(s, d)'
  <2>1. Pending(d)' = Pending(d) BY DEF Pending, Queued
  <2>2. ASSUME NEW w \in Pending(d) PROVE w \in Plans \X Positions /\ Own(s, w)'
    <3>1. w \in Plans \X Positions /\ Own(s, w) BY <1>1, <2>2 DEF Shrinks, ConnectionOK
    <3>2. committed'[w] = committed[w] BY <2>2, <3>1 DEF Shrinks
    <3>3. QED BY <1>2, <3>1, <3>2
  <2>3. ASSUME NEW k \in DOMAIN d.queue, d.queue[k].kind = "begin" PROVE Pending(d) = {}
    BY <2>3 DEF Shrinks
  <2>4. QED BY <2>1, <2>2, <2>3 DEF ConnectionOK
<1>9. RowsOK(s, st, d)'
  <2> SUFFICES ASSUME st.r.made, ~st.r.released, NEW k \in DOMAIN st.r.results,
                      Items(st)[k] = "write"
               PROVE  RowOK(s, st, d, k)'
    BY <1>3 DEF RowsOK
  <2>1. RowOK(s, st, c, k) BY <1>1 DEF RowsOK
  <2>2. <<st.r.ran, k>> \in Plans \X Positions
    <3>1. st.r.ran # 0 /\ Len(st.r.results) <= Len(Items(st)) /\ st.r.ran <= Len(script)
      BY <1>1 DEF PlaceOK
    <3>2. Len(Items(st)) \in Nat /\ Len(Items(st)) <= MaxItems BY <1>1, <3>1, ItemsKnown
    <3>3. k \in 1..Len(st.r.results) /\ Len(st.r.results) \in Nat
      BY <1>1 DEF StateSet, SessionRecord
    <3>4. k \in Positions BY <3>1, <3>2, <3>3, BoundsAssumption DEF Positions
    <3>5. QED BY <1>4, <3>1, <3>4 DEF Numbers
  <2>3. committed[<<st.r.ran, k>>] = 1 => committed'[<<st.r.ran, k>>] = 1
    BY <2>2 DEF Shrinks
  <2>4. Told(st, k)' <=> Told(st, k) BY <1>3 DEF Told, TakenBack
  <2>5. QED BY <1>2, <2>1, <2>2, <2>3, <2>4 DEF RowOK
<1>10. QED BY <1>5, <1>6, <1>7, <1>8, <1>9 DEF SessionOK

LEMMA ServerStep ==
  ASSUME IInv, NEW s \in Sessions, NEW c, c = server[s], NEW d \in Connection,
         server' = [server EXCEPT ![s] = d],
         UNCHANGED <<tab, script, session, run, desk, edit, disconnect, losses>>,
         Shrinks(s, c, d), committed' \in [Plans \X Positions -> Nat],
         NEW st, st = State(s), SessionOK(s, st, d)'
  PROVE  IInv'
<1>1. /\ server' \in [Sessions -> Connection] /\ server'[s] = d
      /\ \A t \in Sessions \ {s} : server'[t] = server[t]
  BY DEF IInv, TypeOK
<1>2. TypeOK' BY <1>1 DEF IInv, TypeOK
<1>3. Pending(server[s])' = Pending(d)
  <2>1. Pending(server[s])' = server'[s].work \cup Queued(server'[s]) BY DEF Pending, Queued
  <2>2. QED BY <1>1, <2>1 DEF Pending
<1>4. Apart(s)
  <2>1. Len(script) \in Nat BY DEF IInv, TypeOK
  <2>2. QED BY <1>1, <1>3, <2>1 DEF Apart, Shrinks
<1>5. session'[s].plan <= Len(script') BY DEF IInv, PlansApart
<1>6. ScriptsOK' BY DEF IInv, ScriptsOK
<1>7. CuttingOK' BY DEF IInv, CuttingOK, Running, Live
<1>8. State(s)' = st BY DEF State
<1>9. SessionOK(s, State(s), server[s])' BY <1>1, <1>8
<1>10. QED BY <1>2, <1>4, <1>5, <1>6, <1>7, <1>9, OneStep

LEMMA DroppedStep ==
  ASSUME IInv, NEW s \in Sessions, Dropped(s)
  PROVE  IInv'
<1>1. PICK st : st = State(s) OBVIOUS
<1>2. PICK c : c = server[s] OBVIOUS
<1>3. PICK d : d = Silent OBVIOUS
<1>4. Stands(s, st, c) /\ st.r = session[s] BY <1>1, <1>2, StateStands
<1>5. TypeOK BY DEF IInv
<1>6. d \in Connection /\ d.queue = <<>> /\ Pending(d) = {}
  BY <1>3 DEF Silent, Connection, Pending, Queued
<1>7. /\ st.r.child # "open" /\ server' = [server EXCEPT ![s] = d]
      /\ UNCHANGED <<tab, script, session, run, committed, desk, edit, disconnect, losses>>
  BY <1>3, <1>4 DEF Dropped
<1>8. Shrinks(s, c, d) BY <1>6, <1>7 DEF Shrinks
<1>9. \A t \in Sessions \ {s} : server'[t] = server[t] BY <1>5, <1>7 DEF TypeOK
<1>10. OpenOK(st, d)' BY <1>7 DEF OpenOK
<1>11. \A w : ~PendingOK(s, st, c, w) BY <1>7 DEF PendingOK
<1>12. \A k \in DOMAIN d.queue : FALSE BY <1>6
<1>13. SessionOK(s, st, d)'
  BY <1>4, <1>5, <1>7, <1>8, <1>9, <1>10, <1>11, <1>12, ServedOK
<1>14. committed' \in [Plans \X Positions -> Nat] BY <1>5, <1>7 DEF TypeOK
<1>15. QED BY <1>1, <1>2, <1>6, <1>7, <1>8, <1>13, <1>14, ServerStep

\* The query the database serves next, by where its session waits.
LEMMA ServeKind ==
  ASSUME TypeOK, NEW s \in Sessions, NEW st, NEW c, Stands(s, st, c), c.queue # <<>>,
         st.r.child = "open", NEW q, q = c.queue[1]
  PROVE  /\ c.answer = "none"
         /\ st.at \in Waits => c.queue[Len(c.queue)] = Asked(st)
         /\ st.at \in Waits /\ Len(c.queue) = 1 => q = Asked(st)
         /\ st.r.transaction # "active" => q.kind \in Harmless
         /\ st.r.transaction = "active" =>
              \/ st.at = "strict" /\ q.kind = "strict"
              \/ st.at = "check" /\ q.kind = "check"
              \/ st.at = "item" /\ q.kind \in {"read", "write"}
              \/ st.at = "commit" /\ q.kind = "commit" /\ Len(c.queue) = 1
              \/ /\ st.at \in {"undo", "rollback", "idle"}
                 /\ q.kind \in {"undo", "rollback", "idle", "strict", "check", "read", "write"}
<1>1. /\ st \in StateSet /\ c \in Connection /\ PlaceOK(st) /\ FlagsOK(s, st) /\ OpenOK(st, c)
      /\ AnswerOK(st, c)
  BY DEF Stands, SessionOK, OpenOK
<1>2. /\ c.queue \in Seq(Query) /\ Len(c.queue) \in Nat /\ Len(c.queue) # 0
      /\ DOMAIN c.queue = 1..Len(c.queue)
  BY <1>1 DEF Connection
<1>3. c.answer = "none" BY <1>1 DEF AnswerOK
<1>4. st.at \in Waits => c.queue[Len(c.queue)] = Asked(st) BY <1>1, <1>3 DEF AnswerOK
<1>5. st.r.transaction # "active" => q.kind \in Harmless
  <2>1. 1 \in DOMAIN c.queue BY <1>2
  <2>2. QED BY <1>1, <2>1 DEF OpenOK, QuietOK
<1>6. ASSUME st.r.transaction = "active"
      PROVE  \/ st.at = "strict" /\ q.kind = "strict"
             \/ st.at = "check" /\ q.kind = "check"
             \/ st.at = "item" /\ q.kind \in {"read", "write"}
             \/ st.at = "commit" /\ q.kind = "commit" /\ Len(c.queue) = 1
             \/ /\ st.at \in {"undo", "rollback", "idle"}
                /\ q.kind \in {"undo", "rollback", "idle", "strict", "check", "read", "write"}
  <2>1. ActiveOK(st, c) BY <1>1, <1>6 DEF OpenOK
  <2>2. st.at \in Waits \ {"begin"}
    <3>1. st.at \in Waits \cup {"none", "audit", "open"} BY <1>1 DEF StateSet
    <3>2. st.at # "open" BY <1>1 DEF FlagsOK
    <3>3. QED BY <2>1, <3>1, <3>2 DEF ActiveOK
  <2>3. CASE Len(c.queue) = 1
    <3>1. q.kind = IF st.at = "item" THEN Item(st) ELSE st.at
      BY <1>4, <2>2, <2>3 DEF Asked
    <3>2. CASE st.at = "item"
      <4>1. st.at \in Working BY <3>2 DEF Working, Waits
      <4>2. st.i # 0 /\ ~(st.i > Len(Items(st))) BY <1>1, <3>2, <4>1 DEF PlaceOK
      <4>3. st.i \in Nat /\ Len(Items(st)) \in Nat
        <5>1. st.r.ran # 0 /\ st.r.ran <= Len(script) BY <1>1, <4>1 DEF PlaceOK
        <5>2. QED BY <1>1, <5>1, ItemsKnown DEF StateSet
      <4>4. Item(st) \in {"read", "write"} BY <1>1, <3>2, <4>1, <4>2, <4>3 DEF PlaceOK
      <4>5. QED BY <3>1, <3>2, <4>4
    <3>3. CASE st.at # "item" BY <2>2, <2>3, <3>1, <3>3 DEF Waits
    <3>4. QED BY <3>2, <3>3
  <2>4. CASE Len(c.queue) # 1
    <3>1. st.at = "rollback" /\ Len(c.queue) = 2
      <4> DEFINE n == Len(c.queue)
      <4>1. n \in Nat /\ n # 0 /\ n # 1 BY <1>2, <2>4
      <4>2. n <= IF st.at = "rollback" THEN 2 ELSE 1 BY <2>1 DEF ActiveOK
      <4> HIDE DEF n
      <4>3. n = 2 /\ st.at = "rollback" BY <4>1, <4>2
      <4>4. QED BY <4>3 DEF n
    <3>2. q.kind \in (Harmless \ {"begin"}) \cup {"write"} BY <2>1, <3>1 DEF ActiveOK
    <3>3. QED BY <3>1, <3>2 DEF Harmless
  <2>5. QED BY <2>3, <2>4
<1>7. QED BY <1>3, <1>4, <1>5, <1>6

\* What serving q does to the connection and to what is committed.
Worked(q, c, d) ==
  \/ /\ d.tx = c.tx /\ d.work = c.work /\ UNCHANGED committed
     /\ d.answer = "ok" => q.kind \in {"strict", "check", "read"}
  \/ q.kind = "begin" /\ d.tx /\ d.work = {} /\ c.work = {} /\ UNCHANGED committed
  \/ q.kind = "commit" /\ d.work = {} /\ d.answer # "error" /\ committed' = CommitAll(c.work)
  \/ q.kind \in {"undo", "rollback", "idle"} /\ d.work = {} /\ UNCHANGED committed
  \/ q.kind = "write" /\ d.tx /\ d.work = c.work \cup {q.write} /\ UNCHANGED committed

Answers(s, c, d) == d.answer = "none" <=> ~Awaited(s)

Reply(s, outcome, tx, work) == [Rest(s, outcome) EXCEPT !.tx = tx, !.work = work]
Adding(s, outcome, work) == [Rest(s, outcome) EXCEPT !.work = @ \cup work]

LEMMA RestFields ==
  ASSUME TypeOK, NEW s \in Sessions, NEW c, c = server[s], c \in Connection,
         c.queue # <<>>, NEW outcome \in {"ok", "error"}, NEW tx \in BOOLEAN,
         NEW work \in SUBSET (Plans \X Positions),
         NEW d, d = Reply(s, outcome, tx, work)
  PROVE  /\ d \in Connection /\ d.queue = Tail(c.queue) /\ Answers(s, c, d)
         /\ d.answer \in {outcome, "none"} /\ d.tx = tx /\ d.work = work
<1> DEFINE a == IF Awaited(s) THEN outcome ELSE "none"
           n == Tail(c.queue)
<1>1. n \in Seq(Query) BY DEF Connection
<1>2. a \in {outcome, "none"} /\ (a = "none" <=> ~Awaited(s)) OBVIOUS
<1>3. Rest(s, outcome) = [c EXCEPT !.queue = n, !.answer = a] BY DEF Rest
<1> HIDE DEF a, n
<1>4. /\ d \in Connection /\ d.queue = n /\ d.answer = a /\ d.tx = tx /\ d.work = work
  BY <1>1, <1>2, <1>3 DEF Connection, Reply
<1>5. QED BY <1>2, <1>4 DEF n, Answers

LEMMA AddedFields ==
  ASSUME TypeOK, NEW s \in Sessions, NEW c, c = server[s], c \in Connection,
         c.queue # <<>>, NEW outcome \in {"ok", "error"},
         NEW work, c.work \cup work \in SUBSET (Plans \X Positions),
         NEW d, d = Adding(s, outcome, work)
  PROVE  /\ d \in Connection /\ d.queue = Tail(c.queue) /\ Answers(s, c, d)
         /\ d.tx = c.tx /\ d.work = c.work \cup work
<1> DEFINE a == IF Awaited(s) THEN outcome ELSE "none"
           n == Tail(c.queue)
<1>1. n \in Seq(Query) BY DEF Connection
<1>2. a \in {"ok", "error", "none"} /\ (a = "none" <=> ~Awaited(s)) OBVIOUS
<1>3. Rest(s, outcome) = [c EXCEPT !.queue = n, !.answer = a] BY DEF Rest
<1> HIDE DEF a, n
<1>4. d = [c EXCEPT !.queue = n, !.answer = a, !.work = c.work \cup work]
  BY <1>3 DEF Adding, Connection
<1>5. /\ d \in Connection /\ d.queue = n /\ d.answer = a /\ d.tx = c.tx
      /\ d.work = c.work \cup work
  BY <1>1, <1>2, <1>4 DEF Connection
<1>6. QED BY <1>2, <1>5 DEF n, Answers

\* Leaving two fields as they are is no change of them.
LEMMA RestAlone ==
  ASSUME TypeOK, NEW s \in Sessions, NEW c, c = server[s], c \in Connection, NEW outcome
  PROVE  Rest(s, outcome) = Reply(s, outcome, c.tx, c.work)
<1> DEFINE a == IF Awaited(s) THEN outcome ELSE "none"
           n == Tail(c.queue)
           r == [c EXCEPT !.queue = n, !.answer = a]
<1>1. Rest(s, outcome) = r BY DEF Rest
<1> HIDE DEF a, n
<1>2. r = [r EXCEPT !.tx = c.tx, !.work = c.work] BY DEF Connection
<1>3. QED BY <1>1, <1>2 DEF Reply

LEMMA ServeWorked ==
  ASSUME IInv, NEW s \in Sessions, Serve(s), NEW c, c = server[s]
  PROVE  \E d \in Connection :
           /\ server' = [server EXCEPT ![s] = d] /\ d.queue = Tail(c.queue)
           /\ Answers(s, c, d) /\ Worked(c.queue[1], c, d)
<1> DEFINE q == c.queue[1]
<1>1. /\ TypeOK /\ c \in Connection /\ ConnectionOK(s, c) /\ c.queue # <<>>
      /\ Head(c.queue) = q /\ 1 \in DOMAIN c.queue
      /\ c.tx \in BOOLEAN /\ c.work \in SUBSET (Plans \X Positions)
  <2>1. Stands(s, State(s), c) /\ c \in Connection BY StateStands
  <2>2. c.queue \in Seq(Query) /\ c.queue # <<>> BY <2>1 DEF Serve, Connection
  <2>3. QED BY <2>1, <2>2 DEF IInv, Stands, SessionOK, Connection
<1>2. q.kind = "write" => c.tx /\ q.write \in Plans \X Positions
  <2>1. q.kind = "write" => q.write \in Queued(c) BY <1>1, QueuedIff
  <2>2. QED BY <1>1, <2>1 DEF ConnectionOK, Pending
<1>3. q.kind = "begin" => c.work = {}
  BY <1>1 DEF ConnectionOK, Pending
<1> HIDE DEF q
<1>4. CASE server' = [server EXCEPT ![s] = Rest(s, "error")] /\ UNCHANGED committed
  <2>1. PICK d : d = Reply(s, "error", c.tx, c.work) OBVIOUS
  <2>2. d = Rest(s, "error") BY <1>1, <2>1, RestAlone
  <2>3. /\ d \in Connection /\ d.queue = Tail(c.queue) /\ Answers(s, c, d)
        /\ d.answer \in {"error", "none"} /\ d.tx = c.tx /\ d.work = c.work
    BY <1>1, <2>1, RestFields
  <2>4. Worked(q, c, d) BY <1>4, <2>3 DEF Worked
  <2>5. QED BY <1>4, <2>2, <2>3, <2>4 DEF q
<1>5. CASE /\ q.kind = "begin"
           /\ server' = [server EXCEPT ![s] = [Rest(s, "ok") EXCEPT !.tx = TRUE, !.work = {}]]
           /\ committed' = CommitAll(c.work)
  <2>0. PICK tx \in BOOLEAN, none \in SUBSET (Plans \X Positions) : tx = TRUE /\ none = {}
    OBVIOUS
  <2>1. PICK d : d = Reply(s, "ok", tx, none) OBVIOUS
  <2>2. /\ d \in Connection /\ d.queue = Tail(c.queue) /\ Answers(s, c, d)
        /\ d.tx = tx /\ d.work = none
    BY <1>1, <2>1, RestFields
  <2>3. committed' = committed
    <3>1. committed \in [Plans \X Positions -> Nat] BY <1>1 DEF TypeOK
    <3>2. CommitAll(c.work) = [w \in Plans \X Positions |-> committed[w]]
      BY <1>3, <1>5, <3>1 DEF CommitAll
    <3>3. QED BY <1>5, <3>1, <3>2
  <2>4. Worked(q, c, d) BY <1>3, <1>5, <2>0, <2>2, <2>3 DEF Worked
  <2>5. QED BY <1>5, <2>0, <2>1, <2>2, <2>4 DEF q, Reply
<1>6. CASE /\ q.kind = "commit"
           /\ server' = [server EXCEPT ![s] = [Rest(s, "ok") EXCEPT !.tx = FALSE, !.work = {}]]
           /\ committed' = CommitAll(c.work)
  <2>0. PICK tx \in BOOLEAN, none \in SUBSET (Plans \X Positions) : tx = FALSE /\ none = {}
    OBVIOUS
  <2>1. PICK d : d = Reply(s, "ok", tx, none) OBVIOUS
  <2>2. /\ d \in Connection /\ d.queue = Tail(c.queue) /\ Answers(s, c, d)
        /\ d.answer \in {"ok", "none"} /\ d.tx = FALSE /\ d.work = {}
    BY <1>1, <2>0, <2>1, RestFields
  <2>3. Worked(q, c, d) BY <1>6, <2>2 DEF Worked
  <2>4. QED BY <1>6, <2>0, <2>1, <2>2, <2>3 DEF q, Reply
<1>7. CASE /\ q.kind \in {"undo", "rollback", "idle"}
           /\ server' = [server EXCEPT ![s] = [Rest(s, "ok") EXCEPT !.tx = FALSE, !.work = {}]]
           /\ UNCHANGED committed
  <2>0. PICK tx \in BOOLEAN, none \in SUBSET (Plans \X Positions) : tx = FALSE /\ none = {}
    OBVIOUS
  <2>1. PICK d : d = Reply(s, "ok", tx, none) OBVIOUS
  <2>2. /\ d \in Connection /\ d.queue = Tail(c.queue) /\ Answers(s, c, d)
        /\ d.tx = FALSE /\ d.work = {}
    BY <1>1, <2>0, <2>1, RestFields
  <2>3. Worked(q, c, d) BY <1>7, <2>2 DEF Worked
  <2>4. QED BY <1>7, <2>0, <2>1, <2>2, <2>3 DEF q, Reply
<1>8. CASE /\ q.kind = "write" /\ c.tx
           /\ \E outcome \in {"ok", "error"} :
                server' = [server EXCEPT ![s] = [Rest(s, outcome) EXCEPT !.work = @ \cup {q.write}]]
           /\ UNCHANGED committed
  <2>1. PICK outcome \in {"ok", "error"} :
          server' = [server EXCEPT ![s] = [Rest(s, outcome) EXCEPT !.work = @ \cup {q.write}]]
    BY <1>8
  <2>2. PICK d : d = Adding(s, outcome, {q.write}) OBVIOUS
  <2>3. c.work \cup {q.write} \in SUBSET (Plans \X Positions) BY <1>1, <1>2, <1>8
  <2>4. /\ d \in Connection /\ d.queue = Tail(c.queue) /\ Answers(s, c, d)
        /\ d.tx = c.tx /\ d.work = c.work \cup {q.write}
    BY <1>1, <2>2, <2>3, AddedFields
  <2>5. Worked(q, c, d) BY <1>8, <2>4 DEF Worked
  <2>6. QED BY <2>1, <2>2, <2>4, <2>5 DEF q, Adding
<1>9. CASE /\ q.kind \in {"strict", "check", "read"}
           /\ server' = [server EXCEPT ![s] = Rest(s, "ok")] /\ UNCHANGED committed
  <2>1. PICK d : d = Reply(s, "ok", c.tx, c.work) OBVIOUS
  <2>2. d = Rest(s, "ok") BY <1>1, <2>1, RestAlone
  <2>3. /\ d \in Connection /\ d.queue = Tail(c.queue) /\ Answers(s, c, d)
        /\ d.tx = c.tx /\ d.work = c.work
    BY <1>1, <2>1, RestFields
  <2>4. Worked(q, c, d) BY <1>9, <2>3 DEF Worked
  <2>5. QED BY <1>9, <2>2, <2>3, <2>4 DEF q
<1>10. ~(q.kind = "write" /\ ~c.tx) BY <1>2
<1>11. QED BY <1>1, <1>4, <1>5, <1>6, <1>7, <1>8, <1>9, <1>10 DEF Serve

LEMMA ServeRest ==
  ASSUME NEW s \in Sessions, NEW c \in Connection, ConnectionOK(s, c), c.queue # <<>>,
         NEW d \in Connection, d.queue = Tail(c.queue)
  PROVE  /\ Len(d.queue) \in Nat /\ Len(c.queue) = Len(d.queue) + 1
         /\ d.queue = <<>> <=> Len(d.queue) = 0
         /\ \A k \in DOMAIN d.queue : k + 1 \in DOMAIN c.queue /\ d.queue[k] = c.queue[k + 1]
         /\ d.queue # <<>> => d.queue[Len(d.queue)] = c.queue[Len(c.queue)]
         /\ \A k \in DOMAIN d.queue : d.queue[k].kind # "write"
         /\ (\E k \in DOMAIN d.queue : d.queue[k].kind = "begin") => Pending(c) = {}
         /\ Pending(d) = d.work
<1>1. /\ Len(d.queue) \in Nat /\ Len(c.queue) = Len(d.queue) + 1
      /\ d.queue = <<>> <=> Len(d.queue) = 0
      /\ \A k \in DOMAIN d.queue : k + 1 \in DOMAIN c.queue /\ d.queue[k] = c.queue[k + 1]
      /\ d.queue # <<>> => d.queue[Len(d.queue)] = c.queue[Len(c.queue)]
      /\ DOMAIN d.queue \subseteq Nat \ {0}
  <2>1. PICK a \in Seq(Query) : a = c.queue BY DEF Connection
  <2>2. PICK b \in Seq(Query) : b = d.queue BY DEF Connection
  <2>3. a # <<>> /\ b = Tail(a) BY <2>1, <2>2
  <2>4. Len(b) \in Nat /\ Len(a) = Len(b) + 1 /\ DOMAIN b = 1..Len(b) /\ DOMAIN a = 1..Len(a)
    BY <2>3
  <2>5. \A k \in 1..Len(b) : b[k] = a[k + 1] BY <2>3, <2>4
  <2>6. b = <<>> <=> Len(b) = 0 OBVIOUS
  <2>7. b # <<>> => Len(b) \in 1..Len(b) BY <2>4, <2>6
  <2>8. b # <<>> => b[Len(b)] = a[Len(a)] BY <2>4, <2>5, <2>7
  <2>9. QED BY <2>1, <2>2, <2>4, <2>5, <2>6, <2>8
<1>2. \A k \in DOMAIN d.queue : d.queue[k].kind # "write"
  <2>1. \A k \in DOMAIN d.queue : k + 1 # 1 BY <1>1
  <2>2. QED BY <1>1, <2>1 DEF ConnectionOK
<1>3. (\E k \in DOMAIN d.queue : d.queue[k].kind = "begin") => Pending(c) = {}
  BY <1>1 DEF ConnectionOK
<1>4. Queued(d) = {} BY <1>2 DEF Queued
<1>5. QED BY <1>1, <1>2, <1>3, <1>4 DEF Pending

\* A write is committed while it is open, and by its own session.
LEMMA ServeShrinks ==
  ASSUME TypeOK, NEW s \in Sessions, NEW c \in Connection, ConnectionOK(s, c), c.queue # <<>>,
         NEW d \in Connection, d.queue = Tail(c.queue), NEW q, q = c.queue[1], Worked(q, c, d)
  PROVE  /\ Shrinks(s, c, d) /\ committed' \in [Plans \X Positions -> Nat]
         /\ q.kind # "commit" => UNCHANGED committed
         /\ ~UNCHANGED committed =>
              \A w \in c.work : w \in Plans \X Positions /\ committed'[w] = 1
<1>1. Pending(d) = d.work /\ c.work \subseteq Pending(c) BY ServeRest DEF Pending
<1>2. 1 \in DOMAIN c.queue /\ (q.kind = "write" => q.write \in Pending(c))
  <2>1. 1 \in DOMAIN c.queue BY DEF Connection
  <2>2. QED BY <2>1, QueuedIff DEF Pending
<1>3. /\ committed \in [Plans \X Positions -> Nat]
      /\ \A w \in Pending(c) : w \in Plans \X Positions /\ committed[w] = 0
  BY DEF TypeOK, ConnectionOK, Own
<1>4. CASE UNCHANGED committed
  <2>1. Pending(d) \subseteq Pending(c) BY <1>1, <1>2, <1>4 DEF Worked
  <2>2. QED BY <1>3, <1>4, <2>1 DEF Shrinks
<1>5. CASE q.kind = "commit" /\ d.work = {} /\ committed' = CommitAll(c.work)
  <2>1. committed' = [w \in Plans \X Positions |-> committed[w] + IF w \in c.work THEN 1 ELSE 0]
    BY <1>3, <1>5 DEF CommitAll
  <2>2. committed' \in [Plans \X Positions -> Nat] BY <1>3, <2>1
  <2>3. \A w \in Plans \X Positions :
          /\ w \in c.work => committed'[w] = 1
          /\ w \notin c.work => committed'[w] = committed[w]
    BY <1>1, <1>3, <2>1
  <2>4. \A w \in c.work : w \in Plans \X Positions BY <1>1, <1>3
  <2>5. QED BY <1>1, <1>5, <2>2, <2>3, <2>4 DEF Shrinks
<1>6. UNCHANGED committed \/ (q.kind = "commit" /\ d.work = {} /\ committed' = CommitAll(c.work))
  BY DEF Worked
<1>7. QED BY <1>4, <1>5, <1>6

\* The session that still has its connection reads the answer it waits for.
LEMMA ServeOpen ==
  ASSUME TypeOK, NEW s \in Sessions, NEW st, st = State(s), NEW c, c = server[s],
         Stands(s, st, c), c.queue # <<>>, st.r.child = "open",
         NEW d \in Connection, d.queue = Tail(c.queue), Answers(s, c, d),
         NEW q, q = c.queue[1], Worked(q, c, d), UNCHANGED <<tab, script>>
  PROVE  /\ OpenOK(st, d)'
         /\ \A w : PendingOK(s, st, c, w) => \/ PendingOK(s, st, d, w)'
                                             \/ st.at \in {"undo", "rollback", "idle"}
<1>1. /\ st \in StateSet /\ c \in Connection /\ ConnectionOK(s, c) /\ OpenOK(st, c)
      /\ AnswerOK(st, c) /\ FlagsOK(s, st)
  BY DEF Stands, SessionOK, OpenOK
<1>2. /\ Len(d.queue) \in Nat /\ Len(c.queue) = Len(d.queue) + 1
      /\ d.queue = <<>> <=> Len(d.queue) = 0
      /\ \A k \in DOMAIN d.queue : k + 1 \in DOMAIN c.queue /\ d.queue[k] = c.queue[k + 1]
      /\ d.queue # <<>> => d.queue[Len(d.queue)] = c.queue[Len(c.queue)]
  BY <1>1, ServeRest
<1>3. /\ c.answer = "none"
      /\ st.at \in Waits => c.queue[Len(c.queue)] = Asked(st)
      /\ st.at \in Waits /\ Len(c.queue) = 1 => q = Asked(st)
      /\ st.r.transaction # "active" => q.kind \in Harmless
      /\ st.r.transaction = "active" =>
           \/ st.at = "strict" /\ q.kind = "strict"
           \/ st.at = "check" /\ q.kind = "check"
           \/ st.at = "item" /\ q.kind \in {"read", "write"}
           \/ st.at = "commit" /\ q.kind = "commit" /\ Len(c.queue) = 1
           \/ /\ st.at \in {"undo", "rollback", "idle"}
              /\ q.kind \in {"undo", "rollback", "idle", "strict", "check", "read", "write"}
  BY <1>1, ServeKind
<1>4. d.answer = "none" <=> ~(Len(c.queue) = 1 /\ st.at \in Waits)
  BY DEF Answers, Awaited, State
<1>5. Items(st)' = Items(st) /\ Mode(st)' = Mode(st) /\ Item(st)' = Item(st)
  BY DEF Items, Mode, Item
<1>6. Asked(st)' = Asked(st) BY <1>5 DEF Asked
<1>7. ~UNCHANGED committed =>
        /\ q.kind = "commit" /\ d.answer # "error" /\ d.work = {}
        /\ \A w \in c.work : committed'[w] = 1
  <2>1. ~UNCHANGED committed => \A w \in c.work : committed'[w] = 1 BY <1>1, ServeShrinks
  <2>2. QED BY <2>1 DEF Worked
<1>8. st.at = "commit" => /\ q.kind = "commit" /\ Len(c.queue) = 1 /\ d.answer # "none"
                          /\ st.r.transaction = "active"
  <2>1. st.at = "commit" => st.r.transaction = "active" BY <1>1 DEF OpenOK, QuietOK
  <2>2. QED BY <1>3, <1>4, <2>1 DEF Waits
<1>9. st.at = "commit" => \A w \in c.work : w \in d.work \/ (d.answer = "ok" /\ committed'[w] = 1)
  <2>1. SUFFICES ASSUME st.at = "commit", NEW w \in c.work
                 PROVE  w \in d.work \/ (d.answer = "ok" /\ committed'[w] = 1)
    OBVIOUS
  <2>2. CASE UNCHANGED committed /\ d.work = c.work BY <2>2
  <2>3. CASE d.work = {} /\ d.answer # "error" /\ committed' = CommitAll(c.work)
    <3>1. d.answer = "ok" BY <1>8, <2>1, <2>3 DEF Connection
    <3>2. w \in Plans \X Positions /\ committed[w] = 0
      BY <1>1 DEF ConnectionOK, Pending, Own
    <3>3. w \in DOMAIN committed BY <3>2 DEF TypeOK
    <3>4. committed'[w] = 1 BY <2>3, <3>2, <3>3 DEF CommitAll
    <3>5. QED BY <3>1, <3>4
  <2>4. QED BY <1>8, <2>1, <2>2, <2>3 DEF Worked
<1>10. AnswerOK(st, d)'
  <2>1. d.answer # "none" => d.queue = <<>> /\ st.at \in Waits BY <1>2, <1>4
  <2>2. st.at \in Waits /\ d.answer = "none" =>
          d.queue # <<>> /\ d.queue[Len(d.queue)] = Asked(st)
    BY <1>2, <1>3, <1>4
  <2>3. ASSUME d.answer = "ok"
        PROVE  /\ st.at = "begin" => d.tx
               /\ st.at = "item" /\ Item(st) = "write" => <<st.r.ran, st.i>> \in d.work
               /\ st.at \in Endings => d.work = {}
    <3>1. q = Asked(st) BY <1>3, <1>4, <2>3
    <3>2. q.kind = (IF st.at = "item" THEN Item(st) ELSE st.at) /\ q.write = <<st.r.ran, st.i>>
      BY <3>1 DEF Asked
    <3>3. st.at = "begin" => d.tx BY <2>3, <3>2 DEF Worked
    <3>4. st.at = "item" /\ Item(st) = "write" => <<st.r.ran, st.i>> \in d.work
      BY <2>3, <3>2 DEF Worked
    <3>5. st.at \in Endings => d.work = {} BY <2>3, <3>2 DEF Worked, Endings
    <3>6. QED BY <3>3, <3>4, <3>5
  <2>4. ASSUME st.at = "commit" /\ st.i <= Len(Items(st)) /\ Item(st) = "write"
        PROVE  \/ <<st.r.ran, st.i>> \in d.work
               \/ d.answer = "ok" /\ committed'[<<st.r.ran, st.i>>] = 1
    <3>1. <<st.r.ran, st.i>> \in c.work BY <1>1, <1>3, <2>4 DEF AnswerOK
    <3>2. QED BY <1>9, <2>4, <3>1
  <2>5. QED BY <1>5, <1>6, <2>1, <2>2, <2>3, <2>4 DEF AnswerOK
<1>11. ASSUME st.r.transaction # "active" PROVE QuietOK(st, d)'
  <2>1. QuietOK(st, c) BY <1>1, <1>11 DEF OpenOK
  <2>2. d.work = {} BY <1>3, <1>11, <2>1 DEF Worked, QuietOK, Harmless
  <2>3. QED BY <1>2, <1>5, <2>1, <2>2 DEF QuietOK
<1>12. ASSUME st.r.transaction = "active" PROVE ActiveOK(st, d)'
  <2>1. ActiveOK(st, c) BY <1>1, <1>12 DEF OpenOK
  <2>2. st.at \notin {"none", "audit", "begin"} BY <2>1 DEF ActiveOK
  <2>3. Len(d.queue) <= (IF st.at = "rollback" THEN 2 ELSE 1) /\ Len(d.queue) # 2
    <3> DEFINE n == Len(d.queue)
    <3>1. n \in Nat /\ n + 1 <= IF st.at = "rollback" THEN 2 ELSE 1 BY <1>2, <2>1 DEF ActiveOK
    <3> HIDE DEF n
    <3>2. n <= (IF st.at = "rollback" THEN 2 ELSE 1) /\ n # 2 BY <3>1
    <3>3. QED BY <3>2 DEF n
  <2>4. st.at \notin Endings => d.tx
    <3>1. st.at \notin Endings => q.kind \in {"strict", "check", "read", "write"}
      BY <1>3, <1>12 DEF Endings
    <3>2. QED BY <2>1, <3>1 DEF Worked, ActiveOK
  <2>5. QED BY <2>2, <2>3, <2>4 DEF ActiveOK
<1>13. OpenOK(st, d)' BY <1>10, <1>11, <1>12 DEF OpenOK
<1>14. ASSUME NEW w, PendingOK(s, st, c, w), st.at \notin {"undo", "rollback", "idle"}
       PROVE  PendingOK(s, st, d, w)'
  <2>1. st.r.transaction = "active" BY <1>14 DEF PendingOK
  <2>2. CASE st.at = "commit"
    <3>1. w \in c.work BY <1>3, <1>14, <2>2 DEF PendingOK
    <3>2. w \in d.work \/ (d.answer = "ok" /\ committed'[w] = 1) BY <1>9, <2>2, <3>1
    <3>3. QED BY <2>1, <2>2, <3>2 DEF PendingOK, Endings
  <2>3. CASE st.at # "commit"
    <3>1. st.at \notin Endings BY <1>14, <2>3 DEF Endings
    <3>2. q.kind \in {"strict", "check", "read", "write"} BY <1>3, <2>1, <3>1 DEF Endings
    <3>3. c.work \subseteq d.work BY <3>2 DEF Worked
    <3>4. w \in d.work BY <1>14, <3>1, <3>3 DEF PendingOK
    <3>5. QED BY <1>14, <2>1, <2>3, <3>4 DEF PendingOK
  <2>4. QED BY <2>2, <2>3
<1>15. QED BY <1>13, <1>14

LEMMA ServeStep ==
  ASSUME IInv, NEW s \in Sessions, Serve(s)
  PROVE  IInv'
<1>1. PICK st : st = State(s) OBVIOUS
<1>2. PICK c : c = server[s] OBVIOUS
<1>3. PICK q : q = c.queue[1] OBVIOUS
<1>4. /\ Stands(s, st, c) /\ st.r = session[s] /\ c \in Connection /\ ConnectionOK(s, c)
      /\ c.queue # <<>>
  BY <1>1, <1>2, StateStands DEF Stands, SessionOK, Serve
<1>5. TypeOK BY DEF IInv
<1>6. UNCHANGED <<tab, script, session, run, desk, edit, disconnect, losses>> BY DEF Serve
<1>7. PICK d \in Connection :
        /\ server' = [server EXCEPT ![s] = d] /\ d.queue = Tail(c.queue)
        /\ Answers(s, c, d) /\ Worked(q, c, d)
  BY <1>2, <1>3, ServeWorked
<1>8. \A t \in Sessions \ {s} : server'[t] = server[t] BY <1>5, <1>7 DEF TypeOK
<1>9. /\ Shrinks(s, c, d) /\ committed' \in [Plans \X Positions -> Nat]
      /\ q.kind # "commit" => UNCHANGED committed
  BY <1>3, <1>4, <1>5, <1>7, ServeShrinks
<1>10. /\ \A k \in DOMAIN d.queue : d.queue[k].kind # "write"
       /\ (\E k \in DOMAIN d.queue : d.queue[k].kind = "begin") => Pending(c) = {}
  BY <1>4, <1>7, ServeRest
<1>11. st.r.child = "open" =>
         /\ OpenOK(st, d)'
         /\ \A w : PendingOK(s, st, c, w) => \/ PendingOK(s, st, d, w)'
                                             \/ st.at \in {"undo", "rollback", "idle"}
  BY <1>1, <1>2, <1>3, <1>4, <1>5, <1>6, <1>7, ServeOpen
<1>12. OpenOK(st, d)' BY <1>11 DEF OpenOK
<1>13. st.r.child = "open" /\ st.at # "commit" => UNCHANGED committed
  <2>1. ASSUME st.r.child = "open", st.at # "commit" PROVE q.kind # "commit"
    BY <1>3, <1>4, <1>5, <2>1, ServeKind DEF Harmless
  <2>2. QED BY <1>9, <2>1
<1>14. ASSUME NEW w \in Plans \X Positions, PendingOK(s, st, c, w)
       PROVE  PendingOK(s, st, d, w)'
  <2>1. st.r.child = "open" BY <1>14 DEF PendingOK
  <2>2. CASE st.at \in {"undo", "rollback", "idle"}
    <3>1. committed'[w] = committed[w] BY <1>13, <2>1, <2>2
    <3>2. Own(s, w)' BY <1>8, <1>9, <1>14, <2>2, <3>1, ServedClean DEF PendingOK
    <3>3. QED BY <1>14, <2>2, <3>2 DEF PendingOK, Endings
  <2>3. CASE st.at \notin {"undo", "rollback", "idle"} BY <1>11, <1>14, <2>1, <2>3
  <2>4. QED BY <2>2, <2>3
<1>15. SessionOK(s, st, d)'
  BY <1>4, <1>5, <1>6, <1>8, <1>9, <1>10, <1>12, <1>13, <1>14, ServedOK
<1>16. QED BY <1>1, <1>2, <1>6, <1>7, <1>9, <1>15, ServerStep

-----------------------------------------------------------------------------
(* The theorems.                                                             *)

LEMMA InitInv ==
  ASSUME Init
  PROVE  IInv
<1>1. /\ tab = None /\ script = <<>> /\ session = [s \in Sessions |-> Fresh]
      /\ run = [s \in Sessions |-> [at |-> "none", i |-> 0]]
      /\ server = [s \in Sessions |-> Silent]
      /\ committed = [w \in Plans \X Positions |-> 0]
      /\ desk = "idle" /\ edit = "none" /\ disconnect = FALSE /\ losses = 0
  BY DEF Init
<1>2. Fresh \in SessionRecord
  <2>1. <<>> \in Seq(Effects) /\ 0 \in 0..MaxPlans BY BoundsAssumption
  <2>2. QED BY <2>1 DEF Fresh, SessionRecord
<1>3. Silent \in Connection /\ Pending(Silent) = {} /\ Silent.queue = <<>>
      /\ Silent.work = {} /\ Silent.answer = "none"
  BY DEF Silent, Connection, Pending, Queued
<1>4. TypeOK
  <2>1. script \in Seq(Scripts) /\ Len(script) = 0 BY <1>1
  <2>2. losses \in 0..MaxLosses /\ Len(script) <= MaxPlans BY <1>1, <2>1, BoundsAssumption
  <2>3. QED BY <1>1, <1>2, <1>3, <2>1, <2>2 DEF TypeOK
<1>5. AppliedOnce BY <1>1 DEF AppliedOnce
<1>6. \A s \in Sessions : session[s] = Fresh /\ server[s] = Silent BY <1>1
<1>7. \A w \in Plans \X Positions : \A s \in Sessions : Clean(s, Silent, w)
  BY <1>1, <1>3, <1>6 DEF Clean, Own
<1>8. PlansApart
  <2>1. \A s \in Sessions : session[s].plan <= Len(script) BY <1>1 DEF Fresh
  <2>2. \A s \in Sessions : Numbers(session[s]) = {} BY <1>6 DEF Numbers, Fresh
  <2>3. \A p \in Plans, k \in Positions :
          committed[<<p, k>>] = 0 /\ \A t \in Sessions : <<p, k>> \notin Pending(server[t])
    BY <1>1, <1>3, <1>6
  <2>4. QED BY <2>1, <2>2, <2>3 DEF PlansApart
<1>9. ScriptsOK BY <1>1 DEF ScriptsOK
<1>10. CuttingOK BY <1>1 DEF CuttingOK
<1>11. ASSUME NEW s \in Sessions PROVE SessionOK(s, State(s), server[s])
  <2>1. PICK st : st = State(s) OBVIOUS
  <2>2. st = [r |-> Fresh, at |-> "none", i |-> 0, send |-> <<>>] BY <1>1, <2>1 DEF State
  <2>3. /\ st.r = Fresh /\ st.at = "none" /\ st.at \notin Working /\ st.at \notin Waits
    BY <2>2 DEF Working, Waits
  <2>4. /\ ~st.r.made /\ st.r.plan = 0 /\ st.r.ran = 0 /\ ~st.r.used /\ ~st.r.busy
        /\ ~st.r.released /\ st.r.child = "none" /\ st.r.transaction = "none"
        /\ st.r.status = "idle" /\ st.r.results = <<>>
    BY <2>3 DEF Fresh
  <2>5. AheadOK(s, st, Silent) BY <2>3, <2>4 DEF AheadOK
  <2>6. PlaceOK(st) BY <2>3, <2>4 DEF PlaceOK
  <2>7. FlagsOK(s, st) BY <1>1, <2>3, <2>4, NoneAssumption DEF FlagsOK
  <2>8. ConnectionOK(s, Silent) BY <1>3 DEF ConnectionOK
  <2>9. OpenOK(st, Silent) BY <2>4 DEF OpenOK
  <2>10. RowsOK(s, st, Silent) BY <2>4 DEF RowsOK
  <2>11. SessionOK(s, st, Silent) BY <2>5, <2>6, <2>7, <2>8, <2>9, <2>10 DEF SessionOK
  <2>12. QED BY <1>6, <2>1, <2>11
<1>12. QED BY <1>4, <1>5, <1>8, <1>9, <1>10, <1>11 DEF IInv

LEMMA NextInv ==
  ASSUME IInv, [Next]_vars
  PROVE  IInv'
<1>1. CASE Admit \/ Refused \/ EditBegins \/ EditGivesUp \/ EditEnds BY <1>1, RequestStep
<1>2. CASE DisconnectAsked \/ UNCHANGED vars BY <1>2, AskedStep
<1>3. CASE EditDrained BY <1>3, DrainedStep
<1>4. CASE EditCuts \/ Disconnects BY <1>4, ClosesStep
<1>5. ASSUME NEW s \in Sessions, Step(s) PROVE IInv'
  <2>1. CASE Execute(s) BY <2>1, ExecuteStep
  <2>2. CASE \E p \in Scripts : Prepare(s, p) BY <2>2, PrepareStep
  <2>3. CASE Audited(s) BY <2>3, AuditedStep
  <2>4. CASE Opened(s) BY <2>4, OpenedStep
  <2>5. CASE Answered(s) \/ TimedOut(s) \/ Rejected(s) BY <2>5, WaitStep
  <2>6. CASE Serve(s) BY <2>6, ServeStep
  <2>7. CASE Dropped(s) BY <2>7, DroppedStep
  <2>8. CASE Lose(s) BY <2>8, LoseStep
  <2>9. CASE Stop(s) BY <2>9, StopStep
  <2>10. CASE Release(s) BY <2>10, ReleaseStep
  <2>11. CASE Idles(s) BY <2>11, IdlesStep
  <2>12. QED
    BY <1>5, <2>1, <2>2, <2>3, <2>4, <2>5, <2>6, <2>7, <2>8, <2>9, <2>10, <2>11 DEF Step
<1>6. QED BY <1>1, <1>2, <1>3, <1>4, <1>5 DEF Next, Edits

\* Every state the sessions, the database and the edits reach keeps the
\* inductive invariant, the type invariant among its parts.
THEOREM IInvariant == Spec => []IInv
<1>1. Init => IInv BY InitInv
<1>2. IInv /\ [Next]_vars => IInv' BY NextInv
<1>3. QED BY <1>1, <1>2, PTL DEF Spec

LEMMA RowsTold ==
  ASSUME IInv, NEW s \in Sessions, Live(s), NEW k \in Writes(s)
  PROVE  LET effect == session[s].results[k]
             w == WriteOf(s, k)
         IN /\ effect = "committed" => committed[w] = 1
            /\ effect \in {"none", "rolledBack"} =>
                 committed[w] = 0 /\ \A t \in Sessions : w \notin Pending(server[t])
            /\ effect = "pending" => /\ session[s].transaction = "active"
                                     /\ committed[w] = 0 \/ run[s].at = "commit"
            /\ session[s].status = "success" =>
                 \/ effect \in {"committed", "pending"}
                 \/ effect = "rolledBack" /\ TakenBack(ItemsOf(s), k)
<1> DEFINE effect == session[s].results[k]
           w == WriteOf(s, k)
<1>1. PICK st : st = State(s) OBVIOUS
<1>2. PICK c : c = server[s] OBVIOUS
<1>3. /\ st.r = session[s] /\ st.at = run[s].at /\ ConnectionOK(s, c) /\ RowsOK(s, st, c)
  BY <1>1, <1>2, StateStands DEF Stands, SessionOK
<1>4. Items(st) = ItemsOf(s) BY <1>3 DEF Items, ItemsOf
<1>5. RowOK(s, st, c, k) BY <1>3, <1>4 DEF RowsOK, Writes, Live
<1>6. w = <<st.r.ran, k>> /\ effect = st.r.results[k] BY <1>3 DEF WriteOf
<1> HIDE DEF w, effect
<1>7. effect = "committed" => committed[w] = 1 BY <1>5, <1>6 DEF RowOK
<1>8. effect \in {"none", "rolledBack"} =>
        committed[w] = 0 /\ \A t \in Sessions : w \notin Pending(server[t])
  BY <1>2, <1>5, <1>6 DEF RowOK, Clean, Own
<1>9. effect = "pending" => /\ session[s].transaction = "active"
                            /\ committed[w] = 0 \/ run[s].at = "commit"
  <2>1. HAVE effect = "pending"
  <2>2. PendingOK(s, st, c, w) BY <1>5, <1>6, <2>1 DEF RowOK
  <2>3. w \in c.work => committed[w] = 0 BY <1>3 DEF ConnectionOK, Pending, Own
  <2>4. QED BY <1>3, <2>2, <2>3 DEF PendingOK, Own, Endings
<1>10. session[s].status = "success" =>
         \/ effect \in {"committed", "pending"}
         \/ effect = "rolledBack" /\ TakenBack(ItemsOf(s), k)
  BY <1>3, <1>4, <1>5, <1>6 DEF RowOK, Told
<1>11. QED BY <1>7, <1>8, <1>9, <1>10 DEF w, effect

\* What a tab reports of each write is what became of it in the database,
\* after any stop, lost connection, time limit and late answer
\* (sql-session.mjs: effects, execute).
THEOREM OutcomesTrue == Spec => []OutcomeTruthful
<1>1. IInv => OutcomeTruthful BY RowsTold DEF IInv, OutcomeTruthful
<1>2. QED BY <1>1, IInvariant, PTL

\* No statement takes effect twice, whatever is delivered again and whatever
\* happened to its answer (sql-session.mjs: a plan is used before anything is
\* awaited, and a COMMIT is never asked again).
THEOREM WritesOnce == Spec => []AppliedOnce
<1>1. IInv => AppliedOnce BY DEF IInv
<1>2. QED BY <1>1, IInvariant, PTL

LEMMA SparedByEdits ==
  ASSUME IInv, edit = "cutting", NEW s \in Sessions, session[s].child = "open"
  PROVE  session[s].transaction = "none" /\ run[s].at = "none" /\ Pending(server[s]) = {}
<1>1. PICK st : st = State(s) OBVIOUS
<1>2. PICK c : c = server[s] OBVIOUS
<1>3. /\ st.r = session[s] /\ FlagsOK(s, st) /\ ConnectionOK(s, c) /\ OpenOK(st, c)
  BY <1>1, <1>2, StateStands DEF Stands, SessionOK
<1>4. Live(s) BY <1>3 DEF FlagsOK, Live
<1>5. session[s].transaction = "none" /\ run[s].at = "none" BY <1>4, CuttingSession
<1>6. QuietOK(st, c) BY <1>3, <1>5 DEF OpenOK
<1>7. Queued(c) = {} BY <1>6 DEF QuietOK, Queued, Harmless
<1>8. QED BY <1>2, <1>5, <1>6, <1>7 DEF QuietOK, Pending

\* A configuration edit that passed the idle check cuts no statement and no
\* open transaction, on the client or in the database
\* (sql-session.mjs: assertScopeIdle, under the fence of the edit).
THEOREM EditsSpare == Spec => []EditSparesTransactions
<1>1. IInv => EditSparesTransactions BY SparedByEdits DEF EditSparesTransactions
<1>2. QED BY <1>1, IInvariant, PTL

-----------------------------------------------------------------------------
(* PluginRoutes: the route of a plugin and those who take it.                *)

\* From the assumption of the instance.
LEMMA AttemptsKnown == None \notin Attempts
  BY PluginWorkAssumption DEF Routes!RoutesAssumption

\* The stages of an attempt.
Stages == {"idle", "quitting", "closing", "vault", "clearing", "opening", "dialing", "failing", "ended"}

\* An attempt, or nobody.
MaybeAttempt == Attempts \cup {None}

\* What is known of a call of connect.
AttemptRecord ==
  [at : Stages,
   aborted : BOOLEAN, quits : MaybeAttempt]

\* The route of the plugin.
RouteRecord == [cur : MaybeAttempt, gen : MaybeAttempt \cup {Nobody}, open : SUBSET Attempts]

\* The types.
RouteTypes ==
  /\ kind \in {"relay", "socket"}
  /\ owner \in MaybeAttempt /\ live \in MaybeAttempt
  /\ attempt \in [Attempts -> AttemptRecord]
  /\ leaving \in [Leavers -> [at : {"idle", "quitting", "done"}, quits : MaybeAttempt]]
  /\ route \in RouteRecord
  /\ loose \in Nat

\* The one route that is open is the current one.
Tidy(rt) == rt.open = {rt.cur} \ {None}

\* What is quit had connected, and the connection is no longer due to it.
Departed(s) == s # None => attempt[s].at = "ended" /\ owner # s

\* A call that quits a session knows which; nothing else is being closed.
QuitsOK ==
  /\ \A a \in Attempts : (attempt[a].at = "quitting" <=> attempt[a].quits # None) /\ Departed(attempt[a].quits)
  /\ \A d \in Leavers : (leaving[d].at = "quitting" <=> leaving[d].quits # None) /\ Departed(leaving[d].quits)

\* A relay takes time to close, a socket to open.
ByKind ==
  /\ \A a \in Attempts : /\ attempt[a].at \in {"closing", "clearing"} => kind = "relay"
                         /\ attempt[a].at = "opening" => kind = "socket"
  /\ loose > 0 => kind = "relay"

\* The newest attempt has the say: no other is under way that has not been aborted; there is
\* no session beside it but the one it quits; where its route is to be nothing stands, and
\* its generation and route are its own.
Newest ==
  /\ \A a, b \in Attempts : Routes!UnderWay(a) /\ Routes!UnderWay(b) /\ ~attempt[a].aborted /\ ~attempt[b].aborted => a = b
  /\ \A a \in Attempts :
       /\ Routes!UnderWay(a) /\ (~attempt[a].aborted \/ owner = a) => live \in {None, attempt[a].quits}
       /\ attempt[a].at \in {"opening", "clearing"} /\ ~attempt[a].aborted => route.cur = None
       /\ attempt[a].at = "opening" /\ Routes!Owned(a) => route.gen = a
       /\ attempt[a].at = "dialing" /\ Routes!Owned(a) => route.cur = a
  /\ owner # None => Routes!UnderWay(owner) \/ live = owner

\* A session is that of an attempt that is over, and has its route unless it is being closed.
SessionStands ==
  /\ live # None => attempt[live].at = "ended"
  /\ live # None /\ ~Routes!Closing(live) => route.cur = live

\* A route belongs to a session, to one that is being closed, or to a driver at work.
CurOwned == route.cur # None =>
   live = route.cur \/ Routes!Closing(route.cur) \/ attempt[route.cur].at \in {"dialing", "failing"}

\* A generation without a route will be forgotten by somebody.
GenOwned == route.cur = None /\ route.gen # None =>
   \/ loose > 0
   \/ \E a \in Attempts : attempt[a].at \in {"closing", "clearing"}
   \/ route.gen \in Attempts /\ attempt[route.gen].at = "opening"

\* The invariant.
RouteInv == RouteTypes /\ Tidy(route) /\ QuitsOK /\ ByKind /\ Newest /\ SessionStands /\ CurOwned /\ GenOwned

\* What closing for the generation e makes of the route rt.
Shut(rt, e, q) ==
  /\ q \in RouteRecord /\ Tidy(q)
  /\ IF e # None /\ rt.cur # e
       THEN q.cur = rt.cur /\ (rt.gen # e => q.gen = rt.gen)
       ELSE q.cur = None
  /\ q.cur = None /\ q.gen # None => 
       Routes!CloseWaits(rt, e) \/ (e # None /\ rt.cur = None /\ q.gen = rt.gen)

\* closeRelay: another generation is left alone, what is closed is closed.
LEMMA ClosedFacts ==
  ASSUME NEW rt \in RouteRecord, Tidy(rt), NEW e \in MaybeAttempt
  PROVE  Shut(rt, e, Routes!Closed(rt, e))
<1> DEFINE g == IF e = None THEN Nobody ELSE rt.gen
           left == [cur |-> None, open |-> rt.open \ {rt.cur}, gen |-> g]
<1>1. CASE Routes!Foreign(rt, e)
  <2>1. rt.cur # e /\ e # None /\ Routes!Closed(rt, e) = Routes!Stale(rt, e)
    BY <1>1 DEF Routes!Closed, Routes!Foreign
  <2>2. CASE rt.cur = None /\ rt.gen = e
    BY <2>1, <2>2 DEF Routes!Stale, Shut, RouteRecord, Tidy
  <2>3. CASE ~(rt.cur = None /\ rt.gen = e)
    <3>1. Routes!Stale(rt, e) = rt
      BY <2>3 DEF Routes!Stale
    <3> QED BY <2>1, <3>1 DEF Shut
  <2> QED BY <2>2, <2>3
<1>2. CASE ~Routes!Foreign(rt, e)
  <2>1. e = None \/ rt.cur = e
    BY <1>2 DEF Routes!Foreign
  <2>2. left \in RouteRecord /\ left.open = {} /\ left.cur = None
    BY AttemptsKnown DEF RouteRecord, Tidy, MaybeAttempt
  <2>3. Routes!Closed(rt, e) = IF Routes!CloseWaits(rt, e) THEN left ELSE Routes!Reclaimed(left)
    BY <1>2 DEF Routes!Closed
  <2> HIDE DEF left
  <2>4. Routes!Reclaimed(left) \in RouteRecord /\ Routes!Reclaimed(left).open = {} /\ Routes!Reclaimed(left).cur = None
        /\ Routes!Reclaimed(left).gen = None
    BY <2>2 DEF Routes!Reclaimed, RouteRecord, MaybeAttempt
  <2>5. CASE Routes!CloseWaits(rt, e)
    BY <2>1, <2>2, <2>3, <2>5 DEF Shut, Tidy
  <2>6. CASE ~Routes!CloseWaits(rt, e)
    BY <2>1, <2>3, <2>4, <2>6 DEF Shut, Tidy
  <2> QED BY <2>5, <2>6
<1> QED BY <1>1, <1>2

\* The same, when nobody waits for it.
LEMMA LooselyFacts ==
  ASSUME NEW rt \in RouteRecord, Tidy(rt), NEW e \in MaybeAttempt, loose \in Nat, Routes!ClosesLoosely(rt, e)
  PROVE  /\ Shut(rt, e, route') /\ loose' \in Nat /\ loose' >= loose
         /\ Routes!CloseWaits(rt, e) => loose' > 0
         /\ loose' > 0 => loose > 0 \/ kind = "relay"
<1>1. Shut(rt, e, route')
  BY ClosedFacts DEF Routes!ClosesLoosely
<1>2. CASE Routes!CloseWaits(rt, e)
  BY <1>1, <1>2 DEF Routes!ClosesLoosely, Routes!CloseWaits
<1>3. CASE ~Routes!CloseWaits(rt, e)
  BY <1>1, <1>3 DEF Routes!ClosesLoosely
<1> QED BY <1>2, <1>3

\* After the wait of closeRelay.
LEMMA ReclaimedFacts ==
  ASSUME NEW rt \in RouteRecord, Tidy(rt)
  PROVE  /\ Routes!Reclaimed(rt) \in RouteRecord /\ Tidy(Routes!Reclaimed(rt)) /\ Routes!Reclaimed(rt).cur = rt.cur
         /\ IF rt.cur = None THEN Routes!Reclaimed(rt).gen = None ELSE Routes!Reclaimed(rt).gen = rt.gen
BY DEF Routes!Reclaimed, RouteRecord, Tidy, MaybeAttempt

\* A route that is opened where there was none.
LEMMA UpFacts ==
  ASSUME NEW rt \in RouteRecord, Tidy(rt), rt.cur = None, NEW a \in Attempts,
         NEW up, up = [cur |-> a, gen |-> a, open |-> rt.open \cup {a}]
  PROVE  up \in RouteRecord /\ Tidy(up) /\ up.cur = a /\ up.gen = a
BY AttemptsKnown DEF RouteRecord, Tidy, MaybeAttempt

\* What the provers need of the types.
Known ==
  /\ \A b \in Attempts : attempt[b].quits \in Attempts \cup {None}
  /\ \A e \in Leavers : leaving[e].quits \in Attempts \cup {None}
  /\ route.cur \in Attempts \cup {None} /\ owner \in Attempts \cup {None}
  /\ live \in Attempts \cup {None} /\ None \notin Attempts /\ loose \in Nat

\* 
LEMMA TypeFacts ==
  ASSUME RouteTypes
  PROVE  Known
BY AttemptsKnown DEF RouteTypes, AttemptRecord, RouteRecord, MaybeAttempt, Known

\* An attempt that goes on to another stage.
LEMMA AtFacts ==
  ASSUME RouteTypes, NEW a \in Attempts, NEW stage, stage \in Stages, Routes!At(a, stage)
  PROVE  /\ attempt' \in [Attempts -> AttemptRecord]
         /\ attempt'[a].at = stage /\ attempt'[a].quits = None
         /\ attempt'[a].aborted <=> attempt[a].aborted
         /\ \A b \in Attempts : b # a => attempt'[b] = attempt[b]
<1> DEFINE r == [attempt[a] EXCEPT !.at = stage, !.quits = None]
<1>1. attempt \in [Attempts -> AttemptRecord] /\ attempt[a] \in AttemptRecord
  BY DEF RouteTypes
<1>2. attempt' = [attempt EXCEPT ![a] = r]
  BY <1>1 DEF Routes!At
<1>3. r \in AttemptRecord /\ r.at = stage /\ r.quits = None /\ r.aborted = attempt[a].aborted
  BY <1>1 DEF AttemptRecord, MaybeAttempt
<1> HIDE DEF r
<1> QED BY <1>1, <1>2, <1>3

\* The driver has connected.
LEMMA ConnectedStep ==
  ASSUME RouteInv, NEW a \in Attempts, Routes!Connected(a)
  PROVE  RouteInv'
<1>0. /\ RouteTypes /\ Tidy(route) /\ QuitsOK /\ ByKind /\ Newest
      /\ SessionStands /\ CurOwned /\ GenOwned /\ Known
  BY TypeFacts DEF RouteInv
<1>1. attempt[a].at = "dialing" /\ Routes!Owned(a) /\ live' = a /\ kind' = kind /\ owner' = owner
      /\ leaving' = leaving /\ route' = route /\ loose' = loose
  BY DEF Routes!Connected
<1>2. /\ attempt' \in [Attempts -> AttemptRecord]
      /\ attempt'[a].at = "ended" /\ attempt'[a].quits = None
      /\ attempt'[a].aborted <=> attempt[a].aborted
      /\ \A b \in Attempts : b # a => attempt'[b] = attempt[b]
  BY <1>0, AtFacts DEF Routes!Connected, Stages
<1>91. RouteTypes'
  BY <1>0, <1>1, <1>2 DEF RouteTypes, Known, MaybeAttempt
<1>92. Tidy(route')
  BY <1>0, <1>1, <1>2 DEF Known, MaybeAttempt
<1>93. QuitsOK'
  BY <1>0, <1>1, <1>2 DEF QuitsOK, Departed, Routes!UnderWay, SessionStands, Newest, Routes!Owned, Known, MaybeAttempt
<1>94. ByKind'
  BY <1>0, <1>1, <1>2 DEF ByKind, Known, MaybeAttempt
<1>95. Newest'
  BY <1>0, <1>1, <1>2 DEF Newest, Routes!UnderWay, Routes!Owned, SessionStands, QuitsOK, Departed, ByKind, Known, MaybeAttempt
<1>96. SessionStands'
  BY <1>0, <1>1, <1>2 DEF SessionStands, Routes!Closing, QuitsOK, Departed, Newest, Routes!UnderWay, Routes!Owned, Known, MaybeAttempt
<1>97. CurOwned'
  BY <1>0, <1>1, <1>2 DEF CurOwned, Routes!Closing, QuitsOK, Departed, SessionStands, Newest, Routes!UnderWay, Routes!Owned, ByKind, Known, MaybeAttempt
<1>98. GenOwned'
  BY <1>0, <1>1, <1>2 DEF GenOwned, Newest, ByKind, Routes!UnderWay, Known, MaybeAttempt
<1> QED BY <1>91, <1>92, <1>93, <1>94, <1>95, <1>96, <1>97, <1>98 DEF RouteInv

\* The driver fails.
LEMMA FailsStep ==
  ASSUME RouteInv, NEW a \in Attempts, Routes!Fails(a)
  PROVE  RouteInv'
<1>0. /\ RouteTypes /\ Tidy(route) /\ QuitsOK /\ ByKind /\ Newest
      /\ SessionStands /\ CurOwned /\ GenOwned /\ Known
  BY TypeFacts DEF RouteInv
<1>1. attempt[a].at = "dialing" /\ live' = live /\ kind' = kind /\ owner' = owner
      /\ leaving' = leaving /\ route' = route /\ loose' = loose
  BY DEF Routes!Fails
<1>2. /\ attempt' \in [Attempts -> AttemptRecord]
      /\ attempt'[a].at = "failing" /\ attempt'[a].quits = None
      /\ attempt'[a].aborted <=> attempt[a].aborted
      /\ \A b \in Attempts : b # a => attempt'[b] = attempt[b]
  BY <1>0, AtFacts DEF Routes!Fails, Stages
<1>91. RouteTypes'
  BY <1>0, <1>1, <1>2 DEF RouteTypes, Known, MaybeAttempt
<1>92. Tidy(route')
  BY <1>0, <1>1, <1>2 DEF Known, MaybeAttempt
<1>93. QuitsOK'
  BY <1>0, <1>1, <1>2 DEF QuitsOK, Departed, Routes!UnderWay, SessionStands, Newest, Routes!Owned, Known, MaybeAttempt
<1>94. ByKind'
  BY <1>0, <1>1, <1>2 DEF ByKind, Known, MaybeAttempt
<1>95. Newest'
  BY <1>0, <1>1, <1>2 DEF Newest, Routes!UnderWay, Routes!Owned, SessionStands, QuitsOK, Departed, ByKind, Known, MaybeAttempt
<1>96. SessionStands'
  BY <1>0, <1>1, <1>2 DEF SessionStands, Routes!Closing, QuitsOK, Departed, Newest, Routes!UnderWay, Routes!Owned, Known, MaybeAttempt
<1>97. CurOwned'
  BY <1>0, <1>1, <1>2 DEF CurOwned, Routes!Closing, QuitsOK, Departed, SessionStands, Newest, Routes!UnderWay, Routes!Owned, ByKind, Known, MaybeAttempt
<1>98. GenOwned'
  BY <1>0, <1>1, <1>2 DEF GenOwned, Newest, ByKind, Routes!UnderWay, Known, MaybeAttempt
<1> QED BY <1>91, <1>92, <1>93, <1>94, <1>95, <1>96, <1>97, <1>98 DEF RouteInv

\* A failed attempt closes its own route.
LEMMA FailedStep ==
  ASSUME RouteInv, NEW a \in Attempts, Routes!Failed(a)
  PROVE  RouteInv'
<1>0. /\ RouteTypes /\ Tidy(route) /\ QuitsOK /\ ByKind /\ Newest
      /\ SessionStands /\ CurOwned /\ GenOwned /\ Known
  BY TypeFacts DEF RouteInv
<1>1. attempt[a].at = "failing" /\ live' = live /\ kind' = kind
      /\ owner' = (IF owner = a THEN None ELSE owner) /\ leaving' = leaving
  BY DEF Routes!Failed, Routes!Ends
<1>2. /\ attempt' \in [Attempts -> AttemptRecord]
      /\ attempt'[a].at = "ended" /\ attempt'[a].quits = None
      /\ attempt'[a].aborted <=> attempt[a].aborted
      /\ \A b \in Attempts : b # a => attempt'[b] = attempt[b]
  BY <1>0, AtFacts DEF Routes!Failed, Routes!Ends, Stages
<1>3. /\ Shut(route, a, route') /\ loose' \in Nat /\ loose' >= loose
      /\ Routes!CloseWaits(route, a) => loose' > 0
      /\ loose' > 0 => loose > 0 \/ kind = "relay"
  BY <1>0, LooselyFacts DEF Routes!Failed, RouteTypes, MaybeAttempt
<1>91. RouteTypes'
  BY <1>0, <1>1, <1>2, <1>3 DEF RouteTypes, Shut, Known, MaybeAttempt
<1>92. Tidy(route')
  BY <1>0, <1>1, <1>2, <1>3 DEF Shut, Known, MaybeAttempt
<1>93. QuitsOK'
  BY <1>0, <1>1, <1>2, <1>3 DEF QuitsOK, Departed, Routes!UnderWay, SessionStands, Newest, Routes!Owned, Shut, Known, MaybeAttempt
<1>94. ByKind'
  BY <1>0, <1>1, <1>2, <1>3 DEF ByKind, Shut, Known, MaybeAttempt
<1>95. Newest'
  BY <1>0, <1>1, <1>2, <1>3 DEF Newest, Routes!UnderWay, Routes!Owned, SessionStands, QuitsOK, Departed, ByKind, Shut, Known, MaybeAttempt
<1>96. SessionStands'
  BY <1>0, <1>1, <1>2, <1>3 DEF SessionStands, Routes!Closing, QuitsOK, Departed, Newest, Routes!UnderWay, Routes!Owned, Shut, Known, MaybeAttempt
<1>97. CurOwned'
  BY <1>0, <1>1, <1>2, <1>3 DEF CurOwned, Routes!Closing, QuitsOK, Departed, SessionStands, Newest, Routes!UnderWay, Routes!Owned, ByKind, Shut, Known, MaybeAttempt
<1>98. GenOwned'
  BY <1>0, <1>1, <1>2, <1>3 DEF GenOwned, Newest, ByKind, Routes!UnderWay, Shut, Known, MaybeAttempt
<1> QED BY <1>91, <1>92, <1>93, <1>94, <1>95, <1>96, <1>97, <1>98 DEF RouteInv

\* The wait of a call of closeRelay is over.
LEMMA LooseEndsStep ==
  ASSUME RouteInv, Routes!LooseEnds
  PROVE  RouteInv'
<1>0. /\ RouteTypes /\ Tidy(route) /\ QuitsOK /\ ByKind /\ Newest
      /\ SessionStands /\ CurOwned /\ GenOwned /\ Known
  BY TypeFacts DEF RouteInv
<1>1. loose > 0 /\ loose' = loose - 1 /\ kind' = kind /\ owner' = owner /\ live' = live
      /\ attempt' = attempt /\ leaving' = leaving
  BY DEF Routes!LooseEnds
<1>2. /\ route' \in RouteRecord /\ Tidy(route') /\ route'.cur = route.cur
      /\ IF route.cur = None THEN route'.gen = None ELSE route'.gen = route.gen
  BY <1>0, ReclaimedFacts DEF Routes!LooseEnds, RouteTypes
<1>91. RouteTypes'
  BY <1>0, <1>1, <1>2 DEF RouteTypes, Known, MaybeAttempt
<1>92. Tidy(route')
  BY <1>0, <1>1, <1>2 DEF Known, MaybeAttempt
<1>93. QuitsOK'
  BY <1>0, <1>1, <1>2 DEF QuitsOK, Departed, Routes!UnderWay, SessionStands, Newest, Routes!Owned, Known, MaybeAttempt
<1>94. ByKind'
  BY <1>0, <1>1, <1>2 DEF ByKind, Known, MaybeAttempt
<1>95. Newest'
  BY <1>0, <1>1, <1>2 DEF Newest, Routes!UnderWay, Routes!Owned, SessionStands, QuitsOK, Departed, ByKind, Known, MaybeAttempt
<1>96. SessionStands'
  BY <1>0, <1>1, <1>2 DEF SessionStands, Routes!Closing, QuitsOK, Departed, Newest, Routes!UnderWay, Routes!Owned, Known, MaybeAttempt
<1>97. CurOwned'
  BY <1>0, <1>1, <1>2 DEF CurOwned, Routes!Closing, QuitsOK, Departed, SessionStands, Newest, Routes!UnderWay, Routes!Owned, ByKind, Known, MaybeAttempt
<1>98. GenOwned'
  BY <1>0, <1>1, <1>2 DEF GenOwned, Newest, ByKind, Routes!UnderWay, Known, MaybeAttempt
<1> QED BY <1>91, <1>92, <1>93, <1>94, <1>95, <1>96, <1>97, <1>98 DEF RouteInv

\* connect beside a session: it is quit first.
LEMMA BeginQuitsStep ==
  ASSUME RouteInv, NEW a \in Attempts, Routes!Begin(a), live # None
  PROVE  RouteInv'
<1>0. /\ RouteTypes /\ Tidy(route) /\ QuitsOK /\ ByKind /\ Newest
      /\ SessionStands /\ CurOwned /\ GenOwned /\ Known
  BY TypeFacts DEF RouteInv
<1>1. attempt[a].at = "idle" /\ owner' = a /\ kind' = kind /\ leaving' = leaving /\ live' = live /\ loose' = loose /\ route' = route
      /\ \A b \in Attempts \ {a} : Routes!UnderWay(b) => attempt[b].aborted
  BY DEF Routes!Begin
<1>2. /\ attempt' \in [Attempts -> AttemptRecord]
      /\ attempt'[a].at = "quitting" /\ attempt'[a].quits = live
      /\ ~attempt'[a].aborted
      /\ \A b \in Attempts : b # a => attempt'[b] = attempt[b]
  <2> DEFINE r == [Routes!NoAttempt EXCEPT !.at = "quitting", !.quits = live]
  <2>1. r \in AttemptRecord /\ r.at = "quitting" /\ r.quits = live /\ r.aborted = FALSE
    BY <1>0 DEF Routes!NoAttempt, AttemptRecord, Stages, RouteTypes
  <2>2. attempt' = [attempt EXCEPT ![a] = r]
    BY DEF Routes!Begin
  <2>3. attempt \in [Attempts -> AttemptRecord]
    BY <1>0 DEF RouteTypes
  <2> HIDE DEF r
  <2> QED BY <2>1, <2>2, <2>3
<1>91. RouteTypes'
  BY <1>0, <1>1, <1>2 DEF RouteTypes, Known, MaybeAttempt
<1>92. Tidy(route')
  BY <1>0, <1>1, <1>2 DEF Known, MaybeAttempt
<1>93. QuitsOK'
  BY <1>0, <1>1, <1>2 DEF QuitsOK, Departed, Routes!UnderWay, SessionStands, Newest, Routes!Owned, Known, MaybeAttempt
<1>94. ByKind'
  BY <1>0, <1>1, <1>2 DEF ByKind, Known, MaybeAttempt
<1>95. Newest'
  BY <1>0, <1>1, <1>2 DEF Newest, Routes!UnderWay, Routes!Owned, SessionStands, QuitsOK, Departed, ByKind, Known, MaybeAttempt
<1>96. SessionStands'
  BY <1>0, <1>1, <1>2 DEF SessionStands, Routes!Closing, QuitsOK, Departed, Newest, Routes!UnderWay, Routes!Owned, Known, MaybeAttempt
<1>97. CurOwned'
  BY <1>0, <1>1, <1>2 DEF CurOwned, Routes!Closing, QuitsOK, Departed, SessionStands, Newest, Routes!UnderWay, Routes!Owned, ByKind, Known, MaybeAttempt
<1>98. GenOwned'
  BY <1>0, <1>1, <1>2 DEF GenOwned, Newest, ByKind, Routes!UnderWay, Known, MaybeAttempt
<1> QED BY <1>91, <1>92, <1>93, <1>94, <1>95, <1>96, <1>97, <1>98 DEF RouteInv

\* connect without one: what is left of the route is closed.
LEMMA BeginClearsStep ==
  ASSUME RouteInv, NEW a \in Attempts, Routes!Begin(a), live = None
  PROVE  RouteInv'
<1>0. /\ RouteTypes /\ Tidy(route) /\ QuitsOK /\ ByKind /\ Newest
      /\ SessionStands /\ CurOwned /\ GenOwned /\ Known
  BY TypeFacts DEF RouteInv
<1> DEFINE stage == IF Routes!CloseWaits(route, None) THEN "closing" ELSE "vault"
<1>1. attempt[a].at = "idle" /\ owner' = a /\ kind' = kind /\ leaving' = leaving /\ live' = live /\ loose' = loose
      /\ \A b \in Attempts \ {a} : Routes!UnderWay(b) => attempt[b].aborted
  BY DEF Routes!Begin
<1>2. /\ attempt' \in [Attempts -> AttemptRecord]
      /\ attempt'[a].at = stage /\ attempt'[a].quits = None
      /\ attempt'[a].aborted <=> attempt[a].aborted
      /\ \A b \in Attempts : b # a => attempt'[b] = attempt[b]
  <2>1. Routes!At(a, stage) /\ stage \in Stages
    BY DEF Routes!Begin, Stages
  <2> HIDE DEF stage
  <2> QED BY <1>0, <2>1, AtFacts
<1>3. Shut(route, None, route') /\ live = None
  BY <1>0, ClosedFacts DEF Routes!Begin, RouteTypes, MaybeAttempt
<1>4. Routes!CloseWaits(route, None) => stage = "closing" /\ kind = "relay"
  BY DEF Routes!CloseWaits
<1>5. ~Routes!CloseWaits(route, None) => stage = "vault"
  OBVIOUS
<1> HIDE DEF stage
<1>6. stage = "closing" \/ stage = "vault"
  BY <1>4, <1>5
<1>91. RouteTypes'
  BY <1>0, <1>1, <1>2, <1>3, <1>4, <1>5, <1>6 DEF RouteTypes, Shut, Known, MaybeAttempt
<1>92. Tidy(route')
  BY <1>0, <1>1, <1>2, <1>3, <1>4, <1>5, <1>6 DEF Shut, Known, MaybeAttempt
<1>93. QuitsOK'
  BY <1>0, <1>1, <1>2, <1>3, <1>4, <1>5, <1>6 DEF QuitsOK, Departed, Routes!UnderWay, SessionStands, Newest, Routes!Owned, Shut, Known, MaybeAttempt
<1>94. ByKind'
  BY <1>0, <1>1, <1>2, <1>3, <1>4, <1>5, <1>6 DEF ByKind, Shut, Known, MaybeAttempt
<1>95. Newest'
  BY <1>0, <1>1, <1>2, <1>3, <1>4, <1>5, <1>6 DEF Newest, Routes!UnderWay, Routes!Owned, SessionStands, QuitsOK, Departed, ByKind, Shut, Known, MaybeAttempt
<1>96. SessionStands'
  BY <1>0, <1>1, <1>2, <1>3, <1>4, <1>5, <1>6 DEF SessionStands, Routes!Closing, QuitsOK, Departed, Newest, Routes!UnderWay, Routes!Owned, Shut, Known, MaybeAttempt
<1>97. CurOwned'
  BY <1>0, <1>1, <1>2, <1>3, <1>4, <1>5, <1>6 DEF CurOwned, Routes!Closing, QuitsOK, Departed, SessionStands, Newest, Routes!UnderWay, Routes!Owned, ByKind, Shut, Known, MaybeAttempt
<1>98. GenOwned'
  BY <1>0, <1>1, <1>2, <1>3, <1>4, <1>5, <1>6 DEF GenOwned, Newest, ByKind, Routes!UnderWay, Shut, Known, MaybeAttempt
<1> QED BY <1>91, <1>92, <1>93, <1>94, <1>95, <1>96, <1>97, <1>98 DEF RouteInv

\* The session has been quit, and its relay takes time to close.
LEMMA QuitWaitsStep ==
  ASSUME RouteInv, NEW a \in Attempts, Routes!Quit(a), Routes!CloseWaits(route, attempt[a].quits)
  PROVE  RouteInv'
<1>0. /\ RouteTypes /\ Tidy(route) /\ QuitsOK /\ ByKind /\ Newest
      /\ SessionStands /\ CurOwned /\ GenOwned /\ Known
  BY TypeFacts DEF RouteInv
<1>1. attempt[a].at = "quitting" /\ kind' = kind /\ leaving' = leaving /\ loose' = loose
      /\ live' = (IF live = attempt[a].quits THEN None ELSE live) /\ owner' = owner
  BY DEF Routes!Quit, Routes!Ends
<1>2. /\ attempt' \in [Attempts -> AttemptRecord]
      /\ attempt'[a].at = "closing" /\ attempt'[a].quits = None
      /\ attempt'[a].aborted <=> attempt[a].aborted
      /\ \A b \in Attempts : b # a => attempt'[b] = attempt[b]
  <2>1. Routes!At(a, "closing")
    BY DEF Routes!Quit, Routes!Ends
  <2> QED BY <1>0, <2>1, AtFacts DEF Stages
<1>3. Shut(route, attempt[a].quits, route')
  <2>1. attempt[a].quits \in MaybeAttempt
    BY <1>0 DEF Known, MaybeAttempt
  <2>2. route' = Routes!Closed(route, attempt[a].quits) /\ route \in RouteRecord
    BY <1>0 DEF Routes!Quit, RouteTypes
  <2> QED BY <1>0, <2>1, <2>2, ClosedFacts
<1>4. Routes!CloseWaits(route, attempt[a].quits) => kind = "relay"
  BY DEF Routes!CloseWaits
<1>91. RouteTypes'
  BY <1>0, <1>1, <1>2, <1>3, <1>4 DEF RouteTypes, Shut, Known, MaybeAttempt
<1>92. Tidy(route')
  BY <1>0, <1>1, <1>2, <1>3, <1>4 DEF Shut, Known, MaybeAttempt
<1>93. QuitsOK'
  BY <1>0, <1>1, <1>2, <1>3, <1>4 DEF QuitsOK, Departed, Routes!UnderWay, SessionStands, Newest, Routes!Owned, Shut, Known, MaybeAttempt
<1>94. ByKind'
  BY <1>0, <1>1, <1>2, <1>3, <1>4 DEF ByKind, Shut, Known, MaybeAttempt
<1>95. Newest'
  BY <1>0, <1>1, <1>2, <1>3, <1>4 DEF Newest, Routes!UnderWay, Routes!Owned, SessionStands, QuitsOK, Departed, ByKind, Shut, Known, MaybeAttempt
<1>96. SessionStands'
  BY <1>0, <1>1, <1>2, <1>3, <1>4 DEF SessionStands, Routes!Closing, QuitsOK, Departed, Newest, Routes!UnderWay, Routes!Owned, Shut, Known, MaybeAttempt
<1>97. CurOwned'
  BY <1>0, <1>1, <1>2, <1>3, <1>4 DEF CurOwned, Routes!Closing, QuitsOK, Departed, SessionStands, Newest, Routes!UnderWay, Routes!Owned, ByKind, Shut, Known, MaybeAttempt
<1>98. GenOwned'
  BY <1>0, <1>1, <1>2, <1>3, <1>4 DEF GenOwned, Newest, ByKind, Routes!UnderWay, Shut, Known, MaybeAttempt
<1> QED BY <1>91, <1>92, <1>93, <1>94, <1>95, <1>96, <1>97, <1>98 DEF RouteInv

\* It is closed at once, and the attempt is still wanted.
LEMMA QuitGoesOnStep ==
  ASSUME RouteInv, NEW a \in Attempts, Routes!Quit(a), ~Routes!CloseWaits(route, attempt[a].quits), Routes!Owned(a)
  PROVE  RouteInv'
<1>0. /\ RouteTypes /\ Tidy(route) /\ QuitsOK /\ ByKind /\ Newest
      /\ SessionStands /\ CurOwned /\ GenOwned /\ Known
  BY TypeFacts DEF RouteInv
<1>1. attempt[a].at = "quitting" /\ kind' = kind /\ leaving' = leaving /\ loose' = loose
      /\ live' = (IF live = attempt[a].quits THEN None ELSE live) /\ owner' = owner
  BY DEF Routes!Quit, Routes!Ends
<1>2. /\ attempt' \in [Attempts -> AttemptRecord]
      /\ attempt'[a].at = "vault" /\ attempt'[a].quits = None
      /\ attempt'[a].aborted <=> attempt[a].aborted
      /\ \A b \in Attempts : b # a => attempt'[b] = attempt[b]
  <2>1. Routes!At(a, "vault")
    BY DEF Routes!Quit, Routes!Ends
  <2> QED BY <1>0, <2>1, AtFacts DEF Stages
<1>3. Shut(route, attempt[a].quits, route')
  <2>1. attempt[a].quits \in MaybeAttempt
    BY <1>0 DEF Known, MaybeAttempt
  <2>2. route' = Routes!Closed(route, attempt[a].quits) /\ route \in RouteRecord
    BY <1>0 DEF Routes!Quit, RouteTypes
  <2> QED BY <1>0, <2>1, <2>2, ClosedFacts
<1>4. Routes!CloseWaits(route, attempt[a].quits) => kind = "relay"
  BY DEF Routes!CloseWaits
<1>91. RouteTypes'
  BY <1>0, <1>1, <1>2, <1>3, <1>4 DEF RouteTypes, Shut, Known, MaybeAttempt
<1>92. Tidy(route')
  BY <1>0, <1>1, <1>2, <1>3, <1>4 DEF Shut, Known, MaybeAttempt
<1>93. QuitsOK'
  BY <1>0, <1>1, <1>2, <1>3, <1>4 DEF QuitsOK, Departed, Routes!UnderWay, SessionStands, Newest, Routes!Owned, Shut, Known, MaybeAttempt
<1>94. ByKind'
  BY <1>0, <1>1, <1>2, <1>3, <1>4 DEF ByKind, Shut, Known, MaybeAttempt
<1>95. Newest'
  BY <1>0, <1>1, <1>2, <1>3, <1>4 DEF Newest, Routes!UnderWay, Routes!Owned, SessionStands, QuitsOK, Departed, ByKind, Shut, Known, MaybeAttempt
<1>96. SessionStands'
  BY <1>0, <1>1, <1>2, <1>3, <1>4 DEF SessionStands, Routes!Closing, QuitsOK, Departed, Newest, Routes!UnderWay, Routes!Owned, Shut, Known, MaybeAttempt
<1>97. CurOwned'
  BY <1>0, <1>1, <1>2, <1>3, <1>4 DEF CurOwned, Routes!Closing, QuitsOK, Departed, SessionStands, Newest, Routes!UnderWay, Routes!Owned, ByKind, Shut, Known, MaybeAttempt
<1>98. GenOwned'
  BY <1>0, <1>1, <1>2, <1>3, <1>4 DEF GenOwned, Newest, ByKind, Routes!UnderWay, Shut, Known, MaybeAttempt
<1> QED BY <1>91, <1>92, <1>93, <1>94, <1>95, <1>96, <1>97, <1>98 DEF RouteInv

\* The attempt is no longer wanted.
LEMMA QuitEndsStep ==
  ASSUME RouteInv, NEW a \in Attempts, Routes!Quit(a), ~Routes!CloseWaits(route, attempt[a].quits), ~Routes!Owned(a)
  PROVE  RouteInv'
<1>0. /\ RouteTypes /\ Tidy(route) /\ QuitsOK /\ ByKind /\ Newest
      /\ SessionStands /\ CurOwned /\ GenOwned /\ Known
  BY TypeFacts DEF RouteInv
<1>1. attempt[a].at = "quitting" /\ kind' = kind /\ leaving' = leaving /\ loose' = loose
      /\ live' = (IF live = attempt[a].quits THEN None ELSE live) /\ owner' = (IF owner = a THEN None ELSE owner)
  BY DEF Routes!Quit, Routes!Ends
<1>2. /\ attempt' \in [Attempts -> AttemptRecord]
      /\ attempt'[a].at = "ended" /\ attempt'[a].quits = None
      /\ attempt'[a].aborted <=> attempt[a].aborted
      /\ \A b \in Attempts : b # a => attempt'[b] = attempt[b]
  <2>1. Routes!At(a, "ended")
    BY DEF Routes!Quit, Routes!Ends
  <2> QED BY <1>0, <2>1, AtFacts DEF Stages
<1>3. Shut(route, attempt[a].quits, route')
  <2>1. attempt[a].quits \in MaybeAttempt
    BY <1>0 DEF Known, MaybeAttempt
  <2>2. route' = Routes!Closed(route, attempt[a].quits) /\ route \in RouteRecord
    BY <1>0 DEF Routes!Quit, RouteTypes
  <2> QED BY <1>0, <2>1, <2>2, ClosedFacts
<1>4. Routes!CloseWaits(route, attempt[a].quits) => kind = "relay"
  BY DEF Routes!CloseWaits
<1>91. RouteTypes'
  BY <1>0, <1>1, <1>2, <1>3, <1>4 DEF RouteTypes, Shut, Known, MaybeAttempt
<1>92. Tidy(route')
  BY <1>0, <1>1, <1>2, <1>3, <1>4 DEF Shut, Known, MaybeAttempt
<1>93. QuitsOK'
  BY <1>0, <1>1, <1>2, <1>3, <1>4 DEF QuitsOK, Departed, Routes!UnderWay, SessionStands, Newest, Routes!Owned, Shut, Known, MaybeAttempt
<1>94. ByKind'
  BY <1>0, <1>1, <1>2, <1>3, <1>4 DEF ByKind, Shut, Known, MaybeAttempt
<1>95. Newest'
  BY <1>0, <1>1, <1>2, <1>3, <1>4 DEF Newest, Routes!UnderWay, Routes!Owned, SessionStands, QuitsOK, Departed, ByKind, Shut, Known, MaybeAttempt
<1>96. SessionStands'
  BY <1>0, <1>1, <1>2, <1>3, <1>4 DEF SessionStands, Routes!Closing, QuitsOK, Departed, Newest, Routes!UnderWay, Routes!Owned, Shut, Known, MaybeAttempt
<1>97. CurOwned'
  BY <1>0, <1>1, <1>2, <1>3, <1>4 DEF CurOwned, Routes!Closing, QuitsOK, Departed, SessionStands, Newest, Routes!UnderWay, Routes!Owned, ByKind, Shut, Known, MaybeAttempt
<1>98. GenOwned'
  BY <1>0, <1>1, <1>2, <1>3, <1>4 DEF GenOwned, Newest, ByKind, Routes!UnderWay, Shut, Known, MaybeAttempt
<1> QED BY <1>91, <1>92, <1>93, <1>94, <1>95, <1>96, <1>97, <1>98 DEF RouteInv

\* The relay of the session is closed.
LEMMA ClosedGoesOnStep ==
  ASSUME RouteInv, NEW a \in Attempts, Routes!QuitClosed(a), Routes!Owned(a)
  PROVE  RouteInv'
<1>0. /\ RouteTypes /\ Tidy(route) /\ QuitsOK /\ ByKind /\ Newest
      /\ SessionStands /\ CurOwned /\ GenOwned /\ Known
  BY TypeFacts DEF RouteInv
<1>1. attempt[a].at = "closing" /\ kind' = kind /\ leaving' = leaving /\ live' = live /\ loose' = loose /\ owner' = owner
  BY DEF Routes!QuitClosed, Routes!Ends
<1>2. /\ attempt' \in [Attempts -> AttemptRecord]
      /\ attempt'[a].at = "vault" /\ attempt'[a].quits = None
      /\ attempt'[a].aborted <=> attempt[a].aborted
      /\ \A b \in Attempts : b # a => attempt'[b] = attempt[b]
  <2>1. Routes!At(a, "vault")
    BY DEF Routes!QuitClosed, Routes!Ends
  <2> QED BY <1>0, <2>1, AtFacts DEF Stages
<1>3. /\ route' \in RouteRecord /\ Tidy(route') /\ route'.cur = route.cur
      /\ IF route.cur = None THEN route'.gen = None ELSE route'.gen = route.gen
  BY <1>0, ReclaimedFacts DEF Routes!QuitClosed, RouteTypes
<1>91. RouteTypes'
  BY <1>0, <1>1, <1>2, <1>3 DEF RouteTypes, Known, MaybeAttempt
<1>92. Tidy(route')
  BY <1>0, <1>1, <1>2, <1>3 DEF Known, MaybeAttempt
<1>93. QuitsOK'
  BY <1>0, <1>1, <1>2, <1>3 DEF QuitsOK, Departed, Routes!UnderWay, SessionStands, Newest, Routes!Owned, Known, MaybeAttempt
<1>94. ByKind'
  BY <1>0, <1>1, <1>2, <1>3 DEF ByKind, Known, MaybeAttempt
<1>95. Newest'
  BY <1>0, <1>1, <1>2, <1>3 DEF Newest, Routes!UnderWay, Routes!Owned, SessionStands, QuitsOK, Departed, ByKind, Known, MaybeAttempt
<1>96. SessionStands'
  BY <1>0, <1>1, <1>2, <1>3 DEF SessionStands, Routes!Closing, QuitsOK, Departed, Newest, Routes!UnderWay, Routes!Owned, Known, MaybeAttempt
<1>97. CurOwned'
  BY <1>0, <1>1, <1>2, <1>3 DEF CurOwned, Routes!Closing, QuitsOK, Departed, SessionStands, Newest, Routes!UnderWay, Routes!Owned, ByKind, Known, MaybeAttempt
<1>98. GenOwned'
  BY <1>0, <1>1, <1>2, <1>3 DEF GenOwned, Newest, ByKind, Routes!UnderWay, Known, MaybeAttempt
<1> QED BY <1>91, <1>92, <1>93, <1>94, <1>95, <1>96, <1>97, <1>98 DEF RouteInv

\* The same, for an attempt that is no longer wanted.
LEMMA ClosedEndsStep ==
  ASSUME RouteInv, NEW a \in Attempts, Routes!QuitClosed(a), ~Routes!Owned(a)
  PROVE  RouteInv'
<1>0. /\ RouteTypes /\ Tidy(route) /\ QuitsOK /\ ByKind /\ Newest
      /\ SessionStands /\ CurOwned /\ GenOwned /\ Known
  BY TypeFacts DEF RouteInv
<1>1. attempt[a].at = "closing" /\ kind' = kind /\ leaving' = leaving /\ live' = live /\ loose' = loose /\ owner' = (IF owner = a THEN None ELSE owner)
  BY DEF Routes!QuitClosed, Routes!Ends
<1>2. /\ attempt' \in [Attempts -> AttemptRecord]
      /\ attempt'[a].at = "ended" /\ attempt'[a].quits = None
      /\ attempt'[a].aborted <=> attempt[a].aborted
      /\ \A b \in Attempts : b # a => attempt'[b] = attempt[b]
  <2>1. Routes!At(a, "ended")
    BY DEF Routes!QuitClosed, Routes!Ends
  <2> QED BY <1>0, <2>1, AtFacts DEF Stages
<1>3. /\ route' \in RouteRecord /\ Tidy(route') /\ route'.cur = route.cur
      /\ IF route.cur = None THEN route'.gen = None ELSE route'.gen = route.gen
  BY <1>0, ReclaimedFacts DEF Routes!QuitClosed, RouteTypes
<1>91. RouteTypes'
  BY <1>0, <1>1, <1>2, <1>3 DEF RouteTypes, Known, MaybeAttempt
<1>92. Tidy(route')
  BY <1>0, <1>1, <1>2, <1>3 DEF Known, MaybeAttempt
<1>93. QuitsOK'
  BY <1>0, <1>1, <1>2, <1>3 DEF QuitsOK, Departed, Routes!UnderWay, SessionStands, Newest, Routes!Owned, Known, MaybeAttempt
<1>94. ByKind'
  BY <1>0, <1>1, <1>2, <1>3 DEF ByKind, Known, MaybeAttempt
<1>95. Newest'
  BY <1>0, <1>1, <1>2, <1>3 DEF Newest, Routes!UnderWay, Routes!Owned, SessionStands, QuitsOK, Departed, ByKind, Known, MaybeAttempt
<1>96. SessionStands'
  BY <1>0, <1>1, <1>2, <1>3 DEF SessionStands, Routes!Closing, QuitsOK, Departed, Newest, Routes!UnderWay, Routes!Owned, Known, MaybeAttempt
<1>97. CurOwned'
  BY <1>0, <1>1, <1>2, <1>3 DEF CurOwned, Routes!Closing, QuitsOK, Departed, SessionStands, Newest, Routes!UnderWay, Routes!Owned, ByKind, Known, MaybeAttempt
<1>98. GenOwned'
  BY <1>0, <1>1, <1>2, <1>3 DEF GenOwned, Newest, ByKind, Routes!UnderWay, Known, MaybeAttempt
<1> QED BY <1>91, <1>92, <1>93, <1>94, <1>95, <1>96, <1>97, <1>98 DEF RouteInv

\* createRelay and createStreamRoute, in the four cases: the attempt was aborted,
LEMMA OpensAbortedStep ==
  ASSUME RouteInv, NEW a \in Attempts, NEW rt \in RouteRecord, Tidy(rt),
         rt.cur = None => rt.gen = None, rt.cur # None => attempt[a].aborted,
         attempt[a].aborted => rt.cur = route.cur /\ (route.cur # None => rt.gen = route.gen),
         attempt[a].at = "clearing" \/ (attempt[a].at = "vault" /\ ~attempt[a].aborted), Routes!Opens(a, rt), UNCHANGED <<kind, live, leaving>>, attempt[a].aborted
  PROVE  RouteInv'
<1>0. /\ RouteTypes /\ Tidy(route) /\ QuitsOK /\ ByKind /\ Newest
      /\ SessionStands /\ CurOwned /\ GenOwned /\ Known
  BY TypeFacts DEF RouteInv
<1>1. (attempt[a].at = "vault" \/ attempt[a].at = "clearing") /\ kind' = kind /\ leaving' = leaving /\ live' = live
  OBVIOUS
<1>2. /\ attempt' \in [Attempts -> AttemptRecord]
      /\ attempt'[a].at = "ended" /\ attempt'[a].quits = None
      /\ attempt'[a].aborted <=> attempt[a].aborted
      /\ \A b \in Attempts : b # a => attempt'[b] = attempt[b]
  <2>1. Routes!At(a, "ended")
    BY DEF Routes!Opens, Routes!Ends
  <2> QED BY <1>0, <2>1, AtFacts DEF Stages
<1>3. owner' = (IF owner = a THEN None ELSE owner) /\ route' = rt /\ loose' = loose
  BY DEF Routes!Opens, Routes!Ends
<1>4. /\ rt \in RouteRecord /\ Tidy(rt) /\ rt.cur = route.cur /\ attempt[a].aborted /\ attempt[a].at = "clearing"
      /\ IF route.cur = None THEN rt.gen = None ELSE rt.gen = route.gen
  OBVIOUS
<1>91. RouteTypes'
  BY <1>0, <1>1, <1>2, <1>3, <1>4 DEF RouteTypes, Known, MaybeAttempt
<1>92. Tidy(route')
  BY <1>0, <1>1, <1>2, <1>3, <1>4 DEF Known, MaybeAttempt
<1>93. QuitsOK'
  BY <1>0, <1>1, <1>2, <1>3, <1>4 DEF QuitsOK, Departed, Routes!UnderWay, SessionStands, Newest, Routes!Owned, Known, MaybeAttempt
<1>94. ByKind'
  BY <1>0, <1>1, <1>2, <1>3, <1>4 DEF ByKind, Known, MaybeAttempt
<1>95. Newest'
  BY <1>0, <1>1, <1>2, <1>3, <1>4 DEF Newest, Routes!UnderWay, Routes!Owned, SessionStands, QuitsOK, Departed, ByKind, Known, MaybeAttempt
<1>96. SessionStands'
  BY <1>0, <1>1, <1>2, <1>3, <1>4 DEF SessionStands, Routes!Closing, QuitsOK, Departed, Newest, Routes!UnderWay, Routes!Owned, Known, MaybeAttempt
<1>97. CurOwned'
  BY <1>0, <1>1, <1>2, <1>3, <1>4 DEF CurOwned, Routes!Closing, QuitsOK, Departed, SessionStands, Newest, Routes!UnderWay, Routes!Owned, ByKind, Known, MaybeAttempt
<1>98. GenOwned'
  BY <1>0, <1>1, <1>2, <1>3, <1>4 DEF GenOwned, Newest, ByKind, Routes!UnderWay, Known, MaybeAttempt
<1> QED BY <1>91, <1>92, <1>93, <1>94, <1>95, <1>96, <1>97, <1>98 DEF RouteInv

\* a socket is to be opened,
LEMMA OpensSocketStep ==
  ASSUME RouteInv, NEW a \in Attempts, NEW rt \in RouteRecord, Tidy(rt),
         rt.cur = None => rt.gen = None, rt.cur # None => attempt[a].aborted,
         attempt[a].aborted => rt.cur = route.cur /\ (route.cur # None => rt.gen = route.gen),
         attempt[a].at = "clearing" \/ (attempt[a].at = "vault" /\ ~attempt[a].aborted), Routes!Opens(a, rt), UNCHANGED <<kind, live, leaving>>,
         ~attempt[a].aborted, kind = "socket"
  PROVE  RouteInv'
<1>0. /\ RouteTypes /\ Tidy(route) /\ QuitsOK /\ ByKind /\ Newest
      /\ SessionStands /\ CurOwned /\ GenOwned /\ Known
  BY TypeFacts DEF RouteInv
<1>1. (attempt[a].at = "vault" \/ attempt[a].at = "clearing") /\ kind' = kind /\ leaving' = leaving /\ live' = live
  OBVIOUS
<1>2. /\ attempt' \in [Attempts -> AttemptRecord]
      /\ attempt'[a].at = "opening" /\ attempt'[a].quits = None
      /\ attempt'[a].aborted <=> attempt[a].aborted
      /\ \A b \in Attempts : b # a => attempt'[b] = attempt[b]
  <2>1. Routes!At(a, "opening")
    BY DEF Routes!Opens, Routes!Ends
  <2> QED BY <1>0, <2>1, AtFacts DEF Stages
<1>3. owner' = owner /\ loose' = loose /\ ~attempt[a].aborted /\ kind = "socket"
  BY DEF Routes!Opens
<1>4. route' \in RouteRecord /\ Tidy(route') /\ route'.cur = None /\ route'.gen = a
  <2>1. route' = [rt EXCEPT !.gen = a] /\ rt.cur = None
    BY DEF Routes!Opens
  <2> QED BY <2>1 DEF RouteRecord, MaybeAttempt, Tidy
<1>91. RouteTypes'
  BY <1>0, <1>1, <1>2, <1>3, <1>4 DEF RouteTypes, Known, MaybeAttempt
<1>92. Tidy(route')
  BY <1>0, <1>1, <1>2, <1>3, <1>4 DEF Known, MaybeAttempt
<1>93. QuitsOK'
  BY <1>0, <1>1, <1>2, <1>3, <1>4 DEF QuitsOK, Departed, Routes!UnderWay, SessionStands, Newest, Routes!Owned, Known, MaybeAttempt
<1>94. ByKind'
  BY <1>0, <1>1, <1>2, <1>3, <1>4 DEF ByKind, Known, MaybeAttempt
<1>95. Newest'
  BY <1>0, <1>1, <1>2, <1>3, <1>4 DEF Newest, Routes!UnderWay, Routes!Owned, SessionStands, QuitsOK, Departed, ByKind, Known, MaybeAttempt
<1>96. SessionStands'
  BY <1>0, <1>1, <1>2, <1>3, <1>4 DEF SessionStands, Routes!Closing, QuitsOK, Departed, Newest, Routes!UnderWay, Routes!Owned, Known, MaybeAttempt
<1>97. CurOwned'
  BY <1>0, <1>1, <1>2, <1>3, <1>4 DEF CurOwned, Routes!Closing, QuitsOK, Departed, SessionStands, Newest, Routes!UnderWay, Routes!Owned, ByKind, Known, MaybeAttempt
<1>98. GenOwned'
  BY <1>0, <1>1, <1>2, <1>3, <1>4 DEF GenOwned, Newest, ByKind, Routes!UnderWay, Known, MaybeAttempt
<1> QED BY <1>91, <1>92, <1>93, <1>94, <1>95, <1>96, <1>97, <1>98 DEF RouteInv

\* a relay listens,
LEMMA OpensRelayStep ==
  ASSUME RouteInv, NEW a \in Attempts, NEW rt \in RouteRecord, Tidy(rt),
         rt.cur = None => rt.gen = None, rt.cur # None => attempt[a].aborted,
         attempt[a].aborted => rt.cur = route.cur /\ (route.cur # None => rt.gen = route.gen),
         attempt[a].at = "clearing" \/ (attempt[a].at = "vault" /\ ~attempt[a].aborted), Routes!Opens(a, rt), UNCHANGED <<kind, live, leaving>>,
         ~attempt[a].aborted, kind # "socket", owner = a
  PROVE  RouteInv'
<1>0. /\ RouteTypes /\ Tidy(route) /\ QuitsOK /\ ByKind /\ Newest
      /\ SessionStands /\ CurOwned /\ GenOwned /\ Known
  BY TypeFacts DEF RouteInv
<1>1. (attempt[a].at = "vault" \/ attempt[a].at = "clearing") /\ kind' = kind /\ leaving' = leaving /\ live' = live
  OBVIOUS
<1>2. /\ attempt' \in [Attempts -> AttemptRecord]
      /\ attempt'[a].at = "dialing" /\ attempt'[a].quits = None
      /\ attempt'[a].aborted <=> attempt[a].aborted
      /\ \A b \in Attempts : b # a => attempt'[b] = attempt[b]
  <2>1. Routes!At(a, "dialing")
    BY DEF Routes!Opens, Routes!Ends
  <2> QED BY <1>0, <2>1, AtFacts DEF Stages
<1>3. owner' = owner /\ loose' = loose /\ ~attempt[a].aborted /\ owner = a
  BY DEF Routes!Opens
<1>4. route' \in RouteRecord /\ Tidy(route') /\ route'.cur = a /\ route'.gen = a
  <2>1. route' = [cur |-> a, gen |-> a, open |-> rt.open \cup {a}] /\ rt.cur = None
    BY DEF Routes!Opens
  <2> QED BY <2>1, UpFacts
<1>91. RouteTypes'
  BY <1>0, <1>1, <1>2, <1>3, <1>4 DEF RouteTypes, Known, MaybeAttempt
<1>92. Tidy(route')
  BY <1>0, <1>1, <1>2, <1>3, <1>4 DEF Known, MaybeAttempt
<1>93. QuitsOK'
  BY <1>0, <1>1, <1>2, <1>3, <1>4 DEF QuitsOK, Departed, Routes!UnderWay, SessionStands, Newest, Routes!Owned, Known, MaybeAttempt
<1>94. ByKind'
  BY <1>0, <1>1, <1>2, <1>3, <1>4 DEF ByKind, Known, MaybeAttempt
<1>95. Newest'
  BY <1>0, <1>1, <1>2, <1>3, <1>4 DEF Newest, Routes!UnderWay, Routes!Owned, SessionStands, QuitsOK, Departed, ByKind, Known, MaybeAttempt
<1>96. SessionStands'
  BY <1>0, <1>1, <1>2, <1>3, <1>4 DEF SessionStands, Routes!Closing, QuitsOK, Departed, Newest, Routes!UnderWay, Routes!Owned, Known, MaybeAttempt
<1>97. CurOwned'
  BY <1>0, <1>1, <1>2, <1>3, <1>4 DEF CurOwned, Routes!Closing, QuitsOK, Departed, SessionStands, Newest, Routes!UnderWay, Routes!Owned, ByKind, Known, MaybeAttempt
<1>98. GenOwned'
  BY <1>0, <1>1, <1>2, <1>3, <1>4 DEF GenOwned, Newest, ByKind, Routes!UnderWay, Known, MaybeAttempt
<1> QED BY <1>91, <1>92, <1>93, <1>94, <1>95, <1>96, <1>97, <1>98 DEF RouteInv

\* or listens for an attempt that is no longer wanted.
LEMMA OpensLateStep ==
  ASSUME RouteInv, NEW a \in Attempts, NEW rt \in RouteRecord, Tidy(rt),
         rt.cur = None => rt.gen = None, rt.cur # None => attempt[a].aborted,
         attempt[a].aborted => rt.cur = route.cur /\ (route.cur # None => rt.gen = route.gen),
         attempt[a].at = "clearing" \/ (attempt[a].at = "vault" /\ ~attempt[a].aborted), Routes!Opens(a, rt), UNCHANGED <<kind, live, leaving>>,
         ~attempt[a].aborted, kind # "socket", owner # a
  PROVE  RouteInv'
<1>0. /\ RouteTypes /\ Tidy(route) /\ QuitsOK /\ ByKind /\ Newest
      /\ SessionStands /\ CurOwned /\ GenOwned /\ Known
  BY TypeFacts DEF RouteInv
<1>1. (attempt[a].at = "vault" \/ attempt[a].at = "clearing") /\ kind' = kind /\ leaving' = leaving /\ live' = live
  OBVIOUS
<1>2. /\ attempt' \in [Attempts -> AttemptRecord]
      /\ attempt'[a].at = "ended" /\ attempt'[a].quits = None
      /\ attempt'[a].aborted <=> attempt[a].aborted
      /\ \A b \in Attempts : b # a => attempt'[b] = attempt[b]
  <2>1. Routes!At(a, "ended")
    BY DEF Routes!Opens, Routes!Ends
  <2> QED BY <1>0, <2>1, AtFacts DEF Stages
<1> DEFINE up == [cur |-> a, gen |-> a, open |-> rt.open \cup {a}]
<1>3. owner' = (IF owner = a THEN None ELSE owner) /\ ~attempt[a].aborted /\ owner # a /\ Routes!ClosesLoosely(up, a) /\ rt.cur = None
  BY DEF Routes!Opens, Routes!Ends
<1>4. up \in RouteRecord /\ Tidy(up) /\ up.cur = a /\ up.gen = a
  BY <1>3, UpFacts
<1> HIDE DEF up
<1>5. /\ Shut(up, a, route') /\ loose' \in Nat /\ loose' >= loose
      /\ Routes!CloseWaits(up, a) => loose' > 0
      /\ loose' > 0 => loose > 0 \/ kind = "relay"
  BY <1>0, LooselyFacts, <1>3, <1>4 DEF RouteTypes, MaybeAttempt
<1>91. RouteTypes'
  BY <1>0, <1>1, <1>2, <1>3, <1>4, <1>5 DEF RouteTypes, Shut, Known, MaybeAttempt
<1>92. Tidy(route')
  BY <1>0, <1>1, <1>2, <1>3, <1>4, <1>5 DEF Shut, Known, MaybeAttempt
<1>93. QuitsOK'
  BY <1>0, <1>1, <1>2, <1>3, <1>4, <1>5 DEF QuitsOK, Departed, Routes!UnderWay, SessionStands, Newest, Routes!Owned, Shut, Known, MaybeAttempt
<1>94. ByKind'
  BY <1>0, <1>1, <1>2, <1>3, <1>4, <1>5 DEF ByKind, Shut, Known, MaybeAttempt
<1>95. Newest'
  BY <1>0, <1>1, <1>2, <1>3, <1>4, <1>5 DEF Newest, Routes!UnderWay, Routes!Owned, SessionStands, QuitsOK, Departed, ByKind, Shut, Known, MaybeAttempt
<1>96. SessionStands'
  BY <1>0, <1>1, <1>2, <1>3, <1>4, <1>5 DEF SessionStands, Routes!Closing, QuitsOK, Departed, Newest, Routes!UnderWay, Routes!Owned, Shut, Known, MaybeAttempt
<1>97. CurOwned'
  BY <1>0, <1>1, <1>2, <1>3, <1>4, <1>5 DEF CurOwned, Routes!Closing, QuitsOK, Departed, SessionStands, Newest, Routes!UnderWay, Routes!Owned, ByKind, Shut, Known, MaybeAttempt
<1>98. GenOwned'
  BY <1>0, <1>1, <1>2, <1>3, <1>4, <1>5 DEF GenOwned, Newest, ByKind, Routes!UnderWay, Shut, Known, MaybeAttempt
<1> QED BY <1>91, <1>92, <1>93, <1>94, <1>95, <1>96, <1>97, <1>98 DEF RouteInv

\* The four together.
LEMMA OpensStep ==
  ASSUME RouteInv, NEW a \in Attempts, NEW rt \in RouteRecord, Tidy(rt),
         rt.cur = None => rt.gen = None, rt.cur # None => attempt[a].aborted,
         attempt[a].aborted => rt.cur = route.cur /\ (route.cur # None => rt.gen = route.gen),
         attempt[a].at = "clearing" \/ (attempt[a].at = "vault" /\ ~attempt[a].aborted), Routes!Opens(a, rt), UNCHANGED <<kind, live, leaving>>
  PROVE  RouteInv'
BY OpensAbortedStep, OpensSocketStep, OpensRelayStep, OpensLateStep

\* The credential cannot be read.
LEMMA NotLoadedStep ==
  ASSUME RouteInv, NEW a \in Attempts, attempt[a].at = "vault", Routes!Ends(a),
         UNCHANGED <<route, loose, kind, live, leaving>>
  PROVE  RouteInv'
<1>0. /\ RouteTypes /\ Tidy(route) /\ QuitsOK /\ ByKind /\ Newest
      /\ SessionStands /\ CurOwned /\ GenOwned /\ Known
  BY TypeFacts DEF RouteInv
<1>1. attempt[a].at = "vault" /\ kind' = kind /\ leaving' = leaving /\ live' = live
      /\ owner' = (IF owner = a THEN None ELSE owner) /\ route' = route /\ loose' = loose
  BY DEF Routes!Ends
<1>2. /\ attempt' \in [Attempts -> AttemptRecord]
      /\ attempt'[a].at = "ended" /\ attempt'[a].quits = None
      /\ attempt'[a].aborted <=> attempt[a].aborted
      /\ \A b \in Attempts : b # a => attempt'[b] = attempt[b]
  <2>1. Routes!At(a, "ended")
    BY DEF Routes!Ends
  <2> QED BY <1>0, <2>1, AtFacts DEF Stages
<1>91. RouteTypes'
  BY <1>0, <1>1, <1>2 DEF RouteTypes, Known, MaybeAttempt
<1>92. Tidy(route')
  BY <1>0, <1>1, <1>2 DEF Known, MaybeAttempt
<1>93. QuitsOK'
  BY <1>0, <1>1, <1>2 DEF QuitsOK, Departed, Routes!UnderWay, SessionStands, Newest, Routes!Owned, Known, MaybeAttempt
<1>94. ByKind'
  BY <1>0, <1>1, <1>2 DEF ByKind, Known, MaybeAttempt
<1>95. Newest'
  BY <1>0, <1>1, <1>2 DEF Newest, Routes!UnderWay, Routes!Owned, SessionStands, QuitsOK, Departed, ByKind, Known, MaybeAttempt
<1>96. SessionStands'
  BY <1>0, <1>1, <1>2 DEF SessionStands, Routes!Closing, QuitsOK, Departed, Newest, Routes!UnderWay, Routes!Owned, Known, MaybeAttempt
<1>97. CurOwned'
  BY <1>0, <1>1, <1>2 DEF CurOwned, Routes!Closing, QuitsOK, Departed, SessionStands, Newest, Routes!UnderWay, Routes!Owned, ByKind, Known, MaybeAttempt
<1>98. GenOwned'
  BY <1>0, <1>1, <1>2 DEF GenOwned, Newest, ByKind, Routes!UnderWay, Known, MaybeAttempt
<1> QED BY <1>91, <1>92, <1>93, <1>94, <1>95, <1>96, <1>97, <1>98 DEF RouteInv

\* It is read while a relay of before has to be closed.
LEMMA ClearsStep ==
  ASSUME RouteInv, NEW a \in Attempts, attempt[a].at = "vault", Routes!At(a, "clearing"), Routes!Owned(a),
         Routes!CloseWaits(route, None), route' = Routes!Closed(route, None),
         UNCHANGED <<owner, loose, kind, live, leaving>>
  PROVE  RouteInv'
<1>0. /\ RouteTypes /\ Tidy(route) /\ QuitsOK /\ ByKind /\ Newest
      /\ SessionStands /\ CurOwned /\ GenOwned /\ Known
  BY TypeFacts DEF RouteInv
<1>1. attempt[a].at = "vault" /\ kind' = kind /\ leaving' = leaving /\ live' = live
      /\ owner' = owner /\ loose' = loose /\ Routes!Owned(a)
  OBVIOUS
<1>2. /\ attempt' \in [Attempts -> AttemptRecord]
      /\ attempt'[a].at = "clearing" /\ attempt'[a].quits = None
      /\ attempt'[a].aborted <=> attempt[a].aborted
      /\ \A b \in Attempts : b # a => attempt'[b] = attempt[b]
  BY <1>0, AtFacts DEF Stages
<1>3. Shut(route, None, route') /\ kind = "relay"
  BY <1>0, ClosedFacts DEF RouteTypes, MaybeAttempt, Routes!CloseWaits
<1>91. RouteTypes'
  BY <1>0, <1>1, <1>2, <1>3 DEF RouteTypes, Shut, Known, MaybeAttempt
<1>92. Tidy(route')
  BY <1>0, <1>1, <1>2, <1>3 DEF Shut, Known, MaybeAttempt
<1>93. QuitsOK'
  BY <1>0, <1>1, <1>2, <1>3 DEF QuitsOK, Departed, Routes!UnderWay, SessionStands, Newest, Routes!Owned, Shut, Known, MaybeAttempt
<1>94. ByKind'
  BY <1>0, <1>1, <1>2, <1>3 DEF ByKind, Shut, Known, MaybeAttempt
<1>95. Newest'
  BY <1>0, <1>1, <1>2, <1>3 DEF Newest, Routes!UnderWay, Routes!Owned, SessionStands, QuitsOK, Departed, ByKind, Shut, Known, MaybeAttempt
<1>96. SessionStands'
  BY <1>0, <1>1, <1>2, <1>3 DEF SessionStands, Routes!Closing, QuitsOK, Departed, Newest, Routes!UnderWay, Routes!Owned, Shut, Known, MaybeAttempt
<1>97. CurOwned'
  BY <1>0, <1>1, <1>2, <1>3 DEF CurOwned, Routes!Closing, QuitsOK, Departed, SessionStands, Newest, Routes!UnderWay, Routes!Owned, ByKind, Shut, Known, MaybeAttempt
<1>98. GenOwned'
  BY <1>0, <1>1, <1>2, <1>3 DEF GenOwned, Newest, ByKind, Routes!UnderWay, Shut, Known, MaybeAttempt
<1> QED BY <1>91, <1>92, <1>93, <1>94, <1>95, <1>96, <1>97, <1>98 DEF RouteInv

\* The credential.
LEMMA LoadedStep ==
  ASSUME RouteInv, NEW a \in Attempts, Routes!Loaded(a)
  PROVE  RouteInv'
<1>1. attempt[a].at = "vault" /\ UNCHANGED <<kind, live, leaving>>
  BY DEF Routes!Loaded
<1>2. CASE Routes!Ends(a) /\ UNCHANGED <<route, loose>>
  BY <1>1, <1>2, NotLoadedStep
<1>3. CASE /\ Routes!Owned(a) /\ Routes!CloseWaits(route, None) /\ Routes!At(a, "clearing")
           /\ route' = Routes!Closed(route, None) /\ UNCHANGED <<owner, loose>>
  BY <1>1, <1>3, ClearsStep
<1>4. CASE Routes!Owned(a) /\ ~Routes!CloseWaits(route, None) /\ Routes!Opens(a, Routes!Closed(route, None))
  <2>1. route \in RouteRecord /\ Tidy(route)
    BY DEF RouteInv, RouteTypes
  <2>2. Shut(route, None, Routes!Closed(route, None))
    BY <2>1, ClosedFacts DEF MaybeAttempt
  <2>3. /\ Routes!Closed(route, None) \in RouteRecord /\ Tidy(Routes!Closed(route, None))
        /\ Routes!Closed(route, None).cur = None /\ Routes!Closed(route, None).gen = None
    BY <1>4, <2>2 DEF Shut
  <2> QED BY <1>1, <1>4, <2>3, OpensStep DEF Routes!Owned
<1> QED BY <1>2, <1>3, <1>4 DEF Routes!Loaded

\* The relay of before is closed.
LEMMA ClearedStep ==
  ASSUME RouteInv, NEW a \in Attempts, Routes!Cleared(a)
  PROVE  RouteInv'
<1>1. /\ attempt[a].at = "clearing" /\ UNCHANGED <<kind, live, leaving>>
      /\ Routes!Opens(a, Routes!Reclaimed(route))
  BY DEF Routes!Cleared
<1>2. route \in RouteRecord /\ Tidy(route)
  BY DEF RouteInv, RouteTypes
<1>3. ~attempt[a].aborted => route.cur = None
  BY <1>1 DEF RouteInv, Newest
<1>4. /\ Routes!Reclaimed(route) \in RouteRecord /\ Tidy(Routes!Reclaimed(route))
      /\ Routes!Reclaimed(route).cur = route.cur
      /\ IF route.cur = None THEN Routes!Reclaimed(route).gen = None
                             ELSE Routes!Reclaimed(route).gen = route.gen
  BY <1>2, ReclaimedFacts
<1> QED BY <1>1, <1>3, <1>4, OpensStep

\* The socket is open.
LEMMA OpenedInTimeStep ==
  ASSUME RouteInv, NEW a \in Attempts, Routes!Opened(a), owner = a
  PROVE  RouteInv'
<1>0. /\ RouteTypes /\ Tidy(route) /\ QuitsOK /\ ByKind /\ Newest
      /\ SessionStands /\ CurOwned /\ GenOwned /\ Known
  BY TypeFacts DEF RouteInv
<1>1. attempt[a].at = "opening" /\ kind' = kind /\ leaving' = leaving /\ live' = live
      /\ owner' = owner /\ loose' = loose /\ owner = a /\ ~attempt[a].aborted
  BY DEF Routes!Opened
<1>2. /\ attempt' \in [Attempts -> AttemptRecord]
      /\ attempt'[a].at = "dialing" /\ attempt'[a].quits = None
      /\ attempt'[a].aborted <=> attempt[a].aborted
      /\ \A b \in Attempts : b # a => attempt'[b] = attempt[b]
  <2>1. Routes!At(a, "dialing")
    BY DEF Routes!Opened
  <2> QED BY <1>0, <2>1, AtFacts DEF Stages
<1>3. route' \in RouteRecord /\ Tidy(route') /\ route'.cur = a /\ route'.gen = a
  <2>1. route.cur = None /\ route \in RouteRecord
    BY <1>0, <1>1 DEF Newest, RouteTypes
  <2>2. route' = [route EXCEPT !.cur = a, !.open = route.open \cup {a}] /\ route.gen = a
    BY DEF Routes!Opened
  <2> QED BY <1>0, <2>1, <2>2, AttemptsKnown DEF RouteRecord, MaybeAttempt, Tidy
<1>91. RouteTypes'
  BY <1>0, <1>1, <1>2, <1>3 DEF RouteTypes, Known, MaybeAttempt
<1>92. Tidy(route')
  BY <1>0, <1>1, <1>2, <1>3 DEF Known, MaybeAttempt
<1>93. QuitsOK'
  BY <1>0, <1>1, <1>2, <1>3 DEF QuitsOK, Departed, Routes!UnderWay, SessionStands, Newest, Routes!Owned, Known, MaybeAttempt
<1>94. ByKind'
  BY <1>0, <1>1, <1>2, <1>3 DEF ByKind, Known, MaybeAttempt
<1>95. Newest'
  BY <1>0, <1>1, <1>2, <1>3 DEF Newest, Routes!UnderWay, Routes!Owned, SessionStands, QuitsOK, Departed, ByKind, Known, MaybeAttempt
<1>96. SessionStands'
  BY <1>0, <1>1, <1>2, <1>3 DEF SessionStands, Routes!Closing, QuitsOK, Departed, Newest, Routes!UnderWay, Routes!Owned, Known, MaybeAttempt
<1>97. CurOwned'
  BY <1>0, <1>1, <1>2, <1>3 DEF CurOwned, Routes!Closing, QuitsOK, Departed, SessionStands, Newest, Routes!UnderWay, Routes!Owned, ByKind, Known, MaybeAttempt
<1>98. GenOwned'
  BY <1>0, <1>1, <1>2, <1>3 DEF GenOwned, Newest, ByKind, Routes!UnderWay, Known, MaybeAttempt
<1> QED BY <1>91, <1>92, <1>93, <1>94, <1>95, <1>96, <1>97, <1>98 DEF RouteInv

\* It is open for an attempt that is no longer wanted.
LEMMA OpenedLateStep ==
  ASSUME RouteInv, NEW a \in Attempts, Routes!Opened(a), owner # a
  PROVE  RouteInv'
<1>0. /\ RouteTypes /\ Tidy(route) /\ QuitsOK /\ ByKind /\ Newest
      /\ SessionStands /\ CurOwned /\ GenOwned /\ Known
  BY TypeFacts DEF RouteInv
<1> DEFINE up == [route EXCEPT !.cur = a, !.open = @ \cup {a}]
<1>1. attempt[a].at = "opening" /\ kind' = kind /\ leaving' = leaving /\ live' = live
      /\ owner' = (IF owner = a THEN None ELSE owner) /\ ~attempt[a].aborted /\ Routes!ClosesLoosely(up, a)
  BY DEF Routes!Opened, Routes!Ends
<1>2. /\ attempt' \in [Attempts -> AttemptRecord]
      /\ attempt'[a].at = "ended" /\ attempt'[a].quits = None
      /\ attempt'[a].aborted <=> attempt[a].aborted
      /\ \A b \in Attempts : b # a => attempt'[b] = attempt[b]
  <2>1. Routes!At(a, "ended")
    BY DEF Routes!Opened, Routes!Ends
  <2> QED BY <1>0, <2>1, AtFacts DEF Stages
<1>3. up \in RouteRecord /\ Tidy(up) /\ up.cur = a /\ up.gen = a
  <2>1. route.cur = None /\ route \in RouteRecord /\ route.gen = a
    BY <1>0, <1>1 DEF Newest, RouteTypes, Routes!Opened
  <2> QED BY <1>0, <2>1, AttemptsKnown DEF RouteRecord, MaybeAttempt, Tidy
<1> HIDE DEF up
<1>4. /\ Shut(up, a, route') /\ loose' \in Nat /\ loose' >= loose
      /\ Routes!CloseWaits(up, a) => loose' > 0
      /\ loose' > 0 => loose > 0 \/ kind = "relay"
  BY <1>0, LooselyFacts, <1>1, <1>3 DEF RouteTypes, MaybeAttempt
<1>91. RouteTypes'
  BY <1>0, <1>1, <1>2, <1>3, <1>4 DEF RouteTypes, Shut, Known, MaybeAttempt
<1>92. Tidy(route')
  BY <1>0, <1>1, <1>2, <1>3, <1>4 DEF Shut, Known, MaybeAttempt
<1>93. QuitsOK'
  BY <1>0, <1>1, <1>2, <1>3, <1>4 DEF QuitsOK, Departed, Routes!UnderWay, SessionStands, Newest, Routes!Owned, Shut, Known, MaybeAttempt
<1>94. ByKind'
  BY <1>0, <1>1, <1>2, <1>3, <1>4 DEF ByKind, Shut, Known, MaybeAttempt
<1>95. Newest'
  BY <1>0, <1>1, <1>2, <1>3, <1>4 DEF Newest, Routes!UnderWay, Routes!Owned, SessionStands, QuitsOK, Departed, ByKind, Shut, Known, MaybeAttempt
<1>96. SessionStands'
  BY <1>0, <1>1, <1>2, <1>3, <1>4 DEF SessionStands, Routes!Closing, QuitsOK, Departed, Newest, Routes!UnderWay, Routes!Owned, Shut, Known, MaybeAttempt
<1>97. CurOwned'
  BY <1>0, <1>1, <1>2, <1>3, <1>4 DEF CurOwned, Routes!Closing, QuitsOK, Departed, SessionStands, Newest, Routes!UnderWay, Routes!Owned, ByKind, Shut, Known, MaybeAttempt
<1>98. GenOwned'
  BY <1>0, <1>1, <1>2, <1>3, <1>4 DEF GenOwned, Newest, ByKind, Routes!UnderWay, Shut, Known, MaybeAttempt
<1> QED BY <1>91, <1>92, <1>93, <1>94, <1>95, <1>96, <1>97, <1>98 DEF RouteInv

\* The socket is not opened, or dropped.
LEMMA NotOpenedStep ==
  ASSUME RouteInv, NEW a \in Attempts, Routes!NotOpened(a)
  PROVE  RouteInv'
<1>0. /\ RouteTypes /\ Tidy(route) /\ QuitsOK /\ ByKind /\ Newest
      /\ SessionStands /\ CurOwned /\ GenOwned /\ Known
  BY TypeFacts DEF RouteInv
<1>1. attempt[a].at = "opening" /\ kind' = kind /\ leaving' = leaving /\ live' = live
      /\ owner' = (IF owner = a THEN None ELSE owner) /\ loose' = loose
  BY DEF Routes!NotOpened, Routes!Ends
<1>2. /\ attempt' \in [Attempts -> AttemptRecord]
      /\ attempt'[a].at = "ended" /\ attempt'[a].quits = None
      /\ attempt'[a].aborted <=> attempt[a].aborted
      /\ \A b \in Attempts : b # a => attempt'[b] = attempt[b]
  <2>1. Routes!At(a, "ended")
    BY DEF Routes!NotOpened, Routes!Ends
  <2> QED BY <1>0, <2>1, AtFacts DEF Stages
<1>3. /\ route' \in RouteRecord /\ Tidy(route') /\ route'.cur = route.cur
      /\ IF route.cur = None /\ route.gen = a THEN route'.gen = None ELSE route'.gen = route.gen
  BY <1>0 DEF Routes!NotOpened, RouteTypes, RouteRecord, MaybeAttempt, Tidy
<1>91. RouteTypes'
  BY <1>0, <1>1, <1>2, <1>3 DEF RouteTypes, Known, MaybeAttempt
<1>92. Tidy(route')
  BY <1>0, <1>1, <1>2, <1>3 DEF Known, MaybeAttempt
<1>93. QuitsOK'
  BY <1>0, <1>1, <1>2, <1>3 DEF QuitsOK, Departed, Routes!UnderWay, SessionStands, Newest, Routes!Owned, Known, MaybeAttempt
<1>94. ByKind'
  BY <1>0, <1>1, <1>2, <1>3 DEF ByKind, Known, MaybeAttempt
<1>95. Newest'
  BY <1>0, <1>1, <1>2, <1>3 DEF Newest, Routes!UnderWay, Routes!Owned, SessionStands, QuitsOK, Departed, ByKind, Known, MaybeAttempt
<1>96. SessionStands'
  BY <1>0, <1>1, <1>2, <1>3 DEF SessionStands, Routes!Closing, QuitsOK, Departed, Newest, Routes!UnderWay, Routes!Owned, Known, MaybeAttempt
<1>97. CurOwned'
  BY <1>0, <1>1, <1>2, <1>3 DEF CurOwned, Routes!Closing, QuitsOK, Departed, SessionStands, Newest, Routes!UnderWay, Routes!Owned, ByKind, Known, MaybeAttempt
<1>98. GenOwned'
  BY <1>0, <1>1, <1>2, <1>3 DEF GenOwned, Newest, ByKind, Routes!UnderWay, Known, MaybeAttempt
<1> QED BY <1>91, <1>92, <1>93, <1>94, <1>95, <1>96, <1>97, <1>98 DEF RouteInv

\* An attempt is aborted that the connection is not due to.
LEMMA AbortsOtherStep ==
  ASSUME RouteInv, NEW a \in Attempts, Routes!Aborts(a), owner # a
  PROVE  RouteInv'
<1>0. /\ RouteTypes /\ Tidy(route) /\ QuitsOK /\ ByKind /\ Newest
      /\ SessionStands /\ CurOwned /\ GenOwned /\ Known
  BY TypeFacts DEF RouteInv
<1>1. Routes!UnderWay(a) /\ ~attempt[a].aborted /\ kind' = kind /\ leaving' = leaving /\ live' = live
      /\ owner' = owner /\ loose' = loose /\ route' = route
  BY DEF Routes!Aborts
<1>2. /\ attempt' \in [Attempts -> AttemptRecord]
      /\ attempt'[a].at = attempt[a].at /\ attempt'[a].quits = attempt[a].quits
      /\ attempt'[a].aborted
      /\ \A b \in Attempts : b # a => attempt'[b] = attempt[b]
  <2> DEFINE r == [attempt[a] EXCEPT !.aborted = TRUE]
  <2>1. attempt \in [Attempts -> AttemptRecord] /\ attempt[a] \in AttemptRecord
    BY <1>0 DEF RouteTypes
  <2>2. attempt' = [attempt EXCEPT ![a] = r]
    BY <2>1 DEF Routes!Aborts
  <2>3. r \in AttemptRecord /\ r.at = attempt[a].at /\ r.quits = attempt[a].quits /\ r.aborted
    BY <2>1 DEF AttemptRecord, MaybeAttempt
  <2> HIDE DEF r
  <2> QED BY <2>1, <2>2, <2>3
<1>91. RouteTypes'
  BY <1>0, <1>1, <1>2 DEF RouteTypes, Known, MaybeAttempt
<1>92. Tidy(route')
  BY <1>0, <1>1, <1>2 DEF Known, MaybeAttempt
<1>93. QuitsOK'
  BY <1>0, <1>1, <1>2 DEF QuitsOK, Departed, Routes!UnderWay, SessionStands, Newest, Routes!Owned, Known, MaybeAttempt
<1>94. ByKind'
  BY <1>0, <1>1, <1>2 DEF ByKind, Known, MaybeAttempt
<1>95. Newest'
  BY <1>0, <1>1, <1>2 DEF Newest, Routes!UnderWay, Routes!Owned, SessionStands, QuitsOK, Departed, ByKind, Known, MaybeAttempt
<1>96. SessionStands'
  BY <1>0, <1>1, <1>2 DEF SessionStands, Routes!Closing, QuitsOK, Departed, Newest, Routes!UnderWay, Routes!Owned, Known, MaybeAttempt
<1>97. CurOwned'
  BY <1>0, <1>1, <1>2 DEF CurOwned, Routes!Closing, QuitsOK, Departed, SessionStands, Newest, Routes!UnderWay, Routes!Owned, ByKind, Known, MaybeAttempt
<1>98. GenOwned'
  BY <1>0, <1>1, <1>2 DEF GenOwned, Newest, ByKind, Routes!UnderWay, Known, MaybeAttempt
<1> QED BY <1>91, <1>92, <1>93, <1>94, <1>95, <1>96, <1>97, <1>98 DEF RouteInv

\* The one it is due to is aborted, with its session and its route.
LEMMA AbortsOwnerStep ==
  ASSUME RouteInv, NEW a \in Attempts, Routes!Aborts(a), owner = a
  PROVE  RouteInv'
<1>0. /\ RouteTypes /\ Tidy(route) /\ QuitsOK /\ ByKind /\ Newest
      /\ SessionStands /\ CurOwned /\ GenOwned /\ Known
  BY TypeFacts DEF RouteInv
<1> DEFINE has == attempt[a].at \in {"dialing", "failing"}
           first == IF live # None THEN Routes!Closed(route, live) ELSE route
<1>1. Routes!UnderWay(a) /\ ~attempt[a].aborted /\ kind' = kind /\ leaving' = leaving /\ live' = None
      /\ owner' = owner
  BY DEF Routes!Aborts
<1>2. /\ attempt' \in [Attempts -> AttemptRecord]
      /\ attempt'[a].at = attempt[a].at /\ attempt'[a].quits = attempt[a].quits
      /\ attempt'[a].aborted
      /\ \A b \in Attempts : b # a => attempt'[b] = attempt[b]
  <2> DEFINE r == [attempt[a] EXCEPT !.aborted = TRUE]
  <2>1. attempt \in [Attempts -> AttemptRecord] /\ attempt[a] \in AttemptRecord
    BY <1>0 DEF RouteTypes
  <2>2. attempt' = [attempt EXCEPT ![a] = r]
    BY <2>1 DEF Routes!Aborts
  <2>3. r \in AttemptRecord /\ r.at = attempt[a].at /\ r.quits = attempt[a].quits /\ r.aborted
    BY <2>1 DEF AttemptRecord, MaybeAttempt
  <2> HIDE DEF r
  <2> QED BY <2>1, <2>2, <2>3
<1>3. IF live # None THEN Shut(route, live, first) ELSE first = route
  BY <1>0, ClosedFacts DEF RouteTypes
<1>4. first \in RouteRecord /\ Tidy(first)
  BY <1>0, <1>3 DEF Shut, RouteTypes
<1>5. /\ route' = (IF has THEN Routes!Closed(first, a) ELSE first)
      /\ loose' = loose + (IF live # None /\ Routes!CloseWaits(route, live) THEN 1 ELSE 0)
                        + (IF has /\ Routes!CloseWaits(first, a) THEN 1 ELSE 0)
  BY DEF Routes!Aborts
<1> HIDE DEF first
<1>6. IF has THEN Shut(first, a, route') ELSE route' = first
  BY <1>4, <1>5, ClosedFacts DEF MaybeAttempt
<1>7. /\ loose' \in Nat /\ loose' >= loose
      /\ live # None /\ Routes!CloseWaits(route, live) => loose' > 0
      /\ has /\ Routes!CloseWaits(first, a) => loose' > 0
      /\ loose' > 0 => loose > 0 \/ kind = "relay"
  <2>1. loose \in Nat
    BY <1>0 DEF RouteTypes
  <2>2. Routes!CloseWaits(route, live) => kind = "relay"
    BY DEF Routes!CloseWaits
  <2>3. Routes!CloseWaits(first, a) => kind = "relay"
    BY DEF Routes!CloseWaits
  <2> HIDE DEF has
  <2> QED BY <1>5, <2>1, <2>2, <2>3
<1>91. RouteTypes'
  BY <1>0, <1>1, <1>2, <1>3, <1>4, <1>6, <1>7 DEF RouteTypes, Shut, Known, MaybeAttempt
<1>92. Tidy(route')
  BY <1>0, <1>1, <1>2, <1>3, <1>4, <1>6, <1>7 DEF Shut, Known, MaybeAttempt
<1>93. QuitsOK'
  BY <1>0, <1>1, <1>2, <1>3, <1>4, <1>6, <1>7 DEF QuitsOK, Departed, Routes!UnderWay, SessionStands, Newest, Routes!Owned, Shut, Known, MaybeAttempt
<1>94. ByKind'
  BY <1>0, <1>1, <1>2, <1>3, <1>4, <1>6, <1>7 DEF ByKind, Shut, Known, MaybeAttempt
<1>95. Newest'
  BY <1>0, <1>1, <1>2, <1>3, <1>4, <1>6, <1>7 DEF Newest, Routes!UnderWay, Routes!Owned, SessionStands, QuitsOK, Departed, ByKind, Shut, Known, MaybeAttempt
<1>96. SessionStands'
  BY <1>0, <1>1, <1>2, <1>3, <1>4, <1>6, <1>7 DEF SessionStands, Routes!Closing, QuitsOK, Departed, Newest, Routes!UnderWay, Routes!Owned, Shut, Known, MaybeAttempt
<1>97. CurOwned'
  BY <1>0, <1>1, <1>2, <1>3, <1>4, <1>6, <1>7 DEF CurOwned, Routes!Closing, QuitsOK, Departed, SessionStands, Newest, Routes!UnderWay, Routes!Owned, ByKind, Shut, Known, MaybeAttempt
<1>98. GenOwned'
  BY <1>0, <1>1, <1>2, <1>3, <1>4, <1>6, <1>7 DEF GenOwned, Newest, ByKind, Routes!UnderWay, Shut, Known, MaybeAttempt
<1> QED BY <1>91, <1>92, <1>93, <1>94, <1>95, <1>96, <1>97, <1>98 DEF RouteInv

\* disconnect with a session.
LEMMA DisconnectQuitsStep ==
  ASSUME RouteInv, NEW d \in Leavers, Routes!Disconnect(d), live # None
  PROVE  RouteInv'
<1>0. /\ RouteTypes /\ Tidy(route) /\ QuitsOK /\ ByKind /\ Newest
      /\ SessionStands /\ CurOwned /\ GenOwned /\ Known
  BY TypeFacts DEF RouteInv
<1>1. leaving[d].at = "idle" /\ owner' = None /\ kind' = kind /\ live' = live
      /\ attempt' = attempt /\ route' = route /\ loose' = loose
  BY DEF Routes!Disconnect
<1>2. /\ leaving' \in [Leavers -> [at : {"idle", "quitting", "done"}, quits : MaybeAttempt]]
      /\ leaving'[d].at = "quitting" /\ leaving'[d].quits = live
      /\ \A e \in Leavers : e # d => leaving'[e] = leaving[e]
  BY <1>0 DEF Routes!Disconnect, RouteTypes
<1>91. RouteTypes'
  BY <1>0, <1>1, <1>2 DEF RouteTypes, Known, MaybeAttempt
<1>92. Tidy(route')
  BY <1>0, <1>1, <1>2 DEF Known, MaybeAttempt
<1>93. QuitsOK'
  BY <1>0, <1>1, <1>2 DEF QuitsOK, Departed, Routes!UnderWay, SessionStands, Newest, Routes!Owned, Known, MaybeAttempt
<1>94. ByKind'
  BY <1>0, <1>1, <1>2 DEF ByKind, Known, MaybeAttempt
<1>95. Newest'
  BY <1>0, <1>1, <1>2 DEF Newest, Routes!UnderWay, Routes!Owned, SessionStands, QuitsOK, Departed, ByKind, Known, MaybeAttempt
<1>96. SessionStands'
  BY <1>0, <1>1, <1>2 DEF SessionStands, Routes!Closing, QuitsOK, Departed, Newest, Routes!UnderWay, Routes!Owned, Known, MaybeAttempt
<1>97. CurOwned'
  BY <1>0, <1>1, <1>2 DEF CurOwned, Routes!Closing, QuitsOK, Departed, SessionStands, Newest, Routes!UnderWay, Routes!Owned, ByKind, Known, MaybeAttempt
<1>98. GenOwned'
  BY <1>0, <1>1, <1>2 DEF GenOwned, Newest, ByKind, Routes!UnderWay, Known, MaybeAttempt
<1> QED BY <1>91, <1>92, <1>93, <1>94, <1>95, <1>96, <1>97, <1>98 DEF RouteInv

\* disconnect without one.
LEMMA DisconnectClosesStep ==
  ASSUME RouteInv, NEW d \in Leavers, Routes!Disconnect(d), live = None
  PROVE  RouteInv'
<1>0. /\ RouteTypes /\ Tidy(route) /\ QuitsOK /\ ByKind /\ Newest
      /\ SessionStands /\ CurOwned /\ GenOwned /\ Known
  BY TypeFacts DEF RouteInv
<1>1. leaving[d].at = "idle" /\ owner' = None /\ kind' = kind /\ live' = live
      /\ attempt' = attempt
  BY DEF Routes!Disconnect
<1>2. /\ leaving' \in [Leavers -> [at : {"idle", "quitting", "done"}, quits : MaybeAttempt]]
      /\ leaving'[d].at = "done" /\ leaving'[d].quits = leaving[d].quits
      /\ \A e \in Leavers : e # d => leaving'[e] = leaving[e]
  BY <1>0 DEF Routes!Disconnect, RouteTypes
<1>3. /\ Shut(route, None, route') /\ loose' \in Nat /\ loose' >= loose
      /\ Routes!CloseWaits(route, None) => loose' > 0
      /\ loose' > 0 => loose > 0 \/ kind = "relay"
  BY <1>0, LooselyFacts DEF Routes!Disconnect, RouteTypes, MaybeAttempt
<1>91. RouteTypes'
  BY <1>0, <1>1, <1>2, <1>3 DEF RouteTypes, Shut, Known, MaybeAttempt
<1>92. Tidy(route')
  BY <1>0, <1>1, <1>2, <1>3 DEF Shut, Known, MaybeAttempt
<1>93. QuitsOK'
  BY <1>0, <1>1, <1>2, <1>3 DEF QuitsOK, Departed, Routes!UnderWay, SessionStands, Newest, Routes!Owned, Shut, Known, MaybeAttempt
<1>94. ByKind'
  BY <1>0, <1>1, <1>2, <1>3 DEF ByKind, Shut, Known, MaybeAttempt
<1>95. Newest'
  BY <1>0, <1>1, <1>2, <1>3 DEF Newest, Routes!UnderWay, Routes!Owned, SessionStands, QuitsOK, Departed, ByKind, Shut, Known, MaybeAttempt
<1>96. SessionStands'
  BY <1>0, <1>1, <1>2, <1>3 DEF SessionStands, Routes!Closing, QuitsOK, Departed, Newest, Routes!UnderWay, Routes!Owned, Shut, Known, MaybeAttempt
<1>97. CurOwned'
  BY <1>0, <1>1, <1>2, <1>3 DEF CurOwned, Routes!Closing, QuitsOK, Departed, SessionStands, Newest, Routes!UnderWay, Routes!Owned, ByKind, Shut, Known, MaybeAttempt
<1>98. GenOwned'
  BY <1>0, <1>1, <1>2, <1>3 DEF GenOwned, Newest, ByKind, Routes!UnderWay, Shut, Known, MaybeAttempt
<1> QED BY <1>91, <1>92, <1>93, <1>94, <1>95, <1>96, <1>97, <1>98 DEF RouteInv

\* disconnect has quit the session.
LEMMA LeftStep ==
  ASSUME RouteInv, NEW d \in Leavers, Routes!Left(d)
  PROVE  RouteInv'
<1>0. /\ RouteTypes /\ Tidy(route) /\ QuitsOK /\ ByKind /\ Newest
      /\ SessionStands /\ CurOwned /\ GenOwned /\ Known
  BY TypeFacts DEF RouteInv
<1>1. leaving[d].at = "quitting" /\ owner' = owner /\ kind' = kind /\ attempt' = attempt
      /\ live' = (IF live = leaving[d].quits THEN None ELSE live)
  BY DEF Routes!Left
<1>2. /\ leaving' \in [Leavers -> [at : {"idle", "quitting", "done"}, quits : MaybeAttempt]]
      /\ leaving'[d].at = "done" /\ leaving'[d].quits = None
      /\ \A e \in Leavers : e # d => leaving'[e] = leaving[e]
  BY <1>0 DEF Routes!Left, RouteTypes, MaybeAttempt
<1>3. /\ Shut(route, leaving[d].quits, route') /\ loose' \in Nat /\ loose' >= loose
      /\ Routes!CloseWaits(route, leaving[d].quits) => loose' > 0
      /\ loose' > 0 => loose > 0 \/ kind = "relay"
  BY <1>0, LooselyFacts DEF Routes!Left, RouteTypes, Known, MaybeAttempt
<1>91. RouteTypes'
  BY <1>0, <1>1, <1>2, <1>3 DEF RouteTypes, Shut, Known, MaybeAttempt
<1>92. Tidy(route')
  BY <1>0, <1>1, <1>2, <1>3 DEF Shut, Known, MaybeAttempt
<1>93. QuitsOK'
  BY <1>0, <1>1, <1>2, <1>3 DEF QuitsOK, Departed, Routes!UnderWay, SessionStands, Newest, Routes!Owned, Shut, Known, MaybeAttempt
<1>94. ByKind'
  BY <1>0, <1>1, <1>2, <1>3 DEF ByKind, Shut, Known, MaybeAttempt
<1>95. Newest'
  BY <1>0, <1>1, <1>2, <1>3 DEF Newest, Routes!UnderWay, Routes!Owned, SessionStands, QuitsOK, Departed, ByKind, Shut, Known, MaybeAttempt
<1>96. SessionStands'
  BY <1>0, <1>1, <1>2, <1>3 DEF SessionStands, Routes!Closing, QuitsOK, Departed, Newest, Routes!UnderWay, Routes!Owned, Shut, Known, MaybeAttempt
<1>97. CurOwned'
  BY <1>0, <1>1, <1>2, <1>3 DEF CurOwned, Routes!Closing, QuitsOK, Departed, SessionStands, Newest, Routes!UnderWay, Routes!Owned, ByKind, Shut, Known, MaybeAttempt
<1>98. GenOwned'
  BY <1>0, <1>1, <1>2, <1>3 DEF GenOwned, Newest, ByKind, Routes!UnderWay, Shut, Known, MaybeAttempt
<1> QED BY <1>91, <1>92, <1>93, <1>94, <1>95, <1>96, <1>97, <1>98 DEF RouteInv

\* forceDisconnect with a session.
LEMMA ForcedQuitsStep ==
  ASSUME RouteInv, NEW d \in Leavers, Routes!ForceDisconnect(d), live # None
  PROVE  RouteInv'
<1>0. /\ RouteTypes /\ Tidy(route) /\ QuitsOK /\ ByKind /\ Newest
      /\ SessionStands /\ CurOwned /\ GenOwned /\ Known
  BY TypeFacts DEF RouteInv
<1>1. owner' = None /\ kind' = kind /\ attempt' = attempt /\ live' = None /\ leaving' = leaving
  BY DEF Routes!ForceDisconnect
<1>3. /\ Shut(route, live, route') /\ loose' \in Nat /\ loose' >= loose
      /\ Routes!CloseWaits(route, live) => loose' > 0
      /\ loose' > 0 => loose > 0 \/ kind = "relay"
  BY <1>0, LooselyFacts DEF Routes!ForceDisconnect, RouteTypes
<1>91. RouteTypes'
  BY <1>0, <1>1, <1>3 DEF RouteTypes, Shut, Known, MaybeAttempt
<1>92. Tidy(route')
  BY <1>0, <1>1, <1>3 DEF Shut, Known, MaybeAttempt
<1>93. QuitsOK'
  BY <1>0, <1>1, <1>3 DEF QuitsOK, Departed, Routes!UnderWay, SessionStands, Newest, Routes!Owned, Shut, Known, MaybeAttempt
<1>94. ByKind'
  BY <1>0, <1>1, <1>3 DEF ByKind, Shut, Known, MaybeAttempt
<1>95. Newest'
  BY <1>0, <1>1, <1>3 DEF Newest, Routes!UnderWay, Routes!Owned, SessionStands, QuitsOK, Departed, ByKind, Shut, Known, MaybeAttempt
<1>96. SessionStands'
  BY <1>0, <1>1, <1>3 DEF SessionStands, Routes!Closing, QuitsOK, Departed, Newest, Routes!UnderWay, Routes!Owned, Shut, Known, MaybeAttempt
<1>97. CurOwned'
  BY <1>0, <1>1, <1>3 DEF CurOwned, Routes!Closing, QuitsOK, Departed, SessionStands, Newest, Routes!UnderWay, Routes!Owned, ByKind, Shut, Known, MaybeAttempt
<1>98. GenOwned'
  BY <1>0, <1>1, <1>3 DEF GenOwned, Newest, ByKind, Routes!UnderWay, Shut, Known, MaybeAttempt
<1> QED BY <1>91, <1>92, <1>93, <1>94, <1>95, <1>96, <1>97, <1>98 DEF RouteInv

\* forceDisconnect without one.
LEMMA ForcedIdleStep ==
  ASSUME RouteInv, NEW d \in Leavers, Routes!ForceDisconnect(d), live = None
  PROVE  RouteInv'
<1>0. /\ RouteTypes /\ Tidy(route) /\ QuitsOK /\ ByKind /\ Newest
      /\ SessionStands /\ CurOwned /\ GenOwned /\ Known
  BY TypeFacts DEF RouteInv
<1>1. owner' = None /\ attempt' = attempt /\ kind' = kind /\ leaving' = leaving /\ live' = live /\ route' = route /\ loose' = loose
  BY DEF Routes!ForceDisconnect
<1>91. RouteTypes'
  BY <1>0, <1>1 DEF RouteTypes, Known, MaybeAttempt
<1>92. Tidy(route')
  BY <1>0, <1>1 DEF Known, MaybeAttempt
<1>93. QuitsOK'
  BY <1>0, <1>1 DEF QuitsOK, Departed, Routes!UnderWay, SessionStands, Newest, Routes!Owned, Known, MaybeAttempt
<1>94. ByKind'
  BY <1>0, <1>1 DEF ByKind, Known, MaybeAttempt
<1>95. Newest'
  BY <1>0, <1>1 DEF Newest, Routes!UnderWay, Routes!Owned, SessionStands, QuitsOK, Departed, ByKind, Known, MaybeAttempt
<1>96. SessionStands'
  BY <1>0, <1>1 DEF SessionStands, Routes!Closing, QuitsOK, Departed, Newest, Routes!UnderWay, Routes!Owned, Known, MaybeAttempt
<1>97. CurOwned'
  BY <1>0, <1>1 DEF CurOwned, Routes!Closing, QuitsOK, Departed, SessionStands, Newest, Routes!UnderWay, Routes!Owned, ByKind, Known, MaybeAttempt
<1>98. GenOwned'
  BY <1>0, <1>1 DEF GenOwned, Newest, ByKind, Routes!UnderWay, Known, MaybeAttempt
<1> QED BY <1>91, <1>92, <1>93, <1>94, <1>95, <1>96, <1>97, <1>98 DEF RouteInv

\* A session breaks.
LEMMA LostStep ==
  ASSUME RouteInv, Routes!Lost
  PROVE  RouteInv'
<1>0. /\ RouteTypes /\ Tidy(route) /\ QuitsOK /\ ByKind /\ Newest
      /\ SessionStands /\ CurOwned /\ GenOwned /\ Known
  BY TypeFacts DEF RouteInv
<1>1. live # None /\ ~Routes!Closing(live) /\ live' = None /\ kind' = kind
      /\ attempt' = attempt /\ leaving' = leaving
      /\ owner' = (IF owner = live THEN None ELSE owner)
  BY DEF Routes!Lost
<1>3. /\ Shut(route, live, route') /\ loose' \in Nat /\ loose' >= loose
      /\ Routes!CloseWaits(route, live) => loose' > 0
      /\ loose' > 0 => loose > 0 \/ kind = "relay"
  BY <1>0, LooselyFacts DEF Routes!Lost, RouteTypes
<1>91. RouteTypes'
  BY <1>0, <1>1, <1>3 DEF RouteTypes, Shut, Known, MaybeAttempt
<1>92. Tidy(route')
  BY <1>0, <1>1, <1>3 DEF Shut, Known, MaybeAttempt
<1>93. QuitsOK'
  BY <1>0, <1>1, <1>3 DEF QuitsOK, Departed, Routes!UnderWay, SessionStands, Newest, Routes!Owned, Shut, Known, MaybeAttempt
<1>94. ByKind'
  BY <1>0, <1>1, <1>3 DEF ByKind, Shut, Known, MaybeAttempt
<1>95. Newest'
  BY <1>0, <1>1, <1>3 DEF Newest, Routes!UnderWay, Routes!Owned, SessionStands, QuitsOK, Departed, ByKind, Shut, Known, MaybeAttempt
<1>96. SessionStands'
  BY <1>0, <1>1, <1>3 DEF SessionStands, Routes!Closing, QuitsOK, Departed, Newest, Routes!UnderWay, Routes!Owned, Shut, Known, MaybeAttempt
<1>97. CurOwned'
  BY <1>0, <1>1, <1>3 DEF CurOwned, Routes!Closing, QuitsOK, Departed, SessionStands, Newest, Routes!UnderWay, Routes!Owned, ByKind, Shut, Known, MaybeAttempt
<1>98. GenOwned'
  BY <1>0, <1>1, <1>3 DEF GenOwned, Newest, ByKind, Routes!UnderWay, Shut, Known, MaybeAttempt
<1> QED BY <1>91, <1>92, <1>93, <1>94, <1>95, <1>96, <1>97, <1>98 DEF RouteInv

\* The cases of an action together.
LEMMA BeginStep ==
  ASSUME RouteInv, NEW a \in Attempts, Routes!Begin(a)
  PROVE  RouteInv'
BY BeginQuitsStep, BeginClearsStep

\* 
LEMMA QuitStep ==
  ASSUME RouteInv, NEW a \in Attempts, Routes!Quit(a)
  PROVE  RouteInv'
BY QuitWaitsStep, QuitGoesOnStep, QuitEndsStep

\* 
LEMMA QuitClosedStep ==
  ASSUME RouteInv, NEW a \in Attempts, Routes!QuitClosed(a)
  PROVE  RouteInv'
BY ClosedGoesOnStep, ClosedEndsStep

\* 
LEMMA RouteOpenedStep ==
  ASSUME RouteInv, NEW a \in Attempts, Routes!Opened(a)
  PROVE  RouteInv'
BY OpenedInTimeStep, OpenedLateStep

\* 
LEMMA AbortsStep ==
  ASSUME RouteInv, NEW a \in Attempts, Routes!Aborts(a)
  PROVE  RouteInv'
BY AbortsOtherStep, AbortsOwnerStep

\* 
LEMMA DisconnectStep ==
  ASSUME RouteInv, NEW d \in Leavers, Routes!Disconnect(d)
  PROVE  RouteInv'
BY DisconnectQuitsStep, DisconnectClosesStep

\* 
LEMMA ForceDisconnectStep ==
  ASSUME RouteInv, NEW d \in Leavers, Routes!ForceDisconnect(d)
  PROVE  RouteInv'
BY ForcedQuitsStep, ForcedIdleStep

\* The invariant holds at the start.
LEMMA RoutesStart == Routes!Init => RouteInv
<1> SUFFICES ASSUME Routes!Init PROVE RouteInv
  OBVIOUS
<1>1. \A a \in Attempts : attempt[a].at = "idle" /\ attempt[a].quits = None /\ ~attempt[a].aborted
  BY DEF Routes!Init, Routes!NoAttempt
<1>2. \A d \in Leavers : leaving[d].at = "idle" /\ leaving[d].quits = None
  BY DEF Routes!Init, Routes!Idle
<1>3. /\ owner = None /\ live = None /\ loose = 0
      /\ route.cur = None /\ route.gen = None /\ route.open = {}
  BY DEF Routes!Init
<1>4. RouteTypes
  BY DEF Routes!Init, Routes!NoAttempt, Routes!Idle, RouteTypes, AttemptRecord, RouteRecord, MaybeAttempt, Stages
<1>5. Tidy(route) /\ QuitsOK /\ ByKind
  BY <1>1, <1>2, <1>3 DEF Tidy, QuitsOK, Departed, ByKind
<1>6. Newest /\ SessionStands /\ CurOwned /\ GenOwned
  BY <1>1, <1>2, <1>3 DEF Newest, SessionStands, CurOwned, GenOwned, Routes!UnderWay
<1> QED BY <1>4, <1>5, <1>6 DEF RouteInv

\* A stutter keeps it.
LEMMA RoutesStay ==
  ASSUME RouteInv, UNCHANGED Routes!vars
  PROVE  RouteInv'
BY DEF RouteInv, RouteTypes, QuitsOK, Departed, ByKind, Newest, SessionStands, CurOwned, GenOwned, Routes!UnderWay, Routes!Owned, Routes!Closing, Tidy, Routes!vars

\* So does every step.
LEMMA RoutesStep ==
  ASSUME RouteInv, Routes!Next
  PROVE  RouteInv'
<1>1. ASSUME NEW a \in Attempts, Routes!AttemptStep(a) PROVE RouteInv'
  BY <1>1, BeginStep, QuitStep, QuitClosedStep, LoadedStep, ClearedStep, RouteOpenedStep, NotOpenedStep,
     ConnectedStep, FailsStep, FailedStep, AbortsStep DEF Routes!AttemptStep
<1>2. ASSUME NEW d \in Leavers, Routes!Disconnect(d) \/ Routes!Left(d) \/ Routes!ForceDisconnect(d) PROVE RouteInv'
  BY <1>2, DisconnectStep, LeftStep, ForceDisconnectStep
<1> QED BY <1>1, <1>2, LostStep, LooseEndsStep DEF Routes!Next

\* It gives the property.
LEMMA RoutesImply == RouteInv => Routes!RoutesOwned
<1> SUFFICES ASSUME RouteInv PROVE Routes!RoutesOwned
  OBVIOUS
<1>0. /\ RouteTypes /\ Tidy(route) /\ QuitsOK /\ ByKind /\ Newest
      /\ SessionStands /\ CurOwned /\ GenOwned /\ Known
  BY TypeFacts DEF RouteInv
<1>1. Routes!TypeOK
  BY <1>0 DEF Routes!TypeOK, RouteTypes, AttemptRecord, RouteRecord, MaybeAttempt, Stages
<1>3. Routes!SessionRouted
  BY <1>0 DEF Known, SessionStands, Routes!SessionRouted, Tidy
<1>4. Routes!NewestNotReplaced
  BY <1>0 DEF Newest, Routes!NewestNotReplaced
<1>5. \A a \in route.open : \/ route.cur = a /\ (live = a \/ Routes!Closing(a))
                            \/ attempt[a].at \in {"dialing", "failing"}
  BY <1>0 DEF CurOwned, Tidy
<1>6. ASSUME live = None, loose = 0, \A a \in Attempts : ~Routes!UnderWay(a),
             \A d \in Leavers : leaving[d].at # "quitting"
      PROVE  route = [cur |-> None, gen |-> None, open |-> {}] /\ owner = None
  <2>1. \A a \in Attempts : attempt[a].at \notin {"quitting", "closing", "clearing", "opening", "dialing", "failing"}
    BY <1>6 DEF Routes!UnderWay
  <2>2. route.cur = None
    BY <1>0, <1>6, <2>1 DEF Known, CurOwned, Routes!Closing, QuitsOK
  <2>3. route.gen = None
    BY <1>0, <1>6, <2>1, <2>2 DEF GenOwned
  <2>4. owner = None
    BY <1>0, <1>6 DEF Known, Newest
  <2> QED BY <1>0, <2>2, <2>3, <2>4 DEF RouteTypes, RouteRecord, Tidy
<1> QED BY <1>1, <1>3, <1>4, <1>5, <1>6 DEF Routes!RoutesOwned, Routes!NothingLeft

-----------------------------------------------------------------------------
(* FormProbes: the probes of a form.                                         *)

\* From the assumption of the instance.
LEMMA ProbesKnown == None \notin Probes
  BY PluginWorkAssumption DEF Form!FormAssumption

\* What a probe is, and what its caller is told.
States == {"queued", "running", "valid", "failed", "cancelled", "stale"}

\* 
ToldOf == {"nothing", "refused", "valid", "failed", "cancelled", "stale"}

\* What is known of a request.
ProbeRecord ==
  [at : {"new", "waits", "enters", "validates", "cleans", "done"}, state : States,
   after : Probes \cup {None}, told : ToldOf]

\* The record of a probe by itself: it is asked once, has a result when its connection is
\* closed, and its caller is told what it was stopped for.
ProbeOK(p) ==
  /\ p \in ProbeRecord
  /\ p.at = "new" => p.state = "queued"
  /\ p.at = "cleans" => p.state \notin {"queued", "running"}
  /\ p.at = "done" /\ p.state \in Form!Stopped => p.told = p.state
  /\ p.at = "waits" => p.after \in Probes /\ p.state \in {"queued"} \cup Form!Stopped

\* The types.
FormTypes ==
  /\ groups \in [Form!Groups -> Probes \cup {None}]
  /\ DOMAIN probe = Probes
  /\ probe = [r \in Probes |-> probe[r]]
  /\ \A r \in Probes : ProbeOK(probe[r])

\* Two probes of one form and purpose that have not ended.
Together(r, q) == Form!UnderWay(r) /\ Form!UnderWay(q) /\ MCGroupOf[r] = MCGroupOf[q]

\* f ranks the probes as they came: each waits for the one before, the newest is that of
\* the group.
Ranked(f) ==
  /\ f \in [Probes -> Nat]
  /\ \A r, q \in Probes : Together(r, q) /\ f[r] = f[q] => r = q
  /\ \A r, q \in Probes : Together(r, q) /\ f[q] < f[r] =>
       /\ probe[r].at = "waits" /\ probe[r].after \in Probes
       /\ Together(r, probe[r].after)
       /\ f[q] <= f[probe[r].after] /\ f[probe[r].after] < f[r]
  /\ \A g \in Form!Groups :
       IF groups[g] = None
         THEN \A r \in Probes : Form!UnderWay(r) => MCGroupOf[r] # g
         ELSE /\ Form!UnderWay(groups[g]) /\ MCGroupOf[groups[g]] = g
              /\ \A r \in Probes : Form!UnderWay(r) /\ MCGroupOf[r] = g => f[r] <= f[groups[g]]

\* The invariant: there is such a ranking, and the newest probe counts.
FormInv == FormTypes /\ (\E f : Ranked(f)) /\ Form!NewestCounts

\* What goes on: the records of all but r are as they were, or stopped; r stays under way in
\* its place.
LEMMA StaysRanked ==
  ASSUME FormTypes, NEW f, Ranked(f), groups' = groups, DOMAIN probe' = Probes,
         \A q \in Probes : /\ Form!UnderWay(q)' <=> Form!UnderWay(q)
                           /\ (probe'[q].at = "waits" /\ probe'[q].after = probe[q].after)
                                \/ probe[q].at # "waits"
                                \/ probe[probe[q].after].at = "done"
  PROVE  Ranked(f)'
<1>1. \A r, q \in Probes : Together(r, q)' <=> Together(r, q)
  BY DEF Together
<1>2. \A g \in Form!Groups : groups[g] \in Probes \cup {None}
  BY DEF FormTypes
<1>3. \A r \in Probes : Form!UnderWay(r) => probe[r].at # "done"
  BY DEF Form!UnderWay
<1>4. f \in [Probes -> Nat]'
  BY DEF Ranked
<1>5. \A r, q \in Probes : (Together(r, q) /\ f[r] = f[q] => r = q)'
  BY <1>1 DEF Ranked
<1>6. ASSUME NEW r \in Probes, NEW q \in Probes, Together(r, q)', f[q] < f[r]
      PROVE  (/\ probe[r].at = "waits" /\ probe[r].after \in Probes
              /\ Together(r, probe[r].after)
              /\ f[q] <= f[probe[r].after] /\ f[probe[r].after] < f[r])'
  <2>1. /\ probe[r].at = "waits" /\ probe[r].after \in Probes
        /\ Together(r, probe[r].after)
        /\ f[q] <= f[probe[r].after] /\ f[probe[r].after] < f[r]
    BY <1>1, <1>6 DEF Ranked
  <2>2. probe[probe[r].after].at # "done"
    BY <2>1, <1>3 DEF Together
  <2>3. probe'[r].at = "waits" /\ probe'[r].after = probe[r].after
    BY <2>1, <2>2
  <2> QED BY <2>1, <2>3, <1>1
<1>7. ASSUME NEW g \in Form!Groups
      PROVE  (IF groups[g] = None
         THEN \A r \in Probes : Form!UnderWay(r) => MCGroupOf[r] # g
         ELSE /\ Form!UnderWay(groups[g]) /\ MCGroupOf[groups[g]] = g
              /\ \A r \in Probes : Form!UnderWay(r) /\ MCGroupOf[r] = g => f[r] <= f[groups[g]])'
  BY <1>2, ProbesKnown DEF Ranked
<1> QED BY <1>4, <1>5, <1>6, <1>7 DEF Ranked

\* The end of the first of its group.
LEMMA EndsRanked ==
  ASSUME FormTypes, NEW f, Ranked(f), NEW r \in Probes, Form!UnderWay(r),
         probe[r].at = "waits" => probe[probe[r].after].at = "done",
         groups' = Form!Forgotten(r), DOMAIN probe' = Probes, probe'[r].at = "done",
         \A q \in Probes \ {r} : probe'[q] = probe[q]
  PROVE  Ranked(f)'
<1>1. \A q \in Probes : Together(r, q) /\ q # r => f[r] < f[q]
  <2> SUFFICES ASSUME NEW q \in Probes, Together(r, q), q # r PROVE f[r] < f[q]
    OBVIOUS
  <2>1. f[r] \in Nat /\ f[q] \in Nat /\ f[r] # f[q]
    BY DEF Ranked
  <2>2. ASSUME f[q] < f[r] PROVE FALSE
    <3>1. /\ probe[r].at = "waits" /\ probe[r].after \in Probes
          /\ Together(r, probe[r].after)
      BY <2>2 DEF Ranked
    <3> QED BY <3>1 DEF Together, Form!UnderWay
  <2> QED BY <2>1, <2>2
<1>2. \A q \in Probes : Form!UnderWay(q)' <=> Form!UnderWay(q) /\ q # r
  BY DEF Form!UnderWay
<1>3. \A g \in Form!Groups : groups[g] \in Probes \cup {None}
  BY DEF FormTypes
<1>4. \A q, s \in Probes : Together(q, s)' <=> Together(q, s) /\ q # r /\ s # r
  BY <1>2 DEF Together
<1>5. \A q, s \in Probes : (Together(q, s) /\ f[q] = f[s] => q = s)'
  BY <1>4 DEF Ranked
<1>6. ASSUME NEW q \in Probes, NEW s \in Probes, Together(q, s)', f[s] < f[q]
      PROVE  (/\ probe[q].at = "waits" /\ probe[q].after \in Probes
              /\ Together(q, probe[q].after)
              /\ f[s] <= f[probe[q].after] /\ f[probe[q].after] < f[q])'
  <2>1. Together(q, s) /\ q # r /\ s # r
    BY <1>4, <1>6
  <2>2. /\ probe[q].at = "waits" /\ probe[q].after \in Probes
        /\ Together(q, probe[q].after)
        /\ f[s] <= f[probe[q].after] /\ f[probe[q].after] < f[q]
    BY <1>6, <2>1 DEF Ranked
  <2>3. probe[q].after # r
    <3> SUFFICES ASSUME probe[q].after = r PROVE FALSE
      OBVIOUS
    <3>1. Together(r, s)
      BY <2>1, <2>2 DEF Together
    <3>2. f[r] < f[s] /\ f[s] <= f[r] /\ f[r] \in Nat /\ f[s] \in Nat
      BY <1>1, <2>1, <2>2, <3>1 DEF Ranked
    <3> QED BY <3>2
  <2> QED BY <1>4, <2>1, <2>2, <2>3
<1>7. ASSUME NEW g \in Form!Groups
      PROVE  (IF groups[g] = None
         THEN \A q \in Probes : Form!UnderWay(q) => MCGroupOf[q] # g
         ELSE /\ Form!UnderWay(groups[g]) /\ MCGroupOf[groups[g]] = g
              /\ \A q \in Probes : Form!UnderWay(q) /\ MCGroupOf[q] = g => f[q] <= f[groups[g]])'
  <2>1. groups \in [Form!Groups -> Probes \cup {None}]
    BY DEF FormTypes
  <2>2. CASE g = MCGroupOf[r] /\ groups[g] = r
    <3>1. groups'[g] = None
      BY <2>1, <2>2 DEF Form!Forgotten
    <3>2. ASSUME NEW q \in Probes, Form!UnderWay(q)', MCGroupOf[q] = g PROVE FALSE
      <4>1. Together(r, q) /\ q # r /\ Form!UnderWay(q)
        BY <1>2, <2>2, <3>2 DEF Together
      <4>2. f[r] < f[q] /\ f[q] <= f[r] /\ f[r] \in Nat /\ f[q] \in Nat
        BY <1>1, <2>2, <3>2, <4>1, ProbesKnown DEF Ranked
      <4> QED BY <4>2
    <3> QED BY <3>1, <3>2
  <2>3. CASE ~(g = MCGroupOf[r] /\ groups[g] = r)
    <3>1. groups'[g] = groups[g]
      BY <2>1, <2>3 DEF Form!Forgotten
    <3>2. groups[g] # r
      BY <2>3, ProbesKnown DEF Ranked
    <3> QED BY <1>2, <1>3, <3>1, <3>2, ProbesKnown DEF Ranked
  <2> QED BY <2>2, <2>3
<1>8. (f \in [Probes -> Nat])'
  BY DEF Ranked
<1> QED BY <1>5, <1>6, <1>7, <1>8 DEF Ranked

\* What StopsStand asks of a step.
Stand ==
  \A r \in Probes : probe[r].state \in Form!Stopped =>
    probe'[r].state = probe[r].state
      /\ (probe'[r].at = "done" => probe'[r].told = probe[r].state)

\* What stopRecord makes of the probes.
LEMMA StopsFacts ==
  ASSUME FormTypes, NEW S, NEW state, state \in Form!Stopped, NEW r \in Probes, NEW p, p = Form!Stops(S, state)[r]
  PROVE  /\ ProbeOK(p) /\ p.at = probe[r].at /\ p.after = probe[r].after /\ p.told = probe[r].told
         /\ p.state = probe[r].state \/ (p.state = state /\ r \in S /\ probe[r].state \notin Form!Stopped)
         /\ r \in S /\ Form!UnderWay(r) => p.state \notin {"queued", "running"}
<1>1. ProbeOK(probe[r]) /\ probe[r] \in ProbeRecord
  BY DEF FormTypes, ProbeOK
<1>2. CASE r \in S /\ Form!UnderWay(r) /\ probe[r].state \in {"queued", "running"}
  <2>1. p = [probe[r] EXCEPT !.state = state]
    BY <1>2 DEF Form!Stops
  <2>2. state \in States /\ state \notin {"queued", "running"} /\ probe[r].at # "new" /\ probe[r].at # "done"
    BY <1>2 DEF Form!Stopped, States, Form!UnderWay
  <2>3. p \in ProbeRecord /\ p.at = probe[r].at /\ p.after = probe[r].after /\ p.told = probe[r].told /\ p.state = state
    BY <1>1, <2>1, <2>2 DEF ProbeRecord
  <2>4. ProbeOK(p)
    BY <1>1, <2>2, <2>3 DEF ProbeOK
  <2> QED BY <1>2, <2>2, <2>3, <2>4 DEF Form!Stopped
<1>3. CASE ~(r \in S /\ Form!UnderWay(r) /\ probe[r].state \in {"queued", "running"})
  <2>1. p = probe[r]
    BY <1>3 DEF Form!Stops
  <2> QED BY <1>1, <1>3, <2>1
<1> QED BY <1>2, <1>3

\* A probe that goes on: r in a new stage, with a state or a result of its own.
LEMMA GoesOn ==
  ASSUME FormInv, NEW r \in Probes, Form!UnderWay(r), NEW p, ProbeOK(p), p.at \in {"waits", "enters", "validates", "cleans"},
         p.at # "waits", probe[r].at = "waits" => probe[probe[r].after].at = "done",
         p.state \in {"queued", "running"} => probe[r].state \in {"queued", "running"},
         probe[r].state \in Form!Stopped => p.state = probe[r].state,
         probe' = [probe EXCEPT ![r] = p], groups' = groups
  PROVE  FormInv' /\ Stand
<1>1. FormTypes /\ Form!NewestCounts
  BY DEF FormInv
<1>2. /\ DOMAIN probe' = Probes /\ probe' = [q \in Probes |-> probe'[q]]
      /\ probe'[r] = p /\ \A q \in Probes \ {r} : probe'[q] = probe[q]
  BY <1>1 DEF FormTypes
<1>3. FormTypes'
  BY <1>1, <1>2 DEF FormTypes
<1>4. \A q \in Probes : Form!UnderWay(q)' <=> Form!UnderWay(q)
  BY <1>2 DEF Form!UnderWay
<1>5. PICK f : Ranked(f)
  BY DEF FormInv
<1>6. Ranked(f)'
  BY <1>1, <1>2, <1>4, <1>5, StaysRanked
<1>7. Form!NewestCounts'
  BY <1>1, <1>2, <1>4 DEF Form!NewestCounts
<1>8. Stand
  BY <1>1, <1>2 DEF Stand, FormTypes, ProbeOK
<1> QED BY <1>3, <1>6, <1>7, <1>8 DEF FormInv

\* The end of a probe.
LEMMA ProbeOver ==
  ASSUME FormInv, NEW r \in Probes, Form!UnderWay(r), NEW p, ProbeOK(p), p.at = "done",
         probe[r].at = "waits" => probe[probe[r].after].at = "done",
         probe[r].state \in Form!Stopped => p.state = probe[r].state,
         probe' = [probe EXCEPT ![r] = p], groups' = Form!Forgotten(r)
  PROVE  FormInv' /\ Stand
<1>1. FormTypes /\ Form!NewestCounts
  BY DEF FormInv
<1>2. /\ DOMAIN probe' = Probes /\ probe' = [q \in Probes |-> probe'[q]]
      /\ probe'[r] = p /\ \A q \in Probes \ {r} : probe'[q] = probe[q]
  BY <1>1 DEF FormTypes
<1>3. /\ groups' \in [Form!Groups -> Probes \cup {None}]
      /\ \A g \in Form!Groups : groups[g] # r => groups'[g] = groups[g]
  BY <1>1 DEF FormTypes, Form!Forgotten
<1>4. FormTypes'
  BY <1>1, <1>2, <1>3 DEF FormTypes
<1>5. PICK f : Ranked(f)
  BY DEF FormInv
<1>6. Ranked(f)'
  BY <1>1, <1>2, <1>5, EndsRanked
<1>7. Form!NewestCounts'
  <2> SUFFICES ASSUME NEW q \in Probes, Form!UnderWay(q)', probe'[q].state \in {"queued", "running"}
               PROVE  groups'[MCGroupOf[q]] = q
    BY DEF Form!NewestCounts
  <2>1. q # r
    BY <1>2 DEF Form!UnderWay
  <2>2. Form!UnderWay(q) /\ probe[q].state \in {"queued", "running"}
    BY <1>2, <2>1 DEF Form!UnderWay
  <2>3. groups[MCGroupOf[q]] = q /\ MCGroupOf[q] \in Form!Groups
    BY <1>1, <2>2 DEF Form!NewestCounts, Form!Groups
  <2> QED BY <1>3, <2>1, <2>3
<1>8. Stand
  BY <1>1, <1>2 DEF Stand, FormTypes, ProbeOK
<1> QED BY <1>4, <1>6, <1>7, <1>8 DEF FormInv

\* Probes that are stopped.
LEMMA Halts ==
  ASSUME FormInv, NEW S, probe' = Form!Stops(S, "cancelled"), groups' = groups
  PROVE  FormInv' /\ Stand
<1>1. FormTypes /\ Form!NewestCounts
  BY DEF FormInv
<1>2. DOMAIN probe' = Probes /\ probe' = [q \in Probes |-> probe'[q]]
  BY DEF Form!Stops
<1>3. ASSUME NEW q \in Probes
      PROVE  /\ ProbeOK(probe'[q]) /\ probe'[q].at = probe[q].at /\ probe'[q].after = probe[q].after
             /\ probe'[q].told = probe[q].told
             /\ probe'[q].state = probe[q].state \/ (probe'[q].state = "cancelled" /\ probe[q].state \notin Form!Stopped)
  BY <1>1, StopsFacts DEF Form!Stopped
<1>4. FormTypes'
  BY <1>1, <1>2, <1>3 DEF FormTypes
<1>5. \A q \in Probes : Form!UnderWay(q)' <=> Form!UnderWay(q)
  BY <1>3 DEF Form!UnderWay
<1>6. PICK f : Ranked(f)
  BY DEF FormInv
<1>7. Ranked(f)'
  BY <1>1, <1>2, <1>3, <1>5, <1>6, StaysRanked
<1>8. Form!NewestCounts'
  BY <1>1, <1>3, <1>5 DEF Form!NewestCounts
<1>9. Stand
  BY <1>1, <1>3 DEF Stand, FormTypes, ProbeOK
<1> QED BY <1>4, <1>7, <1>8, <1>9 DEF FormInv

\* A probe that is asked for and refused, or replaces the one before.
LEMMA ProbeRefused ==
  ASSUME FormInv, NEW r \in Probes, Form!Probe(r), Form!OutOfOrder(r, groups[MCGroupOf[r]])
  PROVE  FormInv' /\ Stand
<1>1. FormTypes /\ Form!NewestCounts
  BY DEF FormInv
<1> DEFINE p == [probe[r] EXCEPT !.at = "done", !.told = "refused"]
<1>2. ProbeOK(probe[r]) /\ probe[r].at = "new"
  BY <1>1 DEF FormTypes, Form!Probe
<1>3. p.at = "done" /\ p.state = "queued" /\ ProbeOK(p)
  BY <1>2 DEF ProbeOK, ProbeRecord, States, ToldOf, Form!Stopped
<1>4. probe' = [probe EXCEPT ![r] = p] /\ groups' = groups
  BY <1>1 DEF Form!Probe
<1> HIDE DEF p
<1>5. /\ DOMAIN probe' = Probes /\ probe' = [q \in Probes |-> probe'[q]]
      /\ probe'[r] = p /\ \A q \in Probes \ {r} : probe'[q] = probe[q]
  BY <1>1, <1>4 DEF FormTypes
<1>6. FormTypes'
  BY <1>1, <1>3, <1>4, <1>5 DEF FormTypes
<1>7. \A q \in Probes : Form!UnderWay(q)' <=> Form!UnderWay(q)
  BY <1>2, <1>3, <1>5 DEF Form!UnderWay
<1>8. PICK f : Ranked(f)
  BY DEF FormInv
<1>9. Ranked(f)'
  BY <1>1, <1>2, <1>4, <1>5, <1>7, <1>8, StaysRanked
<1>10. Form!NewestCounts'
  BY <1>1, <1>4, <1>5, <1>7, <1>2, <1>3 DEF Form!NewestCounts, Form!UnderWay
<1>11. Stand
  BY <1>1, <1>2, <1>5 DEF Stand, FormTypes, ProbeOK, Form!Stopped
<1> QED BY <1>6, <1>9, <1>10, <1>11 DEF FormInv

\* A probe that replaces the one before it, and waits for it.
LEMMA ProbeReplaces ==
  ASSUME FormInv, NEW r \in Probes, Form!Probe(r), ~Form!OutOfOrder(r, groups[MCGroupOf[r]])
  PROVE  FormInv' /\ Stand
<1> DEFINE g == MCGroupOf[r]
           former == groups[g]
           fresh == [Form!NoProbe EXCEPT !.at = Form!First(former), !.after = former]
           p == IF fresh.at = "enters" THEN Form!Runs(fresh) ELSE fresh
<1>1. FormTypes /\ Form!NewestCounts
  BY DEF FormInv
<1>2. g \in Form!Groups /\ former \in Probes \cup {None}
  BY <1>1 DEF Form!Groups, FormTypes
<1>3. ProbeOK(probe[r]) /\ probe[r].at = "new" /\ probe[r].state = "queued"
  BY <1>1 DEF FormTypes, Form!Probe, ProbeOK
<1>4. groups' = [groups EXCEPT ![g] = r] /\ probe' = [Form!Stops({former}, "stale") EXCEPT ![r] = p]
  BY DEF Form!Probe
<1>5. p.after = former /\ p.at = (IF former = None THEN "enters" ELSE "waits") /\ ProbeOK(p)
  <2> HIDE DEF former
  <2>1. CASE former = None
    <3>1. p = [at |-> "enters", state |-> "running", after |-> None, told |-> "nothing"]
      BY <2>1 DEF Form!First, Form!Runs, Form!NoProbe
    <3> HIDE DEF p
    <3>2. /\ p.after = None /\ p.at = "enters" /\ p.state = "running" /\ p \in ProbeRecord
      BY <3>1 DEF ProbeRecord, States, ToldOf
    <3> QED BY <2>1, <3>2 DEF ProbeOK
  <2>2. CASE former # None
    <3>1. p = [at |-> "waits", state |-> "queued", after |-> former, told |-> "nothing"]
      BY <2>2 DEF Form!First, Form!Runs, Form!NoProbe
    <3> HIDE DEF p
    <3>2. /\ p.after = former /\ p.at = "waits" /\ p.state = "queued" /\ p \in ProbeRecord /\ former \in Probes
      BY <1>2, <2>2, <3>1 DEF ProbeRecord, States, ToldOf
    <3> QED BY <2>2, <3>2 DEF ProbeOK
  <2> QED BY <2>1, <2>2
<1>8. PICK f : Ranked(f)
  BY DEF FormInv
<1>9. former # None => former \in Probes /\ Form!UnderWay(former) /\ MCGroupOf[former] = g /\ former # r
  BY <1>2, <1>3, <1>8 DEF Ranked, Form!UnderWay
<1> HIDE DEF p, fresh
<1>11. /\ DOMAIN probe' = Probes /\ probe' = [q \in Probes |-> probe'[q]]
       /\ probe'[r] = p /\ \A q \in Probes \ {r} : probe'[q] = Form!Stops({former}, "stale")[q]
  BY <1>4 DEF Form!Stops
<1>12. ASSUME NEW q \in Probes \ {r}
       PROVE  /\ ProbeOK(probe'[q]) /\ probe'[q].at = probe[q].at /\ probe'[q].after = probe[q].after
              /\ probe'[q].told = probe[q].told
              /\ probe'[q].state = probe[q].state \/ (probe'[q].state = "stale" /\ probe[q].state \notin Form!Stopped)
              /\ q = former /\ Form!UnderWay(q) => probe'[q].state \notin {"queued", "running"}
  <2>1. "stale" \in Form!Stopped /\ q \in Probes /\ probe'[q] = Form!Stops({former}, "stale")[q]
    BY <1>11 DEF Form!Stopped
  <2> HIDE DEF former
  <2> QED BY <1>1, <2>1, StopsFacts
<1>13. FormTypes'
  <2>1. groups' \in [Form!Groups -> Probes \cup {None}]
    BY <1>1, <1>2, <1>4 DEF FormTypes
  <2> QED BY <1>5, <1>11, <1>12, <2>1 DEF FormTypes
<1>14. ~Form!UnderWay(r) /\ Form!UnderWay(r)' /\ \A q \in Probes \ {r} : Form!UnderWay(q)' <=> Form!UnderWay(q)
  BY <1>3, <1>5, <1>11, <1>12 DEF Form!UnderWay
<1>15. groups'[g] = r /\ \A h \in Form!Groups \ {g} : groups'[h] = groups[h]
  BY <1>1, <1>2, <1>4 DEF FormTypes
<1>16. \E n \in Nat : /\ \A q \in Probes : Form!UnderWay(q) /\ MCGroupOf[q] = g => former # None /\ f[q] < n
                      /\ former # None => f[former] < n /\ \A q \in Probes : Form!UnderWay(q) /\ MCGroupOf[q] = g => f[q] <= f[former]
  <2>1. CASE former = None
    BY <1>2, <1>8, <2>1 DEF Ranked
  <2>2. CASE former # None
    <3>1. f[former] \in Nat /\ \A q \in Probes : f[q] \in Nat
      BY <1>8, <1>9, <2>2 DEF Ranked
    <3>2. \A q \in Probes : Form!UnderWay(q) /\ MCGroupOf[q] = g => f[q] <= f[former]
      BY <1>2, <1>8, <2>2 DEF Ranked
    <3>3. f[former] + 1 \in Nat /\ f[former] < f[former] + 1
          /\ \A q \in Probes : Form!UnderWay(q) /\ MCGroupOf[q] = g => f[q] < f[former] + 1
      BY <3>1, <3>2
    <3> HIDE DEF former, g
    <3> QED BY <2>2, <3>2, <3>3
  <2> QED BY <2>1, <2>2
<1>17. PICK n \in Nat : /\ \A q \in Probes : Form!UnderWay(q) /\ MCGroupOf[q] = g => former # None /\ f[q] < n
                        /\ former # None => f[former] < n /\ \A q \in Probes : Form!UnderWay(q) /\ MCGroupOf[q] = g => f[q] <= f[former]
  BY <1>16
<1>18. PICK h : h \in [Probes -> Nat] /\ h[r] = n /\ \A q \in Probes \ {r} : h[q] = f[q]
  <2>1. f \in [Probes -> Nat]
    BY <1>8 DEF Ranked
  <2> WITNESS [f EXCEPT ![r] = n]
  <2> QED BY <2>1
<1>19. \A q, s \in Probes : Together(q, s)' <=> \/ Together(q, s)
                                                \/ q = r /\ s = r
                                                \/ q = r /\ s # r /\ Form!UnderWay(s) /\ MCGroupOf[s] = g
                                                \/ s = r /\ q # r /\ Form!UnderWay(q) /\ MCGroupOf[q] = g
  BY <1>14 DEF Together
<1>20. \A q, s \in Probes : Together(q, s) => q # r /\ s # r
  BY <1>14 DEF Together
<1>21. \A q \in Probes : f[q] \in Nat
  BY <1>8 DEF Ranked
<1> HIDE DEF former, g
<1>22. ASSUME NEW q \in Probes, NEW s \in Probes, Together(q, s)', h[q] = h[s] PROVE q = s
  <2>1. CASE Together(q, s)
    BY <1>8, <1>18, <1>20, <1>22, <2>1 DEF Ranked
  <2>2. CASE ~Together(q, s)
    BY <1>17, <1>18, <1>19, <1>21, <1>22, <2>2
  <2> QED BY <2>1, <2>2
<1>23. ASSUME NEW q \in Probes, NEW s \in Probes, Together(q, s)', h[s] < h[q]
       PROVE  (/\ probe[q].at = "waits" /\ probe[q].after \in Probes
               /\ Together(q, probe[q].after)
               /\ h[s] <= h[probe[q].after] /\ h[probe[q].after] < h[q])'
  <2>1. CASE Together(q, s)
    <3>1. q # r /\ s # r /\ f[s] < f[q]
      BY <1>18, <1>20, <1>23, <2>1
    <3>2. /\ probe[q].at = "waits" /\ probe[q].after \in Probes
          /\ Together(q, probe[q].after)
          /\ f[s] <= f[probe[q].after] /\ f[probe[q].after] < f[q]
      BY <1>8, <2>1, <3>1 DEF Ranked
    <3>3. probe[q].after # r /\ probe'[q].at = probe[q].at /\ probe'[q].after = probe[q].after
      BY <1>12, <1>20, <3>1, <3>2
    <3>4. Together(q, probe[q].after)'
      BY <1>19, <3>2, <3>3
    <3> QED BY <1>18, <3>1, <3>2, <3>3, <3>4
  <2>2. CASE q = r /\ s # r /\ Form!UnderWay(s) /\ MCGroupOf[s] = g
    <3>1. former # None /\ former \in Probes /\ former # r
      BY <1>9, <1>17, <2>2
    <3>2. probe'[r].at = "waits" /\ probe'[r].after = former
      BY <1>5, <1>11, <3>1
    <3>3. Together(r, probe[r].after)'
      BY <1>9, <1>19, <3>1, <3>2
    <3>4. h[s] <= h[former] /\ h[former] < h[r]
      BY <1>17, <1>18, <2>2, <3>1
    <3> QED BY <2>2, <3>1, <3>2, <3>3, <3>4
  <2>3. CASE s = r /\ q # r /\ Form!UnderWay(q) /\ MCGroupOf[q] = g
    <3>1. f[q] < n /\ ~(n < f[q])
      BY <1>17, <1>21, <2>3
    <3> QED BY <1>18, <1>23, <2>3, <3>1
  <2>4. CASE q = r /\ s = r
    BY <1>18, <1>23, <2>4
  <2> QED BY <1>19, <1>23, <2>1, <2>2, <2>3, <2>4
<1>24. ASSUME NEW k \in Form!Groups
       PROVE  (IF groups[k] = None
          THEN \A q \in Probes : Form!UnderWay(q) => MCGroupOf[q] # k
          ELSE /\ Form!UnderWay(groups[k]) /\ MCGroupOf[groups[k]] = k
               /\ \A q \in Probes : Form!UnderWay(q) /\ MCGroupOf[q] = k => h[q] <= h[groups[k]])'
  <2>1. CASE k = g
    <3>1. groups'[k] = r /\ r # None /\ Form!UnderWay(r)' /\ MCGroupOf[r] = k
      BY <1>14, <1>15, <2>1, ProbesKnown DEF g
    <3>2. ASSUME NEW q \in Probes, Form!UnderWay(q)', MCGroupOf[q] = k PROVE h[q] <= h[r]
      BY <1>14, <1>17, <1>18, <1>21, <2>1, <3>2
    <3> QED BY <3>1, <3>2
  <2>2. CASE k # g
    <3>1. groups'[k] = groups[k] /\ groups[k] \in Probes \cup {None} /\ MCGroupOf[r] # k
      BY <1>1, <1>15, <2>2 DEF FormTypes, g
    <3>2. groups[k] # None => groups[k] # r /\ Form!UnderWay(groups[k]) /\ MCGroupOf[groups[k]] = k
      BY <1>8, <1>14, <3>1 DEF Ranked
    <3>3. IF groups[k] = None
            THEN \A q \in Probes : Form!UnderWay(q) => MCGroupOf[q] # k
            ELSE \A q \in Probes : Form!UnderWay(q) /\ MCGroupOf[q] = k => f[q] <= f[groups[k]]
      BY <1>8 DEF Ranked
    <3> QED BY <1>14, <1>18, <3>1, <3>2, <3>3
  <2> QED BY <2>1, <2>2
<1>25. Ranked(h)'
  BY <1>18, <1>22, <1>23, <1>24 DEF Ranked
<1>26. Form!NewestCounts'
  <2> SUFFICES ASSUME NEW q \in Probes, Form!UnderWay(q)', probe'[q].state \in {"queued", "running"}, q # r
               PROVE  groups'[MCGroupOf[q]] = q
    BY <1>15 DEF Form!NewestCounts, g
  <2>1. Form!UnderWay(q) /\ q # former /\ probe[q].state \in {"queued", "running"}
    BY <1>12, <1>14
  <2>2. groups[MCGroupOf[q]] = q /\ MCGroupOf[q] \in Form!Groups
    BY <1>1, <2>1 DEF Form!NewestCounts, Form!Groups
  <2>3. MCGroupOf[q] # g
    BY <2>1, <2>2 DEF former
  <2> QED BY <1>15, <2>2, <2>3
<1>27. Stand
  <2> SUFFICES ASSUME NEW q \in Probes, probe[q].state \in Form!Stopped
               PROVE  probe'[q].state = probe[q].state
                        /\ (probe'[q].at = "done" => probe'[q].told = probe[q].state)
    BY DEF Stand
  <2>1. q # r
    BY <1>3 DEF Form!Stopped
  <2>2. ProbeOK(probe'[q]) /\ probe'[q].state = probe[q].state
    BY <1>12, <2>1
  <2> QED BY <2>2 DEF ProbeOK
<1> QED BY <1>13, <1>25, <1>26, <1>27 DEF FormInv

\* From one wait of a probe to the next.
LEMMA ProceedsStep ==
  ASSUME FormInv, NEW r \in Probes, Form!Proceeds(r)
  PROVE  FormInv' /\ Stand
<1>1. FormTypes /\ ProbeOK(probe[r]) /\ probe[r] \in ProbeRecord
  BY DEF FormInv, FormTypes, ProbeOK
<1>2. Form!UnderWay(r) /\ probe[r].at = "waits" /\ probe[probe[r].after].at = "done"
  BY DEF Form!Proceeds, Form!UnderWay
<1>3. CASE probe[r].state \in Form!Stopped
  <2> DEFINE p == [probe[r] EXCEPT !.at = "done", !.after = None, !.told = probe[r].state]
  <2>1. p.at = "done" /\ p.state = probe[r].state /\ p.told = probe[r].state /\ p \in ProbeRecord
    BY <1>1, <1>3 DEF ProbeRecord, ToldOf, Form!Stopped
  <2>2. ProbeOK(p)
    BY <2>1 DEF ProbeOK
  <2>3. probe' = [probe EXCEPT ![r] = p] /\ groups' = Form!Forgotten(r)
    BY <1>1, <1>3 DEF Form!Proceeds, Form!Settles, FormTypes
  <2> HIDE DEF p
  <2> QED BY <1>2, <2>1, <2>2, <2>3, ProbeOver
<1>4. CASE probe[r].state \notin Form!Stopped
  <2> DEFINE p == [probe[r] EXCEPT !.after = None, !.at = "enters", !.state = "running"]
  <2>1. p.at = "enters" /\ p.state = "running" /\ p \in ProbeRecord
    BY <1>1 DEF ProbeRecord, States
  <2>2. ProbeOK(p)
    BY <2>1 DEF ProbeOK
  <2>3. probe' = [probe EXCEPT ![r] = p] /\ groups' = groups
    BY <1>1, <1>4 DEF Form!Proceeds, Form!Runs, FormTypes
  <2>4. probe[r].state \in {"queued", "running"}
    BY <1>1, <1>2, <1>4 DEF ProbeOK
  <2> HIDE DEF p
  <2> QED BY <1>2, <1>4, <2>1, <2>2, <2>3, <2>4, GoesOn
<1> QED BY <1>3, <1>4

\* The operation is admitted.
LEMMA EntersStep ==
  ASSUME FormInv, NEW r \in Probes, Form!Enters(r)
  PROVE  FormInv' /\ Stand
<1> DEFINE p == [probe[r] EXCEPT !.at = "validates"]
<1>1. ProbeOK(probe[r]) /\ probe[r] \in ProbeRecord /\ probe \in [Probes -> ProbeRecord]
  BY DEF FormInv, FormTypes, ProbeOK
<1>2. Form!UnderWay(r) /\ probe[r].at = "enters" /\ probe[r].state = "running"
  BY DEF Form!Enters, Form!UnderWay
<1>3. p.at = "validates" /\ p.state = "running" /\ p \in ProbeRecord
  BY <1>1, <1>2 DEF ProbeRecord
<1>4. ProbeOK(p)
  BY <1>3 DEF ProbeOK
<1>5. probe' = [probe EXCEPT ![r] = p] /\ groups' = groups
  BY <1>1 DEF Form!Enters
<1> HIDE DEF p
<1> QED BY <1>2, <1>3, <1>4, <1>5, GoesOn

\* How a probe fails.
LEMMA FailingFacts ==
  ASSUME NEW r \in Probes, ProbeOK(probe[r])
  PROVE  /\ Form!Failing(r) \in States /\ Form!Failing(r) \in ToldOf /\ Form!Failing(r) \notin {"queued", "running"}
         /\ probe[r].state \in Form!Stopped => Form!Failing(r) = probe[r].state
BY DEF Form!Failing, Form!Stopped, States, ToldOf

\* The operation is refused.
LEMMA RefusedStep ==
  ASSUME FormInv, NEW r \in Probes, Form!Refused(r)
  PROVE  FormInv' /\ Stand
<1> DEFINE s == Form!Failing(r)
           p == [probe[r] EXCEPT !.at = "done", !.state = s, !.told = s]
<1>1. ProbeOK(probe[r]) /\ probe[r] \in ProbeRecord /\ probe \in [Probes -> ProbeRecord]
  BY DEF FormInv, FormTypes, ProbeOK
<1>2. Form!UnderWay(r) /\ probe[r].at = "enters"
  BY DEF Form!Refused, Form!UnderWay
<1>3. s \in States /\ s \in ToldOf /\ (probe[r].state \in Form!Stopped => s = probe[r].state)
  BY <1>1, FailingFacts
<1>4. probe' = [probe EXCEPT ![r] = p] /\ groups' = Form!Forgotten(r)
  BY <1>1 DEF Form!Refused
<1> HIDE DEF s
<1>5. p.at = "done" /\ p.state = s /\ p.told = s /\ p \in ProbeRecord
  BY <1>1, <1>3 DEF ProbeRecord
<1>6. ProbeOK(p)
  BY <1>5 DEF ProbeOK
<1> HIDE DEF p
<1> QED BY <1>2, <1>3, <1>4, <1>5, <1>6, ProbeOver

\* The driver has answered.
LEMMA ValidatedStep ==
  ASSUME FormInv, NEW r \in Probes, Form!Validated(r)
  PROVE  FormInv' /\ Stand
<1>1. ProbeOK(probe[r]) /\ probe[r] \in ProbeRecord /\ probe \in [Probes -> ProbeRecord]
  BY DEF FormInv, FormTypes, ProbeOK
<1>2. Form!UnderWay(r) /\ probe[r].at = "validates" /\ groups' = groups
  BY DEF Form!Validated, Form!UnderWay
<1>3. PICK s : /\ s \in States /\ s \notin {"queued", "running"}
               /\ probe[r].state \in Form!Stopped => s = probe[r].state
               /\ probe' = [probe EXCEPT ![r].at = "cleans", ![r].state = s]
  <2>1. CASE Form!Taken(r) /\ probe' = [probe EXCEPT ![r].at = "cleans", ![r].state = "valid"]
    BY <2>1 DEF Form!Taken, States, Form!Stopped
  <2>2. CASE probe' = [probe EXCEPT ![r].at = "cleans", ![r].state = Form!Failing(r)]
    BY <1>1, <2>2, FailingFacts
  <2> QED BY <2>1, <2>2 DEF Form!Validated
<1> DEFINE p == [probe[r] EXCEPT !.at = "cleans", !.state = s]
<1>4. probe' = [probe EXCEPT ![r] = p]
  BY <1>1, <1>3
<1>5. p.at = "cleans" /\ p.state = s /\ p \in ProbeRecord
  BY <1>1, <1>3 DEF ProbeRecord
<1>6. ProbeOK(p)
  BY <1>3, <1>5 DEF ProbeOK
<1> HIDE DEF p
<1> QED BY <1>2, <1>3, <1>4, <1>5, <1>6, GoesOn

\* The connection of the probe is closed.
LEMMA CleanedStep ==
  ASSUME FormInv, NEW r \in Probes, Form!Cleaned(r)
  PROVE  FormInv' /\ Stand
<1> DEFINE p == [probe[r] EXCEPT !.at = "done", !.after = None, !.told = probe[r].state]
<1>1. ProbeOK(probe[r]) /\ probe[r] \in ProbeRecord /\ probe \in [Probes -> ProbeRecord]
  BY DEF FormInv, FormTypes, ProbeOK
<1>2. Form!UnderWay(r) /\ probe[r].at = "cleans"
  BY DEF Form!Cleaned, Form!UnderWay
<1>3. probe[r].state \in ToldOf /\ probe[r].state \in States
  BY <1>1, <1>2 DEF ProbeOK, ProbeRecord, ToldOf, States
<1>4. p.at = "done" /\ p.state = probe[r].state /\ p.told = probe[r].state /\ p \in ProbeRecord
  BY <1>1, <1>3 DEF ProbeRecord
<1>5. ProbeOK(p)
  BY <1>4 DEF ProbeOK
<1>6. probe' = [probe EXCEPT ![r] = p] /\ groups' = Form!Forgotten(r)
  BY <1>1 DEF Form!Cleaned, Form!Settles
<1> HIDE DEF p
<1> QED BY <1>2, <1>4, <1>5, <1>6, ProbeOver

\* The invariant holds at the start.
LEMMA FormStart == Form!Init => FormInv
<1> SUFFICES ASSUME Form!Init PROVE FormInv
  OBVIOUS
<1>1. ProbeOK(Form!NoProbe)
  BY DEF Form!NoProbe, ProbeOK, ProbeRecord, States, ToldOf
<1>2. FormTypes
  BY <1>1 DEF Form!Init, FormTypes
<1>3. \A r \in Probes : ~Form!UnderWay(r)
  BY DEF Form!Init, Form!NoProbe, Form!UnderWay
<1>4. Ranked([r \in Probes |-> 0])
  BY <1>3 DEF Form!Init, Ranked, Together
<1>5. Form!NewestCounts
  BY <1>3 DEF Form!NewestCounts
<1> QED BY <1>2, <1>4, <1>5 DEF FormInv

\* A stutter keeps it.
LEMMA FormStays ==
  ASSUME FormInv, UNCHANGED Form!vars
  PROVE  FormInv'
<1>1. FormTypes' /\ Form!NewestCounts'
  BY DEF FormInv, FormTypes, Form!NewestCounts, Form!UnderWay, Form!vars
<1>2. PICK f : Ranked(f)
  BY DEF FormInv
<1>3. Ranked(f)'
  BY <1>2 DEF Ranked, Together, Form!UnderWay, Form!vars
<1> QED BY <1>1, <1>3 DEF FormInv

\* So does every step, and what was stopped stays so.
LEMMA FormStep ==
  ASSUME FormInv, Form!Next
  PROVE  FormInv' /\ Stand
<1>1. ASSUME NEW r \in Probes,
             Form!Probe(r) \/ Form!Proceeds(r) \/ Form!Enters(r) \/ Form!Refused(r) \/ Form!Validated(r) \/ Form!Cleaned(r)
      PROVE  FormInv' /\ Stand
  BY <1>1, ProbeRefused, ProbeReplaces, ProceedsStep, EntersStep, RefusedStep, ValidatedStep, CleanedStep
<1>2. ASSUME NEW r \in Probes, Form!Cancel(r) PROVE FormInv' /\ Stand
  BY <1>2, Halts DEF Form!Cancel
<1>3. ASSUME Form!WindowCloses PROVE FormInv' /\ Stand
  BY <1>3, Halts DEF Form!WindowCloses
<1> QED BY <1>1, <1>2, <1>3 DEF Form!Next

\* It gives the property: of two that work one would have to wait.
LEMMA FormImplies == FormInv => Form!ProbesOwned
<1> SUFFICES ASSUME FormInv PROVE Form!ProbesOwned
  OBVIOUS
<1>1. FormTypes /\ Form!NewestCounts
  BY DEF FormInv
<1>2. Form!TypeOK
  BY <1>1 DEF Form!TypeOK, FormTypes, ProbeOK, ProbeRecord, States, ToldOf
<1>3. PICK f : Ranked(f)
  BY DEF FormInv
<1>4. Form!OneAtATime
  <2> SUFFICES ASSUME NEW r \in Probes, NEW q \in Probes, MCGroupOf[r] = MCGroupOf[q], r # q,
                      probe[r].at \in {"enters", "validates", "cleans"},
                      probe[q].at \in {"enters", "validates", "cleans"}
               PROVE  FALSE
    BY DEF Form!OneAtATime
  <2>1. Together(r, q) /\ Together(q, r)
    BY DEF Together, Form!UnderWay
  <2>2. f[r] \in Nat /\ f[q] \in Nat /\ f[r] # f[q]
    BY <1>3, <2>1 DEF Ranked
  <2>3. ~(f[r] < f[q]) /\ ~(f[q] < f[r])
    BY <1>3, <2>1 DEF Ranked
  <2> QED BY <2>2, <2>3
<1> QED BY <1>1, <1>2, <1>4 DEF Form!ProbesOwned

-----------------------------------------------------------------------------
(* The parts together.  A part that is not at work stays as it began.        *)

\* The invariants of routes and probes.
WorkInv == RouteInv /\ FormInv

\* They hold at the start.
LEMMA WorkStarts == MCInit => WorkInv
  BY RoutesStart, FormStart DEF MCInit, WorkInv

\* A step of one part leaves the others alone.
LEMMA WorkStep ==
  ASSUME WorkInv, [MCNext]_allVars
  PROVE  WorkInv' /\ [Stand]_(Form!vars)
<1>1. CASE UNCHANGED routeVars /\ UNCHANGED formVars
  <2>1. UNCHANGED Routes!vars /\ UNCHANGED Form!vars
    BY <1>1 DEF routeVars, formVars, Routes!vars, Form!vars
  <2> QED BY <2>1, RoutesStay, FormStays DEF WorkInv
<1>2. CASE Routes!Next /\ UNCHANGED formVars
  <2>1. UNCHANGED Form!vars
    BY <1>2 DEF formVars, Form!vars
  <2> QED BY <1>2, <2>1, RoutesStep, FormStays DEF WorkInv
<1>3. CASE Form!Next /\ UNCHANGED routeVars
  <2>1. UNCHANGED Routes!vars
    BY <1>3 DEF routeVars, Routes!vars
  <2> QED BY <1>3, <2>1, RoutesStay, FormStep DEF WorkInv
<1> QED BY <1>1, <1>2, <1>3 DEF MCNext, allVars

\* Whatever attempts, disconnects and losses meet over a route, and however the
\* probes of a form replace one another: the clean-up of an older attempt never takes
\* the route of the session that stands, the newest attempt is not told that it was
\* replaced, and no route or generation is left behind; the probes of a form work one
\* at a time, only the newest counts, and what one was stopped for is what its
\* caller is told.
THEOREM OwnersAreKept == MCLiveSpec => OwnersKeep
<1>1. WorkInv => Routes!RoutesOwned /\ Form!ProbesOwned
  BY RoutesImply, FormImplies DEF WorkInv
<1>2. WorkInv /\ [MCNext]_allVars => WorkInv'
  BY WorkStep
<1>3. WorkInv /\ [MCNext]_allVars => [Stand]_(Form!vars)
  BY WorkStep
<1>4. WorkInv => (part = "route" => Routes!RoutesOwned) /\ (part = "form" => Form!ProbesOwned)
  BY <1>1
<1>5. MCLiveSpec => []WorkInv
  BY WorkStarts, <1>2, PTL DEF MCLiveSpec
<1>6. MCLiveSpec => /\ [](part = "route" => Routes!RoutesOwned)
                    /\ [](part = "form" => Form!ProbesOwned)
  BY <1>4, <1>5, PTL
<1>7. MCLiveSpec => Form!StopsStand
  BY <1>3, <1>5, PTL DEF MCLiveSpec, Form!StopsStand, Stand
<1> QED BY <1>6, <1>7 DEF OwnersKeep
=============================================================================
