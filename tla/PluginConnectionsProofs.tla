----------------------- MODULE PluginConnectionsProofs -----------------------
(***************************************************************************)
(* Theorems about the connections of one environment, for any plugins,     *)
(* plans, requests and number of permits: permits are exact, sessions      *)
(* belong to operations that stand for them, a shared operation outlives   *)
(* the cancellation of one of its plans, and a clean-up never reaches a    *)
(* connect that was requested after it.                                    *)
(*                                                                         *)
(* IInv is the inductive invariant. A node that waits for a cancelled      *)
(* operation keeps every other operation of its plugin from being          *)
(* cancelled until it goes on: cancellations come from outside, and a      *)
(* waiting node whose operation has ended goes on before anything else.    *)
(***************************************************************************)
EXTENDS PluginConnections, FiniteSetTheorems, SequenceTheorems, WellFoundedInduction, TLAPS

-----------------------------------------------------------------------------
(* The inductive invariant.                                                *)

Early == {"idle", "fenced", "building", "refused"}
RuntimeRecord ==
  [owner : [Plugins -> Ops \cup {None}], session : [Plugins -> Ops \cup {None}],
   trying : SUBSET Ops]

\* A plan has nodes once it is built. A node has an operation of its own only
\* after it has started it, and the one that it waits for was cancelled; when
\* that one has ended, no other of the plugin is being cancelled.
NodeOK(l, p) ==
  LET n == plan[l].node[p] IN
  /\ plan[l].st \in Early => n.st = "none"
  /\ n.st \in {"none", "ready", "waiting"} => op[<<l, p>>].st = "none"
  /\ n.st = "waiting" =>
       n.on \in Ops /\ PluginOf(n.on) = p /\ op[n.on].st \notin {"none", "running"}
  /\ Going(l) /\ n.st = "waiting" /\ ~Live(n.on) =>
       \A o \in Ops : PluginOf(o) = p => op[o].st # "cancelling"
NodesOK == \A l \in Plans, p \in Plugins : NodeOK(l, p)

\* A plugin has one operation at a time.
OneOp == \A o, u \in Ops : Live(o) /\ Live(u) /\ PluginOf(o) = PluginOf(u) => o = u

\* A session belongs to the operation that checks it or completed with it.
SessionOK(p) ==
  LET o == runtime.session[p]
  IN o # None => PluginOf(o) = p /\ (op[o].at = "reading" \/ op[o].st = "completed")

\* A driver whose attempt is the newest one works for a running operation.
TryOK(o) ==
  o \in runtime.trying /\ runtime.owner[PluginOf(o)] = o => Running(o) /\ op[o].at = "connecting"
RuntimeOK == (\A p \in Plugins : SessionOK(p)) /\ (\A o \in Ops : TryOK(o))

\* Permits in use and operations in the queue.
Connecting == {o \in Ops : op[o].at = "connecting"}
QueueOK ==
  /\ \A i \in DOMAIN permit.queue : op[permit.queue[i]].at = "permit"
  /\ \A i, j \in DOMAIN permit.queue : permit.queue[i] = permit.queue[j] => i = j
  /\ \A o \in Ops : op[o].at = "permit" /\ Running(o) =>
       \E i \in DOMAIN permit.queue : permit.queue[i] = o
CountOK ==
  /\ permit.active = Cardinality(Connecting) /\ permit.active <= MaxConcurrency
  /\ Waiting # {} => permit.active = MaxConcurrency

\* Clean-ups are queued in the order of their numbers. A plan that waits for
\* one has it behind every older one; any other plan was requested before all
\* that are queued.
Cleanups == {i \in DOMAIN jobs : jobs[i].kind = "cleanup"}
CleanupsOK ==
  /\ \A i \in Cleanups : jobs[i].id \in 1..seen.made
  /\ \A i, j \in Cleanups : i < j => jobs[i].id < jobs[j].id
PlanFenceOK(l) ==
  /\ plan[l].awaits <= seen.made
  /\ plan[l].st # "fenced" => \A i \in Cleanups : plan[l].awaits < jobs[i].id
  /\ plan[l].st = "fenced" =>
       \A i \in Cleanups : jobs[i].id <= plan[l].awaits =>
         \E j \in Cleanups : i <= j /\ jobs[j].id = plan[l].awaits
FencesOK == CleanupsOK /\ \A l \in Plans : PlanFenceOK(l)

\* A job at its disconnections has one to do.
JobsOK ==
  \A i \in DOMAIN jobs :
    /\ jobs[i].at = "drop" => jobs[i].todo # <<>>
    /\ jobs[i].kind \in {"lost", "changed"} => jobs[i].of # None

IInv ==
  /\ TypeOK /\ NodesOK /\ OneOp /\ RuntimeOK /\ QueueOK /\ CountOK /\ FencesOK /\ JobsOK

-----------------------------------------------------------------------------
(* The operators of the model.                                             *)

\* Among the numbers of a set there is a least one, and a largest one below a bound.
LEMMA LeastExists ==
  ASSUME NEW S, S \subseteq Nat, S # {}
  PROVE  \E x \in S : \A y \in S : x <= y
<1> DEFINE R == OpToRel(<, Nat)
<1>1. IsWellFoundedOn(R, Nat)
  BY NatLessThanWellFounded
<1>2. PICK x \in S : \A y \in S : ~(<<y, x>> \in R)
  <2> HIDE DEF R
  <2> QED
    BY <1>1, WFMin
<1>3. ASSUME NEW y \in S PROVE x <= y
  <2>1. ~(y < x)
    BY <1>2 DEF OpToRel
  <2> QED
    BY <2>1
<1> QED
  BY <1>3

LEMMA GreatestExists ==
  ASSUME NEW n \in Nat, NEW S, S \subseteq 1..n, S # {}
  PROVE  \E x \in S : \A y \in S : y <= x
<1> DEFINE T == {n - x : x \in S}
<1>1. T \subseteq Nat /\ T # {}
  <2>1. ASSUME NEW x \in S PROVE n - x \in Nat
    OBVIOUS
  <2>2. PICK x \in S : TRUE
    OBVIOUS
  <2>3. n - x \in T
    OBVIOUS
  <2> QED
    BY <2>1, <2>3
<1>2. PICK z \in T : \A y \in T : z <= y
  <2> HIDE DEF T
  <2> QED
    BY <1>1, LeastExists
<1>3. PICK x \in S : z = n - x
  OBVIOUS
<1>4. ASSUME NEW y \in S PROVE y <= x
  <2>1. n - x <= n - y
    BY <1>2, <1>3
  <2>2. n \in Int /\ x \in Int /\ y \in Int
    OBVIOUS
  <2> QED
    BY <2>1, <2>2
<1> QED
  BY <1>4

LEMMA MinOf ==
  ASSUME NEW S, S \subseteq Nat, S # {}
  PROVE  Min(S) \in S /\ \A y \in S : Min(S) <= y
BY LeastExists DEF Min

LEMMA OpsPairs ==
  /\ \A o \in Ops : PluginOf(o) \in Plugins /\ o[1] \in Plans /\ o[2] \in Plugins /\ o = <<o[1], o[2]>>
  /\ \A l \in Plans, p \in Plugins : <<l, p>> \in Ops /\ PluginOf(<<l, p>>) = p
  /\ None \notin Ops /\ None \notin Plugins
BY ConnectionAssumption DEF Ops, PluginOf

LEMMA OpsFinite == IsFiniteSet(Ops)
BY ConnectionAssumption, FS_Product DEF Ops

LEMMA ScopeIn ==
  /\ DOMAIN Provider \subseteq Plugins /\ Servers \subseteq Plugins
  /\ \A p : Dependents(p) \subseteq Plugins /\ (p \in Plugins => Scope(p) \subseteq Plugins)
BY ConnectionAssumption DEF Dependents, Scope

LEMMA EndedType ==
  ASSUME NEW st \in OpStates
  PROVE  /\ Ended(st) \in OpRecord /\ Ended(st).st = st /\ Ended(st).at = "none"
BY DEF Ended, OpRecord, OpPlaces

LEMMA ShowType ==
  ASSUME NEW v \in View, NEW S, NEW ph \in Phases
  PROVE  Show(v, S, ph) \in View
<1> DEFINE f == [p \in Plugins |-> IF p \in S THEN ph ELSE v.phase[p]]
           g == [p \in Plugins |-> IF p \in S THEN None ELSE v.by[p]]
<1>1. f \in [Plugins -> Phases] /\ g \in [Plugins -> Ops \cup {None}]
  BY DEF View
<1>2. Show(v, S, ph) = [v EXCEPT !.phase = f, !.by = g]
  BY DEF Show
<1> HIDE DEF f, g
<1> QED
  BY <1>1, <1>2 DEF View

LEMMA DropOf ==
  ASSUME NEW r \in RuntimeRecord, NEW S
  PROVE  /\ Drop(r, S) \in RuntimeRecord /\ Drop(r, S).trying = r.trying
         /\ \A p \in Plugins : /\ Drop(r, S).owner[p] = IF p \in S THEN None ELSE r.owner[p]
                               /\ Drop(r, S).session[p] = IF p \in S THEN None ELSE r.session[p]
<1> DEFINE f == [p \in Plugins |-> IF p \in S THEN None ELSE r.owner[p]]
           g == [p \in Plugins |-> IF p \in S THEN None ELSE r.session[p]]
<1>1. f \in [Plugins -> Ops \cup {None}] /\ g \in [Plugins -> Ops \cup {None}]
  BY DEF RuntimeRecord
<1>2. Drop(r, S) = [r EXCEPT !.owner = f, !.session = g]
  BY DEF Drop
<1>3. \A p \in Plugins : /\ f[p] = IF p \in S THEN None ELSE r.owner[p]
                         /\ g[p] = IF p \in S THEN None ELSE r.session[p]
  OBVIOUS
<1> HIDE DEF f, g
<1> QED
  BY <1>1, <1>2, <1>3 DEF RuntimeRecord

LEMMA BegunOf ==
  ASSUME NEW r \in RuntimeRecord, NEW o \in Ops
  PROVE  /\ Begun(r, o) \in RuntimeRecord /\ Begun(r, o).trying = r.trying \cup {o}
         /\ Begun(r, o).owner[PluginOf(o)] = o /\ Begun(r, o).session[PluginOf(o)] = None
         /\ \A p \in Plugins : p # PluginOf(o) =>
              Begun(r, o).owner[p] = r.owner[p] /\ Begun(r, o).session[p] = r.session[p]
<1> DEFINE d == Drop(r, {PluginOf(o)})
<1>1. /\ d \in RuntimeRecord /\ d.trying = r.trying
      /\ \A p \in Plugins : /\ d.owner[p] = IF p \in {PluginOf(o)} THEN None ELSE r.owner[p]
                            /\ d.session[p] = IF p \in {PluginOf(o)} THEN None ELSE r.session[p]
  BY DropOf
<1> DEFINE f == [d.owner EXCEPT ![PluginOf(o)] = o]
<1>2. Begun(r, o) = [d EXCEPT !.owner = f, !.trying = d.trying \cup {o}]
  BY DEF Begun
<1>3. PluginOf(o) \in Plugins
  BY OpsPairs
<1> HIDE DEF d
<1>4. /\ f \in [Plugins -> Ops \cup {None}] /\ f[PluginOf(o)] = o
      /\ \A p \in Plugins : p # PluginOf(o) => f[p] = d.owner[p]
  BY <1>1, <1>3 DEF RuntimeRecord
<1> HIDE DEF f
<1> DEFINE y == d.trying \cup {o}
<1>5. y \in SUBSET Ops /\ y = r.trying \cup {o}
  BY <1>1 DEF RuntimeRecord
<1>6. Begun(r, o) = [d EXCEPT !.owner = f, !.trying = y]
  BY <1>2
<1> HIDE DEF y
<1>7. /\ Begun(r, o) \in RuntimeRecord /\ Begun(r, o).owner = f /\ Begun(r, o).session = d.session
      /\ Begun(r, o).trying = y
  BY <1>1, <1>4, <1>5, <1>6 DEF RuntimeRecord
<1> QED
  BY <1>1, <1>3, <1>4, <1>5, <1>7

\* What becomes of one plan.
LEMMA PlanSet ==
  ASSUME TypeOK, NEW l \in Plans, NEW r \in PlanRecord, plan' = [plan EXCEPT ![l] = r]
  PROVE  /\ plan' \in [Plans -> PlanRecord] /\ plan'[l] = r
         /\ \A k \in Plans : k # l => plan'[k] = plan[k]
BY DEF TypeOK

LEMMA PlanType ==
  ASSUME NEW r \in PlanRecord, NEW s \in PlanStates
  PROVE  LET x == [r EXCEPT !.st = s]
         IN x \in PlanRecord /\ x.st = s /\ x.node = r.node /\ x.awaits = r.awaits
BY DEF PlanRecord

LEMMA NodeSet ==
  ASSUME NEW r \in PlanRecord, NEW p \in Plugins,
         NEW n \in [st : NodeStates, on : Ops \cup {None}]
  PROVE  LET x == [r EXCEPT !.node[p] = n]
         IN /\ x \in PlanRecord /\ x.st = r.st /\ x.awaits = r.awaits /\ x.node[p] = n
            /\ \A q \in Plugins : q # p => x.node[q] = r.node[q]
<1> DEFINE f == [r.node EXCEPT ![p] = n]
           x == [r EXCEPT !.node = f]
<1>1. /\ f \in [Plugins -> [st : NodeStates, on : Ops \cup {None}]] /\ f[p] = n
      /\ \A q \in Plugins : q # p => f[q] = r.node[q]
  BY DEF PlanRecord
<1> HIDE DEF f
<1>2. x \in PlanRecord /\ x.st = r.st /\ x.awaits = r.awaits /\ x.node = f
  BY <1>1 DEF PlanRecord
<1>3. [r EXCEPT !.node[p] = n] = x
  BY DEF f
<1> QED
  BY <1>1, <1>2, <1>3

\* Plans end, and change in no other way.
KeepsPlans ==
  /\ plan' \in [Plans -> PlanRecord]
  /\ \A l \in Plans :
       /\ plan'[l].node = plan[l].node /\ plan'[l].awaits = plan[l].awaits
       /\ \/ plan'[l].st = plan[l].st
          \/ plan[l].st = "active" /\ plan'[l].st \in {"cancelled", "completed"}

LEMMA SamePlans ==
  ASSUME TypeOK, plan' = plan
  PROVE  KeepsPlans
BY DEF TypeOK, KeepsPlans

LEMMA SomePlansEnd ==
  ASSUME TypeOK, NEW A \in SUBSET Plans, \A l \in A : plan[l].st = "active",
         NEW s \in {"cancelled", "completed"},
         plan' = [l \in Plans |-> IF l \in A THEN [plan[l] EXCEPT !.st = s] ELSE plan[l]]
  PROVE  KeepsPlans
<1>1. ASSUME NEW l \in Plans
      PROVE  /\ plan'[l] \in PlanRecord
             /\ plan'[l].node = plan[l].node /\ plan'[l].awaits = plan[l].awaits
             /\ plan'[l].st = plan[l].st \/ (plan[l].st = "active" /\ plan'[l].st = s)
  <2>1. plan[l] \in PlanRecord /\ s \in PlanStates
    BY DEF TypeOK, PlanStates
  <2> QED
    BY <2>1, PlanType
<1>2. plan' \in [Plans -> PlanRecord]
  BY <1>1
<1> QED
  BY <1>1, <1>2 DEF KeepsPlans

LEMMA ForcedPlansOf ==
  ASSUME TypeOK, NEW S, plan' = ForcedPlans(S)
  PROVE  KeepsPlans
<1> DEFINE A == {l \in Plans : Active(l) /\ \E o \in S : l \in op[o].subs}
<1>1. plan' = [l \in Plans |-> IF l \in A THEN [plan[l] EXCEPT !.st = "cancelled"] ELSE plan[l]]
  BY DEF ForcedPlans
<1>2. A \in SUBSET Plans /\ \A l \in A : plan[l].st = "active"
  BY DEF Active
<1> HIDE DEF A
<1> QED
  BY <1>1, <1>2, SomePlansEnd

\* Some operations of S are cancelled, and otherwise keep their place.
Cancels(newop, S) ==
  /\ newop \in [Ops -> OpRecord]
  /\ \A o \in Ops : /\ newop[o].at = op[o].at
                    /\ \/ newop[o].st = op[o].st
                       \/ o \in S /\ op[o].st = "running" /\ newop[o].st = "cancelling"

LEMMA ForcedOpsOf ==
  ASSUME TypeOK, NEW S \in SUBSET Ops, \A o \in S : Running(o)
  PROVE  Cancels(ForcedOps(S), S)
<1>1. ASSUME NEW o \in Ops
      PROVE  LET x == [op[o] EXCEPT !.st = "cancelling", !.subs = {}]
             IN x \in OpRecord /\ x.at = op[o].at /\ x.st = "cancelling"
  <2>1. op[o] \in OpRecord /\ "cancelling" \in OpStates /\ {} \in SUBSET Plans
    BY DEF TypeOK, OpStates
  <2> QED
    BY <2>1 DEF OpRecord
<1>2. \A o \in Ops : op[o] \in OpRecord
  BY DEF TypeOK
<1> QED
  BY <1>1, <1>2 DEF ForcedOps, Cancels, Running

LEMMA WithdrawnOpsOf ==
  ASSUME TypeOK, NEW A, NEW S
  PROVE  Cancels(WithdrawnOps(A, S), Unwanted(WithdrawnOps(A, S)))
<1> DEFINE W == WithdrawnOps(A, S)
<1>1. ASSUME NEW o \in Ops
      PROVE  /\ W[o] \in OpRecord /\ W[o].at = op[o].at
             /\ W[o].st = op[o].st \/ (op[o].st = "running" /\ W[o].st = "cancelling")
  <2> DEFINE u == op[o].subs \ A
             s == IF op[o].subs \subseteq A THEN "cancelling" ELSE op[o].st
             x == [op[o] EXCEPT !.subs = u, !.st = s]
  <2>1. op[o] \in OpRecord /\ u \in SUBSET Plans /\ s \in OpStates
    BY DEF TypeOK, OpRecord, OpStates
  <2>2. W[o] = op[o] \/ (op[o].st = "running" /\ W[o] = x)
    BY DEF WithdrawnOps, Running
  <2>3. s \in {"cancelling", op[o].st}
    OBVIOUS
  <2> HIDE DEF u, s
  <2>4. x \in OpRecord /\ x.at = op[o].at /\ x.st = s
    BY <2>1 DEF OpRecord
  <2> HIDE DEF x, W
  <2> QED
    BY <2>1, <2>2, <2>3, <2>4
<1>2. W \in [Ops -> OpRecord]
  <2>1. W = [o \in Ops |-> W[o]]
    BY DEF WithdrawnOps
  <2> HIDE DEF W
  <2> QED
    BY <1>1, <2>1
<1>3. \A o \in Ops : o \in Unwanted(W) <=> (op[o].st = "running" /\ W[o].st = "cancelling")
  BY DEF Unwanted, Running
<1> HIDE DEF W
<1>4. Cancels(W, Unwanted(W))
  BY <1>1, <1>2, <1>3 DEF Cancels
<1> QED
  BY <1>4 DEF W

\* Attempts of operations that were cancelled are disowned; sessions may end.
Disowns(S) ==
  /\ runtime' \in RuntimeRecord /\ runtime'.trying = runtime.trying
  /\ \A p \in Plugins :
       /\ runtime'.owner[p] \in {None, runtime.owner[p]}
       /\ runtime'.session[p] \in {None, runtime.session[p]}
       /\ \A o \in S : op[o].at = "connecting" => runtime'.owner[p] # o

LEMMA DisownedOf ==
  ASSUME TypeOK, NEW S \in SUBSET Ops
  PROVE  /\ Disowned(S) \in RuntimeRecord
         /\ Disowned(S).trying = runtime.trying /\ Disowned(S).session = runtime.session
         /\ \A p \in Plugins :
              /\ Disowned(S).owner[p] \in {None, runtime.owner[p]}
              /\ \A o \in S : op[o].at = "connecting" => Disowned(S).owner[p] # o
<1> DEFINE f == [p \in Plugins |->
                  IF \E o \in S : runtime.owner[p] = o /\ op[o].at = "connecting" THEN None
                  ELSE runtime.owner[p]]
<1>1. runtime \in RuntimeRecord
  BY DEF TypeOK, RuntimeRecord
<1>2. f \in [Plugins -> Ops \cup {None}]
  BY <1>1 DEF RuntimeRecord
<1>3. \A p \in Plugins : /\ f[p] \in {None, runtime.owner[p]}
                         /\ \A o \in S : op[o].at = "connecting" => f[p] # o
  BY OpsPairs
<1>4. Disowned(S) = [runtime EXCEPT !.owner = f]
  BY DEF Disowned
<1> HIDE DEF f
<1> QED
  BY <1>1, <1>2, <1>3, <1>4 DEF RuntimeRecord

LEMMA DisownsOf ==
  ASSUME TypeOK, NEW S \in SUBSET Ops,
         runtime' = Disowned(S) \/ \E g : runtime' = Drop(Disowned(S), g)
  PROVE  Disowns(S)
<1> DEFINE d == Disowned(S)
<1>1. /\ d \in RuntimeRecord /\ d.trying = runtime.trying /\ d.session = runtime.session
      /\ \A p \in Plugins : /\ d.owner[p] \in {None, runtime.owner[p]}
                            /\ \A o \in S : op[o].at = "connecting" => d.owner[p] # o
  BY DisownedOf
<1> HIDE DEF d
<1>2. CASE runtime' = d
  BY <1>1, <1>2 DEF Disowns
<1>3. ASSUME NEW g, runtime' = Drop(d, g)
      PROVE  Disowns(S)
  <2>1. /\ runtime' \in RuntimeRecord /\ runtime'.trying = d.trying
        /\ \A p \in Plugins : /\ runtime'.owner[p] = IF p \in g THEN None ELSE d.owner[p]
                              /\ runtime'.session[p] = IF p \in g THEN None ELSE d.session[p]
    BY <1>1, <1>3, DropOf
  <2>2. \A o \in S : None # o
    BY OpsPairs
  <2> QED
    BY <1>1, <2>1, <2>2 DEF Disowns
<1> QED
  BY <1>2, <1>3 DEF d

\* Nothing is cancelled, and sessions may end.
LEMMA DropsOf ==
  ASSUME TypeOK, runtime' = runtime \/ \E g : runtime' = Drop(runtime, g)
  PROVE  Disowns({})
<1>1. runtime \in RuntimeRecord
  BY DEF TypeOK, RuntimeRecord
<1>2. CASE runtime' = runtime
  BY <1>1, <1>2 DEF Disowns
<1>3. ASSUME NEW g, runtime' = Drop(runtime, g)
      PROVE  Disowns({})
  <2>1. /\ runtime' \in RuntimeRecord /\ runtime'.trying = runtime.trying
        /\ \A p \in Plugins : /\ runtime'.owner[p] = IF p \in g THEN None ELSE runtime.owner[p]
                              /\ runtime'.session[p] = IF p \in g THEN None ELSE runtime.session[p]
    BY <1>1, <1>3, DropOf
  <2> QED
    BY <2>1 DEF Disowns
<1> QED
  BY <1>2, <1>3

-----------------------------------------------------------------------------
(* What cancellations leave of the invariant.                              *)

LiveOK == \A o \in Ops : Live(o) <=> op[o].st \in {"running", "cancelling"}

\* Operations start, end and are cancelled; new cancellations come from outside.
Ages ==
  /\ \A o \in Ops : /\ op'[o].st = "none" <=> op[o].st = "none"
                    /\ op'[o].st = "running" => op[o].st = "running"
  /\ \/ \A o \in Ops : op'[o].st = "cancelling" => op[o].st = "cancelling"
     \/ Settled /\ \A o \in Ops : op'[o].at = op[o].at

LEMMA NodeKept ==
  ASSUME IInv, LiveOK', Ages, NEW l \in Plans, NEW p \in Plugins,
         plan'[l].node[p] = plan[l].node[p],
         plan[l].st \in Early \/ plan'[l].st \notin Early, Going(l)' => Going(l)
  PROVE  NodeOK(l, p)'
<1> DEFINE n == plan[l].node[p]
<1>1. NodeOK(l, p) /\ LiveOK /\ OneOp /\ <<l, p>> \in Ops
  BY OpsPairs DEF IInv, NodesOK, TypeOK, LiveOK
<1>2. plan'[l].st \in Early => n.st = "none"
  BY <1>1 DEF NodeOK
<1>3. n.st \in {"none", "ready", "waiting"} => op'[<<l, p>>].st = "none"
  BY <1>1 DEF NodeOK, Ages
<1>4. n.st = "waiting" =>
        n.on \in Ops /\ PluginOf(n.on) = p /\ op'[n.on].st \notin {"none", "running"}
  BY <1>1 DEF NodeOK, Ages
<1>5. ASSUME Going(l)', n.st = "waiting", op'[n.on].at = "none", NEW o \in Ops, PluginOf(o) = p,
             op'[o].st = "cancelling"
      PROVE  FALSE
  <2>1. n.on \in Ops /\ PluginOf(n.on) = p /\ Going(l)
    BY <1>1, <1>5 DEF NodeOK
  <2>2. CASE op[n.on].at = "none"
    <3>1. op[o].st # "cancelling"
      BY <1>1, <1>5, <2>1, <2>2 DEF NodeOK, Live
    <3>2. Settled
      BY <1>5, <3>1 DEF Ages
    <3> QED
      BY <1>5, <2>1, <2>2, <3>2 DEF Settled, NodeMoves, Waited, Live
  <2>3. CASE op[n.on].at # "none"
    <3>1. op[o].st = "cancelling"
      BY <1>5, <2>1, <2>3 DEF Ages
    <3>2. o = n.on
      BY <1>1, <1>5, <2>1, <2>3, <3>1 DEF OneOp, LiveOK, Live
    <3> QED
      BY <1>5, <3>2 DEF LiveOK, Live
  <2> QED
    BY <2>2, <2>3
<1> QED
  BY <1>2, <1>3, <1>4, <1>5 DEF NodeOK, Live

LEMMA NodesKept ==
  ASSUME IInv, LiveOK', Ages,
         \A l \in Plans : /\ plan'[l].node = plan[l].node
                          /\ plan[l].st \in Early \/ plan'[l].st \notin Early
                          /\ Going(l)' => Going(l)
  PROVE  NodesOK'
BY NodeKept DEF NodesOK

LEMMA KeepsGoing ==
  ASSUME KeepsPlans, NEW l \in Plans
  PROVE  /\ plan'[l].node = plan[l].node
         /\ plan[l].st \in Early \/ plan'[l].st \notin Early
         /\ Going(l)' => Going(l)
         /\ plan'[l].awaits = plan[l].awaits
         /\ plan'[l].st = "fenced" <=> plan[l].st = "fenced"
BY DEF KeepsPlans, Early, Going

\* The queue and the permits of operations that keep their place.
LEMMA PermitsKept ==
  ASSUME IInv, permit' = permit,
         \A o \in Ops : /\ op'[o].at = "connecting" <=> op[o].at = "connecting"
                        /\ op'[o].at = "permit" <=> op[o].at = "permit"
                        /\ op'[o].st = "running" => op[o].st = "running"
  PROVE  QueueOK' /\ CountOK'
<1>1. permit.queue \in Seq(Ops) /\ QueueOK /\ CountOK
  BY DEF IInv, TypeOK
<1>2. \A i \in DOMAIN permit.queue : permit.queue[i] \in Ops
  BY <1>1
<1>3. QueueOK'
  BY <1>1, <1>2 DEF QueueOK, Running
<1>4. Connecting' = Connecting
  BY DEF Connecting
<1>5. Waiting' \subseteq Waiting
  BY <1>2 DEF Waiting, Running
<1>6. CountOK'
  BY <1>1, <1>4, <1>5 DEF CountOK
<1> QED
  BY <1>3, <1>6

LEMMA CancelStep ==
  ASSUME IInv, NEW S \in SUBSET Ops, Cancels(op', S), KeepsPlans, Disowns(S), permit' = permit,
         Settled \/ op' = op
  PROVE  LiveOK' /\ NodesOK' /\ OneOp' /\ RuntimeOK' /\ QueueOK' /\ CountOK'
<1>1. LiveOK /\ OneOp /\ RuntimeOK /\ TypeOK
  BY DEF IInv, TypeOK, LiveOK
<1>2. \A o \in Ops : /\ op'[o].at = op[o].at
                     /\ \/ op'[o].st = op[o].st
                        \/ o \in S /\ op[o].st = "running" /\ op'[o].st = "cancelling"
  BY DEF Cancels
<1>3. LiveOK'
  BY <1>1, <1>2 DEF LiveOK, Live
<1>4. Ages
  BY <1>2 DEF Ages
<1>5. NodesOK'
  BY <1>3, <1>4, KeepsGoing, NodesKept
<1>6. OneOp'
  BY <1>1, <1>2 DEF OneOp, Live
<1>7. ASSUME NEW p \in Plugins PROVE SessionOK(p)'
  <2>1. SessionOK(p) /\ runtime'.session[p] \in {None, runtime.session[p]}
    BY <1>1 DEF RuntimeOK, Disowns
  <2>2. runtime.session[p] \in Ops \cup {None}
    BY <1>1 DEF TypeOK
  <2> QED
    BY <1>2, <2>1, <2>2 DEF SessionOK
<1>8. ASSUME NEW o \in Ops PROVE TryOK(o)'
  <2>1. TryOK(o) /\ PluginOf(o) \in Plugins /\ o # None
    BY <1>1, OpsPairs DEF RuntimeOK
  <2>2. /\ runtime'.trying = runtime.trying
        /\ runtime'.owner[PluginOf(o)] \in {None, runtime.owner[PluginOf(o)]}
        /\ o \in S /\ op[o].at = "connecting" => runtime'.owner[PluginOf(o)] # o
    BY <2>1 DEF Disowns
  <2> QED
    BY <1>2, <2>1, <2>2 DEF TryOK, Running
<1>9. QueueOK' /\ CountOK'
  BY <1>2, PermitsKept
<1> QED
  BY <1>3, <1>5, <1>6, <1>7, <1>8, <1>9 DEF RuntimeOK

LEMMA SameOps ==
  ASSUME TypeOK, op' = op
  PROVE  Cancels(op', {})
BY DEF TypeOK, Cancels

\* Nothing that operations depend on changes, except that plans end and
\* sessions are closed.
LEMMA AsideStep ==
  ASSUME IInv, op' = op, permit' = permit, KeepsPlans,
         runtime' = runtime \/ \E g : runtime' = Drop(runtime, g)
  PROVE  LiveOK' /\ NodesOK' /\ OneOp' /\ RuntimeOK' /\ QueueOK' /\ CountOK'
<1>1. TypeOK
  BY DEF IInv
<1>2. Cancels(op', {}) /\ Disowns({})
  BY <1>1, SameOps, DropsOf
<1> QED
  BY <1>2, CancelStep

-----------------------------------------------------------------------------
(* The queue of jobs.                                                      *)

\* Numbers and kinds of the jobs stay, the first is done, or one is added that,
\* if it is a clean-up, has the next number.
LEMMA FencesKept ==
  ASSUME IInv, seen'.made \in Nat, seen'.made >= seen.made, jobs' \in Seq(JobRecord),
         \A l \in Plans : /\ plan'[l].awaits = plan[l].awaits
                          /\ plan'[l].st = "fenced" <=> plan[l].st = "fenced",
         \/ /\ Len(jobs') = Len(jobs)
            /\ \A i \in DOMAIN jobs : jobs'[i].id = jobs[i].id /\ jobs'[i].kind = jobs[i].kind
         \/ jobs # <<>> /\ jobs' = Tail(jobs)
         \/ \E j \in JobRecord : /\ jobs' = Append(jobs, j)
                                 /\ j.kind = "cleanup" => j.id = seen.made + 1 /\ j.id = seen'.made
  PROVE  FencesOK'
<1>1. /\ jobs \in Seq(JobRecord) /\ seen.made \in Nat /\ CleanupsOK
      /\ \A l \in Plans : PlanFenceOK(l) /\ plan[l].awaits \in Nat
  BY DEF IInv, TypeOK, PlanRecord, FencesOK
<1>2. \A i \in Cleanups : /\ i \in Nat /\ jobs[i].id \in Nat
                           /\ 1 <= jobs[i].id /\ jobs[i].id <= seen.made
  BY <1>1 DEF Cleanups, CleanupsOK
<1>b. \A i \in Cleanups : 1 <= jobs[i].id /\ jobs[i].id <= seen'.made
  BY <1>1, <1>2
<1>3. CASE /\ Len(jobs') = Len(jobs)
           /\ \A i \in DOMAIN jobs : jobs'[i].id = jobs[i].id /\ jobs'[i].kind = jobs[i].kind
  <2>1. Cleanups' = Cleanups /\ \A i \in Cleanups : jobs'[i].id = jobs[i].id
    BY <1>1, <1>3 DEF Cleanups
  <2>2. CleanupsOK'
    BY <1>1, <1>2, <1>b, <2>1, SMTT(20) DEF CleanupsOK
  <2>3. ASSUME NEW l \in Plans PROVE PlanFenceOK(l)'
    BY <1>1, <2>1 DEF PlanFenceOK
  <2> QED
    BY <2>2, <2>3 DEF FencesOK
<1>4. CASE jobs # <<>> /\ jobs' = Tail(jobs)
  <2>1. /\ \A i \in Cleanups' : i + 1 \in Cleanups /\ jobs'[i].id = jobs[i + 1].id /\ i \in Nat
        /\ \A i \in Cleanups : i > 1 => i - 1 \in Cleanups' /\ jobs'[i - 1].id = jobs[i].id
    BY <1>1, <1>4 DEF Cleanups
  <2>2. CleanupsOK'
    <3>1. \A i \in Cleanups' : jobs'[i].id \in 1..seen'.made
      BY <1>2, <1>b, <2>1
    <3>2. ASSUME NEW i \in Cleanups', NEW k \in Cleanups', i < k
          PROVE  jobs'[i].id < jobs'[k].id
      <4>1. i \in Nat /\ k \in Nat /\ i + 1 \in Cleanups /\ k + 1 \in Cleanups
        BY <1>1, <1>4, <2>1 DEF Cleanups
      <4>2. i + 1 < k + 1
        BY <3>2, <4>1
      <4> QED
        BY <1>1, <2>1, <4>1, <4>2 DEF CleanupsOK
    <3> QED
      BY <3>1, <3>2 DEF CleanupsOK
  <2>3. ASSUME NEW l \in Plans PROVE PlanFenceOK(l)'
    <3>1. ASSUME plan[l].st = "fenced", NEW i \in Cleanups', jobs'[i].id <= plan[l].awaits
          PROVE  \E j \in Cleanups' : i <= j /\ jobs'[j].id = plan[l].awaits
      <4>1. PICK j \in Cleanups : i + 1 <= j /\ jobs[j].id = plan[l].awaits
        BY <1>1, <2>1, <3>1 DEF PlanFenceOK
      <4>2. j \in Nat /\ i \in Nat
        BY <1>1, <2>1 DEF Cleanups
      <4> QED
        BY <2>1, <4>1, <4>2
    <3> QED
      BY <1>1, <2>1, <3>1 DEF PlanFenceOK
  <2> QED
    BY <2>2, <2>3 DEF FencesOK
<1>5. ASSUME NEW j \in JobRecord, jobs' = Append(jobs, j),
             j.kind = "cleanup" => j.id = seen.made + 1 /\ j.id = seen'.made
      PROVE  FencesOK'
  <2> DEFINE z == Len(jobs) + 1
  <2>1. /\ z \in Nat
        /\ \A i \in Cleanups : i \in Cleanups' /\ jobs'[i].id = jobs[i].id /\ i < z
        /\ \A i \in Cleanups' : i \in Cleanups \/ (i = z /\ j.kind = "cleanup" /\ jobs'[i].id = j.id)
    BY <1>1, <1>5 DEF Cleanups
  <2>2. \A i \in Cleanups : i \in Nat
    BY <1>1 DEF Cleanups
  <2> HIDE DEF z
  <2>3. CleanupsOK'
    <3>1. \A i \in Cleanups' : jobs'[i].id \in 1..seen'.made
      <4>1. ASSUME NEW i \in Cleanups', i \notin Cleanups PROVE jobs'[i].id \in 1..seen'.made
        <5>1. jobs'[i].id = seen.made + 1 /\ jobs'[i].id = seen'.made
          BY <1>5, <2>1, <4>1
        <5> QED
          BY <1>1, <5>1
      <4>2. ASSUME NEW i \in Cleanups PROVE jobs'[i].id \in 1..seen'.made
        BY <1>2, <1>b, <2>1, <4>2
      <4> QED
        BY <4>1, <4>2
    <3>2. ASSUME NEW i \in Cleanups', NEW k \in Cleanups', i < k
          PROVE  jobs'[i].id < jobs'[k].id
      <4>1. i \in Cleanups
        BY <2>1, <2>2, <3>2
      <4>2. jobs[i].id <= seen.made /\ jobs[i].id \in Nat
        BY <1>1, <4>1 DEF CleanupsOK
      <4>3. CASE k \in Cleanups
        BY <1>1, <2>1, <3>2, <4>1, <4>3 DEF CleanupsOK
      <4>4. CASE k \notin Cleanups
        <5>1. jobs'[k].id = seen.made + 1 /\ jobs'[i].id = jobs[i].id
          BY <1>5, <2>1, <4>1, <4>4
        <5> QED
          BY <1>1, <4>2, <5>1
      <4> QED
        BY <4>3, <4>4
    <3> QED
      BY <3>1, <3>2 DEF CleanupsOK
  <2>4. ASSUME NEW l \in Plans PROVE PlanFenceOK(l)'
    <3>1. plan[l].awaits <= seen.made /\ plan[l].awaits \in Nat
      BY <1>1 DEF PlanFenceOK
    <3>2. ASSUME NEW i \in Cleanups', i \notin Cleanups
          PROVE  plan[l].awaits < jobs'[i].id
      <4>1. jobs'[i].id = seen.made + 1
        BY <1>5, <2>1, <3>2
      <4> QED
        BY <1>1, <3>1, <4>1
    <3>3. ASSUME plan[l].st = "fenced", NEW i \in Cleanups', jobs'[i].id <= plan[l].awaits
          PROVE  \E k \in Cleanups' : i <= k /\ jobs'[k].id = plan[l].awaits
      <4>1. i \in Cleanups
        <5>1. SUFFICES ASSUME i \notin Cleanups PROVE FALSE
          OBVIOUS
        <5>2. plan[l].awaits < jobs'[i].id /\ jobs'[i].id = j.id
          BY <2>1, <3>2, <5>1
        <5>3. j.id \in Nat
          BY DEF JobRecord
        <5> QED
          BY <3>1, <3>3, <5>2, <5>3
      <4>2. PICK k \in Cleanups : i <= k /\ jobs[k].id = plan[l].awaits
        BY <1>1, <2>1, <3>3, <4>1 DEF PlanFenceOK
      <4> QED
        BY <2>1, <4>2
    <3>4. plan[l].st # "fenced" => \A i \in Cleanups' : plan[l].awaits < jobs'[i].id
      BY <1>1, <2>1, <3>2 DEF PlanFenceOK
    <3> QED
      BY <1>1, <3>1, <3>3, <3>4 DEF PlanFenceOK
  <2> QED
    BY <2>3, <2>4 DEF FencesOK
<1> QED
  BY <1>3, <1>4, <1>5


LEMMA TailJob ==
  ASSUME IInv, jobs # <<>>, jobs' = Tail(jobs)
  PROVE  jobs' \in Seq(JobRecord) /\ JobsOK'
<1>1. jobs \in Seq(JobRecord) /\ JobsOK
  BY DEF IInv, TypeOK
<1>2. /\ jobs' \in Seq(JobRecord)
      /\ \A i \in DOMAIN jobs' : i + 1 \in DOMAIN jobs /\ jobs'[i] = jobs[i + 1]
  BY <1>1
<1> QED
  BY <1>1, <1>2 DEF JobsOK

LEMMA HeadJob ==
  ASSUME IInv, jobs # <<>>, NEW h \in JobRecord, jobs' = [jobs EXCEPT ![1] = h],
         h.id = jobs[1].id, h.kind = jobs[1].kind, h.of = jobs[1].of,
         h.at = "drop" => h.todo # <<>>
  PROVE  /\ jobs' \in Seq(JobRecord) /\ JobsOK' /\ Len(jobs') = Len(jobs)
         /\ \A i \in DOMAIN jobs : jobs'[i].id = jobs[i].id /\ jobs'[i].kind = jobs[i].kind
<1>1. jobs \in Seq(JobRecord) /\ JobsOK /\ 1 \in DOMAIN jobs
  BY DEF IInv, TypeOK
<1>2. /\ jobs' \in Seq(JobRecord) /\ Len(jobs') = Len(jobs) /\ DOMAIN jobs' = DOMAIN jobs
      /\ \A i \in DOMAIN jobs : jobs'[i] = IF i = 1 THEN h ELSE jobs[i]
  BY <1>1
<1> QED
  BY <1>1, <1>2 DEF JobsOK

LEMMA QueuedJob ==
  ASSUME IInv, NEW kind \in {"disconnect", "cleanup", "lost", "network", "changed"},
         NEW p \in Plugins \cup {None}, kind \in {"lost", "changed"} => p # None, Queued(kind, p)
  PROVE  /\ jobs' \in Seq(JobRecord) /\ JobsOK'
         /\ \E j \in JobRecord : /\ jobs' = Append(jobs, j)
                                 /\ j.kind = "cleanup" => j.id = seen.made + 1
                                 /\ j.kind = kind
<1> DEFINE n == IF kind = "cleanup" THEN seen.made + 1 ELSE 0
           j == [id |-> n, kind |-> kind, of |-> p, at |-> "start", todo |-> <<>>, clone |-> view]
<1>1. jobs \in Seq(JobRecord) /\ JobsOK /\ view \in View
  BY DEF IInv, TypeOK
<1>2. n \in Nat
  BY DEF IInv, TypeOK
<1>3. jobs' = Append(jobs, j)
  BY DEF Queued
<1>4. j \in JobRecord /\ j.at # "drop" /\ j.kind = kind /\ j.of = p
  BY <1>1, <1>2 DEF JobRecord
<1>5. j.kind = "cleanup" => j.id = seen.made + 1
  OBVIOUS
<1> HIDE DEF j
<1>6. /\ jobs' \in Seq(JobRecord)
      /\ \A i \in DOMAIN jobs' : (i \in DOMAIN jobs /\ jobs'[i] = jobs[i]) \/ jobs'[i] = j
  BY <1>1, <1>3, <1>4
<1>7. JobsOK'
  BY <1>1, <1>4, <1>6 DEF JobsOK
<1> QED
  BY <1>3, <1>4, <1>5, <1>6, <1>7

-----------------------------------------------------------------------------
(* The published state.                                                    *)

LEMMA DesiredType ==
  ASSUME NEW v \in View, NEW b \in BOOLEAN
  PROVE  [v EXCEPT !.desired = b] \in View
BY DEF View

LEMMA ManualType ==
  ASSUME NEW v \in View, NEW m \in SUBSET Plugins
  PROVE  [v EXCEPT !.manual = m] \in View
BY DEF View

LEMMA PhaseType ==
  ASSUME NEW v \in View, NEW f \in [Plugins -> Phases]
  PROVE  [v EXCEPT !.phase = f] \in View
BY DEF View

LEMMA CancellationViewType ==
  ASSUME TypeOK, NEW newop
  PROVE  CancellationView(newop) \in View
<1> DEFINE live(o) == newop[o].st \in {"running", "cancelling"}
           wanted(o) == newop[o].st = "running" /\ newop[o].subs # {}
           closing == {p \in Plugins : /\ view.phase[p] = "connecting"
                                       /\ \E o \in Ops : PluginOf(o) = p /\ live(o) /\ ~wanted(o)}
           f == [p \in Plugins |-> IF p \in closing THEN "closing" ELSE view.phase[p]]
           b == On(view) # {} \/ \E o \in Ops : wanted(o)
<1>1. CancellationView(newop) = [view EXCEPT !.phase = f, !.desired = b]
  BY DEF CancellationView
<1>2. view \in View
  BY DEF TypeOK
<1>3. f \in [Plugins -> Phases]
  BY <1>2 DEF View, Phases
<1>4. b \in BOOLEAN
  OBVIOUS
<1> HIDE DEF f, b
<1> QED
  BY <1>1, <1>2, <1>3, <1>4 DEF View

LEMMA CancelledViewType ==
  ASSUME TypeOK, NEW o \in Ops
  PROVE  CancelledView(o) \in View
<1> DEFINE v == Show(view, {PluginOf(o)}, "off")
           b == v.desired /\ (On(v) # {} \/ RunningIn(Plugins) \ {o} # {})
<1>1. view \in View
  BY DEF TypeOK
<1>2. v \in View
  BY <1>1, ShowType DEF Phases
<1>3. CancelledView(o) = view \/ CancelledView(o) = [v EXCEPT !.desired = b]
  BY DEF CancelledView
<1>4. b \in BOOLEAN
  OBVIOUS
<1> HIDE DEF v, b
<1> QED
  BY <1>1, <1>2, <1>3, <1>4, DesiredType

LEMMA ErrorViewType ==
  ASSUME TypeOK, NEW o \in Ops, NEW ph \in Phases
  PROVE  ErrorView(o, ph) \in View
BY ShowType DEF ErrorView, TypeOK

LEMMA FencedViewType ==
  ASSUME TypeOK, NEW p \in Plugins
  PROVE  FencedView(p) \in View
<1> DEFINE f == [q \in Plugins |->
                  IF q \in Scope(p) \ Unknown(view, Plugins) THEN "changed" ELSE view.phase[q]]
<1>1. view \in View
  BY DEF TypeOK
<1>2. f \in [Plugins -> Phases]
  BY <1>1 DEF View, Phases
<1>3. FencedView(p) = view \/ FencedView(p) = [view EXCEPT !.phase = f]
  BY DEF FencedView
<1> HIDE DEF f
<1> QED
  BY <1>1, <1>2, <1>3, PhaseType

LEMMA LeavingType ==
  ASSUME NEW v \in View, NEW g \in SUBSET Plugins
  PROVE  Leaving(v, g) \in View
<1> DEFINE m == v.manual \cup g
           w == [v EXCEPT !.manual = m]
<1>1. m \in SUBSET Plugins
  BY DEF View
<1>2. Leaving(v, g) = Show(w, g, "closing")
  BY DEF Leaving
<1> HIDE DEF m
<1>3. w \in View
  BY <1>1, ManualType
<1> HIDE DEF w
<1> QED
  BY <1>2, <1>3, ShowType DEF Phases

LEMMA InitialViewType ==
  ASSUME TypeOK, NEW l \in Plans, NEW nodes \in SUBSET Plugins
  PROVE  InitialView(l, nodes) \in View
<1> DEFINE others == IF Single(l) /\ ~view.desired THEN Plugins \ nodes ELSE {}
           v == Show(view, others \cup Unknown(view, Plugins), "off")
           m == (v.manual \cup others) \ nodes
           b == nodes # {} \/ On(v) # {}
<1>1. v \in View
  BY ShowType DEF TypeOK, Phases
<1>2. others \subseteq Plugins
  OBVIOUS
<1>3. m \in SUBSET Plugins /\ b \in BOOLEAN
  BY <1>1, <1>2 DEF View
<1>4. InitialView(l, nodes) = [v EXCEPT !.manual = m, !.desired = b]
  BY DEF InitialView
<1> HIDE DEF others, v, m, b
<1> QED
  BY <1>1, <1>3, <1>4 DEF View

-----------------------------------------------------------------------------
(* What a job does.                                                        *)

LEMMA BatchType ==
  ASSUME NEW S \in SUBSET Plugins
  PROVE  Batch(S) \in Seq(SUBSET Plugins)
<1>1. <<>> \in Seq(SUBSET Plugins)
  OBVIOUS
<1>2. <<S>> \in Seq(SUBSET Plugins)
  OBVIOUS
<1> QED
  BY <1>1, <1>2 DEF Batch

\* The plugins of a set one after the other.
LEMMA Enumerated ==
  ASSUME NEW S \in SUBSET Plugins
  PROVE  /\ Cardinality(S) \in Nat /\ SetToSeq(S) \in [1..Cardinality(S) -> S]
<1>1. IsFiniteSet(S)
  BY ConnectionAssumption, FS_Subset
<1>2. Cardinality(S) \in Nat /\ ExistsBijection(1..Cardinality(S), S)
  BY <1>1, FS_CardinalityType
<1> DEFINE n == Cardinality(S)
<1>3. PICK f \in [1..n -> S] : \A i, j \in 1..n : f[i] = f[j] => i = j
  BY <1>2 DEF ExistsBijection, Bijection, Injection, IsInjective
<1>4. IsInjective(f)
  BY <1>3 DEF IsInjective
<1>5. SetToSeq(S) \in [1..n -> S]
  BY <1>3, <1>4 DEF SetToSeq
<1> QED
  BY <1>2, <1>5

LEMMA OneByOneType ==
  ASSUME NEW S \in SUBSET Plugins
  PROVE  OneByOne(S) \in Seq(SUBSET Plugins)
<1> DEFINE n == Cardinality(S)
<1>1. n \in Nat /\ \A i \in 1..n : {SetToSeq(S)[i]} \in SUBSET Plugins
  BY Enumerated
<1>2. OneByOne(S) = [i \in 1..n |-> {SetToSeq(S)[i]}]
  BY DEF OneByOne
<1> HIDE DEF n
<1> QED
  BY <1>1, <1>2

LEMMA ChunksType ==
  ASSUME NEW S \in SUBSET Plugins
  PROVE  Chunks(S) \in Seq(SUBSET Plugins)
<1> DEFINE n == Cardinality(S)
           c == (n + MaxConcurrency - 1) \div MaxConcurrency
           part(k) == {SetToSeq(S)[i] : i \in {j \in 1..n : /\ (k - 1) * MaxConcurrency < j
                                                           /\ j <= k * MaxConcurrency}}
<1>1. n \in Nat /\ SetToSeq(S) \in [1..n -> S]
  BY Enumerated
<1>2. c \in Nat
  <2>1. MaxConcurrency \in Nat /\ MaxConcurrency > 0 /\ n + MaxConcurrency - 1 \in Nat
    BY <1>1, ConnectionAssumption
  <2> HIDE DEF n
  <2> QED
    BY <2>1
<1>3. ASSUME NEW k PROVE part(k) \in SUBSET Plugins
  BY <1>1
<1>4. Chunks(S) = [k \in 1..c |-> part(k)]
  BY DEF Chunks
<1> HIDE DEF c, part
<1> QED
  BY <1>2, <1>3, <1>4

LEMMA BatchesType ==
  ASSUME NEW S \in SUBSET Plugins
  PROVE  Batches(S) \in Seq(SUBSET Plugins)
<1>1. Chunks(S \ Servers) \in Seq(SUBSET Plugins) /\ Chunks(S \cap Servers) \in Seq(SUBSET Plugins)
  BY ChunksType
<1> QED
  BY <1>1 DEF Batches

LEMMA TodoType ==
  ASSUME NEW j \in JobRecord, j.kind \in {"lost", "changed"} => j.of # None
  PROVE  TodoOf(j) \in Seq(SUBSET Plugins)
<1>1. j.kind \in {"disconnect", "cleanup", "lost", "network", "changed"} /\ j.of \in Plugins \cup {None}
  BY DEF JobRecord
<1>2. Dependents(j.of) \subseteq Plugins /\ Reconnectable \subseteq Plugins
  BY ScopeIn DEF Reconnectable
<1>3. CASE j.kind = "disconnect" /\ j.of # None
  <2>1. OneByOne(Dependents(j.of)) \in Seq(SUBSET Plugins) /\ {j.of} \in SUBSET Plugins
    BY <1>1, <1>2, <1>3, OneByOneType
  <2> QED
    BY <1>3, <2>1 DEF TodoOf
<1>4. CASE j.kind = "changed"
  <2>1. Scope(j.of) \ Unknown(j.clone, Plugins) \in SUBSET Plugins
    BY <1>1, <1>4, ScopeIn
  <2> QED
    BY <1>4, <2>1, BatchType DEF TodoOf
<1> QED
  BY <1>1, <1>2, <1>3, <1>4, BatchesType, OneByOneType DEF TodoOf

LEMMA ListedViewType ==
  ASSUME TypeOK, NEW j \in JobRecord, NEW todo \in Seq(SUBSET Plugins),
         j.kind = "disconnect" /\ j.of # None => todo # <<>>
  PROVE  ListedView(j, todo) \in View
<1>1. /\ j.kind \in {"disconnect", "cleanup", "lost", "network", "changed"} /\ j.clone \in View
      /\ view \in View
  BY DEF JobRecord, TypeOK
<1>2. \A v \in View : \A S : \A ph \in {"closing", "blocked", "error", "reconnecting", "off", "changed"} :
        Show(v, S, ph) \in View
  BY ShowType DEF Phases
<1>3. CASE j.kind = "disconnect"
  <2>1. j.of # None => Head(todo) \in SUBSET Plugins
    BY <1>3
  <2> QED
    BY <1>1, <1>2, <1>3, <2>1, LeavingType DEF ListedView
<1>4. CASE j.kind \in {"cleanup", "lost", "network"}
  BY <1>1, <1>2, <1>4 DEF ListedView
<1>5. CASE j.kind = "changed"
  BY <1>1, <1>2, <1>5 DEF ListedView
<1> QED
  BY <1>1, <1>3, <1>4, <1>5

LEMMA DroppedViewType ==
  ASSUME TypeOK, NEW j \in JobRecord, j.todo # <<>>
  PROVE  DroppedView(j) \in View
<1> DEFINE rest == Tail(j.todo)
           one == Show(j.clone, Head(j.todo), "off")
           b == one.desired /\ On(one) # {}
<1>1. /\ j.kind \in {"disconnect", "cleanup", "lost", "network", "changed"} /\ j.clone \in View
      /\ view \in View /\ j.todo \in Seq(SUBSET Plugins)
  BY DEF JobRecord, TypeOK
<1>2. one \in View /\ Show(j.clone, Plugins, "off") \in View /\ Show(view, Plugins, "off") \in View
  BY <1>1, ShowType DEF Phases
<1>3. rest \in Seq(SUBSET Plugins) /\ (rest # <<>> => Head(rest) \in SUBSET Plugins)
  BY <1>1
<1>4. rest # <<>> => Leaving(one, Head(rest)) \in View
  BY <1>2, <1>3, LeavingType
<1>5. [one EXCEPT !.desired = b] \in View
  <2>1. b \in BOOLEAN
    OBVIOUS
  <2> HIDE DEF one, b
  <2> QED
    BY <1>2, <2>1, DesiredType
<1>6. DroppedView(j) \in {Show(j.clone, Plugins, "off"), [one EXCEPT !.desired = b],
                          Show(view, Plugins, "off"), view}
      \/ (rest # <<>> /\ DroppedView(j) = Leaving(one, Head(rest)))
  BY DEF DroppedView
<1> HIDE DEF rest, one, b
<1> QED
  BY <1>1, <1>2, <1>4, <1>5, <1>6

-----------------------------------------------------------------------------
(* The queue of jobs and the requests: operations are cancelled at most.   *)

\* The parts of the invariant that a step of this kind leaves.
Rest == LiveOK /\ NodesOK /\ OneOp /\ RuntimeOK /\ QueueOK /\ CountOK

LEMMA Together ==
  ASSUME Rest', FencesOK', JobsOK', plan' \in [Plans -> PlanRecord], op' \in [Ops -> OpRecord],
         permit' \in [active : Nat, queue : Seq(Ops)], runtime' \in RuntimeRecord, view' \in View,
         jobs' \in Seq(JobRecord), disk' \in [fp : [Plugins -> Nat], saving : Plugins \cup {None}],
         seen' \in [made : Nat, lost : Nat]
  PROVE  IInv'
BY DEF IInv, Rest, TypeOK, LiveOK, RuntimeRecord

\* Cancelling operations of S, with any change of the published state, of the
\* files and of the queue.
LEMMA CancelRequest ==
  ASSUME IInv, NEW S \in SUBSET Ops, Cancels(op', S), KeepsPlans, Disowns(S), permit' = permit,
         Settled \/ op' = op, FencesOK', JobsOK', view' \in View, jobs' \in Seq(JobRecord),
         disk' \in [fp : [Plugins -> Nat], saving : Plugins \cup {None}],
         seen' \in [made : Nat, lost : Nat]
  PROVE  IInv'
<1>1. Rest'
  BY CancelStep DEF Rest
<1>2. /\ plan' \in [Plans -> PlanRecord] /\ op' \in [Ops -> OpRecord] /\ runtime' \in RuntimeRecord
      /\ permit' \in [active : Nat, queue : Seq(Ops)]
  BY DEF IInv, TypeOK, KeepsPlans, Cancels, Disowns
<1> QED
  BY <1>1, <1>2, Together

LEMMA FencesSame ==
  ASSUME IInv, KeepsPlans, jobs' = jobs, seen'.made \in Nat, seen'.made >= seen.made
  PROVE  FencesOK' /\ JobsOK' /\ jobs' \in Seq(JobRecord)
<1>1. jobs \in Seq(JobRecord) /\ JobsOK
  BY DEF IInv, TypeOK
<1>2. FencesOK'
  BY <1>1, KeepsGoing, FencesKept
<1> QED
  BY <1>1, <1>2 DEF JobsOK

LEMMA FencesQueued ==
  ASSUME IInv, KeepsPlans, seen'.made \in Nat, seen'.made >= seen.made,
         NEW kind \in {"disconnect", "cleanup", "lost", "network", "changed"},
         kind = "cleanup" => seen'.made = seen.made + 1,
         NEW p \in Plugins \cup {None}, kind \in {"lost", "changed"} => p # None, Queued(kind, p)
  PROVE  FencesOK' /\ JobsOK' /\ jobs' \in Seq(JobRecord)
<1>1. /\ jobs' \in Seq(JobRecord) /\ JobsOK'
      /\ \E j \in JobRecord : /\ jobs' = Append(jobs, j)
                              /\ j.kind = "cleanup" => j.id = seen.made + 1
                              /\ j.kind = kind
  BY QueuedJob
<1>2. \E j \in JobRecord : /\ jobs' = Append(jobs, j)
                           /\ j.kind = "cleanup" => j.id = seen.made + 1 /\ j.id = seen'.made
  BY <1>1
<1>3. FencesOK'
  BY <1>1, <1>2, KeepsGoing, FencesKept
<1> QED
  BY <1>1, <1>3

LEMMA RequestedOf ==
  ASSUME TypeOK, NEW kind, NEW p, Requested(kind, p)
  PROVE  /\ Settled /\ seen' \in [made : Nat, lost : Nat]
         /\ seen'.made = seen.made + 1 /\ seen'.made \in Nat /\ seen'.made >= seen.made
<1>1. seen \in [made : Nat, lost : Nat]
  BY DEF TypeOK
<1>2. Settled /\ seen' = [seen EXCEPT !.made = seen.made + 1]
  BY DEF Requested
<1> QED
  BY <1>1, <1>2

LEMMA SeenSame ==
  ASSUME TypeOK, seen' = seen
  PROVE  seen' \in [made : Nat, lost : Nat] /\ seen'.made \in Nat /\ seen'.made >= seen.made
BY DEF TypeOK

LEMMA RunningOps ==
  ASSUME NEW S
  PROVE  RunningIn(S) \in SUBSET Ops /\ \A o \in RunningIn(S) : Running(o)
BY DEF RunningIn

\* Forced cancellation of operations of S.
LEMMA ForcedOf ==
  ASSUME IInv, NEW S \in SUBSET Ops, \A o \in S : Running(o),
         plan' = ForcedPlans(S), op' = ForcedOps(S),
         runtime' = Disowned(S) \/ \E g : runtime' = Drop(Disowned(S), g)
  PROVE  KeepsPlans /\ Cancels(op', S) /\ Disowns(S)
<1>1. TypeOK
  BY DEF IInv
<1>2. Cancels(op', S)
  BY <1>1, ForcedOpsOf
<1>3. KeepsPlans
  BY <1>1, ForcedPlansOf
<1>4. Disowns(S)
  BY <1>1, DisownsOf
<1> QED
  BY <1>2, <1>3, <1>4

LEMMA DisconnectStep ==
  ASSUME IInv, NEW p \in Plugins \cup {None}, Disconnect(p)
  PROVE  IInv'
<1> DEFINE S == RunningIn(IF p = None THEN Plugins ELSE Scope(p))
<1>1. /\ plan' = ForcedPlans(S) /\ op' = ForcedOps(S) /\ runtime' = Disowned(S)
      /\ Requested("disconnect", p) /\ Queued("disconnect", p) /\ UNCHANGED <<permit, view, disk>>
  BY DEF Disconnect
<1>2. S \in SUBSET Ops /\ \A o \in S : Running(o)
  BY RunningOps
<1> HIDE DEF S
<1>3. KeepsPlans /\ Cancels(op', S) /\ Disowns(S)
  BY <1>1, <1>2, ForcedOf
<1>4. /\ Settled /\ seen' \in [made : Nat, lost : Nat] /\ seen'.made \in Nat
      /\ seen'.made >= seen.made
  BY <1>1, RequestedOf DEF IInv
<1>5. FencesOK' /\ JobsOK' /\ jobs' \in Seq(JobRecord)
  BY <1>1, <1>3, <1>4, FencesQueued
<1>6. view' \in View /\ disk' \in [fp : [Plugins -> Nat], saving : Plugins \cup {None}]
  BY <1>1 DEF IInv, TypeOK
<1> QED
  BY <1>1, <1>2, <1>3, <1>4, <1>5, <1>6, CancelRequest

LEMMA NetworkChangedStep ==
  ASSUME IInv, NetworkChanged
  PROVE  IInv'
<1>1. /\ UNCHANGED <<plan, op, permit, runtime, view, disk>>
      /\ Requested("network", None) /\ Queued("network", None) /\ TypeOK
  BY DEF NetworkChanged, IInv
<1>2. KeepsPlans /\ Cancels(op', {}) /\ Disowns({})
  BY <1>1, SamePlans, SameOps, DropsOf
<1>3. /\ Settled /\ seen' \in [made : Nat, lost : Nat] /\ seen'.made \in Nat
      /\ seen'.made >= seen.made
  BY <1>1, RequestedOf
<1>4. FencesOK' /\ JobsOK' /\ jobs' \in Seq(JobRecord)
  BY <1>1, <1>2, <1>3, FencesQueued
<1>5. view' \in View /\ disk' \in [fp : [Plugins -> Nat], saving : Plugins \cup {None}]
  BY <1>1 DEF TypeOK
<1> QED
  BY <1>1, <1>2, <1>3, <1>4, <1>5, CancelRequest

LEMMA LostStep ==
  ASSUME IInv, NEW p \in Plugins, Lost(p)
  PROVE  IInv'
<1>1. /\ UNCHANGED <<plan, op, permit, view, disk>> /\ runtime' = Drop(runtime, {p})
      /\ seen' = [seen EXCEPT !.lost = @ + 1] /\ Queued("lost", p) /\ TypeOK
  BY DEF Lost, IInv
<1>2. KeepsPlans /\ Cancels(op', {}) /\ Disowns({})
  BY <1>1, SamePlans, SameOps, DropsOf
<1>3. seen' \in [made : Nat, lost : Nat] /\ seen'.made \in Nat /\ seen'.made >= seen.made
  <2>1. seen \in [made : Nat, lost : Nat]
    BY <1>1 DEF TypeOK
  <2> QED
    BY <1>1, <2>1
<1>4. FencesOK' /\ JobsOK' /\ jobs' \in Seq(JobRecord)
  BY <1>1, <1>2, <1>3, FencesQueued, OpsPairs
<1>5. view' \in View /\ disk' \in [fp : [Plugins -> Nat], saving : Plugins \cup {None}]
  BY <1>1 DEF TypeOK
<1> QED
  BY <1>1, <1>2, <1>3, <1>4, <1>5, CancelRequest

LEMMA FencedByOf ==
  ASSUME IInv, NEW p \in Plugins, FencedBy(p)
  PROVE  \E S \in SUBSET Ops :
           KeepsPlans /\ Cancels(op', S) /\ Disowns(S) /\ view' \in View
<1>1. RunningIn(Scope(p)) \in SUBSET Ops /\ \A o \in RunningIn(Scope(p)) : Running(o)
  BY RunningOps
<1>2. view' \in View
  BY FencedViewType DEF FencedBy, IInv
<1>3. /\ plan' = ForcedPlans(RunningIn(Scope(p))) /\ op' = ForcedOps(RunningIn(Scope(p)))
      /\ runtime' = Disowned(RunningIn(Scope(p)))
  BY DEF FencedBy
<1>4. /\ KeepsPlans /\ Cancels(op', RunningIn(Scope(p))) /\ Disowns(RunningIn(Scope(p)))
  BY <1>1, <1>3, ForcedOf
<1> QED
  BY <1>1, <1>2, <1>4

LEMMA SaveBeginsStep ==
  ASSUME IInv, NEW p \in Plugins, SaveBegins(p)
  PROVE  IInv'
<1>1. /\ FencedBy(p) /\ Requested("save", p) /\ UNCHANGED <<permit, jobs>> /\ TypeOK
      /\ disk' = [disk EXCEPT !.saving = p]
  BY DEF SaveBegins, IInv
<1>2. PICK S \in SUBSET Ops : KeepsPlans /\ Cancels(op', S) /\ Disowns(S) /\ view' \in View
  BY <1>1, FencedByOf
<1>3. /\ Settled /\ seen' \in [made : Nat, lost : Nat] /\ seen'.made \in Nat
      /\ seen'.made >= seen.made
  BY <1>1, RequestedOf
<1>4. FencesOK' /\ JobsOK' /\ jobs' \in Seq(JobRecord)
  BY <1>1, <1>2, <1>3, FencesSame
<1>5. disk' \in [fp : [Plugins -> Nat], saving : Plugins \cup {None}]
  BY <1>1 DEF TypeOK
<1> QED
  BY <1>1, <1>2, <1>3, <1>4, <1>5, CancelRequest

LEMMA SaveCommitsStep ==
  ASSUME IInv, NEW p \in Plugins, SaveCommits(p)
  PROVE  IInv'
<1>1. /\ FencedBy(p) /\ Queued("changed", p) /\ UNCHANGED <<permit, seen>> /\ TypeOK /\ Settled
      /\ disk' = [disk EXCEPT !.fp[p] = @ + 1]
  BY DEF SaveCommits, IInv
<1>2. PICK S \in SUBSET Ops : KeepsPlans /\ Cancels(op', S) /\ Disowns(S) /\ view' \in View
  BY <1>1, FencedByOf
<1>3. seen' \in [made : Nat, lost : Nat] /\ seen'.made \in Nat /\ seen'.made >= seen.made
  BY <1>1, SeenSame
<1>4. FencesOK' /\ JobsOK' /\ jobs' \in Seq(JobRecord)
  BY <1>1, <1>2, <1>3, FencesQueued, OpsPairs
<1>5. disk' \in [fp : [Plugins -> Nat], saving : Plugins \cup {None}]
  <2> DEFINE f == [disk.fp EXCEPT ![p] = disk.fp[p] + 1]
  <2>1. disk \in [fp : [Plugins -> Nat], saving : Plugins \cup {None}]
    BY <1>1 DEF TypeOK
  <2>2. f \in [Plugins -> Nat]
    BY <2>1
  <2>3. disk' = [disk EXCEPT !.fp = f]
    BY <1>1
  <2> HIDE DEF f
  <2> QED
    BY <2>1, <2>2, <2>3
<1> QED
  BY <1>1, <1>2, <1>3, <1>4, <1>5, CancelRequest

LEMMA ForceCancelStep ==
  ASSUME IInv, NEW o \in Ops, ForceCancel(o)
  PROVE  IInv'
<1>1. /\ plan' = ForcedPlans({o}) /\ op' = ForcedOps({o}) /\ runtime' = Disowned({o}) /\ Running(o)
      /\ view' = CancellationView(ForcedOps({o})) /\ Requested("force", None)
      /\ UNCHANGED <<permit, jobs, disk>> /\ TypeOK
  BY DEF ForceCancel, IInv
<1>2. KeepsPlans /\ Cancels(op', {o}) /\ Disowns({o})
  BY <1>1, ForcedOf
<1>3. /\ Settled /\ seen' \in [made : Nat, lost : Nat] /\ seen'.made \in Nat
      /\ seen'.made >= seen.made
  BY <1>1, RequestedOf
<1>4. FencesOK' /\ JobsOK' /\ jobs' \in Seq(JobRecord)
  BY <1>1, <1>2, <1>3, FencesSame
<1>5. view' \in View /\ disk' \in [fp : [Plugins -> Nat], saving : Plugins \cup {None}]
  BY <1>1, CancellationViewType DEF TypeOK
<1> QED
  BY <1>1, <1>2, <1>3, <1>4, <1>5, CancelRequest

\* Plans withdraw from operations.
LEMMA WithdrawnOf ==
  ASSUME IInv, NEW A, NEW S, CancelRequested(A, S)
  PROVE  /\ Unwanted(op') \in SUBSET Ops /\ Cancels(op', Unwanted(op')) /\ Disowns(Unwanted(op'))
         /\ view' \in View /\ UNCHANGED <<permit, disk>>
<1> DEFINE W == WithdrawnOps(A, S)
<1>1. TypeOK
  BY DEF IInv
<1>2. /\ op' = W /\ runtime' = Disowned(Unwanted(W)) /\ view' = CancellationView(W)
      /\ UNCHANGED <<permit, disk>>
  BY DEF CancelRequested
<1>3. Cancels(W, Unwanted(W))
  BY <1>1, WithdrawnOpsOf
<1> HIDE DEF W
<1>4. Unwanted(W) \in SUBSET Ops
  BY DEF Unwanted
<1>5. Disowns(Unwanted(W))
  BY <1>1, <1>2, <1>4, DisownsOf
<1> QED
  BY <1>1, <1>2, <1>3, <1>4, <1>5, CancellationViewType

LEMMA CancelPlanStep ==
  ASSUME IInv, NEW l \in Plans, CancelPlan(l)
  PROVE  IInv'
<1>1. /\ Requested("cancelPlan", None) /\ CancelRequested({l}, OpsOf(l)) /\ jobs' = jobs /\ TypeOK
      /\ plan' = [plan EXCEPT ![l].st = "cancelled"] /\ plan[l].st = "active"
  BY DEF CancelPlan, IInv, Active
<1>2. KeepsPlans
  <2>1. plan' = [k \in Plans |-> IF k \in {l} THEN [plan[k] EXCEPT !.st = "cancelled"] ELSE plan[k]]
    BY <1>1 DEF TypeOK
  <2> QED
    BY <1>1, <2>1, SomePlansEnd
<1>3. /\ Unwanted(op') \in SUBSET Ops /\ Cancels(op', Unwanted(op')) /\ Disowns(Unwanted(op'))
      /\ view' \in View /\ UNCHANGED <<permit, disk>>
  BY <1>1, WithdrawnOf
<1>4. /\ Settled /\ seen' \in [made : Nat, lost : Nat] /\ seen'.made \in Nat
      /\ seen'.made >= seen.made
  BY <1>1, RequestedOf
<1>5. FencesOK' /\ JobsOK' /\ jobs' \in Seq(JobRecord)
  BY <1>1, <1>2, <1>4, FencesSame
<1>6. disk' \in [fp : [Plugins -> Nat], saving : Plugins \cup {None}]
  BY <1>1, <1>3 DEF TypeOK
<1> QED
  BY <1>2, <1>3, <1>4, <1>5, <1>6, CancelRequest

LEMMA CancelNodeStep ==
  ASSUME IInv, NEW l \in Plans, NEW p \in Plugins, CancelNode(l, p)
  PROVE  IInv'
<1> DEFINE starters == {q \in Plugins : plan[l].node[q].on = <<l, q>>}
           s == IF starters \subseteq {p} THEN "cancelled" ELSE plan[l].st
<1>a. /\ Requested("cancelNode", None) /\ jobs' = jobs /\ TypeOK /\ plan[l].st = "active"
      /\ CancelRequested({l}, {plan[l].node[p].on}) /\ plan' = [plan EXCEPT ![l].st = s]
  BY DEF CancelNode, IInv, Active
<1>b. s = "cancelled" \/ s = plan[l].st
  OBVIOUS
<1> HIDE DEF s
<1>c. [plan EXCEPT ![l].st = plan[l].st] = plan
  BY <1>a DEF TypeOK, PlanRecord
<1>1. /\ Requested("cancelNode", None) /\ jobs' = jobs /\ TypeOK /\ plan[l].st = "active"
      /\ CancelRequested({l}, {plan[l].node[p].on})
      /\ plan' = [plan EXCEPT ![l].st = "cancelled"] \/ plan' = plan
  BY <1>a, <1>b, <1>c
<1>2. KeepsPlans
  <2>1. CASE plan' = plan
    BY <1>1, <2>1, SamePlans
  <2>2. CASE plan' = [plan EXCEPT ![l].st = "cancelled"]
    <3>1. plan' = [k \in Plans |-> IF k \in {l} THEN [plan[k] EXCEPT !.st = "cancelled"] ELSE plan[k]]
      BY <1>1, <2>2 DEF TypeOK
    <3> QED
      BY <1>1, <3>1, SomePlansEnd
  <2> QED
    BY <1>1, <2>1, <2>2
<1>3. /\ Unwanted(op') \in SUBSET Ops /\ Cancels(op', Unwanted(op')) /\ Disowns(Unwanted(op'))
      /\ view' \in View /\ UNCHANGED <<permit, disk>>
  BY <1>1, WithdrawnOf
<1>4. /\ Settled /\ seen' \in [made : Nat, lost : Nat] /\ seen'.made \in Nat
      /\ seen'.made >= seen.made
  BY <1>1, RequestedOf
<1>5. FencesOK' /\ JobsOK' /\ jobs' \in Seq(JobRecord)
  BY <1>1, <1>2, <1>4, FencesSame
<1>6. disk' \in [fp : [Plugins -> Nat], saving : Plugins \cup {None}]
  BY <1>1, <1>3 DEF TypeOK
<1> QED
  BY <1>2, <1>3, <1>4, <1>5, <1>6, CancelRequest

LEMMA CancelAllStep ==
  ASSUME IInv, CancelAll
  PROVE  IInv'
<1> DEFINE A == {l \in Plans : Active(l)}
<1>1. /\ Requested("cancel", None) /\ CancelRequested(A, Ops) /\ Queued("cleanup", None) /\ TypeOK
      /\ plan' = [l \in Plans |-> IF l \in A THEN [plan[l] EXCEPT !.st = "cancelled"] ELSE plan[l]]
  BY DEF CancelAll, IInv
<1>2. A \in SUBSET Plans /\ \A l \in A : plan[l].st = "active"
  BY DEF Active
<1> HIDE DEF A
<1>3. KeepsPlans
  BY <1>1, <1>2, SomePlansEnd
<1>4. /\ Unwanted(op') \in SUBSET Ops /\ Cancels(op', Unwanted(op')) /\ Disowns(Unwanted(op'))
      /\ view' \in View /\ UNCHANGED <<permit, disk>>
  BY <1>1, WithdrawnOf
<1>5. /\ Settled /\ seen' \in [made : Nat, lost : Nat] /\ seen'.made \in Nat
      /\ seen'.made >= seen.made /\ seen'.made = seen.made + 1
  BY <1>1, RequestedOf
<1>6. FencesOK' /\ JobsOK' /\ jobs' \in Seq(JobRecord)
  BY <1>1, <1>3, <1>5, FencesQueued
<1>7. disk' \in [fp : [Plugins -> Nat], saving : Plugins \cup {None}]
  BY <1>1, <1>4 DEF TypeOK
<1> QED
  BY <1>3, <1>4, <1>5, <1>6, <1>7, CancelRequest

LEMMA FencesTail ==
  ASSUME IInv, KeepsPlans, seen' = seen, jobs # <<>>, jobs' = Tail(jobs)
  PROVE  FencesOK' /\ JobsOK' /\ jobs' \in Seq(JobRecord)
<1>1. seen'.made \in Nat /\ seen'.made >= seen.made
  BY SeenSame DEF IInv
<1>2. JobsOK' /\ jobs' \in Seq(JobRecord)
  BY TailJob
<1> QED
  BY <1>1, <1>2, KeepsGoing, FencesKept

LEMMA FencesHead ==
  ASSUME IInv, KeepsPlans, seen' = seen, jobs # <<>>, NEW h \in JobRecord,
         jobs' = [jobs EXCEPT ![1] = h], h.id = jobs[1].id, h.kind = jobs[1].kind,
         h.of = jobs[1].of, h.at = "drop" => h.todo # <<>>
  PROVE  FencesOK' /\ JobsOK' /\ jobs' \in Seq(JobRecord)
<1>1. seen'.made \in Nat /\ seen'.made >= seen.made
  BY SeenSame DEF IInv
<1>2. /\ JobsOK' /\ jobs' \in Seq(JobRecord) /\ Len(jobs') = Len(jobs)
      /\ \A i \in DOMAIN jobs : jobs'[i].id = jobs[i].id /\ jobs'[i].kind = jobs[i].kind
  BY HeadJob
<1> QED
  BY <1>1, <1>2, KeepsGoing, FencesKept

LEMMA FirstJob ==
  ASSUME IInv, jobs # <<>>
  PROVE  /\ Head(jobs) \in JobRecord /\ Head(jobs) = jobs[1] /\ 1 \in DOMAIN jobs
         /\ Head(jobs).at = "drop" => Head(jobs).todo # <<>>
         /\ Head(jobs).kind \in {"lost", "changed"} => Head(jobs).of # None
<1>1. jobs \in Seq(JobRecord) /\ JobsOK
  BY DEF IInv, TypeOK
<1>2. Head(jobs) \in JobRecord /\ Head(jobs) = jobs[1] /\ 1 \in DOMAIN jobs
  BY <1>1
<1> QED
  BY <1>1, <1>2 DEF JobsOK

LEMMA ListType ==
  ASSUME NEW j \in JobRecord, NEW v \in View
  PROVE  LET h == [j EXCEPT !.at = "list", !.clone = v]
         IN h \in JobRecord /\ h.id = j.id /\ h.kind = j.kind /\ h.of = j.of /\ h.at = "list"
BY DEF JobRecord

LEMMA TodoSet ==
  ASSUME NEW j \in JobRecord, NEW v \in View, NEW t \in Seq(SUBSET Plugins)
  PROVE  LET h == [j EXCEPT !.todo = t, !.clone = v]
         IN h \in JobRecord /\ h.id = j.id /\ h.kind = j.kind /\ h.of = j.of /\ h.todo = t
BY DEF JobRecord

LEMMA DropType ==
  ASSUME NEW j \in JobRecord, NEW v \in View, NEW t \in Seq(SUBSET Plugins)
  PROVE  LET h == [j EXCEPT !.at = "drop", !.todo = t, !.clone = v]
         IN h \in JobRecord /\ h.id = j.id /\ h.kind = j.kind /\ h.of = j.of /\ h.todo = t
BY DEF JobRecord

LEMMA JobStartsStep ==
  ASSUME IInv, JobStarts
  PROVE  IInv'
<1> DEFINE j == Head(jobs)
           w == [view EXCEPT !.desired = FALSE, !.manual = {}]
           v == IF j.kind = "disconnect" /\ j.of = None THEN w ELSE view
           h == [j EXCEPT !.at = "list", !.clone = v]
<1>1. /\ jobs # <<>> /\ view' = v /\ UNCHANGED <<plan, op, permit, runtime, disk, seen>>
      /\ jobs' = Tail(jobs) \/ jobs' = [jobs EXCEPT ![1].at = "list", ![1].clone = v]
  BY DEF JobStarts, JobMoves
<1>2. /\ j \in JobRecord /\ j = jobs[1] /\ 1 \in DOMAIN jobs
  BY <1>1, FirstJob
<1>3. view \in View /\ TypeOK
  BY DEF IInv, TypeOK
<1>4. w \in View
  BY <1>3 DEF View
<1>5. v \in View
  BY <1>3, <1>4
<1> HIDE DEF j, v
<1>6. KeepsPlans /\ Cancels(op', {}) /\ Disowns({})
  BY <1>1, <1>3, SamePlans, SameOps, DropsOf
<1>7. FencesOK' /\ JobsOK' /\ jobs' \in Seq(JobRecord)
  <2>1. CASE jobs' = Tail(jobs)
    BY <1>1, <1>6, <2>1, FencesTail
  <2>2. CASE jobs' = [jobs EXCEPT ![1].at = "list", ![1].clone = v]
    <3>1. jobs' = [jobs EXCEPT ![1] = h]
      BY <1>2, <2>2
    <3>2. h \in JobRecord /\ h.id = j.id /\ h.kind = j.kind /\ h.of = j.of /\ h.at = "list"
      BY <1>2, <1>5, ListType
    <3> HIDE DEF h
    <3> QED
      BY <1>1, <1>2, <1>6, <3>1, <3>2, FencesHead
  <2> QED
    BY <1>1, <2>1, <2>2
<1>8. /\ seen' \in [made : Nat, lost : Nat]
      /\ disk' \in [fp : [Plugins -> Nat], saving : Plugins \cup {None}]
  BY <1>1, <1>3 DEF TypeOK
<1> QED
  BY <1>1, <1>5, <1>6, <1>7, <1>8, CancelRequest

LEMMA JobListsStep ==
  ASSUME IInv, JobLists
  PROVE  IInv'
<1> DEFINE j == Head(jobs)
           todo == IF Moot(j) THEN <<>> ELSE TodoOf(j)
           S == IF Moot(j) THEN {} ELSE Aborted(j)
           v == IF Moot(j) THEN view ELSE ListedView(j, todo)
           h == [j EXCEPT !.at = "drop", !.todo = todo, !.clone = v]
<1>1. /\ Settled /\ jobs # <<>> /\ view' = v
      /\ plan' = ForcedPlans(S) /\ op' = ForcedOps(S)
      /\ runtime' = Disowned(S) \/ runtime' = Drop(Disowned(S), Head(todo))
      /\ \/ jobs' = Tail(jobs)
         \/ todo # <<>> /\ jobs' = [jobs EXCEPT ![1].at = "drop", ![1].todo = todo, ![1].clone = v]
      /\ disk' = disk \/ disk' = [disk EXCEPT !.saving = None]
      /\ UNCHANGED <<permit, seen>>
  BY DEF JobLists
<1>2. /\ j \in JobRecord /\ j = jobs[1] /\ 1 \in DOMAIN jobs
      /\ j.kind \in {"lost", "changed"} => j.of # None
  BY <1>1, FirstJob
<1>3. TypeOK /\ view \in View
  BY DEF IInv, TypeOK
<1>4. todo \in Seq(SUBSET Plugins)
  BY <1>2, TodoType
<1>5. S \in SUBSET Ops /\ \A o \in S : Running(o)
  BY RunningOps DEF Aborted
<1>6. v \in View
  <2>1. CASE Moot(j)
    BY <1>3, <2>1
  <2>2. CASE ~Moot(j)
    <3>1. j.kind = "disconnect" /\ j.of # None => todo # <<>>
      <4>1. ASSUME j.kind = "disconnect", j.of # None PROVE todo # <<>>
        <5>1. OneByOne(Dependents(j.of)) \in Seq(SUBSET Plugins) /\ {j.of} \in SUBSET Plugins
          BY <1>2, <4>1, ScopeIn, OneByOneType DEF JobRecord
        <5>2. todo = Append(OneByOne(Dependents(j.of)), {j.of})
          BY <2>2, <4>1 DEF TodoOf
        <5> QED
          BY <5>1, <5>2
      <4> QED
        BY <4>1
    <3>2. v = ListedView(j, todo)
      BY <2>2
    <3> HIDE DEF todo, v
    <3> QED
      BY <1>2, <1>3, <1>4, <3>1, <3>2, ListedViewType
  <2> QED
    BY <2>1, <2>2
<1> HIDE DEF j, todo, S, v
<1>7. KeepsPlans /\ Cancels(op', S) /\ Disowns(S)
  BY <1>1, <1>5, ForcedOf
<1>8. FencesOK' /\ JobsOK' /\ jobs' \in Seq(JobRecord)
  <2>1. CASE jobs' = Tail(jobs)
    BY <1>1, <1>7, <2>1, FencesTail
  <2>2. CASE todo # <<>> /\ jobs' = [jobs EXCEPT ![1].at = "drop", ![1].todo = todo, ![1].clone = v]
    <3>1. jobs' = [jobs EXCEPT ![1] = h]
      BY <1>2, <2>2
    <3>2. h \in JobRecord /\ h.id = j.id /\ h.kind = j.kind /\ h.of = j.of /\ h.todo = todo
      <4>1. j \in JobRecord
        BY <1>2
      <4> QED
        BY <1>4, <1>6, <4>1, DropType, Zenon
    <3> HIDE DEF h
    <3> QED
      BY <1>1, <1>2, <1>7, <2>2, <3>1, <3>2, FencesHead
  <2> QED
    BY <1>1, <2>1, <2>2
<1>9. /\ seen' \in [made : Nat, lost : Nat]
      /\ disk' \in [fp : [Plugins -> Nat], saving : Plugins \cup {None}]
  <2>1. disk \in [fp : [Plugins -> Nat], saving : Plugins \cup {None}] /\ seen \in [made : Nat, lost : Nat]
    BY <1>3 DEF TypeOK
  <2> QED
    BY <1>1, <2>1
<1> QED
  BY <1>1, <1>5, <1>6, <1>7, <1>8, <1>9, CancelRequest

LEMMA JobDropsStep ==
  ASSUME IInv, JobDrops
  PROVE  IInv'
<1> DEFINE j == Head(jobs)
           rest == Tail(j.todo)
           v == DroppedView(j)
           h == [j EXCEPT !.todo = rest, !.clone = v]
<1>1. /\ jobs # <<>> /\ j.at = "drop" /\ view' = v /\ UNCHANGED <<plan, op, permit, seen>>
      /\ \/ jobs' = Tail(jobs)
         \/ rest # <<>> /\ jobs' = [jobs EXCEPT ![1].todo = rest, ![1].clone = v]
      /\ disk' = disk \/ disk' = [disk EXCEPT !.saving = None]
  BY DEF JobDrops
<1>2. j \in JobRecord /\ j = jobs[1] /\ 1 \in DOMAIN jobs /\ j.todo # <<>>
  BY <1>1, FirstJob
<1>3. TypeOK /\ view \in View
  BY DEF IInv, TypeOK
<1>4. v \in View
  BY <1>2, <1>3, DroppedViewType
<1>5. rest \in Seq(SUBSET Plugins)
  BY <1>2 DEF JobRecord
<1>6. Disowns({})
  <2>1. \E r \in {runtime} \cup IF Overlapping THEN {Drop(runtime, Head(j.todo))} ELSE {} :
          runtime' = IF rest = <<>> THEN r ELSE Drop(r, Head(rest))
    BY DEF JobDrops
  <2>2. runtime \in RuntimeRecord
    BY <1>3 DEF TypeOK, RuntimeRecord
  <2>3. PICK r \in {runtime, Drop(runtime, Head(j.todo))} :
          runtime' = IF rest = <<>> THEN r ELSE Drop(r, Head(rest))
    BY <2>1
  <2>4. /\ r \in RuntimeRecord /\ r.trying = runtime.trying
        /\ \A p \in Plugins : /\ r.owner[p] \in {None, runtime.owner[p]}
                              /\ r.session[p] \in {None, runtime.session[p]}
    BY <2>2, <2>3, DropOf
  <2> HIDE DEF j, rest
  <2>5. /\ Drop(r, Head(rest)) \in RuntimeRecord /\ Drop(r, Head(rest)).trying = r.trying
        /\ \A p \in Plugins : /\ Drop(r, Head(rest)).owner[p] \in {None, r.owner[p]}
                              /\ Drop(r, Head(rest)).session[p] \in {None, r.session[p]}
    BY <2>4, DropOf
  <2> QED
    BY <2>3, <2>4, <2>5 DEF Disowns
<1> HIDE DEF j, rest, v
<1>7. KeepsPlans /\ Cancels(op', {})
  BY <1>1, <1>3, SamePlans, SameOps
<1>8. FencesOK' /\ JobsOK' /\ jobs' \in Seq(JobRecord)
  <2>1. CASE jobs' = Tail(jobs)
    BY <1>1, <1>7, <2>1, FencesTail
  <2>2. CASE rest # <<>> /\ jobs' = [jobs EXCEPT ![1].todo = rest, ![1].clone = v]
    <3>1. jobs' = [jobs EXCEPT ![1] = h]
      BY <1>2, <2>2
    <3>2. h \in JobRecord /\ h.id = j.id /\ h.kind = j.kind /\ h.of = j.of /\ h.todo = rest
      BY <1>2, <1>4, <1>5, TodoSet
    <3> HIDE DEF h
    <3> QED
      BY <1>1, <1>2, <1>7, <2>2, <3>1, <3>2, FencesHead
  <2> QED
    BY <1>1, <2>1, <2>2
<1>9. /\ seen' \in [made : Nat, lost : Nat]
      /\ disk' \in [fp : [Plugins -> Nat], saving : Plugins \cup {None}]
  <2>1. disk \in [fp : [Plugins -> Nat], saving : Plugins \cup {None}] /\ seen \in [made : Nat, lost : Nat]
    BY <1>3 DEF TypeOK
  <2> QED
    BY <1>1, <2>1
<1> QED
  BY <1>1, <1>4, <1>6, <1>7, <1>8, <1>9, CancelRequest

-----------------------------------------------------------------------------
(* Plans.                                                                  *)

\* Operations keep their state and their place.
Steady ==
  op' \in [Ops -> OpRecord] /\ \A o \in Ops : op'[o].st = op[o].st /\ op'[o].at = op[o].at

\* What a plan does leaves the queue, the sessions and the permits alone.
LEMMA PlanMove ==
  ASSUME IInv, Steady, UNCHANGED <<permit, runtime, jobs, disk, seen>>, NEW l \in Plans,
         NEW r \in PlanRecord, plan' = [plan EXCEPT ![l] = r], PlanFenceOK(l)',
         \A p \in Plugins : NodeOK(l, p)', view' \in View
  PROVE  IInv'
<1>1. TypeOK /\ FencesOK /\ JobsOK /\ NodesOK
  BY DEF IInv
<1>2. /\ plan' \in [Plans -> PlanRecord] /\ plan'[l] = r
      /\ \A k \in Plans : k # l => plan'[k] = plan[k]
  BY <1>1, PlanSet
<1>3. FencesOK'
  <2>1. CleanupsOK'
    BY <1>1 DEF FencesOK, CleanupsOK, Cleanups
  <2>2. ASSUME NEW k \in Plans, k # l PROVE PlanFenceOK(k)'
    <3>1. PlanFenceOK(k) /\ plan'[k] = plan[k]
      BY <1>1, <1>2, <2>2 DEF FencesOK
    <3> QED
      BY <3>1 DEF PlanFenceOK, Cleanups
  <2> QED
    BY <2>1, <2>2 DEF FencesOK
<1>4. LiveOK' /\ OneOp'
  BY DEF IInv, TypeOK, LiveOK, Live, OneOp, Steady
<1>5. RuntimeOK'
  <2>1. runtime \in RuntimeRecord /\ RuntimeOK
    BY DEF IInv, TypeOK, RuntimeRecord
  <2>2. ASSUME NEW p \in Plugins PROVE SessionOK(p)'
    <3>1. runtime.session[p] \in Ops \cup {None} /\ SessionOK(p)
      BY <2>1 DEF RuntimeRecord, RuntimeOK
    <3> QED
      BY <3>1 DEF SessionOK, Steady
  <2>3. ASSUME NEW o \in Ops PROVE TryOK(o)'
    BY <2>1 DEF RuntimeOK, TryOK, Running, Steady
  <2> QED
    BY <2>2, <2>3 DEF RuntimeOK
<1>6. NodesOK'
  <2>1. ASSUME NEW k \in Plans, k # l, NEW p \in Plugins PROVE NodeOK(k, p)'
    <3>1. plan'[k] = plan[k] /\ Ages
      BY <1>2, <2>1 DEF Steady, Ages
    <3> QED
      BY <1>4, <3>1, NodeKept DEF Going
  <2> QED
    BY <2>1 DEF NodesOK
<1>7. QueueOK' /\ CountOK'
  BY PermitsKept DEF Steady
<1>8. /\ op' \in [Ops -> OpRecord] /\ permit' \in [active : Nat, queue : Seq(Ops)]
      /\ runtime' \in RuntimeRecord /\ jobs' \in Seq(JobRecord)
      /\ disk' \in [fp : [Plugins -> Nat], saving : Plugins \cup {None}]
      /\ seen' \in [made : Nat, lost : Nat]
  BY <1>1 DEF TypeOK, RuntimeRecord, Steady
<1>9. JobsOK'
  BY <1>1 DEF JobsOK
<1> QED
  BY <1>2, <1>3, <1>4, <1>5, <1>6, <1>7, <1>8, <1>9, Together DEF Rest

LEMMA PlanAside ==
  ASSUME IInv, UNCHANGED <<op, permit, runtime, jobs, disk, seen>>, NEW l \in Plans,
         NEW r \in PlanRecord, plan' = [plan EXCEPT ![l] = r], PlanFenceOK(l)',
         \A p \in Plugins : NodeOK(l, p)', view' \in View
  PROVE  IInv'
<1>1. Steady
  BY DEF IInv, TypeOK, Steady
<1> QED
  BY <1>1, PlanMove

\* A plan whose fence stays and whose nodes stay.
LEMMA FenceSame ==
  ASSUME IInv, NEW l \in Plans, jobs' = jobs, seen' = seen, plan'[l].awaits = plan[l].awaits,
         plan'[l].st = "fenced" <=> plan[l].st = "fenced"
  PROVE  PlanFenceOK(l)'
<1>1. PlanFenceOK(l)
  BY DEF IInv, FencesOK
<1> QED
  BY <1>1 DEF PlanFenceOK, Cleanups

LEMMA PlanRecords ==
  ASSUME IInv, NEW l \in Plans
  PROVE  plan[l] \in PlanRecord /\ PlanFenceOK(l) /\ \A p \in Plugins : NodeOK(l, p)
BY DEF IInv, TypeOK, FencesOK, NodesOK

LEMMA PlanEndsStep ==
  ASSUME IInv, NEW l \in Plans, PlanEnds(l)
  PROVE  IInv'
<1> DEFINE r == [plan[l] EXCEPT !.st = "completed"]
<1>1. /\ plan' = [plan EXCEPT ![l] = r] /\ plan[l].st = "active"
      /\ UNCHANGED <<op, permit, runtime, view, jobs, disk, seen>>
  BY DEF PlanEnds, Active
<1>2. r \in PlanRecord /\ r.st = "completed" /\ r.node = plan[l].node /\ r.awaits = plan[l].awaits
  BY PlanRecords, PlanType DEF PlanStates
<1> HIDE DEF r
<1>3. plan'[l] = r
  BY <1>1, <1>2, PlanSet DEF IInv
<1>4. PlanFenceOK(l)'
  BY <1>1, <1>2, <1>3, FenceSame
<1>5. ASSUME NEW p \in Plugins PROVE NodeOK(l, p)'
  BY <1>1, <1>2, <1>3, PlanRecords DEF NodeOK, Early, Going, Live
<1>6. view' \in View
  BY <1>1 DEF IInv, TypeOK
<1> QED
  BY <1>1, <1>2, <1>4, <1>5, <1>6, PlanAside

LEMMA PlanUnfencedStep ==
  ASSUME IInv, NEW l \in Plans, PlanUnfenced(l)
  PROVE  IInv'
<1> DEFINE s == IF disk.saving = None THEN "building" ELSE "refused"
           r == [plan[l] EXCEPT !.st = s]
<1>1. /\ plan' = [plan EXCEPT ![l] = r] /\ plan[l].st = "fenced"
      /\ \A i \in DOMAIN jobs : jobs[i].id # plan[l].awaits
      /\ UNCHANGED <<op, permit, runtime, view, jobs, disk, seen>>
  BY DEF PlanUnfenced, PlanMoves, Active
<1>2. s \in {"building", "refused"} /\ s \in PlanStates
  BY DEF PlanStates
<1> HIDE DEF s
<1>3. r \in PlanRecord /\ r.st = s /\ r.node = plan[l].node /\ r.awaits = plan[l].awaits
  BY <1>2, PlanRecords, PlanType
<1> HIDE DEF r
<1>4. plan'[l] = r
  BY <1>1, <1>3, PlanSet DEF IInv
<1>5. PlanFenceOK(l)'
  <2>1. ASSUME NEW i \in Cleanups PROVE plan[l].awaits < jobs[i].id
    <3>1. plan[l].awaits \in Nat /\ jobs[i].id \in Nat
      BY PlanRecords DEF PlanRecord, IInv, FencesOK, CleanupsOK
    <3>2. ~(jobs[i].id <= plan[l].awaits)
      BY <1>1, PlanRecords DEF PlanFenceOK, Cleanups
    <3> QED
      BY <3>1, <3>2
  <2> QED
    BY <1>1, <1>2, <1>3, <1>4, <2>1, PlanRecords DEF PlanFenceOK, Cleanups
<1>6. ASSUME NEW p \in Plugins PROVE NodeOK(l, p)'
  BY <1>1, <1>2, <1>3, <1>4, PlanRecords DEF NodeOK, Early, Going, Live
<1>7. view' \in View
  BY <1>1 DEF IInv, TypeOK
<1> QED
  BY <1>1, <1>3, <1>5, <1>6, <1>7, PlanAside

LEMMA PlanBuiltStep ==
  ASSUME IInv, NEW l \in Plans, PlanBuilt(l)
  PROVE  IInv'
<1> DEFINE chosen == IF l \in Retries /\ ~Single(l) THEN Target[l] \ view.manual ELSE Target[l]
           nodes == chosen \cup {Provider[p] : p \in chosen \cap DOMAIN Provider}
           f == [p \in Plugins |-> IF p \in nodes THEN [st |-> "ready", on |-> None] ELSE NoNode]
           r1 == [plan[l] EXCEPT !.st = "refused"]
           r2 == [plan[l] EXCEPT !.st = "active", !.fp = disk.fp, !.node = f]
<1>1. /\ plan[l].st = "building" /\ UNCHANGED <<op, permit, runtime, jobs, disk, seen>>
      /\ \/ plan' = [plan EXCEPT ![l] = r1] /\ view' = view
         \/ plan' = [plan EXCEPT ![l] = r2] /\ view' = InitialView(l, nodes)
  BY DEF PlanBuilt
<1>2. TypeOK /\ plan[l] \in PlanRecord /\ view \in View /\ disk.fp \in [Plugins -> Nat]
  BY PlanRecords DEF IInv, TypeOK
<1>3. nodes \in SUBSET Plugins
  BY ConnectionAssumption
<1>4. /\ f \in [Plugins -> [st : NodeStates, on : Ops \cup {None}]]
      /\ \A p \in Plugins : f[p].st \in {"ready", "none"}
  BY DEF NoNode, NodeStates
<1>5. \A p \in Plugins : op[<<l, p>>].st = "none" /\ plan[l].node[p].st = "none"
  BY <1>1, PlanRecords DEF NodeOK, Early
<1>6. view' \in View
  BY <1>1, <1>2, <1>3, InitialViewType
<1> HIDE DEF nodes, f
<1>7. CASE plan' = [plan EXCEPT ![l] = r1]
  <2>1. r1 \in PlanRecord /\ r1.st = "refused" /\ r1.node = plan[l].node /\ r1.awaits = plan[l].awaits
    BY <1>2, PlanType DEF PlanStates
  <2> HIDE DEF r1
  <2>2. plan'[l] = r1
    BY <1>2, <1>7, <2>1, PlanSet
  <2>3. PlanFenceOK(l)'
    BY <1>1, <2>1, <2>2, FenceSame
  <2>4. ASSUME NEW p \in Plugins PROVE NodeOK(l, p)'
    BY <1>1, <1>5, <2>1, <2>2 DEF NodeOK, Early, Going
  <2> QED
    BY <1>1, <1>6, <1>7, <2>1, <2>3, <2>4, PlanAside
<1>8. CASE plan' = [plan EXCEPT ![l] = r2]
  <2>1. r2 \in PlanRecord /\ r2.st = "active" /\ r2.node = f /\ r2.awaits = plan[l].awaits
    BY <1>2, <1>4 DEF PlanRecord, PlanStates
  <2> HIDE DEF r2
  <2>2. plan'[l] = r2
    BY <1>2, <1>8, <2>1, PlanSet
  <2>3. PlanFenceOK(l)'
    BY <1>1, <2>1, <2>2, FenceSame
  <2>4. ASSUME NEW p \in Plugins PROVE NodeOK(l, p)'
    BY <1>1, <1>4, <1>5, <2>1, <2>2 DEF NodeOK, Early
  <2> QED
    BY <1>1, <1>6, <1>8, <2>1, <2>3, <2>4, PlanAside
<1> QED
  BY <1>1, <1>7, <1>8

LEMMA ConnectRequestedStep ==
  ASSUME IInv, NEW l \in Plans, ConnectRequested(l)
  PROVE  IInv'
<1> DEFINE C == {i \in DOMAIN jobs : jobs[i].kind = "cleanup"}
           last == CHOOSE i \in C : \A j \in C : j <= i
           s == IF C # {} THEN "fenced" ELSE IF disk.saving # None THEN "refused" ELSE "building"
           a == IF C = {} THEN 0 ELSE jobs[last].id
           r == [plan[l] EXCEPT !.st = s, !.awaits = a]
<1>1. /\ plan' = [plan EXCEPT ![l].st = s, ![l].awaits = a] /\ plan[l].st = "idle"
      /\ UNCHANGED <<op, permit, runtime, view, jobs, disk, seen>>
  BY DEF ConnectRequested
<1>2. C = Cleanups /\ jobs \in Seq(JobRecord) /\ CleanupsOK /\ seen.made \in Nat /\ plan[l] \in PlanRecord
  BY PlanRecords DEF Cleanups, IInv, TypeOK, FencesOK
<1>3. ASSUME C # {} PROVE last \in C /\ \A j \in C : j <= last
  <2>1. C \subseteq 1..Len(jobs) /\ Len(jobs) \in Nat
    BY <1>2
  <2>2. \E i \in C : \A j \in C : j <= i
    <3> HIDE DEF C
    <3> QED
      BY <1>3, <2>1, GreatestExists
  <2> HIDE DEF C
  <2> QED
    BY <2>2
<1> HIDE DEF C, last
<1>4. s \in Early /\ s \in PlanStates /\ (s = "fenced" <=> C # {})
  BY DEF Early, PlanStates
<1>5. a \in Nat /\ a <= seen.made /\ (C # {} => a = jobs[last].id)
  <2>1. CASE C = {}
    BY <1>2, <2>1
  <2>2. CASE C # {}
    BY <1>2, <1>3, <2>2 DEF CleanupsOK
  <2> QED
    BY <2>1, <2>2
<1> HIDE DEF s, a
<1>6. r \in PlanRecord /\ r.st = s /\ r.node = plan[l].node /\ r.awaits = a
  BY <1>2, <1>4, <1>5 DEF PlanRecord
<1>b. plan' = [plan EXCEPT ![l] = r]
  BY <1>1
<1> HIDE DEF r
<1>7. plan'[l] = r
  BY <1>b, <1>6, PlanSet DEF IInv
<1>8. PlanFenceOK(l)'
  <2>1. Cleanups' = C /\ jobs' = jobs
    BY <1>1, <1>2 DEF Cleanups
  <2>2. ASSUME NEW i \in C PROVE i <= last /\ last \in C /\ jobs[last].id = a
    BY <1>3, <1>5
  <2> QED
    BY <1>1, <1>4, <1>5, <1>6, <1>7, <2>1, <2>2 DEF PlanFenceOK
<1>9. ASSUME NEW p \in Plugins PROVE NodeOK(l, p)'
  <2>1. NodeOK(l, p) /\ plan'[l].node[p] = plan[l].node[p] /\ op' = op
    BY <1>1, <1>6, <1>7, PlanRecords
  <2>2. plan[l].node[p].st = "none" /\ op[<<l, p>>].st = "none"
    BY <1>1, <2>1 DEF NodeOK, Early
  <2> QED
    BY <2>1, <2>2 DEF NodeOK
<1>10. view' \in View
  BY <1>1 DEF IInv, TypeOK
<1> QED
  BY <1>1, <1>b, <1>6, <1>8, <1>9, <1>10, PlanAside

-----------------------------------------------------------------------------
(* The nodes of a plan.                                                    *)

NodeRecord == [st : NodeStates, on : Ops \cup {None}]

LEMMA NodeTyped ==
  ASSUME IInv, NEW l \in Plans, NEW p \in Plugins
  PROVE  plan[l].node[p] \in NodeRecord
BY PlanRecords DEF PlanRecord, NodeRecord

\* The node becomes n, and its plan takes the state s.
Moves(l, s, p, n) == plan' = [plan EXCEPT ![l].st = s, ![l].node[p] = n]
MovesAlone(l, p, n) == plan' = [plan EXCEPT ![l].node[p] = n]

LEMMA SameState ==
  ASSUME IInv, NEW l \in Plans, NEW p \in Plugins, NEW n, MovesAlone(l, p, n)
  PROVE  Moves(l, plan[l].st, p, n)
<1>1. plan \in [Plans -> PlanRecord] /\ plan[l] \in PlanRecord
  BY DEF IInv, TypeOK
<1>2. [plan[l] EXCEPT !.st = plan[l].st] = plan[l]
  BY <1>1 DEF PlanRecord
<1> QED
  BY <1>1, <1>2 DEF Moves, MovesAlone

\* A node of a plan that goes on takes another state.
LEMMA NodeMove ==
  ASSUME IInv, Steady, UNCHANGED <<permit, runtime, jobs, disk, seen>>, NEW l \in Plans,
         NEW p \in Plugins, NEW n \in NodeRecord, NEW s \in {plan[l].st, "conflicted"}, Going(l),
         Moves(l, s, p, n), view' \in View,
         \/ n.st \in {"joined", "threw", "ok", "failed"}
         \/ /\ n.st = "waiting" /\ n.on \in Ops /\ PluginOf(n.on) = p
            /\ op[n.on].st = "cancelling" /\ op[<<l, p>>].st = "none"
  PROVE  IInv'
<1> DEFINE r0 == [plan[l] EXCEPT !.st = s]
           r == [r0 EXCEPT !.node[p] = n]
<1>1. /\ TypeOK /\ plan[l] \in PlanRecord /\ PlanFenceOK(l) /\ LiveOK
      /\ \A q \in Plugins : NodeOK(l, q) /\ <<l, q>> \in Ops
  BY PlanRecords, OpsPairs DEF IInv, TypeOK, LiveOK
<1>2. s \in PlanStates
  BY <1>1 DEF PlanRecord, PlanStates
<1>3. r0 \in PlanRecord /\ r0.st = s /\ r0.node = plan[l].node /\ r0.awaits = plan[l].awaits
  BY <1>1, <1>2, PlanType
<1>4. plan' = [plan EXCEPT ![l] = r]
  BY <1>1 DEF PlanRecord, Moves
<1> HIDE DEF r0
<1>5. /\ r \in PlanRecord /\ r.st = s /\ r.awaits = plan[l].awaits /\ r.node[p] = n
      /\ \A q \in Plugins : q # p => r.node[q] = plan[l].node[q]
  BY <1>3, NodeSet DEF NodeRecord
<1> HIDE DEF r
<1>6. plan'[l] = r
  BY <1>1, <1>4, <1>5, PlanSet
<1>7. PlanFenceOK(l)'
  BY <1>5, <1>6, FenceSame DEF Going
<1>8. ASSUME NEW q \in Plugins PROVE NodeOK(l, q)'
  <2>1. plan'[l].st \notin Early
    BY <1>5, <1>6 DEF Going, Early
  <2>2. CASE q # p
    <3>1. NodeOK(l, q) /\ plan'[l].node[q] = plan[l].node[q] /\ <<l, q>> \in Ops
      BY <1>1, <1>5, <1>6, <2>2
    <3> QED
      BY <2>1, <3>1 DEF NodeOK, Live, Going, Steady
  <2>3. CASE q = p
    <3>1. plan'[l].node[q] = n /\ <<l, p>> \in Ops
      BY <1>1, <1>5, <1>6, <2>3
    <3>2. CASE n.st \in {"joined", "threw", "ok", "failed"}
      BY <2>1, <3>1, <3>2 DEF NodeOK
    <3>3. CASE n.st = "waiting"
      <4>1. op'[n.on].st = "cancelling" /\ op'[<<l, p>>].st = "none" /\ op'[n.on].at # "none"
        BY <1>1, <3>1, <3>3 DEF Steady, LiveOK, Live
      <4> QED
        BY <2>1, <2>3, <3>1, <3>3, <4>1 DEF NodeOK, Live
    <3> QED
      BY <3>2, <3>3
  <2> QED
    BY <2>2, <2>3
<1> QED
  BY <1>4, <1>5, <1>7, <1>8, PlanMove

LEMMA SteadyOps ==
  ASSUME IInv, op' = op
  PROVE  Steady
BY DEF IInv, TypeOK, Steady

LEMMA NodeSkipsStep ==
  ASSUME IInv, NEW l \in Plans, NEW p \in Plugins, NodeSkips(l, p)
  PROVE  IInv'
<1> DEFINE s == IF ~ProviderFailed(l, p) /\ view.phase[p] = "on" THEN "ok" ELSE "failed"
           n == [plan[l].node[p] EXCEPT !.st = s]
<1>1. /\ Going(l) /\ MovesAlone(l, p, n)
      /\ view' = view \/ view' = Show(view, {p}, "blocked")
      /\ UNCHANGED <<op, permit, runtime, jobs, disk, seen>>
  BY DEF NodeSkips, MovesAlone
<1>2. n \in NodeRecord /\ n.st \in {"joined", "threw", "ok", "failed"}
  BY NodeTyped DEF NodeRecord, NodeStates
<1> HIDE DEF n
<1>3. view' \in View
  BY <1>1, ShowType DEF IInv, TypeOK, Phases
<1>4. Moves(l, plan[l].st, p, n)
  BY <1>1, SameState
<1> QED
  BY <1>1, <1>2, <1>3, <1>4, SteadyOps, NodeMove

LEMMA NodeWaitsStep ==
  ASSUME IInv, NEW l \in Plans, NEW p \in Plugins, NodeWaits(l, p)
  PROVE  IInv'
<1>1. PICK o \in Existing(p, "cancelling") : plan' = [plan EXCEPT ![l].node[p] = [st |-> "waiting", on |-> o]]
  BY DEF NodeWaits
<1> DEFINE n == [st |-> "waiting", on |-> o]
<1>2. /\ Going(l) /\ plan[l].node[p].st = "ready"
      /\ UNCHANGED <<op, permit, runtime, view, jobs, disk, seen>>
  BY DEF NodeWaits
<1>3. o \in Ops /\ PluginOf(o) = p /\ op[o].st = "cancelling"
  BY <1>1 DEF Existing, OpsOn
<1>4. n \in NodeRecord /\ n.st = "waiting" /\ n.on = o
  BY <1>3 DEF NodeRecord, NodeStates
<1> HIDE DEF n
<1>5. op[<<l, p>>].st = "none"
  BY <1>2, PlanRecords DEF NodeOK
<1>a. MovesAlone(l, p, n)
  BY <1>1 DEF n, MovesAlone
<1>6. Moves(l, plan[l].st, p, n)
  BY <1>a, SameState
<1>7. view' \in View
  BY <1>2 DEF IInv, TypeOK
<1> QED
  BY <1>2, <1>3, <1>4, <1>5, <1>6, <1>7, SteadyOps, NodeMove

LEMMA NodeJoinsStep ==
  ASSUME IInv, NEW l \in Plans, NEW p \in Plugins, NodeJoins(l, p)
  PROVE  IInv'
<1>1. PICK o \in Existing(p, "running") :
        /\ op' = [op EXCEPT ![o].subs = @ \cup {l}]
        /\ plan' = [plan EXCEPT ![l].node[p] = [st |-> "joined", on |-> o]]
  BY DEF NodeJoins
<1> DEFINE n == [st |-> "joined", on |-> o]
<1>2. Going(l) /\ UNCHANGED <<permit, runtime, view, jobs, disk, seen>>
  BY DEF NodeJoins, MayAcquire
<1>3. o \in Ops
  BY <1>1 DEF Existing, OpsOn
<1>4. n \in NodeRecord /\ n.st = "joined"
  BY <1>3 DEF NodeRecord, NodeStates
<1> HIDE DEF n
<1>a. MovesAlone(l, p, n)
  BY <1>1 DEF n, MovesAlone
<1>5. Moves(l, plan[l].st, p, n)
  BY <1>a, SameState
<1>6. view' \in View
  BY <1>2 DEF IInv, TypeOK
<1>7. Steady
  <2> DEFINE u == op[o].subs \cup {l}
             x == [op[o] EXCEPT !.subs = u]
  <2>1. op \in [Ops -> OpRecord] /\ op[o] \in OpRecord
    BY <1>3 DEF IInv, TypeOK
  <2>2. u \in SUBSET Plans
    BY <2>1 DEF OpRecord
  <2>3. op' = [op EXCEPT ![o] = x]
    BY <1>1
  <2> HIDE DEF u
  <2>4. x \in OpRecord /\ x.st = op[o].st /\ x.at = op[o].at
    BY <2>1, <2>2 DEF OpRecord
  <2> HIDE DEF x
  <2> QED
    BY <1>3, <2>1, <2>3, <2>4 DEF Steady
<1> QED
  BY <1>2, <1>4, <1>5, <1>6, <1>7, NodeMove

LEMMA NodeConflictsStep ==
  ASSUME IInv, NEW l \in Plans, NEW p \in Plugins, NodeConflicts(l, p)
  PROVE  IInv'
<1> DEFINE s == IF Active(l) THEN "conflicted" ELSE plan[l].st
           n == [plan[l].node[p] EXCEPT !.st = "threw"]
<1>1. Going(l) /\ UNCHANGED <<op, permit, runtime, view, jobs, disk, seen>>
  BY DEF NodeConflicts, MayAcquire
<1>2. plan' = [plan EXCEPT ![l].st = s, ![l].node[p].st = "threw"]
  BY DEF NodeConflicts
<1>3. n \in NodeRecord /\ n.st = "threw"
  BY NodeTyped DEF NodeRecord, NodeStates
<1>4. s \in {plan[l].st, "conflicted"}
  OBVIOUS
<1> HIDE DEF s
<1>5. Moves(l, s, p, n)
  BY <1>2, PlanRecords DEF PlanRecord, Moves
<1> HIDE DEF n
<1>6. view' \in View
  BY <1>1 DEF IInv, TypeOK
<1> QED
  BY <1>1, <1>3, <1>4, <1>5, <1>6, SteadyOps, NodeMove

LEMMA NodeSettlesStep ==
  ASSUME IInv, NEW l \in Plans, NEW p \in Plugins, NodeSettles(l, p)
  PROVE  IInv'
<1> DEFINE s == IF op[plan[l].node[p].on].st = "completed" THEN "ok" ELSE "failed"
           n == [plan[l].node[p] EXCEPT !.st = s]
<1>1. /\ Going(l) /\ MovesAlone(l, p, n)
      /\ UNCHANGED <<op, permit, runtime, view, jobs, disk, seen>>
  BY DEF NodeSettles, MovesAlone
<1>2. n \in NodeRecord /\ n.st \in {"joined", "threw", "ok", "failed"}
  BY NodeTyped DEF NodeRecord, NodeStates
<1> HIDE DEF n
<1>3. view' \in View
  BY <1>1 DEF IInv, TypeOK
<1>4. Moves(l, plan[l].st, p, n)
  BY <1>1, SameState
<1> QED
  BY <1>1, <1>2, <1>3, <1>4, SteadyOps, NodeMove


-----------------------------------------------------------------------------
(* Operations.                                                             *)

\* The operation o becomes x, and those of W get their permit.
OpMoved(o, x, W) ==
  /\ op' \in [Ops -> OpRecord] /\ op'[o] = x
  /\ W \subseteq Ops /\ \A w \in W : w # o /\ Running(w) /\ op[w].at = "permit"
  /\ \A u \in Ops : u # o => /\ op'[u].st = op[u].st
                             /\ op'[u].at = IF u \in W THEN "connecting" ELSE op[u].at

\* A live operation goes on in its state, or ends.
Fit(o, x) ==
  /\ Live(o) /\ x \in OpRecord /\ x.st # "none"
  /\ x.at # "none" <=> x.st \in {"running", "cancelling"}
  /\ x.st \in {"running", "cancelling"} => x.st = op[o].st

LEMMA OpStepOf ==
  ASSUME IInv, NEW o \in Ops, NEW x, Fit(o, x), NEW W, OpMoved(o, x, W),
         UNCHANGED <<plan, jobs, disk, seen>>, QueueOK', CountOK', RuntimeOK',
         permit' \in [active : Nat, queue : Seq(Ops)], runtime' \in RuntimeRecord, view' \in View
  PROVE  IInv'
<1>1. TypeOK /\ LiveOK /\ OneOp
  BY DEF IInv, TypeOK, LiveOK
<1>2. KeepsPlans
  BY <1>1, SamePlans
<1>3. LiveOK'
  <2>1. ASSUME NEW u \in Ops PROVE Live(u)' <=> op'[u].st \in {"running", "cancelling"}
    <3>1. CASE u = o
      BY <3>1 DEF OpMoved, Fit, Live
    <3>2. CASE u # o
      BY <1>1, <3>2 DEF OpMoved, LiveOK, Live
    <3> QED
      BY <3>1, <3>2
  <2> QED
    BY <2>1 DEF LiveOK
<1>4. Ages
  <2>1. op[o].st \notin {"none", "completed", "failed", "cancelled"}
    BY <1>1 DEF Fit, LiveOK
  <2>2. ASSUME NEW u \in Ops
        PROVE  /\ op'[u].st = "none" <=> op[u].st = "none"
               /\ op'[u].st = "running" => op[u].st = "running"
               /\ op'[u].st = "cancelling" => op[u].st = "cancelling"
    BY <2>1 DEF OpMoved, Fit
  <2> QED
    BY <2>2 DEF Ages
<1>5. NodesOK'
  BY <1>2, <1>3, <1>4, KeepsGoing, NodesKept
<1>6. OneOp'
  <2>1. \A u \in Ops : Live(u)' => Live(u)
    BY DEF OpMoved, Fit, Live
  <2> QED
    BY <1>1, <2>1 DEF OneOp
<1>7. seen' \in [made : Nat, lost : Nat] /\ seen'.made \in Nat /\ seen'.made >= seen.made
  BY <1>1, SeenSame
<1>8. FencesOK' /\ JobsOK' /\ jobs' \in Seq(JobRecord)
  BY <1>2, <1>7, FencesSame
<1>9. plan' \in [Plans -> PlanRecord] /\ disk' \in [fp : [Plugins -> Nat], saving : Plugins \cup {None}]
  BY <1>1 DEF TypeOK
<1> QED
  BY <1>3, <1>5, <1>6, <1>7, <1>8, <1>9, Together DEF Rest, OpMoved

\* Sessions end and attempts are disowned, except that o may get its session.
Fewer(r, o) ==
  /\ r.trying \subseteq runtime.trying
  /\ \A p \in Plugins : /\ r.owner[p] \in {None, runtime.owner[p]}
                        /\ \/ r.session[p] \in {None, runtime.session[p]}
                           \/ r.session[p] = o /\ PluginOf(o) = p

LEMMA RuntimeMoved ==
  ASSUME IInv, NEW o \in Ops, NEW x, OpMoved(o, x, {}), NEW r \in RuntimeRecord, Fewer(r, o),
         r.session[PluginOf(o)] = o => x.at = "reading" \/ x.st = "completed",
         o \notin r.trying \/ r.owner[PluginOf(o)] # o, runtime' = r
  PROVE  RuntimeOK' /\ runtime' \in RuntimeRecord
<1>1. RuntimeOK /\ None \notin Ops /\ runtime \in RuntimeRecord
  BY OpsPairs DEF IInv, TypeOK, RuntimeRecord
<1>2. ASSUME NEW p \in Plugins PROVE SessionOK(p)'
  <2> DEFINE u == r.session[p]
  <2>1. SUFFICES ASSUME u # None
                 PROVE  PluginOf(u) = p /\ (op'[u].at = "reading" \/ op'[u].st = "completed")
    BY DEF SessionOK
  <2>2. SessionOK(p) /\ u \in Ops
    BY <1>1, <2>1 DEF RuntimeOK, RuntimeRecord
  <2>3. CASE u = o
    <3>1. PluginOf(o) = p
      BY <1>1, <2>2, <2>3 DEF Fewer, SessionOK
    <3> QED
      BY <2>3, <3>1 DEF OpMoved
  <2>4. CASE u # o
    BY <1>1, <2>1, <2>2, <2>4 DEF Fewer, SessionOK, OpMoved
  <2> QED
    BY <2>3, <2>4
<1>3. ASSUME NEW u \in Ops PROVE TryOK(u)'
  <2>1. TryOK(u) /\ PluginOf(u) \in Plugins /\ u # None
    BY <1>1, OpsPairs DEF RuntimeOK
  <2>2. CASE u = o
    BY <2>2 DEF TryOK
  <2>3. CASE u # o
    BY <2>1, <2>3 DEF TryOK, Fewer, OpMoved, Running
  <2> QED
    BY <2>2, <2>3
<1> QED
  BY <1>2, <1>3 DEF RuntimeOK

\* The operation w is given the permit of o and starts its attempt.
LEMMA RuntimeBegun ==
  ASSUME IInv, NEW o \in Ops, NEW x, NEW w \in Ops, OpMoved(o, x, {w}),
         NEW r \in RuntimeRecord, Fewer(r, o),
         r.session[PluginOf(o)] = o => x.at = "reading" \/ x.st = "completed",
         o \notin r.trying \/ r.owner[PluginOf(o)] # o, runtime' = Begun(r, w)
  PROVE  RuntimeOK' /\ runtime' \in RuntimeRecord
<1>1. RuntimeOK /\ None \notin Ops /\ runtime \in RuntimeRecord /\ w # o /\ Running(w)
      /\ op[w].at = "permit" /\ op'[w].at = "connecting" /\ op'[w].st = "running"
  BY OpsPairs DEF IInv, TypeOK, RuntimeRecord, OpMoved, Running
<1>2. /\ runtime' \in RuntimeRecord /\ runtime'.trying = r.trying \cup {w}
      /\ runtime'.owner[PluginOf(w)] = w /\ runtime'.session[PluginOf(w)] = None
      /\ \A p \in Plugins : p # PluginOf(w) =>
           runtime'.owner[p] = r.owner[p] /\ runtime'.session[p] = r.session[p]
  BY BegunOf
<1>3. ASSUME NEW p \in Plugins PROVE SessionOK(p)'
  <2> DEFINE u == r.session[p]
  <2>1. SUFFICES ASSUME u # None, runtime'.session[p] = u
                 PROVE  PluginOf(u) = p /\ (op'[u].at = "reading" \/ op'[u].st = "completed")
    BY <1>2 DEF SessionOK
  <2>2. SessionOK(p) /\ u \in Ops
    BY <1>1, <2>1 DEF RuntimeOK, RuntimeRecord
  <2>3. CASE u = o
    <3>1. PluginOf(o) = p
      BY <1>1, <2>2, <2>3 DEF Fewer, SessionOK
    <3> QED
      BY <2>3, <3>1 DEF OpMoved
  <2>4. CASE u # o
    <3>1. PluginOf(u) = p /\ (op[u].at = "reading" \/ op[u].st = "completed")
      BY <1>1, <2>1, <2>2, <2>4 DEF Fewer, SessionOK
    <3>2. u # w
      BY <1>1, <3>1 DEF Running
    <3> QED
      BY <2>2, <2>4, <3>1, <3>2 DEF OpMoved
  <2> QED
    BY <2>3, <2>4
<1>4. ASSUME NEW u \in Ops PROVE TryOK(u)'
  <2>1. TryOK(u) /\ PluginOf(u) \in Plugins /\ u # None
    BY <1>1, OpsPairs DEF RuntimeOK
  <2>2. CASE u = w
    BY <1>1, <2>2 DEF TryOK, Running
  <2>3. CASE u # w /\ PluginOf(u) = PluginOf(w)
    BY <1>2, <2>3 DEF TryOK
  <2>4. CASE u # w /\ PluginOf(u) # PluginOf(w)
    <3>1. runtime'.owner[PluginOf(u)] = r.owner[PluginOf(u)]
          /\ (u \in runtime'.trying <=> u \in r.trying)
      BY <1>2, <2>1, <2>4
    <3>2. CASE u = o
      BY <3>1, <3>2 DEF TryOK
    <3>3. CASE u # o
      <4>1. op'[u].at = op[u].at /\ op'[u].st = op[u].st
        BY <2>4, <3>3 DEF OpMoved
      <4> QED
        BY <2>1, <3>1, <4>1 DEF TryOK, Fewer, Running
    <3> QED
      BY <3>2, <3>3
  <2> QED
    BY <2>2, <2>3, <2>4
<1> QED
  BY <1>2, <1>3, <1>4 DEF RuntimeOK

LEMMA PermitFacts ==
  ASSUME IInv
  PROVE  /\ permit.queue \in Seq(Ops) /\ permit.active \in Nat /\ permit \in [active : Nat, queue : Seq(Ops)]
         /\ QueueOK /\ CountOK /\ op \in [Ops -> OpRecord]
         /\ \A i \in DOMAIN permit.queue : i \in Nat /\ permit.queue[i] \in Ops
         /\ IsFiniteSet(Connecting) /\ Connecting \subseteq Ops
<1>1. Connecting \subseteq Ops
  BY DEF Connecting
<1> QED
  BY <1>1, OpsFinite, FS_Subset DEF IInv, TypeOK

\* An operation that no longer connects gives its permit back.
LEMMA ReleasedNone ==
  ASSUME IInv, NEW o \in Ops, op[o].at = "connecting", NEW x, Fit(o, x), x.at # "connecting",
         x.at # "permit", Waiting = {}, NEW newop, newop = [op EXCEPT ![o] = x], NEW r,
         Released(newop, r)
  PROVE  /\ OpMoved(o, x, {}) /\ QueueOK' /\ CountOK' /\ runtime' = r
         /\ permit' \in [active : Nat, queue : Seq(Ops)]
<1>1. permit' = [active |-> permit.active - 1, queue |-> <<>>] /\ op' = newop /\ runtime' = r
  BY DEF Released
<1>2. /\ permit.queue \in Seq(Ops) /\ permit.active \in Nat /\ QueueOK /\ CountOK /\ op \in [Ops -> OpRecord]
      /\ IsFiniteSet(Connecting) /\ Connecting \subseteq Ops
  BY PermitFacts
<1>3. OpMoved(o, x, {})
  BY <1>1, <1>2 DEF OpMoved, Fit
<1>4. Connecting' = Connecting \ {o} /\ o \in Connecting
  BY <1>3 DEF Connecting, OpMoved
<1>5. Cardinality(Connecting') = permit.active - 1 /\ permit.active - 1 \in Nat
  <2>1. IsFiniteSet(Connecting \ {o}) /\ Cardinality(Connecting \ {o}) = Cardinality(Connecting) - 1
    BY <1>2, <1>4, FS_RemoveElement
  <2>2. Cardinality(Connecting \ {o}) \in Nat /\ Cardinality(Connecting) = permit.active
    BY <1>2, <2>1, FS_CardinalityType DEF CountOK
  <2> QED
    BY <1>4, <2>1, <2>2
<1>6. permit'.active = permit.active - 1 /\ permit'.queue = <<>> /\ DOMAIN permit'.queue = {}
  BY <1>1
<1>7. QueueOK'
  <2>1. ASSUME NEW u \in Ops, op'[u].at = "permit", op'[u].st = "running" PROVE FALSE
    <3>1. u # o /\ op[u].at = "permit" /\ Running(u)
      BY <1>3, <2>1 DEF OpMoved, Running
    <3> QED
      BY <1>2, <3>1 DEF QueueOK, Waiting, Running
  <2> QED
    BY <1>6, <2>1 DEF QueueOK, Running
<1>8. CountOK'
  <2>1. Waiting' = {}
    BY <1>6 DEF Waiting
  <2>2. permit.active - 1 <= MaxConcurrency
    BY <1>2, ConnectionAssumption DEF CountOK
  <2> QED
    BY <1>5, <1>6, <2>1, <2>2 DEF CountOK
<1>9. permit' \in [active : Nat, queue : Seq(Ops)]
  BY <1>1, <1>5
<1> QED
  BY <1>1, <1>3, <1>7, <1>8, <1>9

LEMMA QueueTail ==
  ASSUME NEW q \in Seq(Ops), NEW i \in DOMAIN q
  PROVE  LET rest == SubSeq(q, i + 1, Len(q))
         IN /\ rest \in Seq(Ops) /\ DOMAIN rest = 1..(Len(q) - i)
            /\ \A k \in DOMAIN rest : k \in Nat /\ i + k \in DOMAIN q /\ rest[k] = q[i + k]
            /\ \A k \in DOMAIN q : k > i => k - i \in DOMAIN rest /\ rest[k - i] = q[k]
<1> DEFINE rest == SubSeq(q, i + 1, Len(q))
<1>1. Len(q) \in Nat /\ DOMAIN q = 1..Len(q) /\ i \in 1..Len(q) /\ i + 1 \in Int
  OBVIOUS
<1>2. /\ rest \in Seq(Ops) /\ Len(rest) = Len(q) - i
      /\ \A k \in 1..Len(rest) : rest[k] = q[i + k]
  BY <1>1
<1>3. DOMAIN rest = 1..Len(rest)
  BY <1>2
<1> HIDE DEF rest
<1>4. \A k \in DOMAIN rest : k \in Nat /\ i + k \in DOMAIN q /\ rest[k] = q[i + k]
  BY <1>1, <1>2, <1>3
<1>5. ASSUME NEW k \in DOMAIN q, k > i PROVE k - i \in DOMAIN rest /\ rest[k - i] = q[k]
  <2>1. k - i \in 1..Len(rest) /\ i + (k - i) = k
    BY <1>1, <1>2, <1>5
  <2> QED
    BY <1>2, <1>3, <2>1
<1> QED
  BY <1>2, <1>3, <1>4, <1>5 DEF rest

\* It passes its permit to the operation that has waited longest.
LEMMA ReleasedTo ==
  ASSUME IInv, NEW o \in Ops, op[o].at = "connecting", NEW x, Fit(o, x), x.at # "connecting",
         x.at # "permit", Waiting # {}, NEW newop, newop = [op EXCEPT ![o] = x], NEW r,
         Released(newop, r)
  PROVE  /\ QueueOK' /\ CountOK' /\ permit' \in [active : Nat, queue : Seq(Ops)]
         /\ \E w \in Ops : OpMoved(o, x, {w}) /\ runtime' = Begun(r, w)
<1> DEFINE i == Min(Waiting)
           q == permit.queue
           w == q[i]
           rest == SubSeq(q, i + 1, Len(q))
<1>1. /\ permit' = [permit EXCEPT !.queue = rest] /\ op' = [newop EXCEPT ![w].at = "connecting"]
      /\ runtime' = Begun(r, w)
  BY DEF Released
<1>2. /\ q \in Seq(Ops) /\ permit \in [active : Nat, queue : Seq(Ops)] /\ QueueOK /\ CountOK
      /\ op \in [Ops -> OpRecord] /\ IsFiniteSet(Connecting) /\ Connecting \subseteq Ops
      /\ \A j \in DOMAIN q : j \in Nat /\ q[j] \in Ops
  BY PermitFacts
<1>3. Waiting \subseteq DOMAIN q /\ Waiting \subseteq Nat
  BY <1>2 DEF Waiting
<1>4. i \in Waiting /\ \A j \in Waiting : i <= j
  BY <1>3, MinOf
<1>5. i \in DOMAIN q /\ i \in Nat /\ w \in Ops /\ Running(w) /\ op[w].at = "permit" /\ w # o
  BY <1>2, <1>3, <1>4 DEF Waiting, QueueOK
<1>6. OpMoved(o, x, {w})
  <2> DEFINE y == [op[w] EXCEPT !.at = "connecting"]
  <2>1. newop[w] = op[w] /\ newop \in [Ops -> OpRecord] /\ newop[o] = x
    BY <1>2, <1>5 DEF Fit
  <2>2. y \in OpRecord /\ y.at = "connecting" /\ y.st = op[w].st
    BY <1>2, <1>5 DEF OpRecord, OpPlaces
  <2>3. op' = [newop EXCEPT ![w] = y]
    BY <1>1, <1>5, <2>1
  <2> HIDE DEF y, w
  <2>4. op' \in [Ops -> OpRecord] /\ op'[o] = x /\ op'[w] = y
    BY <1>5, <2>1, <2>2, <2>3
  <2>5. \A u \in Ops : u # o /\ u # w => op'[u] = op[u]
    BY <1>2, <1>5, <2>1, <2>3
  <2> QED
    BY <1>5, <2>2, <2>4, <2>5 DEF OpMoved
<1>7. /\ rest \in Seq(Ops) /\ DOMAIN rest = 1..(Len(q) - i)
      /\ \A k \in DOMAIN rest : k \in Nat /\ i + k \in DOMAIN q /\ rest[k] = q[i + k]
      /\ \A k \in DOMAIN q : k > i => k - i \in DOMAIN rest /\ rest[k - i] = q[k]
  BY <1>2, <1>5, QueueTail
<1> HIDE DEF i, q, w, rest
<1>8. permit'.queue = rest /\ permit'.active = permit.active /\ permit' \in [active : Nat, queue : Seq(Ops)]
  BY <1>1, <1>2, <1>7
<1>9. Connecting' = (Connecting \ {o}) \cup {w} /\ o \in Connecting /\ w \notin Connecting
  <2>1. ASSUME NEW u \in Ops
        PROVE  op'[u].at = "connecting" <=> u = w \/ (u # o /\ op[u].at = "connecting")
    BY <1>5, <1>6, <2>1 DEF OpMoved
  <2> QED
    BY <1>5, <2>1 DEF Connecting
<1>10. Cardinality(Connecting') = permit.active
  <2>1. /\ IsFiniteSet(Connecting \ {o}) /\ Cardinality(Connecting \ {o}) = Cardinality(Connecting) - 1
        /\ w \notin Connecting \ {o} /\ Cardinality(Connecting) \in Nat
    BY <1>2, <1>9, FS_RemoveElement, FS_CardinalityType
  <2>2. Cardinality((Connecting \ {o}) \cup {w}) = Cardinality(Connecting \ {o}) + 1
    BY <2>1, FS_AddElement
  <2> QED
    BY <1>2, <1>9, <2>1, <2>2 DEF CountOK
<1>11. CountOK'
  <2>1. permit.active = MaxConcurrency
    BY <1>2, <1>4 DEF CountOK
  <2> QED
    BY <1>2, <1>8, <1>10, <2>1 DEF CountOK
<1>12. QueueOK'
  <2>1. ASSUME NEW k \in DOMAIN rest PROVE op'[rest[k]].at = "permit"
    <3>1. i + k \in DOMAIN q /\ rest[k] = q[i + k] /\ i + k # i
      BY <1>5, <1>7
    <3>2. rest[k] \in Ops /\ op[rest[k]].at = "permit" /\ rest[k] # w
      BY <1>2, <1>5, <3>1 DEF QueueOK, q, w
    <3> QED
      BY <1>6, <3>2 DEF OpMoved
  <2>2. ASSUME NEW k \in DOMAIN rest, NEW j \in DOMAIN rest, rest[k] = rest[j] PROVE k = j
    <3>1. i + k = i + j
      BY <1>2, <1>7, <2>2 DEF QueueOK, q
    <3> QED
      BY <1>5, <1>7, <3>1
  <2>3. ASSUME NEW u \in Ops, op'[u].at = "permit", op'[u].st = "running"
        PROVE  \E k \in DOMAIN rest : rest[k] = u
    <3>1. u # o /\ u # w /\ op[u].at = "permit" /\ Running(u)
      BY <1>6, <2>3 DEF OpMoved, Running
    <3>2. PICK k \in DOMAIN q : q[k] = u
      BY <1>2, <3>1 DEF QueueOK, q
    <3>3. k \in Waiting /\ k # i
      BY <3>1, <3>2 DEF Waiting, q, w
    <3>4. k > i
      BY <1>2, <1>4, <1>5, <3>3
    <3> QED
      BY <1>7, <3>2, <3>4
  <2> QED
    BY <1>8, <2>1, <2>2, <2>3 DEF QueueOK, Running
<1> QED
  BY <1>1, <1>5, <1>6, <1>8, <1>11, <1>12

\* Together: a connecting operation becomes x, and the runtimes are left as r
\* before the permit is passed on.
LEMMA ReleaseStep ==
  ASSUME IInv, NEW o \in Ops, op[o].at = "connecting", NEW x, Fit(o, x), x.at # "connecting",
         x.at # "permit", NEW newop, newop = [op EXCEPT ![o] = x],
         NEW r \in RuntimeRecord, Fewer(r, o),
         r.session[PluginOf(o)] = o => x.at = "reading" \/ x.st = "completed",
         o \notin r.trying \/ r.owner[PluginOf(o)] # o,
         Released(newop, r), UNCHANGED <<plan, jobs, disk, seen>>, view' \in View
  PROVE  IInv'
<1>1. CASE Waiting = {}
  <2>1. /\ OpMoved(o, x, {}) /\ QueueOK' /\ CountOK' /\ runtime' = r
        /\ permit' \in [active : Nat, queue : Seq(Ops)]
    BY <1>1, ReleasedNone
  <2>2. RuntimeOK' /\ runtime' \in RuntimeRecord
    BY <2>1, RuntimeMoved
  <2> QED
    BY <2>1, <2>2, OpStepOf
<1>2. CASE Waiting # {}
  <2>1. /\ QueueOK' /\ CountOK' /\ permit' \in [active : Nat, queue : Seq(Ops)]
        /\ \E w \in Ops : OpMoved(o, x, {w}) /\ runtime' = Begun(r, w)
    BY <1>2, ReleasedTo
  <2>2. PICK w \in Ops : OpMoved(o, x, {w}) /\ runtime' = Begun(r, w)
    BY <2>1
  <2>3. RuntimeOK' /\ runtime' \in RuntimeRecord
    BY <2>2, RuntimeBegun
  <2> QED
    BY <2>1, <2>2, <2>3, OpStepOf
<1> QED
  BY <1>1, <1>2

\* An operation moves that neither has nor waits for a permit.
LEMMA OtherStep ==
  ASSUME IInv, NEW o \in Ops, op[o].at \notin {"connecting", "permit"}, NEW x, Fit(o, x),
         x.at \notin {"connecting", "permit"}, op' = [op EXCEPT ![o] = x],
         \/ runtime' = Drop(runtime, {PluginOf(o)})
         \/ runtime' = runtime /\ (op[o].at # "reading" \/ x.st = "completed"),
         UNCHANGED <<plan, permit, jobs, disk, seen>>, view' \in View
  PROVE  IInv'
<1>1. /\ op \in [Ops -> OpRecord] /\ runtime \in RuntimeRecord /\ RuntimeOK /\ LiveOK
      /\ PluginOf(o) \in Plugins /\ None \notin Ops
  BY OpsPairs DEF IInv, TypeOK, RuntimeRecord, LiveOK
<1>2. OpMoved(o, x, {})
  BY <1>1 DEF OpMoved, Fit
<1>3. QueueOK' /\ CountOK'
  <2>1. ASSUME NEW u \in Ops
        PROVE  /\ op'[u].at = "connecting" <=> op[u].at = "connecting"
               /\ op'[u].at = "permit" <=> op[u].at = "permit"
               /\ op'[u].st = "running" => op[u].st = "running"
    BY <1>2 DEF OpMoved, Fit
  <2> QED
    BY <2>1, PermitsKept
<1>4. permit' \in [active : Nat, queue : Seq(Ops)]
  BY PermitFacts
<1>5. op[o].st \in {"running", "cancelling"} /\ TryOK(o) /\ SessionOK(PluginOf(o))
  BY <1>1 DEF Fit, LiveOK, RuntimeOK
<1>6. /\ runtime' \in RuntimeRecord /\ Fewer(runtime', o)
      /\ runtime'.session[PluginOf(o)] = o => x.at = "reading" \/ x.st = "completed"
      /\ o \notin runtime'.trying \/ runtime'.owner[PluginOf(o)] # o
  <2>1. CASE runtime' = runtime /\ (op[o].at # "reading" \/ x.st = "completed")
    BY <1>1, <1>5, <2>1 DEF Fewer, TryOK, SessionOK
  <2>2. CASE runtime' = Drop(runtime, {PluginOf(o)})
    BY <1>1, <2>2, DropOf DEF Fewer
  <2> QED
    BY <2>1, <2>2
<1>7. RuntimeOK'
  BY <1>2, <1>6, RuntimeMoved
<1> QED
  BY <1>2, <1>3, <1>4, <1>6, <1>7, OpStepOf

\* The queue without one of its operations.
LEMMA RemovedOf ==
  ASSUME NEW q \in Seq(Ops), \A i, j \in DOMAIN q : q[i] = q[j] => i = j, NEW o \in Ops
  PROVE  LET s == RemoveFirst(q, o)
         IN /\ s \in Seq(Ops)
            /\ \A k \in DOMAIN s : s[k] # o /\ \E i \in DOMAIN q : q[i] = s[k]
            /\ \A k, j \in DOMAIN s : s[k] = s[j] => k = j
            /\ \A i \in DOMAIN q : q[i] # o => \E k \in DOMAIN s : s[k] = q[i]
<1> DEFINE s == RemoveFirst(q, o)
<1>1. Len(q) \in Nat /\ DOMAIN q = 1..Len(q)
  OBVIOUS
<1>2. CASE ~\E i \in 1..Len(q) : q[i] = o
  <2>1. s = q
    BY <1>2 DEF RemoveFirst
  <2> HIDE DEF s
  <2> QED
    BY <1>1, <1>2, <2>1 DEF s
<1>3. CASE \E i \in 1..Len(q) : q[i] = o
  <2> DEFINE I == {i \in 1..Len(q) : q[i] = o}
             m == Min(I)
             a == SubSeq(q, 1, m - 1)
             b == SubSeq(q, m + 1, Len(q))
  <2>1. I \subseteq Nat /\ I # {}
    BY <1>3
  <2>2. s = a \o b
    BY <1>3 DEF RemoveFirst, RemoveAt, SelectInSeq
  <2>3. m \in I
    BY <2>1, MinOf
  <2> HIDE DEF m
  <2>4. m \in 1..Len(q) /\ q[m] = o
    BY <2>3
  <2>5. /\ a \in Seq(Ops) /\ Len(a) = m - 1
        /\ \A k \in 1..(m - 1) : a[k] = q[k]
    BY <1>1, <2>4
  <2>b. /\ b \in Seq(Ops) /\ DOMAIN b = 1..(Len(q) - m)
        /\ \A k \in DOMAIN b : b[k] = q[m + k]
    BY <1>1, <2>4, QueueTail
  <2> HIDE DEF a, b, I, s
  <2>c. Len(b) = Len(q) - m
    BY <1>1, <2>4, <2>b
  <2>d. /\ s \in Seq(Ops) /\ Len(s) = Len(q) - 1
        /\ \A k \in 1..(Len(q) - 1) : s[k] = IF k <= m - 1 THEN a[k] ELSE b[k - (m - 1)]
    <3>1. /\ s \in Seq(Ops) /\ Len(s) = Len(a) + Len(b)
          /\ \A k \in 1..(Len(a) + Len(b)) : s[k] = IF k <= Len(a) THEN a[k] ELSE b[k - Len(a)]
      <4>1. /\ a \o b \in Seq(Ops) /\ Len(a \o b) = Len(a) + Len(b)
            /\ \A k \in 1..(Len(a) + Len(b)) : (a \o b)[k] = IF k <= Len(a) THEN a[k] ELSE b[k - Len(a)]
        BY <2>5, <2>b, ConcatProperties, ZenonT(40)
      <4> QED
        BY <2>2, <4>1, ZenonT(40)
    <3>2. Len(a) + Len(b) = Len(q) - 1 /\ Len(a) = m - 1
      BY <1>1, <2>4, <2>5, <2>c
    <3> QED
      BY <3>1, <3>2
  <2>e. ASSUME NEW k \in 1..(Len(q) - 1) PROVE s[k] = IF k < m THEN q[k] ELSE q[k + 1]
    <3>1. CASE k < m
      <4>1. k \in 1..(m - 1)
        BY <1>1, <2>4, <3>1
      <4> QED
        BY <2>4, <2>5, <2>d, <3>1, <4>1
    <3>2. CASE ~(k < m)
      <4>1. k - (m - 1) \in DOMAIN b /\ m + (k - (m - 1)) = k + 1 /\ ~(k <= m - 1)
        BY <1>1, <2>4, <2>b, <3>2
      <4> QED
        BY <2>b, <2>d, <3>2, <4>1
    <3> QED
      BY <3>1, <3>2
  <2>6. /\ s \in Seq(Ops) /\ Len(s) = Len(q) - 1 /\ DOMAIN s = 1..(Len(q) - 1)
        /\ \A k \in DOMAIN s : s[k] = IF k < m THEN q[k] ELSE q[k + 1]
    BY <2>d, <2>e
  <2> DEFINE at(k) == IF k < m THEN k ELSE k + 1
  <2>7. \A k \in DOMAIN s : /\ at(k) \in DOMAIN q /\ at(k) # m /\ s[k] = q[at(k)]
                            /\ \A j \in DOMAIN s : at(k) = at(j) => k = j
    BY <1>1, <2>4, <2>6
  <2>8. \A i \in DOMAIN q : i # m => \E k \in DOMAIN s : at(k) = i
    <3>1. ASSUME NEW i \in DOMAIN q, i < m PROVE i \in DOMAIN s /\ at(i) = i
      BY <1>1, <2>4, <2>6, <3>1
    <3>2. ASSUME NEW i \in DOMAIN q, i > m PROVE i - 1 \in DOMAIN s /\ at(i - 1) = i
      BY <1>1, <2>4, <2>6, <3>2
    <3>3. \A i \in DOMAIN q : i # m => i < m \/ i > m
      BY <1>1, <2>4
    <3> HIDE DEF at
    <3> QED
      BY <3>1, <3>2, <3>3
  <2> HIDE DEF at
  <2>9. \A k \in DOMAIN s : s[k] # o /\ \E i \in DOMAIN q : q[i] = s[k]
    BY <1>1, <2>4, <2>7
  <2>10. \A k, j \in DOMAIN s : s[k] = s[j] => k = j
    BY <2>7
  <2>11. \A i \in DOMAIN q : q[i] # o => \E k \in DOMAIN s : s[k] = q[i]
    BY <2>4, <2>7, <2>8
  <2> QED
    BY <2>6, <2>9, <2>10, <2>11 DEF s
<1> QED
  BY <1>2, <1>3

LEMMA EndedFit ==
  ASSUME IInv, NEW o \in Ops, Live(o), NEW st \in {"completed", "failed", "cancelled"}
  PROVE  Fit(o, Ended(st)) /\ Ended(st).at = "none" /\ Ended(st).st = st
<1>1. st \in OpStates
  BY DEF OpStates
<1>2. Ended(st) \in OpRecord /\ Ended(st).st = st /\ Ended(st).at = "none"
  BY <1>1, EndedType
<1> QED
  BY <1>2 DEF Fit

LEMMA LiveAt ==
  ASSUME IInv, NEW o \in Ops
  PROVE  /\ op[o] \in OpRecord /\ (Live(o) <=> op[o].st \in {"running", "cancelling"})
         /\ TryOK(o) /\ PluginOf(o) \in Plugins /\ SessionOK(PluginOf(o))
         /\ runtime \in RuntimeRecord /\ None \notin Ops
BY OpsPairs DEF IInv, TypeOK, RuntimeOK, RuntimeRecord

LEMMA AbortedEndsStep ==
  ASSUME IInv, NEW o \in Ops, AbortedEnds(o)
  PROVE  IInv'
<1> DEFINE x == Ended("cancelled")
           newop == [op EXCEPT ![o] = x]
<1>1. /\ op[o].st = "cancelling" /\ op[o].at \in {"permit", "connecting"} /\ view' = CancelledView(o)
      /\ IF op[o].at = "permit"
         THEN /\ permit' = [permit EXCEPT !.queue = RemoveFirst(@, o)]
              /\ op' = newop /\ UNCHANGED runtime
         ELSE Released(newop, runtime)
      /\ UNCHANGED <<plan, jobs, disk, seen>>
  BY DEF AbortedEnds, OpMoves
<1>2. Fit(o, x) /\ x.at = "none" /\ x.st = "cancelled" /\ Live(o)
  BY <1>1, EndedFit DEF Live
<1>3. view' \in View
  BY <1>1, CancelledViewType DEF IInv
<1>4. /\ TryOK(o) /\ PluginOf(o) \in Plugins /\ SessionOK(PluginOf(o)) /\ runtime \in RuntimeRecord
      /\ None \notin Ops
  BY LiveAt
<1> HIDE DEF x
<1>5. /\ Fewer(runtime, o) /\ runtime.session[PluginOf(o)] # o
      /\ o \notin runtime.trying \/ runtime.owner[PluginOf(o)] # o
  BY <1>1, <1>4 DEF Fewer, TryOK, SessionOK, Running
<1>6. CASE op[o].at = "connecting"
  <2>1. Released(newop, runtime)
    BY <1>1, <1>6
  <2> HIDE DEF newop
  <2> QED
    BY <1>1, <1>2, <1>3, <1>4, <1>5, <1>6, <2>1, ReleaseStep DEF newop
<1>7. CASE op[o].at = "permit"
  <2> DEFINE s == RemoveFirst(permit.queue, o)
  <2>1. permit' = [permit EXCEPT !.queue = s] /\ op' = newop /\ runtime' = runtime
    BY <1>1, <1>7
  <2>2. /\ permit.queue \in Seq(Ops) /\ QueueOK /\ CountOK /\ op \in [Ops -> OpRecord]
        /\ permit \in [active : Nat, queue : Seq(Ops)]
        /\ \A i \in DOMAIN permit.queue : permit.queue[i] \in Ops
    BY PermitFacts
  <2>3. /\ s \in Seq(Ops)
        /\ \A k \in DOMAIN s : s[k] # o /\ \E i \in DOMAIN permit.queue : permit.queue[i] = s[k]
        /\ \A k, j \in DOMAIN s : s[k] = s[j] => k = j
        /\ \A i \in DOMAIN permit.queue : permit.queue[i] # o => \E k \in DOMAIN s : s[k] = permit.queue[i]
    BY <2>2, RemovedOf DEF QueueOK
  <2> HIDE DEF s
  <2>4. permit'.queue = s /\ permit'.active = permit.active /\ permit' \in [active : Nat, queue : Seq(Ops)]
    BY <2>1, <2>2, <2>3
  <2>5. OpMoved(o, x, {})
    BY <1>2, <2>1, <2>2 DEF OpMoved, Fit
  <2>6. QueueOK'
    <3>1. ASSUME NEW k \in DOMAIN s PROVE op'[s[k]].at = "permit"
      <4>1. PICK i \in DOMAIN permit.queue : permit.queue[i] = s[k]
        BY <2>3
      <4>2. s[k] \in Ops /\ s[k] # o /\ op[s[k]].at = "permit"
        BY <2>2, <2>3, <4>1 DEF QueueOK
      <4> QED
        BY <2>5, <4>2 DEF OpMoved
    <3>2. ASSUME NEW u \in Ops, op'[u].at = "permit", op'[u].st = "running"
          PROVE  \E k \in DOMAIN s : s[k] = u
      <4>1. u # o /\ op[u].at = "permit" /\ Running(u)
        BY <1>2, <2>5, <3>2 DEF OpMoved, Running
      <4> QED
        BY <2>2, <2>3, <4>1 DEF QueueOK
    <3> QED
      BY <2>3, <2>4, <3>1, <3>2 DEF QueueOK, Running
  <2>7. CountOK'
    <3>1. Connecting' = Connecting
      BY <1>2, <1>7, <2>5 DEF OpMoved, Connecting
    <3>2. Waiting' # {} => Waiting # {}
      <4>1. ASSUME NEW k \in DOMAIN s, op'[s[k]].st = "running" PROVE Waiting # {}
        <5>1. PICK i \in DOMAIN permit.queue : permit.queue[i] = s[k]
          BY <2>3
        <5>2. op[s[k]].st = "running"
          BY <2>2, <2>3, <2>5, <4>1, <5>1 DEF OpMoved
        <5> QED
          BY <5>1, <5>2 DEF Waiting, Running
      <4> QED
        BY <2>4, <4>1 DEF Waiting, Running
    <3> QED
      BY <2>2, <2>4, <3>1, <3>2 DEF CountOK
  <2>8. RuntimeOK' /\ runtime' \in RuntimeRecord
    BY <1>4, <1>5, <2>1, <2>5, RuntimeMoved
  <2> QED
    BY <1>1, <1>2, <1>3, <2>4, <2>5, <2>6, <2>7, <2>8, OpStepOf
<1> QED
  BY <1>1, <1>6, <1>7

LEMMA AtSet ==
  ASSUME NEW r \in OpRecord, NEW a \in OpPlaces
  PROVE  LET x == [r EXCEPT !.at = a] IN x \in OpRecord /\ x.at = a /\ x.st = r.st
BY DEF OpRecord

LEMMA MovedFit ==
  ASSUME IInv, NEW o \in Ops, Live(o), NEW a \in OpPlaces \ {"none"}
  PROVE  LET x == [op[o] EXCEPT !.at = a] IN Fit(o, x) /\ x.at = a /\ x.st = op[o].st
<1> DEFINE x == [op[o] EXCEPT !.at = a]
<1>1. op[o] \in OpRecord /\ op[o].st \in {"running", "cancelling"}
  BY LiveAt
<1>2. x \in OpRecord /\ x.at = a /\ x.st = op[o].st
  BY <1>1, AtSet
<1> HIDE DEF x
<1> QED
  BY <1>1, <1>2 DEF Fit, x

LEMMA DriverConnectsStep ==
  ASSUME IInv, NEW o \in Ops, DriverConnects(o)
  PROVE  IInv'
<1> DEFINE p == PluginOf(o)
           x == [op[o] EXCEPT !.at = "reading"]
           r == [runtime EXCEPT !.session[p] = o, !.trying = @ \ {o}]
<1>1. /\ op[o].at = "connecting" /\ runtime.owner[p] = o
      /\ Released([op EXCEPT ![o].at = "reading"], r)
      /\ UNCHANGED <<plan, view, jobs, disk, seen>>
  BY DEF DriverConnects
<1>2. op \in [Ops -> OpRecord] /\ Live(o) /\ runtime \in RuntimeRecord /\ p \in Plugins
  BY <1>1, PermitFacts, LiveAt DEF Live
<1>3. Fit(o, x) /\ x.at = "reading" /\ x.st = op[o].st
  BY <1>2, MovedFit DEF OpPlaces
<1>4. [op EXCEPT ![o].at = "reading"] = [op EXCEPT ![o] = x]
  BY <1>2
<1>5. /\ r \in RuntimeRecord /\ r.owner = runtime.owner /\ r.trying = runtime.trying \ {o}
      /\ \A q \in Plugins : r.session[q] = IF q = p THEN o ELSE runtime.session[q]
  <2> DEFINE f == [runtime.session EXCEPT ![p] = o]
             t == runtime.trying \ {o}
  <2>1. /\ f \in [Plugins -> Ops \cup {None}] /\ t \in SUBSET Ops
        /\ \A q \in Plugins : f[q] = IF q = p THEN o ELSE runtime.session[q]
    BY <1>2 DEF RuntimeRecord
  <2>2. r = [runtime EXCEPT !.session = f, !.trying = t]
    BY <1>2 DEF RuntimeRecord
  <2> HIDE DEF r, f, p
  <2>3. r \in RuntimeRecord /\ r.owner = runtime.owner /\ r.trying = t /\ r.session = f
    BY <1>2, <2>1, <2>2 DEF RuntimeRecord
  <2> QED
    BY <2>1, <2>3
<1> HIDE DEF r, x
<1>6. Fewer(r, o)
  BY <1>2, <1>5 DEF Fewer
<1>7. view' \in View
  BY <1>1 DEF IInv, TypeOK
<1>8. o \notin r.trying
  BY <1>5
<1> DEFINE newop == [op EXCEPT ![o] = x]
<1>9. Released(newop, r)
  BY <1>1, <1>4
<1> HIDE DEF newop
<1> QED
  BY <1>1, <1>3, <1>5, <1>6, <1>7, <1>8, <1>9, ReleaseStep DEF newop

LEMMA TryingSet ==
  ASSUME NEW r \in RuntimeRecord, NEW t \in SUBSET Ops
  PROVE  LET x == [r EXCEPT !.trying = t]
         IN x \in RuntimeRecord /\ x.trying = t /\ x.owner = r.owner /\ x.session = r.session
BY DEF RuntimeRecord

LEMMA DriverFailsStep ==
  ASSUME IInv, NEW o \in Ops, DriverFails(o)
  PROVE  IInv'
<1>1. PICK ph \in {"error", "fatal"}, goesOn \in BOOLEAN :
        /\ view' = ErrorView(o, ph)
        /\ Released([op EXCEPT ![o] = Ended("failed")],
                    [Drop(runtime, {PluginOf(o)}) EXCEPT !.trying = IF goesOn THEN @ ELSE @ \ {o}])
  BY DEF DriverFails
<1>2. op[o].at = "connecting" /\ UNCHANGED <<plan, jobs, disk, seen>>
  BY DEF DriverFails
<1> DEFINE x == Ended("failed")
           newop == [op EXCEPT ![o] = x]
           d == Drop(runtime, {PluginOf(o)})
           t == IF goesOn THEN d.trying ELSE d.trying \ {o}
           r == [d EXCEPT !.trying = t]
<1>3. Fit(o, x) /\ x.at = "none"
  BY <1>2, EndedFit DEF Live
<1>4. runtime \in RuntimeRecord /\ PluginOf(o) \in Plugins /\ None \notin Ops
  BY LiveAt
<1>5. /\ d \in RuntimeRecord /\ d.trying = runtime.trying
      /\ \A q \in Plugins : /\ d.owner[q] = IF q \in {PluginOf(o)} THEN None ELSE runtime.owner[q]
                            /\ d.session[q] = IF q \in {PluginOf(o)} THEN None ELSE runtime.session[q]
  BY <1>4, DropOf
<1>6. Released(newop, r)
  BY <1>1
<1>7. view' \in View
  BY <1>1, ErrorViewType DEF IInv, Phases
<1> HIDE DEF x, newop, d
<1>8. t \in SUBSET Ops /\ t \subseteq runtime.trying
  BY <1>5 DEF RuntimeRecord
<1> HIDE DEF t
<1>9. r \in RuntimeRecord /\ r.trying = t /\ r.owner = d.owner /\ r.session = d.session
  BY <1>5, <1>8, TryingSet
<1> HIDE DEF r
<1>10. Fewer(r, o) /\ r.session[PluginOf(o)] # o /\ r.owner[PluginOf(o)] # o
  BY <1>4, <1>5, <1>8, <1>9 DEF Fewer
<1> QED
  BY <1>2, <1>3, <1>6, <1>7, <1>9, <1>10, ReleaseStep DEF newop

LEMMA DriverDisownedStep ==
  ASSUME IInv, NEW o \in Ops, DriverDisowned(o)
  PROVE  IInv'
<1> DEFINE t == runtime.trying \ {o}
           r == [runtime EXCEPT !.trying = t]
           waits == Running(o) /\ op[o].at = "connecting"
<1>1. /\ UNCHANGED <<plan, jobs, disk, seen>>
      /\ \/ ~waits /\ runtime' = r /\ UNCHANGED <<op, permit, view>>
         \/ /\ waits /\ view' = CancelledView(o)
            /\ Released([op EXCEPT ![o] = Ended("cancelled")], r)
  BY DEF DriverDisowned
<1>2. runtime \in RuntimeRecord /\ TryOK(o) /\ SessionOK(PluginOf(o)) /\ PluginOf(o) \in Plugins
  BY LiveAt
<1>3. t \in SUBSET Ops /\ t \subseteq runtime.trying /\ o \notin t
  BY <1>2 DEF RuntimeRecord
<1> HIDE DEF t
<1>4. r \in RuntimeRecord /\ r.trying = t /\ r.owner = runtime.owner /\ r.session = runtime.session
  BY <1>2, <1>3, TryingSet
<1> HIDE DEF r
<1>5. Fewer(r, o) /\ o \notin r.trying
  BY <1>3, <1>4 DEF Fewer
<1>6. CASE waits /\ view' = CancelledView(o) /\ Released([op EXCEPT ![o] = Ended("cancelled")], r)
  <2> DEFINE x == Ended("cancelled")
             newop == [op EXCEPT ![o] = x]
  <2>1. Fit(o, x) /\ x.at = "none"
    BY <1>6, EndedFit DEF Live
  <2>2. view' \in View
    BY <1>6, CancelledViewType DEF IInv
  <2>3. r.session[PluginOf(o)] # o
    BY <1>2, <1>4, <1>6, OpsPairs DEF SessionOK, Running
  <2>4. Released(newop, r)
    BY <1>6
  <2> HIDE DEF x, newop
  <2> QED
    BY <1>1, <1>4, <1>5, <1>6, <2>1, <2>2, <2>3, <2>4, ReleaseStep DEF newop
<1>7. CASE ~waits /\ runtime' = r /\ UNCHANGED <<op, permit, view>>
  <2>1. TypeOK /\ RuntimeOK
    BY DEF IInv
  <2>2. KeepsPlans /\ Steady
    BY <1>1, <1>7, <2>1, SamePlans, SteadyOps
  <2>3. RuntimeOK'
    <3>1. ASSUME NEW p \in Plugins PROVE SessionOK(p)'
      BY <1>4, <1>7, <2>1 DEF RuntimeOK, SessionOK
    <3>2. ASSUME NEW u \in Ops PROVE TryOK(u)'
      BY <1>3, <1>4, <1>7, <2>1 DEF RuntimeOK, TryOK, Running
    <3> QED
      BY <3>1, <3>2 DEF RuntimeOK
  <2>4. LiveOK' /\ OneOp'
    BY <1>7 DEF IInv, TypeOK, LiveOK, Live, OneOp
  <2>5. NodesOK'
    <3>1. ASSUME NEW l \in Plans, NEW p \in Plugins PROVE NodeOK(l, p)'
      BY <1>1, <1>7, PlanRecords DEF NodeOK, Going, Live
    <3> QED
      BY <3>1 DEF NodesOK
  <2>6. QueueOK' /\ CountOK'
    BY <1>7, PermitsKept
  <2>7. seen' \in [made : Nat, lost : Nat] /\ seen'.made \in Nat /\ seen'.made >= seen.made
    BY <1>1, <2>1, SeenSame
  <2>8. FencesOK' /\ JobsOK' /\ jobs' \in Seq(JobRecord)
    BY <1>1, <2>2, <2>7, FencesSame
  <2>9. /\ plan' \in [Plans -> PlanRecord] /\ op' \in [Ops -> OpRecord] /\ view' \in View
        /\ permit' \in [active : Nat, queue : Seq(Ops)]
        /\ disk' \in [fp : [Plugins -> Nat], saving : Plugins \cup {None}]
    BY <1>1, <1>7, <2>1 DEF TypeOK
  <2> QED
    BY <1>4, <1>7, <2>3, <2>4, <2>5, <2>6, <2>7, <2>8, <2>9, Together DEF Rest
<1> QED
  BY <1>1, <1>6, <1>7

LEMMA ReadBackStep ==
  ASSUME IInv, NEW o \in Ops, ReadBack(o)
  PROVE  IInv'
<1> DEFINE p == PluginOf(o)
           good == ~(op[o].st = "cancelling" \/ disk.fp[p] # op[o].fp)
           a == IF op[o].st = "cancelling" THEN "undoCancelled" ELSE "undoChanged"
           x == Ended("completed")
           y == [op[o] EXCEPT !.at = a]
<1>1. op[o].at = "reading" /\ UNCHANGED <<plan, permit, jobs, disk, seen>>
  BY DEF ReadBack
<1>2. /\ good => /\ view' = Show(view, {p}, "on") /\ op' = [op EXCEPT ![o] = x] /\ runtime' = runtime
      /\ ~good => /\ op' = [op EXCEPT ![o].at = a] /\ runtime' = Drop(runtime, {p}) /\ view' = view
  BY DEF ReadBack
<1>3. Live(o) /\ op \in [Ops -> OpRecord] /\ view \in View
  BY <1>1 DEF Live, IInv, TypeOK
<1>4. Fit(o, x) /\ x.at = "none" /\ x.st = "completed"
  BY <1>3, EndedFit
<1>5. a \in OpPlaces \ {"none", "connecting", "permit"}
  BY DEF OpPlaces
<1> HIDE DEF a, x, good
<1>6. Fit(o, y) /\ y.at = a
  BY <1>3, <1>5, MovedFit
<1>7. CASE good
  <2>1. view' \in View
    BY <1>2, <1>3, <1>7, ShowType DEF Phases
  <2> QED
    BY <1>1, <1>2, <1>4, <1>7, <2>1, OtherStep
<1>8. CASE ~good
  <2>1. op' = [op EXCEPT ![o] = y] /\ view' \in View
    BY <1>2, <1>3, <1>8
  <2> HIDE DEF y
  <2> QED
    BY <1>1, <1>2, <1>5, <1>6, <1>8, <2>1, OtherStep
<1> QED
  BY <1>7, <1>8

LEMMA ReadFailsStep ==
  ASSUME IInv, NEW o \in Ops, ReadFails(o)
  PROVE  IInv'
<1> DEFINE a == IF op[o].st = "cancelling" THEN "undoCancelled" ELSE "undoError"
           y == [op[o] EXCEPT !.at = a]
<1>1. /\ op[o].at = "reading" /\ runtime' = Drop(runtime, {PluginOf(o)})
      /\ op' = [op EXCEPT ![o].at = a] /\ UNCHANGED <<plan, permit, view, jobs, disk, seen>>
  BY DEF ReadFails
<1>2. Live(o) /\ op \in [Ops -> OpRecord] /\ view' \in View
  BY <1>1 DEF Live, IInv, TypeOK
<1>3. a \in OpPlaces \ {"none", "connecting", "permit"}
  BY DEF OpPlaces
<1>4. op' = [op EXCEPT ![o] = y]
  BY <1>1, <1>2
<1> HIDE DEF a
<1>5. Fit(o, y) /\ y.at = a
  BY <1>2, <1>3, MovedFit
<1> HIDE DEF y
<1> QED
  BY <1>1, <1>2, <1>3, <1>4, <1>5, OtherStep

LEMMA UndoneStep ==
  ASSUME IInv, NEW o \in Ops, Undone(o)
  PROVE  IInv'
<1>1. /\ op[o].at \in {"undoCancelled", "undoChanged", "undoError"}
      /\ runtime' \in {runtime, Drop(runtime, {PluginOf(o)})}
      /\ UNCHANGED <<plan, permit, jobs, disk, seen>>
  BY DEF Undone
<1>2. \E st \in {"failed", "cancelled"} : op' = [op EXCEPT ![o] = Ended(st)]
  BY DEF Undone
<1>3. view' \in {ErrorView(o, "changed"), CancelledView(o), ErrorView(o, "error")}
  BY DEF Undone
<1>4. view' \in View
  <2>1. TypeOK /\ "changed" \in Phases /\ "error" \in Phases
    BY DEF IInv, Phases
  <2> QED
    BY <1>3, <2>1, ErrorViewType, CancelledViewType
<1>5. PICK st \in {"failed", "cancelled"} : op' = [op EXCEPT ![o] = Ended(st)]
  BY <1>2
<1> DEFINE x == Ended(st)
<1>6. Fit(o, x) /\ x.at = "none"
  BY <1>1, EndedFit DEF Live
<1>7. op' = [op EXCEPT ![o] = x]
  BY <1>5
<1> HIDE DEF x
<1> QED
  BY <1>1, <1>4, <1>6, <1>7, OtherStep

\* A plugin that nobody works on.
LEMMA AcquiredOf ==
  ASSUME IInv, NEW l \in Plans, NEW p \in Plugins, MayAcquire(l, p), Existing(p, "running") = {}
  PROVE  /\ Going(l) /\ plan[l].node[p].st \in {"ready", "waiting"} /\ op[<<l, p>>].st = "none"
         /\ \A u \in Ops : PluginOf(u) = p => ~Live(u)
<1> DEFINE n == plan[l].node[p]
<1>1. NodeOK(l, p) /\ Going(l) /\ n.st \in {"ready", "waiting"}
  BY PlanRecords DEF MayAcquire, Waited
<1>2. op[<<l, p>>].st = "none"
  BY <1>1 DEF NodeOK
<1>3. ASSUME NEW u \in Ops, PluginOf(u) = p, Live(u) PROVE FALSE
  <2>1. op[u].st \in {"running", "cancelling"}
    BY <1>3, LiveAt
  <2>2. op[u].st # "running"
    BY <1>3 DEF Existing, OpsOn
  <2>3. op[u].st # "cancelling"
    <3>1. CASE Existing(p, "cancelling") = {}
      BY <1>3, <3>1 DEF Existing, OpsOn
    <3>2. CASE Waited(l, p)
      BY <1>1, <1>3, <3>2 DEF NodeOK, Waited
    <3> QED
      BY <3>1, <3>2 DEF MayAcquire
  <2> QED
    BY <2>1, <2>2, <2>3
<1> QED
  BY <1>1, <1>2, <1>3

\* A new operation has its permit at once.
LEMMA PermitTaken ==
  ASSUME IInv, NEW o \in Ops, op[o].at = "none", op[o].st = "none",
         \A u \in Ops : u # o => op'[u] = op[u], op'[o].at = "connecting",
         permit.active < MaxConcurrency, permit' = [permit EXCEPT !.active = @ + 1]
  PROVE  QueueOK' /\ CountOK' /\ permit' \in [active : Nat, queue : Seq(Ops)]
<1>1. /\ permit.queue \in Seq(Ops) /\ permit.active \in Nat /\ QueueOK /\ CountOK
      /\ \A i \in DOMAIN permit.queue : permit.queue[i] \in Ops
      /\ permit \in [active : Nat, queue : Seq(Ops)] /\ IsFiniteSet(Connecting) /\ MaxConcurrency \in Nat
  BY PermitFacts, ConnectionAssumption
<1>2. permit'.active = permit.active + 1 /\ permit'.queue = permit.queue
      /\ permit' \in [active : Nat, queue : Seq(Ops)]
  BY <1>1
<1>3. Connecting' = Connecting \cup {o} /\ o \notin Connecting
  BY DEF Connecting
<1>4. Cardinality(Connecting') = permit.active + 1
  <2>1. Cardinality(Connecting \cup {o}) = Cardinality(Connecting) + 1
    BY <1>1, <1>3, FS_AddElement
  <2> QED
    BY <1>1, <1>3, <2>1 DEF CountOK
<1>5. Waiting = {}
  BY <1>1 DEF CountOK
<1>6. ASSUME NEW i \in DOMAIN permit.queue
      PROVE  op'[permit.queue[i]] = op[permit.queue[i]] /\ op[permit.queue[i]].at = "permit"
  BY <1>1 DEF QueueOK
<1>7. QueueOK'
  <2>1. ASSUME NEW u \in Ops, op'[u].at = "permit", op'[u].st = "running"
        PROVE  \E i \in DOMAIN permit.queue : permit.queue[i] = u
    BY <1>1, <2>1 DEF QueueOK, Running
  <2> QED
    BY <1>1, <1>2, <1>6, <2>1 DEF QueueOK, Running
<1>8. Waiting' = {}
  BY <1>2, <1>5, <1>6 DEF Waiting, Running
<1> QED
  BY <1>1, <1>2, <1>4, <1>7, <1>8 DEF CountOK

\* A new operation waits for its permit.
LEMMA PermitAwaited ==
  ASSUME IInv, NEW o \in Ops, op[o].at = "none", op[o].st = "none",
         \A u \in Ops : u # o => op'[u] = op[u], op'[o].at = "permit",
         ~(permit.active < MaxConcurrency), permit' = [permit EXCEPT !.queue = Append(@, o)]
  PROVE  QueueOK' /\ CountOK' /\ permit' \in [active : Nat, queue : Seq(Ops)]
<1> DEFINE q == permit.queue
           s == Append(q, o)
           z == Len(q) + 1
<1>1. /\ q \in Seq(Ops) /\ permit.active \in Nat /\ QueueOK /\ CountOK
      /\ \A i \in DOMAIN q : q[i] \in Ops
      /\ permit \in [active : Nat, queue : Seq(Ops)] /\ MaxConcurrency \in Nat
  BY PermitFacts, ConnectionAssumption
<1>2. permit.active = MaxConcurrency
  BY <1>1 DEF CountOK
<1>3. /\ s \in Seq(Ops) /\ DOMAIN s = DOMAIN q \cup {z} /\ s[z] = o /\ z \notin DOMAIN q
      /\ \A i \in DOMAIN q : s[i] = q[i]
  BY <1>1
<1>4. permit' = [permit EXCEPT !.queue = s]
  OBVIOUS
<1> HIDE DEF s, z
<1>5. permit'.active = permit.active /\ permit'.queue = s
      /\ permit' \in [active : Nat, queue : Seq(Ops)]
  BY <1>1, <1>3, <1>4
<1>6. Connecting' = Connecting
  BY DEF Connecting
<1>7. ASSUME NEW i \in DOMAIN q
      PROVE  q[i] # o /\ op'[q[i]] = op[q[i]] /\ op[q[i]].at = "permit"
  BY <1>1 DEF QueueOK
<1> HIDE DEF q
<1>8. QueueOK'
  <2>1. \A i \in DOMAIN s : op'[s[i]].at = "permit"
    BY <1>3, <1>7
  <2>2. \A i, j \in DOMAIN s : s[i] = s[j] => i = j
    BY <1>1, <1>3, <1>7 DEF QueueOK, q
  <2>3. ASSUME NEW u \in Ops, op'[u].at = "permit", op'[u].st = "running"
        PROVE  \E i \in DOMAIN s : s[i] = u
    <3>1. CASE u = o
      BY <1>3, <3>1
    <3>2. CASE u # o
      <4>1. PICK i \in DOMAIN q : q[i] = u
        BY <1>1, <2>3, <3>2 DEF QueueOK, Running, q
      <4> QED
        BY <1>3, <4>1
    <3> QED
      BY <3>1, <3>2
  <2> QED
    BY <1>5, <2>1, <2>2, <2>3, SMTT(20) DEF QueueOK, Running
<1> QED
  BY <1>1, <1>2, <1>5, <1>6, <1>8 DEF CountOK

\* Nodes and sessions when an operation of the plugin p starts.
LEMMA StartedNodes ==
  ASSUME IInv, NEW l \in Plans, NEW p \in Plugins, NEW n \in NodeRecord, n.st = "joined",
         Going(l), MovesAlone(l, p, n), op[<<l, p>>].st = "none", op'[<<l, p>>].st = "running",
         \A u \in Ops : u # <<l, p>> => op'[u] = op[u]
  PROVE  /\ NodesOK' /\ plan' \in [Plans -> PlanRecord]
         /\ \A k \in Plans : plan'[k].st = plan[k].st /\ plan'[k].awaits = plan[k].awaits
<1> DEFINE o == <<l, p>>
           r == [plan[l] EXCEPT !.node[p] = n]
<1>1. TypeOK /\ plan[l] \in PlanRecord /\ o \in Ops
  BY PlanRecords, OpsPairs DEF IInv
<1>2. plan' = [plan EXCEPT ![l] = r]
  BY <1>1 DEF MovesAlone, TypeOK
<1>3. /\ r \in PlanRecord /\ r.st = plan[l].st /\ r.awaits = plan[l].awaits /\ r.node[p] = n
      /\ \A q \in Plugins : q # p => r.node[q] = plan[l].node[q]
  BY <1>1, NodeSet DEF NodeRecord
<1> HIDE DEF r, o
<1>4. /\ plan' \in [Plans -> PlanRecord] /\ plan'[l] = r
      /\ \A k \in Plans : k # l => plan'[k] = plan[k]
  BY <1>1, <1>2, <1>3, PlanSet
<1>5. \A k \in Plans : plan'[k].st = plan[k].st /\ plan'[k].awaits = plan[k].awaits
  BY <1>3, <1>4
<1>6. ASSUME NEW k \in Plans, NEW q \in Plugins PROVE NodeOK(k, q)'
  <2>1. CASE k = l /\ q = p
    BY <1>3, <1>4, <2>1 DEF NodeOK, Going, Early
  <2>2. CASE ~(k = l /\ q = p)
    <3> DEFINE m == plan[k].node[q]
    <3>1. plan'[k].node[q] = m /\ NodeOK(k, q)
      BY <1>3, <1>4, <2>2, PlanRecords
    <3>2. <<k, q>> \in Ops /\ <<k, q>> # o
      BY <2>2, OpsPairs DEF o
    <3>3. m.st = "waiting" => m.on \in Ops /\ m.on # o
      BY <3>1 DEF NodeOK, o
    <3>4. \A u \in Ops : op'[u].st = "cancelling" => op[u].st = "cancelling"
      BY DEF o
    <3>5. \A u \in Ops : u # o => op'[u] = op[u]
      BY DEF o
    <3> QED
      BY <1>5, <3>1, <3>2, <3>3, <3>4, <3>5 DEF NodeOK, Live, Going
  <2> QED
    BY <2>1, <2>2
<1> QED
  BY <1>4, <1>5, <1>6 DEF NodesOK

LEMMA StartedRuntime ==
  ASSUME IInv, NEW o \in Ops, op[o].at = "none", op[o].st = "none",
         \A u \in Ops : u # o => op'[u] = op[u], op'[o].st = "running",
         \/ runtime' = Begun(runtime, o) /\ op'[o].at = "connecting"
         \/ runtime' = runtime
  PROVE  RuntimeOK' /\ runtime' \in RuntimeRecord
<1>1. RuntimeOK /\ runtime \in RuntimeRecord
  BY DEF IInv, TypeOK, RuntimeRecord
<1>2. \A p \in Plugins : runtime.session[p] # None =>
        runtime.session[p] # o /\ runtime.session[p] \in Ops
  BY <1>1 DEF RuntimeOK, SessionOK, RuntimeRecord
<1>3. CASE runtime' = runtime
  <2>1. ASSUME NEW p \in Plugins PROVE SessionOK(p)'
    BY <1>1, <1>2, <1>3 DEF RuntimeOK, SessionOK
  <2>2. ASSUME NEW u \in Ops PROVE TryOK(u)'
    BY <1>1, <1>3 DEF RuntimeOK, TryOK, Running
  <2> QED
    BY <1>1, <1>3, <2>1, <2>2 DEF RuntimeOK
<1>4. CASE runtime' = Begun(runtime, o) /\ op'[o].at = "connecting"
  <2>1. /\ runtime' \in RuntimeRecord /\ runtime'.trying = runtime.trying \cup {o}
        /\ runtime'.owner[PluginOf(o)] = o /\ runtime'.session[PluginOf(o)] = None
        /\ \A p \in Plugins : p # PluginOf(o) =>
             runtime'.owner[p] = runtime.owner[p] /\ runtime'.session[p] = runtime.session[p]
    BY <1>1, <1>4, BegunOf
  <2>2. ASSUME NEW p \in Plugins PROVE SessionOK(p)'
    BY <1>1, <1>2, <2>1 DEF RuntimeOK, SessionOK
  <2>3. ASSUME NEW u \in Ops PROVE TryOK(u)'
    <3>1. TryOK(u) /\ PluginOf(u) \in Plugins
      BY <1>1, OpsPairs DEF RuntimeOK
    <3>2. CASE u = o
      BY <1>4, <3>2 DEF TryOK, Running
    <3>3. CASE u # o
      BY <2>1, <3>1, <3>3 DEF TryOK, Running
    <3> QED
      BY <3>2, <3>3
  <2> QED
    BY <2>1, <2>2, <2>3 DEF RuntimeOK
<1> QED
  BY <1>3, <1>4

LEMMA NodeStartsStep ==
  ASSUME IInv, NEW l \in Plans, NEW p \in Plugins, NodeStarts(l, p)
  PROVE  IInv'
<1> DEFINE o == <<l, p>>
           free == permit.active < MaxConcurrency
           a == IF free THEN "connecting" ELSE "permit"
           x == [st |-> "running", subs |-> {l}, fp |-> plan[l].fp[p], at |-> a]
           n == [st |-> "joined", on |-> o]
           f == [view.phase EXCEPT ![p] = "connecting"]
           g == [view.by EXCEPT ![p] = o]
<1>1. /\ MayAcquire(l, p) /\ Existing(p, "running") = {}
      /\ plan' = [plan EXCEPT ![l].node[p] = n] /\ op' = [op EXCEPT ![o] = x]
      /\ permit' = IF free THEN [permit EXCEPT !.active = @ + 1] ELSE [permit EXCEPT !.queue = Append(@, o)]
      /\ runtime' = IF free THEN Begun(runtime, o) ELSE runtime
      /\ view' = [view EXCEPT !.phase = f, !.by = g, !.desired = TRUE]
      /\ UNCHANGED <<jobs, disk, seen>>
  BY DEF NodeStarts
<1>2. /\ o \in Ops /\ PluginOf(o) = p /\ TypeOK /\ OneOp /\ LiveOK /\ plan[l] \in PlanRecord
      /\ op \in [Ops -> OpRecord] /\ view \in View
  BY OpsPairs, PlanRecords DEF IInv, TypeOK, LiveOK
<1>3. /\ Going(l) /\ op[o].st = "none" /\ \A u \in Ops : PluginOf(u) = p => ~Live(u)
  BY <1>1, AcquiredOf
<1>4. op[o].at = "none"
  BY <1>2, <1>3 DEF Live
<1>5. x \in OpRecord /\ x.st = "running" /\ x.at = a /\ a \in {"connecting", "permit"}
  BY <1>2 DEF PlanRecord, OpRecord, OpStates, OpPlaces
<1>6. MovesAlone(l, p, n) /\ n \in NodeRecord /\ n.st = "joined"
  BY <1>1, <1>2 DEF MovesAlone, NodeRecord, NodeStates
<1>7. view' \in View
  <2>1. f \in [Plugins -> Phases] /\ g \in [Plugins -> Ops \cup {None}]
    BY <1>2 DEF View, Phases
  <2> HIDE DEF f, g
  <2> QED
    BY <1>1, <1>2, <2>1 DEF View
<1> HIDE DEF f, g, n, x, a
<1>8. op' \in [Ops -> OpRecord] /\ op'[o] = x /\ \A u \in Ops : u # o => op'[u] = op[u]
  BY <1>1, <1>2, <1>5
<1>9. LiveOK'
  <2>1. ASSUME NEW u \in Ops PROVE Live(u)' <=> op'[u].st \in {"running", "cancelling"}
    BY <1>2, <1>5, <1>8 DEF LiveOK, Live
  <2> QED
    BY <2>1 DEF LiveOK
<1>10. OneOp'
  <2>1. ASSUME NEW u \in Ops, NEW v \in Ops, Live(u)', Live(v)', PluginOf(u) = PluginOf(v)
        PROVE  u = v
    BY <1>2, <1>3, <1>8, <2>1 DEF OneOp, Live
  <2> QED
    BY <2>1 DEF OneOp
<1>11. /\ NodesOK' /\ plan' \in [Plans -> PlanRecord]
       /\ \A k \in Plans : plan'[k].st = plan[k].st /\ plan'[k].awaits = plan[k].awaits
  BY <1>3, <1>5, <1>6, <1>8, StartedNodes
<1>12. RuntimeOK' /\ runtime' \in RuntimeRecord
  <2>1. CASE free
    BY <1>1, <1>2, <1>3, <1>4, <1>5, <1>8, <2>1, StartedRuntime DEF a
  <2>2. CASE ~free
    BY <1>1, <1>2, <1>3, <1>4, <1>5, <1>8, <2>2, StartedRuntime
  <2> QED
    BY <2>1, <2>2
<1>13. QueueOK' /\ CountOK' /\ permit' \in [active : Nat, queue : Seq(Ops)]
  <2>1. CASE free
    BY <1>1, <1>2, <1>3, <1>4, <1>5, <1>8, <2>1, PermitTaken DEF a
  <2>2. CASE ~free
    BY <1>1, <1>2, <1>3, <1>4, <1>5, <1>8, <2>2, PermitAwaited DEF a
  <2> QED
    BY <2>1, <2>2
<1>14. seen' \in [made : Nat, lost : Nat] /\ seen'.made \in Nat /\ seen'.made >= seen.made
  BY <1>1, <1>2, SeenSame
<1>15. /\ JobsOK' /\ jobs' \in Seq(JobRecord)
       /\ disk' \in [fp : [Plugins -> Nat], saving : Plugins \cup {None}]
  BY <1>1 DEF IInv, TypeOK, JobsOK
<1>16. FencesOK'
  BY <1>1, <1>11, <1>14, <1>15, FencesKept
<1> QED
  BY <1>7, <1>8, <1>9, <1>10, <1>11, <1>12, <1>13, <1>14, <1>15, <1>16, Together DEF Rest

-----------------------------------------------------------------------------
(* The theorems.                                                           *)

LEMMA InitInvariant == Init => IInv
<1> SUFFICES ASSUME Init PROVE IInv
  OBVIOUS
<1> USE ConnectionAssumption
<1>1. /\ plan = [l \in Plans |->
               [st |-> "idle", awaits |-> 0,
                fp |-> [p \in Plugins |-> 0], node |-> [p \in Plugins |-> NoNode]]]
      /\ op = [o \in Ops |-> Ended("none")] /\ permit = [active |-> 0, queue |-> <<>>]
      /\ runtime = [owner |-> [p \in Plugins |-> None], session |-> [p \in Plugins |-> None],
                    trying |-> {}]
      /\ jobs = <<>> /\ seen = [made |-> 0, lost |-> 0]
      /\ disk = [fp |-> [p \in Plugins |-> 0], saving |-> None]
      /\ view = [desired |-> FALSE, manual |-> {}, phase |-> [p \in Plugins |-> "unknown"],
                 by |-> [p \in Plugins |-> None]]
  BY DEF Init
<1>2. Ended("none") \in OpRecord /\ Ended("none").st = "none" /\ Ended("none").at = "none"
  BY EndedType DEF OpStates
<1>3. op \in [Ops -> OpRecord] /\ \A o \in Ops : op[o].st = "none" /\ op[o].at = "none"
  BY <1>1, <1>2
<1>4. /\ plan \in [Plans -> PlanRecord]
      /\ \A l \in Plans : /\ plan[l].st = "idle" /\ plan[l].awaits = 0
                          /\ \A p \in Plugins : plan[l].node[p].st = "none"
  BY <1>1 DEF PlanRecord, PlanStates, NoNode, NodeStates
<1>5. jobs \in Seq(JobRecord) /\ DOMAIN jobs = {}
  BY <1>1
<1>6. permit \in [active : Nat, queue : Seq(Ops)] /\ DOMAIN permit.queue = {}
  BY <1>1
<1>7. view \in View
  BY <1>1 DEF View, Phases
<1>8. TypeOK
  BY <1>1, <1>3, <1>4, <1>5, <1>6, <1>7 DEF TypeOK, Live
<1>9. NodesOK /\ OneOp
  BY <1>3, <1>4, OpsPairs DEF NodesOK, NodeOK, OneOp, Live
<1>10. RuntimeOK
  BY <1>1 DEF RuntimeOK, SessionOK, TryOK
<1>11. QueueOK
  BY <1>3, <1>6 DEF QueueOK
<1>12. CountOK
  <2>1. Connecting = {} /\ Waiting = {}
    BY <1>3, <1>6 DEF Connecting, Waiting
  <2> QED
    BY <1>1, <2>1, FS_EmptySet DEF CountOK
<1>13. FencesOK /\ JobsOK
  <2>1. Cleanups = {}
    BY <1>5 DEF Cleanups
  <2> QED
    BY <1>1, <1>4, <1>5, <2>1 DEF FencesOK, CleanupsOK, PlanFenceOK, JobsOK
<1> QED
  BY <1>8, <1>9, <1>10, <1>11, <1>12, <1>13 DEF IInv

LEMMA StutterInvariant == IInv /\ UNCHANGED vars => IInv'
<1> SUFFICES ASSUME IInv, UNCHANGED vars PROVE IInv'
  OBVIOUS
<1>1. UNCHANGED <<plan, op, permit, runtime, view, jobs, disk, seen>>
  BY DEF vars
<1>2. TypeOK /\ KeepsPlans
  BY <1>1, SamePlans DEF IInv
<1>3. Rest'
  BY <1>1, <1>2, AsideStep DEF Rest
<1>4. seen' \in [made : Nat, lost : Nat] /\ seen'.made \in Nat /\ seen'.made >= seen.made
  BY <1>1, <1>2, SeenSame
<1>5. FencesOK' /\ JobsOK' /\ jobs' \in Seq(JobRecord)
  BY <1>1, <1>2, <1>4, FencesSame
<1>6. /\ plan' \in [Plans -> PlanRecord] /\ op' \in [Ops -> OpRecord] /\ view' \in View
      /\ permit' \in [active : Nat, queue : Seq(Ops)] /\ runtime' \in RuntimeRecord
      /\ disk' \in [fp : [Plugins -> Nat], saving : Plugins \cup {None}]
  BY <1>1, <1>2 DEF TypeOK, RuntimeRecord
<1> QED
  BY <1>3, <1>4, <1>5, <1>6, Together

LEMMA NodeStepInvariant ==
  ASSUME IInv, NEW l \in Plans, NEW p \in Plugins, NodeStep(l, p)
  PROVE  IInv'
BY NodeSkipsStep, NodeWaitsStep, NodeJoinsStep, NodeConflictsStep, NodeStartsStep, NodeSettlesStep
   DEF NodeStep

LEMMA OpStepInvariant ==
  ASSUME IInv, NEW o \in Ops, OpStep(o)
  PROVE  IInv'
BY AbortedEndsStep, DriverConnectsStep, DriverFailsStep, DriverDisownedStep, ReadBackStep,
   ReadFailsStep, UndoneStep DEF OpStep

LEMMA UserStepInvariant ==
  ASSUME IInv, UserStep
  PROVE  IInv'
BY ConnectRequestedStep, CancelPlanStep, CancelNodeStep, ForceCancelStep, CancelAllStep,
   NetworkChangedStep, DisconnectStep, SaveBeginsStep, LostStep DEF UserStep

LEMMA NextInvariant == IInv /\ [Next]_vars => IInv'
<1> SUFFICES ASSUME IInv, [Next]_vars PROVE IInv'
  OBVIOUS
<1>1. ASSUME NEW l \in Plans, PlanStep(l) PROVE IInv'
  BY <1>1, PlanEndsStep, PlanUnfencedStep, PlanBuiltStep DEF PlanStep
<1>2. ASSUME NEW l \in Plans, NEW p \in Plugins, NodeStep(l, p) PROVE IInv'
  BY <1>2, NodeStepInvariant
<1>3. ASSUME NEW o \in Ops, OpStep(o) PROVE IInv'
  BY <1>3, OpStepInvariant
<1>4. CASE JobStep
  BY <1>4, JobStartsStep, JobListsStep, JobDropsStep DEF JobStep
<1>5. CASE Save
  BY <1>5, SaveCommitsStep DEF Save
<1>6. CASE UserStep
  BY <1>6, UserStepInvariant
<1>7. CASE UNCHANGED vars
  BY <1>7, StutterInvariant
<1> QED
  BY <1>1, <1>2, <1>3, <1>4, <1>5, <1>6, <1>7 DEF Next

\* Plans, operations, permits, runtimes and the queue fit together in every
\* reachable state, with the types of all of them.
THEOREM IInvariant == Spec => []IInv
<1>1. Init => IInv
  BY InitInvariant
<1>2. IInv /\ [Next]_vars => IInv'
  BY NextInvariant
<1> QED
  BY <1>1, <1>2, PTL DEF Spec

\* withConnectPermit, releaseConnectPermit: permits in use are those of the
\* operations that connect, never more than allowed; the queue holds every
\* operation that waits, once, and none waits while a permit is free.
THEOREM PermitsAreExact == Spec => []PermitsExact
<1>1. IInv => PermitsExact
  <2> SUFFICES ASSUME IInv PROVE PermitsExact
    OBVIOUS
  <2>1. TypeOK /\ QueueOK /\ CountOK /\ \A i \in DOMAIN permit.queue : permit.queue[i] \in Ops
    BY PermitFacts DEF IInv
  <2>2. /\ permit.active = Cardinality({o \in Ops : op[o].at = "connecting"})
        /\ permit.active <= MaxConcurrency
        /\ Waiting # {} => permit.active = MaxConcurrency
    BY <2>1 DEF CountOK, Connecting
  <2>3. IsInjective(permit.queue)
    BY <2>1 DEF QueueOK, IsInjective
  <2>4. {permit.queue[i] : i \in Waiting} = {o \in Ops : op[o].at = "permit" /\ Running(o)}
    <3>1. ASSUME NEW i \in Waiting
          PROVE  permit.queue[i] \in {o \in Ops : op[o].at = "permit" /\ Running(o)}
      BY <2>1 DEF Waiting, QueueOK
    <3>2. ASSUME NEW o \in Ops, op[o].at = "permit", Running(o)
          PROVE  \E i \in Waiting : permit.queue[i] = o
      BY <2>1, <3>2 DEF Waiting, QueueOK
    <3> QED
      BY <3>1, <3>2
  <2> QED
    BY <2>1, <2>2, <2>3, <2>4 DEF PermitsExact
<1> QED
  BY <1>1, IInvariant, PTL

\* acquireOperation, connectRuntime: a plugin has one operation at a time, its
\* session belongs to the one that checks it or completed with it, and a driver
\* whose operation was cancelled, failed or was superseded makes none.
THEOREM SessionsAreOwned == Spec => []SessionsOwned
<1>1. IInv => SessionsOwned
  <2> SUFFICES ASSUME IInv, NEW p \in Plugins
               PROVE  /\ Cardinality(OpsOn(p)) <= 1
                      /\ SessionOK(p) /\ \A o \in runtime.trying : TryOK(o)
    BY DEF SessionsOwned, SessionOK, TryOK
  <2>1. OneOp /\ RuntimeOK /\ runtime.trying \subseteq Ops
    BY DEF IInv, TypeOK
  <2>2. Cardinality(OpsOn(p)) <= 1
    <3>1. CASE OpsOn(p) = {}
      BY <3>1, FS_EmptySet
    <3>2. CASE OpsOn(p) # {}
      <4>1. PICK o \in OpsOn(p) : TRUE
        BY <3>2
      <4>2. OpsOn(p) = {o}
        BY <2>1, <4>1 DEF OpsOn, OneOp
      <4>3. Cardinality(OpsOn(p)) = 1
        BY <4>2, FS_Singleton
      <4> QED
        BY <4>3
    <3> QED
      BY <3>1, <3>2
  <2> QED
    BY <2>1, <2>2 DEF RuntimeOK
<1> QED
  BY <1>1, IInvariant, PTL

\* Operations that are cancelled end, or go on being cancelled.
LEMMA ReleasedStates ==
  ASSUME NEW newop \in [Ops -> OpRecord], NEW r, Released(newop, r)
  PROVE  \A u \in Ops : op'[u].st = newop[u].st
<1> DEFINE w == permit.queue[Min(Waiting)]
<1>1. op' = newop \/ op' = [newop EXCEPT ![w].at = "connecting"]
  BY DEF Released
<1> HIDE DEF w
<1>2. ASSUME NEW u \in Ops, op' = [newop EXCEPT ![w].at = "connecting"]
      PROVE  op'[u].st = newop[u].st
  <2>1. newop[u] \in OpRecord
    OBVIOUS
  <2> QED
    BY <1>2, <2>1 DEF OpRecord
<1> QED
  BY <1>1, <1>2

NoneCancelled == \A u \in Ops : op'[u].st = "cancelling" => op[u].st = "cancelling"

LEMMA OpStepCancels ==
  ASSUME IInv, NEW o \in Ops, OpStep(o)
  PROVE  NoneCancelled
<1>1. op \in [Ops -> OpRecord] /\ op[o] \in OpRecord
  BY PermitFacts
<1> DEFINE ended(st) == [op EXCEPT ![o] = Ended(st)]
<1>2. ASSUME NEW st \in {"completed", "failed", "cancelled"}
      PROVE  /\ ended(st) \in [Ops -> OpRecord]
             /\ \A u \in Ops : ended(st)[u].st = "cancelling" => op[u].st = "cancelling"
  <2>1. Ended(st) \in OpRecord /\ Ended(st).st = st
    BY EndedType DEF OpStates
  <2> QED
    BY <1>1, <2>1
<1>3. ASSUME NEW a \in OpPlaces
      PROVE  LET newop == [op EXCEPT ![o].at = a]
             IN newop \in [Ops -> OpRecord] /\ \A u \in Ops : newop[u].st = op[u].st
  <2> DEFINE x == [op[o] EXCEPT !.at = a]
  <2>1. x \in OpRecord /\ x.st = op[o].st
    BY <1>1, AtSet
  <2>2. [op EXCEPT ![o].at = a] = [op EXCEPT ![o] = x]
    BY <1>1
  <2> HIDE DEF x
  <2> QED
    BY <1>1, <2>1, <2>2
<1> HIDE DEF ended
<1>4. CASE AbortedEnds(o)
  <2>1. op' = ended("cancelled") \/ Released(ended("cancelled"), runtime)
    BY <1>4 DEF AbortedEnds, ended
  <2> QED
    BY <1>2, <2>1, ReleasedStates DEF NoneCancelled
<1>5. CASE DriverConnects(o)
  <2>1. PICK r : Released([op EXCEPT ![o].at = "reading"], r)
    BY <1>5 DEF DriverConnects
  <2> DEFINE newop == [op EXCEPT ![o].at = "reading"]
  <2>2. newop \in [Ops -> OpRecord] /\ \A u \in Ops : newop[u].st = op[u].st
    BY <1>3 DEF OpPlaces
  <2>3. Released(newop, r)
    BY <2>1
  <2> HIDE DEF newop
  <2> QED
    BY <2>2, <2>3, ReleasedStates DEF NoneCancelled
<1>6. CASE DriverFails(o)
  <2>1. \E r : Released(ended("failed"), r)
    BY <1>6 DEF DriverFails, ended
  <2> QED
    BY <1>2, <2>1, ReleasedStates DEF NoneCancelled
<1>7. CASE DriverDisowned(o)
  <2>1. op' = op \/ \E r : Released(ended("cancelled"), r)
    BY <1>7 DEF DriverDisowned, ended
  <2> QED
    BY <1>2, <2>1, ReleasedStates DEF NoneCancelled
<1>8. CASE ReadBack(o)
  <2>1. \/ op' = ended("completed")
        \/ op' = [op EXCEPT ![o].at = "undoCancelled"]
        \/ op' = [op EXCEPT ![o].at = "undoChanged"]
    BY <1>8 DEF ReadBack, ended
  <2>2. "undoCancelled" \in OpPlaces /\ "undoChanged" \in OpPlaces
    BY DEF OpPlaces
  <2> QED
    <3>1. CASE op' = ended("completed")
      BY <1>2, <3>1 DEF NoneCancelled
    <3>2. ASSUME NEW a \in OpPlaces, op' = [op EXCEPT ![o].at = a] PROVE NoneCancelled
      BY <1>3, <3>2 DEF NoneCancelled
    <3> QED
      BY <2>1, <2>2, <3>1, <3>2
<1>9. CASE ReadFails(o)
  <2>1. \/ op' = [op EXCEPT ![o].at = "undoCancelled"]
        \/ op' = [op EXCEPT ![o].at = "undoError"]
    BY <1>9 DEF ReadFails
  <2>2. "undoCancelled" \in OpPlaces /\ "undoError" \in OpPlaces
    BY DEF OpPlaces
  <2> QED
    BY <1>3, <2>1, <2>2 DEF NoneCancelled
<1>10. CASE Undone(o)
  <2>1. op' = ended("failed") \/ op' = ended("cancelled")
    BY <1>10 DEF Undone, ended
  <2> QED
    BY <1>2, <2>1 DEF NoneCancelled
<1> QED
  BY <1>4, <1>5, <1>6, <1>7, <1>8, <1>9, <1>10 DEF OpStep

LEMMA NodeStepCancels ==
  ASSUME IInv, NEW l \in Plans, NEW p \in Plugins, NodeStep(l, p)
  PROVE  NoneCancelled
<1>1. op \in [Ops -> OpRecord]
  BY PermitFacts
<1>2. CASE NodeJoins(l, p)
  <2>1. PICK o : op' = [op EXCEPT ![o].subs = @ \cup {l}]
    BY <1>2 DEF NodeJoins
  <2>2. ASSUME NEW u \in Ops PROVE op'[u].st = op[u].st
    <3>1. op[u] \in OpRecord
      BY <1>1
    <3> QED
      BY <1>1, <2>1, <3>1 DEF OpRecord
  <2> QED
    BY <2>2 DEF NoneCancelled
<1>3. CASE NodeStarts(l, p)
  <2> DEFINE x == [st |-> "running", subs |-> {l}, fp |-> plan[l].fp[p],
                   at |-> IF permit.active < MaxConcurrency THEN "connecting" ELSE "permit"]
  <2>1. op' = [op EXCEPT ![<<l, p>>] = x] /\ x.st = "running"
    BY <1>3 DEF NodeStarts
  <2> HIDE DEF x
  <2> QED
    BY <1>1, <2>1 DEF NoneCancelled
<1>4. CASE op' = op
  BY <1>4 DEF NoneCancelled
<1> QED
  BY <1>2, <1>3, <1>4 DEF NodeStep, NodeSkips, NodeWaits, NodeConflicts, NodeSettles

\* The plans of o that go on.
Remaining(o) == {l \in op[o].subs : Active(l) /\ plan'[l].st = "active"}

\* Every plan of an operation whose cancellation is forced ends with it.
LEMMA ForcedRemain ==
  ASSUME IInv, NEW S, plan' = ForcedPlans(S), op' = ForcedOps(S), NEW o \in Ops, Running(o),
         op'[o].st = "cancelling"
  PROVE  Remaining(o) = {}
<1>1. o \in S /\ op[o].subs \subseteq Plans
  BY PermitFacts DEF ForcedOps, Running, OpRecord
<1>2. ASSUME NEW l \in op[o].subs, Active(l) PROVE plan'[l].st = "cancelled"
  <2>1. l \in Plans /\ plan[l] \in PlanRecord
    BY <1>1, PlanRecords
  <2>2. plan'[l] = [plan[l] EXCEPT !.st = "cancelled"]
    BY <1>1, <1>2, <2>1 DEF ForcedPlans
  <2> QED
    BY <2>1, <2>2 DEF PlanRecord
<1> QED
  BY <1>2 DEF Remaining

\* Only an operation that none but the plans of A want is aborted for them.
LEMMA WithdrawnRemain ==
  ASSUME IInv, NEW A, NEW S, op' = WithdrawnOps(A, S), NEW o \in Ops, Running(o),
         op'[o].st = "cancelling"
  PROVE  op[o].subs \subseteq A
<1>1. op[o] \in OpRecord
  BY PermitFacts
<1> DEFINE u == op[o].subs \ A
           s == IF op[o].subs \subseteq A THEN "cancelling" ELSE op[o].st
           x == [op[o] EXCEPT !.subs = u, !.st = s]
<1>2. op'[o] = op[o] \/ op'[o] = x
  BY DEF WithdrawnOps
<1> HIDE DEF u, s
<1>3. x.st = s
  BY <1>1 DEF OpRecord
<1> HIDE DEF x
<1>4. s = "cancelling"
  BY <1>2, <1>3 DEF Running
<1> QED
  BY <1>4 DEF s, Running

LEMMA OnePlanRemains ==
  ASSUME IInv, Next, NEW o \in Ops, Running(o), op'[o].st = "cancelling"
  PROVE  Remaining(o) = {} \/ \E l : Remaining(o) \subseteq {l}
<1>1. ~NoneCancelled /\ op' # op /\ op[o].subs \subseteq Plans
  BY PermitFacts DEF NoneCancelled, Running, OpRecord
<1>2. \A l \in Plans : plan[l] \in PlanRecord
  BY PlanRecords
<1>3. ASSUME NEW S, plan' = ForcedPlans(S), op' = ForcedOps(S) PROVE Remaining(o) = {}
  BY <1>3, ForcedRemain
<1>4. ASSUME NEW A, NEW S, CancelRequested(A, S) PROVE op[o].subs \subseteq A
  BY <1>4, WithdrawnRemain DEF CancelRequested
<1>5. ASSUME NEW l \in Plans, CancelPlan(l) PROVE Remaining(o) \subseteq {l}
  BY <1>4, <1>5 DEF CancelPlan, Remaining
<1>6. ASSUME NEW l \in Plans, NEW p \in Plugins, CancelNode(l, p) PROVE Remaining(o) \subseteq {l}
  BY <1>4, <1>6 DEF CancelNode, Remaining
<1>7. ASSUME CancelAll PROVE Remaining(o) = {}
  <2> DEFINE A == {l \in Plans : Active(l)}
  <2>1. /\ plan' = [l \in Plans |-> IF l \in A THEN [plan[l] EXCEPT !.st = "cancelled"] ELSE plan[l]]
        /\ CancelRequested(A, Ops)
    BY <1>7 DEF CancelAll
  <2>2. op[o].subs \subseteq A /\ A \subseteq Plans
    BY <1>4, <2>1
  <2>3. ASSUME NEW l \in A PROVE plan'[l].st = "cancelled"
    <3>1. plan'[l] = [plan[l] EXCEPT !.st = "cancelled"] /\ plan[l] \in PlanRecord
      BY <1>2, <2>1, <2>2
    <3> QED
      BY <3>1 DEF PlanRecord
  <2> HIDE DEF A
  <2> QED
    BY <2>2, <2>3 DEF Remaining
<1>8. ASSUME NEW l \in Plans, PlanStep(l) \/ ConnectRequested(l) PROVE FALSE
  BY <1>1, <1>8 DEF PlanStep, PlanEnds, PlanUnfenced, PlanBuilt, ConnectRequested
<1>9. ASSUME NEW l \in Plans, NEW p \in Plugins, NodeStep(l, p) PROVE FALSE
  BY <1>1, <1>9, NodeStepCancels
<1>10. ASSUME NEW u \in Ops, OpStep(u) PROVE FALSE
  BY <1>1, <1>10, OpStepCancels
<1>11. CASE JobStep
  BY <1>1, <1>3, <1>11 DEF JobStep, JobStarts, JobLists, JobDrops
<1>12. CASE Save
  BY <1>3, <1>12 DEF Save, SaveCommits, FencedBy
<1>13. CASE UserStep
  <2>1. ASSUME NEW p \in Plugins \cup {None}, Disconnect(p) PROVE Remaining(o) = {}
    BY <1>3, <2>1 DEF Disconnect
  <2>2. ASSUME NEW u \in Ops, ForceCancel(u) PROVE Remaining(o) = {}
    BY <1>3, <2>2 DEF ForceCancel
  <2>3. ASSUME NEW p \in Plugins, SaveBegins(p) PROVE Remaining(o) = {}
    BY <1>3, <2>3 DEF SaveBegins, FencedBy
  <2>4. ASSUME NEW p \in Plugins, Lost(p) \/ NetworkChanged PROVE FALSE
    BY <1>1, <2>4 DEF Lost, NetworkChanged
  <2>5. ~NetworkChanged
    BY <1>1 DEF NetworkChanged
  <2> QED
    BY <1>5, <1>6, <1>7, <1>8, <1>13, <2>1, <2>2, <2>3, <2>4, <2>5 DEF UserStep
<1> QED
  BY <1>8, <1>9, <1>10, <1>11, <1>12, <1>13 DEF Next

\* cancelPlan, cancel: an operation that several plans share is aborted only when
\* all of them end or withdraw, but for the plan whose own node was cancelled.
THEOREM SharedSurvive == Spec => SharedOperationsSurvive
<1> DEFINE A == \A o \in Ops : Running(o) /\ op'[o].st = "cancelling" =>
                  Cardinality({l \in op[o].subs : Active(l) /\ plan'[l].st = "active"}) <= 1
<1>1. IInv /\ [Next]_vars => [A]_vars
  <2> SUFFICES ASSUME IInv, Next, NEW o \in Ops, Running(o), op'[o].st = "cancelling"
               PROVE  Cardinality(Remaining(o)) <= 1
    BY DEF Remaining
  <2>1. Remaining(o) = {} \/ \E l : Remaining(o) \subseteq {l}
    BY OnePlanRemains
  <2>2. Remaining(o) = {} \/ \E l : Remaining(o) = {l}
    BY <2>1
  <2>3. Cardinality(Remaining(o)) = 0 \/ Cardinality(Remaining(o)) = 1
    BY <2>2, FS_EmptySet, FS_Singleton
  <2> QED
    BY <2>3
<1> HIDE DEF A
<1>2. Spec => [][A]_vars
  BY <1>1, IInvariant, PTL DEF Spec
<1> QED
  BY <1>2 DEF SharedOperationsSurvive, A

\* ensureCancelledCleanup, legacyCancelFences: no clean-up ends the session of
\* a connect that was requested after it.
THEOREM CleanupsSpare == Spec => CleanupSparesNewSessions
<1> DEFINE A == (jobs # <<>> /\ Head(jobs).kind = "cleanup" /\ (JobLists \/ JobDrops)) =>
                  \A p \in Plugins :
                    LET o == runtime.session[p]
                    IN (o # None /\ plan[o[1]].awaits >= Head(jobs).id) => runtime'.session[p] = o
<1>1. IInv /\ [Next]_vars => [A]_vars
  <2> SUFFICES ASSUME IInv, jobs # <<>>, Head(jobs).kind = "cleanup", NEW p \in Plugins,
                      runtime.session[p] # None,
                      plan[runtime.session[p][1]].awaits >= Head(jobs).id
               PROVE  FALSE
    OBVIOUS
  <2> DEFINE o == runtime.session[p]
             l == o[1]
             q == o[2]
  <2>1. /\ jobs \in Seq(JobRecord) /\ runtime \in RuntimeRecord /\ RuntimeOK /\ FencesOK
        /\ LiveOK
    BY DEF IInv, TypeOK, RuntimeRecord, LiveOK
  <2>2. o \in Ops /\ (op[o].at = "reading" \/ op[o].st = "completed")
    BY <2>1 DEF RuntimeRecord, RuntimeOK, SessionOK
  <2>3. op[o].st # "none"
    BY <2>1, <2>2 DEF LiveOK, Live
  <2>4. l \in Plans /\ q \in Plugins /\ o = <<l, q>>
    BY <2>2, OpsPairs
  <2>5. 1 \in Cleanups /\ jobs[1] = Head(jobs) /\ jobs[1].id \in Nat
    <3>1. 1 \in DOMAIN jobs /\ jobs[1] = Head(jobs) /\ jobs[1] \in JobRecord
      BY <2>1
    <3> QED
      BY <3>1 DEF Cleanups, JobRecord
  <2> HIDE DEF o, l, q
  <2>6. plan[l].st # "fenced"
    BY <2>3, <2>4, PlanRecords DEF NodeOK, Early
  <2>7. plan[l].awaits < jobs[1].id /\ plan[l].awaits \in Nat
    BY <2>1, <2>4, <2>5, <2>6, PlanRecords DEF PlanFenceOK, PlanRecord
  <2>8. plan[l].awaits >= jobs[1].id
    BY <2>5 DEF l, o
  <2> QED
    BY <2>5, <2>7, <2>8
<1> HIDE DEF A
<1>2. Spec => [][A]_vars
  BY <1>1, IInvariant, PTL DEF Spec
<1> QED
  BY <1>2 DEF CleanupSparesNewSessions, A
=============================================================================
