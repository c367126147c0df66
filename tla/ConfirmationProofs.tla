-------------------------- MODULE ConfirmationProofs ------------------------
(***************************************************************************)
(* Proofs about Confirmations for any operations, calls, limits and        *)
(* lifetimes: first what approvals allow, in which the status history      *)
(* plays no part, then what the history says.                              *)
(*                                                                         *)
(* One step may write several records: RecordAll is a fold over them, and  *)
(* what it leaves is shown by looking at the least number of records at    *)
(* which it would leave something else.                                    *)
(***************************************************************************)
EXTENDS Confirmations, FiniteSetTheorems, SequenceTheorems, WellFoundedInduction, TLAPS

\* Where each id is, and what has happened to it so far.
PlaceInv ==
  /\ pending \intersect approved = {}
  /\ \A i \in pending \union approved : i <= issued
  /\ \A i \in Ids : i > issued => entry[i] = NoEntry /\ trail[i] = Untold
  /\ \A i \in pending : /\ trail[i].asked \in Nat /\ trail[i].asked <= now
                        /\ trail[i].granted = Never /\ trail[i].uses = 0
                        /\ entry[i].expiresAt = trail[i].asked + TTL
  /\ \A i \in approved : /\ trail[i].granted \in Nat /\ trail[i].granted <= now
                         /\ trail[i].uses = 0
                         /\ entry[i].expiresAt = trail[i].granted + TTL

\* An id carried by a call has been used up, and by that call alone.
CarryInv ==
  /\ \A c \in Calls : call[c].phase # "idle" =>
       /\ call[c].id \in Ids /\ call[c].id <= issued
       /\ call[c].id \notin pending \union approved
       /\ trail[call[c].id].uses = 1
       /\ entry[call[c].id].operation = call[c].operation
  /\ \A c, d \in Calls : c # d /\ call[c].phase # "idle" /\ call[d].phase # "idle"
                           => call[c].id # call[d].id

TrailInv ==
  \A i \in Ids : LET t == trail[i] IN
    /\ t.uses <= 1
    /\ t.granted # Never => /\ t.asked \in Nat /\ t.asked <= t.granted
                            /\ t.granted < t.asked + TTL
    /\ t.uses > 0 => /\ t.granted \in Nat /\ t.used \in Nat
                     /\ t.granted <= t.used /\ t.used < t.granted + TTL

IInv == TypeOK /\ PlaceInv /\ CarryInv /\ TrailInv /\ OneLivePerOperation
-----------------------------------------------------------------------------
\* The initial state satisfies the inductive invariant.
LEMMA InitInv == Init => IInv
  <1> USE ConfirmationsAssumption
  <1> SUFFICES ASSUME Init PROVE IInv
    OBVIOUS
  <1>1. TypeOK
    BY DEF Init, TypeOK, Ids, NoEntry, Untold, IdleCall, CallPhases, Never
  <1>2. PlaceInv /\ CarryInv /\ TrailInv /\ OneLivePerOperation
    BY DEF Init, PlaceInv, CarryInv, TrailInv, OneLivePerOperation, Fresh, Ids, NoEntry,
           Untold, IdleCall, Never
  <1> QED BY <1>1, <1>2 DEF IInv

LEMMA ListInv ==
  ASSUME IInv, List
  PROVE  IInv'
  <1> USE ConfirmationsAssumption
  <1>i. TypeOK /\ PlaceInv /\ CarryInv /\ TrailInv /\ OneLivePerOperation
    BY DEF IInv
  <1>1. TypeOK'
    BY <1>i DEF List, TypeOK, Fresh, CallPhases, Never
  <1>2. PlaceInv'
    BY <1>i DEF List, TypeOK, PlaceInv, Fresh, Never, NoEntry, Untold
  <1>3. CarryInv'
    BY <1>i DEF List, TypeOK, PlaceInv, CarryInv, Fresh
  <1>4. TrailInv'
    BY <1>i DEF List, TypeOK, PlaceInv, TrailInv, Fresh, Never
  <1>5. OneLivePerOperation'
    BY <1>i DEF List, TypeOK, PlaceInv, OneLivePerOperation, Fresh
  <1> QED BY <1>1, <1>2, <1>3, <1>4, <1>5 DEF IInv

LEMMA RequestInv ==
  ASSUME IInv, NEW operation \in Operations, Request(operation)
  PROVE  IInv'
  <1> USE ConfirmationsAssumption
  <1>i. TypeOK /\ PlaceInv /\ CarryInv /\ TrailInv /\ OneLivePerOperation
    BY DEF IInv
  <1>0. PICK n \in Ids : n = issued + 1
    BY <1>i DEF Request, TypeOK, Ids
  <1>n. /\ n > issued /\ issued' = n /\ n \in 1..MaxRequests /\ now' = now /\ call' = call
        /\ issued \in Nat /\ now \in Nat /\ MaxRequests \in Nat
        /\ entry[n] = NoEntry /\ trail[n] = Untold /\ n \notin pending \union approved
    BY <1>i, <1>0 DEF Request, TypeOK, PlaceInv, Ids
  <1>e. /\ entry' \in [Ids -> [operation : Operations \union {NoOperation}, expiresAt : Nat]]
        /\ entry'[n] = [operation |-> operation, expiresAt |-> now + TTL]
        /\ \A j \in Ids : j # n => entry'[j] = entry[j]
    BY <1>i, <1>n DEF Request, TypeOK
  <1>t. /\ trail'[n] = [asked |-> now, granted |-> Never, used |-> Never, uses |-> 0]
        /\ \A j \in Ids : j # n => trail'[j] = trail[j]
    BY <1>i, <1>n DEF Request, TypeOK, Untold
  <1>d. trail' = [j \in Ids |-> trail'[j]]
    BY <1>i, <1>n DEF Request, TypeOK
  <1>s. trail' \in [Ids -> [asked : Nat \union {Never}, granted : Nat \union {Never},
                           used : Nat \union {Never}, uses : Nat]]
    BY <1>i, <1>n, <1>t, <1>d DEF TypeOK
  <1>m. pending' = Fresh(pending) \union {n} /\ approved' = Fresh(approved)
    BY <1>i, <1>n DEF Request
  <1>u. \A j \in Fresh(pending \union approved) : entry[j].operation # operation
    BY <1>i DEF Request, Fresh
  <1>1. TypeOK'
    <2>1. pending' \subseteq Ids /\ approved' \subseteq Ids
      BY <1>i, <1>m DEF TypeOK, Fresh
    <2>2. now' \in Nat /\ issued' \in 0..MaxRequests
      BY <1>n
    <2> QED BY <1>i, <1>n, <1>e, <1>s, <2>1, <2>2 DEF TypeOK
  <1>2. PlaceInv'
    <2>1. (pending \intersect approved = {})' /\ (\A j \in pending \union approved : j <= issued)'
      <3>1. \A j \in pending' \union approved' : j = n \/ j \in pending \union approved
        BY <1>m DEF Fresh
      <3>2. \A j \in pending \union approved : j \in Nat /\ j <= issued
        BY <1>i DEF PlaceInv, TypeOK, Ids
      <3>3. pending' \intersect approved' = {}
        BY <1>i, <1>n, <1>m DEF PlaceInv, Fresh
      <3>4. \A j \in pending' \union approved' : j <= issued'
        BY <1>0, <1>n, <3>1, <3>2
      <3> QED BY <3>3, <3>4
    <2>2. \A j \in Ids : j > n => entry'[j] = NoEntry /\ trail'[j] = Untold
      <3> SUFFICES ASSUME NEW j \in Ids, j > n
                   PROVE  entry'[j] = NoEntry /\ trail'[j] = Untold
        OBVIOUS
      <3>1. j > issued /\ j # n
        BY <1>0, <1>n DEF Ids
      <3> QED BY <1>i, <1>e, <1>t, <3>1 DEF PlaceInv
    <2>3. (\A j \in pending : /\ trail[j].asked \in Nat /\ trail[j].asked <= now
                              /\ trail[j].granted = Never /\ trail[j].uses = 0
                              /\ entry[j].expiresAt = trail[j].asked + TTL)'
      BY <1>i, <1>n, <1>e, <1>t, <1>m DEF PlaceInv, Fresh, TypeOK
    <2>4. (\A j \in approved : /\ trail[j].granted \in Nat /\ trail[j].granted <= now
                               /\ trail[j].uses = 0
                               /\ entry[j].expiresAt = trail[j].granted + TTL)'
      BY <1>i, <1>n, <1>e, <1>t, <1>m DEF PlaceInv, Fresh, TypeOK
    <2> QED BY <1>i, <1>n, <2>1, <2>2, <2>3, <2>4 DEF PlaceInv
  <1>3. CarryInv'
    <2>1. ASSUME NEW c \in Calls, call[c].phase # "idle"
          PROVE  /\ call[c].id \in Ids /\ call[c].id <= issued /\ call[c].id # n
                 /\ call[c].id \notin pending \union approved
                 /\ trail[call[c].id].uses = 1
                 /\ entry[call[c].id].operation = call[c].operation
      BY <1>i, <1>n, <2>1 DEF CarryInv, Ids
    <2>2. (\A c \in Calls : call[c].phase # "idle" =>
             /\ call[c].id \in Ids /\ call[c].id <= issued
             /\ call[c].id \notin pending \union approved
             /\ trail[call[c].id].uses = 1
             /\ entry[call[c].id].operation = call[c].operation)'
      <3> SUFFICES ASSUME NEW c \in Calls, call[c].phase # "idle"
                   PROVE  /\ call[c].id \in Ids /\ call[c].id <= n
                          /\ call[c].id \notin pending' \union approved'
                          /\ trail'[call[c].id].uses = 1
                          /\ entry'[call[c].id].operation = call[c].operation
        BY <1>n
      <3>1. call[c].id \in Ids /\ call[c].id # n /\ call[c].id <= issued
        BY <2>1
      <3>2. call[c].id <= n
        BY <1>0, <1>n, <3>1 DEF Ids
      <3>3. call[c].id \notin pending' \union approved'
        BY <1>m, <2>1, <3>1 DEF Fresh
      <3> QED BY <1>e, <1>t, <2>1, <3>1, <3>2, <3>3
    <2> QED BY <1>i, <1>n, <2>2 DEF CarryInv
  <1>4. TrailInv'
    BY <1>i, <1>n, <1>t DEF TrailInv, Never
  <1>5. OneLivePerOperation'
    <2>1. (pending \intersect approved = {})'
      BY <1>i, <1>n, <1>m DEF PlaceInv, Fresh
    <2>2. \A j \in Ids : j \in Fresh(pending \union approved)' =>
            j = n \/ j \in Fresh(pending \union approved)
      BY <1>i, <1>n, <1>e, <1>m DEF Fresh, TypeOK
    <2>3. ASSUME NEW j \in Fresh(pending \union approved)', NEW k \in Fresh(pending \union approved)',
                 entry'[j].operation = entry'[k].operation
          PROVE  j = k
      <3>1. j \in Ids /\ k \in Ids
        BY <1>i, <1>1 DEF Fresh, TypeOK
      <3>2. CASE j # n /\ k # n
        <4>1. j \in Fresh(pending \union approved) /\ k \in Fresh(pending \union approved)
          BY <2>2, <2>3, <3>1, <3>2
        <4>2. entry[j].operation = entry[k].operation
          BY <1>e, <2>3, <3>1, <3>2
        <4> QED BY <1>i, <4>1, <4>2 DEF OneLivePerOperation
      <3>3. ASSUME NEW m \in Ids, m # n, m \in Fresh(pending \union approved)'
            PROVE  entry'[m].operation # entry'[n].operation
        <4>1. entry[m].operation # operation
          BY <1>u, <2>2, <3>3
        <4>2. entry'[m] = entry[m]
          BY <1>e, <3>3
        <4> QED BY <1>e, <4>1, <4>2
      <3> QED BY <2>3, <3>1, <3>2, <3>3
    <2> QED BY <1>i, <2>1, <2>3 DEF OneLivePerOperation
  <1> QED BY <1>1, <1>2, <1>3, <1>4, <1>5 DEF IInv

LEMMA ApproveInv ==
  ASSUME IInv, NEW i \in Ids, Approve(i)
  PROVE  IInv'
  <1> USE ConfirmationsAssumption
  <1>i. TypeOK /\ PlaceInv /\ CarryInv /\ TrailInv /\ OneLivePerOperation
    BY DEF IInv
  <1>n. /\ now' = now /\ call' = call /\ issued' = issued /\ issued \in 0..MaxRequests /\ now \in Nat
        /\ i \in pending /\ i \notin approved /\ i <= issued
        /\ entry[i].expiresAt > now
    BY <1>i DEF Approve, TypeOK, PlaceInv, Fresh
  <1>e. /\ entry'[i] = [operation |-> entry[i].operation, expiresAt |-> now + TTL]
        /\ \A j \in Ids : j # i => entry'[j] = entry[j]
    BY <1>i, <1>n DEF Approve, TypeOK
  <1>t. /\ trail'[i] = [asked |-> trail[i].asked, granted |-> now,
                        used |-> trail[i].used, uses |-> trail[i].uses]
        /\ \A j \in Ids : j # i => trail'[j] = trail[j]
    BY <1>i, <1>n DEF Approve, TypeOK
  <1>d. entry' = [j \in Ids |-> entry'[j]] /\ trail' = [j \in Ids |-> trail'[j]]
    BY <1>i, <1>n DEF Approve, TypeOK
  <1>s. trail' \in [Ids -> [asked : Nat \union {Never}, granted : Nat \union {Never},
                           used : Nat \union {Never}, uses : Nat]]
    BY <1>i, <1>n, <1>t, <1>d DEF TypeOK
  <1>r. entry' \in [Ids -> [operation : Operations \union {NoOperation}, expiresAt : Nat]]
    BY <1>i, <1>n, <1>e, <1>d DEF TypeOK
  <1>m. pending' = Fresh(pending) \ {i} /\ approved' = Fresh(approved) \union {i}
    BY <1>i DEF Approve
  <1>1. TypeOK'
    BY <1>i, <1>n, <1>r, <1>s, <1>m DEF TypeOK, Fresh
  <1>2. PlaceInv'
    <2>1. (pending \intersect approved = {})' /\ (\A j \in pending \union approved : j <= issued)'
      BY <1>i, <1>n, <1>m DEF PlaceInv, Fresh, TypeOK
    <2>2. \A j \in Ids : j > issued' => entry'[j] = NoEntry /\ trail'[j] = Untold
      BY <1>i, <1>n, <1>e, <1>t DEF PlaceInv, Ids
    <2>3. (\A j \in pending : /\ trail[j].asked \in Nat /\ trail[j].asked <= now
                              /\ trail[j].granted = Never /\ trail[j].uses = 0
                              /\ entry[j].expiresAt = trail[j].asked + TTL)'
      BY <1>i, <1>n, <1>e, <1>t, <1>m DEF PlaceInv, Fresh, TypeOK
    <2>4. (\A j \in approved : /\ trail[j].granted \in Nat /\ trail[j].granted <= now
                               /\ trail[j].uses = 0
                               /\ entry[j].expiresAt = trail[j].granted + TTL)'
      BY <1>i, <1>n, <1>e, <1>t, <1>m DEF PlaceInv, Fresh, TypeOK
    <2> QED BY <1>i, <2>1, <2>2, <2>3, <2>4 DEF PlaceInv
  <1>3. CarryInv'
    BY <1>i, <1>n, <1>e, <1>t, <1>m DEF TypeOK, CarryInv, Fresh
  <1>4. TrailInv'
    BY <1>i, <1>n, <1>t DEF TypeOK, PlaceInv, TrailInv, Never
  <1>5. OneLivePerOperation'
    <2>1. (pending \intersect approved = {})'
      BY <1>i, <1>n, <1>m DEF PlaceInv, Fresh
    <2>2. \A j \in Ids : j \in Fresh(pending \union approved)' => j \in Fresh(pending \union approved)
      BY <1>i, <1>n, <1>e, <1>m DEF Fresh, TypeOK
    <2>3. \A j \in Ids : entry'[j].operation = entry[j].operation
      BY <1>i, <1>e
    <2>4. Fresh(pending \union approved)' \subseteq Ids
      BY <1>i, <1>1 DEF Fresh, TypeOK
    <2> QED BY <1>i, <2>1, <2>2, <2>3, <2>4 DEF OneLivePerOperation
  <1> QED BY <1>1, <1>2, <1>3, <1>4, <1>5 DEF IInv

LEMMA RejectInv ==
  ASSUME IInv, NEW i \in Ids, Reject(i)
  PROVE  IInv'
  <1> USE ConfirmationsAssumption
  <1>i. TypeOK /\ PlaceInv /\ CarryInv /\ TrailInv /\ OneLivePerOperation
    BY DEF IInv
  <1>1. TypeOK'
    BY <1>i DEF Reject, TypeOK, Fresh, CallPhases, Never
  <1>2. PlaceInv'
    BY <1>i DEF Reject, TypeOK, PlaceInv, Fresh, Never, NoEntry, Untold
  <1>3. CarryInv'
    BY <1>i DEF Reject, TypeOK, PlaceInv, CarryInv, Fresh
  <1>4. TrailInv'
    BY <1>i DEF Reject, TypeOK, PlaceInv, TrailInv, Fresh, Never
  <1>5. OneLivePerOperation'
    BY <1>i DEF Reject, TypeOK, PlaceInv, OneLivePerOperation, Fresh
  <1> QED BY <1>1, <1>2, <1>3, <1>4, <1>5 DEF IInv

LEMMA InvalidateInv ==
  ASSUME IInv, NEW scope \in Scopes, Invalidate(scope)
  PROVE  IInv'
  <1> USE ConfirmationsAssumption
  <1>i. TypeOK /\ PlaceInv /\ CarryInv /\ TrailInv /\ OneLivePerOperation
    BY DEF IInv
  <1>1. TypeOK'
    BY <1>i DEF Invalidate, TypeOK, Fresh, CallPhases, Never
  <1>2. PlaceInv'
    BY <1>i DEF Invalidate, TypeOK, PlaceInv, Fresh, Never, NoEntry, Untold
  <1>3. CarryInv'
    BY <1>i DEF Invalidate, TypeOK, PlaceInv, CarryInv, Fresh
  <1>4. TrailInv'
    BY <1>i DEF Invalidate, TypeOK, PlaceInv, TrailInv, Fresh, Never
  <1>5. OneLivePerOperation'
    BY <1>i DEF Invalidate, TypeOK, PlaceInv, OneLivePerOperation, Fresh
  <1> QED BY <1>1, <1>2, <1>3, <1>4, <1>5 DEF IInv

LEMMA MismatchInv ==
  ASSUME IInv, NEW operation \in Operations, NEW i \in Ids, ConsumeMismatch(operation, i)
  PROVE  IInv'
  <1> USE ConfirmationsAssumption
  <1>i. TypeOK /\ PlaceInv /\ CarryInv /\ TrailInv /\ OneLivePerOperation
    BY DEF IInv
  <1>1. TypeOK'
    BY <1>i DEF ConsumeMismatch, TypeOK, Fresh, CallPhases, Never
  <1>2. PlaceInv'
    BY <1>i DEF ConsumeMismatch, TypeOK, PlaceInv, Fresh, Never, NoEntry, Untold
  <1>3. CarryInv'
    BY <1>i DEF ConsumeMismatch, TypeOK, PlaceInv, CarryInv, Fresh
  <1>4. TrailInv'
    BY <1>i DEF ConsumeMismatch, TypeOK, PlaceInv, TrailInv, Fresh, Never
  <1>5. OneLivePerOperation'
    BY <1>i DEF ConsumeMismatch, TypeOK, PlaceInv, OneLivePerOperation, Fresh
  <1> QED BY <1>1, <1>2, <1>3, <1>4, <1>5 DEF IInv

LEMMA ConsumeInv ==
  ASSUME IInv, NEW c \in Calls, NEW operation \in Operations, NEW i \in Ids, Consume(c, operation, i)
  PROVE  IInv'
  <1> USE ConfirmationsAssumption
  <1>i. TypeOK /\ PlaceInv /\ CarryInv /\ TrailInv /\ OneLivePerOperation
    BY DEF IInv
  <1>1. TypeOK'
    <2>1. trail' = [j \in Ids |-> trail'[j]] /\ trail'[i] =
            [asked |-> trail[i].asked, granted |-> trail[i].granted, used |-> now,
             uses |-> trail[i].uses + 1]
      BY <1>i DEF Consume, TypeOK
    <2>2. \A j \in Ids : j # i => trail'[j] = trail[j]
      BY <1>i DEF Consume, TypeOK
    <2>3. (trail \in [Ids -> [asked : Nat \union {Never}, granted : Nat \union {Never},
                             used : Nat \union {Never}, uses : Nat]])'
      BY <1>i, <2>1, <2>2 DEF TypeOK
    <2>4. (call \in [Calls -> [phase : CallPhases, id : Ids \union {0},
                              operation : Operations \union {NoOperation}]])'
      BY <1>i DEF Consume, TypeOK, CallPhases
    <2> QED BY <1>i, <2>3, <2>4 DEF Consume, TypeOK, Fresh
  <1>2. PlaceInv'
    BY <1>i DEF Consume, TypeOK, PlaceInv, Fresh, Never, NoEntry, Untold
  <1>3. CarryInv'
    BY <1>i DEF Consume, TypeOK, PlaceInv, CarryInv, Fresh
  <1>4. TrailInv'
    BY <1>i DEF Consume, TypeOK, PlaceInv, TrailInv, Fresh, Never
  <1>5. OneLivePerOperation'
    BY <1>i DEF Consume, TypeOK, PlaceInv, OneLivePerOperation, Fresh
  <1> QED BY <1>1, <1>2, <1>3, <1>4, <1>5 DEF IInv

\* What a call reports about its execution leaves requests and approvals alone.
LEMMA ExecutionInv ==
  ASSUME IInv, NEW c \in Calls,
         \/ AuditFails(c) \/ StartExecution(c)
         \/ \E status \in {"succeeded", "failed"} : FinishExecution(c, status)
  PROVE  IInv'
  <1>i. TypeOK /\ PlaceInv /\ CarryInv /\ TrailInv /\ OneLivePerOperation
    BY DEF IInv
  <1>1. UNCHANGED <<now, issued, entry, pending, approved, trail>>
    BY DEF AuditFails, StartExecution, FinishExecution, ExecutionStatus
  <1>2. \/ call' = [call EXCEPT ![c] = IdleCall]
        \/ call[c].phase = "authorized" /\ call' = [call EXCEPT ![c].phase = "running"]
    BY DEF AuditFails, StartExecution, FinishExecution
  <1>3. TypeOK'
    BY <1>i, <1>1, <1>2, SMTT(20) DEF TypeOK, CallPhases, IdleCall
  <1>4. PlaceInv' /\ TrailInv' /\ OneLivePerOperation'
    BY <1>i, <1>1 DEF PlaceInv, TrailInv, OneLivePerOperation, Fresh
  <1>4a. \A d \in Calls : call'[d].phase # "idle" =>
           /\ call[d].phase # "idle"
           /\ call'[d].id = call[d].id /\ call'[d].operation = call[d].operation
    BY <1>i, <1>2 DEF TypeOK, IdleCall
  <1>5. CarryInv'
    BY <1>i, <1>1, <1>4a DEF CarryInv
  <1> QED BY <1>3, <1>4, <1>5 DEF IInv

\* Waiting for a status changes nothing else, and time only closes doors.
LEMMA WatchOrTickInv ==
  ASSUME IInv, Tick \/ \E w \in Watchers : WatchStep(w)
  PROVE  IInv'
  <1>i. TypeOK /\ PlaceInv /\ CarryInv /\ TrailInv /\ OneLivePerOperation
    BY DEF IInv
  <1>1. UNCHANGED <<issued, entry, pending, approved, call, trail>>
    BY DEF Tick, WatchStep, WaitEnds, AwaitStatus
  <1>2. now \in Nat /\ now' \in {now, now + 1}
    BY <1>i DEF Tick, WatchStep, WaitEnds, AwaitStatus, TypeOK
  <1>3. TypeOK'
    BY <1>i, <1>1, <1>2 DEF TypeOK
  <1>4. PlaceInv'
    BY <1>i, <1>1, <1>2 DEF PlaceInv, TypeOK
  <1>4a. TrailInv' /\ CarryInv'
    BY <1>i, <1>1 DEF TrailInv, CarryInv
  <1>5. Fresh(pending \union approved)' \subseteq Fresh(pending \union approved)
    BY <1>i, <1>1, <1>2 DEF Fresh, TypeOK
  <1>6. OneLivePerOperation'
    BY <1>i, <1>1, <1>5 DEF OneLivePerOperation
  <1> QED BY <1>3, <1>4, <1>4a, <1>6 DEF IInv

LEMMA StutterInv ==
  ASSUME IInv, UNCHANGED vars
  PROVE  IInv'
  <1>1. UNCHANGED <<now, issued, entry, pending, approved, call, trail>>
    BY DEF vars
  <1> QED BY <1>1 DEF IInv, TypeOK, PlaceInv, CarryInv, TrailInv, OneLivePerOperation, Fresh

\* Every step preserves the inductive invariant.
LEMMA NextInv == IInv /\ [Next]_vars => IInv'
  <1> SUFFICES ASSUME IInv, [Next]_vars PROVE IInv'
    OBVIOUS
  <1>1. CASE ManagerStep
    BY <1>1, ListInv, RequestInv, ApproveInv, RejectInv, InvalidateInv, MismatchInv DEF ManagerStep
  <1>2. ASSUME NEW c \in Calls, CallStep(c) PROVE IInv'
    BY <1>2, ConsumeInv, ExecutionInv DEF CallStep
  <1>3. CASE Tick \/ \E w \in Watchers : WatchStep(w)
    BY <1>3, WatchOrTickInv
  <1>4. CASE UNCHANGED vars
    BY <1>4, StutterInv
  <1> QED BY <1>1, <1>2, <1>3, <1>4 DEF Next

THEOREM Invariance == Spec => []IInv
  <1>1. Init => IInv
    BY InitInv
  <1>2. IInv /\ [Next]_vars => IInv'
    BY NextInv
  <1> QED BY <1>1, <1>2, PTL DEF Spec
-----------------------------------------------------------------------------
\* Requests, approvals, calls and the trail of each request keep their types.
THEOREM TypeCorrect == Spec => []TypeOK
  <1>1. IInv => TypeOK
    BY DEF IInv
  <1> QED BY <1>1, Invariance, PTL

\* An approval is used at most once, and only one call ever carries it.
THEOREM OneUse == Spec => []OneUsePerApproval
  <1>1. IInv => OneUsePerApproval
    BY DEF IInv, CarryInv, TrailInv, OneUsePerApproval
  <1> QED BY <1>1, Invariance, PTL

\* What runs under a confirmation is what was approved, and in time.
THEOREM RunsApproved == Spec => []RunsOnlyWhatWasApproved
  <1>1. IInv => RunsOnlyWhatWasApproved
    BY DEF IInv, TypeOK, CarryInv, TrailInv, RunsOnlyWhatWasApproved, Never
  <1> QED BY <1>1, Invariance, PTL

\* An approval lets one call run, once, and only what was approved.
THEOREM ApprovalsStaySound == Spec => []ApprovalsSound
  BY OneUse, RunsApproved, PTL DEF ApprovalsSound

\* No operation ever collects two live permissions.
THEOREM OneLive == Spec => []OneLivePerOperation
  <1>1. IInv => OneLivePerOperation
    BY DEF IInv
  <1> QED BY <1>1, Invariance, PTL
-----------------------------------------------------------------------------
(***************************************************************************)
(* The life cycle.  A step makes at most one id advance; any other id      *)
(* keeps its stage or lapses.                                              *)
(***************************************************************************)
Quiet(j) ==
  \/ Stage(j)' = Stage(j)
  \/ Stage(j) \in {"asked", "granted"} /\ Stage(j)' = "void"

Forward(i) ==
  <<Stage(i), Stage(i)'>> \in
    {<<"unasked", "asked">>, <<"asked", "granted">>, <<"granted", "spent">>}

\* Dropping requests and approvals only makes ids lapse.
LEMMA DroppingIsQuiet ==
  ASSUME IInv, NEW j \in Ids, issued' = issued, trail'[j] = trail[j],
         j \in pending' => j \in pending, j \in approved' => j \in approved
  PROVE  Quiet(j)
  BY DEF IInv, PlaceInv, Stage, Quiet

LEMMA RequestAdvances ==
  ASSUME IInv, NEW operation \in Operations, Request(operation), NEW j \in Ids
  PROVE  IF j = issued + 1 THEN Forward(j) ELSE Quiet(j)
  <1>i. TypeOK /\ PlaceInv
    BY DEF IInv
  <1>0. PICK n \in Ids : n = issued + 1
    BY <1>i, ConfirmationsAssumption DEF Request, TypeOK, Ids
  <1>1. /\ issued' = n /\ pending' = Fresh(pending) \union {n} /\ approved' = Fresh(approved)
        /\ \A k \in Ids : k # n => trail'[k] = trail[k]
    BY <1>i, <1>0 DEF Request, TypeOK
  <1>2. j \in Int /\ issued \in Int
    BY <1>i, ConfirmationsAssumption DEF Ids, TypeOK
  <1>3. CASE j = n
    BY <1>0, <1>1, <1>2, <1>3 DEF Stage, Forward
  <1>4. CASE j # n
    <2>1. (j > issued') <=> (j > issued)
      BY <1>0, <1>1, <1>2, <1>4
    <2>2. (j \in pending' => j \in pending) /\ (j \in approved' => j \in approved)
      BY <1>1, <1>4 DEF Fresh
    <2> QED BY <1>0, <1>1, <1>4, <2>1, <2>2 DEF IInv, PlaceInv, Stage, Quiet
  <1> QED BY <1>0, <1>3, <1>4

LEMMA ApproveAdvances ==
  ASSUME IInv, NEW i \in Ids, Approve(i), NEW j \in Ids
  PROVE  IF j = i THEN Forward(j) ELSE Quiet(j)
  <1>i. TypeOK /\ PlaceInv
    BY DEF IInv
  <1>1. /\ issued' = issued /\ i \in pending
        /\ pending' = Fresh(pending) \ {i} /\ approved' = Fresh(approved) \union {i}
    BY DEF Approve, Fresh
  <1>2. j # i => trail'[j] = trail[j]
    BY <1>i DEF Approve, TypeOK
  <1>3. CASE j = i
    BY <1>i, <1>1, <1>3, ConfirmationsAssumption DEF Stage, Forward, PlaceInv, TypeOK, Ids
  <1>4. CASE j # i
    BY <1>1, <1>2, <1>4, DroppingIsQuiet DEF Fresh
  <1> QED BY <1>3, <1>4

LEMMA ConsumeAdvances ==
  ASSUME IInv, NEW c \in Calls, NEW operation \in Operations, NEW i \in Ids,
         Consume(c, operation, i), NEW j \in Ids
  PROVE  IF j = i THEN Forward(j) ELSE Quiet(j)
  <1>i. TypeOK /\ PlaceInv
    BY DEF IInv
  <1>1. /\ issued' = issued /\ i \in approved
        /\ pending' = Fresh(pending) /\ approved' = Fresh(approved) \ {i}
    BY DEF Consume, Fresh
  <1>2. j # i => trail'[j] = trail[j]
    BY <1>i DEF Consume, TypeOK
  <1>3. CASE j = i
    <2>1. trail[i].uses = 0 /\ trail'[i].uses = trail[i].uses + 1
      BY <1>i, <1>1 DEF Consume, TypeOK, PlaceInv
    <2>2. i \notin pending /\ i \notin pending' /\ i \notin approved' /\ i <= issued
      BY <1>i, <1>1 DEF PlaceInv, Fresh
    <2>3. ~(i > issued)
      BY <1>i, <2>2, ConfirmationsAssumption DEF TypeOK, Ids
    <2> QED BY <1>1, <1>3, <2>1, <2>2, <2>3 DEF Stage, Forward
  <1>4. CASE j # i
    BY <1>1, <1>2, <1>4, DroppingIsQuiet DEF Fresh
  <1> QED BY <1>3, <1>4

\* All other steps ask, grant and spend nothing.
LEMMA OthersAreQuiet ==
  ASSUME IInv, NEW j \in Ids,
         \/ List
         \/ \E i \in Ids : Reject(i)
         \/ \E scope \in Scopes : Invalidate(scope)
         \/ \E operation \in Operations, i \in Ids : ConsumeMismatch(operation, i)
         \/ \E c \in Calls : \/ AuditFails(c) \/ StartExecution(c)
                             \/ \E status \in {"succeeded", "failed"} : FinishExecution(c, status)
         \/ Tick \/ \E w \in Watchers : WatchStep(w)
         \/ UNCHANGED vars
  PROVE  Quiet(j)
  <1>1. issued' = issued /\ trail' = trail /\ pending' \subseteq pending /\ approved' \subseteq approved
    BY DEF List, Reject, Invalidate, ConsumeMismatch, Fresh, AuditFails, StartExecution,
           FinishExecution, ExecutionStatus, Tick, WatchStep, WaitEnds, AwaitStatus, vars
  <1> QED BY <1>1, DroppingIsQuiet

LEMMA AtMostOneAdvances ==
  IInv /\ [Next]_vars =>
    \/ \A j \in Ids : Quiet(j)
    \/ \E i \in Ids : \A j \in Ids : IF j = i THEN Forward(j) ELSE Quiet(j)
  <1> SUFFICES ASSUME IInv, [Next]_vars
               PROVE  \/ \A j \in Ids : Quiet(j)
                      \/ \E i \in Ids : \A j \in Ids : IF j = i THEN Forward(j) ELSE Quiet(j)
    OBVIOUS
  <1>1. ASSUME NEW operation \in Operations, Request(operation)
        PROVE  \E i \in Ids : \A j \in Ids : IF j = i THEN Forward(j) ELSE Quiet(j)
    <2>1. issued + 1 \in Ids
      BY <1>1, ConfirmationsAssumption DEF IInv, TypeOK, Request, Ids
    <2> QED BY <1>1, <2>1, RequestAdvances
  <1>2. ASSUME NEW i \in Ids, Approve(i)
        PROVE  \A j \in Ids : IF j = i THEN Forward(j) ELSE Quiet(j)
    BY <1>2, ApproveAdvances
  <1>3. ASSUME NEW c \in Calls, NEW operation \in Operations, NEW i \in Ids,
               Consume(c, operation, i)
        PROVE  \A j \in Ids : IF j = i THEN Forward(j) ELSE Quiet(j)
    BY <1>3, ConsumeAdvances
  <1>4. ASSUME \/ List
               \/ \E i \in Ids : Reject(i)
               \/ \E scope \in Scopes : Invalidate(scope)
               \/ \E operation \in Operations, i \in Ids : ConsumeMismatch(operation, i)
               \/ \E c \in Calls : \/ AuditFails(c) \/ StartExecution(c)
                             \/ \E status \in {"succeeded", "failed"} : FinishExecution(c, status)
               \/ Tick \/ \E w \in Watchers : WatchStep(w)
               \/ UNCHANGED vars
        PROVE  \A j \in Ids : Quiet(j)
    BY <1>4, OthersAreQuiet
  <1> QED BY <1>1, <1>2, <1>3, <1>4 DEF Next, ManagerStep, CallStep

(***************************************************************************)
(* Permissions are granted by the user, spent once, and never come back:   *)
(* the manager implements the abstract life cycle.                         *)
(***************************************************************************)
THEOREM ImplementsCycle == Spec => ImplementsLifecycle
  <1> DEFINE stages == [i \in Ids |-> Stage(i)]
  <1>1. Init => Cycle!LifecycleInit
    BY ConfirmationsAssumption DEF Init, Cycle!LifecycleInit, Stage, Ids
  <1>2. IInv /\ [Next]_vars => [Cycle!LifecycleNext]_stages
    <2> SUFFICES ASSUME IInv, [Next]_vars PROVE Cycle!LifecycleNext
      OBVIOUS
    <2>1. \A j \in Ids : stages[j] = Stage(j) /\ stages'[j] = Stage(j)'
      OBVIOUS
    <2>2. stages' \in [Ids -> Cycle!Stages]
      BY DEF Stage, Cycle!Stages
    <2>3. \A j \in Ids : /\ Quiet(j) => stages'[j] = stages[j] \/ Cycle!Lapses(j)
                         /\ Quiet(j) => ~Cycle!Advances(j)
                         /\ Forward(j) => Cycle!Advances(j)
      BY <2>1 DEF Quiet, Forward, Cycle!Lapses, Cycle!Advances
    <2>4. \A i \in Ids : Quiet(i) \/ Forward(i)
      BY AtMostOneAdvances
    <2>5. \A i, j \in Ids : Cycle!Advances(i) /\ Cycle!Advances(j) => i = j
      BY <2>3, AtMostOneAdvances
    <2> QED BY <2>2, <2>3, <2>4, <2>5 DEF Cycle!LifecycleNext
  <1> QED BY <1>1, <1>2, Invariance, PTL DEF Spec, ImplementsLifecycle, Cycle!LifecycleSpec
-----------------------------------------------------------------------------
(* Natural numbers, functions defined by recursion, sets in order.         *)

LEMMA LeastExists ==
  ASSUME NEW S, S \subseteq Nat, S # {}
  PROVE  \E x \in S : \A y \in S : x <= y
<1> DEFINE R == OpToRel(<, Nat)
<1>1. IsWellFoundedOn(R, Nat)
  BY NatLessThanWellFounded
<1>2. PICK x \in S : \A y \in S : ~(<<y, x>> \in R)
  <2> HIDE DEF R
  <2> QED
    BY <1>1, WFMin
<1>3. ASSUME NEW y \in S PROVE x <= y
  <2>1. ~(y < x)
    BY <1>2 DEF OpToRel
  <2> QED
    BY <2>1
<1> QED
  BY <1>3

LEMMA GreatestExists ==
  ASSUME NEW n \in Nat, NEW S, S \subseteq 1..n, S # {}
  PROVE  \E x \in S : \A y \in S : y <= x
<1> DEFINE T == {n - x : x \in S}
<1>1. T \subseteq Nat /\ T # {}
  <2>1. ASSUME NEW x \in S PROVE n - x \in Nat
    OBVIOUS
  <2>2. PICK x \in S : TRUE
    OBVIOUS
  <2>3. n - x \in T
    OBVIOUS
  <2> QED
    BY <2>1, <2>3
<1>2. PICK z \in T : \A y \in T : z <= y
  <2> HIDE DEF T
  <2> QED
    BY <1>1, LeastExists
<1>3. PICK x \in S : z = n - x
  OBVIOUS
<1>4. ASSUME NEW y \in S PROVE y <= x
  <2>1. n - x <= n - y
    BY <1>2, <1>3
  <2>2. n \in Int /\ x \in Int /\ y \in Int
    OBVIOUS
  <2> QED
    BY <2>1, <2>2
<1> QED
  BY <1>4

\* C chooses an element of each set; h is the fold of G over the subsets of S.
Chooses(C, S) == \A s \in SUBSET S : s # {} => C[s] \in s
IsFold(h, S, base, C, G) ==
  \A s \in SUBSET S : h[s] = IF s = {} THEN base ELSE G[<<C[s], h[s \ {C[s]}]>>]

\* A fold over a finite set exists.
LEMMA FoldExists ==
  ASSUME NEW S, IsFiniteSet(S), NEW D, NEW base \in D,
         NEW C, Chooses(C, S),
         NEW G \in [S \X D -> D]
  PROVE  \E h \in [SUBSET S -> D] : IsFold(h, S, base, C, G)
<1> USE DEF Chooses, IsFold
<1> DEFINE Level(n) == {s \in SUBSET S : Cardinality(s) <= n}
           Good(n, h) == /\ h \in [Level(n) -> D]
                         /\ \A s \in Level(n) :
                              h[s] = IF s = {} THEN base ELSE G[<<C[s], h[s \ {C[s]}]>>]
           Bad == {n \in Nat : ~ \E h : Good(n, h)}
<1>1. \A s \in SUBSET S : IsFiniteSet(s) /\ Cardinality(s) \in Nat
  BY FS_Subset, FS_CardinalityType
<1>2. \A n \in Nat : \A s \in Level(n + 1) : s # {} => s \ {C[s]} \in Level(n)
  <2> SUFFICES ASSUME NEW n \in Nat, NEW s \in Level(n + 1), s # {}
               PROVE  s \ {C[s]} \in Level(n)
    OBVIOUS
  <2>1. C[s] \in s /\ IsFiniteSet(s) /\ Cardinality(s) \in Nat
    BY <1>1
  <2>2. Cardinality(s \ {C[s]}) = Cardinality(s) - 1
    BY <2>1, FS_RemoveElement
  <2> QED
    BY <2>1, <2>2
<1>3. Bad = {}
  <2> SUFFICES ASSUME Bad # {} PROVE FALSE
    OBVIOUS
  <2>1. PICK n \in Bad : \A k \in Bad : n <= k
    <3>1. Bad \subseteq Nat
      OBVIOUS
    <3> HIDE DEF Bad
    <3> QED
      BY <3>1, LeastExists
  <2>2. CASE n = 0
    <3> DEFINE g == [s \in Level(0) |-> base]
    <3>1. \A s \in Level(0) : s = {}
      BY <1>1, FS_EmptySet
    <3>2. Good(0, g)
      BY <3>1
    <3> QED
      BY <2>1, <2>2, <3>2
  <2>3. CASE n # 0
    <3>1. n \in Nat /\ n - 1 \in Nat /\ n - 1 \notin Bad
      <4>1. n \in Nat
        BY <2>1
      <4>2. n - 1 \in Nat /\ ~(n <= n - 1)
        BY <4>1, <2>3
      <4> HIDE DEF Bad
      <4> QED
        BY <2>1, <4>1, <4>2
    <3>2. PICK h : Good(n - 1, h)
      BY <3>1
    <3> DEFINE g == [s \in Level(n) |-> IF s = {} THEN base ELSE G[<<C[s], h[s \ {C[s]}]>>]]
    <3>3. \A s \in Level(n) : s # {} => s \ {C[s]} \in Level(n - 1)
      <4>1. (n - 1) + 1 = n
        BY <3>1
      <4> HIDE DEF Level
      <4> QED
        BY <1>2, <3>1, <4>1
    <3>4. \A s \in Level(n) : s # {} => C[s] \in S /\ h[s \ {C[s]}] \in D
      BY <3>2, <3>3
    <3>5. g \in [Level(n) -> D]
      BY <3>4
    <3>6. \A s \in Level(n - 1) : s \in Level(n) /\ g[s] = h[s]
      <4>1. Level(n - 1) \subseteq Level(n)
        BY <1>1, <3>1
      <4> QED
        BY <4>1, <3>2
    <3>7. \A s \in Level(n) : g[s] = IF s = {} THEN base ELSE G[<<C[s], g[s \ {C[s]}]>>]
      <4> SUFFICES ASSUME NEW s \in Level(n), s # {}
                   PROVE  g[s] = G[<<C[s], g[s \ {C[s]}]>>]
        OBVIOUS
      <4>1. g[s \ {C[s]}] = h[s \ {C[s]}]
        BY <3>3, <3>6
      <4> QED
        BY <4>1
    <3>8. Good(n, g)
      BY <3>5, <3>7
    <3> QED
      BY <2>1, <3>8
  <2> QED
    BY <2>2, <2>3
<1>4. Cardinality(S) \in Nat
  BY FS_CardinalityType
<1>5. PICK h : Good(Cardinality(S), h)
  BY <1>3, <1>4
<1>6. Level(Cardinality(S)) = SUBSET S
  BY FS_Subset
<1> QED
  BY <1>5, <1>6

\* The elements of a finite set in order: each once.
LEMMA OrderedFacts ==
  ASSUME NEW S, IsFiniteSet(S), NEW R,
         \A x, y, z \in S : <<x, y>> \in R /\ <<y, z>> \in R => <<x, z>> \in R,
         \A x \in S : <<x, x>> \notin R,
         \A x, y \in S : x # y => <<x, y>> \in R \/ <<y, x>> \in R
  PROVE  /\ Ordered(S, R) \in [1..Cardinality(S) -> S]
         /\ Cardinality(S) \in Nat
         /\ \A m, n \in 1..Cardinality(S) : Ordered(S, R)[m] = Ordered(S, R)[n] => m = n
         /\ \A x \in S : \E n \in 1..Cardinality(S) : Ordered(S, R)[n] = x
<1> DEFINE c == Cardinality(S)
           Below(x) == {y \in S : <<y, x>> \in R}
           T == 0..c - 1
           rank == [x \in S |-> Cardinality(Below(x))]
<1>1. c \in Nat
  BY FS_CardinalityType
<1>2. ASSUME NEW x \in S PROVE rank[x] \in T
  <2>1. Below(x) \in SUBSET S /\ Below(x) # S
    OBVIOUS
  <2>2. IsFiniteSet(Below(x)) /\ Cardinality(Below(x)) <= c /\ Cardinality(Below(x)) # c
    <3> HIDE DEF Below
    <3> QED
      BY <2>1, FS_Subset
  <2>3. Cardinality(Below(x)) \in Nat
    BY <2>2, FS_CardinalityType
  <2> HIDE DEF c, Below
  <2> QED
    BY <1>1, <2>2, <2>3
<1>3. ASSUME NEW x \in S, NEW y \in S, <<y, x>> \in R PROVE rank[y] < rank[x]
  <2>1. Below(y) \in SUBSET Below(x) /\ Below(y) # Below(x) /\ Below(x) \in SUBSET S
    BY <1>3
  <2>2. IsFiniteSet(Below(x))
    <3> HIDE DEF Below
    <3> QED
      BY <2>1, FS_Subset
  <2>3. Cardinality(Below(y)) <= Cardinality(Below(x)) /\ Cardinality(Below(y)) # Cardinality(Below(x))
    <3> HIDE DEF Below
    <3> QED
      BY <2>1, <2>2, FS_Subset
  <2>4. rank[x] \in Nat /\ rank[y] \in Nat
    BY <1>1, <1>2
  <2>5. rank[x] = Cardinality(Below(x)) /\ rank[y] = Cardinality(Below(y))
    OBVIOUS
  <2> HIDE DEF rank, Below
  <2> QED
    BY <2>3, <2>4, <2>5
<1>4. ASSUME NEW x \in S, NEW y \in S, rank[x] = rank[y] PROVE x = y
  <2>1. rank[x] \in Nat
    BY <1>1, <1>2
  <2>2. ~(rank[x] < rank[y]) /\ ~(rank[y] < rank[x])
    BY <1>4, <2>1
  <2> HIDE DEF rank
  <2> QED
    BY <1>3, <2>2
<1>5. rank \in Injection(S, T)
  BY <1>2, <1>4 DEF Injection, IsInjective
<1>6. IsFiniteSet(T) /\ Cardinality(T) = c
  <2>1. 0 \in Int /\ c - 1 \in Int /\ (IF 0 > c - 1 THEN 0 ELSE (c - 1) - 0 + 1) = c
    BY <1>1
  <2> HIDE DEF c
  <2> QED
    BY <2>1, FS_Interval
<1>7. rank \in Surjection(S, T)
  <2> HIDE DEF rank, T
  <2> QED
    BY <1>5, <1>6, FS_Injection
<1>8. ASSUME NEW n \in 1..c PROVE Ordered(S, R)[n] \in S /\ rank[Ordered(S, R)[n]] = n - 1
  <2>1. n - 1 \in T
    BY <1>1
  <2>2. \E x \in S : rank[x] = n - 1
    <3> HIDE DEF rank, T
    <3> QED
      BY <1>7, <2>1 DEF Surjection
  <2>3. \E x \in S : Cardinality(Below(x)) = n - 1
    BY <2>2
  <2>4. Ordered(S, R)[n] = CHOOSE x \in S : Cardinality(Below(x)) = n - 1
    BY DEF Ordered
  <2>5. Ordered(S, R)[n] \in S /\ Cardinality(Below(Ordered(S, R)[n])) = n - 1
    <3> HIDE DEF Below
    <3> QED
      BY <2>3, <2>4
  <2> QED
    BY <2>5
<1>9. Ordered(S, R) \in [1..c -> S]
  BY <1>8 DEF Ordered
<1>10. ASSUME NEW m \in 1..c, NEW n \in 1..c, Ordered(S, R)[m] = Ordered(S, R)[n] PROVE m = n
  <2>1. m - 1 = n - 1
    <3> HIDE DEF rank, c
    <3> QED
      BY <1>8, <1>10
  <2> QED
    BY <2>1, <1>1
<1>11. ASSUME NEW x \in S PROVE \E n \in 1..c : Ordered(S, R)[n] = x
  <2>1. rank[x] \in T
    BY <1>2
  <2>2. rank[x] + 1 \in 1..c /\ (rank[x] + 1) - 1 = rank[x]
    <3> HIDE DEF rank, c
    <3> QED
      BY <1>1, <2>1
  <2>3. Ordered(S, R)[rank[x] + 1] \in S /\ rank[Ordered(S, R)[rank[x] + 1]] = rank[x]
    <3> HIDE DEF rank, c
    <3> QED
      BY <1>8, <2>2
  <2>4. Ordered(S, R)[rank[x] + 1] = x
    BY <1>4, <2>3
  <2> HIDE DEF rank, c
  <2> QED
    BY <2>2, <2>4
<1> QED
  BY <1>1, <1>9, <1>10, <1>11

-----------------------------------------------------------------------------
(* The status history.                                                     *)

Statuses == {"awaiting_user", "approved", "rejected", "expired", "invalidated", "consumed",
             "running", "succeeded", "failed"}
StatusRecord == [id : Ids, status : Statuses, retainUntil : Nat]

\* A history has one record of an id at most.
Histories ==
  {h \in Seq(StatusRecord) : \A k, l \in DOMAIN h : h[k].id = h[l].id => k = l}
Written(t, i, status) == [id |-> i, status |-> status, retainUntil |-> t + RetainTTL]

\* The chosen positions of a history, in order.
LEMMA SelectedFacts ==
  ASSUME NEW h \in Histories, NEW K \in SUBSET DOMAIN h
  PROVE  /\ Selected(h, K) \in Histories
         /\ Range(Selected(h, K)) = {h[k] : k \in K}
<1> DEFINE R == {p \in K \X K : p[1] < p[2]}
           order == Ordered(K, R)
           c == Cardinality(K)
           g == Selected(h, K)
<1>1. h \in Seq(StatusRecord) /\ DOMAIN h = 1..Len(h) /\ Len(h) \in Nat
  BY DEF Histories
<1>2. IsFiniteSet(K)
  <2>1. IsFiniteSet(1..Len(h))
    BY <1>1, FS_Interval
  <2> QED
    BY <1>1, <2>1, FS_Subset
<1>3. \A x \in K : x \in Nat
  BY <1>1
<1>4. /\ \A x, y, z \in K : <<x, y>> \in R /\ <<y, z>> \in R => <<x, z>> \in R
      /\ \A x \in K : <<x, x>> \notin R
      /\ \A x, y \in K : x # y => <<x, y>> \in R \/ <<y, x>> \in R
  BY <1>3
<1>5. /\ order \in [1..c -> K] /\ c \in Nat
      /\ \A m, n \in 1..c : order[m] = order[n] => m = n
      /\ \A x \in K : \E n \in 1..c : order[n] = x
  <2> HIDE DEF R
  <2> QED
    BY <1>2, <1>4, OrderedFacts
<1>6. g = [n \in 1..c |-> h[order[n]]]
  BY <1>5 DEF Selected
<1> HIDE DEF order, c, g
<1>7. g \in Seq(StatusRecord) /\ DOMAIN g = 1..c
  BY <1>1, <1>5, <1>6
<1>8. \A k, l \in DOMAIN g : g[k].id = g[l].id => k = l
  BY <1>1, <1>5, <1>6, <1>7 DEF Histories
<1>9. Range(g) = {h[k] : k \in K}
  BY <1>5, <1>6, <1>7 DEF Range
<1> QED
  BY <1>7, <1>8, <1>9 DEF g, Histories

\* There is room for every record, if there are no more ids than that.
Room(h, m) == \A r \in Range(h) : r.id <= m

\* What a record leaves in the history: itself, none other of its id, and,
\* where there is room, every other that is still retained.
LEMMA RecordFacts ==
  ASSUME NEW h \in Histories, NEW t \in Nat, NEW i \in Ids, NEW status \in Statuses
  PROVE  LET g == Record(h, t, i, status) IN
         /\ g \in Histories
         /\ Range(g) \subseteq {r \in Range(h) : r.id # i} \cup {Written(t, i, status)}
         /\ Written(t, i, status) \in Range(g)
         /\ \A m \in 1..MaxEntries : i <= m /\ Room(h, m) =>
              {r \in Range(h) : r.id # i /\ r.retainUntil > t} \subseteq Range(g)
<1> DEFINE retained == Retained(h, t, i)
           kept == {k \in retained : Cardinality({j \in retained : j >= k}) < MaxEntries}
           s == Selected(h, kept)
           new == Written(t, i, status)
           g == Record(h, t, i, status)
<1>1. /\ h \in Seq(StatusRecord) /\ DOMAIN h = 1..Len(h) /\ Len(h) \in Nat
      /\ \A k, l \in DOMAIN h : h[k].id = h[l].id => k = l
  BY DEF Histories
<1>2. retained \in SUBSET DOMAIN h /\ \A k \in retained : h[k].id # i
  BY DEF Retained
<1>3. kept \in SUBSET retained /\ kept \in SUBSET DOMAIN h
  BY <1>2
<1>4. s \in Histories /\ Range(s) = {h[k] : k \in kept}
  <2> HIDE DEF kept
  <2> QED
    BY <1>3, SelectedFacts
<1>5. g = Append(s, new)
  BY DEF Record, Written
<1>6. new \in StatusRecord /\ new.id = i
  <2>1. t + RetainTTL \in Nat
    BY StoreAssumption
  <2> QED
    BY <2>1 DEF Written, StatusRecord
<1> HIDE DEF s, new, kept, retained
<1>7. \A r \in Range(s) : r.id # i
  BY <1>2, <1>3, <1>4
<1>8. s \in Seq(StatusRecord) /\ Len(s) \in Nat /\ DOMAIN s = 1..Len(s)
  BY <1>4 DEF Histories
<1>9. /\ g \in Seq(StatusRecord) /\ DOMAIN g = 1..Len(s) + 1
      /\ \A k \in 1..Len(s) : g[k] = s[k]
      /\ g[Len(s) + 1] = new
  <2> HIDE DEF g
  <2>1. g \in Seq(StatusRecord) /\ Len(g) = Len(s) + 1
    BY <1>5, <1>6, <1>8, AppendProperties
  <2>2. (\A k \in 1..Len(s) : g[k] = s[k]) /\ g[Len(s) + 1] = new
    BY <1>5, <1>6, <1>8, AppendProperties
  <2> QED
    BY <2>1, <2>2
<1> HIDE DEF g
<1>10. Range(g) = Range(s) \cup {new}
  <2>1. \A x \in Range(g) : x \in Range(s) \/ x = new
    BY <1>8, <1>9 DEF Range
  <2>2. \A x \in Range(s) : x \in Range(g)
    <3> SUFFICES ASSUME NEW k \in 1..Len(s) PROVE s[k] \in Range(g)
      BY <1>8 DEF Range
    <3>1. k \in 1..Len(s) + 1 /\ g[k] = s[k]
      BY <1>8, <1>9
    <3> QED
      BY <1>9, <3>1 DEF Range
  <2>3. new \in Range(g)
    <3>1. Len(s) + 1 \in 1..Len(s) + 1
      BY <1>8
    <3> QED
      BY <1>9, <3>1 DEF Range
  <2> QED
    BY <2>1, <2>2, <2>3
<1>11. g \in Histories
  <2> SUFFICES ASSUME NEW k \in 1..Len(s) + 1, NEW l \in 1..Len(s) + 1, g[k].id = g[l].id PROVE k = l
    BY <1>9 DEF Histories
  <2>1. (k \in 1..Len(s) \/ k = Len(s) + 1) /\ (l \in 1..Len(s) \/ l = Len(s) + 1)
    BY <1>8
  <2>2. \A n \in 1..Len(s) : g[n] = s[n] /\ s[n].id # i
    BY <1>7, <1>8, <1>9 DEF Range
  <2>3. \A n, o \in 1..Len(s) : s[n].id = s[o].id => n = o
    BY <1>4, <1>8 DEF Histories
  <2> QED
    BY <1>6, <1>9, <2>1, <2>2, <2>3
<1>12. Range(s) \subseteq {r \in Range(h) : r.id # i}
  BY <1>3, <1>4, <1>7 DEF Range
<1>13. ASSUME NEW m \in 1..MaxEntries, i <= m, Room(h, m)
       PROVE  {r \in Range(h) : r.id # i /\ r.retainUntil > t} \subseteq Range(g)
  <2> DEFINE J == (1..m) \ {i}
             f == [k \in retained |-> h[k].id]
  <2>1. MaxEntries \in Nat /\ m \in Nat /\ m <= MaxEntries /\ i \in 1..m
    BY <1>13, StoreAssumption DEF Ids
  <2>2. IsFiniteSet(J) /\ Cardinality(J) = m - 1
    <3>1. IsFiniteSet(1..m) /\ Cardinality(1..m) = m
      <4>1. 1 \in Int /\ m \in Int /\ (IF 1 > m THEN 0 ELSE m - 1 + 1) = m
        BY <2>1
      <4> QED
        BY <4>1, FS_Interval
    <3> QED
      BY <2>1, <3>1, FS_RemoveElement
  <2>3. f \in Injection(retained, J)
    <3>1. \A k \in retained : h[k].id \in Nat /\ h[k].id >= 1 /\ h[k].id <= m /\ h[k].id # i
      <4>1. \A k \in retained : h[k] \in StatusRecord /\ h[k] \in Range(h)
        BY <1>1, <1>2 DEF Range
      <4>2. \A k \in retained : h[k].id \in Ids
        BY <4>1 DEF StatusRecord
      <4> QED
        BY <1>2, <1>13, <4>1, <4>2 DEF Room, Ids
    <3>2. f \in [retained -> J]
      BY <2>1, <3>1
    <3>3. \A k, l \in retained : f[k] = f[l] => k = l
      BY <1>1, <1>2
    <3> HIDE DEF f, J
    <3> QED
      BY <3>2, <3>3 DEF Injection, IsInjective
  <2>4. IsFiniteSet(retained) /\ Cardinality(retained) <= m - 1
    <3> HIDE DEF f, J
    <3> QED
      BY <2>2, <2>3, FS_Injection
  <2>5. kept = retained
    <3> SUFFICES ASSUME NEW k \in retained
                 PROVE  Cardinality({j \in retained : j >= k}) < MaxEntries
      BY DEF kept
    <3> DEFINE U == {j \in retained : j >= k}
    <3>1. U \in SUBSET retained
      OBVIOUS
    <3> HIDE DEF U
    <3>2. IsFiniteSet(U) /\ Cardinality(U) <= Cardinality(retained)
      BY <2>4, <3>1, FS_Subset
    <3>3. Cardinality(U) \in Nat /\ Cardinality(retained) \in Nat
      BY <2>4, <3>2, FS_CardinalityType
    <3>4. Cardinality(U) < MaxEntries
      BY <2>1, <2>4, <3>2, <3>3
    <3> QED
      BY <3>4 DEF U
  <2> SUFFICES ASSUME NEW k \in DOMAIN h, h[k].id # i, h[k].retainUntil > t PROVE h[k] \in Range(g)
    BY DEF Range
  <2>6. k \in retained
    BY DEF retained, Retained
  <2> QED
    BY <1>4, <1>10, <2>5, <2>6
<1> QED
  BY <1>10, <1>11, <1>12, <1>13 DEF g, new

\* A sequence of records about distinct ids.
Batches ==
  {recs \in Seq(Ids \X Statuses) :
     \A k, l \in DOMAIN recs : recs[k][1] = recs[l][1] => k = l}
One(g, t, r) == Record(g, t, r[1], r[2])

\* The first n of the records recs are in the history, made of h.
Recorded(h, g, t, recs, n) ==
  /\ g \in Histories
  /\ \A r \in Range(g) : \/ r \in Range(h) /\ \A k \in 1..n : r.id # recs[k][1]
                         \/ \E k \in 1..n : r = Written(t, recs[k][1], recs[k][2])
  /\ \A m \in 1..MaxEntries : Room(h, m) /\ (\A k \in DOMAIN recs : recs[k][1] <= m) =>
       /\ \A k \in 1..n : Written(t, recs[k][1], recs[k][2]) \in Range(g)
       /\ \A r \in Range(h) : r.retainUntil > t /\ (\A k \in 1..n : r.id # recs[k][1]) => r \in Range(g)

LEMMA OneRecorded ==
  ASSUME NEW h \in Histories, NEW t \in Nat, NEW recs \in Batches, NEW g,
         NEW n \in Nat, n + 1 \in DOMAIN recs, Recorded(h, g, t, recs, n)
  PROVE  Recorded(h, One(g, t, recs[n + 1]), t, recs, n + 1)
<1> DEFINE i == recs[n + 1][1]
           status == recs[n + 1][2]
           u == One(g, t, recs[n + 1])
           new == Written(t, i, status)
<1>1. DOMAIN recs = 1..Len(recs) /\ Len(recs) \in Nat /\ \A k \in DOMAIN recs : recs[k] \in Ids \X Statuses
  BY DEF Batches
<1>2. i \in Ids /\ status \in Statuses /\ g \in Histories
  BY <1>1 DEF Recorded
<1>3. /\ u \in Histories
      /\ Range(u) \subseteq {r \in Range(g) : r.id # i} \cup {new}
      /\ new \in Range(u)
      /\ \A m \in 1..MaxEntries : i <= m /\ Room(g, m) =>
           {r \in Range(g) : r.id # i /\ r.retainUntil > t} \subseteq Range(u)
  BY <1>2, RecordFacts DEF One
<1>4. /\ \A k \in 1..n : k \in 1..n + 1 /\ k \in DOMAIN recs /\ k # n + 1
      /\ n + 1 \in 1..n + 1 /\ \A k \in 1..n + 1 : k \in 1..n \/ k = n + 1
  BY <1>1
<1>5. \A k \in 1..n : recs[k][1] # i
  BY <1>4 DEF Batches
<1> HIDE DEF u
<1>6. \A r \in Range(u) : \/ r \in Range(h) /\ \A k \in 1..n + 1 : r.id # recs[k][1]
                          \/ \E k \in 1..n + 1 : r = Written(t, recs[k][1], recs[k][2])
  <2> SUFFICES ASSUME NEW r \in Range(u), r # new
               PROVE  \/ r \in Range(h) /\ \A k \in 1..n + 1 : r.id # recs[k][1]
                      \/ \E k \in 1..n + 1 : r = Written(t, recs[k][1], recs[k][2])
    BY <1>4
  <2>1. r \in Range(g) /\ r.id # i
    BY <1>3
  <2>2. \/ r \in Range(h) /\ \A k \in 1..n : r.id # recs[k][1]
        \/ \E k \in 1..n : r = Written(t, recs[k][1], recs[k][2])
    BY <2>1 DEF Recorded
  <2> QED
    BY <1>4, <2>1, <2>2
<1>7. ASSUME NEW m \in 1..MaxEntries, Room(h, m), \A k \in DOMAIN recs : recs[k][1] <= m
      PROVE  /\ \A k \in 1..n + 1 : Written(t, recs[k][1], recs[k][2]) \in Range(u)
             /\ \A r \in Range(h) : r.retainUntil > t /\ (\A k \in 1..n + 1 : r.id # recs[k][1])
                                      => r \in Range(u)
  <2>1. Room(g, m)
    <3> SUFFICES ASSUME NEW r \in Range(g) PROVE r.id <= m
      BY DEF Room
    <3>1. CASE r \in Range(h)
      BY <1>7, <3>1 DEF Room
    <3>2. CASE \E k \in 1..n : r = Written(t, recs[k][1], recs[k][2])
      BY <1>4, <1>7, <3>2 DEF Written
    <3> QED
      BY <3>1, <3>2 DEF Recorded
  <2>2. {r \in Range(g) : r.id # i /\ r.retainUntil > t} \subseteq Range(u)
    BY <1>3, <1>7, <2>1
  <2>3. t + RetainTTL > t
    BY StoreAssumption, ConfirmationsAssumption
  <2>4. ASSUME NEW k \in 1..n PROVE Written(t, recs[k][1], recs[k][2]) \in Range(u)
    <3> DEFINE w == Written(t, recs[k][1], recs[k][2])
    <3>1. w \in Range(g)
      BY <1>7 DEF Recorded
    <3>2. w.id # i /\ w.retainUntil > t
      BY <1>5, <2>3 DEF Written
    <3> HIDE DEF w
    <3>3. w \in Range(u)
      BY <2>2, <3>1, <3>2
    <3> QED
      BY <3>3 DEF w
  <2>5. ASSUME NEW r \in Range(h), r.retainUntil > t, \A k \in 1..n + 1 : r.id # recs[k][1]
        PROVE  r \in Range(u)
    <3>1. r \in Range(g)
      BY <1>4, <1>7, <2>5 DEF Recorded
    <3> QED
      BY <1>4, <2>2, <2>5, <3>1
  <2> QED
    BY <1>3, <1>4, <2>4, <2>5
<1> QED
  BY <1>3, <1>6, <1>7 DEF Recorded, u

\* The definition of RecordAll, expanded.
LEMMA RecordAllShape ==
  ASSUME NEW h, NEW t, NEW recs
  PROVE  RecordAll(h, t, recs) =
           (CHOOSE fold : fold =
              [s \in SUBSET DOMAIN recs |->
                 IF s = {} THEN h
                 ELSE One(fold[s \ {Max(s)}], t, recs[Max(s)])])[DOMAIN recs]
BY DEF RecordAll, FoldLeft, MapThenFoldSet, One

LEMMA AllRecorded ==
  ASSUME NEW h \in Histories, NEW t \in Nat, NEW recs \in Batches
  PROVE  Recorded(h, RecordAll(h, t, recs), t, recs, Len(recs))
<1> DEFINE S == DOMAIN recs
           Newest == [s \in SUBSET S |-> Max(s)]
           G == [z \in S \X Histories |-> One(z[2], t, recs[z[1]])]
           fold == CHOOSE f : f = [s \in SUBSET S |-> IF s = {} THEN h
                                     ELSE One(f[s \ {Max(s)}], t, recs[Max(s)])]
<1>1. S = 1..Len(recs) /\ Len(recs) \in Nat /\ \A k \in S : recs[k] \in Ids \X Statuses
  BY DEF Batches
<1>2. IsFiniteSet(S)
  BY <1>1, FS_Interval
<1>3. \A s \in SUBSET S : s # {} => Max(s) \in s /\ \A i \in s : Max(s) >= i
  <2> SUFFICES ASSUME NEW s \in SUBSET S, s # {}
               PROVE  Max(s) \in s /\ \A i \in s : Max(s) >= i
    OBVIOUS
  <2>1. \E x \in s : \A y \in s : y <= x
    BY <1>1, GreatestExists
  <2>2. \E x \in s : \A y \in s : x >= y
    BY <1>1, <2>1
  <2> QED
    BY <2>2 DEF Max
<1>4. Chooses(Newest, S)
  BY <1>3 DEF Chooses
<1>5. G \in [S \X Histories -> Histories]
  <2>1. ASSUME NEW k \in S, NEW g \in Histories PROVE One(g, t, recs[k]) \in Histories
    <3>1. recs[k][1] \in Ids /\ recs[k][2] \in Statuses
      BY <1>1
    <3> QED
      BY <3>1, RecordFacts DEF One
  <2> HIDE DEF S
  <2> QED
    BY <2>1
<1>6. PICK f \in [SUBSET S -> Histories] : IsFold(f, S, h, Newest, G)
  <2> HIDE DEF S, Newest, G
  <2> QED
    BY <1>2, <1>4, <1>5, FoldExists
<1>7. ASSUME NEW s \in SUBSET S, s # {}
      PROVE  f[s] = One(f[s \ {Max(s)}], t, recs[Max(s)])
  <2>1. Newest[s] = Max(s) /\ Max(s) \in S /\ s \ {Max(s)} \in SUBSET S
    BY <1>3, <1>7
  <2>2. f[s \ {Max(s)}] \in Histories
    BY <1>6, <2>1
  <2>3. f[s] = G[<<Max(s), f[s \ {Max(s)}]>>]
    <3> HIDE DEF S, Newest, G
    <3> QED
      BY <1>6, <1>7, <2>1 DEF IsFold
  <2> QED
    BY <2>1, <2>2, <2>3
<1>8. f[{}] = h
  <2> HIDE DEF S, Newest, G
  <2> QED
    BY <1>6 DEF IsFold
<1>9. fold = [s \in SUBSET S |-> IF s = {} THEN h ELSE One(fold[s \ {Max(s)}], t, recs[Max(s)])]
  <2>1. f = [s \in SUBSET S |-> IF s = {} THEN h ELSE One(f[s \ {Max(s)}], t, recs[Max(s)])]
    <3> HIDE DEF S, Newest, G
    <3> QED
      BY <1>6, <1>7, <1>8
  <2> HIDE DEF S
  <2> QED
    BY <2>1
<1>10. \A s \in SUBSET S : fold[s] = IF s = {} THEN h ELSE One(fold[s \ {Max(s)}], t, recs[Max(s)])
  <2> HIDE DEF S, fold
  <2> QED
    BY <1>9
<1>11. RecordAll(h, t, recs) = fold[S]
  BY RecordAllShape
<1> HIDE DEF fold, Newest, G
<1> DEFINE Bad == {n \in Nat : n <= Len(recs) /\ ~Recorded(h, fold[1..n], t, recs, n)}
<1>12. Recorded(h, fold[1..0], t, recs, 0)
  <2>1. fold[1..0] = h
    <3>1. 1..0 = {} /\ {} \in SUBSET S
      OBVIOUS
    <3> HIDE DEF S
    <3> QED
      BY <1>10, <3>1
  <2>2. Recorded(h, h, t, recs, 0)
    BY DEF Recorded
  <2> QED
    BY <2>1, <2>2
<1>13. Bad = {}
  <2> SUFFICES ASSUME Bad # {} PROVE FALSE
    OBVIOUS
  <2>1. PICK n \in Bad : \A k \in Bad : n <= k
    <3>1. Bad \subseteq Nat
      OBVIOUS
    <3> HIDE DEF Bad
    <3> QED
      BY <3>1, LeastExists
  <2>2. n \in Nat /\ n <= Len(recs) /\ ~Recorded(h, fold[1..n], t, recs, n)
    BY <2>1
  <2>3. n # 0
    BY <1>12, <2>2
  <2>4. n - 1 \in Nat /\ n - 1 <= Len(recs) /\ ~(n <= n - 1) /\ (n - 1) + 1 = n /\ n \in S
    BY <1>1, <2>2, <2>3
  <2>5. n - 1 \notin Bad
    <3> HIDE DEF Bad
    <3> QED
      BY <2>1, <2>4
  <2>6. Recorded(h, fold[1..n - 1], t, recs, n - 1)
    BY <2>4, <2>5
  <2>7. 1..n \in SUBSET S /\ 1..n # {} /\ Max(1..n) = n /\ (1..n) \ {n} = 1..n - 1
    <3>1. 1..n \in SUBSET S /\ 1..n # {} /\ n \in 1..n
      BY <1>1, <2>2, <2>3
    <3>2. Max(1..n) \in 1..n /\ Max(1..n) >= n
      BY <1>3, <3>1
    <3>3. Max(1..n) = n
      BY <2>2, <3>2
    <3>4. (1..n) \ {n} = 1..n - 1
      BY <2>2, <2>3
    <3> QED
      BY <3>1, <3>3, <3>4
  <2>8. fold[1..n] = One(fold[1..n - 1], t, recs[n])
    <3> HIDE DEF S
    <3> QED
      BY <1>10, <2>7
  <2>9. Recorded(h, fold[1..n], t, recs, n)
    <3>1. (n - 1) + 1 \in DOMAIN recs
      BY <2>4
    <3>2. Recorded(h, One(fold[1..n - 1], t, recs[(n - 1) + 1]), t, recs, (n - 1) + 1)
      BY <2>4, <2>6, <3>1, OneRecorded
    <3> QED
      BY <2>4, <2>8, <3>2
  <2> QED
    BY <2>2, <2>9
<1>14. Recorded(h, fold[1..Len(recs)], t, recs, Len(recs))
  BY <1>1, <1>13
<1> QED
  BY <1>1, <1>11, <1>14

\* The records a are about the ids S, each once, with the status f gives.
Lists(a, S, f) ==
  /\ a \in Batches
  /\ {a[k][1] : k \in DOMAIN a} = S
  /\ \A k \in DOMAIN a : a[k][2] = f[a[k][1]]

LEMMA ListsConcat ==
  ASSUME NEW a, NEW b, NEW S, NEW T, NEW f, Lists(a, S, f), Lists(b, T, f), S \cap T = {}
  PROVE  Lists(a \o b, S \cup T, f)
<1> DEFINE c == a \o b
<1>1. /\ a \in Seq(Ids \X Statuses) /\ DOMAIN a = 1..Len(a) /\ Len(a) \in Nat
      /\ b \in Seq(Ids \X Statuses) /\ DOMAIN b = 1..Len(b) /\ Len(b) \in Nat
  BY DEF Lists, Batches
<1>2. /\ c \in Seq(Ids \X Statuses) /\ DOMAIN c = 1..Len(a) + Len(b)
      /\ \A i \in 1..Len(a) + Len(b) : c[i] = IF i <= Len(a) THEN a[i] ELSE b[i - Len(a)]
  <2>1. c \in Seq(Ids \X Statuses) /\ Len(c) = Len(a) + Len(b)
    BY <1>1, ConcatProperties
  <2>2. \A i \in 1..Len(a) + Len(b) : c[i] = IF i <= Len(a) THEN a[i] ELSE b[i - Len(a)]
    BY <1>1, ConcatProperties
  <2> HIDE DEF c
  <2> QED
    BY <2>1, <2>2
<1> HIDE DEF c
<1>3. ASSUME NEW i \in DOMAIN c
      PROVE  \/ i \in DOMAIN a /\ i <= Len(a) /\ c[i] = a[i]
             \/ i - Len(a) \in DOMAIN b /\ ~(i <= Len(a)) /\ c[i] = b[i - Len(a)]
  BY <1>1, <1>2
<1>4. ASSUME NEW i \in DOMAIN a PROVE i \in DOMAIN c /\ c[i] = a[i]
  BY <1>1, <1>2
<1>5. ASSUME NEW i \in DOMAIN b PROVE i + Len(a) \in DOMAIN c /\ c[i + Len(a)] = b[i]
  BY <1>1, <1>2
<1>6. (\A i \in DOMAIN a : a[i][1] \in S) /\ (\A i \in DOMAIN b : b[i][1] \in T)
  BY DEF Lists
<1>7. ASSUME NEW i \in DOMAIN c, NEW j \in DOMAIN c, c[i][1] = c[j][1] PROVE i = j
  <2>1. \/ i \in DOMAIN a /\ j \in DOMAIN a /\ a[i][1] = a[j][1]
        \/ i - Len(a) \in DOMAIN b /\ j - Len(a) \in DOMAIN b /\ b[i - Len(a)][1] = b[j - Len(a)][1]
    BY <1>3, <1>6, <1>7
  <2>2. i = j \/ i - Len(a) = j - Len(a)
    BY <2>1 DEF Lists, Batches
  <2> QED
    BY <1>1, <1>2, <2>2
<1>8. {c[k][1] : k \in DOMAIN c} = S \cup T
  <2>1. \A x \in S : \E k \in DOMAIN c : x = c[k][1]
    BY <1>4 DEF Lists
  <2>2. \A x \in T : \E k \in DOMAIN c : x = c[k][1]
    BY <1>5 DEF Lists
  <2>3. \A k \in DOMAIN c : c[k][1] \in S \cup T
    BY <1>3, <1>6
  <2> QED
    BY <2>1, <2>2, <2>3
<1>9. \A k \in DOMAIN c : c[k][2] = f[c[k][1]]
  BY <1>3 DEF Lists
<1>10. c \in Batches
  BY <1>2, <1>7 DEF Batches
<1> QED
  BY <1>8, <1>9, <1>10 DEF Lists, c

LEMMA ListsNone == ASSUME NEW f PROVE Lists(<<>>, {}, f)
<1>1. <<>> \in Batches
  BY DEF Batches
<1> QED
  BY <1>1 DEF Lists

LEMMA ListsOne ==
  ASSUME NEW i \in Ids, NEW f, f[i] \in Statuses
  PROVE  Lists(<< <<i, f[i]>> >>, {i}, f)
<1> DEFINE a == << <<i, f[i]>> >>
<1>1. a \in Seq(Ids \X Statuses) /\ DOMAIN a = {1} /\ a[1] = <<i, f[i]>>
  OBVIOUS
<1> HIDE DEF a
<1>2. a \in Batches
  BY <1>1 DEF Batches
<1> QED
  BY <1>1, <1>2 DEF Lists, a

LEMMA ListsAllAs ==
  ASSUME TypeOK, NEW S \in SUBSET Ids, NEW status \in Statuses, NEW f, \A i \in S : f[i] = status
  PROVE  Lists(AllAs(S, status), S, f)
<1> DEFINE R == {p \in S \X S : \/ entry[p[1]].expiresAt < entry[p[2]].expiresAt
                                \/ entry[p[1]].expiresAt = entry[p[2]].expiresAt /\ p[1] < p[2]}
           order == InOrder(S)
           c == Cardinality(S)
           a == AllAs(S, status)
<1>1. IsFiniteSet(S)
  <2>1. IsFiniteSet(1..MaxRequests)
    BY ConfirmationsAssumption, FS_Interval
  <2> QED
    BY <2>1, FS_Subset DEF Ids
<1>2. \A x \in S : x \in Nat /\ entry[x].expiresAt \in Nat
  BY DEF TypeOK, Ids
<1>3. /\ \A x, y, z \in S : <<x, y>> \in R /\ <<y, z>> \in R => <<x, z>> \in R
      /\ \A x \in S : <<x, x>> \notin R
      /\ \A x, y \in S : x # y => <<x, y>> \in R \/ <<y, x>> \in R
  BY <1>2
<1>4. order = Ordered(S, R)
  BY DEF InOrder
<1>5. /\ order \in [1..c -> S] /\ c \in Nat
      /\ \A m, n \in 1..c : order[m] = order[n] => m = n
      /\ \A x \in S : \E n \in 1..c : order[n] = x
  <2> HIDE DEF R, order
  <2> QED
    BY <1>1, <1>3, <1>4, OrderedFacts
<1>6. a = [k \in 1..c |-> <<order[k], status>>]
  BY <1>5 DEF AllAs
<1> HIDE DEF a, order, c
<1>7. a \in Seq(Ids \X Statuses) /\ DOMAIN a = 1..c
  BY <1>5, <1>6
<1>8. \A k \in DOMAIN a : a[k][1] = order[k] /\ a[k][2] = status /\ order[k] \in S
  BY <1>5, <1>6
<1>9. a \in Batches
  BY <1>5, <1>7, <1>8 DEF Batches
<1>10. {a[k][1] : k \in DOMAIN a} = S
  BY <1>5, <1>7, <1>8
<1> QED
  BY <1>8, <1>9, <1>10 DEF Lists, a

Expired == Stale(pending) \cup Stale(approved)

LEMMA ListsExpiries ==
  ASSUME IInv, NEW f, \A i \in Expired : f[i] = "expired"
  PROVE  Lists(Expiries, Expired, f)
<1>1. TypeOK /\ Stale(pending) \in SUBSET Ids /\ Stale(approved) \in SUBSET Ids
      /\ Stale(pending) \cap Stale(approved) = {}
  BY DEF IInv, TypeOK, PlaceInv, Stale
<1>2. "expired" \in Statuses
  BY DEF Statuses
<1>3. Lists(AllAs(Stale(pending), "expired"), Stale(pending), f)
  BY <1>1, <1>2, ListsAllAs DEF Expired
<1>4. Lists(AllAs(Stale(approved), "expired"), Stale(approved), f)
  BY <1>1, <1>2, ListsAllAs DEF Expired
<1> QED
  BY <1>1, <1>3, <1>4, ListsConcat DEF Expiries, Expired

-----------------------------------------------------------------------------
(* What the history says.                                                  *)

Carried(i, phase) == \E c \in Calls : call[c].phase = phase /\ call[c].id = i
Told(i, status) ==
  /\ status = "awaiting_user" <=> i \in pending
  /\ status = "approved" <=> i \in approved
  /\ status = "consumed" <=> Carried(i, "authorized")
  /\ status = "running" <=> Carried(i, "running")

HistoryInv ==
  /\ history \in Histories
  /\ \A r \in Range(history) : r.id <= issued /\ Told(r.id, r.status)
  /\ issued <= MaxEntries => \A i \in Fresh(pending \cup approved) :
       \E r \in Range(history) : r.id = i /\ r.retainUntil >= entry[i].expiresAt
  /\ DOMAIN watch = Watchers
  /\ \A w \in Watchers : watch[w] # NoWatch =>
       \A r \in Range(history) : r.id = watch[w].id => r.status = watch[w].seen

Unmoved(i) ==
  /\ i \in pending' <=> i \in pending
  /\ i \in approved' <=> i \in approved
  /\ Carried(i, "authorized")' <=> Carried(i, "authorized")
  /\ Carried(i, "running")' <=> Carried(i, "running")

LEMMA UnmovedTold ==
  ASSUME NEW i, Unmoved(i), NEW status, Told(i, status)
  PROVE  Told(i, status)'
BY DEF Unmoved, Told

\* A step whose records are true, of ids that it moves, keeps the history true.
LEMMA ReportKeeps ==
  ASSUME IInv, HistoryInv, NEW recs, NEW S \in SUBSET Ids, NEW f,
         Lists(Expiries \o recs, S, f), Report(recs),
         now' = now, issued' \in 0..MaxRequests, issued <= issued', \A i \in S : i <= issued',
         \A i \in S : Told(i, f[i])',
         \A i \in Ids \ S : Unmoved(i),
         \A i \in (pending \cup approved)' :
           /\ i \in Ids
           /\ entry'[i].expiresAt \in Nat
           /\ i \in S => entry'[i].expiresAt <= now + RetainTTL
           /\ i \notin S => i \in pending \cup approved /\ entry'[i] = entry[i]
  PROVE  HistoryInv'
<1> DEFINE all == Expiries \o recs
           g == RecordAll(history, now, all)
           n == Len(all)
<1>1. all \in Batches /\ n \in Nat /\ DOMAIN all = 1..n /\ history \in Histories /\ now \in Nat
  BY DEF Lists, Batches, HistoryInv, IInv, TypeOK
<1>2. Recorded(history, g, now, all, n)
  <2> HIDE DEF all
  <2> QED
    BY <1>1, AllRecorded
<1>3. history' = g /\ watch' = Woken(S)
  BY DEF Report, Lists
<1>4. /\ \A k \in 1..n : all[k][1] \in S /\ all[k][2] = f[all[k][1]]
      /\ \A i \in S : \E k \in 1..n : all[k][1] = i
  <2> HIDE DEF all
  <2>1. Lists(all, S, f)
    BY DEF all
  <2> QED
    BY <1>1, <2>1 DEF Lists
<1> HIDE DEF all, g, n
<1>5. ASSUME NEW r \in Range(g)
      PROVE  \/ r \in Range(history) /\ r.id \notin S
             \/ r.id \in S /\ r = Written(now, r.id, f[r.id])
  <2>1. CASE r \in Range(history) /\ \A k \in 1..n : r.id # all[k][1]
    BY <1>4, <2>1
  <2>2. CASE \E k \in 1..n : r = Written(now, all[k][1], all[k][2])
    <3>1. PICK k \in 1..n : r = Written(now, all[k][1], all[k][2])
      BY <2>2
    <3>2. r.id = all[k][1]
      BY <3>1 DEF Written
    <3> QED
      BY <1>4, <3>1, <3>2
  <2> QED
    BY <1>2, <2>1, <2>2 DEF Recorded
<1>6. g \in Histories
  BY <1>2 DEF Recorded
<1>7. \A r \in Range(history) : r \in StatusRecord /\ r.id \in Ids /\ r.id \in Nat /\ r.status \in Statuses
                                /\ r.retainUntil \in Nat
  <2>1. \A r \in Range(history) : r \in StatusRecord
    BY <1>1 DEF Histories, Range
  <2> QED
    BY <2>1 DEF StatusRecord, Ids
<1>8. issued \in Nat /\ issued' \in Nat /\ MaxRequests \in Nat /\ MaxEntries \in Nat /\ MaxEntries >= 1
  BY ConfirmationsAssumption, StoreAssumption DEF IInv, TypeOK
<1>9. ASSUME NEW r \in Range(g) PROVE r.id <= issued' /\ Told(r.id, r.status)'
  <2>1. CASE r \in Range(history) /\ r.id \notin S
    <3>1. r.id <= issued /\ Told(r.id, r.status)
      BY <2>1 DEF HistoryInv
    <3> QED
      BY <1>7, <1>8, <2>1, <3>1, UnmovedTold
  <2>2. CASE r.id \in S /\ r = Written(now, r.id, f[r.id])
    <3>1. r.status = f[r.id]
      BY <2>2 DEF Written
    <3> QED
      BY <2>2, <3>1
  <2> QED
    BY <1>5, <2>1, <2>2
<1>10. ASSUME issued' <= MaxEntries, NEW i \in Fresh(pending \cup approved)'
       PROVE  \E r \in Range(g) : r.id = i /\ r.retainUntil >= entry'[i].expiresAt
  <2> DEFINE m == IF issued' = 0 THEN 1 ELSE issued'
  <2>1. m \in 1..MaxEntries /\ Room(history, m) /\ \A k \in DOMAIN all : all[k][1] <= m
    <3>1. m \in 1..MaxEntries /\ issued' <= m /\ issued <= m
      BY <1>8, <1>10
    <3>2. \A k \in DOMAIN all : all[k][1] \in Nat /\ all[k][1] <= issued'
      <4>1. \A j \in S : j \in Nat /\ j <= issued'
        BY DEF Ids
      <4>2. \A k \in DOMAIN all : all[k][1] \in S
        BY <1>1, <1>4
      <4> QED
        BY <4>1, <4>2
    <3>3. \A r \in Range(history) : r.id \in Nat /\ r.id <= issued
      BY <1>7 DEF HistoryInv
    <3> HIDE DEF m
    <3>4. m \in Nat
      BY <1>8, <3>1
    <3>5. \A k \in DOMAIN all : all[k][1] <= m
      BY <1>8, <3>1, <3>2, <3>4
    <3>6. Room(history, m)
      BY <1>8, <3>1, <3>3, <3>4 DEF Room
    <3> QED
      BY <3>1, <3>5, <3>6
  <2> HIDE DEF m
  <2>2. i \in (pending \cup approved)' /\ entry'[i].expiresAt > now /\ entry'[i].expiresAt \in Nat
    BY DEF Fresh
  <2>3. CASE i \in S
    <3>1. PICK k \in 1..n : all[k][1] = i
      BY <1>4, <2>3
    <3>2. Written(now, all[k][1], all[k][2]) \in Range(g)
      BY <1>2, <2>1 DEF Recorded
    <3>3. entry'[i].expiresAt <= now + RetainTTL /\ now + RetainTTL \in Nat
      BY <1>1, <2>2, <2>3, StoreAssumption
    <3> QED
      BY <2>2, <3>1, <3>2, <3>3 DEF Written
  <2>4. CASE i \notin S
    <3>1. i \in Fresh(pending \cup approved) /\ entry'[i] = entry[i]
      BY <2>2, <2>4 DEF Fresh
    <3>2. issued <= MaxEntries
      BY <1>8, <1>10
    <3>3. PICK r \in Range(history) : r.id = i /\ r.retainUntil >= entry[i].expiresAt
      BY <3>1, <3>2 DEF HistoryInv
    <3>4. r.retainUntil > now
      BY <1>1, <1>7, <2>2, <3>1, <3>3
    <3>5. r \in Range(g)
      BY <1>2, <1>4, <2>1, <2>4, <3>3, <3>4 DEF Recorded
    <3> QED
      BY <3>1, <3>3, <3>5
  <2> QED
    BY <2>3, <2>4
<1>11. ASSUME NEW w \in Watchers, watch'[w] # NoWatch, NEW r \in Range(g), r.id = watch'[w].id
       PROVE  r.status = watch'[w].seen
  <2>1. watch'[w] = watch[w] /\ watch[w].id \notin S
    BY <1>3, <1>11 DEF Woken
  <2>2. r \in Range(history)
    BY <1>5, <1>11, <2>1
  <2> QED
    BY <1>11, <2>1, <2>2 DEF HistoryInv
<1> QED
  BY <1>3, <1>6, <1>9, <1>10, <1>11 DEF HistoryInv, Woken

LEMMA InitHistory == Init => HistoryInv
<1> SUFFICES ASSUME Init PROVE HistoryInv
  OBVIOUS
<1>1. history = <<>> /\ Range(history) = {} /\ history \in Histories
  BY DEF Init, Range, Histories
<1> QED
  BY <1>1, ConfirmationsAssumption DEF Init, HistoryInv, Fresh

LEMMA CallsStay ==
  ASSUME call' = call, NEW i, NEW phase
  PROVE  Carried(i, phase)' <=> Carried(i, phase)
BY DEF Carried

\* The same for the ids S that a step moves besides those that have expired.
LEMMA PruneAndReport ==
  ASSUME IInv, HistoryInv, NEW recs, NEW S \in SUBSET Ids, NEW f,
         Lists(recs, S, f), S \cap Expired = {}, \A i \in Expired : f[i] = "expired",
         Report(recs), now' = now, issued' \in 0..MaxRequests, issued <= issued',
         \A i \in S : i <= issued' /\ Told(i, f[i])',
         \A i \in Expired : i \notin pending' /\ i \notin approved',
         \A i \in Ids \ S : /\ Carried(i, "authorized")' <=> Carried(i, "authorized")
                            /\ Carried(i, "running")' <=> Carried(i, "running"),
         \A i \in Ids \ (S \cup Expired) :
           (i \in pending' <=> i \in pending) /\ (i \in approved' <=> i \in approved),
         \A i \in (pending \cup approved)' :
           /\ i \in Ids
           /\ entry'[i].expiresAt \in Nat
           /\ i \in S => entry'[i].expiresAt <= now + TTL
           /\ i \notin S => entry'[i] = entry[i]
  PROVE  HistoryInv'
<1>1. TypeOK /\ PlaceInv /\ CarryInv /\ Expired \in SUBSET Ids /\ Expired \subseteq pending \cup approved
  BY DEF IInv, TypeOK, Expired, Stale
<1> DEFINE T == Expired \cup S
<1>2. T \in SUBSET Ids /\ Lists(Expiries \o recs, T, f)
  BY <1>1, ListsExpiries, ListsConcat
<1>3. ASSUME NEW i \in Expired PROVE Told(i, f[i])' /\ i <= issued'
  <2>1. i \in pending \cup approved /\ i \in Ids /\ i \notin S /\ i <= issued
    BY <1>1 DEF PlaceInv
  <2>2. ~Carried(i, "authorized") /\ ~Carried(i, "running")
    BY <1>1, <2>1 DEF Carried, CarryInv
  <2>3. f[i] = "expired" /\ i \notin pending' /\ i \notin approved'
    OBVIOUS
  <2>4. ~(Carried(i, "authorized")') /\ ~(Carried(i, "running")')
    BY <2>1, <2>2
  <2>5. Told(i, f[i])'
    BY <2>3, <2>4 DEF Told
  <2>6. i \in Nat /\ issued \in Nat /\ issued' \in Nat
    BY <1>1, <2>1, ConfirmationsAssumption DEF TypeOK, Ids
  <2> QED
    BY <2>1, <2>5, <2>6
<1>4. \A i \in Ids \ T : Unmoved(i)
  BY DEF Unmoved
<1>5. ASSUME NEW i \in (pending \cup approved)'
      PROVE  /\ i \in Ids
             /\ entry'[i].expiresAt \in Nat
             /\ i \in T => entry'[i].expiresAt <= now + RetainTTL
             /\ i \notin T => i \in pending \cup approved /\ entry'[i] = entry[i]
  <2>1. i \in Ids /\ entry'[i].expiresAt \in Nat /\ i \notin Expired
    OBVIOUS
  <2>2. now \in Nat /\ TTL \in Nat /\ RetainTTL \in Nat /\ TTL <= RetainTTL
    BY <1>1, ConfirmationsAssumption, StoreAssumption DEF TypeOK
  <2>3. i \in T => entry'[i].expiresAt <= now + RetainTTL
    BY <2>1, <2>2
  <2> QED
    BY <2>1, <2>3
<1>6. \A i \in T : Told(i, f[i])' /\ i <= issued'
  BY <1>3
<1> HIDE DEF T
<1> QED
  BY <1>2, <1>4, <1>5, <1>6, ReportKeeps

\* Ids in Fresh are those of a set that have not expired.
LEMMA FreshFacts ==
  ASSUME IInv
  PROVE  /\ Fresh(pending) \subseteq pending /\ Fresh(approved) \subseteq approved
         /\ Expired \in SUBSET Ids
         /\ Fresh(pending) \cap Expired = {} /\ Fresh(approved) \cap Expired = {}
         /\ \A i \in pending \ Expired : i \in Fresh(pending)
         /\ \A i \in approved \ Expired : i \in Fresh(approved)
         /\ \A i \in pending \cup approved :
              i \in Ids /\ i <= issued /\ entry[i].expiresAt \in Nat
              /\ ~Carried(i, "authorized") /\ ~Carried(i, "running")
         /\ \A i \in Fresh(pending) : i \notin approved
         /\ \A i \in Fresh(approved) : i \notin pending
         /\ issued \in 0..MaxRequests /\ issued <= issued /\ now \in Nat /\ TTL \in Nat
<1>1. TypeOK /\ PlaceInv /\ CarryInv
  BY DEF IInv
<1>2. pending \cap approved = {} /\ pending \subseteq Ids /\ approved \subseteq Ids
  BY <1>1 DEF TypeOK, PlaceInv
<1>3. \A i \in pending \cup approved :
        i \in Ids /\ i <= issued /\ entry[i].expiresAt \in Nat
        /\ ~Carried(i, "authorized") /\ ~Carried(i, "running")
  BY <1>1, <1>2 DEF TypeOK, PlaceInv, CarryInv, Carried
<1>4. issued \in 0..MaxRequests /\ issued <= issued /\ now \in Nat /\ TTL \in Nat
  BY <1>1, ConfirmationsAssumption DEF TypeOK
<1>5. /\ Fresh(pending) \subseteq pending /\ Fresh(approved) \subseteq approved
      /\ \A i \in pending \ Expired : i \in Fresh(pending)
      /\ \A i \in approved \ Expired : i \in Fresh(approved)
  BY DEF Fresh, Expired, Stale
<1>6. /\ Fresh(pending) \cap Expired = {} /\ Fresh(approved) \cap Expired = {}
      /\ Expired \in SUBSET Ids
  BY <1>2, <1>5 DEF Expired, Stale
<1>7. (\A i \in Fresh(pending) : i \notin approved) /\ \A i \in Fresh(approved) : i \notin pending
  BY <1>2, <1>5
<1> QED
  BY <1>3, <1>4, <1>5, <1>6, <1>7

LEMMA ListHistory ==
  ASSUME IInv, HistoryInv, List
  PROVE  HistoryInv'
<1> DEFINE f == [i \in Ids |-> "expired"]
<1>1. \A i \in Expired : f[i] = "expired"
  BY FreshFacts
<1> HIDE DEF f
<1>2. pending' = Fresh(pending) /\ approved' = Fresh(approved) /\ call' = call /\ entry' = entry
      /\ issued' = issued /\ now' = now /\ Report(<<>>)
  BY DEF List
<1>3. Lists(<<>>, {}, f) /\ {} \in SUBSET Ids /\ {} \cap Expired = {}
  BY ListsNone
<1>4. \A i \in Ids \ ({} \cup Expired) :
         (i \in pending' <=> i \in pending) /\ (i \in approved' <=> i \in approved)
  BY <1>2, FreshFacts
<1>5. \A i \in (pending \cup approved)' :
        i \in Ids /\ entry'[i].expiresAt \in Nat /\ entry'[i] = entry[i]
  BY <1>2, FreshFacts
<1>6. \A i \in Expired : i \notin pending' /\ i \notin approved'
  BY <1>2, FreshFacts
<1> QED
  BY <1>1, <1>2, <1>3, <1>4, <1>5, <1>6, FreshFacts, CallsStay, PruneAndReport

LEMMA RequestHistory ==
  ASSUME IInv, HistoryInv, NEW operation \in Operations, Request(operation)
  PROVE  HistoryInv'
<1>j. PICK j : j = issued + 1
  OBVIOUS
<1> DEFINE f == [i \in Ids |-> IF i = j THEN "awaiting_user" ELSE "expired"]
<1>1. /\ issued' = j /\ pending' = Fresh(pending) \cup {j} /\ approved' = Fresh(approved)
      /\ entry' = [entry EXCEPT ![j] = [operation |-> operation, expiresAt |-> now + TTL]]
      /\ call' = call /\ now' = now /\ Report(<< <<j, "awaiting_user">> >>) /\ issued < MaxRequests
  BY <1>j DEF Request
<1>2. j \in Ids /\ issued \in Nat /\ issued <= j /\ j <= j /\ j \in 0..MaxRequests
      /\ entry \in [Ids -> [operation : Operations \cup {NoOperation}, expiresAt : Nat]]
  BY <1>j, <1>1, ConfirmationsAssumption DEF Ids, IInv, TypeOK
<1>3. \A i \in pending \cup approved : i # j
  <2>1. \A i \in pending \cup approved : i \in Nat /\ i <= issued
    BY FreshFacts DEF Ids
  <2> QED
    BY <1>j, <1>2, <2>1
<1>4. ~Carried(j, "authorized") /\ ~Carried(j, "running")
  <2>1. ASSUME NEW c \in Calls, call[c].phase # "idle" PROVE call[c].id # j
    <3>1. call[c].id \in Nat /\ call[c].id <= issued
      BY <2>1 DEF IInv, CarryInv, Ids
    <3> QED
      BY <1>j, <1>2, <3>1
  <2> QED
    BY <2>1 DEF Carried
<1>5. f[j] = "awaiting_user" /\ f[j] \in Statuses /\ \A i \in Expired : i # j /\ f[i] = "expired"
  BY <1>2, <1>3, FreshFacts DEF Statuses, Expired, Stale
<1>6. /\ entry'[j].expiresAt = now + TTL /\ now + TTL \in Nat /\ now + TTL <= now + TTL
      /\ \A i \in Ids : i # j => entry'[i] = entry[i]
  BY <1>1, <1>2, FreshFacts
<1> HIDE DEF f
<1>7. Lists(<< <<j, "awaiting_user">> >>, {j}, f) /\ {j} \in SUBSET Ids /\ {j} \cap Expired = {}
  BY <1>2, <1>5, ListsOne
<1>8. Told(j, f[j])'
  <2>1. j \in pending' /\ j \notin approved'
    BY <1>1, <1>3, FreshFacts
  <2>2. ~(Carried(j, "authorized")') /\ ~(Carried(j, "running")')
    BY <1>1, <1>4, CallsStay
  <2> QED
    BY <1>5, <2>1, <2>2 DEF Told
<1>9. \A i \in Ids \ ({j} \cup Expired) :
        (i \in pending' <=> i \in pending) /\ (i \in approved' <=> i \in approved)
  BY <1>1, FreshFacts
<1>10. \A i \in (pending \cup approved)' :
         /\ i \in Ids /\ entry'[i].expiresAt \in Nat
         /\ i \in {j} => entry'[i].expiresAt <= now + TTL
         /\ i \notin {j} => entry'[i] = entry[i]
  BY <1>1, <1>2, <1>6, FreshFacts
<1>11. \A i \in Expired : i \notin pending' /\ i \notin approved'
  BY <1>1, <1>5, FreshFacts
<1> QED
  BY <1>1, <1>2, <1>5, <1>7, <1>8, <1>9, <1>10, <1>11, CallsStay, PruneAndReport

LEMMA ApproveHistory ==
  ASSUME IInv, HistoryInv, NEW i \in Ids, Approve(i)
  PROVE  HistoryInv'
<1> DEFINE f == [j \in Ids |-> IF j = i THEN "approved" ELSE "expired"]
<1>1. /\ i \in Fresh(pending) /\ pending' = Fresh(pending) \ {i} /\ approved' = Fresh(approved) \cup {i}
      /\ entry' = [entry EXCEPT ![i].expiresAt = now + TTL]
      /\ call' = call /\ now' = now /\ issued' = issued /\ Report(<< <<i, "approved">> >>)
  BY DEF Approve
<1>2. entry \in [Ids -> [operation : Operations \cup {NoOperation}, expiresAt : Nat]]
  BY DEF IInv, TypeOK
<1>3. f[i] = "approved" /\ f[i] \in Statuses /\ \A j \in Expired : j # i /\ f[j] = "expired"
  BY <1>1, FreshFacts DEF Statuses
<1>4. /\ entry'[i].expiresAt = now + TTL /\ now + TTL \in Nat /\ now + TTL <= now + TTL
      /\ \A j \in Ids : j # i => entry'[j] = entry[j]
  BY <1>1, <1>2, FreshFacts
<1> HIDE DEF f
<1>5. Lists(<< <<i, "approved">> >>, {i}, f) /\ {i} \in SUBSET Ids /\ {i} \cap Expired = {}
  BY <1>3, ListsOne
<1>6. Told(i, f[i])' /\ i <= issued
  <2>1. i \notin pending' /\ i \in approved' /\ i <= issued
    BY <1>1, FreshFacts
  <2>2. ~(Carried(i, "authorized")') /\ ~(Carried(i, "running")')
    BY <1>1, FreshFacts, CallsStay
  <2> QED
    BY <1>3, <2>1, <2>2 DEF Told
<1>7. \A j \in Ids \ ({i} \cup Expired) :
        (j \in pending' <=> j \in pending) /\ (j \in approved' <=> j \in approved)
  BY <1>1, FreshFacts
<1>8. \A j \in (pending \cup approved)' :
        /\ j \in Ids /\ entry'[j].expiresAt \in Nat
        /\ j \in {i} => entry'[j].expiresAt <= now + TTL
        /\ j \notin {i} => entry'[j] = entry[j]
  BY <1>1, <1>4, FreshFacts
<1>9. \A j \in Expired : j \notin pending' /\ j \notin approved'
  BY <1>1, <1>3, FreshFacts
<1> QED
  BY <1>1, <1>3, <1>5, <1>6, <1>7, <1>8, <1>9, FreshFacts, CallsStay, PruneAndReport

\* Records of ids that leave both maps, under calls that stay as they are.
LEMMA RemovedHistory ==
  ASSUME IInv, HistoryInv, NEW recs, NEW S, NEW status \in {"rejected", "invalidated"},
         S \subseteq Fresh(pending) \cup Fresh(approved),
         \A f : (\A i \in S : f[i] = status) => Lists(recs, S, f),
         pending' = Fresh(pending) \ S, approved' = Fresh(approved) \ S, Report(recs),
         UNCHANGED <<now, issued, entry, call>>
  PROVE  HistoryInv'
<1> DEFINE f == [j \in Ids |-> IF j \in S THEN status ELSE "expired"]
<1>1. S \in SUBSET Ids /\ S \cap Expired = {}
  BY FreshFacts
<1>2. (\A i \in S : f[i] = status) /\ \A i \in Expired : f[i] = "expired"
  BY <1>1, FreshFacts
<1> HIDE DEF f
<1>3. Lists(recs, S, f)
  BY <1>2
<1>4. ASSUME NEW i \in S PROVE i <= issued /\ Told(i, f[i])'
  <2>1. i \notin pending' /\ i \notin approved' /\ i <= issued
    BY FreshFacts
  <2>2. ~(Carried(i, "authorized")') /\ ~(Carried(i, "running")')
    BY FreshFacts, CallsStay
  <2> QED
    BY <1>2, <2>1, <2>2 DEF Told
<1>5. \A i \in Ids \ (S \cup Expired) :
        (i \in pending' <=> i \in pending) /\ (i \in approved' <=> i \in approved)
  BY FreshFacts
<1>6. \A i \in (pending \cup approved)' :
        i \in Ids /\ i \notin S /\ entry'[i].expiresAt \in Nat /\ entry'[i] = entry[i]
  BY FreshFacts
<1>7. \A i \in Expired : i \notin pending' /\ i \notin approved'
  BY FreshFacts
<1> QED
  BY <1>1, <1>2, <1>3, <1>4, <1>5, <1>6, <1>7, FreshFacts, CallsStay, PruneAndReport

LEMMA RejectHistory ==
  ASSUME IInv, HistoryInv, NEW i \in Ids, Reject(i)
  PROVE  HistoryInv'
<1>1. \A f : (\A j \in {i} : f[j] = "rejected") => Lists(<< <<i, "rejected">> >>, {i}, f)
  BY ListsOne DEF Statuses
<1>2. i \in Fresh(pending) /\ i \notin Fresh(approved)
  BY FreshFacts DEF Reject
<1> QED
  BY <1>1, <1>2, RemovedHistory DEF Reject

LEMMA MismatchHistory ==
  ASSUME IInv, HistoryInv, NEW operation \in Operations, NEW i \in Ids, ConsumeMismatch(operation, i)
  PROVE  HistoryInv'
<1>1. \A f : (\A j \in {i} : f[j] = "invalidated") => Lists(<< <<i, "invalidated">> >>, {i}, f)
  BY ListsOne DEF Statuses
<1>2. i \in Fresh(approved) /\ i \notin Fresh(pending)
  BY FreshFacts DEF ConsumeMismatch
<1> QED
  BY <1>1, <1>2, RemovedHistory DEF ConsumeMismatch

LEMMA InvalidateHistory ==
  ASSUME IInv, HistoryInv, NEW scope \in Scopes, Invalidate(scope)
  PROVE  HistoryInv'
<1> DEFINE P == {i \in Fresh(pending) : ScopeOf[entry[i].operation] = scope}
           A == {i \in Fresh(approved) : ScopeOf[entry[i].operation] = scope}
           recs == AllAs(P, "invalidated") \o AllAs(A, "invalidated")
<1>1. /\ pending' = Fresh(pending) \ P /\ approved' = Fresh(approved) \ A /\ Report(recs)
      /\ UNCHANGED <<now, issued, entry, call>>
  BY DEF Invalidate
<1>2. P \subseteq Fresh(pending) /\ A \subseteq Fresh(approved)
  OBVIOUS
<1> HIDE DEF P, A
<1>3. P \in SUBSET Ids /\ A \in SUBSET Ids /\ P \cap A = {} /\ "invalidated" \in Statuses
  BY <1>2, FreshFacts DEF Statuses
<1>4. ASSUME NEW f, \A i \in P \cup A : f[i] = "invalidated" PROVE Lists(recs, P \cup A, f)
  <2>1. TypeOK
    BY DEF IInv
  <2>2. Lists(AllAs(P, "invalidated"), P, f) /\ Lists(AllAs(A, "invalidated"), A, f)
    BY <1>3, <1>4, <2>1, ListsAllAs
  <2> QED
    BY <1>3, <2>2, ListsConcat
<1>5. pending' = Fresh(pending) \ (P \cup A) /\ approved' = Fresh(approved) \ (P \cup A)
  BY <1>1, <1>2, FreshFacts
<1> HIDE DEF recs
<1> QED
  BY <1>1, <1>2, <1>4, <1>5, RemovedHistory

LEMMA ConsumeHistory ==
  ASSUME IInv, HistoryInv, NEW c \in Calls, NEW operation \in Operations, NEW i \in Ids,
         Consume(c, operation, i)
  PROVE  HistoryInv'
<1> DEFINE f == [j \in Ids |-> IF j = i THEN "consumed" ELSE "expired"]
<1>1. /\ i \in Fresh(approved) /\ pending' = Fresh(pending) /\ approved' = Fresh(approved) \ {i}
      /\ call' = [call EXCEPT ![c] = [phase |-> "authorized", id |-> i, operation |-> operation]]
      /\ call[c].phase = "idle" /\ UNCHANGED <<now, issued, entry>>
      /\ Report(<< <<i, "consumed">> >>)
  BY DEF Consume
<1>2. DOMAIN call = Calls
  BY DEF IInv, TypeOK
<1>3. f[i] = "consumed" /\ f[i] \in Statuses /\ \A j \in Expired : j # i /\ f[j] = "expired"
  BY <1>1, FreshFacts DEF Statuses
<1> HIDE DEF f
<1>4. Lists(<< <<i, "consumed">> >>, {i}, f) /\ {i} \in SUBSET Ids /\ {i} \cap Expired = {}
  BY <1>3, ListsOne
<1>5. call'[c].phase = "authorized" /\ call'[c].id = i /\ \A d \in Calls : d # c => call'[d] = call[d]
  BY <1>1, <1>2
<1>6. Told(i, f[i])' /\ i <= issued
  <2>1. i \notin pending' /\ i \notin approved' /\ i <= issued
    BY <1>1, FreshFacts
  <2>2. Carried(i, "authorized")'
    BY <1>5 DEF Carried
  <2>3. ~(Carried(i, "running")')
    <3>1. ~Carried(i, "running")
      BY <1>1, FreshFacts
    <3> QED
      BY <1>5, <3>1 DEF Carried
  <2> QED
    BY <1>3, <2>1, <2>2, <2>3 DEF Told
<1>7. \A j \in Ids \ {i} : /\ Carried(j, "authorized")' <=> Carried(j, "authorized")
                           /\ Carried(j, "running")' <=> Carried(j, "running")
  BY <1>1, <1>5 DEF Carried
<1>8. \A j \in Ids \ ({i} \cup Expired) :
        (j \in pending' <=> j \in pending) /\ (j \in approved' <=> j \in approved)
  BY <1>1, FreshFacts
<1>9. \A j \in (pending \cup approved)' :
        j \in Ids /\ j \notin {i} /\ entry'[j].expiresAt \in Nat /\ entry'[j] = entry[j]
  BY <1>1, FreshFacts
<1>10. \A j \in Expired : j \notin pending' /\ j \notin approved'
  BY <1>1, FreshFacts
<1> QED
  BY <1>1, <1>3, <1>4, <1>6, <1>7, <1>8, <1>9, <1>10, FreshFacts, PruneAndReport

\* An execution status replaces the record of the id the call carries.
LEMMA ExecutionHistory ==
  ASSUME IInv, HistoryInv, NEW c \in Calls, NEW status \in {"running", "succeeded", "failed"},
         call[c].phase # "idle", ExecutionStatus(call[c].id, status),
         \A d \in Calls \ {c} : call'[d] = call[d],
         IF status = "running" THEN call'[c].phase = "running" /\ call'[c].id = call[c].id
                               ELSE call'[c].phase = "idle"
  PROVE  HistoryInv'
<1>i. PICK i : i = call[c].id
  OBVIOUS
<1>1. /\ history' = Update(history, now, i, status)
      /\ watch' = IF Visible(history, i) THEN Woken({i}) ELSE watch
      /\ UNCHANGED <<now, issued, entry, pending, approved>>
  BY <1>i DEF ExecutionStatus
<1>2. /\ i \in Ids /\ i <= issued /\ i \notin pending /\ i \notin approved
      /\ \A d \in Calls \ {c} : call[d].phase # "idle" => call[d].id # i
  BY <1>i DEF IInv, CarryInv
<1>3. i \in Nat /\ i >= 1 /\ issued \in Nat /\ now \in Nat /\ history \in Histories /\ status \in Statuses
      /\ MaxEntries \in Nat
  BY <1>2, ConfirmationsAssumption, StoreAssumption DEF IInv, TypeOK, Ids, HistoryInv, Statuses
<1>4. Told(i, status)'
  <2>1. ~(Carried(i, "authorized")')
    BY <1>2 DEF Carried
  <2>2. Carried(i, "running")' <=> status = "running"
    BY <1>i, <1>2 DEF Carried
  <2> QED
    BY <1>1, <1>2, <2>1, <2>2 DEF Told
<1>5. ASSUME NEW j, j # i PROVE Unmoved(j)
  <2>1. Carried(j, "authorized")' <=> Carried(j, "authorized")
    BY <1>i, <1>5 DEF Carried
  <2>2. Carried(j, "running")' <=> Carried(j, "running")
    BY <1>i, <1>5 DEF Carried
  <2> QED
    BY <1>1, <2>1, <2>2 DEF Unmoved
<1>6. Fresh(pending \cup approved)' = Fresh(pending \cup approved)
  BY <1>1 DEF Fresh
<1>7. CASE ~Visible(history, i)
  <2>1. history' = history /\ watch' = watch
    BY <1>1, <1>7 DEF Update
  <2>2. \A r \in Range(history) : r.id # i
    BY <1>7 DEF Visible, Range
  <2>3. \A r \in Range(history) : r.id <= issued /\ Told(r.id, r.status)'
    BY <1>5, <2>2, UnmovedTold DEF HistoryInv
  <2>4. \A j \in Fresh(pending \cup approved) : entry'[j] = entry[j]
    BY <1>1
  <2>5. issued' <= MaxEntries => \A j \in Fresh(pending \cup approved)' :
          \E r \in Range(history)' : r.id = j /\ r.retainUntil >= entry'[j].expiresAt
    BY <1>1, <1>6, <2>1, <2>4 DEF HistoryInv
  <2>6. /\ DOMAIN watch' = Watchers
        /\ \A w \in Watchers : watch'[w] # NoWatch =>
             \A r \in Range(history)' : r.id = watch'[w].id => r.status = watch'[w].seen
    BY <2>1 DEF HistoryInv
  <2>7. history' \in Histories /\ issued' = issued
    BY <1>1, <1>3, <2>1
  <2>8. \A r \in Range(history)' : r.id <= issued' /\ Told(r.id, r.status)'
    BY <2>1, <2>3, <2>7
  <2> QED
    BY <2>5, <2>6, <2>7, <2>8 DEF HistoryInv
<1>8. CASE Visible(history, i)
  <2> DEFINE new == Written(now, i, status)
             g == Record(history, now, i, status)
  <2>1. history' = g /\ watch' = Woken({i})
    BY <1>1, <1>8 DEF Update
  <2>2. /\ g \in Histories
        /\ \A r \in Range(g) : r = new \/ (r \in Range(history) /\ r.id # i)
        /\ \A m \in 1..MaxEntries : i <= m /\ Room(history, m) =>
             {r \in Range(history) : r.id # i /\ r.retainUntil > now} \subseteq Range(g)
    BY <1>2, <1>3, RecordFacts
  <2>3. new.id = i /\ new.status = status
    BY DEF Written
  <2> HIDE DEF g, new
  <2>4. \A r \in Range(g) : r.id <= issued /\ Told(r.id, r.status)'
    <3> SUFFICES ASSUME NEW r \in Range(g) PROVE r.id <= issued /\ Told(r.id, r.status)'
      OBVIOUS
    <3>1. CASE r = new
      BY <1>2, <1>4, <2>3, <3>1
    <3>2. CASE r \in Range(history) /\ r.id # i
      BY <1>5, <3>2, UnmovedTold DEF HistoryInv
    <3> QED
      BY <2>2, <3>1, <3>2
  <2>5. ASSUME issued <= MaxEntries, NEW j \in Fresh(pending \cup approved)
        PROVE  \E r \in Range(g) : r.id = j /\ r.retainUntil >= entry[j].expiresAt
    <3>1. PICK r \in Range(history) : r.id = j /\ r.retainUntil >= entry[j].expiresAt
      BY <2>5 DEF HistoryInv
    <3>2. j # i /\ j \in pending \cup approved /\ entry[j].expiresAt > now
      BY <1>2 DEF Fresh
    <3>3. entry[j].expiresAt \in Nat
      BY <3>2, FreshFacts
    <3>4. r.retainUntil \in Nat
      <4>1. r \in StatusRecord
        BY <1>3, <3>1 DEF Histories, Range
      <4> QED
        BY <4>1 DEF StatusRecord
    <3>5. r.retainUntil > now
      BY <1>3, <3>1, <3>2, <3>3, <3>4
    <3>6. issued \in 1..MaxEntries /\ Room(history, issued)
      BY <1>2, <1>3, <2>5 DEF Room, HistoryInv
    <3>7. r \in Range(g)
      BY <1>2, <2>2, <3>1, <3>2, <3>5, <3>6
    <3> QED
      BY <3>1, <3>7
  <2>6. ASSUME NEW w \in Watchers, watch'[w] # NoWatch, NEW r \in Range(g), r.id = watch'[w].id
        PROVE  r.status = watch'[w].seen
    <3>1. watch'[w] = watch[w] /\ watch[w].id # i
      BY <2>1, <2>6 DEF Woken
    <3>2. r \in Range(history)
      BY <2>2, <2>3, <2>6, <3>1
    <3> QED
      BY <2>6, <3>1, <3>2 DEF HistoryInv
  <2>7. issued' <= MaxEntries => \A j \in Fresh(pending \cup approved)' :
          \E r \in Range(history)' : r.id = j /\ r.retainUntil >= entry'[j].expiresAt
    BY <1>1, <1>6, <2>1, <2>5
  <2>8. DOMAIN watch' = Watchers
    BY <2>1 DEF Woken
  <2> QED
    BY <1>1, <2>1, <2>2, <2>4, <2>6, <2>7, <2>8 DEF HistoryInv
<1> QED
  BY <1>7, <1>8

LEMMA CallHistory ==
  ASSUME IInv, HistoryInv, NEW c \in Calls, CallStep(c)
  PROVE  HistoryInv'
<1>1. DOMAIN call = Calls
  BY DEF IInv, TypeOK
<1>2. ASSUME NEW operation \in Operations, NEW i \in Ids, Consume(c, operation, i) PROVE HistoryInv'
  BY <1>2, ConsumeHistory
<1>3. CASE AuditFails(c)
  <2>1. call'[c].phase = "idle" /\ \A d \in Calls \ {c} : call'[d] = call[d]
    BY <1>1, <1>3 DEF AuditFails, IdleCall
  <2>2. call[c].phase # "idle" /\ ExecutionStatus(call[c].id, "failed")
    BY <1>3 DEF AuditFails
  <2> QED
    BY <2>1, <2>2, ExecutionHistory
<1>4. CASE StartExecution(c)
  <2>1. \A d \in Calls \ {c} : call'[d] = call[d]
    BY <1>1, <1>4 DEF StartExecution
  <2>2. call'[c].phase = "running" /\ call'[c].id = call[c].id
    <3>1. call[c] \in [phase : CallPhases, id : Ids \cup {0}, operation : Operations \cup {NoOperation}]
      BY DEF IInv, TypeOK
    <3> QED
      BY <1>1, <1>4, <3>1 DEF StartExecution
  <2>3. call[c].phase # "idle" /\ ExecutionStatus(call[c].id, "running")
    BY <1>4 DEF StartExecution
  <2> QED
    BY <2>1, <2>2, <2>3, ExecutionHistory
<1>5. ASSUME NEW status \in {"succeeded", "failed"}, FinishExecution(c, status) PROVE HistoryInv'
  <2>1. call'[c].phase = "idle" /\ \A d \in Calls \ {c} : call'[d] = call[d]
    BY <1>1, <1>5 DEF FinishExecution, IdleCall
  <2>2. call[c].phase # "idle" /\ ExecutionStatus(call[c].id, status)
    BY <1>5 DEF FinishExecution
  <2> QED
    BY <2>1, <2>2, ExecutionHistory
<1> QED
  BY <1>2, <1>3, <1>4, <1>5 DEF CallStep

LEMMA WatchHistory ==
  ASSUME IInv, HistoryInv, NEW w \in Watchers, WatchStep(w)
  PROVE  HistoryInv'
<1>1. \A v \in Watchers : watch'[v] = watch[v] \/ watch'[v] = NoWatch
        \/ \A r \in Range(history) : r.id = watch'[v].id => r.status = watch'[v].seen
  <2> SUFFICES ASSUME NEW v \in Watchers, watch'[v] # watch[v], watch'[v] # NoWatch,
                      NEW r \in Range(history), r.id = watch'[v].id
               PROVE  r.status = watch'[v].seen
    OBVIOUS
  <2>1. PICK i \in Ids : AwaitStatus(w, i)
    BY DEF WatchStep, WaitEnds, HistoryInv
  <2>2. watch'[v].id = i /\ watch'[v].seen = StatusOf(history, i)
    BY <2>1 DEF AwaitStatus
  <2>3. \A q \in Range(history) : q.id = i => q = r
    BY <2>2 DEF HistoryInv, Histories, Range
  <2> QED
    BY <2>2, <2>3 DEF StatusOf
<1>2. UNCHANGED <<now, issued, entry, pending, approved, history, call>>
  BY DEF WatchStep, WaitEnds, AwaitStatus
<1>3. \A i, status : Told(i, status)' <=> Told(i, status)
  BY <1>2 DEF Told, Carried
<1>4. Fresh(pending \cup approved)' = Fresh(pending \cup approved)
  BY <1>2 DEF Fresh
<1>5. DOMAIN watch' = Watchers
  BY DEF WatchStep, WaitEnds, AwaitStatus, HistoryInv
<1>6. \A v \in Watchers : watch'[v] # NoWatch =>
        \A r \in Range(history) : r.id = watch'[v].id => r.status = watch'[v].seen
  BY <1>1 DEF HistoryInv
<1>7. issued' <= MaxEntries => \A j \in Fresh(pending \cup approved)' :
        \E r \in Range(history)' : r.id = j /\ r.retainUntil >= entry'[j].expiresAt
  BY <1>2, <1>4 DEF HistoryInv
<1> QED
  BY <1>2, <1>3, <1>5, <1>6, <1>7 DEF HistoryInv

LEMMA TickHistory ==
  ASSUME IInv, HistoryInv, Tick \/ UNCHANGED vars
  PROVE  HistoryInv'
<1>1. UNCHANGED <<issued, entry, pending, approved, history, call, watch>> /\ (now' = now \/ now' = now + 1)
  BY DEF Tick, vars
<1>2. \A i, status : Told(i, status)' <=> Told(i, status)
  BY <1>1 DEF Told, Carried
<1>3. Fresh(pending \cup approved)' \subseteq Fresh(pending \cup approved)
  <2>1. now \in Nat /\ \A i \in pending \cup approved : entry[i].expiresAt \in Nat
    BY FreshFacts
  <2> QED
    BY <1>1, <2>1 DEF Fresh
<1> QED
  BY <1>1, <1>2, <1>3 DEF HistoryInv

LEMMA NextHistory == IInv /\ HistoryInv /\ [Next]_vars => HistoryInv'
<1> SUFFICES ASSUME IInv, HistoryInv, [Next]_vars PROVE HistoryInv'
  OBVIOUS
<1>1. CASE ManagerStep
  BY <1>1, ListHistory, RequestHistory, ApproveHistory, RejectHistory, InvalidateHistory,
     MismatchHistory DEF ManagerStep
<1> QED
  BY <1>1, CallHistory, WatchHistory, TickHistory DEF Next

LEMMA HistoryStays == Spec => []HistoryInv
<1>1. Init => HistoryInv
  BY InitHistory
<1> QED
  BY <1>1, NextHistory, Invariance, PTL DEF Spec

\* What an Agent can read of a confirmation is the truth, and while nothing was
\* evicted for lack of room everything live can be read (record, update, get).
THEOREM StatusStaysTrue == Spec => []StatusIsTrue
<1>1. IInv /\ HistoryInv => StatusIsTrue
  <2> SUFFICES ASSUME IInv, HistoryInv PROVE StatusIsTrue
    OBVIOUS
  <2>1. ASSUME NEW i \in Ids, Visible(history, i) PROVE Told(i, StatusOf(history, i))
    <3>1. PICK k \in DOMAIN history : history[k].id = i
      BY <2>1 DEF Visible
    <3>2. history[k] \in Range(history) /\ \A q \in Range(history) : q.id = i => q = history[k]
      BY <3>1 DEF HistoryInv, Histories, Range
    <3>3. StatusOf(history, i) = history[k].status
      BY <3>1, <3>2 DEF StatusOf
    <3> QED
      BY <3>1, <3>2, <3>3 DEF HistoryInv
  <2>2. ASSUME issued <= MaxEntries, NEW i \in Fresh(pending \cup approved) PROVE Visible(history, i)
    BY <2>2 DEF HistoryInv, Visible, Range
  <2> QED
    BY <2>1, <2>2 DEF StatusIsTrue, Told, Carried
<1> QED
  BY <1>1, HistoryStays, Invariance, PTL

\* A status call that waits has seen the status that is still recorded (wait).
THEOREM NoWakeupIsLost == Spec => []NoLostWakeup
<1>1. IInv /\ HistoryInv => NoLostWakeup
  <2> SUFFICES ASSUME HistoryInv, NEW w \in Watchers, watch[w] # NoWatch, Visible(history, watch[w].id)
               PROVE  StatusOf(history, watch[w].id) = watch[w].seen
    BY DEF NoLostWakeup
  <2>1. PICK k \in DOMAIN history : history[k].id = watch[w].id
    BY DEF Visible
  <2>2. history[k] \in Range(history) /\ \A q \in Range(history) : q.id = watch[w].id => q = history[k]
    BY <2>1 DEF HistoryInv, Histories, Range
  <2>3. StatusOf(history, watch[w].id) = history[k].status
    BY <2>1, <2>2 DEF StatusOf
  <2> QED
    BY <2>1, <2>2, <2>3 DEF HistoryInv
<1> QED
  BY <1>1, HistoryStays, Invariance, PTL
=============================================================================
