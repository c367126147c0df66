---------------------- MODULE MutationCoordinatorProofs ---------------------
(***************************************************************************)
(* Theorems about the mutation coordinator, for any number of              *)
(* environments, projects, operations and edit sessions.                   *)
(*                                                                         *)
(* The exclusion properties are not inductive: a mutation that has left    *)
(* waitReaders does not look at the counters again, so that it still runs  *)
(* alone rests on the counters being exact, on its being the head of its   *)
(* chain, and on readers staying out while the chain is not empty.         *)
(***************************************************************************)
EXTENDS MutationCoordinator, FiniteSetTheorems, SequenceTheorems, TLAPS

\* Where each pending mutation is in its chain.
ChainSound ==
  \A e \in Environments : \A i \in 1..Len(chain[e]) : chain[e][i] \in Mutating(e)
ChainInjective ==
  \A e \in Environments : \A i, j \in 1..Len(chain[e]) : chain[e][i] = chain[e][j] => i = j
ChainComplete ==
  \A e \in Environments : \A o \in Mutating(e) : \E i \in 1..Len(chain[e]) : chain[e][i] = o

CountersMatch ==
  \A e \in Environments :
    readers[e] = Cardinality(Reading(e)) /\ writers[e] = Len(chain[e])

\* Past waitReaders a mutation is the head of its chain and has no reader
\* beside it.
Admitted(o) == op[o].phase = "ready" \/ (op[o].phase = "running" /\ op[o].kind = "mutation")
HeadOfChain ==
  \A o \in Operations :
    op[o].phase = "waiting" \/ Admitted(o) =>
      /\ op[o].kind = "mutation"
      /\ chain[op[o].env] # <<>> /\ Head(chain[op[o].env]) = o
AdmittedAlone ==
  \A o \in Operations : Admitted(o) => readers[op[o].env] = 0
ReadsRun ==
  \A o \in Operations : Active(o) /\ op[o].kind = "read" => op[o].phase = "running"

LockInv ==
  /\ TypeOK
  /\ ChainSound /\ ChainInjective /\ ChainComplete
  /\ CountersMatch
  /\ HeadOfChain /\ AdmittedAlone /\ ReadsRun

\* A fence owner holds the fence of at most one environment, and none
\* before it has installed one.
FenceOwnersExact ==
  /\ \A w \in Owners, e, d \in Environments : Holds(w, e) /\ Holds(w, d) => e = d
  /\ \A w \in Owners, e \in Environments : client[w] = "none" => ~Holds(w, e)

ScopeInv == FenceOwnersExact /\ FenceIsolates /\ ProjectSectionIsQuiet /\ CloudSectionHasNoFence
IInv == LockInv /\ ScopeInv
-----------------------------------------------------------------------------
(***************************************************************************)
(* Facts about the state.                                                  *)
(***************************************************************************)
LEMMA ActiveType ==
  ASSUME TypeOK, NEW o \in Operations, Active(o)
  PROVE  op[o] \in ActiveOp
  BY DEF TypeOK, Active, IdleOp

LEMMA ActiveIsReadOrMutation ==
  ASSUME TypeOK, NEW e \in Environments
  PROVE  ActiveIn(e) = Reading(e) \union Mutating(e)
  BY ActiveType DEF ActiveIn, Reading, Mutating, ActiveOp

LEMMA ReadingFinite ==
  ASSUME NEW e \in Environments
  PROVE  IsFiniteSet(Reading(e))
  <1>1. Reading(e) \subseteq Operations
    BY DEF Reading, ActiveIn
  <1>. QED
    BY <1>1, FS_Subset, CoordinatorAssumption

\* What every wait for an environment's activity relies on.
LEMMA SettledMeansIdle ==
  ASSUME LockInv, NEW e \in Environments, ActivitySettled(e)
  PROVE  ActiveIn(e) = {}
  <1>1. Reading(e) = {}
    BY ReadingFinite, FS_EmptySet DEF LockInv, CountersMatch, ActivitySettled
  <1>2. Mutating(e) = {}
    <2>1. Len(chain[e]) = 0
      BY DEF ActivitySettled
    <2>. QED
      BY <2>1 DEF LockInv, ChainComplete
  <1>. QED
    BY <1>1, <1>2, ActiveIsReadOrMutation DEF LockInv
-----------------------------------------------------------------------------
(***************************************************************************)
(* Type correctness.                                                       *)
(***************************************************************************)
LEMMA InitType == Init => TypeOK
  BY CoordinatorAssumption
     DEF Init, TypeOK, NoFence, Fence, ClientPhases, ScopePhases

LEMMA EnqueueMutationType ==
  ASSUME TypeOK, NEW o \in Operations, NEW e \in Environments, NEW w \in Callers(e),
         EnqueueMutation(o, e, w)
  PROVE  TypeOK'
  <1>1. w \in Owners \union {Unowned}
    BY DEF Callers
  <1>2. op' \in [Operations -> ActiveOp \union {IdleOp}]
    BY <1>1 DEF TypeOK, EnqueueMutation, ActiveOp, OpPhases
  <1>3. writers' \in [Environments -> Nat]
    BY DEF TypeOK, EnqueueMutation
  <1>4. chain' \in [Environments -> Seq(Operations)]
    BY DEF TypeOK, EnqueueMutation
  <1>. QED
    BY <1>2, <1>3, <1>4 DEF TypeOK, EnqueueMutation

LEMMA StartReadType ==
  ASSUME TypeOK, NEW o \in Operations, NEW e \in Environments, NEW w \in Callers(e),
         StartRead(o, e, w)
  PROVE  TypeOK'
  <1>1. w \in Owners \union {Unowned}
    BY DEF Callers
  <1>2. op' \in [Operations -> ActiveOp \union {IdleOp}]
    BY <1>1 DEF TypeOK, StartRead, ActiveOp, OpPhases
  <1>3. readers' \in [Environments -> Nat]
    BY DEF TypeOK, StartRead
  <1>. QED
    BY <1>2, <1>3 DEF TypeOK, StartRead
LEMMA CallStepsType ==
  ASSUME TypeOK, NEW o \in Operations,
         WaitReaders(o) \/ StartMutation(o)
  PROVE  TypeOK'
  <1>1. op[o] \in ActiveOp
    BY ActiveType DEF WaitReaders, StartMutation, Active
  <1>2. CASE WaitReaders(o)
    <2>1. op' \in [Operations -> ActiveOp \union {IdleOp}]
      BY <1>1, <1>2 DEF TypeOK, WaitReaders, ActiveOp, OpPhases
    <2>. QED
      BY <2>1, <1>2 DEF TypeOK, WaitReaders
  <1>3. CASE StartMutation(o)
    <2>1. op' \in [Operations -> ActiveOp \union {IdleOp}]
      BY <1>1, <1>3 DEF TypeOK, StartMutation, ActiveOp, OpPhases
    <2>. QED
      BY <2>1, <1>3 DEF TypeOK, StartMutation
  <1>. QED
    BY <1>2, <1>3

LEMMA FinishMutationType ==
  ASSUME LockInv, NEW o \in Operations, FinishMutation(o)
  PROVE  TypeOK'
  <1> DEFINE e == op[o].env
  <1>1. op[o] \in ActiveOp
    BY ActiveType DEF LockInv, FinishMutation, Active
  <1>2. e \in Environments /\ chain[e] # <<>>
    BY <1>1 DEF ActiveOp, LockInv, HeadOfChain, Admitted, FinishMutation
  <1>3. chain[e] \in Seq(Operations) /\ Tail(chain[e]) \in Seq(Operations)
    BY <1>2 DEF LockInv, TypeOK
  <1>4. writers[e] \in Nat /\ writers[e] - 1 \in Nat
    <2>1. Len(chain[e]) \in Nat \ {0}
      BY <1>2, <1>3
    <2>. QED
      BY <2>1, <1>2 DEF LockInv, CountersMatch
  <1>5. op' \in [Operations -> ActiveOp \union {IdleOp}]
    BY DEF LockInv, TypeOK, FinishMutation
  <1>6. writers' \in [Environments -> Nat]
    BY <1>2, <1>4 DEF LockInv, TypeOK, FinishMutation
  <1>7. chain' \in [Environments -> Seq(Operations)]
    BY <1>2, <1>3 DEF LockInv, TypeOK, FinishMutation
  <1>. QED
    BY <1>5, <1>6, <1>7 DEF LockInv, TypeOK, FinishMutation

LEMMA FinishReadType ==
  ASSUME LockInv, NEW o \in Operations, FinishRead(o)
  PROVE  TypeOK'
  <1> DEFINE e == op[o].env
  <1>1. op[o] \in ActiveOp
    BY ActiveType DEF LockInv, FinishRead, Active
  <1>2. e \in Environments /\ o \in Reading(e)
    BY <1>1 DEF ActiveOp, Reading, ActiveIn, Active, FinishRead
  <1>3. readers[e] \in Nat /\ readers[e] - 1 \in Nat
    BY <1>2, ReadingFinite, FS_EmptySet, FS_CardinalityType DEF LockInv, CountersMatch, TypeOK
  <1>4. op' \in [Operations -> ActiveOp \union {IdleOp}]
    <2>1. op \in [Operations -> ActiveOp \union {IdleOp}]
      BY DEF LockInv, TypeOK
    <2>2. ASSUME NEW m \in Operations, op[m].phase = "waiting"
          PROVE  [op[m] EXCEPT !.phase = "ready"] \in ActiveOp
      BY <2>1, <2>2 DEF ActiveOp, OpPhases, IdleOp
    <2>. QED
      BY <2>1, <2>2 DEF FinishRead
  <1>5. readers' \in [Environments -> Nat]
    BY <1>2, <1>3 DEF LockInv, TypeOK, FinishRead
  <1>. QED
    BY <1>4, <1>5 DEF LockInv, TypeOK, FinishRead

LEMMA ScopeStepsType ==
  ASSUME TypeOK,
         \/ \E w \in Owners, e \in Environments : FenceStep(w, e)
         \/ \E p \in Projects : ProjectStep(p)
  PROVE  TypeOK'
  <1>1. ASSUME NEW w \in Owners, NEW e \in Environments, FenceStep(w, e)
        PROVE  TypeOK'
    <2>. USE DEF TypeOK, Fence, NoFence
    <2>1. fence' \in [Environments -> Fence]
      <3>1. CASE InstallFence(w, e)
        BY <3>1 DEF InstallFence
      <3>2. CASE DrainEnvironment(w, e)
        BY <3>2 DEF DrainEnvironment
      <3>3. CASE ReleaseFence(w, e)
        BY <3>3 DEF ReleaseFence
      <3>4. ASSUME NEW v \in Owners, HandoffFence(w, v, e)
            PROVE  fence' \in [Environments -> Fence]
        BY <3>4 DEF HandoffFence
      <3>. QED
        BY <1>1, <3>1, <3>2, <3>3, <3>4 DEF FenceStep
    <2>2. client' \in [Owners -> ClientPhases]
      BY <1>1 DEF TypeOK, FenceStep, InstallFence, DrainEnvironment, ReleaseFence, HandoffFence,
                  ClientPhases
    <2>3. UNCHANGED <<op, readers, writers, chain, deletion, sync>>
      BY <1>1 DEF FenceStep, InstallFence, DrainEnvironment, ReleaseFence, HandoffFence
    <2>. QED
      BY <2>1, <2>2, <2>3 DEF TypeOK
  <1>2. ASSUME NEW p \in Projects, ProjectStep(p)
        PROVE  TypeOK'
    BY <1>2 DEF TypeOK, ProjectStep, BeginProjectDelete, DeleteActivityEnds, EndProjectDelete,
                BeginCloudSync, SyncActivityEnds, EndCloudSync, ScopePhases
  <1>. QED
    BY <1>1, <1>2
-----------------------------------------------------------------------------
(***************************************************************************)
(* The lock invariant, one lemma per action that touches the lock.         *)
(***************************************************************************)
LEMMA EnqueueMutationLock ==
  ASSUME LockInv, NEW o \in Operations, NEW e \in Environments, NEW w \in Callers(e),
         EnqueueMutation(o, e, w)
  PROVE  LockInv'
  <1>. USE DEF LockInv
  <1>1. TypeOK'
    BY EnqueueMutationType
  <1>2. /\ \A d \in Environments : Reading(d)' = Reading(d)
        /\ \A d \in Environments : Mutating(d)' = IF d = e THEN Mutating(d) \union {o} ELSE Mutating(d)
        /\ \A m \in Operations : m # o => op'[m] = op[m]
        /\ op'[o].phase = "queued" /\ op'[o].kind = "mutation" /\ op'[o].env = e
    BY DEF EnqueueMutation, TypeOK, Reading, Mutating, ActiveIn, Active
  <1>3. \A d \in Environments : o \notin Mutating(d)
    BY DEF EnqueueMutation, Mutating, ActiveIn
  <1>4. /\ chain[e] \in Seq(Operations) /\ chain'[e] = Append(chain[e], o)
        /\ \A d \in Environments : d # e => chain'[d] = chain[d]
        /\ Len(chain'[e]) = Len(chain[e]) + 1
        /\ chain'[e][Len(chain[e]) + 1] = o
        /\ \A i \in 1..Len(chain[e]) : chain'[e][i] = chain[e][i]
    BY DEF EnqueueMutation, TypeOK
  <1>5. ChainSound'
    BY <1>2, <1>4 DEF ChainSound
  <1>6. ChainInjective'
    <2>1. ASSUME NEW i \in 1..Len(chain'[e]), NEW j \in 1..Len(chain'[e]), chain'[e][i] = chain'[e][j]
          PROVE  i = j
      <3>1. \A k \in 1..Len(chain[e]) : chain[e][k] # o
        BY <1>3 DEF ChainSound
      <3>2. Len(chain[e]) \in Nat /\ (\A k \in 1..Len(chain'[e]) : k \in 1..Len(chain[e]) \/ k = Len(chain[e]) + 1)
        BY <1>4
      <3>. QED
        BY <1>4, <2>1, <3>1, <3>2 DEF ChainInjective
    <2>2. \A d \in Environments : d # e => chain'[d] = chain[d]
      BY <1>4
    <2>. QED
      BY <2>1, <2>2 DEF ChainInjective
  <1>7. ChainComplete'
    BY <1>2, <1>4, SMTT(20) DEF ChainComplete
  <1>8. CountersMatch'
    BY <1>2, <1>4 DEF CountersMatch, EnqueueMutation, TypeOK
  <1>9. HeadOfChain'
    <2>1. \A d \in Environments : chain[d] # <<>> =>
             chain'[d] # <<>> /\ Head(chain'[d]) = Head(chain[d])
      <3>1. chain[e] # <<>> => Append(chain[e], o) # <<>> /\ Head(Append(chain[e], o)) = Head(chain[e])
        BY <1>4
      <3>. QED
        BY <1>4, <3>1
    <2>2. ASSUME NEW m \in Operations, m # o, op[m].phase = "waiting" \/ Admitted(m)
          PROVE  op[m].env \in Environments
      BY <2>2, ActiveType DEF Admitted, Active, ActiveOp
    <2>. QED
      BY <1>2, <2>1, <2>2 DEF HeadOfChain, Admitted
  <1>10. AdmittedAlone'
    BY <1>2 DEF AdmittedAlone, Admitted, EnqueueMutation
  <1>11. ReadsRun'
    BY <1>2 DEF ReadsRun, Active
  <1>. QED
    BY <1>1, <1>5, <1>6, <1>7, <1>8, <1>9, <1>10, <1>11

LEMMA CallStepsLock ==
  ASSUME LockInv, NEW o \in Operations, WaitReaders(o) \/ StartMutation(o)
  PROVE  LockInv'
  <1>. USE DEF LockInv
  <1>1. TypeOK'
    BY CallStepsType
  <1>2. op[o] \in ActiveOp
    BY ActiveType DEF WaitReaders, StartMutation, Active
  <1>3. op[o].kind = "mutation" /\ op[o].env \in Environments
    BY <1>2 DEF ReadsRun, WaitReaders, StartMutation, Active, ActiveOp
  <1>4. /\ \A m \in Operations : m # o => op'[m] = op[m]
        /\ op'[o].kind = "mutation" /\ op'[o].env = op[o].env
        /\ op'[o].phase \in {"waiting", "ready", "running"}
        /\ UNCHANGED <<readers, writers, chain>>
    BY <1>2, <1>3 DEF WaitReaders, StartMutation, TypeOK, ActiveOp
  <1>5. \A d \in Environments : Reading(d)' = Reading(d) /\ Mutating(d)' = Mutating(d)
    BY <1>3, <1>4 DEF Reading, Mutating, ActiveIn, Active, WaitReaders, StartMutation
  <1>6. ChainSound' /\ ChainInjective' /\ ChainComplete' /\ CountersMatch'
    BY <1>4, <1>5 DEF ChainSound, ChainInjective, ChainComplete, CountersMatch
  <1>7. chain[op[o].env] # <<>> /\ Head(chain[op[o].env]) = o
    <2>1. CASE StartMutation(o)
      BY <2>1 DEF StartMutation, HeadOfChain, Admitted
    <2>2. CASE WaitReaders(o)
      <3>1. \E i \in 1..Len(chain[op[o].env]) : chain[op[o].env][i] = o
        BY <1>3, <2>2 DEF ChainComplete, Mutating, ActiveIn, Active, WaitReaders
      <3>. QED
        BY <1>3, <2>2, <3>1 DEF WaitReaders, TypeOK
    <2>. QED
      BY <2>1, <2>2
  <1>8. HeadOfChain'
    BY <1>4, <1>7 DEF HeadOfChain, Admitted
  <1>9. AdmittedAlone'
    <2>1. op'[o].phase \in {"ready", "running"} => readers[op[o].env] = 0
      BY <1>2 DEF WaitReaders, StartMutation, AdmittedAlone, Admitted, TypeOK, ActiveOp
    <2>. QED
      BY <1>4, <2>1 DEF AdmittedAlone, Admitted
  <1>10. ReadsRun'
    BY <1>4 DEF ReadsRun, Active
  <1>. QED
    BY <1>1, <1>6, <1>8, <1>9, <1>10

LEMMA FinishMutationLock ==
  ASSUME LockInv, NEW o \in Operations, FinishMutation(o)
  PROVE  LockInv'
  <1>. USE DEF LockInv
  <1> DEFINE e == op[o].env
  <1>1. TypeOK'
    BY FinishMutationType
  <1>2. op[o] \in ActiveOp /\ e \in Environments
    BY ActiveType DEF FinishMutation, Active, ActiveOp
  <1>3. chain[e] \in Seq(Operations) /\ chain[e] # <<>> /\ Head(chain[e]) = o
    BY <1>2 DEF HeadOfChain, Admitted, FinishMutation, TypeOK
  <1>4. /\ chain'[e] = Tail(chain[e]) /\ Len(chain'[e]) = Len(chain[e]) - 1
        /\ Len(chain[e]) \in Nat \ {0}
        /\ chain[e][1] = o
        /\ \A i \in 1..Len(chain'[e]) : i + 1 \in 1..Len(chain[e]) /\ chain'[e][i] = chain[e][i + 1]
        /\ \A d \in Environments : d # e => chain'[d] = chain[d]
    BY <1>2, <1>3 DEF FinishMutation, TypeOK
  <1>5. /\ \A d \in Environments : Reading(d)' = Reading(d)
        /\ \A d \in Environments : Mutating(d)' = Mutating(d) \ {o}
        /\ \A d \in Environments : d # e => o \notin Mutating(d)
        /\ \A m \in Operations : m # o => op'[m] = op[m]
        /\ op'[o] = IdleOp
    BY DEF FinishMutation, TypeOK, Reading, Mutating, ActiveIn, Active, IdleOp
  <1>6. ChainSound'
    <2>1. ASSUME NEW i \in 1..Len(chain'[e]) PROVE chain'[e][i] \in Mutating(e) \ {o}
      BY <1>2, <1>4 DEF ChainSound, ChainInjective
    <2>2. ASSUME NEW d \in Environments, d # e, NEW i \in 1..Len(chain'[d])
          PROVE  chain'[d][i] \in Mutating(d) \ {o}
      BY <1>4, <1>5, <2>2 DEF ChainSound
    <2>. QED
      BY <1>5, <2>1, <2>2 DEF ChainSound
  <1>7. ChainInjective'
    <2>1. ASSUME NEW i \in 1..Len(chain'[e]), NEW j \in 1..Len(chain'[e]), chain'[e][i] = chain'[e][j]
          PROVE  i = j
      BY <1>2, <1>4, <2>1 DEF ChainInjective
    <2>. QED
      BY <1>4, <2>1 DEF ChainInjective
  <1>8. ChainComplete'
    <2>1. ASSUME NEW m \in Mutating(e) \ {o} PROVE \E i \in 1..Len(chain'[e]) : chain'[e][i] = m
      <3>1. PICK j \in 1..Len(chain[e]) : chain[e][j] = m
        BY <1>2 DEF ChainComplete
      <3>2. j # 1 /\ j - 1 \in 1..Len(chain'[e]) /\ chain'[e][j - 1] = m
        BY <1>4, <3>1
      <3>. QED
        BY <3>2
    <2>2. ASSUME NEW d \in Environments, d # e, NEW m \in Mutating(d) \ {o}
          PROVE  \E i \in 1..Len(chain'[d]) : chain'[d][i] = m
      BY <1>4, <1>5, <2>2 DEF ChainComplete
    <2>. QED
      BY <1>5, <2>1, <2>2 DEF ChainComplete
  <1>9. CountersMatch'
    BY <1>2, <1>4, <1>5 DEF CountersMatch, FinishMutation, TypeOK
  <1>10. HeadOfChain'
    <2>1. ASSUME NEW m \in Operations, m # o, op[m].phase = "waiting" \/ Admitted(m)
          PROVE  op[m].env \in Environments /\ op[m].env # e
      <3>1. op[m].env \in Environments
        BY <2>1, ActiveType DEF Admitted, Active, ActiveOp
      <3>. QED
        BY <1>3, <2>1, <3>1 DEF HeadOfChain
    <2>. QED
      BY <1>4, <1>5, <2>1 DEF HeadOfChain, Admitted, IdleOp
  <1>11. AdmittedAlone' /\ ReadsRun'
    BY <1>5 DEF AdmittedAlone, ReadsRun, Admitted, Active, IdleOp, FinishMutation
  <1>. QED
    BY <1>1, <1>6, <1>7, <1>8, <1>9, <1>10, <1>11
LEMMA StartReadLock ==
  ASSUME LockInv, NEW o \in Operations, NEW e \in Environments, NEW w \in Callers(e),
         StartRead(o, e, w)
  PROVE  LockInv'
  <1>. USE DEF LockInv
  <1>1. TypeOK'
    BY StartReadType
  <1>2. /\ \A d \in Environments : Mutating(d)' = Mutating(d)
        /\ \A d \in Environments : d # e => Reading(d)' = Reading(d)
        /\ Reading(e)' = Reading(e) \union {o}
        /\ o \notin Reading(e)
        /\ \A m \in Operations : m # o => op'[m] = op[m]
        /\ op'[o].phase = "running" /\ op'[o].kind = "read" /\ op'[o].env = e
    BY DEF StartRead, TypeOK, Reading, Mutating, ActiveIn, Active
  <1>3. ChainSound' /\ ChainInjective' /\ ChainComplete'
    BY <1>2 DEF ChainSound, ChainInjective, ChainComplete, StartRead
  <1>4. CountersMatch'
    <2>1. Cardinality(Reading(e)') = Cardinality(Reading(e)) + 1
      BY <1>2, ReadingFinite, FS_AddElement, ZenonT(40)
    <2>. QED
      BY <1>2, <2>1 DEF CountersMatch, StartRead, TypeOK
  <1>5. HeadOfChain' /\ ReadsRun'
    BY <1>2 DEF HeadOfChain, ReadsRun, Admitted, Active, StartRead
  <1>6. AdmittedAlone'
    <2>1. Len(chain[e]) = 0 /\ chain[e] \in Seq(Operations)
      BY DEF StartRead, CountersMatch, TypeOK
    <2>2. chain[e] = <<>>
      BY <2>1
    <2>3. ASSUME NEW m \in Operations, m # o, Admitted(m)
          PROVE  op[m].env \in Environments /\ op[m].env # e
      BY <2>2, <2>3, ActiveType DEF HeadOfChain, Admitted, Active, ActiveOp
    <2>. QED
      BY <1>2, <2>3 DEF AdmittedAlone, Admitted, StartRead
  <1>. QED
    BY <1>1, <1>3, <1>4, <1>5, <1>6

LEMMA FinishReadLock ==
  ASSUME LockInv, NEW o \in Operations, FinishRead(o)
  PROVE  LockInv'
  <1>. USE DEF LockInv
  <1>1. TypeOK'
    BY FinishReadType
  <1>0. PICK e \in Environments : e = op[o].env
    BY ActiveType DEF FinishRead, Active, ActiveOp
  <1> DEFINE Woken(m) == readers[e] = 1 /\ op[m].phase = "waiting" /\ op[m].env = e
  <1>2. op[o] \in ActiveOp /\ o \in Reading(e)
    BY <1>0, ActiveType DEF FinishRead, Active, ActiveOp, Reading, ActiveIn
  <1>3. /\ op'[o] = IdleOp
        /\ \A m \in Operations : m # o /\ ~Woken(m) => op'[m] = op[m]
        /\ \A m \in Operations : m # o /\ Woken(m) =>
             /\ op'[m].phase = "ready" /\ op'[m].kind = op[m].kind /\ op'[m].env = op[m].env
        /\ UNCHANGED chain /\ UNCHANGED writers
    <2>1. ASSUME NEW m \in Operations, m # o, Woken(m)
          PROVE  op[m] \in ActiveOp /\ op'[m] = [op[m] EXCEPT !.phase = "ready"]
      BY <1>0, <2>1, ActiveType DEF FinishRead, Active
    <2>2. ASSUME NEW m \in Operations, m # o, Woken(m)
          PROVE  op'[m].phase = "ready" /\ op'[m].kind = op[m].kind /\ op'[m].env = op[m].env
      BY <2>1, <2>2 DEF ActiveOp
    <2>. QED
      BY <1>0, <2>2 DEF FinishRead
  <1>4. /\ \A d \in Environments : Mutating(d)' = Mutating(d)
        /\ \A d \in Environments : Reading(d)' = Reading(d) \ {o}
        /\ \A d \in Environments : d # e => Reading(d)' = Reading(d)
    <2>1. \A m \in Operations : m # o => /\ Active(m)' <=> Active(m)
                                        /\ op'[m].kind = op[m].kind /\ op'[m].env = op[m].env
      BY <1>3 DEF Active
    <2>2. ~Active(o)' /\ op[o].kind = "read"
      BY <1>3 DEF Active, IdleOp, FinishRead
    <2>. QED
      BY <1>0, <2>1, <2>2 DEF Reading, Mutating, ActiveIn
  <1>5. ChainSound' /\ ChainInjective' /\ ChainComplete'
    BY <1>3, <1>4 DEF ChainSound, ChainInjective, ChainComplete
  <1>6. CountersMatch'
    <2>1. Cardinality(Reading(e)') = Cardinality(Reading(e)) - 1
      BY <1>2, <1>4, ReadingFinite, FS_RemoveElement
    <2>. QED
      BY <1>0, <1>3, <1>4, <2>1 DEF CountersMatch, FinishRead, TypeOK
  <1>7. HeadOfChain'
    BY <1>3 DEF HeadOfChain, Admitted, IdleOp
  <1>8. AdmittedAlone'
    <2>1. ASSUME NEW m \in Operations, m # o, ~Woken(m), Admitted(m)
          PROVE  readers'[op[m].env] = 0
      <3>1. op[m].env \in Environments /\ readers[op[m].env] = 0
        BY <2>1, ActiveType DEF Admitted, Active, ActiveOp, AdmittedAlone
      <3>2. readers[e] # 0
        BY <1>2, ReadingFinite, FS_EmptySet DEF CountersMatch
      <3>. QED
        BY <1>0, <3>1, <3>2 DEF FinishRead
    <2>2. ASSUME NEW m \in Operations, m # o, Woken(m)
          PROVE  readers'[op[m].env] = 0
      BY <1>0, <2>2 DEF FinishRead, TypeOK
    <2>. QED
      BY <1>3, <2>1, <2>2 DEF AdmittedAlone, Admitted, IdleOp
  <1>9. ReadsRun'
    <2>1. ASSUME NEW m \in Operations, m # o, Woken(m) PROVE op[m].kind = "mutation"
      BY <2>1 DEF HeadOfChain
    <2>. QED
      BY <1>3, <2>1 DEF ReadsRun, Active, IdleOp
  <1>. QED
    BY <1>1, <1>5, <1>6, <1>7, <1>8, <1>9

LEMMA LockInvUnchanged ==
  ASSUME LockInv, TypeOK', UNCHANGED <<op, readers, writers, chain>>
  PROVE  LockInv'
  <1>1. \A e \in Environments : Reading(e)' = Reading(e) /\ Mutating(e)' = Mutating(e)
    BY DEF Reading, Mutating, ActiveIn, Active
  <1>2. ChainSound' /\ ChainInjective' /\ ChainComplete' /\ CountersMatch'
    BY <1>1 DEF LockInv, ChainSound, ChainInjective, ChainComplete, CountersMatch
  <1>3. HeadOfChain' /\ AdmittedAlone' /\ ReadsRun'
    BY DEF LockInv, HeadOfChain, AdmittedAlone, ReadsRun, Admitted, Active
  <1>. QED
    BY <1>2, <1>3 DEF LockInv

LEMMA LockInvInit == Init => LockInv
  <1>. SUFFICES ASSUME Init PROVE LockInv
    OBVIOUS
  <1>1. \A e \in Environments : Reading(e) = {} /\ Mutating(e) = {}
    BY DEF Init, Reading, Mutating, ActiveIn, Active, IdleOp
  <1>2. \A e \in Environments : Len(chain[e]) = 0
    BY DEF Init
  <1>3. CountersMatch
    BY <1>1, <1>2, FS_EmptySet DEF CountersMatch, Init
  <1>4. ChainSound /\ ChainInjective /\ ChainComplete
    BY <1>1, <1>2 DEF ChainSound, ChainInjective, ChainComplete
  <1>5. HeadOfChain /\ AdmittedAlone /\ ReadsRun
    BY DEF Init, HeadOfChain, AdmittedAlone, ReadsRun, Admitted, Active, IdleOp
  <1>. QED
    BY <1>3, <1>4, <1>5, InitType DEF LockInv

LEMMA LockInvStep == LockInv /\ [Next]_vars => LockInv'
  <1>. SUFFICES ASSUME LockInv, [Next]_vars PROVE LockInv'
    OBVIOUS
  <1>1. ASSUME NEW o \in Operations, OperationStep(o)
        PROVE  LockInv'
    <2>1. ASSUME NEW e \in Environments, NEW w \in Callers(e),
                 EnqueueMutation(o, e, w) \/ StartRead(o, e, w)
          PROVE  LockInv'
      BY <2>1, EnqueueMutationLock, StartReadLock
    <2>2. CASE WaitReaders(o) \/ StartMutation(o) \/ FinishMutation(o) \/ FinishRead(o)
      BY <2>2, CallStepsLock, FinishMutationLock, FinishReadLock
    <2>. QED
      BY <1>1, <2>1, <2>2 DEF OperationStep
  <1>2. CASE \/ \E w \in Owners, e \in Environments : FenceStep(w, e)
             \/ \E p \in Projects : ProjectStep(p)
    <2>1. UNCHANGED <<op, readers, writers, chain>>
      BY <1>2 DEF FenceStep, InstallFence, DrainEnvironment, ReleaseFence, HandoffFence,
                  ProjectStep, BeginProjectDelete, DeleteActivityEnds, EndProjectDelete,
                  BeginCloudSync, SyncActivityEnds, EndCloudSync
    <2>. QED
      BY <1>2, <2>1, ScopeStepsType, LockInvUnchanged DEF LockInv
  <1>3. CASE UNCHANGED vars
    BY <1>3, LockInvUnchanged DEF vars, LockInv, TypeOK
  <1>. QED
    BY <1>1, <1>2, <1>3 DEF Next

(***************************************************************************)
(* Every variable of the coordinator keeps its type: in particular no      *)
(* counter of readers or writers ever goes below zero.                     *)
(***************************************************************************)
THEOREM TypeCorrect == Spec => []TypeOK
  <1>1. LockInv => TypeOK
    BY DEF LockInv
  <1>. QED
    BY <1>1, LockInvInit, LockInvStep, PTL DEF Spec

(***************************************************************************)
(* A configuration mutation runs alone in its environment.                 *)
(***************************************************************************)
THEOREM MutationsRunAlone == Spec => []MutationRunsAlone
  <1>1. LockInv => MutationRunsAlone
    <2>. SUFFICES ASSUME LockInv, NEW o \in Operations, NEW m \in Operations,
                         op[o].phase = "running", op[o].kind = "mutation",
                         m # o, Active(m), op[m].env = op[o].env, op[m].phase # "queued"
                  PROVE  FALSE
      BY DEF MutationRunsAlone
    <2>. USE DEF LockInv
    <2>1. op[o] \in ActiveOp /\ op[m] \in ActiveOp
      BY ActiveType DEF Active
    <2>2. Head(chain[op[o].env]) = o /\ readers[op[o].env] = 0
      BY DEF HeadOfChain, AdmittedAlone, Admitted
    <2>3. CASE op[m].kind = "mutation"
      BY <2>1, <2>2, <2>3 DEF HeadOfChain, Admitted, Active, ActiveOp, OpPhases
    <2>4. CASE op[m].kind = "read"
      <3>1. m \in Reading(op[o].env) /\ op[o].env \in Environments
        BY <2>1, <2>4 DEF Reading, ActiveIn, ActiveOp
      <3>. QED
        BY <2>2, <3>1, ReadingFinite, FS_EmptySet DEF CountersMatch
    <2>. QED
      BY <2>1, <2>3, <2>4 DEF ActiveOp
  <1>. QED
    BY <1>1, LockInvInit, LockInvStep, PTL DEF Spec
-----------------------------------------------------------------------------
(***************************************************************************)
(* Fences and project sections.                                            *)
(***************************************************************************)
\* An active call was active before, unchanged but for its phase, or has
\* just passed the availability check.
LEMMA ActiveCalls ==
  ASSUME LockInv, NEW o \in Operations, OperationStep(o), NEW m \in Operations, Active(m)'
  PROVE  \/ Active(m) /\ op'[m].env = op[m].env /\ op'[m].owner = op[m].owner
         \/ \E e \in Environments : \E w \in Callers(e) :
               EnvironmentAvailable(e, w) /\ op'[m].env = e /\ op'[m].owner = w
  <1>. USE DEF LockInv, TypeOK, Active
  <1>1. ASSUME NEW e \in Environments, NEW w \in Callers(e),
               EnqueueMutation(o, e, w) \/ StartRead(o, e, w)
        PROVE  \/ Active(m) /\ op'[m].env = op[m].env /\ op'[m].owner = op[m].owner
               \/ EnvironmentAvailable(e, w) /\ op'[m].env = e /\ op'[m].owner = w
    <2>1. CASE m = o
      BY <1>1, <2>1 DEF EnqueueMutation, StartRead
    <2>2. CASE m # o
      <3>1. op'[m] = op[m]
        BY <1>1, <2>2 DEF EnqueueMutation, StartRead
      <3>. QED
        BY <3>1
    <2>. QED
      BY <2>1, <2>2
  <1>2. CASE WaitReaders(o) \/ StartMutation(o)
    <2>1. op[o] \in ActiveOp
      BY <1>2, ActiveType DEF WaitReaders, StartMutation
    <2>2. op'[m] = op[m] \/ m = o
      BY <1>2 DEF WaitReaders, StartMutation
    <2>3. op'[o].env = op[o].env /\ op'[o].owner = op[o].owner /\ op[o].phase # "idle"
      BY <1>2, <2>1 DEF WaitReaders, StartMutation, ActiveOp
    <2>. QED
      BY <2>2, <2>3
  <1>3. CASE FinishMutation(o)
    BY <1>3 DEF FinishMutation, IdleOp
  <1>4. CASE FinishRead(o)
    <2>1. m # o
      BY <1>4 DEF FinishRead, IdleOp
    <2>2. CASE op'[m] = op[m]
      BY <2>2
    <2>3. CASE op[m].phase = "waiting" /\ op'[m] = [op[m] EXCEPT !.phase = "ready"]
      <3>1. op[m] \in ActiveOp
        BY <2>3, ActiveType
      <3>. QED
        BY <2>3, <3>1 DEF ActiveOp
    <2>. QED
      BY <1>4, <2>1, <2>2, <2>3 DEF FinishRead
  <1>. QED
    BY <1>1, <1>2, <1>3, <1>4 DEF OperationStep

LEMMA OperationStepScope ==
  ASSUME LockInv, ScopeInv, NEW o \in Operations, OperationStep(o)
  PROVE  ScopeInv'
  <1>1. UNCHANGED <<fence, client, deletion, sync>>
    BY DEF OperationStep, EnqueueMutation, StartRead, WaitReaders, StartMutation,
           FinishMutation, FinishRead
  <1>2. FenceOwnersExact' /\ CloudSectionHasNoFence'
    BY <1>1 DEF ScopeInv, FenceOwnersExact, CloudSectionHasNoFence, Holds
  <1>3. FenceIsolates'
    <2>. SUFFICES ASSUME NEW w \in Owners, NEW e \in Environments, Holds(w, e),
                         NEW m \in Operations, Active(m)', op'[m].env = e
                  PROVE  /\ client[w] = "exclusive" => op'[m].owner = w
                         /\ client[w] = "planned" => op'[m].owner # Unowned
      BY <1>1 DEF FenceIsolates, Holds, ActiveIn
    <2>1. CASE Active(m) /\ op'[m].env = op[m].env /\ op'[m].owner = op[m].owner
      BY <2>1 DEF ScopeInv, FenceIsolates, ActiveIn
    <2>2. ASSUME NEW c \in Callers(e), EnvironmentAvailable(e, c), op'[m].owner = c
          PROVE  op'[m].owner = w
      BY <2>2 DEF EnvironmentAvailable, Holds
    <2>. QED
      BY <2>1, <2>2, ActiveCalls, CoordinatorAssumption
  <1>4. ProjectSectionIsQuiet'
    <2>. SUFFICES ASSUME NEW p \in Projects, "exclusive" \in {deletion[p], sync[p]},
                         NEW m \in Operations, Active(m)', op'[m].env \in EnvironmentsOf(p)
                  PROVE  FALSE
      BY <1>1 DEF ScopeInv, ProjectSectionIsQuiet, ActiveIn
    <2>1. CASE Active(m) /\ op'[m].env = op[m].env
      BY <2>1 DEF ScopeInv, ProjectSectionIsQuiet, ActiveIn
    <2>2. ASSUME NEW c, EnvironmentAvailable(op'[m].env, c) PROVE FALSE
      BY <2>2 DEF EnvironmentAvailable, ProjectAvailable, EnvironmentsOf
    <2>. QED
      BY <2>1, <2>2, ActiveCalls
  <1>. QED
    BY <1>2, <1>3, <1>4 DEF ScopeInv

LEMMA FenceStepScope ==
  ASSUME LockInv, ScopeInv, NEW w \in Owners, NEW e \in Environments, FenceStep(w, e)
  PROVE  ScopeInv'
  <1>. USE DEF ScopeInv
  <1>1. UNCHANGED <<op, deletion, sync>>
    BY DEF FenceStep, InstallFence, DrainEnvironment, ReleaseFence, HandoffFence
  <1>2. ProjectSectionIsQuiet'
    BY <1>1 DEF ProjectSectionIsQuiet, ActiveIn, Active
  <1>3. \A d \in Environments : ActiveIn(d)' = ActiveIn(d)
    BY <1>1 DEF ActiveIn, Active
  <1>4. fence \in [Environments -> Fence] /\ client \in [Owners -> ClientPhases]
    BY DEF LockInv, TypeOK
  <1>5. CASE InstallFence(w, e)
    <2>1. /\ fence'[e] = [kind |-> "edit", owner |-> w] /\ client'[w] = "draining"
          /\ \A d \in Environments : d # e => fence'[d] = fence[d]
          /\ \A v \in Owners : v # w => client'[v] = client[v]
          /\ \A d \in Environments : ~Holds(w, d)
          /\ fence[e] = NoFence
      BY <1>4, <1>5 DEF InstallFence, FenceOwnersExact
    <2>2. \A v \in Owners, d \in Environments : Holds(v, d)' => (v = w /\ d = e) \/ (v # w /\ Holds(v, d))
      BY <2>1 DEF Holds
    <2>3. FenceOwnersExact'
      BY <2>1, <2>2 DEF FenceOwnersExact
    <2>4. FenceIsolates'
      BY <1>1, <1>3, <2>1, <2>2 DEF FenceIsolates
    <2>5. CloudSectionHasNoFence'
      BY <1>1, <1>5, <2>1 DEF CloudSectionHasNoFence, InstallFence, ProjectAvailable, EnvironmentsOf
    <2>. QED
      BY <1>2, <2>3, <2>4, <2>5
  <1>6. CASE DrainEnvironment(w, e)
    <2>1. /\ client'[w] = "exclusive" /\ UNCHANGED fence /\ Holds(w, e)
          /\ \A v \in Owners : v # w => client'[v] = client[v]
          /\ client[w] = "draining"
      BY <1>4, <1>6 DEF DrainEnvironment
    <2>2. \A v \in Owners, d \in Environments : Holds(v, d)' <=> Holds(v, d)
      BY <2>1 DEF Holds
    <2>3. FenceOwnersExact' /\ CloudSectionHasNoFence'
      BY <1>1, <2>1, <2>2 DEF FenceOwnersExact, CloudSectionHasNoFence
    <2>4. ActiveIn(e) = {}
      BY <1>6, SettledMeansIdle DEF DrainEnvironment, Drained, ActivitySettled
    <2>5. FenceIsolates'
      BY <1>1, <1>3, <2>1, <2>2, <2>4 DEF FenceIsolates, FenceOwnersExact
    <2>. QED
      BY <1>2, <2>3, <2>5
  <1>7. CASE ReleaseFence(w, e)
    <2>1. /\ fence'[e] = NoFence /\ client'[w] = "none"
          /\ \A d \in Environments : d # e => fence'[d] = fence[d]
          /\ \A v \in Owners : v # w => client'[v] = client[v]
          /\ Holds(w, e)
      BY <1>4, <1>7 DEF ReleaseFence
    <2>2. \A v \in Owners, d \in Environments : Holds(v, d)' => d # e /\ v # w /\ Holds(v, d)
      BY <2>1 DEF Holds, FenceOwnersExact
    <2>3. FenceOwnersExact'
      BY <2>1, <2>2 DEF FenceOwnersExact
    <2>4. FenceIsolates'
      BY <1>1, <1>3, <2>1, <2>2 DEF FenceIsolates
    <2>5. CloudSectionHasNoFence'
      BY <1>1, <2>1 DEF CloudSectionHasNoFence, EnvironmentsOf
    <2>. QED
      BY <1>2, <2>3, <2>4, <2>5
  <1>8. ASSUME NEW v \in Owners, HandoffFence(w, v, e) PROVE ScopeInv'
    <2>1. /\ fence'[e] = [kind |-> "connection-plan", owner |-> v]
          /\ client'[w] = "none" /\ client'[v] = "planned" /\ v # w
          /\ \A d \in Environments : d # e => fence'[d] = fence[d]
          /\ \A u \in Owners : u # w /\ u # v => client'[u] = client[u]
          /\ Holds(w, e) /\ fence[e] # NoFence
          /\ \A d \in Environments : ~Holds(v, d)
      BY <1>4, <1>8 DEF HandoffFence, FenceOwnersExact, Holds
    <2>2. \A u \in Owners, d \in Environments :
             Holds(u, d)' => (u = v /\ d = e) \/ (u # v /\ u # w /\ d # e /\ Holds(u, d))
      BY <2>1 DEF Holds, FenceOwnersExact
    <2>3. FenceOwnersExact'
      BY <2>1, <2>2 DEF FenceOwnersExact
    <2>4. CloudSectionHasNoFence'
      BY <1>1, <2>1 DEF CloudSectionHasNoFence, EnvironmentsOf
    <2>5. \A o \in ActiveIn(e) : op[o].owner # Unowned
      BY <1>8, CoordinatorAssumption DEF HandoffFence, FenceIsolates
    <2>6. FenceIsolates'
      BY <1>1, <1>3, <2>1, <2>2, <2>5 DEF FenceIsolates
    <2>. QED
      BY <1>2, <2>3, <2>4, <2>6
  <1>. QED
    BY <1>5, <1>6, <1>7, <1>8 DEF FenceStep

LEMMA ProjectStepScope ==
  ASSUME LockInv, ScopeInv, NEW p \in Projects, ProjectStep(p)
  PROVE  ScopeInv'
  <1>. USE DEF ScopeInv
  <1>1. UNCHANGED <<op, fence, client>>
    BY DEF ProjectStep, BeginProjectDelete, DeleteActivityEnds, EndProjectDelete,
           BeginCloudSync, SyncActivityEnds, EndCloudSync
  <1>2. FenceOwnersExact'
    BY <1>1 DEF FenceOwnersExact, Holds
  <1>3. \A e \in Environments : ActiveIn(e)' = ActiveIn(e)
    BY <1>1 DEF ActiveIn, Active
  <1>4. FenceIsolates'
    BY <1>1, <1>3 DEF FenceIsolates, Holds
  <1>5. /\ \A q \in Projects : q # p => deletion'[q] = deletion[q] /\ sync'[q] = sync[q]
        /\ sync'[p] # "none" => sync[p] # "none" \/ \A e \in EnvironmentsOf(p) : fence[e] = NoFence
        /\ deletion'[p] = "none" \/ sync'[p] = "none"
        /\ "exclusive" \in {deletion'[p], sync'[p]} =>
             \/ "exclusive" \in {deletion[p], sync[p]}
             \/ \A e \in EnvironmentsOf(p) : ActivitySettled(e)
    BY DEF LockInv, TypeOK, ProjectStep, BeginProjectDelete, DeleteActivityEnds, EndProjectDelete,
           BeginCloudSync, SyncActivityEnds, EndCloudSync, ProjectAvailable, ProjectSectionIsQuiet
  <1>6. CloudSectionHasNoFence'
    BY <1>1, <1>5 DEF CloudSectionHasNoFence, EnvironmentsOf
  <1>7. ProjectSectionIsQuiet'
    BY <1>3, <1>5, SettledMeansIdle DEF ProjectSectionIsQuiet, EnvironmentsOf
  <1>. QED
    BY <1>2, <1>4, <1>6, <1>7

LEMMA IInvInit == Init => IInv
  <1>. SUFFICES ASSUME Init PROVE IInv
    OBVIOUS
  <1>1. ScopeInv
    BY DEF Init, ScopeInv, FenceOwnersExact, FenceIsolates, ProjectSectionIsQuiet,
           CloudSectionHasNoFence, Holds
  <1>. QED
    BY <1>1, LockInvInit DEF IInv

LEMMA IInvStep == IInv /\ [Next]_vars => IInv'
  <1>. SUFFICES ASSUME IInv, [Next]_vars PROVE IInv'
    OBVIOUS
  <1>1. LockInv'
    BY LockInvStep DEF IInv
  <1>2. ScopeInv'
    <2>1. CASE UNCHANGED vars
      BY <2>1 DEF vars, IInv, ScopeInv, FenceOwnersExact, FenceIsolates, ProjectSectionIsQuiet,
                  CloudSectionHasNoFence, Holds, ActiveIn, Active
    <2>. QED
      BY <2>1, OperationStepScope, FenceStepScope, ProjectStepScope DEF IInv, Next
  <1>. QED
    BY <1>1, <1>2 DEF IInv

(***************************************************************************)
(* Behind an edit fence, and while a project is deleted or synchronised,   *)
(* no foreign operation is active.                                         *)
(***************************************************************************)
THEOREM ScopesIsolate ==
  Spec => []ScopesIsolated
  <1>1. IInv => ScopesIsolated
    BY DEF IInv, ScopeInv, ScopesIsolated
  <1>. QED
    BY <1>1, IInvInit, IInvStep, PTL DEF Spec
(***************************************************************************)
(* The counters the admission tests read are exact.                        *)
(***************************************************************************)
THEOREM CountersStayExact == Spec => []CountersExact
  <1>1. LockInv => CountersExact
    BY DEF LockInv, CountersMatch, ChainSound, ChainComplete, CountersExact
  <1>. QED
    BY <1>1, LockInvInit, LockInvStep, PTL DEF Spec
-----------------------------------------------------------------------------
(***************************************************************************)
(* Refinement of the first-come first-served lock.                         *)
(***************************************************************************)
LockInside == [e \in Environments |-> Reading(e)]
LockWriting == [e \in Environments |-> Running(e)]
LockWaiting == [e \in Environments |-> IF Running(e) = {} THEN chain[e] ELSE Tail(chain[e])]

\* Only the head of a chain runs, and then nobody reads.
LEMMA RunningIsHead ==
  ASSUME LockInv, NEW e \in Environments, NEW o \in Running(e)
  PROVE  /\ Running(e) = {o} /\ Reading(e) = {}
         /\ chain[e] \in Seq(Operations) /\ chain[e] # <<>> /\ Head(chain[e]) = o
  <1>. USE DEF LockInv
  <1>1. \A m \in Running(e) : Head(chain[e]) = m /\ chain[e] # <<>> /\ readers[e] = 0
    BY DEF Running, Mutating, ActiveIn, HeadOfChain, AdmittedAlone, Admitted
  <1>2. Reading(e) = {}
    BY <1>1, ReadingFinite, FS_EmptySet DEF CountersMatch
  <1>3. Running(e) = {o} /\ chain[e] \in Seq(Operations)
    BY <1>1 DEF TypeOK
  <1>. QED
    BY <1>1, <1>2, <1>3

LEMMA EnqueueIsRequest ==
  ASSUME LockInv, NEW o \in Operations, NEW e \in Environments, NEW w \in Callers(e),
         EnqueueMutation(o, e, w)
  PROVE  Lock!Request(o, e)
  <1>1. \A d \in Environments : Reading(d)' = Reading(d) /\ Running(d)' = Running(d)
    BY DEF LockInv, TypeOK, EnqueueMutation, Reading, Running, Mutating, ActiveIn, Active
  <1>2. /\ chain[e] \in Seq(Operations) /\ chain'[e] = Append(chain[e], o)
        /\ \A d \in Environments : d # e => chain'[d] = chain[d]
    BY DEF LockInv, TypeOK, EnqueueMutation
  <1>3. Running(e) # {} => Tail(chain'[e]) = Append(Tail(chain[e]), o)
    <2>1. Running(e) # {} => chain[e] # <<>>
      BY RunningIsHead
    <2>. QED
      BY <1>2, <2>1
  <1>4. UNCHANGED <<LockInside, LockWriting>>
    BY <1>1 DEF LockInside, LockWriting
  <1>5. LockWaiting' = [LockWaiting EXCEPT ![e] = Append(@, o)]
    BY <1>1, <1>2, <1>3 DEF LockWaiting
  <1>. QED
    BY <1>4, <1>5 DEF Lock!Request, LockInside, LockWriting, LockWaiting

LEMMA StartIsGrant ==
  ASSUME LockInv, NEW o \in Operations, StartMutation(o)
  PROVE  \E e \in Environments : Lock!Grant(o, e)
  <1>. USE DEF LockInv
  <1>1. op[o] \in ActiveOp
    BY ActiveType DEF StartMutation, Active
  <1>2. PICK e \in Environments : e = op[o].env
    BY <1>1 DEF ActiveOp
  <1>3. op[o].kind = "mutation" /\ chain[e] # <<>> /\ Head(chain[e]) = o /\ readers[e] = 0
    BY <1>2 DEF StartMutation, HeadOfChain, AdmittedAlone, Admitted
  <1>4. Running(e) = {} /\ Reading(e) = {}
    <2>1. o \notin Running(e)
      BY DEF StartMutation, Running
    <2>2. Running(e) = {}
      BY <1>3, <2>1, RunningIsHead
    <2>. QED
      BY <1>3, <2>2, ReadingFinite, FS_EmptySet DEF CountersMatch
  <1>5. /\ op' = [op EXCEPT ![o] = [op[o] EXCEPT !.phase = "running"]] /\ UNCHANGED chain
        /\ op'[o].phase = "running" /\ op'[o].kind = "mutation" /\ op'[o].env = e
    BY <1>1, <1>2, <1>3 DEF StartMutation, TypeOK, ActiveOp
  <1>6. /\ \A d \in Environments : Reading(d)' = Reading(d)
        /\ Running(e)' = {o}
        /\ \A d \in Environments : d # e => Running(d)' = Running(d)
    <2>1. \A m \in Operations : m # o => op'[m] = op[m]
      BY <1>5
    <2>. QED
      BY <1>2, <1>3, <1>4, <1>5, <2>1 DEF Reading, Running, Mutating, ActiveIn, Active, StartMutation
  <1>7. UNCHANGED LockInside
    BY <1>6 DEF LockInside
  <1>8. LockWriting' = [LockWriting EXCEPT ![e] = {o}]
    BY <1>6 DEF LockWriting
  <1>9. LockWaiting' = [LockWaiting EXCEPT ![e] = Tail(@)]
    BY <1>4, <1>5, <1>6 DEF LockWaiting
  <1>10. Lock!Grant(o, e)
    BY <1>3, <1>4, <1>7, <1>8, <1>9 DEF Lock!Grant, LockInside, LockWriting, LockWaiting
  <1>. QED
    BY <1>10

LEMMA FinishIsRelease ==
  ASSUME LockInv, NEW o \in Operations, FinishMutation(o)
  PROVE  \E e \in Environments : Lock!Release(o, e)
  <1>. USE DEF LockInv
  <1>1. op[o] \in ActiveOp
    BY ActiveType DEF FinishMutation, Active
  <1>2. PICK e \in Environments : e = op[o].env
    BY <1>1 DEF ActiveOp
  <1>3. o \in Running(e)
    BY <1>2 DEF FinishMutation, Running, Mutating, ActiveIn, Active
  <1>4. Running(e) = {o}
    BY <1>3, RunningIsHead
  <1>5. /\ \A d \in Environments : Reading(d)' = Reading(d) /\ Running(d)' = Running(d) \ {o}
        /\ \A d \in Environments : d # e => o \notin Running(d)
        /\ chain'[e] = Tail(chain[e])
        /\ \A d \in Environments : d # e => chain'[d] = chain[d]
    BY <1>2 DEF FinishMutation, TypeOK, Reading, Running, Mutating, ActiveIn, Active, IdleOp
  <1>6. UNCHANGED <<LockInside, LockWaiting>>
    BY <1>4, <1>5 DEF LockInside, LockWaiting
  <1>7. LockWriting' = [LockWriting EXCEPT ![e] = {}]
    <2>1. Running(e)' = {} /\ \A d \in Environments : d # e => Running(d)' = Running(d)
      BY <1>4, <1>5
    <2>. QED
      BY <2>1 DEF LockWriting
  <1>8. Lock!Release(o, e)
    BY <1>3, <1>6, <1>7 DEF Lock!Release, LockInside, LockWriting, LockWaiting
  <1>. QED
    BY <1>8

LEMMA StartReadIsEnter ==
  ASSUME LockInv, NEW o \in Operations, NEW e \in Environments, NEW w \in Callers(e),
         StartRead(o, e, w)
  PROVE  Lock!Enter(o, e)
  <1>. USE DEF LockInv
  <1>1. chain[e] = <<>>
    BY DEF StartRead, CountersMatch, TypeOK
  <1>2. Running(e) = {}
    BY <1>1, RunningIsHead
  <1>3. /\ \A d \in Environments : Running(d)' = Running(d)
        /\ \A d \in Environments : d # e => Reading(d)' = Reading(d)
        /\ Reading(e)' = Reading(e) \union {o} /\ o \notin Reading(e)
        /\ UNCHANGED chain
    BY DEF StartRead, TypeOK, Reading, Running, Mutating, ActiveIn, Active
  <1>4. UNCHANGED <<LockWriting, LockWaiting>>
    BY <1>3 DEF LockWriting, LockWaiting
  <1>5. LockInside' = [LockInside EXCEPT ![e] = @ \union {o}]
    BY <1>3 DEF LockInside
  <1>. QED
    BY <1>1, <1>2, <1>3, <1>4, <1>5 DEF Lock!Enter, LockInside, LockWriting, LockWaiting

LEMMA FinishReadIsLeave ==
  ASSUME LockInv, NEW o \in Operations, FinishRead(o)
  PROVE  \E e \in Environments : Lock!Leave(o, e)
  <1>. USE DEF LockInv
  <1>1. op[o] \in ActiveOp
    BY ActiveType DEF FinishRead, Active
  <1>2. PICK e \in Environments : e = op[o].env
    BY <1>1 DEF ActiveOp
  <1>3. o \in Reading(e)
    BY <1>2 DEF FinishRead, Reading, ActiveIn, Active
  <1>4. \A m \in Operations : m # o =>
          \/ op'[m] = op[m]
          \/ /\ op[m].phase = "waiting" /\ op'[m].phase = "ready"
             /\ op'[m].kind = op[m].kind /\ op'[m].env = op[m].env
    <2>1. ASSUME NEW m \in Operations, m # o, op'[m] # op[m]
          PROVE  op[m].phase = "waiting" /\ op'[m] = [op[m] EXCEPT !.phase = "ready"]
      BY <2>1 DEF FinishRead
    <2>2. ASSUME NEW m \in Operations, m # o, op'[m] # op[m]
          PROVE  op[m] \in ActiveOp
      BY <2>1, <2>2, ActiveType DEF Active
    <2>. QED
      BY <2>1, <2>2, ZenonT(40) DEF ActiveOp
  <1>5. op'[o] = IdleOp /\ op[o].kind = "read" /\ UNCHANGED chain
    BY DEF FinishRead
  <1>6. /\ \A d \in Environments : Running(d)' = Running(d)
        /\ \A d \in Environments : Reading(d)' = Reading(d) \ {o}
        /\ \A d \in Environments : d # e => o \notin Reading(d)
    BY <1>2, <1>4, <1>5 DEF Reading, Running, Mutating, ActiveIn, Active, IdleOp
  <1>7. UNCHANGED <<LockWriting, LockWaiting>>
    BY <1>5, <1>6 DEF LockWriting, LockWaiting
  <1>8. LockInside' = [LockInside EXCEPT ![e] = @ \ {o}]
    BY <1>6, ZenonT(40) DEF LockInside
  <1>9. Lock!Leave(o, e)
    BY <1>3, <1>7, <1>8 DEF Lock!Leave, LockInside, LockWriting, LockWaiting
  <1>. QED
    BY <1>9

LEMMA OtherStepsStutter ==
  ASSUME LockInv,
         \/ \E o \in Operations : WaitReaders(o)
         \/ \E w \in Owners, e \in Environments : FenceStep(w, e)
         \/ \E p \in Projects : ProjectStep(p)
         \/ UNCHANGED vars
  PROVE  UNCHANGED <<LockInside, LockWriting, LockWaiting>>
  <1>1. UNCHANGED chain /\ \A d \in Environments : Reading(d)' = Reading(d) /\ Running(d)' = Running(d)
    <2>1. ASSUME NEW o \in Operations, WaitReaders(o)
          PROVE  UNCHANGED chain /\ \A d \in Environments : Reading(d)' = Reading(d) /\ Running(d)' = Running(d)
      <3>1. op[o] \in ActiveOp /\ op[o].kind = "mutation"
        BY <2>1, ActiveType DEF LockInv, ReadsRun, WaitReaders, Active, ActiveOp
      <3>2. /\ \A m \in Operations : m # o => op'[m] = op[m]
            /\ op'[o].kind = "mutation" /\ op'[o].env = op[o].env
            /\ op'[o].phase \in {"waiting", "ready"}
            /\ op[o].phase = "queued" /\ UNCHANGED chain
        BY <2>1, <3>1 DEF WaitReaders, LockInv, TypeOK, ActiveOp
      <3>. QED
        BY <3>1, <3>2 DEF Reading, Running, Mutating, ActiveIn, Active
    <2>2. CASE UNCHANGED <<op, chain>>
      BY <2>2 DEF Reading, Running, Mutating, ActiveIn, Active
    <2>3. (\E o \in Operations : WaitReaders(o)) \/ UNCHANGED <<op, chain>>
      BY DEF vars, FenceStep, InstallFence, DrainEnvironment, ReleaseFence, HandoffFence,
             ProjectStep, BeginProjectDelete, DeleteActivityEnds, EndProjectDelete,
             BeginCloudSync, SyncActivityEnds, EndCloudSync
    <2>. QED
      BY <2>1, <2>2, <2>3
  <1>. QED
    BY <1>1 DEF LockInside, LockWriting, LockWaiting

(***************************************************************************)
(* The coordinator implements the lock: mutations are admitted in the      *)
(* order they were submitted, alone, and no reader overtakes one.          *)
(***************************************************************************)
THEOREM CoordinatorImplementsLock == Spec => ImplementsLock
  <1>1. Init => Lock!LockInit
    BY DEF Init, Lock!LockInit, Reading, Running, Mutating, ActiveIn, Active, IdleOp
  <1>2. LockInv /\ [Next]_vars => [Lock!LockNext]_(Lock!lockVars)
    <2>. SUFFICES ASSUME LockInv, [Next]_vars
                  PROVE  Lock!LockNext \/ UNCHANGED <<LockInside, LockWriting, LockWaiting>>
      BY DEF Lock!lockVars, LockInside, LockWriting, LockWaiting
    <2>1. ASSUME NEW o \in Operations, OperationStep(o)
          PROVE  Lock!LockNext \/ WaitReaders(o)
      <3>1. ASSUME NEW e \in Environments, NEW w \in Callers(e),
                   EnqueueMutation(o, e, w) \/ StartRead(o, e, w)
            PROVE  Lock!LockNext
        BY <3>1, EnqueueIsRequest, StartReadIsEnter DEF Lock!LockNext
      <3>2. CASE StartMutation(o) \/ FinishMutation(o) \/ FinishRead(o)
        BY <3>2, StartIsGrant, FinishIsRelease, FinishReadIsLeave DEF Lock!LockNext
      <3>. QED
        BY <2>1, <3>1, <3>2 DEF OperationStep
    <2>. QED
      BY <2>1, OtherStepsStutter DEF Next
  <1>. QED
    BY <1>1, <1>2, LockInvInit, LockInvStep, PTL DEF Spec, ImplementsLock, Lock!LockSpec
=============================================================================
