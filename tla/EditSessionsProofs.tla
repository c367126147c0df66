------------------------- MODULE EditSessionsProofs -------------------------
(***************************************************************************)
(* Proofs about EditSessions for any edits, windows, addresses, drafts and *)
(* bounds: the fence stands for the edit that holds it, a session edits    *)
(* and saves undisturbed, and a new address is saved with a proven key or  *)
(* with none.                                                              *)
(*                                                                         *)
(* The inductive invariant adds to the fence what every stage of an edit   *)
(* has seen so far: that its preview is not newer than the record, that    *)
(* the drain has found nothing under way, that its slot holds a check of   *)
(* its own, and where the trust of a save comes from.                      *)
(***************************************************************************)
EXTENDS EditSessions, TLAPS

-----------------------------------------------------------------------------
(* The inductive invariant.                                                  *)

Previewing == {"prepared", "editing", "saving"} \cup Beginning
Undisturbable == {"cutting", "editing", "saving"}

\* What was previewed is the record, or an older revision of it.
BaseOK(e) ==
  /\ edit[e].stage \in Previewing =>
       /\ edit[e].base <= record.revision
       /\ edit[e].base = record.revision =>
            edit[e].baseDraft = [addr |-> record.addr, key |-> record.key]
  /\ edit[e].stage \in Undisturbable => edit[e].base = record.revision

\* What a drain has waited for stays away.
WorkDrained(e) ==
  \/ edit[e].stage \in Undisturbable \cup {"drained"}
  \/ edit[e].stage = "draining" /\ "work" \notin edit[e].awaits
LinksDrained(e) ==
  \/ edit[e].stage \in {"drained", "cutting"}
  \/ edit[e].stage = "draining" /\ "links" \notin edit[e].awaits

QuietOK(e) ==
  /\ WorkDrained(e) => ~readers /\ ~writers
  /\ LinksDrained(e) /\ link = "connecting" => late
  /\ edit[e].stage \in {"editing", "saving"} /\ link \in {"connecting", "up"} => late

\* The slot of a session holds a check of this session.
SlotOK(e) ==
  edit[e].slot # 0 =>
    /\ edit[e].stage \in Held
    /\ check[edit[e].slot] # None /\ check[edit[e].slot].edit = e

\* A save has its draft and trusts what the valid check in its slot has proven.
TrustOK(e) ==
  edit[e].stage = "saving" =>
    /\ edit[e].draft \in Drafts
    /\ edit[e].trust # None =>
         /\ edit[e].slot # 0
         /\ check[edit[e].slot].state = "valid" /\ check[edit[e].slot].trust = edit[e].trust

ChallengeOK(e) ==
  edit[e].challenge # None => edit[e].challenge.generation = edit[e].generation

EditOK(e) == BaseOK(e) /\ QuietOK(e) /\ SlotOK(e) /\ TrustOK(e) /\ ChallengeOK(e)

\* A check trusts the key of its draft; a valid one has seen it.
Sound(k) ==
  k # None =>
    /\ k.trust = IF k.draft.key = None THEN None
                 ELSE [key |-> k.draft.key, addr |-> k.draft.addr]
    /\ k.state = "valid" => k.draft.key = k.draft.addr

IInv ==
  /\ TypeOK /\ FencesMatch
  /\ \A e \in Edits : EditOK(e)
  /\ \A c \in 1..MaxChecks : Sound(check[c])

-----------------------------------------------------------------------------
(* Types of the records.                                                     *)

LEMMA UnusedType == Unused \in EditRecord
  BY BoundsAssumption DEF Unused, EditRecord, Stages, Keys

LEMMA OverType == Over \in EditRecord /\ Over.stage = "over" /\ Over.slot = 0 /\ Over.challenge = None
  BY UnusedType DEF Over, Unused, EditRecord, Stages

LEMMA FlagType ==
  ASSUME NEW r \in EditRecord, NEW x \in BOOLEAN, NEW y \in BOOLEAN
  PROVE  /\ [r EXCEPT !.aborted = x] \in EditRecord
         /\ [r EXCEPT !.lapsed = x] \in EditRecord
         /\ [r EXCEPT !.left = x] \in EditRecord
         /\ [r EXCEPT !.told = x] \in EditRecord
         /\ [r EXCEPT !.left = x, !.aborted = y] \in EditRecord
<1>1. [r EXCEPT !.aborted = x] \in EditRecord
  BY DEF EditRecord
<1>2. [r EXCEPT !.lapsed = x] \in EditRecord
  BY DEF EditRecord
<1>3. [r EXCEPT !.left = x] \in EditRecord
  BY DEF EditRecord
<1>4. [r EXCEPT !.told = x] \in EditRecord
  BY DEF EditRecord
<1>5. [r EXCEPT !.left = x, !.aborted = y] \in EditRecord
  BY DEF EditRecord
<1> QED
  BY <1>1, <1>2, <1>3, <1>4, <1>5

LEMMA StagedType ==
  ASSUME NEW r \in EditRecord, NEW s \in Stages
  PROVE  /\ [r EXCEPT !.stage = s] \in EditRecord
<1>1. [r EXCEPT !.stage = s] \in EditRecord
  BY DEF EditRecord
<1> QED
  BY <1>1

LEMMA DrainType ==
  ASSUME NEW r \in EditRecord, NEW s \in Stages, NEW a \in SUBSET {"work", "links"}
  PROVE  /\ [r EXCEPT !.stage = s, !.awaits = a] \in EditRecord
         /\ [r EXCEPT !.awaits = a] \in EditRecord
<1>1. [r EXCEPT !.stage = s, !.awaits = a] \in EditRecord
  BY DEF EditRecord
<1>2. [r EXCEPT !.awaits = a] \in EditRecord
  BY DEF EditRecord
<1> QED
  BY <1>1, <1>2

LEMMA CutType ==
  ASSUME NEW r \in EditRecord, NEW s \in Stages, NEW b \in BOOLEAN, NEW x \in BOOLEAN,
         NEW y \in BOOLEAN
  PROVE  /\ [r EXCEPT !.stage = s, !.restores = b, !.lapsed = x, !.aborted = y] \in EditRecord
<1>1. [r EXCEPT !.stage = s, !.restores = b, !.lapsed = x, !.aborted = y] \in EditRecord
  BY DEF EditRecord
<1> QED
  BY <1>1

LEMMA SavedType ==
  ASSUME NEW r \in EditRecord, NEW s \in Stages, NEW x \in BOOLEAN,
         NEW d \in Drafts \cup {None}, NEW t \in Trust \cup {None}
  PROVE  /\ [r EXCEPT !.stage = s, !.draft = d, !.trust = t] \in EditRecord
         /\ [r EXCEPT !.stage = s, !.lapsed = x, !.draft = d, !.trust = t] \in EditRecord
  BY ZenonT(40) DEF EditRecord

LEMMA CheckedType ==
  ASSUME NEW r \in EditRecord, NEW g \in 0..MaxGeneration, NEW h \in Challenge \cup {None},
         NEW c \in 0..MaxChecks
  PROVE  [r EXCEPT !.generation = g, !.challenge = h, !.slot = c] \in EditRecord
  BY DEF EditRecord

LEMMA ChallengeType ==
  ASSUME NEW r \in EditRecord, NEW h \in Challenge \cup {None}
  PROVE  [r EXCEPT !.challenge = h] \in EditRecord
  BY DEF EditRecord

LEMMA CandidateType ==
  ASSUME NEW base \in [addr : Addresses \cup {None}, key : Keys], NEW draft \in Drafts, NEW trust
  PROVE  Candidate(base, draft, trust) \in Drafts
  BY DEF Candidate, Drafts, Keys

-----------------------------------------------------------------------------
(* Records that agree on what the invariant reads.                           *)

Beside(r, s) ==
  /\ s.base = r.base /\ s.baseDraft = r.baseDraft
  /\ s.generation = r.generation /\ s.challenge = r.challenge
  /\ s.slot = r.slot /\ s.draft = r.draft /\ s.trust = r.trust

Alike(r, s) == Beside(r, s) /\ s.stage = r.stage /\ s.awaits = r.awaits

LEMMA AlikeOf ==
  ASSUME NEW r \in EditRecord, NEW x \in BOOLEAN, NEW y \in BOOLEAN
  PROVE  /\ Alike(r, r)
         /\ Alike(r, [r EXCEPT !.aborted = x])
         /\ Alike(r, [r EXCEPT !.lapsed = x])
         /\ Alike(r, [r EXCEPT !.left = x])
         /\ Alike(r, [r EXCEPT !.told = x])
         /\ Alike(r, [r EXCEPT !.left = x, !.aborted = y])
  BY DEF Alike, Beside, EditRecord

LEMMA StagedOf ==
  ASSUME NEW r \in EditRecord, NEW s \in Stages, NEW n, n = [r EXCEPT !.stage = s]
  PROVE  Beside(r, n) /\ n.stage = s /\ n.awaits = r.awaits /\ n \in EditRecord
  BY StagedType DEF Beside, EditRecord

LEMMA AwaitsOf ==
  ASSUME NEW r \in EditRecord, NEW a \in SUBSET {"work", "links"}, NEW n,
         n = [r EXCEPT !.awaits = a]
  PROVE  Beside(r, n) /\ n.stage = r.stage /\ n.awaits = a /\ n \in EditRecord
<1>1. r.stage \in Stages /\ n \in EditRecord
  BY DEF EditRecord
<1> QED
  BY <1>1 DEF Beside, EditRecord

\* The check in the slot of an edit survives, and what it has proven.
SlotKept(x) ==
  edit[x].slot # 0 =>
    /\ check'[edit[x].slot] # None
    /\ check'[edit[x].slot].edit = check[edit[x].slot].edit
    /\ check[edit[x].slot].state = "valid" =>
         /\ check'[edit[x].slot].state = "valid"
         /\ check'[edit[x].slot].trust = check[edit[x].slot].trust

\* An edit that is left alone keeps its part of the invariant.
LEMMA AlikeOK ==
  ASSUME NEW x \in Edits, EditOK(x), Alike(edit[x], edit'[x]), SlotKept(x),
         UNCHANGED <<record, readers, writers, link, late>>
  PROVE  EditOK(x)'
<1> USE DEF Alike, Beside
<1>1. BaseOK(x)'
  BY DEF EditOK, BaseOK
<1>2. QuietOK(x)'
  BY DEF EditOK, QuietOK, WorkDrained, LinksDrained
<1>3. SlotOK(x)'
  BY DEF EditOK, SlotOK, SlotKept
<1>4. TrustOK(x)'
  BY DEF EditOK, TrustOK, SlotKept
<1>5. ChallengeOK(x)'
  BY DEF EditOK, ChallengeOK
<1> QED
  BY <1>1, <1>2, <1>3, <1>4, <1>5 DEF EditOK

\* So does one that ends.
LEMMA OverOK ==
  ASSUME NEW x \in Edits, edit'[x] = Over
  PROVE  EditOK(x)'
  BY OverType DEF EditOK, BaseOK, QuietOK, WorkDrained, LinksDrained, SlotOK, TrustOK,
     ChallengeOK, Previewing, Undisturbable, Beginning

-----------------------------------------------------------------------------
(* Pruning: what Dropped, FenceWithout and Forgotten leave of the state.     *)

LEMMA DroppedOf ==
  ASSUME TypeOK, NEW S
  PROVE  /\ Dropped(S) \in [Edits -> EditRecord]
         /\ \A x \in Edits :
              \/ Dropped(S)[x] = Over /\ x \in S /\ edit[x].stage \in {"prepared", "editing"}
              \/ /\ Alike(edit[x], Dropped(S)[x])
                 /\ x \in S => edit[x].stage \notin {"prepared", "editing"}
         /\ \A x \in Edits : x \notin S => Dropped(S)[x] = edit[x]
<1>1. ASSUME NEW x \in Edits
      PROVE  /\ edit[x] \in EditRecord
             /\ Dropped(S)[x] \in {edit[x], Over, [edit[x] EXCEPT !.aborted = TRUE]}
  BY DEF TypeOK, Dropped
<1>2. ASSUME NEW x \in Edits
      PROVE  Dropped(S)[x] \in EditRecord
  BY <1>1, OverType, FlagType
<1>3. Dropped(S) \in [Edits -> EditRecord]
  BY <1>2 DEF Dropped
<1>4. ASSUME NEW x \in Edits
      PROVE  \/ Dropped(S)[x] = Over /\ x \in S /\ edit[x].stage \in {"prepared", "editing"}
             \/ /\ Alike(edit[x], Dropped(S)[x])
                /\ x \in S => edit[x].stage \notin {"prepared", "editing"}
  BY <1>1, AlikeOf DEF Dropped, Beginning
<1> QED
  BY <1>3, <1>4 DEF Dropped

\* The fence goes with the sessions it stood for.
LEMMA FenceWithoutOf ==
  ASSUME TypeOK, FencesMatch, NEW S, NEW T,
         T = {e \in S \cap Edits : edit[e].stage = "editing"}
  PROVE  /\ FenceWithout(T) \in FenceRecord \cup {None}
         /\ \A x \in Edits :
              /\ Dropped(S)[x].stage \in Beginning \cup Held
                   <=> FenceWithout(T) = [kind |-> "edit", edit |-> x]
              /\ Dropped(S)[x].stage = "restoring"
                   <=> FenceWithout(T) = [kind |-> "plan", edit |-> x]
<1>1. FenceWithout(T) \in FenceRecord \cup {None}
  BY DEF TypeOK, FenceWithout
<1>2. ASSUME NEW x \in Edits
      PROVE  /\ Dropped(S)[x].stage \in Beginning \cup Held
                  <=> FenceWithout(T) = [kind |-> "edit", edit |-> x]
             /\ Dropped(S)[x].stage = "restoring"
                  <=> FenceWithout(T) = [kind |-> "plan", edit |-> x]
  <2>1. /\ edit[x].stage \in Beginning \cup Held <=> fence = [kind |-> "edit", edit |-> x]
        /\ edit[x].stage = "restoring" <=> fence = [kind |-> "plan", edit |-> x]
    BY DEF FencesMatch
  <2>2. /\ None # [kind |-> "edit", edit |-> x]
        /\ None # [kind |-> "plan", edit |-> x]
    BY RecordsAssumption DEF FenceRecord
  <2>3. CASE Dropped(S)[x] = Over /\ x \in S /\ edit[x].stage = "prepared"
    BY <2>1, <2>2, <2>3, OverType DEF FenceWithout, Beginning, Held
  <2>4. CASE Dropped(S)[x] = Over /\ x \in S /\ edit[x].stage = "editing"
    BY <2>1, <2>2, <2>4, OverType DEF FenceWithout, Beginning, Held
  <2>5. CASE /\ Alike(edit[x], Dropped(S)[x])
             /\ x \in S => edit[x].stage \notin {"prepared", "editing"}
    <3>1. x \notin T
      BY <2>5
    <3>2. CASE fence \in {[kind |-> "edit", edit |-> x], [kind |-> "plan", edit |-> x]}
      BY <2>1, <2>2, <2>5, <3>1, <3>2 DEF FenceWithout, Alike
    <3>3. CASE fence \notin {[kind |-> "edit", edit |-> x], [kind |-> "plan", edit |-> x]}
      BY <2>1, <2>2, <2>5, <3>3 DEF FenceWithout, Alike
    <3> QED
      BY <3>2, <3>3
  <2> QED
    BY <2>3, <2>4, <2>5, DroppedOf
<1> QED
  BY <1>1, <1>2

LEMMA CancelledOf ==
  ASSUME TypeOK, NEW S, NEW c \in 1..MaxChecks
  PROVE  /\ Cancelled(S)[c] \in CheckRecord \cup {None}
         /\ Sound(check[c]) => Sound(Cancelled(S)[c])
         /\ check[c] # None =>
              /\ Cancelled(S)[c] # None
              /\ Cancelled(S)[c].edit = check[c].edit
              /\ Cancelled(S)[c].live = check[c].live
              /\ check[c].state = "valid" \/ check[c].edit \notin S => Cancelled(S)[c] = check[c]
<1>1. check[c] \in CheckRecord \cup {None}
  BY DEF TypeOK
<1>2. CASE Running(c) /\ check[c].edit \in S
  <2>1. check[c] \in CheckRecord
    BY <1>1, <1>2 DEF Running
  <2>2. Cancelled(S)[c] = [check[c] EXCEPT !.state = "cancelled"]
    BY <1>2 DEF Cancelled
  <2>3. /\ Cancelled(S)[c] \in CheckRecord /\ Cancelled(S)[c].state = "cancelled"
        /\ Cancelled(S)[c].draft = check[c].draft /\ Cancelled(S)[c].trust = check[c].trust
        /\ Cancelled(S)[c].edit = check[c].edit /\ Cancelled(S)[c].live = check[c].live
    BY <2>1, <2>2 DEF CheckRecord
  <2> QED
    BY <1>2, <2>1, <2>3, RecordsAssumption DEF Sound, Running
<1>3. CASE ~(Running(c) /\ check[c].edit \in S)
  <2>1. Cancelled(S)[c] = check[c]
    BY <1>3 DEF Cancelled
  <2> QED
    BY <1>1, <2>1
<1> QED
  BY <1>2, <1>3

LEMMA ForgottenOf ==
  ASSUME TypeOK, NEW S
  PROVE  /\ Forgotten(S) \in [1..MaxChecks -> CheckRecord \cup {None}]
         /\ \A c \in 1..MaxChecks : Sound(check[c]) => Sound(Forgotten(S)[c])
         /\ \A x \in Edits : x \notin S /\ SlotOK(x) /\ edit[x].slot # 0 =>
              Forgotten(S)[edit[x].slot] = check[edit[x].slot]
<1>1. ASSUME NEW c \in 1..MaxChecks
      PROVE  /\ Forgotten(S)[c] \in CheckRecord \cup {None}
             /\ Sound(check[c]) => Sound(Forgotten(S)[c])
             /\ check[c] # None /\ check[c].edit \notin S => Forgotten(S)[c] = check[c]
  BY CancelledOf DEF Forgotten, Sound
<1>2. Forgotten(S) \in [1..MaxChecks -> CheckRecord \cup {None}]
  BY <1>1 DEF Forgotten
<1>3. ASSUME NEW x \in Edits, x \notin S, SlotOK(x), edit[x].slot # 0
      PROVE  Forgotten(S)[edit[x].slot] = check[edit[x].slot]
  <2>1. edit[x].slot \in 1..MaxChecks
    BY <1>3, BoundsAssumption DEF TypeOK, EditRecord
  <2> QED
    BY <1>1, <1>3, <2>1 DEF SlotOK
<1> QED
  BY <1>1, <1>2, <1>3

LEMMA SlotKeptBy ==
  ASSUME NEW x \in Edits, SlotOK(x),
         edit[x].slot # 0 => check'[edit[x].slot] = check[edit[x].slot]
  PROVE  SlotKept(x)
  BY DEF SlotKept, SlotOK

\* What a drop does to an edit disturbs no part of its invariant.
LEMMA DropKeeps ==
  ASSUME IInv, NEW S, NEW x \in Edits, edit'[x] = Dropped(S)[x],
         UNCHANGED <<record, readers, writers, link, late>>,
         ~(x \in S /\ edit[x].stage = "editing") /\ edit[x].slot # 0 =>
           check'[edit[x].slot] = check[edit[x].slot]
  PROVE  EditOK(x)'
<1>1. EditOK(x)
  BY DEF IInv
<1>2. CASE edit'[x] = Over
  BY <1>2, OverOK
<1>3. CASE /\ Alike(edit[x], edit'[x])
           /\ x \in S => edit[x].stage \notin {"prepared", "editing"}
  <2>1. SlotKept(x)
    BY <1>1, <1>3, SlotKeptBy DEF EditOK
  <2> QED
    BY <1>1, <1>3, <2>1, AlikeOK
<1> QED
  BY <1>2, <1>3, DroppedOf DEF IInv

-----------------------------------------------------------------------------
(* The shapes of a step: it moves one edit on, with or without pruning.      *)

SameFence(r, s) ==
  /\ r.stage \in Beginning \cup Held <=> s.stage \in Beginning \cup Held
  /\ r.stage = "restoring" <=> s.stage = "restoring"

LEMMA LocalStep ==
  ASSUME IInv, NEW e \in Edits, NEW r \in EditRecord, edit' = [edit EXCEPT ![e] = r],
         SameFence(edit[e], r), EditOK(e)',
         UNCHANGED <<record, fence, check, readers, writers, link, late, open>>
  PROVE  IInv'
<1>1. TypeOK'
  BY DEF IInv, TypeOK
<1>2. \A x \in Edits : edit'[x] = IF x = e THEN r ELSE edit[x]
  BY DEF IInv, TypeOK
<1>3. FencesMatch'
  BY <1>2 DEF IInv, FencesMatch, SameFence
<1>4. ASSUME NEW x \in Edits, x # e PROVE EditOK(x)'
  BY <1>2, <1>4, SlotKeptBy, AlikeOK, AlikeOf DEF IInv, EditOK, Alike, Beside
<1> QED
  BY <1>1, <1>3, <1>4 DEF IInv

\* An edit that ends in the middle of its way lets go of the fence.
LEMMA GiveUpStep ==
  ASSUME IInv, NEW e \in Edits, edit[e].stage \in Beginning \cup {"editing"}, GiveUp(e)
  PROVE  IInv'
<1>1. TypeOK'
  BY OverType DEF IInv, TypeOK, GiveUp, FenceWithout
<1>2. \A x \in Edits : edit'[x] = IF x = e THEN Over ELSE edit[x]
  BY DEF IInv, TypeOK, GiveUp
<1>3. fence = [kind |-> "edit", edit |-> e] /\ fence' = None
  BY RecordsAssumption DEF IInv, FencesMatch, GiveUp, FenceWithout, FenceRecord, Held
<1>4. ASSUME NEW x \in Edits
      PROVE  edit'[x].stage \notin Beginning \cup Held \cup {"restoring"}
  <2>1. CASE x = e
    BY <1>2, <2>1, OverType DEF Beginning, Held
  <2>2. CASE x # e
    BY <1>2, <1>3, <2>2 DEF IInv, FencesMatch
  <2> QED
    BY <2>1, <2>2
<1>5. ASSUME NEW x \in Edits
      PROVE  fence' # [kind |-> "edit", edit |-> x] /\ fence' # [kind |-> "plan", edit |-> x]
  BY <1>3, RecordsAssumption DEF FenceRecord
<1>6. FencesMatch'
  BY <1>4, <1>5 DEF FencesMatch
<1>7. ASSUME NEW x \in Edits, x # e PROVE EditOK(x)'
  BY <1>2, <1>7, SlotKeptBy, AlikeOK DEF IInv, EditOK, Alike, Beside, GiveUp
<1> QED
  BY <1>1, <1>2, <1>6, <1>7, OverOK DEF IInv, GiveUp

LEMMA PrunedFences ==
  ASSUME IInv
  PROVE  /\ Pruned \in [Edits -> EditRecord]
         /\ PrunedFence \in FenceRecord \cup {None}
         /\ \A x \in Edits :
              /\ Pruned[x].stage \in Beginning \cup Held
                   <=> PrunedFence = [kind |-> "edit", edit |-> x]
              /\ Pruned[x].stage = "restoring"
                   <=> PrunedFence = [kind |-> "plan", edit |-> x]
<1>1. DueSessions = {x \in Due \cap Edits : edit[x].stage = "editing"}
  BY DEF Due, DueSessions
<1> QED
  BY <1>1, DroppedOf, FenceWithoutOf DEF IInv, Pruned, PrunedFence

\* Everything is pruned, and one edit moves on.
LEMMA PruneStep ==
  ASSUME IInv, NEW e \in Edits, NEW r \in EditRecord, edit' = [Pruned EXCEPT ![e] = r],
         SameFence(Pruned[e], r), EditOK(e)', fence' = PrunedFence,
         check' \in [1..MaxChecks -> CheckRecord \cup {None}],
         \A c \in 1..MaxChecks : Sound(check'[c]),
         \A x \in Edits \ {e} : x \notin DueSessions /\ edit[x].slot # 0 =>
           check'[edit[x].slot] = check[edit[x].slot],
         UNCHANGED <<record, readers, writers, link, late, open>>
  PROVE  IInv'
<1>1. Pruned \in [Edits -> EditRecord]
  BY PrunedFences
<1>2. \A x \in Edits : edit'[x] = IF x = e THEN r ELSE Pruned[x]
  BY <1>1
<1>3. TypeOK'
  BY <1>1, PrunedFences DEF IInv, TypeOK
<1>4. FencesMatch'
  BY <1>2, PrunedFences DEF FencesMatch, SameFence
<1>5. ASSUME NEW x \in Edits, x # e PROVE EditOK(x)'
  BY <1>2, <1>5, DropKeeps DEF Pruned, DueSessions
<1> QED
  BY <1>3, <1>4, <1>5 DEF IInv

\* A refused call has pruned all the same.
LEMMA RefusedStep ==
  ASSUME IInv, NEW S, NEW T, T = {x \in S \cap Edits : edit[x].stage = "editing"},
         edit' = Dropped(S), fence' = FenceWithout(T), check' = Forgotten(T),
         UNCHANGED <<record, readers, writers, link, late>>, open' \subseteq Windows
  PROVE  IInv'
<1>1. TypeOK' /\ FencesMatch'
  BY DroppedOf, FenceWithoutOf, ForgottenOf DEF IInv, TypeOK, FencesMatch
<1>2. ASSUME NEW x \in Edits PROVE EditOK(x)'
  <2>1. ~(x \in S /\ edit[x].stage = "editing") /\ edit[x].slot # 0 =>
          check'[edit[x].slot] = check[edit[x].slot]
    BY ForgottenOf DEF IInv, EditOK
  <2> QED
    BY <2>1, DropKeeps
<1>3. \A c \in 1..MaxChecks : Sound(check'[c])
  BY ForgottenOf DEF IInv
<1> QED
  BY <1>1, <1>2, <1>3 DEF IInv

-----------------------------------------------------------------------------
(* Preparing and beginning.                                                  *)

\* An edit with nothing in its slot and no challenge has little to keep.
LEMMA FreshOK ==
  ASSUME NEW e \in Edits, edit'[e].slot = 0, edit'[e].challenge = None,
         edit'[e].stage # "saving", BaseOK(e)', QuietOK(e)'
  PROVE  EditOK(e)'
  BY DEF EditOK, SlotOK, TrustOK, ChallengeOK

LEMMA InitIInv == Init => IInv
<1> SUFFICES ASSUME Init PROVE IInv
  OBVIOUS
<1>1. PICK d \in Stored : record = [revision |-> 1, addr |-> d.addr, key |-> d.key]
  BY DEF Init
<1>2. record \in [revision : Nat, addr : Addresses, key : Keys]
  BY <1>1, DraftsAssumption DEF Keys
<1>3. TypeOK
  BY <1>2, UnusedType DEF Init, TypeOK, Links
<1>4. \A e \in Edits : edit[e].stage = "none" /\ edit[e].slot = 0 /\ edit[e].challenge = None
  BY DEF Init, Unused
<1>5. FencesMatch
  <2>1. ASSUME NEW e \in Edits
        PROVE  None # [kind |-> "edit", edit |-> e] /\ None # [kind |-> "plan", edit |-> e]
    BY RecordsAssumption DEF FenceRecord
  <2>2. fence = None
    BY DEF Init
  <2> QED
    BY <1>4, <2>1, <2>2 DEF FencesMatch, Beginning, Held
<1>6. ASSUME NEW e \in Edits PROVE EditOK(e)
  BY <1>4 DEF EditOK, BaseOK, QuietOK, WorkDrained, LinksDrained, SlotOK, TrustOK, ChallengeOK,
     Previewing, Undisturbable, Beginning
<1>7. \A c \in 1..MaxChecks : Sound(check[c])
  BY DEF Init, Sound
<1> QED
  BY <1>3, <1>5, <1>6, <1>7 DEF IInv

LEMMA LapseStep ==
  ASSUME IInv, NEW e \in Edits, Lapse(e)
  PROVE  IInv'
<1> DEFINE r == [edit[e] EXCEPT !.lapsed = TRUE]
<1>1. edit[e] \in EditRecord
  BY DEF IInv, TypeOK
<1>2. r \in EditRecord /\ Alike(edit[e], r)
  BY <1>1, FlagType, AlikeOf
<1>3. edit' = [edit EXCEPT ![e] = r] /\ edit'[e] = r
  BY DEF Lapse, IInv, TypeOK
<1>4. EditOK(e)'
  BY <1>2, <1>3, AlikeOK, SlotKeptBy DEF IInv, EditOK, Lapse
<1> QED
  BY <1>2, <1>3, <1>4, LocalStep DEF Lapse, SameFence, Alike

LEMMA ToldStep ==
  ASSUME IInv, NEW e \in Edits, Told(e)
  PROVE  IInv'
<1> DEFINE r == [edit[e] EXCEPT !.told = TRUE]
<1>1. edit[e] \in EditRecord
  BY DEF IInv, TypeOK
<1>2. r \in EditRecord /\ Alike(edit[e], r)
  BY <1>1, FlagType, AlikeOf
<1>3. edit' = [edit EXCEPT ![e] = r] /\ edit'[e] = r
  BY DEF Told, IInv, TypeOK
<1>4. EditOK(e)'
  BY <1>2, <1>3, AlikeOK, SlotKeptBy DEF IInv, EditOK, Told
<1> QED
  BY <1>2, <1>3, <1>4, LocalStep DEF Told, SameFence, Alike

\* Pruning spares an edit that has not lapsed.
LEMMA PrunedSame ==
  ASSUME IInv, NEW e \in Edits, e \notin Due
  PROVE  Pruned[e] = edit[e] /\ e \notin DueSessions
  BY DroppedOf DEF IInv, Pruned, DueSessions

LEMMA PrunedChecksOf ==
  ASSUME IInv
  PROVE  /\ PrunedChecks \in [1..MaxChecks -> CheckRecord \cup {None}]
         /\ \A c \in 1..MaxChecks : Sound(PrunedChecks[c])
         /\ \A x \in Edits : x \notin DueSessions /\ edit[x].slot # 0 =>
              PrunedChecks[edit[x].slot] = check[edit[x].slot]
  BY ForgottenOf DEF IInv, EditOK, PrunedChecks

LEMMA PrunedType ==
  ASSUME IInv
  PROVE  Pruned \in [Edits -> EditRecord]
  BY DroppedOf DEF IInv, Pruned

LEMMA PrepareStep ==
  ASSUME IInv, NEW e \in Edits, NEW w \in Windows, Prepare(e, w)
  PROVE  IInv'
<1> DEFINE r == [Unused EXCEPT !.stage = "prepared", !.owner = w, !.base = record.revision,
                               !.baseDraft = [addr |-> record.addr, key |-> record.key]]
<1>1. r \in EditRecord
  <2>1. record.revision \in Nat /\ [addr |-> record.addr, key |-> record.key] \in
          [addr : Addresses \cup {None}, key : Keys]
    BY DEF IInv, TypeOK
  <2> HIDE DEF r
  <2>2. ASSUME NEW v \in Nat, NEW b \in [addr : Addresses \cup {None}, key : Keys]
        PROVE  [Unused EXCEPT !.stage = "prepared", !.owner = w, !.base = v, !.baseDraft = b]
                 \in EditRecord
    BY UnusedType DEF EditRecord, Stages
  <2> QED
    BY <2>1, <2>2 DEF r
<1>2. /\ r.stage = "prepared" /\ r.slot = 0 /\ r.challenge = None /\ r.base = record.revision
      /\ r.baseDraft = [addr |-> record.addr, key |-> record.key]
  BY DEF Unused
<1>3. edit[e].stage = "none" /\ Pruned[e] = edit[e]
  BY PrunedSame DEF Prepare, Due, Beginning
<1> HIDE DEF r
<1>4. edit' = [Pruned EXCEPT ![e] = r]
  BY DEF Prepare, r
<1>5. edit'[e] = r /\ record' = record
  BY <1>4, PrunedType DEF Prepare
<1>6. BaseOK(e)'
  BY <1>2, <1>5 DEF BaseOK, Undisturbable, IInv, TypeOK
<1>7. QuietOK(e)'
  BY <1>2, <1>5 DEF QuietOK, WorkDrained, LinksDrained, Undisturbable
<1>8. EditOK(e)'
  BY <1>2, <1>5, <1>6, <1>7, FreshOK
<1>9. SameFence(Pruned[e], r)
  BY <1>2, <1>3 DEF SameFence, Beginning, Held
<1> QED
  BY <1>1, <1>4, <1>8, <1>9, PruneStep, PrunedChecksOf DEF Prepare

LEMMA BeginStep ==
  ASSUME IInv, NEW e \in Edits, Begin(e)
  PROVE  IInv'
<1> DEFINE r == [edit[e] EXCEPT !.stage = "beginning"]
<1>1. edit[e] \in EditRecord /\ edit[e].stage = "prepared"
  BY DEF IInv, TypeOK, Begin
<1>2. Pruned[e] = edit[e]
  BY PrunedSame DEF Begin, Due
<1>3. CASE PrunedFence = None
  <2>1. r \in EditRecord /\ Beside(edit[e], r) /\ r.stage = "beginning"
    <3>1. "beginning" \in Stages
      BY DEF Stages, Beginning
    <3> QED
      BY <1>1, <3>1, StagedOf
  <2> HIDE DEF r
  <2>2. /\ edit' = [Pruned EXCEPT ![e] = r]
        /\ fence' = [kind |-> "edit", edit |-> e]
    BY <1>2, <1>3, PrunedType DEF Begin, r
  <2>3. \A x \in Edits : edit'[x] = IF x = e THEN r ELSE Pruned[x]
    BY <2>2, PrunedType
  <2>4. TypeOK'
    BY <2>1, <2>2, PrunedType, PrunedChecksOf DEF IInv, TypeOK, Begin, FenceRecord
  <2>5. ASSUME NEW x \in Edits, x # e
        PROVE  Pruned[x].stage \notin Beginning \cup Held \cup {"restoring"}
    <3>1. None # [kind |-> "edit", edit |-> x] /\ None # [kind |-> "plan", edit |-> x]
      BY RecordsAssumption DEF FenceRecord
    <3> QED
      BY <1>3, <3>1, PrunedFences
  <2>6. FencesMatch'
    BY <2>1, <2>2, <2>3, <2>5 DEF FencesMatch, Beginning
  <2>7. EditOK(e)'
    <3>1. edit[e].slot = 0
      BY <1>1 DEF IInv, EditOK, SlotOK, Held
    <3>2. BaseOK(e)' /\ QuietOK(e)' /\ ChallengeOK(e)'
      BY <1>1, <2>1, <2>3 DEF IInv, EditOK, BaseOK, QuietOK, WorkDrained, LinksDrained,
         ChallengeOK, Previewing, Undisturbable, Beginning, Beside, Begin
    <3> QED
      BY <2>1, <2>3, <3>1, <3>2 DEF EditOK, SlotOK, TrustOK, Beside
  <2>8. ASSUME NEW x \in Edits, x # e PROVE EditOK(x)'
    BY <2>3, <2>8, DropKeeps, PrunedChecksOf DEF Pruned, DueSessions, Begin
  <2> QED
    BY <2>4, <2>6, <2>7, <2>8, PrunedChecksOf DEF IInv, Begin
<1>4. CASE PrunedFence # None
  <2>1. edit' = [Pruned EXCEPT ![e] = Over] /\ fence' = PrunedFence
    BY <1>4 DEF Begin
  <2>2. edit'[e] = Over
    BY <2>1, PrunedType
  <2>3. EditOK(e)'
    BY <2>2, OverOK
  <2>4. SameFence(Pruned[e], Over)
    BY <1>1, <1>2, OverType DEF SameFence, Beginning, Held
  <2> QED
    BY <2>1, <2>3, <2>4, OverType, PruneStep, PrunedChecksOf DEF Begin
<1> QED
  BY <1>3, <1>4

\* A stage of the beginning is over.
LEMMA MovesStep ==
  ASSUME IInv, NEW e \in Edits, NEW s \in Beginning, Moves(e, s), edit[e].stage \in Beginning,
         s # "draining" => edit[e].stage # "draining" \/ edit[e].awaits = {},
         s = "drained" => edit[e].stage = "draining",
         s = "cutting" => edit[e].stage = "drained" /\ edit[e].base = record.revision
  PROVE  IInv'
<1> DEFINE a == IF s = "draining" THEN {"work", "links"} ELSE {}
           r == [edit[e] EXCEPT !.stage = s, !.awaits = a]
<1>1. edit[e] \in EditRecord /\ s \in Stages
  BY DEF IInv, TypeOK, Stages
<1>2. a \in SUBSET {"work", "links"}
  OBVIOUS
<1>3. edit' = [edit EXCEPT ![e] = r]
  BY DEF Moves
<1> HIDE DEF a, r
<1>4. r \in EditRecord /\ Beside(edit[e], r) /\ r.stage = s /\ r.awaits = a
  <2>1. r \in EditRecord
    BY <1>1, <1>2, DrainType DEF r
  <2> QED
    BY <1>1, <1>2, <2>1 DEF EditRecord, Beside, r
<1>5. edit'[e] = r
  BY <1>3 DEF IInv, TypeOK
<1>6. EditOK(e)
  BY DEF IInv
<1>7. edit[e].slot = 0
  BY <1>6 DEF EditOK, SlotOK, Beginning, Held
<1>8. BaseOK(e)'
  BY <1>4, <1>5, <1>6 DEF EditOK, BaseOK, Previewing, Undisturbable, Beginning, Beside, Moves
<1>9. QuietOK(e)'
  BY <1>4, <1>5, <1>6 DEF EditOK, QuietOK, WorkDrained, LinksDrained, Undisturbable, Beginning,
     Moves, a
<1>10. EditOK(e)'
  BY <1>4, <1>5, <1>6, <1>7, <1>8, <1>9 DEF EditOK, SlotOK, TrustOK, ChallengeOK, Beginning, Beside
<1>11. SameFence(edit[e], r)
  BY <1>4 DEF SameFence, Beginning
<1> QED
  BY <1>3, <1>4, <1>10, <1>11, LocalStep DEF Moves

LEMMA DrainsStep ==
  ASSUME IInv, NEW e \in Edits, NEW wait \in {"work", "links"}, Drains(e, wait)
  PROVE  IInv'
<1> DEFINE a == edit[e].awaits \ {wait}
           r == [edit[e] EXCEPT !.awaits = a]
<1>1. edit[e] \in EditRecord /\ edit[e].stage \in Stages /\ edit[e].awaits \in SUBSET {"work", "links"}
  BY DEF IInv, TypeOK, EditRecord
<1>2. a \in SUBSET {"work", "links"}
  BY <1>1
<1>3. edit' = [edit EXCEPT ![e] = r]
  BY DEF Drains
<1> HIDE DEF a
<1>4. r \in EditRecord /\ Beside(edit[e], r) /\ r.stage = "draining" /\ r.awaits = a
  BY <1>1, <1>2, AwaitsOf DEF Drains
<1> HIDE DEF r
<1>5. edit'[e] = r
  BY <1>3 DEF IInv, TypeOK
<1>6. EditOK(e) /\ edit[e].stage = "draining"
  BY DEF IInv, Drains
<1>7. edit[e].slot = 0
  BY <1>6 DEF EditOK, SlotOK, Held
<1>8. BaseOK(e)'
  BY <1>4, <1>5, <1>6 DEF EditOK, BaseOK, Previewing, Undisturbable, Beginning, Beside, Drains
<1>9. QuietOK(e)'
  BY <1>4, <1>5, <1>6 DEF EditOK, QuietOK, WorkDrained, LinksDrained, Undisturbable, Drains, Busy, a
<1>10. EditOK(e)'
  BY <1>4, <1>5, <1>6, <1>7, <1>8, <1>9 DEF EditOK, SlotOK, TrustOK, ChallengeOK, Beside
<1>11. SameFence(edit[e], r)
  BY <1>4, <1>6 DEF SameFence
<1> QED
  BY <1>3, <1>4, <1>10, <1>11, LocalStep DEF Drains

\* The connection is cut: from now on it is up for a late plan only.
LEMMA CutStep ==
  ASSUME IInv, NEW e \in Edits, Cut(e)
  PROVE  IInv'
<1> DEFINE b == (link = "up")
           r == [edit[e] EXCEPT !.stage = "editing", !.restores = b, !.lapsed = FALSE,
                                !.aborted = FALSE]
<1>1. edit[e] \in EditRecord /\ "editing" \in Stages
  BY DEF IInv, TypeOK, Stages, Held
<1>2. b \in BOOLEAN
  OBVIOUS
<1>3. edit' = [edit EXCEPT ![e] = r]
  BY DEF Cut
<1> HIDE DEF b, r
<1>4. r \in EditRecord /\ Beside(edit[e], r) /\ r.stage = "editing"
  <2>1. r \in EditRecord
    BY <1>1, <1>2, CutType DEF r
  <2> QED
    BY <1>1, <1>2, <2>1 DEF EditRecord, Beside, r
<1>5. \A x \in Edits : edit'[x] = IF x = e THEN r ELSE edit[x]
  BY <1>3 DEF IInv, TypeOK
<1>6. EditOK(e) /\ edit[e].stage = "cutting"
  BY DEF IInv, Cut
<1>7. edit[e].slot = 0
  BY <1>6 DEF EditOK, SlotOK, Held
<1>8. TypeOK'
  <2>1. edit' \in [Edits -> EditRecord]
    BY <1>3, <1>4 DEF IInv, TypeOK
  <2>2. late' \in BOOLEAN /\ link' \in Links
    BY DEF IInv, TypeOK, Cut, Links
  <2> QED
    BY <2>1, <2>2 DEF IInv, TypeOK, Cut
<1>9. FencesMatch'
  <2>1. FencesMatch /\ fence' = fence
    BY DEF IInv, Cut
  <2>2. ASSUME NEW x \in Edits
        PROVE  /\ edit'[x].stage \in Beginning \cup Held <=> edit[x].stage \in Beginning \cup Held
               /\ edit'[x].stage = "restoring" <=> edit[x].stage = "restoring"
    BY <1>4, <1>5, <1>6 DEF Beginning, Held
  <2> QED
    BY <2>1, <2>2 DEF FencesMatch
<1>10. EditOK(e)'
  <2>1. BaseOK(e)'
    BY <1>4, <1>5, <1>6 DEF EditOK, BaseOK, Previewing, Undisturbable, Beginning, Beside, Cut
  <2>2. QuietOK(e)'
    BY <1>4, <1>5, <1>6 DEF EditOK, QuietOK, WorkDrained, LinksDrained, Undisturbable, Cut
  <2> QED
    BY <1>4, <1>5, <1>6, <1>7, <2>1, <2>2 DEF EditOK, SlotOK, TrustOK, ChallengeOK, Beside
<1>11. ASSUME NEW x \in Edits, x # e PROVE EditOK(x)'
  <2>1. edit[x].stage \notin Beginning \cup Held
    BY <1>6, <1>11 DEF IInv, FencesMatch, Beginning
  <2>2. EditOK(x) /\ edit'[x] = edit[x]
    BY <1>5, <1>11 DEF IInv
  <2>3. QuietOK(x)'
    BY <2>1, <2>2 DEF QuietOK, WorkDrained, LinksDrained, Undisturbable, Beginning, Held
  <2> QED
    BY <2>2, <2>3 DEF EditOK, BaseOK, SlotOK, TrustOK, ChallengeOK, Cut
<1> QED
  BY <1>8, <1>9, <1>10, <1>11 DEF IInv, Cut

LEMMA BeginningSteps ==
  ASSUME IInv, NEW e \in Edits,
         \/ Previewed(e) \/ (\E wait \in {"work", "links"} : Drains(e, wait)) \/ DrainFails(e)
         \/ Drained(e) \/ Rechecked(e) \/ Cut(e) \/ CutFails(e)
  PROVE  IInv'
<1>1. CASE Previewed(e)
  BY <1>1, MovesStep, GiveUpStep DEF Previewed, Beginning
<1>2. CASE \E wait \in {"work", "links"} : Drains(e, wait)
  BY <1>2, DrainsStep
<1>3. CASE DrainFails(e)
  BY <1>3, GiveUpStep DEF DrainFails, Beginning
<1>4. CASE Drained(e)
  BY <1>4, MovesStep DEF Drained, Beginning
<1>5. CASE Rechecked(e)
  BY <1>5, MovesStep, GiveUpStep DEF Rechecked, Beginning
<1>6. CASE CutFails(e)
  BY <1>6, GiveUpStep DEF CutFails, Beginning
<1> QED
  BY <1>1, <1>2, <1>3, <1>4, <1>5, <1>6, CutStep

-----------------------------------------------------------------------------
(* Drafts and their checks.                                                  *)

\* A session edits or saves alone: no other edit has a check in a slot.
LEMMA SlotsApart ==
  ASSUME IInv, NEW e \in Edits, NEW x \in Edits, x # e,
         edit[e].stage \in Beginning \cup Held
  PROVE  edit[x].stage \notin Beginning \cup Held /\ edit[x].slot = 0
  BY DEF IInv, FencesMatch, EditOK, SlotOK

LEMMA SaveStep ==
  ASSUME IInv, NEW e \in Edits, NEW draft \in Submitted, Save(e, draft)
  PROVE  IInv'
<1> DEFINE t == SlotTrust(e)
           r == [edit[e] EXCEPT !.stage = "saving", !.draft = draft, !.trust = t]
           c == edit[e].slot
<1>1. edit[e] \in EditRecord /\ "saving" \in Stages /\ draft \in Drafts
  BY DraftsAssumption DEF IInv, TypeOK, Stages, Held, Drafts, Keys
<1>2. EditOK(e) /\ edit[e].stage = "editing" /\ e \notin Due
  BY DEF IInv, Save, Due
<1>3. c \in 0..MaxChecks /\ (c # 0 => c \in 1..MaxChecks /\ check[c] \in CheckRecord)
  BY <1>1, <1>2 DEF EditRecord, EditOK, SlotOK, IInv, TypeOK
<1>4. t \in Trust \cup {None}
  BY <1>3 DEF SlotTrust, CheckRecord
<1>5. edit' = [Pruned EXCEPT ![e] = r]
  BY <1>2, PrunedSame DEF Save
<1> HIDE DEF t
<1>6. r \in EditRecord
  BY <1>1, <1>4, SavedType
<1>7. /\ r.stage = "saving" /\ r.draft = draft /\ r.trust = t /\ r.slot = c /\ r.base = edit[e].base
      /\ r.baseDraft = edit[e].baseDraft /\ r.challenge = edit[e].challenge
      /\ r.generation = edit[e].generation
  BY <1>1 DEF EditRecord
<1> HIDE DEF r
<1>8. edit'[e] = r
  BY <1>5, PrunedType
<1>9. /\ check' \in [1..MaxChecks -> CheckRecord \cup {None}]
      /\ \A d \in 1..MaxChecks : Sound(check'[d])
      /\ \A x \in Edits \ {e} : x \notin DueSessions /\ edit[x].slot # 0 =>
           check'[edit[x].slot] = check[edit[x].slot]
  <2>1. \A d \in 1..MaxChecks : check'[d] = IF d = c THEN Cancelled({e})[d] ELSE PrunedChecks[d]
    BY DEF Save
  <2>2. ASSUME NEW d \in 1..MaxChecks
        PROVE  check'[d] \in CheckRecord \cup {None} /\ Sound(check'[d])
    BY <2>1, PrunedChecksOf, CancelledOf DEF IInv
  <2>3. check' \in [1..MaxChecks -> CheckRecord \cup {None}]
    BY <2>2 DEF Save
  <2>4. \A x \in Edits \ {e} : edit[x].slot = 0
    BY <1>2, SlotsApart DEF Held
  <2> QED
    BY <2>2, <2>3, <2>4
<1>10. EditOK(e)'
  <2>1. BaseOK(e)' /\ QuietOK(e)' /\ ChallengeOK(e)'
    BY <1>2, <1>7, <1>8 DEF Save, EditOK, BaseOK, QuietOK, WorkDrained, LinksDrained,
       ChallengeOK, Previewing, Undisturbable
  <2>2. CASE c = 0
    BY <1>1, <1>7, <1>8, <2>1, <2>2 DEF EditOK, SlotOK, TrustOK, SlotTrust, t
  <2>3. CASE c # 0
    <3>1. check'[c] = Cancelled({e})[c] /\ check[c] # None /\ check[c].edit = e
      BY <1>2, <1>3, <2>3 DEF Save, EditOK, SlotOK
    <3>2. /\ check'[c] # None /\ check'[c].edit = e
          /\ check[c].state = "valid" => check'[c] = check[c]
      BY <1>3, <2>3, <3>1, CancelledOf DEF IInv
    <3>3. SlotOK(e)'
      BY <1>7, <1>8, <3>2 DEF SlotOK, Held
    <3>4. TrustOK(e)'
      BY <1>1, <1>7, <1>8, <2>3, <3>2 DEF TrustOK, SlotTrust, t
    <3> QED
      BY <2>1, <3>3, <3>4 DEF EditOK
  <2> QED
    BY <2>2, <2>3
<1>11. SameFence(Pruned[e], r)
  BY <1>2, <1>7, PrunedSame DEF SameFence, Held
<1> QED
  BY <1>5, <1>6, <1>9, <1>10, <1>11, PruneStep DEF Save

LEMMA CancelCheckStep ==
  ASSUME IInv, NEW e \in Edits, CancelCheck(e)
  PROVE  IInv'
<1> DEFINE c == edit[e].slot
           n == [PrunedChecks[c] EXCEPT !.state = "cancelled"]
<1>1. /\ EditOK(e) /\ edit[e].stage \in Held /\ e \notin Due /\ e \notin DueSessions
      /\ edit[e].slot # 0 /\ Pruned[e] = edit[e] /\ check[edit[e].slot].state = "running"
  BY PrunedSame DEF IInv, CancelCheck, Due, Held, Running
<1>2. edit[e] \in EditRecord /\ c \in 1..MaxChecks
  BY <1>1 DEF IInv, TypeOK, EditRecord
<1>3. PrunedChecks[c] = check[c] /\ check[c] \in CheckRecord /\ check[c].edit = e
  BY <1>1, <1>2, PrunedChecksOf DEF IInv, TypeOK, EditOK, SlotOK
<1>4. n \in CheckRecord /\ n.edit = e /\ Sound(n) /\ n # None
  <2>1. n \in CheckRecord /\ n.edit = check[c].edit /\ n.state = "cancelled"
        /\ n.draft = check[c].draft /\ n.trust = check[c].trust
    BY <1>3 DEF CheckRecord
  <2>2. Sound(check[c]) /\ check[c] # None
    BY <1>1, <1>2 DEF IInv, EditOK, SlotOK
  <2> HIDE DEF n
  <2>3. n # None
    BY <2>1, RecordsAssumption
  <2> QED
    BY <1>3, <2>1, <2>2, <2>3 DEF Sound
<1>5. check' = [PrunedChecks EXCEPT ![c] = n] /\ edit' = Pruned /\ fence' = PrunedFence
  BY DEF CancelCheck
<1> HIDE DEF n
<1>6. /\ check' \in [1..MaxChecks -> CheckRecord \cup {None}]
      /\ \A d \in 1..MaxChecks : check'[d] = IF d = c THEN n ELSE PrunedChecks[d]
  BY <1>2, <1>4, <1>5, PrunedChecksOf
<1>7. \A d \in 1..MaxChecks : Sound(check'[d])
  BY <1>4, <1>6, PrunedChecksOf
<1>8. \A x \in Edits \ {e} : edit[x].slot = 0
  BY <1>1, SlotsApart
<1>9. edit' = [Pruned EXCEPT ![e] = edit[e]] /\ edit'[e] = edit[e]
  BY <1>1, <1>5, PrunedType
<1>10. EditOK(e)'
  <2>1. TrustOK(e)' /\ SlotOK(e)'
    BY <1>1, <1>2, <1>4, <1>6, <1>9 DEF EditOK, TrustOK, SlotOK
  <2>2. BaseOK(e)' /\ QuietOK(e)' /\ ChallengeOK(e)'
    BY <1>1, <1>9 DEF CancelCheck, EditOK, BaseOK, QuietOK, WorkDrained, LinksDrained, ChallengeOK
  <2> QED
    BY <2>1, <2>2 DEF EditOK
<1>11. SameFence(Pruned[e], edit[e])
  BY <1>1 DEF SameFence
<1>12. UNCHANGED <<record, readers, writers, link, late, open>>
  BY DEF CancelCheck
<1> QED
  BY <1>2, <1>5, <1>6, <1>7, <1>8, <1>9, <1>10, <1>11, <1>12, PruneStep

LEMMA ValidateStep ==
  ASSUME IInv, NEW e \in Edits, NEW draft \in Submitted, NEW g \in 0..MaxGeneration,
         NEW c \in 1..MaxChecks, Validate(e, draft, g, c)
  PROVE  IInv'
<1> DEFINE candidate == Candidate(edit[e].baseDraft, draft, TrustFor(e, g))
           old == edit[e].slot
           refused == old # 0 /\ check[old].generation = g /\ check[old].draft # candidate
           kept == IF g > edit[e].generation THEN None ELSE edit[e].challenge
           slot == IF refused THEN edit[e].slot ELSE c
           trust == IF candidate.key = None THEN None
                    ELSE [key |-> candidate.key, addr |-> candidate.addr]
           n == [edit |-> e, generation |-> g, draft |-> candidate, trust |-> trust,
                 state |-> "running", live |-> TRUE]
           stale == [check[old] EXCEPT !.state = "stale"]
           r == [edit[e] EXCEPT !.generation = g, !.challenge = kept, !.slot = slot]
<1>1. /\ EditOK(e) /\ edit[e].stage = "editing" /\ e \notin Due /\ e \notin DueSessions
      /\ Pruned[e] = edit[e] /\ check[c] = None
  BY PrunedSame DEF IInv, Validate, Due, DueSessions
<1>2. edit[e] \in EditRecord
  BY DEF IInv, TypeOK
<1>3. old \in 0..MaxChecks /\ (old # 0 => /\ old \in 1..MaxChecks /\ old # c
                                          /\ check[old] \in CheckRecord /\ check[old].edit = e
                                          /\ check[old] # None /\ Sound(check[old])
                                          /\ PrunedChecks[old] = check[old])
  BY <1>1, <1>2, PrunedChecksOf DEF EditRecord, EditOK, SlotOK, IInv, TypeOK
<1>4. candidate \in Drafts
  <2>1. edit[e].baseDraft \in [addr : Addresses \cup {None}, key : Keys]
    BY <1>2 DEF EditRecord
  <2>2. draft \in Drafts
    BY DraftsAssumption DEF Drafts, Keys
  <2> QED
    BY <2>1, <2>2, CandidateType
<1>5. n \in CheckRecord /\ Sound(n) /\ n # None /\ n.edit = e
  <2>1. trust \in Trust \cup {None}
    BY <1>4 DEF Drafts, Keys, Trust
  <2>2. n \in CheckRecord
    BY <1>4, <2>1 DEF CheckRecord
  <2>3. Sound(n) /\ n.edit = e
    BY DEF Sound
  <2> HIDE DEF n
  <2> QED
    BY <2>2, <2>3, RecordsAssumption
<1>6. old # 0 => stale \in CheckRecord /\ Sound(stale) /\ stale # None /\ stale.edit = e
  <2> SUFFICES ASSUME old # 0 PROVE stale \in CheckRecord /\ Sound(stale) /\ stale # None /\ stale.edit = e
    OBVIOUS
  <2>1. /\ stale \in CheckRecord /\ stale.edit = e /\ stale.state = "stale"
        /\ stale.draft = check[old].draft /\ stale.trust = check[old].trust
    BY <1>3 DEF CheckRecord
  <2> HIDE DEF stale
  <2> QED
    BY <1>3, <2>1, RecordsAssumption DEF Sound
<1>7. kept \in Challenge \cup {None} /\ slot \in 0..MaxChecks
  BY <1>2, <1>3 DEF EditRecord
<1>8. edit' = [Pruned EXCEPT ![e] = r]
  BY <1>1 DEF Validate
<1>9. check' = [d \in 1..MaxChecks |->
                  IF d = old /\ Running(d) /\ (~refused \/ g > edit[e].generation) THEN stale
                  ELSE IF d = old /\ ~check[d].live /\ ~refused THEN None
                  ELSE IF d = c /\ ~refused THEN n
                  ELSE PrunedChecks[d]]
  BY DEF Validate
<1>10. fence' = PrunedFence /\ UNCHANGED <<record, readers, writers, link, late, open>>
  BY DEF Validate
<1> HIDE DEF candidate, trust, n, stale, kept
<1>11. r \in EditRecord
  BY <1>2, <1>7, CheckedType
<1>12. /\ r.stage = "editing" /\ r.slot = slot /\ r.generation = g /\ r.challenge = kept
       /\ r.base = edit[e].base /\ r.baseDraft = edit[e].baseDraft /\ r.awaits = edit[e].awaits
  BY <1>1, <1>2 DEF EditRecord
<1> HIDE DEF r
<1>13. edit'[e] = r
  BY <1>8, PrunedType
<1>14. \A d \in 1..MaxChecks : check'[d] \in CheckRecord \cup {None} /\ Sound(check'[d])
  <2>1. ASSUME NEW d \in 1..MaxChecks
        PROVE  check'[d] \in {stale, None, n, PrunedChecks[d]}
               /\ (check'[d] = stale => check'[d] \in {n, None, PrunedChecks[d]} \/ old # 0)
    BY <1>3, <1>9
  <2>2. Sound(None)
    BY DEF Sound
  <2> QED
    BY <1>5, <1>6, <2>1, <2>2, PrunedChecksOf
<1>15. check' \in [1..MaxChecks -> CheckRecord \cup {None}]
  BY <1>9, <1>14
<1>16. \A x \in Edits \ {e} : edit[x].slot = 0
  BY <1>1, SlotsApart DEF Held
<1>17. SlotOK(e)'
  <2>1. CASE refused
    <3>1. check'[old] \in {stale, check[old]}
      BY <1>3, <1>9, <2>1
    <3> QED
      BY <1>3, <1>6, <1>12, <1>13, <2>1, <3>1 DEF SlotOK, Held
  <2>2. CASE ~refused
    <3>1. check'[c] = n
      BY <1>3, <1>9, <2>2
    <3> QED
      BY <1>5, <1>12, <1>13, <2>2, <3>1 DEF SlotOK, Held
  <2> QED
    BY <2>1, <2>2
<1>18. ChallengeOK(e)'
  BY <1>1, <1>2, <1>12, <1>13, SMTT(20) DEF ChallengeOK, EditOK, kept, Validate, EditRecord
<1>19. BaseOK(e)' /\ QuietOK(e)' /\ TrustOK(e)'
  BY <1>1, <1>10, <1>12, <1>13 DEF EditOK, BaseOK, QuietOK, WorkDrained, LinksDrained, TrustOK,
     Previewing, Undisturbable
<1>20. EditOK(e)'
  BY <1>17, <1>18, <1>19 DEF EditOK
<1>21. SameFence(Pruned[e], r)
  BY <1>1, <1>12 DEF SameFence
<1> QED
  BY <1>8, <1>10, <1>11, <1>14, <1>15, <1>16, <1>20, <1>21, PruneStep

\* An answer changes one check, which is in no slot or in one that keeps it.
LEMMA AnswerOf ==
  ASSUME TypeOK, NEW c \in 1..MaxChecks, check[c] # None, Sound(check[c]),
         NEW state \in {"running", "valid", "failed", "cancelled", "stale"},
         Answer(c, state),
         state = "valid" => check[c].draft.key = check[c].draft.addr
  PROVE  /\ check' \in [1..MaxChecks -> CheckRecord \cup {None}]
         /\ \A d \in 1..MaxChecks : d # c => check'[d] = check[d]
         /\ Sound(check'[c]) /\ check'[c] # None /\ check'[c].edit = check[c].edit
         /\ check'[c].state = state /\ check'[c].trust = check[c].trust
<1> DEFINE n == [check[c] EXCEPT !.live = FALSE, !.state = state]
<1>1. check[c] \in CheckRecord
  BY DEF TypeOK
<1>2. n \in CheckRecord
  BY <1>1 DEF CheckRecord
<1>3. /\ n.state = state /\ n.trust = check[c].trust /\ n.draft = check[c].draft
      /\ n.edit = check[c].edit
  BY <1>1 DEF CheckRecord
<1>4. check' = [check EXCEPT ![c] = n]
  BY DEF Answer
<1> HIDE DEF n
<1>5. check'[c] = n /\ n # None
  BY <1>2, <1>4, RecordsAssumption DEF TypeOK
<1> QED
  BY <1>2, <1>3, <1>4, <1>5 DEF TypeOK, Sound

\* The edits are left as they are, and what their slots hold as well.
LEMMA ChecksStep ==
  ASSUME IInv, UNCHANGED <<record, fence, edit, readers, writers, link, late, open>>,
         check' \in [1..MaxChecks -> CheckRecord \cup {None}],
         \A d \in 1..MaxChecks : Sound(check'[d]),
         \A x \in Edits : SlotKept(x)
  PROVE  IInv'
<1>1. TypeOK' /\ FencesMatch'
  BY DEF IInv, TypeOK, FencesMatch
<1>2. ASSUME NEW x \in Edits PROVE EditOK(x)'
  BY <1>2, AlikeOK DEF IInv, Alike, Beside
<1> QED
  BY <1>1, <1>2 DEF IInv

LEMMA CheckAnswersStep ==
  ASSUME IInv, NEW c \in 1..MaxChecks, CheckAnswers(c)
  PROVE  IInv'
<1>7. check[c].edit \in Edits
  BY DEF IInv, TypeOK, CheckAnswers, CheckRecord
<1> PICK y \in Edits : y = check[c].edit
  BY <1>7
<1>1. /\ check[c] # None /\ check[c] \in CheckRecord /\ Sound(check[c]) /\ TypeOK
      /\ y \in Edits /\ edit[y] \in EditRecord
  BY DEF IInv, TypeOK, CheckAnswers, CheckRecord
<1>2. UNCHANGED <<record, fence, readers, writers, link, late, open>>
  BY DEF CheckAnswers
<1>3. CASE Late(c) /\ edit[y].slot = c
  <2>1. Answer(c, check[c].state) /\ UNCHANGED edit
    BY <1>3 DEF Late
  <2>2. /\ check[c].state \in {"running", "valid", "failed", "cancelled", "stale"}
        /\ check[c].state = "valid" => check[c].draft.key = check[c].draft.addr
    BY <1>1 DEF CheckRecord, Sound
  <2>3. /\ check' \in [1..MaxChecks -> CheckRecord \cup {None}]
        /\ \A d \in 1..MaxChecks : d # c => check'[d] = check[d]
        /\ Sound(check'[c]) /\ check'[c] # None /\ check'[c].edit = check[c].edit
        /\ check'[c].state = check[c].state /\ check'[c].trust = check[c].trust
    BY <1>1, <2>1, <2>2, AnswerOf
  <2>4. ASSUME NEW x \in Edits PROVE SlotKept(x)
    BY <2>3 DEF SlotKept, IInv, TypeOK, EditRecord, EditOK, SlotOK
  <2> QED
    BY <1>2, <2>1, <2>3, <2>4, ChecksStep DEF IInv
<1>4. CASE Late(c) /\ edit[y].slot # c
  <2>1. check' = [check EXCEPT ![c] = None] /\ UNCHANGED edit
    BY <1>4 DEF Late
  <2>2. /\ check' \in [1..MaxChecks -> CheckRecord \cup {None}]
        /\ \A d \in 1..MaxChecks : check'[d] = IF d = c THEN None ELSE check[d]
    BY <1>1, <2>1 DEF TypeOK
  <2>3. \A d \in 1..MaxChecks : Sound(check'[d])
    BY <2>2 DEF IInv, Sound
  <2>4. ASSUME NEW x \in Edits PROVE SlotKept(x)
    <3>1. edit[x].slot # c
      BY <1>1, <1>4 DEF IInv, EditOK, SlotOK
    <3> QED
      BY <2>2, <3>1 DEF SlotKept, IInv, TypeOK, EditRecord, EditOK, SlotOK
  <2> QED
    BY <1>2, <2>1, <2>2, <2>3, <2>4, ChecksStep
<1>5. CASE Wanted(c) /\ (CheckSucceeds(c) \/ CheckFails(c))
  <2>1. PICK state \in {"valid", "failed"} : /\ Answer(c, state)
                                             /\ state = "valid" => check[c].draft.key = check[c].draft.addr
    BY <1>5 DEF CheckSucceeds, CheckFails
  <2>2. /\ check' \in [1..MaxChecks -> CheckRecord \cup {None}]
        /\ \A d \in 1..MaxChecks : d # c => check'[d] = check[d]
        /\ Sound(check'[c]) /\ check'[c] # None /\ check'[c].edit = check[c].edit
    BY <1>1, <2>1, AnswerOf
  <2>3. check[c].state = "running" /\ UNCHANGED edit
    BY <1>5 DEF Wanted, CheckSucceeds, CheckFails
  <2>4. ASSUME NEW x \in Edits PROVE SlotKept(x)
    BY <2>2, <2>3 DEF SlotKept, IInv, TypeOK, EditRecord, EditOK, SlotOK
  <2> QED
    BY <1>2, <2>2, <2>3, <2>4, ChecksStep DEF IInv
<1>6. CASE CheckChallenges(c)
  <2> DEFINE h == IF edit[y].generation = check[c].generation
                    THEN [key |-> check[c].draft.addr, addr |-> check[c].draft.addr,
                          generation |-> check[c].generation]
                    ELSE edit[y].challenge
             r == [edit[y] EXCEPT !.challenge = h]
  <2>1. Answer(c, "failed") /\ edit' = [edit EXCEPT ![y] = r] /\ check[c].state = "running"
    BY <1>6 DEF CheckChallenges, Wanted
  <2>2. /\ check' \in [1..MaxChecks -> CheckRecord \cup {None}]
        /\ \A d \in 1..MaxChecks : d # c => check'[d] = check[d]
        /\ Sound(check'[c]) /\ check'[c] # None /\ check'[c].edit = check[c].edit
    BY <1>1, <2>1, AnswerOf
  <2>3. h \in Challenge \cup {None} /\ (h # None => (ChallengeOK(y) => h.generation = edit[y].generation))
    <3>1. /\ check[c].draft.addr \in Addresses /\ check[c].generation \in 0..MaxGeneration
          /\ edit[y].challenge \in Challenge \cup {None}
      BY <1>1 DEF CheckRecord, Drafts, EditRecord
    <3> QED
      BY <3>1 DEF Challenge, ChallengeOK
  <2> HIDE DEF h
  <2>4. /\ r \in EditRecord /\ r.stage = edit[y].stage /\ r.slot = edit[y].slot
        /\ r.generation = edit[y].generation /\ r.challenge = h /\ r.base = edit[y].base
        /\ r.baseDraft = edit[y].baseDraft /\ r.awaits = edit[y].awaits /\ r.draft = edit[y].draft
        /\ r.trust = edit[y].trust
    <3>1. r \in EditRecord
      BY <1>1, <2>3, ChallengeType
    <3> QED
      BY <1>1, <3>1 DEF EditRecord
  <2> HIDE DEF r
  <2>5. \A x \in Edits : edit'[x] = IF x = y THEN r ELSE edit[x]
    BY <1>1, <2>1 DEF TypeOK
  <2>6. TypeOK'
    BY <1>1, <1>2, <2>1, <2>2, <2>4 DEF TypeOK
  <2>7. FencesMatch'
    BY <1>2, <2>4, <2>5 DEF IInv, FencesMatch
  <2>8. ASSUME NEW x \in Edits PROVE SlotKept(x)
    BY <2>1, <2>2 DEF SlotKept, IInv, TypeOK, EditRecord, EditOK, SlotOK
  <2>9. ASSUME NEW x \in Edits PROVE EditOK(x)'
    <3>1. CASE x # y
      BY <1>2, <2>5, <2>8, <3>1, AlikeOK DEF IInv, Alike, Beside
    <3>2. CASE x = y
      <4>1. EditOK(y)
        BY <1>1 DEF IInv
      <4>2. BaseOK(y)' /\ QuietOK(y)'
        BY <1>1, <1>2, <2>4, <2>5, <4>1 DEF EditOK, BaseOK, QuietOK, WorkDrained, LinksDrained
      <4>3. SlotOK(y)' /\ TrustOK(y)'
        <5>1. edit'[y] = r /\ SlotOK(y) /\ TrustOK(y) /\ SlotKept(y)
          BY <1>1, <2>5, <2>8, <4>1 DEF EditOK
        <5>2. SlotOK(y)'
          BY <2>4, <5>1 DEF SlotOK, SlotKept
        <5>3. TrustOK(y)'
          BY <2>4, <5>1 DEF SlotOK, TrustOK, SlotKept
        <5> QED
          BY <5>2, <5>3
      <4>4. ChallengeOK(y)'
        BY <1>1, <2>3, <2>4, <2>5, <4>1 DEF EditOK, ChallengeOK
      <4> QED
        BY <3>2, <4>2, <4>3, <4>4 DEF EditOK
    <3> QED
      BY <3>1, <3>2
  <2>10. \A d \in 1..MaxChecks : Sound(check'[d])
    BY <2>2 DEF IInv
  <2> QED
    BY <2>6, <2>7, <2>9, <2>10 DEF IInv
<1> QED
  BY <1>3, <1>4, <1>5, <1>6 DEF CheckAnswers, CheckSucceeds, CheckFails

-----------------------------------------------------------------------------
(* Saving and what follows.                                                  *)

\* Nobody else begins, edits or saves: the record may change beneath the rest.
LEMMA AsideOK ==
  ASSUME IInv, NEW x \in Edits, edit[x].stage \notin Beginning \cup Held, edit'[x] = edit[x],
         \/ record' = record
         \/ record'.revision = record.revision + 1 /\ record.revision \in Nat
  PROVE  EditOK(x)'
<1>1. EditOK(x) /\ edit[x].slot = 0
  BY DEF IInv, EditOK, SlotOK
<1>2. BaseOK(x)'
  <2>1. edit[x].base \in Nat
    BY DEF IInv, TypeOK, EditRecord
  <2> QED
    BY <1>1, <2>1 DEF EditOK, BaseOK, Undisturbable, Beginning, Held
<1>3. QuietOK(x)'
  BY DEF QuietOK, WorkDrained, LinksDrained, Undisturbable, Beginning, Held
<1> QED
  BY <1>1, <1>2, <1>3 DEF EditOK, SlotOK, TrustOK, ChallengeOK, Held

LEMMA SaveCommitsStep ==
  ASSUME IInv, NEW e \in Edits, SaveCommits(e)
  PROVE  IInv'
<1> DEFINE r == [edit[e] EXCEPT !.stage = "saved", !.draft = None, !.trust = None]
           saved == Candidate([addr |-> record.addr, key |-> record.key], edit[e].draft, edit[e].trust)
<1>1. edit[e] \in EditRecord /\ edit[e].stage = "saving" /\ EditOK(e)
  BY DEF IInv, TypeOK, SaveCommits
<1>2. \/ record' = record
      \/ /\ record' = [revision |-> record.revision + 1, addr |-> saved.addr, key |-> saved.key]
         /\ record.revision \in Nat
  BY DEF SaveCommits, IInv, TypeOK
<1>3. r \in EditRecord
  BY <1>1, SavedType DEF Stages, Held
<1>4. /\ r.stage = "saved" /\ r.slot = edit[e].slot /\ r.challenge = edit[e].challenge
      /\ r.generation = edit[e].generation
  BY <1>1 DEF EditRecord
<1>5. edit' = [edit EXCEPT ![e] = r]
  BY DEF SaveCommits
<1> HIDE DEF r
<1>6. \A x \in Edits : edit'[x] = IF x = e THEN r ELSE edit[x]
  BY <1>5 DEF IInv, TypeOK
<1>7. record' \in [revision : Nat, addr : Addresses, key : Keys]
  <2>1. CASE record' = record
    BY <2>1 DEF IInv, TypeOK
  <2>2. CASE record' # record
    <3>1. edit[e].draft \in Drafts
      BY <1>1 DEF EditOK, TrustOK
    <3>2. [addr |-> record.addr, key |-> record.key] \in [addr : Addresses \cup {None}, key : Keys]
      BY DEF IInv, TypeOK
    <3>3. saved \in Drafts
      BY <3>1, <3>2, CandidateType
    <3> HIDE DEF saved
    <3> QED
      BY <1>2, <2>2, <3>3 DEF Drafts
  <2> QED
    BY <2>1, <2>2
<1>8. TypeOK'
  <2>1. edit' \in [Edits -> EditRecord]
    BY <1>3, <1>5 DEF IInv, TypeOK
  <2>2. link' \in Links /\ late' \in BOOLEAN
    BY DEF IInv, TypeOK, SaveCommits, Links
  <2> QED
    BY <1>7, <2>1, <2>2 DEF IInv, TypeOK, SaveCommits
<1>9. FencesMatch'
  <2>1. FencesMatch /\ fence' = fence
    BY DEF IInv, SaveCommits
  <2>2. ASSUME NEW x \in Edits
        PROVE  /\ edit'[x].stage \in Beginning \cup Held <=> edit[x].stage \in Beginning \cup Held
               /\ edit'[x].stage = "restoring" <=> edit[x].stage = "restoring"
    BY <1>1, <1>4, <1>6 DEF Held
  <2> QED
    BY <2>1, <2>2 DEF FencesMatch
<1>10. EditOK(e)'
  <2>1. BaseOK(e)' /\ QuietOK(e)'
    BY <1>4, <1>6 DEF BaseOK, QuietOK, WorkDrained, LinksDrained, Previewing, Undisturbable, Beginning
  <2>2. SlotOK(e)' /\ TrustOK(e)' /\ ChallengeOK(e)'
    BY <1>1, <1>4, <1>6 DEF EditOK, SlotOK, TrustOK, ChallengeOK, Held, SaveCommits
  <2> QED
    BY <2>1, <2>2 DEF EditOK
<1>11. ASSUME NEW x \in Edits, x # e PROVE EditOK(x)'
  <2>1. edit[x].stage \notin Beginning \cup Held
    BY <1>1, <1>11, SlotsApart DEF Held
  <2>2. \/ record' = record
        \/ record'.revision = record.revision + 1 /\ record.revision \in Nat
    BY <1>2
  <2> QED
    BY <1>6, <1>11, <2>1, <2>2, AsideOK
<1> QED
  BY <1>8, <1>9, <1>10, <1>11 DEF IInv, SaveCommits

LEMMA SaveFailsStep ==
  ASSUME IInv, NEW e \in Edits, SaveFails(e)
  PROVE  IInv'
<1> DEFINE r == [edit[e] EXCEPT !.stage = "editing", !.lapsed = FALSE, !.draft = None, !.trust = None]
<1>1. edit[e] \in EditRecord /\ edit[e].stage = "saving" /\ EditOK(e)
  BY DEF IInv, TypeOK, SaveFails
<1>2. e \notin Due /\ e \notin DueSessions /\ Pruned[e] = edit[e]
  BY <1>1, PrunedSame DEF Due, Beginning
<1>3. r \in EditRecord
  BY <1>1, SavedType DEF Stages, Held
<1>4. /\ r.stage = "editing" /\ r.slot = edit[e].slot /\ r.challenge = edit[e].challenge
      /\ r.generation = edit[e].generation /\ r.base = edit[e].base
      /\ r.baseDraft = edit[e].baseDraft
  BY <1>1 DEF EditRecord
<1>5. edit' = [Pruned EXCEPT ![e] = r]
  BY <1>2 DEF SaveFails
<1> HIDE DEF r
<1>6. edit'[e] = r
  BY <1>5, PrunedType
<1>7. EditOK(e)'
  <2>1. BaseOK(e)' /\ QuietOK(e)' /\ ChallengeOK(e)'
    BY <1>1, <1>4, <1>6 DEF SaveFails, EditOK, BaseOK, QuietOK, WorkDrained, LinksDrained,
       ChallengeOK, Previewing, Undisturbable
  <2>2. SlotOK(e)' /\ TrustOK(e)'
    BY <1>1, <1>2, <1>4, <1>6, PrunedChecksOf DEF SaveFails, EditOK, SlotOK, TrustOK, Held
  <2> QED
    BY <2>1, <2>2 DEF EditOK
<1>8. SameFence(Pruned[e], r)
  BY <1>1, <1>2, <1>4 DEF SameFence, Held
<1> QED
  BY <1>3, <1>5, <1>7, <1>8, PruneStep, PrunedChecksOf DEF SaveFails

LEMMA FinishStep ==
  ASSUME IInv, NEW e \in Edits, NEW connects, edit[e].stage \in {"editing", "saved"},
         e \notin Due, Finish(e, connects)
  PROVE  IInv'
<1> DEFINE r == IF connects THEN [Over EXCEPT !.stage = "restoring"] ELSE Over
<1>1. /\ r \in EditRecord /\ r.slot = 0 /\ r.challenge = None
      /\ r.stage = IF connects THEN "restoring" ELSE "over"
  <2>1. "restoring" \in Stages
    BY DEF Stages
  <2>2. [Over EXCEPT !.stage = "restoring"] \in EditRecord
    BY <2>1, OverType, StagedType
  <2>3. LET n == [Over EXCEPT !.stage = "restoring"]
        IN n.stage = "restoring" /\ n.slot = 0 /\ n.challenge = None
    BY OverType DEF EditRecord
  <2> QED
    BY <2>2, <2>3, OverType
<1>2. edit' = [Pruned EXCEPT ![e] = r]
  BY DEF Finish
<1> HIDE DEF r
<1>3. \A x \in Edits : edit'[x] = IF x = e THEN r ELSE Pruned[x]
  BY <1>2, PrunedType
<1>4. check' = Forgotten(DueSessions \cup {e})
  BY DEF Finish
<1>5. fence' = IF connects THEN [kind |-> "plan", edit |-> e] ELSE None
  BY DEF Finish
<1>6. TypeOK'
  BY <1>1, <1>2, <1>4, <1>5, PrunedType, ForgottenOf DEF IInv, TypeOK, FenceRecord, Finish
<1>7. ASSUME NEW x \in Edits, x # e
      PROVE  edit'[x].stage \notin Beginning \cup Held \cup {"restoring"}
  <2>1. edit[x].stage \notin Beginning \cup Held \cup {"restoring"}
    BY <1>7 DEF IInv, FencesMatch, Held
  <2> QED
    BY <1>3, <1>7, <2>1, DroppedOf, OverType DEF IInv, Pruned, Alike, Beginning, Held
<1>8. FencesMatch'
  <2>1. ASSUME NEW x \in Edits
        PROVE  None # [kind |-> "edit", edit |-> x] /\ None # [kind |-> "plan", edit |-> x]
    BY RecordsAssumption DEF FenceRecord
  <2> QED
    BY <1>1, <1>3, <1>5, <1>7, <2>1 DEF FencesMatch, Beginning, Held
<1>9. EditOK(e)'
  <2>1. BaseOK(e)' /\ QuietOK(e)'
    BY <1>1, <1>3 DEF BaseOK, QuietOK, WorkDrained, LinksDrained, Previewing, Undisturbable, Beginning
  <2> QED
    BY <1>1, <1>3, <2>1, FreshOK
<1>10. ASSUME NEW x \in Edits, x # e PROVE EditOK(x)'
  <2>1. edit[x].slot = 0
    BY <1>10, SlotsApart DEF Held
  <2> QED
    BY <1>3, <1>10, <2>1, DropKeeps DEF Pruned, Finish
<1>11. \A c \in 1..MaxChecks : Sound(check'[c])
  BY <1>4, ForgottenOf DEF IInv
<1> QED
  BY <1>6, <1>8, <1>9, <1>10, <1>11 DEF IInv

LEMMA PlanStartsStep ==
  ASSUME IInv, NEW e \in Edits, PlanStarts(e)
  PROVE  IInv'
<1>1. edit[e].stage = "restoring" /\ fence = [kind |-> "plan", edit |-> e] /\ fence' = None
  BY DEF IInv, FencesMatch, PlanStarts
<1>2. edit' = [edit EXCEPT ![e] = Over] /\ \A x \in Edits : edit'[x] = IF x = e THEN Over ELSE edit[x]
  BY DEF IInv, TypeOK, PlanStarts
<1>3. ASSUME NEW x \in Edits
      PROVE  /\ edit[x].stage \notin Beginning \cup Held
             /\ edit'[x].stage \notin Beginning \cup Held \cup {"restoring"}
             /\ None # [kind |-> "edit", edit |-> x] /\ None # [kind |-> "plan", edit |-> x]
  <2>1. edit[x].stage \notin Beginning \cup Held /\ (x # e => edit[x].stage # "restoring")
    BY <1>1 DEF IInv, FencesMatch
  <2>2. None # [kind |-> "edit", edit |-> x] /\ None # [kind |-> "plan", edit |-> x]
    BY RecordsAssumption DEF FenceRecord
  <2> QED
    BY <1>2, <2>1, <2>2, OverType DEF Beginning, Held
<1>4. FencesMatch'
  BY <1>1, <1>3 DEF FencesMatch
<1>5. TypeOK'
  <2>1. edit' \in [Edits -> EditRecord]
    BY <1>2, OverType DEF IInv, TypeOK
  <2>2. link' \in Links /\ late' \in BOOLEAN
    BY DEF IInv, TypeOK, PlanStarts, Links
  <2> QED
    BY <1>1, <2>1, <2>2 DEF IInv, TypeOK, PlanStarts
<1>6. ASSUME NEW x \in Edits PROVE EditOK(x)'
  <2>1. CASE x = e
    BY <1>2, <2>1, OverOK
  <2>2. CASE x # e
    BY <1>2, <1>3, <2>2, AsideOK DEF PlanStarts
  <2> QED
    BY <2>1, <2>2
<1> QED
  BY <1>4, <1>5, <1>6 DEF IInv, PlanStarts

-----------------------------------------------------------------------------
(* The editor, its window and the environment.                               *)

LEMMA RefusedAll ==
  ASSUME IInv, Refused
  PROVE  IInv'
<1>1. DueSessions = {x \in Due \cap Edits : edit[x].stage = "editing"}
  BY DEF Due, DueSessions
<1>2. open' \subseteq Windows
  BY DEF Refused, IInv, TypeOK
<1> QED
  BY <1>1, <1>2, RefusedStep DEF Refused, Pruned, PrunedFence, PrunedChecks

LEMMA CancelEditStep ==
  ASSUME IInv, NEW e \in Edits, CancelEdit(e)
  PROVE  IInv'
<1>1. CASE edit[e].lapsed
  BY <1>1, RefusedAll DEF CancelEdit
<1>2. CASE ~edit[e].lapsed
  BY <1>2, FinishStep DEF CancelEdit, Due
<1> QED
  BY <1>1, <1>2

\* A flag of one edit is raised.
LEMMA FlagStep ==
  ASSUME IInv, NEW e \in Edits, NEW r \in EditRecord, Alike(edit[e], r),
         edit' = [edit EXCEPT ![e] = r],
         UNCHANGED <<record, fence, check, readers, writers, link, late, open>>
  PROVE  IInv'
<1>1. edit'[e] = r
  BY DEF IInv, TypeOK
<1>2. EditOK(e)'
  BY <1>1, AlikeOK, SlotKeptBy DEF IInv, EditOK
<1> QED
  BY <1>2, LocalStep DEF SameFence, Alike

LEMMA CancelPreparationStep ==
  ASSUME IInv, NEW e \in Edits, CancelPreparation(e)
  PROVE  IInv'
<1>1. edit[e] \in EditRecord
  BY DEF IInv, TypeOK
<1>2. UNCHANGED <<record, fence, check, readers, writers, link, late, open>>
  BY DEF CancelPreparation
<1>3. CASE edit[e].stage = "prepared"
  <2>1. edit' = [edit EXCEPT ![e] = Over]
    BY <1>3 DEF CancelPreparation
  <2>2. edit'[e] = Over
    BY <2>1 DEF IInv, TypeOK
  <2>3. SameFence(edit[e], Over)
    BY <1>3, OverType DEF SameFence, Beginning, Held
  <2> QED
    BY <1>2, <2>1, <2>2, <2>3, OverOK, OverType, LocalStep
<1>4. CASE edit[e].stage # "prepared"
  <2> DEFINE r == [edit[e] EXCEPT !.left = TRUE, !.aborted = TRUE]
  <2>1. edit' = [edit EXCEPT ![e] = r]
    BY <1>4 DEF CancelPreparation
  <2>2. r \in EditRecord /\ Alike(edit[e], r)
    BY <1>1, FlagType, AlikeOf
  <2> HIDE DEF r
  <2> QED
    BY <1>2, <2>1, <2>2, FlagStep
<1> QED
  BY <1>3, <1>4

LEMMA LeavesStep ==
  ASSUME IInv, NEW e \in Edits, LeavesKnown(e) \/ LeavesUnknown(e)
  PROVE  IInv'
<1> DEFINE r == [edit[e] EXCEPT !.left = TRUE]
<1>1. r \in EditRecord /\ Alike(edit[e], r) /\ Alike(edit[e], edit[e])
  BY FlagType, AlikeOf DEF IInv, TypeOK
<1>2. CASE CancelEdit(e) \/ CancelPreparation(e)
  BY <1>2, CancelEditStep, CancelPreparationStep
<1>3. CASE LeavesUnknown(e) /\ ~CancelPreparation(e)
  <2>1. edit' = [edit EXCEPT ![e] = r]
    BY <1>3 DEF LeavesUnknown
  <2> HIDE DEF r
  <2> QED
    BY <1>1, <1>3, <2>1, FlagStep DEF LeavesUnknown
<1>4. CASE LeavesKnown(e) /\ ~CancelEdit(e)
  <2>1. e \notin Due /\ edit[e].stage \in {"saving", "saved"}
    BY <1>4 DEF LeavesKnown, Due, Beginning
  <2>2. Pruned[e] = edit[e] /\ e \notin DueSessions
    BY <2>1, PrunedSame
  <2>3. edit' = [Pruned EXCEPT ![e] = r]
    BY <1>4, <2>2 DEF LeavesKnown
  <2> HIDE DEF r
  <2>4. edit'[e] = r
    BY <2>3, PrunedType
  <2>5. /\ UNCHANGED <<record, readers, writers, link, late, open>>
        /\ fence' = PrunedFence /\ check' = PrunedChecks
    BY <1>4 DEF LeavesKnown
  <2>6. EditOK(e)'
    BY <1>1, <2>2, <2>4, <2>5, AlikeOK, SlotKeptBy, PrunedChecksOf DEF IInv, EditOK
  <2>7. SameFence(Pruned[e], r)
    BY <1>1, <2>2 DEF SameFence, Alike
  <2> QED
    BY <1>1, <2>3, <2>5, <2>6, <2>7, PruneStep, PrunedChecksOf
<1> QED
  BY <1>2, <1>3, <1>4 DEF LeavesKnown, LeavesUnknown

LEMMA WindowClosesStep ==
  ASSUME IInv, NEW w \in Windows, WindowCloses(w)
  PROVE  IInv'
<1> DEFINE mine == {e \in Edits : edit[e].owner = w}
           ended == {e \in mine : edit[e].stage = "editing"}
<1>1. /\ edit' = Dropped(mine) /\ fence' = FenceWithout(ended) /\ check' = Forgotten(ended)
      /\ UNCHANGED <<record, readers, writers, link, late>> /\ open' \subseteq Windows
  BY DEF WindowCloses, IInv, TypeOK
<1>2. ended = {x \in mine \cap Edits : edit[x].stage = "editing"}
  OBVIOUS
<1> HIDE DEF mine, ended
<1> QED
  BY <1>1, <1>2, RefusedStep

\* Around the edits: nothing starts under a fence.
LEMMA AroundStep ==
  ASSUME IInv, UNCHANGED <<edit, fence, check, open>>,
         record' \in [revision : Nat, addr : Addresses, key : Keys],
         readers' \in BOOLEAN, writers' \in BOOLEAN, link' \in Links, late' \in BOOLEAN,
         \A x \in Edits : BaseOK(x)' /\ QuietOK(x)'
  PROVE  IInv'
<1>1. TypeOK' /\ FencesMatch'
  BY DEF IInv, TypeOK, FencesMatch
<1>2. ASSUME NEW x \in Edits PROVE EditOK(x)'
  BY DEF IInv, EditOK, SlotOK, TrustOK, ChallengeOK
<1> QED
  BY <1>1, <1>2 DEF IInv

LEMMA NoneFenced ==
  ASSUME IInv, fence = None, NEW x \in Edits
  PROVE  edit[x].stage \notin Beginning \cup Held \cup {"restoring"}
<1>1. None # [kind |-> "edit", edit |-> x] /\ None # [kind |-> "plan", edit |-> x]
  BY RecordsAssumption DEF FenceRecord
<1> QED
  BY <1>1 DEF IInv, FencesMatch

LEMMA SurroundingsStep ==
  ASSUME IInv, Surroundings
  PROVE  IInv'
<1>1. CASE OperationStarts \/ ChangeStarts \/ PlanAdmitted
  <2>1. ASSUME NEW x \in Edits PROVE BaseOK(x)' /\ QuietOK(x)'
    <3>1. edit[x].stage \notin Beginning \cup Held /\ EditOK(x)
      BY <1>1, NoneFenced DEF OperationStarts, ChangeStarts, PlanAdmitted, IInv
    <3> QED
      BY <1>1, <3>1 DEF OperationStarts, ChangeStarts, PlanAdmitted, EditOK, BaseOK, QuietOK,
         WorkDrained, LinksDrained, Undisturbable, Beginning, Held
  <2>2. /\ UNCHANGED <<edit, fence, check, open, record>>
        /\ readers' \in BOOLEAN /\ writers' \in BOOLEAN /\ link' \in Links /\ late' \in BOOLEAN
        /\ record \in [revision : Nat, addr : Addresses, key : Keys]
    BY <1>1 DEF OperationStarts, ChangeStarts, PlanAdmitted, IInv, TypeOK, Links
  <2> QED
    BY <2>1, <2>2, AroundStep
<1>2. CASE OperationEnds \/ ServerAnswers \/ ConnectEnds
  <2>1. ASSUME NEW x \in Edits PROVE BaseOK(x)' /\ QuietOK(x)'
    <3>1. EditOK(x) /\ (fence = None => edit[x].stage \notin Beginning \cup Held)
      BY NoneFenced DEF IInv
    <3>2. BaseOK(x)'
      BY <1>2, <3>1 DEF OperationEnds, ServerAnswers, ConnectEnds, EditOK, BaseOK
    <3>3. QuietOK(x)'
      <4>1. CASE OperationEnds
        BY <3>1, <4>1 DEF OperationEnds, EditOK, QuietOK, WorkDrained, LinksDrained
      <4>2. CASE ServerAnswers
        <5>1. UNCHANGED <<edit, readers, writers>> /\ (link' = "down" \/ (late' <=> fence # None))
              /\ link' \in {"connecting", "down"}
          BY <4>2 DEF ServerAnswers
        <5>2. CASE fence = None
          BY <3>1, <5>1, <5>2 DEF EditOK, QuietOK, WorkDrained, LinksDrained, Undisturbable,
             Beginning, Held
        <5>3. CASE fence # None
          BY <3>1, <5>1, <5>3 DEF EditOK, QuietOK, WorkDrained, LinksDrained
        <5> QED
          BY <5>2, <5>3
      <4>3. CASE ConnectEnds
        <5>1. /\ UNCHANGED <<edit, readers, writers>> /\ link = "connecting" /\ link' \in {"up", "down"}
              /\ link' = "up" => (late' <=> late)
          BY <4>3 DEF ConnectEnds
        <5> QED
          BY <3>1, <5>1 DEF EditOK, QuietOK, WorkDrained, LinksDrained
      <4> QED
        BY <1>2, <4>1, <4>2, <4>3
    <3> QED
      BY <3>2, <3>3
  <2>2. /\ UNCHANGED <<edit, fence, check, open, record>>
        /\ readers' \in BOOLEAN /\ writers' \in BOOLEAN /\ link' \in Links /\ late' \in BOOLEAN
        /\ record \in [revision : Nat, addr : Addresses, key : Keys]
    BY <1>2 DEF OperationEnds, ServerAnswers, ConnectEnds, IInv, TypeOK, Links
  <2> QED
    BY <2>1, <2>2, AroundStep
<1>3. CASE ChangeEnds
  <2>1. /\ UNCHANGED <<edit, fence, check, open, readers, link, late>>
        /\ writers /\ writers' = FALSE
        /\ \/ record' = record
           \/ record' = [record EXCEPT !.revision = @ + 1]
    BY <1>3 DEF ChangeEnds
  <2>2. record \in [revision : Nat, addr : Addresses, key : Keys]
    BY DEF IInv, TypeOK
  <2>3. \/ record' = record
        \/ /\ record'.revision = record.revision + 1
           /\ record'.addr = record.addr /\ record'.key = record.key
    BY <2>1, <2>2
  <2>4. ASSUME NEW x \in Edits PROVE BaseOK(x)' /\ QuietOK(x)'
    <3>1. EditOK(x) /\ edit[x].base \in Nat /\ edit[x].stage \notin Undisturbable
      BY <2>1 DEF IInv, TypeOK, EditRecord, EditOK, QuietOK, WorkDrained
    <3>2. BaseOK(x)'
      BY <2>1, <2>2, <2>3, <3>1 DEF EditOK, BaseOK
    <3>3. QuietOK(x)'
      BY <2>1, <3>1 DEF EditOK, QuietOK, WorkDrained, LinksDrained
    <3> QED
      BY <3>2, <3>3
  <2>5. record' \in [revision : Nat, addr : Addresses, key : Keys]
    BY <2>1, <2>2
  <2> QED
    BY <2>1, <2>4, <2>5, AroundStep DEF IInv, TypeOK
<1>4. CASE DeletionAsked
  <2> DEFINE S == {e \in Edits : edit[e].stage = "editing"}
  <2>1. /\ S # {} /\ edit' = Dropped(S) /\ check' = Forgotten(S) /\ fence' = FenceWithout(S)
        /\ writers' = (writers \/ fence' = None)
        /\ UNCHANGED <<record, readers, link, late, open>>
    BY <1>4 DEF DeletionAsked
  <2>2. S = {x \in S \cap Edits : edit[x].stage = "editing"}
    OBVIOUS
  <2>3. PICK e \in Edits : e \in S /\ edit[e].stage = "editing"
    BY <2>1
  <2>4. \A x \in Edits : x # e => edit[x].stage \notin Beginning \cup Held
    BY <2>3, SlotsApart DEF Held
  <2> HIDE DEF S
  <2>5. edit'[e] = Over
    BY <2>1, <2>3, DroppedOf DEF IInv
  <2>6. TypeOK' /\ FencesMatch'
    <3>1. writers' \in BOOLEAN
      BY <2>1 DEF IInv, TypeOK
    <3> QED
      BY <2>1, <2>2, <3>1, DroppedOf, FenceWithoutOf, ForgottenOf DEF IInv, TypeOK, FencesMatch
  <2>7. ASSUME NEW x \in Edits PROVE EditOK(x)'
    <3>1. CASE x = e
      BY <2>5, <3>1, OverOK
    <3>2. CASE x # e
      <4>1. x \notin S
        BY <2>2, <2>4, <3>2 DEF Held
      <4>2. edit'[x] = edit[x]
        BY <2>1, <4>1, DroppedOf DEF IInv
      <4> QED
        BY <2>1, <2>4, <3>2, <4>2, AsideOK
    <3> QED
      BY <3>1, <3>2
  <2> QED
    BY <2>1, <2>6, <2>7, ForgottenOf DEF IInv
<1> QED
  BY <1>1, <1>2, <1>3, <1>4 DEF Surroundings

-----------------------------------------------------------------------------
(* The invariant and what follows from it.                                   *)

LEMMA StutterStep ==
  ASSUME IInv, UNCHANGED vars
  PROVE  IInv'
<1>1. TypeOK' /\ FencesMatch'
  BY DEF vars, IInv, TypeOK, FencesMatch
<1>2. ASSUME NEW x \in Edits PROVE EditOK(x)'
  BY SlotKeptBy, AlikeOK DEF vars, IInv, EditOK, Alike, Beside
<1> QED
  BY <1>1, <1>2 DEF vars, IInv

LEMMA IInvNext == IInv /\ [Next]_vars => IInv'
<1> SUFFICES ASSUME IInv, [Next]_vars PROVE IInv'
  OBVIOUS
<1>1. ASSUME NEW e \in Edits, Progress(e) PROVE IInv'
  <2>1. CASE SaveEnds(e)
    BY <2>1, FinishStep DEF SaveEnds, Due, Beginning
  <2>2. CASE ToldLate(e)
    BY <2>2, CancelEditStep DEF ToldLate
  <2> QED
    BY <1>1, <2>1, <2>2, BeginningSteps, SaveCommitsStep, SaveFailsStep, PlanStartsStep, ToldStep
    DEF Progress
<1>2. ASSUME NEW e \in Edits, Requests(e) PROVE IInv'
  BY <1>2, PrepareStep, BeginStep, LapseStep, ValidateStep, SaveStep, CancelCheckStep, LeavesStep
  DEF Requests
<1>3. ASSUME NEW c \in 1..MaxChecks, CheckAnswers(c) PROVE IInv'
  BY <1>3, CheckAnswersStep
<1>4. ASSUME NEW w \in Windows, WindowCloses(w) PROVE IInv'
  BY <1>4, WindowClosesStep
<1> QED
  BY <1>1, <1>2, <1>3, <1>4, RefusedAll, SurroundingsStep, StutterStep DEF Next

THEOREM IInvariant == Spec => []IInv
  BY InitIInv, IInvNext, PTL DEF Spec

\* FenceOwned, for any edits, windows and bounds: the fence of the environment
\* stands for the one edit that begins, edits or saves, or for the plan that
\* restores its connections, through every failure, cancellation, time limit,
\* closed window and deletion.
THEOREM FenceAlwaysOwned == Spec => []FenceOwned
<1>1. IInv => FenceOwned
  BY DEF IInv, FenceOwned
<1> QED
  BY <1>1, IInvariant, PTL

\* Undisturbed: a session edits and saves the plugin it began with, beside no
\* operation or change and no connection but one that waited since before.
THEOREM SessionsUndisturbed == Spec => []Undisturbed
<1>1. IInv => Undisturbed
  BY DEF IInv, EditOK, BaseOK, QuietOK, WorkDrained, Undisturbed, Previewing, Undisturbable
<1> QED
  BY <1>1, IInvariant, PTL

\* Only a save changes the address, and with a key only as it was proven.
LEMMA SavedKeyProven ==
  ASSUME IInv, [Next]_vars, record'.addr # record.addr, record'.key # None
  PROVE  /\ record'.key = record'.addr
         /\ \E c \in 1..MaxChecks :
              /\ check[c] # None /\ check[c].state = "valid"
              /\ check[c].draft = [addr |-> record'.addr, key |-> record'.key]
              /\ edit[check[c].edit].stage = "saving"
<1>1. PICK e \in Edits : SaveCommits(e)
  <2>1. record \in [revision : Nat, addr : Addresses, key : Keys]
    BY DEF IInv, TypeOK
  <2>2. ~ChangeEnds
    BY <2>1 DEF ChangeEnds
  <2>3. record' # record
    OBVIOUS
  <2>4. ~UNCHANGED vars
    BY <2>3 DEF vars
  <2>5. ASSUME NEW e \in Edits, Progress(e) PROVE SaveCommits(e)
    BY <2>3, <2>5 DEF Progress, Previewed, Moves, GiveUp, Drains, DrainFails, Drained, Rechecked, Cut,
       CutFails, SaveFails, SaveEnds, Finish, PlanStarts, Told, ToldLate, CancelEdit, Refused
  <2>6. ASSUME NEW e \in Edits, Requests(e) PROVE FALSE
    BY <2>3, <2>6, ZenonT(40) DEF Requests, Prepare, Begin, Lapse, Validate, Save, CancelCheck, LeavesKnown,
       LeavesUnknown, CancelEdit, CancelPreparation, Finish, Refused
  <2>7. ~Refused /\ ~Surroundings
    BY <2>2, <2>3 DEF Refused, Surroundings, OperationStarts, OperationEnds, ChangeStarts,
       DeletionAsked, PlanAdmitted, ServerAnswers, ConnectEnds
  <2>8. \A c \in 1..MaxChecks : ~CheckAnswers(c)
    BY <2>3 DEF CheckAnswers
  <2>9. \A w \in Windows : ~WindowCloses(w)
    BY <2>3 DEF WindowCloses
  <2> QED
    BY <2>4, <2>5, <2>6, <2>7, <2>8, <2>9 DEF Next
<1> DEFINE base == [addr |-> record.addr, key |-> record.key]
           saved == Candidate(base, edit[e].draft, edit[e].trust)
           c == edit[e].slot
<1>2. edit[e].stage = "saving" /\ EditOK(e) /\ edit[e] \in EditRecord
  BY <1>1 DEF SaveCommits, IInv, TypeOK
<1>3. record'.addr = saved.addr /\ record'.key = saved.key
  BY <1>1 DEF SaveCommits
<1>4. /\ edit[e].trust # None /\ edit[e].draft.key = edit[e].trust.key
      /\ edit[e].draft.addr = edit[e].trust.addr
      /\ record'.addr = edit[e].trust.addr /\ record'.key = edit[e].trust.key
  BY <1>3 DEF Candidate
<1>5. /\ c \in 1..MaxChecks /\ check[c] # None /\ check[c].edit = e
      /\ check[c].state = "valid" /\ check[c].trust = edit[e].trust
  BY <1>2, <1>4 DEF EditOK, SlotOK, TrustOK, EditRecord
<1>6. check[c] \in CheckRecord /\ Sound(check[c])
  BY <1>5 DEF IInv, TypeOK
<1>7. /\ check[c].draft.key = check[c].draft.addr
      /\ edit[e].trust = [key |-> check[c].draft.key, addr |-> check[c].draft.addr]
  BY <1>4, <1>5, <1>6 DEF Sound
<1>8. check[c].draft = [addr |-> record'.addr, key |-> record'.key] /\ record'.key = record'.addr
  BY <1>4, <1>6, <1>7 DEF CheckRecord, Drafts
<1> QED
  BY <1>2, <1>5, <1>8

\* ProvenKeys: no challenge is kept for an older draft, and a new address is
\* saved with a key only if a check of this edit has succeeded with both.
THEOREM KeysProven == Spec => ProvenKeys
<1>1. IInv => \A e \in Edits : edit[e].challenge # None =>
                edit[e].challenge.generation = edit[e].generation
  BY DEF IInv, EditOK, ChallengeOK
<1>2. IInv /\ [Next]_vars =>
        [record'.addr # record.addr /\ record'.key # None =>
          /\ record'.key = record'.addr
          /\ \E c \in 1..MaxChecks :
               /\ check[c] # None /\ check[c].state = "valid"
               /\ check[c].draft = [addr |-> record'.addr, key |-> record'.key]
               /\ edit[check[c].edit].stage = "saving"]_vars
  BY SavedKeyProven
<1> QED
  BY <1>1, <1>2, IInvariant, PTL DEF Spec, ProvenKeys
=============================================================================
