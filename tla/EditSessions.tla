----------------------------- MODULE EditSessions -----------------------------
(* The edit of a plugin's connection: the preparation, the drain under the    *)
(* fence of the environment, the session with its checks of drafts, the save  *)
(* and the plan that restores what the edit disconnected, with the editor of  *)
(* the window that asked for it, which may be left at every moment.           *)
(*                                                                            *)
(* One environment and one plugin, which may be reached through a server of   *)
(* the environment.  A draft is an address and a host key; a key is the       *)
(* address whose server presents it.                                          *)
EXTENDS Naturals

CONSTANTS
  Edits,          \* the edits asked for: a preparation, then its session
  Windows,
  None,
  Addresses,      \* what a draft may point at
  Stored,         \* what is stored at first
  Submitted,      \* the drafts an editor checks and saves
  MaxChecks,      \* checks known to a session or still under way
  MaxGeneration,  \* draft generations of one session
  Worked,         \* the edits whose drafts are checked and saved
  MaxRevision     \* revisions of the plugin's record

ASSUME BoundsAssumption ==
  /\ Worked \subseteq Edits
  /\ MaxChecks \in Nat /\ MaxGeneration \in Nat /\ MaxRevision \in Nat \ {0}
ASSUME DraftsAssumption ==
  Stored \cup Submitted \subseteq [addr : Addresses, key : Addresses \cup {None}]
ASSUME NoneAssumption == None \notin Edits \cup Windows \cup Addresses

VARIABLES
  record,    \* the stored plugin: revision, address, host key
  fence,     \* the fence of the environment: kind and edit, or None
  edit,      \* every edit: its preparation and then its session
  check,     \* the checks a session knows, and those still under way
  readers,   \* an Agent operation runs
  writers,   \* another configuration change is queued or runs
  link,      \* the plugin's connection
  late,      \* it was started by a plan admitted before the fence
  open       \* windows that exist

vars == <<record, fence, edit, check, readers, writers, link, late, open>>

Keys == Addresses \cup {None}
Drafts == [addr : Addresses, key : Keys]
Beginning == {"beginning", "draining", "drained", "cutting"}
Held == {"editing", "saving", "saved"}
Stages == {"none", "prepared", "restoring", "over"} \cup Beginning \cup Held
Links == {"down", "waiting", "connecting", "up"}

Unused == [stage |-> "none", owner |-> None, told |-> FALSE, left |-> FALSE,
           aborted |-> FALSE, lapsed |-> FALSE, awaits |-> {}, base |-> 0,
           baseDraft |-> [addr |-> None, key |-> None], restores |-> FALSE, generation |-> 0,
           challenge |-> None, slot |-> 0, draft |-> None, trust |-> None]

Init ==
  /\ \E d \in Stored : record = [revision |-> 1, addr |-> d.addr, key |-> d.key]
  /\ fence = None /\ check = [c \in 1..MaxChecks |-> None]
  /\ edit = [e \in Edits |-> Unused]
  /\ readers = FALSE /\ writers = FALSE
  /\ link \in {"down", "up"} /\ late = FALSE
  /\ open = Windows

-----------------------------------------------------------------------------
(* pruneExpired and invalidateSession: what a call of the manager does before *)
(* its own work.  A session that saves is spared, and so is what the aborted  *)
(* preparation of a begin already passed.                                     *)

Over == [Unused EXCEPT !.stage = "over"]

Due == {e \in Edits : edit[e].lapsed /\ edit[e].stage \in {"prepared", "editing"} \cup Beginning}

Dropped(S) ==
  [e \in Edits |->
     IF e \notin S THEN edit[e]
     ELSE IF edit[e].stage \in Beginning THEN [edit[e] EXCEPT !.aborted = TRUE]
     ELSE IF edit[e].stage \in {"prepared", "editing"} THEN Over
     ELSE edit[e]]

\* The fence after the release by those of S that end.
FenceWithout(S) ==
  IF fence # None /\ fence.kind = "edit" /\ fence.edit \in S THEN None ELSE fence

Running(c) == check[c] # None /\ check[c].state = "running"
                /\ edit[check[c].edit].slot = c

\* cancelRunningValidations of the sessions in S.
Cancelled(S) ==
  [c \in 1..MaxChecks |->
     IF Running(c) /\ check[c].edit \in S
       THEN [check[c] EXCEPT !.state = "cancelled"]
       ELSE check[c]]

\* The same of sessions that end: what is known of their checks goes with them.
Forgotten(S) ==
  [c \in 1..MaxChecks |->
     IF check[c] # None /\ check[c].edit \in S /\ ~check[c].live THEN None ELSE Cancelled(S)[c]]

DueSessions == {e \in Due : edit[e].stage = "editing"}
Pruned == Dropped(Due)
PrunedFence == FenceWithout(DueSessions)
PrunedChecks == Forgotten(DueSessions)

\* A call that finds what it asks for gone only prunes.
Refused ==
  /\ open # {} /\ Due # {}
  /\ edit' = Pruned /\ fence' = PrunedFence /\ check' = PrunedChecks
  /\ UNCHANGED <<record, readers, writers, link, late, open>>

Lapse(e) ==
  /\ edit[e].stage \in {"prepared", "editing", "saving"} \cup Beginning /\ ~edit[e].lapsed
  /\ edit' = [edit EXCEPT ![e].lapsed = TRUE]
  /\ UNCHANGED <<record, fence, check, readers, writers, link, late, open>>

-----------------------------------------------------------------------------
(* Preparing and beginning                                                    *)

Prepare(e, w) ==
  /\ w \in open /\ edit[e].stage = "none"
  /\ edit' = [Pruned EXCEPT ![e] = [Unused EXCEPT !.stage = "prepared", !.owner = w,
                                                  !.base = record.revision,
                                                  !.baseDraft = [addr |-> record.addr, key |-> record.key]]]
  /\ fence' = PrunedFence /\ check' = PrunedChecks
  /\ UNCHANGED <<record, readers, writers, link, late, open>>

\* A fence that is held refuses the begin, which uses the preparation up.
Begin(e) ==
  /\ edit[e].stage = "prepared" /\ ~edit[e].left /\ ~edit[e].lapsed
  /\ IF PrunedFence = None
       THEN /\ fence' = [kind |-> "edit", edit |-> e]
            /\ edit' = [Pruned EXCEPT ![e].stage = "beginning"]
       ELSE /\ fence' = PrunedFence
            /\ edit' = [Pruned EXCEPT ![e] = Over]
  /\ check' = PrunedChecks
  /\ UNCHANGED <<record, readers, writers, link, late, open>>

\* Mutant: the fence stays after a begin that failed.
GiveUpFenced(e) ==
  /\ edit' = [edit EXCEPT ![e] = Over]
  /\ UNCHANGED <<record, fence, check, readers, writers, link, late, open>>

GiveUp(e) ==
  /\ edit' = [edit EXCEPT ![e] = Over]
  /\ fence' = FenceWithout({e})
  /\ UNCHANGED <<record, check, readers, writers, link, late, open>>

Moves(e, stage) ==
  /\ edit' = [edit EXCEPT ![e].stage = stage, ![e].awaits = IF stage = "draining" THEN {"work", "links"} ELSE {}]
  /\ UNCHANGED <<record, fence, check, readers, writers, link, late, open>>

\* The preview is read again; it may also fail to be read.
Previewed(e) ==
  /\ edit[e].stage = "beginning"
  /\ \/ record.revision = edit[e].base /\ Moves(e, "draining")
     \/ GiveUp(e)

\* Mutant: the drain waits for Agent operations only.
BusyReading(wait) == IF wait = "work" THEN readers ELSE link = "connecting"

Busy(wait) == IF wait = "work" THEN readers \/ writers ELSE link = "connecting"

\* waitEnvironmentDrain and waitForConnectionOperations end each on its own.
Drains(e, wait) ==
  /\ edit[e].stage = "draining" /\ wait \in edit[e].awaits /\ ~Busy(wait) /\ ~edit[e].aborted
  /\ edit' = [edit EXCEPT ![e].awaits = @ \ {wait}]
  /\ UNCHANGED <<record, fence, check, readers, writers, link, late, open>>

DrainFails(e) ==
  /\ edit[e].stage = "draining"
  /\ \E wait \in edit[e].awaits : edit[e].aborted \/ Busy(wait)
  /\ GiveUp(e)

Drained(e) ==
  /\ edit[e].stage = "draining" /\ edit[e].awaits = {}
  /\ Moves(e, "drained")

\* The preview once more, and the SQL tabs, which may refuse.
Rechecked(e) ==
  /\ edit[e].stage = "drained"
  /\ \/ record.revision = edit[e].base /\ Moves(e, "cutting")
     \/ GiveUp(e)

\* disconnectForConfigurationEdit, and the session.
Cut(e) ==
  /\ edit[e].stage = "cutting"
  /\ edit' = [edit EXCEPT ![e].stage = "editing", ![e].restores = (link = "up"),
                            ![e].lapsed = FALSE, ![e].aborted = FALSE]
  /\ link' = IF link = "up" THEN "down" ELSE link
  /\ late' = (late /\ link = "connecting")
  /\ UNCHANGED <<record, fence, check, readers, writers, open>>

CutFails(e) == edit[e].stage = "cutting" /\ GiveUp(e)

-----------------------------------------------------------------------------
(* Drafts and their checks.  The session trusts a key for one address only.   *)

Trust == [key : Addresses, addr : Addresses]

\* Mutant: a trusted key is taken along to whatever address.
CandidateAnywhere(base, draft, trust) ==
  [addr |-> draft.addr,
   key |-> IF trust # None /\ draft.key = trust.key THEN draft.key
           ELSE IF draft.addr # base.addr THEN None
           ELSE IF draft.key = None THEN base.key ELSE draft.key]

\* normalizePluginCandidate: a key comes along with an unchanged address, or
\* with a trust that names it for this very address.
Candidate(base, draft, trust) ==
  [addr |-> draft.addr,
   key |-> IF trust # None /\ draft.key = trust.key /\ draft.addr = trust.addr THEN draft.key
           ELSE IF draft.addr # base.addr THEN None
           ELSE IF draft.key = None THEN base.key ELSE draft.key]

SlotTrust(e) ==
  LET c == edit[e].slot
  IN IF c # 0 /\ check[c].state = "valid" THEN check[c].trust ELSE None

\* A challenge is trusted by the very next draft, a valid check by any.
TrustFor(e, g) ==
  LET h == edit[e].challenge
  IN IF h # None /\ h.generation = edit[e].generation /\ g = edit[e].generation + 1
       THEN [key |-> h.key, addr |-> h.addr]
       ELSE SlotTrust(e)

\* requireSession with the owner: the window knows its session.
Known(e) == edit[e].told /\ ~edit[e].left /\ edit[e].owner \in open

\* A newer draft makes the running check stale and forgets the challenge; so
\* does a new check of the same draft with the running one.  The same
\* generation with another draft is refused.
Validate(e, draft, g, c) ==
  LET r == edit[e]
      candidate == Candidate(r.baseDraft, draft, TrustFor(e, g))
      old == r.slot
      refused == old # 0 /\ check[old].generation = g /\ check[old].draft # candidate
      kept == IF g > r.generation THEN None ELSE r.challenge
  IN /\ e \in Worked /\ Known(e) /\ r.stage = "editing" /\ ~r.lapsed
     /\ check[c] = None /\ \A d \in 1..(c - 1) : check[d] # None
     /\ g >= r.generation
     /\ edit' = [Pruned EXCEPT ![e].generation = g, ![e].challenge = kept,
                               ![e].slot = IF refused THEN @ ELSE c]
     /\ check' = [d \in 1..MaxChecks |->
                   IF d = old /\ Running(d) /\ (~refused \/ g > r.generation)
                     THEN [check[d] EXCEPT !.state = "stale"]
                   ELSE IF d = old /\ ~check[d].live /\ ~refused THEN None
                   ELSE IF d = c /\ ~refused
                     THEN [edit |-> e, generation |-> g, draft |-> candidate,
                           trust |-> IF candidate.key = None THEN None
                                     ELSE [key |-> candidate.key, addr |-> candidate.addr],
                           state |-> "running", live |-> TRUE]
                   ELSE PrunedChecks[d]]
     /\ fence' = PrunedFence
     /\ UNCHANGED <<record, readers, writers, link, late, open>>

Answer(c, state) == check' = [check EXCEPT ![c].live = FALSE, ![c].state = state]

\* The answer still counts (a check is aborted when it goes stale or is
\* cancelled, so never while it is the running one): its session is there, and it is the check of its slot.
Wanted(c) ==
  LET r == edit[check[c].edit]
  IN r.stage \in Held /\ r.slot = c /\ check[c].state = "running"

Late(c) ==
  /\ check[c].live /\ ~Wanted(c) /\ UNCHANGED edit
  /\ IF edit[check[c].edit].slot = c THEN Answer(c, check[c].state)
     ELSE check' = [check EXCEPT ![c] = None]

CheckSucceeds(c) ==
  /\ check[c].live /\ Wanted(c) /\ check[c].draft.key = check[c].draft.addr
  /\ edit[check[c].edit].generation = check[c].generation
  /\ Answer(c, "valid") /\ UNCHANGED edit

\* A server whose key is not in the draft asks to confirm the one it presents.
CheckChallenges(c) ==
  /\ check[c].live /\ Wanted(c) /\ check[c].draft.key = None
  /\ Answer(c, "failed")
  /\ edit' = [edit EXCEPT ![check[c].edit].challenge =
                IF edit[check[c].edit].generation = check[c].generation
                  THEN [key |-> check[c].draft.addr, addr |-> check[c].draft.addr,
                        generation |-> check[c].generation]
                  ELSE @]

CheckFails(c) ==
  /\ check[c].live /\ Wanted(c)
  /\ Answer(c, "failed")
  /\ UNCHANGED edit

CheckAnswers(c) ==
  /\ check[c] # None
  /\ Late(c) \/ CheckSucceeds(c) \/ CheckChallenges(c) \/ CheckFails(c)
  /\ UNCHANGED <<record, fence, readers, writers, link, late, open>>

CancelCheck(e) ==
  LET c == edit[e].slot
  IN /\ Known(e) /\ edit[e].stage \in {"editing", "saving", "saved"} /\ e \notin Due
     /\ c # 0 /\ Running(c)
     /\ check' = [PrunedChecks EXCEPT ![c].state = "cancelled"]
     /\ edit' = Pruned /\ fence' = PrunedFence
     /\ UNCHANGED <<record, readers, writers, link, late, open>>

-----------------------------------------------------------------------------
(* Saving: the draft and the trust of the last check are taken, the change is *)
(* queued under the fence the session holds.                                  *)

Save(e, draft) ==
  /\ e \in Worked /\ Known(e) /\ edit[e].stage = "editing" /\ ~edit[e].lapsed
  /\ edit' = [Pruned EXCEPT ![e].stage = "saving", ![e].draft = draft, ![e].trust = SlotTrust(e)]
  /\ check' = [c \in 1..MaxChecks |-> IF c = edit[e].slot THEN Cancelled({e})[c] ELSE PrunedChecks[c]]
  /\ fence' = PrunedFence
  /\ UNCHANGED <<record, readers, writers, link, late, open>>

\* The revision is the one the edit began with; a running connect is cut off.
SaveCommits(e) ==
  LET saved == Candidate([addr |-> record.addr, key |-> record.key], edit[e].draft, edit[e].trust)
      same == saved = [addr |-> record.addr, key |-> record.key]
  IN /\ edit[e].stage = "saving" /\ record.revision = edit[e].base
     /\ same \/ record.revision < MaxRevision
     /\ record' = IF same THEN record
                  ELSE [revision |-> record.revision + 1, addr |-> saved.addr, key |-> saved.key]
     /\ link' = IF same \/ link = "waiting" THEN link ELSE "down"
     /\ late' = (late /\ same)
     /\ edit' = [edit EXCEPT ![e].stage = "saved", ![e].draft = None, ![e].trust = None]
     /\ UNCHANGED <<fence, check, readers, writers, open>>

\* saveFailed: the session edits on, with a new time limit.
SaveFails(e) ==
  /\ edit[e].stage = "saving"
  /\ edit' = [Pruned EXCEPT ![e].stage = "editing", ![e].lapsed = FALSE,
                            ![e].draft = None, ![e].trust = None]
  /\ fence' = PrunedFence /\ check' = PrunedChecks
  /\ UNCHANGED <<record, readers, writers, link, late, open>>

\* finishSession: the fence is released, or goes to the plan that connects.
Finish(e, connects) ==
  /\ edit' = [Pruned EXCEPT ![e] = IF connects THEN [Over EXCEPT !.stage = "restoring"] ELSE Over]
  /\ fence' = IF connects THEN [kind |-> "plan", edit |-> e] ELSE None
  /\ check' = Forgotten(DueSessions \cup {e})
  /\ UNCHANGED <<record, readers, writers, link, late, open>>

\* completeSave: to stay apart, to restore what was connected, or to connect.
SaveEnds(e) ==
  /\ edit[e].stage = "saved"
  /\ \E connects \in BOOLEAN : Finish(e, connects)

\* onPlanStarted releases the fence; a plan that is refused does so as well.
PlanStarts(e) ==
  /\ edit[e].stage = "restoring"
  /\ edit' = [edit EXCEPT ![e] = Over]
  /\ fence' = IF fence = [kind |-> "plan", edit |-> e] THEN None ELSE fence
  /\ \/ link = "down" /\ link' \in {"waiting", "connecting"} /\ late' = FALSE
     \/ UNCHANGED <<link, late>>
  /\ UNCHANGED <<record, check, readers, writers, open>>

-----------------------------------------------------------------------------
(* The editor in the window.                                                  *)

CancelEdit(e) ==
  /\ edit[e].stage = "editing"
  /\ IF edit[e].lapsed THEN Refused ELSE Finish(e, edit[e].restores)

CancelPreparation(e) ==
  /\ edit[e].stage \in {"prepared"} \cup Beginning
  /\ edit' = [edit EXCEPT ![e] = IF edit[e].stage = "prepared" THEN Over
                                 ELSE [@ EXCEPT !.left = TRUE, !.aborted = TRUE]]
  /\ UNCHANGED <<record, fence, check, readers, writers, link, late, open>>

\* The editor hears of its session; one that was left meanwhile cancels it.
Told(e) ==
  /\ edit[e].stage = "editing" /\ ~edit[e].told /\ ~edit[e].left /\ edit[e].owner \in open
  /\ edit' = [edit EXCEPT ![e].told = TRUE]
  /\ UNCHANGED <<record, fence, check, readers, writers, link, late, open>>

\* Mutant: nobody cancels the session of an editor that was left meanwhile.
ToldNobody(e) == FALSE

ToldLate(e) ==
  /\ edit[e].left /\ ~edit[e].told /\ edit[e].owner \in open
  /\ CancelEdit(e)

\* The editor is left: it cancels the session it knows, or the preparation.
LeavesKnown(e) ==
  /\ Known(e)
  /\ \/ CancelEdit(e)
     \/ /\ edit[e].stage \in {"saving", "saved"}
        /\ edit' = [Pruned EXCEPT ![e].left = TRUE]
        /\ fence' = PrunedFence /\ check' = PrunedChecks
        /\ UNCHANGED <<record, readers, writers, link, late, open>>
LeavesUnknown(e) ==
  /\ ~edit[e].told /\ ~edit[e].left /\ edit[e].owner \in open
  /\ \/ CancelPreparation(e)
     \/ /\ edit[e].stage = "editing"
        /\ edit' = [edit EXCEPT ![e].left = TRUE]
        /\ UNCHANGED <<record, fence, check, readers, writers, link, late, open>>

\* invalidateOwner: a begin that waits is aborted, a save goes on.
WindowCloses(w) ==
  LET mine == {e \in Edits : edit[e].owner = w}
  IN /\ w \in open /\ open' = open \ {w}
     /\ edit' = Dropped(mine)
     /\ fence' = FenceWithout({e \in mine : edit[e].stage = "editing"})
     /\ check' = Forgotten({e \in mine : edit[e].stage = "editing"})
     /\ UNCHANGED <<record, readers, writers, link, late>>

-----------------------------------------------------------------------------
(* What else happens in the environment.                                      *)

OperationStarts ==
  /\ fence = None /\ ~readers /\ ~writers /\ readers' = TRUE
  /\ UNCHANGED <<record, fence, edit, check, writers, link, late, open>>
OperationEnds ==
  /\ readers /\ readers' = FALSE
  /\ UNCHANGED <<record, fence, edit, check, writers, link, late, open>>

\* Another change of the plugin: its name, its policy; a deletion that is
\* refused in the end.  The deletion ends the sessions of the plugin first.
ChangeStarts ==
  /\ fence = None /\ ~writers /\ writers' = TRUE
  /\ UNCHANGED <<record, fence, edit, check, readers, link, late, open>>
DeletionAsked ==
  LET S == {e \in Edits : edit[e].stage = "editing"}
  IN /\ S # {}
     /\ edit' = Dropped(S) /\ check' = Forgotten(S) /\ fence' = FenceWithout(S)
     /\ writers' = (writers \/ fence' = None)
     /\ UNCHANGED <<record, readers, link, late, open>>
ChangeEnds ==
  /\ writers /\ ~readers /\ writers' = FALSE
  /\ \/ UNCHANGED record
     \/ record.revision < MaxRevision /\ record' = [record EXCEPT !.revision = @ + 1]
  /\ UNCHANGED <<fence, edit, check, readers, link, late, open>>

\* A plan admitted without a fence connects the plugin, or its server first;
\* it asks no further when the server is there.
PlanAdmitted ==
  /\ fence = None /\ link = "down" /\ link' \in {"waiting", "connecting"} /\ late' = FALSE
  /\ UNCHANGED <<record, fence, edit, check, readers, writers, open>>
ServerAnswers ==
  /\ link = "waiting"
  /\ \/ link' = "connecting" /\ late' = (fence # None)
     \/ link' = "down" /\ UNCHANGED late
  /\ UNCHANGED <<record, fence, edit, check, readers, writers, open>>
ConnectEnds ==
  /\ link = "connecting" /\ link' \in {"up", "down"} /\ late' = (late /\ link' = "up")
  /\ UNCHANGED <<record, fence, edit, check, readers, writers, open>>

-----------------------------------------------------------------------------
Progress(e) ==
  \/ Previewed(e) \/ (\E wait \in {"work", "links"} : Drains(e, wait)) \/ DrainFails(e)
  \/ Drained(e) \/ Rechecked(e) \/ Cut(e) \/ CutFails(e)
  \/ SaveCommits(e) \/ SaveFails(e) \/ SaveEnds(e) \/ PlanStarts(e)
  \/ Told(e) \/ ToldLate(e)

Requests(e) ==
  \/ \E w \in Windows : Prepare(e, w)
  \/ Begin(e) \/ Lapse(e)
  \/ \E draft \in Submitted, g \in 0..MaxGeneration, c \in 1..MaxChecks : Validate(e, draft, g, c)
  \/ \E draft \in Submitted : Save(e, draft)
  \/ CancelCheck(e) \/ LeavesKnown(e) \/ LeavesUnknown(e)

Surroundings ==
  \/ OperationStarts \/ OperationEnds \/ ChangeStarts \/ DeletionAsked \/ ChangeEnds
  \/ PlanAdmitted \/ ServerAnswers \/ ConnectEnds

Next ==
  \/ \E e \in Edits : Progress(e) \/ Requests(e)
  \/ \E c \in 1..MaxChecks : CheckAnswers(c)
  \/ \E w \in Windows : WindowCloses(w)
  \/ Refused \/ Surroundings

Spec == Init /\ [][Next]_vars

\* File reads, drains with their time limit, disconnects with their deadline,
\* saves and answers between the processes all end.
LiveSpec == Spec /\ \A e \in Edits : WF_vars(Progress(e))

-----------------------------------------------------------------------------
CheckRecord ==
  [edit : Edits, generation : 0..MaxGeneration, draft : Drafts, trust : Trust \cup {None},
   state : {"running", "valid", "failed", "cancelled", "stale"}, live : BOOLEAN]
Challenge == [key : Addresses, addr : Addresses, generation : 0..MaxGeneration]
EditRecord ==
  [stage : Stages, owner : Windows \cup {None}, told : BOOLEAN, left : BOOLEAN,
   aborted : BOOLEAN, lapsed : BOOLEAN, awaits : SUBSET {"work", "links"}, base : Nat,
   baseDraft : [addr : Addresses \cup {None}, key : Keys], restores : BOOLEAN,
   generation : 0..MaxGeneration, challenge : Challenge \cup {None}, slot : 0..MaxChecks,
   draft : Drafts \cup {None}, trust : Trust \cup {None}]
FenceRecord == [kind : {"edit", "plan"}, edit : Edits]

\* None is no record.
ASSUME RecordsAssumption == None \notin FenceRecord \cup CheckRecord

TypeOK ==
  /\ record \in [revision : Nat, addr : Addresses, key : Keys]
  /\ fence \in FenceRecord \cup {None}
  /\ edit \in [Edits -> EditRecord]
  /\ check \in [1..MaxChecks -> CheckRecord \cup {None}]
  /\ readers \in BOOLEAN /\ writers \in BOOLEAN /\ late \in BOOLEAN
  /\ link \in Links /\ open \subseteq Windows

FencesMatch ==
  \A e \in Edits :
    /\ edit[e].stage \in Beginning \cup Held <=> fence = [kind |-> "edit", edit |-> e]
    /\ edit[e].stage = "restoring" <=> fence = [kind |-> "plan", edit |-> e]

\* The fence of the environment stands for the one edit that begins, edits or
\* saves, or for the plan that restores its connections, and for nothing else:
\* no failure, cancellation, time limit, closed window or deletion leaves it
\* behind or takes it away from a session that saves.
FenceOwned == TypeOK /\ FencesMatch

\* While a session edits or saves, the plugin is still the one it began with,
\* no other operation or change is under way, and it is connected by no plan
\* but one that was waiting for the server since before the fence.
Undisturbed ==
  \A e \in Edits : edit[e].stage \in {"editing", "saving"} =>
    /\ record.revision = edit[e].base
    /\ record.addr = edit[e].baseDraft.addr /\ record.key = edit[e].baseDraft.key
    /\ ~readers /\ ~writers
    /\ link \in {"connecting", "up"} => late

\* An address is saved with a host key only if a check of that very edit has
\* succeeded with this key at this address, whatever drafts, challenges and
\* late answers came in between; a challenge is never kept for an older draft.
ProvenKeys ==
  /\ [](\A e \in Edits : edit[e].challenge # None =>
          edit[e].challenge.generation = edit[e].generation)
  /\ [][record'.addr # record.addr /\ record'.key # None =>
          /\ record'.key = record'.addr
          /\ \E c \in 1..MaxChecks :
               /\ check[c] # None /\ check[c].state = "valid"
               /\ check[c].draft = [addr |-> record'.addr, key |-> record'.key]
               /\ edit[check[c].edit].stage = "saving"]_vars

\* A begin, a save and the start of a restoring plan end; and an edit whose
\* editor was left before it heard of the session ends, unless its window is
\* closed.
Unsettled(e) ==
  \/ edit[e].stage \in Beginning \cup {"saving", "saved", "restoring"}
  \/ edit[e].left /\ ~edit[e].told /\ edit[e].owner \in open
EditsSettle == \A e \in Edits : []<>~Unsettled(e)
=============================================================================
