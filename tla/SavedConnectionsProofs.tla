----------------------- MODULE SavedConnectionsProofs -----------------------
(***************************************************************************)
(* Proofs about saved connections and what is opened over them, part by    *)
(* part: ConfigTransaction for any plugins, targets, secrets and numbers   *)
(* of revisions and damages; SshSession for any calls; Terminals for any   *)
(* requests and bounds; and the three as MCSavedConnections composes them. *)
(***************************************************************************)
EXTENDS MCSavedConnections, TLAPS, SequenceTheorems

-----------------------------------------------------------------------------
(* ConfigTransaction.  While the credential files are intact, each plugin is *)
(* in one of three phases: a save is under way, its journal record was left  *)
(* behind, or neither.  A save and a record say what the files hold: the     *)
(* credential of before, untouched, or the one the save has written.         *)


-----------------------------------------------------------------------------
(* What the two entries of a plugin yield in intact files.                   *)

X(p) == primary.entries[p]
Y(p) == backup.entries[p]

Reads(x, y, b) ==
  IF x # NoEntry /\ x.binding = b THEN x.secret
  ELSE IF y # NoEntry /\ y.binding = b THEN y.secret
  ELSE IF x # NoEntry \/ y # NoEntry THEN Unreadable ELSE NoSecret
Reading(p, b) == Reads(X(p), Y(p), b)

Bare(p) == X(p) = NoEntry /\ Y(p) = NoEntry
Usable(s) == s \notin {NoSecret, Unreadable}
Mirrored(p) == mirror # NoMirror /\ mirror.plugin = p

-----------------------------------------------------------------------------
(* The part of the invariant that needs no intact files.                     *)

BoundOK(p) ==
  /\ save[p] # NoSave =>
       save[p].previous < MaxRevision /\ (save[p].force => save[p].secret # NoSecret)
  /\ journal[p] # NoRecord => journal[p].previous < MaxRevision

WroteOK(p) ==
  save[p] # NoSave
  /\ (save[p].stage = "journaled" \/ (save[p].stage = "yaml" /\ ~Mirrored(p)))
    => ~attempt[p].wrote

StartInv ==
  /\ ~up \/ recovering # {} => mirror = NoMirror /\ \A p \in Plugins : save[p] = NoSave
  /\ \A p \in recovering : journal[p] # NoRecord

SlotInv == \A slot \in {primary, backup} : ~Valid(slot) => slot.entries = NoEntries

\* f is what may have become of the entry e.
Fades(e, f) == f = e \/ (e # NoEntry /\ f = [e EXCEPT !.clear = FALSE])

\* The backup that is still to be written agrees with what is on disk.
MirrorOwner(q) ==
  /\ save[q] # NoSave /\ save[q].stage = "yaml"
  /\ ~(save[q].after = save[q].before /\ save[q].secret = NoSecret)
MirrorEntry(p) ==
  IF p = mirror.plugin THEN Valid(primary) => Fades(mirror.slot.entries[p], X(p))
  ELSE /\ Valid(backup) => Fades(mirror.slot.entries[p], Y(p))
       /\ backup.kind = "missing" /\ Valid(primary) => Fades(mirror.slot.entries[p], X(p))
MirrorInv ==
  mirror # NoMirror =>
    /\ Valid(mirror.slot) /\ primary.kind # "missing"
    /\ MirrorOwner(mirror.plugin)
    /\ \A p \in Plugins : MirrorEntry(p)

-----------------------------------------------------------------------------
(* The phases of a plugin in intact files.                                   *)

Intact ==
  /\ \A slot \in {primary, backup} :
       /\ slot.kind # "damaged"
       /\ \A p \in Plugins : slot.entries[p] # NoEntry => slot.entries[p].clear
  /\ Valid(backup) => Valid(primary)

\* The credential is the one from before the save.
Untouched(p) ==
  /\ ~attempt[p].wrote
  /\ attempt[p].old = Pair(journal[p].before, Reading(p, journal[p].before))
  /\ attempt[p].old.secret # Unreadable
  /\ journal[p].after # journal[p].before /\ Usable(Reading(p, journal[p].after)) =>
       Pair(journal[p].after, Reading(p, journal[p].after)) \in attempt[p].stale
  /\ journal[p].had <=> ~Bare(p)
  /\ attempt[p].new.binding = journal[p].after
  /\ ~journal[p].expects => attempt[p].new.secret = attempt[p].old.secret

\* The save has written its credential.
Written(p) ==
  /\ attempt[p].wrote
  /\ attempt[p].new.binding = journal[p].after /\ attempt[p].new.secret \in Secrets
  /\ X(p) = [binding |-> journal[p].after, secret |-> attempt[p].new.secret, clear |-> TRUE]

\* There was nothing to write.
Skipped(p) ==
  /\ Untouched(p)
  /\ \/ journal[p].after = journal[p].before /\ attempt[p].new = attempt[p].old
     \/ Bare(p) /\ ~journal[p].expects

Saving(p) ==
  /\ journal[p] # NoRecord /\ journal[p].previous = save[p].previous
  /\ journal[p].before = save[p].before /\ journal[p].after = save[p].after
  /\ attempt[p].told = "open"
  /\ journal[p].expects <=>
       save[p].secret # NoSecret \/ (save[p].after # save[p].before /\ journal[p].had)
  /\ attempt[p].new.secret =
       IF save[p].secret = NoSecret THEN attempt[p].old.secret ELSE save[p].secret
  /\ save[p].stage = "journaled" => yaml[p].binding = journal[p].before /\ Untouched(p)
  /\ save[p].stage = "yaml" => /\ yaml[p].binding = journal[p].after
                               /\ IF Mirrored(p) THEN Written(p) ELSE Untouched(p)
  /\ save[p].stage = "written" => /\ yaml[p].binding = journal[p].after
                                  /\ Written(p) \/ Skipped(p)

Idle(p) ==
  /\ Reading(p, yaml[p].binding) # Unreadable
  /\ Pair(yaml[p].binding, Reading(p, yaml[p].binding)) \in Outcomes(p)

Left(p) ==
  /\ attempt[p].told = "open" =>
       \/ Written(p) /\ yaml[p].binding = journal[p].after
       \/ Untouched(p) /\ yaml[p].binding \in {journal[p].before, journal[p].after}
  /\ attempt[p].told = "failed" =>
       /\ Untouched(p)
       /\ \/ yaml[p].binding = journal[p].before
          \/ yaml[p].binding = journal[p].after /\ Usable(Reading(p, journal[p].after))
  /\ attempt[p].told = "saved" =>
       yaml[p].binding = journal[p].after /\ (Written(p) \/ Skipped(p))

PhaseOK(p) ==
  IF save[p] # NoSave THEN Saving(p)
  ELSE IF journal[p] = NoRecord THEN Idle(p) ELSE Left(p)

PluginOK(p) == BoundOK(p) /\ WroteOK(p) /\ (damage = 0 => PhaseOK(p))

IInv ==
  /\ TypeOK /\ StartInv /\ SlotInv /\ MirrorInv
  /\ damage = 0 => Intact
  /\ \A p \in Plugins : PluginOK(p)

-----------------------------------------------------------------------------
(* Reading.                                                                  *)

LEMMA ReadingOf ==
  ASSUME TypeOK, NEW p \in Plugins, NEW b
  PROVE  /\ X(p) \in Entry \cup {NoEntry} /\ Y(p) \in Entry \cup {NoEntry}
         /\ Reading(p, b) \in Secrets \cup {NoSecret, Unreadable}
         /\ Bare(p) => Reading(p, b) = NoSecret
         /\ ~Bare(p) => Reading(p, b) # NoSecret
         /\ X(p) # NoEntry /\ X(p).binding = b => Reading(p, b) = X(p).secret
<1>1. X(p) \in Entry \cup {NoEntry} /\ Y(p) \in Entry \cup {NoEntry}
  BY DEF TypeOK, Slot, X, Y
<1>2. /\ X(p) # NoEntry => X(p).secret \in Secrets
      /\ Y(p) # NoEntry => Y(p).secret \in Secrets
  BY <1>1 DEF Entry
<1> QED
  BY <1>1, <1>2, VaultAssumption DEF Reading, Reads, Bare

LEMMA StoredIsReading ==
  ASSUME Intact, NEW p \in Plugins, NEW b
  PROVE  Stored(p, b) = Reading(p, b)
<1>1. /\ Opens(primary, p, b, TRUE) <=> X(p) # NoEntry /\ X(p).binding = b
      /\ Opens(backup, p, b, TRUE) <=> Y(p) # NoEntry /\ Y(p).binding = b
  BY DEF Intact, Opens, Has, X, Y
<1>2. (\E slot \in {primary, backup} : Refuses(slot, p, b, TRUE) \/ slot.kind = "damaged")
        <=> (X(p) # NoEntry /\ X(p).binding # b) \/ (Y(p) # NoEntry /\ Y(p).binding # b)
  BY <1>1 DEF Intact, Refuses, Has, X, Y
<1> QED
  BY <1>1, <1>2 DEF Stored, LoadFrom, Reading, Reads, X, Y

LEMMA LoadIsReading ==
  ASSUME TypeOK, Intact, NEW p \in Plugins, NEW b
  PROVE  /\ keyring => Load(p, b) = Reading(p, b)
         /\ ~keyring => Load(p, b) = IF Bare(p) THEN NoSecret ELSE Unreadable
<1>1. CASE keyring
  BY <1>1, StoredIsReading DEF Load, Stored, TypeOK
<1>2. CASE ~keyring
  <2>1. ~Opens(primary, p, b, keyring) /\ ~Opens(backup, p, b, keyring)
    BY <1>2 DEF Opens
  <2>2. (\E slot \in {primary, backup} : Refuses(slot, p, b, keyring) \/ slot.kind = "damaged")
          <=> ~Bare(p)
    BY <2>1 DEF Intact, Refuses, Has, X, Y, Bare
  <2> QED
    BY <1>2, <2>1, <2>2 DEF Load, LoadFrom
<1> QED
  BY <1>1, <1>2

LEMMA LoadType ==
  ASSUME TypeOK, NEW p \in Plugins, NEW b, NEW k
  PROVE  LoadFrom(primary, backup, p, b, k) \in Secrets \cup {NoSecret, Unreadable}
<1>1. X(p) \in Entry \cup {NoEntry} /\ Y(p) \in Entry \cup {NoEntry}
  BY ReadingOf
<1>2. /\ Opens(primary, p, b, k) => primary.entries[p].secret \in Secrets
      /\ Opens(backup, p, b, k) => backup.entries[p].secret \in Secrets
  BY <1>1 DEF Opens, Has, X, Y, Entry
<1> QED
  BY <1>2 DEF LoadFrom

\* What the other files of a plugin do to it: nothing, or its backup is filled.
EntriesKept(p) ==
  \/ X(p)' = X(p) /\ Y(p)' = Y(p)
  \/ Y(p) = NoEntry /\ X(p)' = X(p) /\ Y(p)' = X(p)

LEMMA ReadingKept ==
  ASSUME NEW p \in Plugins, EntriesKept(p), NEW b
  PROVE  Reads(X(p), Y(p), b) = Reads(X(p)', Y(p)', b) /\ (Bare(p)' <=> Bare(p))
  BY DEF EntriesKept, Reads, Bare

LEMMA PhaseKept ==
  ASSUME NEW p \in Plugins, PhaseOK(p), EntriesKept(p), Mirrored(p)' <=> Mirrored(p),
         yaml'[p].binding = yaml[p].binding, journal'[p] = journal[p],
         save'[p] = save[p], attempt'[p] = attempt[p]
  PROVE  PhaseOK(p)'
<1>1. Reading(p, journal[p].before)' = Reading(p, journal[p].before)
  BY ReadingKept DEF Reading
<1>2. Reading(p, journal[p].after)' = Reading(p, journal[p].after)
  BY ReadingKept DEF Reading
<1>3. Reading(p, yaml[p].binding)' = Reading(p, yaml[p].binding)
  BY ReadingKept DEF Reading
<1>4. X(p)' = X(p) /\ (Bare(p)' <=> Bare(p))
  BY ReadingKept DEF EntriesKept
<1>5. Untouched(p)' <=> Untouched(p)
  BY <1>1, <1>2, <1>4 DEF Untouched
<1>6. Written(p)' <=> Written(p)
  BY <1>4 DEF Written
<1>7. Skipped(p)' <=> Skipped(p)
  BY <1>4, <1>5 DEF Skipped
<1>8. CASE save[p] # NoSave
  BY <1>5, <1>6, <1>7, <1>8 DEF PhaseOK, Saving
<1>9. CASE save[p] = NoSave /\ journal[p] = NoRecord
  BY <1>3, <1>9 DEF PhaseOK, Idle, Outcomes
<1>10. CASE save[p] = NoSave /\ journal[p] # NoRecord
  BY <1>2, <1>5, <1>6, <1>7, <1>10 DEF PhaseOK, Left
<1> QED
  BY <1>8, <1>9, <1>10

-----------------------------------------------------------------------------
(* A step that is about one plugin and leaves the credential files alone.    *)

LEMMA LocalStep ==
  ASSUME IInv, TypeOK', NEW p \in Plugins,
         UNCHANGED <<primary, backup, up, mirror, damage>>,
         \A q \in Plugins \ {p} :
           /\ yaml'[q] = yaml[q] /\ journal'[q] = journal[q]
           /\ save'[q] = save[q] /\ attempt'[q] = attempt[q],
         ~Mirrored(p) \/ save'[p] = save[p],
         recovering' \subseteq recovering,
         save'[p] = NoSave \/ (up /\ recovering = {}),
         p \in recovering' => journal'[p] # NoRecord,
         BoundOK(p)', WroteOK(p)', damage = 0 => PhaseOK(p)'
  PROVE  IInv'
<1>1. StartInv'
  BY DEF IInv, StartInv, TypeOK
<1>2. SlotInv'
  BY DEF IInv, SlotInv
<1>3. MirrorInv'
  <2> SUFFICES ASSUME mirror # NoMirror PROVE MirrorInv'
    BY DEF MirrorInv
  <2>1. mirror.plugin \in Plugins
    BY DEF IInv, TypeOK
  <2>2. save'[mirror.plugin] = save[mirror.plugin]
    BY <2>1 DEF Mirrored
  <2>3. MirrorOwner(mirror.plugin)'
    BY <2>2 DEF IInv, MirrorInv, MirrorOwner
  <2>4. ASSUME NEW q \in Plugins PROVE MirrorEntry(q)'
    BY <2>4 DEF IInv, MirrorInv, MirrorEntry, X, Y
  <2> QED
    BY <2>3, <2>4 DEF IInv, MirrorInv
<1>4. damage' = 0 => Intact'
  BY DEF IInv, Intact
<1>5. ASSUME NEW q \in Plugins, q # p PROVE PluginOK(q)'
  <2>1. PluginOK(q)
    BY DEF IInv
  <2>2. BoundOK(q)' /\ WroteOK(q)'
    BY <1>5, <2>1 DEF PluginOK, BoundOK, WroteOK, Mirrored
  <2>3. damage' = 0 => PhaseOK(q)'
    BY <1>5, <2>1, PhaseKept DEF PluginOK, EntriesKept, X, Y, Mirrored
  <2> QED
    BY <2>2, <2>3 DEF PluginOK
<1> QED
  BY <1>1, <1>2, <1>3, <1>4, <1>5 DEF IInv, PluginOK

\* While its save has written nothing of the backup, no other mirror is its own.
LEMMA NotMirrored ==
  ASSUME IInv, NEW p \in Plugins, save[p] = NoSave \/ save[p].stage # "yaml"
  PROVE  ~Mirrored(p)
  BY DEF IInv, MirrorInv, MirrorOwner, Mirrored

\* A save under way in the running program.
LEMMA SaveRuns ==
  ASSUME IInv, NEW p \in Plugins, save[p] # NoSave
  PROVE  up /\ recovering = {} /\ save[p] \in Save
  BY DEF IInv, StartInv, TypeOK

\* The phase is untouched by what it does not read.
LEMMA UntouchedKept ==
  ASSUME NEW p \in Plugins, Untouched(p), UNCHANGED <<primary, backup>>,
         journal'[p] = journal[p],
         attempt'[p].wrote = attempt[p].wrote, attempt'[p].old = attempt[p].old,
         attempt'[p].new = attempt[p].new, attempt'[p].stale = attempt[p].stale
  PROVE  Untouched(p)'
  BY DEF Untouched, Reading, X, Y, Bare

LEMMA WrittenKept ==
  ASSUME NEW p \in Plugins, Written(p), UNCHANGED primary, journal'[p] = journal[p],
         attempt'[p].wrote = attempt[p].wrote, attempt'[p].new = attempt[p].new
  PROVE  Written(p)'
  BY DEF Written, X

LEMMA SkippedKept ==
  ASSUME NEW p \in Plugins, Skipped(p), UNCHANGED <<primary, backup>>,
         journal'[p] = journal[p],
         attempt'[p].wrote = attempt[p].wrote, attempt'[p].old = attempt[p].old,
         attempt'[p].new = attempt[p].new, attempt'[p].stale = attempt[p].stale
  PROVE  Skipped(p)'
  BY UntouchedKept DEF Skipped, Bare, X, Y

-----------------------------------------------------------------------------
(* The steps of a save.                                                      *)

LEMMA PrepareStep ==
  ASSUME IInv, NEW p \in Plugins, Prepare(p)
  PROVE  IInv'
<1>1. PICK b \in Bindings, s \in Secrets \cup {NoSecret}, force \in BOOLEAN :
        (force => s # NoSecret) /\ Begins(p, b, s, force)
  BY DEF Prepare
<1> DEFINE r == [previous |-> yaml[p].revision, before |-> yaml[p].binding, after |-> b,
                 had |-> StoredEntry(primary, backup, p),
                 expects |-> \/ s # NoSecret
                             \/ b # yaml[p].binding /\ StoredEntry(primary, backup, p)]
           v == [stage |-> "journaled", previous |-> yaml[p].revision,
                 before |-> yaml[p].binding, after |-> b, secret |-> s, force |-> force]
           a == Attempt(p, b, s)
<1>2. /\ save' = [save EXCEPT ![p] = v] /\ journal' = [journal EXCEPT ![p] = r]
      /\ attempt' = [attempt EXCEPT ![p] = a]
      /\ UNCHANGED <<yaml, primary, backup, up, recovering, blocked, mirror, keyring, damage>>
  BY <1>1 DEF Begins
<1>3. /\ up /\ recovering = {} /\ save[p] = NoSave /\ journal[p] = NoRecord
      /\ yaml[p].revision < MaxRevision
  BY DEF Prepare, Running
<1>4. TypeOK /\ yaml[p].revision \in Revisions /\ yaml[p].binding \in Bindings
  BY DEF IInv, TypeOK
<1>5. r \in Record /\ v \in Save
  <2> DEFINE had == StoredEntry(primary, backup, p)
             expects == \/ s # NoSecret
                        \/ b # yaml[p].binding /\ StoredEntry(primary, backup, p)
  <2>1. had \in BOOLEAN /\ expects \in BOOLEAN
    BY DEF StoredEntry
  <2> HIDE DEF had, expects
  <2>2. [previous |-> yaml[p].revision, before |-> yaml[p].binding, after |-> b,
         had |-> had, expects |-> expects] \in Record
    BY <1>4, <2>1 DEF Record
  <2> QED
    BY <1>4, <2>2 DEF Save, had, expects
<1>6. a \in [old : Pairs, new : Pairs, stale : SUBSET Pairs, wrote : BOOLEAN,
             told : {"open", "saved", "failed"}]
  <2>1. Stored(p, yaml[p].binding) \in Secrets \cup {NoSecret, Unreadable}
    BY <1>4, LoadType DEF Stored
  <2>2. Kept(p) \in Pairs /\ Kept(p).secret \in Secrets \cup {NoSecret, Unreadable}
    BY <1>4, <2>1 DEF Kept, Pair, Pairs
  <2>3. Pair(b, IF s = NoSecret THEN Kept(p).secret ELSE s) \in Pairs
    BY <2>2 DEF Pair, Pairs
  <2>4. Resurrectable(p, b) \subseteq Pairs
    <3>1. ASSUME NEW slot \in {primary, backup}, Has(slot, p)
          PROVE  slot.entries[p].secret \in Secrets
      BY <1>4, <3>1 DEF TypeOK, Slot, Has, Entry
    <3> QED
      BY <3>1 DEF Resurrectable, Pair, Pairs
  <2> QED
    BY <2>2, <2>3, <2>4 DEF Attempt
<1> HIDE DEF r, v
<1>7. TypeOK'
  BY <1>2, <1>4, <1>5, <1>6 DEF TypeOK
<1>8. save'[p] = v /\ journal'[p] = r /\ attempt'[p] = a /\ v # NoSave /\ r # NoRecord
  BY <1>2, <1>4, <1>5, NothingAssumption DEF TypeOK
<1>9. BoundOK(p)' /\ WroteOK(p)'
  <2>1. ~a.wrote
    BY DEF Attempt
  <2> HIDE DEF a
  <2> QED
    BY <1>1, <1>3, <1>8, <2>1 DEF BoundOK, WroteOK, r, v
<1>10. ASSUME damage = 0 PROVE PhaseOK(p)'
  <2>1. Intact /\ Idle(p)
    BY <1>3, <1>10 DEF IInv, PluginOK, PhaseOK
  <2>2. \A c : Stored(p, c) = Reading(p, c)
    BY <1>4, <2>1, StoredIsReading
  <2>3. /\ a.old = Pair(yaml[p].binding, Reading(p, yaml[p].binding)) /\ ~a.wrote /\ a.told = "open"
        /\ a.new = Pair(b, IF s = NoSecret THEN a.old.secret ELSE s)
        /\ a.stale = Resurrectable(p, b)
    BY <2>2 DEF Attempt, Kept, Pair
  <2>4. StoredEntry(primary, backup, p) <=> ~Bare(p)
    BY DEF StoredEntry, Has, Bare, X, Y
  <2>5. b # yaml[p].binding /\ Usable(Reading(p, b)) => Pair(b, Reading(p, b)) \in Resurrectable(p, b)
    <3> SUFFICES ASSUME b # yaml[p].binding, Usable(Reading(p, b))
                 PROVE  Pair(b, Reading(p, b)) \in Resurrectable(p, b)
      OBVIOUS
    <3>1. PICK slot \in {primary, backup} : /\ Has(slot, p) /\ slot.entries[p].binding = b
                                            /\ slot.entries[p].secret = Reading(p, b)
      BY DEF Usable, Reading, Reads, Has, X, Y
    <3> QED
      BY <3>1 DEF Resurrectable
  <2> HIDE DEF a
  <2>6. Untouched(p)'
    BY <1>2, <1>8, <2>1, <2>3, <2>4, <2>5 DEF Untouched, Idle, Reading, X, Y, Bare, Pair, r
  <2>7. Saving(p)'
    BY <1>2, <1>8, <2>3, <2>6 DEF Saving, Pair, r, v
  <2> QED
    BY <1>8, <2>7 DEF PhaseOK
<1> HIDE DEF a
<1>11. \A q \in Plugins \ {p} :
         /\ yaml'[q] = yaml[q] /\ journal'[q] = journal[q]
         /\ save'[q] = save[q] /\ attempt'[q] = attempt[q]
  BY <1>2, <1>4 DEF TypeOK
<1> QED
  BY <1>2, <1>3, <1>7, <1>8, <1>9, <1>10, <1>11, NotMirrored, LocalStep

LEMMA PrepareRefusedStep ==
  ASSUME IInv, NEW p \in Plugins, PrepareRefused(p)
  PROVE  IInv'
<1>1. UNCHANGED <<disk, up, recovering, save, mirror, keyring, damage, attempt>>
  BY DEF PrepareRefused
<1>2. TypeOK'
  BY <1>1 DEF IInv, TypeOK, PrepareRefused, disk
<1>3. PluginOK(p)
  BY DEF IInv
<1>4. BoundOK(p)' /\ WroteOK(p)'
  BY <1>1, <1>3 DEF PluginOK, BoundOK, WroteOK, Mirrored, disk
<1>5. damage = 0 => PhaseOK(p)'
  BY <1>1, <1>3, PhaseKept DEF PluginOK, EntriesKept, X, Y, Mirrored, disk
<1> QED
  BY <1>1, <1>2, <1>4, <1>5, LocalStep DEF PrepareRefused, IInv, StartInv, disk, Running

LEMMA CommitYamlStep ==
  ASSUME IInv, NEW p \in Plugins, CommitYaml(p)
  PROVE  IInv'
<1> DEFINE y == [revision |-> save[p].previous + 1, binding |-> save[p].after]
           v == [save[p] EXCEPT !.stage = "yaml"]
<1>1. /\ yaml' = [yaml EXCEPT ![p] = y] /\ save' = [save EXCEPT ![p] = v]
      /\ UNCHANGED <<primary, backup, journal, up, recovering, blocked, mirror, keyring,
                     damage, attempt>>
  BY DEF CommitYaml
<1>2. /\ up /\ recovering = {} /\ save[p] \in Save /\ save[p] # NoSave
      /\ save[p].stage = "journaled" /\ ~Mirrored(p)
  BY SaveRuns, NotMirrored DEF CommitYaml
<1>3. PluginOK(p) /\ TypeOK
  BY DEF IInv
<1>4. y \in [revision : Revisions, binding : Bindings]
  BY <1>2, <1>3, ConfigAssumption DEF PluginOK, BoundOK, Save, Revisions
<1>5. /\ v \in Save /\ v.stage = "yaml" /\ v.previous = save[p].previous
      /\ v.before = save[p].before /\ v.after = save[p].after /\ v.secret = save[p].secret
      /\ v.force = save[p].force
  BY <1>2 DEF Save
<1>6. y.binding = save[p].after
  OBVIOUS
<1> HIDE DEF v, y
<1>7. TypeOK'
  BY <1>1, <1>3, <1>4, <1>5 DEF TypeOK
<1>8. yaml'[p] = y /\ save'[p] = v /\ v # NoSave
  BY <1>1, <1>3, <1>5, NothingAssumption DEF TypeOK
<1>9. BoundOK(p)' /\ WroteOK(p)'
  BY <1>1, <1>2, <1>3, <1>5, <1>8 DEF PluginOK, BoundOK, WroteOK
<1>10. ASSUME damage = 0 PROVE PhaseOK(p)'
  <2>1. Saving(p) /\ Untouched(p)
    BY <1>2, <1>3, <1>10 DEF PluginOK, PhaseOK, Saving
  <2>2. Untouched(p)' /\ ~Mirrored(p)'
    BY <1>1, <1>2, <2>1, UntouchedKept DEF Mirrored
  <2> QED
    BY <1>1, <1>5, <1>6, <1>8, <2>1, <2>2 DEF PhaseOK, Saving
<1>11. \A q \in Plugins \ {p} :
         /\ yaml'[q] = yaml[q] /\ journal'[q] = journal[q]
         /\ save'[q] = save[q] /\ attempt'[q] = attempt[q]
  BY <1>1, <1>3 DEF TypeOK
<1> QED
  BY <1>1, <1>2, <1>7, <1>9, <1>10, <1>11, LocalStep

LEMMA FailedStep ==
  ASSUME IInv, NEW p \in Plugins, save[p] # NoSave, save[p].stage \in {"journaled", "yaml"},
         ~Mirrored(p),
         \E y \in [revision : Revisions, binding : Bindings] :
           yaml' = [yaml EXCEPT ![p] = y] /\ (damage = 0 => y.binding = save[p].before),
         Complete(p), Failed(p),
         UNCHANGED <<primary, backup, up, recovering, mirror, keyring, damage>>
  PROVE  IInv'
<1>0. PICK y \in [revision : Revisions, binding : Bindings] :
        yaml' = [yaml EXCEPT ![p] = y] /\ (damage = 0 => y.binding = save[p].before)
  OBVIOUS
<1> DEFINE stale == IF journal'[p] = NoRecord THEN {} ELSE attempt[p].stale
           a == [attempt[p] EXCEPT !.told = "failed", !.stale = stale]
<1>1. TypeOK /\ PluginOK(p) /\ up /\ recovering = {}
  BY SaveRuns DEF IInv
<1>2. attempt[p] \in [old : Pairs, new : Pairs, stale : SUBSET Pairs, wrote : BOOLEAN,
                      told : {"open", "saved", "failed"}]
  BY <1>1 DEF TypeOK
<1>3. stale \subseteq Pairs
  BY <1>2
<1>4. /\ attempt' = [attempt EXCEPT ![p] = a] /\ save' = [save EXCEPT ![p] = NoSave]
      /\ journal' = journal \/ journal' = [journal EXCEPT ![p] = NoRecord]
      /\ blocked' \subseteq blocked \cup {p}
  BY ZenonT(40) DEF Failed, Complete
<1> HIDE DEF stale
<1>5. /\ a \in [old : Pairs, new : Pairs, stale : SUBSET Pairs, wrote : BOOLEAN,
                told : {"open", "saved", "failed"}]
      /\ a.told = "failed" /\ a.stale = stale /\ a.old = attempt[p].old /\ a.new = attempt[p].new
      /\ a.wrote = attempt[p].wrote
  BY <1>2, <1>3
<1> HIDE DEF a
<1>6. /\ TypeOK' /\ yaml'[p] = y /\ save'[p] = NoSave /\ attempt'[p] = a
      /\ journal'[p] \in {journal[p], NoRecord}
      /\ \A q \in Plugins \ {p} :
           /\ yaml'[q] = yaml[q] /\ journal'[q] = journal[q]
           /\ save'[q] = save[q] /\ attempt'[q] = attempt[q]
  <2>1. yaml' \in [Plugins -> [revision : Revisions, binding : Bindings]]
    BY <1>0, <1>1 DEF TypeOK
  <2>2. save' \in [Plugins -> Save \cup {NoSave}]
    BY <1>1, <1>4 DEF TypeOK
  <2>3. attempt' \in [Plugins -> [old : Pairs, new : Pairs, stale : SUBSET Pairs,
                                  wrote : BOOLEAN, told : {"open", "saved", "failed"}]]
    BY <1>1, <1>4, <1>5 DEF TypeOK
  <2>4. journal' \in [Plugins -> Record \cup {NoRecord}]
    BY <1>1, <1>4 DEF TypeOK
  <2>5. TypeOK'
    BY <1>1, <1>4, <2>1, <2>2, <2>3, <2>4 DEF TypeOK
  <2> QED
    BY <1>0, <1>1, <1>4, <2>5 DEF TypeOK
<1>7. BoundOK(p)' /\ WroteOK(p)'
  BY <1>1, <1>6 DEF PluginOK, BoundOK, WroteOK
<1>8. ASSUME damage = 0 PROVE PhaseOK(p)'
  <2>1. Saving(p) /\ Untouched(p) /\ journal[p] # NoRecord
    BY <1>1, <1>8 DEF PluginOK, PhaseOK, Saving
  <2>2. yaml'[p].binding = journal[p].before
    BY <1>0, <1>6, <1>8, <2>1 DEF Saving
  <2>3. CASE journal'[p] = NoRecord
    <3>2. /\ Reading(p, yaml[p].binding)' = attempt[p].old.secret
          /\ Pair(yaml'[p].binding, Reading(p, yaml[p].binding)') = attempt[p].old
      BY <2>1, <2>2 DEF Untouched, Pair, Reading, X, Y
    <3>3. attempt[p].old \in Outcomes(p)'
      BY <1>5, <1>6 DEF Outcomes
    <3>4. Idle(p)'
      BY <2>1, <3>2, <3>3 DEF Idle, Untouched, Pair
    <3> QED
      BY <1>6, <2>3, <3>4 DEF PhaseOK
  <2>4. CASE journal'[p] # NoRecord
    <3>1. Untouched(p)'
      BY <1>5, <1>6, <2>1, <2>4, UntouchedKept DEF stale
    <3>2. Left(p)'
      BY <1>5, <1>6, <2>2, <2>4, <3>1 DEF Left
    <3> QED
      BY <1>6, <2>4, <3>2 DEF PhaseOK
  <2> QED
    BY <2>3, <2>4
<1> QED
  BY <1>1, <1>6, <1>7, <1>8, LocalStep

LEMMA CommitYamlFailsStep ==
  ASSUME IInv, NEW p \in Plugins, CommitYamlFails(p)
  PROVE  IInv'
<1>1. save[p] # NoSave /\ save[p].stage = "journaled" /\ ~Mirrored(p)
  BY NotMirrored DEF CommitYamlFails
<1>2. yaml[p] \in [revision : Revisions, binding : Bindings] /\ yaml' = [yaml EXCEPT ![p] = yaml[p]]
  BY DEF CommitYamlFails, IInv, TypeOK
<1>3. damage = 0 => yaml[p].binding = save[p].before
  BY <1>1 DEF IInv, PluginOK, PhaseOK, Saving
<1>4. save[p].stage \in {"journaled", "yaml"}
  BY <1>1
<1>5. /\ Complete(p) /\ Failed(p)
      /\ UNCHANGED <<primary, backup, up, recovering, mirror, keyring, damage>>
  BY DEF CommitYamlFails
<1> QED
  BY <1>1, <1>2, <1>3, <1>4, <1>5, FailedStep

LEMMA VaultFailsStep ==
  ASSUME IInv, NEW p \in Plugins, VaultFails(p)
  PROVE  IInv'
<1>1. save[p] # NoSave /\ save[p].stage = "yaml" /\ ~Mirrored(p)
  BY DEF VaultFails, InVault, Mirrored
<1>2. save[p] \in Save
  BY <1>1, SaveRuns
<1>3. \E y \in [revision : Revisions, binding : Bindings] :
        yaml' = [yaml EXCEPT ![p] = y] /\ (damage = 0 => y.binding = save[p].before)
  <2> DEFINE y == [revision |-> save[p].previous, binding |-> save[p].before]
  <2>1. y \in [revision : Revisions, binding : Bindings] /\ y.binding = save[p].before
    BY <1>2 DEF Save
  <2>2. yaml' = [yaml EXCEPT ![p] = y]
    BY DEF VaultFails
  <2> HIDE DEF y
  <2> QED
    BY <2>1, <2>2
<1>4. save[p].stage \in {"journaled", "yaml"}
  BY <1>1
<1>5. /\ Complete(p) /\ Failed(p)
      /\ UNCHANGED <<primary, backup, up, recovering, mirror, keyring, damage>>
  BY DEF VaultFails
<1> QED
  BY <1>1, <1>3, <1>4, <1>5, FailedStep

LEMMA VaultAndRestoreFailStep ==
  ASSUME IInv, NEW p \in Plugins, VaultAndRestoreFail(p)
  PROVE  IInv'
<1>1. save[p] # NoSave /\ save[p].stage = "yaml" /\ ~Mirrored(p)
  BY DEF VaultAndRestoreFail, InVault, Mirrored
<1>2. /\ save' = [save EXCEPT ![p] = NoSave] /\ up /\ recovering = {} /\ PluginOK(p)
      /\ UNCHANGED <<yaml, primary, backup, journal, up, recovering, blocked, mirror, keyring,
                     damage, attempt>>
  BY <1>1, SaveRuns DEF VaultAndRestoreFail, IInv, disk
<1>3. TypeOK'
  BY <1>2 DEF IInv, TypeOK
<1>4. save'[p] = NoSave /\ \A q \in Plugins \ {p} : save'[q] = save[q]
  BY <1>2 DEF IInv, TypeOK
<1>5. BoundOK(p)' /\ WroteOK(p)'
  BY <1>2, <1>4 DEF PluginOK, BoundOK, WroteOK
<1>6. ASSUME damage = 0 PROVE PhaseOK(p)'
  <2>1. Saving(p) /\ Untouched(p) /\ yaml[p].binding = journal[p].after /\ attempt[p].told = "open"
    BY <1>1, <1>2, <1>6 DEF PluginOK, PhaseOK, Saving
  <2>2. Untouched(p)'
    BY <1>2, <2>1, UntouchedKept
  <2> QED
    BY <1>2, <1>4, <2>1, <2>2 DEF PhaseOK, Left, Saving
<1> QED
  BY <1>1, <1>2, <1>3, <1>4, <1>5, <1>6, LocalStep DEF IInv, StartInv

LEMMA SkipVaultStep ==
  ASSUME IInv, NEW p \in Plugins, SkipVault(p)
  PROVE  IInv'
<1> DEFINE v == [save[p] EXCEPT !.stage = "written"]
<1>1. /\ save[p] # NoSave /\ save[p].stage = "yaml" /\ NothingToSave(p)
      /\ mirror = NoMirror \/ save[p].after = save[p].before
      /\ save' = [save EXCEPT ![p] = v]
      /\ UNCHANGED <<yaml, primary, backup, journal, up, recovering, blocked, mirror, keyring,
                     damage, attempt>>
  BY DEF SkipVault, disk
<1>2. up /\ recovering = {} /\ save[p] \in Save /\ PluginOK(p) /\ TypeOK
  BY <1>1, SaveRuns DEF IInv
<1>3. Merged(p) = NoSecret => save[p].secret = NoSecret /\ Load(p, save[p].before) = NoSecret
  <2>1. save[p].force => save[p].secret # NoSecret
    BY <1>1, <1>2 DEF PluginOK, BoundOK
  <2> QED
    BY <2>1, VaultAssumption DEF Merged
<1>4. ~Mirrored(p)
  BY <1>1, <1>3 DEF NothingToSave, IInv, MirrorInv, MirrorOwner, Mirrored
<1>5. /\ v \in Save /\ v.stage = "written" /\ v.previous = save[p].previous
      /\ v.before = save[p].before /\ v.after = save[p].after /\ v.secret = save[p].secret
      /\ v.force = save[p].force
  BY <1>2 DEF Save
<1> HIDE DEF v
<1>6. TypeOK'
  BY <1>1, <1>2, <1>5 DEF TypeOK
<1>7. save'[p] = v /\ v # NoSave /\ \A q \in Plugins \ {p} : save'[q] = save[q]
  BY <1>1, <1>2, <1>5, NothingAssumption DEF TypeOK
<1>8. BoundOK(p)' /\ WroteOK(p)'
  BY <1>1, <1>2, <1>5, <1>7 DEF PluginOK, BoundOK, WroteOK
<1>9. ASSUME damage = 0 PROVE PhaseOK(p)'
  <2>1. Saving(p) /\ Untouched(p) /\ Intact
    BY <1>1, <1>2, <1>4, <1>9 DEF PluginOK, PhaseOK, Saving, IInv
  <2>2. Skipped(p)
    <3>1. CASE save[p].after = save[p].before /\ save[p].secret = NoSecret
      <4>1. attempt[p].new.secret = attempt[p].old.secret
        BY <2>1, <3>1 DEF Saving
      <4>2. attempt[p].new.binding = attempt[p].old.binding
        BY <2>1, <3>1 DEF Saving, Untouched, Pair
      <4>3. attempt[p].new = attempt[p].old
        <5>1. attempt[p].new \in Pairs /\ attempt[p].old \in Pairs
          BY <1>2 DEF TypeOK
        <5> QED
          BY <4>1, <4>2, <5>1 DEF Pairs
      <4> QED
        BY <2>1, <3>1, <4>3 DEF Skipped, Saving
    <3>2. CASE Merged(p) = NoSecret
      <4>1. save[p].secret = NoSecret /\ Load(p, save[p].before) = NoSecret
        BY <1>3, <3>2
      <4>2. Bare(p)
        BY <1>2, <2>1, <4>1, LoadIsReading, ReadingOf, VaultAssumption DEF TypeOK
      <4> QED
        BY <2>1, <4>1, <4>2 DEF Skipped, Saving, Untouched
    <3> QED
      BY <1>1, <3>1, <3>2 DEF NothingToSave
  <2>3. Skipped(p)'
    BY <1>1, <2>2, SkippedKept
  <2> QED
    BY <1>1, <1>5, <1>7, <2>1, <2>3 DEF PhaseOK, Saving
<1> QED
  BY <1>1, <1>2, <1>4, <1>6, <1>7, <1>8, <1>9, LocalStep

\* The files hold what the save promised.
LEMMA WrittenReads ==
  ASSUME TypeOK, NEW p \in Plugins, Written(p)
  PROVE  /\ Reading(p, journal[p].after) = attempt[p].new.secret
         /\ attempt[p].new.secret \in Secrets /\ ~Bare(p)
         /\ attempt[p].new = Pair(journal[p].after, attempt[p].new.secret)
<1>1. attempt[p].new \in Pairs
  BY DEF TypeOK
<1>2. attempt[p].new = Pair(journal[p].after, attempt[p].new.secret)
  BY <1>1 DEF Written, Pairs, Pair
<1>3. X(p) # NoEntry
  <2>1. PICK x : x = X(p)
    OBVIOUS
  <2>2. x.secret \in Secrets /\ x.clear = TRUE /\ x.binding = journal[p].after
    BY <2>1 DEF Written
  <2>3. x \in Entry \cup {NoEntry}
    BY <2>1, ReadingOf
  <2>4. journal[p].after \in Bindings
    BY <1>1 DEF Written, Pairs
  <2>5. x \in Entry
    BY <2>1, <2>4 DEF Written, Entry
  <2> QED
    BY <2>1, <2>5, EntryAssumption
<1> QED
  BY <1>2, <1>3, ReadingOf DEF Written, Bare

LEMMA SkippedReads ==
  ASSUME TypeOK, NEW p \in Plugins, Skipped(p)
  PROVE  /\ Reading(p, journal[p].after) # Unreadable
         /\ attempt[p].new = Pair(journal[p].after, Reading(p, journal[p].after))
<1>1. attempt[p].new \in Pairs
  BY DEF TypeOK
<1>2. attempt[p].new = Pair(journal[p].after, attempt[p].new.secret)
  BY <1>1 DEF Skipped, Untouched, Pairs, Pair
<1>3. CASE journal[p].after = journal[p].before /\ attempt[p].new = attempt[p].old
  BY <1>2, <1>3 DEF Skipped, Untouched, Pair
<1>4. CASE Bare(p) /\ ~journal[p].expects
  <2>1. Reading(p, journal[p].after) = NoSecret /\ Reading(p, journal[p].before) = NoSecret
    BY <1>4, ReadingOf
  <2> QED
    BY <1>2, <1>4, <2>1, VaultAssumption DEF Skipped, Untouched, Pair
<1> QED
  BY <1>3, <1>4 DEF Skipped

\* Nothing else of the attempt than what was told of it.
LEMMA Told ==
  ASSUME TypeOK, NEW p \in Plugins, NEW t \in {"open", "saved", "failed"},
         attempt' = [attempt EXCEPT ![p].told = t]
  PROVE  /\ attempt' \in [Plugins -> [old : Pairs, new : Pairs, stale : SUBSET Pairs,
                                      wrote : BOOLEAN, told : {"open", "saved", "failed"}]]
         /\ attempt'[p].told = t /\ attempt'[p].wrote = attempt[p].wrote
         /\ attempt'[p].old = attempt[p].old /\ attempt'[p].new = attempt[p].new
         /\ attempt'[p].stale = attempt[p].stale
         /\ \A q \in Plugins \ {p} : attempt'[q] = attempt[q]
<1> DEFINE a == [attempt[p] EXCEPT !.told = t]
<1>1. attempt[p] \in [old : Pairs, new : Pairs, stale : SUBSET Pairs, wrote : BOOLEAN,
                      told : {"open", "saved", "failed"}]
  BY DEF TypeOK
<1>2. /\ a \in [old : Pairs, new : Pairs, stale : SUBSET Pairs, wrote : BOOLEAN,
                told : {"open", "saved", "failed"}]
      /\ a.told = t /\ a.wrote = attempt[p].wrote /\ a.old = attempt[p].old
      /\ a.new = attempt[p].new /\ a.stale = attempt[p].stale
  BY <1>1
<1>3. attempt' = [attempt EXCEPT ![p] = a]
  OBVIOUS
<1> HIDE DEF a
<1> QED
  BY <1>2, <1>3, SMTT(20) DEF TypeOK

LEMMA FinishSaveStep ==
  ASSUME IInv, NEW p \in Plugins, FinishSave(p)
  PROVE  IInv'
<1>1. /\ save[p] # NoSave /\ save[p].stage = "written"
      /\ save' = [save EXCEPT ![p] = NoSave]
      /\ attempt' = [attempt EXCEPT ![p].told = "saved"]
      /\ journal' = journal \/ journal' = [journal EXCEPT ![p] = NoRecord]
      /\ blocked' \subseteq blocked \cup {p}
      /\ UNCHANGED <<yaml, primary, backup, up, recovering, mirror, keyring, damage>>
  BY DEF FinishSave, Complete
<1>2. TypeOK /\ PluginOK(p) /\ up /\ recovering = {} /\ ~Mirrored(p)
  BY <1>1, SaveRuns, NotMirrored DEF IInv
<1>3. PICK t \in {"open", "saved", "failed"} : t = "saved"
  OBVIOUS
<1>4. /\ attempt' \in [Plugins -> [old : Pairs, new : Pairs, stale : SUBSET Pairs,
                                   wrote : BOOLEAN, told : {"open", "saved", "failed"}]]
      /\ attempt'[p].told = "saved" /\ attempt'[p].wrote = attempt[p].wrote
      /\ attempt'[p].old = attempt[p].old /\ attempt'[p].new = attempt[p].new
      /\ attempt'[p].stale = attempt[p].stale
      /\ \A q \in Plugins \ {p} : attempt'[q] = attempt[q]
  BY <1>1, <1>2, <1>3, Told
<1>5. TypeOK'
  BY <1>1, <1>2, <1>4 DEF TypeOK
<1>6. /\ save'[p] = NoSave /\ journal'[p] \in {journal[p], NoRecord}
      /\ \A q \in Plugins \ {p} : save'[q] = save[q] /\ journal'[q] = journal[q]
  BY <1>1, <1>2 DEF TypeOK
<1>7. BoundOK(p)' /\ WroteOK(p)'
  BY <1>2, <1>6 DEF PluginOK, BoundOK, WroteOK
<1>8. ASSUME damage = 0 PROVE PhaseOK(p)'
  <2>1. yaml[p].binding = journal[p].after /\ (Written(p) \/ Skipped(p))
    BY <1>1, <1>2, <1>8 DEF PluginOK, PhaseOK, Saving
  <2>2. CASE journal'[p] = NoRecord
    <3>1. /\ Reading(p, yaml[p].binding) # Unreadable
          /\ attempt[p].new = Pair(yaml[p].binding, Reading(p, yaml[p].binding))
      BY <1>2, <2>1, WrittenReads, SkippedReads, VaultAssumption
    <3>2. Reading(p, yaml[p].binding)' = Reading(p, yaml[p].binding)
      BY <1>1 DEF Reading, X, Y
    <3>3. Idle(p)'
      BY <1>1, <1>4, <3>1, <3>2 DEF Idle, Outcomes
    <3> QED
      BY <1>6, <2>2, <3>3 DEF PhaseOK
  <2>3. CASE journal'[p] = journal[p] /\ journal'[p] # NoRecord
    <3>1. Written(p)' \/ Skipped(p)'
      BY <1>1, <1>4, <2>1, <2>3, WrittenKept, SkippedKept
    <3>2. Left(p)'
      BY <1>1, <1>4, <2>1, <2>3, <3>1 DEF Left
    <3> QED
      BY <1>6, <2>3, <3>2 DEF PhaseOK
  <2> QED
    BY <1>6, <2>2, <2>3
<1> QED
  BY <1>1, <1>2, <1>4, <1>5, <1>6, <1>7, <1>8, LocalStep

-----------------------------------------------------------------------------
(* Edits beside a save.                                                      *)

LEMMA RevisionStep ==
  ASSUME IInv, NEW p \in Plugins, Running, yaml[p].revision < MaxRevision,
         yaml' = [yaml EXCEPT ![p].revision = @ + 1],
         UNCHANGED <<primary, backup, journal, memory, keyring, damage, attempt>>
  PROVE  IInv'
<1>1. UNCHANGED <<primary, backup, journal, up, recovering, blocked, save, mirror, keyring,
                  damage, attempt>>
  BY DEF memory
<1>2. TypeOK /\ PluginOK(p) /\ up /\ recovering = {}
  BY DEF IInv, Running
<1>3. PICK y \in [revision : Revisions, binding : Bindings] :
        y.binding = yaml[p].binding /\ yaml' = [yaml EXCEPT ![p] = y]
  <2> DEFINE y == [yaml[p] EXCEPT !.revision = @ + 1]
  <2>1. yaml[p] \in [revision : Revisions, binding : Bindings]
    BY <1>2 DEF TypeOK
  <2>2. y \in [revision : Revisions, binding : Bindings] /\ y.binding = yaml[p].binding
    BY <2>1, ConfigAssumption DEF Revisions
  <2>3. yaml' = [yaml EXCEPT ![p] = y]
    OBVIOUS
  <2> HIDE DEF y
  <2> QED
    BY <2>2, <2>3
<1>4. TypeOK'
  BY <1>1, <1>2, <1>3 DEF TypeOK
<1>5. yaml'[p].binding = yaml[p].binding /\ \A q \in Plugins \ {p} : yaml'[q] = yaml[q]
  BY <1>2, <1>3 DEF TypeOK
<1>6. BoundOK(p)' /\ WroteOK(p)'
  BY <1>1, <1>2 DEF PluginOK, BoundOK, WroteOK, Mirrored
<1>7. damage = 0 => PhaseOK(p)'
  BY <1>1, <1>2, <1>5, PhaseKept DEF PluginOK, EntriesKept, X, Y, Mirrored
<1> QED
  BY <1>1, <1>2, <1>4, <1>5, <1>6, <1>7, LocalStep

-----------------------------------------------------------------------------
(* Recovery.                                                                 *)

\* What a decision says of the intact files.
Forward(p) ==
  /\ journal[p].after # journal[p].before /\ Usable(Reading(p, journal[p].after))
  /\ Recovered(p).binding = journal[p].after
Backward(p) ==
  /\ journal[p].after # journal[p].before /\ ~Usable(Reading(p, journal[p].after))
  /\ ~(Bare(p) /\ ~journal[p].had /\ ~journal[p].expects)
  /\ Recovered(p).binding = journal[p].before
Keeping(p) ==
  /\ journal[p].after = journal[p].before \/ (Bare(p) /\ ~journal[p].had /\ ~journal[p].expects)
  /\ Recovered(p) = yaml[p]

LEMMA DecisionOf ==
  ASSUME TypeOK, Intact, NEW p \in Plugins, Decision(p) # "block"
  PROVE  Recognised(p) /\ (Forward(p) \/ Backward(p) \/ Keeping(p))
<1> DEFINE la == Load(p, journal[p].after)
           lb == Load(p, journal[p].before)
           ra == Reading(p, journal[p].after)
           rb == Reading(p, journal[p].before)
<1>1. Recognised(p)
  BY DEF Decision, Outcome
<1>2. /\ keyring => la = ra /\ lb = rb
      /\ ~keyring => la = (IF Bare(p) THEN NoSecret ELSE Unreadable)
                     /\ lb = (IF Bare(p) THEN NoSecret ELSE Unreadable)
  BY LoadIsReading
<1>3. /\ Bare(p) => ra = NoSecret /\ rb = NoSecret
      /\ ~Bare(p) => ra # NoSecret /\ rb # NoSecret
  BY ReadingOf
<1>4. Decision(p) = Outcome(p, la, lb)
  BY DEF Decision
<1>5. keyring \in BOOLEAN
  BY DEF TypeOK
<1> HIDE DEF la, lb, ra, rb
<1>6. /\ la = NoSecret => Bare(p)
      /\ la \notin {NoSecret, Unreadable} => Usable(ra)
      /\ lb \notin {NoSecret, Unreadable} => keyring
      /\ keyring /\ la \in {NoSecret, Unreadable} => ~Usable(ra)
      /\ Bare(p) => la = NoSecret /\ ~Usable(ra)
  BY <1>2, <1>3, <1>5, VaultAssumption DEF Usable
<1>7. CASE journal[p].after = journal[p].before
  BY <1>1, <1>4, <1>7 DEF Outcome, Keeping, Recovered
<1>8. CASE journal[p].after # journal[p].before /\ la \notin {NoSecret, Unreadable}
  <2>1. Decision(p) = "forward"
    BY <1>1, <1>4, <1>8 DEF Outcome
  <2> QED
    BY <1>1, <1>6, <1>8, <2>1 DEF Forward, Recovered, ra
<1>9. CASE /\ journal[p].after # journal[p].before /\ la \in {NoSecret, Unreadable}
           /\ ~journal[p].had /\ la = NoSecret /\ ~journal[p].expects
  <2>1. Decision(p) = "keep"
    BY <1>1, <1>4, <1>9 DEF Outcome
  <2> QED
    BY <1>1, <1>6, <1>9, <2>1 DEF Keeping, Recovered
<1>10. CASE /\ journal[p].after # journal[p].before /\ la \in {NoSecret, Unreadable}
            /\ ~(~journal[p].had /\ la = NoSecret /\ ~journal[p].expects)
  <2>1. /\ Decision(p) = "back"
        /\ \/ ~journal[p].had /\ journal[p].expects /\ la = NoSecret /\ lb = NoSecret
           \/ lb \notin {NoSecret, Unreadable}
    BY <1>1, <1>4, <1>10 DEF Outcome
  <2> QED
    BY <1>1, <1>6, <1>10, <2>1 DEF Backward, Recovered, ra
<1> QED
  BY <1>7, <1>8, <1>9, <1>10

LEMMA RecoverStepOK ==
  ASSUME IInv, NEW p \in Plugins, Recover(p)
  PROVE  IInv'
<1>1. /\ p \in recovering /\ recovering' = recovering \ {p}
      /\ Decision(p) # "block" /\ yaml' = [yaml EXCEPT ![p] = Recovered(p)]
      /\ journal' = journal \/ journal' = [journal EXCEPT ![p] = NoRecord]
      /\ blocked' \subseteq blocked \cup {p}
      /\ UNCHANGED <<primary, backup, up, save, mirror, keyring, damage, attempt>>
  BY DEF Recover, RecoverStep, Complete
<1>2. /\ TypeOK /\ PluginOK(p) /\ save[p] = NoSave /\ mirror = NoMirror
      /\ journal[p] # NoRecord /\ journal[p] \in Record
  BY <1>1 DEF IInv, StartInv, TypeOK
<1>3. PICK y \in [revision : Revisions, binding : Bindings] : y = Recovered(p)
  <2>1. yaml[p] \in [revision : Revisions, binding : Bindings]
    BY <1>2 DEF TypeOK
  <2>2. /\ journal[p].previous \in Revisions /\ journal[p].previous + 1 \in Revisions
        /\ journal[p].before \in Bindings /\ journal[p].after \in Bindings
    BY <1>2, ConfigAssumption DEF PluginOK, BoundOK, Record, Revisions
  <2> QED
    BY <2>1, <2>2 DEF Recovered
<1>4. TypeOK'
  BY <1>1, <1>2, <1>3 DEF TypeOK
<1>5. /\ yaml'[p] = y /\ journal'[p] \in {journal[p], NoRecord}
      /\ \A q \in Plugins \ {p} : yaml'[q] = yaml[q] /\ journal'[q] = journal[q]
  BY <1>1, <1>2, <1>3 DEF TypeOK
<1>6. BoundOK(p)' /\ WroteOK(p)'
  BY <1>1, <1>2, <1>5 DEF PluginOK, BoundOK, WroteOK
<1>7. ASSUME damage = 0 PROVE PhaseOK(p)'
  <2>1. Left(p) /\ Intact
    BY <1>2, <1>7 DEF IInv, PluginOK, PhaseOK
  <2>2. Forward(p) \/ Backward(p) \/ Keeping(p)
    BY <1>1, <1>2, <2>1, DecisionOf
  <2>3. attempt[p].told \in {"open", "saved", "failed"}
    BY <1>2 DEF TypeOK
  <2>4. CASE Written(p) /\ yaml[p].binding = journal[p].after /\ attempt[p].told \in {"open", "saved"}
    <3>1. /\ Usable(Reading(p, journal[p].after)) /\ Reading(p, journal[p].after) # Unreadable
          /\ attempt[p].new = Pair(journal[p].after, Reading(p, journal[p].after))
      BY <1>2, <2>4, WrittenReads, VaultAssumption DEF Usable
    <3>2. y.binding = journal[p].after
      BY <1>3, <2>2, <2>4, <3>1 DEF Forward, Backward, Keeping
    <3>3. CASE journal'[p] = NoRecord
      <4>1. Reading(p, yaml[p].binding)' = Reading(p, journal[p].after)
        BY <1>1, <1>5, <3>2 DEF Reading, X, Y
      <4>2. Idle(p)'
        BY <1>1, <1>5, <2>4, <3>1, <3>2, <4>1 DEF Idle, Outcomes, Written
      <4> QED
        BY <1>1, <1>2, <3>3, <4>2 DEF PhaseOK
    <3>4. CASE journal'[p] = journal[p]
      <4>1. Written(p)'
        BY <1>1, <2>4, <3>4, WrittenKept
      <4>2. Left(p)'
        BY <1>1, <1>5, <2>4, <3>2, <3>4, <4>1 DEF Left
      <4> QED
        BY <1>1, <1>2, <3>4, <4>2 DEF PhaseOK
    <3> QED
      BY <1>5, <3>3, <3>4
  <2>5. CASE /\ attempt[p].told = "saved" /\ Skipped(p)
             /\ yaml[p].binding = journal[p].after
    <3>1. /\ Reading(p, journal[p].after) # Unreadable
          /\ attempt[p].new = Pair(journal[p].after, Reading(p, journal[p].after))
      BY <1>2, <2>5, SkippedReads
    <3>2. y.binding = journal[p].after
      <4>1. journal[p].after # journal[p].before => Bare(p) /\ ~journal[p].expects /\ ~journal[p].had
        BY <2>5 DEF Skipped, Untouched
      <4>2. ~Backward(p)
        BY <4>1 DEF Backward
      <4> QED
        BY <1>3, <2>2, <2>5, <4>2 DEF Forward, Keeping
    <3>3. CASE journal'[p] = NoRecord
      <4>1. Reading(p, yaml[p].binding)' = Reading(p, journal[p].after)
        BY <1>1, <1>5, <3>2 DEF Reading, X, Y
      <4>2. Idle(p)'
        BY <1>1, <1>5, <2>5, <3>1, <3>2, <4>1 DEF Idle, Outcomes
      <4> QED
        BY <1>1, <1>2, <3>3, <4>2 DEF PhaseOK
    <3>4. CASE journal'[p] = journal[p]
      <4>1. Skipped(p)'
        BY <1>1, <2>5, <3>4, SkippedKept
      <4>2. Left(p)'
        BY <1>1, <1>5, <2>5, <3>2, <3>4, <4>1 DEF Left
      <4> QED
        BY <1>1, <1>2, <3>4, <4>2 DEF PhaseOK
    <3> QED
      BY <1>5, <3>3, <3>4
  <2>6. CASE /\ Untouched(p) /\ attempt[p].told \in {"open", "failed"}
             /\ \/ yaml[p].binding = journal[p].before
                \/ yaml[p].binding = journal[p].after
                   /\ (attempt[p].told = "open" \/ Usable(Reading(p, journal[p].after)))
    <3> DEFINE r == Reading(p, y.binding)
    <3>1. \/ y.binding = journal[p].before
          \/ y.binding = journal[p].after /\ journal[p].after # journal[p].before
             /\ Usable(Reading(p, journal[p].after))
          \/ y.binding = journal[p].after /\ attempt[p].told = "open"
             /\ Bare(p) /\ ~journal[p].expects
      <4>1. CASE Forward(p)
        BY <1>3, <4>1 DEF Forward
      <4>2. CASE Backward(p)
        BY <1>3, <4>2 DEF Backward
      <4>3. CASE Keeping(p)
        BY <1>2, <1>3, <2>6, <4>3, ReadingOf DEF Keeping, Usable
      <4> QED
        BY <2>2, <4>1, <4>2, <4>3
    <3>2. r # Unreadable /\ Pair(y.binding, r) \in Outcomes(p)
      <4>1. CASE y.binding = journal[p].before
        BY <2>6, <4>1 DEF Untouched, Outcomes, Pair
      <4>2. CASE /\ y.binding = journal[p].after /\ journal[p].after # journal[p].before
                 /\ Usable(Reading(p, journal[p].after))
        BY <2>6, <4>2 DEF Untouched, Outcomes, Usable
      <4>3. CASE y.binding = journal[p].after /\ attempt[p].told = "open"
                 /\ Bare(p) /\ ~journal[p].expects
        <5>1. r = NoSecret /\ Reading(p, journal[p].before) = NoSecret
          BY <1>2, <4>3, ReadingOf
        <5>2. attempt[p].new.binding = y.binding /\ attempt[p].new.secret = NoSecret
          BY <2>6, <4>3, <5>1 DEF Untouched, Pair
        <5>3. attempt[p].new \in Pairs
          BY <1>2 DEF TypeOK
        <5>4. attempt[p].new = Pair(y.binding, r)
          BY <5>1, <5>2, <5>3 DEF Pairs, Pair
        <5> QED
          BY <2>6, <4>3, <5>1, <5>2, <5>4, VaultAssumption DEF Outcomes, Untouched
      <4> QED
        BY <3>1, <4>1, <4>2, <4>3
    <3>3. CASE journal'[p] = NoRecord
      <4>1. Reading(p, yaml[p].binding)' = r
        BY <1>1, <1>5 DEF Reading, X, Y
      <4>2. Outcomes(p)' = Outcomes(p)
        BY <1>1 DEF Outcomes
      <4>3. Idle(p)'
        BY <1>5, <3>2, <4>1, <4>2 DEF Idle
      <4> QED
        BY <1>1, <1>2, <3>3, <4>3 DEF PhaseOK
    <3>4. CASE journal'[p] = journal[p]
      <4>1. Untouched(p)'
        BY <1>1, <2>6, <3>4, UntouchedKept
      <4>2. Reading(p, journal[p].after)' = Reading(p, journal[p].after)
        BY <1>1, <3>4 DEF Reading, X, Y
      <4>3. Left(p)'
        BY <1>1, <1>5, <2>6, <3>1, <3>4, <4>1, <4>2 DEF Left
      <4> QED
        BY <1>1, <1>2, <3>4, <4>3 DEF PhaseOK
    <3> QED
      BY <1>5, <3>3, <3>4
  <2> QED
    BY <2>1, <2>3, <2>4, <2>5, <2>6 DEF Left
<1> QED
  BY <1>1, <1>2, <1>4, <1>5, <1>6, <1>7, LocalStep DEF Mirrored

LEMMA QuarantineStep ==
  ASSUME IInv, NEW p \in Plugins, Quarantine(p)
  PROVE  IInv'
<1>1. /\ recovering' = recovering \ {p}
      /\ UNCHANGED <<yaml, journal, primary, backup, up, save, mirror, keyring, damage, attempt>>
      /\ blocked' = blocked \cup {p} /\ p \in recovering
  BY DEF Quarantine, RecoverStep
<1>2. TypeOK /\ PluginOK(p) /\ save[p] = NoSave
  BY <1>1 DEF IInv, StartInv
<1>3. TypeOK'
  BY <1>1, <1>2 DEF TypeOK
<1>4. BoundOK(p)' /\ WroteOK(p)'
  BY <1>1, <1>2 DEF PluginOK, BoundOK, WroteOK, Mirrored
<1>5. damage = 0 => PhaseOK(p)'
  BY <1>1, <1>2, PhaseKept DEF PluginOK, EntriesKept, X, Y, Mirrored
<1> QED
  BY <1>1, <1>2, <1>3, <1>4, <1>5, LocalStep

-----------------------------------------------------------------------------
(* The credential files are written.                                         *)

\* In intact files the backup to be written is what it was taken from.
LEMMA MirrorIntact ==
  ASSUME TypeOK, MirrorInv, Intact, mirror # NoMirror, NEW p \in Plugins
  PROVE  /\ Valid(primary)
         /\ p = mirror.plugin => mirror.slot.entries[p] = X(p)
         /\ p # mirror.plugin /\ Valid(backup) => mirror.slot.entries[p] = Y(p)
         /\ p # mirror.plugin /\ backup.kind = "missing" => mirror.slot.entries[p] = X(p)
         /\ Valid(backup) \/ backup.kind = "missing"
<1>1. mirror.slot \in Slot /\ primary \in Slot /\ backup \in Slot
  BY DEF TypeOK
<1>2. /\ primary.kind \in {"missing", "damaged", "valid"}
      /\ backup.kind \in {"missing", "damaged", "valid"}
      /\ mirror.slot.entries[p] \in Entry \cup {NoEntry}
  BY <1>1 DEF Slot
<1>3. Valid(primary) /\ (Valid(backup) \/ backup.kind = "missing")
  BY <1>2 DEF Intact, MirrorInv, Valid
<1>4. ASSUME NEW e \in Entry \cup {NoEntry}, NEW f, Fades(e, f), f # NoEntry => f.clear
      PROVE  f = e
  <2> SUFFICES ASSUME e \in Entry, f = [e EXCEPT !.clear = FALSE] PROVE FALSE
    BY <1>4 DEF Fades
  <2>1. f \in Entry /\ f.clear = FALSE
    BY DEF Entry
  <2> QED
    BY <1>4, <2>1, EntryAssumption
<1>5. (X(p) # NoEntry => X(p).clear) /\ (Y(p) # NoEntry => Y(p).clear)
  BY DEF Intact, X, Y
<1>6. MirrorEntry(p)
  BY DEF MirrorInv
<1> QED
  BY <1>2, <1>3, <1>4, <1>5, <1>6 DEF MirrorEntry

LEMMA WritePrimaryStep ==
  ASSUME IInv, NEW p \in Plugins, WritePrimary(p)
  PROVE  IInv'
<1> DEFINE entry == [binding |-> save[p].after, secret |-> Merged(p), clear |-> TRUE]
           a == [attempt[p] EXCEPT !.wrote = TRUE]
<1>1. /\ up /\ save[p] # NoSave /\ save[p].stage = "yaml" /\ mirror = NoMirror
      /\ ~NothingToSave(p) /\ Merged(p) # Unreadable /\ keyring
      /\ primary' = Saved(primary, backup, p, entry)
      /\ mirror' = [plugin |-> p, slot |-> Saved(backup, primary, p, entry)]
      /\ attempt' = [attempt EXCEPT ![p] = a]
      /\ UNCHANGED <<yaml, backup, journal, up, recovering, blocked, save, keyring, damage>>
  BY DEF WritePrimary
<1>2. TypeOK /\ PluginOK(p) /\ recovering = {} /\ save[p] \in Save
  BY <1>1, SaveRuns DEF IInv
<1>3. Merged(p) \in Secrets
  <2>1. Load(p, save[p].before) \in Secrets \cup {NoSecret, Unreadable}
    BY <1>2, LoadType DEF Load
  <2>2. save[p].secret \in Secrets \cup {NoSecret}
    BY <1>2 DEF Save
  <2>3. Merged(p) # NoSecret
    BY <1>1 DEF NothingToSave
  <2> QED
    BY <1>1, <2>1, <2>2, <2>3 DEF Merged
<1>4. entry \in Entry
  BY <1>2, <1>3 DEF Entry, Save
<1>5. /\ a \in [old : Pairs, new : Pairs, stale : SUBSET Pairs, wrote : BOOLEAN,
                told : {"open", "saved", "failed"}]
      /\ a.wrote = TRUE /\ a.told = attempt[p].told /\ a.old = attempt[p].old
      /\ a.new = attempt[p].new /\ a.stale = attempt[p].stale
  <2>1. attempt[p] \in [old : Pairs, new : Pairs, stale : SUBSET Pairs, wrote : BOOLEAN,
                        told : {"open", "saved", "failed"}]
    BY <1>2 DEF TypeOK
  <2> QED
    BY <2>1
<1>6. entry.clear = TRUE /\ entry.binding = save[p].after /\ entry.secret = Merged(p)
  OBVIOUS
<1> HIDE DEF entry, a
<1>7. /\ primary \in Slot /\ backup \in Slot
      /\ primary.entries \in [Plugins -> Entry \cup {NoEntry}]
      /\ backup.entries \in [Plugins -> Entry \cup {NoEntry}]
  BY <1>2 DEF TypeOK, Slot
<1>8. ASSUME NEW slot \in {primary, backup}, NEW other \in {primary, backup}
      PROVE  /\ Saved(slot, other, p, entry) \in Slot
             /\ Saved(slot, other, p, entry).kind = "valid"
             /\ Saved(slot, other, p, entry).entries[p] = entry
             /\ \A q \in Plugins \ {p} :
                  Saved(slot, other, p, entry).entries[q] = Base(slot, other)[q]
  <2>1. Base(slot, other) \in [Plugins -> Entry \cup {NoEntry}]
    BY <1>7 DEF Base
  <2> QED
    BY <1>4, <2>1 DEF Saved, Slot
<1>9. TypeOK'
  <2>1. primary' \in Slot /\ mirror' \in [plugin : Plugins, slot : Slot]
    BY <1>1, <1>8
  <2>2. attempt' \in [Plugins -> [old : Pairs, new : Pairs, stale : SUBSET Pairs,
                                  wrote : BOOLEAN, told : {"open", "saved", "failed"}]]
    BY <1>1, <1>2, <1>5 DEF TypeOK
  <2> QED
    BY <1>1, <1>2, <2>1, <2>2 DEF TypeOK
<1>10. mirror' # NoMirror /\ mirror'.plugin = p /\ mirror'.slot = Saved(backup, primary, p, entry)
  <2>1. mirror' \in [plugin : Plugins, slot : Slot]
    BY <1>1, <1>8
  <2> QED
    BY <1>1, <2>1, NothingAssumption
<1>11. /\ Valid(primary)' /\ X(p)' = entry /\ mirror'.slot.kind = "valid"
       /\ mirror'.slot.entries[p] = entry
       /\ \A q \in Plugins \ {p} : /\ X(q)' = Base(primary, backup)[q] /\ Y(q)' = Y(q)
                                   /\ mirror'.slot.entries[q] = Base(backup, primary)[q]
  BY <1>1, <1>8, <1>10 DEF X, Y, Valid
<1>12. StartInv'
  BY <1>1, <1>2 DEF IInv, StartInv
<1>13. SlotInv'
  BY <1>1, <1>11 DEF IInv, SlotInv, Valid
<1>14. MirrorInv'
  <2>1. MirrorOwner(p)'
    BY <1>1 DEF MirrorOwner, NothingToSave
  <2>2. ASSUME NEW q \in Plugins PROVE MirrorEntry(q)'
    <3>1. CASE q = p
      BY <1>10, <1>11, <3>1 DEF MirrorEntry, Fades
    <3>2. CASE q # p /\ Valid(backup)
      BY <1>1, <1>10, <1>11, <3>2 DEF MirrorEntry, Fades, Base, Y, Valid
    <3>3. CASE q # p /\ ~Valid(backup)
      <4>1. Valid(primary) => mirror'.slot.entries[q] = primary.entries[q] /\ X(q)' = primary.entries[q]
        BY <1>11, <3>3 DEF Base
      <4>2. ~Valid(primary) => mirror'.slot.entries[q] = NoEntry /\ X(q)' = NoEntry
        BY <1>11, <3>3 DEF Base, IInv, SlotInv, NoEntries
      <4> QED
        BY <1>1, <1>10, <3>3, <4>1, <4>2 DEF MirrorEntry, Fades, Valid
    <3> QED
      BY <3>1, <3>2, <3>3
  <2> QED
    BY <1>10, <1>11, <2>1, <2>2 DEF MirrorInv, Valid
<1>15. ASSUME damage = 0 PROVE Intact'
  <2>1. Intact
    BY <1>15 DEF IInv
  <2>2. ASSUME NEW q \in Plugins, X(q)' # NoEntry PROVE X(q)'.clear
    BY <1>6, <1>11, <2>1, <2>2 DEF Intact, Base
  <2> QED
    BY <1>1, <1>11, <2>1, <2>2 DEF Intact, X, Valid
<1>16. PluginOK(p)'
  <2>1. attempt'[p] = a
    BY <1>1, <1>2 DEF TypeOK
  <2>2. BoundOK(p)' /\ WroteOK(p)'
    BY <1>1, <1>2, <1>10 DEF PluginOK, BoundOK, WroteOK, Mirrored
  <2>3. ASSUME damage = 0 PROVE PhaseOK(p)'
    <3>1. Saving(p) /\ Untouched(p) /\ Intact /\ ~Mirrored(p)
      BY <1>1, <1>2, <2>3 DEF PluginOK, PhaseOK, Saving, Mirrored, IInv
    <3>2. Load(p, save[p].before) = attempt[p].old.secret
      BY <1>1, <1>2, <3>1, LoadIsReading DEF Untouched, Saving, Pair
    <3>3. Merged(p) = attempt[p].new.secret
      BY <3>1, <3>2 DEF Merged, Saving, Untouched
    <3>4. Written(p)'
      <4>1. entry = [binding |-> journal[p].after, secret |-> attempt[p].new.secret, clear |-> TRUE]
        BY <3>1, <3>3 DEF entry, Saving
      <4> QED
        <5>1. journal' = journal /\ attempt'[p].wrote = TRUE /\ attempt'[p].new = attempt[p].new
          BY <1>1, <1>5, <2>1
        <5>2. attempt[p].new.binding = journal[p].after /\ attempt[p].new.secret \in Secrets
          BY <1>3, <3>1, <3>3 DEF Untouched
        <5>3. X(p)' = [binding |-> journal[p].after, secret |-> attempt[p].new.secret, clear |-> TRUE]
          BY <1>11, <4>1
        <5> QED
          BY <5>1, <5>2, <5>3 DEF Written
    <3>5. Mirrored(p)'
      BY <1>10 DEF Mirrored
    <3> QED
      BY <1>1, <1>5, <2>1, <3>1, <3>4, <3>5 DEF PhaseOK, Saving
  <2> QED
    BY <1>1, <2>2, <2>3 DEF PluginOK
<1>17. ASSUME NEW q \in Plugins, q # p PROVE PluginOK(q)'
  <2>1. PluginOK(q) /\ attempt'[q] = attempt[q] /\ ~Mirrored(q) /\ ~Mirrored(q)'
    BY <1>1, <1>2, <1>10, <1>17 DEF IInv, TypeOK, Mirrored
  <2>2. BoundOK(q)' /\ WroteOK(q)'
    BY <1>1, <2>1 DEF PluginOK, BoundOK, WroteOK
  <2>3. ASSUME damage = 0 PROVE PhaseOK(q)'
    <3>3. EntriesKept(q)
      <4>1. X(q)' = X(q)
        <5>1. CASE Valid(primary)
          BY <1>11, <1>17, <5>1 DEF Base, X
        <5>2. CASE ~Valid(primary)
          BY <1>11, <1>17, <2>3, <5>2 DEF Base, X, IInv, Intact, SlotInv
        <5> QED
          BY <5>1, <5>2
      <4> QED
        BY <1>11, <1>17, <4>1 DEF EntriesKept
    <3> QED
      BY <1>1, <2>1, <2>3, <3>3, PhaseKept DEF PluginOK
  <2> QED
    BY <1>1, <2>2, <2>3 DEF PluginOK
<1> QED
  BY <1>1, <1>9, <1>12, <1>13, <1>14, <1>15, <1>16, <1>17 DEF IInv

LEMMA WriteBackupStep ==
  ASSUME IInv, WriteBackup
  PROVE  IInv'
<1>1. PICK q \in Plugins : q = mirror.plugin
  BY DEF WriteBackup, IInv, TypeOK
<1> DEFINE v == [save[q] EXCEPT !.stage = "written"]
<1>2. /\ up /\ mirror # NoMirror /\ backup' \in {backup, mirror.slot}
      /\ save' = [save EXCEPT ![q] = v] /\ mirror' = NoMirror
      /\ UNCHANGED <<yaml, primary, journal, up, recovering, blocked, keyring, damage, attempt>>
  BY <1>1 DEF WriteBackup
<1>3. TypeOK /\ MirrorOwner(q) /\ Mirrored(q) /\ Valid(mirror.slot) /\ mirror.slot \in Slot
  BY <1>1, <1>2 DEF IInv, MirrorInv, TypeOK, Mirrored
<1>4. save[q] # NoSave /\ save[q] \in Save /\ save[q].stage = "yaml" /\ recovering = {}
  BY <1>3, SaveRuns DEF MirrorOwner
<1>5. /\ v \in Save /\ v.stage = "written" /\ v.previous = save[q].previous
      /\ v.before = save[q].before /\ v.after = save[q].after /\ v.secret = save[q].secret
      /\ v.force = save[q].force
  BY <1>4 DEF Save
<1> HIDE DEF v
<1>6. TypeOK'
  BY <1>2, <1>3, <1>5 DEF TypeOK
<1>7. save'[q] = v /\ v # NoSave /\ \A p \in Plugins \ {q} : save'[p] = save[p]
  BY <1>2, <1>3, <1>5, NothingAssumption DEF TypeOK
<1>8. StartInv' /\ SlotInv' /\ MirrorInv'
  <2>1. StartInv'
    BY <1>2, <1>4 DEF IInv, StartInv
  <2>2. SlotInv'
    BY <1>2, <1>3 DEF IInv, SlotInv
  <2> QED
    BY <1>2, <2>1, <2>2 DEF MirrorInv
<1>9. ASSUME damage = 0, NEW p \in Plugins
      PROVE  /\ Valid(primary)
             /\ p = q => mirror.slot.entries[p] = X(p)
             /\ p # q /\ Valid(backup) => mirror.slot.entries[p] = Y(p)
             /\ p # q /\ backup.kind = "missing" => mirror.slot.entries[p] = X(p)
             /\ Valid(backup) \/ backup.kind = "missing"
  BY <1>1, <1>2, <1>3, <1>9, MirrorIntact DEF IInv
<1>10. ASSUME damage = 0 PROVE Intact'
  <2>1. Intact
    BY <1>10 DEF IInv
  <2>2. ASSUME NEW p \in Plugins, mirror.slot.entries[p] # NoEntry
        PROVE  mirror.slot.entries[p].clear
    <3>1. (X(p) # NoEntry => X(p).clear) /\ (Y(p) # NoEntry => Y(p).clear)
      BY <2>1 DEF Intact, X, Y
    <3> QED
      BY <1>9, <1>10, <2>2, <3>1
  <2> QED
    BY <1>1, <1>2, <1>3, <1>9, <1>10, <2>1, <2>2 DEF Intact, Valid
<1>11. PluginOK(q)'
  <2>1. PluginOK(q)
    BY DEF IInv
  <2>2. BoundOK(q)' /\ WroteOK(q)'
    BY <1>2, <1>4, <1>5, <1>7, <2>1 DEF PluginOK, BoundOK, WroteOK
  <2>3. ASSUME damage = 0 PROVE PhaseOK(q)'
    <3>1. Saving(q) /\ Written(q)
      BY <1>3, <1>4, <2>1, <2>3 DEF PluginOK, PhaseOK, Saving
    <3>2. Written(q)'
      BY <1>2, <3>1, WrittenKept
    <3> QED
      BY <1>2, <1>4, <1>5, <1>7, <3>1, <3>2 DEF PhaseOK, Saving
  <2> QED
    BY <1>2, <2>2, <2>3 DEF PluginOK
<1>12. ASSUME NEW p \in Plugins, p # q PROVE PluginOK(p)'
  <2>1. PluginOK(p) /\ save'[p] = save[p] /\ ~Mirrored(p) /\ ~Mirrored(p)'
    BY <1>1, <1>2, <1>7, <1>12 DEF IInv, Mirrored
  <2>2. BoundOK(p)' /\ WroteOK(p)'
    BY <1>2, <2>1 DEF PluginOK, BoundOK, WroteOK
  <2>3. ASSUME damage = 0 PROVE PhaseOK(p)'
    <3>1. EntriesKept(p)
      <4>1. CASE Valid(backup)
        BY <1>2, <1>9, <1>12, <2>3, <4>1 DEF EntriesKept, X, Y
      <4>2. CASE ~Valid(backup)
        <5>1. Y(p) = NoEntry /\ backup.kind = "missing"
          BY <1>9, <2>3, <4>2 DEF IInv, SlotInv, Y, NoEntries
        <5> QED
          BY <1>2, <1>9, <1>12, <2>3, <5>1 DEF EntriesKept, X, Y
      <4> QED
        BY <4>1, <4>2
    <3> QED
      BY <1>2, <2>1, <2>3, <3>1, PhaseKept DEF PluginOK
  <2> QED
    BY <1>2, <2>2, <2>3 DEF PluginOK
<1> QED
  BY <1>2, <1>6, <1>8, <1>10, <1>11, <1>12 DEF IInv

-----------------------------------------------------------------------------
(* The program stops and starts; the keyring and the files of the outside.   *)

LEMMA CrashStep ==
  ASSUME IInv, Crash
  PROVE  IInv'
<1>1. /\ up' = FALSE /\ recovering' = {} /\ blocked' = {}
      /\ save' = [p \in Plugins |-> NoSave] /\ mirror' = NoMirror
      /\ UNCHANGED <<yaml, primary, backup, journal, keyring, damage, attempt>>
  BY DEF Crash, disk
<1>2. TypeOK'
  BY <1>1 DEF IInv, TypeOK
<1>3. StartInv' /\ SlotInv' /\ MirrorInv' /\ (damage' = 0 => Intact')
  BY <1>1 DEF IInv, StartInv, SlotInv, MirrorInv, Intact
<1>4. ASSUME NEW p \in Plugins PROVE PluginOK(p)'
  <2>1. PluginOK(p) /\ save'[p] = NoSave /\ ~Mirrored(p)'
    BY <1>1 DEF IInv, Mirrored
  <2>2. BoundOK(p)' /\ WroteOK(p)'
    BY <1>1, <2>1 DEF PluginOK, BoundOK, WroteOK
  <2>3. ASSUME damage = 0 PROVE PhaseOK(p)'
    <3>1. CASE save[p] = NoSave
      <4>1. CASE journal[p] = NoRecord
        BY <1>1, <2>1, <2>3, <3>1, <4>1 DEF PluginOK, PhaseOK, Idle, Outcomes, Reading, X, Y
      <4>2. CASE journal[p] # NoRecord
        <5>1. Left(p)
          BY <2>1, <2>3, <3>1, <4>2 DEF PluginOK, PhaseOK
        <5>2. /\ Untouched(p) => Untouched(p)'
              /\ Written(p) => Written(p)'
              /\ Skipped(p) => Skipped(p)'
          BY <1>1, UntouchedKept, WrittenKept, SkippedKept
        <5>3. Reading(p, journal[p].after)' = Reading(p, journal[p].after)
          BY <1>1 DEF Reading, X, Y
        <5>4. Left(p)'
          BY <1>1, <5>1, <5>2, <5>3 DEF Left
        <5> QED
          BY <1>1, <2>1, <4>2, <5>4 DEF PhaseOK
      <4> QED
        BY <4>1, <4>2
    <3>2. CASE save[p] # NoSave
      <4>1. Saving(p) /\ save[p].stage \in {"journaled", "yaml", "written"}
        BY <2>1, <2>3, <3>2 DEF PluginOK, PhaseOK, IInv, TypeOK, Save
      <4>2. Untouched(p) \/ (Written(p) /\ yaml[p].binding = journal[p].after)
        BY <4>1 DEF Saving, Skipped
      <4>3. Untouched(p)' \/ (Written(p)' /\ yaml[p].binding = journal[p].after)
        BY <1>1, <4>2, UntouchedKept, WrittenKept
      <4>4. yaml[p].binding \in {journal[p].before, journal[p].after} /\ attempt[p].told = "open"
        BY <4>1 DEF Saving
      <4>5. Left(p)'
        BY <1>1, <4>3, <4>4 DEF Left
      <4> QED
        BY <1>1, <2>1, <4>1, <4>5 DEF PhaseOK, Saving
    <3> QED
      BY <3>1, <3>2
  <2> QED
    BY <1>1, <2>2, <2>3 DEF PluginOK
<1> QED
  BY <1>2, <1>3, <1>4 DEF IInv

LEMMA StartStep ==
  ASSUME IInv, Start
  PROVE  IInv'
<1>1. /\ ~up /\ up' = TRUE /\ recovering' = {p \in Plugins : journal[p] # NoRecord}
      /\ backup' = backup \/ (Valid(primary) /\ ~Valid(backup) /\ backup' = primary)
      /\ UNCHANGED <<yaml, primary, journal, blocked, save, mirror, keyring, damage, attempt>>
  BY DEF Start
<1>2. TypeOK /\ mirror = NoMirror /\ \A p \in Plugins : save[p] = NoSave
  BY <1>1 DEF IInv, StartInv
<1>3. TypeOK'
  BY <1>1, <1>2 DEF TypeOK
<1>4. StartInv' /\ SlotInv' /\ MirrorInv'
  BY <1>1, <1>2 DEF IInv, StartInv, SlotInv, MirrorInv
<1>5. damage' = 0 => Intact'
  BY <1>1 DEF IInv, Intact
<1>6. ASSUME NEW p \in Plugins PROVE PluginOK(p)'
  <2>1. PluginOK(p) /\ save'[p] = save[p] /\ ~Mirrored(p) /\ ~Mirrored(p)'
    BY <1>1, <1>2 DEF IInv, Mirrored
  <2>2. BoundOK(p)' /\ WroteOK(p)'
    BY <1>1, <2>1 DEF PluginOK, BoundOK, WroteOK
  <2>3. EntriesKept(p)
    BY <1>1 DEF EntriesKept, X, Y, IInv, SlotInv, NoEntries
  <2> QED
    BY <1>1, <2>1, <2>2, <2>3, PhaseKept DEF PluginOK
<1> QED
  BY <1>3, <1>4, <1>5, <1>6 DEF IInv

LEMMA KeyringStep ==
  ASSUME IInv, KeyringFlips
  PROVE  IInv'
<1>1. /\ UNCHANGED <<yaml, primary, backup, journal, up, recovering, blocked, save, mirror,
                     damage, attempt>>
      /\ keyring' \in BOOLEAN
  BY DEF KeyringFlips, disk, memory
<1>2. TypeOK' /\ StartInv' /\ SlotInv' /\ MirrorInv' /\ (damage' = 0 => Intact')
  <2>1. TypeOK'
    BY <1>1 DEF IInv, TypeOK
  <2>2. StartInv' /\ SlotInv' /\ (damage' = 0 => Intact')
    BY <1>1 DEF IInv, StartInv, SlotInv, Intact
  <2>3. MirrorInv'
    BY <1>1 DEF IInv, MirrorInv, MirrorEntry, MirrorOwner, X, Y
  <2> QED
    BY <2>1, <2>2, <2>3
<1>3. ASSUME NEW p \in Plugins PROVE PluginOK(p)'
  <2>1. PluginOK(p)
    BY DEF IInv
  <2>2. BoundOK(p)' /\ WroteOK(p)'
    BY <1>1, <2>1 DEF PluginOK, BoundOK, WroteOK, Mirrored
  <2>3. damage = 0 => PhaseOK(p)'
    BY <1>1, <2>1, PhaseKept DEF PluginOK, EntriesKept, X, Y, Mirrored
  <2> QED
    BY <1>1, <2>2, <2>3 DEF PluginOK
<1> QED
  BY <1>2, <1>3 DEF IInv

\* A file that rots holds no more than before, and is not missing.
LEMMA RotsType ==
  ASSUME NEW slot \in Slot, Valid(slot), ~Valid(slot) => slot.entries = NoEntries,
         NEW rotten \in Rots(slot)
  PROVE  /\ rotten \in Slot /\ rotten.kind # "missing"
         /\ ~Valid(rotten) => rotten.entries = NoEntries
         /\ Valid(rotten) =>
              \A p \in Plugins : Fades(slot.entries[p], rotten.entries[p])
<1>1. CASE rotten = DamagedSlot
  BY <1>1 DEF DamagedSlot, NoEntries, Slot, Valid
<1>2. CASE \E p \in Plugins : Has(slot, p) /\ rotten = [slot EXCEPT !.entries[p].clear = FALSE]
  <2>1. PICK p \in Plugins : Has(slot, p) /\ rotten = [slot EXCEPT !.entries[p].clear = FALSE]
    BY <1>2
  <2> DEFINE e == slot.entries[p]
             f == [e EXCEPT !.clear = FALSE]
             all == [slot.entries EXCEPT ![p] = f]
  <2>2. e \in Entry /\ slot.entries \in [Plugins -> Entry \cup {NoEntry}]
    BY <2>1 DEF Has, Slot
  <2>3. f \in Entry
    BY <2>2 DEF Entry
  <2>4. rotten = [slot EXCEPT !.entries = all]
    BY <2>1, <2>2 DEF Slot
  <2> HIDE DEF f
  <2>5. all \in [Plugins -> Entry \cup {NoEntry}] /\ all[p] = f
        /\ \A q \in Plugins \ {p} : all[q] = slot.entries[q]
    BY <2>2, <2>3
  <2> HIDE DEF all
  <2>6. rotten.kind = slot.kind /\ rotten.entries = all /\ rotten \in Slot
    BY <2>4, <2>5 DEF Slot
  <2>7. ASSUME NEW q \in Plugins PROVE Fades(slot.entries[q], rotten.entries[q])
    BY <2>1, <2>5, <2>6 DEF Fades, Has, f
  <2> QED
    BY <2>6, <2>7 DEF Valid
<1> QED
  BY <1>1, <1>2 DEF Rots

LEMMA FadesOn ==
  ASSUME NEW e \in Entry \cup {NoEntry}, NEW f \in Entry \cup {NoEntry}, NEW g,
         Fades(e, f), Fades(f, g)
  PROVE  Fades(e, g)
<1>1. CASE f = e
  BY <1>1
<1>2. CASE e # NoEntry /\ f = [e EXCEPT !.clear = FALSE]
  <2>1. [f EXCEPT !.clear = FALSE] = f
    BY <1>2 DEF Entry
  <2> QED
    BY <1>2, <2>1 DEF Fades
<1> QED
  BY <1>1, <1>2 DEF Fades

LEMMA FilesRotStep ==
  ASSUME IInv, FilesRot
  PROVE  IInv'
<1>1. /\ damage < MaxDamage /\ damage' = damage + 1
      /\ \/ Valid(primary) /\ primary' \in Rots(primary) /\ backup' = backup
         \/ Valid(backup) /\ backup' \in Rots(backup) /\ primary' = primary
      /\ UNCHANGED <<yaml, journal, up, recovering, blocked, save, mirror, keyring, attempt>>
  BY DEF FilesRot, memory
<1>2. TypeOK /\ primary \in Slot /\ backup \in Slot
  BY DEF IInv, TypeOK
<1>3. ASSUME NEW slot \in Slot, NEW rotten, rotten = slot \/ (Valid(slot) /\ rotten \in Rots(slot)),
             ~Valid(slot) => slot.entries = NoEntries
      PROVE  /\ rotten \in Slot /\ (slot.kind # "missing" => rotten.kind # "missing")
             /\ rotten.kind = "missing" => rotten = slot
             /\ ~Valid(rotten) => rotten.entries = NoEntries
             /\ Valid(rotten) => /\ Valid(slot)
                                 /\ \A p \in Plugins : Fades(slot.entries[p], rotten.entries[p])
  BY <1>3, RotsType DEF Fades
<1>4. /\ primary' \in Slot /\ backup' \in Slot
      /\ primary.kind # "missing" => primary'.kind # "missing"
      /\ backup'.kind = "missing" => backup' = backup
      /\ ~Valid(primary)' => primary'.entries = NoEntries
      /\ ~Valid(backup)' => backup'.entries = NoEntries
      /\ Valid(primary)' => Valid(primary) /\ \A p \in Plugins : Fades(X(p), X(p)')
      /\ Valid(backup)' => Valid(backup) /\ \A p \in Plugins : Fades(Y(p), Y(p)')
  BY <1>1, <1>2, <1>3 DEF IInv, SlotInv, X, Y, Valid
<1>5. damage' \in 0..MaxDamage /\ damage' # 0
  BY <1>1, <1>2, ConfigAssumption DEF TypeOK
<1>6. TypeOK'
  BY <1>1, <1>2, <1>4, <1>5 DEF TypeOK
<1>7. StartInv'
  BY <1>1 DEF IInv, StartInv
<1>8. SlotInv'
  BY <1>4 DEF SlotInv
<1>9. MirrorInv'
  <2> SUFFICES ASSUME mirror # NoMirror PROVE MirrorInv'
    BY <1>1 DEF MirrorInv
  <2>1. Valid(mirror.slot) /\ primary'.kind # "missing" /\ MirrorOwner(mirror.plugin)'
    BY <1>1, <1>4 DEF IInv, MirrorInv, MirrorOwner
  <2>2. ASSUME NEW p \in Plugins PROVE MirrorEntry(p)'
    <3>1. /\ MirrorEntry(p) /\ mirror.slot.entries[p] \in Entry \cup {NoEntry}
          /\ X(p) \in Entry \cup {NoEntry} /\ Y(p) \in Entry \cup {NoEntry}
      BY <1>2, ReadingOf DEF IInv, MirrorInv, TypeOK, Slot
    <3>2. /\ Valid(primary)' /\ Fades(mirror.slot.entries[p], X(p)) => Fades(mirror.slot.entries[p], X(p)')
          /\ Valid(backup)' /\ Fades(mirror.slot.entries[p], Y(p)) => Fades(mirror.slot.entries[p], Y(p)')
      BY <1>4, <3>1, FadesOn
    <3> QED
      BY <1>1, <1>4, <3>1, <3>2 DEF MirrorEntry
  <2> QED
    BY <1>1, <2>1, <2>2 DEF MirrorInv
<1>10. ASSUME NEW p \in Plugins PROVE PluginOK(p)'
  <2>1. BoundOK(p)' /\ WroteOK(p)'
    BY <1>1 DEF IInv, PluginOK, BoundOK, WroteOK, Mirrored
  <2> QED
    BY <1>5, <2>1 DEF PluginOK
<1> QED
  BY <1>5, <1>6, <1>7, <1>8, <1>9, <1>10 DEF IInv

-----------------------------------------------------------------------------
(* The invariant.                                                            *)

LEMMA InitIInv ==
  ASSUME Init
  PROVE  IInv
<1>1. PICK held \in SUBSET Plugins, b \in Bindings, s \in Secrets :
        LET slot == IF held = {} THEN MissingSlot ELSE
              [kind |-> "valid", entries |-> [p \in Plugins |->
                 IF p \in held THEN [binding |-> b, secret |-> s, clear |-> TRUE]
                               ELSE NoEntry]]
        IN primary = slot /\ backup = slot
           /\ yaml = [p \in Plugins |-> [revision |-> 1, binding |-> b]]
  BY DEF Init
<1> DEFINE e == [binding |-> b, secret |-> s, clear |-> TRUE]
<1>2. e \in Entry /\ e.binding = b /\ e.secret = s /\ e.clear = TRUE
  BY DEF Entry
<1>3. /\ primary \in Slot /\ backup = primary
      /\ primary.kind \in {"missing", "valid"}
      /\ ~Valid(primary) => primary.entries = NoEntries
      /\ \A p \in Plugins : primary.entries[p] \in {e, NoEntry}
  <2>1. CASE held = {}
    BY <1>1, <2>1 DEF MissingSlot, NoEntries, Slot, Valid
  <2>2. CASE held # {}
    <3>1. primary = [kind |-> "valid", entries |-> [p \in Plugins |-> IF p \in held THEN e ELSE NoEntry]]
          /\ backup = primary
      BY <1>1, <2>2
    <3> HIDE DEF e
    <3> QED
      BY <1>2, <3>1 DEF Slot, Valid
  <2> QED
    BY <2>1, <2>2
<1> HIDE DEF e
<1>4. /\ yaml = [p \in Plugins |-> [revision |-> 1, binding |-> b]]
      /\ yaml \in [Plugins -> [revision : Revisions, binding : Bindings]]
      /\ \A p \in Plugins : yaml[p].binding = b
  BY <1>1, ConfigAssumption DEF Revisions
<1>5. /\ journal = [p \in Plugins |-> NoRecord] /\ up = TRUE /\ recovering = {} /\ blocked = {}
      /\ save = [p \in Plugins |-> NoSave] /\ mirror = NoMirror /\ keyring = TRUE /\ damage = 0
      /\ attempt = [p \in Plugins |-> Settled(p)]
  BY DEF Init
<1>6. Intact
  BY <1>2, <1>3 DEF Intact
<1>7. ASSUME NEW p \in Plugins
      PROVE  /\ Reading(p, b) \in Secrets \cup {NoSecret}
             /\ Kept(p) = Pair(b, Reading(p, b)) /\ Kept(p) \in Pairs
  <2>1. Reading(p, b) \in Secrets \cup {NoSecret}
    BY <1>2, <1>3 DEF Reading, Reads, X, Y
  <2>2. Stored(p, b) = Reading(p, b)
    BY <1>6, StoredIsReading
  <2> QED
    BY <1>4, <2>1, <2>2 DEF Kept, Pair, Pairs
<1>8. ASSUME NEW p \in Plugins
      PROVE  /\ attempt[p] \in [old : Pairs, new : Pairs, stale : SUBSET Pairs, wrote : BOOLEAN,
                                told : {"open", "saved", "failed"}]
             /\ attempt[p].told = "saved" /\ attempt[p].new = Kept(p)
  BY <1>5, <1>7 DEF Settled
<1>9. TypeOK
  <2>1. attempt \in [Plugins -> [old : Pairs, new : Pairs, stale : SUBSET Pairs, wrote : BOOLEAN,
                                 told : {"open", "saved", "failed"}]]
    BY <1>5, <1>8
  <2> QED
    BY <1>3, <1>4, <1>5, <2>1, ConfigAssumption DEF TypeOK
<1>10. StartInv /\ SlotInv /\ MirrorInv
  BY <1>3, <1>5 DEF StartInv, SlotInv, MirrorInv
<1>11. ASSUME NEW p \in Plugins PROVE PluginOK(p)
  <2>1. Idle(p)
    BY <1>4, <1>7, <1>8, VaultAssumption DEF Idle, Outcomes
  <2> QED
    BY <1>5, <2>1 DEF PluginOK, BoundOK, WroteOK, PhaseOK
<1> QED
  BY <1>6, <1>9, <1>10, <1>11 DEF IInv

LEMMA IInvNext ==
  ASSUME IInv, [Next]_vars
  PROVE  IInv'
<1>1. ASSUME NEW p \in Plugins, SaveStep(p) PROVE IInv'
  BY <1>1, PrepareStep, PrepareRefusedStep, CommitYamlStep, CommitYamlFailsStep, SkipVaultStep,
     WritePrimaryStep, VaultFailsStep, VaultAndRestoreFailStep, FinishSaveStep DEF SaveStep
<1>2. CASE WriteBackup
  BY <1>2, WriteBackupStep
<1>3. ASSUME NEW p \in Plugins, EditSettings(p) \/ TrustHostKey(p) PROVE IInv'
  BY <1>3, RevisionStep DEF EditSettings, TrustHostKey
<1>4. CASE Crash \/ Start
  BY <1>4, CrashStep, StartStep
<1>5. ASSUME NEW p \in Plugins, Recover(p) \/ Quarantine(p) PROVE IInv'
  BY <1>5, RecoverStepOK, QuarantineStep
<1>6. CASE KeyringFlips \/ FilesRot
  BY <1>6, KeyringStep, FilesRotStep
<1>7. CASE UNCHANGED vars
  <2>1. /\ UNCHANGED <<yaml, primary, backup, journal, up, recovering, blocked, save, mirror,
                       damage, attempt>>
        /\ UNCHANGED keyring
    BY <1>7 DEF vars, disk, memory
  <2>2. TypeOK' /\ StartInv' /\ SlotInv' /\ (damage' = 0 => Intact')
    BY <2>1 DEF IInv, TypeOK, StartInv, SlotInv, Intact
  <2>3. MirrorInv'
    BY <2>1 DEF IInv, MirrorInv, MirrorEntry, MirrorOwner, X, Y
  <2>4. ASSUME NEW p \in Plugins PROVE PluginOK(p)'
    <3>1. PluginOK(p)
      BY DEF IInv
    <3>2. BoundOK(p)' /\ WroteOK(p)'
      BY <2>1, <3>1 DEF PluginOK, BoundOK, WroteOK, Mirrored
    <3>3. damage = 0 => PhaseOK(p)'
      BY <2>1, <3>1, PhaseKept DEF PluginOK, EntriesKept, X, Y, Mirrored
    <3> QED
      BY <2>1, <3>2, <3>3 DEF PluginOK
  <2> QED
    BY <2>2, <2>3, <2>4 DEF IInv
<1> QED
  BY <1>1, <1>2, <1>3, <1>4, <1>5, <1>6, <1>7 DEF Next

\* The inductive invariant: types, the shape of the files and of the backup
\* still to be written, and the phase of every plugin in intact files.
THEOREM IInvariant == Spec => []IInv
<1>1. Init => IInv
  BY InitIInv
<1>2. IInv /\ [Next]_vars => IInv'
  BY IInvNext
<1> QED
  BY <1>1, <1>2, PTL DEF Spec

-----------------------------------------------------------------------------
(* What it says of a save.                                                   *)

\* A record on disk belongs to a credential written or to one untouched.
LEMMA RecordPhase ==
  ASSUME IInv, damage = 0, NEW p \in Plugins, journal[p] # NoRecord
  PROVE  Written(p) \/ Untouched(p)
<1>1. PhaseOK(p) /\ TypeOK
  BY DEF IInv, PluginOK
<1>2. CASE save[p] # NoSave
  <2>1. Saving(p) /\ save[p].stage \in {"journaled", "yaml", "written"}
    BY <1>1, <1>2 DEF PhaseOK, TypeOK, Save
  <2> QED
    BY <2>1 DEF Saving, Skipped
<1>3. CASE save[p] = NoSave
  <2>1. Left(p) /\ attempt[p].told \in {"open", "saved", "failed"}
    BY <1>1, <1>3 DEF PhaseOK, TypeOK
  <2> QED
    BY <2>1 DEF Left, Skipped
<1> QED
  BY <1>2, <1>3

LEMMA AllOrNothingHolds ==
  ASSUME IInv
  PROVE  AllOrNothing
<1> SUFFICES ASSUME damage = 0, NEW p \in Plugins, save[p] = NoSave,
                    journal[p] = NoRecord \/ attempt[p].told # "open"
             PROVE  Kept(p) \in Outcomes(p)
  BY DEF IInv, AllOrNothing
<1>1. TypeOK /\ Intact /\ PhaseOK(p)
  BY DEF IInv, PluginOK
<1> DEFINE r == Reading(p, yaml[p].binding)
<1>2. Kept(p) = Pair(yaml[p].binding, r)
  BY <1>1, StoredIsReading DEF Kept
<1>3. CASE journal[p] = NoRecord
  BY <1>1, <1>2, <1>3 DEF PhaseOK, Idle
<1>4. CASE journal[p] # NoRecord /\ attempt[p].told = "saved"
  <2>1. yaml[p].binding = journal[p].after /\ (Written(p) \/ Skipped(p))
    BY <1>1, <1>4 DEF PhaseOK, Left
  <2>2. attempt[p].new = Pair(yaml[p].binding, r)
    BY <1>1, <2>1, WrittenReads, SkippedReads
  <2> QED
    BY <1>2, <1>4, <2>2 DEF Outcomes
<1>5. CASE journal[p] # NoRecord /\ attempt[p].told = "failed"
  <2>1. /\ Untouched(p)
        /\ \/ yaml[p].binding = journal[p].before
           \/ yaml[p].binding = journal[p].after /\ Usable(Reading(p, journal[p].after))
    BY <1>1, <1>5 DEF PhaseOK, Left
  <2>2. Pair(yaml[p].binding, r) \in {attempt[p].old} \cup attempt[p].stale
    BY <2>1 DEF Untouched
  <2> QED
    BY <1>2, <1>5, <2>2 DEF Outcomes
<1>6. attempt[p].told \in {"open", "saved", "failed"}
  BY <1>1 DEF TypeOK
<1> QED
  BY <1>3, <1>4, <1>5, <1>6

\* A save is all or nothing, across failed writes, crashes and recoveries.
THEOREM SavesAreAtomic == Spec => []AllOrNothing
<1>1. IInv => AllOrNothing
  BY AllOrNothingHolds
<1> QED
  BY <1>1, IInvariant, PTL

\* A target without its credential is explained by a journal record.
THEOREM OrphansExplained == Spec => []OrphanCovered
<1>1. ASSUME IInv PROVE OrphanCovered
  <2> SUFFICES ASSUME damage = 0, NEW p \in Plugins, Stored(p, yaml[p].binding) = Unreadable
               PROVE  journal[p] # NoRecord
    BY DEF OrphanCovered
  <2>1. Intact /\ PhaseOK(p)
    BY <1>1 DEF IInv, PluginOK
  <2>2. Reading(p, yaml[p].binding) = Unreadable
    BY <2>1, StoredIsReading
  <2> QED
    BY <2>1, <2>2 DEF PhaseOK, Saving, Idle
<1> QED
  BY <1>1, IInvariant, PTL

\* Whatever record a crash leaves, the next start has a decision for it.
THEOREM RecordsDecided == Spec => []RecoveryDecides
<1>1. ASSUME IInv PROVE RecoveryDecides
  <2> SUFFICES ASSUME damage = 0, NEW p \in Plugins, journal[p] # NoRecord, Recognised(p)
               PROVE  Outcome(p, Stored(p, journal[p].after), Stored(p, journal[p].before)) # "block"
    BY DEF RecoveryDecides
  <2> DEFINE ra == Reading(p, journal[p].after)
             rb == Reading(p, journal[p].before)
  <2>1. TypeOK /\ Intact /\ (Written(p) \/ Untouched(p))
    BY <1>1, RecordPhase DEF IInv
  <2>2. Stored(p, journal[p].after) = ra /\ Stored(p, journal[p].before) = rb
    BY <2>1, StoredIsReading
  <2>3. CASE Written(p)
    <3>1. ra \notin {NoSecret, Unreadable}
      BY <2>1, <2>3, WrittenReads, VaultAssumption
    <3> QED
      BY <2>2, <3>1 DEF Outcome
  <2>4. CASE Untouched(p)
    <3>1. rb # Unreadable
      BY <2>4 DEF Untouched, Pair
    <3>2. rb = NoSecret => Bare(p) /\ ra = NoSecret /\ ~journal[p].had
      BY <2>1, <2>4, ReadingOf DEF Untouched
    <3> HIDE DEF ra, rb
    <3> QED
      BY <2>2, <3>1, <3>2 DEF Outcome
  <2> QED
    BY <2>1, <2>3, <2>4
<1> QED
  BY <1>1, IInvariant, PTL

-----------------------------------------------------------------------------
(* Neighbours, damaged files or not.                                         *)

Unlocks(e, b) == e # NoEntry /\ e.binding = b /\ e.clear
Finds(e, f, damaged, b) ==
  IF Unlocks(e, b) THEN e.secret
  ELSE IF Unlocks(f, b) THEN f.secret
  ELSE IF e # NoEntry \/ f # NoEntry \/ damaged THEN Unreadable ELSE NoSecret

LEMMA LoadFinds ==
  ASSUME NEW one \in Slot, NEW two \in Slot, NEW p \in Plugins, NEW b
  PROVE  LoadFrom(one, two, p, b, TRUE) =
           Finds(one.entries[p], two.entries[p],
                 one.kind = "damaged" \/ two.kind = "damaged", b)
<1>1. /\ Opens(one, p, b, TRUE) <=> Unlocks(one.entries[p], b)
      /\ Opens(two, p, b, TRUE) <=> Unlocks(two.entries[p], b)
  BY DEF Opens, Has, Unlocks
<1>2. ASSUME ~Opens(one, p, b, TRUE), ~Opens(two, p, b, TRUE)
      PROVE  (\E slot \in {one, two} : Refuses(slot, p, b, TRUE) \/ slot.kind = "damaged")
               <=> \/ one.entries[p] # NoEntry \/ two.entries[p] # NoEntry
                   \/ one.kind = "damaged" \/ two.kind = "damaged"
  BY <1>2 DEF Refuses, Has
<1> QED
  BY <1>1, <1>2 DEF LoadFrom, Finds

LEMMA FadesNothing ==
  ASSUME NEW e \in Entry \cup {NoEntry}, NEW f, Fades(e, f)
  PROVE  /\ f = NoEntry => e = NoEntry
         /\ f # e => f # NoEntry /\ ~f.clear
<1>1. CASE e \in Entry /\ f = [e EXCEPT !.clear = FALSE]
  <2>1. f \in Entry /\ f.clear = FALSE
    BY <1>1 DEF Entry
  <2> QED
    BY <2>1, EntryAssumption
<1> QED
  BY <1>1 DEF Fades

LEMMA NeighbourStep ==
  ASSUME IInv, IInv', [Next]_vars, damage' = damage, NEW p \in Plugins,
         yaml[p] = yaml'[p], save[p] = save'[p], attempt[p] = attempt'[p],
         Stored(p, yaml[p].binding) # Unreadable
  PROVE  Stored(p, yaml[p].binding)' = Stored(p, yaml[p].binding)
<1> DEFINE b == yaml[p].binding
           worn == primary.kind = "damaged" \/ backup.kind = "damaged"
           worn1 == primary'.kind = "damaged" \/ backup'.kind = "damaged"
<1>1. TypeOK /\ TypeOK' /\ PluginOK(p) /\ SlotInv /\ MirrorInv
  BY DEF IInv
<1>2. Stored(p, b) = Finds(X(p), Y(p), worn, b)
  <2>1. primary \in Slot /\ backup \in Slot
    BY <1>1 DEF TypeOK
  <2> QED
    BY <2>1, LoadFinds DEF Stored, X, Y, Finds
<1>3. Stored(p, b)' = Finds(X(p)', Y(p)', worn1, b)
  <2>1. primary' \in Slot /\ backup' \in Slot
    BY <1>1 DEF TypeOK
  <2>2. b' = b
    OBVIOUS
  <2> QED
    BY <2>1, <2>2, LoadFinds, ZenonT(40) DEF Stored, X, Y, Finds
<1>4. CASE UNCHANGED <<primary, backup>>
  BY <1>4 DEF Stored
<1>5. ASSUME NEW q \in Plugins, WritePrimary(q)
      PROVE  Stored(p, b)' = Stored(p, b)
  <2> DEFINE entry == [binding |-> save[q].after, secret |-> Merged(q), clear |-> TRUE]
  <2>1. /\ save[q] # NoSave /\ save[q].stage = "yaml" /\ mirror = NoMirror
        /\ attempt' = [attempt EXCEPT ![q].wrote = TRUE] /\ backup' = backup
        /\ primary' = Saved(primary, backup, q, entry)
    BY <1>5 DEF WritePrimary
  <2>2. q # p
    <3> SUFFICES ASSUME q = p PROVE FALSE
      OBVIOUS
    <3>1. ~attempt[p].wrote
      BY <1>1, <2>1 DEF PluginOK, WroteOK, Mirrored
    <3>2. attempt[p] \in [old : Pairs, new : Pairs, stale : SUBSET Pairs, wrote : BOOLEAN,
                          told : {"open", "saved", "failed"}]
      BY <1>1 DEF TypeOK
    <3>3. attempt'[p] = [attempt[p] EXCEPT !.wrote = TRUE]
      BY <1>1, <2>1 DEF TypeOK
    <3>4. attempt'[p].wrote = TRUE
      BY <3>2, <3>3
    <3> QED
      BY <3>1, <3>4
  <2> HIDE DEF entry
  <2>3. primary'.kind = "valid" /\ X(p)' = Base(primary, backup)[p] /\ Y(p)' = Y(p)
    <3>1. Base(primary, backup) \in [Plugins -> Entry \cup {NoEntry}]
      BY <1>1 DEF Base, TypeOK, Slot
    <3> QED
      BY <2>1, <2>2, <3>1 DEF Saved, X, Y
  <2>4. CASE Valid(primary)
    BY <1>2, <1>3, <2>1, <2>3, <2>4 DEF Base, X, Valid
  <2>5. CASE ~Valid(primary)
    <3>1. X(p) = NoEntry /\ X(p)' = Y(p)
      BY <1>1, <2>3, <2>5 DEF Base, SlotInv, NoEntries, X, Y
    <3> QED
      BY <1>2, <1>3, <2>1, <2>3, <3>1 DEF Finds, Unlocks
  <2> QED
    BY <2>4, <2>5
<1>6. CASE WriteBackup
  <2>1. PICK q \in Plugins : q = mirror.plugin
    BY <1>1, <1>6 DEF WriteBackup, TypeOK
  <2>2. /\ mirror # NoMirror /\ backup' \in {backup, mirror.slot} /\ primary' = primary
        /\ save' = [save EXCEPT ![q].stage = "written"]
    BY <1>6, <2>1 DEF WriteBackup
  <2>3. q # p
    <3> SUFFICES ASSUME q = p PROVE FALSE
      OBVIOUS
    <3>1. save[p] # NoSave /\ save[p].stage = "yaml" /\ save[p] \in Save
      BY <1>1, <2>1, <2>2 DEF MirrorInv, MirrorOwner, TypeOK
    <3>2. save'[p].stage = "written"
      BY <1>1, <2>2, <3>1 DEF TypeOK, Save
    <3> QED
      BY <3>1, <3>2
  <2>4. CASE backup' = backup
    BY <1>4, <2>2, <2>4
  <2>5. CASE backup' = mirror.slot
    <3>1. /\ MirrorEntry(p) /\ Valid(mirror.slot) /\ primary.kind # "missing"
          /\ mirror.slot.entries[p] \in Entry \cup {NoEntry} /\ Y(p)' = mirror.slot.entries[p]
          /\ X(p)' = X(p) /\ backup'.kind = "valid"
      BY <1>1, <2>2, <2>5 DEF MirrorInv, TypeOK, Slot, X, Y, Valid
    <3>2. CASE Unlocks(X(p), b)
      BY <1>2, <1>3, <3>1, <3>2 DEF Finds
    <3>3. CASE ~Unlocks(X(p), b)
      <4>1. (~worn /\ X(p) = NoEntry) \/ Unlocks(Y(p), b)
        BY <1>2, <3>3 DEF Finds
      <4>2. CASE Valid(backup)
        <5>1. Fades(Y(p)', Y(p))
          BY <2>1, <2>3, <3>1, <4>2 DEF MirrorEntry
        <5>2. Y(p) # Y(p)' => Y(p) # NoEntry /\ ~Y(p).clear
          BY <3>1, <5>1, FadesNothing
        <5>3. Y(p)' = Y(p)
          BY <1>2, <3>3, <5>2 DEF Finds, Unlocks
        <5> QED
          BY <1>2, <1>3, <2>2, <3>1, <3>3, <4>2, <5>3 DEF Finds, Valid
      <4>3. CASE ~Valid(backup)
        <5>1. Y(p) = NoEntry
          BY <1>1, <4>3 DEF SlotInv, NoEntries, Y
        <5>2. ~worn /\ X(p) = NoEntry
          BY <4>1, <5>1 DEF Unlocks
        <5>3. backup.kind = "missing" /\ Valid(primary)
          BY <1>1, <3>1, <4>3, <5>2 DEF TypeOK, Slot, Valid
        <5>4. Fades(Y(p)', X(p))
          BY <2>1, <2>3, <3>1, <5>3 DEF MirrorEntry
        <5>5. Y(p)' = NoEntry
          BY <3>1, <5>2, <5>4, FadesNothing
        <5> QED
          BY <1>2, <1>3, <2>2, <3>1, <5>1, <5>2, <5>5 DEF Finds, Unlocks
      <4> QED
        BY <4>2, <4>3
    <3> QED
      BY <3>2, <3>3
  <2> QED
    BY <2>2, <2>4, <2>5
<1>7. CASE Start
  <2>1. /\ primary' = primary
        /\ backup' = backup \/ (Valid(primary) /\ ~Valid(backup) /\ backup' = primary)
    BY <1>7 DEF Start
  <2>2. CASE Valid(primary) /\ ~Valid(backup) /\ backup' = primary
    <3>1. Y(p) = NoEntry /\ X(p)' = X(p) /\ Y(p)' = X(p)
      BY <1>1, <2>1, <2>2 DEF SlotInv, NoEntries, X, Y
    <3> QED
      BY <1>2, <1>3, <2>1, <2>2, <3>1 DEF Finds, Unlocks, Valid
  <2> QED
    BY <1>4, <2>1, <2>2
<1>8. CASE FilesRot
  BY <1>1, <1>8 DEF FilesRot, TypeOK
<1>9. ASSUME NEW q \in Plugins, SaveStep(q), ~WritePrimary(q) PROVE UNCHANGED <<primary, backup>>
  BY <1>9 DEF SaveStep, Prepare, Begins, PrepareRefused, CommitYaml, CommitYamlFails, SkipVault,
              VaultFails, VaultAndRestoreFail, FinishSave, disk
<1>10. ASSUME NEW q \in Plugins, EditSettings(q) \/ TrustHostKey(q) \/ Recover(q) \/ Quarantine(q)
       PROVE  UNCHANGED <<primary, backup>>
  BY <1>10 DEF EditSettings, TrustHostKey, Recover, Quarantine, RecoverStep
<1>11. Crash \/ KeyringFlips \/ UNCHANGED vars => UNCHANGED <<primary, backup>>
  BY DEF Crash, KeyringFlips, vars, disk
<1> QED
  BY <1>4, <1>5, <1>6, <1>7, <1>8, <1>9, <1>10, <1>11 DEF Next

\* Whatever is done about one plugin, the credential of another is kept.
THEOREM NeighboursKept == Spec => NeighboursUntouched
<1> DEFINE A == damage' = damage =>
       \A p \in Plugins :
         (yaml[p] = yaml'[p] /\ save[p] = save'[p] /\ attempt[p] = attempt'[p]
          /\ Stored(p, yaml[p].binding) # Unreadable)
           => Stored(p, yaml[p].binding)' = Stored(p, yaml[p].binding)
<1>1. IInv /\ IInv' /\ [Next]_vars => A
  BY NeighbourStep
<1>2. NeighboursUntouched <=> [][A]_vars
  BY DEF NeighboursUntouched
<1> HIDE DEF A
<1> QED
  BY <1>1, <1>2, IInvariant, PTL DEF Spec

-----------------------------------------------------------------------------
(* SshSession: the connection of one server.                                 *)

\* From the assumption of the instance.
LEMMA DialsDistinct == None \notin Dials /\ Dials \cap HangUps = {}
  BY SavedConnectionsAssumption DEF Ssh!SshAssumption

\* A call, or nobody.
MaybeDial == Dials \cup {None}

\* What is known of a call of connect.
DialRecord ==
  [at : {"none", "prepares", "queued", "reads", "replaces", "identifies",
         "connects", "trusts", "records", "connected", "refused"},
   aborted : BOOLEAN, cancelled : BOOLEAN, failed : BOOLEAN,
   replaces : MaybeDial, overtaken : BOOLEAN]

\* The types.
SshTypes ==
  /\ owner \in MaybeDial /\ controller \in MaybeDial /\ pending \in MaybeDial
  /\ session \in MaybeDial
  /\ lane \in Seq(Dials \cup HangUps)
  /\ call \in [Dials -> DialRecord]
  /\ client \in [Dials -> {"none", "connecting", "ready", "ending", "closed"}]
  /\ socket \in [Dials -> {"none", "open", "destroyed"}]
  /\ ending \in [HangUps -> [at : {"none", "queued", "waits", "over"}, ends : MaybeDial]]
  /\ told \in [Dials -> {"none", "connected", "disconnected", "lost"}]

\* The stages of a call that has no session yet and runs.
Dialing == {"replaces", "identifies", "connects", "trusts"}

\* What has a stage of the lane is at its head.
LaneHeld ==
  /\ \A a \in Dials : call[a].at \in {"reads", "records"} \cup Dialing => Ssh!Running(a)
  /\ \A d \in HangUps : ending[d].at = "waits" => Ssh!Running(d)

\* A client that lives is that of the session, or of the call that connects.
ClientsKnown ==
  \A a \in Dials :
    /\ call[a].at \in Dialing => session = None
    /\ client[a] \in Ssh!Alive => session = a \/ call[a].at \in {"connects", "trusts"}
    /\ call[a].at \in {"none", "prepares", "queued", "reads", "replaces", "identifies"} =>
         client[a] = "none"
    /\ call[a].at = "trusts" /\ client[a] = "closed" => call[a].failed

\* A call that goes on is the owner of the connection, unless a later one came: then it
\* has been aborted, and is neither the owner nor what the broker is at.
LastWord ==
  /\ \A a \in Dials :
       /\ ~Ssh!Over(a) => IF call[a].overtaken THEN call[a].aborted ELSE owner = a /\ controller = a
       /\ call[a].overtaken => owner # a /\ pending # a
  /\ owner # None => controller \in {owner, None}

\* The invariant: the lane serialises, the last call has the say.
SshInv == SshTypes /\ LaneHeld /\ ClientsKnown /\ LastWord /\ Ssh!EventsTrue /\ Ssh!NothingLeft

\* What waits in the lane keeps its place.
LEMMA SshHeads ==
  ASSUME SshTypes, NEW x \in Dials \cup HangUps
  PROVE  /\ Append(lane, x) \in Seq(Dials \cup HangUps)
         /\ Append(lane, x) # <<>>
         /\ lane # <<>> => /\ Head(Append(lane, x)) = Head(lane)
                           /\ Tail(lane) \in Seq(Dials \cup HangUps)
<1> DEFINE T == Dials \cup HangUps
<1>1. lane \in Seq(T) /\ x \in T
  BY DEF SshTypes
<1>2. Append(lane, x) \in Seq(T) /\ Append(lane, x) # <<>>
  BY <1>1, AppendProperties
<1>3. ASSUME lane # <<>> PROVE Head(Append(lane, x)) = Head(lane) /\ Tail(lane) \in Seq(T)
  <2>1. Len(lane) > 0 /\ Tail(lane) \in Seq(T)
    BY <1>1, <1>3, EmptySeq, HeadTailProperties
  <2> QED BY <1>1, <2>1, AppendProperties
<1> QED BY <1>2, <1>3

\* What the calls of connect and disconnect do to those before them.
LEMMA StopsFacts ==
  ASSUME SshTypes, NEW S, NEW C, NEW new \in MaybeDial, Ssh!Stops(S, C, new)
  PROVE  /\ call' \in [Dials -> DialRecord]
         /\ \A b \in Dials \ {new} :
              /\ call'[b].at = call[b].at /\ call'[b].failed = call[b].failed
              /\ (call'[b].aborted <=> call[b].aborted \/ b \in S)
              /\ (call'[b].overtaken <=> call[b].overtaken \/ ~Ssh!Over(b))
         /\ new # None => call'[new] = [Ssh!NoAttempt EXCEPT !.at = "prepares"]
         /\ pending' = IF pending \in C THEN None ELSE pending
         /\ client' \in [Dials -> {"none", "connecting", "ready", "ending", "closed"}]
         /\ socket' \in [Dials -> {"none", "open", "destroyed"}]
         /\ \A b \in Dials :
              /\ client'[b] = client[b] \/ (client[b] \in Ssh!Alive /\ client'[b] = "ending")
              /\ socket'[b] = socket[b] \/ socket'[b] = "destroyed"
<1>1. \A b \in Dials : call[b] \in DialRecord
  BY DEF SshTypes
<1>2. \A b \in Dials \ {new} :
        call'[b] = [call[b] EXCEPT !.aborted = @ \/ b \in S, !.cancelled = @ \/ b \in C,
                                         !.overtaken = @ \/ ~Ssh!Over(b)]
  BY DEF Ssh!Stops
<1>3. \A b \in Dials \ {new} :
        /\ call'[b] \in DialRecord
        /\ call'[b].at = call[b].at /\ call'[b].failed = call[b].failed
        /\ (call'[b].aborted <=> call[b].aborted \/ b \in S)
        /\ (call'[b].overtaken <=> call[b].overtaken \/ ~Ssh!Over(b))
  <2> TAKE b \in Dials \ {new}
  <2> DEFINE x == call[b].aborted \/ b \in S
             y == call[b].cancelled \/ b \in C
             z == call[b].overtaken \/ ~Ssh!Over(b)
  <2>1. x \in BOOLEAN /\ y \in BOOLEAN /\ z \in BOOLEAN
    OBVIOUS
  <2>2. call'[b] = [call[b] EXCEPT !.aborted = x, !.cancelled = y, !.overtaken = z]
    BY <1>2
  <2>3. call[b] \in DialRecord
    BY <1>1
  <2> HIDE DEF x, y, z
  <2>4. /\ call'[b] \in DialRecord
        /\ call'[b].at = call[b].at /\ call'[b].failed = call[b].failed
        /\ call'[b].aborted = x /\ call'[b].overtaken = z
    BY <2>1, <2>2, <2>3 DEF DialRecord
  <2> QED BY <2>4 DEF x, z
<1>4. new # None => /\ call'[new] = [Ssh!NoAttempt EXCEPT !.at = "prepares"]
                    /\ call'[new] \in DialRecord
  BY DEF Ssh!Stops, Ssh!NoAttempt, DialRecord, MaybeDial
<1>5. call' \in [Dials -> DialRecord]
  <2>1. call' = [b \in Dials |-> call'[b]]
    BY DEF Ssh!Stops
  <2> QED BY <2>1, <1>3, <1>4, DialsDistinct DEF MaybeDial
<1>6. pending' = IF pending \in C THEN None ELSE pending
  BY DEF Ssh!Stops
<1>7. /\ client' = [b \in Dials |-> IF b \in S \cup C /\ client[b] \in Ssh!Alive THEN "ending" ELSE client[b]]
      /\ socket' = [b \in Dials |-> IF b \in S \cup C /\ socket[b] = "open" THEN "destroyed" ELSE socket[b]]
  BY DEF Ssh!Stops, Ssh!Ends
<1>8. client \in [Dials -> {"none", "connecting", "ready", "ending", "closed"}]
      /\ socket \in [Dials -> {"none", "open", "destroyed"}]
  BY DEF SshTypes
<1>9. /\ client' \in [Dials -> {"none", "connecting", "ready", "ending", "closed"}]
      /\ socket' \in [Dials -> {"none", "open", "destroyed"}]
      /\ \A b \in Dials :
           /\ client'[b] = client[b] \/ (client[b] \in Ssh!Alive /\ client'[b] = "ending")
           /\ socket'[b] = socket[b] \/ socket'[b] = "destroyed"
  <2>1. client' \in [Dials -> {"none", "connecting", "ready", "ending", "closed"}]
    BY <1>7, <1>8
  <2>2. socket' \in [Dials -> {"none", "open", "destroyed"}]
    BY <1>7, <1>8
  <2> QED BY <1>7, <1>8, <2>1, <2>2
<1> QED BY <1>3, <1>4, <1>5, <1>6, <1>9

\* A call goes on to another stage, and no other one does.
Moved(a, stage) ==
  /\ call' \in [Dials -> DialRecord]
  /\ call'[a].at = stage
  /\ call'[a].aborted = call[a].aborted /\ call'[a].cancelled = call[a].cancelled
  /\ call'[a].failed = call[a].failed /\ call'[a].overtaken = call[a].overtaken
  /\ \A b \in Dials \ {a} : call'[b] = call[b]

\* A step of At.
LEMMA MovedFacts ==
  ASSUME SshTypes, NEW a \in Dials, NEW s \in MaybeDial,
         NEW stage \in {"none", "prepares", "queued", "reads", "replaces", "identifies",
                        "connects", "trusts", "records", "connected", "refused"},
         \/ Ssh!At(a, stage)
         \/ call' = [call EXCEPT ![a].at = stage, ![a].replaces = s]
  PROVE  Moved(a, stage)
<1>1. call \in [Dials -> DialRecord] /\ call[a] \in DialRecord
  BY DEF SshTypes
<1>2. CASE Ssh!At(a, stage)
  <2>1. call' = [call EXCEPT ![a] = [call[a] EXCEPT !.at = stage]]
    BY <1>2 DEF Ssh!At
  <2> QED BY <1>1, <2>1 DEF Moved, DialRecord
<1>3. CASE call' = [call EXCEPT ![a].at = stage, ![a].replaces = s]
  <2>1. call' = [call EXCEPT ![a] = [call[a] EXCEPT !.at = stage, !.replaces = s]]
    BY <1>3, <1>1 DEF DialRecord
  <2> QED BY <1>1, <2>1 DEF Moved, DialRecord
<1> QED BY <1>2, <1>3

\* What a refusal leaves.
LEMMA RefuseFacts ==
  ASSUME SshTypes, NEW a \in Dials, Ssh!Refuse(a)
  PROVE  /\ Moved(a, "refused")
         /\ pending' = IF pending = a THEN None ELSE pending
         /\ owner' = IF owner = a THEN None ELSE owner
         /\ controller' = IF controller = a THEN None ELSE controller
         /\ lane' = IF Ssh!Running(a) THEN Tail(lane) ELSE lane
         /\ UNCHANGED <<session, ending, told>>
         /\ client' \in [Dials -> {"none", "connecting", "ready", "ending", "closed"}]
         /\ socket' \in [Dials -> {"none", "open", "destroyed"}]
         /\ client'[a] \notin Ssh!Alive /\ socket'[a] # "open"
         /\ client[a] \notin Ssh!Alive => client'[a] = client[a]
         /\ client[a] \in Ssh!Alive => client'[a] = "ending"
         /\ \A b \in Dials \ {a} : client'[b] = client[b] /\ socket'[b] = socket[b]
<1>1. Moved(a, "refused")
  BY MovedFacts DEF Ssh!Refuse, Ssh!Refused, MaybeDial
<1>2. /\ client' = [b \in Dials |-> IF b \in {a} /\ client[b] \in Ssh!Alive THEN "ending" ELSE client[b]]
      /\ socket' = [b \in Dials |-> IF b \in {a} /\ socket[b] = "open" THEN "destroyed" ELSE socket[b]]
  BY DEF Ssh!Refuse, Ssh!Refused, Ssh!Ends
<1>3. client \in [Dials -> {"none", "connecting", "ready", "ending", "closed"}]
      /\ socket \in [Dials -> {"none", "open", "destroyed"}]
  BY DEF SshTypes
<1>4. /\ client' \in [Dials -> {"none", "connecting", "ready", "ending", "closed"}]
      /\ client'[a] \notin Ssh!Alive
      /\ client[a] \notin Ssh!Alive => client'[a] = client[a]
      /\ client[a] \in Ssh!Alive => client'[a] = "ending"
      /\ \A b \in Dials \ {a} : client'[b] = client[b]
  BY <1>2, <1>3 DEF Ssh!Alive
<1>5. /\ socket' \in [Dials -> {"none", "open", "destroyed"}]
      /\ socket'[a] # "open"
      /\ \A b \in Dials \ {a} : socket'[b] = socket[b]
  BY <1>2, <1>3
<1> QED BY <1>1, <1>4, <1>5 DEF Ssh!Refuse, Ssh!Refused

\* A refusal keeps the invariant.
LEMMA RefuseStep ==
  ASSUME SshInv, NEW a \in Dials, Ssh!Refuse(a)
  PROVE  SshInv'
<1> USE DialsDistinct DEF SshInv, MaybeDial, Dialing, Ssh!Running, Ssh!Over
<1>1. SshTypes'
  <2>1. lane' \in Seq(Dials \cup HangUps)
    <3>1. lane \in Seq(Dials \cup HangUps) /\ a \in Dials \cup HangUps
      BY DEF SshTypes
    <3>2. lane # <<>> => Tail(lane) \in Seq(Dials \cup HangUps)
      BY <3>1, SshHeads
    <3>3. lane' = IF Ssh!Running(a) THEN Tail(lane) ELSE lane
      BY RefuseFacts
    <3> QED BY <3>1, <3>2, <3>3
  <2> QED BY <2>1, RefuseFacts DEF SshTypes, Moved
<1>2. LaneHeld'
  BY RefuseFacts DEF LaneHeld, Moved
<1>3. ClientsKnown'
  BY RefuseFacts DEF ClientsKnown, Moved
<1>4. LastWord'
  BY RefuseFacts DEF LastWord, Moved
<1>5. Ssh!EventsTrue' /\ Ssh!NothingLeft'
  BY RefuseFacts DEF Ssh!EventsTrue, Ssh!NothingLeft, Moved, Ssh!Alive
<1> QED BY <1>1, <1>2, <1>3, <1>4, <1>5

\* The session of the broker is given up.
LEMMA LeavesFacts ==
  ASSUME SshTypes, Ssh!Leaves
  PROVE  /\ session' = None
         /\ told' \in [Dials -> {"none", "connected", "disconnected", "lost"}]
         /\ client' \in [Dials -> {"none", "connecting", "ready", "ending", "closed"}]
         /\ \A a \in Dials :
              /\ told'[a] = IF a = session THEN "disconnected" ELSE told[a]
              /\ client'[a] = IF a = session /\ client[a] \in Ssh!Alive THEN "ending" ELSE client[a]
  BY DEF Ssh!Leaves, SshTypes, Ssh!Alive

\* The end of a client keeps the invariant.
LEMMA ClosesStep ==
  ASSUME SshInv, NEW a \in Dials, Ssh!Closes(a)
  PROVE  SshInv'
<1> USE DialsDistinct DEF SshInv, MaybeDial, Dialing, Ssh!Alive, Ssh!Running, Ssh!Over
<1>1. /\ client[a] \in {"connecting", "ready", "ending"}
      /\ client' = [client EXCEPT ![a] = "closed"]
      /\ socket' = [socket EXCEPT ![a] = "destroyed"]
      /\ UNCHANGED ending
  BY DEF Ssh!Closes
<1>2. /\ session' = IF session = a THEN None ELSE session
      /\ told' \in [Dials -> {"none", "connected", "disconnected", "lost"}]
      /\ told'[a] = IF session = a THEN "lost" ELSE told[a]
      /\ \A b \in Dials \ {a} : told'[b] = told[b]
  BY DEF Ssh!Closes, Ssh!OwnSession, Ssh!EventsTrue, SshTypes
<1>3. call \in [Dials -> DialRecord] /\ call[a] \in DialRecord
  BY DEF SshTypes
<1>4. CASE call[a].at = "connects"
  <2>1. /\ call' = [call EXCEPT ![a].at = "refused", ![a].failed = TRUE]
        /\ pending' = IF pending = a THEN None ELSE pending
        /\ owner' = IF owner = a THEN None ELSE owner
        /\ controller' = IF controller = a THEN None ELSE controller
        /\ lane' = Tail(lane)
    BY <1>4 DEF Ssh!Closes
  <2>2. call' = [call EXCEPT ![a] = [call[a] EXCEPT !.at = "refused", !.failed = TRUE]]
    BY <2>1, <1>3 DEF DialRecord
  <2>3. /\ call' \in [Dials -> DialRecord]
        /\ call'[a].at = "refused" /\ call'[a].overtaken = call[a].overtaken
        /\ \A b \in Dials \ {a} : call'[b] = call[b]
    BY <2>2, <1>3 DEF DialRecord
  <2>4. Ssh!Running(a)
    BY <1>4 DEF LaneHeld
  <2>5. SshTypes'
    BY <1>1, <1>2, <2>1, <2>3, <2>4, SshHeads DEF SshTypes
  <2>6. LaneHeld'
    BY <1>1, <2>1, <2>3, <2>4 DEF LaneHeld
  <2>7. ClientsKnown'
    BY <1>1, <1>2, <2>3 DEF ClientsKnown, SshTypes
  <2>8. LastWord'
    BY <2>1, <2>3 DEF LastWord
  <2>9. Ssh!EventsTrue' /\ Ssh!NothingLeft'
    BY <1>1, <1>2, <2>3 DEF Ssh!EventsTrue, Ssh!NothingLeft, SshTypes
  <2> QED BY <2>5, <2>6, <2>7, <2>8, <2>9
<1>5. CASE call[a].at # "connects"
  <2>1. /\ call' = [call EXCEPT ![a].failed = TRUE]
        /\ UNCHANGED <<pending, owner, controller, lane>>
    BY <1>5 DEF Ssh!Closes
  <2>2. call' = [call EXCEPT ![a] = [call[a] EXCEPT !.failed = TRUE]]
    BY <2>1, <1>3 DEF DialRecord
  <2>3. /\ call' \in [Dials -> DialRecord]
        /\ call'[a].at = call[a].at /\ call'[a].overtaken = call[a].overtaken
        /\ call'[a].aborted = call[a].aborted /\ call'[a].failed
        /\ \A b \in Dials \ {a} : call'[b] = call[b]
    BY <2>2, <1>3 DEF DialRecord
  <2>4. SshTypes'
    BY <1>1, <1>2, <2>1, <2>3 DEF SshTypes
  <2>5. LaneHeld'
    BY <1>1, <2>1, <2>3 DEF LaneHeld
  <2>6. ClientsKnown'
    BY <1>1, <1>2, <2>3 DEF ClientsKnown, SshTypes
  <2>7. LastWord'
    BY <2>1, <2>3 DEF LastWord
  <2>8. Ssh!EventsTrue' /\ Ssh!NothingLeft'
    BY <1>1, <1>2, <2>3 DEF Ssh!EventsTrue, Ssh!NothingLeft, SshTypes
  <2> QED BY <2>4, <2>5, <2>6, <2>7, <2>8
<1> QED BY <1>4, <1>5

\* The invariant holds at the start.
LEMMA SshStarts == Ssh!Init => SshInv
<1> SUFFICES ASSUME Ssh!Init PROVE SshInv
  OBVIOUS
<1>1. SshTypes
  BY DEF Ssh!Init, SshTypes, MaybeDial, Ssh!NoAttempt, DialRecord
<1>2. \A a \in Dials : call[a] = Ssh!NoAttempt /\ client[a] = "none" /\ told[a] = "none"
  BY DEF Ssh!Init
<1>3. owner = None /\ controller = None /\ session = None /\ \A d \in HangUps : ending[d].at = "none"
  BY DEF Ssh!Init
<1> QED BY <1>1, <1>2, <1>3, DialsDistinct DEF SshInv, LaneHeld, Dialing, ClientsKnown, LastWord,
           Ssh!EventsTrue, Ssh!NothingLeft, Ssh!NoAttempt, Ssh!Over, Ssh!Alive

\* Every step of a call, a disconnect or a client keeps the invariant.
LEMMA SshStep == SshInv /\ [Ssh!Next]_(Ssh!vars) => SshInv'
<1> SUFFICES ASSUME SshInv, [Ssh!Next]_(Ssh!vars) PROVE SshInv'
  OBVIOUS
<1> USE DialsDistinct DEF SshInv, MaybeDial, Dialing, Ssh!Alive, Ssh!Running, Ssh!Over
<1>1. ASSUME NEW a \in Dials, Ssh!Connect(a) PROVE SshInv'
  <2> DEFINE C == UNION {Ssh!CancelledWith(b) : b \in Ssh!Aborted}
  <2>1. Ssh!Stops(Ssh!Aborted, C, a) /\ owner' = a /\ controller' = a /\ UNCHANGED <<lane, session, ending, told>>
        /\ call[a].at = "none"
    BY <1>1 DEF Ssh!Connect
  <2>2. call'[a] = [Ssh!NoAttempt EXCEPT !.at = "prepares"]
    BY <2>1, StopsFacts
  <2>3. call'[a].at = "prepares" /\ ~call'[a].overtaken /\ ~call'[a].aborted
    BY <2>2 DEF Ssh!NoAttempt
  <2>4. \A b \in Dials : ~Ssh!Over(b) /\ ~call[b].overtaken => b \in Ssh!Aborted /\ pending' # b
    BY <2>1, StopsFacts DEF Ssh!Aborted, Ssh!CancelledWith, Ssh!Cancelled, LastWord
  <2>5. \A b \in Dials : call[b].overtaken => pending' # b
    BY <2>1, StopsFacts DEF LastWord
  <2>6. SshTypes'
    BY <2>1, StopsFacts DEF SshTypes
  <2>7. LaneHeld'
    BY <2>1, <2>3, StopsFacts DEF LaneHeld
  <2>8. ClientsKnown'
    BY <2>1, <2>3, StopsFacts DEF ClientsKnown
  <2>9. LastWord'
    <3>1. \A b \in Dials \ {a} :
             ~Ssh!Over(b)' => ~Ssh!Over(b) /\ call'[b].overtaken /\ call'[b].aborted
      BY <2>1, <2>4, StopsFacts DEF LastWord
    <3>2. \A b \in Dials \ {a} :
             call'[b].overtaken => call[b].overtaken \/ (~Ssh!Over(b) /\ ~call[b].overtaken)
      BY <2>1, StopsFacts
    <3> QED BY <2>1, <2>3, <2>4, <2>5, <3>1, <3>2 DEF LastWord
  <2>10. Ssh!EventsTrue' /\ Ssh!NothingLeft'
    BY <2>1, <2>3, StopsFacts DEF Ssh!EventsTrue, Ssh!NothingLeft
  <2> QED BY <2>6, <2>7, <2>8, <2>9, <2>10
<1>2. ASSUME NEW d \in HangUps, Ssh!Disconnect(d) PROVE SshInv'
  <2>1. Ssh!Stops(Ssh!Aborted, Ssh!Cancelled, None) /\ owner' = None /\ lane' = Append(lane, d)
        /\ ending' = [ending EXCEPT ![d].at = "queued"] /\ UNCHANGED <<controller, session, told>>
        /\ ending[d].at = "none"
    BY <1>2 DEF Ssh!Disconnect
  <2>2. pending' = None
    BY <2>1, StopsFacts DEF Ssh!Cancelled
  <2>3. \A b \in Dials : ~Ssh!Over(b)' => ~Ssh!Over(b) /\ call'[b].overtaken /\ call'[b].aborted
    BY <2>1, StopsFacts DEF LastWord, Ssh!Aborted
  <2>4. SshTypes'
    BY <2>1, StopsFacts, SshHeads DEF SshTypes
  <2>5. LaneHeld'
    <3>1. \A e \in HangUps : ending'[e].at = "waits" => ending[e].at = "waits"
      BY <2>1 DEF SshTypes
    <3>2. lane' # <<>> /\ (lane # <<>> => Head(lane') = Head(lane))
      BY <2>1, SshHeads
    <3>3. \A b \in Dials : call'[b].at = call[b].at
      BY <2>1, StopsFacts
    <3> QED BY <3>1, <3>2, <3>3 DEF LaneHeld
  <2>6. ClientsKnown'
    BY <2>1, StopsFacts DEF ClientsKnown
  <2>7. LastWord'
    BY <2>1, <2>2, <2>3 DEF LastWord
  <2>8. Ssh!EventsTrue' /\ Ssh!NothingLeft'
    BY <2>1, StopsFacts DEF Ssh!EventsTrue, Ssh!NothingLeft
  <2> QED BY <2>4, <2>5, <2>6, <2>7, <2>8
<1>3. ASSUME NEW a \in Dials, Ssh!Prepared(a) PROVE SshInv'
  <2>1. CASE Ssh!Refuse(a)
    BY <2>1, RefuseStep
  <2>2. CASE /\ Ssh!At(a, "queued") /\ lane' = Append(lane, a) /\ socket' = [socket EXCEPT ![a] = "open"]
             /\ UNCHANGED <<owner, controller, pending, session, client, ending, told>>
    <3>1. Moved(a, "queued") /\ call[a].at = "prepares"
      BY <1>3, <2>2, MovedFacts DEF Ssh!Prepared
    <3>2. SshTypes'
      BY <2>2, <3>1, SshHeads DEF SshTypes, Moved
    <3>3. LaneHeld'
      BY <2>2, <3>1, SshHeads DEF LaneHeld, Moved
    <3>4. ClientsKnown'
      BY <2>2, <3>1 DEF ClientsKnown, Moved
    <3>5. LastWord'
      BY <2>2, <3>1 DEF LastWord, Moved
    <3>6. Ssh!EventsTrue' /\ Ssh!NothingLeft'
      BY <2>2, <3>1 DEF Ssh!EventsTrue, Ssh!NothingLeft, Moved, SshTypes
    <3> QED BY <3>2, <3>3, <3>4, <3>5, <3>6
  <2> QED BY <1>3, <2>1, <2>2 DEF Ssh!Prepared
<1>4. ASSUME NEW a \in Dials, Ssh!Turn(a) PROVE SshInv'
  <2>1. CASE Ssh!Refuse(a)
    BY <2>1, RefuseStep
  <2>2. CASE Ssh!At(a, "reads") /\ UNCHANGED <<owner, controller, lane, pending, session, client, socket, ending, told>>
    <3>1. Moved(a, "reads") /\ call[a].at = "queued" /\ Ssh!Running(a)
      BY <1>4, <2>2, MovedFacts DEF Ssh!Turn
    <3>2. SshTypes'
      BY <2>2, <3>1 DEF SshTypes, Moved
    <3>3. LaneHeld'
      BY <2>2, <3>1 DEF LaneHeld, Moved
    <3>4. ClientsKnown'
      BY <2>2, <3>1 DEF ClientsKnown, Moved
    <3>5. LastWord'
      BY <2>2, <3>1 DEF LastWord, Moved
    <3>6. Ssh!EventsTrue' /\ Ssh!NothingLeft'
      BY <2>2, <3>1 DEF Ssh!EventsTrue, Ssh!NothingLeft, Moved
    <3> QED BY <3>2, <3>3, <3>4, <3>5, <3>6
  <2> QED BY <1>4, <2>1, <2>2 DEF Ssh!Turn
<1>5. ASSUME NEW a \in Dials, Ssh!Replaces(a) PROVE SshInv'
  <2>1. CASE Ssh!Refuse(a)
    BY <2>1, RefuseStep
  <2>2. CASE /\ call' = [call EXCEPT ![a].at = "replaces", ![a].replaces = session]
             /\ Ssh!Leaves /\ UNCHANGED <<owner, controller, lane, pending, socket, ending>>
    <3>1. Moved(a, "replaces") /\ call[a].at = "reads"
      BY <1>5, <2>2, MovedFacts DEF Ssh!Replaces, SshTypes
    <3>2. SshTypes'
      BY <2>2, <3>1, LeavesFacts DEF SshTypes, Moved
    <3>3. LaneHeld'
      BY <2>2, <3>1 DEF LaneHeld, Moved
    <3>4. ClientsKnown'
      BY <2>2, <3>1, LeavesFacts DEF ClientsKnown, Moved
    <3>5. LastWord'
      BY <2>2, <3>1 DEF LastWord, Moved
    <3>6. Ssh!EventsTrue' /\ Ssh!NothingLeft'
      BY <2>2, <3>1, LeavesFacts DEF Ssh!EventsTrue, Ssh!NothingLeft, Moved
    <3> QED BY <3>2, <3>3, <3>4, <3>5, <3>6
  <2> QED BY <1>5, <2>1, <2>2 DEF Ssh!Replaces
<1>6. ASSUME NEW a \in Dials, Ssh!Replaced(a) PROVE SshInv'
  <2>1. CASE Ssh!Refuse(a)
    BY <2>1, RefuseStep
  <2>2. CASE /\ Ssh!Unaborted(a)
             /\ call' = [call EXCEPT ![a].at = "identifies", ![a].replaces = None]
             /\ pending' = a
             /\ UNCHANGED <<owner, controller, lane, session, client, socket, ending, told>>
    <3>1. Moved(a, "identifies") /\ call[a].at = "replaces" /\ ~call[a].aborted
      BY <1>6, <2>2, MovedFacts DEF Ssh!Replaced, Ssh!Unaborted
    <3>2. SshTypes'
      BY <2>2, <3>1 DEF SshTypes, Moved
    <3>3. LaneHeld'
      BY <2>2, <3>1 DEF LaneHeld, Moved
    <3>4. ClientsKnown'
      BY <2>2, <3>1 DEF ClientsKnown, Moved
    <3>5. LastWord'
      BY <2>2, <3>1 DEF LastWord, Moved
    <3>6. Ssh!EventsTrue' /\ Ssh!NothingLeft'
      BY <2>2, <3>1 DEF Ssh!EventsTrue, Ssh!NothingLeft, Moved
    <3> QED BY <3>2, <3>3, <3>4, <3>5, <3>6
  <2> QED BY <1>6, <2>1, <2>2 DEF Ssh!Replaced
<1>7. ASSUME NEW a \in Dials, Ssh!Identified(a) PROVE SshInv'
  <2>1. CASE Ssh!Refuse(a)
    BY <2>1, RefuseStep
  <2>2. CASE /\ Ssh!At(a, "connects") /\ client' = [client EXCEPT ![a] = "connecting"]
             /\ UNCHANGED <<owner, controller, lane, pending, session, socket, ending, told>>
    <3>1. Moved(a, "connects") /\ call[a].at = "identifies"
      BY <1>7, <2>2, MovedFacts DEF Ssh!Identified
    <3>2. SshTypes'
      BY <2>2, <3>1 DEF SshTypes, Moved
    <3>3. LaneHeld'
      BY <2>2, <3>1 DEF LaneHeld, Moved
    <3>4. ClientsKnown'
      BY <2>2, <3>1 DEF ClientsKnown, Moved, SshTypes
    <3>5. LastWord'
      BY <2>2, <3>1 DEF LastWord, Moved
    <3>6. Ssh!EventsTrue' /\ Ssh!NothingLeft'
      BY <2>2, <3>1 DEF Ssh!EventsTrue, Ssh!NothingLeft, Moved, SshTypes
    <3> QED BY <3>2, <3>3, <3>4, <3>5, <3>6
  <2> QED BY <1>7, <2>1, <2>2 DEF Ssh!Identified
<1>8. ASSUME NEW a \in Dials, Ssh!Ready(a) PROVE SshInv'
  <2>1. CASE Ssh!Refuse(a)
    BY <2>1, RefuseStep
  <2>2. CASE /\ Ssh!At(a, "trusts") /\ client' = [client EXCEPT ![a] = "ready"]
             /\ UNCHANGED <<owner, controller, lane, pending, session, socket, ending, told>>
    <3>1. Moved(a, "trusts") /\ call[a].at = "connects"
      BY <1>8, <2>2, MovedFacts DEF Ssh!Ready
    <3>2. SshTypes'
      BY <2>2, <3>1 DEF SshTypes, Moved
    <3>3. LaneHeld'
      BY <2>2, <3>1 DEF LaneHeld, Moved
    <3>4. ClientsKnown'
      BY <2>2, <3>1 DEF ClientsKnown, Moved, SshTypes
    <3>5. LastWord'
      BY <2>2, <3>1 DEF LastWord, Moved
    <3>6. Ssh!EventsTrue' /\ Ssh!NothingLeft'
      BY <2>2, <3>1 DEF Ssh!EventsTrue, Ssh!NothingLeft, Moved, SshTypes
    <3> QED BY <3>2, <3>3, <3>4, <3>5, <3>6
  <2> QED BY <1>8, <2>1, <2>2 DEF Ssh!Ready
<1>9. ASSUME NEW a \in Dials, Ssh!Trusted(a) PROVE SshInv'
  <2>1. CASE Ssh!Refuse(a)
    BY <2>1, RefuseStep
  <2>2. CASE /\ Ssh!StillPending(a) /\ Ssh!At(a, "records") /\ session' = a
             /\ told' = [told EXCEPT ![a] = "connected"]
             /\ UNCHANGED <<owner, controller, lane, pending, client, socket, ending>>
    <3>1. Moved(a, "records") /\ call[a].at = "trusts" /\ ~call[a].failed
      BY <1>9, <2>2, MovedFacts DEF Ssh!Trusted, Ssh!StillPending
    <3>2. SshTypes'
      BY <2>2, <3>1 DEF SshTypes, Moved
    <3>3. LaneHeld'
      BY <2>2, <3>1 DEF LaneHeld, Moved
    <3>4. ClientsKnown'
      BY <2>2, <3>1 DEF ClientsKnown, Moved, LaneHeld
    <3>5. LastWord'
      BY <2>2, <3>1 DEF LastWord, Moved
    <3>6. Ssh!EventsTrue' /\ Ssh!NothingLeft'
      BY <2>2, <3>1 DEF Ssh!EventsTrue, Ssh!NothingLeft, Moved, SshTypes, ClientsKnown
    <3> QED BY <3>2, <3>3, <3>4, <3>5, <3>6
  <2> QED BY <1>9, <2>1, <2>2 DEF Ssh!Trusted
<1>10. ASSUME NEW a \in Dials, Ssh!Recorded(a) PROVE SshInv'
  <2>1. CASE Ssh!Refuse(a)
    BY <2>1, RefuseStep
  <2>2. CASE /\ Ssh!At(a, "connected")
             /\ controller' = IF controller = a THEN None ELSE controller
             /\ pending' = IF pending = a THEN None ELSE pending
             /\ lane' = Tail(lane)
             /\ UNCHANGED <<owner, session, client, socket, ending, told>>
    <3>1. Moved(a, "connected") /\ call[a].at = "records" /\ Ssh!Running(a)
      BY <1>10, <2>2, MovedFacts DEF Ssh!Recorded, LaneHeld
    <3>2. SshTypes'
      BY <2>2, <3>1, SshHeads DEF SshTypes, Moved
    <3>3. LaneHeld'
      BY <2>2, <3>1 DEF LaneHeld, Moved
    <3>4. ClientsKnown'
      BY <2>2, <3>1 DEF ClientsKnown, Moved
    <3>5. LastWord'
      BY <2>2, <3>1 DEF LastWord, Moved
    <3>6. Ssh!EventsTrue' /\ Ssh!NothingLeft'
      BY <2>2, <3>1 DEF Ssh!EventsTrue, Ssh!NothingLeft, Moved
    <3> QED BY <3>2, <3>3, <3>4, <3>5, <3>6
  <2> QED BY <1>10, <2>1, <2>2 DEF Ssh!Recorded
<1>11. ASSUME NEW a \in Dials, Ssh!Closes(a) PROVE SshInv'
  BY <1>11, ClosesStep
<1>12. ASSUME NEW d \in HangUps, Ssh!Runs(d) PROVE SshInv'
  <2>1. /\ Ssh!Running(d) /\ ending[d].at = "queued" /\ Ssh!Leaves
        /\ ending' = [ending EXCEPT ![d] = [at |-> "waits", ends |-> session]]
        /\ UNCHANGED <<owner, controller, lane, pending, call, socket>>
    BY <1>12 DEF Ssh!Runs
  <2>2. SshTypes'
    BY <2>1, LeavesFacts DEF SshTypes
  <2>3. LaneHeld'
    BY <2>1 DEF LaneHeld, SshTypes
  <2>4. ClientsKnown'
    BY <2>1, LeavesFacts DEF ClientsKnown
  <2>5. LastWord'
    BY <2>1 DEF LastWord
  <2>6. Ssh!EventsTrue' /\ Ssh!NothingLeft'
    BY <2>1, LeavesFacts DEF Ssh!EventsTrue, Ssh!NothingLeft
  <2> QED BY <2>2, <2>3, <2>4, <2>5, <2>6
<1>13. ASSUME NEW d \in HangUps, Ssh!Disconnected(d) PROVE SshInv'
  <2>1. /\ ending[d].at = "waits" /\ lane' = Tail(lane) /\ Ssh!Running(d)
        /\ ending' = [ending EXCEPT ![d] = [at |-> "over", ends |-> None]]
        /\ UNCHANGED <<owner, controller, pending, session, call, client, socket, told>>
    BY <1>13 DEF Ssh!Disconnected, LaneHeld
  <2>2. SshTypes'
    BY <2>1, SshHeads DEF SshTypes
  <2>3. LaneHeld'
    BY <2>1 DEF LaneHeld, SshTypes
  <2>4. ClientsKnown' /\ LastWord' /\ Ssh!EventsTrue' /\ Ssh!NothingLeft'
    BY <2>1 DEF ClientsKnown, LastWord, Ssh!EventsTrue, Ssh!NothingLeft
  <2> QED BY <2>2, <2>3, <2>4
<1>14. CASE UNCHANGED Ssh!vars
  BY <1>14 DEF Ssh!vars, SshTypes, LaneHeld, ClientsKnown, LastWord, Ssh!EventsTrue, Ssh!NothingLeft
<1> QED BY <1>1, <1>2, <1>3, <1>4, <1>5, <1>6, <1>7, <1>8, <1>9, <1>10, <1>11, <1>12, <1>13, <1>14
        DEF Ssh!Next, Ssh!ForceDisconnect

\* Two clients that are alive are one: that of the session, or that of the call
\* that runs.
LEMMA OneAlive == SshInv => Ssh!OneClient
  BY DialsDistinct DEF SshInv, Ssh!OneClient, ClientsKnown, LaneHeld, Ssh!Running, Dialing, Ssh!Alive

\* What a step owes the later call.
Overtaking ==
  /\ \A a \in Dials :
       call[a].overtaken => /\ session # a => session' # a
                            /\ call'[a].at = "connected" => call[a].at = "connected"
  /\ \A a, b \in Dials, d \in HangUps :
       Ssh!ForceDisconnect(a, d) /\ b # a =>
         /\ session = a \/ session' = session
         /\ call'[b].aborted = call[b].aborted

\* A call that was overtaken gets no session, and a close by it leaves the later one alone.
LEMMA SshOvertaken == SshInv /\ [Ssh!Next]_(Ssh!vars) => Overtaking
<1> SUFFICES ASSUME SshInv, [Ssh!Next]_(Ssh!vars) PROVE Overtaking
  OBVIOUS
<1> USE DialsDistinct DEF SshInv, MaybeDial
<1> DEFINE Stands(a) == /\ session # a => session' # a
                        /\ call'[a].at = "connected" => call[a].at = "connected"
<1>1. ASSUME NEW a \in Dials, call[a].overtaken PROVE Stands(a)
  <2>1. owner # a /\ pending # a
    BY <1>1 DEF LastWord
  <2>2. ASSUME NEW b \in Dials, Ssh!Refuse(b) PROVE Stands(a)
    BY <2>2, RefuseFacts DEF Moved
  <2>3. ASSUME NEW b \in Dials, Ssh!Connect(b) PROVE Stands(a)
    <3>1. Ssh!Stops(Ssh!Aborted, UNION {Ssh!CancelledWith(c) : c \in Ssh!Aborted}, b) /\ session' = session
      BY <2>3 DEF Ssh!Connect
    <3>2. call'[b].at = "prepares"
      BY <3>1, StopsFacts DEF Ssh!NoAttempt
    <3> QED BY <3>1, <3>2, StopsFacts
  <2>4. ASSUME NEW d \in HangUps, Ssh!Disconnect(d) PROVE Stands(a)
    BY <2>4, StopsFacts DEF Ssh!Disconnect
  <2>5. ASSUME NEW b \in Dials, NEW s \in {"queued", "reads", "connects", "trusts"}, Ssh!At(b, s), UNCHANGED session
        PROVE  Stands(a)
    <3>1. s \in {"none", "prepares", "queued", "reads", "replaces", "identifies",
                 "connects", "trusts", "records", "connected", "refused"} /\ None \in MaybeDial
      BY <2>5
    <3>2. Moved(b, s)
      BY <2>5, <3>1, MovedFacts
    <3> QED BY <2>5, <3>2 DEF Moved
  <2>6. ASSUME NEW b \in Dials,
               \/ Ssh!Prepared(b) \/ Ssh!Turn(b) \/ Ssh!Identified(b) \/ Ssh!Ready(b)
        PROVE  Stands(a)
    BY <2>2, <2>5, <2>6 DEF Ssh!Prepared, Ssh!Turn, Ssh!Identified, Ssh!Ready
  <2>7. ASSUME NEW b \in Dials, Ssh!Replaces(b) \/ Ssh!Replaced(b) PROVE Stands(a)
    <3>1. CASE Ssh!Refuse(b)
      BY <2>2, <3>1
    <3>2. CASE ~Ssh!Refuse(b)
      <4>1. \/ Moved(b, "replaces") /\ session' = None
            \/ Moved(b, "identifies") /\ session' = session
        BY <2>7, <3>2, MovedFacts DEF Ssh!Replaces, Ssh!Replaced, Ssh!Leaves, SshTypes
      <4> QED BY <4>1 DEF Moved
    <3> QED BY <3>1, <3>2
  <2>8. ASSUME NEW b \in Dials, Ssh!Trusted(b) PROVE Stands(a)
    <3>1. CASE Ssh!Refuse(b)
      BY <2>2, <3>1
    <3>2. CASE ~Ssh!Refuse(b)
      <4>1. pending = b /\ Moved(b, "records") /\ session' = b
        BY <2>8, <3>2, MovedFacts DEF Ssh!Trusted, Ssh!StillPending
      <4> QED BY <2>1, <4>1 DEF Moved
    <3> QED BY <3>1, <3>2
  <2>9. ASSUME NEW b \in Dials, Ssh!Recorded(b) PROVE Stands(a)
    <3>1. CASE Ssh!Refuse(b)
      BY <2>2, <3>1
    <3>2. CASE ~Ssh!Refuse(b)
      <4>1. owner = b /\ Moved(b, "connected") /\ session' = session
        BY <2>9, <3>2, MovedFacts DEF Ssh!Recorded, Ssh!Confirmed, Ssh!Owned
      <4> QED BY <2>1, <4>1 DEF Moved
    <3> QED BY <3>1, <3>2
  <2>10. ASSUME NEW b \in Dials, Ssh!Closes(b) PROVE Stands(a)
    <3>1. session' \in {None, session}
      BY <2>10 DEF Ssh!Closes
    <3>2. call'[a].at \in {"refused", call[a].at}
      BY <2>10 DEF Ssh!Closes, SshTypes, DialRecord
    <3> QED BY <3>1, <3>2
  <2>11. ASSUME NEW d \in HangUps, Ssh!Runs(d) \/ Ssh!Disconnected(d) PROVE Stands(a)
    BY <2>11 DEF Ssh!Runs, Ssh!Disconnected, Ssh!Leaves
  <2>12. CASE UNCHANGED Ssh!vars
    BY <2>12 DEF Ssh!vars
  <2> HIDE DEF Stands
  <2> QED BY <2>3, <2>4, <2>6, <2>7, <2>8, <2>9, <2>10, <2>11, <2>12 DEF Ssh!Next, Ssh!ForceDisconnect
<1>2. ASSUME NEW a \in Dials, NEW b \in Dials, NEW d \in HangUps,
             Ssh!ForceDisconnect(a, d), b # a
      PROVE  session' = session /\ call'[b].aborted = call[b].aborted
  <2>1. owner = a /\ Ssh!Disconnect(d)
    BY <1>2 DEF Ssh!ForceDisconnect, Ssh!StillDue
  <2>2. b \notin Ssh!Aborted
    BY <1>2, <2>1 DEF LastWord, Ssh!Aborted
  <2>3. Ssh!Stops(Ssh!Aborted, Ssh!Cancelled, None) /\ session' = session
    BY <2>1 DEF Ssh!Disconnect
  <2>4. call'[b] = [call[b] EXCEPT !.aborted = @ \/ b \in Ssh!Aborted, !.cancelled = @ \/ b \in Ssh!Cancelled,
                                         !.overtaken = @ \/ ~Ssh!Over(b)]
    BY <2>3 DEF Ssh!Stops
  <2>5. call[b] \in DialRecord
    BY DEF SshTypes
  <2> QED BY <2>2, <2>3, <2>4, <2>5 DEF DialRecord
<1> QED BY <1>1, <1>2 DEF Overtaking


-----------------------------------------------------------------------------
(* Terminals: the terminals of one tab of the server.                        *)

\* From the assumption of the instance.
LEMMA TerminalsNumbered == MaxTerminals \in Nat /\ None \notin Term!Terminals
  BY SavedConnectionsAssumption DEF Term!TerminalsAssumption

\* Why terminals end.
Reasons == {"none", "connection-lost", "user-disconnected", "disconnected", "configuration-changed",
            "replaced", "remote-exit", "channel-closed", "channel-error", "scope-invalidated",
            "user-closed", "window-closed"}

\* Why the scope of a connection is closed.
Closings == {"connection-lost", "user-disconnected", "disconnected", "configuration-changed"}

\* The record of a terminal.
TermRecord ==
  [at : {"none", "audits", "opening", "starting", "done", "over"},
   status : {"none", "opening", "open", "closed"}, reason : Reasons, known : BOOLEAN,
   exited : BOOLEAN, pending : BOOLEAN, of : Term!Terminals \cup {None}, config : Nat, generation : Nat,
   over : BOOLEAN]

\* The request for one.
AskRecord == [at : {"none", "read"}, of : Term!Terminals \cup {None}, stale : BOOLEAN, config : Nat]

\* The channel of a terminal.
Shells == {"none", "asked", "open", "ended", "gone"}

\* The types.
TermTypes ==
  /\ connection \in [up : BOOLEAN, generation : Nat]
  /\ config \in [version : Nat, save : {"none", "writes", "written"}]
  /\ opened \in 0..MaxTerminals
  /\ ask \in [Asks -> AskRecord]
  /\ term \in [Term!Terminals -> TermRecord]
  /\ shell \in [Term!Terminals -> Shells]
  /\ closing \in Term!Terminals \cup {None}

\* A record by itself: one that is live is known, one whose round is not over has
\* ended, and the history is right about those that ended by themselves.
RecordOK(r) ==
  /\ r \in TermRecord
  /\ Term!Live(r) => r.known
  /\ r.known => r.status # "none"
  /\ r.pending => r.status = "closed"
  /\ r.over =>
       \/ r.exited
       \/ /\ r.status = "closed" /\ r.reason # "connection-lost"
          /\ ~(r.pending /\ Term!Uncertain(r.reason))

\* Terminals are numbered: one that continues another came later.
Numbered ==
  /\ \A t \in Term!Terminals : t > opened => term[t] = Term!NoTerm /\ shell[t] = "none"
  /\ \A t \in Term!Terminals : term[t].of # None => term[t].of < t
  /\ \A a \in Asks : ask[a].of # None => ask[a].of <= opened
  /\ closing # None => closing <= opened

\* Until the file is written nothing live has other settings than those on disk.
SettingsOnDisk ==
  config.save # "written" =>
    /\ \A t \in Term!Terminals : Term!Live(term[t]) => term[t].config = config.version
    /\ \A a \in Asks : ask[a].at = "read" /\ ~ask[a].stale /\ connection.up =>
         ask[a].config = config.version

\* The invariant.
TerminalsInv ==
  /\ TermTypes /\ \A t \in Term!Terminals : RecordOK(term[t])
  /\ Numbered /\ SettingsOnDisk
  /\ Term!ShellsOwned /\ Term!OneInTab /\ Term!NotResurrected

\* What a step may make of a record without harm to the others.
Continues(r, q) ==
  /\ RecordOK(q)
  /\ Term!Live(q) => Term!Live(r) /\ q.config = r.config /\ q.generation = r.generation
  /\ r.status = "open" => q.status # "opening"
  /\ q.of \in {r.of, None}

\* ... and that the user did not close what had ended before.
Follows(r, q) ==
  /\ Continues(r, q)
  /\ q.reason = "user-closed" => r.reason = "user-closed" \/ Term!Live(r)

\* Records with other values.
LEMMA SetField ==
  ASSUME NEW r, r \in TermRecord
  PROVE  /\ \A x \in {"none", "audits", "opening", "starting", "done", "over"} :
              [r EXCEPT !.at = x] \in TermRecord
         /\ \A x \in Reasons, p \in BOOLEAN :
              [r EXCEPT !.status = "closed", !.reason = x, !.pending = p] \in TermRecord
         /\ \A x \in Reasons : [r EXCEPT !.reason = x] \in TermRecord
         /\ \A b \in BOOLEAN : [r EXCEPT !.over = b] \in TermRecord
         /\ \A b \in BOOLEAN : [r EXCEPT !.pending = b] \in TermRecord
  BY DEF TermRecord

\* What finish makes of a record.
LEMMA FinishedFacts ==
  ASSUME NEW r, RecordOK(r), NEW x \in Reasons
  PROVE  /\ Term!Live(r) => Term!Finished(r, x) =
              [r EXCEPT !.status = "closed", !.reason = x, !.pending = Term!Uncertain(x)]
         /\ ~Term!Live(r) => Term!Finished(r, x) = r
         /\ Term!Finished(r, x) \in TermRecord /\ ~Term!Live(Term!Finished(r, x))
         /\ Term!Finished(r, x).known = r.known /\ Term!Finished(r, x).of = r.of
         /\ Term!Finished(r, x).at = r.at
  <1>1. Term!Uncertain(x) \in BOOLEAN
    BY DEF Term!Uncertain
  <1>2. r \in TermRecord
    BY DEF RecordOK
  <1>3. [r EXCEPT !.status = "closed", !.reason = x, !.pending = Term!Uncertain(x)] \in TermRecord
    BY <1>1, <1>2, SetField
  <1> QED
    BY <1>1, <1>2, <1>3 DEF RecordOK, Term!Finished, Term!Live, TermRecord

\* It stays known.
LEMMA FinishedKnown ==
  ASSUME NEW r, RecordOK(r), NEW x \in Reasons
  PROVE  Term!Finished(r, x).known = r.known
  BY FinishedFacts

\* It is closed.
LEMMA FinishedCloses ==
  ASSUME NEW r, RecordOK(r), r.known, NEW x \in Reasons
  PROVE  Term!Finished(r, x).status = "closed"
  <1>1. r.status \in {"opening", "open", "closed"} /\ r \in TermRecord
    BY DEF RecordOK, TermRecord
  <1>2. CASE ~Term!Live(r)
    <2>1. Term!Finished(r, x) = r
      BY <1>2, FinishedFacts
    <2> QED BY <1>1, <1>2, <2>1 DEF Term!Live
  <1>3. CASE Term!Live(r)
    <2>1. Term!Finished(r, x) = [r EXCEPT !.status = "closed", !.reason = x, !.pending = Term!Uncertain(x)]
      BY <1>3, FinishedFacts
    <2> QED BY <1>1, <2>1 DEF TermRecord
  <1> QED BY <1>2, <1>3

\* Nothing happened to it.
LEMMA FollowsSelf ==
  ASSUME NEW r, RecordOK(r)
  PROVE  Follows(r, r)
  BY DEF Follows, Continues, RecordOK, TermRecord

\* The end of a terminal.
LEMMA FinishedFollows ==
  ASSUME NEW r, RecordOK(r), NEW x \in Reasons,
         x # "connection-lost" \/ ~r.over \/ r.exited
  PROVE  Follows(r, Term!Finished(r, x))
  <1>1. CASE ~Term!Live(r)
    <2>1. Term!Finished(r, x) = r
      BY <1>1, FinishedFacts
    <2> QED BY <2>1, FollowsSelf
  <1>2. CASE Term!Live(r)
    <2> DEFINE q == Term!Finished(r, x)
    <2>1. q = [r EXCEPT !.status = "closed", !.reason = x, !.pending = Term!Uncertain(x)]
      BY <1>2, FinishedFacts
    <2>2. q \in TermRecord /\ ~Term!Live(q) /\ q.known = r.known /\ q.of = r.of
      BY FinishedFacts
    <2>3. q.status = "closed" /\ q.over = r.over /\ q.exited = r.exited
      BY <2>1 DEF RecordOK, TermRecord
    <2>4. r.over => r.exited
      BY <1>2 DEF RecordOK, Term!Live
    <2> QED
      BY <1>2, <2>2, <2>3, <2>4 DEF Follows, Continues, RecordOK, TermRecord
  <1> QED BY <1>1, <1>2

\* No terminal.
LEMMA NoTermOK == RecordOK(Term!NoTerm) /\ ~Term!Live(Term!NoTerm)
  BY TerminalsNumbered DEF RecordOK, Term!NoTerm, Term!Live, TermRecord, Term!Uncertain, Reasons

\* A record that is released.
LEMMA ReleasedFollows ==
  ASSUME NEW r, RecordOK(r), NEW q, q = r \/ (q \in TermRecord /\ q.at = r.at)
  PROVE  /\ Follows(r, Term!Released(q)) /\ ~Term!Live(Term!Released(q)) /\ ~Term!Released(q).known
         /\ Term!Released(q).at = IF q.at = "done" THEN "over" ELSE q.at
         /\ Term!Released(q).reason = "none"
  <1> DEFINE x == IF q.at = "done" THEN "over" ELSE q.at
  <1>1. x \in {"none", "audits", "opening", "starting", "done", "over"}
    BY DEF RecordOK, TermRecord
  <1>2. Term!Released(q) = [Term!NoTerm EXCEPT !.at = x, !.status = "closed"]
    BY DEF Term!Released
  <1> HIDE DEF x
  <1>3. Term!Released(q) =
          [at |-> x, status |-> "closed", reason |-> "none", known |-> FALSE,
           exited |-> FALSE, pending |-> FALSE, of |-> None, config |-> 0, generation |-> 0,
           over |-> FALSE]
    BY <1>2 DEF Term!NoTerm
  <1>4. Term!Released(q) \in TermRecord
    BY <1>1, <1>3 DEF TermRecord, Reasons
  <1>5. /\ Term!Released(q).status = "closed" /\ ~Term!Released(q).known /\ Term!Released(q).at = x
        /\ Term!Released(q).reason = "none" /\ Term!Released(q).of = None /\ ~Term!Released(q).over
        /\ ~Term!Released(q).pending
    BY <1>3
  <1> QED
    BY <1>4, <1>5 DEF Follows, Continues, RecordOK, Term!Live, x

\* A start that failed.
LEMMA FailedFollows ==
  ASSUME NEW r, RecordOK(r)
  PROVE  Follows(r, Term!Failed(r)) /\ ~Term!Live(Term!Failed(r)) /\ ~Term!Failed(r).known
  <1>1. Term!Failed(r) =
          [at |-> "over", status |-> "closed", reason |-> "none", known |-> FALSE,
           exited |-> FALSE, pending |-> FALSE, of |-> None, config |-> 0, generation |-> 0,
           over |-> FALSE]
    <2>1. Term!Failed(r) = [Term!Released(r) EXCEPT !.at = "over"]
      BY DEF Term!Failed
    <2> DEFINE x == IF r.at = "done" THEN "over" ELSE r.at
    <2>2. Term!Released(r) = [Term!NoTerm EXCEPT !.at = x, !.status = "closed"]
      BY DEF Term!Released
    <2> HIDE DEF x
    <2>3. Term!Failed(r) = [[Term!NoTerm EXCEPT !.at = x, !.status = "closed"] EXCEPT !.at = "over"]
      BY <2>1, <2>2
    <2> QED BY <2>3 DEF Term!NoTerm
  <1>2. Term!Failed(r) \in TermRecord
    BY <1>1 DEF TermRecord, Reasons
  <1> QED
    BY <1>1, <1>2 DEF Follows, Continues, RecordOK, Term!Live

\* The end of the connection.
LEMMA ScopeClosedFollows ==
  ASSUME NEW r, RecordOK(r),
         NEW x \in Closings
  PROVE  /\ Follows(r, Term!ScopeClosed(r, x)) /\ ~Term!Live(Term!ScopeClosed(r, x))
         /\ Term!ScopeClosed(r, x).known = r.known
         /\ ~r.known => Term!ScopeClosed(r, x) = r
         /\ r.known /\ x # "connection-lost" =>
              /\ Term!ScopeClosed(r, x).status = "closed"
              /\ Term!ScopeClosed(r, x).reason = x
  <1>a. x \in Reasons
    BY DEF Reasons, Closings
  <1>b. r \in TermRecord
    BY DEF RecordOK
  <1>0. x \in Reasons /\ r \in TermRecord
    BY <1>a, <1>b
  <1>c. /\ Term!Live(r) => Term!Finished(r, x) =
              [r EXCEPT !.status = "closed", !.reason = x, !.pending = Term!Uncertain(x)]
        /\ ~Term!Live(r) => Term!Finished(r, x) = r
        /\ Term!Finished(r, x) \in TermRecord /\ ~Term!Live(Term!Finished(r, x))
        /\ Term!Finished(r, x).known = r.known
    BY <1>a, FinishedFacts
  <1>1. CASE ~r.known
    BY <1>1, FollowsSelf DEF Term!ScopeClosed, RecordOK
  <1>2. ASSUME r.known, r.status = "closed", Term!ScopeClosed(r, x) = [r EXCEPT !.reason = x],
               r.over => x # "connection-lost"
        PROVE  /\ Follows(r, Term!ScopeClosed(r, x)) /\ ~Term!Live(Term!ScopeClosed(r, x))
               /\ Term!ScopeClosed(r, x).known = r.known
               /\ Term!ScopeClosed(r, x).status = "closed"
               /\ Term!ScopeClosed(r, x).reason = x
    <2>1. [r EXCEPT !.reason = x] \in TermRecord
      BY <1>0, SetField
    <2>2. ~Term!Uncertain(x) /\ x # "user-closed"
      BY DEF Term!Uncertain, Closings
    <2> QED
      BY <1>0, <1>2, <2>1, <2>2 DEF Follows, Continues, RecordOK, Term!Live, TermRecord
  <1>3. ASSUME r.known, Term!ScopeClosed(r, x) = Term!Finished(r, x), Term!Live(r) \/ x = "connection-lost"
        PROVE  /\ Follows(r, Term!ScopeClosed(r, x)) /\ ~Term!Live(Term!ScopeClosed(r, x))
               /\ Term!ScopeClosed(r, x).known = r.known
               /\ Term!ScopeClosed(r, x).status = "closed"
               /\ Term!Live(r) => Term!ScopeClosed(r, x).reason = x
    <2>1. /\ ~Term!Live(Term!Finished(r, x)) /\ Term!Finished(r, x).known = r.known
          /\ Term!Finished(r, x).status = "closed"
      BY <1>3, <1>a, <1>c, FinishedCloses
    <2>2. CASE Term!Live(r)
      <3>1. ~r.over \/ r.exited
        BY <2>2 DEF RecordOK, Term!Live
      <3>2. Follows(r, Term!Finished(r, x))
        BY <1>0, <3>1, FinishedFollows
      <3>3. Term!Finished(r, x) = [r EXCEPT !.status = "closed", !.reason = x, !.pending = Term!Uncertain(x)]
        BY <2>2, <1>c
      <3>4. Term!Finished(r, x).reason = x
        BY <1>0, <3>3 DEF TermRecord
      <3> QED BY <1>3, <2>1, <3>2, <3>4
    <2>3. CASE ~Term!Live(r)
      <3>1. Term!Finished(r, x) = r
        BY <2>3, <1>c
      <3>2. Follows(r, Term!Finished(r, x))
        BY <3>1, FollowsSelf
      <3> QED BY <1>3, <2>1, <2>3, <3>2
    <2> QED BY <2>2, <2>3
  <1>4. CASE r.known /\ x = "connection-lost"
    <2>1. CASE ~r.exited /\ (Term!CanRecover(r) \/ (Term!Uncertain(r.reason) /\ r.pending))
      <3>1. r.status = "closed" /\ ~r.over
        BY <2>1 DEF RecordOK, Term!CanRecover, Term!Uncertain
      <3>2. Term!ScopeClosed(r, x) = [r EXCEPT !.reason = x]
        BY <1>4, <2>1 DEF Term!ScopeClosed
      <3> QED BY <1>2, <1>4, <3>1, <3>2
    <2>2. CASE ~(~r.exited /\ (Term!CanRecover(r) \/ (Term!Uncertain(r.reason) /\ r.pending)))
      <3>1. Term!ScopeClosed(r, x) = Term!Finished(r, x)
        BY <1>4, <2>2 DEF Term!ScopeClosed
      <3> QED BY <1>3, <1>4, <3>1
    <2> QED BY <2>1, <2>2
  <1>5. CASE r.known /\ x # "connection-lost"
    <2>1. CASE r.status = "closed"
      <3>1. Term!ScopeClosed(r, x) = [r EXCEPT !.reason = x]
        BY <1>5, <2>1 DEF Term!ScopeClosed
      <3> QED BY <1>2, <1>5, <2>1, <3>1
    <2>2. CASE r.status # "closed"
      <3>1. Term!ScopeClosed(r, x) = Term!Finished(r, x)
        BY <1>5, <2>2 DEF Term!ScopeClosed
      <3>2. Term!Live(r)
        BY <1>0, <1>5, <2>2 DEF RecordOK, Term!Live, TermRecord
      <3> QED BY <1>3, <1>5, <3>1, <3>2
    <2> QED BY <2>1, <2>2
  <1> QED
    BY <1>0, <1>1, <1>4, <1>5 DEF TermRecord

\* The history is written when the terminal did not end with its connection.
LEMMA EndedFollows ==
  ASSUME NEW r, NEW q, Follows(r, q),
         q.known => \/ q.exited
                    \/ /\ q.status = "closed" /\ q.reason # "connection-lost"
                       /\ ~(q.pending /\ Term!Uncertain(q.reason))
  PROVE  /\ Follows(r, Term!Ended(q)) /\ (Term!Live(Term!Ended(q)) <=> Term!Live(q)) /\ Term!Ended(q).known = q.known
         /\ Term!Ended(q).status = q.status /\ Term!Ended(q).of = q.of /\ Term!Ended(q).reason = q.reason
         /\ ~q.known /\ ~q.over => Term!Ended(q) = q
  <1>1. q \in TermRecord /\ q.known \in BOOLEAN
    BY DEF Follows, Continues, RecordOK, TermRecord
  <1>2. Term!Ended(q) \in TermRecord
    BY <1>1, SetField DEF Term!Ended
  <1>3. /\ Term!Ended(q).over = q.known /\ Term!Ended(q).known = q.known /\ Term!Ended(q).status = q.status
        /\ Term!Ended(q).reason = q.reason /\ Term!Ended(q).pending = q.pending /\ Term!Ended(q).of = q.of
        /\ Term!Ended(q).exited = q.exited /\ Term!Ended(q).config = q.config
        /\ Term!Ended(q).generation = q.generation
    BY <1>1 DEF Term!Ended, TermRecord
  <1>4. ~q.known /\ ~q.over => Term!Ended(q) = q
    BY <1>1 DEF Term!Ended, TermRecord
  <1> HIDE DEF Term!Ended
  <1> QED
    BY <1>2, <1>3, <1>4 DEF Follows, Continues, RecordOK, Term!Live

\* The new records of a step, one by one.
Steps ==
  /\ term' \in [Term!Terminals -> TermRecord]
  /\ \A t \in Term!Terminals : Continues(term[t], term'[t])
  /\ \A t \in Term!Terminals : t > opened => term'[t] = Term!NoTerm
  /\ \A t \in Term!Terminals :
       term'[t].reason = "user-closed" /\ term[t].reason # "user-closed" /\ ~Term!Live(term[t]) =>
         \A r \in Term!Terminals : term'[r].of = t => ~Term!Live(term'[r])

\* Steps of the records keep what the invariant says of them: a terminal that continues
\* another one came later, so that a recovery under way is not what it continues.
LEMMA StepsKeep ==
  ASSUME TerminalsInv, Steps
  PROVE  /\ \A t \in Term!Terminals : RecordOK(term'[t])
         /\ \A t \in Term!Terminals : term'[t].of # None => term'[t].of < t
         /\ Term!OneInTab' /\ Term!NotResurrected'
         /\ \A t \in Term!Terminals : Term!Live(term'[t]) =>
              /\ Term!Live(term[t]) /\ connection.up /\ term'[t].generation = connection.generation
              /\ config.save # "written" => term'[t].config = config.version
  <1> USE DEF Steps
  <1>1. \A t \in Term!Terminals : RecordOK(term'[t])
    BY DEF Follows, Continues
  <1>2. \A t \in Term!Terminals : term'[t].of # None => term'[t].of = term[t].of /\ term'[t].of < t
    BY DEF TerminalsInv, Numbered, Continues
  <1>3. \A t \in Term!Terminals : Term!Live(term'[t]) =>
          /\ Term!Live(term[t]) /\ term'[t].config = term[t].config
          /\ term'[t].generation = term[t].generation
    BY DEF Follows, Continues
  <1>4. Term!OneInTab'
    BY <1>3 DEF TerminalsInv, Term!OneInTab
  <1>5. \A t \in Term!Terminals : Term!Live(term'[t]) =>
          /\ connection.up /\ term'[t].generation = connection.generation
          /\ config.save # "written" => term'[t].config = config.version
    BY <1>3 DEF TerminalsInv, Term!ShellsOwned, SettingsOnDisk
  <1>6. ASSUME NEW t \in Term!Terminals
        PROVE  term'[t].over => ~Term!CanRecover(term'[t])
    <2>1. RecordOK(term'[t])
      BY <1>1
    <2> QED BY <2>1 DEF RecordOK, Term!CanRecover
  <1>7. ASSUME NEW t \in Term!Terminals, term'[t].reason = "user-closed",
               NEW r \in Term!Terminals, term'[r].of = t, Term!Live(term'[r])
        PROVE  FALSE
    <2>1. term[r].of = t /\ term[r].of < r /\ Term!Live(term[r])
      BY <1>2, <1>3, <1>7, TerminalsNumbered
    <2>2. term[t].reason # "user-closed"
      BY <2>1 DEF TerminalsInv, Term!NotResurrected
    <2>3. Term!Live(term[t])
      BY <1>7, <2>2
    <2>4. t = r
      BY <2>1, <2>3 DEF TerminalsInv, Term!OneInTab
    <2> QED BY <2>1, <2>4 DEF Term!Terminals
  <1>8. Term!NotResurrected'
    BY <1>6, <1>7 DEF Term!NotResurrected
  <1> QED
    BY <1>1, <1>2, <1>3, <1>4, <1>5, <1>8

\* The rest of a step.
Around ==
  /\ connection' \in [up : BOOLEAN, generation : Nat]
  /\ config' \in [version : Nat, save : {"none", "writes", "written"}]
  /\ ask' \in [Asks -> AskRecord]
  /\ \A a \in Asks : ask'[a].of # None => ask'[a].of <= opened
  /\ closing' \in Term!Terminals \cup {None} /\ (closing' # None => closing' <= opened)
  /\ opened' = opened
  /\ shell' \in [Term!Terminals -> Shells]
  /\ \A t \in Term!Terminals : t > opened => shell'[t] = "none"
  /\ \A t \in Term!Terminals : shell'[t] = "open" => term'[t].status = "open" /\ term'[t].known
  /\ connection' = connection \/ \A t \in Term!Terminals : ~Term!Live(term'[t])
  /\ config'.save # "written" =>
       /\ \/ config.save # "written" /\ config'.version = config.version
          \/ \A t \in Term!Terminals : ~Term!Live(term'[t])
       /\ \A a \in Asks : ask'[a].at = "read" /\ ~ask'[a].stale /\ connection'.up =>
            ask'[a].config = config'.version

\* The two give the invariant.
LEMMA StepKeeps ==
  ASSUME TerminalsInv, Steps, Around
  PROVE  TerminalsInv'
  <1> USE DEF Around
  <1>1. /\ \A t \in Term!Terminals : RecordOK(term'[t])
        /\ \A t \in Term!Terminals : term'[t].of # None => term'[t].of < t
        /\ Term!OneInTab' /\ Term!NotResurrected'
        /\ \A t \in Term!Terminals : Term!Live(term'[t]) =>
              /\ Term!Live(term[t]) /\ connection.up /\ term'[t].generation = connection.generation
              /\ config.save # "written" => term'[t].config = config.version
    BY StepsKeep
  <1>2. TermTypes'
    BY DEF TermTypes, Steps, TerminalsInv
  <1>3. Numbered'
    BY <1>1 DEF Numbered, Steps
  <1>4. SettingsOnDisk'
    BY <1>1 DEF SettingsOnDisk
  <1>5. Term!ShellsOwned'
    BY <1>1 DEF Term!ShellsOwned
  <1> QED
    BY <1>1, <1>2, <1>3, <1>4, <1>5 DEF TerminalsInv

\* A step of one record.
LEMMA OneStep ==
  ASSUME TerminalsInv, NEW t \in Term!Terminals, t <= opened, NEW q,
         Follows(term[t], q), term' = [term EXCEPT ![t] = q]
  PROVE  Steps /\ term'[t] = q /\ \A r \in Term!Terminals : r # t => term'[r] = term[r]
  <1>0. term \in [Term!Terminals -> TermRecord] /\ opened \in Nat
    BY TerminalsNumbered DEF TerminalsInv, TermTypes
  <1>1. term'[t] = q /\ \A r \in Term!Terminals : r # t => term'[r] = term[r]
    BY <1>0
  <1>2. q \in TermRecord
    BY DEF Follows, Continues, RecordOK
  <1>3. term' \in [Term!Terminals -> TermRecord]
    BY <1>0, <1>2
  <1>4. \A r \in Term!Terminals : Follows(term[r], term'[r])
    BY <1>1, FollowsSelf DEF TerminalsInv
  <1>5. \A r \in Term!Terminals : r > opened => term'[r] = Term!NoTerm
    BY <1>0, <1>1, TerminalsNumbered DEF TerminalsInv, Numbered, Term!Terminals
  <1> QED
    BY <1>1, <1>3, <1>4, <1>5 DEF Steps, Follows

\* The channels of what is finished are destroyed: none is open without its record.
LEMMA DestroysKeep ==
  ASSUME TerminalsInv, Steps, Term!Destroys
  PROVE  /\ shell' \in [Term!Terminals -> Shells]
         /\ \A t \in Term!Terminals : t > opened => shell'[t] = "none"
         /\ \A t \in Term!Terminals : shell'[t] = "open" => term'[t].status = "open" /\ term'[t].known
  <1>0. shell \in [Term!Terminals -> Shells] /\ \A t \in Term!Terminals : RecordOK(term'[t])
    BY DEF TerminalsInv, TermTypes, Steps, Continues
  <1>1. \A t \in Term!Terminals :
          shell'[t] = IF shell[t] = "open" /\ ~Term!Live(term'[t]) THEN "gone" ELSE shell[t]
    BY DEF Term!Destroys
  <1>2. shell' \in [Term!Terminals -> Shells]
    BY <1>0 DEF Term!Destroys, Shells
  <1>3. \A t \in Term!Terminals : t > opened => shell'[t] = "none"
    BY <1>1 DEF TerminalsInv, Numbered
  <1>4. ASSUME NEW t \in Term!Terminals, shell'[t] = "open"
        PROVE  term'[t].status = "open" /\ term'[t].known
    <2>1. shell[t] = "open" /\ Term!Live(term'[t])
      BY <1>1, <1>4
    <2>2. term[t].status = "open"
      BY <2>1 DEF TerminalsInv, Term!ShellsOwned
    <2>3. term'[t].status # "opening"
      BY <2>2 DEF Steps, Continues
    <2> QED
      BY <1>0, <2>1, <2>3 DEF RecordOK, Term!Live
  <1> QED BY <1>2, <1>3, <1>4

\* A step that leaves all but records and channels alone.
LEMMA RecordsKeep ==
  ASSUME TerminalsInv, Steps, UNCHANGED <<connection, config, opened, ask>>,
         closing' \in {closing, None},
         shell' \in [Term!Terminals -> Shells],
         \A t \in Term!Terminals : t > opened => shell'[t] = "none",
         \A t \in Term!Terminals : shell'[t] = "open" => term'[t].status = "open" /\ term'[t].known
  PROVE  TerminalsInv'
  <1>1. Around
    BY DEF Around, TerminalsInv, TermTypes, Numbered, SettingsOnDisk
  <1> QED BY <1>1, StepKeeps

\* The same, when the channels are destroyed.
LEMMA DestroyedKeep ==
  ASSUME TerminalsInv, Steps, Term!Destroys, UNCHANGED <<connection, config, opened, ask>>,
         closing' \in {closing, None}
  PROVE  TerminalsInv'
  BY DestroysKeep, RecordsKeep

\* closeScope ends all terminals and requests.
LEMMA ScopeStep ==
  ASSUME TerminalsInv, NEW x \in Closings, Term!CloseScope(x)
  PROVE  /\ Steps /\ \A t \in Term!Terminals : ~Term!Live(term'[t]) /\ term'[t].known = term[t].known
         /\ ask' \in [Asks -> AskRecord]
         /\ \A a \in Asks : ask'[a].of = ask[a].of /\ (ask'[a].at = "read" => ask'[a].stale)
  <1> DEFINE F(t) == IF x = "connection-lost" THEN Term!ScopeClosed(term[t], x)
                     ELSE Term!Ended(Term!ScopeClosed(term[t], x))
  <1>1. ASSUME NEW t \in Term!Terminals
        PROVE  /\ Follows(term[t], F(t)) /\ ~Term!Live(F(t)) /\ F(t).known = term[t].known
               /\ t > opened => F(t) = Term!NoTerm
    <2> DEFINE q == Term!ScopeClosed(term[t], x)
    <2>0. RecordOK(term[t]) /\ (t > opened => term[t] = Term!NoTerm)
      BY DEF TerminalsInv, Numbered
    <2>1. /\ Follows(term[t], q) /\ ~Term!Live(q) /\ q.known = term[t].known
          /\ ~term[t].known => q = term[t]
          /\ term[t].known /\ x # "connection-lost" => q.status = "closed" /\ q.reason = x
      BY <2>0, ScopeClosedFollows
    <2>2. x # "connection-lost" /\ q.known =>
            q.status = "closed" /\ q.reason # "connection-lost" /\ ~Term!Uncertain(q.reason)
      BY <2>1 DEF Term!Uncertain, Closings
    <2> HIDE DEF q
    <2>3. ~Term!NoTerm.known /\ ~Term!NoTerm.over
      BY DEF Term!NoTerm
    <2>4. CASE x = "connection-lost"
      BY <2>0, <2>1, <2>3, <2>4 DEF q
    <2>5. CASE x # "connection-lost"
      <3>1. F(t) = Term!Ended(q)
        BY <2>5 DEF q
      <3>2. /\ Follows(term[t], Term!Ended(q)) /\ (Term!Live(Term!Ended(q)) <=> Term!Live(q))
            /\ Term!Ended(q).known = q.known
            /\ ~q.known /\ ~q.over => Term!Ended(q) = q
        BY <2>1, <2>2, <2>5, EndedFollows
      <3> HIDE DEF F
      <3>3. t > opened => Term!Ended(q) = Term!NoTerm
        BY <2>0, <2>1, <2>3, <3>2
      <3> QED BY <2>1, <3>1, <3>2, <3>3
    <2> QED BY <2>4, <2>5
  <1> HIDE DEF F
  <1>2. term' = [t \in Term!Terminals |-> F(t)]
    BY DEF Term!CloseScope, F
  <1>3. \A t \in Term!Terminals : F(t) \in TermRecord
    BY <1>1 DEF Follows, Continues, RecordOK
  <1>4. Steps /\ \A t \in Term!Terminals : ~Term!Live(term'[t]) /\ term'[t].known = term[t].known
    BY <1>1, <1>2, <1>3 DEF Steps, Follows
  <1>5. ask \in [Asks -> AskRecord]
    BY DEF TerminalsInv, TermTypes
  <1>6. \A a \in Asks : [ask[a] EXCEPT !.stale = ask[a].at # "none"] \in AskRecord
    BY <1>5 DEF AskRecord
  <1>7. ask' = [a \in Asks |-> [ask[a] EXCEPT !.stale = ask[a].at # "none"]]
    BY DEF Term!CloseScope
  <1>8. ask' \in [Asks -> AskRecord]
    BY <1>6, <1>7
  <1>9. \A a \in Asks : ask'[a].of = ask[a].of /\ (ask'[a].at = "read" => ask'[a].stale)
    BY <1>5, <1>7 DEF AskRecord
  <1> QED BY <1>4, <1>8, <1>9

\* No channel outlives the connection.
LEMMA DownFacts ==
  ASSUME TerminalsInv, Term!Down
  PROVE  /\ connection' \in [up : BOOLEAN, generation : Nat] /\ ~connection'.up
         /\ shell' \in [Term!Terminals -> Shells]
         /\ \A t \in Term!Terminals : t > opened => shell'[t] = "none"
         /\ \A t \in Term!Terminals : shell'[t] # "open"
  <1>1. /\ connection \in [up : BOOLEAN, generation : Nat]
        /\ \A t \in Term!Terminals : t > opened => shell[t] = "none"
    BY DEF TerminalsInv, TermTypes, Numbered
  <1> QED BY <1>1 DEF Term!Down, Shells

\* Without a connection there is no live terminal.
LEMMA ConnectsKeeps ==
  ASSUME TerminalsInv, Term!Connects
  PROVE  TerminalsInv'
  <1>1. \A t \in Term!Terminals : ~Term!Live(term[t])
    BY DEF TerminalsInv, Term!ShellsOwned, Term!Connects
  <1>2. TermTypes'
    BY DEF TerminalsInv, TermTypes, Term!Connects
  <1>3. SettingsOnDisk'
    BY <1>1 DEF SettingsOnDisk, Term!Connects
  <1>4. Term!ShellsOwned'
    BY <1>1 DEF TerminalsInv, Term!ShellsOwned, Term!Connects
  <1> QED
    BY <1>1, <1>2, <1>3, <1>4
    DEF TerminalsInv, Numbered, Term!OneInTab, Term!NotResurrected, Term!Connects

\* Disconnects keeps the invariant.
LEMMA DisconnectsKeeps ==
  ASSUME TerminalsInv, Term!Disconnects
  PROVE  TerminalsInv'
  <1>1. PICK x \in Closings : Term!CloseScope(x)
    BY DEF Term!Disconnects, Closings
  <1>2. Steps /\ \A t \in Term!Terminals : ~Term!Live(term'[t])
    BY <1>1, ScopeStep
  <1>3. /\ ask' \in [Asks -> AskRecord]
        /\ \A a \in Asks : ask'[a].of = ask[a].of /\ (ask'[a].at = "read" => ask'[a].stale)
    BY <1>1, ScopeStep
  <1>4. Around
    BY <1>2, <1>3, DownFacts DEF Around, Term!Disconnects, TerminalsInv, TermTypes, Numbered
  <1> QED BY <1>2, <1>4, StepKeeps

\* SaveBegins keeps the invariant.
LEMMA SaveBeginsKeeps ==
  ASSUME TerminalsInv, Term!SaveBegins
  PROVE  TerminalsInv'
  <1>1. Term!CloseScope("configuration-changed") /\ "configuration-changed" \in Closings
    BY DEF Term!SaveBegins, Closings
  <1>2. Steps /\ \A t \in Term!Terminals : ~Term!Live(term'[t])
    BY <1>1, ScopeStep
  <1>3. /\ ask' \in [Asks -> AskRecord]
        /\ \A a \in Asks : ask'[a].of = ask[a].of /\ (ask'[a].at = "read" => ask'[a].stale)
    BY <1>1, ScopeStep
  <1>4. config' \in [version : Nat, save : {"none", "writes", "written"}]
    BY DEF Term!SaveBegins, TerminalsInv, TermTypes
  <1>5. Around
    BY <1>2, <1>3, <1>4, DestroysKeep DEF Around, Term!SaveBegins, TerminalsInv, TermTypes, Numbered
  <1> QED BY <1>2, <1>5, StepKeeps

\* SaveWrites keeps the invariant.
LEMMA SaveWritesKeeps ==
  ASSUME TerminalsInv, Term!SaveWrites
  PROVE  TerminalsInv'
  <1>1. TermTypes'
    BY DEF TerminalsInv, TermTypes, Term!SaveWrites
  <1>2. SettingsOnDisk'
    <2>1. config \in [version : Nat, save : {"none", "writes", "written"}]
      BY DEF TerminalsInv, TermTypes
    <2>2. config'.save # "written" => config'.version = config.version /\ config.save # "written"
      BY <2>1 DEF Term!SaveWrites
    <2> QED BY <2>2 DEF TerminalsInv, SettingsOnDisk, Term!SaveWrites
  <1> QED
    BY <1>1, <1>2 DEF TerminalsInv, Numbered, Term!ShellsOwned, Term!OneInTab, Term!NotResurrected, Term!SaveWrites

\* SaveEnds keeps the invariant.
LEMMA SaveEndsKeeps ==
  ASSUME TerminalsInv, Term!SaveEnds
  PROVE  TerminalsInv'
  <1>1. config' \in [version : Nat, save : {"none", "writes", "written"}]
    BY DEF Term!SaveEnds, TerminalsInv, TermTypes
  <1>2. CASE connection.up
    <2>1. Term!CloseScope("disconnected") /\ "disconnected" \in Closings /\ Term!Down
      BY <1>2 DEF Term!SaveEnds, Closings
    <2>2. Steps /\ \A t \in Term!Terminals : ~Term!Live(term'[t])
      BY <2>1, ScopeStep
    <2>3. /\ ask' \in [Asks -> AskRecord]
          /\ \A a \in Asks : ask'[a].of = ask[a].of /\ (ask'[a].at = "read" => ask'[a].stale)
      BY <2>1, ScopeStep
    <2>4. Around
      BY <1>1, <2>1, <2>2, <2>3, DownFacts DEF Around, Term!SaveEnds, TerminalsInv, TermTypes, Numbered
    <2> QED BY <2>2, <2>4, StepKeeps
  <1>3. CASE ~connection.up
    <2>1. \A t \in Term!Terminals : ~Term!Live(term[t])
      BY <1>3 DEF TerminalsInv, Term!ShellsOwned
    <2>2. UNCHANGED <<connection, ask, term, shell, opened, closing>>
      BY <1>3 DEF Term!SaveEnds
    <2>3. TermTypes' /\ SettingsOnDisk'
      BY <1>1, <1>3, <2>1, <2>2 DEF TerminalsInv, TermTypes, SettingsOnDisk
    <2> QED
      BY <2>2, <2>3 DEF TerminalsInv, Numbered, Term!ShellsOwned, Term!OneInTab, Term!NotResurrected
  <1> QED BY <1>2, <1>3

\* Ask keeps the invariant.
LEMMA AskKeeps ==
  ASSUME TerminalsInv, NEW a \in Asks, Term!Ask(a)
  PROVE  TerminalsInv'
  <1>1. PICK of \in {None} \cup {t \in Term!Terminals : Term!Told(t) /\ ~Term!Live(term[t])} :
          ask' = [ask EXCEPT ![a] =
            [at |-> "read", of |-> of, stale |-> FALSE, config |-> config.version]]
    BY DEF Term!Ask
  <1>2. of # None => of \in Term!Terminals /\ of <= opened
    <2>1. ASSUME of # None PROVE of \in Term!Terminals /\ term[of] # Term!NoTerm
      BY <1>1, <2>1 DEF Term!Told, Term!NoTerm
    <2>2. opened \in Nat
      BY TerminalsNumbered DEF TerminalsInv, TermTypes
    <2> QED
      BY <2>1, <2>2, TerminalsNumbered DEF TerminalsInv, Numbered, Term!Terminals
  <1>3. [at |-> "read", of |-> of, stale |-> FALSE, config |-> config.version] \in AskRecord
    BY <1>2 DEF TerminalsInv, TermTypes, AskRecord
  <1>4. ask \in [Asks -> AskRecord]
    BY DEF TerminalsInv, TermTypes
  <1>5. ask' \in [Asks -> AskRecord]
    BY <1>1, <1>3, <1>4
  <1>6. /\ ask'[a].of = of /\ ask'[a].config = config.version
        /\ \A b \in Asks : b # a => ask'[b] = ask[b]
    BY <1>1, <1>4
  <1>7. SettingsOnDisk'
    BY <1>6 DEF TerminalsInv, SettingsOnDisk, Term!Ask
  <1> QED
    BY <1>2, <1>5, <1>6, <1>7
    DEF TerminalsInv, TermTypes, Numbered, Term!ShellsOwned, Term!OneInTab, Term!NotResurrected, Term!Ask

\* A request that is over.
LEMMA NoAskFacts ==
  ASSUME TerminalsInv, NEW a \in Asks, ask' = [ask EXCEPT ![a] = Term!NoAsk]
  PROVE  /\ ask' \in [Asks -> AskRecord]
         /\ \A b \in Asks : ask'[b].of # None => ask'[b].of <= opened
         /\ \A b \in Asks : ask'[b].at = "read" => b # a /\ ask'[b] = ask[b]
         /\ ask'[a].at = "none"
  <1>1. ask \in [Asks -> AskRecord]
    BY DEF TerminalsInv, TermTypes
  <1>2. Term!NoAsk \in AskRecord /\ Term!NoAsk.at = "none" /\ Term!NoAsk.of = None
    BY DEF Term!NoAsk, AskRecord
  <1>3. ask'[a] = Term!NoAsk /\ \A b \in Asks : b # a => ask'[b] = ask[b]
    BY <1>1
  <1> QED
    BY <1>1, <1>2, <1>3 DEF TerminalsInv, Numbered

\* Refuse keeps the invariant.
LEMMA RefuseKeeps ==
  ASSUME TerminalsInv, NEW a \in Asks, Term!Refuse(a)
  PROVE  TerminalsInv'
  <1>1. /\ ask' \in [Asks -> AskRecord]
        /\ \A b \in Asks : ask'[b].of # None => ask'[b].of <= opened
        /\ \A b \in Asks : ask'[b].at = "read" => b # a /\ ask'[b] = ask[b]
    BY NoAskFacts DEF Term!Refuse
  <1>2. SettingsOnDisk'
    BY <1>1 DEF TerminalsInv, SettingsOnDisk, Term!Refuse
  <1> QED
    BY <1>1, <1>2
    DEF TerminalsInv, TermTypes, Numbered, Term!ShellsOwned, Term!OneInTab, Term!NotResurrected, Term!Refuse

\* A record of the tab that goes.
LEMMA GoesFollows ==
  ASSUME NEW r, RecordOK(r), NEW x \in Reasons
  PROVE  LET q == Term!Released(Term!Finished(r, x))
         IN Follows(r, q) /\ ~Term!Live(q) /\ ~q.known /\ q.reason = "none"
  <1> DEFINE f == Term!Finished(r, x)
  <1>1. f \in TermRecord /\ f.at = r.at
    BY FinishedFacts
  <1> HIDE DEF f
  <1>2. Follows(r, Term!Released(f)) /\ ~Term!Live(Term!Released(f)) /\ ~Term!Released(f).known
        /\ Term!Released(f).reason = "none"
    BY <1>1, ReleasedFollows
  <1> QED BY <1>2 DEF f

\* Join keeps the invariant.
LEMMA JoinKeeps ==
  ASSUME TerminalsInv, NEW a \in Asks, Term!Join(a)
  PROVE  TerminalsInv'
  <1>1. PICK p \in Term!Present(a) :
          term' = [t \in Term!Terminals |->
            IF t < p /\ Term!Others(a, t) THEN Term!Released(Term!Finished(term[t], "replaced"))
            ELSE term[t]]
    BY DEF Term!Join
  <1>2. \A t \in Term!Terminals : RecordOK(term[t])
    BY DEF TerminalsInv
  <1>3. \A t \in Term!Terminals : Follows(term[t], term'[t])
    BY <1>1, <1>2, GoesFollows, FollowsSelf DEF Reasons
  <1>4. \A t \in Term!Terminals : t > opened => term'[t] = Term!NoTerm
    <2>1. \A t \in Term!Terminals : t > opened => term[t] = Term!NoTerm
      BY DEF TerminalsInv, Numbered
    <2>2. ~Term!NoTerm.known
      BY DEF Term!NoTerm
    <2>3. \A t \in Term!Terminals : t > opened => ~Term!Others(a, t)
      BY <2>1, <2>2 DEF Term!Others
    <2> QED BY <1>1, <2>1, <2>3
  <1>5. term' \in [Term!Terminals -> TermRecord]
    <2>1. \A t \in Term!Terminals : term'[t] \in TermRecord
      BY <1>3 DEF Follows, Continues, RecordOK
    <2> QED BY <1>1, <2>1
  <1>6. Steps
    BY <1>3, <1>4, <1>5 DEF Steps, Follows
  <1>7. ask' = [ask EXCEPT ![a] = Term!NoAsk]
    BY DEF Term!Join
  <1>8. /\ ask' \in [Asks -> AskRecord]
        /\ \A b \in Asks : ask'[b].of # None => ask'[b].of <= opened
        /\ \A b \in Asks : ask'[b].at = "read" => ask'[b] = ask[b]
    BY <1>7, NoAskFacts
  <1>9. /\ shell' \in [Term!Terminals -> Shells]
        /\ \A t \in Term!Terminals : t > opened => shell'[t] = "none"
        /\ \A t \in Term!Terminals : shell'[t] = "open" => term'[t].status = "open" /\ term'[t].known
    BY <1>6, DestroysKeep DEF Term!Join
  <1>10. UNCHANGED <<connection, config, opened, closing>>
    BY DEF Term!Join
  <1>11. config'.save # "written" =>
           \A b \in Asks : ask'[b].at = "read" /\ ~ask'[b].stale /\ connection'.up =>
             ask'[b].config = config'.version
    BY <1>8, <1>10 DEF TerminalsInv, SettingsOnDisk
  <1>12. Around
    BY <1>8, <1>9, <1>10, <1>11 DEF Around, TerminalsInv, TermTypes, Numbered
  <1> QED BY <1>6, <1>12, StepKeeps

\* The catch of start.
LEMMA OpenFailsKeeps ==
  ASSUME TerminalsInv, NEW t \in Term!Terminals, term[t] # Term!NoTerm, Term!OpenFails(t)
  PROVE  TerminalsInv'
  <1>1. t <= opened
    BY TerminalsNumbered DEF TerminalsInv, TermTypes, Numbered, Term!Terminals
  <1>2. Follows(term[t], Term!Failed(term[t]))
    BY FailedFollows DEF TerminalsInv
  <1>3. Steps
    BY <1>1, <1>2, OneStep DEF Term!OpenFails
  <1> QED BY <1>3, DestroyedKeep DEF Term!OpenFails

\* ShellFails keeps the invariant.
LEMMA ShellFailsKeeps ==
  ASSUME TerminalsInv, NEW t \in Term!Terminals, Term!ShellFails(t) \/ Term!StartupFails(t)
  PROVE  TerminalsInv'
  BY OpenFailsKeeps DEF Term!ShellFails, Term!StartupFails, Term!NoTerm

\* A step of start that succeeds.
LEMMA AtFollows ==
  ASSUME NEW r, RecordOK(r), NEW x \in {"audits", "opening", "starting", "done", "over"}
  PROVE  /\ Follows(r, [r EXCEPT !.at = x])
         /\ [r EXCEPT !.at = x].status = r.status /\ [r EXCEPT !.at = x].known = r.known
         /\ [r EXCEPT !.at = x].of = r.of /\ [r EXCEPT !.at = x].at = x
         /\ Term!Live([r EXCEPT !.at = x]) <=> Term!Live(r)
  <1> DEFINE q == [r EXCEPT !.at = x]
  <1>1. q \in TermRecord
    BY SetField DEF RecordOK
  <1>2. /\ q.status = r.status /\ q.known = r.known /\ q.of = r.of /\ q.at = x
        /\ q.reason = r.reason /\ q.over = r.over /\ q.exited = r.exited
        /\ q.pending = r.pending /\ q.config = r.config /\ q.generation = r.generation
    BY DEF RecordOK, TermRecord
  <1> HIDE DEF q
  <1>3. Follows(r, q) /\ (Term!Live(q) <=> Term!Live(r))
    BY <1>1, <1>2 DEF Follows, Continues, RecordOK, Term!Live
  <1> QED BY <1>2, <1>3 DEF q

\* Audited keeps the invariant.
LEMMA AuditedKeeps ==
  ASSUME TerminalsInv, NEW t \in Term!Terminals, Term!Audited(t)
  PROVE  TerminalsInv'
  <1>1. CASE Term!OpenFails(t)
    BY <1>1, OpenFailsKeeps DEF Term!Audited, Term!NoTerm
  <1>2. CASE ~Term!OpenFails(t)
    <2>0. term \in [Term!Terminals -> TermRecord] /\ RecordOK(term[t])
      BY DEF TerminalsInv, TermTypes
    <2>1. /\ term' = [term EXCEPT ![t] = [term[t] EXCEPT !.at = "opening"]]
          /\ shell' = [shell EXCEPT ![t] = "asked"]
          /\ UNCHANGED <<connection, config, opened, ask, closing>>
      BY <1>2, <2>0 DEF Term!Audited
    <2>2. t <= opened
      BY TerminalsNumbered DEF Term!Audited, Term!NoTerm, TerminalsInv, TermTypes, Numbered, Term!Terminals
    <2>3. Follows(term[t], [term[t] EXCEPT !.at = "opening"])
      BY <2>0, AtFollows
    <2>4. Steps /\ \A r \in Term!Terminals : r # t => term'[r] = term[r]
      BY <2>1, <2>2, <2>3, OneStep
    <2>5. shell \in [Term!Terminals -> Shells] /\ opened \in Nat
      BY TerminalsNumbered DEF TerminalsInv, TermTypes
    <2>6. shell'[t] = "asked" /\ \A r \in Term!Terminals : r # t => shell'[r] = shell[r]
      BY <2>1, <2>5
    <2>7. shell' \in [Term!Terminals -> Shells]
      BY <2>1, <2>5 DEF Shells
    <2>8. \A r \in Term!Terminals : r > opened => shell'[r] = "none"
      BY <2>2, <2>5, <2>6, TerminalsNumbered DEF TerminalsInv, Numbered, Term!Terminals
    <2>9. \A r \in Term!Terminals : shell'[r] = "open" => term'[r].status = "open" /\ term'[r].known
      BY <2>4, <2>6 DEF TerminalsInv, Term!ShellsOwned
    <2> QED BY <2>1, <2>4, <2>7, <2>8, <2>9, RecordsKeep
  <1> QED BY <1>1, <1>2

\* The shell is open.
LEMMA OpensFollows ==
  ASSUME NEW r, RecordOK(r), Term!Live(r)
  PROVE  LET q == [r EXCEPT !.at = "starting", !.status = "open"]
         IN Follows(r, q) /\ q.status = "open" /\ q.known
  <1> DEFINE q == [r EXCEPT !.at = "starting", !.status = "open"]
  <1>1. q \in TermRecord
    BY DEF RecordOK, TermRecord
  <1>2. /\ q.status = "open" /\ q.known = r.known /\ q.of = r.of
        /\ q.reason = r.reason /\ q.over = r.over /\ q.exited = r.exited
        /\ q.pending = r.pending /\ q.config = r.config /\ q.generation = r.generation
    BY DEF RecordOK, TermRecord
  <1> HIDE DEF q
  <1>3. r.known /\ ~r.pending /\ (r.over => r.exited)
    BY DEF RecordOK, Term!Live
  <1>4. RecordOK(q)
    BY <1>1, <1>2, <1>3 DEF RecordOK
  <1>5. Follows(r, q)
    BY <1>2, <1>4 DEF Follows, Continues
  <1> QED BY <1>2, <1>3, <1>5 DEF q

\* ShellOpens keeps the invariant.
LEMMA ShellOpensKeeps ==
  ASSUME TerminalsInv, NEW t \in Term!Terminals, Term!ShellOpens(t)
  PROVE  TerminalsInv'
  <1>0. /\ term \in [Term!Terminals -> TermRecord] /\ RecordOK(term[t])
        /\ shell \in [Term!Terminals -> Shells] /\ opened \in Nat
    BY TerminalsNumbered DEF TerminalsInv, TermTypes
  <1>1. t <= opened
    BY <1>0, TerminalsNumbered DEF Term!ShellOpens, TerminalsInv, Numbered, Term!Terminals
  <1>2. CASE Term!StillWanted(t)
    <2> DEFINE q == [term[t] EXCEPT !.at = "starting", !.status = "open"]
    <2>1. term' = [term EXCEPT ![t] = q] /\ shell' = [shell EXCEPT ![t] = "open"]
      BY <1>0, <1>2 DEF Term!ShellOpens
    <2>2. Follows(term[t], q) /\ q.status = "open" /\ q.known
      BY <1>0, <1>2, OpensFollows DEF Term!StillWanted
    <2> HIDE DEF q
    <2>3. Steps /\ term'[t] = q /\ \A r \in Term!Terminals : r # t => term'[r] = term[r]
      BY <1>1, <2>1, <2>2, OneStep
    <2>4. shell'[t] = "open" /\ \A r \in Term!Terminals : r # t => shell'[r] = shell[r]
      BY <1>0, <2>1
    <2>5. shell' \in [Term!Terminals -> Shells]
      BY <1>0, <2>1 DEF Shells
    <2>6. \A r \in Term!Terminals : r > opened => shell'[r] = "none"
      BY <1>0, <1>1, <2>4, TerminalsNumbered DEF TerminalsInv, Numbered, Term!Terminals
    <2>7. \A r \in Term!Terminals : shell'[r] = "open" => term'[r].status = "open" /\ term'[r].known
      BY <2>2, <2>3, <2>4 DEF TerminalsInv, Term!ShellsOwned
    <2> QED BY <2>3, <2>5, <2>6, <2>7, RecordsKeep DEF Term!ShellOpens
  <1>3. CASE ~Term!StillWanted(t)
    <2> DEFINE q == IF term[t].at = "opening" THEN Term!Failed(term[t]) ELSE term[t]
    <2>1. term' = [term EXCEPT ![t] = q] /\ shell' = [shell EXCEPT ![t] = "gone"]
      BY <1>0, <1>3 DEF Term!ShellOpens
    <2>2. Follows(term[t], q)
      BY <1>0, FailedFollows, FollowsSelf
    <2> HIDE DEF q
    <2>3. Steps /\ term'[t] = q /\ \A r \in Term!Terminals : r # t => term'[r] = term[r]
      BY <1>1, <2>1, <2>2, OneStep
    <2>4. shell'[t] = "gone" /\ \A r \in Term!Terminals : r # t => shell'[r] = shell[r]
      BY <1>0, <2>1
    <2>5. shell' \in [Term!Terminals -> Shells]
      BY <1>0, <2>1 DEF Shells
    <2>6. \A r \in Term!Terminals : r > opened => shell'[r] = "none"
      BY <1>0, <1>1, <2>4, TerminalsNumbered DEF TerminalsInv, Numbered, Term!Terminals
    <2>7. \A r \in Term!Terminals : shell'[r] = "open" => term'[r].status = "open" /\ term'[r].known
      BY <2>3, <2>4 DEF TerminalsInv, Term!ShellsOwned
    <2> QED BY <2>3, <2>5, <2>6, <2>7, RecordsKeep DEF Term!ShellOpens
  <1> QED BY <1>2, <1>3

\* Ready keeps the invariant.
LEMMA ReadyKeeps ==
  ASSUME TerminalsInv, NEW t \in Term!Terminals, Term!Ready(t)
  PROVE  TerminalsInv'
  <1>0. /\ \A s \in Term!Terminals : RecordOK(term[s])
        /\ term \in [Term!Terminals -> TermRecord] /\ shell \in [Term!Terminals -> Shells]
    BY DEF TerminalsInv, TermTypes
  <1>1. term' = [s \in Term!Terminals |->
          IF s = t THEN [term[s] EXCEPT !.at = "done"]
          ELSE IF s = term[t].of THEN Term!Released(term[s]) ELSE term[s]]
    BY DEF Term!Ready
  <1>2. \A s \in Term!Terminals : Follows(term[s], term'[s])
    BY <1>0, <1>1, AtFollows, ReleasedFollows, FollowsSelf
  <1>3. \A s \in Term!Terminals : s > opened => term'[s] = Term!NoTerm
    <2>1. term[t] # Term!NoTerm /\ t <= opened
      BY TerminalsNumbered DEF Term!Ready, Term!NoTerm, TerminalsInv, TermTypes, Numbered, Term!Terminals
    <2>2. \A s \in Term!Terminals : s = term[t].of => s < t
      BY TerminalsNumbered DEF TerminalsInv, Numbered
    <2>3. opened \in Nat
      BY TerminalsNumbered DEF TerminalsInv, TermTypes
    <2>4. \A s \in Term!Terminals : s > opened => s # t /\ s # term[t].of
      BY <2>1, <2>2, <2>3, TerminalsNumbered DEF Term!Terminals
    <2> QED BY <1>1, <2>4 DEF TerminalsInv, Numbered
  <1>4. term' \in [Term!Terminals -> TermRecord]
    <2>1. \A s \in Term!Terminals : term'[s] \in TermRecord
      BY <1>2 DEF Follows, Continues, RecordOK
    <2> QED BY <1>1, <2>1
  <1>5. Steps
    BY <1>2, <1>3, <1>4 DEF Steps, Follows
  <1>6. ASSUME NEW s \in Term!Terminals, shell'[s] = "open"
        PROVE  term'[s].status = "open" /\ term'[s].known
    <2>1. term[s].status = "open" /\ term[s].known
      BY <1>6 DEF TerminalsInv, Term!ShellsOwned, Term!Ready
    <2>2. CASE s = t
      <3>1. term'[s] = [term[s] EXCEPT !.at = "done"]
        BY <1>1, <2>2
      <3>2. term[s] \in TermRecord
        BY <1>0
      <3> QED BY <2>1, <3>1, <3>2 DEF TermRecord
    <2>3. CASE s # t
      <3>1. ~Term!Live(term[s])
        BY <2>3 DEF Term!Ready, TerminalsInv, Term!OneInTab
      <3> QED BY <2>1, <3>1 DEF Term!Live
    <2> QED BY <2>2, <2>3
  <1>7. UNCHANGED <<connection, config, opened, ask, shell, closing>>
    BY DEF Term!Ready
  <1>8. /\ shell' \in [Term!Terminals -> Shells]
        /\ \A s \in Term!Terminals : s > opened => shell'[s] = "none"
    BY <1>0, <1>7 DEF TerminalsInv, Numbered
  <1> QED BY <1>5, <1>6, <1>7, <1>8, RecordsKeep

\* The exit status.
LEMMA ExitsFollows ==
  ASSUME NEW r, RecordOK(r)
  PROVE  /\ Follows(r, Term!Exited(r)) /\ Term!Exited(r).status = r.status
         /\ Term!Exited(r).known = r.known
  <1> DEFINE x == IF r.reason = "channel-closed" THEN "remote-exit" ELSE r.reason
             e == Term!Ended(r)
             q == [e EXCEPT !.exited = TRUE, !.reason = x]
  <1>1. r \in TermRecord /\ x \in Reasons
    BY DEF RecordOK, TermRecord, Reasons
  <1>2. e \in TermRecord
    BY <1>1, SetField DEF Term!Ended, TermRecord
  <1>3. /\ e.status = r.status /\ e.known = r.known /\ e.of = r.of /\ e.reason = r.reason
        /\ e.pending = r.pending /\ e.config = r.config /\ e.generation = r.generation
    BY <1>1 DEF Term!Ended, TermRecord
  <1>4. Term!Exited(r) = q
    BY <1>2, <1>3 DEF Term!Exited, TermRecord
  <1>5. x = "user-closed" => r.reason = "user-closed"
    OBVIOUS
  <1> HIDE DEF e, x
  <1>6. q \in TermRecord
    BY <1>1, <1>2 DEF TermRecord
  <1>7. /\ q.status = r.status /\ q.known = r.known /\ q.of = r.of /\ q.reason = x
        /\ q.pending = r.pending /\ q.config = r.config /\ q.generation = r.generation
        /\ q.exited
    BY <1>2, <1>3 DEF TermRecord
  <1> HIDE DEF q
  <1>8. Follows(r, q)
    BY <1>5, <1>6, <1>7 DEF Follows, Continues, RecordOK, Term!Live
  <1> QED BY <1>4, <1>7, <1>8

\* Exits keeps the invariant.
LEMMA ExitsKeeps ==
  ASSUME TerminalsInv, NEW t \in Term!Terminals, Term!Exits(t)
  PROVE  TerminalsInv'
  <1>0. term \in [Term!Terminals -> TermRecord] /\ RecordOK(term[t]) /\ shell \in [Term!Terminals -> Shells]
    BY DEF TerminalsInv, TermTypes
  <1>1. t <= opened
    BY TerminalsNumbered DEF Term!Exits, Term!NoTerm, TerminalsInv, TermTypes, Numbered, Term!Terminals
  <1> DEFINE q == Term!Exited(term[t])
  <1>2. term' = [term EXCEPT ![t] = q]
    BY DEF Term!Exits
  <1>3. Follows(term[t], q) /\ q.status = term[t].status /\ q.known = term[t].known
    BY <1>0, ExitsFollows
  <1> HIDE DEF q
  <1>4. Steps /\ term'[t] = q /\ \A r \in Term!Terminals : r # t => term'[r] = term[r]
    BY <1>1, <1>2, <1>3, OneStep
  <1>5. UNCHANGED <<connection, config, opened, ask, shell, closing>>
    BY DEF Term!Exits
  <1>6. \A r \in Term!Terminals : shell'[r] = "open" => term'[r].status = "open" /\ term'[r].known
    BY <1>3, <1>4, <1>5 DEF TerminalsInv, Term!ShellsOwned
  <1>7. /\ shell' \in [Term!Terminals -> Shells]
        /\ \A s \in Term!Terminals : s > opened => shell'[s] = "none"
    BY <1>0, <1>5 DEF TerminalsInv, Numbered
  <1> QED BY <1>4, <1>5, <1>6, <1>7, RecordsKeep

\* Ends keeps the invariant.
LEMMA EndsKeeps ==
  ASSUME TerminalsInv, NEW t \in Term!Terminals, Term!Ends(t)
  PROVE  TerminalsInv'
  <1>0. /\ term \in [Term!Terminals -> TermRecord] /\ RecordOK(term[t])
        /\ shell \in [Term!Terminals -> Shells] /\ opened \in Nat
    BY TerminalsNumbered DEF TerminalsInv, TermTypes
  <1>1. t <= opened
    BY <1>0, TerminalsNumbered DEF Term!Ends, TerminalsInv, Numbered, Term!Terminals
  <1> DEFINE x == IF term[t].exited THEN "remote-exit" ELSE "channel-closed"
  <1>2. x \in Reasons /\ x # "connection-lost"
    BY DEF Reasons
  <1>3. term' = [term EXCEPT ![t] = Term!Finished(term[t], x)]
    BY <1>0 DEF Term!Ends
  <1> HIDE DEF x
  <1>4. Follows(term[t], Term!Finished(term[t], x))
    BY <1>0, <1>2, FinishedFollows
  <1>5. Steps /\ \A r \in Term!Terminals : r # t => term'[r] = term[r]
    BY <1>1, <1>3, <1>4, OneStep
  <1>6. shell' = [shell EXCEPT ![t] = "ended"]
    BY DEF Term!Ends
  <1>7. shell'[t] = "ended" /\ \A r \in Term!Terminals : r # t => shell'[r] = shell[r]
    BY <1>0, <1>6
  <1>8. shell' \in [Term!Terminals -> Shells]
    BY <1>0, <1>6 DEF Shells
  <1>9. \A r \in Term!Terminals : r > opened => shell'[r] = "none"
    BY <1>0, <1>1, <1>7, TerminalsNumbered DEF TerminalsInv, Numbered, Term!Terminals
  <1>10. \A r \in Term!Terminals : shell'[r] = "open" => term'[r].status = "open" /\ term'[r].known
    BY <1>5, <1>7 DEF TerminalsInv, Term!ShellsOwned
  <1> QED BY <1>5, <1>8, <1>9, <1>10, RecordsKeep DEF Term!Ends

\* Breaks keeps the invariant.
LEMMA BreaksKeeps ==
  ASSUME TerminalsInv, NEW t \in Term!Terminals, Term!Breaks(t)
  PROVE  TerminalsInv'
  <1>0. term \in [Term!Terminals -> TermRecord] /\ RecordOK(term[t])
    BY DEF TerminalsInv, TermTypes
  <1>1. t <= opened
    BY TerminalsNumbered DEF Term!Breaks, TerminalsInv, TermTypes, Numbered, Term!Terminals
  <1>2. term' = [term EXCEPT ![t] = Term!Finished(term[t], "channel-error")]
    BY <1>0 DEF Term!Breaks
  <1>3. Follows(term[t], Term!Finished(term[t], "channel-error"))
    BY <1>0, FinishedFollows DEF Reasons
  <1>4. Steps
    BY <1>1, <1>2, <1>3, OneStep
  <1> QED BY <1>4, DestroyedKeep DEF Term!Breaks

\* The end of the round.
LEMMA RoundFollows ==
  ASSUME NEW r, RecordOK(r), r.pending
  PROVE  LET q == [(IF Term!CanRecover(r) THEN r ELSE Term!Ended(r)) EXCEPT !.pending = FALSE]
         IN Follows(r, q) /\ q.status = r.status /\ q.known = r.known
  <1> DEFINE e == IF Term!CanRecover(r) THEN r ELSE Term!Ended(r)
             q == [e EXCEPT !.pending = FALSE]
  <1>1. r \in TermRecord /\ r.status = "closed" /\ r.known \in BOOLEAN
    BY DEF RecordOK, TermRecord
  <1>2. e \in TermRecord
    <2>1. Term!Ended(r) \in TermRecord
      BY <1>1, SetField DEF Term!Ended
    <2> HIDE DEF Term!Ended
    <2> QED BY <1>1, <2>1
  <1>3. /\ e.status = r.status /\ e.known = r.known /\ e.of = r.of /\ e.reason = r.reason
        /\ e.exited = r.exited /\ e.config = r.config /\ e.generation = r.generation
    BY <1>1 DEF Term!Ended, TermRecord
  <1>4. e.over => r.exited \/ r.reason # "connection-lost"
    <2>1. CASE Term!CanRecover(r)
      BY <2>1 DEF RecordOK, Term!CanRecover
    <2>2. CASE ~Term!CanRecover(r)
      BY <1>1, <2>2 DEF Term!CanRecover
    <2> QED BY <2>1, <2>2
  <1> HIDE DEF e
  <1>5. q \in TermRecord
    BY <1>2, SetField
  <1>6. /\ q.status = r.status /\ q.known = r.known /\ q.of = r.of /\ q.reason = r.reason
        /\ q.exited = r.exited /\ q.config = r.config /\ q.generation = r.generation
        /\ ~q.pending /\ q.over = e.over
    BY <1>2, <1>3 DEF TermRecord
  <1> HIDE DEF q
  <1>7. Follows(r, q)
    BY <1>1, <1>4, <1>5, <1>6 DEF Follows, Continues, RecordOK, Term!Live
  <1> QED BY <1>6, <1>7 DEF e, q

\* RoundEnds keeps the invariant.
LEMMA RoundEndsKeeps ==
  ASSUME TerminalsInv, NEW t \in Term!Terminals, Term!RoundEnds(t)
  PROVE  TerminalsInv'
  <1>0. term \in [Term!Terminals -> TermRecord] /\ RecordOK(term[t]) /\ shell \in [Term!Terminals -> Shells]
    BY DEF TerminalsInv, TermTypes
  <1>1. t <= opened
    BY TerminalsNumbered DEF Term!RoundEnds, Term!NoTerm, TerminalsInv, TermTypes, Numbered, Term!Terminals
  <1> DEFINE q == [(IF Term!CanRecover(term[t]) THEN term[t] ELSE Term!Ended(term[t])) EXCEPT !.pending = FALSE]
  <1>2. term' = [term EXCEPT ![t] = q]
    BY <1>0 DEF Term!RoundEnds
  <1>3. Follows(term[t], q) /\ q.status = term[t].status /\ q.known = term[t].known
    BY <1>0, RoundFollows DEF Term!RoundEnds
  <1> HIDE DEF q
  <1>4. Steps /\ term'[t] = q /\ \A r \in Term!Terminals : r # t => term'[r] = term[r]
    BY <1>1, <1>2, <1>3, OneStep
  <1>5. UNCHANGED <<connection, config, opened, ask, shell, closing>>
    BY DEF Term!RoundEnds
  <1>6. \A r \in Term!Terminals : shell'[r] = "open" => term'[r].status = "open" /\ term'[r].known
    BY <1>3, <1>4, <1>5 DEF TerminalsInv, Term!ShellsOwned
  <1>7. /\ shell' \in [Term!Terminals -> Shells]
        /\ \A s \in Term!Terminals : s > opened => shell'[s] = "none"
    BY <1>0, <1>5 DEF TerminalsInv, Numbered
  <1> QED BY <1>4, <1>5, <1>6, <1>7, RecordsKeep

\* Invalidates keeps the invariant.
LEMMA InvalidatesKeeps ==
  ASSUME TerminalsInv, NEW t \in Term!Terminals, Term!Invalidates(t)
  PROVE  TerminalsInv'
  <1>0. term \in [Term!Terminals -> TermRecord] /\ RecordOK(term[t]) /\ Term!Live(term[t])
    BY DEF TerminalsInv, TermTypes, Term!Invalidates
  <1>1. t <= opened
    BY TerminalsNumbered DEF Term!Invalidates, Term!Told, Term!NoTerm, TerminalsInv, TermTypes, Numbered, Term!Terminals
  <1> DEFINE f == Term!Finished(term[t], "scope-invalidated")
  <1>2. term' = [term EXCEPT ![t] = Term!Ended(f)]
    BY <1>0 DEF Term!Invalidates
  <1>3. Follows(term[t], f) /\ f = [term[t] EXCEPT !.status = "closed",
          !.reason = "scope-invalidated", !.pending = Term!Uncertain("scope-invalidated")]
    BY <1>0, FinishedFollows, FinishedFacts DEF Reasons
  <1>4. f.status = "closed" /\ f.reason = "scope-invalidated"
    BY <1>0, <1>3 DEF TermRecord, RecordOK
  <1> HIDE DEF f
  <1>5. Follows(term[t], Term!Ended(f))
    BY <1>3, <1>4, EndedFollows DEF Term!Uncertain
  <1>6. Steps
    BY <1>1, <1>2, <1>5, OneStep
  <1> QED BY <1>6, DestroyedKeep DEF Term!Invalidates

\* AsksToClose keeps the invariant.
LEMMA AsksToCloseKeeps ==
  ASSUME TerminalsInv, NEW t \in Term!Terminals, Term!AsksToClose(t)
  PROVE  TerminalsInv'
  <1>1. t <= opened
    BY TerminalsNumbered DEF Term!AsksToClose, Term!Told, Term!NoTerm, TerminalsInv, TermTypes, Numbered, Term!Terminals
  <1> QED
    BY <1>1 DEF TerminalsInv, TermTypes, Numbered, SettingsOnDisk, Term!ShellsOwned, Term!OneInTab,
                Term!NotResurrected, Term!AsksToClose

\* CloseOwner keeps the invariant.
LEMMA CloseOwnerKeeps ==
  ASSUME TerminalsInv, Term!CloseOwner
  PROVE  TerminalsInv'
  <1>0. \A t \in Term!Terminals : RecordOK(term[t])
    BY DEF TerminalsInv
  <1>1. term' = [t \in Term!Terminals |->
          IF term[t].known THEN Term!Released(Term!Finished(term[t], "window-closed")) ELSE term[t]]
    BY DEF Term!CloseOwner
  <1>2. \A t \in Term!Terminals : Follows(term[t], term'[t])
    BY <1>0, <1>1, GoesFollows, FollowsSelf DEF Reasons
  <1>3. \A t \in Term!Terminals : t > opened => term'[t] = Term!NoTerm
    <2>1. \A t \in Term!Terminals : t > opened => term[t] = Term!NoTerm
      BY DEF TerminalsInv, Numbered
    <2>2. ~Term!NoTerm.known
      BY DEF Term!NoTerm
    <2> QED BY <1>1, <2>1, <2>2
  <1>4. term' \in [Term!Terminals -> TermRecord]
    <2>1. \A t \in Term!Terminals : term'[t] \in TermRecord
      BY <1>2 DEF Follows, Continues, RecordOK
    <2> QED BY <1>1, <2>1
  <1>5. Steps
    BY <1>2, <1>3, <1>4 DEF Steps, Follows
  <1>6. ask \in [Asks -> AskRecord]
    BY DEF TerminalsInv, TermTypes
  <1>7. ask' = [a \in Asks |-> [ask[a] EXCEPT !.stale = ask[a].at # "none"]]
    BY DEF Term!CloseOwner
  <1>8. \A a \in Asks : [ask[a] EXCEPT !.stale = ask[a].at # "none"] \in AskRecord
    BY <1>6 DEF AskRecord
  <1>9. ask' \in [Asks -> AskRecord]
    BY <1>7, <1>8
  <1>10. \A a \in Asks : ask'[a].of = ask[a].of /\ (ask'[a].at = "read" => ask'[a].stale)
    BY <1>6, <1>7 DEF AskRecord
  <1>11. UNCHANGED <<connection, config, opened, closing>> /\ Term!Destroys
    BY DEF Term!CloseOwner
  <1>12. Around
    BY <1>5, <1>9, <1>10, <1>11, DestroysKeep
    DEF Around, TerminalsInv, TermTypes, Numbered
  <1> QED BY <1>5, <1>12, StepKeeps

\* closeTerminal, of the terminal itself.
LEMMA UserClosedContinues ==
  ASSUME TerminalsInv, NEW t \in Term!Terminals
  PROVE  Continues(term[t], Term!Ended(Term!UserClosed(t))) /\ ~Term!Live(Term!Ended(Term!UserClosed(t)))
  <1> DEFINE x == "user-closed"
             f == Term!Finished(term[t], x)
             q == [f EXCEPT !.reason = x]
             e == [q EXCEPT !.over = q.known]
  <1>0. RecordOK(term[t]) /\ x \in Reasons
    BY DEF TerminalsInv, Reasons
  <1>1. Follows(term[t], f) /\ ~Term!Live(f) /\ f.known = term[t].known
    BY <1>0, FinishedFollows, FinishedFacts
  <1> HIDE DEF f
  <1>2. RecordOK(f) /\ f \in TermRecord /\ f.known \in BOOLEAN
    BY <1>1 DEF Follows, Continues, RecordOK, TermRecord
  <1>3. q \in TermRecord
    BY <1>0, <1>2, SetField
  <1>4. /\ q.status = f.status /\ q.known = f.known /\ q.of = f.of /\ q.reason = "user-closed"
        /\ q.pending = f.pending /\ q.config = f.config /\ q.generation = f.generation
    BY <1>2 DEF TermRecord
  <1> HIDE DEF q
  <1>5. q.known \in BOOLEAN
    BY <1>3 DEF TermRecord
  <1>6. e \in TermRecord
    BY <1>3, <1>5, SetField
  <1>7. /\ e.status = f.status /\ e.known = f.known /\ e.of = f.of /\ e.reason = "user-closed"
        /\ e.pending = f.pending /\ e.config = f.config /\ e.generation = f.generation
        /\ e.over = f.known
    BY <1>3, <1>4 DEF TermRecord
  <1>8. Term!Ended(Term!UserClosed(t)) = e
    BY DEF Term!Ended, Term!UserClosed, f, q
  <1> HIDE DEF e
  <1>9. ~Term!Live(e)
    BY <1>1, <1>7 DEF Term!Live
  <1>10. e.over => e.status = "closed"
    <2>1. f.status \in {"none", "closed"} /\ (f.known => f.status # "none")
      BY <1>1, <1>2 DEF RecordOK, TermRecord, Term!Live
    <2> QED BY <1>7, <2>1
  <1>11. e.pending => e.status = "closed"
    BY <1>2, <1>7 DEF RecordOK
  <1>12. e.known => e.status # "none"
    BY <1>2, <1>7 DEF RecordOK
  <1>13. RecordOK(e)
    BY <1>6, <1>7, <1>9, <1>10, <1>11, <1>12 DEF RecordOK, Term!Uncertain
  <1>14. e.status # "opening" /\ e.of \in {term[t].of, None}
    BY <1>1, <1>7, <1>9 DEF Term!Live, Follows, Continues
  <1> QED BY <1>8, <1>9, <1>13, <1>14 DEF Continues

\* closeTerminal: the recoveries of the terminal end with it.
LEMMA CloseTerminalKeeps ==
  ASSUME TerminalsInv, NEW t \in Term!Terminals, Term!CloseTerminal(t)
  PROVE  TerminalsInv'
  <1>0. (\A r \in Term!Terminals : RecordOK(term[r])) /\ opened \in Nat
    BY TerminalsNumbered DEF TerminalsInv, TermTypes
  <1>1. term' = [r \in Term!Terminals |->
          IF r = t THEN Term!Ended(Term!UserClosed(t))
          ELSE IF term[r].known /\ term[r].of = t THEN Term!RecoveryClosed(term[r]) ELSE term[r]]
    BY DEF Term!CloseTerminal
  <1>2. \A r \in Term!Terminals : r # t => Follows(term[r], term'[r])
    BY <1>0, <1>1, FinishedFollows, FollowsSelf DEF Term!RecoveryClosed, Reasons
  <1>3. Continues(term[t], term'[t])
    BY <1>1, UserClosedContinues
  <1>4. \A r \in Term!Terminals : Continues(term[r], term'[r])
    BY <1>2, <1>3 DEF Follows
  <1>5. term' \in [Term!Terminals -> TermRecord]
    <2>1. \A r \in Term!Terminals : term'[r] \in TermRecord
      BY <1>4 DEF Continues, RecordOK
    <2> QED BY <1>1, <2>1
  <1>6. t <= opened
    BY TerminalsNumbered DEF Term!CloseTerminal, TerminalsInv, Numbered
  <1>7. \A r \in Term!Terminals : r > opened => term'[r] = Term!NoTerm
    <2>1. \A r \in Term!Terminals : r > opened => term[r] = Term!NoTerm /\ r # t
      BY <1>0, <1>6, TerminalsNumbered DEF TerminalsInv, Numbered, Term!Terminals
    <2>2. ~Term!NoTerm.known
      BY DEF Term!NoTerm
    <2> QED BY <1>1, <2>1, <2>2
  <1>8. ASSUME NEW r \in Term!Terminals, term'[r].of = t
        PROVE  ~Term!Live(term'[r])
    <2>1. CASE r = t
      BY <1>1, <2>1, UserClosedContinues
    <2>2. CASE r # t
      <3>1. term[r].of = t
        BY <1>3, <1>8, <2>2, <1>2, TerminalsNumbered DEF Follows, Continues
      <3>2. CASE term[r].known
        <4>1. term'[r] = Term!Finished(term[r], "user-closed")
          BY <1>1, <2>2, <3>1, <3>2 DEF Term!RecoveryClosed
        <4>2. RecordOK(term[r]) /\ "user-closed" \in Reasons
          BY <1>0 DEF Reasons
        <4>3. ~Term!Live(Term!Finished(term[r], "user-closed"))
          BY <4>2, FinishedFacts
        <4> QED BY <4>1, <4>3
      <3>3. CASE ~term[r].known
        <4>1. term'[r] = term[r]
          BY <1>1, <2>2, <3>3
        <4> QED BY <1>0, <3>3, <4>1 DEF RecordOK
      <3> QED BY <3>2, <3>3
    <2> QED BY <2>1, <2>2
  <1>9. Steps
    BY <1>2, <1>4, <1>5, <1>7, <1>8 DEF Steps, Follows
  <1> QED BY <1>9, DestroyedKeep DEF Term!CloseTerminal

\* A new terminal is the only live one: the others of the tab go, and the one that is
\* continued was lost.
LEMMA AdmitKeeps ==
  ASSUME TerminalsInv, NEW a \in Asks, Term!Admit(a)
  PROVE  TerminalsInv'
  <1> DEFINE new == [Term!NoTerm EXCEPT !.at = "audits", !.status = "opening", !.known = TRUE,
                             !.of = ask[a].of, !.config = ask[a].config,
                             !.generation = connection.generation]
  <1>0. /\ \A t \in Term!Terminals : RecordOK(term[t])
        /\ opened \in Nat /\ opened' = opened + 1 /\ opened' \in 0..MaxTerminals
        /\ ask \in [Asks -> AskRecord] /\ connection \in [up : BOOLEAN, generation : Nat]
        /\ shell \in [Term!Terminals -> Shells]
        /\ UNCHANGED <<connection, config, closing>>
    BY TerminalsNumbered DEF Term!Admit, TerminalsInv, TermTypes
  <1>1. PICK n \in Term!Terminals : n = opened + 1
    BY <1>0, TerminalsNumbered DEF Term!Terminals
  <1>2. term' = [t \in Term!Terminals |->
          IF t = n THEN new
          ELSE IF Term!Others(a, t) THEN Term!Released(Term!Finished(term[t], "replaced")) ELSE term[t]]
    BY <1>1 DEF Term!Admit
  <1>3. new = [at |-> "audits", status |-> "opening", reason |-> "none", known |-> TRUE,
               exited |-> FALSE, pending |-> FALSE, of |-> ask[a].of, config |-> ask[a].config,
               generation |-> connection.generation, over |-> FALSE]
    <2> DEFINE o == ask[a].of  c == ask[a].config  g == connection.generation
    <2>1. new = [Term!NoTerm EXCEPT !.at = "audits", !.status = "opening", !.known = TRUE,
                               !.of = o, !.config = c, !.generation = g]
      OBVIOUS
    <2> HIDE DEF o, c, g, new
    <2>2. new = [at |-> "audits", status |-> "opening", reason |-> "none", known |-> TRUE,
                 exited |-> FALSE, pending |-> FALSE, of |-> o, config |-> c,
                 generation |-> g, over |-> FALSE]
      BY <2>1 DEF Term!NoTerm
    <2> QED BY <2>2 DEF o, c, g
  <1> HIDE DEF new
  <1>4. RecordOK(new) /\ new.of = ask[a].of /\ new.reason = "none"
        /\ new.config = ask[a].config /\ new.generation = connection.generation
        /\ new.status = "opening" /\ ~new.over
    <2>1. /\ ask[a].of \in Term!Terminals \cup {None} /\ ask[a].config \in Nat
          /\ connection.generation \in Nat
      BY <1>0 DEF AskRecord
    <2>2. new \in TermRecord
      BY <1>3, <2>1 DEF TermRecord, Reasons
    <2>3. /\ new.of = ask[a].of /\ new.reason = "none" /\ new.known
          /\ new.config = ask[a].config /\ new.generation = connection.generation
          /\ new.status = "opening" /\ ~new.over /\ ~new.pending
      BY <1>3
    <2> QED BY <2>2, <2>3 DEF RecordOK
  <1>5. ASSUME NEW t \in Term!Terminals, t # n
        PROVE  /\ Follows(term[t], term'[t]) /\ ~Term!Live(term'[t])
               /\ t = ask[a].of => term'[t] = term[t]
               /\ t > opened => term'[t] = Term!NoTerm
    <2>1. CASE Term!Others(a, t)
      <3>1. term'[t] = Term!Released(Term!Finished(term[t], "replaced"))
        BY <1>2, <1>5, <2>1
      <3>2. Follows(term[t], term'[t]) /\ ~Term!Live(term'[t])
        BY <1>0, <3>1, GoesFollows DEF Reasons
      <3>3. t # ask[a].of /\ term[t].known
        BY <2>1 DEF Term!Others
      <3>4. ~(t > opened)
        BY <3>3 DEF TerminalsInv, Numbered, Term!NoTerm
      <3> QED BY <3>2, <3>3, <3>4
    <2>2. CASE ~Term!Others(a, t)
      <3>1. term'[t] = term[t]
        BY <1>2, <1>5, <2>2
      <3>2. Term!Live(term[t]) => t = ask[a].of
        BY <1>0, <2>2 DEF Term!Others, RecordOK
      <3>3. t = ask[a].of => Term!CanRecover(term[t])
        BY TerminalsNumbered DEF Term!Admit, Term!Admitted, Term!RecoveryStands
      <3>4. ~Term!Live(term[t])
        BY <3>2, <3>3 DEF Term!CanRecover, Term!Live
      <3> QED BY <1>0, <3>1, <3>4, FollowsSelf DEF TerminalsInv, Numbered
    <2> QED BY <2>1, <2>2
  <1>6. term'[n] = new
    BY <1>2
  <1>7. \A t \in Term!Terminals : RecordOK(term'[t])
    BY <1>4, <1>5, <1>6 DEF Follows, Continues
  <1>8. ask' = [ask EXCEPT ![a] = Term!NoAsk] /\ Term!Destroys
    BY DEF Term!Admit
  <1>9. /\ ask' \in [Asks -> AskRecord]
        /\ \A b \in Asks : ask'[b].of # None => ask'[b].of <= opened
        /\ \A b \in Asks : ask'[b].at = "read" => ask'[b] = ask[b]
    BY <1>8, NoAskFacts
  <1>10. \A t \in Term!Terminals :
           shell'[t] = IF shell[t] = "open" /\ ~Term!Live(term'[t]) THEN "gone" ELSE shell[t]
    BY <1>8 DEF Term!Destroys
  <1>11. /\ shell' \in [Term!Terminals -> Shells] /\ \A t \in Term!Terminals : shell'[t] # "open"
         /\ \A t \in Term!Terminals : t > opened => shell'[t] = "none"
    <2>1. \A t \in Term!Terminals : t > opened => shell[t] = "none"
      BY DEF TerminalsInv, Numbered
    <2>2. shell[n] = "none"
      BY <1>0, <1>1, <2>1
    <2>3. \A t \in Term!Terminals : shell'[t] # "open"
      BY <1>5, <1>10, <2>2
    <2>4. shell' \in [Term!Terminals -> Shells]
      BY <1>0, <1>8 DEF Term!Destroys, Shells
    <2> QED BY <1>10, <2>1, <2>3, <2>4
  <1>12. TermTypes'
    <2>1. term' \in [Term!Terminals -> TermRecord]
      <3>1. \A t \in Term!Terminals : term'[t] \in TermRecord
        BY <1>7 DEF RecordOK
      <3> QED BY <1>2, <3>1
    <2> QED BY <1>0, <1>9, <1>11, <2>1 DEF TerminalsInv, TermTypes
  <1>13. Numbered'
    <2>1. \A t \in Term!Terminals : t > opened' => t # n /\ t > opened
      BY <1>0, <1>1 DEF Term!Terminals
    <2>2. \A t \in Term!Terminals : t > opened' => term'[t] = Term!NoTerm /\ shell'[t] = "none"
      BY <1>5, <1>11, <2>1
    <2>3. ASSUME NEW t \in Term!Terminals, term'[t].of # None
          PROVE  term'[t].of < t
      <3>1. CASE t = n
        <4>1. ask[a].of # None /\ ask[a].of <= opened /\ ask[a].of \in Term!Terminals
          BY <1>0, <1>4, <1>6, <2>3, <3>1 DEF TerminalsInv, Numbered, AskRecord
        <4> QED BY <1>0, <1>1, <1>4, <1>6, <3>1, <4>1 DEF Term!Terminals
      <3>2. CASE t # n
        <4>1. term'[t].of = term[t].of
          BY <1>5, <2>3, <3>2 DEF Follows, Continues
        <4> QED BY <2>3, <4>1 DEF TerminalsInv, Numbered
      <3> QED BY <3>1, <3>2
    <2>4. \A b \in Asks : ask'[b].of # None => ask'[b].of <= opened'
      <3>1. \A b \in Asks : ask'[b].of \in Term!Terminals \cup {None}
        BY <1>9 DEF AskRecord
      <3> QED BY <1>0, <1>9, <3>1 DEF Term!Terminals
    <2>5. closing' # None => closing' <= opened'
      BY <1>0 DEF TerminalsInv, TermTypes, Numbered, Term!Terminals
    <2> QED BY <2>2, <2>3, <2>4, <2>5 DEF Numbered
  <1>14. \A t \in Term!Terminals : Term!Live(term'[t]) => t = n
    BY <1>5
  <1>15. connection.up /\ ask[a].at = "read" /\ ~ask[a].stale
    BY DEF Term!Admit, Term!Admitted, Term!SameEpoch
  <1>16. SettingsOnDisk'
    <2>1. config.save # "written" => ask[a].config = config.version
      BY <1>15 DEF TerminalsInv, SettingsOnDisk
    <2> QED
      BY <1>0, <1>4, <1>6, <1>9, <1>14, <2>1 DEF TerminalsInv, SettingsOnDisk
  <1>17. Term!ShellsOwned'
    BY <1>0, <1>4, <1>6, <1>11, <1>14, <1>15 DEF Term!ShellsOwned
  <1>18. Term!OneInTab'
    BY <1>14 DEF Term!OneInTab
  <1>19. Term!NotResurrected'
    <2>1. ASSUME NEW t \in Term!Terminals
          PROVE  term'[t].over => ~Term!CanRecover(term'[t])
      <3>1. RecordOK(term'[t])
        BY <1>7
      <3> QED BY <3>1 DEF RecordOK, Term!CanRecover
    <2>2. ASSUME NEW t \in Term!Terminals, term'[t].reason = "user-closed",
                 NEW r \in Term!Terminals, term'[r].of = t, Term!Live(term'[r])
          PROVE  FALSE
      <3>1. r = n /\ t = ask[a].of
        BY <1>4, <1>6, <1>14, <2>2
      <3>2. t # n
        BY <1>4, <1>6, <2>2
      <3>3. term[t].reason = "user-closed"
        BY <1>5, <2>2, <3>1, <3>2
      <3>4. Term!CanRecover(term[t])
        BY <3>1, TerminalsNumbered DEF Term!Admit, Term!Admitted, Term!RecoveryStands
      <3> QED BY <3>3, <3>4 DEF Term!CanRecover
    <2> QED BY <2>1, <2>2 DEF Term!NotResurrected
  <1> QED
    BY <1>7, <1>12, <1>13, <1>16, <1>17, <1>18, <1>19 DEF TerminalsInv

\* The invariant holds at the start.
LEMMA TerminalsStart == Term!Init => TerminalsInv
  <1> SUFFICES ASSUME Term!Init PROVE TerminalsInv
    OBVIOUS
  <1>1. Term!NoTerm \in TermRecord /\ RecordOK(Term!NoTerm) /\ ~Term!Live(Term!NoTerm) /\ Term!NoTerm.of = None
        /\ ~Term!NoTerm.over /\ Term!NoTerm.reason = "none"
    BY NoTermOK DEF Term!NoTerm, RecordOK
  <1>2. Term!NoAsk \in AskRecord /\ Term!NoAsk.of = None /\ Term!NoAsk.at = "none"
    BY DEF Term!NoAsk, AskRecord
  <1>3. TermTypes
    BY <1>1, <1>2, TerminalsNumbered DEF Term!Init, TermTypes, Shells
  <1> QED
    BY <1>1, <1>2, <1>3
    DEF Term!Init, TerminalsInv, Numbered, SettingsOnDisk, Term!ShellsOwned, Term!OneInTab, Term!NotResurrected

\* Every step keeps the invariant.
LEMMA TerminalsStep ==
  ASSUME TerminalsInv, Term!Next
  PROVE  TerminalsInv'
  <1>1. CASE \E a \in Asks : Term!Ask(a) \/ Term!Refuse(a) \/ Term!Join(a) \/ Term!Admit(a)
    BY <1>1, AskKeeps, RefuseKeeps, JoinKeeps, AdmitKeeps
  <1>2. CASE \E t \in Term!Terminals :
               \/ Term!Audited(t) \/ Term!ShellFails(t) \/ Term!ShellOpens(t) \/ Term!StartupFails(t) \/ Term!Ready(t)
               \/ Term!Exits(t) \/ Term!Ends(t) \/ Term!Breaks(t) \/ Term!RoundEnds(t)
               \/ Term!Invalidates(t) \/ Term!AsksToClose(t) \/ Term!CloseTerminal(t)
    BY <1>2, AuditedKeeps, ShellFailsKeeps, ShellOpensKeeps, ReadyKeeps, ExitsKeeps, EndsKeeps,
       BreaksKeeps, RoundEndsKeeps, InvalidatesKeeps, AsksToCloseKeeps, CloseTerminalKeeps
  <1>3. CASE Term!Connects \/ Term!Disconnects \/ Term!SaveBegins \/ Term!SaveWrites \/ Term!SaveEnds \/ Term!CloseOwner
    BY <1>3, ConnectsKeeps, DisconnectsKeeps, SaveBeginsKeeps, SaveWritesKeeps, SaveEndsKeeps,
       CloseOwnerKeeps
  <1> QED BY <1>1, <1>2, <1>3 DEF Term!Next

\* So does a stutter.
LEMMA TerminalsStays ==
  ASSUME TerminalsInv, UNCHANGED Term!vars
  PROVE  TerminalsInv'
  BY DEF Term!vars, TerminalsInv, TermTypes, Numbered, SettingsOnDisk, Term!ShellsOwned, Term!OneInTab,
         Term!NotResurrected

\* The invariant gives the property.
LEMMA TerminalsImply == TerminalsInv => Term!TerminalsSound
  BY DEF TerminalsInv, Term!TerminalsSound, SettingsOnDisk, Term!CurrentSettings, Term!Live

\* A right to continue that goes, goes as RightKept says: failures are those of terminals
\* that never were ready.
LEMMA RightStep ==
  ASSUME TerminalsInv, Term!Next, NEW t \in Term!Terminals,
         term[t].at = "done", term[t].known, Term!CanRecover(term[t]), ~term'[t].known
  PROVE  \/ \E r \in Term!Terminals : term'[r].of = t /\ Term!Live(term'[r]) /\ term'[r].at = "done"
         \/ \E a \in Asks : ask[a].at = "read" /\ ask[a].of # t /\ ask'[a].at = "none"
         \/ \A r \in Term!Terminals : ~term'[r].known
  <1>0. /\ \A r \in Term!Terminals : RecordOK(term[r])
        /\ term \in [Term!Terminals -> TermRecord] /\ opened \in Nat
    BY TerminalsNumbered DEF TerminalsInv, TermTypes
  <1>1. CASE \E x \in Closings : Term!CloseScope(x)
    BY <1>1, ScopeStep
  <1>2. CASE UNCHANGED term
    BY <1>2
  <1>3. CASE Term!CloseOwner
    <2>1. ASSUME NEW r \in Term!Terminals PROVE ~term'[r].known
      <3>1. CASE term[r].known
        <4>1. term'[r] = Term!Released(Term!Finished(term[r], "window-closed"))
          BY <1>3, <3>1 DEF Term!CloseOwner
        <4> QED BY <1>0, <4>1, GoesFollows DEF Reasons
      <3>2. CASE ~term[r].known
        BY <1>3, <3>2 DEF Term!CloseOwner
      <3> QED BY <3>1, <3>2
    <2> QED BY <2>1
  <1>4. ASSUME NEW a \in Asks, Term!Join(a) \/ Term!Admit(a)
        PROVE  \E b \in Asks : ask[b].at = "read" /\ ask[b].of # t /\ ask'[b].at = "none"
    <2>1. ask[a].at = "read" /\ ask' = [ask EXCEPT ![a] = Term!NoAsk]
      BY <1>4 DEF Term!Join, Term!Admit
    <2>2. ask'[a].at = "none"
      BY <2>1, NoAskFacts
    <2>3. Term!Others(a, t)
      <3>1. CASE Term!Join(a)
        <4>1. PICK p \in Term!Present(a) :
                term' = [s \in Term!Terminals |->
                  IF s < p /\ Term!Others(a, s) THEN Term!Released(Term!Finished(term[s], "replaced"))
                  ELSE term[s]]
          BY <3>1 DEF Term!Join
        <4> QED BY <4>1
      <3>2. CASE Term!Admit(a)
        <4>1. t # opened + 1
          BY <1>0, TerminalsNumbered DEF TerminalsInv, Numbered, Term!NoTerm, Term!Terminals
        <4>2. ~Term!Others(a, t) => term'[t] = term[t]
          BY <3>2, <4>1 DEF Term!Admit
        <4> QED BY <4>2
      <3> QED BY <1>4, <3>1, <3>2
    <2> QED BY <2>1, <2>2, <2>3 DEF Term!Others
  <1>5. ASSUME NEW s \in Term!Terminals, NEW q, term' = [term EXCEPT ![s] = q],
               s # t \/ q.known
        PROVE  FALSE
    BY <1>0, <1>5
  <1>7. ASSUME NEW s \in Term!Terminals,
               \/ Term!Audited(s) \/ Term!ShellFails(s) \/ Term!ShellOpens(s) \/ Term!StartupFails(s)
               \/ Term!Exits(s) \/ Term!Ends(s) \/ Term!Breaks(s) \/ Term!RoundEnds(s) \/ Term!Invalidates(s)
        PROVE  FALSE
    <2>0. RecordOK(term[s]) /\ RecordOK(term[t]) /\ ~Term!Live(term[t])
      BY <1>0 DEF Term!CanRecover, Term!Live
    <2>1. CASE Term!Audited(s) \/ Term!ShellFails(s) \/ Term!StartupFails(s)
      <3>1. s # t
        BY <2>1 DEF Term!Audited, Term!ShellFails, Term!StartupFails
      <3>2. PICK q : term' = [term EXCEPT ![s] = q]
        BY <2>1 DEF Term!Audited, Term!ShellFails, Term!StartupFails, Term!OpenFails
      <3> QED BY <1>5, <3>1, <3>2
    <2>2. CASE Term!ShellOpens(s)
      <3>1. CASE s # t
        <4>1. PICK q : term' = [term EXCEPT ![s] = q]
          <5>1. CASE Term!StillWanted(s)
            <6>1. term' = [term EXCEPT ![s] = [term[s] EXCEPT !.at = "starting", !.status = "open"]]
              BY <1>0, <2>2, <5>1 DEF Term!ShellOpens
            <6> QED BY <6>1
          <5>2. CASE ~Term!StillWanted(s)
            BY <2>2, <5>2 DEF Term!ShellOpens
          <5> QED BY <5>1, <5>2
        <4> QED BY <1>5, <3>1, <4>1
      <3>2. CASE s = t
        <4>1. term' = [term EXCEPT ![t] = term[t]]
          BY <2>2, <3>2 DEF Term!ShellOpens, Term!StillWanted
        <4> QED BY <1>0, <4>1
      <3> QED BY <3>1, <3>2
    <2>3. CASE Term!Exits(s)
      <3>1. term' = [term EXCEPT ![s] = Term!Exited(term[s])] /\ term[s].known
        BY <2>3 DEF Term!Exits
      <3>2. Term!Exited(term[s]).known
        BY <2>0, <3>1, ExitsFollows
      <3> QED BY <1>5, <3>1, <3>2
    <2>4. CASE Term!Ends(s)
      <3> DEFINE x == IF term[s].exited THEN "remote-exit" ELSE "channel-closed"
      <3>1. x \in Reasons
        BY DEF Reasons
      <3>2. term' = [term EXCEPT ![s] = Term!Finished(term[s], x)]
        BY <2>4 DEF Term!Ends
      <3> HIDE DEF x
      <3>3. Term!Finished(term[s], x).known = term[s].known
        BY <2>0, <3>1, FinishedKnown
      <3> QED BY <1>5, <3>2, <3>3
    <2>5. CASE Term!Breaks(s) \/ Term!Invalidates(s)
      <3>1. s # t
        BY <2>0, <2>5 DEF Term!Breaks, Term!Invalidates
      <3>2. PICK q : term' = [term EXCEPT ![s] = q]
        BY <2>5 DEF Term!Breaks, Term!Invalidates
      <3> QED BY <1>5, <3>1, <3>2
    <2>6. CASE Term!RoundEnds(s)
      <3> DEFINE q == [(IF Term!CanRecover(term[s]) THEN term[s] ELSE Term!Ended(term[s])) EXCEPT !.pending = FALSE]
      <3>1. term' = [term EXCEPT ![s] = q] /\ term[s].pending
        BY <2>6 DEF Term!RoundEnds
      <3>2. q.known = term[s].known
        BY <2>0, <3>1, RoundFollows
      <3> HIDE DEF q
      <3> QED BY <1>5, <3>1, <3>2
    <2> QED BY <1>7, <2>1, <2>2, <2>3, <2>4, <2>5, <2>6
  <1>8. ASSUME NEW s \in Term!Terminals, Term!Ready(s)
        PROVE  \E r \in Term!Terminals : term'[r].of = t /\ Term!Live(term'[r]) /\ term'[r].at = "done"
    <2>1. term' = [r \in Term!Terminals |->
            IF r = s THEN [term[r] EXCEPT !.at = "done"]
            ELSE IF r = term[s].of THEN Term!Released(term[r]) ELSE term[r]]
      BY <1>8 DEF Term!Ready
    <2>2. RecordOK(term[s]) /\ Term!Live(term[s]) /\ s # t
      BY <1>0, <1>8 DEF Term!Ready
    <2>3. t = term[s].of
      BY <2>1, <2>2
    <2>4. term'[s] = [term[s] EXCEPT !.at = "done"]
      BY <2>1
    <2>5. term[s] \in TermRecord
      BY <2>2 DEF RecordOK
    <2>6. term'[s].of = term[s].of /\ term'[s].at = "done" /\ term'[s].status = term[s].status
      BY <2>4, <2>5 DEF TermRecord
    <2>7. Term!Live(term'[s])
      BY <2>2, <2>6 DEF Term!Live
    <2> QED BY <2>3, <2>6, <2>7
  <1>9. ASSUME NEW s \in Term!Terminals, Term!CloseTerminal(s)
        PROVE  FALSE
    <2>1. term' = [r \in Term!Terminals |->
            IF r = s THEN Term!Ended(Term!UserClosed(s))
            ELSE IF term[r].known /\ term[r].of = s THEN Term!RecoveryClosed(term[r]) ELSE term[r]]
      BY <1>9 DEF Term!CloseTerminal
    <2>2. RecordOK(term[t]) /\ RecordOK(term[s]) /\ "user-closed" \in Reasons
      BY <1>0 DEF Reasons
    <2>3. CASE t # s
      <3>1. Term!Finished(term[t], "user-closed").known = term[t].known
        BY <2>2, FinishedFacts
      <3> QED BY <2>1, <2>3, <3>1 DEF Term!RecoveryClosed
    <2>4. CASE t = s
      <3>1. /\ Term!Finished(term[t], "user-closed").known = term[t].known
            /\ Term!Finished(term[t], "user-closed") \in TermRecord
        BY <2>2, FinishedFacts
      <3>2. term'[t] = Term!Ended(Term!UserClosed(t))
        BY <2>1, <2>4
      <3>3. Term!Ended(Term!UserClosed(t)).known = term[t].known
        BY <3>1 DEF Term!Ended, Term!UserClosed, TermRecord
      <3> QED BY <3>2, <3>3
    <2> QED BY <2>3, <2>4
  <1>10. CASE Term!Connects \/ Term!Disconnects \/ Term!SaveBegins \/ Term!SaveWrites \/ Term!SaveEnds
    BY <1>1, <1>2, <1>10 DEF Term!Connects, Term!Disconnects, Term!SaveBegins, Term!SaveWrites, Term!SaveEnds, Closings
  <1>11. CASE \E a \in Asks : Term!Ask(a) \/ Term!Refuse(a)
    BY <1>2, <1>11 DEF Term!Ask, Term!Refuse
  <1>12. CASE \E s \in Term!Terminals : Term!AsksToClose(s)
    BY <1>2, <1>12 DEF Term!AsksToClose
  <1> QED
    BY <1>3, <1>4, <1>7, <1>8, <1>9, <1>10, <1>11, <1>12 DEF Term!Next


-----------------------------------------------------------------------------
(* The parts together.  A part that is not at work stays as it began.        *)

\* The invariants of the two small parts.
SessionsInv == SshInv /\ TerminalsInv

\* They hold at the start.
LEMMA SessionsStart == AllInit => SessionsInv
  BY SshStarts, TerminalsStart DEF AllInit, SessionsInv

\* A step of one part leaves the other one alone.
LEMMA SessionsStep == SessionsInv /\ [AllNext]_allVars => SessionsInv'
<1> SUFFICES ASSUME SessionsInv, [AllNext]_allVars PROVE SessionsInv'
  OBVIOUS
<1>1. CASE Ssh!Next /\ UNCHANGED terminalVars
  <2>1. UNCHANGED Term!vars
    BY <1>1 DEF terminalVars, Term!vars
  <2> QED BY <1>1, <2>1, SshStep, TerminalsStays DEF SessionsInv
<1>2. CASE Term!Next /\ UNCHANGED sshVars
  <2>1. UNCHANGED Ssh!vars
    BY <1>2 DEF sshVars, Ssh!vars
  <2> QED BY <1>2, <2>1, SshStep, TerminalsStep DEF SessionsInv
<1>3. CASE UNCHANGED <<sshVars, terminalVars>>
  <2>1. UNCHANGED Ssh!vars /\ UNCHANGED Term!vars
    BY <1>3 DEF sshVars, terminalVars, Ssh!vars, Term!vars
  <2> QED BY <2>1, SshStep, TerminalsStays DEF SessionsInv
<1> QED BY <1>1, <1>2, <1>3 DEF AllNext, allVars

\* What the later call and the right to continue a terminal ask of a step.
LEMMA StandsInStep == SessionsInv /\ [AllNext]_allVars => [Overtaking]_(Ssh!vars)
  <1>1. [AllNext]_allVars => [Ssh!Next]_(Ssh!vars)
    BY DEF AllNext, allVars, sshVars, Ssh!vars
  <1> QED BY <1>1, SshOvertaken DEF SessionsInv

\* What RightKept asks of a step.
RightIn ==
  \A t \in Term!Terminals :
    term[t].at = "done" /\ term[t].known /\ Term!CanRecover(term[t]) /\ ~term'[t].known =>
      \/ \E r \in Term!Terminals : term'[r].of = t /\ Term!Live(term'[r]) /\ term'[r].at = "done"
      \/ \E a \in Asks : ask[a].at = "read" /\ ask[a].of # t /\ ask'[a].at = "none"
      \/ \A r \in Term!Terminals : ~term'[r].known

\* It holds of every step.
LEMMA KeptInStep == SessionsInv /\ [AllNext]_allVars => [RightIn]_(Term!vars)
  <1>1. [AllNext]_allVars => [Term!Next]_(Term!vars)
    BY DEF AllNext, allVars, terminalVars, Term!vars
  <1>2. SessionsInv /\ Term!Next => RightIn
    BY RightStep DEF SessionsInv, RightIn
  <1> QED BY <1>1, <1>2

\* Whichever calls overtake one another and whichever terminals are asked for,
\* lost, continued and closed: the session, its sockets and the last event agree
\* and one client is alive, a call that was overtaken gets no session and a close
\* by an older call leaves the newer one alone; no shell runs without a record
\* and no terminal without its connection, one is open in a tab and with the
\* settings on disk, none that was closed or has exited comes back, and the right
\* to continue a lost one goes only to what replaces it.
THEOREM ConnectionsAndTerminalsKeep == AllSpec => SessionsKeep
<1>1. SessionsInv => Ssh!SessionSound /\ Term!TerminalsSound
  BY OneAlive, TerminalsImply DEF SessionsInv, SshInv, Ssh!SessionSound
<1>2. AllSpec => []SessionsInv
  BY SessionsStart, SessionsStep, PTL DEF AllSpec
<1>3. AllSpec => [](/\ part = "ssh" => Ssh!SessionSound
                    /\ part = "terminal" => Term!TerminalsSound)
  <2>1. SessionsInv => /\ part = "ssh" => Ssh!SessionSound
                       /\ part = "terminal" => Term!TerminalsSound
    BY <1>1
  <2> QED BY <1>2, <2>1, PTL
<1>4. AllSpec => Ssh!LaterCallStands
  BY <1>2, StandsInStep, PTL DEF AllSpec, Ssh!LaterCallStands, Overtaking
<1>5. AllSpec => Term!RightKept
  BY <1>2, KeptInStep, PTL DEF AllSpec, Term!RightKept, RightIn
<1> QED BY <1>3, <1>4, <1>5 DEF SessionsKeep
=============================================================================
