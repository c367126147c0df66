------------------------- MODULE ConfigTransaction -------------------------
(***************************************************************************)
(* Saving the connection of a plugin: its YAML and its credential live in  *)
(* different files, and a journal makes the two change together.           *)
(*   PluginConfigTransactionJournal  src/src/plugin-config-transaction.mjs *)
(*   commitConnectionPluginUpdate    src/src/plugin-configuration-service.mjs *)
(*   PluginCredentialVault           src/src/plugin-credential-vault.mjs   *)
(*                                                                         *)
(* Every write may fail, the program may crash between any two writes, the *)
(* system keyring may become unavailable, and a credential file may be     *)
(* damaged from outside.  Each plugin belongs to another environment, so   *)
(* that saves of different plugins interleave; the saves of one plugin are *)
(* serialised by its environment's mutation queue (MutationCoordinator).   *)
(***************************************************************************)
EXTENDS CredentialVault

CONSTANTS
  NoRecord, NoSave, NoMirror,
  MaxRevision,    \* bound: revisions of a plugin
  MaxDamage       \* bound: damages to the credential files

ASSUME ConfigAssumption ==
  /\ MaxRevision \in Nat \ {0} /\ MaxDamage \in Nat

VARIABLES
  yaml,        \* on disk: revision and binding of each plugin
  primary,     \* on disk: plugins.enc.json
  backup,      \* on disk: plugins.enc.backup.json
  journal,     \* on disk: the open transaction of each plugin
  up,          \* the program runs
  recovering,  \* plugins whose journal recoverAll has still to look at
  blocked,     \* blockedScopes
  save,        \* the save under way for each plugin
  mirror,      \* vault queue: the save between its two file writes
  keyring,     \* the system keyring is available
  damage,      \* damages so far
  attempt      \* history variable: the last save and what was told of it

disk == <<yaml, primary, backup, journal>>
memory == <<up, recovering, blocked, save, mirror>>
vars == <<disk, memory, keyring, damage, attempt>>
-----------------------------------------------------------------------------
Revisions == 1..MaxRevision
Running == up /\ recovering = {}

Record == [previous : Revisions, before : Bindings, after : Bindings,
           had : BOOLEAN, expects : BOOLEAN]
Save == [stage : {"journaled", "yaml", "written"}, previous : Revisions,
         before : Bindings, after : Bindings,
         secret : Secrets \cup {NoSecret}, force : BOOLEAN]

\* What stands for nothing is no record.
ASSUME NothingAssumption ==
  /\ NoRecord \notin Record /\ NoSave \notin Save
  /\ NoMirror \notin [plugin : Plugins, slot : Slot]

Load(p, b) == LoadFrom(primary, backup, p, b, keyring)

\* What the files say of p, keyring permitting.
Stored(p, b) == LoadFrom(primary, backup, p, b, TRUE)
Pair(b, s) == [binding |-> b, secret |-> s]
Kept(p) == Pair(yaml[p].binding, Stored(p, yaml[p].binding))

\* An older credential for the new binding b that one of the files still has.
Resurrectable(p, b) ==
  {Pair(b, slot.entries[p].secret) : slot \in
     {x \in {primary, backup} : /\ Has(x, p) /\ x.entries[p].binding = b
                                /\ b # yaml[p].binding}}

Attempt(p, b, s) ==
  [old |-> Kept(p),
   new |-> Pair(b, IF s = NoSecret THEN Kept(p).secret ELSE s),
   stale |-> Resurrectable(p, b), wrote |-> FALSE, told |-> "open"]
Settled(p) ==
  [old |-> Kept(p), new |-> Kept(p), stale |-> {}, wrote |-> FALSE,
   told |-> "saved"]

Init ==
  /\ \E held \in SUBSET Plugins, b \in Bindings, s \in Secrets :
       LET slot == IF held = {} THEN MissingSlot ELSE
             [kind |-> "valid", entries |-> [p \in Plugins |->
                IF p \in held THEN [binding |-> b, secret |-> s, clear |-> TRUE]
                              ELSE NoEntry]]
       IN /\ primary = slot /\ backup = slot
          /\ yaml = [p \in Plugins |-> [revision |-> 1, binding |-> b]]
  /\ journal = [p \in Plugins |-> NoRecord]
  /\ up = TRUE /\ recovering = {} /\ blocked = {}
  /\ save = [p \in Plugins |-> NoSave]
  /\ mirror = NoMirror
  /\ keyring = TRUE /\ damage = 0
  /\ attempt = [p \in Plugins |-> Settled(p)]
-----------------------------------------------------------------------------
(* PluginConfigTransactionJournal.complete: the record goes, or the plugin *)
(* is fenced until the next start.                                         *)
Complete(p) ==
  \/ /\ journal' = [journal EXCEPT ![p] = NoRecord]
     /\ blocked' = blocked \ {p}
  \/ /\ blocked' = blocked \cup {p}
     /\ UNCHANGED journal

\* The save is over, and the user was told that it failed.
Failed(p) ==
  /\ save' = [save EXCEPT ![p] = NoSave]
  /\ attempt' = [attempt EXCEPT ![p].told = "failed",
                   ![p].stale = IF journal'[p] = NoRecord THEN {} ELSE @]

Begins(p, b, s, force) ==
  /\ save' = [save EXCEPT ![p] =
       [stage |-> "journaled", previous |-> yaml[p].revision,
        before |-> yaml[p].binding, after |-> b, secret |-> s, force |-> force]]
  /\ journal' = [journal EXCEPT ![p] =
       [previous |-> yaml[p].revision, before |-> yaml[p].binding, after |-> b,
        had |-> StoredEntry(primary, backup, p),
        expects |-> \/ s # NoSecret
                    \/ b # yaml[p].binding /\ StoredEntry(primary, backup, p)]]
  /\ attempt' = [attempt EXCEPT ![p] = Attempt(p, b, s)]
  /\ UNCHANGED <<yaml, primary, backup, up, recovering, blocked, mirror,
                 keyring, damage>>

\* prepare: the journal record is on disk before anything else changes.
Prepare(p) ==
  /\ Running /\ save[p] = NoSave
  /\ journal[p] = NoRecord
  /\ p \notin blocked
  /\ StoredEntryKnown(primary, backup, p)
  /\ yaml[p].revision < MaxRevision
  /\ \E b \in Bindings, s \in Secrets \cup {NoSecret}, force \in BOOLEAN :
       (force => s # NoSecret) /\ Begins(p, b, s, force)

\* prepare refuses while an earlier transaction is on disk, and fences.
PrepareRefused(p) ==
  /\ Running /\ save[p] = NoSave
  /\ journal[p] # NoRecord /\ p \notin blocked
  /\ blocked' = blocked \cup {p}
  /\ UNCHANGED <<disk, up, recovering, save, mirror, keyring, damage, attempt>>

\* commitPluginSnapshot, then the vault.
CommitYaml(p) ==
  /\ up /\ save[p] # NoSave /\ save[p].stage = "journaled"
  /\ yaml[p].revision = save[p].previous
  /\ yaml' = [yaml EXCEPT ![p] = [revision |-> save[p].previous + 1,
                                  binding |-> save[p].after]]
  /\ save' = [save EXCEPT ![p].stage = "yaml"]
  /\ UNCHANGED <<primary, backup, journal, up, recovering, blocked, mirror,
                 keyring, damage, attempt>>

\* The write failed, the revision moved, or SQL is still running.
CommitYamlFails(p) ==
  /\ up /\ save[p] # NoSave /\ save[p].stage = "journaled"
  /\ Complete(p) /\ Failed(p)
  /\ UNCHANGED <<yaml, primary, backup, up, recovering, mirror, keyring, damage>>
-----------------------------------------------------------------------------
\* prepareSecretsUpdate: what to write, or Unreadable to refuse.
Merged(p) ==
  LET old == Load(p, save[p].before)
      new == save[p].secret
  IN CASE old # Unreadable -> IF new = NoSecret THEN old ELSE new
       [] old = Unreadable /\ save[p].force
          /\ Discardable(primary, backup, p, save[p].before) -> new
       [] OTHER -> Unreadable

NothingToSave(p) ==
  \/ save[p].after = save[p].before /\ save[p].secret = NoSecret
  \/ Merged(p) = NoSecret

\* saveMerged has nothing to write: same target, no secret, or none at all.
SkipVault(p) ==
  /\ up /\ save[p] # NoSave /\ save[p].stage = "yaml"
  /\ NothingToSave(p)
  /\ mirror = NoMirror \/ save[p].after = save[p].before
  /\ save' = [save EXCEPT ![p].stage = "written"]
  /\ UNCHANGED <<disk, up, recovering, blocked, mirror, keyring, damage, attempt>>

\* The rename of the primary file is the commit point of the vault.
WritePrimary(p) ==
  /\ up /\ save[p] # NoSave /\ save[p].stage = "yaml"
  /\ mirror = NoMirror
  /\ ~NothingToSave(p)
  /\ Merged(p) # Unreadable /\ keyring
  /\ Writable(primary, backup)
  /\ LET entry == [binding |-> save[p].after, secret |-> Merged(p), clear |-> TRUE]
     IN /\ primary' = Saved(primary, backup, p, entry)
        /\ mirror' = [plugin |-> p, slot |-> Saved(backup, primary, p, entry)]
  /\ attempt' = [attempt EXCEPT ![p].wrote = TRUE]
  /\ UNCHANGED <<yaml, backup, journal, up, recovering, blocked, save,
                 keyring, damage>>

\* The backup follows; its failure is ignored.
WriteBackup ==
  /\ up /\ mirror # NoMirror
  /\ backup' \in {backup, mirror.slot}
  /\ save' = [save EXCEPT ![mirror.plugin].stage = "written"]
  /\ mirror' = NoMirror
  /\ UNCHANGED <<yaml, primary, journal, up, recovering, blocked, keyring,
                 damage, attempt>>

InVault(p) ==
  /\ up /\ save[p] # NoSave /\ save[p].stage = "yaml"
  /\ IF mirror = NoMirror THEN TRUE ELSE mirror.plugin # p

\* Mutant: the record is removed before the YAML is restored.
VaultFailsUnrestored(p) ==
  /\ InVault(p)
  /\ yaml[p].revision = save[p].previous + 1
  /\ UNCHANGED yaml
  /\ Complete(p) /\ Failed(p)
  /\ UNCHANGED <<primary, backup, up, recovering, mirror, keyring, damage>>

\* Mutant: the restored YAML gets a revision of its own.
VaultFailsBumping(p) ==
  /\ InVault(p)
  /\ yaml[p].revision = save[p].previous + 1
  /\ yaml' = [yaml EXCEPT ![p] = [revision |-> save[p].previous + 2,
                                  binding |-> save[p].before]]
  /\ Complete(p) /\ Failed(p)
  /\ UNCHANGED <<primary, backup, up, recovering, mirror, keyring, damage>>

\* The credential was not saved: the YAML goes back to what it was.
VaultFails(p) ==
  /\ InVault(p)
  /\ yaml[p].revision = save[p].previous + 1
  /\ yaml' = [yaml EXCEPT ![p] = [revision |-> save[p].previous,
                                  binding |-> save[p].before]]
  /\ Complete(p) /\ Failed(p)
  /\ UNCHANGED <<primary, backup, up, recovering, mirror, keyring, damage>>

\* ... and the restore fails too: the record stays for the next start.
VaultAndRestoreFail(p) ==
  /\ InVault(p)
  /\ save' = [save EXCEPT ![p] = NoSave]
  /\ UNCHANGED <<disk, up, recovering, blocked, mirror, keyring, damage, attempt>>

\* Both files are saved; a record that cannot be removed is only a warning.
FinishSave(p) ==
  /\ up /\ save[p] # NoSave /\ save[p].stage = "written"
  /\ Complete(p)
  /\ save' = [save EXCEPT ![p] = NoSave]
  /\ attempt' = [attempt EXCEPT ![p].told = "saved"]
  /\ UNCHANGED <<yaml, primary, backup, up, recovering, mirror, keyring, damage>>
-----------------------------------------------------------------------------
\* Edits that keep the binding: metadata, Agent settings, limits.  None of
\* them looks at the fence.
EditSettings(p) ==
  /\ Running /\ save[p] = NoSave
  /\ yaml[p].revision < MaxRevision
  /\ yaml' = [yaml EXCEPT ![p].revision = @ + 1]
  /\ UNCHANGED <<primary, backup, journal, memory, keyring, damage, attempt>>

\* A connect that began before the save stores the host key it trusted.
TrustHostKey(p) ==
  /\ Running /\ save[p] # NoSave
  /\ yaml[p].revision < MaxRevision
  /\ yaml' = [yaml EXCEPT ![p].revision = @ + 1]
  /\ UNCHANGED <<primary, backup, journal, memory, keyring, damage, attempt>>

Crash ==
  /\ up
  /\ up' = FALSE /\ recovering' = {} /\ blocked' = {}
  /\ save' = [p \in Plugins |-> NoSave]
  /\ mirror' = NoMirror
  /\ UNCHANGED <<disk, keyring, damage, attempt>>

\* Mutant: the backup is refreshed from the primary at every start.
StartRefreshing ==
  /\ ~up
  /\ up' = TRUE
  /\ recovering' = {p \in Plugins : journal[p] # NoRecord}
  /\ backup' = IF Valid(primary) THEN primary ELSE backup
  /\ UNCHANGED <<yaml, primary, journal, blocked, save, mirror, keyring,
                 damage, attempt>>

\* ensureBackup only fills a backup that holds no envelope.
Start ==
  /\ ~up
  /\ up' = TRUE
  /\ recovering' = {p \in Plugins : journal[p] # NoRecord}
  /\ \/ UNCHANGED backup
     \/ Valid(primary) /\ ~Valid(backup) /\ backup' = primary
  /\ UNCHANGED <<yaml, primary, journal, blocked, save, mirror, keyring,
                 damage, attempt>>
-----------------------------------------------------------------------------
(* recoverAll.  The YAML must be one of the two recorded versions.         *)
Recognised(p) ==
  \/ yaml[p].revision = journal[p].previous /\ yaml[p].binding = journal[p].before
  \/ yaml[p].revision = journal[p].previous + 1 /\ yaml[p].binding = journal[p].after

\* Mutant: a credential that was asked for and never stored is not expected.
OutcomeForgetful(p, after, before) ==
  LET r == journal[p] IN
  IF ~Recognised(p) THEN "block"
  ELSE IF r.before = r.after THEN "keep"
  ELSE IF after \notin {NoSecret, Unreadable} THEN "forward"
  ELSE IF ~r.had /\ after = NoSecret /\ ~r.expects THEN "keep"
  ELSE IF before \notin {NoSecret, Unreadable} THEN "back" ELSE "block"

Outcome(p, after, before) ==
  LET r == journal[p] IN
  IF ~Recognised(p) THEN "block"
  ELSE IF r.before = r.after THEN "keep"
  ELSE IF after \notin {NoSecret, Unreadable} THEN "forward"
  ELSE IF ~r.had /\ after = NoSecret /\ ~r.expects THEN "keep"
  ELSE IF \/ ~r.had /\ r.expects /\ after = NoSecret /\ before = NoSecret
          \/ before \notin {NoSecret, Unreadable} THEN "back"
  ELSE "block"

\* Mutant: the old credential is looked at first.
DecisionBackFirst(p) ==
  IF Recognised(p) /\ Load(p, journal[p].before) \notin {NoSecret, Unreadable}
    THEN "back" ELSE Outcome(p, Load(p, journal[p].after), Load(p, journal[p].before))

Decision(p) == Outcome(p, Load(p, journal[p].after), Load(p, journal[p].before))

Recovered(p) ==
  CASE Decision(p) = "forward" -> [revision |-> journal[p].previous + 1,
                                   binding |-> journal[p].after]
    [] Decision(p) = "back" -> [revision |-> journal[p].previous,
                                binding |-> journal[p].before]
    [] OTHER -> yaml[p]

RecoverStep(p) ==
  /\ p \in recovering
  /\ recovering' = recovering \ {p}
  /\ UNCHANGED <<primary, backup, up, save, mirror, keyring, damage, attempt>>

Recover(p) ==
  /\ RecoverStep(p)
  /\ Decision(p) # "block"
  /\ yaml' = [yaml EXCEPT ![p] = Recovered(p)]
  /\ Complete(p)

\* The state cannot be decided, or reading or writing it failed.
Quarantine(p) ==
  /\ RecoverStep(p)
  /\ blocked' = blocked \cup {p}
  /\ UNCHANGED <<yaml, journal>>
-----------------------------------------------------------------------------
\* The environment: the keyring comes and goes, credential files rot.
KeyringFlips ==
  /\ keyring' = ~keyring
  /\ UNCHANGED <<disk, memory, damage, attempt>>

Rots(slot) ==
  {DamagedSlot} \cup
  {[slot EXCEPT !.entries[p].clear = FALSE] : p \in {q \in Plugins : Has(slot, q)}}

FilesRot ==
  /\ damage < MaxDamage
  /\ \/ Valid(primary) /\ primary' \in Rots(primary) /\ UNCHANGED backup
     \/ Valid(backup) /\ backup' \in Rots(backup) /\ UNCHANGED primary
  /\ damage' = damage + 1
  /\ UNCHANGED <<yaml, journal, memory, keyring, attempt>>

SaveStep(p) ==
  \/ Prepare(p) \/ PrepareRefused(p)
  \/ CommitYaml(p) \/ CommitYamlFails(p)
  \/ SkipVault(p) \/ WritePrimary(p) \/ VaultFails(p) \/ VaultAndRestoreFail(p)
  \/ FinishSave(p)
Next ==
  \/ \E p \in Plugins : SaveStep(p)
  \/ WriteBackup
  \/ \E p \in Plugins : EditSettings(p) \/ TrustHostKey(p)
  \/ Crash \/ Start
  \/ \E p \in Plugins : Recover(p) \/ Quarantine(p)
  \/ KeyringFlips \/ FilesRot

Spec == Init /\ [][Next]_vars
-----------------------------------------------------------------------------
\* The disk, the memory and the history variable keep their types.
Pairs == [binding : Bindings, secret : Secrets \cup {NoSecret, Unreadable}]
TypeOK ==
  /\ yaml \in [Plugins -> [revision : Revisions, binding : Bindings]]
  /\ primary \in Slot /\ backup \in Slot
  /\ journal \in [Plugins -> Record \cup {NoRecord}]
  /\ up \in BOOLEAN /\ keyring \in BOOLEAN
  /\ recovering \subseteq Plugins /\ blocked \subseteq Plugins
  /\ save \in [Plugins -> Save \cup {NoSave}]
  /\ mirror = NoMirror \/ mirror \in [plugin : Plugins, slot : Slot]
  /\ damage \in 0..MaxDamage
  /\ attempt \in [Plugins -> [old : Pairs, new : Pairs, stale : SUBSET Pairs,
                              wrote : BOOLEAN, told : {"open", "saved", "failed"}]]

(* A save is all or nothing, across failed writes, crashes and recoveries, *)
(* while the credential files stay intact: a save reported as done has the *)
(* new target with the new credential, and so has one whose credential     *)
(* reached the vault; a failed or interrupted one has the old pair.  Where *)
(* no credential exists, an interrupted save may keep the new target.  The *)
(* one other outcome is an older credential of the new target that one of  *)
(* the two files still had when the save began.                            *)
Outcomes(p) ==
  LET a == attempt[p] IN
  IF a.told = "saved" \/ (a.told = "open" /\ a.wrote) THEN {a.new}
  ELSE {a.old} \cup a.stale \cup
       (IF a.told = "open" /\ a.new.secret = NoSecret THEN {a.new} ELSE {})
AllOrNothing ==
  /\ TypeOK
  /\ damage = 0 =>
       \A p \in Plugins :
         save[p] = NoSave /\ (journal[p] = NoRecord \/ attempt[p].told # "open")
           => Kept(p) \in Outcomes(p)

(* No instant of a save or of a recovery leaves a target on disk without   *)
(* its credential unless the journal that explains it is on disk too.      *)
OrphanCovered ==
  damage = 0 =>
    \A p \in Plugins :
      Stored(p, yaml[p].binding) = Unreadable => journal[p] # NoRecord

(* Wherever the program crashes, the next start can decide what to do with *)
(* the transaction, if nobody edited the plugin in between and the keyring *)
(* answers.                                                                *)
RecoveryDecides ==
  damage = 0 =>
    \A p \in Plugins :
      journal[p] # NoRecord /\ Recognised(p) =>
        Outcome(p, Stored(p, journal[p].after), Stored(p, journal[p].before)) # "block"

(* A save, a recovery or a start that is about one plugin never costs      *)
(* another plugin its credential, even when one of the files is damaged.   *)
NeighboursUntouched ==
  [][damage' = damage =>
       \A p \in Plugins :
         (yaml[p] = yaml'[p] /\ save[p] = save'[p] /\ attempt[p] = attempt'[p]
          /\ Stored(p, yaml[p].binding) # Unreadable)
           => Stored(p, yaml[p].binding)' = Stored(p, yaml[p].binding)]_vars

(* What the message of CONFIG_TRANSACTION_CLEANUP_PENDING promises after a *)
(* save whose record could not be removed: the next start finishes it.     *)
RestartCompletesCleanup ==
  damage = 0 /\ keyring =>
    \A p \in recovering : attempt[p].told = "saved" => Decision(p) # "block"
=============================================================================
