-------------------------- MODULE CredentialVault --------------------------
(***************************************************************************)
(* The two files of PluginCredentialVault                                  *)
(* (src/src/plugin-credential-vault.mjs): what an envelope holds, what a   *)
(* load finds in the pair of them, and what a save writes to each.         *)
(*                                                                         *)
(* A credential is one opaque secret: the merge of its named fields        *)
(* (password, passphrase, ...) is left out, so a replacement replaces it   *)
(* whole.  An entry carries the hash of the target it was saved for; that  *)
(* hash is the binding itself here.                                        *)
(***************************************************************************)
EXTENDS Naturals, FiniteSets

CONSTANTS
  Plugins,
  Bindings,     \* targets of a plugin: host, user, route, TLS
  Secrets,
  NoSecret,     \* load found nothing saved
  Unreadable,   \* load failed: other binding, undecryptable, damaged file
  NoEntry

ASSUME VaultAssumption ==
  /\ NoSecret \notin Secrets /\ Unreadable \notin Secrets
  /\ NoSecret # Unreadable

Entry == [binding : Bindings, secret : Secrets, clear : BOOLEAN]
ASSUME EntryAssumption == NoEntry \notin Entry

Slot == [kind : {"missing", "damaged", "valid"},
         entries : [Plugins -> Entry \cup {NoEntry}]]
NoEntries == [p \in Plugins |-> NoEntry]
MissingSlot == [kind |-> "missing", entries |-> NoEntries]
DamagedSlot == [kind |-> "damaged", entries |-> NoEntries]
Valid(slot) == slot.kind = "valid"
Has(slot, p) == slot.entries[p] # NoEntry

\* What one slot yields for plugin p with binding b.
Opens(slot, p, b, unlocked) ==
  /\ Has(slot, p)
  /\ slot.entries[p].binding = b
  /\ slot.entries[p].clear /\ unlocked
Refuses(slot, p, b, unlocked) == Has(slot, p) /\ ~Opens(slot, p, b, unlocked)

\* The primary's values win; an error surfaces only when neither slot opens.
LoadFrom(primary, backup, p, b, unlocked) ==
  CASE Opens(primary, p, b, unlocked) -> primary.entries[p].secret
    [] ~Opens(primary, p, b, unlocked) /\ Opens(backup, p, b, unlocked)
         -> backup.entries[p].secret
    [] OTHER ->
         IF \E slot \in {primary, backup} :
              Refuses(slot, p, b, unlocked) \/ slot.kind = "damaged"
           THEN Unreadable ELSE NoSecret

\* A forced replacement may discard an entry that fails to open, not a file.
Discardable(primary, backup, p, b) ==
  \E slot \in {primary, backup} : Refuses(slot, p, b, TRUE)

\* Nothing can be said of an entry that a damaged file may have held.
StoredEntryKnown(primary, backup, p) ==
  \/ Has(primary, p) \/ Has(backup, p)
  \/ primary.kind # "damaged" /\ backup.kind # "damaged"
StoredEntry(primary, backup, p) == Has(primary, p) \/ Has(backup, p)

\* saveUnlocked: each slot keeps its own other entries; a slot without an
\* envelope starts from the other one.
Writable(primary, backup) ==
  \/ Valid(primary) \/ Valid(backup)
  \/ primary.kind = "missing" /\ backup.kind = "missing"
Base(slot, other) == IF Valid(slot) THEN slot.entries ELSE other.entries
Saved(slot, other, p, entry) ==
  [kind |-> "valid", entries |-> [Base(slot, other) EXCEPT ![p] = entry]]
=============================================================================
