----------------------- MODULE ConfirmationStatusStore ----------------------
(***************************************************************************)
(* The bounded history of confirmation statuses that Agents poll           *)
(* (src/src/confirmation-status-store.mjs).  A history is the insertion    *)
(* ordered Map of the code, oldest record first.                           *)
(***************************************************************************)
EXTENDS Naturals, Sequences, FiniteSets, SequencesExt, Selections

CONSTANTS
  MaxEntries,   \* records kept at most
  RetainTTL     \* how long a record is kept

ASSUME StoreAssumption == MaxEntries \in Nat \ {0} /\ RetainTTL \in Nat

Visible(history, i) == \E k \in DOMAIN history : history[k].id = i
StatusOf(history, i) == (CHOOSE r \in Range(history) : r.id = i).status

Retained(history, now, i) ==
  {k \in DOMAIN history : history[k].id # i /\ history[k].retainUntil > now}

\* Mutant: records are kept for no time.
RecordBriefly(history, now, i, status) ==
  Append(Selected(history, Retained(history, now, i)),
         [id |-> i, status |-> status, retainUntil |-> now])

\* The record moves to the end; what is past its retention goes, and then
\* the oldest records, until there is room.
Record(history, now, i, status) ==
  LET retained == Retained(history, now, i)
      kept == {k \in retained : Cardinality({j \in retained : j >= k}) < MaxEntries}
  IN Append(Selected(history, kept), [id |-> i, status |-> status, retainUntil |-> now + RetainTTL])

\* Several records made in one step, in order: a sequence of <<id, status>>.
RecordAll(history, now, records) ==
  FoldLeft(LAMBDA h, r : Record(h, now, r[1], r[2]), history, records)

\* A status the executor reports is lost when its record is gone.
Update(history, now, i, status) ==
  IF Visible(history, i) THEN Record(history, now, i, status) ELSE history

\* What get finds: a record past its retention is not shown even if kept.
Shown(history, now, i) == \E r \in Range(history) : r.id = i /\ r.retainUntil > now
=============================================================================
