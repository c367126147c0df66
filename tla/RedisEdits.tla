------------------------------ MODULE RedisEdits ------------------------------
(* Edits and the export of one Redis key: DesktopRedisEditor                   *)
(* (src/src/desktop-redis-editor.mjs), each edit over a connection of its own  *)
(* (src/src/redis-edit-connection.mjs, redis-workspace-reader.mjs), and        *)
(* exportRedisValue (src/src/redis-value-export.mjs).  The server and its      *)
(* other clients are external.                                                 *)
EXTENDS Naturals, Sequences, FiniteSets

CONSTANTS
  Edits,       \* bound: editing tabs on the key
  MaxChanges,  \* bound: writes of other clients
  Blocks,      \* bound: blocks of a value that is exported
  None

VARIABLES
  key,      \* the key on the server: the last write, None if it is absent
  changes,  \* writes of other clients so far
  since,    \* tabs (and the export) whose value was written over since they read it
  watched,  \* server: connections with a WATCH
  dirty,    \* server: those among them whose key was written since
  sent,     \* server: connections whose EXEC is on its way
  applied,  \* edits whose write took effect
  conn,     \* connection of each edit
  edit,     \* edits: mode, stage, plan
  answer,   \* reply to the EXEC of each edit
  export    \* the export: stage, blocks read, the file

vars == <<key, changes, since, watched, dirty, sent, applied, conn, edit, answer, export>>

Clients == Edits \cup {"export"}
NoEdit == [at |-> "none", mode |-> "update", known |-> FALSE, plan |-> "none"]
NoExport == [at |-> "none", blocks |-> <<>>, file |-> <<>>]

Init ==
  /\ key \in {None, 0} /\ changes = 0
  /\ since = {} /\ watched = {} /\ dirty = {} /\ sent = {} /\ applied = {}
  /\ conn = [e \in Edits |-> "none"]
  /\ edit = [e \in Edits |-> NoEdit]
  /\ answer = [e \in Edits |-> "none"]
  /\ export = NoExport

(* The server (external). *)

Written(value) ==
  /\ key' = value
  /\ dirty' = dirty \cup watched
  /\ since' = Clients

OtherWrites ==
  /\ changes < MaxChanges /\ changes' = changes + 1
  /\ \E value \in {None, changes + 1} : value # key /\ Written(value)
  /\ UNCHANGED <<watched, sent, applied, conn, edit, answer, export>>

\* An EXEC arrives: aborted when the watched key was written, else applied or
\* rejected by the server as a whole; the reply may be lost later.
Executes(e) ==
  /\ e \in sent /\ sent' = sent \ {e} /\ watched' = watched \ {e}
  /\ \/ /\ e \in dirty
        /\ answer' = [answer EXCEPT ![e] = "conflict"]
        /\ UNCHANGED <<key, dirty, since, applied>>
     \/ /\ e \notin dirty
        /\ Written(IF edit[e].mode = "delete" THEN None ELSE e)
        /\ applied' = applied \cup {e}
        /\ \E reply \in {"ok", "odd"} : answer' = [answer EXCEPT ![e] = reply]
     \/ /\ e \notin dirty
        /\ answer' = [answer EXCEPT ![e] = "rejected"]
        /\ UNCHANGED <<key, dirty, since, applied>>
  /\ UNCHANGED <<changes, conn, edit, export>>

\* A closed connection may have lost what was on its way.
Drops(e) ==
  /\ e \in sent /\ conn[e] = "closed" /\ sent' = sent \ {e}
  /\ UNCHANGED <<key, changes, since, watched, dirty, applied, conn, edit, answer, export>>

(* A tab opens the key. *)

Goes(e, stage) == edit' = [edit EXCEPT ![e].at = stage]
Closes(e) == conn' = [conn EXCEPT ![e] = "closed"]
Server == UNCHANGED <<key, changes, watched, dirty, sent, applied, answer>>

\* Mutant: the value is read before the key is watched.
ReadFirst == <<"opening", "reads", "watches", "opens">>

\* open: the order of the commands.
Opening == <<"opening", "watches", "reads", "opens">>

After(stage) ==
  LET i == CHOOSE i \in 1..3 : Opening[i] = stage IN Opening[i + 1]

Open(e) ==
  /\ edit[e].at = "none"
  /\ \E mode \in {"create", "update", "delete"} :
       edit' = [edit EXCEPT ![e] = [NoEdit EXCEPT !.at = After("opening"), !.mode = mode]]
  /\ conn' = [conn EXCEPT ![e] = "open"]
  /\ Server /\ UNCHANGED <<since, export>>

Watches(e) ==
  /\ edit[e].at = "watches" /\ conn[e] = "open"
  /\ watched' = watched \cup {e} /\ dirty' = dirty \ {e}
  /\ Goes(e, After("watches"))
  /\ UNCHANGED <<key, changes, since, sent, applied, conn, answer, export>>

\* TYPE, PTTL and the value; a key that does not suit the mode ends the edit.
Reads(e) ==
  /\ edit[e].at = "reads" /\ conn[e] = "open"
  /\ since' = since \ {e}
  /\ IF (edit[e].mode = "create") = (key = None)
       THEN Goes(e, After("reads")) /\ UNCHANGED conn
       ELSE Goes(e, "over") /\ Closes(e)
  /\ Server /\ UNCHANGED export

Opened(e) ==
  /\ edit[e].at = "opens" /\ conn[e] = "open"
  /\ edit' = [edit EXCEPT ![e].at = "open", ![e].known = TRUE]
  /\ Server /\ UNCHANGED <<since, conn, export>>

\* A command of open fails with its connection.
OpenFails(e) ==
  /\ edit[e].at \in {"watches", "reads", "opens"} /\ conn[e] = "closed"
  /\ Goes(e, "over")
  /\ Server /\ UNCHANGED <<since, conn, export>>

(* The plan and its commit. *)

\* get with its connection
Held(e) == edit[e].known /\ conn[e] = "open"

\* prepare: another plan takes the place of one that did not run.
Prepare(e) ==
  /\ edit[e].at = "open" /\ Held(e) /\ edit[e].plan \in {"none", "prepared"}
  /\ edit' = [edit EXCEPT ![e].plan = "prepared"]
  /\ Server /\ UNCHANGED <<since, conn, export>>

\* commit: a second one finds the plan running and only looks at it.
Commit(e) ==
  /\ edit[e].at = "open" /\ Held(e) /\ edit[e].plan = "prepared"
  /\ edit' = [edit EXCEPT ![e].plan = "running", ![e].at = "audits"]
  /\ Server /\ UNCHANGED <<since, conn, export>>

\* finally: the connection of the edit is closed, whatever came of it.
Settles(e, status) ==
  /\ edit' = [edit EXCEPT ![e].plan = status, ![e].at = "over"]
  /\ Closes(e)

\* The audit record is written, or not; then MULTI and the write are sent.
Audited(e) ==
  /\ edit[e].at = "audits"
  /\ \/ Settles(e, "failed")
     \/ Held(e) /\ Goes(e, "queues") /\ UNCHANGED conn
  /\ Server /\ UNCHANGED <<since, export>>

\* Mutant: the attempt counts only when the EXEC has been answered.
NotAttempted == "failed"

\* attempted is set before the EXEC is sent.
Attempted == "unknown"

\* The write is queued, or refused; the EXEC is sent, or the time was over.
Exec(e) ==
  /\ edit[e].at = "queues"
  /\ \/ Settles(e, "failed") /\ UNCHANGED sent
     \/ Held(e) /\ Settles(e, Attempted) /\ UNCHANGED sent
     \/ Held(e) /\ Goes(e, "awaits") /\ sent' = sent \cup {e} /\ UNCHANGED conn
  /\ UNCHANGED <<key, changes, since, watched, dirty, applied, answer, export>>

Told(reply) ==
  CASE reply = "ok" -> "success"
    [] reply \in {"conflict", "rejected"} -> "failed"
    [] reply = "odd" -> Attempted

Answered(e) ==
  /\ edit[e].at = "awaits" /\ conn[e] = "open" /\ answer[e] # "none"
  /\ Settles(e, Told(answer[e]))
  /\ Server /\ UNCHANGED <<since, export>>

\* The connection closed under the EXEC.
Unanswered(e) ==
  /\ edit[e].at = "awaits" /\ conn[e] = "closed"
  /\ Settles(e, Attempted)
  /\ Server /\ UNCHANGED <<since, export>>

\* The time limit of a command or of the tab, a broken line, or the end of the
\* session with all its connections.
Cut(e) ==
  /\ conn[e] = "open" /\ Closes(e)
  /\ Server /\ UNCHANGED <<since, edit, export>>

\* release and closeOwner, at any time after open; also the clearing of
\* expired edits that do not run.
Release(e) ==
  /\ edit[e].known
  /\ edit' = [edit EXCEPT ![e].known = FALSE, ![e].at = IF @ = "open" THEN "over" ELSE @]
  /\ Closes(e)
  /\ Server /\ UNCHANGED <<since, export>>

(* The export of the value to a file. *)

\* Up to STRLEN; the key is watched before.
Exports ==
  /\ export.at = "none" /\ key # None
  /\ watched' = watched \cup {"export"} /\ dirty' = dirty \ {"export"}
  /\ since' = since \ {"export"}
  /\ export' = [export EXCEPT !.at = "reads"]
  /\ UNCHANGED <<key, changes, sent, applied, conn, edit, answer>>

\* GETRANGE: of the value as it is now; a shorter one ends the export.
ReadsBlock ==
  /\ export.at = "reads" /\ Len(export.blocks) < Blocks
  /\ export' = IF key = None THEN [export EXCEPT !.at = "over"]
               ELSE [export EXCEPT !.blocks = Append(@, key)]
  /\ Server /\ UNCHANGED <<since, conn, edit>>

\* Mutant: the last EXEC is not looked at.
NeverChanged == TRUE

\* MULTI, PTTL, EXEC: aborted when the key was written since the WATCH.
Unchanged == "export" \notin dirty

Exported ==
  /\ export.at = "reads" /\ Len(export.blocks) = Blocks
  /\ export' = [export EXCEPT !.at = "over", !.file = IF Unchanged THEN export.blocks ELSE @]
  /\ watched' = watched \ {"export"}
  /\ UNCHANGED <<key, changes, since, dirty, sent, applied, conn, edit, answer>>

\* The record is closed, the target is changed by someone else, a command fails.
ExportFails ==
  /\ export.at = "reads"
  /\ export' = [export EXCEPT !.at = "over"]
  /\ watched' = watched \ {"export"}
  /\ UNCHANGED <<key, changes, since, dirty, sent, applied, conn, edit, answer>>

Next ==
  \/ OtherWrites
  \/ \E e \in Edits :
       \/ Executes(e) \/ Drops(e) \/ Open(e) \/ Watches(e) \/ Reads(e) \/ Opened(e)
       \/ OpenFails(e) \/ Prepare(e) \/ Commit(e) \/ Audited(e) \/ Exec(e)
       \/ Answered(e) \/ Unanswered(e) \/ Cut(e) \/ Release(e)
  \/ Exports \/ ReadsBlock \/ Exported \/ ExportFails

Spec == Init /\ [][Next]_vars

--------------------------------------------------------------------------------
(* Properties *)

\* What the plan says of the write is so and stays so, whenever and wherever
\* the connection broke; only an unknown outcome leaves it open.
EditTruthful ==
  \A e \in Edits :
    /\ edit[e].plan = "success" => e \in applied
    /\ edit[e].plan = "failed" => e \notin applied \cup sent

\* The file that is kept holds one value the key has had, never the beginning
\* of one and the end of another.
ExportWhole == \A i, j \in DOMAIN export.file : export.file[i] = export.file[j]

RedisSound == EditTruthful /\ ExportWhole

\* A write takes effect only on the value its tab was shown: nobody's write in
\* between is lost, not even one that was taken back.
NoLostUpdate == [][\A e \in applied' \ applied : e \notin since]_vars
================================================================================
