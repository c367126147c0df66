------------------------------- MODULE FileEdits -------------------------------
(* Editing one text file on a server in several tabs: ServerWorkspaceEditor    *)
(* (src/src/server-workspace-editor.mjs) with readEditableText and             *)
(* replaceEditableText (src/src/server-text-edit.mjs).  SFTP knows no          *)
(* conditional replacement: the file is looked at again just before an atomic  *)
(* rename.  The server, its other users and the text field are external.       *)
EXTENDS Naturals, FiniteSets

CONSTANTS
  Tabs,
  MaxDrafts,   \* bound: texts typed
  MaxSaves,    \* bound: saves confirmed
  MaxChanges,  \* bound: writes of others
  MaxCuts,     \* bound: connections lost and settings saved
  None

VARIABLES
  target,   \* the text of the file on the server
  renames,  \* server: renames on their way, [tab, save, text]
  landed,   \* renames that took effect
  late,     \* tabs that looked for the last time before someone else's write
  made,     \* drafts, saves, changes, cuts so far
  link,     \* the connection and the settings of the server
  tab       \* the record of each tab

vars == <<target, renames, landed, late, made, link, tab>>

\* Texts: who wrote them, and which of his.
Original == <<None, 0>>
NoText == <<None, None>>

\* draft is what the window shows; plan and pending are the text that is to be
\* confirmed and the one that was; save is the number of the last save, answer
\* the reply to its rename, outcome what was told of it.
NoTab == [at |-> "none", status |-> "ready", base |-> NoText, draft |-> NoText,
          dirty |-> FALSE, plan |-> NoText, pending |-> NoText, previous |-> NoText,
          link |-> 0, revision |-> 0, save |-> 0, answer |-> "none", outcome |-> "none"]

Init ==
  /\ target = Original /\ renames = {} /\ landed = {} /\ late = {}
  /\ made = [drafts |-> 0, saves |-> 0, changes |-> 0, cuts |-> 0]
  /\ link = [up |-> TRUE, generation |-> 1, revision |-> 1]
  /\ tab = [e \in Tabs |-> NoTab]

Server == UNCHANGED <<target, renames, landed, late>>
Become(e, record) == tab' = [tab EXCEPT ![e] = record]
Idle(e) == tab[e].at = "open"
Busy(e) == tab[e].at \notin {"none", "open"}

(* The server (external). *)

Looked(e) == tab[e].at \in {"sending", "awaiting"}

\* A write nobody in this program coordinates comes after the last look of
\* the tabs that have had it.
Foreign == late' = late \cup {e \in Tabs : Looked(e)}

OtherWrites ==
  /\ made.changes < MaxChanges /\ made' = [made EXCEPT !.changes = @ + 1]
  /\ target' = <<None, made.changes + 1>>
  /\ Foreign
  /\ UNCHANGED <<renames, landed, link, tab>>

Awaited(r) == tab[r.tab].at = "awaiting" /\ tab[r.tab].save = r.save

Replies(r, reply) ==
  tab' = IF Awaited(r) THEN [tab EXCEPT ![r.tab].answer = reply] ELSE tab

\* The rename is carried out, wherever the program is by then.
Lands(r) ==
  /\ r \in renames /\ renames' = renames \ {r}
  /\ target' = r.text /\ landed' = landed \cup {r}
  /\ IF Awaited(r) THEN UNCHANGED late ELSE Foreign
  /\ Replies(r, "ok")
  /\ UNCHANGED <<made, link>>

\* It fails, is a request this server does not know, or never arrives.
Refused(r) ==
  /\ r \in renames /\ renames' = renames \ {r}
  /\ \E reply \in {"failed", "unsupported"} : Replies(r, reply)
  /\ UNCHANGED <<target, landed, late, made, link>>

(* The operations of a tab. *)

\* requirePlugin: connected, with the expected settings and connection
Connected(e) == link.up /\ tab[e].revision = link.revision
SameLink(e) == Connected(e) /\ tab[e].link = link.generation

\* open: a record, then the first look.
Open(e) ==
  /\ tab[e].at = "none" /\ link.up
  /\ Become(e, [NoTab EXCEPT !.at = "opening", !.link = link.generation,
                             !.revision = link.revision])
  /\ Server /\ UNCHANGED <<made, link>>

\* The answer of the server is the text at one moment: fstat before and after
\* the blocks, lstat around them.
Opened(e) ==
  /\ tab[e].at = "opening" /\ SameLink(e)
  /\ Become(e, [tab[e] EXCEPT !.at = "open", !.base = target, !.draft = target])
  /\ Server /\ UNCHANGED <<made, link>>

\* dirty: told with every change of the text field, which is read-only while
\* there is something to confirm or to verify.
Changed(e, text) ==
  [tab[e] EXCEPT !.draft = text, !.dirty = text # tab[e].base, !.plan = NoText]

Editable(e) == Idle(e) /\ tab[e].plan = NoText /\ tab[e].status = "ready"

Type(e) ==
  /\ Editable(e)
  /\ \/ /\ made.drafts < MaxDrafts /\ made' = [made EXCEPT !.drafts = @ + 1]
        /\ Become(e, Changed(e, <<e, made.drafts + 1>>))
     \/ /\ tab[e].draft # tab[e].base /\ UNCHANGED made
        /\ Become(e, Changed(e, tab[e].base))
     \/ \* restore
        /\ tab[e].previous \notin {NoText, tab[e].draft} /\ UNCHANGED made
        /\ Become(e, Changed(e, tab[e].previous))
  /\ Server /\ UNCHANGED link

Prepare(e) ==
  /\ Editable(e) /\ tab[e].draft # tab[e].base
  /\ Become(e, [tab[e] EXCEPT !.at = "preparing"])
  /\ Server /\ UNCHANGED <<made, link>>

\* The plan is for the text the tab began with; the check is of this connection.
Prepared(e) ==
  /\ tab[e].at = "preparing" /\ Connected(e)
  /\ Become(e, IF target = tab[e].base
                 THEN [tab[e] EXCEPT !.at = "open", !.dirty = TRUE,
                         !.plan = tab[e].draft, !.link = link.generation]
                 ELSE [tab[e] EXCEPT !.at = "open"])
  /\ Server /\ UNCHANGED <<made, link>>

\* cancel; also a plan that is confirmed too late, or while the file is locked
Cancel(e) ==
  /\ Idle(e) /\ tab[e].plan # NoText
  /\ Become(e, [tab[e] EXCEPT !.plan = NoText])
  /\ Server /\ UNCHANGED <<made, link>>

\* Mutant: every tab has a lock of its own.
OwnLock(e) == TRUE

\* the lock of the file
Unlocked(e) ==
  \A o \in Tabs : tab[o].at \notin {"auditing", "writing", "sending", "awaiting", "reading"}

\* commit: a plan is used once, and one commit of a file runs.
Commit(e) ==
  /\ Idle(e) /\ tab[e].plan # NoText /\ Unlocked(e)
  /\ made.saves < MaxSaves /\ made' = [made EXCEPT !.saves = @ + 1]
  /\ Become(e, [tab[e] EXCEPT !.at = "auditing", !.plan = NoText, !.pending = tab[e].plan,
                              !.save = made.saves + 1, !.outcome = "none"])
  /\ Server /\ UNCHANGED link

\* The catch of commit before the rename was sent.
Failed(record) ==
  [record EXCEPT !.at = "open", !.pending = NoText, !.outcome = "failed"]
Unknown(record) ==
  [record EXCEPT !.at = "open", !.status = "unknown", !.dirty = TRUE, !.outcome = "unknown"]

\* The audit record, the connection the plan was checked on, the first look and
\* the temporary file.
Audited(e) ==
  /\ tab[e].at = "auditing"
  /\ \/ Become(e, Failed(tab[e]))
     \/ /\ SameLink(e) /\ target = tab[e].base
        /\ Become(e, [tab[e] EXCEPT !.at = "writing"])
  /\ Server /\ UNCHANGED <<made, link>>

\* Mutant: one look before the temporary file is enough.
LookedBefore(e) == TRUE

\* verify, the second one
SameText(e) == target = tab[e].base

\* beforeCommit and the second look, or an error on the way.
Rechecked(e) ==
  /\ tab[e].at = "writing"
  /\ \/ /\ Become(e, Failed(tab[e]))
        /\ UNCHANGED late
     \/ /\ SameLink(e) /\ SameText(e)
        /\ Become(e, [tab[e] EXCEPT !.at = "sending"]) /\ late' = late \ {e}
  /\ UNCHANGED <<target, renames, landed, made, link>>

\* onCommitting: from here on the outcome may be unknown.
Sends(e) ==
  /\ tab[e].at = "sending"
  /\ Become(e, [tab[e] EXCEPT !.at = "awaiting", !.answer = "none"])
  /\ renames' = renames \cup
       {[tab |-> e, save |-> tab[e].save, text |-> tab[e].pending]}
  /\ UNCHANGED <<target, landed, late, made, link>>

\* FILE_EDIT_ATOMIC_UNAVAILABLE alone proves that nothing was done; a reply that
\* is lost is the time limit or the end of the channel, Breaks.
Answered(e) ==
  /\ tab[e].at = "awaiting" /\ tab[e].answer # "none"
  /\ Become(e, IF tab[e].answer = "ok" THEN [tab[e] EXCEPT !.at = "reading"]
               ELSE IF tab[e].answer = "unsupported" THEN Failed(tab[e])
               ELSE Unknown(tab[e]))
  /\ Server /\ UNCHANGED <<made, link>>

\* complete: the field shows the same text, so nothing is left to save.
Completed(record) ==
  [record EXCEPT !.at = "open", !.previous = record.base, !.base = target,
     !.status = "ready", !.dirty = FALSE, !.pending = NoText, !.outcome = "saved"]

\* The text is read back; another one may be there already.
ReadBack(e) ==
  /\ tab[e].at = "reading"
  /\ Become(e, IF Connected(e) /\ target = tab[e].pending THEN Completed(tab[e])
               ELSE Unknown(tab[e]))
  /\ Server /\ UNCHANGED <<made, link>>

Verify(e) ==
  /\ Idle(e) /\ tab[e].status = "unknown"
  /\ Become(e, [tab[e] EXCEPT !.at = "verifying"])
  /\ Server /\ UNCHANGED <<made, link>>

\* Mutant: the text is clean again when the file is found as it was.
Cleared(record) == [record EXCEPT !.dirty = FALSE, !.outcome = "kept"]

\* The draft remains to be saved.
Kept(record) == [record EXCEPT !.outcome = "kept"]

\* Neither text: a conflict, and the outcome stays unknown.
Verified(e) ==
  /\ tab[e].at = "verifying" /\ Connected(e)
  /\ LET record == [tab[e] EXCEPT !.at = "open", !.link = link.generation]
     IN Become(e, CASE target = tab[e].pending -> Completed(record)
                    [] target = tab[e].base /\ target # tab[e].pending ->
                         [Kept(record) EXCEPT !.status = "ready", !.pending = NoText]
                    [] OTHER -> [tab[e] EXCEPT !.at = "open"])
  /\ Server /\ UNCHANGED <<made, link>>

\* Mutant: a rename counts as sent when it has been answered.
SentWhenAnswered == {"reading"}

\* committing
Committing == {"awaiting", "reading"}

\* A read or a write that fails, runs into its time limit or finds its signal
\* aborted; what was sent stays sent.
Broken(record) ==
  CASE record.at \in Committing -> Unknown(record)
    [] record.at \in {"auditing", "writing", "sending", "awaiting"} \ Committing -> Failed(record)
    [] record.at = "opening" -> NoTab
    [] OTHER -> [record EXCEPT !.at = "open"]

Breaks(e) ==
  /\ Busy(e)
  /\ Become(e, Broken(tab[e]))
  /\ Server /\ UNCHANGED <<made, link>>

\* invalidate
Invalidated(record) == [record EXCEPT !.plan = NoText]

Cut ==
  /\ made.cuts < MaxCuts /\ made' = [made EXCEPT !.cuts = @ + 1]
  /\ \/ link.up /\ link' = [link EXCEPT !.up = FALSE]      \* interruptScope
     \/ link' = [link EXCEPT !.revision = @ + 1]           \* closeScope
  /\ tab' = [e \in Tabs |-> Invalidated(IF Busy(e) THEN Broken(tab[e]) ELSE tab[e])]
  /\ Server

Reconnect ==
  /\ ~link.up /\ link' = [link EXCEPT !.up = TRUE, !.generation = @ + 1]
  /\ Server /\ UNCHANGED <<made, tab>>

\* close of an idle tab, and closeOwner at any time
Close(e) ==
  /\ tab[e].at # "none" /\ Become(e, NoTab)
  /\ Server /\ UNCHANGED <<made, link>>

Next ==
  \/ OtherWrites \/ Cut \/ Reconnect
  \/ \E r \in renames : Lands(r) \/ Refused(r)
  \/ \E e \in Tabs :
       \/ Open(e) \/ Opened(e) \/ Type(e) \/ Prepare(e) \/ Prepared(e) \/ Cancel(e)
       \/ Commit(e) \/ Audited(e) \/ Rechecked(e) \/ Sends(e) \/ Answered(e)
       \/ ReadBack(e) \/ Verify(e) \/ Verified(e) \/ Breaks(e) \/ Close(e)

Spec == Init /\ [][Next]_vars

--------------------------------------------------------------------------------
(* Properties *)

\* What a tab says of its last save is so: "saved" only when a rename put its
\* text there, "failed" only when it never will, whatever connection, settings,
\* time limit or look at the file came in between.
SaveTruthful ==
  \A e \in Tabs :
    /\ tab[e].outcome = "saved" => \E r \in landed : r.text = tab[e].base
    /\ tab[e].outcome = "failed" => \A r \in landed \cup renames : r.save # tab[e].save

\* A text that is in the window only is counted at exit and before an import,
\* also after a save that failed, or was found not to have taken place.
DraftsCounted ==
  \A e \in Tabs :
    tab[e].at # "none" /\ tab[e].draft # tab[e].base =>
      tab[e].dirty \/ Busy(e) \/ tab[e].status = "unknown"

EditsSound == SaveTruthful /\ DraftsCounted

\* A save that is waited for replaces the text its tab was shown, and nothing
\* written before the last look at the file: neither by other users nor by
\* another tab that is saving.
ReplacesShown ==
  [][\A r \in renames :
       r \in landed' \ landed /\ Awaited(r) =>
         target = tab[r.tab].base \/ r.tab \in late]_vars
================================================================================
