---------------------------- MODULE DirectoryReads ----------------------------
(* The directory tree of a server's workspace: ServerWorkspaceDirectoryCache  *)
(* (src/src/server-workspace-directory-cache.mjs), whose reads are shared by  *)
(* their callers, over withSftp (src/src/ssh-broker.mjs) and SftpReadPool     *)
(* (src/src/sftp-read-pool.mjs), which lends a channel to one read at a time. *)
(*                                                                            *)
(* One window, one server, one page per directory.  A path has one current    *)
(* snapshot at most; who still refers to one that was cleared finds None.     *)
(* Identities of reads and channels are taken again when they are free.       *)
EXTENDS Naturals, FiniteSets, FiniteSetsExt, Functions, Sequences, Selections

CONSTANTS
  Callers, Paths,
  Linked,          \* the directories that hold symbolic links
  Reads,           \* bound: reads under way
  Channels,        \* bound: SFTP channels the server lets a client have
  MaxDirectories,  \* snapshots kept
  MaxEntries,      \* entries kept; a directory has one
  MaxIdle,         \* idle channels kept
  None

\* A pool keeps some number of idle channels; paths and reads are told from the
\* absence of one.
TreeAssumption ==
  None \notin Paths \cup Reads /\ IsFiniteSet(Channels) /\ MaxIdle \in Nat

VARIABLES
  snapshots,  \* the paths with a snapshot, oldest first
  item,       \* what a snapshot knows: its entries, the targets of its links
  read,       \* shared reads
  caller,     \* the requests of the window
  chan,       \* channels and the read that has each of them
  conn        \* the server is connected

vars == <<snapshots, item, read, caller, chan, conn>>

Kinds == {"scan", "links", "page"}
NoRead == [at |-> "none", item |-> None, kind |-> "scan", users |-> {},
           abort |-> "no"]
NoItem == [listed |-> FALSE, pending |-> FALSE]
NoCaller == [at |-> "idle", item |-> None, read |-> None, fresh |-> FALSE, links |-> FALSE]
NoChannel == [at |-> "free", read |-> None, disposed |-> FALSE]

Init ==
  /\ snapshots = <<>>
  /\ item = [p \in Paths |-> NoItem]
  /\ read = [r \in Reads |-> NoRead]
  /\ caller = [c \in Callers |-> NoCaller]
  /\ chan = [ch \in Channels |-> NoChannel]
  /\ conn = TRUE

Current == Range(snapshots)
Under(r) == read[r].at # "none"
Aborting(r) == read[r].abort # "no"
Free(r) == ~Under(r) /\ \A c \in Callers : caller[c].read # r

\* clear: the reads of the snapshots in S are aborted and forgotten.
Without(S, order) == Selected(order, {n \in DOMAIN order : order[n] \notin S})
Cut(S, rd) ==
  [r \in Reads |-> IF rd[r].item \in S THEN [rd[r] EXCEPT !.abort = "stopped", !.item = None] ELSE rd[r]]

\* The next snapshots and what refers to them, given what they become but for
\* the clearing of the paths in S.
Becomes(S, order, its, rd, cl) ==
  /\ snapshots' = Without(S, order)
  /\ item' = [p \in Paths |-> IF p \in S THEN NoItem ELSE its[p]]
  /\ read' = Cut(S, rd)
  /\ caller' = [c \in Callers |-> IF cl[c].item \in S THEN [cl[c] EXCEPT !.item = None] ELSE cl[c]]

\* trim: the oldest go, as many as have to, but for the one just made or filled.
Trimmed(order, keep, its) ==
  LET oldest(n) == {order[i] : i \in 1..n} \ {keep}
      fits(S) == Cardinality(S) <= MaxDirectories /\ Cardinality({p \in S : its[p].listed}) <= MaxEntries
  IN oldest(Min({n \in 0..Len(order) : n = Len(order) \/ fits(Range(order) \ oldest(n))}))

-----------------------------------------------------------------------------
(* Requests of the window.  session starts a read for the one who asks first. *)

Starting(i, kind, c) ==
  [at |-> "starting", item |-> i, kind |-> kind, users |-> {c},
   abort |-> "no"]
Waits(c, i, r, fresh, links) ==
  [caller EXCEPT ![c] = [at |-> "waiting", item |-> i, read |-> r, fresh |-> fresh, links |-> links]]

NextFree ==
  LET free == {r \in Reads : Free(r)} IN IF free = {} THEN {} ELSE {CHOOSE r \in free : TRUE}

\* bound: a caller asks while enough reads are left for all that may follow.
Scanning == {r \in Reads : read[r].kind = "scan" /\ read[r].users # {}}
Enough ==
  Cardinality({r \in Reads : Free(r)} \cup Scanning) >
    Cardinality({c \in Callers : caller[c].at = "answered"} \cup UNION {read[r].users : r \in Scanning})

\* A listing under way is shared; a finished one of the same path is replaced.
ListFresh(c, p, links) ==
  /\ caller[c].at = "idle" /\ conn /\ Enough
  /\ IF p \in Current /\ ~item[p].listed
       THEN \E r \in Scanning :
              /\ read[r].item = p
              /\ read' = [read EXCEPT ![r].users = @ \cup {c}]
              /\ caller' = Waits(c, p, r, TRUE, links)
              /\ UNCHANGED <<snapshots, item>>
       ELSE \E r \in NextFree :
              LET order == Append(Without({p}, snapshots), p)
                  its == [item EXCEPT ![p] = [listed |-> FALSE, pending |-> p \in Linked]]
                  rd == Cut({p}, read)
                  cl == [d \in Callers |-> IF caller[d].item = p THEN [caller[d] EXCEPT !.item = None]
                                           ELSE caller[d]]
              IN Becomes(Trimmed(order, p, its), order, its,
                         [rd EXCEPT ![r] = Starting(p, "scan", c)],
                         [cl EXCEPT ![c] = Waits(c, p, r, TRUE, links)[c]])
  /\ UNCHANGED <<chan, conn>>

\* A page of a snapshot the window knows: it becomes the newest.
ListKnown(c, p, links) ==
  /\ caller[c].at = "idle" /\ conn /\ Enough
  /\ p \in Current /\ item[p].listed
  /\ snapshots' = Append(Without({p}, snapshots), p)
  /\ caller' = [caller EXCEPT ![c] = [at |-> "answered", item |-> p, read |-> None,
                                      fresh |-> FALSE, links |-> links]]
  /\ UNCHANGED <<item, read, chan, conn>>

\* Mutant: the snapshot is not looked up again after the wait.
LookupTrusting(c) == TRUE

\* assertCurrent
Lookup(c) == caller[c].item # None

Dismissed(c) == caller' = [caller EXCEPT ![c] = NoCaller]
Served(c) == caller' = [caller EXCEPT ![c] = [NoCaller EXCEPT !.at = "page"]]

\* After the listing, the links of the page, or else its path once more.
Resume(c) ==
  LET p == caller[c].item
      needs == caller[c].links /\ p # None /\ item[p].pending
      kind == IF needs THEN "links" ELSE "page"
      known == {r \in Reads : read[r].users # {} /\ read[r].item = p /\ read[r].kind = kind}
  IN /\ caller[c].at = "answered"
     /\ IF ~Lookup(c) THEN Dismissed(c) /\ UNCHANGED read
        ELSE IF ~needs /\ caller[c].fresh THEN Served(c) /\ UNCHANGED read
        ELSE \E r \in IF known # {} THEN known ELSE NextFree :
               /\ read' = [read EXCEPT ![r] = IF known # {} THEN [read[r] EXCEPT !.users = @ \cup {c}]
                                              ELSE Starting(p, kind, c)]
               /\ caller' = Waits(c, p, r, FALSE, caller[c].links)
     /\ UNCHANGED <<snapshots, item, chan, conn>>

\* After the links or the path.
Finish(c) ==
  /\ caller[c].at = "checked"
  /\ IF Lookup(c) THEN Served(c) ELSE Dismissed(c)
  /\ UNCHANGED <<snapshots, item, read, chan, conn>>

Seen(c) ==
  /\ caller[c].at = "page" /\ Dismissed(c)
  /\ UNCHANGED <<snapshots, item, read, chan, conn>>

-----------------------------------------------------------------------------
(* consume: callers leave one by one; the last one ends the read.             *)

\* Mutant: the first one ends it.
LeftByAny(S, rd) ==
  [r \in Reads |->
     IF rd[r].users \cap S = {} THEN rd[r]
     ELSE [rd[r] EXCEPT !.users = @ \ S, !.abort = "stopped"]]

Left(S, rd) ==
  [r \in Reads |->
     IF rd[r].users \cap S = {} THEN rd[r]
     ELSE IF rd[r].users \subseteq S
       THEN [rd[r] EXCEPT !.users = {}, !.abort = "stopped"]
     ELSE [rd[r] EXCEPT !.users = @ \ S]]

\* A listing that nobody waits for takes its snapshot along.
Abandoned(rd) ==
  {p \in Current : \E r \in Reads : rd[r].item = p /\ rd[r].kind = "scan" /\ rd[r].users = {}}

Gone(S, cleared) ==
  LET rd == Left(S, read)
  IN Becomes(cleared \cup Abandoned(rd), snapshots, item, rd,
             [c \in Callers |-> IF c \in S THEN NoCaller ELSE caller[c]])

Cancel(c) ==
  /\ caller[c].at \in {"waiting", "answered", "checked"}
  /\ Gone({c}, {})
  /\ UNCHANGED <<chan, conn>>

\* The end of a read; a listing that failed, or found another directory at the
\* path, is forgotten.
Settles(r, ok, cleared) ==
  LET p == read[r].item
      scan == read[r].kind = "scan"
      after == IF scan THEN "answered" ELSE "checked"
  IN \E its \in {IF ~ok \/ p = None THEN item
                 ELSE IF scan THEN [item EXCEPT ![p].listed = TRUE]
                 ELSE IF read[r].kind = "links" THEN [item EXCEPT ![p].pending = FALSE]
                 ELSE item} :
     \E S \in {(IF ok THEN IF scan THEN Trimmed(snapshots, p, its) ELSE {}
                ELSE IF scan \/ cleared THEN {p} ELSE {}) \ {None}} :
       Becomes(S, snapshots, its, [read EXCEPT ![r] = NoRead],
               [c \in Callers |->
                  IF c \notin read[r].users THEN caller[c]
                  ELSE IF ok THEN [caller[c] EXCEPT !.at = after, !.read = None]
                  ELSE NoCaller])

-----------------------------------------------------------------------------
(* withSftp and the pool.                                                     *)

ChannelOf(r) == {ch \in Channels : chan[ch].read = r}
Closed(S) == [ch \in Channels |-> IF ch \in S THEN NoChannel ELSE chan[ch]]
Idle == {ch \in Channels : chan[ch].at = "idle"}
Unused == {ch \in Channels : chan[ch].at = "free"}

Begin(r) ==
  /\ read[r].at = "starting"
  /\ IF read[r].abort = "stopped" \/ ~conn \/ (Idle = {} /\ Unused = {})
       THEN Settles(r, FALSE, FALSE) /\ UNCHANGED chan
       ELSE \E ch \in IF Idle # {} THEN Idle ELSE {CHOOSE x \in Unused : TRUE} :
              /\ chan' = [chan EXCEPT ![ch].read = r,
                                      ![ch].at = IF Idle # {} THEN "leased" ELSE "opening"]
              /\ read' = [read EXCEPT ![r].at = IF Idle # {} THEN "working" ELSE "opening"]
              /\ UNCHANGED <<snapshots, item, caller>>
  /\ UNCHANGED conn

\* Mutant: a channel that opens after its read has ended is kept.
OpensKept(ch) ==
  LET r == chan[ch].read
  IN /\ chan[ch].at = "opening"
     /\ IF chan[ch].disposed \/ (r # None /\ Aborting(r))
          THEN /\ chan' = Closed({ch})
               /\ IF r = None THEN UNCHANGED <<snapshots, item, read, caller>> ELSE Settles(r, FALSE, FALSE)
          ELSE /\ chan' = [chan EXCEPT ![ch].at = "leased"]
               /\ read' = IF r = None THEN read ELSE [read EXCEPT ![r].at = "working"]
               /\ UNCHANGED <<snapshots, item, caller>>
     /\ UNCHANGED conn

\* A channel that opens too late, for its read or for its pool, is closed.
Opens(ch) ==
  LET r == chan[ch].read
  IN /\ chan[ch].at = "opening"
     /\ IF r = None \/ chan[ch].disposed \/ Aborting(r)
          THEN /\ chan' = Closed({ch})
               /\ IF r = None THEN UNCHANGED <<snapshots, item, read, caller>> ELSE Settles(r, FALSE, FALSE)
          ELSE /\ chan' = [chan EXCEPT ![ch].at = "leased"]
               /\ read' = [read EXCEPT ![r].at = "working"]
               /\ UNCHANGED <<snapshots, item, caller>>
     /\ UNCHANGED conn

OpenFails(ch) ==
  LET r == chan[ch].read
  IN /\ chan[ch].at = "opening"
     /\ chan' = Closed({ch})
     /\ IF r = None THEN UNCHANGED <<snapshots, item, read, caller>> ELSE Settles(r, FALSE, FALSE)
     /\ UNCHANGED conn

\* release: one that was idle makes room for it.
Succeeds(r) ==
  /\ read[r].at = "working" /\ ~Aborting(r)
  /\ Settles(r, TRUE, FALSE)
  /\ \E ch \in ChannelOf(r) :
       chan' = IF chan[ch].at = "closed" \/ MaxIdle = 0 THEN Closed({ch})
               ELSE [x \in Channels |-> IF x = ch THEN [NoChannel EXCEPT !.at = "idle"]
                                        ELSE IF x \in Idle /\ Cardinality(Idle) >= MaxIdle THEN NoChannel
                                        ELSE chan[x]]
  /\ UNCHANGED conn

Fails(r) ==
  /\ read[r].at = "working"
  /\ Settles(r, FALSE, FALSE)
  /\ chan' = Closed(ChannelOf(r))
  /\ UNCHANGED conn

\* validatePath: the directory leads elsewhere than before.
PathChanges(r) ==
  /\ read[r].at = "working" /\ ~Aborting(r)
  /\ Settles(r, FALSE, TRUE)
  /\ chan' = Closed(ChannelOf(r))
  /\ UNCHANGED conn

TimesOut(r) ==
  /\ read[r].at \in {"opening", "working"} /\ ~Aborting(r)
  /\ read' = [read EXCEPT ![r].abort = "broken"]
  /\ UNCHANGED <<snapshots, item, caller, chan, conn>>

\* abort's timer: the read ends, whatever its operation or its channel do.
ForceEnd(r) ==
  /\ read[r].at \in {"opening", "working"} /\ Aborting(r)
  /\ Settles(r, FALSE, FALSE)
  /\ chan' = IF read[r].at = "working" THEN Closed(ChannelOf(r))
             ELSE [ch \in Channels |-> IF chan[ch].read = r THEN [chan[ch] EXCEPT !.read = None]
                                       ELSE chan[ch]]
  /\ UNCHANGED conn

\* The server closes a channel, or an idle one has been so for long enough.
ChannelCloses(ch) ==
  /\ chan[ch].at \in {"leased", "closed", "idle"}
  /\ IF chan[ch].at = "idle" THEN chan' = Closed({ch}) /\ UNCHANGED read
     ELSE /\ chan' = [chan EXCEPT ![ch].at = "closed"]
          /\ read' = [read EXCEPT ![chan[ch].read].abort = IF @ = "no" THEN "broken" ELSE @]
  /\ UNCHANGED <<snapshots, item, caller, conn>>

-----------------------------------------------------------------------------
(* The server and the window.                                                 *)

\* interruptScope: all requests are cancelled and all snapshots forgotten.
Interrupted == Gone({c \in Callers : caller[c].at # "page"}, Current)

\* The pool goes with its connection.
Lost ==
  /\ conn /\ conn' = FALSE
  /\ chan' = [ch \in Channels |->
                CASE chan[ch].at = "idle" -> NoChannel
                  [] chan[ch].at = "leased" -> [chan[ch] EXCEPT !.at = "closed"]
                  [] chan[ch].at = "opening" -> [chan[ch] EXCEPT !.disposed = TRUE]
                  [] OTHER -> chan[ch]]
  /\ Interrupted

Connects ==
  /\ ~conn /\ conn' = TRUE
  /\ UNCHANGED <<snapshots, item, read, caller, chan>>

\* closeScope: the connection of the plugin was edited, say.
ScopeCloses ==
  /\ \E c \in Callers : caller[c].at # "idle"
  /\ Interrupted
  /\ UNCHANGED <<chan, conn>>

\* confirm: the window has changed something on the server.
Changes ==
  /\ conn /\ snapshots # <<>>
  /\ Becomes(Current, snapshots, item, read, caller)
  /\ UNCHANGED <<chan, conn>>

ReadStep(r) == Begin(r) \/ Succeeds(r) \/ Fails(r) \/ PathChanges(r) \/ TimesOut(r) \/ ForceEnd(r)
ChannelStep(ch) == Opens(ch) \/ OpenFails(ch) \/ ChannelCloses(ch)
Request(c) ==
  \/ \E p \in Paths : \E links \in {FALSE, (p \in Linked)} : ListFresh(c, p, links) \/ ListKnown(c, p, links)
  \/ Cancel(c) \/ Seen(c)

Next ==
  \/ \E c \in Callers : Request(c) \/ Resume(c) \/ Finish(c)
  \/ \E r \in Reads : ReadStep(r)
  \/ \E ch \in Channels : ChannelStep(ch)
  \/ Lost \/ Connects \/ ScopeCloses \/ Changes

Spec == Init /\ [][Next]_vars

-----------------------------------------------------------------------------
TypeOK ==
  /\ snapshots \in Seq(Paths) /\ IsInjective(snapshots)
  /\ item \in [Paths -> [listed : BOOLEAN, pending : BOOLEAN]]
  /\ read \in [Reads -> [at : {"none", "starting", "opening", "working"}, item : Paths \cup {None},
                         kind : Kinds, users : SUBSET Callers,
                         abort : {"no", "broken", "stopped"}]]
  /\ caller \in [Callers -> [at : {"idle", "waiting", "answered", "checked", "page"},
                             item : Paths \cup {None}, read : Reads \cup {None},
                             fresh : BOOLEAN, links : BOOLEAN]]
  /\ chan \in [Channels -> [at : {"free", "opening", "leased", "closed", "idle"},
                            read : Reads \cup {None}, disposed : BOOLEAN]]
  /\ conn \in BOOLEAN

\* A channel serves the one read that works on it; nothing else is open but
\* idle channels within their limit, of the connection there is, and channels
\* the server has yet to answer for.
ChannelsOwned ==
  /\ \A r \in Reads : CASE read[r].at = "opening" -> \E ch \in Channels : ChannelOf(r) = {ch} /\ chan[ch].at = "opening"
                        [] read[r].at = "working" -> \E ch \in Channels : ChannelOf(r) = {ch} /\ chan[ch].at \in {"leased", "closed"}
                        [] OTHER -> ChannelOf(r) = {}
  /\ \A ch \in Channels : chan[ch].at \in {"leased", "closed"} => chan[ch].read # None
  /\ Cardinality(Idle) <= MaxIdle
  /\ ~conn => \A ch \in Channels : chan[ch].at \notin {"idle", "leased"}

\* A shared read is aborted when its last caller has gone or its snapshot was
\* cleared, and never before: one caller's cancellation does not end the read
\* of another, and nobody waits for a read that is not there.
ReadsWanted ==
  /\ \A r \in Reads : Under(r) =>
       (read[r].abort = "stopped" <=> read[r].users = {} \/ read[r].item = None)
  /\ \A c \in Callers : caller[c].at = "waiting" <=> caller[c].read # None
  /\ \A r \in Reads : read[r].users = {c \in Callers : caller[c].read = r}
  /\ \A p \in Current : ~item[p].listed =>
       Cardinality({r \in Scanning : read[r].item = p}) = 1
  /\ \A r \in Reads : read[r].item \in Current \cup {None}
  /\ \A c \in Callers : caller[c].item \in Current \cup {None}

ReadsOwned == TypeOK /\ ChannelsOwned /\ ReadsWanted

\* The window gets a page only of a complete listing that nothing has cleared
\* since it was asked for: no change the window made, no new connection and no
\* newer listing; with its links if it asked for them.
CurrentPages ==
  [][\A c \in Callers : caller'[c].at = "page" /\ caller[c].at # "page" =>
       LET p == caller[c].item
       IN /\ p \in Current /\ item[p].listed
          /\ caller[c].links => ~item[p].pending]_vars
=============================================================================
