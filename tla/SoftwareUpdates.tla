---------------------------- MODULE SoftwareUpdates ----------------------------
(* The update of the program itself: SoftwareUpdateService                     *)
(* (src/src/software-update-service.mjs) over one driver for each search       *)
(* (src/src/software-update-driver.mjs, software-update-mac-driver.mjs), and   *)
(* the gate that shuts the program for an installation                         *)
(* (src/src/software-update-shutdown.mjs).  The sources are read from memory,  *)
(* so that a refresh and the request it serves run without interruption.       *)
EXTENDS Naturals, FiniteSets

CONSTANTS
  Sources,    \* cloud repositories an update may come from
  Secure,     \* those with an https address
  Drivers,    \* bound: searches
  MaxActive,  \* bound: calls of the window and of the Agent at once
  None

SecureAssumption == Secure \subseteq Sources

VARIABLES
  platform,   \* Windows installs by itself, on a Mac the user opens the image
  linked,     \* repositories that are open now
  service,    \* state, generation and driver of the service
  selecting,  \* the repository whose selection is being saved
  work,       \* what goes on with each driver
  origin,     \* the repository each driver was made for
  made,       \* drivers that exist
  stopped,    \* drivers that were cancelled and disposed of
  handed,     \* drivers whose installer was started or shown
  gate        \* calls under way, work in the background, the door

vars == <<platform, linked, service, selecting, work, origin, made, stopped, handed, gate>>

Init ==
  /\ platform \in {"win32", "darwin"}
  /\ linked \in SUBSET Sources
  /\ service = [phase |-> "no-source", current |-> None, driver |-> None,
                offered |-> None, known |-> {}, source |-> None, selected |-> None]
  /\ selecting = {}
  /\ work = [d \in Drivers |-> "none"]
  /\ origin = [d \in Drivers |-> None]
  /\ made = {} /\ stopped = {} /\ handed = {}
  /\ gate = [active |-> 0, busy |-> FALSE, closing |-> FALSE, allowQuit |-> FALSE]

\* basePhase
BasePhase(s) ==
  IF s.known = {} THEN "no-source" ELSE IF s.source = None THEN "source-required" ELSE "idle"

\* Mutant: the generation goes on, so that late results count.
SameGeneration(s) == [s EXCEPT !.phase = BasePhase(s), !.driver = None, !.offered = None]

\* invalidate.  current is the driver of this generation: None after it.
Invalidated(s) ==
  [s EXCEPT !.phase = BasePhase(s), !.current = None, !.driver = None, !.offered = None]

\* Mutant: another source does not end what was found at the former one.
KeepsResult(s) ==
  [s EXCEPT !.known = linked,
            !.source = IF s.selected \in linked THEN s.selected ELSE None]

\* refreshSources: without a selection the only repository counts.
Refreshed(s) ==
  LET only == IF Cardinality(linked) = 1 THEN CHOOSE r \in linked : TRUE ELSE None
      source == IF s.selected = None THEN only
                ELSE IF s.selected \in linked THEN s.selected ELSE None
      t == [s EXCEPT !.known = linked, !.source = source]
  IN IF source # s.source THEN Invalidated(t)
     ELSE IF s.phase \in {"idle", "no-source", "source-required"}
       THEN [t EXCEPT !.phase = BasePhase(t)]
     ELSE t

\* assertSource, and the error it leaves in the state.
Usable(s) == selecting = {} /\ s.source \in Secure
Refused(s) ==
  IF selecting = {} /\ s.source \in Sources \ Secure THEN [s EXCEPT !.phase = "error"] ELSE s

\* The service becomes s: a driver it lets go of is stopped with it.
Becomes(s) ==
  /\ service' = s
  /\ stopped' = stopped \cup ({service.driver} \ {s.driver, None})

Working(d, stage) == work' = [work EXCEPT ![d] = stage]
Current(d) == service.current = d /\ service.driver = d
Searching(s) == s.current # None /\ work[s.current] \in {"creating", "checking"}
Rest == UNCHANGED <<platform, linked, selecting, origin, made, handed, gate>>

(* Requests of the window, and of the polling every quarter of an hour. *)

\* A repository is linked, unlinked, locked or unlocked.
Relink ==
  \E L \in SUBSET Sources \ {linked} :
    /\ linked' = L
    /\ UNCHANGED <<platform, service, selecting, work, origin, made, stopped, handed, gate>>

Status == Becomes(Refreshed(service)) /\ UNCHANGED work /\ Rest

Cancel ==
  LET t == Refreshed(service)
  IN /\ ~gate.closing
     /\ Becomes(IF t.phase = "installing" THEN t ELSE Invalidated(t))
     /\ UNCHANGED work /\ Rest

\* check: joins the search under way, and leaves what it would disturb.
Check(d) ==
  LET t == Refreshed(service)
      disturbs == t.phase \in {"downloading", "downloaded", "installing", "opening"}
  IN /\ work[d] = "none"
     /\ IF ~Usable(t) \/ Searching(t) \/ disturbs
          THEN /\ Becomes(IF Usable(t) THEN t ELSE Refused(t))
               /\ UNCHANGED <<work, origin>>
          ELSE /\ Becomes([Invalidated(t) EXCEPT !.phase = "checking", !.current = d])
               /\ Working(d, "creating")
               /\ origin' = [origin EXCEPT ![d] = t.source]
     /\ UNCHANGED <<platform, linked, selecting, made, handed, gate>>

\* download
Download ==
  LET t == Refreshed(service)
      starts == Usable(t) /\ t.phase = "available" /\ t.driver # None
  IN /\ ~gate.closing
     /\ Becomes(IF ~Usable(t) THEN Refused(t)
                ELSE IF starts THEN [t EXCEPT !.phase = "downloading"] ELSE t)
     /\ IF starts THEN Working(t.driver, "downloading") ELSE UNCHANGED work
     /\ Rest

\* selectSource up to the write of the selection; one at a time (bound).
Select(r) ==
  LET t == Refreshed(service)
  IN /\ selecting = {} /\ ~gate.closing
     /\ IF t.phase = "installing" \/ r \notin t.known \cup {None}
          THEN Becomes(t) /\ UNCHANGED selecting
          ELSE Becomes(Invalidated(t)) /\ selecting' = {r}
     /\ UNCHANGED <<platform, linked, work, origin, made, handed, gate>>

\* saveSelection: refused for a repository that is not open any more.
Selected ==
  \E r \in selecting :
    /\ \/ r \in linked \cup {None} /\ Becomes(Refreshed([service EXCEPT !.selected = r]))
       \/ UNCHANGED <<service, stopped>>
    /\ selecting' = {}
    /\ UNCHANGED <<platform, linked, work, origin, made, handed, gate>>

(* The search and the download. *)

\* Mutant: the driver is taken without looking at the generation.
TakenAnyway(d) == [service EXCEPT !.driver = d]

Taken(d) == IF service.current = d THEN [service EXCEPT !.driver = d] ELSE service

\* createUpdater: a driver that comes too late is stopped at once.
Created(d) ==
  /\ work[d] = "creating"
  /\ \/ /\ made' = made \cup {d}
        /\ service' = Taken(d)
        /\ stopped' = stopped \cup ({d} \ {service'.driver})
        /\ Working(d, IF service.current = d THEN "checking" ELSE "over")
     \/ /\ service' = IF service.current = d THEN [service EXCEPT !.phase = "error"] ELSE service
        /\ Working(d, "over")
        /\ UNCHANGED <<made, stopped>>
  /\ UNCHANGED <<platform, linked, selecting, origin, handed, gate>>

Dropped(phase) == [service EXCEPT !.phase = phase, !.driver = None]

Checked(d) ==
  /\ work[d] = "checking"
  /\ \/ /\ ~Current(d)
        /\ UNCHANGED <<service, stopped>> /\ Working(d, "over")
     \/ /\ Current(d)
        /\ Becomes([service EXCEPT !.phase = "available"]) /\ Working(d, "ready")
     \/ /\ Current(d)
        /\ \E phase \in {"current", "error"} : Becomes(Dropped(phase))
        /\ Working(d, "over")
  /\ Rest

Downloaded(d) ==
  /\ work[d] = "downloading"
  /\ \/ /\ ~Current(d)
        /\ UNCHANGED <<service, stopped>> /\ Working(d, "over")
     \/ /\ Current(d)
        /\ Becomes([service EXCEPT !.phase = "downloaded",
                                   !.offered = IF platform = "darwin" THEN d ELSE None])
        /\ Working(d, "ready")
     \/ /\ Current(d)
        /\ Becomes(Dropped("error")) /\ Working(d, "over")
  /\ Rest

(* Windows: the program shuts itself and starts the installer. *)

\* assertAvailable with assertSoftwareUpdateIdle
Available == ~gate.closing /\ gate.active = 0 /\ ~gate.busy

\* install up to the verification of the file.
Install ==
  LET t == Refreshed(service)
      starts == /\ platform = "win32" /\ Usable(t) /\ Available
                /\ t.phase = "downloaded" /\ t.driver # None
  IN /\ ~gate.closing
     /\ Becomes(IF ~Usable(t) THEN Refused(t)
                ELSE IF starts THEN [t EXCEPT !.phase = "installing"] ELSE t)
     /\ IF starts THEN Working(t.driver, "verifying") ELSE UNCHANGED work
     /\ Rest

\* The catch of install.
InstallFails(d) ==
  IF Current(d) THEN Becomes([service EXCEPT !.phase = "downloaded"]) /\ Working(d, "ready")
  ELSE UNCHANGED <<service, stopped>> /\ Working(d, "over")

\* Mutant: nobody looks again once the file is verified.
StillClosed == ~gate.closing

\* The second look, after the file was read.
StillAvailable == Available

\* verifyDownloaded: it fails for a driver that was stopped.
Verified(d) ==
  /\ work[d] = "verifying"
  /\ \/ /\ InstallFails(d) /\ UNCHANGED gate
     \/ /\ d \notin stopped /\ StillAvailable
        /\ gate' = [gate EXCEPT !.closing = TRUE]
        /\ Working(d, "closing")
        /\ UNCHANGED <<service, stopped>>
  /\ UNCHANGED <<platform, linked, selecting, origin, made, handed>>

\* close: it may fail or take too long; then the program ends uninstalled.
Closes(d) ==
  /\ work[d] = "closing"
  /\ \/ Working(d, "launching") /\ UNCHANGED <<service, stopped, gate>>
     \/ InstallFails(d) /\ gate' = [gate EXCEPT !.allowQuit = TRUE]
  /\ UNCHANGED <<platform, linked, selecting, origin, made, handed>>

\* Mutant: the file is not verified again before it is started.
StartsAnyway(d) == TRUE

\* quitAndInstall begins with the verification, which a stop ends.
Starts(d) == d \notin stopped

Launches(d) ==
  /\ work[d] = "launching"
  /\ \/ /\ Starts(d)
        /\ handed' = handed \cup {d} /\ Working(d, "starting")
        /\ UNCHANGED <<service, stopped, gate>>
     \/ /\ InstallFails(d)
        /\ gate' = [gate EXCEPT !.allowQuit = TRUE] /\ UNCHANGED handed
  /\ UNCHANGED <<platform, linked, selecting, origin, made>>

\* The installer runs, or does not, or the driver was stopped meanwhile.
Launched(d) ==
  /\ work[d] = "starting"
  /\ gate' = [gate EXCEPT !.allowQuit = TRUE]
  /\ \/ Starts(d) /\ Working(d, "handed") /\ UNCHANGED <<service, stopped>>
     \/ InstallFails(d)
  /\ UNCHANGED <<platform, linked, selecting, origin, made, handed>>

(* Mac: the user opens the image, or has it shown. *)

\* openInstaller with the identity d of a download the window has seen.
Open(d) ==
  LET t == Refreshed(service)
      starts == /\ platform = "darwin" /\ Usable(t) /\ t.offered = d
                /\ t.phase = "downloaded" /\ t.driver # None
  IN /\ d \in made
     /\ Becomes(IF ~Usable(t) THEN Refused(t)
                ELSE IF starts THEN [t EXCEPT !.phase = "opening"] ELSE t)
     /\ IF starts THEN Working(t.driver, "opening") ELSE UNCHANGED work
     /\ Rest

\* The catch of openInstaller; s is the service it finds.
OpenFails(s, d) ==
  IF s.current = d /\ s.driver = d
    THEN \/ Becomes([s EXCEPT !.phase = "downloaded"]) /\ Working(d, "ready")
         \/ /\ Becomes([s EXCEPT !.phase = "error", !.offered = None, !.driver = None])
            /\ Working(d, "over")
    ELSE Becomes(s) /\ Working(d, "over")

\* beforeOpen, once the file is verified.
BeforeOpen(d) ==
  LET t == Refreshed(service)
  IN /\ work[d] = "opening"
     /\ \/ OpenFails(service, d)
        \/ /\ d \notin stopped
           /\ IF Usable(t) /\ t.current = d /\ t.driver = d
                THEN Becomes(t) /\ Working(d, "opens") ELSE OpenFails(Refused(t), d)
     /\ Rest

\* assertActive, then the system takes the file over.
HandsOver(d) ==
  /\ work[d] = "opens"
  /\ \/ OpenFails(service, d) /\ UNCHANGED handed
     \/ /\ Starts(d)
        /\ handed' = handed \cup {d} /\ Working(d, "handing")
        /\ UNCHANGED <<service, stopped>>
  /\ UNCHANGED <<platform, linked, selecting, origin, made, gate>>

Opened(d) ==
  /\ work[d] = "handing"
  /\ \/ OpenFails(service, d)
     \/ Current(d) /\ Becomes([service EXCEPT !.phase = "downloaded"]) /\ Working(d, "ready")
  /\ Rest

(* The gate before the calls of the window and of the Agent. *)

\* run; a call may leave work behind that goes on without it.
Call ==
  /\ ~gate.closing /\ gate.active < MaxActive
  /\ gate' = [gate EXCEPT !.active = @ + 1]
  /\ UNCHANGED <<platform, linked, service, selecting, work, origin, made, stopped, handed>>

Return ==
  /\ gate.active > 0
  /\ \E busy \in {gate.busy, TRUE} : gate' = [gate EXCEPT !.active = @ - 1, !.busy = busy]
  /\ UNCHANGED <<platform, linked, service, selecting, work, origin, made, stopped, handed>>

WorkEnds ==
  /\ gate.busy /\ gate' = [gate EXCEPT !.busy = FALSE]
  /\ UNCHANGED <<platform, linked, service, selecting, work, origin, made, stopped, handed>>

Next ==
  \/ Relink \/ Status \/ Cancel \/ Download \/ Install \/ Selected
  \/ \E r \in Sources \cup {None} : Select(r)
  \/ \E d \in Drivers :
       \/ Check(d) \/ Created(d) \/ Checked(d) \/ Downloaded(d)
       \/ Verified(d) \/ Closes(d) \/ Launches(d) \/ Launched(d)
       \/ Open(d) \/ BeforeOpen(d) \/ HandsOver(d) \/ Opened(d)
  \/ Call \/ Return \/ WorkEnds

Spec == Init /\ [][Next]_vars

--------------------------------------------------------------------------------
(* Properties *)

\* Every driver the service does not hold was stopped: nobody else could.
DriversStopped == \A d \in made : d \in stopped \/ d = service.driver

\* The stages behind each phase of the state the window shows.
Behind(phase) ==
  CASE phase = "checking" -> {"creating", "checking"}
    [] phase = "downloading" -> {"downloading"}
    [] phase = "installing" -> {"verifying", "closing", "launching", "starting", "handed"}
    [] phase = "opening" -> {"opening", "opens", "handing"}
    [] phase \in {"available", "downloaded"} -> {"ready"}
    [] OTHER -> {"none", "over"}

\* The window shows what is under way, and only results from the source it
\* names: no result of an earlier search, of another source or of a cancelled
\* download gets into the state, and no phase stays behind without its work.
PhaseTrue ==
  LET d == service.current
  IN IF d = None THEN service.phase \in {"idle", "no-source", "source-required", "error"}
     ELSE /\ work[d] \in Behind(service.phase)
          /\ service.driver # None => service.driver = d
          /\ work[d] \notin {"creating", "over"} => service.driver = d
          /\ origin[d] = service.source

\* Once the door is closed nothing is under way that an exit would cut off.
ClosedAlone == gate.closing => gate.active = 0 /\ ~gate.busy

UpdateSound == DriversStopped /\ PhaseTrue /\ ClosedAlone

\* What is installed or opened is the download the state still offers, from
\* the source it still names.
InstallsOffered ==
  [][\A d \in handed' \ handed : service.driver = d /\ origin[d] = service.source]_vars
================================================================================
