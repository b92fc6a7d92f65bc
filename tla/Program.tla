------------------------------ MODULE Program ------------------------------
(***************************************************************************)
(* The main goroutine, main.go: it looks for a port, publishes it in       *)
(* config.json for the skill, hands it to the server and waits in the tray *)
(* until the user quits.  The port is released after the probe and bound   *)
(* later, while other programs take and leave ports; other goroutines save *)
(* the configuration meanwhile; and at the end Stop may hang.              *)
(***************************************************************************)
EXTENDS Naturals

CONSTANTS
  DefaultPort, LastPort,   \* 18081 and 65535
  Ports,                   \* the ports other programs may take
  SavedPorts,              \* what web_port may be; 0 says that there is none
  MaxChanges               \* bound: ports taken or left by other programs

ASSUME PortAssumption ==
  /\ LastPort \in Nat /\ DefaultPort \in 1 .. LastPort
  /\ Ports \subseteq 1 .. LastPort
  /\ SavedPorts \subseteq 0 .. LastPort /\ MaxChanges \in Nat

VARIABLES
  taken, changes,          \* ports other programs hold; bounded counter
  pc, actualPort,          \* main
  cfgPort,                 \* cfg.WebPort: main's copy from the start
  memPort, webPort,        \* web_port of the manager, of config.json
  saveFailed,              \* the last save did
  server,                  \* the goroutine that serves
  quit, stopped            \* the user has chosen to quit, Stop has returned

portVars == <<cfgPort, memPort, webPort, saveFailed>>
vars == <<taken, changes, pc, actualPort, portVars, server, quit, stopped>>

Init ==
  /\ taken \in SUBSET Ports /\ changes = 0
  /\ pc = "search" /\ actualPort = DefaultPort
  /\ cfgPort \in SavedPorts /\ memPort = cfgPort /\ webPort = cfgPort
  /\ saveFailed = FALSE /\ server = "none"
  /\ quit = FALSE /\ stopped = FALSE

savedPort == IF cfgPort = 0 THEN DefaultPort ELSE cfgPort

Free(p) == p <= LastPort /\ p \notin taken

-----------------------------------------------------------------------------
(* The search.                                                             *)

Found ==
  /\ pc = "search" /\ Free(actualPort)
  /\ pc' = IF actualPort # cfgPort THEN "publish" ELSE "found"
  /\ UNCHANGED <<taken, changes, actualPort, portVars, server, quit, stopped>>

\* The default port is in use, and the saved one is another.
AtDefault == actualPort = DefaultPort /\ savedPort # DefaultPort

SkipsSaved == actualPort + 1
NextPort   == IF AtDefault THEN savedPort ELSE actualPort + 1

StaysAtSaved ==
  /\ pc = "search" /\ ~Free(actualPort)
  /\ actualPort' = savedPort
  /\ UNCHANGED <<taken, changes, pc, portVars, server, quit, stopped>>
TryNext ==
  /\ pc = "search" /\ ~Free(actualPort)
  /\ actualPort' = NextPort
  /\ UNCHANGED <<taken, changes, pc, portVars, server, quit, stopped>>

\* A save writes what the manager holds, or fails.
Save ==
  \/ webPort' = memPort' /\ saveFailed' = FALSE
  \/ webPort' = webPort  /\ saveFailed' = TRUE

ChangesTheCopy ==
  /\ pc = "publish" /\ pc' = "found"
  /\ webPort' = actualPort /\ saveFailed' = FALSE
  /\ UNCHANGED <<taken, changes, actualPort, cfgPort, memPort, server, quit,
                 stopped>>
\* An error is only logged.
UpdateWebPort ==
  /\ pc = "publish" /\ pc' = "found"
  /\ memPort' = actualPort /\ Save
  /\ UNCHANGED <<taken, changes, actualPort, cfgPort, server, quit, stopped>>

-----------------------------------------------------------------------------
(* The server and the tray.                                                *)

Run ==
  /\ pc = "found" /\ pc' = "tray" /\ server' = "starting"
  /\ UNCHANGED <<taken, changes, actualPort, portVars, quit, stopped>>

\* It fails, with a log line, if somebody was faster.
Serve ==
  /\ server = "starting" /\ pc # "exited"
  /\ server' = IF Free(actualPort) THEN "serving" ELSE "failed"
  /\ UNCHANGED <<taken, changes, pc, actualPort, portVars, quit, stopped>>

\* The menu's last item, or a signal where there is no tray; quitCh closes.
Quit ==
  /\ pc = "tray" /\ quit' = TRUE
  /\ UNCHANGED <<taken, changes, pc, actualPort, portVars, server, stopped>>

TrayReturns ==
  /\ pc = "tray" /\ quit /\ pc' = "shutdown"
  /\ UNCHANGED <<taken, changes, actualPort, portVars, server, quit, stopped>>

\* Stop in a goroutine of its own, which may never come back.
Stop ==
  /\ pc = "shutdown" /\ stopped' = TRUE
  /\ UNCHANGED <<taken, changes, pc, actualPort, portVars, server, quit>>

WaitsForStop ==
  /\ pc = "shutdown" /\ stopped /\ pc' = "exited"
  /\ UNCHANGED <<taken, changes, actualPort, portVars, server, quit, stopped>>
\* When Stop is done, or five seconds have passed: at any time.
Exit ==
  /\ pc = "shutdown" /\ pc' = "exited"
  /\ UNCHANGED <<taken, changes, actualPort, portVars, server, quit, stopped>>

Main == Found \/ TryNext \/ UpdateWebPort \/ Run \/ TrayReturns \/ Exit

-----------------------------------------------------------------------------
(* Other programs, and other goroutines of this one that save the          *)
(* configuration: the pipeline, a login, a settings request.               *)

Others ==
  /\ changes < MaxChanges /\ changes' = changes + 1
  /\ \E p \in Ports :
       \/ p \in taken /\ taken' = taken \ {p}
       \/ Free(p) /\ ~(server = "serving" /\ p = actualPort)
          /\ taken' = taken \cup {p}
  /\ UNCHANGED <<pc, actualPort, portVars, server, quit, stopped>>

OtherUpdate ==
  /\ pc # "exited" /\ memPort' = memPort /\ Save
  /\ UNCHANGED <<taken, changes, pc, actualPort, cfgPort, server, quit, stopped>>

Next == Main \/ Serve \/ Quit \/ Stop \/ Others \/ OtherUpdate

Spec == Init /\ [][Next]_vars

\* The main goroutine runs and its timer fires; nobody has to quit, and Stop
\* need not return.
FairSpec == Spec /\ WF_vars(Main)

-----------------------------------------------------------------------------
\* The order of preference, as long as nobody else moves: the default, the
\* saved port, the first free one above it.
Preferred(p) ==
  IF DefaultPort \notin taken THEN p = DefaultPort
  ELSE p >= savedPort /\ \A q \in savedPort .. p : q \in taken <=> q # p

PrefersInOrder ==
  changes = 0 /\ pc \notin {"search", "exited"} => Preferred(actualPort)

\* What the skill reads is the port of the server, unless the last save
\* failed: no later save of another field brings an old port back.
PortIsPublished ==
  server # "none" /\ ~saveFailed => webPort = actualPort

\* The search ends, although ports come and go, if there is a free port left
\* and the saved one is not below the default.
SearchEnds == savedPort >= DefaultPort ~> pc # "search"

\* Whoever quits is rid of the program, even if Stop hangs.
QuitEnds == quit ~> pc = "exited"

-----------------------------------------------------------------------------
(* What the documentation says and the code does not do.                   *)

\* README.md, main.go: the default is tried first, then the saved port, then
\* the ports after it, until one is available.
FindsAPort == <>(pc # "search")

\* README.md: if the default and the saved port are in use, the ports after
\* the default are tried one by one (18082, 18083 and so on).
CountsFromDefault ==
  changes = 0 /\ pc = "tray" /\ {DefaultPort, savedPort} \subseteq taken
    => \A q \in DefaultPort .. actualPort : q # actualPort => q \in taken

\* README.md: as long as a port is in use the next one is tried.
KeepsTrying == server # "failed"
=============================================================================
