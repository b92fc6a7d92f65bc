------------------------------ MODULE Session ------------------------------
(***************************************************************************)
(* QRLogin put on PollLoop: the pollers of the codes that are confirmed    *)
(* call Start, the disconnect handler calls Stop, and the loops poll       *)
(* meanwhile.  What QRLogin calls running is PollLoop's stopCh; both share *)
(* the status.  Poller p is starter p, the disconnect handler stopper 0.   *)
(*                                                                         *)
(* Left to the two modules: how a poller comes to the confirmation (it is  *)
(* about to set the token, at any time or never) and goes away, messages   *)
(* (none arrives), and a loop that is told to stop and takes longer than   *)
(* five seconds (MayBeLate).                                               *)
(***************************************************************************)
EXTENDS PollLoop

CONSTANTS
  MayOverlap,   \* whether a code is confirmed during the login of another
  MayOverlook   \* whether a Start finds pollRunning cleared by the loop before
                \* the one that has yet to close done

ASSUME SessionAssumption ==
  /\ Starters = 1 .. MaxStarts /\ Stoppers = {0} /\ MaxStarts > 0
  /\ MayOverlap \in BOOLEAN /\ MayOverlook \in BOOLEAN

VARIABLES
  asked, qrPollCancel, qrPolling, timedOut, confirmed, poller, notified, mu,
  botToken, saved, leaving, wiped, overlapped,       \* of QRLogin
  crossed            \* observation: a disconnect overlapped a login

loginVars == <<asked, qrPollCancel, qrPolling, timedOut, confirmed, poller,
               notified, mu, botToken, saved, leaving, wiped, overlapped>>
sessionVars == <<vars, loginVars, crossed>>

Login == INSTANCE QRLogin WITH
  MaxQR <- MaxStarts, MaxScans <- MaxStarts, cancelled <- timedOut,
  running <- gen > 0 /\ gen \notin stopClosed,
  status  <- IF status = "connected" THEN "connected" ELSE "disconnected"

\* Main has called Start if it found a token, which counts as login 1.
SessionInit ==
  /\ \E restored \in {0, 1} :
       /\ gen = restored /\ botToken = restored /\ saved = restored
       /\ pollRunning = (restored = 1)
       /\ status = IF restored = 1 THEN "connected" ELSE "disconnected"
       /\ cancelled = 0 .. (restored - 1)
       /\ poller = [p \in Starters |-> IF p <= restored THEN "gone" ELSE "token"]
       /\ loop = [l \in Loops |-> [Nothing EXCEPT
                                     !.pc = IF l <= restored THEN "top" ELSE @]]
  /\ asked = MaxStarts /\ confirmed = Starters /\ timedOut = {}
  /\ qrPollCancel = 0 /\ qrPolling = FALSE
  /\ notified = [p \in Starters |-> 0] /\ mu = 0 /\ leaving = "idle"
  /\ wiped = FALSE /\ overlapped = FALSE
  /\ stopClosed = {} /\ doneClosed = {} /\ panicked = FALSE
  /\ getUpdatesBuf = 0 /\ lastContact = 0 /\ msgCh = <<>>
  /\ sent = 0 /\ received = <<>>
  /\ caller = [k \in Callers |-> [pc |-> "idle", ch |-> 0]]
  /\ crossed = FALSE

-----------------------------------------------------------------------------
\* A step of a login that leaves the connection alone.
LogIn(p) ==
  /\ UNCHANGED vars /\ poller[p] # "leave"
  /\ Login!Polling(p)
  /\ MayOverlap \/ ~overlapped'
  /\ crossed' = (crossed \/ (Login!SetToken(p) /\ leaving # "idle"))

\* The four steps of Start; the wait is none of QRLogin's.
LoginSignals(p) ==
  /\ StartSignal(p) /\ Login!StartSignal(p)
  /\ MayOverlook \/ pollRunning \/ Closing = {}
  /\ UNCHANGED crossed
LoginWaits(p) ==
  /\ StartWaited(p)
  /\ UNCHANGED <<loginVars, crossed>>
LoginRenews(p) ==
  /\ StartFresh(p) /\ Login!StartFresh(p)
  /\ UNCHANGED crossed
LoginSpawns(p) ==
  /\ StartSpawn(p) /\ Login!StartSpawn(p)
  /\ UNCHANGED crossed

\* OnTokenSaved sets the status once more.
LoginSetsStatus(p) ==
  /\ SetStatus /\ Login!SetStatus(p)
  /\ UNCHANGED crossed

\* Stop in its two halves, then the token.
Disconnect ==
  \/ /\ StopSignal(0) /\ Login!Stop
     /\ crossed' = (crossed \/ Login!LoggingIn # {})
  \/ StopWaited(0) /\ Login!Stopped /\ UNCHANGED crossed
  \/ UNCHANGED <<vars, crossed>> /\ Login!ClearToken

\* The reconnect timer at the end of the session.
Expire ==
  /\ mu = 0 /\ SetStatus /\ status' = "expired"
  /\ UNCHANGED <<loginVars, crossed>>

\* What happens while c.mu is held reads nothing a loop writes: the loops wait.
Poll(l) ==
  /\ mu = 0 /\ PollStep(l)
  /\ UNCHANGED <<loginVars, crossed>>

SessionNext ==
  \/ \E p \in Starters :
       \/ LogIn(p) \/ LoginSetsStatus(p)
       \/ LoginSignals(p) \/ LoginWaits(p) \/ LoginRenews(p) \/ LoginSpawns(p)
  \/ \E l \in Loops : Poll(l)
  \/ Disconnect \/ Expire

SessionSpec == SessionInit /\ [][SessionNext]_sessionVars

-----------------------------------------------------------------------------
\* OneLoop of PollLoop holds for the callers there are: logins one after the
\* other and disconnects at any moment never leave two loops, and none closes a
\* done twice.

\* A login that is over has left a loop that polls, which no earlier Stop or
\* Start has told to stop and no poll error has ended.
Online ==
  Login!Quiet /\ ~crossed /\ botToken # 0 /\ ~wiped
    => gen \notin stopClosed /\ Working # {}

\* A disconnect that is over has left no loop, no token to start again with
\* and no status "connected", whatever loops there were before.
Offline ==
  Login!Quiet /\ ~crossed /\ wiped
    => Working = {} /\ saved = 0 /\ status # "connected"
=============================================================================
