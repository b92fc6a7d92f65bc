----------------------------- MODULE Reconnect -----------------------------
(***************************************************************************)
(* internal/wechat/reconnect.go: the timer that warns before a session     *)
(* ends and expires it, with the pollers that wait for the confirmation of *)
(* the QR code it sent.  Every timer owns a reconnectStopCh, closed when   *)
(* the next timer starts, so that t < timers says that t is told to stop;  *)
(* a poller, its QR code, its pollStop and its resultCh share a number.    *)
(* Start and Stop of client.go appear by what they do to c.stopCh.  Time   *)
(* passes in units in which a poll takes none.                             *)
(***************************************************************************)
EXTENDS Naturals, FiniteSets

CONSTANTS
  WarningHours,   \* activation_warning_hours when the program starts
  ForceAfter,     \* SessionDuration - ForceBefore
  MaxTime, MaxTimers, MaxPollers   \* bounds

ASSUME ReconnectAssumption ==
  /\ {WarningHours, ForceAfter} \subseteq Nat
  /\ {MaxTime, MaxTimers, MaxPollers} \subseteq Nat

VARIABLES
  now, loginTime, status,   \* the clock; of Client
  stopGen, stopClosed,      \* c.stopCh, and which of them are closed
  timers, timer,            \* timers started, where each is
  pollers, poller,          \* confirmation pollers started, where each is
  pollStop, resultCh,       \* whose pollStop is closed, what each reported
  activated, expired        \* QR codes the user confirmed, that ran out

clientVars == <<loginTime, status>>
stopVars   == <<stopGen, stopClosed>>
timerVars  == <<timers, timer>>
pollVars   == <<pollers, poller, pollStop, resultCh>>
world      == <<now, activated, expired>>
vars == <<clientVars, stopVars, timerVars, pollVars, world>>

Timers  == 1 .. MaxTimers
Pollers == 1 .. MaxPollers

\* activationStarted, the poller and QR code it has (or 0), and the stopCh of
\* its current select.
Fresh == [pc |-> "none", started |-> FALSE, poll |-> 0, ch |-> 0]

Init ==
  /\ now = 0 /\ loginTime = 0 /\ status = "disconnected"
  /\ stopGen = 0 /\ stopClosed = {}
  /\ timers = 0 /\ timer = [t \in Timers |-> Fresh]
  /\ pollers = 0 /\ pollStop = {}
  /\ poller = [p \in Pollers |-> [pc |-> "none", of |-> 0, ch |-> 0]]
  /\ resultCh = [p \in Pollers |-> "empty"]
  /\ activated = {} /\ expired = {}

-----------------------------------------------------------------------------
(* StartReconnectTimer and its loop.  A PUT /settings reaches no timer:    *)
(* main.go copied the hours to reconnectCfg when the program started.      *)

StartReconnectTimer(ch) ==
  /\ timers < MaxTimers
  /\ timers' = timers + 1
  /\ timer' = [timer EXCEPT ![timers'].pc = "select", ![timers'].ch = ch]

\* A login: SetToken, Start, OnTokenSaved.  When the program starts main calls
\* Start with the saved login time.  Start closes c.stopCh if pollRunning says
\* that a loop runs, which here it does.
TimerBeforeStart ==
  /\ loginTime' = now /\ status' = "connected"
  /\ stopClosed' = stopClosed \cup {stopGen} /\ stopGen' = stopGen + 1
  /\ StartReconnectTimer(stopGen)
  /\ UNCHANGED <<pollVars, world>>
Login ==
  /\ loginTime' = now \/ (timers = 0 /\ loginTime' = loginTime)
  /\ status' = "connected"
  /\ stopClosed' = stopClosed \cup {stopGen} /\ stopGen' = stopGen + 1
  /\ StartReconnectTimer(stopGen')
  /\ UNCHANGED <<pollVars, world>>

Stop ==
  /\ stopClosed' = stopClosed \cup {stopGen} /\ status' = "disconnected"
  /\ UNCHANGED <<loginTime, stopGen, timerVars, pollVars, world>>

\* The loop comes back to its select and reads c.stopCh.
Reselect(t, r) ==
  timer' = [timer EXCEPT ![t] = [r EXCEPT !.pc = "select", !.ch = stopGen]]

stopQRPoll(p) == pollStop' = pollStop \cup ({p} \ {0})

TimerStops(t) ==
  /\ timer[t].pc = "select" /\ (t < timers \/ timer[t].ch \in stopClosed)
  /\ stopQRPoll(timer[t].poll)
  /\ timer' = [timer EXCEPT ![t].pc = "gone"]
  /\ UNCHANGED <<clientVars, stopVars, timers, pollers, poller, resultCh,
                 world>>

KeepsStarted(t) ==
  /\ timer[t].pc = "select" /\ timer[t].poll # 0
  /\ resultCh[timer[t].poll] # "empty"
  /\ stopQRPoll(timer[t].poll)
  /\ Reselect(t, [timer[t] EXCEPT !.poll = 0])
  /\ UNCHANGED <<clientVars, stopVars, timers, pollers, poller, resultCh,
                 world>>
Result(t) ==
  /\ timer[t].pc = "select" /\ timer[t].poll # 0
  /\ resultCh[timer[t].poll] # "empty"
  /\ stopQRPoll(timer[t].poll)
  /\ Reselect(t, [timer[t] EXCEPT !.poll = 0, !.started = FALSE])
  /\ UNCHANGED <<clientVars, stopVars, timers, pollers, poller, resultCh,
                 world>>

ForcesAtWarning(t) ==
  /\ timer[t].pc = "select" /\ status = "connected"
  /\ now - loginTime >= WarningHours
  /\ timer' = [timer EXCEPT ![t].pc = "force"]
  /\ UNCHANGED <<clientVars, stopVars, timers, pollVars, world>>
\* A tick: what is read of the client here is acted upon in a later step.  A
\* reminder that is repeated changes nothing but its own time.
Tick(t) ==
  LET age == now - loginTime
  IN  /\ timer[t].pc = "select"
      /\ \/ /\ status = "connected" /\ age >= ForceAfter
            /\ timer' = [timer EXCEPT ![t].pc = "force"]
         \/ /\ status = "connected" /\ age < ForceAfter
            /\ age >= WarningHours /\ ~timer[t].started
            /\ timer' = [timer EXCEPT ![t].pc = "qrcode", ![t].started = TRUE]
         \/ /\ \/ status # "connected"
               \/ age < ForceAfter /\ (age < WarningHours \/ timer[t].started)
            /\ Reselect(t, timer[t])
      /\ UNCHANGED <<clientVars, stopVars, timers, pollVars, world>>

ForceExpiry(t) ==
  /\ timer[t].pc = "force"
  /\ status' = "expired"
  /\ stopQRPoll(timer[t].poll)
  /\ Reselect(t, [timer[t] EXCEPT !.poll = 0, !.started = FALSE])
  /\ UNCHANGED <<loginTime, stopVars, timers, pollers, poller, resultCh,
                 world>>

\* GetQRCode, the reminder and the poller; a reminder that cannot be sent is
\* only logged.
GetQRCode(t) ==
  /\ timer[t].pc = "qrcode" /\ pollers < MaxPollers
  /\ pollers' = pollers + 1
  /\ poller' = [poller EXCEPT
       ![pollers'] = [pc |-> "select", of |-> t, ch |-> stopGen]]
  /\ Reselect(t, [timer[t] EXCEPT !.poll = pollers'])
  /\ UNCHANGED <<clientVars, stopVars, timers, pollStop, resultCh, world>>

GetQRCodeFails(t) ==
  /\ timer[t].pc = "qrcode"
  /\ Reselect(t, [timer[t] EXCEPT !.started = FALSE])
  /\ UNCHANGED <<clientVars, stopVars, timers, pollVars, world>>

TimerStep(t) ==
  \/ TimerStops(t) \/ Result(t) \/ Tick(t) \/ ForceExpiry(t) \/ GetQRCode(t)
  \/ GetQRCodeFails(t)

-----------------------------------------------------------------------------
(* pollQRCodeConfirmation                                                  *)

\* resultCh has room for one; more is dropped.
SendResult(p, result) ==
  resultCh' = [resultCh EXCEPT ![p] = IF @ = "empty" THEN result ELSE @]

PollerAt(p, pc) ==
  poller' = [poller EXCEPT ![p].pc = pc, ![p].ch = stopGen]

IgnoresNewTimer(p) == p \in pollStop \/ poller[p].ch \in stopClosed
Told(p) ==
  p \in pollStop \/ poller[p].of < timers \/ poller[p].ch \in stopClosed

PollerStops(p) ==
  /\ poller[p].pc = "select" /\ Told(p)
  /\ SendResult(p, "no") /\ PollerAt(p, "gone")
  /\ UNCHANGED <<clientVars, stopVars, timerVars, pollers, pollStop, world>>

PollerTick(p) ==
  /\ poller[p].pc = "select"
  /\ PollerAt(p, "check")
  /\ UNCHANGED <<clientVars, stopVars, timerVars, pollers, pollStop, resultCh,
                 world>>

ReportsNothing(p) ==
  /\ poller[p].pc = "check"
  /\ \/ PollerAt(p, "select") \/ (p \in activated /\ PollerAt(p, "token"))
     \/ p \in expired \ activated /\ PollerAt(p, "gone")
  /\ UNCHANGED <<clientVars, stopVars, timerVars, pollers, pollStop, resultCh,
                 world>>
GoesOn(p) ==
  /\ poller[p].pc = "check"
  /\ \/ PollerAt(p, "select") /\ UNCHANGED resultCh
     \/ p \in activated /\ PollerAt(p, "token") /\ UNCHANGED resultCh
     \/ p \in expired \ activated /\ PollerAt(p, "select") /\ SendResult(p, "no")
  /\ UNCHANGED <<clientVars, stopVars, timerVars, pollers, pollStop, world>>
\* The request may fail; a code that ran out was not confirmed.
CheckQRCodeStatus(p) ==
  /\ poller[p].pc = "check"
  /\ \/ PollerAt(p, "select") /\ UNCHANGED resultCh
     \/ p \in activated /\ PollerAt(p, "token") /\ UNCHANGED resultCh
     \/ p \in expired \ activated /\ PollerAt(p, "gone") /\ SendResult(p, "no")
  /\ UNCHANGED <<clientVars, stopVars, timerVars, pollers, pollStop, world>>

SetToken(p) ==
  /\ poller[p].pc = "token"
  /\ loginTime' = now
  /\ PollerAt(p, "notify")
  /\ UNCHANGED <<status, stopVars, timerVars, pollers, pollStop, resultCh,
                 world>>

\* OnTokenSaved: SetStatus, then a new timer.
NotifyTokenSaved(p) ==
  /\ poller[p].pc = "notify"
  /\ status' = "connected"
  /\ PollerAt(p, "timer")
  /\ UNCHANGED <<loginTime, stopVars, timerVars, pollers, pollStop, resultCh,
                 world>>

RestartTimer(p) ==
  /\ poller[p].pc = "timer"
  /\ StartReconnectTimer(stopGen)
  /\ SendResult(p, "yes") /\ PollerAt(p, "gone")
  /\ UNCHANGED <<clientVars, stopVars, pollers, pollStop, world>>

PollerStep(p) ==
  \/ PollerStops(p) \/ PollerTick(p) \/ CheckQRCodeStatus(p) \/ SetToken(p)
  \/ NotifyTokenSaved(p) \/ RestartTimer(p)

-----------------------------------------------------------------------------
(* The clock, the user and the server.                                     *)

Pass ==
  /\ now < MaxTime /\ now' = now + 1
  /\ UNCHANGED <<clientVars, stopVars, timerVars, pollVars, activated, expired>>

Activate(p) ==
  /\ p <= pollers /\ p \notin expired /\ activated' = activated \cup {p}
  /\ UNCHANGED <<clientVars, stopVars, timerVars, pollVars, now, expired>>

RunOut(p) ==
  /\ p <= pollers /\ p \notin activated /\ expired' = expired \cup {p}
  /\ UNCHANGED <<clientVars, stopVars, timerVars, pollVars, now, activated>>

Next ==
  \/ Login \/ Stop
  \/ \E t \in Timers : TimerStep(t)
  \/ \E p \in Pollers : PollerStep(p) \/ Activate(p) \/ RunOut(p)
  \/ Pass

Spec == Init /\ [][Next]_vars

\* Goroutines run, requests succeed now and then, and a select does not pass
\* over a channel that stays ready for ever.
Fairness ==
  /\ \A t \in Timers : WF_vars(TimerStep(t)) /\ SF_vars(Result(t))
  /\ \A p \in Pollers :
       /\ WF_vars(PollerStep(p))
       /\ SF_vars(CheckQRCodeStatus(p) /\ poller'[p].pc # "select")

FairSpec == Spec /\ Fairness

-----------------------------------------------------------------------------
TimerState == [pc : {"none", "select", "force", "qrcode", "gone"},
               started : BOOLEAN, poll : 0 .. pollers, ch : 0 .. stopGen]
PollerState == [pc : {"none", "select", "check", "token", "notify", "timer",
                      "gone"},
                of : 0 .. timers, ch : 0 .. stopGen]

TypeOK ==
  /\ now \in 0 .. MaxTime /\ loginTime \in 0 .. now
  /\ status \in {"connected", "disconnected", "expired"}
  /\ stopGen \in Nat /\ stopClosed \subseteq 0 .. stopGen
  /\ timers \in 0 .. MaxTimers /\ timer \in [Timers -> TimerState]
  /\ pollers \in 0 .. MaxPollers /\ poller \in [Pollers -> PollerState]
  /\ resultCh \in [Pollers -> {"empty", "yes", "no"}]
  /\ pollStop \cup activated \cup expired \subseteq 1 .. pollers

\* A timer and its poller agree: activation is started exactly while there is
\* a poller, or its code is being fetched.
StartedMeansPolled(t) ==
  CASE timer[t].pc \in {"none", "select"} ->
         timer[t].started <=> timer[t].poll # 0
    [] timer[t].pc = "qrcode" -> timer[t].started /\ timer[t].poll = 0
    [] OTHER -> TRUE

\* Inductive: types, goroutines numbered in the order they start, and what a
\* timer believes of its poller.
IInv ==
  /\ TypeOK
  /\ \A t \in Timers : timer[t].pc = "none" <=> t > timers
  /\ \A p \in Pollers : poller[p].pc = "none" <=> p > pollers
  /\ \A p \in Pollers : resultCh[p] # "empty" => poller[p].pc = "gone"
  /\ \A t \in Timers : StartedMeansPolled(t)

\* The timer reads the status and the login time, decides, and sets "expired"
\* later: it hits a young session only when a login or a renewal came in
\* between, whose new timer has replaced this one or is about to.
ExpiresOldOrRenewed ==
  \A t \in Timers :
    timer[t].pc = "force" /\ now - loginTime < ForceAfter
      => t < timers \/ \E p \in Pollers : poller[p].pc \in {"notify", "timer"}

\* At most one poller is not told to stop: a regenerated code, a new login or
\* an expired session leaves none behind that would confirm an old code.
OneConfirmation ==
  Cardinality({p \in 1 .. pollers : poller[p].pc # "gone" /\ ~Told(p)}) <= 1

\* As long as the client runs its session is watched.
SessionIsWatched ==
  status = "connected" /\ stopGen \notin stopClosed
    => timer[timers].pc # "gone"

\* A code that ran out is not advertised for ever: the timer drops it.
DeadCodeIsDropped ==
  \A t \in Timers, p \in Pollers :
    timer[t].poll = p /\ p \in expired
      ~> timer[t].poll # p \/ timer[t].pc = "gone"

-----------------------------------------------------------------------------
(* What the documentation says and the code does not do.                   *)

\* README.md: a session expires when at most 30 minutes of it remain.
ExpiresOnlyAtTheEnd ==
  [][status # "expired" /\ status' = "expired"
       => now - loginTime >= ForceAfter]_vars
=============================================================================
