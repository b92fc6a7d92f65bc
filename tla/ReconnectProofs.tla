-------------------------- MODULE ReconnectProofs --------------------------
(***************************************************************************)
(* Theorems about Reconnect, for any session length and warning, and any   *)
(* number of timers and pollers.                                           *)
(***************************************************************************)
EXTENDS Reconnect, FiniteSetTheorems, TLAPS

\* An expiry that is decided on hits an old session or one being renewed.
Strong == IInv /\ ExpiresOldOrRenewed

\* What a timer's step leaves alone: itself it moves from one proper place to
\* another, within the types and in agreement with its poller.
LEMMA TimerMoves ==
  ASSUME Strong, NEW t \in Timers, timer[t].pc # "none", NEW r \in TimerState,
         r.pc # "none", timer' = [timer EXCEPT ![t] = r],
         StartedMeansPolled(t)',
         r.pc = "force" => now - loginTime >= ForceAfter,
         status' \in {"connected", "disconnected", "expired"},
         pollStop' \subseteq 1 .. pollers,
         UNCHANGED <<loginTime, stopVars, timers, pollers, poller, resultCh,
                     world>>
  PROVE  Strong'
<1> USE ReconnectAssumption
     DEF Strong, IInv, TypeOK, TimerState, PollerState, stopVars, world, Timers,
         Pollers, ExpiresOldOrRenewed
<1>1. TypeOK'
  OBVIOUS
<1>2. \A u \in Timers : timer'[u] = IF u = t THEN r ELSE timer[u]
  OBVIOUS
<1>3. (\A u \in Timers : timer[u].pc = "none" <=> u > timers)'
  BY <1>2
<1>4. (\A u \in Timers : StartedMeansPolled(u))'
  BY <1>2 DEF StartedMeansPolled
<1>5. ExpiresOldOrRenewed'
  BY <1>2
<1> QED
  BY <1>1, <1>3, <1>4, <1>5

\* And what a poller's step leaves alone: a renewal that has set the login
\* time goes on to the new timer.
LEMMA PollerMoves ==
  ASSUME Strong, NEW p \in Pollers, poller[p].pc \notin {"none", "gone"},
         NEW r \in PollerState, r.pc # "none",
         poller' = [poller EXCEPT ![p] = r],
         poller[p].pc \in {"notify", "timer"} => r.pc = "timer",
         loginTime' = loginTime \/ (loginTime' = now /\ r.pc = "notify"),
         status' \in {"connected", "disconnected", "expired"},
         NEW result \in {"yes", "no"},
         resultCh' = resultCh \/ (SendResult(p, result) /\ r.pc = "gone"),
         UNCHANGED <<stopVars, timerVars, pollers, pollStop, world>>
  PROVE  Strong'
<1> USE ReconnectAssumption
     DEF Strong, IInv, TypeOK, TimerState, PollerState, stopVars, timerVars,
         world, Timers, Pollers, ExpiresOldOrRenewed
<1>1. \A q \in Pollers : poller'[q] = IF q = p THEN r ELSE poller[q]
  OBVIOUS
<1>2. /\ resultCh' \in [Pollers -> {"empty", "yes", "no"}]
      /\ \A q \in Pollers : q # p \/ r.pc # "gone" => resultCh'[q] = resultCh[q]
  <2>1. CASE resultCh' = resultCh
    BY <2>1
  <2>2. CASE SendResult(p, result) /\ r.pc = "gone"
    <3>1. resultCh' = [resultCh EXCEPT ![p] =
                         IF resultCh[p] = "empty" THEN result ELSE resultCh[p]]
      BY <2>2 DEF SendResult
    <3> QED
      BY <2>2, <3>1
  <2> QED
    BY <2>1, <2>2
<1>3. TypeOK'
  BY <1>2
<1>4. /\ (\A q \in Pollers : poller[q].pc = "none" <=> q > pollers)'
      /\ (\A q \in Pollers : resultCh[q] # "empty" => poller[q].pc = "gone")'
  BY <1>1, <1>2
<1>5. (\A t \in Timers : StartedMeansPolled(t))'
  BY DEF StartedMeansPolled
<1>6. ExpiresOldOrRenewed'
  BY <1>1
<1> QED
  BY <1>3, <1>4, <1>5, <1>6

\* A new timer is numbered after all others, so that those are told to stop.
LEMMA TimerStarts ==
  ASSUME IInv, NEW ch \in 0 .. stopGen', StartReconnectTimer(ch),
         stopGen' \in Nat, stopGen' >= stopGen, pollers' = pollers
  PROVE  /\ timers' \in 0 .. MaxTimers /\ timers' = timers + 1
         /\ (timer \in [Timers -> TimerState])'
         /\ (\A t \in Timers : timer[t].pc = "none" <=> t > timers)'
         /\ (\A t \in Timers : StartedMeansPolled(t))'
         /\ (\A t \in Timers : timer[t].pc = "force" => t < timers)'
<1> DEFINE n == timers + 1
           new == [timer[n] EXCEPT !.pc = "select", !.ch = ch]
<1>1. /\ n \in Timers /\ timers' = n /\ timers \in Nat /\ timers <= MaxTimers
      /\ timer \in [Timers -> TimerState] /\ stopGen \in Nat
      /\ \A t \in Timers : timer[t].pc = "none" <=> t > timers
  BY ReconnectAssumption DEF StartReconnectTimer, IInv, TypeOK, Timers
<1>2. new \in TimerState' /\ new.pc = "select"
  BY <1>1 DEF TimerState
<1>3. timer' = [timer EXCEPT ![n] = new]
  BY <1>1 DEF StartReconnectTimer, TimerState
<1>4. new.started = timer[n].started /\ new.poll = timer[n].poll
  BY <1>1 DEF TimerState
<1>5. timer[n].pc = "none" /\ (timer[n].started <=> timer[n].poll # 0)
  BY <1>1 DEF IInv, StartedMeansPolled, Timers
<1> HIDE DEF new
<1>6. \A t \in Timers : timer'[t] = IF t = n THEN new ELSE timer[t]
  BY <1>1, <1>3
<1>7. (timer \in [Timers -> TimerState])'
  <2>1. \A t \in Timers : timer[t] \in TimerState'
    BY <1>1 DEF TimerState
  <2> QED
    BY <1>1, <1>2, <1>3, <2>1
<1>8. (\A t \in Timers : timer[t].pc = "none" <=> t > timers)'
  BY <1>1, <1>2, <1>6 DEF Timers
<1>9. (\A t \in Timers : StartedMeansPolled(t))'
  BY <1>2, <1>4, <1>5, <1>6 DEF StartedMeansPolled, IInv
<1>10. (\A t \in Timers : timer[t].pc = "force" => t < timers)'
  BY <1>1, <1>2, <1>6 DEF Timers
<1> QED
  BY <1>1, <1>7, <1>8, <1>9, <1>10 DEF Timers

-----------------------------------------------------------------------------
(* The steps.                                                              *)

\* A login: the timers that were there are outdated.
LEMMA LoginPreserves == ASSUME Strong, Login PROVE Strong'
<1>1. /\ stopGen \in Nat /\ now \in Nat /\ stopClosed \subseteq 0 .. stopGen
      /\ loginTime \in 0 .. now
  BY ReconnectAssumption DEF Strong, IInv, TypeOK
<1>2. /\ stopGen' = stopGen + 1 /\ stopClosed' = stopClosed \cup {stopGen}
      /\ StartReconnectTimer(stopGen') /\ status' = "connected"
      /\ loginTime' \in 0 .. now
      /\ UNCHANGED <<pollers, poller, pollStop, resultCh, now, activated, expired>>
  BY <1>1 DEF Login, pollVars, world
<1>3. stopGen' \in 0 .. stopGen' /\ stopGen' >= stopGen /\ stopGen' \in Nat
      /\ stopClosed' \subseteq 0 .. stopGen'
  BY <1>1, <1>2
<1>4. /\ timers' \in 0 .. MaxTimers /\ timers' = timers + 1
      /\ (timer \in [Timers -> TimerState])'
      /\ (\A t \in Timers : timer[t].pc = "none" <=> t > timers)'
      /\ (\A t \in Timers : StartedMeansPolled(t))'
      /\ (\A t \in Timers : timer[t].pc = "force" => t < timers)'
  BY <1>2, <1>3, TimerStarts DEF Strong
<1>5. (poller \in [Pollers -> PollerState])'
  BY <1>1, <1>2, <1>4, ReconnectAssumption DEF Strong, IInv, TypeOK, PollerState
<1>6. TypeOK'
  BY <1>1, <1>2, <1>3, <1>4, <1>5 DEF Strong, IInv, TypeOK
<1> QED
  BY <1>2, <1>4, <1>6 DEF Strong, IInv, ExpiresOldOrRenewed, Pollers

\* A renewal ends with a new timer, too.
LEMMA RestartTimerPreserves ==
  ASSUME Strong, NEW p \in Pollers, RestartTimer(p) PROVE Strong'
<1>1. /\ stopGen \in Nat /\ timers \in Nat
      /\ poller \in [Pollers -> PollerState] /\ poller[p].pc = "timer"
      /\ resultCh \in [Pollers -> {"empty", "yes", "no"}]
  BY ReconnectAssumption DEF Strong, IInv, TypeOK, RestartTimer
<1>2. /\ StartReconnectTimer(stopGen) /\ SendResult(p, "yes")
      /\ PollerAt(p, "gone")
      /\ UNCHANGED <<loginTime, status, stopGen, stopClosed, pollers, pollStop,
                     now, activated, expired>>
  BY DEF RestartTimer, clientVars, stopVars, world
<1>3. /\ timers' \in 0 .. MaxTimers /\ timers' = timers + 1
      /\ (timer \in [Timers -> TimerState])'
      /\ (\A t \in Timers : timer[t].pc = "none" <=> t > timers)'
      /\ (\A t \in Timers : StartedMeansPolled(t))'
      /\ (\A t \in Timers : timer[t].pc = "force" => t < timers)'
  BY <1>1, <1>2, TimerStarts DEF Strong
<1>4. /\ poller' \in [Pollers -> PollerState']
      /\ \A q \in Pollers : poller'[q].pc = IF q = p THEN "gone" ELSE poller[q].pc
  <2> DEFINE r == [poller[p] EXCEPT !.pc = "gone", !.ch = stopGen]
  <2>1. poller' = [poller EXCEPT ![p] = r]
    BY <1>1, <1>2 DEF PollerAt, PollerState
  <2>2. r \in PollerState' /\ r.pc = "gone"
    <3>1. poller[p] \in PollerState' /\ stopGen \in 0 .. stopGen'
      BY <1>1, <1>2, <1>3 DEF PollerState
    <3> QED
      BY <3>1 DEF PollerState
  <2>3. \A q \in Pollers : poller[q] \in PollerState'
    BY <1>1, <1>2, <1>3 DEF PollerState
  <2> HIDE DEF r
  <2> QED
    BY <1>1, <2>1, <2>2, <2>3
<1>5. /\ resultCh' \in [Pollers -> {"empty", "yes", "no"}]
      /\ \A q \in Pollers : q # p => resultCh'[q] = resultCh[q]
  BY <1>1, <1>2 DEF SendResult
<1>6. TypeOK'
  BY <1>2, <1>3, <1>4, <1>5 DEF Strong, IInv, TypeOK
<1>7. /\ (\A q \in Pollers : poller[q].pc = "none" <=> q > pollers)'
      /\ (\A q \in Pollers : resultCh[q] # "empty" => poller[q].pc = "gone")'
  BY <1>1, <1>2, <1>4, <1>5 DEF Strong, IInv, Pollers
<1> QED
  BY <1>3, <1>6, <1>7 DEF Strong, IInv, ExpiresOldOrRenewed

\* A poller starts with its code; the timer that started it knows it.
LEMMA GetQRCodePreserves ==
  ASSUME Strong, NEW t \in Timers, GetQRCode(t) PROVE Strong'
<1> DEFINE n == pollers + 1
           m == [timer[t] EXCEPT !.poll = n]
           r == [m EXCEPT !.pc = "select", !.ch = stopGen]
           s == [pc |-> "select", of |-> t, ch |-> stopGen]
<1>1. /\ n \in Pollers /\ pollers' = n /\ pollers \in Nat
      /\ stopGen \in Nat /\ timers \in Nat /\ t <= timers
      /\ timer \in [Timers -> TimerState] /\ timer[t].pc = "qrcode"
      /\ timer[t].started /\ poller \in [Pollers -> PollerState]
      /\ UNCHANGED <<loginTime, status, stopGen, stopClosed, timers, pollStop,
                     resultCh, now, activated, expired>>
  BY ReconnectAssumption
     DEF GetQRCode, Strong, IInv, TypeOK, StartedMeansPolled, Pollers, Timers,
         clientVars, stopVars, world
<1>2. poller' = [poller EXCEPT ![n] = s] /\ timer' = [timer EXCEPT ![t] = r]
  BY <1>1 DEF GetQRCode, Reselect
<1>3. /\ r \in TimerState' /\ r.pc = "select" /\ r.started /\ r.poll # 0
      /\ s \in PollerState' /\ s.pc = "select"
  <2>1. m \in TimerState' /\ m.started /\ m.poll = n
    BY <1>1 DEF TimerState
  <2>2. s \in PollerState' /\ s.pc = "select"
    BY <1>1 DEF PollerState, Timers
  <2> HIDE DEF m
  <2>3. r \in TimerState' /\ r.pc = "select" /\ r.started = m.started /\ r.poll = m.poll
    <3>1. stopGen \in 0 .. stopGen'
      BY <1>1
    <3> QED
      BY <2>1, <3>1 DEF TimerState
  <2> QED
    BY <1>1, <2>1, <2>2, <2>3
<1> HIDE DEF r, s
<1>4. /\ \A u \in Timers : timer'[u] = IF u = t THEN r ELSE timer[u]
      /\ \A q \in Pollers : poller'[q] = IF q = n THEN s ELSE poller[q]
  BY <1>1, <1>2
<1>5. timer' \in [Timers -> TimerState'] /\ poller' \in [Pollers -> PollerState']
  <2>1. \A u \in Timers : timer[u] \in TimerState'
    BY <1>1 DEF TimerState
  <2>2. \A q \in Pollers : poller[q] \in PollerState'
    BY <1>1 DEF PollerState
  <2> QED
    BY <1>1, <1>2, <1>3, <2>1, <2>2
<1>6. TypeOK'
  BY <1>1, <1>5, ReconnectAssumption DEF Strong, IInv, TypeOK, Pollers
<1>7. /\ (\A u \in Timers : timer[u].pc = "none" <=> u > timers)'
      /\ (\A u \in Timers : StartedMeansPolled(u))'
  BY <1>1, <1>3, <1>4 DEF Strong, IInv, Timers, StartedMeansPolled
<1>8. /\ (\A q \in Pollers : poller[q].pc = "none" <=> q > pollers)'
      /\ (\A q \in Pollers : resultCh[q] # "empty" => poller[q].pc = "gone")'
  BY <1>1, <1>3, <1>4 DEF Strong, IInv, Pollers
<1>9. ExpiresOldOrRenewed'
  <2>1. poller[n].pc = "none"
    BY <1>1 DEF Strong, IInv, Pollers
  <2> QED
    BY <1>1, <1>3, <1>4, <2>1 DEF Strong, ExpiresOldOrRenewed
<1> QED
  BY <1>6, <1>7, <1>8, <1>9 DEF Strong, IInv

\* The other steps of a timer.
LEMMA TimerPreserves ==
  ASSUME Strong, NEW t \in Timers, TimerStep(t) PROVE Strong'
<1>0. /\ timer[t] \in TimerState /\ stopGen \in Nat /\ stopGen \in 0 .. stopGen
      /\ timer \in [Timers -> TimerState] /\ pollers \in Nat
      /\ timer[t].poll \in 0 .. pollers /\ pollStop \subseteq 1 .. pollers
      /\ status \in {"connected", "disconnected", "expired"}
      /\ StartedMeansPolled(t)
      /\ timer[t].poll # 0 => {timer[t].poll} \ {0} \subseteq 1 .. pollers
  BY ReconnectAssumption DEF Strong, IInv, TypeOK, TimerState
<1> USE <1>0 DEF clientVars, stopVars, world, pollVars, stopQRPoll, Reselect
<1>1. CASE TimerStops(t)
  <2> DEFINE r == [timer[t] EXCEPT !.pc = "gone"]
  <2>1. r \in TimerState /\ r.pc = "gone" /\ timer' = [timer EXCEPT ![t] = r]
    BY <1>1 DEF TimerStops, TimerState
  <2>2. timer'[t] = r /\ pollStop' \subseteq 1 .. pollers /\ timer[t].pc # "none"
    BY <1>1, <2>1 DEF TimerStops
  <2> HIDE DEF r
  <2> QED
    BY <1>1, <2>1, <2>2, TimerMoves DEF TimerStops, StartedMeansPolled
<1>2. CASE Result(t)
  <2> DEFINE q == [timer[t] EXCEPT !.poll = 0, !.started = FALSE]
             r == [q EXCEPT !.pc = "select", !.ch = stopGen]
  <2>1. /\ r \in TimerState /\ r.pc = "select" /\ ~r.started /\ r.poll = 0
        /\ timer' = [timer EXCEPT ![t] = r]
    <3>1. timer' = [timer EXCEPT ![t] = r]
      BY <1>2 DEF Result
    <3>2. q \in TimerState /\ ~q.started /\ q.poll = 0
      <4>1. 0 \in 0 .. pollers
        OBVIOUS
      <4> QED
        BY <4>1 DEF TimerState
    <3> HIDE DEF q
    <3>3. r \in TimerState /\ r.pc = "select" /\ r.started = q.started /\ r.poll = q.poll
      BY <3>2 DEF TimerState
    <3> QED
      BY <3>1, <3>2, <3>3
  <2>2. timer'[t] = r /\ pollStop' \subseteq 1 .. pollers /\ timer[t].pc # "none"
    BY <1>2, <2>1 DEF Result
  <2> HIDE DEF r
  <2> QED
    BY <1>2, <2>1, <2>2, TimerMoves DEF Result, StartedMeansPolled
<1>3. CASE Tick(t)
  <2>1. CASE timer' = [timer EXCEPT ![t].pc = "force"]
             /\ now - loginTime >= ForceAfter
    <3> DEFINE r == [timer[t] EXCEPT !.pc = "force"]
    <3>1. r \in TimerState /\ r.pc = "force" /\ timer' = [timer EXCEPT ![t] = r]
      BY <2>1 DEF TimerState
    <3>2. timer'[t] = r
      BY <3>1
    <3> HIDE DEF r
    <3> QED
      BY <1>3, <2>1, <3>1, <3>2, TimerMoves DEF Tick, StartedMeansPolled
  <2>2. CASE timer' = [timer EXCEPT ![t].pc = "qrcode", ![t].started = TRUE]
             /\ ~timer[t].started
    <3> DEFINE r == [timer[t] EXCEPT !.pc = "qrcode", !.started = TRUE]
    <3>1. /\ r \in TimerState /\ r.pc = "qrcode" /\ r.started
          /\ r.poll = timer[t].poll /\ timer' = [timer EXCEPT ![t] = r]
      BY <2>2 DEF TimerState
    <3>2. timer'[t] = r /\ timer[t].poll = 0
      BY <1>3, <2>2, <3>1 DEF Tick, StartedMeansPolled
    <3> HIDE DEF r
    <3> QED
      BY <1>3, <3>1, <3>2, TimerMoves DEF Tick, StartedMeansPolled
  <2>3. CASE Reselect(t, timer[t])
    <3> DEFINE r == [timer[t] EXCEPT !.pc = "select", !.ch = stopGen]
    <3>1. /\ r \in TimerState /\ r.pc = "select" /\ r.started = timer[t].started
          /\ r.poll = timer[t].poll /\ timer' = [timer EXCEPT ![t] = r]
      BY <2>3 DEF TimerState
    <3>2. timer'[t] = r
      BY <3>1
    <3> HIDE DEF r
    <3> QED
      BY <1>3, <3>1, <3>2, TimerMoves DEF Tick, StartedMeansPolled
  <2> QED
    BY <1>3, <2>1, <2>2, <2>3 DEF Tick
<1>4. CASE ForceExpiry(t)
  <2> DEFINE q == [timer[t] EXCEPT !.poll = 0, !.started = FALSE]
             r == [q EXCEPT !.pc = "select", !.ch = stopGen]
  <2>1. /\ r \in TimerState /\ r.pc = "select" /\ ~r.started /\ r.poll = 0
        /\ timer' = [timer EXCEPT ![t] = r]
    <3>1. timer' = [timer EXCEPT ![t] = r]
      BY <1>4 DEF ForceExpiry
    <3>2. q \in TimerState /\ ~q.started /\ q.poll = 0
      <4>1. 0 \in 0 .. pollers
        OBVIOUS
      <4> QED
        BY <4>1 DEF TimerState
    <3> HIDE DEF q
    <3>3. r \in TimerState /\ r.pc = "select" /\ r.started = q.started /\ r.poll = q.poll
      BY <3>2 DEF TimerState
    <3> QED
      BY <3>1, <3>2, <3>3
  <2>2. timer'[t] = r /\ pollStop' \subseteq 1 .. pollers /\ timer[t].pc # "none"
    BY <1>4, <2>1 DEF ForceExpiry
  <2> HIDE DEF r
  <2> QED
    BY <1>4, <2>1, <2>2, TimerMoves DEF ForceExpiry, StartedMeansPolled
<1>5. CASE GetQRCodeFails(t)
  <2> DEFINE r == [timer[t] EXCEPT !.pc = "select", !.ch = stopGen,
                                   !.started = FALSE]
  <2>1. /\ r \in TimerState /\ r.pc = "select" /\ ~r.started
        /\ r.poll = timer[t].poll /\ timer' = [timer EXCEPT ![t] = r]
    BY <1>5 DEF GetQRCodeFails, TimerState
  <2>2. timer'[t] = r /\ timer[t].poll = 0
    BY <1>5, <2>1 DEF GetQRCodeFails, StartedMeansPolled
  <2> HIDE DEF r
  <2> QED
    BY <1>5, <2>1, <2>2, TimerMoves DEF GetQRCodeFails, StartedMeansPolled
<1>6. CASE GetQRCode(t)
  BY <1>6, GetQRCodePreserves
<1> QED
  BY <1>1, <1>2, <1>3, <1>4, <1>5, <1>6 DEF TimerStep

\* A poller's steps.
LEMMA PollerPreserves ==
  ASSUME Strong, NEW p \in Pollers, PollerStep(p) PROVE Strong'
<1>0. /\ poller \in [Pollers -> PollerState] /\ stopGen \in Nat
      /\ poller[p] \in PollerState /\ stopGen \in 0 .. stopGen
      /\ status \in {"connected", "disconnected", "expired"}
  BY ReconnectAssumption DEF Strong, IInv, TypeOK
<1>1. ASSUME NEW pc \in {"select", "check", "token", "notify", "timer", "gone"},
             PollerAt(p, pc)
      PROVE  \E r \in PollerState : /\ poller' = [poller EXCEPT ![p] = r]
                                   /\ r.pc = pc
  <2> DEFINE r == [poller[p] EXCEPT !.pc = pc, !.ch = stopGen]
  <2>1. r \in PollerState /\ r.pc = pc
    BY <1>0 DEF PollerState
  <2>2. poller' = [poller EXCEPT ![p] = r]
    BY <1>0, <1>1 DEF PollerAt, PollerState
  <2> QED
    BY <2>1, <2>2
<1> USE DEF clientVars
<1>2. CASE PollerStops(p)
  <2>1. PICK r \in PollerState : poller' = [poller EXCEPT ![p] = r] /\ r.pc = "gone"
    BY <1>1, <1>2 DEF PollerStops
  <2> QED
    BY <1>0, <1>2, <2>1, PollerMoves DEF PollerStops
<1>3. CASE PollerTick(p)
  <2>1. PICK r \in PollerState : poller' = [poller EXCEPT ![p] = r] /\ r.pc = "check"
    BY <1>1, <1>3 DEF PollerTick
  <2> QED
    BY <1>0, <1>3, <2>1, PollerMoves DEF PollerTick
<1>4. CASE CheckQRCodeStatus(p)
  <2>1. CASE PollerAt(p, "select") /\ UNCHANGED resultCh
    <3>1. PICK r \in PollerState : poller' = [poller EXCEPT ![p] = r] /\ r.pc = "select"
      BY <1>1, <2>1
    <3> QED
      BY <1>0, <1>4, <2>1, <3>1, PollerMoves DEF CheckQRCodeStatus
  <2>2. CASE PollerAt(p, "token") /\ UNCHANGED resultCh
    <3>1. PICK r \in PollerState : poller' = [poller EXCEPT ![p] = r] /\ r.pc = "token"
      BY <1>1, <2>2
    <3> QED
      BY <1>0, <1>4, <2>2, <3>1, PollerMoves DEF CheckQRCodeStatus
  <2>3. CASE PollerAt(p, "gone") /\ SendResult(p, "no")
    <3>1. PICK r \in PollerState : poller' = [poller EXCEPT ![p] = r] /\ r.pc = "gone"
      BY <1>1, <2>3
    <3> QED
      BY <1>0, <1>4, <2>3, <3>1, PollerMoves DEF CheckQRCodeStatus
  <2> QED
    BY <1>4, <2>1, <2>2, <2>3 DEF CheckQRCodeStatus
<1>5. CASE SetToken(p)
  <2>1. PICK r \in PollerState : poller' = [poller EXCEPT ![p] = r] /\ r.pc = "notify"
    BY <1>1, <1>5 DEF SetToken
  <2> QED
    BY <1>0, <1>5, <2>1, PollerMoves DEF SetToken
<1>6. CASE NotifyTokenSaved(p)
  <2>1. PICK r \in PollerState : poller' = [poller EXCEPT ![p] = r] /\ r.pc = "timer"
    BY <1>1, <1>6 DEF NotifyTokenSaved
  <2> QED
    BY <1>0, <1>6, <2>1, PollerMoves DEF NotifyTokenSaved
<1>7. CASE RestartTimer(p)
  BY <1>7, RestartTimerPreserves
<1> QED
  BY <1>2, <1>3, <1>4, <1>5, <1>6, <1>7 DEF PollerStep

\* The rest of the world moves no timer and no poller; a session only ages.
LEMMA WorldPreserves ==
  ASSUME Strong,
         Stop \/ Pass \/ (\E p \in Pollers : Activate(p) \/ RunOut(p))
              \/ UNCHANGED vars
  PROVE  Strong'
<1> USE ReconnectAssumption
     DEF Strong, IInv, TypeOK, ExpiresOldOrRenewed, TimerState, PollerState,
         StartedMeansPolled, clientVars, stopVars, timerVars, pollVars, world
<1>1. CASE Stop
  BY <1>1 DEF Stop
<1>2. CASE Pass
  BY <1>2 DEF Pass
<1>3. ASSUME NEW p \in Pollers, Activate(p) \/ RunOut(p) PROVE Strong'
  <2>1. /\ p \in 1 .. pollers
        /\ activated' \cup expired' \subseteq activated \cup expired \cup {p}
        /\ UNCHANGED <<clientVars, stopVars, timerVars, pollVars, now>>
    BY <1>3 DEF Activate, RunOut, Pollers
  <2> QED
    BY <2>1
<1>4. CASE UNCHANGED vars
  BY <1>4 DEF vars
<1> QED
  BY <1>1, <1>2, <1>3, <1>4

LEMMA InitStrong == Init => Strong
<1> SUFFICES ASSUME Init PROVE Strong
  OBVIOUS
<1> USE ReconnectAssumption
     DEF Init, Fresh, Timers, Pollers, TimerState, PollerState
<1>1. TypeOK
  BY DEF TypeOK
<1> QED
  BY <1>1 DEF Strong, IInv, StartedMeansPolled, ExpiresOldOrRenewed

LEMMA NextStrong == Strong /\ [Next]_vars => Strong'
<1> SUFFICES ASSUME Strong, [Next]_vars PROVE Strong'
  OBVIOUS
<1>1. CASE Login
  BY <1>1, LoginPreserves
<1>2. ASSUME NEW t \in Timers, TimerStep(t) PROVE Strong'
  BY <1>2, TimerPreserves
<1>3. ASSUME NEW p \in Pollers, PollerStep(p) PROVE Strong'
  BY <1>3, PollerPreserves
<1>4. CASE Stop \/ Pass \/ (\E p \in Pollers : Activate(p) \/ RunOut(p))
           \/ UNCHANGED vars
  BY <1>4, WorldPreserves
<1> QED
  BY <1>1, <1>2, <1>3, <1>4 DEF Next

\* Nobody but its timer lets go of a poller, and only by telling it to stop.
Owned ==
  \A p \in Pollers :
    poller[p].pc \notin {"none", "gone"} /\ p \notin pollStop
      => poller[p].of \in 1 .. timers /\ timer[poller[p].of].poll = p

\* Steps that move no poller to a new timer and take none from its own.
LEMMA OwnedKept ==
  ASSUME Strong, Owned,
         timers \in Nat, timers' \in Nat, timers <= timers',
         pollStop \subseteq pollStop',
         \A p \in Pollers : /\ poller'[p].of = poller[p].of
                            /\ poller[p].pc \in {"none", "gone"}
                                 => poller'[p].pc \in {"none", "gone"},
         \A t \in Timers :
           timer'[t].poll = timer[t].poll \/ timer[t].poll \in {0} \cup pollStop',
         timers <= MaxTimers
  PROVE  Owned'
<1> SUFFICES ASSUME NEW p \in Pollers,
                    poller'[p].pc \notin {"none", "gone"}, p \notin pollStop'
             PROVE  /\ poller'[p].of \in 1 .. timers'
                    /\ timer'[poller'[p].of].poll = p
  BY DEF Owned
<1>1. poller[p].of \in 1 .. timers /\ timer[poller[p].of].poll = p
  BY DEF Owned
<1>2. poller[p].of \in Timers /\ p # 0
  BY <1>1, ReconnectAssumption DEF Timers, Pollers
<1> QED
  BY <1>1, <1>2

\* A step of a timer: it changes its poller only by fetching a code when it
\* has none, or by telling the one it had to stop.
LEMMA OwnedTimer ==
  ASSUME Strong, Owned, NEW t \in Timers, TimerStep(t) PROVE Owned'
<1>0. /\ timers \in Nat /\ timers <= MaxTimers /\ pollers \in Nat
      /\ timer \in [Timers -> TimerState]
      /\ timer[t] \in TimerState /\ StartedMeansPolled(t)
      /\ poller \in [Pollers -> PollerState]
  BY ReconnectAssumption DEF Strong, IInv, TypeOK
<1>1. CASE GetQRCode(t)
  <2> DEFINE n == pollers + 1
  <2>1. /\ n \in Pollers /\ timer[t].poll = 0 /\ t \in 1 .. timers
        /\ timers' = timers /\ pollStop' = pollStop
        /\ poller' = [poller EXCEPT
                        ![n] = [pc |-> "select", of |-> t, ch |-> stopGen]]
        /\ timer' = [timer EXCEPT ![t] = [[timer[t] EXCEPT !.poll = n]
                                   EXCEPT !.pc = "select", !.ch = stopGen]]
    BY <1>0, <1>1, ReconnectAssumption
       DEF GetQRCode, Reselect, StartedMeansPolled, Pollers, Timers, Strong, IInv
  <2>2. /\ timer'[t].poll = n
        /\ \A u \in Timers : u # t => timer'[u] = timer[u]
        /\ poller'[n].of = t
        /\ \A p \in Pollers : p # n => poller'[p] = poller[p]
    BY <1>0, <2>1 DEF TimerState
  <2> SUFFICES ASSUME NEW p \in Pollers,
                      poller'[p].pc \notin {"none", "gone"}, p \notin pollStop'
               PROVE  /\ poller'[p].of \in 1 .. timers'
                      /\ timer'[poller'[p].of].poll = p
    BY DEF Owned
  <2>3. CASE p = n
    BY <2>1, <2>2, <2>3
  <2>4. CASE p # n
    <3>1. poller[p].of \in 1 .. timers /\ timer[poller[p].of].poll = p
      BY <2>1, <2>2, <2>4 DEF Owned
    <3>2. poller[p].of \in Timers /\ poller[p].of # t
      BY <1>0, <2>1, <3>1, ReconnectAssumption DEF Timers, Pollers
    <3> QED
      BY <2>1, <2>2, <2>4, <3>1, <3>2
  <2> QED
    BY <2>3, <2>4
<1>2. CASE ~GetQRCode(t)
  <2>1. /\ poller' = poller /\ timers' = timers
        /\ pollStop \subseteq pollStop'
        /\ \A u \in Timers : u # t => timer'[u].poll = timer[u].poll
    BY <1>0, <1>2
       DEF TimerStep, TimerStops, Result, Tick, ForceExpiry, GetQRCodeFails,
           Reselect, stopQRPoll, clientVars, stopVars, world, pollVars
  <2>2. \/ timer'[t].poll = timer[t].poll
        \/ timer[t].poll \in {0} \cup pollStop'
    <3>1. CASE TimerStops(t)
      BY <1>0, <3>1 DEF TimerStops, stopQRPoll, TimerState
    <3>2. CASE Result(t)
      BY <1>0, <3>2 DEF Result, stopQRPoll
    <3>3. CASE Tick(t)
      <4>1. \A r \in TimerState : Reselect(t, r) => timer'[t].poll = r.poll
        BY <1>0 DEF Reselect, TimerState
      <4>2. CASE timer' = [timer EXCEPT ![t].pc = "force"]
        BY <1>0, <4>2 DEF TimerState
      <4>3. CASE timer' = [timer EXCEPT ![t].pc = "qrcode", ![t].started = TRUE]
        BY <1>0, <4>3 DEF TimerState
      <4> QED
        BY <1>0, <3>3, <4>1, <4>2, <4>3 DEF Tick
    <3>4. CASE ForceExpiry(t)
      BY <1>0, <3>4 DEF ForceExpiry, stopQRPoll
    <3>5. CASE GetQRCodeFails(t)
      BY <1>0, <3>5 DEF GetQRCodeFails, StartedMeansPolled
    <3> QED
      BY <1>2, <3>1, <3>2, <3>3, <3>4, <3>5 DEF TimerStep
  <2> QED
    BY <1>0, <2>1, <2>2, OwnedKept
<1> QED
  BY <1>1, <1>2

\* A poller comes to an end; it never starts again, and keeps its timer.
LEMMA OwnedPoller ==
  ASSUME Strong, Owned, NEW p \in Pollers, PollerStep(p) PROVE Owned'
<1>0. /\ timers \in Nat /\ timers <= MaxTimers
      /\ timer \in [Timers -> TimerState]
      /\ poller \in [Pollers -> PollerState]
      /\ poller[p] \in PollerState /\ poller[p].pc \notin {"none", "gone"}
  BY ReconnectAssumption
     DEF Strong, IInv, TypeOK, PollerStep, PollerStops, PollerTick,
         CheckQRCodeStatus, SetToken, NotifyTokenSaved, RestartTimer
<1>1. PICK pc : PollerAt(p, pc)
  BY DEF PollerStep, PollerStops, PollerTick, CheckQRCodeStatus, SetToken,
         NotifyTokenSaved, RestartTimer
<1>2. \A q \in Pollers : /\ poller'[q].of = poller[q].of
                         /\ poller[q].pc \in {"none", "gone"}
                              => poller'[q].pc \in {"none", "gone"}
  BY <1>0, <1>1 DEF PollerAt, PollerState
<1>3. /\ timers' \in Nat /\ timers <= timers' /\ pollStop' = pollStop
      /\ \A t \in Timers : timer'[t].poll = timer[t].poll
  BY <1>0
     DEF PollerStep, PollerStops, PollerTick, CheckQRCodeStatus, SetToken,
         NotifyTokenSaved, RestartTimer, StartReconnectTimer, timerVars,
         TimerState
<1> QED
  BY <1>0, <1>2, <1>3, OwnedKept

LEMMA OwnedNext == Strong /\ Owned /\ [Next]_vars => Owned'
<1> SUFFICES ASSUME Strong, Owned, [Next]_vars PROVE Owned'
  OBVIOUS
<1>0. /\ timers \in Nat /\ timers <= MaxTimers
      /\ timer \in [Timers -> TimerState]
  BY ReconnectAssumption DEF Strong, IInv, TypeOK
<1>1. CASE Login
  <2>1. /\ timers' \in Nat /\ timers <= timers' /\ pollStop' = pollStop
        /\ poller' = poller /\ \A t \in Timers : timer'[t].poll = timer[t].poll
    BY <1>0, <1>1 DEF Login, StartReconnectTimer, pollVars, TimerState
  <2> QED
    BY <1>0, <2>1, OwnedKept
<1>2. ASSUME NEW t \in Timers, TimerStep(t) PROVE Owned'
  BY <1>2, OwnedTimer
<1>3. ASSUME NEW p \in Pollers, PollerStep(p) PROVE Owned'
  BY <1>3, OwnedPoller
<1>4. CASE \/ Stop \/ Pass \/ (\E p \in Pollers : Activate(p) \/ RunOut(p))
           \/ UNCHANGED vars
  <2>1. UNCHANGED <<timers, timer, poller, pollStop>>
    BY <1>4 DEF Stop, Pass, Activate, RunOut, vars, timerVars, pollVars
  <2> QED
    BY <2>1 DEF Owned
<1> QED
  BY <1>1, <1>2, <1>3, <1>4 DEF Next

\* The newest timer selects on the channel of the running loop, and has gone
\* only if that is closed.
Watched ==
  /\ timers = 0 => pollers = 0 /\ status = "disconnected"
  /\ timers # 0 => /\ timer[timers].ch = stopGen
                   /\ timer[timers].pc = "gone" => stopGen \in stopClosed

\* Starting a timer on the channel of the running loop makes it so.
LEMMA WatchedStarts ==
  ASSUME Strong, StartReconnectTimer(stopGen') PROVE Watched'
<1>1. /\ timers \in Nat /\ timers' = timers + 1 /\ timers' \in Timers
      /\ timer \in [Timers -> TimerState] /\ timer[timers'].pc = "none"
      /\ timer' = [timer EXCEPT ![timers'].pc = "select",
                                ![timers'].ch = stopGen']
  BY ReconnectAssumption DEF Strong, IInv, TypeOK, StartReconnectTimer, Timers
<1>2. timer'[timers'].pc = "select" /\ timer'[timers'].ch = stopGen'
  BY <1>1 DEF TimerState
<1> QED
  BY <1>1, <1>2 DEF Watched

LEMMA WatchedTimer ==
  ASSUME Strong, Watched, NEW t \in Timers, TimerStep(t) PROVE Watched'
<1>1. /\ timers \in Nat /\ t \in 1 .. timers /\ timer[t].pc # "none"
      /\ timer \in [Timers -> TimerState] /\ timer[t] \in TimerState
  BY ReconnectAssumption
     DEF Strong, IInv, TypeOK, Timers, TimerStep, TimerStops, Result, Tick,
         ForceExpiry, GetQRCode, GetQRCodeFails
<1>2. UNCHANGED <<timers, stopGen, stopClosed>>
  BY DEF TimerStep, TimerStops, Result, Tick, ForceExpiry, GetQRCode,
         GetQRCodeFails, stopVars
<1>3. /\ \A u \in Timers : u # t => timer'[u] = timer[u]
      /\ \/ timer'[t].ch = stopGen /\ timer'[t].pc # "gone"
         \/ timer'[t].ch = timer[t].ch /\ timer'[t].pc # "gone"
         \/ timer'[t].ch = timer[t].ch /\ TimerStops(t)
  <2>1. CASE TimerStops(t)
    BY <1>1, <2>1 DEF TimerStops, TimerState
  <2>2. CASE Result(t)
    BY <1>1, <2>2 DEF Result, Reselect, TimerState
  <2>3. CASE Tick(t)
    <3>1. CASE timer' = [timer EXCEPT ![t].pc = "force"]
      BY <1>1, <3>1 DEF TimerState
    <3>2. CASE timer' = [timer EXCEPT ![t].pc = "qrcode", ![t].started = TRUE]
      BY <1>1, <3>2 DEF TimerState
    <3>3. CASE Reselect(t, timer[t])
      BY <1>1, <3>3 DEF Reselect, TimerState
    <3> QED
      BY <2>3, <3>1, <3>2, <3>3 DEF Tick
  <2>4. CASE ForceExpiry(t)
    BY <1>1, <2>4 DEF ForceExpiry, Reselect, TimerState
  <2>5. CASE GetQRCode(t)
    BY <1>1, <2>5 DEF GetQRCode, Reselect, TimerState
  <2>6. CASE GetQRCodeFails(t)
    BY <1>1, <2>6 DEF GetQRCodeFails, Reselect, TimerState
  <2> QED
    BY <2>1, <2>2, <2>3, <2>4, <2>5, <2>6 DEF TimerStep
<1>4. timers \in Timers
  BY <1>1, ReconnectAssumption DEF Timers, Strong, IInv, TypeOK
<1>5. CASE t = timers
  BY <1>1, <1>2, <1>3, <1>5 DEF Watched, TimerStops
<1>6. CASE t # timers
  BY <1>1, <1>2, <1>3, <1>4, <1>6 DEF Watched
<1> QED
  BY <1>5, <1>6

\* Only a poller that some timer started renews a session, and it starts the
\* next timer last.
LEMMA WatchedPoller ==
  ASSUME Strong, Watched, NEW p \in Pollers, PollerStep(p) PROVE Watched'
<1>1. CASE RestartTimer(p)
  BY <1>1, WatchedStarts DEF RestartTimer, stopVars
<1>2. CASE ~RestartTimer(p)
  <2>1. /\ UNCHANGED <<timers, timer, pollers, stopGen, stopClosed>>
        /\ poller[p].pc # "none"
    BY <1>2 DEF PollerStep, PollerStops, PollerTick, CheckQRCodeStatus,
                SetToken, NotifyTokenSaved, stopVars, timerVars
  <2>2. pollers # 0
    BY <2>1 DEF Strong, IInv, Pollers
  <2> QED
    BY <2>1, <2>2 DEF Watched
<1> QED
  BY <1>1, <1>2

LEMMA WatchedNext == Strong /\ Watched /\ [Next]_vars => Watched'
<1> SUFFICES ASSUME Strong, Watched, [Next]_vars PROVE Watched'
  OBVIOUS
<1>1. CASE Login
  BY <1>1, WatchedStarts DEF Login
<1>2. ASSUME NEW t \in Timers, TimerStep(t) PROVE Watched'
  BY <1>2, WatchedTimer
<1>3. ASSUME NEW p \in Pollers, PollerStep(p) PROVE Watched'
  BY <1>3, WatchedPoller
<1>4. CASE Stop
  BY <1>4 DEF Stop, Watched, timerVars, pollVars
<1>5. CASE Pass \/ (\E p \in Pollers : Activate(p) \/ RunOut(p))
           \/ UNCHANGED vars
  BY <1>5 DEF Pass, Activate, RunOut, Watched, vars, clientVars, stopVars,
              timerVars, pollVars
<1> QED
  BY <1>1, <1>2, <1>3, <1>4, <1>5 DEF Next

-----------------------------------------------------------------------------

\* In every state the timers and pollers are where their numbers say, and a
\* timer has started an activation exactly while it fetches or has a QR code.
THEOREM Invariance == Spec => []IInv
<1>1. Strong => IInv
  BY DEF Strong
<1> QED
  BY <1>1, InitStrong, NextStrong, PTL DEF Spec

\* A timer about to expire a session either counted right or was overtaken by
\* a login or a renewal, the only way to expire a young session.
THEOREM ExpiryIsJustified == Spec => []ExpiresOldOrRenewed
<1>1. Strong => ExpiresOldOrRenewed
  BY DEF Strong
<1> QED
  BY <1>1, InitStrong, NextStrong, PTL DEF Spec

\* Whatever logins, renewals and new codes come together, at most one poller is
\* left that would confirm a code: the one the newest timer waits for.
THEOREM Confirmation == Spec => []OneConfirmation
<1>1. Init => Owned
  BY DEF Init, Owned
<1>2. Strong /\ Owned => OneConfirmation
  <2> SUFFICES ASSUME Strong, Owned PROVE OneConfirmation
    OBVIOUS
  <2> DEFINE S == {p \in 1 .. pollers : poller[p].pc # "gone" /\ ~Told(p)}
  <2>1. timers \in Nat /\ pollers \in Nat /\ 1 .. pollers \subseteq Pollers
    BY ReconnectAssumption DEF Strong, IInv, TypeOK, Pollers
  <2>2. ASSUME NEW p \in S PROVE p = timer[timers].poll
    <3>1. /\ p \in Pollers /\ poller[p].pc \notin {"none", "gone"}
          /\ p \notin pollStop /\ ~(poller[p].of < timers)
      BY <2>1, <2>2 DEF Strong, IInv, Told, Pollers
    <3>2. poller[p].of \in 1 .. timers /\ timer[poller[p].of].poll = p
      BY <3>1 DEF Owned
    <3> QED
      BY <2>1, <3>1, <3>2
  <2>3. CASE S = {}
    BY <2>3, FS_EmptySet DEF OneConfirmation
  <2>4. CASE S # {}
    <3>1. S = {timer[timers].poll}
      BY <2>2, <2>4
    <3> HIDE DEF S
    <3>2. Cardinality(S) = 1
      BY <3>1, FS_Singleton
    <3> QED
      BY <3>2 DEF OneConfirmation, S
  <2> QED
    BY <2>3, <2>4
<1> QED
  BY <1>1, <1>2, InitStrong, NextStrong, OwnedNext, PTL DEF Spec

\* Logins, renewals and disconnects in any order leave a session whose loop
\* runs with a timer that has not gone.
THEOREM Watching == Spec => []SessionIsWatched
<1>1. Init => Watched
  BY DEF Init, Watched
<1>2. Strong /\ Watched => SessionIsWatched
  BY DEF Watched, SessionIsWatched
<1> QED
  BY <1>1, <1>2, InitStrong, NextStrong, WatchedNext, PTL DEF Spec
=============================================================================
