--------------------------- MODULE QRLoginProofs ---------------------------
(* The inductive invariant of QRLogin, for any number of QR codes and      *)
(* scans.                                                                  *)
EXTENDS QRLogin, TLAPS

USE DEF QR, Live

-----------------------------------------------------------------------------
\* A refresh: the new poller is the one whose cancel function is stored.
LEMMA RefreshStep ==
  ASSUME IInv, StartQRPolling PROVE IInv'
<1> USE LoginAssumption DEF IInv, TypeOK, CancelIsLive, StartQRPolling,
      tokenVars, observed, Places
<1>1. asked' \in QR /\ asked' = asked + 1 /\ asked \in Nat
  OBVIOUS
<1>2. poller' \in [QR -> Places]
  OBVIOUS
<1>3. \A p \in QR : poller'[p] = "none" <=> p > asked'
  BY <1>1
<1>4. CancelIsLive'
  BY <1>1
<1>5. mu' # 0 => poller'[mu'] = "release"
  BY <1>1
<1>6. TypeOK'
  BY <1>1, <1>2, <1>5
<1> QED
  BY <1>3, <1>4, <1>6

\* A poller that goes on keeps every part of the invariant, whatever else it
\* does within the types; mu may be taken only on the way to "release", and a
\* poller at "release" gives it back.
LEMMA MoveStep ==
  ASSUME IInv, NEW p \in QR, poller[p] \notin {"none", "gone"},
         NEW pc \in Places \ {"none", "gone"}, Goto(p, pc), PollerOnly,
         \/ mu' = mu /\ poller[p] # "release"
         \/ mu' = 0
         \/ mu' = p /\ pc = "release",
         notified' \in [QR -> 0 .. asked],
         botToken' \in 0 .. asked, saved' \in 0 .. asked,
         status' \in {"connected", "disconnected"}, running' \in BOOLEAN,
         wiped' \in BOOLEAN, overlapped' \in BOOLEAN
  PROVE  IInv'
<1> USE LoginAssumption DEF IInv, TypeOK, CancelIsLive, Goto, PollerOnly,
      qrVars, Places
<1>1. p <= asked /\ asked' = asked
  OBVIOUS
<1>2. /\ poller' \in [QR -> Places]
      /\ \A q \in QR : poller'[q] = IF q = p THEN pc ELSE poller[q]
  OBVIOUS
<1>3. mu' \in 0 .. asked' /\ (mu' # 0 => poller'[mu'] = "release")
  <2>1. CASE mu' = mu /\ poller[p] # "release"
    <3>1. mu' # 0 => mu' # p /\ mu' \in QR
      BY <2>1
    <3> QED
      BY <1>1, <1>2, <2>1, <3>1
  <2>2. CASE mu' = 0 \/ (mu' = p /\ pc = "release")
    BY <1>1, <1>2, <2>2
  <2> QED
    BY <2>1, <2>2
<1>4. \A q \in QR : poller'[q] = "none" <=> q > asked'
  BY <1>1, <1>2
<1>5. CancelIsLive'
  BY <1>1, <1>2
<1>6. TypeOK'
  BY <1>1, <1>2, <1>3
<1> QED
  BY <1>4, <1>5, <1>6

\* The steps of a poller, one by one.
LEMMA PollerStep ==
  ASSUME IInv, NEW p \in QR, Poller(p) PROVE IInv'
<1>0. /\ p <= asked \/ poller[p] = "none"
      /\ botToken \in 0 .. asked /\ saved \in 0 .. asked /\ asked \in Nat
      /\ status \in {"connected", "disconnected"} /\ running \in BOOLEAN
      /\ notified \in [QR -> 0 .. asked]
      /\ wiped \in BOOLEAN /\ overlapped \in BOOLEAN
  BY LoginAssumption DEF IInv, TypeOK
<1> USE <1>0 DEF tokenVars, observed, Places
<1>1. CASE Wait(p)
  <2>1. PICK pc \in {"check", "leave"} : Goto(p, pc)
    BY <1>1 DEF Wait
  <2> QED
    BY <1>1, <2>1, MoveStep DEF Wait
<1>2. CASE CheckQRCodeStatus(p)
  <2>1. PICK pc \in {"wait", "token"} : Goto(p, pc)
    BY <1>2 DEF CheckQRCodeStatus
  <2> QED
    BY <1>2, <2>1, MoveStep DEF CheckQRCodeStatus
<1>3. CASE SetToken(p)
  <2>1. botToken' \in 0 .. asked
    BY <1>3 DEF SetToken
  <2>2. wiped' \in BOOLEAN /\ overlapped' \in BOOLEAN
    BY <1>3, Zenon DEF SetToken
  <2> QED
    BY <1>3, <2>1, <2>2, MoveStep DEF SetToken
<1>4. CASE Starting(p)
  <2>1. CASE StartSignal(p)
    <3>1. running' \in BOOLEAN
      BY <2>1 DEF StartSignal
    <3> QED
      BY <2>1, <3>1, MoveStep DEF StartSignal
  <2>2. CASE StartFresh(p)
    BY <2>2, MoveStep DEF StartFresh
  <2>3. CASE StartSpawn(p)
    BY <2>3, MoveStep DEF StartSpawn
  <2> QED
    BY <1>4, <2>1, <2>2, <2>3 DEF Starting
<1>5. CASE NotifyTokenSaved(p)
  BY <1>5, MoveStep DEF NotifyTokenSaved
<1>6. CASE Release(p)
  <2>1. notified' \in [QR -> 0 .. asked]
    BY <1>6 DEF Release
  <2> QED
    BY <1>6, <2>1, MoveStep DEF Release
<1>7. CASE UpdateWechat(p)
  <2>1. saved' \in 0 .. asked
    BY <1>7 DEF UpdateWechat
  <2> QED
    BY <1>7, <2>1, MoveStep DEF UpdateWechat
<1>8. CASE SetStatus(p)
  BY <1>8, MoveStep DEF SetStatus
<1>9. CASE Leave(p)
  <2> USE <1>9, LoginAssumption DEF Leave, Goto, IInv, TypeOK, tokenVars,
        observed, Places
  <2>1. p <= asked /\ asked' = asked
    OBVIOUS
  <2>2. poller' = [poller EXCEPT ![p] = "gone"] /\ poller[p] = "leave"
    OBVIOUS
  <2>3. /\ poller' \in [QR -> Places]
        /\ cancelled' \subseteq 1 .. asked'
        /\ mu' \in 0 .. asked' /\ (mu' # 0 => poller'[mu'] = "release")
    <3>1. mu # 0 => mu # p /\ mu \in QR
      BY <2>1, <2>2
    <3> QED
      BY <2>1, <2>2, <3>1
  <2>4. /\ asked' \in 0 .. MaxQR /\ qrPollCancel' \in 0 .. asked'
        /\ notified' \in [QR -> 0 .. asked'] /\ confirmed' \subseteq 1 .. asked'
    BY <2>1
  <2>5. qrPolling' \in BOOLEAN
    BY Zenon
  <2>6. /\ botToken' \in 0 .. asked' /\ saved' \in 0 .. asked'
        /\ status' \in {"connected", "disconnected"} /\ running' \in BOOLEAN
        /\ leaving' \in {"idle", "stopping", "clear"}
        /\ wiped' \in BOOLEAN /\ overlapped' \in BOOLEAN
    BY <2>1
  <2>7. TypeOK'
    BY ONLY <2>3, <2>4, <2>5, <2>6 DEF TypeOK
  <2>8. (\A q \in QR : poller[q] = "none" <=> q > asked)'
    BY <2>1, <2>2
  <2>9. CancelIsLive'
    BY DEF CancelIsLive
  <2> HIDE <1>9 DEF TypeOK
  <2> QED
    BY <2>7, <2>8, <2>9
<1> QED
  BY <1>1, <1>2, <1>3, <1>4, <1>5, <1>6, <1>7, <1>8, <1>9 DEF Poller, Polling

\* The phone, the time-out and the disconnect touch no poller.
LEMMA OtherStep ==
  ASSUME IInv,
         \/ Stop \/ Stopped \/ ClearToken \/ GoesDown
         \/ (\E p \in QR : Scan(p) \/ Timeout(p)) \/ UNCHANGED vars
  PROVE  IInv'
<1> USE LoginAssumption DEF IInv, TypeOK, CancelIsLive, qrVars, tokenVars,
      observed, Places
<1>1. CASE Stop
  BY <1>1 DEF Stop
<1>2. CASE Stopped
  BY <1>2 DEF Stopped
<1>3. CASE ClearToken
  BY <1>3 DEF ClearToken
<1>4. ASSUME NEW p \in QR, Scan(p) PROVE IInv'
  BY <1>4 DEF Scan
<1>5. ASSUME NEW p \in QR, Timeout(p) PROVE IInv'
  BY <1>5 DEF Timeout
<1>6. CASE UNCHANGED vars
  BY <1>6 DEF vars
<1>7. CASE GoesDown
  BY <1>7 DEF GoesDown
<1> QED
  BY <1>1, <1>2, <1>3, <1>4, <1>5, <1>6, <1>7

-----------------------------------------------------------------------------
\* Types, the numbering of the codes and CancelIsLive hold in every reachable
\* state, whatever overlaps.
THEOREM Invariance == Spec => []IInv
<1>1. Init => IInv
  <2> SUFFICES ASSUME Init PROVE IInv
    OBVIOUS
  <2>1. PICK restored \in BOOLEAN :
          /\ asked = IF restored THEN 1 ELSE 0
          /\ poller = [p \in QR |-> IF p <= asked THEN "gone" ELSE "none"]
          /\ status = IF restored THEN "connected" ELSE "disconnected"
          /\ running = restored
    BY Zenon DEF Init
  <2>2. asked \in {0, 1} /\ asked <= MaxQR /\ MaxQR \in Nat
    BY <2>1, LoginAssumption
  <2>3. TypeOK
    <3>1. poller \in [QR -> Places] /\ notified \in [QR -> 0 .. asked]
      BY <2>1, <2>2 DEF Init, Places
    <3>2. /\ qrPolling \in BOOLEAN /\ running \in BOOLEAN
          /\ wiped \in BOOLEAN /\ overlapped \in BOOLEAN
      BY <2>1, Zenon DEF Init
    <3>3. /\ asked \in 0 .. MaxQR /\ qrPollCancel \in 0 .. asked
          /\ botToken \in 0 .. asked /\ saved \in 0 .. asked
          /\ mu = 0 /\ mu \in 0 .. asked /\ leaving = "idle"
          /\ cancelled = 1 .. asked /\ confirmed = 1 .. asked
      BY <2>2 DEF Init
    <3> QED
      BY <2>1, <3>1, <3>2, <3>3 DEF TypeOK
  <2> QED
    BY <2>1, <2>2, <2>3 DEF Init, IInv, CancelIsLive
<1>2. IInv /\ [Next]_vars => IInv'
  <2> SUFFICES ASSUME IInv, [Next]_vars PROVE IInv'
    OBVIOUS
  <2> QED
    BY RefreshStep, PollerStep, OtherStep DEF Next
<1> QED
  BY <1>1, <1>2, PTL DEF Spec

\* StartQRPolling never calls the cancel function of a poller that has ended,
\* and there is a poller wherever one is recorded.
THEOREM CancelFunctionIsLive == Spec => []CancelIsLive
<1>1. IInv => CancelIsLive
  BY DEF IInv
<1> QED
  BY <1>1, Invariance, PTL

-----------------------------------------------------------------------------
(* The token in memory and the token in config.json.                       *)

Agree == saved = botToken \/ (saved = 0 /\ wiped)

\* What TokensAgree rests on: as long as no two logins overlapped there is at
\* most one, whose token is the one in memory and on its way to config.json.
OneLogin ==
  ~overlapped =>
    /\ \A p, q \in LoggingIn : p = q
    /\ \A p \in LoggingIn :
         /\ botToken = p
         /\ poller[p] = "save" => notified[p] = botToken
         /\ poller[p] = "status" => Agree
    /\ LoggingIn = {} => Agree

\* A login begins; an overlap with another is recorded.
LEMMA LoginBegins ==
  ASSUME IInv, OneLogin, NEW p \in QR, SetToken(p) PROVE OneLogin'
<1> SUFFICES ASSUME ~overlapped' PROVE OneLogin'
  BY DEF OneLogin
<1>1. LoggingIn = {} /\ botToken' = p
  BY DEF SetToken
<1>2. \A q \in QR : poller'[q] = IF q = p THEN "start" ELSE poller[q]
  BY DEF SetToken, Goto, IInv, TypeOK
<1>3. LoggingIn' = {p}
  BY <1>1, <1>2 DEF LoggingIn
<1> QED
  BY <1>1, <1>2, <1>3 DEF OneLogin

\* A login goes on: it takes the token it set to config.json and ends.
LEMMA LoginGoesOn ==
  ASSUME IInv, OneLogin, NEW p \in QR, Poller(p), ~SetToken(p) PROVE OneLogin'
<1> SUFFICES ASSUME ~overlapped' PROVE OneLogin'
  BY DEF OneLogin
<1>0. UNCHANGED <<botToken, wiped, overlapped>>
  BY DEF Poller, Polling, Starting, Wait, CheckQRCodeStatus, StartSignal,
         StartFresh, StartSpawn, NotifyTokenSaved, Release, UpdateWechat,
         SetStatus, Leave, tokenVars, observed
<1>1. /\ \A q, r \in LoggingIn : q = r
      /\ \A q \in LoggingIn : botToken = q
      /\ LoggingIn = {} => Agree
      /\ p \in LoggingIn /\ poller[p] = "save" => notified[p] = botToken
      /\ p \in LoggingIn /\ poller[p] = "status" => Agree
  BY <1>0 DEF OneLogin
<1>2. \A q \in QR : q # p => poller'[q] = poller[q] /\ notified'[q] = notified[q]
  BY DEF Poller, Polling, Starting, Wait, CheckQRCodeStatus, StartSignal,
         StartFresh, StartSpawn, NotifyTokenSaved, Release, UpdateWechat,
         SetStatus, Leave, Goto, IInv, TypeOK
<1>3. poller \in [QR -> Places]
  BY DEF IInv, TypeOK
<1>4. CASE p \notin LoggingIn
  <2>1. poller'[p] \in {"wait", "check", "token", "leave", "gone"}
        /\ UNCHANGED saved
    BY <1>3, <1>4
       DEF Poller, Polling, Starting, Wait, CheckQRCodeStatus, StartSignal,
           StartFresh, StartSpawn, NotifyTokenSaved, Release, UpdateWechat,
           SetStatus, Leave, Goto, LoggingIn, tokenVars
  <2>2. LoggingIn' = LoggingIn
    BY <1>2, <1>4, <2>1 DEF LoggingIn
  <2>3. \A q \in LoggingIn : q # p /\ q \in QR
    BY <1>4 DEF LoggingIn
  <2> QED
    BY <1>0, <1>2, <2>1, <2>2, <2>3 DEF OneLogin, Agree
<1>5. CASE p \in LoggingIn
  <2>1. LoggingIn = {p} /\ botToken = p
    BY <1>1, <1>5
  <2>2. LoggingIn' \subseteq {p}
    <3>1. ASSUME NEW q \in LoggingIn', q # p PROVE FALSE
      BY <1>2, <2>1, <3>1 DEF LoggingIn
    <3> QED
      BY <3>1
  <2>3. \/ poller'[p] \in {"starting", "spawn", "notify", "release"}
        \/ poller'[p] = "save" /\ notified'[p] = botToken
        \/ poller'[p] = "status" /\ saved' = botToken
        \/ poller[p] = "status" /\ poller'[p] = "leave" /\ saved' = saved
    <3>1. CASE Starting(p)
      BY <1>3, <3>1 DEF Starting, StartSignal, StartFresh, StartSpawn, Goto
    <3>2. CASE NotifyTokenSaved(p)
      BY <1>3, <3>2 DEF NotifyTokenSaved, Goto
    <3>3. CASE Release(p)
      BY <1>3, <3>3 DEF Release, Goto, IInv, TypeOK
    <3>4. CASE UpdateWechat(p)
      BY <1>1, <1>3, <1>5, <3>4 DEF UpdateWechat, Goto
    <3>5. CASE SetStatus(p)
      BY <1>3, <3>5 DEF SetStatus, Goto
    <3>6. CASE Wait(p) \/ CheckQRCodeStatus(p) \/ Leave(p)
      BY <1>5, <3>6 DEF Wait, CheckQRCodeStatus, Leave, LoggingIn
    <3> QED
      BY <3>1, <3>2, <3>3, <3>4, <3>5, <3>6 DEF Poller, Polling
  <2>4. CASE poller'[p] = "leave" /\ poller[p] = "status" /\ saved' = saved
    <3>1. Agree'
      BY <1>0, <1>1, <1>5, <2>4 DEF Agree
    <3>2. LoggingIn' = {}
      BY <2>2, <2>4 DEF LoggingIn
    <3> QED
      BY <3>1, <3>2 DEF OneLogin
  <2>5. CASE poller'[p] \in {"starting", "spawn", "notify", "release", "save",
                             "status"}
    <3>1. LoggingIn' = {p}
      BY <2>2, <2>5 DEF LoggingIn
    <3> QED
      BY <1>0, <2>1, <2>3, <2>5, <3>1 DEF OneLogin, Agree
  <2> QED
    BY <2>3, <2>4, <2>5
<1> QED
  BY <1>4, <1>5

\* Unless two confirmed logins overlapped, the next start continues the session
\* of this one, or a disconnect that came after the login has cleared it.
THEOREM NextStartContinues == Spec => []TokensAgree
<1>1. Init => OneLogin
  <2> SUFFICES ASSUME Init PROVE OneLogin
    OBVIOUS
  <2>1. \A p \in QR : poller[p] \in {"gone", "none"}
    BY DEF Init
  <2>2. LoggingIn = {}
    BY <2>1 DEF LoggingIn
  <2> QED
    BY <2>2 DEF Init, OneLogin, Agree
<1>2. IInv /\ OneLogin /\ [Next]_vars => OneLogin'
  <2> SUFFICES ASSUME IInv, OneLogin, [Next]_vars PROVE OneLogin'
    OBVIOUS
  <2>1. ASSUME NEW p \in QR, Poller(p) PROVE OneLogin'
    BY <2>1, LoginBegins, LoginGoesOn
  <2>2. CASE ClearToken
    BY <2>2 DEF ClearToken, OneLogin, Agree, LoggingIn
  <2>3. CASE StartQRPolling
    <3>1. \A p \in QR : p \in LoggingIn' <=> p \in LoggingIn
      BY <2>3, LoginAssumption DEF StartQRPolling, LoggingIn, IInv, TypeOK
    <3>2. LoggingIn' = LoggingIn
      BY <3>1 DEF LoggingIn
    <3>3. \A p \in LoggingIn : poller'[p] = poller[p]
      BY <2>3, LoginAssumption DEF StartQRPolling, LoggingIn, IInv, TypeOK
    <3> QED
      BY <2>3, <3>2, <3>3
         DEF StartQRPolling, OneLogin, Agree, tokenVars, observed
  <2>4. CASE \/ Stop \/ Stopped \/ GoesDown \/ UNCHANGED vars
             \/ \E p \in QR : Scan(p) \/ Timeout(p)
    <3>1. UNCHANGED <<poller, notified, botToken, saved, wiped, overlapped>>
      BY <2>4 DEF Stop, Stopped, GoesDown, Scan, Timeout, vars, tokenVars,
                  observed
    <3> QED
      BY <3>1 DEF OneLogin, Agree, LoggingIn
  <2> QED
    BY <2>1, <2>2, <2>3, <2>4 DEF Next
<1>3. OneLogin => TokensAgree
  BY DEF OneLogin, Agree, TokensAgree, Quiet
<1> QED
  BY <1>1, <1>2, <1>3, Invariance, PTL DEF Spec
=============================================================================
