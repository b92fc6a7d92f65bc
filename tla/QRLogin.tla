------------------------------ MODULE QRLogin ------------------------------
(***************************************************************************)
(* Logging in from the web page: StartQRPolling (client.go) with the       *)
(* pollers it starts, the OnTokenSaved callback of main.go, and the        *)
(* disconnect handler (api/wechat.go) that may run at the same time.  A    *)
(* poller, its QR code, its context and the token it yields share a        *)
(* number; token 0 is the empty one.  Start and Stop are PollLoop's: here  *)
(* they say whether the current stopCh is open; Session puts PollLoop in.  *)
(* c.mu is modelled because README.md describes the deadlock of a callback *)
(* that was made under it.                                                 *)
(***************************************************************************)
EXTENDS Naturals, FiniteSets

CONSTANTS MaxQR, MaxScans   \* bounds

ASSUME LoginAssumption == MaxQR \in Nat \ {0} /\ MaxScans \in Nat

VARIABLES
  asked,                     \* QR codes shown so far
  qrPollCancel, qrPolling,   \* under qrPollMu; the cancel function or 0
  poller, notified,          \* each poller: where it is, the token it saves
  cancelled,                 \* contexts that are cancelled or timed out
  confirmed,                 \* QR codes the user confirmed
  mu,                        \* who holds c.mu, or 0
  botToken, status,          \* under c.mu
  running,                   \* there is a stopCh that is not closed
  saved,                     \* bot_token of config.json
  leaving,                   \* where the disconnect handler is
  (* observations *)
  wiped,                     \* no login began since the token was cleared
  overlapped                 \* a login overlapped another

QR == 1 .. MaxQR
qrVars    == <<asked, qrPollCancel, qrPolling, cancelled>>
tokenVars == <<mu, botToken, status, running, saved>>
observed  == <<wiped, overlapped>>
vars == <<qrVars, poller, notified, confirmed, tokenVars, leaving, observed>>

Live == {p \in QR : poller[p] \notin {"none", "gone"}}
LoggingIn == {p \in QR : poller[p] \in {"start", "starting", "spawn", "notify",
                                       "release", "save", "status"}}

\* A session that main restored from config.json counts as login 1.
Init ==
  /\ \E restored \in BOOLEAN :
       /\ asked = IF restored THEN 1 ELSE 0
       /\ poller = [p \in QR |-> IF p <= asked THEN "gone" ELSE "none"]
       /\ status = IF restored THEN "connected" ELSE "disconnected"
       /\ running = restored
  /\ cancelled = 1 .. asked /\ confirmed = 1 .. asked
  /\ botToken = asked /\ saved = asked
  /\ qrPollCancel = 0 /\ qrPolling = FALSE
  /\ notified = [p \in QR |-> 0] /\ mu = 0 /\ leaving = "idle"
  /\ wiped = FALSE /\ overlapped = FALSE

-----------------------------------------------------------------------------
\* HandleGetQRCode, in the locked section of StartQRPolling.
StartQRPolling ==
  /\ asked < MaxQR
  /\ asked' = asked + 1
  /\ cancelled' = cancelled \cup ({qrPollCancel} \ {0})
  /\ qrPollCancel' = asked' /\ qrPolling' = TRUE
  /\ poller' = [poller EXCEPT ![asked'] = "wait"]
  /\ UNCHANGED <<notified, confirmed, tokenVars, leaving, observed>>

\* The user confirms on the phone any code that was shown.
Scan(q) ==
  /\ q <= asked /\ q \notin confirmed /\ Cardinality(confirmed) < MaxScans
  /\ confirmed' = confirmed \cup {q}
  /\ UNCHANGED <<qrVars, poller, notified, tokenVars, leaving, observed>>

\* Ten minutes.
Timeout(p) ==
  /\ p \in Live \ cancelled
  /\ cancelled' = cancelled \cup {p}
  /\ UNCHANGED <<asked, qrPollCancel, qrPolling, poller, notified, confirmed,
                 tokenVars, leaving, observed>>

Goto(p, pc) == poller' = [poller EXCEPT ![p] = pc]

\* What the steps inside a poller leave alone.
PollerOnly == UNCHANGED <<qrVars, confirmed, leaving>>

\* When both are ready the select may take either.
Wait(p) ==
  /\ poller[p] = "wait"
  /\ Goto(p, "check") \/ (p \in cancelled /\ Goto(p, "leave"))
  /\ PollerOnly /\ UNCHANGED <<notified, tokenVars, observed>>

\* The request does not carry the context that is cancelled; it may fail.
CheckQRCodeStatus(p) ==
  /\ poller[p] = "check"
  /\ Goto(p, "wait") \/ (p \in confirmed /\ Goto(p, "token"))
  /\ PollerOnly /\ UNCHANGED <<notified, tokenVars, observed>>

SetToken(p) ==
  /\ poller[p] = "token" /\ mu = 0
  /\ botToken' = p
  /\ wiped' = FALSE
  /\ overlapped' = (overlapped \/ LoggingIn # {})
  /\ Goto(p, "start")
  /\ PollerOnly /\ UNCHANGED <<notified, mu, status, running, saved>>

\* Start closes the old stopCh if pollRunning is set, and makes a new one.
StartSignal(p) ==
  /\ poller[p] = "start" /\ mu = 0
  /\ running' \in {FALSE, running}
  /\ Goto(p, "starting")
  /\ PollerOnly /\ UNCHANGED <<notified, mu, botToken, status, saved, observed>>
StartFresh(p) ==
  /\ poller[p] = "starting" /\ mu = 0
  /\ running' = TRUE
  /\ Goto(p, "spawn")
  /\ PollerOnly /\ UNCHANGED <<notified, mu, botToken, status, saved, observed>>
StartSpawn(p) ==
  /\ poller[p] = "spawn" /\ mu = 0
  /\ status' = "connected"
  /\ Goto(p, "notify")
  /\ PollerOnly /\ UNCHANGED <<notified, mu, botToken, running, saved, observed>>

\* NotifyTokenSaved reads under the lock, releases it and calls OnTokenSaved.
NotifyTokenSaved(p) ==
  /\ poller[p] = "notify" /\ mu = 0
  /\ mu' = p
  /\ Goto(p, "release")
  /\ PollerOnly
  /\ UNCHANGED <<notified, botToken, status, running, saved, observed>>

CallsUnderLock(p) ==
  /\ poller[p] = "release"
  /\ notified' = [notified EXCEPT ![p] = botToken]
  /\ Goto(p, "save")
  /\ PollerOnly /\ UNCHANGED <<tokenVars, observed>>
Release(p) ==
  /\ poller[p] = "release"
  /\ notified' = [notified EXCEPT ![p] = botToken] /\ mu' = 0
  /\ Goto(p, "save")
  /\ PollerOnly /\ UNCHANGED <<botToken, status, running, saved, observed>>

\* OnTokenSaved: UpdateWechat, then SetStatus and StartReconnectTimer.
SkipsUpdate(p) ==
  /\ poller[p] = "save"
  /\ Goto(p, "status")
  /\ PollerOnly /\ UNCHANGED <<notified, tokenVars, observed>>
UpdateWechat(p) ==
  /\ poller[p] = "save"
  /\ saved' = notified[p]
  /\ Goto(p, "status")
  /\ PollerOnly /\ UNCHANGED <<notified, mu, botToken, status, running, observed>>

SetStatus(p) ==
  /\ poller[p] = "status" /\ mu = 0
  /\ status' = "connected"
  /\ Goto(p, "leave")
  /\ PollerOnly /\ UNCHANGED <<notified, mu, botToken, running, saved, observed>>

\* The deferred function clears the fields, whosever they are by now.
LeavesFields(p) ==
  /\ poller[p] = "leave"
  /\ cancelled' = cancelled \cup {p}
  /\ Goto(p, "gone")
  /\ UNCHANGED <<asked, qrPollCancel, qrPolling, notified, confirmed, tokenVars,
                 leaving, observed>>
Leave(p) ==
  /\ poller[p] = "leave"
  /\ qrPolling' = FALSE /\ qrPollCancel' = 0
  /\ cancelled' = cancelled \cup {p}
  /\ Goto(p, "gone")
  /\ UNCHANGED <<asked, notified, confirmed, tokenVars, leaving, observed>>

Starting(p) == StartSignal(p) \/ StartFresh(p) \/ StartSpawn(p)
Polling(p) ==
  \/ Wait(p) \/ CheckQRCodeStatus(p) \/ SetToken(p) \/ NotifyTokenSaved(p)
  \/ Release(p) \/ UpdateWechat(p) \/ SetStatus(p) \/ Leave(p)
Poller(p) == Polling(p) \/ Starting(p)

-----------------------------------------------------------------------------
(* HandleDisconnect: Stop, in its two halves, then UpdateWechat("").       *)

Stop ==
  /\ leaving = "idle" /\ mu = 0
  /\ running' = FALSE
  /\ leaving' = "stopping"
  /\ UNCHANGED <<qrVars, poller, notified, confirmed, mu, botToken, status, saved,
                 observed>>

Stopped ==
  /\ leaving = "stopping" /\ mu = 0
  /\ status' = "disconnected"
  /\ leaving' = "clear"
  /\ UNCHANGED <<qrVars, poller, notified, confirmed, mu, botToken, running,
                 saved, observed>>

ClearToken ==
  /\ leaving = "clear"
  /\ saved' = 0 /\ wiped' = TRUE
  /\ leaving' = "idle"
  /\ UNCHANGED <<qrVars, poller, notified, confirmed, mu, botToken, status,
                 running, overlapped>>

\* A poll error, or the reconnect timer at the end of the session, whose
\* "expired" is one with "disconnected" here.
GoesDown ==
  /\ mu = 0 /\ status' = "disconnected"
  /\ UNCHANGED <<qrVars, poller, notified, confirmed, mu, botToken, running,
                 saved, leaving, observed>>

Next ==
  \/ StartQRPolling \/ Stop \/ Stopped \/ ClearToken \/ GoesDown
  \/ \E p \in QR : Poller(p) \/ Scan(p) \/ Timeout(p)

Spec == Init /\ [][Next]_vars

\* Goroutines run, contexts time out, a select does not pass over a context
\* that is done for ever.
Fairness ==
  /\ \A p \in QR : WF_vars(Poller(p)) /\ WF_vars(Timeout(p))
  /\ \A p \in QR : SF_vars(Wait(p) /\ poller'[p] = "leave")

FairSpec == Spec /\ Fairness

-----------------------------------------------------------------------------
Places == {"none", "wait", "check", "token", "start", "starting", "spawn",
           "notify", "release", "save", "status", "leave", "gone"}

TypeOK ==
  /\ asked \in 0 .. MaxQR /\ qrPollCancel \in 0 .. asked
  /\ qrPolling \in BOOLEAN
  /\ poller \in [QR -> Places] /\ notified \in [QR -> 0 .. asked]
  /\ cancelled \subseteq 1 .. asked /\ confirmed \subseteq 1 .. asked
  /\ mu \in 0 .. asked /\ (mu # 0 => poller[mu] = "release")
  /\ botToken \in 0 .. asked /\ saved \in 0 .. asked
  /\ status \in {"connected", "disconnected"} /\ running \in BOOLEAN
  /\ leaving \in {"idle", "stopping", "clear"}
  /\ wiped \in BOOLEAN /\ overlapped \in BOOLEAN

\* The function StartQRPolling will call belongs to a poller that still runs,
\* so that a poller that ended has not left the next refresh a stale one.
CancelIsLive == qrPollCancel # 0 => qrPollCancel \in Live

\* Inductive: what CancelIsLive rests on is that codes are numbered in order.
IInv ==
  /\ TypeOK
  /\ \A p \in QR : poller[p] = "none" <=> p > asked
  /\ CancelIsLive

\* Nobody is in the middle of logging in or of disconnecting.
Quiet == leaving = "idle" /\ LoggingIn = {}

\* The next start continues the session of this one: unless two confirmed
\* logins overlapped, memory and config.json agree on the token, or it was
\* cleared by a disconnect after the login began.
TokensAgree ==
  Quiet /\ ~overlapped => saved = botToken \/ (saved = 0 /\ wiped)

\* Every poller ends: it logs in, is cancelled or times out, and no request
\* to the server waits for ever for a lock it holds.
PollersEnd == \A p \in QR : p \in Live ~> p \notin Live

-----------------------------------------------------------------------------
(* What the documentation says and the code does not do.                   *)

\* README.md: a single poller in the background; client.go: a running poller
\* is cancelled and replaced.
OnePoller == Cardinality(Live \ cancelled) <= 1

\* wechat.go: Disconnect clears the saved token "so restart doesn't
\* auto-reconnect": no login that had begun before comes back.
TokenStaysCleared == Quiet /\ wiped => saved = 0

\* wechat.go: the status endpoint says "connected" of a connected client.
ConnectedMeansRunning == Quiet => (status = "connected" => running)
=============================================================================
