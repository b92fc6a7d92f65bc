# A verification project for wechat-bot-server

`wechat-bot-server` connects a WeChat bot account (through the iLink HTTP API)
with local programs: they send texts and files through a small HTTP API and pull
what users wrote. The server is one process with many goroutines that share a
few mutex-protected structures. These modules model its stateful parts, TLC
checks them on small instances, and TLAPS proves the central invariants for all
instances. File names below are relative to `src/`.

## 1. The system

| Component | Code | State | Operations |
|---|---|---|---|
| Message budget and buffer | `internal/budget/manager.go` | `sendBudget`, `bufferMode`, `msgBuffer`, two limits (one mutex) | `BudgetedSend`, `BudgetedSendMedia`, `OnUserMessage`, `doFlush`, `SetLimits` |
| Incoming queue | `internal/queue/queue.go` | `messages` | `Push`, `List(since)`, `Clear` |
| Media upload | `internal/wechat/cdn.go`, `client.go` 317-452, `api/wechat_bot.go` 78-113 | none of its own; a file, the CDN | check, read, `GetUploadURL`, `UploadToCDN`, `Send*` |
| Configuration store | `internal/config/config.go` | configuration, `config.json`, `config.json.tmp` | `Update*`, `Save`, `load` |
| Poll loop | `internal/wechat/client.go` 454-598 | `stopCh`, `done`, `pollCtx`, `pollRunning`, status, cursor, `msgCh` | `Start`, `Stop`, `pollLoop` |
| QR login | `client.go` 124-136, 219-279, `api/wechat.go` 26-40, 93-103 | `qrPollCancel`, `qrPolling`, token, status | `StartQRPolling`, `NotifyTokenSaved`, `HandleDisconnect` |
| Reconnect timer | `internal/wechat/reconnect.go` | `reconnectStopCh`, the timer's locals, `pollStop`, `resultCh` | `StartReconnectTimer`, `pollQRCodeConfirmation` |
| Start-up and exit | `cmd/wechat-bot-server/main.go`, `internal/tray/` | the port | port search, server goroutine, pipeline goroutine, quit, shutdown |
| Router, page, scripts, skill, build | `internal/server/router.go`, `embed.go`, `web/`, `scripts/`, `skills/`, `.github/` | none | glue, presentation, tools |

How they interact:

- Every HTTP request runs in its own goroutine and calls the Manager, the queue,
  the Client or the configuration store, each under its own lock and never under
  two at once.
- `pollLoop` polls the iLink server, records the last contact and puts messages on
  `msgCh` (capacity 100). The pipeline goroutine of `main.go` takes them, saves
  the contact, calls `OnUserMessage` (which resets the budget and flushes the
  buffer with API calls outside the lock) and pushes them into the queue.
- A login is confirmed by a poller goroutine, which calls `SetToken`, `Start` and
  the callback `OnTokenSaved`: configuration, status, a new reconnect timer.
- The reconnect timer starts another kind of poller, which confirms a renewal and
  restarts the timer from inside.

What is hard: test-and-decrement and copy-and-clear in critical sections with
calls between them; fields that several goroutines replace while loops read them
without the lock; deferred functions that clear a successor's state; whatever
happens between a read and the step that relies on it; kills between writes;
time stamps and sizes at a boundary. `PROJECT.json` lists these hazards by line,
each with the properties that cover it or the reason why none does.

## 2. The modules

| Module | Models | Run module | Proofs |
|---|---|---|---|
| `MessageBudget` | budget, buffer, send handlers, pipeline, flush | `MCMessageBudget` | `MessageBudgetProofs` |
| `IncomingQueue` | queue, stamping, incremental clients | `MCIncomingQueue` | `IncomingQueueProofs` |
| `MediaUpload` | check, read, upload, message; sizes | `MCMediaUpload` | `MediaUploadProofs` |
| `DurableConfig` | abstract store: a save is one step | | |
| `ConfigStore` | the store as coded; implements `DurableConfig` | `MCConfigStore` | `ConfigStoreProofs` |
| `Delivery` | abstract: what becomes of the messages that are polled | | `PollLoopProofs` |
| `PollLoop` | `Start`, `Stop`, `pollLoop`; implements `Delivery` | itself | `PollLoopProofs` |
| `QRLogin` | QR pollers, callback, disconnect | itself | `QRLoginProofs` |
| `Session` | `QRLogin` on top of `PollLoop` | itself | `PollLoopProofs` |
| `Reconnect` | timer and confirmation pollers | itself | `ReconnectProofs` |
| `Program` | port search, published port, bind, quit, shutdown | itself | `ProgramProofs` |

The `MC` modules add a symmetry set and nothing else. In each module a locked
section of the code is one action and everything done outside the lock is
another; variables have the names of the fields. Variables under the comment
"observations" record what happened for the properties and guard nothing. Some
definitions come in several forms: those that stand before an operator and are
named for a slip (`SpendsLastTwice`, `IgnoresRenameError`, ...) are faulty variants of
it. `PROJECT.json` pairs each with the property that it breaks; they are no part
of the specifications.

**MessageBudget.** `HandleSend` resolves the recipient, `BudgetedSend` is the
locked section (`Spend` or `EnterBuffer`), `FinishSend` and
`sendBufferActivationReminder` are the calls after it. `ReceiveMessage` and
`Enqueue` are the two steps of `pollLoop` that matter here. `OnUserMessage` is
the locked section of that method, `BeginFlush` reads the contact, and
`FlushText`, `FlushFile` and `FlushFallback` are the calls of `doFlush`. A
payload is an id, given out in the order of the locked sections. The API call of
a direct send may fail; the caller's answers "sent" and "error" are one
(`"called"`), since nothing else depends on them.

**IncomingQueue.** Time is a number of ticks, a time stamp a number of seconds.
The pipeline stamps a message and pushes it in a later step. `HandleGetMessages`
is the client described on the API page, which passes the time stamp of the last
message it got; that client is an assumption about how the API is used.

**MediaUpload.** A ciphertext is its length, key and plaintext; `pkcs7Pad` and
`computeCiphertextSize` are the arithmetic of the code. The file is somebody
else's and may be rewritten at any step. Every call may fail, with or without
its effect.

**ConfigStore.** A value is the number of the update that wrote it.
`UpdateField` is the first locked section of the `Update*` methods; `BeginSave`,
`WriteFile` and `Rename` lie inside the second, which holds the lock (`holder`)
all the while. `Load`, `LoadDefaults` and `LoadFails` are a start after a kill
at any point: they are always enabled (up to `MaxStarts`).

**PollLoop.** `gen` numbers the `stopCh`/`done`/`pollCtx` that `Start` makes in
one section. A loop reads the fields without the lock and so gets the `gen` of
that moment; inside a blocking `select` it keeps the one it read (`ch`). A
closed channel that is closed again sets `panicked`. `ImplementsDelivery` maps
the server's messages, the cursor, the batch of the loop that delivers and what
has gone through `msgCh` to the variables of **Delivery**, whose only loss is
`Drop`, allowed while the loop is told to stop.

**QRLogin.** A poller, its code, its context and the token it yields share a
number. `mu` is modelled only here, for the deadlock README.md describes;
`CallsUnderLock` is the old code and breaks `PollersEnd`. `Start` and `Stop` are
taken apart where others may step in between, but say only whether there is an
open `stopCh` (`running`).

**Session** extends `PollLoop` with an instance of `QRLogin`: a step of `Start`, of
`Stop` or of `OnTokenSaved` is a step of both at once, every other step is one of
either. `running` is replaced by `gen > 0 /\ gen \notin stopClosed`, the status is
shared, poller `p` is starter `p` and the disconnect handler is stopper 0. The
pollers begin where they are about to set the token: how they get there is
checked in `QRLogin`. Messages are left to `PollLoop`: none arrives.

**Reconnect.** Timer `t` has been told to stop by its `reconnectStopCh` iff
`t < timers`. `Tick` reads status and login time, `ForceExpiry` and `GetQRCode` act
later on what was read. `Start` appears as a new `c.stopCh`, the old one being
closed, as it does whenever a loop runs. The hours are constants: `main` copies
them once, and a `PUT /settings` reaches no timer. That a reminder is repeated
changes no state of the program but its own time and is left out.

**Program** is the main goroutine with those it hands the port to. A port
between 1 and `LastPort` can be bound if nobody holds it; 0 stands for a missing
`web_port`. `memPort` is what the configuration manager holds and every save of any
field writes. The five seconds of the shutdown may pass at any time, and `Stop`
may never return.

## 3. What the runs check

Passing runs:

| Run | Question | Distinct states |
|---|---|---|
| `MessageBudget_safety` | no overspending; messages are lost only at the limit; flushes complete, in order, once; one reminder and a bounded number of calls a round; the buffer stays bounded | 882 978 |
| `MessageBudget_liveness` | requests are answered; a reply sends buffered media | 22 610 |
| `IncomingQueue_pull` | the queue keeps the newest; incremental pulls repeat nothing, and what they never see is newer than what they saw, or of the same second | 34 622 |
| `MediaUpload_safety` | a message matches its object; sizes agree except one byte short of a block | 8 468 |
| `ConfigStore_durable` | saved means on disk over kills; settings take effect; saves are atomic (refinement) | 25 956 |
| `PollLoop_restart` | done means gone; `Delivery` is implemented (refinement); `Stop` ends the loop; messages arrive | 64 712 |
| `QRLogin_refresh` | the cancel function is live; tokens agree; every poller ends, no deadlock | 23 156 |
| `Session_restart` | one loop whoever starts and stops; a login leaves a polling loop, a disconnect none | 933 416 |
| `Reconnect_renewal` | timer and poller agree; one confirmation; only an old session, or one just renewed, expires; sessions are watched; a dead code is dropped | 43 019 |
| `Program_port` | preference order; the search ends; config.json names the server's port; quitting ends the program | 22 284 |

`TypeOK` is the type invariant; where a module has an inductive invariant `IInv`,
`TypeOK` is its first conjunct. Those of `ConfigStore` and `Program` are proved and no
longer part of a run.

Runs that show a disagreement between the code and what its documents or
comments say (`findings` in `PROJECT.json` quotes the lines):

| Run | What TLC shows |
|---|---|
| `MessageBudget_addressee` | a message buffered for one user goes to whoever wrote last |
| `PollLoop_replaced` | an old loop clears the flag of the new one, and a third `Start` leaves two loops |

The modules state further claims of the documents, at their end under "what the
documentation says and the code does not do". They are not among the runs; TLC
refutes each one when it is put into the cfg of its module with the constants
below (those not named stay as in the cfg, with `Spec` or `SessionSpec`):

| Module | Property | Constants | What happens |
|---|---|---|---|
| `MessageBudget` | `BufferedMeansQueued` | `Limits = {1}` | a message dropped from a full buffer is answered "buffered" |
| `MessageBudget` | `RepliesWithinLimit` | `Limits = {1}` | a flush does not spend the budget |
| `MessageBudget` | `FlushKeepsKind` | `Limits = {1}` | a buffered image goes out as a file |
| `MessageBudget` | `BufferWithinLimit` | `Limits = {1}` | a lowered buffer limit is exceeded |
| `IncomingQueue` | `IncrementalPullComplete` | as in the cfg, no symmetry | a message of the same second is never pulled |
| `MediaUpload` | `DeclaredSizeIsCiphertextSize` | `FileSizes = {15, 16}` | the declared size is wrong for 16k+15 bytes |
| `MediaUpload` | `UploadWithinLimit` | `FileSizes = {16, 33}` | the size limit is checked on another version of the file |
| `ConfigStore` | `SettingsAgree` | `MaxFailures = 0`, `MaxStarts = 1` | overlapping settings requests: memory and disk differ |
| `ConfigStore` | `RejectedNotSaved` | `MaxStarts = 1` | settings answered with an error are saved later |
| `PollLoop` | `FlagMeansRunning` | as in `PollLoop_replaced.cfg` | an old loop clears the flag of the new one |
| `QRLogin` | `OnePoller` | `MaxQR = 3` | an old poller clears the cancel function of the new one: two pollers |
| `QRLogin` | `ConnectedMeansRunning` | as in the cfg | disconnect during a login: "connected" without a loop |
| `QRLogin` | `TokenStaysCleared` | as in the cfg | disconnect during a login: the token comes back |
| `Session` | `OneLoop` | `MayOverlap = TRUE` | two confirmed codes: two `Start`s, two loops, and a `done` closed twice, which panics |
| `Session` | `OneLoop` | `MayOverlook = TRUE` | a `Start` that overlooks the loop before it makes the `done` that this loop closes; the new loop's own `close` panics |
| `Reconnect` | `ExpiresOnlyAtTheEnd` | `MaxPollers = 1` | a renewed session is marked expired |
| `Program` | `FindsAPort` | `SavedPorts = {1}`, `MaxChanges = 0`, `FairSpec` | a saved port below the default: if the ports between are taken too, the search goes from the saved port up to the default and back for ever |
| `Program` | `CountsFromDefault` | as in the cfg | the search continues above the saved port |
| `Program` | `KeepsTrying` | as in the cfg | a port lost between probe and bind is not replaced |

**Bounds.** Every unbounded counter has a `Max...` constant in a guard, named as
a bound where it is declared. Two concurrent actors per kind are the least that
race; a third adds no new pair of steps, and the proofs cover any number where
there is one. `MessageBudget`: four requests overflow a buffer of two, with
budget 1 raised to 2, and two replies give three rounds, so that eviction, a
lowered limit and a flush that overlaps the next round all occur. `IncomingQueue`:
two ticks to a second and four messages into room for two. `MediaUpload`: sizes
0, 15 and 16 lie on both sides of a block, 33 above the limit of 32.
`ConfigStore`: three updates, one failure, two starts, so that a save in progress
is killed and loaded again. `PollLoop`: one goroutine starts, twice, and two
stops of another overlap it. The passing run ends at two starts because of what
`PollLoop_replaced` shows about a third, and has `MayBeLate = FALSE`: no loop outlasts
the five seconds. All of a loop's waits listen to `stopCh` or the context, but a
loop that did outlast them would be a second loop, and this run says nothing of
it. `QRLogin`: two codes, both of which may be confirmed, or a restored session
and one more code; a refresh, a late end and an overlap of two logins all occur.
`Session`: three logins, that is a restored session and two restarts, or three
logins, with disconnects and expiry at any time. Its two Booleans keep out the
two cases in which `OneLoop` is refuted, and nothing else. `Reconnect`: two timers
and two pollers, warning after one unit and expiry after two. `Program`: one port
below the default and three above it, the last always free, and two changes.

**Deadlock** is checked where the system never stops (`MessageBudget`,
`IncomingQueue`). Elsewhere the bounds stop it: a cfg with
`CHECK_DEADLOCK FALSE` says so in its first line.

**Fairness.** `Spec` and `SessionSpec` assume none. The runs with a liveness property use `FairSpec`:

- Weak fairness of each goroutine's own steps: the Go scheduler runs whatever is
  ready, and each API call ends because the HTTP clients have timeouts (60
  seconds, five minutes for the CDN, `client.go` 84-85).
- No fairness of users, API clients, other programs or failures.
- In `PollLoop` none for the pipeline either, so that a blocked channel is
  covered. In `Program` only for the main goroutine, whose timer fires: not for
  `Stop`, nor for the user who quits.
- Strong fairness where a `select` chooses between a channel that stays ready and
  a ticker: Go chooses at random, so that it does not pass over the channel for
  ever (`QRLogin`, `Reconnect`). In `Reconnect` also for a status request that
  ends the poll: it must succeed now and then.
- The ten-minute context of a QR poller is a step with weak fairness.

## 4. What is proved

TLAPS proves these for all values of the constants that satisfy the modules'
assumptions (`BudgetAssumption`, `QueueAssumption`, `UploadAssumption`,
`ConfigAssumption`, `PollAssumption`, `SessionAssumption`, `LoginAssumption`,
`ReconnectAssumption`, `PortAssumption`: bounds are naturals, limits are
positive, special values are different from the ordinary ones; callers are
numbered as the pollers are; the sizes that settings may give the buffer are
finitely many, and the default port is a port). The theorems about the loops of
`PollLoop` and `Session` have hypotheses of their own, named below.

Invariants that several properties share are in the modules as `IInv` and are
checked by the runs. Those that one proof needs are in the proof modules; TLC
has checked each on the instance of the run that has its property.

- **MessageBudget** (`Invariance`, `TypeCorrectness`, `BudgetSafety`,
  `BufferingIsConsistent`, `BufferGrowth`). The invariant `IInv` adds to the
  types the account `spent + sendBudget = granted`. `BudgetNeverOverspent`
  follows from it with `sendBudget >= 0`, and is not inductive without it. That
  `bufferMode` and the buffer agree needs that the budget is exhausted whenever
  the buffer is in use, so the two are proved together: a spend needs a positive
  budget and then finds the buffer empty; a reset collects all there is. The
  other conjuncts give the flush something to send and somebody to send it to.
- **MessageBudget, the way of a message** (`Tracking`, `AcceptOrder`,
  `MediaKept`, `SentOnce`). Order, retention and uniqueness hold each other up
  and are proved as one invariant, `Tracked`: ids are given out in the locked
  sections and what waits has distinct ones (`Accepted`); a called id waits no
  more, except the head of the flush whose `SendFile` has failed (`Called`); and
  whenever a reply is under way there is a contact, so that `BeginFlush` has
  somebody to send to (`Contacted`). Without the last a flush could drop media.
- **MessageBudget, limits** (`LossOnlyAtLimit`, `RoundBounded`, `ReminderOnce`).
  `Overflow`: the buffer consists of the round's excess, and a sort that lost
  one has `leastMax` left in the buffer, which is true when `evictOne` finds it
  full and stays true because it evicts texts first. `Room`: the calls made by a
  flush and those it can still make never exceed twice the largest buffer.
  `Reminded`: the reminder falls due when `bufferMode` is set, so that there is
  at most one more than there were resets.
- **IncomingQueue** (`Invariance`, `QueueRetainsNewest`). The queue is the
  suffix of what was pushed since the last `DELETE`, of length `min(capacity,
  count)`, by cases on a full and a not yet full queue.
- **IncomingQueue, its clients** (`PulledInOrder`, `MissedOnlyWithinASecond`).
  `PushedByClock`: one pipeline stamps and pushes, so ids and time stamps rise
  together. `Follows`: what a client was given lies before its last GET, and the
  parameter of its next one is the time of the last of it; so a GET returns only
  later ids. `List` is the loop of the code, a recursive function (`Kept`); that
  it selects what passes the test, in order, is shown without an induction
  principle, by looking at the least index at which it would not.
- **MediaUpload** (`CiphertextSize`, `Invariance`, `MessagesResolvable`,
  `DeclaredSizes`). The arithmetic of padding against the declared size is a
  lemma over all naturals; the invariant says that an upload works on what it
  read once, whatever happens to the file.
- **ConfigStore** (`Invariance`, `SavedStaysSaved`, `SettingsTakeEffect`,
  `SavesAreAtomic`). The invariant: whoever is writing holds the lock, and
  between write and rename the temporary file equals what is in memory. Without
  that, `Rename` need not be an abstract `Save`. `SavesAreAtomic` shows initial
  states and every step of `ConfigStore` to be those of `DurableConfig` or a
  stutter. `SettingsTakeEffect` needs that, as long as requests do not overlap,
  the one being answered made the settings that memory holds (`OneAsks`).
- **Delivery** (`Order`). Take, hand-over and drop keep `out \o pending`
  increasing and below the cursor.
- **PollLoop, types** (`TypeCorrect`). For any loops, callers and messages, late
  loops included: a loop and a caller hold a `gen` that was made, a loop's batch
  lies between its cursor and what the server has, and only a `select` with room
  sends.
- **PollLoop, one loop** (`DoneIsGone`, `HeededStartsReplace`). `Solo`: at most
  one loop has yet to close `done`, a closed `done` means there is none, and a
  `Start` that is about to make channels has seen the loop before it leave. It
  needs that starts do not overlap and no loop outlasts the five seconds
  (`Sequential`), and that a `Start` which finds a loop finds its flag
  (`Heeded`). `Heeded` is what the finding `PollLoop_replaced` shows the code
  not to guarantee: an old loop may clear the flag of the new one.
  `HeededStartsReplace` shows that nothing else is wrong, for any number of
  starts and stoppers. For two starts `Heeded` need not be supposed: `FirstTwo`
  shows that the second always finds the flag, since only the first loop could
  have cleared it, and it does so after it has closed `done`. That is
  `DoneIsGone`.
- **PollLoop implements Delivery** (`RestartDelivers`, `HeededStartsDeliver`).
  On top of `Solo`, `Polled` says that a poll's answer begins where the cursor
  stands. Without `Solo` two loops would store the same batch twice. Every step
  is then a step of `Delivery` or a stutter: storing the cursor takes, sending
  on `msgCh` hands over, and a loop that sees its channel closed while it
  delivers drops. With `Order`, messages reach the pipeline in order and none
  twice, for any number of stoppers, messages and failed polls.
- **Session** (`OneLoopPerSession`, `LoginLeavesLoop`, `DisconnectLeavesNone`).
  Every step of `Session` is one of `PollLoop` or a stutter, so `Solo` carries
  over, its hypothesis that starts do not overlap being proved of the logins: a
  poller is in `Start` where its caller is (`Matched`), and one login at most is
  under way (`OneLogin`). That starts are heeded is `~MayOverlook`, as in the
  run. `Up`: from the end of `Start` until a disconnect the channel is open and
  a loop works, because a loop leaves only when the channel it waits on is
  closed, which is the one of the fields (`OwnChannel`). `Down`: while somebody
  disconnects nobody logs in, so that the `done` that `Stop` has seen closed is
  the last one. Both hold until a login and a disconnect meet (`crossed`).
- **QRLogin** (`Invariance`, `CancelFunctionIsLive`, `NextStartContinues`). The
  invariant adds to the types that exactly the codes up to `asked` have a
  poller. `MoveStep` says once what every step inside a poller keeps; only a
  refresh and a poller's end are different: the end clears `qrPollCancel`
  whosever it is, which is why `CancelIsLive` holds and `OnePoller` does not.
  `NextStartContinues` adds that, until two logins overlap, one poller at most
  is between its token and the save (`OneLogin`), so that memory and file agree
  whenever nobody is under way, or a disconnect has cleared the file.
- **Reconnect** (`Invariance`, `ExpiryIsJustified`, `Confirmation`, `Watching`).
  The invariant numbers timers and pollers in the order they start and ties a
  timer's `activationStarted` to its poller; with it, a timer that has decided
  to expire a session stays justified: time only passes, a login starts a new
  timer in the same step, and a renewal has set the login time but is still on
  its way to a new timer. `Confirmation` adds that only its own timer lets go of
  a poller, and tells it to stop when it does (`Owned`); `Watching` that the
  newest timer selects on the channel of the running loop (`Watched`).
- **Program** (`PublishedPort`, `PreferredPort`). What the manager holds is the
  copy of the start until the search is over and the port from then on, and the
  file agrees with the manager after every save that succeeds. For the order of
  preference, every port that the search has passed was taken when it was probed
  (`Searched`).

Only model-checked: the liveness properties, which are out of the prover's reach
(`ENABLED`), and the two findings, which are refutations. Every safety invariant
of the passing runs is proved.

## 5. What is not modelled

- Router, page, scripts, skill, build: no state of the server. The goroutine of
  `router.go` 89-100 that opens the browser, and the texts of the tray's menu, change
  none either.
- `HandleGetStatus`, `Info`, `Size`: they only read. The unlocked read of
  `sendBudget` for an answer (`manager.go` 102, 125) is a data race on a number
  that is only shown.
- `TriggerRelogin`: nothing calls it.
- Headers, JSON, message parsing and the texts of reminders: no property is about
  them.
- Power failures: a kill loses the process, not what the operating system holds.
- `config.json` with values out of range: the API refuses them
  (`api/wechat.go` 122-137), an edited file could hold them. A `web_port` above
  65535, or no free port from the saved one on, lets the search of `main.go` 102-114
  count for ever.
- What the exit cuts off: `ConfigStore` covers a kill at any moment; messages in
  `msgCh`, the buffer and the queue live in memory only.

## 6. Plan

The order of the plan follows what a user loses when a part is wrong: messages
(budget, queue, upload, poll loop), then settings and the session (configuration,
login, renewal), then the port.

1. Done: the modules above, their runs, and the proofs of section 4.
2. Done: the composition `Session`, the abstract specification `Delivery` and its
   refinement by `PollLoop`, the main goroutine (`Program`), proofs about
   `Reconnect`, `Program`, the way of a message through budget and queue, and the
   poll loop with its refinement.
3. Compositions: `Session` with the timer of `Reconnect`, so that a renewal meets a
   disconnect with the real `Start` and `Stop`; `PollLoop` with the pipeline, the
   budget and the queue, from the server's message to the client's pull.
4. An abstract specification of the budget (rounds with at most `granted` calls).
5. Proofs: done for every safety invariant of the runs; to do for what the
   compositions and the abstract budget will state.
6. Late loops (`MayBeLate`) in a reduced `PollLoop`.
